------------------------- MODULE RecordConfigProofs -------------------------
(***************************************************************************)
(* Proofs about the record configuration: a saved configuration survives   *)
(* any number of ends and starts of the process, and between requests the  *)
(* recorder task decides by no invalid period, whatever clients send,      *)
(* whichever writes fail and whatever factory files a device carries.      *)
(***************************************************************************)
EXTENDS RecordConfig, TLAPS

(* What the file and the memory hold is valid, also while nobody looks.    *)
ValidHeld ==
  /\ file # NoFile => Valid(file.cfg.plan)
  /\ Valid(mem.plan)

(* The file holds what was saved last, up to what a start makes of it, and *)
(* it has no version: only a factory file with one replaces it.            *)
FileKeeps ==
  hist.saved # NoCfg =>
    file # NoFile /\ file.ver = 0 /\ Fit(file.cfg) = Fit(hist.saved)

(* A start loads it, and only a request changes the memory afterwards.     *)
MemKeeps ==
  /\ pc \in {"starting", "loaded"} => ~hist.asked
  /\ pc \in {"stored", "saved", "typed", "listed", "enabled"} => hist.asked
  /\ pc \in {"loaded", "idle"} /\ ~hist.asked /\ hist.saved # NoCfg
       => mem = Fit(hist.saved)

(* The copy that is being made: of a recorder switched on, the days in     *)
(* their order, of a day first whether it is enabled and then its times.   *)
CopyGoesOn ==
  /\ pc \in {"typed", "listed", "enabled"} => mem.enable
  /\ pc \notin {"listed", "enabled"} => day = 0
  /\ pc = "enabled" => recType.week.days[day + 1].en = mem.plan.days[day + 1].en

ConfigInv == TypeOK /\ ValidHeld /\ FileKeeps /\ MemKeeps /\ CopyGoesOn /\ InForce

-----------------------------------------------------------------------------
LEMMA FitTyped ==
  ASSUME NEW c \in Cfgs
  PROVE  /\ Fit(c) \in Cfgs
         /\ Fit(c).plan = c.plan
         /\ Fit(Fit(c)) = Fit(c)
<1> DEFINE n == IF c.opts = 0 THEN Options ELSE c.opts
           r == IF c.recTime >= n THEN n - 1 ELSE c.recTime
<1>1. n \in 1 .. 8 /\ r \in Bytes /\ r < n
  BY SizesAssumption DEF Cfgs, Bytes
<1>2. Fit(c) = [enable |-> c.enable, mode |-> c.mode, plan |-> c.plan, recTime |-> r, opts |-> n]
  <2>1. Fit(c) = [c EXCEPT !.opts = n, !.recTime = r]
    BY DEF Fit
  <2> HIDE DEF n, r
  <2> QED
    BY <2>1 DEF Cfgs
<1> HIDE DEF n, r
<1>3. Fit(c) \in Cfgs
  BY <1>1, <1>2 DEF Cfgs
<1>4. Fit(Fit(c)) = Fit(c)
  BY <1>1, <1>2 DEF Fit, Bytes
<1> QED
  BY <1>2, <1>3, <1>4

LEMMA DefaultTyped ==
  /\ DefaultCfg \in Cfgs /\ Valid(DefaultCfg.plan)
  /\ EmptyMem \in Cfgs /\ Valid(EmptyMem.plan)
<1>1. AllDay \in Times /\ AllDay \notin BadTimes
  BY TimesAssumption
<1>2. NoPlan \in Plans /\ Valid(NoPlan)
  BY <1>1 DEF NoPlan, Plans, Periods, Valid
<1>3. DefaultCfg.plan \in Plans /\ Valid(DefaultCfg.plan)
  <2>1. DefaultCfg.plan = [en |-> TRUE, days |-> [d \in Days |-> [en |-> d > 0, time |-> AllDay]]]
    BY DEF DefaultCfg
  <2>2. \A d \in Days : [en |-> d > 0, time |-> AllDay] \in Periods
    <3> SUFFICES ASSUME NEW d \in Days PROVE (d > 0) \in BOOLEAN
      BY <1>1 DEF Periods
    <3> QED
      BY SizesAssumption, SMT DEF Days
  <2>3. DefaultCfg.plan \in Plans
    BY <2>1, <2>2 DEF Plans
  <2>4. Valid(DefaultCfg.plan)
    BY <1>1, <2>1 DEF Valid
  <2> QED
    BY <2>3, <2>4
<1> QED
  BY <1>2, <1>3 DEF DefaultCfg, EmptyMem, Cfgs, Modes, Bytes

LEMMA WeekTyped ==
  ASSUME NEW p \in Plans
  PROVE  WeekOf(p) \in [en : BOOLEAN, days : [1 .. LastDay -> Periods]]
BY SizesAssumption DEF WeekOf, Plans, Days

LEMMA CopiedTyped ==
  ASSUME TypeOK
  PROVE  Copied(mem) \in RecTypes
<1>1. WeekOf(mem.plan) \in [en : BOOLEAN, days : [1 .. LastDay -> Periods]]
  BY WeekTyped DEF TypeOK, Cfgs
<1> QED
  BY <1>1 DEF TypeOK, RecTypes, Copied, TypeOf, Cfgs

LEMMA TypeOfTyped ==
  ASSUME TypeOK
  PROVE  TypeOf(mem) \in Modes \cup {CLOSED}
BY DEF TypeOK, TypeOf, Cfgs

LEMMA MemTyped ==
  ASSUME TypeOK
  PROVE  /\ mem.enable \in BOOLEAN /\ mem.plan.en \in BOOLEAN
         /\ \A d \in 1 .. LastDay : /\ mem.plan.days[d] \in Periods
                                  /\ mem.plan.days[d].en \in BOOLEAN
                                  /\ mem.plan.days[d].time \in Times
BY SizesAssumption DEF TypeOK, Cfgs, Plans, Days, Periods

(* What set_record_type copies is what the configuration says.             *)
LEMMA CopiedInForce ==
  ASSUME TypeOK, ValidHeld
  PROVE  /\ Copied(mem).type = TypeOf(mem)
         /\ mem.enable =>
              /\ Copied(mem).week.en = mem.plan.en
              /\ \A d \in 1 .. LastDay : Copied(mem).week.days[d] = mem.plan.days[d]
              /\ \A d \in 1 .. LastDay :
                   Copied(mem).week.days[d].en => Copied(mem).week.days[d].time \notin BadTimes
BY SizesAssumption DEF ValidHeld, Valid, Days, Copied, WeekOf

LEMMA FactoryTyped ==
  ASSUME TypeOK
  PROVE  Factory # NoFile => Factory \in Files /\ Valid(Factory.cfg.plan)
BY FactoriesAssumption DEF TypeOK, Factory

LEMMA FileCfg ==
  ASSUME NEW f \in Files
  PROVE  f.ver \in Nat /\ f.cfg \in Cfgs
BY DEF Files

LEMMA WrittenTyped ==
  ASSUME NEW c \in Cfgs
  PROVE  Written(c) \in Files /\ Written(c).cfg = c /\ Written(c).ver = 0 /\ Written(c) # NoFile
BY FactoriesAssumption DEF Written, Files

-----------------------------------------------------------------------------
LEMMA ConfigInit == Init => ConfigInv
<1> SUFFICES ASSUME Init PROVE ConfigInv
  OBVIOUS
<1>1. EmptyType \in RecTypes
  BY WeekTyped, DefaultTyped DEF EmptyType, RecTypes, CLOSED, EmptyMem, Cfgs
<1> QED
  BY <1>1, DefaultTyped, SizesAssumption
     DEF Init, ConfigInv, TypeOK, ValidHeld, FileKeeps, MemKeeps, CopyGoesOn, InForce, CopiedDay

LEMMA ConfigStep == ConfigInv /\ [Next]_vars => ConfigInv'
<1> SUFFICES ASSUME ConfigInv, [Next]_vars PROVE ConfigInv'
  OBVIOUS
<1> USE DEF ConfigInv
<1>1. CASE ReplaceFile
  <2>1. file' \in Files \cup {NoFile} /\ (file' # NoFile => Valid(file'.cfg.plan))
    BY <1>1, FactoryTyped DEF ReplaceFile, Replaces, TypeOK, ValidHeld
  <2>2. hist' \in [saved : Cfgs \cup {NoCfg}, asked : BOOLEAN, seen : Files \cup {NoFile}]
    BY <1>1, FactoryTyped DEF ReplaceFile, TypeOK
  <2>3. FileKeeps'
    <3> SUFFICES ASSUME hist'.saved # NoCfg
                 PROVE  file' # NoFile /\ file'.ver = 0 /\ Fit(file'.cfg) = Fit(hist'.saved)
      BY DEF FileKeeps
    <3>1. hist'.saved = hist.saved /\ (Factory # NoFile => Factory.ver = 0)
      BY <1>1 DEF ReplaceFile
    <3>2. ~Replaces
      BY <3>1 DEF Replaces, FileKeeps
    <3> QED
      BY <1>1, <3>1, <3>2 DEF ReplaceFile, FileKeeps
  <2>4. TypeOK' /\ ValidHeld'
    BY <1>1, <2>1, <2>2 DEF ReplaceFile, TypeOK, ValidHeld
  <2>5. MemKeeps' /\ CopyGoesOn' /\ InForce'
    BY <1>1 DEF ReplaceFile, MemKeeps, CopyGoesOn, InForce, CopiedDay
  <2> QED
    BY <2>3, <2>4, <2>5
<1>2. CASE LoadFails
  <2>1. hist.saved = NoCfg
    BY <1>2 DEF LoadFails, FileKeeps
  <2> QED
    BY <1>2, <2>1, DefaultTyped DEF LoadFails, TypeOK, ValidHeld, FileKeeps, MemKeeps, CopyGoesOn, InForce, CopiedDay
<1>3. CASE LoadCfg
  <2> DEFINE read == IF file = NoFile THEN Written(DefaultCfg) ELSE file
  <2>1. read \in Files /\ Valid(read.cfg.plan) /\ read # NoFile
    BY DefaultTyped, WrittenTyped DEF TypeOK, ValidHeld
  <2>2. mem' = Fit(read.cfg) /\ file' \in {read, Written(mem')}
    BY <1>3 DEF LoadCfg
  <2>3. read.cfg \in Cfgs
    BY <2>1, FileCfg
  <2>4. mem' \in Cfgs /\ Valid(mem'.plan) /\ Fit(mem') = mem'
    BY <2>1, <2>2, <2>3, FitTyped
  <2>5. file' \in Files /\ file' # NoFile /\ Valid(file'.cfg.plan) /\ Fit(file'.cfg) = mem'
    BY <2>1, <2>2, <2>4, WrittenTyped
  <2>6. hist.saved # NoCfg => read = file /\ mem' = Fit(hist.saved) /\ file'.ver = 0
    BY <2>2, <2>4, WrittenTyped DEF FileKeeps
  <2> HIDE DEF read
  <2>7. FileKeeps' /\ MemKeeps'
    BY <1>3, <2>5, <2>6 DEF LoadCfg, FileKeeps, MemKeeps
  <2> QED
    BY <1>3, <2>4, <2>5, <2>7 DEF LoadCfg, TypeOK, ValidHeld, CopyGoesOn, InForce, CopiedDay
<1>4. CASE StartTask
  BY <1>4, CopiedTyped, CopiedInForce
     DEF StartTask, TypeOK, ValidHeld, FileKeeps, MemKeeps, CopyGoesOn, InForce, CopiedDay
<1>5. ASSUME NEW r \in Requests, SetCfg(r) PROVE ConfigInv'
  <2>1. CASE r.vich = 0 /\ Valid(r.plan)
    <3>1. r.recMins % 256 \in Bytes /\ r.plan \in Plans /\ r.enable \in BOOLEAN /\ r.mode \in Modes
      BY RequestsAssumption DEF Bytes
    <3>2. Changed(r) \in Cfgs /\ Changed(r).plan = r.plan
      BY <3>1 DEF Changed, TypeOK, Cfgs
    <3>3. hist' = [hist EXCEPT !.asked = TRUE] /\ mem' = Changed(r) /\ pc' = "stored"
          /\ UNCHANGED <<factory, file, recType, day>>
      BY <1>5, <2>1 DEF SetCfg
    <3>4. hist'.saved = hist.saved /\ hist'.asked
          /\ hist' \in [saved : Cfgs \cup {NoCfg}, asked : BOOLEAN, seen : Files \cup {NoFile}]
      BY <3>3 DEF TypeOK
    <3>5. pc = "idle"
      BY <1>5 DEF SetCfg
    <3>6. TypeOK' /\ ValidHeld' /\ FileKeeps'
      BY <2>1, <3>2, <3>3, <3>4 DEF TypeOK, ValidHeld, FileKeeps
    <3> QED
      BY <3>3, <3>4, <3>5, <3>6 DEF MemKeeps, CopyGoesOn, InForce
  <2>2. CASE ~(r.vich = 0 /\ Valid(r.plan))
    BY <1>5, <2>2 DEF SetCfg, TypeOK, ValidHeld, FileKeeps, MemKeeps, CopyGoesOn, InForce, CopiedDay
  <2> QED
    BY <2>1, <2>2
<1>6. CASE SaveCfg
  <2>1. mem \in Cfgs /\ mem # NoCfg
    BY FactoriesAssumption DEF TypeOK
  <2>2. hist'.saved = mem /\ hist'.asked = hist.asked
        /\ hist' \in [saved : Cfgs \cup {NoCfg}, asked : BOOLEAN, seen : Files \cup {NoFile}]
    BY <1>6, <2>1 DEF SaveCfg, TypeOK
  <2> QED
    BY <1>6, <2>1, <2>2, WrittenTyped
       DEF SaveCfg, TypeOK, ValidHeld, FileKeeps, MemKeeps, CopyGoesOn, InForce, CopiedDay
<1>7. CASE SaveCfgFails
  BY <1>7 DEF SaveCfgFails, TypeOK, ValidHeld, FileKeeps, MemKeeps, CopyGoesOn, InForce, CopiedDay
<1>8. CASE SetType
  <2>1. recType' = [recType EXCEPT !.type = TypeOf(mem)] /\ UNCHANGED <<factory, file, mem, day, hist>>
        /\ pc = "saved" /\ pc' = IF mem.enable THEN "typed" ELSE "idle"
    BY <1>8 DEF SetType
  <2>2. recType' \in RecTypes /\ recType'.type = TypeOf(mem) /\ recType'.week = recType.week
    BY <2>1, TypeOfTyped DEF TypeOK, RecTypes
  <2>3. TypeOK' /\ ValidHeld' /\ FileKeeps' /\ MemKeeps'
    BY <2>1, <2>2 DEF TypeOK, ValidHeld, FileKeeps, MemKeeps
  <2>4. day = 0
    BY <2>1 DEF CopyGoesOn
  <2> QED
    BY <2>1, <2>2, <2>3, <2>4 DEF CopyGoesOn, InForce, TypeOf, TypeOK
<1>9. CASE CopyList
  <2>1. recType' = [recType EXCEPT !.week.en = mem.plan.en] /\ UNCHANGED <<factory, file, mem, day, hist>>
        /\ pc = "typed" /\ pc' = "listed"
    BY <1>9 DEF CopyList
  <2>2. /\ recType' \in RecTypes /\ recType'.type = recType.type
        /\ recType'.week.en = mem.plan.en /\ recType'.week.days = recType.week.days
    BY <2>1, MemTyped DEF TypeOK, RecTypes
  <2>3. TypeOK' /\ ValidHeld' /\ FileKeeps' /\ MemKeeps'
    BY <2>1, <2>2 DEF TypeOK, ValidHeld, FileKeeps, MemKeeps
  <2>4. day = 0
    BY <2>1 DEF CopyGoesOn
  <2> QED
    BY <2>1, <2>2, <2>3, <2>4 DEF CopyGoesOn, InForce, TypeOf, TypeOK
<1>10. CASE CopyDay
  <2>1. recType' = [recType EXCEPT !.week.days[day + 1].en = mem.plan.days[day + 1].en]
        /\ UNCHANGED <<factory, file, mem, day, hist>> /\ pc = "listed" /\ pc' = "enabled"
    BY <1>10 DEF CopyDay
  <2>2. day + 1 \in 1 .. LastDay /\ day \in Nat
    BY SizesAssumption DEF TypeOK
  <2>3. /\ recType' \in RecTypes /\ recType'.type = recType.type
        /\ recType'.week.en = recType.week.en
        /\ recType'.week.days[day + 1].en = mem.plan.days[day + 1].en
        /\ \A d \in 1 .. LastDay : d # day + 1 => recType'.week.days[d] = recType.week.days[d]
    BY <2>1, <2>2, MemTyped DEF TypeOK, RecTypes, Periods
  <2>4. TypeOK' /\ ValidHeld' /\ FileKeeps' /\ MemKeeps'
    BY <2>1, <2>3 DEF TypeOK, ValidHeld, FileKeeps, MemKeeps
  <2>5. CopyGoesOn'
    BY <2>1, <2>3 DEF CopyGoesOn
  <2>6. \A d \in 1 .. LastDay : d <= day => d # day + 1
    BY <2>2
  <2> QED
    BY <2>1, <2>3, <2>4, <2>5, <2>6 DEF InForce, CopiedDay, TypeOf
<1>11. CASE CopyTime
  <2>1. recType' = [recType EXCEPT !.week.days[day + 1].time = mem.plan.days[day + 1].time]
        /\ UNCHANGED <<factory, file, mem, hist>> /\ pc = "enabled"
    BY <1>11 DEF CopyTime
  <2>2. day + 1 \in 1 .. LastDay /\ day \in Nat /\ day \in 0 .. LastDay - 1
    BY SizesAssumption DEF TypeOK
  <2>3. \/ LastDay = day + 1 /\ pc' = "idle" /\ day' = 0
        \/ LastDay # day + 1 /\ pc' = "listed" /\ day' = day + 1
    BY <1>11, <2>2 DEF CopyTime, LastCopied
  <2>4. /\ recType' \in RecTypes /\ recType'.type = recType.type
        /\ recType'.week.en = recType.week.en
        /\ recType'.week.days[day + 1].en = recType.week.days[day + 1].en
        /\ recType'.week.days[day + 1].time = mem.plan.days[day + 1].time
        /\ recType'.week.days[day + 1] \in Periods
        /\ \A d \in 1 .. LastDay : d # day + 1 => recType'.week.days[d] = recType.week.days[d]
    BY <2>1, <2>2, MemTyped DEF TypeOK, RecTypes, Periods
  <2>5. recType'.week.days[day + 1] = mem.plan.days[day + 1]
    <3>1. mem.plan.days[day + 1] \in Periods
      BY <2>2, MemTyped
    <3>2. recType'.week.days[day + 1].en = mem.plan.days[day + 1].en
      BY <2>1, <2>4 DEF CopyGoesOn
    <3>3. \A p, q \in Periods : p.en = q.en /\ p.time = q.time => p = q
      BY DEF Periods
    <3> QED
      BY <2>4, <3>1, <3>2, <3>3
  <2>6. day' \in 0 .. LastDay - 1
    BY <2>2, <2>3, SizesAssumption
  <2>7. TypeOK' /\ ValidHeld' /\ FileKeeps' /\ MemKeeps'
    BY <2>1, <2>3, <2>4, <2>6 DEF TypeOK, ValidHeld, FileKeeps, MemKeeps
  <2>8. CopyGoesOn'
    BY <2>1, <2>3 DEF CopyGoesOn
  <2>9. ASSUME NEW d \in 1 .. LastDay, pc' = "idle" \/ d <= day', mem.enable
        PROVE  /\ recType'.week.days[d] = mem.plan.days[d]
               /\ recType'.week.days[d].en => recType'.week.days[d].time \notin BadTimes
    <3>1. d <= day \/ d = day + 1
      BY <2>2, <2>3, <2>9
    <3>2. recType'.week.days[d] = mem.plan.days[d]
      BY <2>1, <2>4, <2>5, <2>9, <3>1 DEF InForce, CopiedDay
    <3> QED
      BY <3>2, SizesAssumption DEF ValidHeld, Valid, Days
  <2> QED
    BY <2>1, <2>3, <2>4, <2>7, <2>8, <2>9 DEF InForce, CopiedDay, TypeOf
<1>12. CASE ProcessEnds
  <2>1. EmptyType \in RecTypes
    BY WeekTyped, DefaultTyped DEF EmptyType, RecTypes, CLOSED, EmptyMem, Cfgs
  <2> QED
    BY <1>12, <2>1, DefaultTyped, SizesAssumption
       DEF ProcessEnds, TypeOK, ValidHeld, FileKeeps, MemKeeps, CopyGoesOn, InForce
<1>13. CASE Upgrade
  BY <1>13 DEF Upgrade, TypeOK, ValidHeld, FileKeeps, MemKeeps, CopyGoesOn, InForce, CopiedDay
<1>14. CASE UNCHANGED vars
  <2>1. UNCHANGED <<factory, file, mem, recType, day, pc, hist>>
    BY <1>14 DEF vars
  <2> QED
    BY <2>1 DEF TypeOK, ValidHeld, FileKeeps, MemKeeps, CopyGoesOn, InForce, CopiedDay, TypeOf, WeekOf, Valid
<1> QED
  BY <1>1, <1>2, <1>3, <1>4, <1>5, <1>6, <1>7, <1>8, <1>9, <1>10, <1>11, <1>12, <1>13, <1>14 DEF Next

-----------------------------------------------------------------------------
(* What was last saved for a client is in force after every start, for all *)
(* requests and factory files.                                             *)
THEOREM SavedConfigSurvives == Spec => []SavedSurvives
<1>1. ConfigInv => SavedSurvives
  BY DEF ConfigInv, MemKeeps, SavedSurvives
<1> QED
  BY <1>1, ConfigInit, ConfigStep, PTL DEF Spec

(* Between requests the recorder task decides by the configuration in      *)
(* memory, and by no invalid period; while a new one is being copied, by   *)
(* the new one as far as the copy has come.                                *)
THEOREM ValidInForce == Spec => [](TypeOK /\ InForce)
<1>1. ConfigInv => TypeOK /\ InForce
  BY DEF ConfigInv
<1> QED
  BY <1>1, ConfigInit, ConfigStep, PTL DEF Spec
=============================================================================
