-------------------------- MODULE DiskRecycleProofs --------------------------
(***************************************************************************)
(* Theorems about DiskRecycle and CardCheck: recordings are deleted only   *)
(* for want of room and oldest first, what a call reports as room is       *)
(* there, and the self check asks for a format only with good reason.      *)
(***************************************************************************)
EXTENDS CardCheck, FiniteSetTheorems, SequenceTheorems, TLAPS

(* A call goes on only as long as there is no room.                        *)
CallNeeded == pc \in {"month", "day"} => Need

NeedInv == CallNeeded /\ SuccessMeansRoom

LEMMA NeedInit == Init => NeedInv
BY DEF Init, NeedInv, CallNeeded, SuccessMeansRoom

LEMMA NeedNext == NeedInv /\ [Next]_vars => NeedInv'
<1> SUFFICES ASSUME NeedInv, [Next]_vars PROVE NeedInv' OBVIOUS
<1> USE DEF NeedInv, CallNeeded, SuccessMeansRoom
<1>1. ASSUME days' = days PROVE Need' <=> Need BY <1>1 DEF Need, Free
<1>2. CASE Midnight BY <1>1, <1>2 DEF Midnight
<1>3. CASE OpenFile BY <1>3 DEF OpenFile
<1>4. CASE Start BY <1>1, <1>4 DEF Start
<1>5. CASE EmptyMonth BY <1>1, <1>5 DEF EmptyMonth
<1>6. CASE PairedMonth BY <1>1, <1>6 DEF PairedMonth
<1>7. CASE SingleMonth BY <1>1, <1>7 DEF SingleMonth
<1>8. CASE MonthsOver BY <1>1, <1>8 DEF MonthsOver, Failed
<1>9. CASE DeleteDay BY <1>9 DEF DeleteDay, GoesOn
<1>10. CASE EndMonth BY <1>1, <1>10 DEF EndMonth
<1>11. CASE UNCHANGED vars BY <1>1, <1>11 DEF vars
<1>12. QED
  BY <1>2, <1>3, <1>4, <1>5, <1>6, <1>7, <1>8, <1>9, <1>10, <1>11 DEF Next, Recycle

(* Whatever is on the card, whatever its size and however much is to be    *)
(* kept free: when a call reports success, start_rec has room.             *)
THEOREM RoomWhenSuccess == Spec => []SuccessMeansRoom
<1>1. NeedInv => SuccessMeansRoom BY DEF NeedInv
<1>2. QED BY <1>1, NeedInit, NeedNext, PTL DEF Spec

(* No step deletes a recording while there is room.                        *)
THEOREM OnlyWhenNeeded == Spec => DeletesWhenNeeded
<1>1. NeedInv /\ [Next]_vars => [Deleted # {} => Need]_vars
  <2> SUFFICES ASSUME NeedInv, Next, Deleted # {} PROVE Need
    BY DEF vars
  <2>1. DeleteDay
    BY DEF Next, Recycle, Deleted, Midnight, OpenFile, Start, EmptyMonth, PairedMonth,
           SingleMonth, MonthsOver, EndMonth
  <2>2. QED BY <2>1 DEF DeleteDay, NeedInv, CallNeeded
<1>2. QED BY <1>1, NeedInit, NeedNext, PTL DEF Spec, DeletesWhenNeeded

(* The self check at the start of the process, whenever it runs and        *)
(* whatever it finds, leaves the recordings to the recorder task: with it  *)
(* the process implements DiskRecycle, and both theorems hold for it.      *)
THEOREM CheckImplements == CheckSpec => Spec
<1>1. CheckInit => Init BY DEF CheckInit
<1>2. [CheckNext]_checkVars => [Next]_vars
  BY DEF CheckNext, Record, Check, BeginCheck, ReadMonth, EndCheck, checkVars, vars
<1>3. QED BY <1>1, <1>2, PTL DEF CheckSpec, Spec

-----------------------------------------------------------------------------
(* The self check.                                                         *)

(* There is no day without its month, and there are finitely many.         *)
DaysKept ==
  /\ days \subseteq Places /\ today \in Places /\ dirs \subseteq MonthDirs
  /\ \A p \in days : MonthDir(p) \in dirs

LEMMA DaysInit == Init => DaysKept
BY DEF Init, DaysKept, MonthDirs

LEMMA DaysNext == DaysKept /\ [Next]_vars => DaysKept'
<1> SUFFICES ASSUME DaysKept, [Next]_vars PROVE DaysKept'
  OBVIOUS
<1> USE DEF DaysKept
<1>1. ASSUME NEW M, \A m \in M : DaysIn(m) = {}
      PROVE  \A p \in days : MonthDir(p) \in dirs \ M
  BY <1>1 DEF DaysIn
<1>2. CASE Midnight
  BY <1>2 DEF Midnight
<1>3. CASE OpenFile
  BY <1>3 DEF OpenFile, MonthDirs
<1>4. CASE Start \/ SingleMonth \/ MonthsOver \/ UNCHANGED vars
  BY <1>4 DEF Start, SingleMonth, MonthsOver, vars
<1>5. CASE EmptyMonth
  <2> DEFINE M == {Month} \cup IF Paired THEN {Partner} ELSE {}
  <2>1. \A m \in M : DaysIn(m) = {}
    BY <1>5 DEF EmptyMonth
  <2>2. dirs' = dirs \ M /\ UNCHANGED <<days, today>>
    BY <1>5 DEF EmptyMonth
  <2> HIDE DEF M
  <2> QED  BY <1>1, <2>1, <2>2
<1>6. CASE PairedMonth
  <2>1. UNCHANGED <<days, today>>
        /\ (dirs' = dirs \/ (dirs' = dirs \ {Month} /\ \A m \in {Month} : DaysIn(m) = {}))
    BY <1>6 DEF PairedMonth
  <2> QED  BY <1>1, <2>1
<1>7. CASE DeleteDay
  BY <1>7 DEF DeleteDay
<1>8. CASE EndMonth
  <2> DEFINE m == call.months[call.path]
  <2>1. UNCHANGED <<days, today>>
        /\ (dirs' = dirs \/ (dirs' = dirs \ {m} /\ \A n \in {m} : DaysIn(n) = {}))
    BY <1>8 DEF EndMonth
  <2> HIDE DEF m
  <2> QED  BY <1>1, <2>1
<1> QED  BY <1>2, <1>3, <1>4, <1>5, <1>6, <1>7, <1>8 DEF Next, Recycle

(* Recordings of the common tree, and those the check has counted.         *)
InCommon == {p \in days : p.root = "common"}
Counted(M) == {p \in InCommon : MonthDir(p) \in M}

(* What the check knows: how much is used, how much of it was read, and    *)
(* that no month with recordings is missing from both of its lists.        *)
ScanRight ==
  main = "scan" =>
    /\ check.foreign \in Foreigns
    /\ check.count \in Nat
    /\ \A m \in check.read : m.root = "common"
    /\ "common" \in OnCard /\ ~disturbed =>
         /\ check.used = Cardinality(InCommon) + check.foreign
         /\ check.count = Cardinality(Counted(check.read))
         /\ \A p \in InCommon : MonthDir(p) \in check.read \cup check.unread

CheckTyped ==
  /\ main \in {"begin", "scan", "serve"} /\ disturbed \in BOOLEAN
  /\ check \in [foreign : Nat, used : Nat, unread : SUBSET MonthDirs,
                read : SUBSET MonthDirs, count : Nat, status : {"ok", "format"}]
CheckInv == DaysKept /\ CheckTyped /\ ScanRight /\ VerdictIsRight

LEMMA DaysFinite ==
  ASSUME DaysKept
  PROVE  /\ IsFiniteSet(InCommon) /\ Cardinality(InCommon) \in Nat
         /\ \A M : IsFiniteSet(Counted(M)) /\ Cardinality(Counted(M)) \in Nat
<1>1. IsFiniteSet(Places) /\ InCommon \subseteq Places
  BY PlacesAssumption DEF DaysKept, InCommon
<1>2. \A M : Counted(M) \subseteq Places
  BY <1>1 DEF Counted
<1>3. ASSUME NEW S \in SUBSET Places PROVE IsFiniteSet(S) /\ Cardinality(S) \in Nat
  <2>1. IsFiniteSet(S)
    BY <1>1, FS_Subset
  <2> QED  BY <2>1, FS_CardinalityType
<1> QED  BY <1>1, <1>2, <1>3

(* A month more adds its days.                                             *)
LEMMA MonthCounted ==
  ASSUME DaysKept, NEW M, NEW m \in MonthDirs, m \notin M, m.root = "common"
  PROVE  Cardinality(Counted(M \cup {m})) = Cardinality(Counted(M)) + Cardinality(DaysIn(m))
<1>1. DaysIn(m) = Counted({m})
  BY DEF DaysIn, Counted, InCommon, MonthDir
<1>2. Counted(M \cup {m}) = Counted(M) \cup Counted({m}) /\ Counted(M) \cap Counted({m}) = {}
  BY DEF Counted
<1>3. IsFiniteSet(Counted(M)) /\ IsFiniteSet(Counted({m}))
  BY DaysFinite
<1>4. Cardinality(Counted(M) \cup Counted({m}))
        = Cardinality(Counted(M)) + Cardinality(Counted({m}))
          - Cardinality(Counted(M) \cap Counted({m}))
  BY <1>3, FS_Union
<1>5. Cardinality(Counted(M)) \in Nat /\ Cardinality(Counted({m})) \in Nat
  BY DaysFinite
<1>6. Cardinality(Counted(M) \cap Counted({m})) = 0
  BY <1>2, FS_EmptySet
<1>7. Cardinality(Counted(M) \cup Counted({m}))
        = Cardinality(Counted(M)) + Cardinality(Counted({m}))
  BY <1>4, <1>5, <1>6
<1> QED  BY <1>1, <1>2, <1>7

LEMMA CheckBegins ==
  ASSUME CheckInv, BeginCheck
  PROVE  CheckTyped' /\ ScanRight' /\ VerdictIsRight'
<1>1. PICK f \in Foreigns :
        check' = [NoCheck EXCEPT !.foreign = f, !.used = Filled + f,
                                 !.unread = {m \in dirs : m.root = "common"}]
  BY DEF BeginCheck
<1>2. check' = [foreign |-> f, used |-> Filled + f,
                unread |-> {m \in dirs : m.root = "common"}, read |-> {},
                count |-> 0, status |-> "ok"]
  BY <1>1 DEF NoCheck
<1>3. /\ main' = "scan" /\ UNCHANGED <<days, dirs, today>>
      /\ disturbed' = (\E p \in days : p.root = "alarm" /\ p.root \in OnCard)
  BY DEF BeginCheck, vars
<1>4. f \in Nat
  BY CheckAssumption
<1>5. Filled \in Nat
  <2>1. {p \in days : p.root \in OnCard} \in SUBSET Places
    BY DEF CheckInv, DaysKept
  <2>2. IsFiniteSet({p \in days : p.root \in OnCard})
    BY <2>1, PlacesAssumption, FS_Subset
  <2> QED  BY <2>2, FS_CardinalityType DEF Filled
<1>6. CheckTyped'
  <2>1. {m \in dirs : m.root = "common"} \in SUBSET MonthDirs
    BY DEF CheckInv, DaysKept
  <2>2. Filled + f \in Nat
    BY <1>4, <1>5
  <2>3. disturbed' \in BOOLEAN
    BY <1>3
  <2>4. check' \in [foreign : Nat, used : Nat, unread : SUBSET MonthDirs,
                    read : SUBSET MonthDirs, count : Nat, status : {"ok", "format"}]
    BY <1>2, <1>4, <2>1, <2>2
  <2> QED  BY <1>3, <2>3, <2>4 DEF CheckTyped
<1>7. ASSUME "common" \in OnCard, ~disturbed'
      PROVE  {p \in days : p.root \in OnCard} = InCommon
  <2>1. \A p \in days : p.root \in {"common", "alarm"}
    BY PlacesAssumption DEF CheckInv, DaysKept, Roots
  <2> QED  BY <1>3, <1>7, <2>1 DEF InCommon
<1>8. Counted({}) = {} /\ Cardinality(Counted({})) = 0
  BY FS_EmptySet DEF Counted
<1>9. \A p \in InCommon : MonthDir(p) \in {m \in dirs : m.root = "common"}
  BY DEF InCommon, CheckInv, DaysKept, MonthDir
<1>10. InCommon' = InCommon /\ Counted({})' = Counted({})
  BY <1>3 DEF InCommon, Counted
<1>11. ScanRight'
  BY <1>2, <1>3, <1>7, <1>8, <1>9, <1>10 DEF ScanRight, Filled
<1> QED  BY <1>3, <1>6, <1>11 DEF VerdictIsRight

LEMMA CheckReads ==
  ASSUME CheckInv, ReadMonth
  PROVE  CheckTyped' /\ ScanRight' /\ VerdictIsRight'
<1>1. PICK m \in {d \in dirs : d.root = "common"} \ check.read :
        check' = [check EXCEPT !.read = @ \cup {m}, !.unread = @ \ {m},
                               !.count = @ + Cardinality(DaysIn(m))]
  BY DEF ReadMonth
<1>2. /\ main = "scan" /\ main' = "scan"
      /\ UNCHANGED <<days, dirs, today, disturbed>>
  BY DEF ReadMonth, vars
<1>3. /\ m \in MonthDirs /\ m.root = "common" /\ m \notin check.read
      /\ DaysKept /\ CheckTyped /\ ScanRight
  BY <1>1 DEF CheckInv, DaysKept
<1>4. Cardinality(DaysIn(m)) \in Nat
  <2>1. DaysIn(m) \in SUBSET Places
    BY DEF CheckInv, DaysKept, DaysIn
  <2>2. IsFiniteSet(DaysIn(m))
    BY <2>1, PlacesAssumption, FS_Subset
  <2> QED  BY <2>2, FS_CardinalityType
<1>5. /\ check'.foreign = check.foreign /\ check'.used = check.used
      /\ check'.read = check.read \cup {m} /\ check'.unread = check.unread \ {m}
      /\ check'.count = check.count + Cardinality(DaysIn(m))
  BY <1>1, <1>3 DEF CheckTyped
<1>6. CheckTyped'
  <2>1. /\ check.read \cup {m} \in SUBSET MonthDirs /\ check.unread \ {m} \in SUBSET MonthDirs
        /\ check.count + Cardinality(DaysIn(m)) \in Nat
    BY <1>3, <1>4 DEF CheckTyped
  <2> QED  BY <1>1, <1>2, <1>3, <2>1 DEF CheckTyped
<1>7. Cardinality(Counted(check.read \cup {m}))
        = Cardinality(Counted(check.read)) + Cardinality(DaysIn(m))
  BY <1>3, MonthCounted
<1>8. InCommon' = InCommon /\ Counted(check.read)' = Counted(check.read \cup {m})
  BY <1>2, <1>5 DEF InCommon, Counted
<1>9. ScanRight'
  <2>1. \A d \in check'.read : d.root = "common"
    BY <1>2, <1>3, <1>5 DEF ScanRight
  <2>2. check'.count \in Nat /\ check'.foreign \in Foreigns
    BY <1>2, <1>3, <1>4, <1>5 DEF ScanRight
  <2>3. ASSUME "common" \in OnCard, ~disturbed'
        PROVE  /\ check'.used = Cardinality(InCommon') + check'.foreign
               /\ check'.count = Cardinality(Counted(check.read)')
               /\ \A p \in InCommon' : MonthDir(p) \in check'.read \cup check'.unread
    BY <1>2, <1>3, <1>5, <1>7, <1>8, <2>3 DEF ScanRight
  <2> QED  BY <2>1, <2>2, <2>3 DEF ScanRight
<1> QED  BY <1>2, <1>6, <1>9 DEF VerdictIsRight

(* When nothing is left to be read the days of all months are counted, and *)
(* what is off is what other files fill.                                   *)
LEMMA CheckEnds ==
  ASSUME CheckInv, EndCheck
  PROVE  CheckTyped' /\ ScanRight' /\ VerdictIsRight'
<1>1. /\ main = "scan" /\ main' = "serve"
      /\ TooMany(check.count) \/ check.unread \cap dirs = {}
      /\ check' = [NoCheck EXCEPT !.foreign = check.foreign,
                                  !.status = IF Off > Tolerance THEN "format" ELSE "ok"]
      /\ disturbed' = (disturbed \/ check.count > MaxDays)
  BY DEF EndCheck
<1>2. /\ check'.foreign = check.foreign
      /\ check'.status = IF Off > Tolerance THEN "format" ELSE "ok"
  BY <1>1 DEF NoCheck
<1>3. CheckTyped'
  <2>1. check.foreign \in Nat
    BY DEF CheckInv, CheckTyped
  <2>2. disturbed' \in BOOLEAN
    BY <1>1
  <2>3. check' \in [foreign : Nat, used : Nat, unread : SUBSET MonthDirs,
                    read : SUBSET MonthDirs, count : Nat, status : {"ok", "format"}]
    BY <1>1, <2>1 DEF NoCheck
  <2> QED  BY <1>1, <2>2, <2>3 DEF CheckTyped
<1>4. ASSUME "common" \in OnCard, ~disturbed'
      PROVE  Off = check.foreign
  <2>1. ~disturbed /\ ~TooMany(check.count)
    BY <1>1, <1>4 DEF TooMany
  <2>2. /\ check.used = Cardinality(InCommon) + check.foreign
        /\ check.count = Cardinality(Counted(check.read))
        /\ \A p \in InCommon : MonthDir(p) \in check.read \cup check.unread
        /\ check.foreign \in Nat
    BY <1>1, <1>4, <2>1, CheckAssumption DEF CheckInv, ScanRight
  <2>3. \A p \in InCommon : MonthDir(p) \in check.read
    BY <1>1, <2>1, <2>2 DEF CheckInv, DaysKept, InCommon
  <2>4. Counted(check.read) = InCommon
    BY <2>3 DEF Counted
  <2>5. Cardinality(InCommon) \in Nat
    BY DaysFinite DEF CheckInv
  <2>6. Sum = Cardinality(InCommon)
    BY <2>1, <2>2, <2>4 DEF Sum
  <2> QED  BY <2>2, <2>5, <2>6 DEF Off
<1>5. VerdictIsRight'
  <2>1. ASSUME "common" \in OnCard, ~disturbed'
        PROVE  check'.status = "format" <=> check'.foreign > Tolerance
    BY <1>2, <1>4, <2>1
  <2> QED  BY <2>1 DEF VerdictIsRight
<1> QED  BY <1>1, <1>3, <1>5 DEF ScanRight

(* What the recorder task does during the check is either none of its      *)
(* business or remembered.                                                 *)
LEMMA CheckBeside ==
  ASSUME CheckInv, Record \/ UNCHANGED checkVars
  PROVE  CheckTyped' /\ ScanRight' /\ VerdictIsRight'
<1>1. UNCHANGED <<main, check>>
  BY DEF Record, checkVars
<1>2. /\ disturbed' \in BOOLEAN /\ (disturbed => disturbed')
      /\ main = "scan" /\ ~disturbed' => days' = days
  BY DEF Record, checkVars, vars, CheckInv, CheckTyped
<1>3. CheckTyped'
  BY <1>1, <1>2 DEF CheckInv, CheckTyped
<1>4. ScanRight'
  <2>1. ASSUME main = "scan", ~disturbed'
        PROVE  InCommon' = InCommon /\ Counted(check.read)' = Counted(check.read)
    BY <1>1, <1>2, <2>1 DEF InCommon, Counted
  <2> QED  BY <1>1, <1>2, <2>1 DEF CheckInv, ScanRight
<1>5. VerdictIsRight'
  BY <1>1, <1>2 DEF CheckInv, VerdictIsRight
<1> QED  BY <1>3, <1>4, <1>5

(* Clients are told to format the card if and only if other files fill     *)
(* more than is tolerated: recordings that self_check_sdcard could see     *)
(* never make it ask for one, however many months they are of, in whatever *)
(* order the directory lists them and whatever else happens meanwhile.     *)
THEOREM VerdictHolds == CheckSpec => []VerdictIsRight
<1>1. CheckInit => CheckInv
  <2> SUFFICES ASSUME CheckInit PROVE CheckInv
    OBVIOUS
  <2>1. DaysKept /\ main = "begin" /\ check = NoCheck /\ disturbed = FALSE
    BY DaysInit DEF CheckInit
  <2>2. CheckTyped
    BY <2>1 DEF CheckTyped, NoCheck
  <2> QED  BY <2>1, <2>2 DEF CheckInv, ScanRight, VerdictIsRight
<1>2. CheckInv /\ [CheckNext]_checkVars => CheckInv'
  <2> SUFFICES ASSUME CheckInv, [CheckNext]_checkVars PROVE CheckInv'
    OBVIOUS
  <2>1. [Next]_vars
    BY DEF CheckNext, Record, Check, BeginCheck, ReadMonth, EndCheck, checkVars, vars
  <2>2. DaysKept'
    BY <2>1, DaysNext DEF CheckInv
  <2>3. CheckTyped' /\ ScanRight' /\ VerdictIsRight'
    BY CheckBegins, CheckReads, CheckEnds, CheckBeside DEF CheckNext, Check
  <2> QED  BY <2>2, <2>3 DEF CheckInv
<1>3. CheckInv => VerdictIsRight
  BY DEF CheckInv
<1> QED  BY <1>1, <1>2, <1>3, PTL DEF CheckSpec

-----------------------------------------------------------------------------
(* Types.                                                                  *)

LEMMA SortedIsSeq ==
  ASSUME NEW T, NEW S \in SUBSET T, IsFiniteSet(S), NEW s \in Sorted(S)
  PROVE  s \in Seq(T) /\ Twice(s) \in Seq(T)
<1>1. PICK n \in Nat : s \in [1 .. n -> T]
  BY FS_CardinalityType DEF Sorted, Orders
<1>2. s \in Seq(T) /\ Len(s) = n
  BY <1>1
<1>3. Twice(s) \in [1 .. 2 * n -> T] /\ 2 * n \in Nat
  <2>1. \A k \in 1 .. 2 * n : (k + 1) \div 2 \in 1 .. n
    BY <1>1
  <2> QED  BY <1>1, <1>2, <2>1 DEF Twice
<1> QED  BY <1>2, <1>3

LEMMA MonthsFinite == IsFiniteSet(MonthDirs)
<1> DEFINE f == [p \in Places |-> MonthDir(p)]
<1>1. f \in Surjection(Places, MonthDirs)
  BY DEF Surjection, MonthDirs
<1> HIDE DEF f
<1> QED  BY <1>1, PlacesAssumption, FS_Surjection

(* The lists of a call and its places in them.  Between two months there   *)
(* is no list of days, and a next day that was shown is gone with it.      *)
Calls ==
  [months : Seq(MonthDirs), nMon : Nat, nextMon : Nat, list : Seq(Places),
   nDay : Nat, nextDay : Int, path : Nat, visited : SUBSET Nat]
CallKept ==
  /\ call \in Calls /\ pc \in {"idle", "month", "day", "open"}
  /\ call.nMon <= Len(call.months) + 1
  /\ call.nextMon <= Len(call.months) /\ call.path <= Len(call.months)
  /\ call.nextDay \in {Dangling} \cup 0 .. Len(call.list)
  /\ pc = "month" => call.nextDay \in {NoEntry, Dangling}

LEMMA NoCallTyped ==
  /\ NoCall \in Calls /\ NoCall.months = <<>> /\ NoCall.list = <<>>
  /\ NoCall.nMon = 0 /\ NoCall.nextMon = 0 /\ NoCall.path = 0 /\ NoCall.nextDay = 0
BY DEF NoCall, Calls, NoEntry

LEMMA DaysAreSeq ==
  ASSUME DaysKept, NEW m, NEW n
  PROVE  /\ \A s \in Sorted(DaysIn(m)) : s \in Seq(Places)
         /\ \A s \in Lists(m, n) : s \in Seq(Places)
<1>1. DaysIn(m) \in SUBSET Places /\ DaysIn(n) \in SUBSET Places
  BY DEF DaysKept, DaysIn
<1>2. ASSUME NEW S \in SUBSET Places, NEW s \in Sorted(S)
      PROVE  s \in Seq(Places) /\ Twice(s) \in Seq(Places)
  <2>1. IsFiniteSet(S)
    BY PlacesAssumption, FS_Subset
  <2> QED  BY <2>1, SortedIsSeq
<1> QED  BY <1>1, <1>2 DEF Lists

LEMMA MonthTyped ==
  ASSUME CallKept, call.nMon < Len(call.months)
  PROVE  /\ NextMon \in 0 .. Len(call.months) /\ Month.mon \in Nat
         /\ call.nMon + 1 <= Len(call.months)
<1>1. /\ call.months \in Seq(MonthDirs) /\ call.nMon \in Nat /\ call.nextMon \in Nat
      /\ call.nextMon <= Len(call.months) /\ Len(call.months) \in Nat
  BY DEF CallKept, Calls
<1>2. Month \in MonthDirs
  BY <1>1, ElementOfSeq DEF Month
<1>3. Month.mon \in Nat
  BY <1>2, PlacesAssumption DEF MonthDirs, MonthDir
<1>4. NextMon \in 0 .. Len(call.months)
  BY <1>1 DEF NextMon
<1> QED  BY <1>1, <1>3, <1>4

LEMMA CallStep == DaysKept /\ CallKept /\ [Next]_vars => CallKept'
<1> SUFFICES ASSUME DaysKept, CallKept, [Next]_vars PROVE CallKept'
  OBVIOUS
<1>1. CASE Midnight \/ UNCHANGED vars
  BY <1>1 DEF Midnight, vars, CallKept
<1>2. CASE OpenFile
  BY <1>2 DEF OpenFile, CallKept
<1>3. CASE Start
  <2>1. PICK s \in Sorted(dirs) : call' = [NoCall EXCEPT !.months = s]
    BY <1>3 DEF Start
  <2>2. s \in Seq(MonthDirs)
    <3>1. dirs \in SUBSET MonthDirs /\ IsFiniteSet(dirs)
      BY MonthsFinite, FS_Subset DEF DaysKept
    <3> QED  BY <3>1, SortedIsSeq
  <2>3. /\ call' \in Calls /\ call'.months = s /\ call'.nMon = 0 /\ call'.nextMon = 0
        /\ call'.path = 0 /\ call'.nextDay = 0 /\ pc' = "month"
    BY <1>3, <2>1, <2>2, NoCallTyped DEF Start, Calls
  <2> QED  BY <2>2, <2>3 DEF CallKept, NoEntry, Calls
<1>4. CASE EmptyMonth
  <2>1. call' = [call EXCEPT !.nMon = call.nMon + 1, !.nextMon = NextMon]
    BY <1>4 DEF EmptyMonth
  <2>2. call.nMon < Len(call.months) /\ pc' = pc
    BY <1>4 DEF EmptyMonth
  <2>3. NextMon \in 0 .. Len(call.months) /\ call.nMon + 1 <= Len(call.months)
    BY <2>2, MonthTyped
  <2>4. /\ call' \in Calls /\ call'.months = call.months /\ call'.list = call.list
        /\ call'.nMon = call.nMon + 1 /\ call'.nextMon = NextMon
        /\ call'.path = call.path /\ call'.nextDay = call.nextDay
    <3>1. call \in Calls /\ call.nMon + 1 \in Nat /\ NextMon \in Nat
      BY <2>3 DEF CallKept, Calls
    <3>2. call' = [months |-> call.months, nMon |-> call.nMon + 1,
                   nextMon |-> NextMon, list |-> call.list,
                   nDay |-> call.nDay, nextDay |-> call.nextDay,
                   path |-> call.path, visited |-> call.visited]
      BY <2>1, <3>1 DEF Calls
    <3> QED  BY <3>1, <3>2 DEF Calls
  <2>5. /\ Len(call.months) \in Nat /\ call.nMon \in Nat /\ call.path \in Nat
        /\ call.path <= Len(call.months)
        /\ call.nextDay \in {Dangling} \cup 0 .. Len(call.list)
        /\ pc = "month" => call.nextDay \in {NoEntry, Dangling}
        /\ pc \in {"idle", "month", "day", "open"}
    BY DEF CallKept, Calls
  <2>6. pc' = "month" => call'.nextDay \in {NoEntry, Dangling}
    BY <2>2, <2>4, <2>5
  <2>7. call'.nextDay \in {Dangling} \cup 0 .. Len(call'.list)
    BY <2>4, <2>5
  <2>8. /\ call'.nMon <= Len(call'.months) + 1 /\ call'.nextMon <= Len(call'.months)
        /\ call'.path <= Len(call'.months)
    BY <2>3, <2>4, <2>5
  <2>9. call' \in Calls /\ pc' \in {"idle", "month", "day", "open"}
    BY <2>2, <2>4, <2>5
  <2> QED  BY <2>6, <2>7, <2>8, <2>9 DEF CallKept
<1>5. ASSUME NEW s \in Seq(Places), NEW n \in Nat, NEW p \in 0 .. Len(call.months),
             pc = "month", pc' = "day", call.nMon < Len(call.months),
             n <= Len(call.months) + 1,
             call' = [call EXCEPT !.nMon = n, !.nextMon = NextMon, !.list = s,
                                  !.path = p, !.visited = call.visited \cup {Month.mon}]
      PROVE  CallKept'
  <2>1. NextMon \in 0 .. Len(call.months) /\ Month.mon \in Nat
    BY <1>5, MonthTyped
  <2>2. /\ call' \in Calls /\ call'.months = call.months /\ call'.list = s
        /\ call'.nMon = n /\ call'.nextMon = NextMon
        /\ call'.path = p /\ call'.nextDay = call.nextDay
    <3>1. /\ call \in Calls /\ NextMon \in Nat /\ p \in Nat
          /\ call.visited \cup {Month.mon} \in SUBSET Nat
      BY <1>5, <2>1 DEF CallKept, Calls
    <3>2. call' = [months |-> call.months, nMon |-> n,
                   nextMon |-> NextMon, list |-> s,
                   nDay |-> call.nDay, nextDay |-> call.nextDay,
                   path |-> p, visited |-> call.visited \cup {Month.mon}]
      BY <1>5, <3>1 DEF Calls
    <3> QED  BY <3>1, <3>2 DEF Calls
  <2>3. call.nextDay \in {NoEntry, Dangling} /\ Len(s) \in Nat
        /\ Len(call.months) \in Nat
    BY <1>5 DEF CallKept, Calls
  <2> QED  BY <1>5, <2>1, <2>2, <2>3 DEF CallKept, NoEntry
<1>6. CASE PairedMonth \/ SingleMonth
  <2>1. CASE PairedMonth
    <3>1. PICK s \in Lists(Month, Partner) :
            call' = [call EXCEPT !.nMon = call.nMon + 2, !.nextMon = NextMon,
                       !.list = s, !.path = NextMon,
                       !.visited = call.visited \cup {Month.mon}]
      BY <2>1 DEF PairedMonth, AfterPair
    <3>2. pc = "month" /\ pc' = "day" /\ call.nMon < Len(call.months)
      BY <2>1 DEF PairedMonth
    <3>3. s \in Seq(Places)
      BY DaysAreSeq
    <3>4. call.nMon + 2 \in Nat /\ NextMon \in 0 .. Len(call.months)
          /\ call.nMon + 2 <= Len(call.months) + 1
      <4>1. call.nMon \in Nat /\ Len(call.months) \in Nat
        BY DEF CallKept, Calls
      <4> QED  BY <3>2, <4>1, MonthTyped
    <3> QED  BY <1>5, <3>1, <3>2, <3>3, <3>4
  <2>2. CASE SingleMonth
    <3>1. PICK s \in Sorted(DaysIn(Month)) :
            call' = [call EXCEPT !.nMon = call.nMon + 1, !.nextMon = NextMon,
                       !.list = s, !.path = call.nMon + 1,
                       !.visited = call.visited \cup {Month.mon}]
      BY <2>2 DEF SingleMonth
    <3>2. pc = "month" /\ pc' = "day" /\ call.nMon < Len(call.months)
      BY <2>2 DEF SingleMonth
    <3>3. s \in Seq(Places)
      BY DaysAreSeq
    <3>4. call.nMon + 1 \in Nat /\ call.nMon + 1 \in 0 .. Len(call.months)
          /\ call.nMon + 1 <= Len(call.months) + 1
      <4>1. call.nMon \in Nat /\ Len(call.months) \in Nat
        BY DEF CallKept, Calls
      <4> QED  BY <3>2, <4>1
    <3> QED  BY <1>5, <3>1, <3>2, <3>3, <3>4
  <2> QED  BY <1>6, <2>1, <2>2
<1>7. CASE MonthsOver
  BY <1>7, NoCallTyped DEF MonthsOver, CallKept, NoEntry
<1>8. CASE DeleteDay
  <2>1. PICK d \in Deletions :
          IF GoesOn
          THEN call' = [call EXCEPT !.nDay = d[2], !.nextDay = NextDay] /\ pc' = "day"
          ELSE call' = NoCall /\ pc' = "idle"
    BY <1>8 DEF DeleteDay
  <2>2. d[2] \in Nat /\ NextDay \in {Dangling} \cup 0 .. Len(call.list)
    <3>1. call.nDay \in Nat /\ Len(call.list) \in Nat
          /\ call.nextDay \in {Dangling} \cup 0 .. Len(call.list)
      BY DEF CallKept, Calls
    <3>2. d[2] \in {call.nDay + 1, call.nDay + 2}
      BY <2>1 DEF Deletions
    <3> QED  BY <3>1, <3>2 DEF NextDay
  <2>3. CASE call' = NoCall /\ pc' = "idle"
    BY <2>3, NoCallTyped DEF CallKept, NoEntry
  <2>4. ASSUME call' = [call EXCEPT !.nDay = d[2], !.nextDay = NextDay], pc' = "day"
        PROVE  CallKept'
    <3>1. /\ call' \in Calls /\ call'.months = call.months /\ call'.list = call.list
          /\ call'.nMon = call.nMon /\ call'.nextMon = call.nextMon
          /\ call'.path = call.path /\ call'.nextDay = NextDay
      <4>1. call \in Calls /\ NextDay \in Int
        BY <2>2 DEF CallKept, Dangling
      <4>2. call' = [months |-> call.months, nMon |-> call.nMon,
                     nextMon |-> call.nextMon, list |-> call.list,
                     nDay |-> d[2], nextDay |-> NextDay,
                     path |-> call.path, visited |-> call.visited]
        BY <2>4, <4>1 DEF Calls
      <4> QED  BY <2>2, <4>1, <4>2 DEF Calls
    <3> QED  BY <2>2, <2>4, <3>1 DEF CallKept
  <2> QED  BY <2>1, <2>3, <2>4
<1>9. CASE EndMonth
  <2>1. PICK n \in {NoEntry, Dangling} :
          call' = [call EXCEPT !.list = <<>>, !.nextDay = n]
    <3>1. call' = [call EXCEPT !.list = <<>>, !.nextDay =
                     IF call.nextDay = NoEntry THEN NoEntry ELSE Dangling]
      BY <1>9 DEF EndMonth
    <3> QED  BY <3>1
  <2>2. pc' = "month"
    BY <1>9 DEF EndMonth
  <2>3. /\ call' \in Calls /\ call'.months = call.months /\ call'.list = <<>>
        /\ call'.nMon = call.nMon /\ call'.nextMon = call.nextMon
        /\ call'.path = call.path /\ call'.nextDay = n
    <3>1. call \in Calls /\ n \in Int
      BY DEF CallKept, NoEntry, Dangling
    <3>2. call' = [months |-> call.months, nMon |-> call.nMon,
                   nextMon |-> call.nextMon, list |-> <<>>,
                   nDay |-> call.nDay, nextDay |-> n,
                   path |-> call.path, visited |-> call.visited]
      BY <2>1, <3>1 DEF Calls
    <3> QED  BY <3>1, <3>2 DEF Calls
  <2> QED  BY <2>1, <2>2, <2>3 DEF CallKept, NoEntry
<1> QED
  BY <1>1, <1>2, <1>3, <1>4, <1>6, <1>7, <1>8, <1>9 DEF Next, Recycle

(* Types; and the places a call remembers are in the lists it has, or      *)
(* marked as pointing into one that was freed: the list of months is left  *)
(* by one entry at most, that of days only through a stale next day.       *)
THEOREM RecycleTypeCorrect == Spec => []TypeOK
<1>1. Init => DaysKept /\ CallKept
  <2> SUFFICES ASSUME Init PROVE CallKept
    BY DaysInit
  <2> QED  BY NoCallTyped DEF Init, CallKept, NoEntry
<1>2. DaysKept /\ CallKept /\ [Next]_vars => (DaysKept /\ CallKept)'
  BY DaysNext, CallStep
<1>3. DaysKept /\ CallKept => TypeOK
  <2> SUFFICES ASSUME DaysKept, CallKept PROVE TypeOK
    OBVIOUS
  <2>1. Len(call.months) \in Nat
    BY DEF CallKept, Calls
  <2> QED  BY <2>1 DEF DaysKept, CallKept, Calls, TypeOK
<1> QED  BY <1>1, <1>2, <1>3, PTL DEF Spec
-----------------------------------------------------------------------------
(* The order of deleting.                                                  *)

(* A sorted listing holds each entry once, the older before the newer.     *)
LEMMA SortedLists ==
  ASSUME NEW S, IsFiniteSet(S), NEW s \in Sorted(S)
  PROVE  /\ s \in [1 .. Cardinality(S) -> S] /\ Cardinality(S) \in Nat
         /\ \A i, j \in 1 .. Cardinality(S) : s[i] = s[j] => i = j
         /\ \A i, j \in 1 .. Cardinality(S) : i < j => Time(s[i]) <= Time(s[j])
         /\ \A e \in S : \E i \in 1 .. Cardinality(S) : s[i] = e
<1> DEFINE n == Cardinality(S)
<1>1. n \in Nat
  BY FS_CardinalityType
<1>2. s \in [1 .. n -> S] /\ \A i, j \in 1 .. n : s[i] = s[j] => i = j
  BY DEF Sorted, Orders
<1>3. s \in Injection(1 .. n, S)
  BY <1>2 DEF Injection, IsInjective
<1>4. Cardinality(1 .. n) = Cardinality(S)
  <2>1. Cardinality(1 .. n) = IF 1 > n THEN 0 ELSE n - 1 + 1
    BY <1>1, FS_Interval
  <2> QED  BY <1>1, <2>1
<1>5. s \in Surjection(1 .. n, S)
  BY <1>3, <1>4, FS_Injection
<1>6. \A i, j \in 1 .. n : i < j => Time(s[i]) <= Time(s[j])
  BY <1>2 DEF Sorted
<1> QED  BY <1>1, <1>2, <1>5, <1>6 DEF Surjection

LEMMA PlaceTime ==
  /\ \A p \in Places : /\ p \in [root : Roots, mon : Nat, day : Nat]
                       /\ Time(p) = p.day /\ MonthDir(p) \in MonthDirs
                       /\ MonthDir(p).mon = p.mon /\ MonthDir(p).root = p.root
  /\ \A m \in MonthDirs : m \in [root : Roots, mon : Nat] /\ Time(m) = m.mon
<1>1. ASSUME NEW p \in Places
      PROVE  /\ p \in [root : Roots, mon : Nat, day : Nat]
             /\ MonthDir(p) \in MonthDirs /\ MonthDir(p) \in [root : Roots, mon : Nat]
             /\ MonthDir(p).mon = p.mon /\ MonthDir(p).root = p.root
  BY PlacesAssumption DEF MonthDir, MonthDirs
<1>2. ASSUME NEW p \in [root : Roots, mon : Nat, day : Nat] PROVE Time(p) = p.day
  <2>1. "day" \in DOMAIN p
    OBVIOUS
  <2> QED  BY <2>1 DEF Time
<1>3. ASSUME NEW m \in [root : Roots, mon : Nat] PROVE Time(m) = m.mon
  <2>1. DOMAIN m = {"root", "mon"}
    OBVIOUS
  <2> QED  BY <2>1 DEF Time
<1>4. \A m \in MonthDirs : m \in [root : Roots, mon : Nat]
  BY <1>1 DEF MonthDirs
<1> QED  BY <1>1, <1>2, <1>3, <1>4

(* The list of months is complete and sorted; no directory is in it twice, *)
(* so at most two are of the same month.                                   *)
MonthsListed ==
  /\ \A i, j \in DOMAIN call.months : call.months[i] = call.months[j] => i = j
  /\ \A i, j \in DOMAIN call.months : i < j => call.months[i].mon <= call.months[j].mon
  /\ \A p \in days : \E i \in DOMAIN call.months : call.months[i] = MonthDir(p)

(* Before the first month with days: those passed were empty, and the      *)
(* pointer to the next month is where it should be, up to the last one.    *)
NoneVisited ==
  /\ call.nMon < Len(call.months) =>
       call.nextMon = IF call.nMon = 0 THEN NoEntry ELSE call.nMon + 1
  /\ \A i \in DOMAIN call.months : i <= call.nMon => DaysIn(call.months[i]) = {}

(* In the first such month m and until the next: later ones are newer, and *)
(* what is left of m is in the rest of the list, the older days first; two *)
(* of the same day stand side by side.                                     *)
ListOf(list, m) ==
  /\ \A i \in DOMAIN list : list[i].mon = m
  /\ \A i, j \in DOMAIN list : i < j => list[i].day <= list[j].day
  /\ \A i, j \in DOMAIN list : i + 1 < j => list[i].day < list[j].day
RestOf(m) ==
  /\ \A p \in days : p.mon >= m
  /\ \A p \in days : p.mon = m =>
       \E k \in DOMAIN call.list : k > call.nDay /\ call.list[k] = p
OneVisited(m) ==
  /\ \A i \in DOMAIN call.months : i > call.nMon => call.months[i].mon > m
  /\ pc = "day" => ListOf(call.list, m) /\ RestOf(m)

FirstMonth ==
  pc \in {"month", "day"} =>
    /\ IsFiniteSet(call.visited)
    /\ MonthsListed
    /\ call.visited = {} => pc = "month" /\ call.nDay = 0 /\ NoneVisited
    /\ \A m : call.visited = {m} => OneVisited(m)

OrderInv == DaysKept /\ CallKept /\ FirstMonth

(* All that follow the first month with days are newer, and its list holds *)
(* all of its days: alone, as a pair, or twice, if it is the last one.     *)
LEMMA MonthsAhead ==
  ASSUME OrderInv, pc = "month", call.visited = {}, call.nMon < Len(call.months)
  PROVE  /\ Month \in MonthDirs /\ call.nMon + 1 \in DOMAIN call.months
         /\ \A p \in days : \E i \in DOMAIN call.months :
               i > call.nMon /\ call.months[i] = MonthDir(p) /\ p.mon >= Month.mon
         /\ NextMon = IF call.nMon + 1 < Len(call.months) THEN call.nMon + 2
                      ELSE IF call.nMon = 0 THEN NoEntry ELSE call.nMon + 1
<1>1. /\ call.months \in Seq(MonthDirs) /\ call.nMon \in Nat /\ Len(call.months) \in Nat
      /\ DOMAIN call.months = 1 .. Len(call.months)
      /\ MonthsListed /\ NoneVisited
  BY DEF OrderInv, CallKept, Calls, FirstMonth
<1>2. call.nMon + 1 \in DOMAIN call.months
  BY <1>1
<1>3. Month \in MonthDirs
  BY <1>1, <1>2, ElementOfSeq DEF Month
<1>4. ASSUME NEW p \in days
      PROVE  \E i \in DOMAIN call.months :
               i > call.nMon /\ call.months[i] = MonthDir(p) /\ p.mon >= Month.mon
  <2>1. PICK i \in DOMAIN call.months : call.months[i] = MonthDir(p)
    BY <1>1 DEF MonthsListed
  <2>2. p \in DaysIn(call.months[i])
    BY <2>1 DEF DaysIn
  <2>3. i > call.nMon
    <3>1. ~(i <= call.nMon)
      BY <1>1, <2>2 DEF NoneVisited
    <3>2. i \in Int /\ call.nMon \in Int
      BY <1>1
    <3> QED  BY <3>1, <3>2
  <2>4. call.months[i].mon = p.mon /\ p.mon \in Nat /\ Month.mon \in Nat
    BY <1>3, <2>1, PlaceTime DEF OrderInv, DaysKept
  <2>5. i = call.nMon + 1 \/ call.months[call.nMon + 1].mon <= call.months[i].mon
    BY <1>1, <1>2, <2>3 DEF MonthsListed
  <2> QED  BY <2>1, <2>3, <2>4, <2>5 DEF Month
<1>5. NextMon = IF call.nMon + 1 < Len(call.months) THEN call.nMon + 2
                ELSE IF call.nMon = 0 THEN NoEntry ELSE call.nMon + 1
  BY <1>1 DEF NextMon, NoneVisited
<1> QED  BY <1>2, <1>3, <1>4, <1>5

LEMMA DaysListed ==
  ASSUME DaysKept, NEW m, NEW S \in SUBSET days, \A p \in S : p.mon = m,
         NEW s \in Sorted(S)
  PROVE  /\ ListOf(s, m)
         /\ \A p \in S : \E k \in DOMAIN s : k > 0 /\ s[k] = p
<1> DEFINE n == Cardinality(S)
<1>1. S \in SUBSET Places /\ IsFiniteSet(S)
  BY PlacesAssumption, FS_Subset DEF DaysKept
<1>2. /\ s \in [1 .. n -> S] /\ n \in Nat
      /\ \A i, j \in 1 .. n : s[i] = s[j] => i = j
      /\ \A i, j \in 1 .. n : i < j => Time(s[i]) <= Time(s[j])
      /\ \A e \in S : \E i \in 1 .. n : s[i] = e
  BY <1>1, SortedLists
<1>3. \A p \in S : /\ p \in [root : {"common", "alarm"}, mon : Nat, day : Nat]
                   /\ Time(p) = p.day /\ p.mon = m
  BY <1>1, PlaceTime DEF Roots
<1> HIDE DEF n
<1>4. \A i, j \in 1 .. n : i < j => s[i].day <= s[j].day
  BY <1>2, <1>3
<1>5. ASSUME NEW i \in 1 .. n, NEW j \in 1 .. n, i + 1 < j
      PROVE  s[i].day < s[j].day
  <2>1. i + 1 \in 1 .. n /\ i < i + 1
    BY <1>2, <1>5
  <2>2. s[i].day <= s[i + 1].day /\ s[i + 1].day <= s[j].day
    BY <1>4, <1>5, <2>1
  <2>3. /\ s[i] \in S /\ s[i + 1] \in S /\ s[j] \in S
        /\ s[i] # s[i + 1] /\ s[i] # s[j] /\ s[i + 1] # s[j]
    BY <1>2, <1>5, <2>1
  <2>4. ASSUME NEW p \in S, NEW q \in S, p.day = q.day, p.root = q.root PROVE p = q
    BY <1>3, <2>4
  <2>5. s[i].day = s[j].day => s[i].day = s[i + 1].day
    BY <1>3, <2>2, <2>3
  <2>6. s[i].day # s[j].day
    BY <1>3, <2>3, <2>4, <2>5
  <2> QED  BY <1>3, <2>2, <2>3, <2>6
<1>6. DOMAIN s = 1 .. n
  BY <1>2
<1>7. ListOf(s, m)
  BY <1>2, <1>3, <1>4, <1>5, <1>6 DEF ListOf
<1> QED  BY <1>2, <1>6, <1>7

LEMMA TwiceListed ==
  ASSUME DaysKept, NEW m \in MonthDirs, NEW s \in Sorted(DaysIn(m))
  PROVE  /\ ListOf(Twice(s), m.mon)
         /\ \A p \in DaysIn(m) : \E k \in DOMAIN Twice(s) : k > 0 /\ Twice(s)[k] = p
<1> DEFINE S == DaysIn(m)
           n == Cardinality(S)
           t == Twice(s)
           h(k) == (k + 1) \div 2
<1>1. S \in SUBSET Places /\ IsFiniteSet(S) /\ S \subseteq days
  BY PlacesAssumption, FS_Subset DEF DaysKept, DaysIn
<1>2. /\ s \in [1 .. n -> S] /\ n \in Nat
      /\ \A i, j \in 1 .. n : s[i] = s[j] => i = j
      /\ \A i, j \in 1 .. n : i < j => Time(s[i]) <= Time(s[j])
      /\ \A e \in S : \E i \in 1 .. n : s[i] = e
  BY <1>1, SortedLists
<1>3. \A p \in S : /\ p \in [root : Roots, mon : Nat, day : Nat]
                   /\ Time(p) = p.day /\ p.mon = m.mon /\ p.root = m.root
  <2>1. \A p \in S : MonthDir(p) = m
    BY DEF DaysIn
  <2> QED  BY <1>1, <2>1, PlaceTime
<1> HIDE DEF n, S
<1>4. \A i, j \in 1 .. n : i < j => s[i].day < s[j].day
  <2> SUFFICES ASSUME NEW i \in 1 .. n, NEW j \in 1 .. n, i < j PROVE s[i].day < s[j].day
    OBVIOUS
  <2>1. s[i] \in S /\ s[j] \in S /\ s[i] # s[j] /\ s[i].day <= s[j].day
    BY <1>2, <1>3
  <2>2. s[i].day # s[j].day
    BY <1>3, <2>1
  <2> QED  BY <1>3, <2>1, <2>2
<1>5. Len(s) = n
  BY <1>2
<1>6. DOMAIN t = 1 .. 2 * n /\ \A k \in 1 .. 2 * n : t[k] = s[h(k)] /\ h(k) \in 1 .. n
  BY <1>2, <1>5 DEF Twice
<1>7. \A k, l \in 1 .. 2 * n : /\ k < l => h(k) <= h(l)
                               /\ k + 1 < l => h(k) < h(l)
  BY <1>2
<1>8. \A i \in 1 .. n : 2 * i \in 1 .. 2 * n /\ h(2 * i) = i
  BY <1>2
<1> HIDE DEF t, h
<1>9. ListOf(t, m.mon)
  <2>1. \A k \in 1 .. 2 * n : t[k].mon = m.mon /\ t[k].day \in Nat
    BY <1>2, <1>3, <1>6
  <2>2. ASSUME NEW k \in 1 .. 2 * n, NEW l \in 1 .. 2 * n, k < l
        PROVE  t[k].day <= t[l].day
    <3>1. h(k) = h(l) \/ s[h(k)].day < s[h(l)].day
      <4>1. h(k) \in 1 .. n /\ h(l) \in 1 .. n /\ h(k) <= h(l)
        BY <1>6, <1>7, <2>2
      <4> QED  BY <1>4, <4>1
    <3> QED  BY <1>6, <2>1, <3>1
  <2>3. ASSUME NEW k \in 1 .. 2 * n, NEW l \in 1 .. 2 * n, k + 1 < l
        PROVE  t[k].day < t[l].day
    BY <1>4, <1>6, <1>7, <2>3
  <2> QED  BY <1>6, <2>1, <2>2, <2>3 DEF ListOf
<1>10. ASSUME NEW p \in S PROVE \E k \in DOMAIN t : k > 0 /\ t[k] = p
  <2>1. PICK i \in 1 .. n : s[i] = p
    BY <1>2
  <2>2. 2 * i \in 1 .. 2 * n /\ t[2 * i] = p
    BY <1>6, <1>8, <2>1
  <2> QED  BY <1>6, <2>2
<1> QED  BY <1>9, <1>10 DEF S, t

(* What a month that is visited first has for a list, and what follows it. *)
Complete(list, m) ==
  /\ ListOf(list, m)
  /\ \A p \in days : p.mon = m => \E k \in DOMAIN list : k > 0 /\ list[k] = p

LEMMA SingleFirst ==
  ASSUME OrderInv, pc = "month", call.visited = {}, call.nMon < Len(call.months),
         ~Paired, NEW s \in Sorted(DaysIn(Month))
  PROVE  /\ Complete(s, Month.mon)
         /\ \A i \in DOMAIN call.months : i > call.nMon + 1 => call.months[i].mon > Month.mon
<1>1. /\ Month \in MonthDirs /\ call.nMon + 1 \in DOMAIN call.months
      /\ \A p \in days : \E i \in DOMAIN call.months :
            i > call.nMon /\ call.months[i] = MonthDir(p) /\ p.mon >= Month.mon
      /\ NextMon = IF call.nMon + 1 < Len(call.months) THEN call.nMon + 2
                   ELSE IF call.nMon = 0 THEN NoEntry ELSE call.nMon + 1
  BY MonthsAhead
<1>2. /\ call.months \in Seq(MonthDirs) /\ call.nMon \in Nat /\ Len(call.months) \in Nat
      /\ DOMAIN call.months = 1 .. Len(call.months)
      /\ MonthsListed /\ DaysKept
  BY DEF OrderInv, CallKept, Calls, FirstMonth
<1>3. \A i \in DOMAIN call.months : call.months[i].mon \in Nat
  <2>1. \A i \in DOMAIN call.months : call.months[i] \in MonthDirs
    BY <1>2
  <2> QED  BY <2>1, PlaceTime
<1>4. ASSUME NEW i \in DOMAIN call.months, i > call.nMon + 1
      PROVE  call.months[i].mon > Month.mon
  <2>1. NextMon = call.nMon + 2 /\ call.nMon + 2 \in DOMAIN call.months
    BY <1>1, <1>2, <1>4
  <2>2. call.months[call.nMon + 2].mon # Month.mon
    BY <1>2, <2>1 DEF Paired, NoEntry
  <2>3. Month.mon <= call.months[call.nMon + 2].mon
    BY <1>1, <1>2, <2>1 DEF MonthsListed, Month
  <2>4. i = call.nMon + 2 \/ call.months[call.nMon + 2].mon <= call.months[i].mon
    BY <1>2, <1>4, <2>1 DEF MonthsListed
  <2> QED  BY <1>1, <1>3, <2>1, <2>2, <2>3, <2>4 DEF Month
<1>5. ASSUME NEW p \in days, p.mon = Month.mon PROVE p \in DaysIn(Month)
  <2>1. PICK i \in DOMAIN call.months : i > call.nMon /\ call.months[i] = MonthDir(p)
    BY <1>1
  <2>2. call.months[i].mon = Month.mon
    BY <1>2, <1>5, <2>1, PlaceTime DEF DaysKept
  <2>3. i = call.nMon + 1
    BY <1>2, <1>3, <1>4, <2>1, <2>2
  <2> QED  BY <2>1, <2>3 DEF DaysIn, Month
<1>6. DaysIn(Month) \in SUBSET days /\ \A p \in DaysIn(Month) : p.mon = Month.mon
  <2>1. \A p \in DaysIn(Month) : p \in Places /\ MonthDir(p) = Month
    BY <1>2 DEF DaysIn, DaysKept
  <2> QED  BY <2>1, PlaceTime DEF DaysIn
<1>7. ListOf(s, Month.mon) /\ \A p \in DaysIn(Month) : \E k \in DOMAIN s : k > 0 /\ s[k] = p
  <2> DEFINE S == DaysIn(Month)
             m == Month.mon
  <2>1. /\ DaysKept /\ S \in SUBSET days /\ \A p \in S : p.mon = m
        /\ s \in Sorted(S)
    BY <1>2, <1>6
  <2> HIDE DEF S, m
  <2>2. ListOf(s, m) /\ \A p \in S : \E k \in DOMAIN s : k > 0 /\ s[k] = p
    BY <2>1, DaysListed
  <2> QED  BY <2>2 DEF S, m
<1> QED  BY <1>4, <1>5, <1>7 DEF Complete

LEMMA PairedFirst ==
  ASSUME OrderInv, pc = "month", call.visited = {}, call.nMon < Len(call.months),
         Paired, NEW s \in Lists(Month, Partner)
  PROVE  /\ Complete(s, Month.mon)
         /\ \A i \in DOMAIN call.months : i > call.nMon + 2 => call.months[i].mon > Month.mon
<1>1. /\ Month \in MonthDirs /\ call.nMon + 1 \in DOMAIN call.months
      /\ \A p \in days : \E i \in DOMAIN call.months :
            i > call.nMon /\ call.months[i] = MonthDir(p) /\ p.mon >= Month.mon
      /\ NextMon = IF call.nMon + 1 < Len(call.months) THEN call.nMon + 2
                   ELSE IF call.nMon = 0 THEN NoEntry ELSE call.nMon + 1
  BY MonthsAhead
<1>2. /\ call.months \in Seq(MonthDirs) /\ call.nMon \in Nat /\ Len(call.months) \in Nat
      /\ DOMAIN call.months = 1 .. Len(call.months)
      /\ MonthsListed /\ DaysKept
  BY DEF OrderInv, CallKept, Calls, FirstMonth
<1>3. \A i \in DOMAIN call.months : call.months[i] \in [root : {"common", "alarm"}, mon : Nat]
  <2>1. \A i \in DOMAIN call.months : call.months[i] \in MonthDirs
    BY <1>2
  <2> QED  BY <2>1, PlaceTime DEF Roots
<1>4. Partner.mon = Month.mon /\ NextMon # NoEntry
  BY DEF Paired, Partner
<1>5. \A p \in DaysIn(Month) \cup DaysIn(Partner) : p \in days /\ p.mon = Month.mon
  <2>1. \A p \in DaysIn(Month) \cup DaysIn(Partner) :
          p \in days /\ p \in Places /\ (MonthDir(p) = Month \/ MonthDir(p) = Partner)
    BY <1>2 DEF DaysIn, DaysKept
  <2> QED  BY <1>4, <2>1, PlaceTime
<1>6. CASE call.nMon + 1 < Len(call.months)
  <2>1. NextMon = call.nMon + 2 /\ call.nMon + 2 \in DOMAIN call.months
    BY <1>1, <1>2, <1>6
  <2>2. Month # Partner /\ Month = call.months[call.nMon + 1]
        /\ Partner = call.months[call.nMon + 2]
    BY <1>1, <1>2, <2>1 DEF MonthsListed, Month, Partner
  <2>3. ASSUME NEW i \in DOMAIN call.months, i > call.nMon + 2
        PROVE  call.months[i].mon > Month.mon
    <3>1. call.months[i] # Month /\ call.months[i] # Partner
      BY <1>1, <1>2, <2>1, <2>2, <2>3 DEF MonthsListed
    <3>2. Partner.mon <= call.months[i].mon
      BY <1>2, <2>1, <2>2, <2>3 DEF MonthsListed
    <3>3. call.months[i].mon # Month.mon
      BY <1>1, <1>3, <1>4, <2>1, <2>2, <3>1
    <3> QED  BY <1>1, <1>3, <1>4, <2>1, <2>2, <3>2, <3>3
  <2>4. ASSUME NEW p \in days, p.mon = Month.mon
        PROVE  p \in DaysIn(Month) \cup DaysIn(Partner)
    <3>1. PICK i \in DOMAIN call.months : i > call.nMon /\ call.months[i] = MonthDir(p)
      BY <1>1
    <3>2. call.months[i].mon = Month.mon
      BY <1>2, <2>4, <3>1, PlaceTime DEF DaysKept
    <3>3. i = call.nMon + 1 \/ i = call.nMon + 2
      BY <1>2, <1>3, <2>3, <3>1, <3>2
    <3> QED  BY <2>2, <3>1, <3>3 DEF DaysIn
  <2>5. s \in Sorted(DaysIn(Month) \cup DaysIn(Partner))
    BY <2>2 DEF Lists
  <2>6. DaysIn(Month) \cup DaysIn(Partner) \in SUBSET days
    BY <1>5
  <2>7. ListOf(s, Month.mon) /\ \A p \in DaysIn(Month) \cup DaysIn(Partner) :
          \E k \in DOMAIN s : k > 0 /\ s[k] = p
    <3> DEFINE S == DaysIn(Month) \cup DaysIn(Partner)
               m == Month.mon
    <3>1. /\ DaysKept /\ S \in SUBSET days /\ \A p \in S : p.mon = m
          /\ s \in Sorted(S)
      BY <1>2, <1>5, <2>5, <2>6
    <3> HIDE DEF S, m
    <3>2. ListOf(s, m) /\ \A p \in S : \E k \in DOMAIN s : k > 0 /\ s[k] = p
      BY <3>1, DaysListed
    <3> QED  BY <3>2 DEF S, m
  <2> QED  BY <2>3, <2>4, <2>7 DEF Complete
<1>7. CASE ~(call.nMon + 1 < Len(call.months))
  <2>1. call.nMon + 1 = Len(call.months) /\ NextMon = call.nMon + 1
    BY <1>1, <1>2, <1>4, <1>7
  <2>2. Partner = Month /\ s \in {Twice(t) : t \in Sorted(DaysIn(Month))}
    BY <2>1 DEF Partner, Month, Lists
  <2>3. ListOf(s, Month.mon) /\ \A p \in DaysIn(Month) : \E k \in DOMAIN s : k > 0 /\ s[k] = p
    BY <1>1, <1>2, <2>2, TwiceListed
  <2>4. ASSUME NEW p \in days, p.mon = Month.mon PROVE p \in DaysIn(Month)
    <3>1. PICK i \in DOMAIN call.months : i > call.nMon /\ call.months[i] = MonthDir(p)
      BY <1>1
    <3>2. i = call.nMon + 1
      BY <1>2, <2>1, <3>1
    <3> QED  BY <3>1, <3>2 DEF DaysIn, Month
  <2> QED  BY <1>2, <2>1, <2>3, <2>4 DEF Complete
<1> QED  BY <1>6, <1>7

(* What a step of the loop over the days of the first month leaves is      *)
(* newer than what it deletes, and still ahead in the list.                *)
LEMMA DeletedIsOldest ==
  ASSUME OrderInv, pc = "day", NEW m, call.visited = {m},
         call.nDay < Len(call.list), NEW d \in Deletions
  PROVE  /\ \A p \in d[1] : p.mon = m /\ p.day = Day.day
         /\ \A q \in days \ d[1] : q.mon = m =>
              /\ Day.day < q.day
              /\ \E k \in DOMAIN call.list : k > d[2] /\ call.list[k] = q
<1>1. /\ call.list \in Seq(Places) /\ call.nDay \in Nat /\ Len(call.list) \in Nat
      /\ DOMAIN call.list = 1 .. Len(call.list)
      /\ ListOf(call.list, m) /\ RestOf(m) /\ DaysKept
  BY DEF OrderInv, CallKept, Calls, FirstMonth, OneVisited
<1>2. \A k \in DOMAIN call.list : call.list[k].mon = m /\ call.list[k].day \in Nat
  <2>1. \A k \in DOMAIN call.list : call.list[k] \in Places
    BY <1>1
  <2> QED  BY <1>1, <2>1, PlaceTime DEF ListOf
<1>3. call.nDay + 1 \in DOMAIN call.list /\ Day = call.list[call.nDay + 1]
  BY <1>1 DEF Day
<1>4. SameDays \subseteq {k \in DOMAIN call.list : call.list[k].day = Day.day}
  BY <1>1 DEF SameDays, NextDay, OrderInv, CallKept, NoEntry, Dangling
<1>5. \/ \E k \in SameDays : d[1] = {Day, call.list[k]} /\ d[2] = call.nDay + 2
      \/ NextDay \notin SameDays /\ d[1] = {Day} /\ d[2] = call.nDay + 1
  BY DEF Deletions
<1>6. \A p \in d[1] : p.mon = m /\ p.day = Day.day
  BY <1>2, <1>3, <1>4, <1>5
<1>7. ASSUME NEW q \in days \ d[1], q.mon = m
      PROVE  /\ Day.day < q.day
             /\ \E k \in DOMAIN call.list : k > d[2] /\ call.list[k] = q
  <2>1. PICK k \in DOMAIN call.list : k > call.nDay /\ call.list[k] = q
    BY <1>1, <1>7 DEF RestOf
  <2>2. k > call.nDay + 1
    BY <1>1, <1>3, <1>5, <1>7, <2>1
  <2>3. NextDay = call.nDay + 2 /\ call.nDay + 2 \in DOMAIN call.list
    BY <1>1, <2>1, <2>2 DEF NextDay
  <2>4. SameDays = {l \in {call.nDay + 2} : call.list[l].day = Day.day}
    BY <1>1, <2>3 DEF SameDays, NoEntry, Dangling
  <2>5. CASE k = call.nDay + 2
    <3>1. call.nDay + 2 \notin SameDays
      BY <1>5, <1>7, <2>1, <2>3, <2>4, <2>5
    <3>2. q.day # Day.day /\ d[2] = call.nDay + 1
      BY <1>5, <2>1, <2>3, <2>4, <2>5, <3>1
    <3>3. Day.day <= q.day
      BY <1>1, <1>3, <2>1, <2>2 DEF ListOf
    <3> QED  BY <1>2, <1>3, <2>1, <2>2, <3>2, <3>3
  <2>6. CASE k > call.nDay + 2
    <3>1. Day.day < q.day
      BY <1>1, <1>3, <2>1, <2>6 DEF ListOf
    <3>2. k > d[2]
      BY <1>1, <1>5, <2>2, <2>6
    <3> QED  BY <2>1, <3>1, <3>2
  <2> QED  BY <1>1, <2>2, <2>5, <2>6
<1> QED  BY <1>6, <1>7

(* A month is visited: the first one, or one of several.                   *)
LEMMA FirstVisit ==
  ASSUME OrderInv, pc = "month", call.nMon < Len(call.months),
         NEW n \in {call.nMon + 1, call.nMon + 2}, NEW s, NEW p,
         call' = [call EXCEPT !.nMon = n, !.nextMon = NextMon, !.list = s,
                              !.path = p, !.visited = call.visited \cup {Month.mon}],
         call.visited = {} =>
           /\ Complete(s, Month.mon)
           /\ \A i \in DOMAIN call.months : i > n => call.months[i].mon > Month.mon,
         pc' = "day", UNCHANGED days
  PROVE  FirstMonth'
<1>1. /\ call.months \in Seq(MonthDirs) /\ call.nMon \in Nat /\ Len(call.months) \in Nat
      /\ DOMAIN call.months = 1 .. Len(call.months)
      /\ FirstMonth /\ DaysKept /\ CallKept /\ call \in Calls
  BY DEF OrderInv, CallKept, Calls
<1>2. /\ call'.months = call.months /\ call'.nMon = n /\ call'.list = s
      /\ call'.nDay = call.nDay /\ call'.visited = call.visited \cup {Month.mon}
  BY <1>1 DEF Calls
<1>3. IsFiniteSet(call'.visited)
  BY <1>1, <1>2, FS_AddElement DEF FirstMonth
<1>4. MonthsListed'
  BY <1>1, <1>2 DEF FirstMonth, MonthsListed
<1>5. ASSUME NEW m, call'.visited = {m}
      PROVE  OneVisited(m)'
  <2>1. m = Month.mon /\ (call.visited = {} \/ call.visited = {m})
    BY <1>2, <1>5
  <2>2. call.visited = {}
    <3>1. ASSUME call.visited = {m} PROVE FALSE
      <4>1. call.nMon + 1 \in DOMAIN call.months /\ call.nMon + 1 > call.nMon
        BY <1>1
      <4>2. Month.mon > m
        BY <1>1, <3>1, <4>1 DEF FirstMonth, OneVisited, Month
      <4>3. Month.mon \in Nat
        BY <1>1, MonthTyped
      <4> QED  BY <2>1, <4>2, <4>3
    <3> QED  BY <2>1, <3>1
  <2>3. /\ ListOf(s, m) /\ call.nDay = 0
        /\ \A q \in days : q.mon = m => \E k \in DOMAIN s : k > 0 /\ s[k] = q
        /\ \A i \in DOMAIN call.months : i > n => call.months[i].mon > m
    BY <1>1, <2>1, <2>2 DEF Complete, FirstMonth
  <2>4. \A q \in days : q.mon >= m
    BY <2>1, <2>2, MonthsAhead
  <2>5. ListOf(call.list, m)'
    BY <1>2, <2>3 DEF ListOf
  <2>6. RestOf(m)'
    BY <1>2, <2>3, <2>4 DEF RestOf
  <2> QED  BY <1>2, <2>3, <2>5, <2>6 DEF OneVisited
<1> QED  BY <1>2, <1>3, <1>4, <1>5 DEF FirstMonth

LEMMA OrderStep == OrderInv /\ [Next]_vars => OrderInv'
<1> SUFFICES ASSUME OrderInv, [Next]_vars PROVE FirstMonth'
  BY DaysNext, CallStep DEF OrderInv
<1>1. DaysKept /\ CallKept /\ FirstMonth /\ call \in Calls
  BY DEF OrderInv, CallKept
<1>2. ASSUME UNCHANGED <<days, pc, call>> PROVE FirstMonth'
  <2>1. \A m : DaysIn(m)' = DaysIn(m)
    BY <1>2 DEF DaysIn
  <2> QED
    BY <1>1, <1>2, <2>1
    DEF FirstMonth, MonthsListed, NoneVisited, OneVisited, RestOf, ListOf
<1>3. CASE Midnight \/ UNCHANGED vars
  BY <1>2, <1>3 DEF Midnight, vars
<1>4. CASE OpenFile \/ MonthsOver
  BY <1>4 DEF OpenFile, MonthsOver, FirstMonth
<1>5. CASE Start
  <2>1. PICK s \in Sorted(dirs) : call' = [NoCall EXCEPT !.months = s]
    BY <1>5 DEF Start
  <2>2. IsFiniteSet(dirs) /\ dirs \in SUBSET MonthDirs
    BY <1>1, MonthsFinite, FS_Subset DEF DaysKept
  <2>3. /\ s \in [1 .. Cardinality(dirs) -> dirs] /\ DOMAIN s = 1 .. Cardinality(dirs)
        /\ \A i, j \in DOMAIN s : s[i] = s[j] => i = j
        /\ \A i, j \in DOMAIN s : i < j => Time(s[i]) <= Time(s[j])
        /\ \A e \in dirs : \E i \in DOMAIN s : s[i] = e
    BY <2>2, SortedLists
  <2>4. \A i, j \in DOMAIN s : i < j => s[i].mon <= s[j].mon
    <3>1. \A i \in DOMAIN s : Time(s[i]) = s[i].mon
      BY <2>2, <2>3, PlaceTime
    <3> QED  BY <2>3, <3>1
  <2>5. /\ call'.months = s /\ call'.nMon = 0 /\ call'.nextMon = NoEntry
        /\ call'.nDay = 0 /\ call'.visited = {}
    BY <2>1 DEF NoCall
  <2>6. pc' = "month" /\ days' = days
    BY <1>5 DEF Start
  <2>7. MonthsListed'
    BY <1>1, <2>3, <2>4, <2>5, <2>6 DEF MonthsListed, DaysKept, MonthDir
  <2>8. NoneVisited'
    BY <2>3, <2>5 DEF NoneVisited
  <2>9. IsFiniteSet(call'.visited)
    BY <2>5, FS_EmptySet
  <2> QED  BY <2>5, <2>6, <2>7, <2>8, <2>9 DEF FirstMonth
<1>6. CASE EmptyMonth
  <2>1. /\ pc = "month" /\ pc' = "month" /\ days' = days /\ call.nMon < Len(call.months)
        /\ DaysIn(Month) = {}
        /\ call' = [call EXCEPT !.nMon = call.nMon + 1, !.nextMon = NextMon]
    BY <1>6 DEF EmptyMonth
  <2>2. /\ call'.months = call.months /\ call'.nMon = call.nMon + 1
        /\ call'.nextMon = NextMon /\ call'.list = call.list
        /\ call'.nDay = call.nDay /\ call'.visited = call.visited
    BY <1>1, <2>1 DEF Calls
  <2>3. call.nMon \in Nat /\ Len(call.months) \in Nat /\ DOMAIN call.months = 1 .. Len(call.months)
    BY <1>1 DEF Calls
  <2>4. MonthsListed'
    BY <1>1, <2>1, <2>2 DEF FirstMonth, MonthsListed
  <2>5. ASSUME call.visited = {} PROVE NoneVisited'
    <3>1. NextMon = IF call.nMon + 1 < Len(call.months) THEN call.nMon + 2
                    ELSE IF call.nMon = 0 THEN NoEntry ELSE call.nMon + 1
      BY <2>1, <2>5, MonthsAhead
    <3>2. \A i \in DOMAIN call.months : i <= call.nMon + 1 => DaysIn(call.months[i]) = {}
      <4>1. \A i \in DOMAIN call.months : i <= call.nMon => DaysIn(call.months[i]) = {}
        BY <1>1, <2>1, <2>5 DEF FirstMonth, NoneVisited
      <4>2. DaysIn(call.months[call.nMon + 1]) = {}
        BY <2>1 DEF Month
      <4>3. ASSUME NEW i \in DOMAIN call.months, i <= call.nMon + 1
            PROVE  i <= call.nMon \/ i = call.nMon + 1
        BY <2>3, <4>3
      <4> QED  BY <4>1, <4>2, <4>3
    <3>3. \A m : DaysIn(m)' = DaysIn(m)
      BY <2>1 DEF DaysIn
    <3>4. call'.nMon < Len(call'.months) =>
            call'.nextMon = IF call'.nMon = 0 THEN NoEntry ELSE call'.nMon + 1
      BY <2>2, <2>3, <3>1
    <3>5. \A i \in DOMAIN call'.months : i <= call'.nMon => DaysIn(call.months[i])' = {}
      BY <2>2, <3>2, <3>3
    <3> QED  BY <3>4, <3>5 DEF NoneVisited
  <2>6. ASSUME NEW m, call.visited = {m} PROVE OneVisited(m)'
    BY <1>1, <2>1, <2>2, <2>3, <2>6 DEF FirstMonth, OneVisited
  <2> QED  BY <1>1, <2>1, <2>2, <2>4, <2>5, <2>6 DEF FirstMonth
<1>7. CASE PairedMonth
  <2>1. /\ pc = "month" /\ pc' = "day" /\ days' = days /\ call.nMon < Len(call.months)
        /\ Paired
    BY <1>7 DEF PairedMonth
  <2>2. PICK s \in Lists(Month, Partner) :
          call' = [call EXCEPT !.nMon = call.nMon + 2, !.nextMon = NextMon,
                     !.list = s, !.path = NextMon,
                     !.visited = call.visited \cup {Month.mon}]
    BY <1>7 DEF PairedMonth, AfterPair
  <2> QED  BY <2>1, <2>2, FirstVisit, PairedFirst
<1>8. CASE SingleMonth
  <2>1. /\ pc = "month" /\ pc' = "day" /\ days' = days /\ call.nMon < Len(call.months)
        /\ ~Paired
    BY <1>8 DEF SingleMonth
  <2>2. PICK s \in Sorted(DaysIn(Month)) :
          call' = [call EXCEPT !.nMon = call.nMon + 1, !.nextMon = NextMon,
                     !.list = s, !.path = call.nMon + 1,
                     !.visited = call.visited \cup {Month.mon}]
    BY <1>8 DEF SingleMonth
  <2> QED  BY <2>1, <2>2, FirstVisit, SingleFirst
<1>9. CASE DeleteDay
  <2>1. pc = "day" /\ call.nDay < Len(call.list)
    BY <1>9 DEF DeleteDay
  <2>2. PICK d \in Deletions :
          /\ days' = days \ d[1]
          /\ \/ call' = [call EXCEPT !.nDay = d[2], !.nextDay = NextDay] /\ pc' = "day"
             \/ pc' = "idle"
    BY <1>9 DEF DeleteDay
  <2>3. CASE pc' = "idle"
    BY <2>3 DEF FirstMonth
  <2>4. ASSUME call' = [call EXCEPT !.nDay = d[2], !.nextDay = NextDay], pc' = "day"
        PROVE  FirstMonth'
    <3>1. /\ call'.months = call.months /\ call'.nMon = call.nMon
          /\ call'.list = call.list /\ call'.nDay = d[2] /\ call'.visited = call.visited
      BY <1>1, <2>4 DEF Calls
    <3>2. MonthsListed'
      BY <1>1, <2>1, <2>2, <3>1 DEF FirstMonth, MonthsListed
    <3>3. ASSUME NEW m, call.visited = {m} PROVE OneVisited(m)'
      <4>1. \A q \in days \ d[1] : q.mon = m =>
              \E k \in DOMAIN call.list : k > d[2] /\ call.list[k] = q
        BY <2>1, <3>3, DeletedIsOldest
      <4>2. OneVisited(m) /\ RestOf(m) /\ ListOf(call.list, m)
        BY <1>1, <2>1, <3>3 DEF FirstMonth, OneVisited
      <4>3. RestOf(m)'
        BY <2>2, <3>1, <4>1, <4>2 DEF RestOf
      <4>4. ListOf(call.list, m)'
        BY <3>1, <4>2 DEF ListOf
      <4> QED  BY <3>1, <4>2, <4>3, <4>4 DEF OneVisited
    <3> QED  BY <1>1, <2>1, <2>4, <3>1, <3>2, <3>3 DEF FirstMonth
  <2> QED  BY <2>2, <2>3, <2>4
<1>10. CASE EndMonth
  <2>1. /\ pc = "day" /\ pc' = "month" /\ days' = days
        /\ call' = [call EXCEPT !.list = <<>>, !.nextDay =
                      IF call.nextDay = NoEntry THEN NoEntry ELSE Dangling]
    BY <1>10 DEF EndMonth
  <2>2. /\ call'.months = call.months /\ call'.nMon = call.nMon
        /\ call'.visited = call.visited
    BY <1>1, <2>1 DEF Calls
  <2>3. MonthsListed'
    BY <1>1, <2>1, <2>2 DEF FirstMonth, MonthsListed
  <2>4. ASSUME NEW m, call.visited = {m} PROVE OneVisited(m)'
    BY <1>1, <2>1, <2>2, <2>4 DEF FirstMonth, OneVisited
  <2> QED  BY <1>1, <2>1, <2>2, <2>3, <2>4 DEF FirstMonth
<1> QED
  BY <1>3, <1>4, <1>5, <1>6, <1>7, <1>8, <1>9, <1>10 DEF Next, Recycle

(* However the months and days lie in the two trees, and although the      *)
(* pointer to the next month or day is stale at the end of its list: as    *)
(* long as a call is in the first month with recordings, what it deletes   *)
(* is older than all that is left.                                         *)
THEOREM OldestGoFirst == Spec => OldestFirst
<1>1. Init => OrderInv
  <2> SUFFICES ASSUME Init PROVE CallKept /\ FirstMonth
    BY DaysInit DEF OrderInv
  <2>1. CallKept
    BY NoCallTyped DEF Init, CallKept, NoEntry
  <2> QED  BY <2>1 DEF Init, FirstMonth
<1>2. OrderInv /\ [Next]_vars =>
        [Cardinality(call.visited) = 1 => \A p \in Deleted, q \in days' : Earlier(p, q)]_vars
  <2> SUFFICES ASSUME OrderInv, Next, Cardinality(call.visited) = 1,
                      NEW p \in Deleted, NEW q \in days'
               PROVE  Earlier(p, q)
    OBVIOUS
  <2>1. DeleteDay
    BY DEF Next, Recycle, Deleted, Midnight, OpenFile, Start, EmptyMonth, PairedMonth,
           SingleMonth, MonthsOver, EndMonth
  <2>2. /\ pc = "day" /\ call.nDay < Len(call.list)
        /\ \E d \in Deletions : days' = days \ d[1]
    BY <2>1 DEF DeleteDay
  <2>3. PICK d \in Deletions : days' = days \ d[1]
    BY <2>2
  <2>4. PICK m : call.visited = {m}
    BY <2>2, FS_Singleton DEF OrderInv, FirstMonth
  <2>5. p \in d[1] /\ q \in days \ d[1]
    BY <2>3 DEF Deleted
  <2>6. p.mon = m /\ p.day = Day.day /\ (q.mon = m => Day.day < q.day)
    BY <2>2, <2>4, <2>5, DeletedIsOldest
  <2>7. q.mon >= m /\ q \in Places /\ p \in Places
    BY <2>2, <2>3, <2>4, <2>5 DEF OrderInv, DaysKept, FirstMonth, OneVisited, RestOf, Deleted
  <2>8. q.mon \in Nat /\ m \in Nat
    BY <2>6, <2>7, PlaceTime
  <2> QED  BY <2>6, <2>7, <2>8 DEF Earlier
<1> QED  BY <1>1, <1>2, OrderStep, PTL DEF Spec, OldestFirst
=============================================================================
