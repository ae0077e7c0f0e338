------------------------- MODULE RecorderTaskProofs -------------------------
(***************************************************************************)
(* Theorems about RecorderTask, for every length of units, files and days, *)
(* every buffer size and every schedule.                                   *)
(***************************************************************************)
EXTENDS RecorderTask, SequenceTheorems, TLAPS

-----------------------------------------------------------------------------
(* Lengths and times of day. *)

LEMMA LengthsPositive ==
  /\ FileSecs \in Nat \ {0}
  /\ DaySecs \in Nat \ {0}
  /\ MinSecs \in Nat \ {0}
<1>1. ASSUME NEW a \in Nat \ {0}, NEW b \in Nat \ {0} PROVE a * b \in Nat \ {0}
  OBVIOUS
<1>2. FileSecs \in Nat \ {0}
  BY <1>1, LengthsAssumption DEF FileSecs
<1>3. DaySecs \in Nat \ {0}
  BY <1>1, <1>2, LengthsAssumption DEF DaySecs
<1>4. MinSecs \in Nat \ {0}
  BY <1>1, LengthsAssumption DEF MinSecs
<1> QED  BY <1>2, <1>3, <1>4

LEMMA DivMod ==
  ASSUME NEW a \in Nat, NEW b \in Nat \ {0}
  PROVE  a \div b \in Nat /\ a % b \in Nat /\ a % b < b /\ a - (a % b) \in Nat
OBVIOUS

(* Slots, times of day and units are natural numbers. *)
LEMMA TimesAreNat ==
  ASSUME clock \in Nat
  PROVE  Now \in Nat /\ Slot \in Nat
BY DivMod, LengthsPositive DEF Now, Slot

-----------------------------------------------------------------------------
(* The pieces of save_record_frame, stop_rec and save_rec_units keep to    *)
(* their types.                                                            *)

PesType(p) == DOMAIN p \subseteq Nat /\ p \in [DOMAIN p -> Nat]
IdxType(x) == DOMAIN x \subseteq Nat /\ x \in [DOMAIN x -> Units]

LEMMA NoUnitsType == NoUnits \in Units
BY DEF NoUnits, Units, Unmarked, AllTypes, CLOSED, COMMON, ALARM

(* Writing blocks to a pes file. *)
LEMMA WriteType ==
  ASSUME NEW p, PesType(p), NEW f, NEW n \in Nat
  PROVE  PesType([p EXCEPT ![f] = @ + n])
<1> DEFINE blocks(g) == IF g = f THEN p[f] + n ELSE p[g]
<1>1. [p EXCEPT ![f] = @ + n] = [g \in DOMAIN p |-> blocks(g)]
  OBVIOUS
<1>2. \A g \in DOMAIN p : blocks(g) \in Nat
  BY DEF PesType
<1> HIDE DEF blocks
<1>3. [g \in DOMAIN p |-> blocks(g)] \in [DOMAIN p -> Nat]
  BY <1>2
<1> QED  BY <1>1, <1>3 DEF PesType

LEMMA PushType ==
  ASSUME NEW r \in Recs, PesType(pes)
  PROVE  Push(r) \in Recs /\ PesType(PushPes(r))
<1>1. Push(r) \in Recs
  <2> DEFINE b == IF r.fd # "open" THEN r.buf ELSE IF PushFull(r) THEN 0 ELSE r.buf + 1
  <2>1. b \in Nat /\ r.len + 1 \in Nat
    BY DEF Recs
  <2>2. Push(r) = [r EXCEPT !.len = @ + 1, !.buf = b]
    BY DEF Push
  <2> HIDE DEF b
  <2> QED  BY <2>1, <2>2 DEF Recs
<1>2. PesType(PushPes(r))
  BY WriteType, LengthsAssumption DEF PushPes
<1> QED  BY <1>1, <1>2

LEMMA MarkUnitType ==
  ASSUME NEW r \in Recs, clock \in Nat, type \in AllTypes
  PROVE  MarkUnit(r) \in Recs
<1>1. r.unitTime + UnitSecs \in Nat
  BY LengthsAssumption DEF Recs
<1>2. UnitEnd(r) \in Nat
  BY <1>1, DivMod, LengthsPositive DEF UnitEnd
<1>3. ASSUME NEW i \in UnitIdx
      PROVE  [r.units EXCEPT ![i] = [type |-> type, offset |-> r.len]] \in Units
  <2>1. r.units \in Units /\ r.len \in Nat
    BY DEF Recs
  <2>2. [type |-> type, offset |-> r.len] \in [type : AllTypes, offset : Nat]
    BY <2>1
  <2> QED  BY <2>1, <2>2 DEF Units
<1> DEFINE i == EndedUnit(r)
<1>4. CASE ~UnitOver(r)
  BY <1>4 DEF MarkUnit
<1>5. CASE UnitOver(r) /\ i \in UnitIdx
  <2>1. MarkUnit(r) = [r EXCEPT !.unitTime = UnitEnd(r),
                                !.units = [@ EXCEPT ![i] = [type |-> type, offset |-> r.len]]]
    BY <1>5 DEF MarkUnit
  <2> HIDE DEF i
  <2> QED  BY <1>2, <1>3, <1>5, <2>1 DEF Recs
<1>6. CASE UnitOver(r) /\ i \notin UnitIdx
  BY <1>2, <1>6 DEF MarkUnit, Recs
<1> QED  BY <1>4, <1>5, <1>6

LEMMA FlushType ==
  ASSUME NEW r \in Recs, PesType(pes)
  PROVE  /\ Flushed(r) \in Recs /\ PesType(PesFlushed(r))
         /\ Flushed(r).fd = r.fd /\ Flushed(r).file = r.file
<1>1. Flushed(r) \in Recs /\ Flushed(r).fd = r.fd /\ Flushed(r).file = r.file
  BY DEF Flushed, Recs
<1>2. PesType(PesFlushed(r))
  <2>1. r.buf \in Nat
    BY DEF Recs
  <2> QED  BY <2>1, WriteType DEF PesFlushed
<1> QED  BY <1>1, <1>2

LEMMA ClosedType ==
  ASSUME NEW r \in Recs
  PROVE  /\ Closed(r) \in Recs /\ Closed(r).fd = "none"
         /\ Closed(r).file = r.file /\ Closed(r).units = r.units
         /\ Closed(r).len = r.len /\ Closed(r).unitTime = r.unitTime
BY DEF Closed, Recs

LEMMA WrittenType ==
  ASSUME NEW f \in Nat, NEW u \in Units, IdxType(idx)
  PROVE  IdxType([g \in DOMAIN idx \cup {f} |-> IF g = f THEN u ELSE idx[g]])
BY DEF IdxType

(* Where the task goes on. *)
LEMMA GoesOnType ==
  ASSUME pass \in Passes, NEW next \in {"idle", "saving", "checking"}, GoesOn(next)
  PROVE  pc' = next /\ pass' \in Passes /\ (next # "checking" => pass'.then = "idle")
BY DEF GoesOn, Passes, NoPass

LEMMA ReturnsType ==
  ASSUME pass \in Passes, Returns
  PROVE  /\ pc' \in {"idle", "saving", "checking"} /\ pass' \in Passes
         /\ pass.then # "failed" => pc' = pass.then
         /\ pass.then = "failed" => pc' \in {"idle", "saving"}
<1>1. PICK next \in IF pass.then = "failed" THEN {"saving", "idle"} ELSE {pass.then} :
        GoesOn(next)
  BY DEF Returns
<1>2. next \in {"idle", "saving", "checking"}
  BY <1>1 DEF Passes
<1>3. pc' = next /\ pass' \in Passes
  BY <1>1, <1>2, GoesOnType
<1> QED  BY <1>1, <1>2, <1>3

LEMMA StopsType ==
  ASSUME pass \in Passes, NEW next \in {"idle", "saving", "failed"}, Stops(next)
  PROVE  /\ pass' \in Passes
         /\ rec.fd # "none" => pc' = "stopping" /\ pass'.then = next
         /\ rec.fd = "none" => pc' = next
BY DEF Stops, Passes, NoPass

LEMMA OpenedType ==
  ASSUME NEW fd \in {"none", "open", "stale"}, clock \in Nat, PesType(pes), IdxType(idx)
  PROVE  OpenedRec(fd) \in Recs
<1>1. Slot \in Nat /\ Now - (Now % UnitSecs) \in Nat
  BY TimesAreNat, DivMod, LengthsAssumption
<1>2. NoUnits \in Units
  BY NoUnitsType
<1>3. /\ Slot \in DOMAIN idx => idx[Slot] \in Units
      /\ Slot \in DOMAIN pes => pes[Slot] \in Nat
  BY DEF PesType, IdxType
<1> QED  BY <1>1, <1>2, <1>3 DEF OpenedRec, Recs

(* What a process leaves behind when it ends, and what one starts with. *)
LEMMA FreshType == FreshRec \in Recs /\ FreshAlarm \in Alarms
BY NoUnitsType DEF FreshRec, FreshAlarm, Recs, Alarms, NoFile

-----------------------------------------------------------------------------
(* Type correctness. *)

(* What happens to the history keeps it a history. *)
LEMMA HistType ==
  ASSUME NEW h \in Hists
  PROVE  /\ Upset(h) \in Hists
         /\ \A f \in SUBSET Nat : [h EXCEPT !.torn = @ \cup f] \in Hists
         /\ \A f \in SUBSET Nat : [h EXCEPT !.pulled = @ \cup f] \in Hists
         /\ [h EXCEPT !.offs = 2] \in Hists
         /\ \A u \in SUBSET UnitNames : [h EXCEPT !.covered = @ \cup u] \in Hists
<1>1. Upset(h) \in Hists
  BY DEF Upset, Hists
<1>2. ASSUME NEW f \in SUBSET Nat
      PROVE  [h EXCEPT !.torn = @ \cup f] \in Hists /\ [h EXCEPT !.pulled = @ \cup f] \in Hists
  BY DEF Hists
<1>3. ASSUME NEW u \in SUBSET UnitNames PROVE [h EXCEPT !.covered = @ \cup u] \in Hists
  BY DEF Hists
<1>4. [h EXCEPT !.offs = 2] \in Hists
  BY DEF Hists
<1> QED  BY <1>1, <1>2, <1>3, <1>4

(* An open file has a name, and so has one whose index is being written:   *)
(* without that the index would be one of no slot, so it is proved         *)
(* together with the types.                                                *)
FileNamed ==
  rec.fd # "none" \/ pc \in {"stopping", "closing", "writing", "lost"} => rec.file \in Nat
TypeInv == TypeOK /\ FileNamed

LEMMA TornType ==
  ASSUME TypeInv
  PROVE  /\ Torn \in Hists /\ Upset(Torn) \in Hists /\ Upset(hist) \in Hists
         /\ Lost \in Hists /\ Upset(Lost) \in Hists
         /\ Torn.torn = hist.torn \cup Unfinished /\ Torn.pulled = hist.pulled
<1>1. hist \in Hists /\ Unfinished \in SUBSET Nat
  BY DEF TypeInv, TypeOK, Unfinished, Recs, NoFile
<1>2. Torn \in Hists /\ Torn.torn = hist.torn \cup Unfinished /\ Torn.pulled = hist.pulled
  BY <1>1, HistType DEF Torn, Hists
<1>3. Lost \in Hists
  BY <1>2, HistType DEF Lost
<1> QED  BY <1>1, <1>2, <1>3, HistType

LEMMA TypeInit == Init => TypeInv
<1> SUFFICES ASSUME Init PROVE TypeInv
  OBVIOUS
<1>1. DOMAIN pes = {} /\ DOMAIN idx = {}
  BY DEF Init
<1>2. DOMAIN pes \subseteq Nat /\ pes \in [DOMAIN pes -> Nat]
      /\ DOMAIN idx \subseteq Nat /\ idx \in [DOMAIN idx -> Units]
  BY <1>1 DEF Init
<1>3. UploadSecs + 1 \in Nat
  BY BoundsAssumption
<1>4. hist \in Hists
  BY DEF Init, Hists
<1>5. rec \in Recs /\ alarm \in Alarms /\ FileNamed
  BY FreshType DEF Init, FileNamed, FreshRec
<1>6. msgs \in Seq(Msgs)
  BY DEF Init
<1>7. /\ clock \in Nat /\ lag \in Nat /\ age \in Nat /\ exitAt \in Nat
      /\ synced \in BOOLEAN /\ reboot \in BOOLEAN /\ format \in BOOLEAN
      /\ card \in BOOLEAN /\ diskValid \in BOOLEAN
  BY <1>3 DEF Init
<1>8. /\ cb \in {"idle", "rebootNotify", "rebootLeave", "formatFlag"}
      /\ main \in {"run", "leave", "exiting", "down"}
      /\ type \in Types /\ sched \in Schedules
      /\ pc = "idle" /\ pass \in Passes
  BY DEF Init, Passes, NoPass
<1> QED  BY <1>2, <1>4, <1>5, <1>6, <1>7, <1>8 DEF TypeInv, TypeOK

(* The environment, the callback thread and the process. *)
LEMMA TypeEnv ==
  ASSUME TypeInv, Env
  PROVE  TypeInv'
<1> USE DEF TypeInv, TypeOK, FileNamed
<1>1. CASE Tick
  <2>1. UnitAt(clock + 1) \in UnitNames
    <3>1. clock + 1 \in Nat
      OBVIOUS
    <3>2. (clock + 1) \div FileSecs \in Nat /\ (clock + 1) % FileSecs \in Nat
      BY <3>1, DivMod, LengthsPositive
    <3>3. ((clock + 1) % FileSecs) \div UnitSecs \in Nat
      BY <3>2, DivMod, LengthsAssumption
    <3> QED  BY <3>2, <3>3 DEF UnitAt, UnitNames
  <2>2. hist' \in Hists
    BY <1>1, <2>1, HistType DEF Tick
  <2>3. lag' \in Nat /\ age' \in Nat /\ clock' \in Nat
    BY <1>1 DEF Tick
  <2> QED  BY <1>1, <2>2, <2>3 DEF Tick
<1>2. CASE Sync
  BY <1>2 DEF Sync
<1>3. CASE SetRecordType \/ SetRecordTimes
  BY <1>3 DEF SetRecordType, SetRecordTimes
<1>4. CASE CardRemoved
  <2>1. rec' \in Recs /\ rec'.file = rec.file /\ (rec'.fd # "none" => rec.fd # "none")
        /\ pc' \in {pc, "lost"} /\ (pc' = "lost" => pc \in {"writing", "lost"})
    BY <1>4 DEF CardRemoved, Recs
  <2>2. hist' \in Hists
    <3> DEFINE f == IF rec.fd = "open" THEN {rec.file} ELSE {}
               h == [Torn EXCEPT !.pulled = @ \cup f]
    <3>1. f \in SUBSET Nat
      OBVIOUS
    <3>2. h \in Hists
      BY <3>1, HistType, TornType
    <3>3. hist' = Upset(h)
      BY <1>4 DEF CardRemoved
    <3> HIDE DEF h
    <3> QED  BY <3>2, <3>3, HistType
  <2>3. /\ UNCHANGED <<clock, lag, synced, reboot, format, cb, main, exitAt, msgs,
                       diskValid, age, type, sched, alarm, pass, pes, idx>>
        /\ card' \in BOOLEAN
    BY <1>4 DEF CardRemoved
  <2>4. FileNamed'
    BY <2>1
  <2> QED  BY <2>1, <2>2, <2>3, <2>4
<1>5. CASE CardInserted
  BY <1>5 DEF CardInserted
<1> QED  BY <1>1, <1>2, <1>3, <1>4, <1>5 DEF Env

LEMMA TypeCallback ==
  ASSUME TypeInv, Callback
  PROVE  TypeInv'
<1> USE DEF TypeInv, TypeOK, FileNamed
<1>1. ASSUME NEW m \in Msgs, Send(m) PROVE msgs' \in Seq(Msgs)
  BY <1>1, AppendProperties DEF Send
<1>2. Upset(hist) \in Hists
  BY TornType
<1>3. CASE RebootFlag
  BY <1>3, <1>2 DEF RebootFlag, callbackLeaves
<1>4. CASE RebootNotify
  BY <1>4, <1>1 DEF RebootNotify, callbackLeaves, Msgs
<1>5. CASE RebootLeave
  BY <1>5 DEF RebootLeave, callbackLeaves
<1>6. CASE FormatNotify
  BY <1>6, <1>1, <1>2 DEF FormatNotify, callbackLeaves, Msgs
<1>7. CASE FormatFlag
  BY <1>7 DEF FormatFlag, callbackLeaves
<1>8. CASE FormatDone
  BY <1>8 DEF FormatDone, callbackLeaves
<1>9. CASE AlarmReport
  BY <1>9, <1>1 DEF AlarmReport, callbackLeaves, Msgs
<1> QED  BY <1>3, <1>4, <1>5, <1>6, <1>7, <1>8, <1>9 DEF Callback

LEMMA TypeProcess ==
  ASSUME TypeInv, Process
  PROVE  TypeInv'
<1> USE DEF TypeInv, TypeOK, FileNamed
<1>1. hist' \in Hists
  BY TornType DEF Process, ExitBegins, ExitEnds, Leave, Crash, Boot
<1>2. CASE ExitBegins
  <2>1. clock + ExitSecs \in Nat
    BY BoundsAssumption
  <2> QED  BY <1>1, <1>2, <2>1 DEF ExitBegins
<1>3. CASE Dies
  <2>1. msgs' \in Seq(Msgs)
    BY <1>3 DEF Dies
  <2>2. rec' \in Recs /\ alarm' \in Alarms /\ rec'.fd = "none" /\ pass' \in Passes
    BY <1>3, FreshType DEF Dies, FreshRec, Passes, NoPass
  <2> QED  BY <1>1, <1>3, <2>1, <2>2 DEF Dies
<1>4. CASE Boot
  <2>1. UploadSecs + 1 \in Nat
    BY BoundsAssumption
  <2>2. /\ main' = "run" /\ synced' \in BOOLEAN /\ reboot' \in BOOLEAN
        /\ format' \in BOOLEAN /\ diskValid' \in BOOLEAN /\ age' \in Nat
    BY <1>4, <2>1 DEF Boot
  <2> QED  BY <1>1, <1>4, <2>2 DEF Boot
<1> QED  BY <1>2, <1>3, <1>4 DEF Process, ExitEnds, Leave, Crash

LEMMA TypeOpenFile ==
  ASSUME TypeInv, OpenFile
  PROVE  TypeInv'
<1> USE DEF TypeInv, TypeOK, FileNamed
<1>1. PesType(pes) /\ IdxType(idx)
  BY DEF PesType, IdxType
<1>2. PICK fd \in {"none", "open"} :
        /\ rec' = OpenedRec(fd)
        /\ pes' = IF fd = "none" \/ Slot \in DOMAIN pes THEN pes
                  ELSE [f \in DOMAIN pes \cup {Slot} |-> IF f = Slot THEN 0 ELSE pes[f]]
        /\ hist' = IF fd = "none" THEN hist
                   ELSE [hist EXCEPT !.covered = @ \cup {UnitAt(clock)},
                                     !.openedAt = clock]
  BY DEF OpenFile
<1>3. Slot \in Nat /\ clock % UnitSecs \in Nat
  BY TimesAreNat, DivMod, LengthsAssumption
<1>4. rec' \in Recs /\ rec'.file \in Nat
  <2>1. rec' \in Recs
    BY <1>1, <1>2, OpenedType
  <2> QED  BY <1>2, <1>3, <2>1 DEF OpenedRec
<1>5. PesType(pes')
  BY <1>1, <1>2, <1>3 DEF PesType
<1>6. IdxType(idx')
  BY <1>1 DEF OpenFile, IdxType
<1>7. hist' \in Hists
  <2>1. UnitAt(clock) \in UnitNames
    BY DivMod, LengthsPositive, LengthsAssumption DEF UnitAt, UnitNames
  <2>2. [hist EXCEPT !.covered = @ \cup {UnitAt(clock)}] \in Hists
    BY <2>1, HistType
  <2>3. ASSUME NEW h \in Hists PROVE [h EXCEPT !.openedAt = clock] \in Hists
    BY DEF Hists
  <2>4. CASE fd = "none"
    BY <1>2, <2>4
  <2>5. CASE fd = "open"
    <3>1. hist' = [[hist EXCEPT !.covered = @ \cup {UnitAt(clock)}] EXCEPT !.openedAt = clock]
      BY <1>2, <2>5
    <3> QED  BY <2>2, <2>3, <3>1
  <2> QED  BY <2>4, <2>5
<1>8. alarm' \in Alarms
  BY <1>3 DEF OpenFile, Alarms
<1>9. /\ pc' = "saving" /\ lag' = 0 /\ pass' \in Passes
      /\ UNCHANGED <<clock, synced, reboot, format, cb, main, exitAt, card, type,
                     sched, msgs, diskValid, age>>
  BY DEF OpenFile, envVars, Passes, NoPass
<1> QED  BY <1>4, <1>5, <1>6, <1>7, <1>8, <1>9 DEF PesType, IdxType

(* A pass keeps the file it writes to. *)
LEMMA PassType ==
  ASSUME TypeInv, NEW got \in BOOLEAN
  PROVE  LET r == MarkUnit(AfterFrame(got))
         IN  /\ AfterFrame(got) \in Recs /\ r \in Recs /\ PesType(PesAfterFrame(got))
             /\ r.fd = rec.fd /\ r.file = rec.file
             /\ r.len = AfterFrame(got).len /\ r.buf = AfterFrame(got).buf
<1> DEFINE a == AfterFrame(got)
           r == MarkUnit(a)
<1>1. rec \in Recs /\ PesType(pes) /\ type \in AllTypes /\ clock \in Nat
  BY ChoicesAssumption DEF PesType, TypeInv, TypeOK
<1>2. a \in Recs /\ PesType(PesAfterFrame(got))
  BY <1>1, PushType DEF AfterFrame, PesAfterFrame
<1>3. a.file = rec.file /\ a.fd = rec.fd
  BY <1>1 DEF AfterFrame, Push, Recs
<1> HIDE DEF a
<1>4. r \in Recs
  BY <1>1, <1>2, MarkUnitType
<1>5. r.file = a.file /\ r.fd = a.fd /\ r.len = a.len /\ r.buf = a.buf
  BY <1>2 DEF MarkUnit, Recs
<1> QED  BY <1>2, <1>3, <1>4, <1>5 DEF a

LEMMA TypeSavePass ==
  ASSUME TypeInv, SavePass
  PROVE  TypeInv'
<1>1. PICK got \in BOOLEAN :
        /\ rec' = MarkUnit(AfterFrame(got))
        /\ pes' = PesAfterFrame(got)
        /\ pc' \in {"cutting", "checking"}
        /\ pass' = [pass EXCEPT !.loop = LoopAfter(MarkUnit(AfterFrame(got)), got),
                                !.then = IF MinuteSave(AfterFrame(got)) THEN "checking"
                                         ELSE "idle"]
        /\ lag' \in {lag, 0}
  BY DEF SavePass
<1>2. rec' \in Recs /\ PesType(pes') /\ rec'.fd = rec.fd /\ rec'.file = rec.file
  BY <1>1, PassType
<1>3. pass' \in Passes
  <2>1. ASSUME NEW r PROVE LoopAfter(r, got) \in {"on", "last", "over", "past"}
    BY DEF LoopAfter
  <2> QED  BY <1>1, <2>1 DEF Passes, TypeInv, TypeOK
<1>4. UNCHANGED <<clock, synced, reboot, format, cb, main, exitAt, card, type,
                  sched, msgs, diskValid, age, alarm, idx, hist>>
  BY DEF SavePass, envVars
<1>5. lag' \in Nat
  BY <1>1 DEF TypeInv, TypeOK
<1> QED  BY <1>1, <1>2, <1>3, <1>4, <1>5 DEF PesType, TypeInv, TypeOK, FileNamed

LEMMA TypeCheckPassGoes ==
  ASSUME pass \in Passes, CheckPass
  PROVE  /\ pass' \in Passes /\ pc' \in {"idle", "saving", "stopping"}
         /\ pc' = "stopping" => rec.fd # "none"
<1>1. AfterStop \in {"idle", "saving", "failed"}
  BY DEF AfterStop
<1>2. CASE pass.loop = "over"
  BY <1>2, StopsType DEF CheckPass
<1>3. CASE pass.loop # "over" /\ Checked /\ diskValid /\ ~KeepsRecording
  BY <1>1, <1>3, StopsType DEF CheckPass, Checked
<1>4. CASE pass.loop # "over" /\ ~(Checked /\ diskValid /\ ~KeepsRecording)
  <2>1. PICK next \in {"idle", "saving", "checking"} :
          GoesOn(next) /\ next \in {"idle", "saving"}
    BY <1>4 DEF CheckPass
  <2> QED  BY <2>1, GoesOnType
<1> QED  BY <1>2, <1>3, <1>4

LEMMA TypeCheckPass ==
  ASSUME TypeInv, CheckPass
  PROVE  TypeInv'
<1> USE DEF TypeInv, TypeOK, FileNamed
<1>2. /\ pass' \in Passes /\ pc' \in {"idle", "saving", "stopping"}
      /\ pc' = "stopping" => rec.fd # "none"
  BY TypeCheckPassGoes
<1>3. rec' \in Recs /\ (rec'.fd # "none" => rec'.file \in Nat) /\ rec'.file = rec.file
  <2>1. CASE Checked /\ ~diskValid
    BY <2>1 DEF CheckPass, Recs, Checked
  <2>2. CASE ~(Checked /\ ~diskValid)
    BY <2>2 DEF CheckPass
  <2> QED  BY <2>1, <2>2
<1> QED  BY <1>2, <1>3 DEF CheckPass, envVars

LEMMA TypeStopSteps ==
  ASSUME TypeInv, SaveAborts \/ Flush \/ CloseFile \/ HandleStop
  PROVE  TypeInv'
<1> USE DEF TypeInv, TypeOK, FileNamed
<1>1. CASE SaveAborts
  <2>1. pass' \in Passes /\ pc' \in {"idle", "stopping"}
    BY <1>1, StopsType DEF SaveAborts
  <2>2. FileNamed'
    <3>1. pc' = "stopping" => rec.fd # "none"
      BY <1>1, StopsType DEF SaveAborts
    <3>2. rec' = rec /\ pc' \in {"idle", "stopping"}
      BY <1>1, <2>1 DEF SaveAborts, fileVars
    <3> QED  BY <3>1, <3>2
  <2> QED  BY <1>1, <2>1, <2>2 DEF SaveAborts, envVars, fileVars
<1>2. CASE Flush
  <2>1. rec' \in Recs /\ PesType(pes') /\ rec'.fd = rec.fd /\ rec'.file = rec.file
    BY <1>2, FlushType DEF Flush, PesType
  <2>2. rec'.file \in Nat
    BY <1>2, <2>1 DEF Flush
  <2> QED  BY <1>2, <2>1, <2>2 DEF Flush, envVars, PesType
<1>3. CASE CloseFile
  <2>1. CASE card
    BY <1>3, <2>1, ClosedType DEF CloseFile, envVars
  <2>2. CASE ~card
    <3>1. PICK next \in {"idle", "saving", "checking"} : GoesOn(next)
      BY <1>3, <2>2 DEF CloseFile, Passes
    <3>2. pc' = next /\ pass' \in Passes
      BY <3>1, GoesOnType
    <3> QED  BY <1>3, <2>2, <3>2 DEF CloseFile, envVars
  <2> QED  BY <2>1, <2>2
<1>4. CASE HandleStop
  <2>1. pass' \in Passes /\ pc' \in {"idle", "stopping"}
    BY <1>4, StopsType DEF HandleStop
  <2>3. FileNamed'
    <3>1. pc' = "stopping" => rec.fd # "none"
      BY <1>4, StopsType DEF HandleStop
    <3>2. rec' = rec /\ pc' \in {"idle", "stopping"}
      BY <1>4, <2>1 DEF HandleStop, fileVars
    <3> QED  BY <3>1, <3>2
  <2>2. msgs' \in Seq(Msgs)
    BY <1>4, HeadTailProperties DEF HandleStop
  <2> QED  BY <1>4, <2>1, <2>2, <2>3 DEF HandleStop, envVars, fileVars
<1> QED  BY <1>1, <1>2, <1>3, <1>4

LEMMA TypeSaveSteps ==
  ASSUME TypeInv, CutIdx \/ WriteIdx \/ WriteFails
  PROVE  TypeInv'
<1> USE DEF TypeInv, TypeOK, FileNamed
<1>1. CASE CutIdx
  <2>1. CASE card /\ rec.file # NoFile
    <3>1. rec.file \in Nat
      BY <2>1 DEF Recs
    <3> QED  BY <1>1, <2>1, <3>1 DEF CutIdx, envVars
  <2>2. CASE ~(card /\ rec.file # NoFile)
    BY <1>1, <2>2, ReturnsType DEF CutIdx, envVars
  <2> QED  BY <2>1, <2>2
<1>2. CASE WriteIdx
  <2>1. IdxType(idx')
    <3>1. rec.units \in Units /\ rec.file \in Nat /\ IdxType(idx)
      BY <1>2 DEF WriteIdx, Recs, IdxType
    <3> QED  BY <1>2, <3>1, WrittenType DEF WriteIdx
  <2> QED  BY <1>2, <2>1, ReturnsType DEF WriteIdx, envVars, IdxType
<1>3. CASE WriteFails
  BY <1>3, ReturnsType, TornType DEF WriteFails, envVars, fileVars
<1> QED  BY <1>1, <1>2, <1>3

LEMMA TypeTask ==
  ASSUME TypeInv, Task
  PROVE  TypeInv'
<1> USE DEF TypeInv, TypeOK, FileNamed
<1>1. CASE PollStart
  <2>1. diskValid' \in BOOLEAN /\ age' \in Nat /\ pc' \in {"starting", "idle"}
    BY <1>1 DEF PollStart
  <2> QED  BY <1>1, <2>1 DEF PollStart, envVars, fileVars
<1>2. CASE StartSkipped
  BY <1>2 DEF StartSkipped, envVars, fileVars, Passes, NoPass
<1>3. CASE StartFails
  BY <1>3 DEF StartFails, envVars, fileVars
<1>4. CASE OpenFile
  BY <1>4, TypeOpenFile
<1>5. CASE PollSave
  BY <1>5 DEF PollSave, envVars, fileVars, Passes, NoPass
<1>6. CASE SaveAborts \/ Flush \/ CloseFile \/ HandleStop
  BY <1>6, TypeStopSteps
<1>7. CASE SavePass
  BY <1>7, TypeSavePass
<1>8. CASE CheckPass
  BY <1>8, TypeCheckPass
<1>9. CASE CutIdx \/ WriteIdx \/ WriteFails
  BY <1>9, TypeSaveSteps
<1>10. CASE HandleAlarm
  <2>1. alarm' \in Alarms
    BY <1>10, TimesAreNat DEF HandleAlarm, AlarmAfter, Alarms
  <2>2. hist' \in Hists
    <3>1. [hist EXCEPT !.alarmAt = clock, !.offs = 0] \in Hists
      BY DEF Hists
    <3>2. ASSUME NEW n \in Nat PROVE [hist EXCEPT !.offs = n] \in Hists
      BY DEF Hists
    <3>3. hist.offs \in Nat
      BY DEF Hists
    <3>4. [hist EXCEPT !.offs = IF @ < 2 THEN @ + 1 ELSE @] \in Hists
      <4> DEFINE n == IF hist.offs < 2 THEN hist.offs + 1 ELSE hist.offs
      <4>1. n \in Nat
        BY <3>3
      <4>2. [hist EXCEPT !.offs = n] \in Hists
        BY <3>2, <4>1
      <4> QED  BY <4>2
    <3> QED  BY <1>10, <3>1, <3>4 DEF HandleAlarm
  <2>3. msgs' \in Seq(Msgs)
    BY <1>10, HeadTailProperties DEF HandleAlarm
  <2> QED  BY <1>10, <2>1, <2>2, <2>3 DEF HandleAlarm, envVars, fileVars
<1> QED  BY <1>1, <1>2, <1>3, <1>4, <1>5, <1>6, <1>7, <1>8, <1>9, <1>10 DEF Task

LEMMA TypeStep == TypeInv /\ [Next]_vars => TypeInv'
<1> SUFFICES ASSUME TypeInv, [Next]_vars PROVE TypeInv'
  OBVIOUS
<1>1. CASE Next
  BY <1>1, TypeTask, TypeCallback, TypeProcess, TypeEnv DEF Next
<1>2. CASE UNCHANGED vars
  BY <1>2 DEF TypeInv, TypeOK, FileNamed, vars
<1> QED  BY <1>1, <1>2

LEMMA TypeInvariant == Spec => []TypeInv
BY TypeInit, TypeStep, PTL DEF Spec

(* Every variable of the recorder task, its history included, keeps to the *)
(* values the code gives it, whatever the lengths of units, files and days *)
(* and of the write buffer.                                                *)
THEOREM TypeCorrect == Spec => []TypeOK
<1>1. TypeInv => TypeOK
  BY DEF TypeInv
<1> QED  BY <1>1, TypeInvariant, PTL

-----------------------------------------------------------------------------
(* The control of the task.  Neither RecFdNeedsDisk nor RebootQuiesces is  *)
(* inductive: a new process must not inherit a file, a file is opened only *)
(* when none is open, an open file is on a card that is still there (so    *)
(* that stop_rec closes it), and a reboot that is not yet quiet still has  *)
(* its stop message, or its callback, under way, or a stop that will not   *)
(* return to the loop of save_record_frame.                                *)
StopPosted == \E i \in 1 .. Len(msgs) : msgs[i] = "STOP_RECORDER"

DeadHoldsNothing == main = "down" => rec.fd = "none" /\ pc = "idle"
StartsWithoutFile == pc = "starting" => rec.fd = "none"
OpenOnCard == rec.fd = "open" => card
Quiet ==
  \/ pc = "idle" /\ rec.fd # "open"
  \/ pc \in {"stopping", "closing"} /\ pass.then = "idle"
  \/ pc \in {"cutting", "writing", "lost"} /\ pass.then = "idle" /\ rec.fd # "open"
RebootUnderWay ==
  reboot => \/ cb = "rebootNotify"
            \/ StopPosted
            \/ Quiet

ControlInv ==
  /\ TypeInv
  /\ DeadHoldsNothing
  /\ StartsWithoutFile
  /\ OpenOnCard
  /\ RecFdNeedsDisk
  /\ RebootUnderWay

LEMMA ControlInit == Init => ControlInv
BY TypeInit DEF Init, ControlInv, DeadHoldsNothing, StartsWithoutFile, OpenOnCard,
  RecFdNeedsDisk, RebootUnderWay, Quiet, FreshRec

(* Posting a message keeps a stop request that waits, and serving another  *)
(* message does too.                                                       *)
LEMMA PostKeepsStop ==
  ASSUME msgs \in Seq(Msgs), NEW m \in Msgs, Send(m)
  PROVE  /\ StopPosted => StopPosted'
         /\ m = "STOP_RECORDER" => StopPosted'
<1>1. /\ msgs' \in Seq(Msgs) /\ Len(msgs') = Len(msgs) + 1
      /\ \A i \in 1 .. Len(msgs) : msgs'[i] = msgs[i]
      /\ msgs'[Len(msgs) + 1] = m
  BY AppendProperties DEF Send
<1>2. Len(msgs) \in Nat
  BY LenProperties
<1> QED  BY <1>1, <1>2 DEF StopPosted

LEMMA ServeKeepsStop ==
  ASSUME msgs \in Seq(Msgs), msgs # <<>>, Head(msgs) # "STOP_RECORDER",
         msgs' = Tail(msgs), StopPosted
  PROVE  StopPosted'
<1>1. PICK i \in 1 .. Len(msgs) : msgs[i] = "STOP_RECORDER"
  BY DEF StopPosted
<1>2. /\ Len(msgs') = Len(msgs) - 1 /\ Len(msgs) \in Nat
      /\ \A k \in 1 .. Len(msgs') : msgs'[k] = msgs[k + 1]
      /\ msgs[1] = Head(msgs)
  BY HeadTailProperties, LenProperties
<1>3. i - 1 \in 1 .. Len(msgs') /\ msgs'[i - 1] = msgs[i]
  BY <1>1, <1>2
<1> QED  BY <1>1, <1>3 DEF StopPosted

ControlParts ==
  /\ DeadHoldsNothing /\ StartsWithoutFile /\ OpenOnCard
  /\ RecFdNeedsDisk /\ RebootUnderWay

LEMMA ControlPolls ==
  ASSUME ControlInv,
         PollStart \/ StartSkipped \/ StartFails \/ OpenFile \/ PollSave \/ HandleAlarm
  PROVE  ControlParts'
<1> USE DEF ControlInv, DeadHoldsNothing, StartsWithoutFile, OpenOnCard,
            RecFdNeedsDisk, RebootUnderWay, Quiet, envVars, fileVars, ControlParts
<1>1. msgs \in Seq(Msgs)
  BY DEF TypeInv, TypeOK
<1>2. ASSUME UNCHANGED msgs PROVE StopPosted' = StopPosted
  BY <1>2 DEF StopPosted
<1>3. CASE PollStart
  <2>1. pc' = "starting" => diskValid'
    BY <1>3 DEF PollStart, Starts
  <2> QED  BY <1>2, <1>3, <2>1 DEF PollStart, Up
<1>4. CASE StartSkipped
  BY <1>2, <1>4 DEF StartSkipped
<1>5. CASE StartFails
  BY <1>2, <1>5 DEF StartFails
<1>6. CASE OpenFile
  BY <1>2, <1>6 DEF OpenFile
<1>7. CASE PollSave
  BY <1>2, <1>7 DEF PollSave, Up
<1>8. CASE HandleAlarm
  <2>1. StopPosted => StopPosted'
    BY <1>1, <1>8, ServeKeepsStop DEF HandleAlarm
  <2> QED  BY <1>8, <2>1 DEF HandleAlarm, Up
<1> QED  BY <1>3, <1>4, <1>5, <1>6, <1>7, <1>8

LEMMA ControlPasses ==
  ASSUME ControlInv, SaveAborts \/ SavePass \/ CheckPass \/ HandleStop
  PROVE  ControlParts'
<1> USE DEF ControlInv, DeadHoldsNothing, StartsWithoutFile, OpenOnCard,
            RecFdNeedsDisk, RebootUnderWay, Quiet, envVars, fileVars, ControlParts
<1>1. rec \in Recs /\ pass \in Passes
  BY DEF TypeInv, TypeOK
<1>2. ASSUME UNCHANGED msgs PROVE StopPosted' = StopPosted
  BY <1>2 DEF StopPosted
<1>3. CASE SaveAborts
  BY <1>1, <1>2, <1>3, StopsType DEF SaveAborts
<1>4. CASE SavePass
  <2>1. rec'.fd = rec.fd /\ pc' \in {"cutting", "checking"}
    BY <1>4, PassType DEF SavePass
  <2> QED  BY <1>2, <1>4, <2>1 DEF SavePass
<1>5. CASE CheckPass
  <2>1. rec'.fd \in {rec.fd, "stale"} /\ (rec'.fd = "stale" => rec.fd # "none")
    BY <1>1, <1>5 DEF CheckPass, Checked, Recs
  <2>2. pc' \in {"idle", "saving", "stopping"}
    BY <1>1, <1>5, TypeCheckPassGoes
  <2> QED  BY <1>2, <1>5, <2>1, <2>2 DEF CheckPass
<1>6. CASE HandleStop
  BY <1>1, <1>6, StopsType DEF HandleStop, Up
<1> QED  BY <1>3, <1>4, <1>5, <1>6

LEMMA ControlSteps ==
  ASSUME ControlInv, Flush \/ CloseFile \/ CutIdx \/ WriteIdx \/ WriteFails
  PROVE  ControlParts'
<1> USE DEF ControlInv, DeadHoldsNothing, StartsWithoutFile, OpenOnCard,
            RecFdNeedsDisk, RebootUnderWay, Quiet, envVars, fileVars, ControlParts
<1>1. rec \in Recs /\ pass \in Passes /\ PesType(pes)
  BY DEF TypeInv, TypeOK, PesType
<1>2. StopPosted' = StopPosted
  BY DEF StopPosted, Flush, CloseFile, CutIdx, WriteIdx, WriteFails
<1>3. CASE Flush
  BY <1>1, <1>2, <1>3, FlushType DEF Flush
<1>4. CASE CloseFile /\ card
  BY <1>1, <1>2, <1>4, ClosedType DEF CloseFile
<1>5. CASE CloseFile /\ ~card
  <2>1. PICK next \in {"idle", "saving", "checking"} :
          GoesOn(next) /\ (pass.then = "idle" => next = "idle")
    BY <1>1, <1>5 DEF CloseFile, Passes
  <2>2. pc' = next
    BY <1>1, <2>1, GoesOnType
  <2> QED  BY <1>2, <1>5, <2>1, <2>2 DEF CloseFile
<1>6. CASE CutIdx /\ card /\ rec.file # NoFile
  BY <1>2, <1>6 DEF CutIdx
<1>7. ASSUME Returns PROVE pc' \in {"idle", "saving", "checking"}
                           /\ (pass.then = "idle" => pc' = "idle")
  BY <1>1, <1>7, ReturnsType
<1>8. CASE CutIdx /\ ~(card /\ rec.file # NoFile)
  BY <1>2, <1>7, <1>8 DEF CutIdx
<1>9. CASE WriteIdx \/ WriteFails
  BY <1>2, <1>7, <1>9 DEF WriteIdx, WriteFails
<1> QED  BY <1>3, <1>4, <1>5, <1>6, <1>8, <1>9

LEMMA ControlOthers ==
  ASSUME ControlInv, Env \/ Callback \/ Process
  PROVE  ControlParts'
<1> USE DEF ControlInv, DeadHoldsNothing, StartsWithoutFile, OpenOnCard,
            RecFdNeedsDisk, RebootUnderWay, Quiet, callbackLeaves, ControlParts
<1>1. rec \in Recs /\ msgs \in Seq(Msgs)
  BY DEF TypeInv, TypeOK
<1>2. ASSUME UNCHANGED msgs PROVE StopPosted' = StopPosted
  BY <1>2 DEF StopPosted
<1>3. CASE Tick \/ Sync \/ SetRecordType \/ SetRecordTimes \/ CardInserted
  BY <1>2, <1>3 DEF Tick, Sync, SetRecordType, SetRecordTimes, CardInserted
<1>4. CASE CardRemoved
  <2>1. /\ rec'.fd # "open" /\ (rec'.fd # "none" <=> rec.fd # "none")
        /\ pc' = pc \/ (pc = "writing" /\ pc' = "lost")
    BY <1>1, <1>4 DEF CardRemoved, Recs
  <2> QED  BY <1>2, <1>4, <2>1 DEF CardRemoved
<1>5. CASE RebootFlag
  BY <1>5 DEF RebootFlag
<1>6. CASE RebootNotify
  <2>1. StopPosted'
    BY <1>1, <1>6, PostKeepsStop DEF RebootNotify, Msgs
  <2> QED  BY <1>6, <2>1 DEF RebootNotify
<1>7. CASE RebootLeave
  BY <1>2, <1>7 DEF RebootLeave
<1>8. CASE FormatNotify
  <2>1. StopPosted'
    BY <1>1, <1>8, PostKeepsStop DEF FormatNotify, Msgs
  <2> QED  BY <1>8, <2>1 DEF FormatNotify
<1>9. CASE FormatFlag \/ FormatDone
  BY <1>2, <1>9 DEF FormatFlag, FormatDone
<1>10. CASE AlarmReport
  <2>1. StopPosted => StopPosted'
    BY <1>1, <1>10, PostKeepsStop DEF AlarmReport, Msgs
  <2> QED  BY <1>10, <2>1 DEF AlarmReport
<1>11. CASE ExitBegins
  BY <1>2, <1>11 DEF ExitBegins
<1>12. CASE Dies
  BY <1>12 DEF Dies, FreshRec
<1>13. CASE Boot
  BY <1>2, <1>13 DEF Boot
<1> QED  BY <1>3, <1>4, <1>5, <1>6, <1>7, <1>8, <1>9, <1>10, <1>11, <1>12, <1>13
         DEF Env, Callback, Process, ExitEnds, Leave, Crash

LEMMA ControlStep == ControlInv /\ [Next]_vars => ControlInv'
<1> SUFFICES ASSUME ControlInv, [Next]_vars PROVE ControlInv'
  OBVIOUS
<1>1. TypeInv'
  BY TypeStep DEF ControlInv
<1>2. CASE Next
  BY <1>1, <1>2, ControlPolls, ControlPasses, ControlSteps, ControlOthers
  DEF Next, Task, ControlInv, ControlParts
<1>3. CASE UNCHANGED vars
  BY <1>1, <1>3 DEF ControlInv, DeadHoldsNothing, StartsWithoutFile, OpenOnCard,
     RecFdNeedsDisk, RebootUnderWay, Quiet, StopPosted, vars
<1> QED  BY <1>2, <1>3

LEMMA ControlInvariant == Spec => []ControlInv
BY ControlInit, ControlStep, PTL DEF Spec

(* check_and_start_record and check_and_stop_record look at g_disk_valid,  *)
(* which may be older than the card itself: yet no file is ever open, or   *)
(* about to be opened, while the task believes that there is no card.      *)
THEOREM DiskBelieved == Spec => []RecFdNeedsDisk
<1>1. ControlInv => RecFdNeedsDisk
  BY DEF ControlInv
<1> QED  BY <1>1, ControlInvariant, PTL

(* Once the stop message of a reboot has been served no file is open, and  *)
(* none is opened by a poll that began before the flag was raised.         *)
THEOREM RebootIsQuiet == Spec => []RebootQuiesces
<1>1. ControlInv => RebootQuiesces
  BY DEF ControlInv, RebootUnderWay, Quiet, RebootQuiesces, StopPosted
<1> QED  BY <1>1, ControlInvariant, PTL

-----------------------------------------------------------------------------
(* The length of a file.  curFileLen is what the file and the write buffer *)
(* hold together.  A continued file is counted from its size only when its *)
(* index is found beside it, so the invariant has to say that a file which *)
(* is neither open nor being saved nor cut short has its index.            *)
OpenHasPes == rec.fd = "open" => rec.file \in DOMAIN pes
ClosedHasIdx ==
  \A f \in DOMAIN pes :
    \/ f \in DOMAIN idx
    \/ f \in hist.torn
    \/ rec.fd = "open" /\ rec.file = f
    \/ pc \in {"cutting", "writing"} /\ rec.file = f /\ card

LengthInv == ControlInv /\ OpenHasPes /\ ClosedHasIdx /\ CurLenIsFileSize

(* What holds of a file while save_record_frame works on it. *)
Accounted(r, p) ==
  r.fd = "open" =>
    /\ r.file \in DOMAIN p
    /\ r.file \notin hist.torn => r.len = p[r.file] + r.buf

LEMMA PushAccounted ==
  ASSUME LengthInv, NEW got \in BOOLEAN
  PROVE  LET r == MarkUnit(AfterFrame(got))
             p == PesAfterFrame(got)
         IN  /\ r \in Recs /\ PesType(p) /\ DOMAIN p = DOMAIN pes
             /\ r.fd = rec.fd /\ r.file = rec.file
             /\ Accounted(r, p)
<1> DEFINE a == AfterFrame(got)
           p == PesAfterFrame(got)
           r == MarkUnit(a)
<1>1. rec \in Recs /\ PesType(pes) /\ clock \in Nat /\ type \in AllTypes
      /\ Accounted(rec, pes)
  BY ChoicesAssumption DEF LengthInv, ControlInv, TypeInv, TypeOK, PesType,
     Accounted, CurLenIsFileSize, OpenHasPes
<1>2. a \in Recs /\ PesType(p) /\ a.fd = rec.fd /\ a.file = rec.file
  BY <1>1, PushType DEF AfterFrame, PesAfterFrame, Push, Recs
<1>3. DOMAIN p = DOMAIN pes
  BY DEF PesAfterFrame, PushPes
<1>4. Accounted(a, p)
  <2>1. CASE ~got
    BY <1>1, <2>1 DEF AfterFrame, PesAfterFrame
  <2>2. CASE got /\ rec.fd # "open"
    BY <1>2, <2>2 DEF Accounted
  <2>3. CASE got /\ rec.fd = "open"
    <3>1. a.len = rec.len + 1
      BY <1>1, <2>3 DEF AfterFrame, Push, Recs
    <3>2. CASE PushFull(rec)
      <4>1. a.buf = 0 /\ rec.buf + 1 = BufBlocks
        BY <1>1, <2>3, <3>2 DEF AfterFrame, Push, PushFull, Recs
      <4>2. rec.file \in DOMAIN pes => p[rec.file] = pes[rec.file] + BufBlocks
        BY <1>1, <2>3, <3>2 DEF PesAfterFrame, PushPes
      <4>3. rec.len \in Nat /\ rec.buf \in Nat
            /\ (rec.file \in DOMAIN pes => pes[rec.file] \in Nat)
        BY <1>1 DEF Recs, PesType
      <4> HIDE DEF a, p
      <4> QED  BY <1>1, <1>2, <1>3, <2>3, <3>1, <4>1, <4>2, <4>3, LengthsAssumption
               DEF Accounted
    <3>3. CASE ~PushFull(rec)
      <4>1. a.buf = rec.buf + 1 /\ p = pes
        BY <1>1, <2>3, <3>3 DEF AfterFrame, PesAfterFrame, PushPes, Push, Recs
      <4>2. rec.len \in Nat /\ rec.buf \in Nat
            /\ (rec.file \in DOMAIN pes => pes[rec.file] \in Nat)
        BY <1>1 DEF Recs, PesType
      <4> HIDE DEF a, p
      <4> QED  BY <1>1, <1>2, <2>3, <3>1, <4>1, <4>2 DEF Accounted
    <3> QED  BY <3>2, <3>3
  <2> QED  BY <2>1, <2>2, <2>3
<1>5. /\ r \in Recs /\ r.fd = rec.fd /\ r.file = rec.file
      /\ r.len = a.len /\ r.buf = a.buf
  BY PassType DEF LengthInv, ControlInv
<1>7. Accounted(r, p)
  BY <1>2, <1>4, <1>5 DEF Accounted
<1> QED  BY <1>2, <1>3, <1>5, <1>7

LEMMA LengthSavePass ==
  ASSUME LengthInv, SavePass
  PROVE  OpenHasPes' /\ ClosedHasIdx' /\ CurLenIsFileSize'
<1>1. PICK got \in BOOLEAN :
        rec' = MarkUnit(AfterFrame(got)) /\ pes' = PesAfterFrame(got)
  BY DEF SavePass
<1>2. /\ rec' \in Recs /\ PesType(pes') /\ DOMAIN pes' = DOMAIN pes
      /\ rec'.fd = rec.fd /\ rec'.file = rec.file
      /\ Accounted(rec', pes')
  BY <1>1, PushAccounted
<1>3. pc = "saving" /\ UNCHANGED <<hist, idx, card>>
  BY DEF SavePass, envVars
<1>4. ClosedHasIdx'
  BY <1>2, <1>3 DEF ClosedHasIdx, LengthInv
<1> QED  BY <1>2, <1>3, <1>4 DEF Accounted, OpenHasPes, CurLenIsFileSize

(* stop_rec and save_rec_units, call by call: flushing moves the buffer    *)
(* into the file, a closed file has its index as soon as it is written.    *)
LEMMA LengthStops ==
  ASSUME LengthInv, Flush \/ CloseFile \/ CutIdx \/ WriteIdx
  PROVE  OpenHasPes' /\ ClosedHasIdx' /\ CurLenIsFileSize'
<1> USE DEF LengthInv
<1>1. rec \in Recs /\ PesType(pes) /\ (rec.fd = "open" => card)
  BY DEF ControlInv, OpenOnCard, TypeInv, TypeOK, PesType
<1>2. UNCHANGED <<hist, card>>
  BY DEF Flush, CloseFile, CutIdx, WriteIdx, envVars
<1>3. CASE Flush
  <2>1. rec'.fd = rec.fd /\ rec'.file = rec.file /\ DOMAIN pes' = DOMAIN pes
    BY <1>1, <1>3, FlushType DEF Flush, PesFlushed
  <2>2. OpenHasPes' /\ ClosedHasIdx'
    BY <1>2, <1>3, <2>1 DEF OpenHasPes, ClosedHasIdx, Flush
  <2>3. CASE rec.fd = "open"
    <3>1. /\ rec'.buf = 0 /\ rec'.len = rec.len
          /\ rec.file \in DOMAIN pes => pes'[rec.file] = pes[rec.file] + rec.buf
      BY <1>1, <1>3, <2>3 DEF Flush, Flushed, PesFlushed, Recs
    <3>2. rec.buf \in Nat /\ rec.len \in Nat /\ pes[rec.file] \in Nat
      BY <1>1, <2>3 DEF Recs, PesType, OpenHasPes
    <3> QED  BY <1>2, <2>1, <2>2, <2>3, <3>1, <3>2 DEF CurLenIsFileSize, OpenHasPes
  <2> QED  BY <2>1, <2>2, <2>3 DEF CurLenIsFileSize
<1>4. CASE CloseFile
  <2>1. UNCHANGED <<pes, idx>> /\ pc = "closing"
    BY <1>4 DEF CloseFile
  <2>2. CASE card
    <3>1. rec'.fd = "none" /\ rec'.file = rec.file /\ pc' = "cutting"
      BY <1>1, <1>4, <2>2, ClosedType DEF CloseFile
    <3> QED  BY <1>2, <2>1, <2>2, <3>1 DEF OpenHasPes, ClosedHasIdx, CurLenIsFileSize
  <2>3. CASE ~card
    <3>1. UNCHANGED rec
      BY <1>4, <2>3 DEF CloseFile
    <3> QED  BY <1>2, <2>1, <2>3, <3>1 DEF OpenHasPes, ClosedHasIdx, CurLenIsFileSize
  <2> QED  BY <2>2, <2>3
<1>5. CASE CutIdx
  <2>1. UNCHANGED <<pes, rec>> /\ pc = "cutting" /\ DOMAIN pes \subseteq Nat
    BY <1>1, <1>5 DEF CutIdx, PesType
  <2>2. CASE card /\ rec.file # NoFile
    <3>1. DOMAIN idx' = DOMAIN idx \ {rec.file} /\ pc' = "writing"
      BY <1>5, <2>2 DEF CutIdx
    <3> QED  BY <1>2, <2>1, <2>2, <3>1 DEF OpenHasPes, ClosedHasIdx, CurLenIsFileSize
  <2>3. CASE ~(card /\ rec.file # NoFile)
    <3>1. UNCHANGED idx
      BY <1>5, <2>3 DEF CutIdx
    <3> QED  BY <1>2, <2>1, <2>3, <3>1 DEF OpenHasPes, ClosedHasIdx, CurLenIsFileSize, NoFile
  <2> QED  BY <2>2, <2>3
<1>6. CASE WriteIdx
  <2>1. UNCHANGED <<pes, rec>> /\ DOMAIN idx' = DOMAIN idx \cup {rec.file}
    BY <1>6 DEF WriteIdx
  <2> QED  BY <1>2, <2>1 DEF OpenHasPes, ClosedHasIdx, CurLenIsFileSize
<1> QED  BY <1>3, <1>4, <1>5, <1>6

LEMMA LengthOpenFile ==
  ASSUME LengthInv, OpenFile
  PROVE  OpenHasPes' /\ ClosedHasIdx' /\ CurLenIsFileSize'
<1>1. PICK fd \in {"none", "open"} :
        /\ rec' = OpenedRec(fd)
        /\ pes' = IF fd = "none" \/ Slot \in DOMAIN pes THEN pes
                  ELSE [f \in DOMAIN pes \cup {Slot} |-> IF f = Slot THEN 0 ELSE pes[f]]
        /\ hist'.torn = hist.torn
  <2>1. hist \in Hists
    BY DEF LengthInv, ControlInv, TypeInv, TypeOK
  <2>2. [hist EXCEPT !.covered = @ \cup {UnitAt(clock)}, !.openedAt = clock].torn = hist.torn
    BY <2>1 DEF Hists
  <2> QED  BY <2>2 DEF OpenFile
<1>2. idx' = IF Slot \in DOMAIN pes THEN idx ELSE [f \in DOMAIN idx \ {Slot} |-> idx[f]]
  BY DEF OpenFile
<1>3. \A f \in DOMAIN pes : f \in DOMAIN idx \/ f \in hist.torn
  BY DEF OpenFile, LengthInv, ControlInv, StartsWithoutFile, ClosedHasIdx
<1>4. \A f \in DOMAIN pes : pes[f] \in Nat
  BY DEF LengthInv, ControlInv, TypeInv, TypeOK
<1>5. /\ rec'.fd = fd /\ rec'.file = Slot /\ rec'.buf = 0
      /\ rec'.len = IF Slot \in DOMAIN pes /\ Slot \in DOMAIN idx THEN pes[Slot] ELSE 0
  BY <1>1 DEF OpenedRec
<1>6. CASE Slot \in DOMAIN pes
  <2>1. pes' = pes /\ idx' = idx
    BY <1>1, <1>2, <1>6
  <2>2. ClosedHasIdx'
    BY <1>1, <1>3, <2>1 DEF ClosedHasIdx
  <2>3. Slot \notin hist.torn => Slot \in DOMAIN idx
    BY <1>3, <1>6
  <2> QED  BY <1>1, <1>4, <1>5, <1>6, <2>1, <2>2, <2>3 DEF OpenHasPes, CurLenIsFileSize
<1>7. CASE Slot \notin DOMAIN pes /\ fd = "open"
  <2>1. /\ DOMAIN pes' = DOMAIN pes \cup {Slot} /\ pes'[Slot] = 0
        /\ DOMAIN idx' = DOMAIN idx \ {Slot}
    BY <1>1, <1>2, <1>7
  <2>2. ClosedHasIdx'
    BY <1>1, <1>3, <1>5, <1>7, <2>1 DEF ClosedHasIdx
  <2> QED  BY <1>5, <1>7, <2>1, <2>2 DEF OpenHasPes, CurLenIsFileSize
<1>8. CASE Slot \notin DOMAIN pes /\ fd = "none"
  <2>1. pes' = pes /\ DOMAIN idx' = DOMAIN idx \ {Slot}
    BY <1>1, <1>2, <1>8
  <2>2. ClosedHasIdx'
    BY <1>1, <1>3, <1>8, <2>1 DEF ClosedHasIdx
  <2> QED  BY <1>5, <1>8, <2>2 DEF OpenHasPes, CurLenIsFileSize
<1> QED  BY <1>6, <1>7, <1>8

(* Whatever ends the process, takes the card away or fails to write an     *)
(* index puts the file at hand among the torn ones.                        *)
LEMMA LengthTorn ==
  ASSUME LengthInv, Dies \/ CardRemoved \/ WriteFails,
         hist'.torn = hist.torn \cup Unfinished
  PROVE  OpenHasPes' /\ ClosedHasIdx' /\ CurLenIsFileSize'
<1> USE DEF LengthInv
<1>1. UNCHANGED <<pes, idx>> /\ DOMAIN pes \subseteq Nat
  BY DEF Dies, CardRemoved, WriteFails, fileVars, ControlInv, TypeInv, TypeOK
<1>2. ClosedHasIdx'
  BY <1>1 DEF ClosedHasIdx, Unfinished, NoFile
<1>3. CASE Dies \/ CardRemoved
  <2>1. rec'.fd # "open"
    BY <1>3 DEF Dies, CardRemoved, FreshRec, ControlInv, TypeInv, TypeOK, Recs
  <2> QED  BY <1>2, <2>1 DEF OpenHasPes, CurLenIsFileSize
<1>4. CASE WriteFails
  <2>1. UNCHANGED rec
    BY <1>4 DEF WriteFails, fileVars
  <2> QED  BY <1>1, <1>2, <2>1 DEF OpenHasPes, CurLenIsFileSize
<1> QED  BY <1>3, <1>4

(* All other actions leave the file, the card's content and the torn files, *)
(* and are not those of a save.                                            *)
LEMMA LengthUntouched ==
  ASSUME LengthInv, UNCHANGED <<pes, idx>>, hist'.torn = hist.torn,
         rec'.file = rec.file, rec'.fd = "open" <=> rec.fd = "open",
         rec'.len = rec.len, rec'.buf = rec.buf,
         pc \in {"cutting", "writing"} /\ card => pc' = pc /\ card'
  PROVE  OpenHasPes' /\ ClosedHasIdx' /\ CurLenIsFileSize'
<1> USE DEF LengthInv
<1>1. OpenHasPes'
  BY DEF OpenHasPes
<1>2. ClosedHasIdx'
  BY DEF ClosedHasIdx
<1>3. CurLenIsFileSize'
  BY DEF CurLenIsFileSize
<1> QED  BY <1>1, <1>2, <1>3

(* What the history of torn files becomes. *)
LEMMA TornSets ==
  ASSUME TypeInv
  PROVE  /\ Upset(hist).torn = hist.torn /\ Upset(hist).pulled = hist.pulled
         /\ \A h \in {Torn, Lost, Upset(Torn), Upset(Lost)} :
              h.torn = hist.torn \cup Unfinished /\ h.pulled = hist.pulled
         /\ CardRemoved => /\ hist'.torn = hist.torn \cup Unfinished
                           /\ hist'.pulled = hist.pulled \cup
                                IF rec.fd = "open" THEN {rec.file} ELSE {}
<1>1. hist \in Hists /\ Torn \in Hists /\ Lost \in Hists
      /\ Torn.torn = hist.torn \cup Unfinished /\ Torn.pulled = hist.pulled
  BY TornType DEF TypeInv, TypeOK
<1>2. ASSUME NEW h \in Hists
      PROVE  Upset(h).torn = h.torn /\ Upset(h).pulled = h.pulled
  BY DEF Upset, Hists
<1>3. Lost.torn = Torn.torn /\ Lost.pulled = Torn.pulled
  BY <1>1 DEF Lost, Hists
<1>4. ASSUME CardRemoved
      PROVE  /\ hist'.torn = hist.torn \cup Unfinished
             /\ hist'.pulled = hist.pulled \cup IF rec.fd = "open" THEN {rec.file} ELSE {}
  <2> DEFINE f == IF rec.fd = "open" THEN {rec.file} ELSE {}
             h == [Torn EXCEPT !.pulled = @ \cup f]
  <2>1. f \in SUBSET Nat
    BY DEF TypeInv, FileNamed
  <2>2. h \in Hists /\ h.torn = Torn.torn /\ h.pulled = Torn.pulled \cup f
    BY <1>1, <2>1 DEF Hists
  <2>3. hist' = Upset(h)
    BY <1>4 DEF CardRemoved
  <2> HIDE DEF h
  <2> QED  BY <1>1, <1>2, <2>2, <2>3
<1> QED  BY <1>1, <1>2, <1>3, <1>4

LEMMA LengthTask ==
  ASSUME LengthInv, Task
  PROVE  OpenHasPes' /\ ClosedHasIdx' /\ CurLenIsFileSize'
<1>1. hist \in Hists /\ TypeInv
  BY DEF LengthInv, ControlInv, TypeInv, TypeOK
<1>2. CASE OpenFile
  BY <1>2, LengthOpenFile
<1>3. CASE SavePass
  BY <1>3, LengthSavePass
<1>4. CASE Flush \/ CloseFile \/ CutIdx \/ WriteIdx
  BY <1>4, LengthStops
<1>5. CASE WriteFails
  <2>1. hist'.torn = hist.torn \cup Unfinished
    BY <1>1, <1>5, TornSets DEF WriteFails
  <2> QED  BY <1>5, <2>1, LengthTorn
<1>6. CASE PollStart \/ StartSkipped \/ StartFails \/ PollSave \/ SaveAborts \/ HandleStop
  BY <1>6, LengthUntouched
  DEF PollStart, StartSkipped, StartFails, PollSave, SaveAborts, HandleStop, fileVars
<1>7. CASE CheckPass
  <2>1. rec' = rec
    BY <1>7 DEF CheckPass, Checked, LengthInv, ControlInv, RecFdNeedsDisk
  <2> QED  BY <1>7, <2>1, LengthUntouched DEF CheckPass
<1>8. CASE HandleAlarm
  <2>1. hist'.torn = hist.torn
    BY <1>1, <1>8 DEF HandleAlarm, Hists
  <2> QED  BY <1>8, <2>1, LengthUntouched DEF HandleAlarm, fileVars
<1> QED  BY <1>2, <1>3, <1>4, <1>5, <1>6, <1>7, <1>8 DEF Task

LEMMA LengthStep == LengthInv /\ [Next]_vars => LengthInv'
<1> SUFFICES ASSUME LengthInv, [Next]_vars
             PROVE  OpenHasPes' /\ ClosedHasIdx' /\ CurLenIsFileSize'
  BY ControlStep DEF LengthInv
<1>1. hist \in Hists /\ Upset(hist).torn = hist.torn /\ TypeInv
  BY TornSets DEF LengthInv, ControlInv, TypeInv, TypeOK
<1>2. CASE Task
  BY <1>2, LengthTask
<1>3. CASE ExitEnds \/ Leave \/ Crash \/ CardRemoved
  <2>1. hist'.torn = hist.torn \cup Unfinished
    BY <1>1, <1>3, TornSets DEF ExitEnds, Leave, Crash
  <2> QED  BY <1>3, <2>1, LengthTorn DEF ExitEnds, Leave, Crash
<1>4. CASE Callback
  BY <1>1, <1>4, LengthUntouched DEF Callback, RebootFlag, RebootNotify, RebootLeave,
     FormatNotify, FormatFlag, FormatDone, AlarmReport, callbackLeaves
<1>5. CASE ExitBegins \/ Boot
  BY <1>1, <1>5, LengthUntouched DEF ExitBegins, Boot
<1>6. CASE Tick
  <2>1. hist'.torn = hist.torn
    BY <1>1, <1>6 DEF Tick, Hists
  <2> QED  BY <1>6, <2>1, LengthUntouched DEF Tick
<1>7. CASE Sync \/ SetRecordType \/ SetRecordTimes \/ CardInserted
  BY <1>7, LengthUntouched DEF Sync, SetRecordType, SetRecordTimes, CardInserted
<1>8. CASE UNCHANGED vars
  BY <1>8, LengthUntouched DEF vars
<1> QED  BY <1>2, <1>3, <1>4, <1>5, <1>6, <1>7, <1>8 DEF Next, Process, Env

LEMMA LengthInit == Init => LengthInv
<1> SUFFICES ASSUME Init PROVE LengthInv
  OBVIOUS
<1>1. rec.fd = "none" /\ DOMAIN pes = {}
  BY DEF Init, FreshRec
<1> QED  BY <1>1, ControlInit DEF LengthInv, OpenHasPes, ClosedHasIdx, CurLenIsFileSize

(* The offsets the index stores are the places in the file: curFileLen is  *)
(* the size of the file and of what waits for it in the write buffer,      *)
(* through every stop, format, restart and continuation that did not cut   *)
(* the file off.                                                           *)
THEOREM LengthIsFileSize == Spec => []CurLenIsFileSize
<1>1. LengthInv => CurLenIsFileSize
  BY DEF LengthInv
<1> QED  BY <1>1, LengthInit, LengthStep, PTL DEF Spec

-----------------------------------------------------------------------------
(* The schedule. *)

(* A number is given by its quotient and its remainder. *)
LEMMA Division ==
  ASSUME NEW a \in Int, NEW b \in Nat \ {0}
  PROVE  /\ a \div b \in Int /\ a % b \in 0 .. b - 1
         /\ a = b * (a \div b) + (a % b)
OBVIOUS

LEMMA DivisionUnique ==
  ASSUME NEW b \in Nat \ {0}, NEW q \in Int, NEW r \in 0 .. b - 1
  PROVE  (b * q + r) % b = r
OBVIOUS

(* The day before a day is the day before in the week, over its turn too.  *)
LEMMA YesterdayInWeek ==
  ASSUME NEW d \in Nat
  PROVE  (d - 1) % DaysPerWeek = Yesterday(d % DaysPerWeek)
<1> DEFINE n == DaysPerWeek
           q == d \div DaysPerWeek
           w == d % DaysPerWeek
<1>1. n \in Nat \ {0}
  BY LengthsAssumption
<1>2. q \in Int /\ w \in 0 .. n - 1 /\ d = n * q + w
  BY <1>1, Division
<1>3. ASSUME NEW a \in Int, NEW b \in Int PROVE a * (b - 1) = a * b - a
  OBVIOUS
<1> HIDE DEF n, q, w
<1>4. CASE w = 0
  <2>1. d - 1 = n * (q - 1) + (n - 1)
    <3>1. n * (q - 1) = n * q - n /\ n * q \in Int
      BY <1>1, <1>2, <1>3
    <3> QED  BY <1>1, <1>2, <1>4, <3>1
  <2>2. (n * (q - 1) + (n - 1)) % n = n - 1
    BY <1>1, <1>2, DivisionUnique
  <2> QED  BY <1>4, <2>1, <2>2 DEF Yesterday, n, w
<1>5. CASE w # 0
  <2>1. d - 1 = n * q + (w - 1) /\ w - 1 \in 0 .. n - 1
    <3>1. n * q \in Int
      BY <1>1, <1>2
    <3> QED  BY <1>1, <1>2, <1>5, <3>1
  <2>2. (n * q + (w - 1)) % n = w - 1
    BY <1>1, <1>2, <2>1, DivisionUnique
  <2> QED  BY <1>5, <2>1, <2>2 DEF Yesterday, n, w
<1> QED  BY <1>4, <1>5

LEMMA ScheduleIsPeriod ==
  ASSUME NEW lists \in SUBSET Lists, NEW c \in Nat,
         CheckRecordTime(lists, (c \div DaySecs) % DaysPerWeek, c % DaySecs)
  PROVE  InPeriod(lists, c)
<1> DEFINE d == c \div DaySecs
           t == c % DaySecs
           w == d % DaysPerWeek
<1>1. DaySecs \in Nat \ {0} /\ DaysPerWeek \in Nat \ {0}
  BY LengthsPositive, LengthsAssumption
<1>2. d \in Nat /\ t \in 0 .. DaySecs - 1 /\ c = DaySecs * d + t
  <2>1. d \in Nat
    BY <1>1, DivMod
  <2>2. t \in 0 .. DaySecs - 1 /\ c = DaySecs * d + t
    BY <1>1, Division
  <2> QED  BY <2>1, <2>2
<1>3. w \in WeekDays /\ Yesterday(w) \in WeekDays /\ (d - 1) % DaysPerWeek = Yesterday(w)
  <2> HIDE DEF d
  <2>1. w \in WeekDays
    BY <1>1, <1>2, Division DEF WeekDays
  <2>2. (d - 1) % DaysPerWeek = Yesterday(w)
    BY <1>2, YesterdayInWeek
  <2> HIDE DEF w
  <2>3. Yesterday(w) \in WeekDays
    BY <1>1, <2>1 DEF WeekDays, Yesterday
  <2> QED  BY <2>1, <2>2, <2>3
<1>4. PICK list \in lists : IF list[w].en THEN InItsDay(list[w], t)
                            ELSE InNextDay(list[Yesterday(w)], t)
  BY DEF CheckRecordTime
<1> HIDE DEF d, t, w
<1>5. list[w] \in Periods /\ list[Yesterday(w)] \in Periods
  BY <1>3 DEF Lists
<1>6. /\ d * DaySecs = DaySecs * d /\ (d + 1) * DaySecs = DaySecs * d + DaySecs
      /\ (d - 1) * DaySecs = DaySecs * d - DaySecs
      /\ DaySecs * d \in Int
  BY <1>1, <1>2
<1>7. CASE list[w].en
  <2> DEFINE p == list[w]
  <2>1. /\ p.from \in 0 .. DaySecs - 1 /\ p.to \in 0 .. DaySecs - 1
        /\ InItsDay(p, t)
    BY <1>4, <1>5, <1>7 DEF Periods
  <2>2. /\ p.from # p.to /\ d * DaySecs + p.from <= c /\ c <= PeriodEnd(p, d)
    BY <1>1, <1>2, <1>6, <2>1 DEF InItsDay, PeriodEnd
  <2> QED  BY <1>7, <2>2 DEF InPeriod, d, w
<1>8. CASE ~list[w].en
  <2> DEFINE p == list[Yesterday(w)]
  <2>1. /\ p.from \in 0 .. DaySecs - 1 /\ p.to \in 0 .. DaySecs - 1
        /\ p.en /\ p.from > p.to /\ t <= p.to
    BY <1>4, <1>5, <1>8 DEF Periods, InNextDay
  <2>2. /\ p.from # p.to /\ (d - 1) * DaySecs + p.from <= c
        /\ c <= PeriodEnd(p, d - 1)
    BY <1>1, <1>2, <1>6, <2>1 DEF PeriodEnd
  <2>3. p = list[(d - 1) % DaysPerWeek]
    BY <1>3
  <2> QED  BY <2>1, <2>2, <2>3 DEF InPeriod, d
<1> QED  BY <1>7, <1>8

(* check_record_time never takes a time for one of recording that is in no *)
(* period of the schedule, whatever the lists, the length of a day and the *)
(* day of the week: no recording is started outside.                       *)
THEOREM StartsAreScheduled == Spec => StartsInPeriod
<1>1. TypeInv /\ [Next]_vars => [PollStart /\ pc' = "starting" => InPeriod(sched, clock)]_vars
  <2> SUFFICES ASSUME TypeInv, PollStart, pc' = "starting" PROVE InPeriod(sched, clock)
    OBVIOUS
  <2>1. clock \in Nat /\ sched \in SUBSET Lists
    BY ChoicesAssumption DEF TypeInv, TypeOK
  <2>2. CheckRecordTime(sched, (clock \div DaySecs) % DaysPerWeek, clock % DaySecs)
    BY DEF PollStart, Starts, InSchedule, WDay, Now
  <2> QED  BY <2>1, <2>2, ScheduleIsPeriod
<1> QED  BY <1>1, TypeInvariant, PTL DEF Spec, StartsInPeriod
=============================================================================
