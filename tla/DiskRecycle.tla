----------------------------- MODULE DiskRecycle -----------------------------
(***************************************************************************)
(* Room for recordings: when the card is nearly full, start_rec lets       *)
(* recycle_disk_del_day_dir of disk_mgr.c delete the recordings of whole   *)
(* days, and records if that has succeeded.                                *)
(*                                                                         *)
(* Recordings lie in two trees, common and alarm, each with a directory    *)
(* for every month and in it one for every day.  The recordings of a day   *)
(* are one directory of a tree and fill one unit of the card, if the tree  *)
(* is on the card.                                                         *)
(***************************************************************************)
EXTENDS Integers, Sequences, FiniteSets

CONSTANTS
  Places,     \* the directories of days there may be: tree, month and day
  OnCard,     \* the trees that are on the card
  Capacity,   \* units of the card
  Reserved    \* RESERVED_SIZE_MB: 300

Roots == {"common", "alarm"}
NoEntry  == 0
Dangling == -1    \* a pointer into a list that was freed

ASSUME PlacesAssumption ==
  /\ Places \subseteq [root : Roots, mon : Nat, day : Nat]
  /\ IsFiniteSet(Places)
  /\ \E p \in Places : p.root = "common"
ASSUME RoomAssumption ==
  /\ OnCard \subseteq Roots
  /\ Capacity \in Nat /\ Reserved \in Nat /\ Reserved < Capacity

VARIABLES
  days,    \* the directories of days that exist
  dirs,    \* the directories of months that exist
  today,   \* where recordings go today
  pc,      \* the recorder task: "idle", in a call ("month", "day"), or "open"
  call     \* the local variables of the call

vars == <<days, dirs, today, pc, call>>

Earlier(p, q) == p.mon < q.mon \/ (p.mon = q.mon /\ p.day < q.day)
MonthDir(p) == [root |-> p.root, mon |-> p.mon]
MonthDirs == {MonthDir(p) : p \in Places}
CommonDaysIn(m) ==                           \* mutant: the alarm tree is not read
  {p \in days : p.root = "common" /\ MonthDir(p) = m}
DaysIn(m) == {p \in days : MonthDir(p) = m}

(* need_recycle_disk.  (That deleting may be switched off has no effect.)  *)
Free == Capacity - Cardinality({p \in days : p.root \in OnCard})
Need == Free <= Reserved

-----------------------------------------------------------------------------
(* Listings, sorted by time.  Two of the same time come in any order.      *)

Time(e) == IF "day" \in DOMAIN e THEN e.day ELSE e.mon

Orders(S) ==
  {s \in [1 .. Cardinality(S) -> S] : \A i, j \in DOMAIN s : s[i] = s[j] => i = j}
Unsorted(S) == Orders(S)                     \* mutant: DirFileQuickSort left out
Sorted(S) ==
  {s \in Orders(S) : \A i, j \in DOMAIN s : i < j => Time(s[i]) <= Time(s[j])}

Twice(s) == [k \in 1 .. 2 * Len(s) |-> s[(k + 1) \div 2]]

(* The days of one month: of one directory, of both trees, or, after a     *)
(* last month that has no partner, of the same directory twice.            *)
Lists(m, next) ==
  IF m = next THEN {Twice(s) : s \in Sorted(DaysIn(m))}
              ELSE Sorted(DaysIn(m) \cup DaysIn(next))

-----------------------------------------------------------------------------
NoCall == [months |-> <<>>, nMon |-> 0, nextMon |-> NoEntry, list |-> <<>>,
           nDay |-> 0, nextDay |-> NoEntry, path |-> NoEntry, visited |-> {}]

Init ==
  /\ days \in SUBSET Places /\ Free >= 0
  /\ dirs = {MonthDir(p) : p \in days}
  /\ today \in {p \in Places : p.root = "common"}
  /\ pc = "idle"
  /\ call = NoCall

Midnight ==
  /\ today' \in {p \in Places : p.root = "common" /\ Earlier(today, p)}
  /\ UNCHANGED <<days, dirs, pc, call>>

(* start_rec: there is room, or the call has made it; the directory of     *)
(* today is created.                                                       *)
OpenFile ==
  /\ pc = "open" \/ (pc = "idle" /\ ~Need)
  /\ days' = days \cup {today}
  /\ dirs' = dirs \cup {MonthDir(today)}
  /\ pc' = "idle"
  /\ UNCHANGED <<today, call>>

(* start_rec: there is no room, the months of both trees are listed.       *)
(* Without any the call fails at once.                                     *)
Start ==
  /\ pc = "idle" /\ Need
  /\ dirs # {}
  /\ \E s \in Sorted(dirs) : call' = [NoCall EXCEPT !.months = s]
  /\ pc' = "month"
  /\ UNCHANGED <<days, dirs, today>>

(* The next month.  Its partner in the other tree, if any, follows it in   *)
(* the list; behind the last month the pointer to the next one is stale.   *)
NextMon  == IF call.nMon + 1 < Len(call.months) THEN call.nMon + 2 ELSE call.nextMon
Month    == call.months[call.nMon + 1]
Paired   == NextMon # NoEntry /\ call.months[NextMon].mon = Month.mon
Partner  == call.months[NextMon]

AfterPairs(n)  == n + 3                      \* mutant: skips one more
AfterPair(n)   == n + 2

(* A month without days is removed.                                        *)
EmptyMonth ==
  /\ pc = "month" /\ call.nMon < Len(call.months)
  /\ DaysIn(Month) = {}
  /\ Paired => DaysIn(Partner) = {}
  /\ dirs' = dirs \ ({Month} \cup IF Paired THEN {Partner} ELSE {})
  /\ call' = [call EXCEPT !.nMon = @ + 1, !.nextMon = NextMon]
  /\ UNCHANGED <<days, today, pc>>

PairedMonth ==
  /\ pc = "month" /\ call.nMon < Len(call.months)
  /\ Paired
  /\ \E s \in Lists(Month, Partner) :
       /\ s # <<>>
       /\ call' = [call EXCEPT !.nMon = AfterPair(@), !.nextMon = NextMon,
                               !.list = s, !.path = NextMon,
                               !.visited = @ \cup {Month.mon}]
  /\ dirs' = IF DaysIn(Month) = {} THEN dirs \ {Month} ELSE dirs
  /\ pc' = "day"
  /\ UNCHANGED <<days, today>>

SingleMonth ==
  /\ pc = "month" /\ call.nMon < Len(call.months)
  /\ ~Paired
  /\ \E s \in Sorted(DaysIn(Month)) :
       /\ s # <<>>
       /\ call' = [call EXCEPT !.nMon = @ + 1, !.nextMon = NextMon,
                               !.list = s, !.path = call.nMon + 1,
                               !.visited = @ \cup {Month.mon}]
  /\ pc' = "day"
  /\ UNCHANGED <<days, dirs, today>>

(* All months are done.  The call fails if there is still no room.         *)
NeverFailed == FALSE                         \* mutant: not asked again
Failed == Need

MonthsOver ==
  /\ pc = "month" /\ call.nMon >= Len(call.months)
  /\ pc' = IF Failed THEN "idle" ELSE "open"
  /\ call' = NoCall
  /\ UNCHANGED <<days, dirs, today>>

(* The next day of the list, and the one of the same day in the other tree *)
(* that follows it.  The count of days is not reset from month to month.   *)
Day == call.list[call.nDay + 1]
NextDay == IF call.nDay + 1 < Len(call.list) THEN call.nDay + 2 ELSE call.nextDay

(* What the next entry may show and name.  A dangling pointer shows what   *)
(* the memory holds by now: nothing of use, or the list of this month.     *)
SameDays ==
  IF NextDay = NoEntry THEN {}
  ELSE {k \in IF NextDay = Dangling THEN DOMAIN call.list ELSE {NextDay} :
          call.list[k].day = Day.day}
Deletions ==
  {<<{Day, call.list[k]}, call.nDay + 2>> : k \in SameDays}
  \cup IF NextDay \notin SameDays THEN {<<{Day}, call.nDay + 1>>} ELSE {}

(* A day is deleted; the call ends when that has made room, though it      *)
(* reports an error then: the caller will look again in three seconds.     *)
AlwaysOn == TRUE                             \* mutant: room is not looked at
GoesOn == Need'

DeleteDay ==
  /\ pc = "day" /\ call.nDay < Len(call.list)
  /\ \E d \in Deletions :
       /\ days' = days \ d[1]
       /\ IF GoesOn
          THEN /\ call' = [call EXCEPT !.nDay = d[2], !.nextDay = NextDay]
               /\ pc' = "day"
          ELSE call' = NoCall /\ pc' = "idle"
  /\ UNCHANGED <<dirs, today>>

(* The list is done and freed.  The directory of the month is removed if   *)
(* it is empty: of a pair, the second one.                                 *)
EndMonth ==
  /\ pc = "day" /\ call.nDay >= Len(call.list)
  /\ dirs' = IF DaysIn(call.months[call.path]) = {}
             THEN dirs \ {call.months[call.path]} ELSE dirs
  /\ call' = [call EXCEPT !.list = <<>>,
                !.nextDay = IF @ = NoEntry THEN NoEntry ELSE Dangling]
  /\ pc' = "month"
  /\ UNCHANGED <<days, today>>

Recycle ==
  \/ Start \/ EmptyMonth \/ PairedMonth \/ SingleMonth \/ MonthsOver
  \/ DeleteDay \/ EndMonth

Next == Midnight \/ OpenFile \/ Recycle

Spec == Init /\ [][Next]_vars

-----------------------------------------------------------------------------
(* Properties.                                                             *)

(* Types; and the list of months is never left by more than one entry.     *)
TypeOK ==
  /\ days \subseteq Places
  /\ dirs \subseteq MonthDirs
  /\ today \in Places
  /\ pc \in {"idle", "month", "day", "open"}
  /\ call.months \in Seq(MonthDirs) /\ call.list \in Seq(Places)
  /\ call.nMon \in 0 .. Len(call.months) + 1
  /\ call.nextMon \in 0 .. Len(call.months) /\ call.path \in 0 .. Len(call.months)
  /\ call.nDay \in Nat /\ call.nextDay \in {Dangling} \cup 0 .. Len(call.list)
  /\ call.visited \subseteq Nat

Deleted == days \ days'

(* No recording is deleted while there is room.                            *)
DeletesWhenNeeded == [][Deleted # {} => Need]_vars

(* The first month a call visits loses its days oldest first, and a day    *)
(* in both trees at once: all that is left is newer.  (In later months the *)
(* call passes over as many days as it has counted so far.)                *)
OldestFirst ==
  [][Cardinality(call.visited) = 1 =>
       \A p \in Deleted, q \in days' : Earlier(p, q)]_vars

(* When the call reports success there is room for the file start_rec then *)
(* opens.                                                                  *)
SuccessMeansRoom == pc = "open" => ~Need

(* Whatever is on the card, room is made in the end, if the task tries to  *)
(* start recording again and again and a call runs through.                *)
RoomIsMade == Need ~> ~Need
===============================================================================
