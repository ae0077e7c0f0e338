------------------------------ MODULE UnitList ------------------------------
(***************************************************************************)
(* The lists of recordings a client asks for, page by page:                *)
(* IPCMsgGetAVRecoListPageCfg of recorder_server.c loads the units of one  *)
(* day from the idx files, lays the index the recorder task holds in       *)
(* memory over them, and joins units into segments.  The recorder task     *)
(* goes on recording meanwhile; the two share files and memory and no lock.*)
(*                                                                         *)
(* A unit is ten seconds; times are numbers of units, UnitsPerDay is       *)
(* 23:59:59.  Segments are half open: the unit at their end is not theirs. *)
(***************************************************************************)
EXTENDS Integers, Sequences

CONSTANTS
  Days,          \* days, as consecutive numbers
  UnitsPerDay,   \* UNITS_A_DAY: 8640
  UnitsPerFile,  \* MAX_UNITS: 60
  FilesPerHour,  \* slots of an hour: 6
  PageLen,       \* IPCNET_AV_REC_NUM: segments of a response
  Faults,        \* "card": the card or the directory of the day is missing
  LastUnit       \* the clock stops here on the last day (a bound)

ASSUME LengthsAssumption ==
  /\ UnitsPerFile \in Nat \ {0} /\ UnitsPerDay \in Nat \ {0}
  /\ FilesPerHour \in Nat \ {0}
  /\ UnitsPerDay % UnitsPerFile = 0
  /\ PageLen \in Nat \ {0}
ASSUME DaysAssumption == Days \subseteq Nat \ {0} /\ Faults \subseteq {"card"}
                         /\ LastUnit \in Nat

Idx     == 0 .. UnitsPerDay - 1
FileIdx == 0 .. UnitsPerFile - 1

(* What a unit holds: its type and whether it is alarmed.                  *)
None    == "none"
Plain   == "plain"
Alarmed == "alarmed"
Kinds   == {None, Plain, Alarmed}
Units   == [Idx -> Kinds]

NoDay   == 0
NoStart == -1

VARIABLES
  today, now,   \* the date, and the unit of the day
  card,         \* the idx files of each day
  mem,          \* aRecFileIdx; the day it belongs to is not in the code
  srv,          \* the server: g_playback_status.recUnits, and the loop of a page
  client        \* the client: what it asks for and has been given

vars == <<today, now, card, mem, srv, client>>

-----------------------------------------------------------------------------
(* The recorder task, as far as a list can tell.                           *)

FileOf(u) == u \div UnitsPerFile
UnitsOf(f) == {u \in Idx : FileOf(u) = f}

(* Units with those of one slot replaced.                                  *)
Overlaid(units, f, m) ==
  [u \in Idx |-> IF FileOf(u) = f THEN m[u % UnitsPerFile] ELSE units[u]]
Blank == [i \in FileIdx |-> None]

(* first: the unit in which the file was opened; pc: what is being changed *)
(* of the index; was: the slot and the units before the file was opened.   *)
Fresh == [day |-> NoDay, file |-> 0, first |-> 0, units |-> Blank, pc |-> "still",
          was |-> [file |-> 0, units |-> Blank]]

(* What has been recorded of a day up to now.                              *)
Recorded(d) ==
  IF mem.day = d THEN Overlaid(card[d], mem.file, mem.units) ELSE card[d]

(* What is recorded of a day and in none of its files.                     *)
NotSaved(d) == {u \in Idx : Recorded(d)[u] # card[d][u]}
Lost == IF mem.day = NoDay THEN {} ELSE NotSaved(mem.day)

(* open_record_files: a slot that has an index is continued with it, the   *)
(* units being loaded before fileTime_s is set ("load", "slot"); one that  *)
(* has none starts empty, fileTime_s being set before the units are cleared*)
(* ("time", "units").  The index before was saved when its file was closed,*)
(* but for a unit that ended in the one pass of save_record_frame behind   *)
(* that; it is lost, and no longer due (history).                          *)
OpenFile ==
  /\ mem.pc = "still"
  /\ \A u, v \in Lost : u = v
  /\ \E pc \in {"time", "load"} :
       /\ pc = "time" => \A u \in UnitsOf(FileOf(now)) : card[today][u] = None
       /\ mem' = [day |-> today, file |-> FileOf(now), first |-> now % UnitsPerFile,
                  units |-> [i \in FileIdx |-> card[today][FileOf(now) * UnitsPerFile + i]],
                  pc |-> pc, was |-> [file |-> mem.file, units |-> mem.units]]
  /\ client' = IF client.day = mem.day
               THEN [client EXCEPT !.due = @ \ Lost, !.phantom = @ \cup Lost] ELSE client
  /\ UNCHANGED <<today, now, card, srv>>

OpenStep ==
  /\ \/ mem.pc = "time"  /\ mem' = [mem EXCEPT !.pc = "units"]
     \/ mem.pc = "load"  /\ mem' = [mem EXCEPT !.pc = "slot"]
     \/ mem.pc \in {"units", "slot"} /\ mem' = [mem EXCEPT !.pc = "still", !.was = Fresh.was]
  /\ UNCHANGED <<today, now, card, srv, client>>

(* A unit that is over is marked, the later ones after it, and none that   *)
(* was over when the file was opened; the last one of a day when the next  *)
(* day has begun.                                                          *)
IsOver(d, u) == d < today \/ (d = today /\ u < now)
MarkUnit ==
  /\ mem.day # NoDay /\ mem.pc = "still"
  /\ \E i \in mem.first .. UnitsPerFile - 1, k \in Kinds \ {None} :
       /\ IsOver(mem.day, mem.file * UnitsPerFile + i)
       /\ \A j \in FileIdx : j >= i => mem.units[j] = None
       /\ mem' = [mem EXCEPT !.units[i] = k]
  /\ UNCHANGED <<today, now, card, srv, client>>

(* save_rec_units, each minute and when the file is closed: the idx file   *)
(* is truncated, then written.                                             *)
CutUnits ==
  /\ mem.day # NoDay /\ mem.pc = "still"
  /\ card' = [card EXCEPT ![mem.day] = Overlaid(@, mem.file, Blank)]
  /\ mem' = [mem EXCEPT !.pc = "saving"]
  /\ UNCHANGED <<today, now, srv, client>>

SaveUnits ==
  /\ mem.pc = "saving"
  /\ card' = [card EXCEPT ![mem.day] = Overlaid(@, mem.file, mem.units)]
  /\ mem' = [mem EXCEPT !.pc = "still"]
  /\ UNCHANGED <<today, now, srv, client>>

(* What the server may find in memory while it is changed: an hour and a   *)
(* ten of minutes, each old or new; units whose two bytes are old or new.  *)
Mix(f, g) == (f \div FilesPerHour) * FilesPerHour + (g % FilesPerHour)
TimesSeen ==
  CASE mem.pc \in {"time", "slot"} ->
         {Mix(f, g) : f, g \in {mem.was.file, mem.file}}
    [] mem.pc = "load" -> {mem.was.file}
    [] OTHER -> {mem.file}

MixedUnit(k, l) == IF {k, l} = {None, Alarmed} THEN Kinds ELSE {k, l}
UnitsSeen ==
  CASE mem.pc \in {"units", "load"} ->
         {m \in [FileIdx -> Kinds] :
            \A i \in FileIdx : m[i] \in MixedUnit(mem.was.units[i], mem.units[i])}
    [] mem.pc = "time" -> {mem.was.units}
    [] OTHER -> {mem.units}

Tick ==
  /\ today + 1 \in Days \/ now < LastUnit
  /\ IF now < UnitsPerDay - 1
     THEN now' = now + 1 /\ UNCHANGED today
     ELSE now' = 0 /\ today + 1 \in Days /\ today' = today + 1
  /\ UNCHANGED <<card, mem, srv, client>>

-----------------------------------------------------------------------------
(* The client.                                                             *)

Lists == {"record", "alarm"}                 \* et = 1, et = 3
Wanted(list, k) == k = IF list = "record" THEN Plain ELSE Alarmed

NoList == [pc |-> "idle", list |-> "record", day |-> NoDay, from |-> 0,
           segs |-> <<>>, due |-> {}, phantom |-> {}]

(* A list from the beginning of a day.  What is recorded by now is due     *)
(* (history).                                                              *)
Ask ==
  /\ client.pc = "idle"
  /\ \E l \in Lists, d \in Days :
       client' = [NoList EXCEPT !.pc = "asked", !.list = l, !.day = d,
                    !.due = {u \in Idx : Wanted(l, Recorded(d)[u])}]
  /\ UNCHANGED <<today, now, card, mem, srv>>

(* A response: it asks for what follows the last segment, until a page is  *)
(* not full.                                                               *)
Answered(page) ==
  [client EXCEPT !.segs = @ \o page,
     !.from = IF page = <<>> THEN @ ELSE page[Len(page)].e,
     !.pc = IF Len(page) < PageLen THEN "done" ELSE "asked"]

-----------------------------------------------------------------------------
(* The server.                                                             *)

(* The units are kept after the response, but no list reads them again.    *)
Idle == [pc |-> "idle", units |-> [u \in Idx |-> None], unsaved |-> {}, slot |-> 0,
         dated |-> NoDay, i |-> 0, start |-> NoStart, page |-> <<>>]

(* load_rec_units_a_day: the idx files, one after the other.  What each    *)
(* does not hold yet, or not while it is being saved, is history.          *)
LoadFiles ==
  /\ srv.pc = "idle" /\ client.pc = "asked"
  /\ srv' = [Idle EXCEPT !.pc = "load"]
  /\ client' = [client EXCEPT !.pc = "waits"]
  /\ UNCHANGED <<today, now, card, mem>>

(* There is no card, or no directory of the day: the client is told, and   *)
(* may ask again.                                                          *)
LoadFails ==
  /\ "card" \in Faults
  /\ srv.pc = "idle" /\ client.pc = "asked"
  /\ client' = NoList
  /\ UNCHANGED <<today, now, card, mem, srv>>

NumFiles == UnitsPerDay \div UnitsPerFile
LoadFile ==
  /\ srv.pc = "load" /\ srv.slot < NumFiles
  /\ srv' = [srv EXCEPT
       !.units = [u \in Idx |-> IF FileOf(u) = srv.slot THEN card[client.day][u] ELSE @[u]],
       !.unsaved = @ \cup (NotSaved(client.day) \cap UnitsOf(srv.slot)),
       !.slot = @ + 1]
  /\ UNCHANGED <<today, now, card, mem, client>>

(* If the day is today the index in memory is laid over the slot of its    *)
(* time, whatever day it is of: the date is tested, fileTime_s is read and *)
(* the units are copied one after the other.                               *)
IsTodayAlways == TRUE                        \* mutant: over any day
IsToday == client.day = today
TestDate ==
  /\ srv.pc = "load" /\ srv.slot = NumFiles
  /\ IsToday
  /\ srv' = [srv EXCEPT !.pc = "dated", !.dated = today]
  /\ UNCHANGED <<today, now, card, mem, client>>

ReadTime ==
  /\ srv.pc = "dated"
  /\ \E f \in TimesSeen : srv' = [srv EXCEPT !.pc = "timed", !.slot = f]
  /\ UNCHANGED <<today, now, card, mem, client>>

(* What the files did not hold when they were read is missed, unless it is *)
(* laid over them from memory; and a slot that something else than the     *)
(* index of this day and slot is laid over shows what is not there         *)
(* (history).                                                              *)
OwnIndex(units) == mem.day = client.day /\ mem.file = srv.slot /\ mem.units = units
Foreign(units) ==
  IF srv.dated = client.day /\ ~OwnIndex(units) THEN UnitsOf(srv.slot) ELSE {}

LaidNever(units) == srv.units                \* mutant: only what is saved
Laid(units) == Overlaid(srv.units, srv.slot, units)

CopyUnits ==
  /\ srv.pc = "timed"
  /\ \E units \in UnitsSeen :
       /\ srv' = [Idle EXCEPT !.pc = "scan", !.units = Laid(units), !.i = client.from]
       /\ client' = [client EXCEPT
            !.due = @ \ ((srv.unsaved \ UnitsOf(srv.slot)) \cup Foreign(units)),
            !.phantom = @ \cup Foreign(units)]
  /\ UNCHANGED <<today, now, card, mem>>

OnlyFiles ==
  /\ srv.pc = "load" /\ srv.slot = NumFiles
  /\ ~IsToday
  /\ srv' = [Idle EXCEPT !.pc = "scan", !.units = srv.units, !.i = client.from]
  /\ client' = [client EXCEPT !.due = @ \ srv.unsaved]
  /\ UNCHANGED <<today, now, card, mem>>

(* One pass of the loop of get_record_list_in_a_day and                    *)
(* get_alarm_list_in_a_day.                                                *)
Seg(s, e) == [st |-> s, e |-> e]
Want(i) == Wanted(client.list, srv.units[i])

NeverFull == FALSE                           \* mutant: one page for the day
Full == Len(srv.page) >= PageLen

Begun(i)   == IF srv.start = NoStart THEN i ELSE srv.start
EndedLate(i) == i + 1                        \* mutant: the end belongs to it
Ended(i)   == i
ScanUnit ==
  /\ srv.pc = "scan" /\ srv.i < UnitsPerDay /\ ~Full
  /\ srv' = IF Want(srv.i)
            THEN [srv EXCEPT !.i = @ + 1, !.start = Begun(srv.i)]
            ELSE IF srv.start = NoStart
            THEN [srv EXCEPT !.i = @ + 1]
            ELSE [srv EXCEPT !.i = @ + 1, !.start = NoStart,
                             !.page = Append(@, Seg(srv.start, Ended(srv.i)))]
  /\ UNCHANGED <<today, now, card, mem, client>>

(* The end of the loop: a segment that is still open ends with the day.    *)
(* The list of alarms fills it in, but does not count it.                  *)
LastSeg ==
  IF srv.start # NoStart /\ client.list = "record"
  THEN <<Seg(srv.start, UnitsPerDay)>> ELSE <<>>

Respond ==
  /\ srv.pc = "scan" /\ (srv.i >= UnitsPerDay \/ Full)
  /\ client' = Answered(srv.page \o LastSeg)
  /\ srv' = Idle
  /\ UNCHANGED <<today, now, card, mem>>

-----------------------------------------------------------------------------
Init ==
  /\ today \in Days /\ \A d \in Days : today <= d
  /\ now \in Idx
  /\ card \in [Days -> Units]
  /\ \A d \in Days, u \in Idx : ~IsOver(d, u) => card[d][u] = None
  /\ mem = Fresh
  /\ srv = Idle
  /\ client = NoList

Recorder == OpenFile \/ OpenStep \/ MarkUnit \/ CutUnits \/ SaveUnits
Server ==
  \/ LoadFiles \/ LoadFails \/ LoadFile
  \/ TestDate \/ ReadTime \/ CopyUnits \/ OnlyFiles
  \/ ScanUnit \/ Respond

(* The loop of a page works on the server's own copy of the units: what    *)
(* the clock and the recorder do during it is taken behind it, which gives *)
(* the same lists.                                                         *)
Next == (srv.pc # "scan" /\ (Tick \/ Recorder)) \/ Ask \/ Server

Spec == Init /\ [][Next]_vars

-----------------------------------------------------------------------------
(* Properties.                                                             *)

Segs == [st : Idx, e : 1 .. UnitsPerDay]

(* Types; and a page never outgrows the response: a last segment that ends *)
(* with the day still has room.                                            *)
TypeOK ==
  /\ today \in Days /\ now \in Idx
  /\ card \in [Days -> Units]
  /\ mem \in [day : Days \cup {NoDay}, file : Nat, first : FileIdx,
              units : [FileIdx -> Kinds],
              pc : {"still", "time", "units", "load", "slot", "saving"},
              was : [file : Nat, units : [FileIdx -> Kinds]]]
  /\ srv \in [pc : {"idle", "load", "dated", "timed", "scan"}, units : Units,
              unsaved : SUBSET Idx, slot : Nat, dated : Days \cup {NoDay},
              i : 0 .. UnitsPerDay, start : Idx \cup {NoStart}, page : Seq(Segs)]
  /\ Len(srv.page) + (IF srv.start = NoStart THEN 0 ELSE 1) <= PageLen
  /\ client \in [pc : {"idle", "asked", "waits", "done"}, list : Lists,
                 day : Days \cup {NoDay}, from : 0 .. UnitsPerDay, segs : Seq(Segs),
                 due : SUBSET Idx, phantom : SUBSET Idx]

Within(u, s) == s.st <= u /\ u < s.e

(* In every pass of the loop the segments on the page are the runs of      *)
(* wanted units from where the client asked up to here: all of them, no    *)
(* longer and no shorter than they are, in order.                          *)
OnPage(u) == \E k \in DOMAIN srv.page : Within(u, srv.page[k])
IsOpen(u) == srv.start # NoStart /\ srv.start <= u
PageExact ==
  srv.pc = "scan" =>
    /\ \A u \in client.from .. srv.i - 1 : Want(u) <=> OnPage(u) \/ IsOpen(u)
    /\ \A k \in DOMAIN srv.page :
         /\ client.from <= srv.page[k].st /\ srv.page[k].st < srv.page[k].e
         /\ srv.page[k].e < srv.i
    /\ \A j, k \in DOMAIN srv.page : j < k => srv.page[j].e < srv.page[k].st
    /\ srv.start # NoStart =>
         /\ client.from <= srv.start /\ srv.start < srv.i
         /\ \A k \in DOMAIN srv.page : srv.page[k].e < srv.start

Listed == {u \in Idx : \E k \in DOMAIN client.segs : Within(u, client.segs[k])}

(* What the pages show of a day is recorded there, in segments that do not *)
(* overlap - but for a slot that the index of another slot or day, or one  *)
(* that was just being changed, was laid over, and a unit lost since.      *)
ListingSound ==
  /\ \A u \in Listed \ client.phantom : Wanted(client.list, Recorded(client.day)[u])
  /\ \A k \in 1 .. Len(client.segs) - 1 : client.segs[k].e <= client.segs[k + 1].st

(* When the last page has come, all that was recorded when the client      *)
(* first asked has been shown, however many pages it took and whatever was *)
(* recorded meanwhile - but for what is no longer due: units the files did *)
(* not hold when they were read, for they were not saved yet or just being *)
(* saved, and memory did not supply; the slot a wrong index was laid over; *)
(* a unit that was lost - and for a run of alarms, as the page shows it, up*)
(* to the end of the day.                                                  *)
UpToEnd(u) ==
  \A v \in u .. UnitsPerDay - 1 :
    \/ v \in client.phantom
    \/ Wanted("alarm", Recorded(client.day)[v])
ListingComplete ==
  client.pc = "done" =>
    \A u \in client.due : u \in Listed \/ (client.list = "alarm" /\ UpToEnd(u))
=============================================================================
