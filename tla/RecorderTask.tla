---------------------------- MODULE RecorderTask ----------------------------
(***************************************************************************)
(* The recorder task of recorder_utils.c, the alarm callback and the main  *)
(* loop of sepcam_recorder.c that steer it, and the card it records to.    *)
(*                                                                         *)
(* One thread (the recorder task) polls: while nothing is recorded it      *)
(* decides whether to start (check_and_start_record, start_rec); while a   *)
(* file is open it runs save_record_frame, whose loop writes frames, marks *)
(* units in the index, closes the file at the end of its slot and asks     *)
(* check_and_stop_record whether to go on.  The same thread serves the     *)
(* messages other threads post to it.  Closing a file and saving its index *)
(* take several calls, and anything may happen between two of them:        *)
(*                                                                         *)
(*   stopping -Flush-> closing -CloseFile-> cutting -CutIdx-> writing      *)
(*                                             ^         -WriteIdx-> pass.then *)
(*                      SavePass, once a minute'                           *)
(*                                                                         *)
(* Time is counted in seconds: clock is the absolute time, clock % DaySecs *)
(* the time of day every comparison of the code uses.  A file covers one   *)
(* slot of FileSecs seconds and is named by its slot, clock \div FileSecs. *)
(* Frames are blocks of one unit of length.                                *)
(***************************************************************************)
EXTENDS Integers, Sequences, FiniteSets

CONSTANTS
  UnitSecs,         \* REC_UNIT_LEN_BY_SECS: 10
  UnitsPerMinute,   \* 6
  UnitsPerFile,     \* MAX_UNITS: 60
  FilesPerDay,      \* 24 * 60 / REC_FILE_LEN_BY_MINS: 144
  StartWindow,      \* an alarm this old may still start a file: 10 seconds
  StopWindow,       \* an alarm this old keeps a file open: 20 seconds
  UploadSecs,       \* the card is asked for again after more than this: 10 s
  ExitSecs,         \* the main loop's sleep(3) before exit(0)
  BufBlocks,        \* size of the write buffer (RECORD_NWRITE_LEN), in blocks
  MaxTimes,         \* iterations of one save_record_frame: 100
  Types,            \* the recording types a user configures
  DaysPerWeek,      \* 7
  Schedules,        \* the schedules a user configures: sets of lists
  Events,           \* what the environment does: "reboot", "format", "alarm",
                    \* "exit", "boot", "config"
  Faults,           \* what goes wrong: "card", "crash", "full", "create", "ipc"
  MaxClock,         \* bound on the clock
  MaxLag,           \* bound on the time between two polls of an open file
  MaxBlocks,        \* bound on the length of a file
  MaxMsgs,          \* bound on the task's message queue
  MaxUpsets         \* bound on reboots, formats, exits, crashes, pulled cards

FileSecs == UnitSecs * UnitsPerFile
DaySecs  == FileSecs * FilesPerDay
MinSecs  == UnitSecs * UnitsPerMinute

INSTANCE Schedule

CLOSED == "RECORDER_COLSED"
COMMON == "RECORDER_COMMON"
ALARM  == "RECORDER_ALARM"

AllTypes == {CLOSED, COMMON, ALARM}
AllEvents == {"reboot", "format", "alarm", "exit", "boot", "config"}
AllFaults == {"card", "crash", "full", "create", "ipc"}
Msgs == {"STOP_RECORDER", "ALARM_ON", "ALARM_OFF"}

ASSUME LengthsAssumption ==
  /\ UnitSecs \in Nat \ {0}
  /\ UnitsPerMinute \in Nat \ {0}
  /\ UnitsPerFile \in Nat \ {0}
  /\ FilesPerDay \in Nat \ {0}
  /\ DaysPerWeek \in Nat \ {0}
  /\ BufBlocks \in Nat \ {0}

ASSUME BoundsAssumption ==
  /\ StartWindow \in Nat /\ StopWindow \in Nat
  /\ UploadSecs \in Nat /\ ExitSecs \in Nat
  /\ MaxTimes \in Nat /\ MaxClock \in Nat /\ MaxLag \in Nat \ {0}
  /\ MaxBlocks \in Nat /\ MaxMsgs \in Nat /\ MaxUpsets \in Nat

ASSUME ChoicesAssumption ==
  /\ Types \subseteq AllTypes /\ Types # {}
  /\ Schedules # {} /\ \A s \in Schedules : s \subseteq Lists
  /\ Events \subseteq AllEvents /\ Faults \subseteq AllFaults

VARIABLES
  clock,       \* time(NULL), local
  lag,         \* seconds since the open file was last polled
  synced,      \* the clock and the time zone are set
  reboot,      \* g_reboot_flg
  format,      \* mmc format status
  cb,          \* alarm callback thread: what it still has to do
  main,        \* main loop: "run", "leave" (recorder_process_run is 0),
               \* "exiting" (in its sleep), "down" (the process is gone)
  exitAt,      \* when the sleep of the main loop ends
  msgs,        \* messages of the recorder task
  card,        \* an SD card is inserted and mounted
  diskValid,   \* g_disk_valid, what the task last heard of the card
  age,         \* time since uploadTime, up to UploadSecs + 1
  type,        \* recType.type
  sched,       \* recType.recTimeList, the configured schedule
  alarm,       \* alarmStat and the static cnt of on_recorder_handler_msg
  pc,          \* recorder task: "idle", "starting", "saving" (top of the
               \* loop of save_record_frame), "checking" (behind the frames
               \* and the unit), "stopping", "closing", "cutting", "writing"
               \* (the steps of stop_rec and save_rec_units) or "lost" (the
               \* card was pulled with the idx file open)
  pass,        \* the running pass of that loop: its number, what its look
               \* at the clock found, where the task goes on after a save
  rec,         \* g_recorder_status: the file being recorded and its index
  pes,         \* pes files on the card: slot -> blocks written
  idx,         \* idx files on the card: slot -> units
  hist         \* history: which units were recorded, when the file was
               \* opened, when the last alarm came and how often it went off
               \* since (twice, if the process has had none), the slots whose
               \* recording or saving was cut short (torn), those of them on
               \* a card that was pulled, how often the environment upset
               \* the task

vars == <<clock, lag, synced, reboot, format, cb, main, exitAt, msgs, card,
          diskValid, age, type, sched, alarm, pc, pass, rec, pes, idx, hist>>

envVars  == <<clock, synced, reboot, format, cb, main, exitAt, card, type, sched>>
fileVars == <<rec, pes, idx>>

-----------------------------------------------------------------------------
Now  == clock % DaySecs
Slot == clock \div FileSecs

NoFile == -1
UnitIdx == 0 .. UnitsPerFile - 1
Unmarked == [type |-> CLOSED, offset |-> 0]
NoUnits == [i \in UnitIdx |-> Unmarked]
Units == [UnitIdx -> [type : AllTypes, offset : Nat]]
Recs == [fd : {"none", "open", "stale"}, file : Nat \cup {NoFile},
         unitTime : Nat, units : Units, len : Nat, buf : Nat]
Alarms == [lo : BOOLEAN, tag : Nat, cnt : BOOLEAN, last : Nat]
UnitNames == Nat \X Nat
Passes == [times : Nat, loop : {"on", "last", "over", "past"},
           then : {"idle", "saving", "failed", "checking"}]
Hists == [covered : SUBSET UnitNames, openedAt : Nat, alarmAt : Nat,
          offs : Nat, torn : SUBSET Nat, pulled : SUBSET Nat, upsets : Nat]

(* The state regitster_recorder_task leaves behind. *)
FreshRec == [fd |-> "none", file |-> NoFile, unitTime |-> 0,
             units |-> NoUnits, len |-> 0, buf |-> 0]
FreshAlarm == [lo |-> FALSE, tag |-> 0, cnt |-> FALSE, last |-> 0]
NoPass == [times |-> 0, loop |-> "last", then |-> "idle"]

(* alarmStat.alarmed as the code tests it: the low bit or the high nibble. *)
Alarmed == alarm.lo \/ alarm.tag # 0

(* The day of the week of the clock, and check_record_time for it.         *)
WDay == (clock \div DaySecs) % DaysPerWeek
InSchedule == CheckRecordTime(sched, WDay, Now)

(* fileTime_s and the end of the file's slot, as times of day. *)
FileTime(r) == IF r.file = NoFile THEN 0 ELSE (r.file % FilesPerDay) * FileSecs
FileEndPastMidnight(r) == FileTime(r) + FileSecs  \* mutant: 24:00 is not 0:00
FileEnd(r)  == (FileTime(r) + FileSecs) % DaySecs
UnitEnd(r)  == (r.unitTime + UnitSecs) % DaySecs

(* Mutants: the index of the unit that begins, or of the one before the one *)
(* that ended.                                                             *)
TimeToNextIdx(t, fileTime) ==
  IF t - fileTime > FileSecs \/ t < fileTime THEN -1 ELSE (t - fileTime) \div UnitSecs
TimeToEarlierIdx(t, fileTime) ==
  IF t - fileTime > FileSecs \/ t < fileTime THEN -1
  ELSE IF t - fileTime < 2 * UnitSecs THEN 0 ELSE (t - fileTime) \div UnitSecs - 2

(* time_to_idx_in_a_file_idx: -1 when the time is not in the file. *)
TimeToIdx(t, fileTime) ==
  LET diff == t - fileTime
      n == diff \div UnitSecs
  IN  IF diff > FileSecs \/ diff < 0 THEN -1
      ELSE (IF n < 1 THEN 1 ELSE n) - 1

-----------------------------------------------------------------------------
(* One iteration of save_record_frame, piece by piece; r is rec as the     *)
(* pieces before have left it.                                             *)

(* write_frame_to_file: curFileLen grows whether or not the write works;   *)
(* the buffer goes to the file when it is full.                            *)
PushFull(r) == r.fd = "open" /\ r.buf + 1 = BufBlocks
Push(r) ==
  [r EXCEPT !.len = @ + 1,
            !.buf = IF r.fd # "open" THEN @ ELSE IF PushFull(r) THEN 0 ELSE @ + 1]
PushPes(r) ==
  IF PushFull(r) THEN [pes EXCEPT ![r.file] = @ + BufBlocks] ELSE pes

(* av_push_frame may have a frame or none. *)
AfterFrame(got) == IF got THEN Push(rec) ELSE rec
PesAfterFrame(got) == IF got THEN PushPes(rec) ELSE pes

(* The end of a unit: 24:00 shows as 0 and counts only in the first unit   *)
(* of the new day.                                                         *)
UnitOver(r) == Now >= UnitEnd(r) /\ (UnitEnd(r) = 0 => Now < UnitSecs)
EndedUnit(r) ==
  IF UnitEnd(r) = 0 THEN UnitsPerFile - 1 ELSE TimeToIdx(UnitEnd(r), FileTime(r))
MarkUnit(r) ==
  LET i == EndedUnit(r)
  IN  IF ~UnitOver(r) THEN r
      ELSE [r EXCEPT !.unitTime = UnitEnd(r),
                     !.units = IF i \in UnitIdx
                               THEN [@ EXCEPT ![i] = [type |-> type, offset |-> r.len]]
                               ELSE @]

\* Mutant: the index is not saved while the file is open.
MinuteSaveNever(r) == FALSE
(* The index is saved when the last unit of a minute begins.               *)
MinuteSave(r) ==
  /\ UnitOver(r) /\ UnitEnd(r) # 0 /\ EndedUnit(r) \in UnitIdx
  /\ (UnitEnd(r) + UnitSecs) % MinSecs = 0

(* The end of the file's slot: the last slot of a day ends at 0 o'clock,   *)
(* which every time of day has passed.                                     *)
PastEnd(r)   == Now >= FileEnd(r)
SlotEnded(r) == PastEnd(r) /\ (FileEnd(r) = 0 => Now < UnitSecs)

(* What a pass finds at the clock: the slot is over, or has to be taken    *)
(* for past; else the loop goes on if there was a frame, or ends.          *)
LoopAfter(r, got) ==
  IF SlotEnded(r) THEN "over" ELSE IF PastEnd(r) THEN "past"
  ELSE IF got /\ pass.times < MaxTimes THEN "on" ELSE "last"

(* stop_rec on an open file: the buffer to the file, then the descriptor.  *)
\* Mutants: the buffer is counted down twice; it is not flushed; the
\* descriptor is closed but not forgotten; it is not even closed.
FlushedTwice(r) == [r EXCEPT !.buf = @ - 2 * BufBlocks]
PesUnflushed(r) == pes
ClosedStale(r) == [r EXCEPT !.fd = "stale"]
ClosedNot(r) == r
Flushed(r) == IF r.fd = "open" THEN [r EXCEPT !.buf = 0] ELSE r
PesFlushed(r) == IF r.fd = "open" THEN [pes EXCEPT ![r.file] = @ + r.buf] ELSE pes
Closed(r) == [r EXCEPT !.fd = "none", !.buf = 0]

(* check_and_stop_record: may the open file go on? *)
KeepsRecording ==
  /\ type \in {COMMON, ALARM}
  /\ InSchedule
  /\ type = ALARM => Alarmed /\ alarm.last + StopWindow >= Now

(* Mutant: the card is not looked at. *)
StartsUnchecked(valid) == type \in {COMMON, ALARM} /\ InSchedule

(* check_and_start_record: is a file wanted, and is there a card for it? *)
Starts(valid) ==
  /\ valid
  /\ type \in {COMMON, ALARM}
  /\ InSchedule
  /\ type = ALARM => Alarmed /\ alarm.last + StartWindow >= Now

-----------------------------------------------------------------------------
Init ==
  /\ clock = 0 /\ lag = 0 /\ synced = FALSE
  /\ reboot = FALSE /\ format = FALSE
  /\ cb = "idle" /\ main = "run" /\ exitAt = 0 /\ msgs = <<>>
  /\ card = TRUE /\ diskValid = TRUE /\ age = UploadSecs + 1
  /\ type \in Types /\ sched \in Schedules
  /\ alarm = FreshAlarm
  /\ pc = "idle" /\ pass = NoPass
  /\ rec = FreshRec /\ pes = <<>> /\ idx = <<>>
  /\ hist = [covered |-> {}, openedAt |-> 0, alarmAt |-> 0, offs |-> 2,
             torn |-> {}, pulled |-> {}, upsets |-> 0]

(* -- the environment ---------------------------------------------------- *)

(* What the history remembers of an upset, and of one that cuts a file off, *)
(* or the save of its index.                                               *)
MayUpset == hist.upsets < MaxUpsets
Upset(h) == [h EXCEPT !.upsets = @ + 1]
Unfinished == IF (rec.fd = "open" \/ pc \in {"cutting", "writing", "lost"})
                 /\ rec.file # NoFile
              THEN {rec.file} ELSE {}
Torn == [hist EXCEPT !.torn = @ \cup Unfinished]
Lost == [Torn EXCEPT !.offs = 2]

UnitAt(t) == <<t \div FileSecs, (t % FileSecs) \div UnitSecs>>

Tick ==
  /\ clock < MaxClock
  /\ (rec.fd # "none" /\ ~reboot /\ ~format) => lag < MaxLag
  /\ clock' = clock + 1
  /\ lag' = IF rec.fd # "none" /\ lag < MaxLag THEN lag + 1 ELSE lag
  /\ age' = IF age > UploadSecs THEN age ELSE age + 1
  /\ hist' = IF rec.fd = "open"
             THEN [hist EXCEPT !.covered = @ \cup
                     {u \in {UnitAt(clock + 1)} : u[1] = rec.file}]
             ELSE hist
  /\ UNCHANGED <<synced, reboot, format, cb, main, exitAt, msgs, card,
                 diskValid, type, sched, alarm, pc, pass, rec, pes, idx>>

(* The clock is set and syncTimeZoneFromIpc has found the time zone. *)
Sync ==
  /\ ~synced /\ main # "down"
  /\ synced' = TRUE
  /\ UNCHANGED <<clock, lag, reboot, format, cb, main, exitAt, msgs, card,
                 diskValid, age, type, sched, alarm, pc, pass, rec, pes, idx, hist>>

(* A new configuration reaches the task through set_record_type: the type  *)
(* first, the lists of periods behind it, while the task may decide in     *)
(* between; a disabled one leaves the lists as they were.                  *)
SetRecordType ==
  /\ "config" \in Events /\ main # "down"
  /\ type' \in Types
  /\ UNCHANGED <<clock, lag, synced, reboot, format, cb, main, exitAt, msgs, sched,
                 card, diskValid, age, alarm, pc, pass, rec, pes, idx, hist>>
SetRecordTimes ==
  /\ "config" \in Events /\ main # "down" /\ type # CLOSED
  /\ sched' \in Schedules
  /\ UNCHANGED <<clock, lag, synced, reboot, format, cb, main, exitAt, msgs, type,
                 card, diskValid, age, alarm, pc, pass, rec, pes, idx, hist>>

Send(m) == Len(msgs) < MaxMsgs /\ msgs' = Append(msgs, m)

callbackLeaves == <<clock, lag, synced, exitAt, card, diskValid, age, type,
                    sched, alarm, pc, pass, rec, pes, idx>>

(* ipc_alarm_callback, reboot or reset: the flag first, then the message,  *)
(* then the main loop is told to end.                                      *)
RebootFlag ==
  /\ "reboot" \in Events /\ cb = "idle" /\ main = "run" /\ ~reboot /\ MayUpset
  /\ reboot' = TRUE /\ cb' = "rebootNotify" /\ hist' = Upset(hist)
  /\ UNCHANGED callbackLeaves /\ UNCHANGED <<format, main, msgs>>
RebootNotify ==
  /\ cb = "rebootNotify" /\ main # "down"
  /\ Send("STOP_RECORDER")
  /\ cb' = "rebootLeave"
  /\ UNCHANGED callbackLeaves /\ UNCHANGED <<reboot, format, main, hist>>
RebootLeave ==
  /\ cb = "rebootLeave" /\ main # "down"
  /\ cb' = "idle"
  /\ main' = IF main = "run" THEN "leave" ELSE main
  /\ UNCHANGED callbackLeaves /\ UNCHANGED <<reboot, format, msgs, hist>>

(* ipc_alarm_callback, card format: the message first, then the flag. *)
FormatNotify ==
  /\ "format" \in Events /\ cb = "idle" /\ main # "down" /\ ~format /\ MayUpset
  /\ Send("STOP_RECORDER")
  /\ cb' = "formatFlag" /\ hist' = Upset(hist)
  /\ UNCHANGED callbackLeaves /\ UNCHANGED <<reboot, format, main>>
FormatFlag ==
  /\ cb = "formatFlag" /\ main # "down"
  /\ format' = TRUE /\ cb' = "idle"
  /\ UNCHANGED callbackLeaves /\ UNCHANGED <<reboot, main, msgs, hist>>
FormatDone ==
  /\ format /\ cb = "idle" /\ main # "down"
  /\ format' = FALSE
  /\ UNCHANGED callbackLeaves /\ UNCHANGED <<reboot, cb, main, msgs, hist>>

(* ipc_alarm_callback, motion detection reported on or off. *)
AlarmReport ==
  /\ "alarm" \in Events /\ cb = "idle" /\ main # "down"
  /\ \E m \in {"ALARM_ON", "ALARM_OFF"} : Send(m)
  /\ UNCHANGED callbackLeaves /\ UNCHANGED <<reboot, format, cb, main, hist>>


(* The card is pulled: the file that was open can no longer be written,    *)
(* nor the index that is being saved.                                      *)
CardRemoved ==
  /\ "card" \in Faults /\ card /\ MayUpset
  /\ card' = FALSE
  /\ rec' = IF rec.fd = "open" THEN [rec EXCEPT !.fd = "stale"] ELSE rec
  /\ pc' = IF pc = "writing" THEN "lost" ELSE pc
  /\ hist' = Upset([Torn EXCEPT !.pulled =
                      @ \cup IF rec.fd = "open" THEN {rec.file} ELSE {}])
  /\ UNCHANGED <<clock, lag, synced, reboot, format, cb, main, exitAt, msgs,
                 diskValid, age, type, sched, alarm, pass, pes, idx>>
CardInserted ==
  /\ ~card
  /\ card' = TRUE
  /\ UNCHANGED <<clock, lag, synced, reboot, format, cb, main, exitAt, msgs,
                 diskValid, age, type, sched, alarm, pc, pass, rec, pes, idx, hist>>

(* -- the life of the process -------------------------------------------- *)

(* The main loop finds an update or exit flag file and sleeps. *)
ExitBegins ==
  /\ "exit" \in Events /\ main = "run" /\ MayUpset
  /\ main' = "exiting" /\ exitAt' = clock + ExitSecs /\ hist' = Upset(hist)
  /\ UNCHANGED <<clock, lag, synced, reboot, format, cb, msgs, card, diskValid,
                 age, type, sched, alarm, pc, pass, rec, pes, idx>>

(* The process is gone, and with it all that was only in memory. *)
Dies ==
  /\ main' = "down"
  /\ rec' = FreshRec /\ alarm' = FreshAlarm /\ pc' = "idle" /\ pass' = NoPass
  /\ msgs' = <<>> /\ cb' = "idle" /\ lag' = 0 /\ exitAt' = 0
  /\ UNCHANGED <<clock, synced, reboot, format, card, diskValid, age, type,
                 sched, pes, idx>>

ExitEnds == main = "exiting" /\ clock >= exitAt /\ Dies /\ hist' = Lost
Leave    == main = "leave" /\ Dies /\ hist' = Lost
Crash    == /\ "crash" \in Faults /\ main # "down" /\ MayUpset
            /\ Dies /\ hist' = Upset(Lost)

(* A new process: regitster_recorder_task reads the card and the type. *)
Boot ==
  /\ "boot" \in Events /\ main = "down"
  /\ main' = "run"
  /\ synced' = FALSE /\ reboot' = FALSE /\ format' = FALSE
  /\ diskValid' = card /\ age' = UploadSecs + 1
  /\ UNCHANGED <<clock, lag, cb, exitAt, msgs, card, type, sched, alarm, pc,
                 pass, rec, pes, idx, hist>>

(* -- the recorder task -------------------------------------------------- *)

Up == main # "down"

(* on_recorder_timeout and check_and_start_record with no file open, up to *)
(* the flag tests of start_rec.                                            *)
PollStart ==
  /\ Up /\ pc = "idle" /\ rec.fd = "none"
  /\ ~reboot /\ ~format /\ synced
  /\ LET due == age > UploadSecs
     IN  /\ diskValid' \in IF ~due THEN {diskValid}
                           ELSE {card} \cup (IF "ipc" \in Faults THEN {diskValid} ELSE {})
         /\ age' = IF due THEN 0 ELSE age
  /\ pc' = IF Starts(diskValid') THEN "starting" ELSE "idle"
  /\ UNCHANGED envVars /\ UNCHANGED fileVars
  /\ UNCHANGED <<lag, msgs, alarm, pass, hist>>

(* start_rec, the disk is full and recycling it failed: nothing is opened  *)
(* but the caller is told that recording goes on.                          *)
StartSkipped ==
  /\ pc = "starting" /\ "full" \in Faults
  /\ pc' = "saving" /\ pass' = NoPass
  /\ UNCHANGED envVars /\ UNCHANGED fileVars
  /\ UNCHANGED <<lag, msgs, diskValid, age, alarm, hist>>

(* start_rec, the directory of the day cannot be made or the file of the   *)
(* slot exists but cannot be opened.                                       *)
StartFails ==
  /\ pc = "starting"
  /\ ~card \/ ("create" \in Faults /\ Slot \in DOMAIN pes)
  /\ pc' = "idle"
  /\ UNCHANGED envVars /\ UNCHANGED fileVars
  /\ UNCHANGED <<lag, msgs, diskValid, age, alarm, pass, hist>>

(* Mutants: a file that exists is continued from length zero, or with an   *)
(* empty index.                                                            *)
OpenedFromZero(fd) ==
  [fd |-> fd, file |-> Slot, unitTime |-> Now - (Now % UnitSecs),
   units |-> IF Slot \in DOMAIN pes \cap DOMAIN idx THEN idx[Slot] ELSE NoUnits,
   len |-> 0, buf |-> 0]
OpenedUnindexed(fd) ==
  [fd |-> fd, file |-> Slot, unitTime |-> Now - (Now % UnitSecs),
   units |-> NoUnits,
   len |-> IF Slot \in DOMAIN pes THEN pes[Slot] ELSE 0, buf |-> 0]

(* init_file_idx: a file that exists is continued with the index saved for *)
(* it; when that cannot be loaded the index starts again from nothing.     *)
OpenedRec(fd) ==
  LET known == Slot \in DOMAIN pes /\ Slot \in DOMAIN idx
  IN  [fd |-> fd, file |-> Slot, unitTime |-> Now - (Now % UnitSecs),
       units |-> IF known THEN idx[Slot] ELSE NoUnits,
       len |-> IF known THEN pes[Slot] ELSE 0, buf |-> 0]

(* open_record_files and the rest of start_rec.  A new file first loses an *)
(* index left from before; that creating it failed goes unnoticed.         *)
OpenFile ==
  /\ pc = "starting" /\ card
  /\ \E fd \in {"open"} \cup
               (IF "create" \in Faults /\ Slot \notin DOMAIN pes THEN {"none"} ELSE {}) :
       /\ rec' = OpenedRec(fd)
       /\ pes' = IF fd = "none" \/ Slot \in DOMAIN pes THEN pes
                 ELSE [f \in DOMAIN pes \cup {Slot} |-> IF f = Slot THEN 0 ELSE pes[f]]
       /\ hist' = IF fd = "none" THEN hist
                  ELSE [hist EXCEPT !.covered = @ \cup {UnitAt(clock)},
                                    !.openedAt = clock]
  /\ idx' = IF Slot \in DOMAIN pes THEN idx
            ELSE [f \in DOMAIN idx \ {Slot} |-> idx[f]]
  /\ alarm' = [alarm EXCEPT !.tag = clock % UnitSecs]
  /\ lag' = 0 /\ pc' = "saving" /\ pass' = NoPass
  /\ UNCHANGED envVars /\ UNCHANGED <<msgs, diskValid, age>>

(* on_recorder_timeout with a file open. *)
PollSave ==
  /\ Up /\ pc = "idle" /\ rec.fd # "none"
  /\ ~reboot /\ ~format /\ synced
  /\ pc' = "saving" /\ pass' = NoPass
  /\ UNCHANGED envVars /\ UNCHANGED fileVars
  /\ UNCHANGED <<lag, msgs, diskValid, age, alarm, hist>>

(* stop_rec begins; it does nothing when no file is open.                  *)
Stops(next) ==
  /\ pc' = IF rec.fd = "none" THEN next ELSE "stopping"
  /\ pass' = IF rec.fd = "none" THEN NoPass ELSE [pass EXCEPT !.loop = "last", !.then = next]

(* The task goes on at the top of the loop, behind the minute's save, or   *)
(* with its next poll or message.                                          *)
GoesOn(next) ==
  /\ pc' = next
  /\ pass' = CASE next = "saving"   -> [NoPass EXCEPT !.times = pass.times + 1]
               [] next = "checking" -> [pass EXCEPT !.then = "idle"]
               [] OTHER             -> NoPass

(* save_record_frame gives up: a flag was raised while it ran. *)
SaveAborts ==
  /\ pc = "saving" /\ (reboot \/ format)
  /\ Stops("idle")
  /\ UNCHANGED envVars /\ UNCHANGED fileVars
  /\ UNCHANGED <<lag, msgs, diskValid, age, alarm, hist>>

(* The loop up to the test of the slot: a frame or none, the unit; at the  *)
(* end of a minute the index is saved.                                     *)
SavePass ==
  /\ pc = "saving" /\ ~reboot /\ ~format
  /\ \E got \in IF rec.fd # "none" /\ rec.len < MaxBlocks THEN BOOLEAN ELSE {FALSE} :
       LET r == MarkUnit(AfterFrame(got))
           minute == MinuteSave(AfterFrame(got))
       IN  /\ rec' = r
           /\ pes' = PesAfterFrame(got)
           /\ pc' = IF minute THEN "cutting" ELSE "checking"
           /\ pass' = [pass EXCEPT !.loop = LoopAfter(r, got),
                                   !.then = IF minute THEN "checking" ELSE "idle"]
           /\ lag' = IF SlotEnded(r) /\ rec.fd = "open" THEN lag ELSE 0
  /\ UNCHANGED idx /\ UNCHANGED envVars
  /\ UNCHANGED <<msgs, diskValid, age, alarm, hist>>

(* The end of the loop: a slot that is over is stopped; in one that runs   *)
(* check_and_stop_record is asked, which stops the file as well, and only  *)
(* when the type is common tells the loop to go on.                        *)
Checked == pass.loop \in {"on", "last"} /\ rec.fd # "none"
AfterStop ==
  IF pass.loop # "on" THEN "idle" ELSE IF type = COMMON THEN "saving" ELSE "failed"

CheckPass ==
  /\ pc = "checking"
  /\ IF pass.loop = "over" THEN Stops("idle")
     ELSE IF Checked /\ diskValid /\ ~KeepsRecording THEN Stops(AfterStop)
     ELSE GoesOn(IF pass.loop = "on" THEN "saving" ELSE "idle")
  /\ rec' = IF Checked /\ ~diskValid THEN [rec EXCEPT !.fd = "stale"] ELSE rec
  /\ UNCHANGED envVars
  /\ UNCHANGED <<lag, msgs, diskValid, age, alarm, pes, idx, hist>>

(* What stop_rec or the minute's save returns to.  When check_and_stop_    *)
(* record has closed a file and means the loop to end, it tells it to go   *)
(* on if stop_rec reports a failure; and close_record_files ends without a *)
(* return statement, so of a file it has closed it may report one.         *)
Returns ==
  \E next \in IF pass.then = "failed" THEN {"saving", "idle"} ELSE {pass.then} :
    GoesOn(next)

(* stop_rec, record_async_data_buff: the write buffer to the file. *)
Flush ==
  /\ pc = "stopping"
  /\ rec' = Flushed(rec) /\ pes' = PesFlushed(rec)
  /\ pc' = "closing"
  /\ UNCHANGED envVars
  /\ UNCHANGED <<lag, msgs, diskValid, age, alarm, pass, idx, hist>>

(* close_record_files up to the save: without the card the directory of    *)
(* the day cannot be made and the file stays open.                         *)
CloseFile ==
  /\ pc = "closing"
  /\ IF card THEN rec' = Closed(rec) /\ pc' = "cutting" /\ UNCHANGED pass
     ELSE /\ UNCHANGED rec
          /\ GoesOn(IF pass.then = "failed" THEN "saving" ELSE pass.then)
  /\ UNCHANGED envVars
  /\ UNCHANGED <<lag, msgs, diskValid, age, alarm, pes, idx, hist>>

(* save_rec_units, open with O_TRUNC: what the idx file held is gone, and  *)
(* load_rec_units makes no difference between an empty file and none.      *)
CutIdx ==
  /\ pc = "cutting"
  /\ IF card /\ rec.file # NoFile
     THEN /\ idx' = [f \in DOMAIN idx \ {rec.file} |-> idx[f]]
          /\ pc' = "writing" /\ UNCHANGED pass
     ELSE Returns /\ UNCHANGED idx
  /\ UNCHANGED envVars
  /\ UNCHANGED <<lag, msgs, diskValid, age, alarm, rec, pes, hist>>

(* save_rec_units, write: the whole index. *)
WriteIdx ==
  /\ pc = "writing"
  /\ idx' = [f \in DOMAIN idx \cup {rec.file} |->
               IF f = rec.file THEN rec.units ELSE idx[f]]
  /\ Returns
  /\ UNCHANGED envVars
  /\ UNCHANGED <<lag, msgs, diskValid, age, alarm, rec, pes, hist>>

(* The card is gone or does not take the index.  Nobody looks at the       *)
(* result of save_rec_units.                                               *)
WriteFails ==
  /\ pc = "lost" \/ (pc = "writing" /\ "card" \in Faults)
  /\ hist' = Torn
  /\ Returns
  /\ UNCHANGED envVars /\ UNCHANGED fileVars
  /\ UNCHANGED <<lag, msgs, diskValid, age, alarm>>

(* on_recorder_handler_msg, a stop request. *)
HandleStop ==
  /\ Up /\ pc = "idle" /\ msgs # <<>> /\ Head(msgs) = "STOP_RECORDER"
  /\ msgs' = Tail(msgs)
  /\ Stops("idle")
  /\ UNCHANGED envVars /\ UNCHANGED fileVars
  /\ UNCHANGED <<lag, diskValid, age, alarm, hist>>

(* Mutant: the first "off" already clears the alarm. *)
AlarmClearedAtOnce(on) ==
  IF on THEN [lo |-> TRUE, tag |-> 0, cnt |-> TRUE, last |-> Now]
  ELSE [alarm EXCEPT !.lo = FALSE, !.tag = 0, !.cnt = FALSE]

(* on_recorder_handler_msg, an alarm: the first "off" after an "on" keeps  *)
(* the alarm, the next one clears it.                                      *)
AlarmAfter(on) ==
  IF on THEN [lo |-> TRUE, tag |-> 0, cnt |-> TRUE, last |-> Now]
  ELSE IF alarm.cnt THEN [alarm EXCEPT !.lo = TRUE, !.cnt = FALSE]
  ELSE [alarm EXCEPT !.lo = FALSE, !.tag = 0]

HandleAlarm ==
  /\ Up /\ pc = "idle" /\ msgs # <<>> /\ Head(msgs) # "STOP_RECORDER"
  /\ msgs' = Tail(msgs)
  /\ LET on == Head(msgs) = "ALARM_ON"
     IN  /\ alarm' = AlarmAfter(on)
         /\ hist' = IF on THEN [hist EXCEPT !.alarmAt = clock, !.offs = 0]
                    ELSE [hist EXCEPT !.offs = IF @ < 2 THEN @ + 1 ELSE @]
  /\ UNCHANGED envVars /\ UNCHANGED fileVars
  /\ UNCHANGED <<lag, diskValid, age, pc, pass>>

Task == \/ PollStart \/ StartSkipped \/ StartFails \/ OpenFile
        \/ PollSave \/ SaveAborts \/ SavePass \/ CheckPass
        \/ Flush \/ CloseFile \/ CutIdx \/ WriteIdx \/ WriteFails
        \/ HandleStop \/ HandleAlarm
Callback == \/ RebootFlag \/ RebootNotify \/ RebootLeave
            \/ FormatNotify \/ FormatFlag \/ FormatDone \/ AlarmReport
Process == ExitBegins \/ ExitEnds \/ Leave \/ Crash \/ Boot
Env == Tick \/ Sync \/ SetRecordType \/ SetRecordTimes \/ CardRemoved \/ CardInserted

Next == Task \/ Callback \/ Process \/ Env

Spec == Init /\ [][Next]_vars

(* The task polls as long as the process lives, its event loop serves the  *)
(* message queue between polls, and the callback thread finishes what it   *)
(* began.  Nothing is assumed of the environment.                          *)
Fairness ==
  /\ WF_vars(PollStart) /\ WF_vars(OpenFile) /\ WF_vars(StartFails)
  /\ WF_vars(PollSave) /\ WF_vars(SaveAborts) /\ WF_vars(SavePass)
  /\ WF_vars(CheckPass) /\ WF_vars(Flush) /\ WF_vars(CloseFile)
  /\ WF_vars(CutIdx) /\ WF_vars(WriteIdx \/ WriteFails)
  /\ SF_vars(HandleStop)
  /\ WF_vars(RebootNotify) /\ WF_vars(RebootLeave) /\ WF_vars(FormatFlag)

FairSpec == Spec /\ Fairness
-----------------------------------------------------------------------------
(* Every variable keeps to the values the code gives it. *)
TypeOK ==
  /\ clock \in Nat /\ lag \in Nat /\ age \in Nat /\ exitAt \in Nat
  /\ synced \in BOOLEAN /\ reboot \in BOOLEAN /\ format \in BOOLEAN
  /\ card \in BOOLEAN /\ diskValid \in BOOLEAN
  /\ cb \in {"idle", "rebootNotify", "rebootLeave", "formatFlag"}
  /\ main \in {"run", "leave", "exiting", "down"}
  /\ msgs \in Seq(Msgs)
  /\ type \in Types /\ sched \in Schedules
  /\ alarm \in Alarms
  /\ pc \in {"idle", "starting", "saving", "checking", "stopping", "closing",
             "cutting", "writing", "lost"}
  /\ pass \in Passes
  /\ rec \in Recs
  /\ DOMAIN pes \subseteq Nat /\ pes \in [DOMAIN pes -> Nat]
  /\ DOMAIN idx \subseteq Nat /\ idx \in [DOMAIN idx -> Units]
  /\ hist \in Hists

(* A recording starts within a period the user has configured, for the day *)
(* it starts in or, past midnight, for the day before: a period over       *)
(* midnight takes nothing of the morning of its own day.                   *)
StartsInPeriod == [][PollStart /\ pc' = "starting" => InPeriod(sched, clock)]_vars

(* g_disk_valid is asked for again only while no file is open, and the     *)
(* answer decides about the next file: as long as a file is open, or about *)
(* to be, the task believes in the card, however often it was pulled.      *)
RecFdNeedsDisk == (rec.fd # "none" \/ pc = "starting") => diskValid

(* ipc_alarm_callback raises the reboot flag before it posts the stop      *)
(* message, so once the task has served the message no file is open, and   *)
(* no poll that was under way opens one behind it.                         *)
RebootQuiesces ==
  /\ reboot /\ cb # "rebootNotify" /\ pc = "idle"
  /\ \A i \in 1 .. Len(msgs) : msgs[i] # "STOP_RECORDER"
  => rec.fd # "open"

(* A file outlives its slot by less than one poll, over midnight too, where *)
(* its end is 0 o'clock and every time of day looks later.                 *)
FileWindow ==
  rec.fd = "open" /\ ~reboot /\ ~format
    => clock < (rec.file + 1) * FileSecs + MaxLag

(* curFileLen, the value the index stores, is what the file holds and what *)
(* waits in the write buffer for it, also in a file that is continued.     *)
CurLenIsFileSize ==
  rec.fd = "open" /\ rec.file \notin hist.torn
    => rec.len = pes[rec.file] + rec.buf

(* An index on the card never points beyond what its file holds, or will   *)
(* hold when the write buffer is flushed; when the process ended with the  *)
(* file open, beyond its end by less than the buffer that was lost.  Only  *)
(* of a file on a card that was pulled frames are counted that no file     *)
(* gets.                                                                   *)
Ahead(f) ==
  IF f \in hist.torn THEN BufBlocks - 1
  ELSE IF rec.fd = "open" /\ rec.file = f THEN rec.buf ELSE 0
IndexInFile ==
  \A f \in (DOMAIN idx \cap DOMAIN pes) \ hist.pulled :
    \A i \in UnitIdx : idx[f][i].offset <= pes[f] + Ahead(f)

Monotone(units) ==
  \A i, j \in UnitIdx :
    i < j /\ units[i].type # CLOSED /\ units[j].type # CLOSED
      => units[i].offset <= units[j].offset

(* Later units start later in the file, through stops, restarts and saves. *)
IndexOrdered ==
  /\ \A f \in DOMAIN idx \ hist.torn : Monotone(idx[f])
  /\ rec.file \notin hist.torn => Monotone(rec.units)

(* A unit the index shows as recorded is one in which its file was open.   *)
MarkedMeansRecorded ==
  \A f \in DOMAIN idx : \A i \in UnitIdx :
    idx[f][i].type # CLOSED => <<f, i>> \in hist.covered

(* While a file is open no unit whose end it saw is missing in its index.  *)
IndexComplete ==
  rec.fd = "open" /\ ~reboot /\ ~format =>
    \A i \in UnitIdx :
      LET end == rec.file * FileSecs + (i + 1) * UnitSecs
      IN  hist.openedAt < end /\ end <= clock - lag => rec.units[i].type # CLOSED

(* What the index of a file shows as recorded stays as it is through every *)
(* save, crash, continued file and pulled card: it is taken from the card  *)
(* only to be written again, and only while the task holds all of it.      *)
Shows(units, x) == \A i \in UnitIdx : x[i].type # CLOSED => units[i] = x[i]
IndexOnlyGrows ==
  [][\A f \in DOMAIN idx \cap DOMAIN pes :
       \/ f \in DOMAIN idx' /\ Shows(idx'[f], idx[f])
       \/ pc' = "writing" /\ f = rec.file /\ Shows(rec.units, idx[f])]_idx

(* While motion is reported, and after its end until the alarm is          *)
(* StopWindow old, the file stays open: a single "off", however soon it    *)
(* follows, does not cut the recording short.                              *)
AlarmKeepsFile ==
  [][CheckPass /\ rec.fd = "open" /\ pc' = "stopping"
     /\ type = ALARM /\ InSchedule /\ clock < (rec.file + 1) * FileSecs
       => clock - hist.alarmAt > StopWindow \/ hist.offs > 1]_vars

(* Once a reboot is announced the recording ends for good. *)
RebootEndsRecording == reboot ~> [](rec.fd # "open")

(* Whatever stopped it, a format or the end of a slot, recording resumes   *)
(* while the configuration asks for it and nothing forbids it.             *)
Wanted ==
  /\ main # "down" /\ synced /\ ~reboot /\ ~format /\ card /\ diskValid
  /\ type = COMMON /\ InSchedule
RecordingResumes == <>[]Wanted => []<>(rec.fd = "open")

(* The index as those who read it see it: the units it shows, on the card   *)
(* and in memory.  An index without its pes file is not read.              *)
ShownUnits(f, units) ==
  {[file |-> f, unit |-> i, type |-> units[i].type, offset |-> units[i].offset] :
     i \in {j \in UnitIdx : units[j].type # CLOSED}}
CardUnits == UNION {ShownUnits(f, idx[f]) : f \in DOMAIN idx \cap DOMAIN pes}

Recordings == INSTANCE Archive WITH
  MinuteUnits <- UnitsPerMinute, FileUnits <- UnitsPerFile,
  now <- clock, file <- rec.file, saving <- (pc = "writing"),
  held <- ShownUnits(rec.file, rec.units), kept <- CardUnits

(* The task implements the archive: each unit is shown once, when it is     *)
(* over, and stays; opening a file loses at most one unit, which ended     *)
(* between the last two passes of save_record_frame.  The end of the       *)
(* process loses at most a minute of them, unless it comes between the two *)
(* calls of a save: then all of the file.                                  *)
KeepsArchive == Recordings!Spec
=============================================================================
