# Verification of the recorder application

The recorder application of an IP camera records the camera's streams to an SD
card and plays recordings back to clients. This directory models it in TLA+,
checks the models with TLC and proves theorems about them with TLAPS. Every
definition follows the C sources under `src/src` and `src/include`; the lines
each one stands for are listed in `PROJECT.json` (`map`).

## 1. Inventory

| component | source | state | operations |
|---|---|---|---|
| recorder task | `recorder_utils.c` | `g_recorder_status` (descriptor, index of the open file, alarm status, recording type), `g_disk_valid`, `uploadTime` | poll (`on_recorder_timeout`), start (`check_and_start_record`, `start_rec`, `open_record_files`), save (`save_record_frame`), stop (`check_and_stop_record`, `stop_rec`, `close_record_files`), messages (`on_recorder_handler_msg`), `set_record_type`, `check_record_time` |
| write buffer and stream file | `av_packet_ps.c` | `wr_buf`, PES files | `record_write_data_buff`, `record_async_data_buff`, reading and seeking |
| main loop and alarm callback | `sepcam_recorder.c` | `recorder_process_run`, reboot flag, format status | `ipc_alarm_callback`, exit on a flag file, self check of the card |
| unit list queries | `recorder_utils.c` 2108-2520 | one day's units, joined from its idx files | lists of recordings and alarms, offset by time, next file by time |
| disk manager | `disk_mgr.c` | the directories on the card | `need_recycle_disk`, `recycle_disk_del_day_dir` |
| playback server | `recorder_server.c` | three slots, one per session | PLAY, STOP, SEEK, SPEED requests, destruction of a client, configuration, page list |
| playback thread | `playback_task.c` | its slot, its descriptor, the list of times sent | read, pace, send, end of file, end |
| PES codec | `recorder_es2pes.c` | none | `recorder_es2pes`, `recorder_parser_pes_info` |
| record configuration | `recorder_params.c` | the configuration and its file | get, set, validate, defaults, load, save |
| file lists | `file_list.c` | legacy lists, mostly not called | `listVideoFileInDir` (for the self check) |

How they interact. One event-loop thread runs the recorder task: a timer polls it,
other threads post messages to it. The IPC library's thread runs
`ipc_alarm_callback`, which raises flags the task reads, posts messages and tells
the main loop to end. The configuration server calls `set_record_type` from its
own thread. The playback server starts a thread for each session and shares the
session's slot with it; the thread and the recorder task meet on the card only
(idx files, and the deletion of old days) and in the descriptors of the process,
which all of them share.

What is hard here: the reboot and format flags race with the poll of the task;
`g_disk_valid` may be ten seconds old; a file that is stopped is *continued*
when recording starts again in its slot, from an index saved at most once a
minute, and saved by truncating its file and writing it anew; every comparison is
of times of day, and the last slot of a day ends at 0 o'clock; the process may exit
or die with a file open, or in the middle of a save; the lists of recordings read
files and memory without a lock while the recorder task changes both; a playback
thread and
the server change the same slot and the same descriptor, the slot under a lock
that covers single regions only and the descriptor without one. `PROJECT.json`
(`hazards`) lists each at its line.

What makes each component correct:

- recorder task: a file holds its slot and no more; the index agrees with the
  file, is complete, ordered and never points further than the file and its write
  buffer; what an index on the card shows is taken from it only by a save that
  holds all of it; a reboot leaves no file open; recording resumes whenever it is
  wanted.
- disk manager: enough space is freed, oldest days first, never the current one.
- unit list queries: segments of a day are exactly the runs of marked units,
  over any number of pages and while recording goes on, up to what two threads
  without a lock lose between them.
- playback: each session has one thread, a stop ends it unless a seek that was
  asked for after it revives it, a jump leaves nothing of the old position behind,
  frames are sent in the order of time, and a session ends.
- pes files and their reader: frames come out as they went in; a tear costs no
  more than the length that the header at it claims, and a jump arrives at the
  frame that is wanted, neither too early nor past it.
- configuration: an invalid one is refused and leaves the old one in force; a
  load returns what was saved.
- self check of the card: a format is asked for if other files fill the card,
  and not for the sake of the recordings.

## 2. Plan

Modules, in the order they are written:

1. `RecorderTask` (done): task, callback, main loop and card. It comes first
   because everything else reads what it writes.
2. `Playback` (done): slots, requests, threads, the list of frames and the
   descriptors; `PlaybackSessions`, the promise to clients it implements.
3. `DiskRecycle` (done): days on the card, recycling, against the rule "oldest
   first, until enough is free".
4. `Schedule` (done, part of the `RecorderTask` runs): `check_record_time`
   against the meaning of a period in absolute time.
5. `UnitList` (done): a client that pages through a day while it is recorded.
6. `RecordConfig` (done): requests, factory files, restarts and upgrades.
7. `PesReader` (done): a file that grows and tears, and those who read it.
8. `CardCheck` (done): the self check of the card beside `DiskRecycle`, which it
   extends and implements.
9. `Archive` (done): an abstract archive (units are recorded once, when they are
   over, and shown for good but for the moment of a save) that `RecorderTask`
   implements, crashes included.

Runs: one for each question; twelve in all, two of them showing where the code
departs from its comments. Every safety property the runs check has its theorem,
and so has each of the refinements, but for two about a session that nobody
disturbs (section 6). What is left to TLC alone is liveness.

## 3. Modules

### Recording

- `RecorderTask.tla` - the model. Time is a count of seconds; `Now` is the time of
  day the code compares, `Slot` the ten-minute slot a file is named after. `rec`
  is the part of `g_recorder_status` that describes the open file: its descriptor
  (`none`; `open`; `stale`, set but no longer naming the file), its slot, the
  begin of the current unit, the index, `curFileLen`, and the fill of the write
  buffer. `pass` is the pass of the loop of `save_record_frame` that is under way:
  its number, what it found at the clock, and where the task goes on when a stop
  or a save is done. `pes` and `idx` are the files on the card. `hist` remembers
  what the properties ask for and no step reads, apart from the count of upsets
  that bounds the runs.
- `Schedule.tla` - `check_record_time` on lists of one period a day, and what a
  period means in absolute seconds (`InPeriod`). `RecorderTask` instantiates it
  with its own length of a day; `sched` is the configured set of lists.
- `Archive.tla` - the abstract specification: units end one after the other, are
  held, and are kept once saved. Whoever opens a file goes on with what is
  kept of it. `RecorderTask` implements it with `ShownUnits`, the units that an
  index does not mark as CLOSED, of the index in memory (held) and of those on
  the card whose file exists (kept); a save is two steps, `Cut` and `Save`, as in
  `save_rec_units`. What may be lost is in two guards: at most one unit when a
  file is opened, and when the process ends fewer than a minute has - or, if it
  ends between `Cut` and `Save`, all of the file.
- `MCRecorderTask.tla` - schedules for days of a few seconds.
- `RecorderClaims.tla` - what a comment says and the schedule does not keep.
- `RecorderTaskProofs.tla` - the theorems about control, types and lengths;
  `RecorderFileProofs.tla`, which extends it, those about a file and its slot;
  `RecorderIndexProofs.tla`, which extends that, those about the index.

Actions and code:

| action | code |
|---|---|
| `PollStart`, `PollSave` | `on_recorder_timeout`, first half of `check_and_start_record` |
| `StartSkipped`, `StartFails`, `OpenFile` | `start_rec`, `open_record_files`, `init_file_idx` |
| `SavePass`, `SaveAborts` | one pass of the loop of `save_record_frame` up to the test of the slot: a frame, the unit, the index of a minute |
| `CheckPass` | its end: the slot, `g_disk_valid`, `check_and_stop_record` |
| `Flush`, `CloseFile` | `stop_rec`: `record_async_data_buff`, `close_record_files` |
| `CutIdx`, `WriteIdx`, `WriteFails` | `save_rec_units`: `open` with `O_TRUNC`, `write` |
| `HandleStop`, `HandleAlarm` | `on_recorder_handler_msg` |
| `RebootFlag`, `RebootNotify`, `RebootLeave`, `FormatNotify`, `FormatFlag`, `FormatDone`, `AlarmReport` | `ipc_alarm_callback`, one statement each where the order matters |
| `ExitBegins`, `ExitEnds`, `Leave`, `Crash`, `Boot` | main loop, end and start of the process |
| `SetRecordType`, `SetRecordTimes`, `Sync` | `set_record_type`, the type and behind it the lists; `syncTimeZoneFromIpc` |
| `Tick`, `CardRemoved`, `CardInserted` | the environment |

Where threads can interleave, a step ends: between the test of the flags in
`start_rec` and the opening of the file, between two passes of the loop, between
the statements of the callback, and between flushing, closing, truncating and
writing when a file is stopped or its index saved: a crash, an exit, a pulled
card, a change of the configuration may come there.

Abstractions. A frame is a block of one unit of length, video and audio alike;
headers, time stamps, logging and the `alarmed` byte of a unit are left out.
`close_record_files` ends without a `return`, so what `stop_rec` reports after
closing a file is arbitrary, as the compiled program's result is. The end of
the unit is computed anew in each pass, where the code keeps it in a local
variable during one call; the two differ only in a call that lasts longer than
a unit. A failed write of frames is not modelled apart from a pulled card, and
neither is a failing `fstat` of a descriptor just opened (1102), after which the
code keeps the number of a descriptor it has closed. An idx file that was
truncated and not written is no idx file, for `load_rec_units` makes no difference
between the two. `FormatDone` takes nothing off the card: what a format erases is
up to the device, and an empty card is an initial state. `SetRecordTimes` changes
all lists at once: that the task sees the new type with the old lists is
modelled, that it sees one half of the lists changed is in `RecordConfig` only,
where the fields are copied one by one but nobody decides by them in between.

### Playback

- `Playback.tla` - the server, which serves one request at a time (`srv`), the
  table `gAVRecorderServ` (`slot`), the threads with their local variables
  (`thr`), the descriptors of the process (`fds`) and the streams to the
  clients (`shm`). `sent` and `seen` are history, `requests` counts requests to
  bound the runs.
- `PlaybackSessions.tla` - the abstract specification: the stages of a session
  as its client sees them, and the seek that is being served. A stop is undone by
  nothing but such a seek, and by it once. `Playback` implements it with `Stage`
  and `Seeking`: a slot is free without its flag, claimed without a thread,
  stopping while its status is STOP or its thread ends because it has taken
  one, playing otherwise; a seek is asked for from the server's look at the
  slot to its last change of it. A stop that has been taken cannot be lost in the
  slot: `thread_PlayBack_serv` copies the status and sets it back in one locked
  region (706-709), so from then on the thread alone has it.
- `MCPlayback.tla` - orders of frames and bounds of requests.
- `PlaybackProofs.tla` - the theorems.

| action | code |
|---|---|
| `PlayOpen`, `PlayClaim`, `PlayPass`, `PlayRefused`, `PlayStart` | `IPCServer_PlayRecordReq` for PLAY, with `find_av_recorder_serv_valid` and `create_av_recorder_shm` |
| `Command`, `SetStop`, `SetSpeed` | STOP and SPEED |
| `SeekTake`, `SeekClose`, `SeekOpen`, `SeekSet` | SEEK, one step for each region of the lock and each call on the descriptor |
| `Destroy` | `recorder_server_event_destroy_cb` |
| `Top` | the region at the head of the loop of `thread_PlayBack_serv` |
| `Jump`, `JumpFails` | `record_seek`, `clear_playTime` |
| `Read` | a frame read, `insert_and_pop_playTime` |
| `ReadEnd`, `EofClose`, `EofOpen`, `EofLast`, `EofSet` | end of a file, `get_next_file_time_by_time`, the next file |
| `Poll`, `WaitOver` | the wait for the time of a frame |
| `Write`, `WriteFull` | `write_frame2shm` |
| `End`, `Last` | the end of the thread |
| `OtherOpens`, `OtherCloses` | any other thread of the process |

A step of the server or of a thread is one region of the slot's lock or one
call on a descriptor outside of it. Two pairs of regions are one step: the new
thread's first copy of the descriptor belongs to `PlayStart` (the thread copies
it again with its first look at the slot, since the seek flag is set), and the
visits of `Destroy` to the slots are one step, since no thread looks at another
thread's slot.

Abstractions. A frame is its time; how frames are stored is `Order`, the order
in time of the frames of a file. Waits last any length. The pause command is
never sent by the server and is left out, and so is the branch for an offset
below zero, which `get_offset_by_time` never returns. `Zero` is the command that
the value 0 stands for, which the code writes into a status it has taken: the
runs use a value of its own, the theorems hold for `"PLAY"` too. That a freed
frame may be freed again when a stop meets a filling list is not modelled; it
is listed in `hazards`.

### Room on the card

- `DiskRecycle.tla` - the directories of days (`days`) and months (`dirs`), and
  one call of `recycle_disk_del_day_dir` with its local variables (`call`), which
  `start_rec` makes when there is no room. `MCDiskRecycle.tla` - a small card.
  `DiskRecycleProofs.tla` - the theorems.

| action | code |
|---|---|
| `Start`, `OpenFile` | `start_rec` |
| `EmptyMonth`, `PairedMonth`, `SingleMonth`, `MonthsOver` | `get_month_dir` |
| `DeleteDay`, `EndMonth` | `get_day_dir` |
| `Midnight` | the date changes |

The two pointers to the next entry are kept as indices: behind the last month
the pointer is stale and names the same month again, so that its days are listed
twice; behind the last day of a month it points to the entry before or, once
the list has been freed, to memory whose content is arbitrary (`Dangling`): it
may compare equal, and name a directory of the list that now lies there.
Sorting is any order by time, since the order among equals depends on the file
system. A day fills one unit of the card whatever its length; a tree need not
be on the card (by default the alarm tree is not). Directories whose names are
no numbers are left out.

- `CardCheck.tla` - the self check at the start of the process, in the main thread,
  beside the recorder task, which already runs. It extends `DiskRecycle`: every
  step of the task may fall between two of the check.

| action | code |
|---|---|
| `BeginCheck` | `self_check_sdcard`: the status of the card is asked for |
| `ReadMonth` | `check_sdcard_recorder`, one month; `listVideoFileInDir` for its days |
| `EndCheck` | the comparison with the tolerance, `gSDCardStatus` |

A month is read in one step and a day fills one unit. `disturbed` is
history: the card held recordings the check does not look at, or changed under
it, or held more days than the array of the check.

### Lists of recordings

- `UnitList.tla` - a day's units on the card (`card`) and the open file's index
  in memory (`mem`), the server's one copy of a day (`srv`) and a client that asks
  for one page after the other (`client`). `UnitListProofs.tla` - the theorems.

| action | code |
|---|---|
| `OpenFile`, `OpenStep` | `open_record_files`, `init_file_idx`: the index in memory becomes that of another file, in two steps |
| `MarkUnit`, `Tick` | `save_record_frame`; the clock |
| `CutUnits`, `SaveUnits` | `save_rec_units`: `open` with `O_TRUNC`, `write` |
| `Ask` | a client's first request for a day |
| `LoadFiles`, `LoadFile`, `LoadFails` | `load_rec_units_a_day`: the idx files, one after the other |
| `TestDate`, `ReadTime`, `CopyUnits` | its end: is the day today, `fileTime_s` of the index in memory, its units |
| `OnlyFiles` | the same for a day that is not today |
| `ScanUnit` | one pass of the loop of `get_record_list_in_a_day` and `get_alarm_list_in_a_day` |
| `Respond` | the segment that is still open, and the response |

The task and the server share files and memory and no lock, so the recorder's
steps come between all of the server's. The server may find an idx file empty
while it is being saved; it may find the new `fileTime_s` with the units of the
file before (a new file: 337 or 350 comes before 364), or the new units with the
old `fileTime_s` (a continued file: 1027 before 1037), or either of them half
changed: `TimesSeen` and `UnitsSeen` are what it can read in each of these
states. Nor does the code remember of which day the index in memory is. `phantom`
is history: the slots such an index was laid over, by which they show what is
not there and hide what is (`Foreign`), and the units that were lost. `due` is
what had been recorded when the client asked, less what is phantom and what the
files did not hold when they were read (`unsaved`) and memory did not supply.

Marking a unit is one step, for its type is written last (807-809). Once the
server has its copy, its loop reads nothing else: the recorder's steps are taken
to come behind the loop, which gives the same lists and far fewer states. The
recorder task is the one of `Archive` in one process: units are marked in order
and none that was over when the file was opened, and before another file is opened
the index is saved, but for at most one unit (section 7). Pes and idx files come
in pairs here, and no write fails. A process that ends takes the server and its
client with it; what is on the card then, after a save that was cut short too,
is an initial state.

### Configuration

- `RecordConfig.tla` - the factory files (`factory`), the configuration file
  (`file`), the configuration in memory (`mem`), the copy the recorder task
  decides by (`recType`), the day that is being copied (`day`) and where the
  process is (`pc`). `MCRecordConfig.tla` - requests and factory files;
  `RecordConfigProofs.tla` - the theorems.

| action | code |
|---|---|
| `ReplaceFile` | `replace_default_cfg_file` |
| `LoadCfg`, `LoadFails` | `init_record_info`, `load_record_info`, `set_record_default_info` |
| `StartTask` | `set_record_type` before there is a recorder task |
| `SetType`, `CopyList`, `CopyDay`, `CopyTime` | `set_record_type`, called by the server: the type, then the lists, each field of a day by itself |
| `SetCfg` | `IPCMsgSetRecordCfg`, `dev_set_record_cfg` |
| `SaveCfg`, `SaveCfgFails` | `save_record_info`, whose result is not looked at |
| `ProcessEnds`, `Upgrade` | the environment |

The three lists of periods are checked, stored and copied alike: one stands for
them, and one period for the two of a day. Cards and automatic deletion are
left out. A write that fails leaves the file as it was. Factory files hold valid
periods, since nothing checks them.

### Pes files

- `PesReader.tla` - a file (`disk`) that grows by whole write buffers (`buf`), a
  playback that reads it (`rd`), and jumps. `MCPesReader.tla` - lengths and times;
  `PesReaderProofs.tla` - the theorems.

| action | code |
|---|---|
| `WriteFrame` | `wirte_es2pes_packet`, `recorder_es2pes`, `record_write_data_buff` |
| `WriteBuf`, `StopRecord` | flushing of the buffer, `record_async_data_buff` |
| `Crash` | the process ends: the buffer is lost, the file torn |
| `FindsHead`, `FindsNoHead` | `seek_pes_head`, `recorder_parser_pes_info` |
| `ReadsBody` | `read_pes2es_packet_frame`, the chunks of a body |
| `Jump` | `record_seek`, `seek_frame_whence`, `find_pes_head_from_buf`, `seek_frame_by_secs` |

A file is a sequence of cells that say of which frame they are and which part.
The first cell of a frame is its start code with the stream id; the bits of the
header are not modelled, its time is, with both of its roundings. Only recorded
data is looked at, none that imitates a start code. A header that is cut
may hold any time and claim any length up to `TornLen`, or none: what lies there
is of another frame or of the stack, and 32 bits of it are taken for a length. Both the
reading and the search of a jump take such a header for one if it parses
(`TornHead`, `TornIn`). A body that is cut by the end of the file is delivered only if
the cut lies in its last chunk (`LastCut`); otherwise the next chunk is missing,
and the frame with it. A call reads the file as it is; a jump is one step, since the
file behind it only grows.

## 4. Runs

For recording, the lengths are small but every ratio that matters is there: a file
has two units, a day two (or three) files, a buffer two blocks, so that the middle
and the end of a file, the end of a day, and a full and a half-full buffer all
occur. In `core` a file has three units and a minute two, so that a minute ends in
the middle of a file and a unit is lost or not. A week has two days, one with a
period and one without, so that a period over midnight ends on a day of its own
and on the turn of the week. `MaxClock` lets the clock cross midnight in `core`.
`MaxUpsets` bounds reboots, formats, exits, crashes and pulled cards: two, so that
one can follow another. `MaxMsgs` bounds the queue to one message, so that a
callback has to wait for the task. `MaxLag` is the longest time between two polls
of an open file; a poll comes every 10 ms while a file is open, so one second is
ample.

For playback, `sessions` has two slots and a client with two sessions, so that
slots are used again while another is in use, with one seek and one loss of the
client at any time, a list of one frame and one frame a file: what it asks for
does not depend on the frames. `playing` has one slot, a day of three files of
which the middle one is missing, two frames a file, the first of them stored
one place late, and a list of two: that is the least with which a list sorts,
overflows and is emptied by a jump. `Requests` bounds how often each request
is made, one of each kind in `playing`: stop, speed and seek meet the one
session in every order. `WriteTries` is 1, so that both trying again and giving
up occur. Three descriptors are enough for every session, the server and a
foreign file; with two sessions, a request and a foreign file they run out, so
that a failing `open` is met as well.

For the card, six places in two trees and three months are enough for months with
one and two days, in one tree and in both, and for a last month without a partner.
Every set of them that fits is an initial state, and two days may have to go at
once, so that a call goes from one month to the next. `Foreigns` lets other files
fill nothing, or just more than `Tolerance`; `MaxDays` is the number of days of
the common tree that just fits the check's array.

For the lists, two days of two slots with two units each, and pages of one
segment: that is the least in which a segment goes over the border of a slot, a
list over several pages, and the clock (`LastUnit`) past midnight, with a file of the
new day, while a client still pages; and the index of yesterday's last slot is laid
over today. `FilesPerHour` is 1: that a `fileTime_s` is half old and half new shows
only where an hour has several slots, which the theorems have and the run has not.

For the configuration, `MCRecordConfig` has requests that are valid, invalid and
out of range, and factory files with and without a version; three entries
(`LastDay` is 2) are "every day" and two days of a week, of which one is copied
while the other still has its old period. Nothing else is
bounded; `TypeOK` is proved, and no run lists it.

For the reader, four frames are enough for a tear, a frame swallowed by it, one
behind it and one that is whole. Bodies are shorter than a chunk, as long as one
and longer than two, so that one can be cut in its last chunk and before it; a
torn header (`TornLen`) can claim more than the longest frame; the buffer is no
longer than the shortest frame, so that the borders between buffers fall anywhere
in a frame; a step back of a jump and what is searched at once are each shorter
than the file. `MaxCrashes` is one: a second tear changes nothing for what lies
before it.

| run | what it checks |
|---|---|
| `core` | over midnight, the schedule changed at any time, one crash: `TypeOK`; `FileWindow`, a file ends with its slot, over midnight too; `IndexOrdered`, offsets are in order; `MarkedMeansRecorded` and `IndexComplete`, the marked units are the recorded ones; `KeepsArchive`, the refinement of `Archive`; `StartsInPeriod`, a recording starts within a period of its schedule |
| `faults` | any two upsets, with restarts and a status call that fails: `CurLenIsFileSize`, `IndexInFile`, the lengths and offsets agree with the file; `IndexOnlyGrows`, nothing on the card is taken back but by a save that is under way; `RecFdNeedsDisk`, `RebootQuiesces` |
| `alarm` | `AlarmKeepsFile`: one report that motion ended does not close a file early; `IndexOnlyGrows` with a full card and failed creation |
| `live` | `RebootEndsRecording`, `RecordingResumes` under `FairSpec` |
| `sessions` | `TypeOK` with the bounds of the list and of the attempts to write; `NoSecondThread`, `StreamLives`; `Implements`, the refinement of `PlaybackSessions`: no stop is lost |
| `playing` | `SeekForgets`, nothing from before a jump is sent after it; `ReadsOwnFile` and `SentInOrder` for an undisturbed session; `DescriptorsClosed`; `SessionEnds` under `FairSpec` |
| `recycle` | every nearly full card, with the self check of the card: `TypeOK`; `DeletesWhenNeeded`, `SuccessMeansRoom`; `OldestFirst`, the first month of a call; `VerdictIsRight`, the self check; `RoomIsMade` under fairness |
| `listing` | `TypeOK`, a page never outgrows its response; `PageExact`, the segments are the runs of units; `ListingSound` and `ListingComplete`, all pages together against what was recorded, with the task between any two reads of the server |
| `config` | `InForce`, the recorder task decides by the configuration in memory, with valid periods, also while they are copied, as far as the copy has come; `SavedSurvives`, a restart brings back what was saved |
| `reader` | `TypeOK`; `TearCostsItsFrame`, every whole frame is delivered, once and in order, but for those within what a torn frame claims; `JumpIsRight`, a jump arrives at a key frame that is wanted and passes over none |
| `claim_night` | refutes that a period over midnight goes on when the new day has a period of its own |
| `claim_config` | refutes that the version number decides whether the configuration file is replaced: the first one saved loses it |

Files that were cut off by a crash or a pulled card (`hist.torn`) are exempt
from `CurLenIsFileSize` and `IndexOrdered`: such a file, if it was cut off before its
index was saved, or while it was, is continued at its end but counted from
zero. `IndexInFile` has no such exemption. The save of a minute counts what is still
in the write buffer, so the index of a file that was cut off may lead past its
end, by less than a buffer (`Ahead`); only files on a card that was pulled
(`hist.pulled`) are left out, for the task goes on counting frames which no
file gets. `IndexOnlyGrows` allows that a save truncates an index if the task holds
all of it. If the process ends before the index is written again, the units of
the file are lost: that is what the code does (`Archive!End`), and no run claims
that they survive. `IndexOnlyGrows` is
checked within one day for the runs with pulled or full cards. Beyond a day it
fails there: a descriptor left over from the day before, or a start that opened
nothing, marks units of the old file again, since only times of day are
compared.

A session is disturbed (`Undisturbed`) by a seek, by another request to play and
by any other file that is opened. Then `ReadsOwnFile`, `SentInOrder` and
`DescriptorsClosed` do not hold: at the end of a file the thread closes its
descriptor and opens the next file, but keeps the old number, which names the next
file only because `open` returns the lowest free number. With another `open` in
between it reads from whatever has that number. The recorder task of the same
process opens an idx file every minute, so this does happen: the two properties of
descriptors say nothing about it, and `hazards` lists it as not covered.

`VerdictIsRight` leaves out a card that changes during the check (`disturbed`):
then the status is wrong until the process is started again.
`ListingSound` leaves out the slot over which an index was laid that was of another
slot or day or was being changed, and a unit that was lost after it was shown;
`ListingComplete` leaves out the same, what was in no file when the files were
read (not saved yet, or just being saved) and not supplied from memory
afterwards, and a run of alarms up to the end of the day, which the code fills
in and does not count. `TearCostsItsFrame` leaves out a playback that reached
the end of a growing file in the middle of a frame, and `JumpIsRight` a jump that
arrives at or behind a torn header (`Astray`), whose time and length lead anywhere.

`CHECK_DEADLOCK` is off except in `config` and `claim_config`: the clock stops at
its bound, in runs without `"boot"` a process that ended stays down, and
requests, frames and crashes are bounded.

## 5. Fairness

The event loop polls the task again and again and serves its queue, and the
callback finishes what it began: weak fairness of the task's steps and of the
callback's. `HandleStop` has strong fairness, because between two messages the
loop polls, and a poll disables the handling of messages while it runs; the
queue is served between any two polls. Nothing is assumed of the environment:
not that time passes, nor that a format ends.

A playback thread blocks on nothing but its slot's lock, which is held for a few
assignments; its waits for the time of a frame are bounded by the pace of the
recording, and what it reads is finite. So weak fairness of each thread, and of
the server once it has begun a request. Clients need not ask for anything: a
session ends by itself after the last file of the day.

Recycling runs in the recorder task, which tries again every three seconds when
a call has failed, and a call blocks on nothing: weak fairness of its steps, and
of those of the self check, which reads directories (`CheckSpec`).

## 6. Proofs

`RecorderTaskProofs` proves for every length of units, files and days, every
buffer, schedule, window and bound that satisfies the three assumptions of
`RecorderTask` (lengths are positive, bounds are natural numbers, choices come
from the values the code knows):

- `TypeCorrect`. The inductive invariant adds that an open file has a name:
  without it the set of torn files could gain something that is no slot.
- `DiskBelieved` (`RecFdNeedsDisk`) and `RebootIsQuiet` (`RebootQuiesces`), from
  `ControlInv`. Neither is inductive. A process that ended holds no file; a
  file is about to be opened only when none is open; an open file is on a card
  that is there, so that `stop_rec` does close it; and while a reboot is
  announced, the callback has not posted its stop message yet, or the message
  waits, or the task is idle without an open file - this last case is stable,
  for the flag keeps a poll from starting.
- `LengthIsFileSize` (`CurLenIsFileSize`), from `LengthInv`, which adds that an
  open file exists and that a file which is neither open nor torn has its
  index. That is what lets a file be continued: the code takes the length from
  the file only if it can load the index.

- `StartsAreScheduled` (`StartsInPeriod`), from `ScheduleIsPeriod`: the time of
  day and the day of the week that `check_record_time` compares stand for one
  absolute time, and the day before in the week, over its turn, is the day
  before (`YesterdayInWeek`). The converse is false (`claim_night`).

`RecorderFileProofs` adds, about the same model:

- `IndexStaysInFile` (`IndexInFile`), without any assumption. The invariant
  `FilesInv` says of the index in memory that it points no further than
  `curFileLen`, and of both indexes that they point no further than what is in the
  file and what waits for it in the buffer (`Waiting`, `FileHolds`, `IndexHolds`);
  that closing flushes before it saves (`ClosesFlushed`), and that a buffer that is
  lost was not full (`BufferWaits`).
- `AlarmHoldsFile` (`AlarmKeepsFile`), if a day has more than one file: with a
  single one, its first unit would count as the time behind its end. As long as
  the process knows of an alarm that went off at most once, `lo` is set and
  `last` is the time of day of that alarm; times of day and a window reach as far
  as the clock has come, over midnight too. It holds for every change of the
  configuration and through restarts, which `alarm` does not have.
- `FileEndsWithSlot` (`FileWindow`), without the event "format" and for `MaxLag` of
  at most `UnitSecs`. The code compares times of day, and in the last slot of a
  day the end is 0 o'clock, which it takes for the end of the day only in the
  first unit of the next day; so it has to look once in the time of a unit. A
  format that is over leaves a file open which nobody polled meanwhile. The
  arithmetic is in the lemmas `SlotOfDay` and `SlotIsOver`.

`RecorderIndexProofs` proves what the index says, from one invariant (`IndexInv`)
on top of the other two: the unit whose end the task waits for has begun, is
recorded and not marked; everything that is marked lies before it; the saved
indexes and the one in memory show only units that are over and were recorded,
with offsets that grow and, by the lengths above, do not exceed what the next
unit gets. From it follow `MarkedIsRecorded` (`MarkedMeansRecorded`),
`UnitsInOrder` (`IndexOrdered`) and `AllUnitsMarked` (`IndexComplete`). With one
more invariant, that the index in memory shows what the saved one of its file
shows (`HeldAhead`), follows `SavedStays` (`IndexOnlyGrows`): the unit that ends
was not marked before, so no save takes a unit back or moves it, and what a save
truncates the task holds and writes next.

- `TaskImplements` (`KeepsArchive`): `RecorderTask` implements `Archive`. That the
  units of a step are those of the abstract one follows from `IndexInv` and
  `HeldAhead`; what the guards of the losses need is `SavedInv`, three facts about
  the units that are marked in memory and not on the card (`Unsaved`). While a
  file is open none of them is older than the last save of a minute
  (`MinuteSaved`), and after an end of the process they are fewer than a minute
  has, since one of that many units in a row is one with which the index is
  saved (`SomeSaves`). With no file open there is at most one, and none when
  the loop of `save_record_frame` goes round once more (`OneUnsaved`): closing a
  file saves all, and the pass after it may still mark one unit. And the file
  that memory is of exists (`FileThere`). Every step is then one of `Archive` or
  a stutter: a pass of the loop that marks a unit is `Record`, the two calls of a
  save are `Cut` and `Save`, the opening of a file is `Open`, the end of the process
  `End`, in the middle of a save too. It assumes `WholeMinutes` besides: a minute has
  more than one unit (six in the code) and a day whole minutes; with minutes of
  one unit nothing could be lost by a crash, but the unit after a close still is.

They all assume `Undisturbed`: the process may crash, leave, start again, be rebooted
and configured at any moment, and the encoder may not answer; but the card stays
in and has room, files can be created, nothing is formatted, a poll comes once in
the time of a unit, and a day has more than one file. Otherwise the code marks
units while no file is open, or units of a slot that is over. `AllUnitsMarked`
assumes besides that no configured type is CLOSED: in the last slot of a day
`check_and_stop_record` is not reached, so that recording goes on although it
was switched off, and its units are marked with the type CLOSED, which means
not recorded.

`PlaybackProofs` proves for every number of slots, clients, files, descriptors,
nodes and attempts, every order of the frames, every bound of requests and every
set of faults:

- `PlaybackTypeCorrect`, with the two bounds hidden in the types: a full list
  gives up a frame before it takes one, and an attempt is counted before it is
  compared. The inductive invariant adds that a request other than PLAY names a
  slot.
- `SlotHandedOver` (`NoSecondThread`) and `StreamOwned` (`StreamLives`), from
  `OwnInv`: a slot has a thread exactly if its flag is set and the server is
  not just filling it in, and has its stream exactly if its flag is set and the
  thread is not at its last act. All steps but the claim, the start and the
  last two steps of a thread leave this alone (`ServerQuiet`, `PlayerQuiet`).
- `ServerImplements`: `Playback` implements `PlaybackSessions`. A thread never
  raises a stop by itself, and one that has taken a stop takes nothing else any
  more (`PlayerStatus`, `TakenInv`), so its steps are stutters up to its last act,
  which is `End`. A seek is `AskSeek` when the server looks at the slot, and only
  its last change of the slot can revive a stopped session (`Seek`); where it
  comes to nothing it is `SeekOver`. The claim, the start, the stop and the loss
  of a client map to the actions of the same meaning.
- `JumpForgets` (`SeekForgets`), from `HeldInv`: the whole list, not only the
  frame in hand, was read since the last jump.
- `FramesInOrder` (`SentInOrder`), for one session without seeks in a process
  where nobody else opens files (`Undisturbed`), and every order of the frames in
  which none is stored `ListLen` places late or more (`LittleLate`; the order of
  `playing` is such a one). That the list is sorted is not enough: what is sent
  must also come before all that is still to be read. `OrderInv` says how much of
  the list does: with p frames read of a file, all but the last p + ListLen - q
  waiting frames come before its q-th (`Ahead`), for only so many of those read
  can be stored among the ListLen places before it, and all come before the next
  file. For q = p + 1 that leaves the first frame of a full list. And between two
  frames the list is full, so what a frame that could not be written, or was
  dropped, leaves behind is still in order. `InsertPlaces` says where
  `insert_playTime` puts a frame in a list of any length. It rests on the
  invariant `AloneInv`: in such a session only the lowest number is ever open, so
  that the number a thread keeps, though it was closed, is that of the next file,
  and the slot has the same. `ReadsOwnFile` and `DescriptorsClosed` follow from it
  as lemmas, and are listed as such: whatever else opens a file between the two
  calls parts the two numbers, and of that case they say nothing.

`DiskRecycleProofs` proves `RoomWhenSuccess` and `OnlyWhenNeeded` for every set of
directories, every size of the card and of the reserve. Both follow from one
invariant: while a call is in progress there is no room, because whatever
deletes a day asks again. `CheckImplements` carries both over to `CheckSpec`: the
check changes nothing of the card, so its steps are stutters of `DiskRecycle`.

- `RecycleTypeCorrect` (`TypeOK`). Its bounds are what a reader of the code would
  doubt: the list of months is left by one entry at most, where a pair was
  taken at its end, and that of days only through a next day that is known to
  point into a freed list, because a list is freed only between two months.
- `OldestGoFirst` (`OldestFirst`), however months and days lie in the two trees.
  While no month with days was met, those passed were empty and the pointer to
  the next one lags behind at the last month only; that is the case in which the
  month is paired with itself and each of its days listed twice. In the first
  month with days, the rest of the list holds all that is left of it and what
  follows in the list of months is newer. Entries two apart in the list of days
  are of different days, for there are two trees, so a day and its pair go
  together, even where the next entry is stale.
- `VerdictHolds` (`VerdictIsRight`), for any recordings, other files, tolerance and
  length of the list of days (`CheckAssumption` gives them types). The invariant
  says that the months of all days are read or still to be read, that the count
  is that of the days of the months read, and that what was found in use is the
  recordings and the other files.

`UnitListProofs` proves for any number of days and units, every length of a slot
and of a page:

- `PagesAreExact` (`PageExact`): with what the property says of the segments so
  far and of the open one, each pass of the loop keeps it, whatever the
  recorder task does meanwhile, for the loop reads its own copy. The types come
  with it (`TypeOK`), and in them the bound of a page, which the segment the
  loop leaves open must not break.
- `PageHasRoom` (`TypeOK`) states those types alone.
- `ListingIsSound` (`ListingSound`): what the copy holds of a unit that is not
  phantom has been recorded, from the first idx file read (`LoadedSound`) to the
  last pass of the loop. It is an invariant because a unit that is not lost is never
  marked again and never unmarked, and because the index in memory holds what the idx
  file of its slot holds, also while that is being saved (`Kept`). The case the
  proof turns on is an index that was read while it changed: it is foreign to the
  slot it is laid over, or it is that slot's own, whole (`Foreign`).
- `ListingIsComplete` (`ListingComplete`). What is due must be found although it
  was not yet saved when the day was loaded and only the index in memory has
  it, and although that index may be of another file or day by the time it is
  laid over the day, or may be just being changed. What is due stays recorded as it was
  (`DueRecorded`); the copy lacks of it at most what the files read so far lacked
  (`LoadedDue`), and after the last step nothing, for what memory did not
  supply is no longer due; and the pages so far have shown what is due before
  the next one (`ListedDue`).

`RecordConfigProofs` proves for every set of requests, times and factory files:

- `ValidInForce` (`InForce`) and `SavedConfigSurvives` (`SavedSurvives`), from an
  invariant whose parts are: every configuration in memory and in the file is
  valid; the file holds what was last saved, up to `Fit`, as long as no factory
  file with a version was seen; so does the memory until the first request; and a
  copy under way is of a recorder that is switched on and takes the days in their
  order, of each first whether it is enabled (`CopyGoesOn`). Of the days the copy
  has not reached nothing is claimed (section 7). `Fit` is idempotent, which is
  why a file that was written again at a start is no exception.

`PesReaderProofs` proves for every time of the day that the header gives it back
at most eleven milliseconds early and never late (`TimeIsKept`), and that the
roundings keep the order of frames (`OrderIsKept`); jumps compare these times. And
for every length of a header, of the bodies, of the write buffer and of a step,
any number of frames, and a process that ends anywhere:

- `PlaybackStaysInFile` (`TypeOK`) and `TearsCostTheirFrames` (`TearCostsItsFrame`). The
  property speaks of frames that are delivered; what a step needs is where the
  position lies. `FileInv` says of file and buffer together that each cell is a
  part of a frame which begins as many cells before, and that parts and frames
  follow each other in order, so that what a tear leaves is a beginning of a
  frame (`Belongs`, `InOrder`). `PlaysInv` says that a body being read belongs to
  a header, whose length it has unless that header is torn (`BodyOf`); that a
  frame the position lies inside of between two frames is torn, or begins
  behind a tear (`InsideOf`); that without a tear before it a frame begins near
  the position or has just ended there (`NextOf`), which is why the search for
  the next header does not give up; and what was delivered lies before it.
- `JumpsAreRight` (`JumpIsRight`). Frame by frame a jump passes only what begins
  behind a tear, unless it meets a torn header (`PassesOver`), and without tears
  meets every frame (`ArrivesSafely`),
  and the steps back from an offset cover the file down to its beginning
  (`PartsCover`). The jump is a recursive function of the position: that the
  function exists and satisfies its equation (`SeekIsArrives`), and what it
  computes, is shown by a least counterexample (`LeastNumber`, `FromTheEnd`), for
  the theorems about induction are out of reach and that one on well-founded
  orders is not.

Only model-checked: liveness (`RebootEndsRecording`, `RecordingResumes`, `SessionEnds`,
`RoomIsMade`), for fairness and `ENABLED` are out of the prover's reach; and, but for
the lemmas named above, `ReadsOwnFile` and `DescriptorsClosed`.

## 7. Not modelled

Not planned: logging, the IPC library and its threads, signal handlers, the
shared memory of the encoder, the start-up of paths, the bits of a PES header,
requests that only read the configuration, and the legacy lists of
`file_list.c`, which scan directories for older clients and keep no state. The
server never sends PAUSE. Accesses outside of an array or of freed memory have
no outcome to check; `hazards` lists those met.

Some behaviour is in the models without a property that forbids it, because
nothing in the repository claims otherwise:

- the sleep before `exit(0)` does not save the index; what was recorded since the
  last minute, less than a minute of units, stays in the file and out of the index;
- the index is saved by truncating its file and writing it (494, 500): if the
  process ends or the card is pulled in between, `load_rec_units` finds nothing,
  and all units of that file are gone although the pes file is there;
- when the schedule ends a common recording, `check_and_stop_record` answers
  RECORDING after it has closed the file (1874), and `save_record_frame` goes
  round once more: a unit that ends in between is marked behind the last save
  of its file, and lost when another file is opened;
- an alarm that is not cleared is fresh again at the same time of the next day;
- a jump is dropped when a change of speed is taken together with it;
- a session leaves a descriptor open if something else opened a file while it
  went from one file to the next;
- recycling passes over days in every month of a call but the first;
- the list of alarms drops a run that goes up to the end of the day;
- the index in memory is laid over today's units also when it is of yesterday, and
  while it is being changed: for the moment in which a file is opened a list may show
  the units of one file in the slot of the other; and units whose idx file is just being
  saved are missing unless memory supplies them;
- a jump may arrive at what a crash has left of a header, or where that leads it;
- a request is answered with success when the configuration could not be
  written;
- the period of "every day" never reaches the recorder task;
- `set_record_type` changes the type and then the lists, field by field
  (2542-2581), while the recorder task may be reading them (97-187): a day may be
  enabled already with a period that is still the old one, which nothing has
  checked if the day was disabled before. `RecorderTask` has the new type with the
  old lists, `RecordConfig` the fields; that the task decides by lists half
  changed is in no model;
- a self check that runs while a day is deleted may ask for a format.
