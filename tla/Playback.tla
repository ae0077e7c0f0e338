------------------------------- MODULE Playback -------------------------------
(***************************************************************************)
(* Playback of recordings: the server of recorder_server.c, which serves   *)
(* one request at a time, the threads of playback_task.c, one for each     *)
(* session, and the table of file descriptors of the process, which all    *)
(* threads share.                                                          *)
(*                                                                         *)
(* The server and a thread share the session's slot (gAVRecorderServ[i]),  *)
(* whose lock covers single regions of both.  A step is one such region,   *)
(* or one system call made outside of them on the descriptor.              *)
(*                                                                         *)
(* The files of one day are numbered; each holds Len(Order) frames, the    *)
(* k-th of which is the Order[k]-th in time.  A frame is its time.         *)
(***************************************************************************)
EXTENDS Integers, Sequences, FiniteSets

CONSTANTS
  NSlots,        \* AV_RECORDER_SERV_NUM: 3
  Clients,       \* event ids of the clients
  NFiles,        \* files of a day: 144
  Recorded,      \* the files that are on the card
  Order,         \* the order of the frames in a file
  Fds,           \* file descriptors of the process
  ListLen,       \* PLAYTIME_ARR_NUM: 4
  WriteTries,    \* attempts to write a frame to a full stream: 50
  Zero,          \* the command the value 0 stands for, if any
  Requests,      \* bounds what clients do: how often each of AllRequests
  Faults         \* what goes wrong or interferes: subset of AllFaults

Slots  == 0 .. NSlots - 1
Files  == 0 .. NFiles - 1
Frames == 0 .. NFiles * Len(Order) - 1
NoFd    == -1
NoFrame == -1
NoSlot  == -1
NoClient == "none"

AllRequests == {"PLAY", "STOP", "SPEED", "SEEK", "DESTROY"}
AllFaults   == {"shm", "noframe", "dir", "full", "other"}
Commands    == {"PLAY", "STOP", "SEEK", Zero}

ASSUME SizesAssumption ==
  /\ NSlots \in Nat \ {0} /\ NFiles \in Nat \ {0} /\ ListLen \in Nat \ {0}
  /\ WriteTries \in Nat
  /\ Fds \subseteq Nat /\ Fds # {}
  /\ Order \in Seq(Nat) /\ Order # <<>>
  /\ \A k \in 1 .. Len(Order) : Order[k] < Len(Order)
ASSUME KindsAssumption ==
  /\ Recorded \subseteq Files
  /\ NoClient \notin Clients
  /\ Zero \in {"PLAY", "ZERO"}
  /\ Requests \in [AllRequests -> Nat]
  /\ Faults \subseteq AllFaults

VARIABLES
  slot,      \* gAVRecorderServ
  thr,       \* the playback threads and their local variables
  srv,       \* the server: the request it serves
  fds,       \* descriptor -> the open file and the position in it
  shm,       \* the shared memory streams that exist
  sent,      \* history: the last frame each session sent since it jumped
  seen,      \* history: the frames each session read since it jumped
  requests   \* how many requests of each kind were made

vars == <<slot, thr, srv, fds, shm, sent, seen, requests>>

-----------------------------------------------------------------------------
(* Descriptors.                                                            *)

Closed == [file |-> NoFd, pos |-> 0]
Foreign == [file |-> NFiles, pos |-> 0]      \* opened by another thread
Opened(f) == [file |-> f, pos |-> 0]
FdEntries == [file : {NoFd} \cup 0 .. NFiles, pos : 0 .. Len(Order)]

FreeFds == {d \in Fds : fds[d] = Closed}
LowestFd  == CHOOSE d \in FreeFds : \A e \in FreeFds : d <= e

KeepOpen(d) == fds                           \* mutant: not closed
CloseFd(d) == IF d \in Fds THEN [fds EXCEPT ![d] = Closed] ELSE fds

(* open(2) takes the lowest free number.                                   *)
CanOpen(f) == f \in Recorded /\ FreeFds # {}
OpenAt(f, d) ==
  /\ CanOpen(f)
  /\ d = LowestFd
  /\ fds' = [fds EXCEPT ![d] = Opened(f)]

Readable(d) == d \in Fds /\ fds[d].file \in Files
FrameAt(d) == fds[d].file * Len(Order) + Order[fds[d].pos + 1]

-----------------------------------------------------------------------------
(* The list of frames waiting to be sent, sorted by time (PlayTime_st).    *)

InsertLast(list, t) == Append(list, t)       \* mutant: not sorted
InsertPlayTime(list, t) ==
  LET p == Cardinality({k \in DOMAIN list : list[k] <= t})
  IN  SubSeq(list, 1, p) \o <<t>> \o SubSeq(list, p + 1, Len(list))
KeepPlayTime(list) == list                   \* mutant: not cleared
ClearPlayTime(list) == <<>>

-----------------------------------------------------------------------------
IdleSlot == [flag |-> FALSE, status |-> Zero, fd |-> 0, client |-> NoClient,
             speed |-> FALSE, seek |-> FALSE, to |-> 0, file |-> 0]
NoThread == [pc |-> "none", fd |-> NoFd, file |-> 0, to |-> 0,
             status |-> Zero, frame |-> NoFrame, list |-> <<>>, tries |-> 0,
             new |-> NoFd]
IdleServer == [pc |-> "idle", id |-> NoSlot, client |-> NoClient, fd |-> NoFd,
               file |-> 0, to |-> 0]

Init ==
  /\ slot = [i \in Slots |-> IdleSlot]
  /\ thr = [i \in Slots |-> NoThread]
  /\ srv = IdleServer
  /\ fds = [d \in Fds |-> Closed]
  /\ shm = {}
  /\ sent = [i \in Slots |-> NoFrame]
  /\ seen = [i \in Slots |-> {}]
  /\ requests = [r \in AllRequests |-> 0]

history == <<sent, seen, requests>>

Request(r) ==
  /\ srv.pc = "idle"
  /\ requests[r] < Requests[r]
  /\ requests' = [requests EXCEPT ![r] = @ + 1]

-----------------------------------------------------------------------------
(* The server.                                                             *)

(* PLAY: the file is opened before a slot is looked for.                   *)
PlayOpen(c, f, to) ==
  /\ Request("PLAY")
  /\ IF CanOpen(f)
     THEN \E d \in Fds :
            /\ OpenAt(f, d)
            /\ srv' = [pc |-> "scan", id |-> 0, client |-> c, fd |-> d,
                       file |-> f, to |-> to]
     ELSE UNCHANGED <<fds, srv>>
  /\ UNCHANGED <<slot, thr, shm, sent, seen>>

(* find_av_recorder_serv_valid looks at one slot after the other and       *)
(* claims the first free one whose stream it can create.                   *)
NeverTaken(i) == FALSE                       \* mutant: the flag is not tested
Taken(i) == slot[i].flag

PlayClaim ==
  /\ srv.pc = "scan" /\ srv.id \in Slots
  /\ ~Taken(srv.id)
  /\ slot' = [slot EXCEPT ![srv.id].flag = TRUE]
  /\ shm' = shm \cup {srv.id}
  /\ srv' = [srv EXCEPT !.pc = "fill"]
  /\ UNCHANGED <<thr, fds, history>>

PlayPass ==
  /\ srv.pc = "scan" /\ srv.id \in Slots
  /\ Taken(srv.id) \/ "shm" \in Faults
  /\ srv' = [srv EXCEPT !.id = @ + 1]
  /\ UNCHANGED <<slot, thr, fds, shm, history>>

PlayRefused ==
  /\ srv.pc = "scan" /\ srv.id \notin Slots
  /\ fds' = CloseFd(srv.fd)
  /\ srv' = IdleServer
  /\ UNCHANGED <<slot, thr, shm, history>>

(* The slot is filled in, the speed request of an earlier session left in  *)
(* it, and the thread is created.  (That the thread first copies the       *)
(* descriptor is part of this step: it copies it again with its first      *)
(* look at the slot, for the seek flag is set.)                            *)
FilledAnew(s) == [s EXCEPT !.fd = srv.fd, !.client = srv.client, !.seek = TRUE,
                           !.to = srv.to, !.file = srv.file]  \* mutant
Filled(s) == [s EXCEPT !.fd = srv.fd, !.status = "PLAY", !.client = srv.client,
                       !.seek = TRUE, !.to = srv.to, !.file = srv.file]

PlayStart ==
  /\ srv.pc = "fill"
  /\ slot' = [slot EXCEPT ![srv.id] = Filled(@)]
  /\ thr' = [thr EXCEPT ![srv.id] = [NoThread EXCEPT !.pc = "top", !.fd = srv.fd]]
  /\ srv' = IdleServer
  /\ sent' = [sent EXCEPT ![srv.id] = NoFrame]
  /\ seen' = [seen EXCEPT ![srv.id] = {}]
  /\ UNCHANGED <<fds, shm, requests>>

(* Every other command first tests that the session exists.                *)
Command(r, i, f, to) ==
  /\ Request(r)
  /\ srv' = IF slot[i].flag
            THEN [IdleServer EXCEPT !.pc = r, !.id = i, !.file = f, !.to = to]
            ELSE srv
  /\ UNCHANGED <<slot, thr, fds, shm, sent, seen>>

SetStop ==
  /\ srv.pc = "STOP"
  /\ slot' = [slot EXCEPT ![srv.id].status = "STOP"]
  /\ srv' = IdleServer
  /\ UNCHANGED <<thr, fds, shm, history>>

SetSpeed ==
  /\ srv.pc = "SPEED"
  /\ slot' = [slot EXCEPT ![srv.id].speed = TRUE]
  /\ srv' = IdleServer
  /\ UNCHANGED <<thr, fds, shm, history>>

(* SEEK closes the descriptor of the session and opens the file of the     *)
(* requested time, both without the lock.                                  *)
SeekTake ==
  /\ srv.pc = "SEEK"
  /\ srv' = [srv EXCEPT !.pc = "close", !.fd = slot[srv.id].fd]
  /\ UNCHANGED <<slot, thr, fds, shm, history>>

SeekClose ==
  /\ srv.pc = "close"
  /\ fds' = CloseFd(srv.fd)
  /\ srv' = [srv EXCEPT !.pc = "open"]
  /\ UNCHANGED <<slot, thr, shm, history>>

SeekOpen ==
  /\ srv.pc = "open"
  /\ IF CanOpen(srv.file)
     THEN \E d \in Fds :
            /\ OpenAt(srv.file, d)
            /\ srv' = [srv EXCEPT !.pc = "set", !.fd = d]
     ELSE fds' = fds /\ srv' = IdleServer
  /\ UNCHANGED <<slot, thr, shm, history>>

SeekSet ==
  /\ srv.pc = "set"
  /\ slot' = [slot EXCEPT ![srv.id] =
                [@ EXCEPT !.fd = srv.fd, !.to = srv.to, !.seek = TRUE,
                          !.status = "SEEK", !.file = srv.file]]
  /\ srv' = IdleServer
  /\ UNCHANGED <<thr, fds, shm, history>>

(* recorder_server_event_destroy_cb: a client is gone, its sessions are    *)
(* stopped.  The code visits the slots one by one; no step of a thread     *)
(* depends on the slot of another, so the visits are one step.             *)
Owned(i, c)  == slot[i].flag /\ slot[i].client = c
DestroyStop(i, c) == IF Owned(i, c) THEN [slot[i] EXCEPT !.status = "STOP"] ELSE slot[i]
Destroy(c) ==
  /\ Request("DESTROY")
  /\ slot' = [i \in Slots |-> DestroyStop(i, c)]
  /\ UNCHANGED <<thr, srv, fds, shm, sent, seen>>

Asked ==
  \/ \E c \in Clients : Destroy(c)
  \/ \E c \in Clients, f \in Files, to \in 0 .. Len(Order) - 1 : PlayOpen(c, f, to)
  \/ \E r \in {"STOP", "SPEED"}, i \in Slots : Command(r, i, 0, 0)
  \/ \E i \in Slots, f \in Files, to \in 0 .. Len(Order) - 1 : Command("SEEK", i, f, to)

Serves ==
  \/ PlayClaim \/ PlayPass \/ PlayRefused \/ PlayStart
  \/ SetStop \/ SetSpeed \/ SeekTake \/ SeekClose \/ SeekOpen \/ SeekSet

-----------------------------------------------------------------------------
(* The thread of session i, from one of its regions to the next.           *)

Thread(i, from, changes) == thr[i].pc = from /\ thr' = [thr EXCEPT ![i] = changes]

(* The slot is copied, its flags are taken.  A speed request keeps the     *)
(* thread from jumping, though the request to jump is taken as well.       *)
AfterTop(i) ==
  IF slot[i].status = "STOP" THEN "end"
  ELSE IF slot[i].seek /\ ~slot[i].speed THEN "jump" ELSE "read"

Top(i) ==
  /\ Thread(i, "top",
            [thr[i] EXCEPT !.pc = AfterTop(i), !.status = slot[i].status,
                           !.file = slot[i].file,
                           !.fd = IF slot[i].seek THEN slot[i].fd ELSE @,
                           !.to = IF slot[i].seek THEN slot[i].to ELSE @])
  /\ slot' = [slot EXCEPT ![i].seek = FALSE, ![i].speed = FALSE]
  /\ UNCHANGED <<srv, fds, shm, history>>

(* record_seek: the position is set and the list cleared, or both are kept.*)
Jump(i) ==
  /\ Readable(thr[i].fd)
  /\ Thread(i, "jump", [thr[i] EXCEPT !.pc = "read", !.list = ClearPlayTime(@)])
  /\ fds' = [fds EXCEPT ![thr[i].fd].pos = thr[i].to]
  /\ sent' = [sent EXCEPT ![i] = NoFrame]
  /\ seen' = [seen EXCEPT ![i] = {}]
  /\ UNCHANGED <<slot, srv, shm, requests>>

JumpFails(i) ==
  /\ ~Readable(thr[i].fd) \/ "noframe" \in Faults
  /\ Thread(i, "jump", [thr[i] EXCEPT !.pc = "read"])
  /\ UNCHANGED <<slot, srv, fds, shm, history>>

(* A frame is read and inserted; a full list gives up its first frame.     *)
HasFrame(d) == Readable(d) /\ fds[d].pos < Len(Order)

AfterRead(th, t) ==
  IF Len(th.list) < ListLen
  THEN [th EXCEPT !.pc = "top", !.frame = t, !.list = InsertPlayTime(@, t)]
  ELSE [th EXCEPT !.pc = "wait", !.frame = Head(th.list),
                  !.list = InsertPlayTime(Tail(@), t)]

Read(i) ==
  /\ HasFrame(thr[i].fd)
  /\ Thread(i, "read", AfterRead(thr[i], FrameAt(thr[i].fd)))
  /\ fds' = [fds EXCEPT ![thr[i].fd].pos = @ + 1]
  /\ seen' = [seen EXCEPT ![i] = @ \cup {FrameAt(thr[i].fd)}]
  /\ UNCHANGED <<slot, srv, shm, sent, requests>>

(* Nothing more to read: the descriptor is closed, the next file opened,   *)
(* its descriptor stored in the slot but not in the thread.                *)
ReadEnd(i) ==
  /\ ~HasFrame(thr[i].fd)
  /\ Thread(i, "read", [thr[i] EXCEPT !.pc = "eof", !.frame = NoFrame])
  /\ UNCHANGED <<slot, srv, fds, shm, history>>

EofClose(i) ==
  /\ \E next \in {"next"} \cup (IF "dir" \in Faults THEN {"end"} ELSE {}) :
       Thread(i, "eof", [thr[i] EXCEPT !.pc = next])
  /\ fds' = CloseFd(thr[i].fd)
  /\ UNCHANGED <<slot, srv, shm, history>>

NotEarlier(f) == {g \in Recorded : g >= f}   \* mutant: the same file again
Later(f) == {g \in Recorded : g > f}

EofOpen(i) ==
  \E f \in Later(thr[i].file), d \in Fds :
    /\ \A g \in Later(thr[i].file) : f <= g
    /\ OpenAt(f, d)
    /\ Thread(i, "next", [thr[i] EXCEPT !.pc = "eofset", !.file = f, !.new = d])
    /\ UNCHANGED <<slot, srv, shm, history>>

EofLast(i) ==
  /\ Later(thr[i].file) = {} \/ FreeFds = {}
  /\ Thread(i, "next", [thr[i] EXCEPT !.pc = "end"])
  /\ UNCHANGED <<slot, srv, fds, shm, history>>

EofSet(i) ==
  /\ Thread(i, "eofset", [thr[i] EXCEPT !.pc = "top", !.new = NoFd])
  /\ slot' = [slot EXCEPT ![i] = [@ EXCEPT !.file = thr[i].file, !.fd = thr[i].new,
                                           !.seek = FALSE]]
  /\ UNCHANGED <<srv, fds, shm, history>>

(* Waiting for the time of the frame, the thread takes the status out of   *)
(* the slot; a stop ends it, a seek drops the frame.                       *)
AfterPollDeaf(th, status) ==                 \* mutant: a stop is taken and lost
  IF status = "SEEK" THEN [th EXCEPT !.status = status, !.frame = NoFrame, !.pc = "top"]
  ELSE [th EXCEPT !.status = status]
AfterPoll(th, status) ==
  CASE status = "STOP" -> [th EXCEPT !.status = status, !.frame = NoFrame, !.pc = "end"]
    [] status = "SEEK" -> [th EXCEPT !.status = status, !.frame = NoFrame, !.pc = "top"]
    [] OTHER -> [th EXCEPT !.status = status]

Poll(i) ==
  /\ Thread(i, "wait", AfterPoll(thr[i], slot[i].status))
  /\ slot' = [slot EXCEPT ![i].status = Zero]
  /\ UNCHANGED <<srv, fds, shm, history>>

(* The time has come.  The status is the one last read: after a seek       *)
(* frames are dropped until the thread has waited.                         *)
WaitOver(i) ==
  /\ Thread(i, "wait",
            IF thr[i].status = "SEEK"
            THEN [thr[i] EXCEPT !.pc = "top", !.frame = NoFrame]
            ELSE [thr[i] EXCEPT !.pc = "write", !.tries = 0])
  /\ UNCHANGED <<slot, srv, fds, shm, history>>

Write(i) ==
  /\ Thread(i, "write", [thr[i] EXCEPT !.pc = "top", !.frame = NoFrame, !.tries = 0])
  /\ sent' = [sent EXCEPT ![i] = thr[i].frame]
  /\ UNCHANGED <<slot, srv, fds, shm, seen, requests>>

(* The stream is full: the thread tries again while it is to play.         *)
AfterFullAgain(th, status) ==                \* mutant: one attempt too many
  [th EXCEPT !.status = status, !.tries = @ + 1]
AfterFull(th, status) ==
  IF th.tries < WriteTries /\ status = "PLAY"
  THEN [th EXCEPT !.status = status, !.tries = @ + 1]
  ELSE [th EXCEPT !.status = IF th.tries < WriteTries THEN status ELSE @,
                  !.pc = "top", !.frame = NoFrame, !.tries = 0]

WriteFull(i) ==
  /\ "full" \in Faults
  /\ Thread(i, "write", AfterFull(thr[i], slot[i].status))
  /\ UNCHANGED <<slot, srv, fds, shm, history>>

(* The end: frames are freed, the stream is released, and only then is     *)
(* the slot given back.                                                    *)
LeakStream(i) == shm                         \* mutant: not released
ReleaseStream(i) == shm \ {i}

End(i) ==
  /\ Thread(i, "end", [thr[i] EXCEPT !.pc = "last", !.frame = NoFrame,
                                     !.list = ClearPlayTime(@)])
  /\ shm' = ReleaseStream(i)
  /\ UNCHANGED <<slot, srv, fds, history>>

Last(i) ==
  /\ Thread(i, "last", NoThread)
  /\ fds' = CloseFd(slot[i].fd)
  /\ slot' = [slot EXCEPT ![i] = [@ EXCEPT !.flag = FALSE, !.client = NoClient,
                                           !.fd = NoFd]]
  /\ UNCHANGED <<srv, shm, history>>

Player(i) ==
  \/ Top(i) \/ Jump(i) \/ JumpFails(i) \/ Read(i)
  \/ ReadEnd(i) \/ EofClose(i) \/ EofOpen(i) \/ EofLast(i) \/ EofSet(i)
  \/ Poll(i) \/ WaitOver(i) \/ Write(i) \/ WriteFull(i)
  \/ End(i) \/ Last(i)

(* Another thread of the process opens and closes a file.                  *)
OtherOpens ==
  /\ "other" \in Faults
  /\ FreeFds # {}
  /\ \A d \in Fds : fds[d] # Foreign
  /\ fds' = [fds EXCEPT ![LowestFd] = Foreign]
  /\ UNCHANGED <<slot, thr, srv, shm, history>>

OtherCloses ==
  /\ \E d \in Fds : fds[d] = Foreign /\ fds' = CloseFd(d)
  /\ UNCHANGED <<slot, thr, srv, shm, history>>

Next ==
  \/ Asked \/ Serves
  \/ \E i \in Slots : Player(i)
  \/ OtherOpens \/ OtherCloses

Spec == Init /\ [][Next]_vars

(* A thread that can run does so: it blocks on nothing but the slot's      *)
(* lock, and its waits are bounded.  The server goes on with a request it  *)
(* has begun; no client needs to ask for anything.                         *)
FairSpec == Spec /\ WF_vars(Serves) /\ \A i \in Slots : WF_vars(Player(i))

-----------------------------------------------------------------------------
(* Properties.                                                             *)

SlotTypes == [flag : BOOLEAN, status : Commands, fd : Fds \cup {0, NoFd},
              client : Clients \cup {NoClient}, speed : BOOLEAN, seek : BOOLEAN,
              to : 0 .. Len(Order) - 1, file : Files]
ThreadPcs == {"none", "top", "jump", "read", "eof", "next", "eofset", "wait",
              "write", "end", "last"}
ServerPcs == {"idle", "scan", "fill", "STOP", "SPEED", "SEEK", "close", "open", "set"}

Lists == {list \in Seq(Frames) : Len(list) <= ListLen}
ThreadTypes == [pc : ThreadPcs, fd : Fds \cup {0, NoFd}, file : Files,
                to : 0 .. Len(Order) - 1, status : Commands,
                frame : Frames \cup {NoFrame}, list : Lists,
                tries : 0 .. WriteTries, new : Fds \cup {NoFd}]
ServerTypes == [pc : ServerPcs, id : Slots \cup {NSlots, NoSlot},
                client : Clients \cup {NoClient}, fd : Fds \cup {0, NoFd},
                file : Files, to : 0 .. Len(Order) - 1]

(* Types, and two bounds the code relies on: the list has never more than  *)
(* its four nodes, and a full stream is tried no more than the fixed       *)
(* number of times.                                                        *)
TypeOK ==
  /\ slot \in [Slots -> SlotTypes]
  /\ thr \in [Slots -> ThreadTypes]
  /\ srv \in ServerTypes
  /\ fds \in [Fds -> FdEntries]
  /\ shm \subseteq Slots
  /\ sent \in [Slots -> Frames \cup {NoFrame}]
  /\ seen \in [Slots -> SUBSET Frames]
  /\ requests \in [AllRequests -> Nat]

(* A slot given to a new session has no thread of an earlier session left: *)
(* the thread gives it back as its last act.                               *)
NoSecondThread == srv.pc = "fill" => thr[srv.id].pc = "none"

(* A playing thread has its stream, and a free slot has none: the stream   *)
(* is created after the slot is claimed and released before it is free.    *)
StreamLives ==
  \A i \in Slots :
    /\ thr[i].pc \notin {"none", "last"} => i \in shm
    /\ ~slot[i].flag => i \notin shm

(* A frame about to be sent was read after the thread last jumped: a jump  *)
(* leaves nothing of the old position behind, in the list or in the hand.  *)
SeekForgets ==
  \A i \in Slots : thr[i].pc \in {"wait", "write"} => thr[i].frame \in seen[i]

(* The server keeps its promise to clients: see PlaybackSessions.  A stop  *)
(* lies in the slot until the thread has taken it and ends.                *)
Stopped(i) ==
  \/ slot[i].status = "STOP"
  \/ thr[i].status = "STOP" /\ thr[i].pc \in {"end", "last"}
Stage(i) ==
  CASE ~slot[i].flag -> "free"
    [] slot[i].flag /\ thr[i].pc = "none" -> "claimed"
    [] OTHER -> IF Stopped(i) THEN "stopping" ELSE "playing"
Seeking == IF srv.pc \in {"SEEK", "close", "open", "set"} THEN {srv.id} ELSE {}
Sessions == INSTANCE PlaybackSessions
              WITH stage <- [i \in Slots |-> Stage(i)], seeking <- Seeking
Implements == Sessions!Spec

(* A session is disturbed by a seek, which closes its descriptor, and by   *)
(* whatever else opens a file, which may get the number that the session   *)
(* has just closed and goes on reading: a request to play, another thread. *)
Undisturbed ==
  requests["PLAY"] <= 1 /\ requests["SEEK"] = 0 /\ "other" \notin Faults

(* A session that nobody disturbs reads from a descriptor of its own file, *)
(* though at the end of a file the thread keeps the number it has closed:  *)
(* the next file gets the same number.                                     *)
ReadsOwnFile ==
  \A i \in Slots :
    Undisturbed /\ thr[i].pc = "read" =>
      /\ thr[i].fd = slot[i].fd
      /\ Readable(thr[i].fd)
      /\ fds[thr[i].fd].file = thr[i].file

(* Frames of a session without seeks are sent in the order of time, across *)
(* files too, provided none is stored more than ListLen - 1 places late.   *)
SentInOrder ==
  [][Undisturbed => \A i \in Slots : sent[i] # NoFrame /\ sent'[i] # NoFrame => sent[i] <= sent'[i]]_vars

(* When a session that nobody disturbed is over, each descriptor it opened *)
(* is closed, though the thread closes the one it knows and the end of the *)
(* session that of the slot.  (If the two numbers differ, one is leaked at *)
(* the end of the next file: see EofClose and EofSet.)                     *)
DescriptorsClosed ==
  Undisturbed /\ srv.pc = "idle" /\ (\A i \in Slots : ~slot[i].flag) =>
    \A d \in Fds : fds[d] = Closed

(* Playback does not go on for ever: after its last file it ends by itself.*)
SessionEnds == \A i \in Slots : slot[i].flag ~> ~slot[i].flag
===============================================================================
