---------------------------- MODULE PlaybackProofs ----------------------------
(***************************************************************************)
(* Theorems about Playback: types and the bounds of the frame list and of  *)
(* the attempts to write, the ownership of slots and streams, that the     *)
(* server implements PlaybackSessions, that a jump forgets, and that a     *)
(* session alone reads its own files, closes them, and sends its frames in *)
(* the order of time.                                                      *)
(***************************************************************************)
EXTENDS Playback, FiniteSetTheorems, SequenceTheorems, TLAPS

(* A request that names a session names a slot of the table.               *)
IdInv == srv.pc \notin {"idle", "scan"} => srv.id \in Slots

TypeInv == TypeOK /\ IdInv

L == Len(Order)

(***************************************************************************)
(* The constants.                                                          *)
(***************************************************************************)
LEMMA Constants ==
  /\ L \in Nat \ {0} /\ NFiles \in Nat \ {0} /\ ListLen \in Nat \ {0}
  /\ 0 \in Files /\ 0 \in 0 .. L - 1 /\ 0 \in 0 .. L
  /\ Zero \in {"PLAY", "ZERO"} /\ Zero \in Commands
  /\ NoFd \notin Files /\ NFiles \notin Files
<1>1. L \in Nat \ {0} BY SizesAssumption, EmptySeq DEF L
<1>2. NFiles \in Nat \ {0} /\ ListLen \in Nat \ {0} BY SizesAssumption
<1>3. Zero \in {"PLAY", "ZERO"} /\ Zero \in Commands BY KindsAssumption DEF Commands
<1>4. QED BY <1>1, <1>2, <1>3 DEF Files, NoFd

(* Inserting a frame adds it to the list, in its place.                    *)
LEMMA Insertion ==
  ASSUME NEW S, NEW list \in Seq(S), NEW t \in S
  PROVE  /\ InsertPlayTime(list, t) \in Seq(S)
         /\ Len(InsertPlayTime(list, t)) = Len(list) + 1
<1> DEFINE K == {k \in DOMAIN list : list[k] <= t}
           p == Cardinality(K)
<1>1. DOMAIN list = 1 .. Len(list) /\ Len(list) \in Nat OBVIOUS
<1>2. IsFiniteSet(DOMAIN list) /\ Cardinality(DOMAIN list) = Len(list)
  BY <1>1, FS_Interval
<1>3. p \in Nat /\ p <= Len(list)
  <2>1. K \subseteq DOMAIN list OBVIOUS
  <2>2. IsFiniteSet(K) /\ p <= Cardinality(DOMAIN list) BY <1>2, <2>1, FS_Subset
  <2>3. QED BY <2>2, <1>2, FS_CardinalityType
<1> HIDE DEF p
<1>4. /\ SubSeq(list, 1, p) \in Seq(S) /\ Len(SubSeq(list, 1, p)) = p
  BY <1>3
<1>5. /\ SubSeq(list, p + 1, Len(list)) \in Seq(S)
      /\ Len(SubSeq(list, p + 1, Len(list))) = Len(list) - p
  <2> DEFINE q == p + 1
             m == Len(list)
  <2>1. q \in Int /\ m \in Int /\ q \in 1 .. m + 1 BY <1>3, <1>1
  <2> HIDE DEF q, m
  <2>2. \A k \in q .. m : list[k] \in S BY <2>1, <1>1 DEF m
  <2>3. /\ SubSeq(list, q, m) \in Seq(S)
        /\ Len(SubSeq(list, q, m)) = IF q <= m THEN m - q + 1 ELSE 0
    BY <2>1, <2>2, SubSeqProperties DEF m
  <2>4. m - q + 1 = m - p /\ (q <= m \/ m - p = 0)
    <3>1. \A a, b \in Nat : a <= b =>
            b - (a + 1) + 1 = b - a /\ (a + 1 <= b \/ b - a = 0)
      OBVIOUS
    <3>2. QED BY <3>1, <1>1, <1>3 DEF q, m
  <2>5. CASE q <= m BY <2>3, <2>4, <2>5 DEF q, m
  <2>6. CASE ~(q <= m) BY <2>3, <2>4, <2>6 DEF q, m
  <2>7. QED BY <2>5, <2>6
<1>6. InsertPlayTime(list, t) = SubSeq(list, 1, p) \o <<t>> \o SubSeq(list, p + 1, Len(list))
  BY DEF InsertPlayTime, p
<1>7. <<t>> \in Seq(S) /\ Len(<<t>>) = 1 OBVIOUS
<1>8. /\ SubSeq(list, 1, p) \o <<t>> \in Seq(S)
      /\ Len(SubSeq(list, 1, p) \o <<t>>) = p + 1
  BY <1>4, <1>7
<1> DEFINE front == SubSeq(list, 1, p) \o <<t>>
           back == SubSeq(list, p + 1, Len(list))
<1> HIDE DEF front, back
<1>9. front \o back \in Seq(S) /\ Len(front \o back) = Len(front) + Len(back)
  BY <1>5, <1>8, ConcatProperties DEF front, back
<1>10. Len(front) = p + 1 /\ Len(back) = Len(list) - p BY <1>5, <1>8 DEF front, back
<1>11. Len(front \o back) = Len(list) + 1 BY <1>1, <1>3, <1>9, <1>10
<1>12. InsertPlayTime(list, t) = front \o back BY <1>6 DEF front, back
<1>13. QED BY <1>9, <1>11, <1>12

(* What a thread reads is a frame.                                         *)
LEMMA FrameRead ==
  ASSUME TypeOK, NEW d, HasFrame(d)
  PROVE  d \in Fds /\ FrameAt(d) \in Frames /\ fds[d].pos + 1 \in 0 .. L
<1>1. d \in Fds /\ fds[d].file \in Files /\ fds[d].pos \in 0 .. L - 1
  BY Constants DEF TypeOK, FdEntries, HasFrame, Readable, L
<1> DEFINE f == fds[d].file
           o == Order[fds[d].pos + 1]
<1>2. o \in Nat /\ o < L
  BY <1>1, Constants, SizesAssumption DEF L
<1>3. f \in Nat /\ f + 1 <= NFiles BY <1>1, Constants DEF Files
<1>4. (f + 1) * L <= NFiles * L
  BY <1>3, Constants
<1>5. f * L + L = (f + 1) * L BY <1>3, Constants
<1>6. f * L \in Nat /\ NFiles * L \in Nat BY <1>3, Constants
<1> HIDE DEF f, o
<1>7. f * L + o \in 0 .. NFiles * L - 1 BY <1>2, <1>4, <1>5, <1>6, Constants
<1>8. QED BY <1>1, <1>7, Constants DEF FrameAt, Frames, f, o, L

-----------------------------------------------------------------------------
(***************************************************************************)
(* Types.                                                                  *)
(***************************************************************************)
LEMMA TypeInit == Init => TypeInv
<1> SUFFICES ASSUME Init PROVE TypeInv OBVIOUS
<1> USE Constants DEF Init
<1>1. IdleSlot \in SlotTypes BY DEF IdleSlot, SlotTypes, L
<1>2. <<>> \in Lists BY EmptySeq DEF Lists
<1>3. 0 \in 0 .. WriteTries BY SizesAssumption
<1>4. NoThread \in ThreadTypes
  BY <1>2, <1>3 DEF NoThread, ThreadTypes, ThreadPcs, L
<1>5. IdleServer \in ServerTypes BY DEF IdleServer, ServerTypes, ServerPcs, L
<1>6. Closed \in FdEntries BY DEF Closed, FdEntries, L
<1>7. srv.pc = "idle" BY DEF IdleServer
<1>8. QED BY <1>1, <1>4, <1>5, <1>6, <1>7 DEF TypeInv, TypeOK, IdInv

(* Closing and opening keep the table of descriptors a table.              *)
LEMMA CloseType ==
  ASSUME fds \in [Fds -> FdEntries], NEW d
  PROVE  CloseFd(d) \in [Fds -> FdEntries]
<1>1. Closed \in FdEntries BY Constants DEF Closed, FdEntries, L
<1>2. QED BY <1>1 DEF CloseFd

LEMMA OpenType ==
  ASSUME fds \in [Fds -> FdEntries], NEW f \in Files, NEW d \in Fds, OpenAt(f, d)
  PROVE  fds' \in [Fds -> FdEntries]
<1>1. Opened(f) \in FdEntries BY Constants DEF Opened, FdEntries, Files, L
<1>2. QED BY <1>1 DEF OpenAt

(* A thread's step leaves the threads well-typed if it makes its own so.   *)
LEMMA ThreadType ==
  ASSUME thr \in [Slots -> ThreadTypes], NEW i \in Slots, NEW from,
         NEW th \in ThreadTypes, Thread(i, from, th)
  PROVE  thr' \in [Slots -> ThreadTypes]
BY DEF Thread

(* A slot with one part changed is a slot.                                 *)
LEMMA SlotEdits ==
  ASSUME NEW s \in SlotTypes
  PROVE  /\ \A b \in BOOLEAN : /\ [s EXCEPT !.flag = b] \in SlotTypes
                              /\ [s EXCEPT !.seek = b] \in SlotTypes
                              /\ [s EXCEPT !.speed = b] \in SlotTypes
         /\ \A c \in Commands : [s EXCEPT !.status = c] \in SlotTypes
         /\ \A d \in Fds \cup {0, NoFd} : [s EXCEPT !.fd = d] \in SlotTypes
         /\ \A f \in Files : [s EXCEPT !.file = f] \in SlotTypes
         /\ \A t \in 0 .. Len(Order) - 1 : [s EXCEPT !.to = t] \in SlotTypes
         /\ \A c \in Clients \cup {NoClient} : [s EXCEPT !.client = c] \in SlotTypes
BY DEF SlotTypes

LEMMA SlotPut ==
  ASSUME slot \in [Slots -> SlotTypes], NEW i \in Slots, NEW s \in SlotTypes
  PROVE  [slot EXCEPT ![i] = s] \in [Slots -> SlotTypes]
OBVIOUS

LEMMA ServerTyped == TypeInv /\ Serves => TypeInv'
<1> SUFFICES ASSUME TypeInv, Serves PROVE TypeInv' OBVIOUS
<1> USE DEF TypeInv, TypeOK, IdInv
<1> USE Constants
<1>0. IdleServer \in ServerTypes /\ IdleServer.pc = "idle"
  BY DEF IdleServer, ServerTypes, ServerPcs, L
<1>1. CASE PlayClaim
  <2>1. [srv EXCEPT !.pc = "fill"] \in ServerTypes BY DEF ServerTypes, ServerPcs
  <2>2. [slot EXCEPT ![srv.id].flag = TRUE] \in [Slots -> SlotTypes]
    <3>1. slot[srv.id] \in SlotTypes BY <1>1 DEF PlayClaim
    <3>2. [slot[srv.id] EXCEPT !.flag = TRUE] \in SlotTypes BY <3>1, SlotEdits
    <3>3. QED BY <3>2, SlotPut, <1>1 DEF PlayClaim
  <2>3. srv.id \in Slots /\ srv'.id = srv.id BY <1>1 DEF PlayClaim, ServerTypes
  <2>4. QED BY <1>1, <2>1, <2>2, <2>3 DEF PlayClaim, history
<1>2. CASE PlayPass
  <2>1. srv.id + 1 \in Slots \cup {NSlots, NoSlot}
    <3>1. srv.id \in Slots BY <1>2 DEF PlayPass
    <3>2. QED BY <3>1, SizesAssumption, SMTT(30) DEF Slots
  <2>2. [srv EXCEPT !.id = @ + 1] \in ServerTypes BY <2>1 DEF ServerTypes
  <2>3. srv'.pc = "scan" BY <1>2 DEF PlayPass, ServerTypes
  <2>4. QED BY <1>2, <2>2, <2>3 DEF PlayPass, history
<1>3. CASE PlayRefused
  BY <1>0, <1>3, CloseType DEF PlayRefused, history
<1>4. CASE PlayStart
  <2>1. srv.id \in Slots BY <1>4 DEF PlayStart
  <2>2. Filled(slot[srv.id]) \in SlotTypes
    <3>1. slot[srv.id] \in SlotTypes BY <2>1
    <3> HIDE DEF TypeOK, TypeInv
    <3>2. /\ srv.fd \in Fds \cup {0, NoFd} /\ srv.client \in Clients \cup {NoClient}
          /\ srv.to \in 0 .. Len(Order) - 1 /\ srv.file \in Files
      BY DEF TypeInv, TypeOK, ServerTypes
    <3>3. QED BY <3>1, <3>2 DEF Filled, SlotTypes, Commands
  <2>3. <<>> \in Lists BY EmptySeq DEF Lists
  <2>4. 0 \in 0 .. WriteTries BY SizesAssumption
  <2>5. [NoThread EXCEPT !.pc = "top", !.fd = srv.fd] \in ThreadTypes
    BY <2>3, <2>4 DEF NoThread, ThreadTypes, ThreadPcs, ServerTypes, L
  <2>6. QED BY <1>0, <1>4, <2>1, <2>2, <2>5 DEF PlayStart
<1>5. CASE SetStop
  <2>1. srv.id \in Slots BY <1>5 DEF SetStop
  <2>2. [slot EXCEPT ![srv.id].status = "STOP"] \in [Slots -> SlotTypes]
    <3>1. slot[srv.id] \in SlotTypes /\ "STOP" \in Commands BY <2>1 DEF Commands
    <3>2. [slot[srv.id] EXCEPT !.status = "STOP"] \in SlotTypes BY <3>1, SlotEdits
    <3>3. QED BY <2>1, <3>2, SlotPut
  <2>3. QED BY <1>0, <1>5, <2>2 DEF SetStop, history
<1>6. CASE SetSpeed
  <2>1. srv.id \in Slots BY <1>6 DEF SetSpeed
  <2>2. [slot EXCEPT ![srv.id].speed = TRUE] \in [Slots -> SlotTypes]
    <3>1. slot[srv.id] \in SlotTypes BY <2>1
    <3>2. [slot[srv.id] EXCEPT !.speed = TRUE] \in SlotTypes BY <3>1, SlotEdits
    <3>3. QED BY <2>1, <3>2, SlotPut
  <2>3. QED BY <1>0, <1>6, <2>2 DEF SetSpeed, history
<1>7. CASE SeekTake
  <2>1. srv.id \in Slots BY <1>7 DEF SeekTake
  <2>2. slot[srv.id].fd \in Fds \cup {0, NoFd} BY <2>1 DEF SlotTypes
  <2>3. [srv EXCEPT !.pc = "close", !.fd = slot[srv.id].fd] \in ServerTypes
    BY <2>2 DEF ServerTypes, ServerPcs
  <2>4. srv'.id = srv.id BY <1>7 DEF SeekTake, ServerTypes
  <2>5. QED BY <1>7, <2>1, <2>3, <2>4 DEF SeekTake, history
<1>8. CASE SeekClose
  <2>1. [srv EXCEPT !.pc = "open"] \in ServerTypes BY DEF ServerTypes, ServerPcs
  <2>2. srv.id \in Slots /\ srv'.id = srv.id BY <1>8 DEF SeekClose, ServerTypes
  <2>3. QED BY <1>8, <2>1, <2>2, CloseType DEF SeekClose, history
<1>9. CASE SeekOpen
  <2>1. srv.id \in Slots /\ srv.file \in Files BY <1>9 DEF SeekOpen, ServerTypes
  <2>2. CASE CanOpen(srv.file)
    <3>1. PICK d \in Fds : /\ OpenAt(srv.file, d)
                           /\ srv' = [srv EXCEPT !.pc = "set", !.fd = d]
      BY <1>9, <2>2 DEF SeekOpen
    <3>2. srv' \in ServerTypes /\ srv'.id = srv.id
      BY <3>1 DEF ServerTypes, ServerPcs
    <3>3. fds' \in [Fds -> FdEntries] BY <2>1, <3>1, OpenType
    <3>4. QED BY <1>9, <2>1, <3>2, <3>3 DEF SeekOpen, history
  <2>3. CASE ~CanOpen(srv.file) BY <1>0, <1>9, <2>3 DEF SeekOpen, history
  <2>4. QED BY <2>2, <2>3
<1>10. CASE SeekSet
  <2>1. srv.id \in Slots BY <1>10 DEF SeekSet
  <2>2. [slot[srv.id] EXCEPT !.fd = srv.fd, !.to = srv.to, !.seek = TRUE,
                             !.status = "SEEK", !.file = srv.file] \in SlotTypes
    <3>1. slot[srv.id] \in SlotTypes BY <2>1
    <3> HIDE DEF TypeOK, TypeInv
    <3>2. /\ srv.fd \in Fds \cup {0, NoFd}
          /\ srv.to \in 0 .. Len(Order) - 1 /\ srv.file \in Files
      BY DEF TypeInv, TypeOK, ServerTypes
    <3>3. QED BY <3>1, <3>2 DEF SlotTypes, Commands
  <2>3. QED BY <1>0, <1>10, <2>1, <2>2 DEF SeekSet, history
<1>11. QED
  BY <1>1, <1>2, <1>3, <1>4, <1>5, <1>6, <1>7, <1>8, <1>9, <1>10 DEF Serves

LEMMA AskedTyped == TypeInv /\ Asked => TypeInv'
<1> SUFFICES ASSUME TypeInv, Asked PROVE TypeInv' OBVIOUS
<1> USE DEF TypeInv, TypeOK, IdInv
<1>0. \A r \in AllRequests : Request(r) => requests' \in [AllRequests -> Nat]
  BY DEF Request
<1>1. ASSUME NEW c \in Clients, Destroy(c) PROVE TypeInv'
  <2>1. requests' \in [AllRequests -> Nat] BY <1>0, <1>1 DEF Destroy, AllRequests
  <2>2. \A i \in Slots : DestroyStop(i, c) \in SlotTypes
    <3>1. "STOP" \in Commands BY DEF Commands
    <3>2. QED BY <3>1, SlotEdits DEF DestroyStop
  <2>3. slot' \in [Slots -> SlotTypes] BY <1>1, <2>2 DEF Destroy
  <2>4. srv.pc = "idle" BY <1>1 DEF Destroy, Request
  <2>5. QED BY <1>1, <2>1, <2>3, <2>4 DEF Destroy
<1>2. ASSUME NEW c \in Clients, NEW f \in Files, NEW to \in 0 .. Len(Order) - 1,
             PlayOpen(c, f, to)
      PROVE  TypeInv'
  <2>1. requests' \in [AllRequests -> Nat] BY <1>0, <1>2 DEF PlayOpen, AllRequests
  <2>2. CASE CanOpen(f)
    <3>1. PICK d \in Fds : /\ OpenAt(f, d)
                           /\ srv' = [pc |-> "scan", id |-> 0, client |-> c,
                                      fd |-> d, file |-> f, to |-> to]
      BY <1>2, <2>2 DEF PlayOpen
    <3>2. 0 \in Slots BY SizesAssumption DEF Slots
    <3>3. srv' \in ServerTypes BY <3>1, <3>2 DEF ServerTypes, ServerPcs
    <3>4. fds' \in [Fds -> FdEntries] BY <3>1, OpenType
    <3>5. QED BY <1>2, <2>1, <3>1, <3>3, <3>4 DEF PlayOpen
  <2>3. CASE ~CanOpen(f) BY <1>2, <2>1, <2>3 DEF PlayOpen, Request
  <2>4. QED BY <2>2, <2>3
<1>3. ASSUME NEW r \in AllRequests \cap ServerPcs, NEW i \in Slots, NEW f \in Files,
             NEW to \in 0 .. Len(Order) - 1, Command(r, i, f, to)
      PROVE  TypeInv'
  <2>1. requests' \in [AllRequests -> Nat] BY <1>0, <1>3 DEF Command
  <2>2. [IdleServer EXCEPT !.pc = r, !.id = i, !.file = f, !.to = to] \in ServerTypes
    BY DEF IdleServer, ServerTypes
  <2>3. CASE slot[i].flag
    <3>1. srv' \in ServerTypes /\ srv'.id = i
      BY <1>3, <2>2, <2>3 DEF Command, IdleServer
    <3>2. QED BY <1>3, <2>1, <3>1 DEF Command
  <2>4. CASE ~slot[i].flag BY <1>3, <2>1, <2>4 DEF Command
  <2>5. QED BY <2>3, <2>4
<1>4. {"STOP", "SPEED", "SEEK"} \subseteq AllRequests \cap ServerPcs
  BY DEF AllRequests, ServerPcs
<1>5. 0 \in Files /\ 0 \in 0 .. Len(Order) - 1 BY Constants DEF L
<1> HIDE DEF TypeInv, TypeOK, IdInv
<1>6. QED BY <1>1, <1>2, <1>3, <1>4, <1>5 DEF Asked

(* A thread with one part changed is a thread.                             *)
LEMMA ThreadEdits ==
  ASSUME NEW th \in ThreadTypes
  PROVE  /\ \A p \in ThreadPcs : [th EXCEPT !.pc = p] \in ThreadTypes
         /\ \A c \in Commands : [th EXCEPT !.status = c] \in ThreadTypes
         /\ \A d \in Fds \cup {0, NoFd} : [th EXCEPT !.fd = d] \in ThreadTypes
         /\ \A d \in Fds \cup {NoFd} : [th EXCEPT !.new = d] \in ThreadTypes
         /\ \A f \in Files : [th EXCEPT !.file = f] \in ThreadTypes
         /\ \A t \in 0 .. Len(Order) - 1 : [th EXCEPT !.to = t] \in ThreadTypes
         /\ \A t \in Frames \cup {NoFrame} : [th EXCEPT !.frame = t] \in ThreadTypes
         /\ \A l \in Lists : [th EXCEPT !.list = l] \in ThreadTypes
         /\ \A n \in 0 .. WriteTries : [th EXCEPT !.tries = n] \in ThreadTypes
BY DEF ThreadTypes

(* The list takes a frame in while it has room, and gives one up when not. *)
LEMMA ReadTyped ==
  ASSUME NEW th \in ThreadTypes, NEW t \in Frames
  PROVE  AfterRead(th, t) \in ThreadTypes
<1>1. th.list \in Seq(Frames) /\ Len(th.list) <= ListLen /\ Len(th.list) \in Nat
  BY DEF ThreadTypes, Lists
<1>2. CASE Len(th.list) < ListLen
  <2>1. InsertPlayTime(th.list, t) \in Lists
    <3>1. \A n, m \in Nat : n < m => n + 1 <= m OBVIOUS
    <3>2. Len(th.list) + 1 <= ListLen BY <1>1, <1>2, <3>1, Constants
    <3>3. /\ InsertPlayTime(th.list, t) \in Seq(Frames)
          /\ Len(InsertPlayTime(th.list, t)) = Len(th.list) + 1
      BY <1>1, Insertion
    <3>4. QED BY <3>2, <3>3 DEF Lists
  <2>2. QED BY <1>2, <2>1 DEF AfterRead, ThreadTypes, ThreadPcs
<1>3. CASE ~(Len(th.list) < ListLen)
  <2>1. th.list # <<>> BY <1>1, <1>3, Constants
  <2>2. /\ Head(th.list) \in Frames /\ Tail(th.list) \in Seq(Frames)
        /\ Len(Tail(th.list)) = Len(th.list) - 1
    BY <1>1, <2>1, HeadTailProperties
  <2>3. InsertPlayTime(Tail(th.list), t) \in Lists
    <3>1. /\ InsertPlayTime(Tail(th.list), t) \in Seq(Frames)
          /\ Len(InsertPlayTime(Tail(th.list), t)) = Len(Tail(th.list)) + 1
      BY <2>2, Insertion
    <3>2. Len(th.list) - 1 + 1 = Len(th.list)
      <4>1. \A n \in Nat : n - 1 + 1 = n OBVIOUS
      <4>2. QED BY <4>1, <1>1
    <3>3. QED BY <1>1, <2>2, <3>1, <3>2 DEF Lists
  <2>4. QED BY <1>3, <2>2, <2>3 DEF AfterRead, ThreadTypes, ThreadPcs
<1>4. QED BY <1>2, <1>3

LEMMA PlayerTyped == ASSUME TypeInv, NEW i \in Slots, Player(i) PROVE TypeInv'
<1> DEFINE th == thr[i]
<1>0. /\ th \in ThreadTypes /\ slot[i] \in SlotTypes
      /\ thr \in [Slots -> ThreadTypes] /\ slot \in [Slots -> SlotTypes]
      /\ fds \in [Fds -> FdEntries]
  BY DEF TypeInv, TypeOK
<1>a. srv' = srv
  BY DEF Player, Top, Jump, JumpFails, Read, ReadEnd, EofClose, EofOpen, EofLast,
         EofSet, Poll, WaitOver, Write, WriteFull, End, Last, history
<1>b. IdInv' BY <1>a DEF TypeInv, IdInv
<1>c. <<>> \in Lists BY EmptySeq, Constants DEF Lists
<1>d. /\ slot[i].status \in Commands /\ slot[i].fd \in Fds \cup {0, NoFd}
      /\ slot[i].file \in Files /\ slot[i].to \in 0 .. Len(Order) - 1
  BY <1>0 DEF SlotTypes
<1>e. NoFrame \in Frames \cup {NoFrame} /\ NoFd \in Fds \cup {NoFd}
      /\ NoFd \in Fds \cup {0, NoFd} /\ 0 \in 0 .. WriteTries
  BY SizesAssumption
(* It is enough to look at what a step changes.                            *)
<1>f. ASSUME thr' \in [Slots -> ThreadTypes], slot' \in [Slots -> SlotTypes],
             fds' \in [Fds -> FdEntries], shm' \subseteq Slots,
             sent' \in [Slots -> Frames \cup {NoFrame}],
             seen' \in [Slots -> SUBSET Frames], requests' = requests
      PROVE  TypeInv'
  BY <1>a, <1>b, <1>f DEF TypeInv, TypeOK
<1>g. /\ shm \subseteq Slots /\ sent \in [Slots -> Frames \cup {NoFrame}]
      /\ seen \in [Slots -> SUBSET Frames]
  BY DEF TypeInv, TypeOK
<1>1. CASE Top(i)
  <2> DEFINE new == [th EXCEPT !.pc = AfterTop(i), !.status = slot[i].status,
                               !.file = slot[i].file,
                               !.fd = IF slot[i].seek THEN slot[i].fd ELSE @,
                               !.to = IF slot[i].seek THEN slot[i].to ELSE @]
  <2>1. AfterTop(i) \in ThreadPcs BY DEF AfterTop, ThreadPcs
  <2>2. new \in ThreadTypes BY <1>0, <1>d, <2>1 DEF ThreadTypes
  <2>3. thr' \in [Slots -> ThreadTypes]
    <3>1. Thread(i, "top", new) BY <1>1 DEF Top
    <3> HIDE DEF new
    <3>2. QED BY <1>0, <2>2, <3>1, ThreadType
  <2>4. slot' \in [Slots -> SlotTypes]
    <3>1. [slot[i] EXCEPT !.seek = FALSE, !.speed = FALSE] \in SlotTypes
      BY <1>0 DEF SlotTypes
    <3>2. slot' = [slot EXCEPT ![i] = [slot[i] EXCEPT !.seek = FALSE, !.speed = FALSE]]
      BY <1>0, <1>1 DEF Top
    <3>3. QED BY <1>0, <3>1, <3>2, SlotPut
  <2>5. QED BY <1>1, <1>0, <1>f, <1>g, <2>3, <2>4 DEF Top, history
<1>2. CASE Jump(i)
  <2>1. ClearPlayTime(th.list) \in Lists BY <1>c DEF ClearPlayTime
  <2>2. [th EXCEPT !.pc = "read", !.list = ClearPlayTime(@)] \in ThreadTypes
    BY <1>0, <2>1 DEF ThreadTypes, ThreadPcs
  <2>3. thr' \in [Slots -> ThreadTypes] BY <1>0, <1>2, <2>2, ThreadType DEF Jump
  <2>4. th.fd \in Fds /\ th.to \in 0 .. Len(Order)
    BY <1>0, <1>2, Constants DEF Jump, Readable, ThreadTypes, L
  <2>5. [fds[th.fd] EXCEPT !.pos = th.to] \in FdEntries
    BY <1>0, <2>4 DEF FdEntries
  <2>6. fds' \in [Fds -> FdEntries] BY <1>0, <1>2, <2>4, <2>5 DEF Jump
  <2>7. QED BY <1>2, <1>0, <1>e, <1>f, <1>g, <2>3, <2>6 DEF Jump
<1>3. CASE JumpFails(i)
  <2>1. [th EXCEPT !.pc = "read"] \in ThreadTypes
    BY <1>0, ThreadEdits DEF ThreadPcs
  <2>2. thr' \in [Slots -> ThreadTypes] BY <1>0, <1>3, <2>1, ThreadType DEF JumpFails
  <2>3. QED BY <1>3, <1>0, <1>f, <1>g, <2>2 DEF JumpFails, history
<1>4. CASE Read(i)
  <2>1. /\ th.fd \in Fds /\ FrameAt(th.fd) \in Frames
        /\ fds[th.fd].pos + 1 \in 0 .. Len(Order)
    BY <1>4, FrameRead DEF Read, TypeInv, L
  <2>2. AfterRead(th, FrameAt(th.fd)) \in ThreadTypes BY <1>0, <2>1, ReadTyped
  <2>3. thr' \in [Slots -> ThreadTypes] BY <1>0, <1>4, <2>2, ThreadType DEF Read
  <2>4. [fds[th.fd] EXCEPT !.pos = @ + 1] \in FdEntries
    BY <1>0, <2>1 DEF FdEntries
  <2>5. fds' \in [Fds -> FdEntries] BY <1>0, <1>4, <2>1, <2>4 DEF Read
  <2>6. seen' \in [Slots -> SUBSET Frames] BY <1>4, <1>g, <2>1 DEF Read
  <2>7. QED BY <1>4, <1>0, <1>f, <1>g, <2>3, <2>5, <2>6 DEF Read
<1>5. CASE ReadEnd(i)
  <2>1. [th EXCEPT !.pc = "eof", !.frame = NoFrame] \in ThreadTypes
    BY <1>0, <1>e DEF ThreadTypes, ThreadPcs
  <2>2. thr' \in [Slots -> ThreadTypes] BY <1>0, <1>5, <2>1, ThreadType DEF ReadEnd
  <2>3. QED BY <1>5, <1>0, <1>f, <1>g, <2>2 DEF ReadEnd, history
<1>6. CASE EofClose(i)
  <2>1. PICK next \in {"next", "end"} : Thread(i, "eof", [th EXCEPT !.pc = next])
    BY <1>6 DEF EofClose
  <2>2. [th EXCEPT !.pc = next] \in ThreadTypes BY <1>0, ThreadEdits DEF ThreadPcs
  <2>3. thr' \in [Slots -> ThreadTypes] BY <1>0, <2>1, <2>2, ThreadType
  <2>4. fds' \in [Fds -> FdEntries] BY <1>0, <1>6, CloseType DEF EofClose
  <2>5. QED BY <1>6, <1>0, <1>f, <1>g, <2>3, <2>4 DEF EofClose, history
<1>7. CASE EofOpen(i)
  <2>1. PICK f \in Later(th.file), d \in Fds :
          /\ OpenAt(f, d)
          /\ Thread(i, "next", [th EXCEPT !.pc = "eofset", !.file = f, !.new = d])
          /\ UNCHANGED <<slot, srv, shm, history>>
    BY <1>7 DEF EofOpen
  <2>2. f \in Files BY KindsAssumption DEF Later
  <2>3. [th EXCEPT !.pc = "eofset", !.file = f, !.new = d] \in ThreadTypes
    BY <1>0, <2>2 DEF ThreadTypes, ThreadPcs
  <2>4. thr' \in [Slots -> ThreadTypes] BY <1>0, <2>1, <2>3, ThreadType
  <2>5. fds' \in [Fds -> FdEntries] BY <1>0, <2>1, <2>2, OpenType
  <2>6. QED BY <1>0, <1>f, <1>g, <2>1, <2>4, <2>5 DEF history
<1>8. CASE EofLast(i)
  <2>1. [th EXCEPT !.pc = "end"] \in ThreadTypes BY <1>0, ThreadEdits DEF ThreadPcs
  <2>2. thr' \in [Slots -> ThreadTypes] BY <1>0, <1>8, <2>1, ThreadType DEF EofLast
  <2>3. QED BY <1>8, <1>0, <1>f, <1>g, <2>2 DEF EofLast, history
<1>9. CASE EofSet(i)
  <2>1. [th EXCEPT !.pc = "top", !.new = NoFd] \in ThreadTypes
    BY <1>0, <1>e DEF ThreadTypes, ThreadPcs
  <2>2. thr' \in [Slots -> ThreadTypes] BY <1>0, <1>9, <2>1, ThreadType DEF EofSet
  <2>3. th.file \in Files /\ th.new \in Fds \cup {0, NoFd} BY <1>0 DEF ThreadTypes
  <2>4. [slot[i] EXCEPT !.file = th.file, !.fd = th.new, !.seek = FALSE] \in SlotTypes
    BY <1>0, <2>3 DEF SlotTypes
  <2>5. slot' \in [Slots -> SlotTypes] BY <1>0, <1>9, <2>4, SlotPut DEF EofSet
  <2>6. QED BY <1>9, <1>0, <1>f, <1>g, <2>2, <2>5 DEF EofSet, history
<1>10. CASE Poll(i)
  <2>1. AfterPoll(th, slot[i].status) \in ThreadTypes
    BY <1>0, <1>d, <1>e DEF AfterPoll, ThreadTypes, ThreadPcs
  <2>2. thr' \in [Slots -> ThreadTypes] BY <1>0, <1>10, <2>1, ThreadType DEF Poll
  <2>3. [slot[i] EXCEPT !.status = Zero] \in SlotTypes BY <1>0, SlotEdits, Constants
  <2>4. slot' = [slot EXCEPT ![i] = [slot[i] EXCEPT !.status = Zero]]
    BY <1>0, <1>10 DEF Poll
  <2>5. slot' \in [Slots -> SlotTypes] BY <1>0, <2>3, <2>4, SlotPut
  <2>6. QED BY <1>10, <1>0, <1>f, <1>g, <2>2, <2>5 DEF Poll, history
<1>11. CASE WaitOver(i)
  <2>1. /\ [th EXCEPT !.pc = "top", !.frame = NoFrame] \in ThreadTypes
        /\ [th EXCEPT !.pc = "write", !.tries = 0] \in ThreadTypes
    BY <1>0, <1>e DEF ThreadTypes, ThreadPcs
  <2>2. thr' \in [Slots -> ThreadTypes] BY <1>0, <1>11, <2>1, ThreadType DEF WaitOver
  <2>3. QED BY <1>11, <1>0, <1>f, <1>g, <2>2 DEF WaitOver, history
<1>12. CASE Write(i)
  <2>1. [th EXCEPT !.pc = "top", !.frame = NoFrame, !.tries = 0] \in ThreadTypes
    BY <1>0, <1>e DEF ThreadTypes, ThreadPcs
  <2>2. thr' \in [Slots -> ThreadTypes] BY <1>0, <1>12, <2>1, ThreadType DEF Write
  <2>3. th.frame \in Frames \cup {NoFrame} BY <1>0 DEF ThreadTypes
  <2>4. sent' \in [Slots -> Frames \cup {NoFrame}] BY <1>12, <1>g, <2>3 DEF Write
  <2>5. QED BY <1>12, <1>0, <1>f, <1>g, <2>2, <2>4 DEF Write
<1>13. CASE WriteFull(i)
  <2>1. AfterFull(th, slot[i].status) \in ThreadTypes
    <3>1. th.tries < WriteTries => th.tries + 1 \in 0 .. WriteTries
      BY <1>0, SizesAssumption DEF ThreadTypes
    <3>2. QED BY <1>0, <1>d, <1>e, <3>1 DEF AfterFull, ThreadTypes, ThreadPcs
  <2>2. thr' \in [Slots -> ThreadTypes] BY <1>0, <1>13, <2>1, ThreadType DEF WriteFull
  <2>3. QED BY <1>13, <1>0, <1>f, <1>g, <2>2 DEF WriteFull, history
<1>14. CASE End(i)
  <2>1. ClearPlayTime(th.list) \in Lists BY <1>c DEF ClearPlayTime
  <2>2. [th EXCEPT !.pc = "last", !.frame = NoFrame, !.list = ClearPlayTime(@)]
          \in ThreadTypes
    BY <1>0, <1>e, <2>1 DEF ThreadTypes, ThreadPcs
  <2>3. thr' \in [Slots -> ThreadTypes] BY <1>0, <1>14, <2>2, ThreadType DEF End
  <2>4. shm' \subseteq Slots BY <1>14, <1>g DEF End, ReleaseStream
  <2>5. QED BY <1>14, <1>0, <1>f, <1>g, <2>3, <2>4 DEF End, history
<1>15. CASE Last(i)
  <2>1. NoThread \in ThreadTypes
    BY <1>c, <1>e, Constants DEF NoThread, ThreadTypes, ThreadPcs, L
  <2>2. thr' \in [Slots -> ThreadTypes] BY <1>0, <1>15, <2>1, ThreadType DEF Last
  <2>3. [slot[i] EXCEPT !.flag = FALSE, !.client = NoClient, !.fd = NoFd] \in SlotTypes
    BY <1>0 DEF SlotTypes
  <2>4. slot' \in [Slots -> SlotTypes] BY <1>0, <1>15, <2>3, SlotPut DEF Last
  <2>5. fds' \in [Fds -> FdEntries] BY <1>0, <1>15, CloseType DEF Last
  <2>6. QED BY <1>15, <1>0, <1>f, <1>g, <2>2, <2>4, <2>5 DEF Last, history
<1>16. QED
  BY <1>1, <1>2, <1>3, <1>4, <1>5, <1>6, <1>7, <1>8, <1>9, <1>10, <1>11, <1>12,
     <1>13, <1>14, <1>15 DEF Player

LEMMA TypeNext == TypeInv /\ [Next]_vars => TypeInv'
<1> SUFFICES ASSUME TypeInv, [Next]_vars PROVE TypeInv' OBVIOUS
<1>1. CASE Asked BY <1>1, AskedTyped
<1>2. CASE Serves BY <1>2, ServerTyped
<1>3. ASSUME NEW i \in Slots, Player(i) PROVE TypeInv' BY <1>3, PlayerTyped
<1>4. CASE OtherOpens
  <2>1. Foreign \in FdEntries BY Constants DEF Foreign, FdEntries, L
  <2>2. fds' \in [Fds -> FdEntries] BY <1>4, <2>1 DEF OtherOpens, TypeInv, TypeOK
  <2>3. QED BY <1>4, <2>2 DEF OtherOpens, history, TypeInv, TypeOK, IdInv
<1>5. CASE OtherCloses
  <2>1. fds' \in [Fds -> FdEntries]
    BY <1>5, CloseType DEF OtherCloses, TypeInv, TypeOK
  <2>2. QED BY <1>5, <2>1 DEF OtherCloses, history, TypeInv, TypeOK, IdInv
<1>6. CASE UNCHANGED vars BY <1>6 DEF vars, TypeInv, TypeOK, IdInv
<1>7. QED BY <1>1, <1>2, <1>3, <1>4, <1>5, <1>6 DEF Next

(* Types hold, and with them the two bounds: the list of waiting frames    *)
(* never outgrows its nodes, a full stream is tried no more often than the *)
(* fixed number of times.                                                  *)
THEOREM PlaybackTypeCorrect == Spec => []TypeOK
<1>1. TypeInv => TypeOK BY DEF TypeInv
<1>2. QED BY <1>1, TypeInit, TypeNext, PTL DEF Spec

-----------------------------------------------------------------------------
(***************************************************************************)
(* Who owns a slot.  It is free, or being filled in by the server, or used *)
(* by its thread, and it has its stream until the thread's last act.       *)
(***************************************************************************)
Filling(i) == srv.pc = "fill" /\ srv.id = i

Owner(i) ==
  /\ thr[i].pc # "none" <=> slot[i].flag /\ ~Filling(i)
  /\ Filling(i) => slot[i].flag
  /\ i \in shm <=> slot[i].flag /\ thr[i].pc # "last"
OwnInv == \A i \in Slots : Owner(i)

(* What most steps leave alone.                                            *)
SameOwner(i) ==
  /\ slot'[i].flag = slot[i].flag
  /\ thr'[i].pc = thr[i].pc \/ {thr[i].pc, thr'[i].pc} \cap {"none", "last"} = {}
  /\ Filling(i)' <=> Filling(i)
  /\ i \in shm' <=> i \in shm

LEMMA SameOwnerKeeps == ASSUME NEW i, Owner(i), SameOwner(i) PROVE Owner(i)'
BY DEF Owner, SameOwner, Filling

LEMMA OwnerInit == Init => OwnInv
BY DEF Init, OwnInv, Owner, Filling, IdleSlot, NoThread, IdleServer

(* The server's steps other than the claim and the start of a session.     *)
LEMMA ServerQuiet ==
  ASSUME TypeInv, Asked \/ (Serves /\ ~PlayClaim /\ ~PlayStart), NEW i \in Slots
  PROVE  SameOwner(i) /\ thr' = thr /\ ~Filling(i)
<1> USE DEF TypeInv, TypeOK, IdInv, SameOwner, Filling
<1>0. srv \in ServerTypes /\ slot \in [Slots -> SlotTypes] OBVIOUS
<1>s. \A r : [IdleServer EXCEPT !.pc = r].pc = r BY DEF IdleServer
<1>1. ASSUME NEW c \in Clients, Destroy(c) PROVE SameOwner(i) /\ thr' = thr /\ ~Filling(i)
  <2>1. slot'[i].flag = slot[i].flag
    BY <1>1, <1>0 DEF Destroy, DestroyStop, SlotTypes
  <2>2. QED BY <1>1, <2>1 DEF Destroy, Request
<1>2. ASSUME NEW c \in Clients, NEW f \in Files, NEW to \in 0 .. Len(Order) - 1,
             PlayOpen(c, f, to)
      PROVE  SameOwner(i) /\ thr' = thr /\ ~Filling(i)
  <2>1. srv' = srv \/ srv'.pc = "scan" BY <1>2 DEF PlayOpen
  <2>2. QED BY <1>2, <2>1 DEF PlayOpen, Request
<1>3. ASSUME NEW r \in {"STOP", "SPEED", "SEEK"}, NEW j \in Slots, NEW f, NEW to,
             Command(r, j, f, to)
      PROVE  SameOwner(i) /\ thr' = thr /\ ~Filling(i)
  <2>1. srv' = srv \/ srv'.pc = r BY <1>3 DEF Command, IdleServer
  <2>2. QED BY <1>3, <2>1 DEF Command, Request
<1>4. CASE Asked BY <1>1, <1>2, <1>3, <1>4 DEF Asked
<1>5. ASSUME PlayPass \/ PlayRefused \/ SeekTake \/ SeekClose \/ SeekOpen
      PROVE  SameOwner(i) /\ thr' = thr /\ ~Filling(i)
  <2>1. srv'.pc \in {"idle", "scan", "close", "open", "set"} /\ srv.pc # "fill"
    <3>1. CASE PlayPass BY <1>0, <3>1 DEF PlayPass, ServerTypes
    <3>2. CASE PlayRefused BY <3>2 DEF PlayRefused, IdleServer
    <3>3. CASE SeekTake BY <1>0, <3>3 DEF SeekTake, ServerTypes
    <3>4. CASE SeekClose BY <1>0, <3>4 DEF SeekClose, ServerTypes
    <3>5. CASE SeekOpen
      <4>1. \A d \in Fds : [srv EXCEPT !.pc = "set", !.fd = d].pc = "set"
        BY <1>0 DEF ServerTypes
      <4>2. CASE CanOpen(srv.file)
        <5>1. \E d \in Fds : srv' = [srv EXCEPT !.pc = "set", !.fd = d]
          BY <3>5, <4>2 DEF SeekOpen
        <5>2. QED BY <3>5, <4>1, <5>1 DEF SeekOpen
      <4>3. CASE ~CanOpen(srv.file) BY <3>5, <4>3 DEF SeekOpen, IdleServer
      <4>4. QED BY <4>2, <4>3
    <3>6. QED BY <1>5, <3>1, <3>2, <3>3, <3>4, <3>5
  <2>2. UNCHANGED <<slot, thr, shm>>
    BY <1>5 DEF PlayPass, PlayRefused, SeekTake, SeekClose, SeekOpen
  <2>3. QED BY <2>1, <2>2
<1>6. ASSUME SetStop \/ SetSpeed \/ SeekSet
      PROVE  SameOwner(i) /\ thr' = thr /\ ~Filling(i)
  <2>1. srv'.pc = "idle" /\ srv.pc # "fill" /\ UNCHANGED <<thr, shm>>
    BY <1>6 DEF SetStop, SetSpeed, SeekSet, IdleServer
  <2>2. slot'[i].flag = slot[i].flag
    <3>0. srv.id \in Slots /\ slot[i] \in SlotTypes
      BY <1>6, <1>0 DEF SetStop, SetSpeed, SeekSet
    <3> HIDE DEF TypeInv, TypeOK
    <3>1. CASE SetStop BY <1>0, <3>0, <3>1 DEF SetStop, SlotTypes
    <3>2. CASE SetSpeed BY <1>0, <3>0, <3>2 DEF SetSpeed, SlotTypes
    <3>3. CASE SeekSet BY <1>0, <3>0, <3>3 DEF SeekSet, SlotTypes
    <3>4. QED BY <1>6, <3>1, <3>2, <3>3
  <2>3. QED BY <2>1, <2>2
<1>7. QED BY <1>4, <1>5, <1>6 DEF Serves

(* A thread's steps other than its last two, seen from any slot j.         *)
LEMMA PlayerQuiet ==
  ASSUME TypeInv, NEW i \in Slots, Player(i), ~End(i), ~Last(i), NEW j \in Slots
  PROVE  SameOwner(j) /\ srv' = srv
<1> DEFINE quiet == {"top", "jump", "read", "eof", "next", "eofset", "wait", "write", "end"}
<1>0. thr \in [Slots -> ThreadTypes] /\ slot \in [Slots -> SlotTypes]
  BY DEF TypeInv, TypeOK
<1>1. srv' = srv /\ shm' = shm
  BY DEF Player, Top, Jump, JumpFails, Read, ReadEnd, EofClose, EofOpen, EofLast,
         EofSet, Poll, WaitOver, Write, WriteFull, history
<1>2. slot'[j].flag = slot[j].flag
  <2>0. slot[i] \in SlotTypes /\ slot[j] \in SlotTypes BY <1>0
  <2>1. CASE Top(i) BY <1>0, <2>0, <2>1 DEF Top, SlotTypes
  <2>2. CASE EofSet(i) BY <1>0, <2>0, <2>2 DEF EofSet, SlotTypes
  <2>3. CASE Poll(i) BY <1>0, <2>0, <2>3 DEF Poll, SlotTypes
  <2>4. CASE slot' = slot BY <2>4
  <2>5. QED
    BY <2>1, <2>2, <2>3, <2>4 DEF Player, Jump, JumpFails, Read, ReadEnd, EofClose,
       EofOpen, EofLast, WaitOver, Write, WriteFull
<1> DEFINE quietStep == /\ thr[i].pc \in quiet /\ thr'[i].pc \in quiet
                        /\ \A k \in Slots : k # i => thr'[k] = thr[k]
<1>3. quietStep
  <2>0. thr[i] \in ThreadTypes BY <1>0
  <2> USE <1>0, <2>0 DEF ThreadTypes, Thread
  <2>1. CASE Top(i) BY <2>1 DEF Top, AfterTop
  <2>2. CASE Jump(i) BY <2>2 DEF Jump
  <2>3. CASE JumpFails(i) BY <2>3 DEF JumpFails
  <2>4. CASE Read(i) BY <2>4 DEF Read, AfterRead
  <2>5. CASE ReadEnd(i) BY <2>5 DEF ReadEnd
  <2>6. CASE EofClose(i) BY <2>6 DEF EofClose
  <2>7. CASE EofOpen(i) BY <2>7 DEF EofOpen
  <2>8. CASE EofLast(i) BY <2>8 DEF EofLast
  <2>9. CASE EofSet(i) BY <2>9 DEF EofSet
  <2>10. CASE Poll(i) BY <2>10 DEF Poll, AfterPoll
  <2>11. CASE WaitOver(i) BY <2>11 DEF WaitOver
  <2>12. CASE Write(i) BY <2>12 DEF Write
  <2>13. CASE WriteFull(i) BY <2>13 DEF WriteFull, AfterFull
  <2>14. QED BY <2>1, <2>2, <2>3, <2>4, <2>5, <2>6, <2>7, <2>8, <2>9, <2>10, <2>11,
                <2>12, <2>13 DEF Player
<1>4. thr'[j].pc = thr[j].pc \/ {thr[j].pc, thr'[j].pc} \cap {"none", "last"} = {}
  BY <1>3
<1>5. QED BY <1>1, <1>2, <1>4 DEF SameOwner, Filling

LEMMA OwnNext == TypeInv /\ OwnInv /\ [Next]_vars => OwnInv'
<1> SUFFICES ASSUME TypeInv, OwnInv, [Next]_vars, NEW j \in Slots PROVE Owner(j)'
  BY DEF OwnInv
<1>0. /\ Owner(j) /\ srv \in ServerTypes /\ thr \in [Slots -> ThreadTypes]
      /\ slot \in [Slots -> SlotTypes] /\ slot[j] \in SlotTypes
  BY DEF OwnInv, TypeInv, TypeOK
<1>1. CASE Asked \/ (Serves /\ ~PlayClaim /\ ~PlayStart)
  BY <1>0, <1>1, ServerQuiet, SameOwnerKeeps
<1>2. CASE PlayClaim
  <2>1. srv' = [srv EXCEPT !.pc = "fill"] /\ srv.pc = "scan" /\ thr' = thr
    BY <1>2 DEF PlayClaim
  <2>2. srv'.pc = "fill" /\ srv'.id = srv.id BY <1>0, <2>1 DEF ServerTypes
  <2>3. CASE srv.id = j
    <3>1. ~slot[j].flag /\ slot'[j].flag /\ shm' = shm \cup {j}
      BY <1>0, <1>2, <2>3 DEF PlayClaim, Taken, SlotTypes
    <3>2. QED BY <1>0, <2>1, <2>2, <2>3, <3>1 DEF Owner, Filling
  <2>4. CASE srv.id # j
    <3>1. slot'[j] = slot[j] /\ (j \in shm' <=> j \in shm)
      BY <1>0, <1>2, <2>4 DEF PlayClaim
    <3>2. QED BY <1>0, <2>1, <2>2, <2>4, <3>1 DEF Owner, Filling
  <2>5. QED BY <2>3, <2>4
<1>3. CASE PlayStart
  <2>1. srv.pc = "fill" /\ srv'.pc = "idle" /\ shm' = shm
    BY <1>3 DEF PlayStart, IdleServer
  <2>2. CASE srv.id = j
    <3>1. slot'[j].flag = slot[j].flag
      BY <1>0, <1>3, <2>2 DEF PlayStart, Filled, SlotTypes
    <3>2. thr'[j].pc = "top" BY <1>0, <1>3, <2>2 DEF PlayStart, NoThread
    <3>3. QED BY <1>0, <2>1, <2>2, <3>1, <3>2 DEF Owner, Filling
  <2>3. CASE srv.id # j
    <3>1. slot'[j] = slot[j] /\ thr'[j] = thr[j] BY <1>0, <1>3, <2>3 DEF PlayStart
    <3>2. QED BY <1>0, <2>1, <2>3, <3>1 DEF Owner, Filling
  <2>4. QED BY <2>2, <2>3
<1>4. ASSUME NEW i \in Slots, Player(i), ~End(i), ~Last(i) PROVE Owner(j)'
  BY <1>0, <1>4, PlayerQuiet, SameOwnerKeeps
<1>5. ASSUME NEW i \in Slots, End(i) PROVE Owner(j)'
  <2>1. slot' = slot /\ srv' = srv /\ shm' = shm \ {i} /\ thr[i].pc = "end"
    BY <1>5 DEF End, Thread, ReleaseStream
  <2>2. CASE i = j
    <3>1. thr'[j].pc = "last" BY <1>0, <1>5, <2>2 DEF End, Thread, ThreadTypes
    <3>2. QED BY <1>0, <2>1, <2>2, <3>1 DEF Owner, Filling
  <2>3. CASE i # j
    <3>1. thr'[j] = thr[j] BY <1>0, <1>5, <2>3 DEF End, Thread
    <3>2. QED BY <1>0, <2>1, <2>3, <3>1 DEF Owner, Filling
  <2>4. QED BY <2>2, <2>3
<1>6. ASSUME NEW i \in Slots, Last(i) PROVE Owner(j)'
  <2>1. srv' = srv /\ shm' = shm /\ thr[i].pc = "last" BY <1>6 DEF Last, Thread
  <2>2. CASE i = j
    <3>1. ~slot'[j].flag BY <1>0, <1>6, <2>2 DEF Last, SlotTypes
    <3>2. thr'[j].pc = "none" BY <1>0, <1>6, <2>2 DEF Last, Thread, NoThread
    <3>3. QED BY <1>0, <2>1, <2>2, <3>1, <3>2 DEF Owner, Filling
  <2>3. CASE i # j
    <3>1. thr'[j] = thr[j] /\ slot'[j] = slot[j]
      BY <1>0, <1>6, <2>3 DEF Last, Thread
    <3>2. QED BY <1>0, <2>1, <2>3, <3>1 DEF Owner, Filling
  <2>4. QED BY <2>2, <2>3
<1>7. CASE UNCHANGED <<slot, thr, srv, shm>> BY <1>0, <1>7 DEF Owner, Filling
<1>8. QED
  BY <1>1, <1>2, <1>3, <1>4, <1>5, <1>6, <1>7
  DEF Next, vars, OtherOpens, OtherCloses

LEMMA Inductive == Spec => [](TypeInv /\ OwnInv)
BY TypeInit, TypeNext, OwnerInit, OwnNext, PTL DEF Spec

(* A slot that is handed to a new session has no thread left: the thread   *)
(* of the session before gave it back as its last act.                     *)
THEOREM SlotHandedOver == Spec => []NoSecondThread
<1>1. TypeInv /\ OwnInv => NoSecondThread
  BY DEF TypeInv, IdInv, OwnInv, Owner, Filling, NoSecondThread
<1>2. QED BY <1>1, Inductive, PTL

(* A thread that plays has its stream, a free slot has none.               *)
THEOREM StreamOwned == Spec => []StreamLives
<1>1. OwnInv => StreamLives BY DEF OwnInv, Owner, Filling, StreamLives
<1>2. QED BY <1>1, Inductive, PTL

-----------------------------------------------------------------------------
(***************************************************************************)
(* The server implements PlaybackSessions.                                 *)
(***************************************************************************)
stages == [i \in Slots |-> Stage(i)]

(* A stop the thread has taken ends it, or is taken once more at the top.  *)
TakenInv == \A i \in Slots : thr[i].status = "STOP" => thr[i].pc \in {"top", "end", "last"}

(* A step that moves one slot along moves the abstract state along.        *)
LEMMA OneMoves ==
  ASSUME NEW i \in Slots, \A k \in Slots : k # i => Stage(k)' = Stage(k),
         NEW from, NEW to, Stage(i) \in from, Stage(i)' = to
  PROVE  Sessions!Goes(i, from, to)
<1>1. stages' = [stages EXCEPT ![i] = to] BY DEF stages
<1>2. QED BY <1>1 DEF Sessions!Goes, stages

(* What the thread of session i does to its two copies of the status: a    *)
(* stop stays where it is or ends the thread.                              *)
LEMMA PlayerStatus ==
  ASSUME TypeInv, TakenInv, NEW i \in Slots, Player(i), ~End(i), ~Last(i)
  PROVE  /\ Stopped(i)' = Stopped(i)
         /\ thr'[i].status = "STOP" => thr'[i].pc \in {"top", "end", "last"}
         /\ \A k \in Slots : k # i => slot'[k] = slot[k] /\ thr'[k] = thr[k]
<1> DEFINE goal == /\ Stopped(i)' = Stopped(i)
                   /\ thr'[i].status = "STOP" => thr'[i].pc \in {"top", "end", "last"}
                   /\ \A k \in Slots : k # i => slot'[k] = slot[k] /\ thr'[k] = thr[k]
<1>0. /\ thr \in [Slots -> ThreadTypes] /\ slot \in [Slots -> SlotTypes]
      /\ thr[i] \in ThreadTypes /\ slot[i] \in SlotTypes
      /\ thr[i].status = "STOP" => thr[i].pc \in {"top", "end", "last"}
  BY DEF TypeInv, TypeOK, TakenInv
<1>z. Zero # "STOP" BY Constants
<1> HIDE DEF TypeInv
<1> USE <1>0 DEF ThreadTypes, SlotTypes, Thread, Stopped
<1>1. CASE Top(i)
  <2>1. /\ thr'[i].status = slot[i].status /\ thr[i].pc = "top"
        /\ thr'[i].pc = AfterTop(i) /\ slot'[i].status = slot[i].status
        /\ \A k \in Slots : k # i => slot'[k] = slot[k] /\ thr'[k] = thr[k]
    BY <1>1 DEF Top
  <2>2. QED BY <2>1 DEF AfterTop
<1>2. CASE Jump(i) BY <1>2 DEF Jump
<1>3. CASE JumpFails(i) BY <1>3 DEF JumpFails
<1>4. CASE Read(i) BY <1>4 DEF Read, AfterRead
<1>5. CASE ReadEnd(i) BY <1>5 DEF ReadEnd
<1>6. CASE EofClose(i) BY <1>6 DEF EofClose
<1>7. CASE EofOpen(i) BY <1>7 DEF EofOpen
<1>8. CASE EofLast(i) BY <1>8 DEF EofLast
<1>9. CASE EofSet(i) BY <1>9 DEF EofSet
<1>10. CASE Poll(i)
  <2>1. /\ thr'[i] = AfterPoll(thr[i], slot[i].status) /\ thr[i].pc = "wait"
        /\ slot'[i].status = Zero
        /\ \A k \in Slots : k # i => slot'[k] = slot[k] /\ thr'[k] = thr[k]
    BY <1>10 DEF Poll
  <2>2. /\ thr'[i].status = slot[i].status
        /\ slot[i].status = "STOP" => thr'[i].pc = "end"
        /\ slot[i].status # "STOP" => thr'[i].pc \notin {"end", "last"}
    BY <2>1 DEF AfterPoll
  <2>3. QED BY <2>1, <2>2, <1>z
<1>11. CASE WaitOver(i) BY <1>11 DEF WaitOver
<1>12. CASE Write(i) BY <1>12 DEF Write
<1>13. CASE WriteFull(i)
  <2>1. /\ thr'[i] = AfterFull(thr[i], slot[i].status) /\ thr[i].pc = "write"
        /\ slot' = slot
        /\ \A k \in Slots : k # i => thr'[k] = thr[k]
    BY <1>13 DEF WriteFull
  <2>2. /\ thr'[i].status \in {slot[i].status, thr[i].status}
        /\ thr'[i].pc = "top" \/ (thr'[i].pc = "write" /\ thr'[i].status = "PLAY")
    BY <2>1 DEF AfterFull
  <2>3. QED BY <2>1, <2>2
<1>14. QED BY <1>1, <1>2, <1>3, <1>4, <1>5, <1>6, <1>7, <1>8, <1>9, <1>10, <1>11,
              <1>12, <1>13 DEF Player

LEMMA TakenNext == TypeInv /\ TakenInv /\ [Next]_vars => TakenInv'
<1> SUFFICES ASSUME TypeInv, TakenInv, [Next]_vars, NEW k \in Slots, thr'[k].status = "STOP"
             PROVE  thr'[k].pc \in {"top", "end", "last"}
  BY DEF TakenInv
<1>0. /\ thr \in [Slots -> ThreadTypes] /\ thr[k] \in ThreadTypes
      /\ thr[k].status = "STOP" => thr[k].pc \in {"top", "end", "last"}
      /\ Zero # "STOP"
  BY Constants DEF TypeInv, TypeOK, TakenInv
<1>1. ASSUME thr'[k] = thr[k] PROVE thr'[k].pc \in {"top", "end", "last"}
  BY <1>0, <1>1
<1>2. ASSUME NEW i \in Slots, Player(i) PROVE thr'[k].pc \in {"top", "end", "last"}
  <2>1. CASE ~End(i) /\ ~Last(i)
    <3>1. /\ thr'[i].status = "STOP" => thr'[i].pc \in {"top", "end", "last"}
          /\ \A j \in Slots : j # i => thr'[j] = thr[j]
      BY <1>2, <2>1, PlayerStatus
    <3>2. QED BY <3>1, <1>1
  <2>2. CASE End(i)
    <3>1. thr'[i].pc = "last" /\ \A j \in Slots : j # i => thr'[j] = thr[j]
      BY <1>0, <2>2 DEF End, Thread, ThreadTypes
    <3>2. QED BY <3>1, <1>1
  <2>3. CASE Last(i)
    <3>1. thr'[i].status = Zero /\ \A j \in Slots : j # i => thr'[j] = thr[j]
      BY <1>0, <2>3 DEF Last, Thread, NoThread
    <3>2. QED BY <3>1, <1>0, <1>1
  <2>4. QED BY <2>1, <2>2, <2>3
<1>3. CASE PlayStart
  <2>1. CASE k = srv.id
    <3>1. thr'[k].status = Zero BY <1>0, <1>3, <2>1 DEF PlayStart, NoThread
    <3>2. QED BY <3>1, <1>0
  <2>2. CASE k # srv.id
    <3>1. thr'[k] = thr[k] BY <1>0, <1>3, <2>2 DEF PlayStart
    <3>2. QED BY <3>1, <1>1
  <2>3. QED BY <2>1, <2>2
<1>4. ASSUME thr' = thr PROVE thr'[k].pc \in {"top", "end", "last"} BY <1>1, <1>4
<1>5. CASE Asked BY <1>4, <1>5 DEF Asked, Destroy, PlayOpen, Command
<1>6. CASE Serves
  BY <1>3, <1>4, <1>6 DEF Serves, PlayClaim, PlayPass, PlayRefused, SetStop, SetSpeed,
     SeekTake, SeekClose, SeekOpen, SeekSet
<1>7. QED BY <1>2, <1>4, <1>5, <1>6 DEF Next, OtherOpens, OtherCloses, vars

Steps == (stages' = stages /\ Seeking' = Seeking) \/ Sessions!Next

LEMMA PlayerImplements ==
  ASSUME TypeInv, TakenInv, OwnInv, OwnInv', NEW i \in Slots, Player(i)
  PROVE  Steps
<1>0. /\ thr \in [Slots -> ThreadTypes] /\ slot \in [Slots -> SlotTypes]
      /\ thr[i] \in ThreadTypes /\ slot[i] \in SlotTypes
      /\ Owner(i) /\ Owner(i)'
  BY DEF TypeInv, TypeOK, OwnInv
<1>s. srv' = srv /\ Seeking' = Seeking
  <2>1. srv' = srv
    BY DEF Player, Top, Jump, JumpFails, Read, ReadEnd, EofClose, EofOpen,
       EofLast, EofSet, Poll, WaitOver, Write, WriteFull, End, Last
  <2>2. QED BY <2>1 DEF Seeking
<1>1. CASE ~End(i) /\ ~Last(i)
  <2>1. SameOwner(i) BY <1>1, PlayerQuiet
  <2>2. /\ Stopped(i)' = Stopped(i)
        /\ \A k \in Slots : k # i => slot'[k] = slot[k] /\ thr'[k] = thr[k]
    BY <1>1, PlayerStatus
  <2>3. \A k \in Slots : k # i => Stage(k)' = Stage(k) BY <2>2 DEF Stage, Stopped
  <2>4. CASE thr[i].pc = "none"
    <3>1. FALSE
      BY <2>4 DEF Player, Top, Jump, JumpFails, Read, ReadEnd, EofClose, EofOpen,
         EofLast, EofSet, Poll, WaitOver, Write, WriteFull, End, Last, Thread
    <3>2. QED BY <3>1
  <2>5. CASE thr[i].pc # "none"
    <3>1. ~Filling(i) /\ ~Filling(i)' BY <1>0, <2>1, <2>5 DEF Owner, SameOwner
    <3>2. slot'[i].flag = slot[i].flag BY <2>1 DEF SameOwner
    <3>3. /\ Stage(i) = IF ~slot[i].flag THEN "free"
                        ELSE IF Stopped(i) THEN "stopping" ELSE "playing"
          /\ Stage(i)' = IF ~slot'[i].flag THEN "free"
                         ELSE IF Stopped(i)' THEN "stopping" ELSE "playing"
      BY <1>0, <3>1 DEF Owner, Stage
    <3>4. Stage(i)' = Stage(i) BY <3>2, <3>3, <2>2
    <3>5. QED BY <3>4, <2>3, <1>s DEF stages, Steps
  <2>6. QED BY <2>4, <2>5
<1>2. CASE End(i)
  <2>1. /\ thr[i].pc = "end" /\ slot' = slot
        /\ \A k \in Slots : k # i => thr'[k] = thr[k]
        /\ thr'[i].pc = "last" /\ thr'[i].status = thr[i].status
    BY <1>0, <1>2 DEF End, Thread, ThreadTypes
  <2>2. \A k \in Slots : Stage(k)' = Stage(k) BY <2>1 DEF Stage, Stopped
  <2>3. QED BY <2>2, <1>s DEF stages, Steps
<1>3. CASE Last(i)
  <2>1. /\ thr[i].pc = "last" /\ ~slot'[i].flag
        /\ \A k \in Slots : k # i => thr'[k] = thr[k] /\ slot'[k] = slot[k]
    BY <1>0, <1>3 DEF Last, Thread, SlotTypes
  <2>2. Stage(i) \in {"playing", "stopping"} BY <1>0, <2>1 DEF Owner, Stage
  <2>3. Stage(i)' = "free" BY <2>1 DEF Stage
  <2>4. \A k \in Slots : k # i => Stage(k)' = Stage(k) BY <2>1 DEF Stage, Stopped
  <2>5. Sessions!Goes(i, {"playing", "stopping"}, "free") BY <2>2, <2>3, <2>4, OneMoves
  <2>6. QED BY <2>5, <1>s DEF Sessions!End, Sessions!Next, Steps
<1>4. QED BY <1>1, <1>2, <1>3

LEMMA AskedImplements ==
  ASSUME TypeInv, OwnInv, Asked PROVE Steps
<1>0. slot \in [Slots -> SlotTypes] BY DEF TypeInv, TypeOK
<1>1. ASSUME NEW c \in Clients, Destroy(c) PROVE Sessions!StopAll
  <2> DEFINE S == {i \in Slots : Owned(i, c)}
  <2>1. srv.pc = "idle" /\ thr' = thr /\ slot' = [i \in Slots |-> DestroyStop(i, c)]
    BY <1>1 DEF Destroy, Request
  <2>2. ASSUME NEW i \in S
        PROVE  /\ stages[i] \in {"playing", "stopping"}
               /\ stages'[i] = "stopping"
    <3>1. slot[i].flag /\ slot[i] \in SlotTypes BY <1>0, <2>2 DEF Owned
    <3>2. thr[i].pc # "none" BY <2>1, <3>1 DEF OwnInv, Owner, Filling
    <3>3. slot'[i].flag /\ slot'[i].status = "STOP"
      BY <2>1, <2>2, <3>1 DEF DestroyStop, SlotTypes
    <3>4. Stage(i)' = "stopping" BY <2>1, <3>2, <3>3 DEF Stage, Stopped
    <3>5. QED BY <3>1, <3>2, <3>4 DEF Stage, stages
  <2>3. ASSUME NEW i \in Slots, i \notin S PROVE Stage(i)' = Stage(i)
    <3>1. slot'[i] = slot[i] BY <2>1, <2>3 DEF DestroyStop
    <3>2. QED BY <2>1, <3>1 DEF Stage, Stopped
  <2>4. stages' = [i \in Slots |-> IF i \in S THEN "stopping" ELSE stages[i]]
    BY <2>2, <2>3 DEF stages
  <2>5. Seeking = {} /\ Seeking' = {}
    <3>1. srv' = srv BY <1>1 DEF Destroy
    <3>2. QED BY <2>1, <3>1 DEF Seeking
  <2>6. QED BY <2>2, <2>4, <2>5 DEF Sessions!StopAll, Sessions!Served, stages
<1>2. ASSUME UNCHANGED <<slot, thr>> PROVE stages' = stages
  BY <1>2 DEF stages, Stage, Stopped
<1>3. ASSUME NEW c \in Clients, NEW f \in Files, NEW to \in 0 .. Len(Order) - 1,
             PlayOpen(c, f, to)
      PROVE  Steps
  <2>1. Seeking = {} /\ Seeking' = {} BY <1>3 DEF PlayOpen, Request, Seeking
  <2>2. UNCHANGED <<slot, thr>> BY <1>3 DEF PlayOpen
  <2>3. QED BY <2>1, <2>2, <1>2 DEF Steps
<1>4. ASSUME NEW r \in {"STOP", "SPEED", "SEEK"}, NEW i \in Slots,
             NEW f \in Files \cup {0}, NEW to, Command(r, i, f, to)
      PROVE  Steps
  <2>1. /\ srv.pc = "idle" /\ UNCHANGED <<slot, thr>>
        /\ srv' = IF slot[i].flag
                  THEN [IdleServer EXCEPT !.pc = r, !.id = i, !.file = f, !.to = to]
                  ELSE srv
    BY <1>4 DEF Command, Request
  <2>2. Seeking = {} /\ stages' = stages BY <2>1, <1>2 DEF Seeking
  <2>3. CASE slot[i].flag /\ r = "SEEK"
    <3>1. srv'.pc = "SEEK" /\ srv'.id = i BY <2>1, <2>3 DEF IdleServer
    <3>2. Seeking' = {i} BY <3>1 DEF Seeking
    <3>3. stages[i] # "free" BY <2>3 DEF stages, Stage
    <3>4. Sessions!AskSeek(i) BY <2>2, <3>2, <3>3 DEF Sessions!AskSeek, stages
    <3>5. QED BY <3>4 DEF Sessions!Next, Steps
  <2>4. CASE ~(slot[i].flag /\ r = "SEEK")
    <3>1. srv'.pc \in {"idle", "STOP", "SPEED"} BY <2>1, <2>4, <1>4 DEF IdleServer
    <3>2. Seeking' = {} BY <3>1 DEF Seeking
    <3>3. QED BY <2>2, <3>2 DEF Steps
  <2>5. QED BY <2>3, <2>4
<1>5. CASE \E c \in Clients : Destroy(c) BY <1>1, <1>5 DEF Sessions!Next, Steps
<1>6. CASE \E r \in {"STOP", "SPEED"}, i \in Slots : Command(r, i, 0, 0) BY <1>4, <1>6
<1>7. CASE \E i \in Slots, f \in Files, to \in 0 .. Len(Order) - 1 : Command("SEEK", i, f, to)
  BY <1>4, <1>7
<1>8. QED BY <1>3, <1>5, <1>6, <1>7 DEF Asked

(* What the server is not doing a seek with.                               *)
LEMMA NotSeeking ==
  ASSUME srv.pc \notin {"SEEK", "close", "open", "set"},
         srv'.pc \notin {"SEEK", "close", "open", "set"}
  PROVE  Seeking = {} /\ Seeking' = {}
BY DEF Seeking

LEMMA ServesImplements ==
  ASSUME TypeInv, OwnInv, OwnInv', Serves PROVE Steps
<1>i. PICK i : srv.id = i OBVIOUS
<1>0. /\ srv \in ServerTypes /\ slot \in [Slots -> SlotTypes]
      /\ thr \in [Slots -> ThreadTypes] /\ Zero # "STOP"
      /\ srv.pc \notin {"idle", "scan"} => i \in Slots
  BY <1>i, Constants DEF TypeInv, TypeOK, IdInv
<1>1. CASE PlayClaim
  <2>1. i \in Slots /\ ~slot[i].flag /\ slot'[i].flag /\ thr' = thr
    BY <1>i, <1>0, <1>1 DEF PlayClaim, Taken, SlotTypes
  <2>2. thr[i].pc = "none" BY <2>1 DEF OwnInv, Owner
  <2>3. \A k \in Slots : k # i => slot'[k] = slot[k] BY <1>i, <1>0, <1>1 DEF PlayClaim
  <2>4. Stage(i) \in {"free"} /\ Stage(i)' = "claimed" BY <2>1, <2>2 DEF Stage
  <2>5. \A k \in Slots : k # i => Stage(k)' = Stage(k) BY <2>1, <2>3 DEF Stage, Stopped
  <2>6. Sessions!Goes(i, {"free"}, "claimed") BY <2>1, <2>4, <2>5, OneMoves
  <2>7. srv.pc = "scan" /\ srv'.pc = "fill" BY <1>0, <1>1 DEF PlayClaim, ServerTypes
  <2>8. QED BY <2>1, <2>6, <2>7, NotSeeking
            DEF Sessions!Claim, Sessions!Served, Sessions!Next, Steps
<1>2. CASE PlayStart
  <2>1. i \in Slots /\ slot[i].flag /\ thr[i].pc = "none"
    BY <1>i, <1>0, <1>2 DEF PlayStart, OwnInv, Owner, Filling
  <2>2. slot'[i].flag /\ slot'[i].status = "PLAY"
    BY <1>i, <1>0, <1>2, <2>1 DEF PlayStart, Filled, SlotTypes
  <2>3. thr'[i].pc = "top" /\ thr'[i].status = Zero
    BY <1>i, <1>0, <1>2, <2>1 DEF PlayStart, NoThread
  <2>4. \A k \in Slots : k # i => slot'[k] = slot[k] /\ thr'[k] = thr[k]
    BY <1>i, <1>0, <1>2 DEF PlayStart
  <2>5. Stage(i) \in {"claimed"} /\ Stage(i)' = "playing"
    BY <1>0, <2>1, <2>2, <2>3 DEF Stage, Stopped
  <2>6. \A k \in Slots : k # i => Stage(k)' = Stage(k) BY <2>4 DEF Stage, Stopped
  <2>7. Sessions!Goes(i, {"claimed"}, "playing") BY <2>1, <2>5, <2>6, OneMoves
  <2>8. srv.pc = "fill" /\ srv'.pc = "idle" BY <1>2 DEF PlayStart, IdleServer
  <2>9. QED BY <2>1, <2>7, <2>8, NotSeeking
            DEF Sessions!Play, Sessions!Served, Sessions!Next, Steps
<1>3. CASE SetStop
  <2>1. i \in Slots /\ thr' = thr /\ srv.pc = "STOP" /\ srv'.pc = "idle"
    BY <1>i, <1>0, <1>3 DEF SetStop, IdleServer
  <2>2. slot'[i].status = "STOP" /\ slot'[i].flag = slot[i].flag
    BY <1>i, <1>0, <1>3, <2>1 DEF SetStop, SlotTypes
  <2>3. \A k \in Slots : k # i => slot'[k] = slot[k] BY <1>i, <1>0, <1>3 DEF SetStop
  <2>4. slot[i].flag => thr[i].pc # "none" BY <2>1 DEF OwnInv, Owner, Filling
  <2>5. \A k \in Slots : k # i => Stage(k)' = Stage(k) BY <2>1, <2>3 DEF Stage, Stopped
  <2>s. Seeking = {} /\ Seeking' = {} BY <2>1, NotSeeking
  <2>6. CASE Stage(i)' = Stage(i) BY <2>5, <2>6, <2>s DEF stages, Steps
  <2>7. CASE Stage(i)' # Stage(i)
    <3>1. Stage(i) \in {"playing"} /\ Stage(i)' = "stopping"
      BY <2>1, <2>2, <2>4, <2>7 DEF Stage, Stopped
    <3>2. Sessions!Goes(i, {"playing"}, "stopping") BY <2>1, <2>5, <3>1, OneMoves
    <3>3. QED BY <2>1, <2>s, <3>2 DEF Sessions!Stop, Sessions!Served, Sessions!Next, Steps
  <2>8. QED BY <2>6, <2>7
<1>4. CASE SetSpeed
  <2>1. i \in Slots /\ thr' = thr /\ srv.pc = "SPEED" /\ srv'.pc = "idle"
    BY <1>i, <1>0, <1>4 DEF SetSpeed, IdleServer
  <2>2. \A k \in Slots : slot'[k].flag = slot[k].flag /\ slot'[k].status = slot[k].status
    BY <1>i, <1>0, <1>4 DEF SetSpeed, SlotTypes
  <2>3. QED BY <2>1, <2>2, NotSeeking DEF stages, Stage, Stopped, Steps
<1>5. CASE SeekSet
  <2>1. i \in Slots /\ thr' = thr /\ srv.pc = "set" /\ srv'.pc = "idle"
    BY <1>i, <1>0, <1>5 DEF SeekSet, IdleServer
  <2>2. slot'[i].status = "SEEK" /\ slot'[i].flag = slot[i].flag
    BY <1>i, <1>0, <1>5, <2>1 DEF SeekSet, SlotTypes
  <2>3. \A k \in Slots : k # i => slot'[k] = slot[k] BY <1>i, <1>0, <1>5 DEF SeekSet
  <2>4. \A k \in Slots : k # i => Stage(k)' = Stage(k) BY <2>1, <2>3 DEF Stage, Stopped
  <2>5. Seeking = {i} /\ Seeking' = {} BY <1>i, <2>1 DEF Seeking
  <2>6. CASE Stage(i)' = Stage(i)
    <3>1. stages' = stages BY <2>4, <2>6 DEF stages
    <3>2. Sessions!SeekOver BY <2>5, <3>1 DEF Sessions!SeekOver, stages
    <3>3. QED BY <3>2 DEF Sessions!Next, Steps
  <2>7. CASE Stage(i)' # Stage(i)
    <3>1. Stage(i) \in {"stopping"} /\ Stage(i)' = "playing"
      BY <2>1, <2>2, <2>7 DEF Stage, Stopped
    <3>2. Sessions!Goes(i, {"stopping"}, "playing") BY <2>1, <2>4, <3>1, OneMoves
    <3>3. Sessions!Seek(i) BY <2>5, <3>2 DEF Sessions!Seek
    <3>4. QED BY <2>1, <3>3 DEF Sessions!Next, Steps
  <2>8. QED BY <2>6, <2>7
<1>6. ASSUME UNCHANGED <<slot, thr>> PROVE stages' = stages
  BY <1>6 DEF stages, Stage, Stopped
<1>7. CASE PlayPass \/ PlayRefused
  <2>1. /\ UNCHANGED <<slot, thr>> /\ srv.pc = "scan" /\ srv'.pc \in {"scan", "idle"}
    BY <1>0, <1>7 DEF PlayPass, PlayRefused, IdleServer, ServerTypes
  <2>2. QED BY <2>1, <1>6, NotSeeking DEF Steps
<1>8. CASE SeekTake \/ SeekClose \/ SeekOpen
  <2>1. /\ UNCHANGED <<slot, thr>> /\ srv.pc \in {"SEEK", "close", "open"}
        /\ (srv'.pc \in {"close", "open", "set"} /\ srv'.id = srv.id) \/ srv'.pc = "idle"
    <3>1. srv \in ServerTypes BY <1>0
    <3>2. CASE SeekTake BY <3>1, <3>2 DEF SeekTake, ServerTypes
    <3>3. CASE SeekClose BY <3>1, <3>3 DEF SeekClose, ServerTypes
    <3>4. CASE SeekOpen
      <4>1. UNCHANGED <<slot, thr>> /\ srv.pc = "open" BY <3>4 DEF SeekOpen
      <4>2. CASE CanOpen(srv.file)
        <5>1. PICK d \in Fds : srv' = [srv EXCEPT !.pc = "set", !.fd = d]
          BY <3>4, <4>2 DEF SeekOpen
        <5>2. srv'.pc = "set" /\ srv'.id = srv.id BY <3>1, <5>1 DEF ServerTypes
        <5>3. QED BY <4>1, <5>2
      <4>3. CASE ~CanOpen(srv.file)
        <5>1. srv'.pc = "idle" BY <3>4, <4>3 DEF SeekOpen, IdleServer
        <5>2. QED BY <4>1, <5>1
      <4>4. QED BY <4>2, <4>3
    <3>5. QED BY <1>8, <3>2, <3>3, <3>4
  <2>2. Seeking = {i} /\ Seeking' \in {{i}, {}} BY <1>i, <2>1 DEF Seeking
  <2>3. CASE Seeking' = {i} BY <2>1, <2>2, <2>3, <1>6 DEF Steps
  <2>4. CASE Seeking' = {}
    <3>1. Sessions!SeekOver BY <2>1, <2>2, <2>4, <1>6 DEF Sessions!SeekOver, stages
    <3>2. QED BY <3>1 DEF Sessions!Next, Steps
  <2>5. QED BY <2>2, <2>3, <2>4
<1>9. QED BY <1>1, <1>2, <1>3, <1>4, <1>5, <1>7, <1>8 DEF Serves

(* Every step of the server and of the threads is a step of the promise    *)
(* made to clients, or none: sessions begin, play, stop and end as         *)
(* PlaybackSessions says, and a stop is undone only by a seek that was     *)
(* asked for after it.                                                     *)
THEOREM ServerImplements == Spec => Implements
<1>1. Init => Sessions!Init /\ TakenInv
  <2>1. Init => stages = [i \in Slots |-> "free"] BY DEF Init, stages, Stage, IdleSlot
  <2>2. Init => Seeking = {} BY DEF Init, Seeking, IdleServer
  <2>3. Init => TakenInv BY Constants DEF Init, TakenInv, NoThread
  <2>4. QED BY <2>1, <2>2, <2>3 DEF Sessions!Init, stages
<1>2. TypeInv /\ TakenInv /\ OwnInv /\ OwnInv' /\ [Next]_vars
        => [Sessions!Next]_<<stages, Seeking>>
  <2> SUFFICES ASSUME TypeInv, TakenInv, OwnInv, OwnInv', [Next]_vars
               PROVE  Steps
    BY DEF Steps
  <2>1. ASSUME UNCHANGED <<slot, thr, srv>> PROVE Steps
    BY <2>1 DEF stages, Stage, Stopped, Seeking, Steps
  <2>2. QED
    BY <2>1, PlayerImplements, AskedImplements, ServesImplements
    DEF Next, OtherOpens, OtherCloses, vars
<1>3. Init /\ [][Next]_vars => []TakenInv
  <2>1. Spec => [](TypeInv /\ OwnInv) BY Inductive
  <2>2. QED BY <1>1, <2>1, TakenNext, PTL DEF Spec
<1>4. QED
  BY <1>1, <1>2, <1>3, Inductive, PTL
  DEF Spec, Implements, Sessions!Spec, Sessions!vars, stages

-----------------------------------------------------------------------------
(***************************************************************************)
(* A jump forgets.  The waiting frames and the frame in hand were all read *)
(* since the thread last jumped.                                           *)
(***************************************************************************)
Held(i) ==
  /\ thr[i].list \in Seq(seen[i])
  /\ thr[i].pc \in {"wait", "write"} => thr[i].frame \in seen[i]
HeldInv == \A i \in Slots : Held(i)

(* What a frame read does to the list and to the hand.                     *)
LEMMA ReadHeld ==
  ASSUME NEW th \in ThreadTypes, NEW S, th.list \in Seq(S), NEW t
  PROVE  LET new == AfterRead(th, t)
         IN  /\ new.list \in Seq(S \cup {t})
             /\ new.pc = "wait" => new.frame \in S
             /\ new.pc \in {"wait", "top"}
<1>1. /\ Len(th.list) \in Nat /\ Len(th.list) <= ListLen
      /\ th.list \in Seq(S \cup {t})
  BY DEF ThreadTypes, Lists
<1>2. CASE Len(th.list) < ListLen
  <2>1. AfterRead(th, t) = [th EXCEPT !.pc = "top", !.frame = t,
                                      !.list = InsertPlayTime(th.list, t)]
    BY <1>2 DEF AfterRead
  <2>2. InsertPlayTime(th.list, t) \in Seq(S \cup {t}) BY <1>1, Insertion
  <2>3. QED BY <2>1, <2>2 DEF ThreadTypes
<1>3. CASE ~(Len(th.list) < ListLen)
  <2>1. th.list # <<>> BY <1>1, <1>3, Constants
  <2>2. Head(th.list) \in S /\ Tail(th.list) \in Seq(S \cup {t})
    BY <1>1, <2>1, HeadTailProperties
  <2>3. InsertPlayTime(Tail(th.list), t) \in Seq(S \cup {t}) BY <2>2, Insertion
  <2>4. AfterRead(th, t) = [th EXCEPT !.pc = "wait", !.frame = Head(th.list),
                                      !.list = InsertPlayTime(Tail(th.list), t)]
    BY <1>3 DEF AfterRead
  <2>5. QED BY <2>2, <2>3, <2>4 DEF ThreadTypes
<1>4. QED BY <1>2, <1>3

LEMMA HeldInit == Init => HeldInv
<1> SUFFICES ASSUME Init, NEW i \in Slots PROVE Held(i) BY DEF HeldInv
<1>1. thr[i].list = <<>> /\ thr[i].pc = "none" BY DEF Init, NoThread
<1>2. <<>> \in Seq(seen[i]) BY EmptySeq
<1>3. QED BY <1>1, <1>2 DEF Held

LEMMA HeldNext == TypeInv /\ HeldInv /\ [Next]_vars => HeldInv'
<1> SUFFICES ASSUME TypeInv, HeldInv, [Next]_vars, NEW j \in Slots PROVE Held(j)'
  BY DEF HeldInv
<1>0. /\ Held(j) /\ thr \in [Slots -> ThreadTypes] /\ thr[j] \in ThreadTypes
      /\ seen \in [Slots -> SUBSET Frames]
  BY DEF HeldInv, TypeInv, TypeOK
<1>1. ASSUME thr'[j] = thr[j], seen'[j] = seen[j] PROVE Held(j)'
  BY <1>0, <1>1 DEF Held
<1>2. CASE PlayStart
  <2>1. CASE srv.id = j
    <3>1. thr'[j].list = <<>> /\ thr'[j].pc = "top"
      BY <1>0, <1>2, <2>1 DEF PlayStart, NoThread
    <3>2. QED BY <3>1, EmptySeq DEF Held
  <2>2. CASE srv.id # j BY <1>0, <1>1, <1>2, <2>2 DEF PlayStart
  <2>3. QED BY <2>1, <2>2
<1>3. ASSUME NEW i \in Slots, Player(i) PROVE Held(j)'
  <2>1. CASE i # j
    BY <1>0, <1>1, <1>3, <2>1
    DEF Player, Top, Jump, JumpFails, Read, ReadEnd, EofClose, EofOpen, EofLast,
        EofSet, Poll, WaitOver, Write, WriteFull, End, Last, Thread, history
  <2>2. CASE i = j
    <3> USE <1>0, <2>2 DEF Thread, Held, ThreadTypes, history
    <3>1. CASE Top(i) BY <3>1 DEF Top, AfterTop
    <3>2. CASE Jump(i)
      <4>1. thr'[j].list = <<>> /\ thr'[j].pc = "read"
        BY <3>2 DEF Jump, ClearPlayTime
      <4>2. QED BY <4>1, EmptySeq
    <3>3. CASE JumpFails(i) BY <3>3 DEF JumpFails
    <3>4. CASE Read(i)
      <4> DEFINE t == FrameAt(thr[i].fd)
      <4>1. thr'[j] = AfterRead(thr[j], t) /\ seen'[j] = seen[j] \cup {t}
        BY <3>4 DEF Read
      <4> HIDE DEF t
      <4>2. /\ thr'[j].list \in Seq(seen[j] \cup {t})
            /\ thr'[j].pc = "wait" => thr'[j].frame \in seen[j]
            /\ thr'[j].pc \in {"wait", "top"}
        BY <4>1, ReadHeld
      <4>3. QED BY <4>1, <4>2
    <3>5. CASE ReadEnd(i) BY <3>5 DEF ReadEnd
    <3>6. CASE EofClose(i) BY <3>6 DEF EofClose
    <3>7. CASE EofOpen(i) BY <3>7 DEF EofOpen
    <3>8. CASE EofLast(i) BY <3>8 DEF EofLast
    <3>9. CASE EofSet(i) BY <3>9 DEF EofSet
    <3>10. CASE Poll(i) BY <3>10 DEF Poll, AfterPoll
    <3>11. CASE WaitOver(i) BY <3>11 DEF WaitOver
    <3>12. CASE Write(i) BY <3>12 DEF Write
    <3>13. CASE WriteFull(i) BY <3>13 DEF WriteFull, AfterFull
    <3>14. CASE End(i)
      <4>1. thr'[j].list = <<>> /\ thr'[j].pc = "last"
        BY <3>14 DEF End, ClearPlayTime
      <4>2. QED BY <4>1, EmptySeq
    <3>15. CASE Last(i)
      <4>1. thr'[j].list = <<>> /\ thr'[j].pc = "none" BY <3>15 DEF Last, NoThread
      <4>2. QED BY <4>1, EmptySeq
    <3>16. QED
      BY <1>3, <3>1, <3>2, <3>3, <3>4, <3>5, <3>6, <3>7, <3>8, <3>9, <3>10, <3>11,
         <3>12, <3>13, <3>14, <3>15 DEF Player
  <2>3. QED BY <2>1, <2>2
<1>4. CASE Asked \/ (Serves /\ ~PlayStart)
  <2>1. UNCHANGED <<thr, seen>>
    BY <1>4 DEF Asked, Destroy, PlayOpen, Command, Serves, PlayClaim, PlayPass,
       PlayRefused, SetStop, SetSpeed, SeekTake, SeekClose, SeekOpen, SeekSet, history
  <2>2. QED BY <1>1, <2>1
<1>5. CASE UNCHANGED <<thr, seen>> BY <1>1, <1>5
<1>6. QED
  BY <1>2, <1>3, <1>4, <1>5 DEF Next, OtherOpens, OtherCloses, history, vars

(* After a jump nothing of the old position is sent: every frame a thread  *)
(* is about to send was read since.                                        *)
THEOREM JumpForgets == Spec => []SeekForgets
<1>1. HeldInv => SeekForgets BY DEF HeldInv, Held, SeekForgets
<1>2. QED BY <1>1, TypeInit, TypeNext, HeldInit, HeldNext, PTL DEF Spec

-----------------------------------------------------------------------------
(***************************************************************************)
(* A session that nobody disturbs has at most one file open at a time, so  *)
(* that open(2) always returns the same number: the lowest there is.       *)
(***************************************************************************)
FirstFd == CHOOSE d \in Fds : \A e \in Fds : d <= e
OnlyFirst == \A d \in Fds : d # FirstFd => fds[d] = Closed
AllClosed == \A d \in Fds : fds[d] = Closed
NoThreads == \A i \in Slots : thr[i].pc = "none"
HoldsFile(f) == FirstFd \in Fds /\ fds[FirstFd].file = f

(* The descriptors of the thread and of its slot.  At the end of a file    *)
(* both keep the number that was closed, and the slot gets the new one.    *)
Session(i) ==
  /\ slot[i].fd = FirstFd /\ thr[i].fd = FirstFd
  /\ thr[i].pc \in {"top", "jump", "read", "wait", "write", "eof"}
       => HoldsFile(slot[i].file)
  /\ thr[i].pc \in {"jump", "read", "wait", "write"} => thr[i].file = slot[i].file
  /\ thr[i].pc = "next" => AllClosed
  /\ thr[i].pc = "eofset" => thr[i].new = FirstFd /\ HoldsFile(thr[i].file)

Opening == srv.pc \in {"scan", "fill"}
Alone ==
  /\ OnlyFirst
  /\ srv.pc \notin {"SEEK", "close", "open", "set"}
  /\ requests["PLAY"] = 0 => NoThreads /\ ~Opening
  /\ Opening => NoThreads /\ srv.fd = FirstFd /\ HoldsFile(srv.file)
  /\ \A i, j \in Slots : thr[i].pc # "none" /\ thr[j].pc # "none" => i = j
  /\ \A i \in Slots : thr[i].pc # "none" => Session(i)
  /\ NoThreads /\ ~Opening => AllClosed
AloneInv == Undisturbed => Alone

LEMMA AloneInit == Init => AloneInv
<1> SUFFICES ASSUME Init PROVE Alone BY DEF AloneInv
<1>1. NoThreads /\ AllClosed BY DEF Init, NoThreads, AllClosed, NoThread
<1>2. srv.pc = "idle" BY DEF Init, IdleServer
<1>3. QED BY <1>1, <1>2 DEF Alone, OnlyFirst, AllClosed, NoThreads, Opening

(* With nothing open the number is the first, and it holds the new file.   *)
LEMMA OpensFirst ==
  ASSUME TypeOK, AllClosed, NEW f, NEW d \in Fds, OpenAt(f, d)
  PROVE  d = FirstFd /\ HoldsFile(f)' /\ OnlyFirst'
<1>1. FreeFds = Fds BY DEF FreeFds, AllClosed
<1>2. LowestFd = FirstFd BY <1>1 DEF LowestFd, FirstFd
<1>3. d = FirstFd /\ fds' = [fds EXCEPT ![d] = Opened(f)] BY <1>2 DEF OpenAt
<1> HIDE DEF FirstFd
<1>4. fds \in [Fds -> FdEntries] BY DEF TypeOK
<1>5. fds'[d] = Opened(f) /\ \A e \in Fds : e # d => fds'[e] = fds[e]
  BY <1>3, <1>4
<1>6. QED BY <1>3, <1>5 DEF HoldsFile, OnlyFirst, AllClosed, Opened

LEMMA ClosesFirst ==
  ASSUME TypeOK, OnlyFirst, fds' = CloseFd(FirstFd) PROVE AllClosed' /\ OnlyFirst'
<1>1. fds \in [Fds -> FdEntries] BY DEF TypeOK
<1>2. \A d \in Fds : fds'[d] = Closed BY <1>1 DEF CloseFd, OnlyFirst
<1>3. QED BY <1>2 DEF AllClosed, OnlyFirst

(* Requests are only counted up; so what is undisturbed was so before.     *)
LEMMA StillAlone ==
  ASSUME TypeInv, [Next]_vars, Undisturbed'
  PROVE  /\ Undisturbed /\ requests'["SEEK"] = 0 /\ "other" \notin Faults
         /\ requests["PLAY"] \in Nat /\ requests'["PLAY"] <= 1
         /\ Serves \/ (\E i \in Slots : Player(i)) => requests' = requests
<1>0. /\ requests \in [AllRequests -> Nat]
      /\ {"PLAY", "SEEK"} \subseteq AllRequests
  BY DEF TypeInv, TypeOK, AllRequests
<1>1. /\ Serves => requests' = requests
      /\ (\E i \in Slots : Player(i)) => requests' = requests
      /\ OtherOpens \/ OtherCloses => requests' = requests
  BY DEF Serves, PlayClaim, PlayPass, PlayRefused, PlayStart, SetStop, SetSpeed,
         SeekTake, SeekClose, SeekOpen, SeekSet, Player, Top, Jump, JumpFails, Read,
         ReadEnd, EofClose, EofOpen, EofLast, EofSet, Poll, WaitOver, Write, WriteFull,
         End, Last, OtherOpens, OtherCloses, history
<1>2. Asked => \E r \in AllRequests : Request(r)
  BY DEF Asked, Destroy, PlayOpen, Command, AllRequests
<1>3. \A r \in AllRequests : Request(r) => requests' = [requests EXCEPT ![r] = @ + 1]
  BY DEF Request
<1>4. \A r \in AllRequests : requests[r] \in Nat /\ requests[r] <= requests'[r]
  <2>1. CASE Asked BY <1>0, <1>2, <1>3, <2>1
  <2>2. CASE requests' = requests BY <1>0, <2>2
  <2>3. QED BY <1>1, <2>1, <2>2 DEF Next, vars
<1>5. requests["SEEK"] = 0 /\ requests["PLAY"] <= 1
  <2>1. /\ requests["SEEK"] \in Nat /\ requests["SEEK"] <= requests'["SEEK"]
        /\ requests["PLAY"] \in Nat /\ requests["PLAY"] <= requests'["PLAY"]
    BY <1>0, <1>4
  <2>2. requests'["SEEK"] = 0 /\ requests'["PLAY"] <= 1 /\ requests'["PLAY"] \in Nat
    BY <1>0, TypeNext DEF Undisturbed, TypeInv, TypeOK
  <2>3. QED BY <2>1, <2>2
<1>6. QED BY <1>0, <1>1, <1>4, <1>5 DEF Undisturbed

(* A step that touches no descriptor and moves no thread.                  *)
LEMMA AloneSame ==
  ASSUME Alone, fds' = fds, requests'["PLAY"] = 0 => requests["PLAY"] = 0,
         srv'.pc \notin {"SEEK", "close", "open", "set"}, Opening' <=> Opening,
         Opening => srv'.fd = srv.fd /\ srv'.file = srv.file,
         \A i \in Slots : /\ slot'[i].fd = slot[i].fd /\ slot'[i].file = slot[i].file
                          /\ thr'[i] = thr[i]
  PROVE  Alone'
<1>1. OnlyFirst' /\ (AllClosed' <=> AllClosed) /\ (NoThreads' <=> NoThreads)
  BY DEF Alone, OnlyFirst, AllClosed, NoThreads
<1>2. \A f : HoldsFile(f)' <=> HoldsFile(f) BY DEF HoldsFile
<1>3. ASSUME NEW i \in Slots, thr'[i].pc # "none" PROVE Session(i)'
  <2>1. Session(i) BY <1>3 DEF Alone
  <2>2. QED BY <1>1, <1>2, <2>1 DEF Session
<1>4. Opening' => NoThreads' /\ srv'.fd = FirstFd /\ HoldsFile(srv.file)'
  BY <1>1 DEF Alone, HoldsFile
<1>5. \A i, j \in Slots : thr'[i].pc # "none" /\ thr'[j].pc # "none" => i = j
  BY DEF Alone
<1>6. QED BY <1>1, <1>3, <1>4, <1>5 DEF Alone

(* A step of the only thread.                                              *)
LEMMA AloneMoves ==
  ASSUME Alone, NEW i \in Slots, thr[i].pc # "none", srv' = srv, requests' = requests,
         \A k \in Slots : k # i => thr'[k] = thr[k],
         OnlyFirst', thr'[i].pc # "none" => Session(i)',
         thr'[i].pc = "none" => AllClosed'
  PROVE  Alone'
<1>1. \A k \in Slots : k # i => thr'[k].pc = "none" BY DEF Alone
<1>2. ~NoThreads /\ ~Opening /\ ~Opening' BY DEF Alone, NoThreads, Opening
<1>3. requests'["PLAY"] # 0 BY <1>2 DEF Alone
<1>4. NoThreads' => AllClosed' BY DEF NoThreads
<1>5. srv'.pc \notin {"SEEK", "close", "open", "set"} BY DEF Alone
<1>6. QED BY <1>1, <1>2, <1>3, <1>4, <1>5 DEF Alone

LEMMA AskedAlone ==
  ASSUME TypeInv, Alone, Asked, [Next]_vars, Undisturbed' PROVE Alone'
<1>0. /\ requests \in [AllRequests -> Nat] /\ srv.pc = "idle"
      /\ {"PLAY", "SEEK", "STOP", "SPEED", "DESTROY"} = AllRequests
      /\ requests["PLAY"] \in Nat /\ requests'["PLAY"] <= 1 /\ requests'["SEEK"] = 0
  BY StillAlone
  DEF TypeInv, TypeOK, AllRequests, Asked, Destroy, PlayOpen, Command, Request
<1>1. ASSUME NEW r \in {"STOP", "SPEED", "DESTROY"}, Request(r)
      PROVE  requests'["PLAY"] = requests["PLAY"]
  BY <1>0, <1>1 DEF Request
<1>2. ASSUME NEW c \in Clients, Destroy(c) PROVE Alone'
  <2>1. /\ fds' = fds /\ thr' = thr /\ srv' = srv
        /\ requests'["PLAY"] = requests["PLAY"]
    BY <1>1, <1>2 DEF Destroy
  <2>2. slot \in [Slots -> SlotTypes] BY DEF TypeInv, TypeOK
  <2>3. \A i \in Slots : slot'[i].fd = slot[i].fd /\ slot'[i].file = slot[i].file
    BY <1>2, <2>2 DEF Destroy, DestroyStop, SlotTypes
  <2>4. QED BY <1>0, <2>1, <2>3, AloneSame DEF Opening
<1>3. ASSUME NEW r \in {"STOP", "SPEED"}, NEW i \in Slots, Command(r, i, 0, 0)
      PROVE  Alone'
  <2>1. /\ fds' = fds /\ thr' = thr /\ slot' = slot
        /\ requests'["PLAY"] = requests["PLAY"]
    BY <1>1, <1>3 DEF Command
  <2>2. srv'.pc \in {"idle", "STOP", "SPEED"}
    BY <1>0, <1>3 DEF Command, IdleServer
  <2>3. QED BY <1>0, <2>1, <2>2, AloneSame DEF Opening
<1>4. ASSUME NEW i \in Slots, NEW f, NEW to, Command("SEEK", i, f, to) PROVE FALSE
  <2>1. requests' = [requests EXCEPT !["SEEK"] = @ + 1]
    BY <1>4 DEF Command, Request
  <2>2. requests["SEEK"] \in Nat /\ requests'["SEEK"] = requests["SEEK"] + 1
    BY <1>0, <2>1
  <2>3. QED BY <1>0, <2>2
<1>5. ASSUME NEW c \in Clients, NEW f \in Files, NEW to, PlayOpen(c, f, to)
      PROVE  Alone'
  <2>1. requests'["PLAY"] = requests["PLAY"] + 1
    <3>1. requests' = [requests EXCEPT !["PLAY"] = @ + 1]
      BY <1>5 DEF PlayOpen, Request
    <3>2. QED BY <1>0, <3>1
  <2>2. requests["PLAY"] = 0 /\ requests'["PLAY"] # 0 BY <1>0, <2>1
  <2>3. NoThreads /\ ~Opening /\ AllClosed BY <2>2 DEF Alone
  <2>4. thr' = thr /\ slot' = slot BY <1>5 DEF PlayOpen
  <2>5. CASE CanOpen(f)
    <3>1. PICK d \in Fds :
            OpenAt(f, d) /\ srv' = [pc |-> "scan", id |-> 0, client |-> c, fd |-> d,
                                    file |-> f, to |-> to]
      BY <1>5, <2>5 DEF PlayOpen
    <3>2. d = FirstFd /\ HoldsFile(f)' /\ OnlyFirst'
      BY <2>3, <3>1, OpensFirst DEF TypeInv
    <3>3. srv'.pc = "scan" /\ srv'.fd = d /\ srv'.file = f BY <3>1
    <3>4. Opening' /\ HoldsFile(srv.file)' BY <3>2, <3>3 DEF Opening, HoldsFile
    <3>5. NoThreads' BY <2>3, <2>4 DEF NoThreads
    <3>6. QED BY <2>2, <3>2, <3>3, <3>4, <3>5 DEF Alone, NoThreads
  <2>6. CASE ~CanOpen(f)
    <3>1. fds' = fds /\ srv' = srv BY <1>5, <2>6 DEF PlayOpen
    <3>2. QED BY <1>0, <2>2, <2>4, <3>1, AloneSame DEF Opening
  <2>7. QED BY <2>5, <2>6
<1>6. QED BY <1>2, <1>3, <1>4, <1>5 DEF Asked

LEMMA ServesAlone ==
  ASSUME TypeInv, Alone, Serves, requests' = requests PROVE Alone'
<1>0. /\ srv \in ServerTypes /\ slot \in [Slots -> SlotTypes] /\ TypeOK
      /\ thr \in [Slots -> ThreadTypes] /\ (srv.pc \notin {"idle", "scan"} => srv.id \in Slots)
  BY DEF TypeInv, TypeOK, IdInv
<1>1. CASE PlayClaim
  <2>1. /\ thr' = thr /\ fds' = fds /\ srv' = [srv EXCEPT !.pc = "fill"]
        /\ slot' = [slot EXCEPT ![srv.id].flag = TRUE] /\ srv.pc = "scan"
    BY <1>1 DEF PlayClaim
  <2>2. \A i \in Slots : slot'[i].fd = slot[i].fd /\ slot'[i].file = slot[i].file
    BY <1>0, <2>1 DEF SlotTypes
  <2>3. srv'.pc = "fill" /\ srv'.fd = srv.fd /\ srv'.file = srv.file
    BY <1>0, <2>1 DEF ServerTypes
  <2>4. QED BY <2>1, <2>2, <2>3, AloneSame DEF Opening
<1>2. CASE PlayPass
  <2>1. /\ thr' = thr /\ fds' = fds /\ slot' = slot
        /\ srv' = [srv EXCEPT !.id = @ + 1] /\ srv.pc = "scan"
    BY <1>2 DEF PlayPass
  <2>2. srv'.pc = srv.pc /\ srv'.fd = srv.fd /\ srv'.file = srv.file
    BY <1>0, <2>1 DEF ServerTypes
  <2>3. QED BY <2>1, <2>2, AloneSame DEF Opening
<1>3. CASE PlayRefused
  <2>1. /\ NoThreads /\ srv.fd = FirstFd /\ fds' = CloseFd(srv.fd)
        /\ thr' = thr /\ srv'.pc = "idle" /\ requests["PLAY"] # 0
    BY <1>3 DEF PlayRefused, Alone, Opening, IdleServer
  <2>2. AllClosed' /\ OnlyFirst' BY <1>0, <2>1, ClosesFirst DEF Alone
  <2>3. QED BY <2>1, <2>2 DEF Alone, NoThreads, Opening
<1>4. CASE PlayStart
  <2>0. PICK k \in Slots : k = srv.id BY <1>0, <1>4 DEF PlayStart
  <2>1. /\ NoThreads /\ srv.fd = FirstFd /\ HoldsFile(srv.file) /\ fds' = fds
        /\ srv'.pc = "idle" /\ requests["PLAY"] # 0
    BY <1>4 DEF PlayStart, Alone, Opening, IdleServer
  <2>2. /\ slot' = [slot EXCEPT ![k] = Filled(slot[k])]
        /\ thr' = [thr EXCEPT ![k] = [NoThread EXCEPT !.pc = "top", !.fd = srv.fd]]
    BY <1>4, <2>0 DEF PlayStart
  <2>3. /\ thr'[k].pc = "top" /\ thr'[k].fd = srv.fd
        /\ \A i \in Slots : i # k => thr'[i] = thr[i]
    BY <1>0, <2>1, <2>2 DEF NoThread
  <2>4. slot'[k].fd = srv.fd /\ slot'[k].file = srv.file
    BY <1>0, <2>1, <2>2 DEF Filled, SlotTypes
  <2>5. Session(k)' BY <2>1, <2>3, <2>4 DEF Session, HoldsFile
  <2>6. \A i \in Slots : thr'[i].pc # "none" => i = k BY <2>1, <2>3 DEF NoThreads
  <2>7. OnlyFirst' BY <2>1 DEF Alone, OnlyFirst
  <2>8. ~Opening' /\ ~NoThreads' BY <2>1, <2>3 DEF Opening, NoThreads
  <2>9. \A i \in Slots : thr'[i].pc # "none" => Session(i)' BY <2>5, <2>6
  <2>10. QED BY <2>1, <2>6, <2>7, <2>8, <2>9 DEF Alone
<1>5. CASE SetStop \/ SetSpeed
  <2>1. /\ thr' = thr /\ fds' = fds /\ srv' = IdleServer
        /\ srv.pc \in {"STOP", "SPEED"} /\ srv.id \in Slots
        /\ \/ slot' = [slot EXCEPT ![srv.id].status = "STOP"]
           \/ slot' = [slot EXCEPT ![srv.id].speed = TRUE]
    BY <1>0, <1>5 DEF SetStop, SetSpeed
  <2>2. \A i \in Slots : slot'[i].fd = slot[i].fd /\ slot'[i].file = slot[i].file
    BY <1>0, <2>1 DEF SlotTypes
  <2>3. QED BY <2>1, <2>2, AloneSame DEF Opening, IdleServer
<1>6. CASE SeekTake \/ SeekClose \/ SeekOpen \/ SeekSet
  BY <1>6 DEF SeekTake, SeekClose, SeekOpen, SeekSet, Alone
<1>7. QED BY <1>1, <1>2, <1>3, <1>4, <1>5, <1>6 DEF Serves

(* The steps between files change neither the numbers nor the table but    *)
(* for the position in the file.                                           *)
LEMMA SessionGoesOn ==
  ASSUME TypeInv, Alone, NEW i \in Slots, thr[i].pc # "none",
         srv' = srv, requests' = requests,
         \A k \in Slots : k # i => thr'[k] = thr[k],
         \A d \in Fds : fds'[d].file = fds[d].file /\ (d # FirstFd => fds'[d] = fds[d]),
         thr[i].pc \in {"next", "eofset"} => FALSE,
         slot'[i].fd = slot[i].fd /\ slot'[i].file = slot[i].file,
         thr'[i].pc \in {"jump", "read", "wait", "write"} => thr'[i].file = slot[i].file,
         thr'[i].pc \in {"top", "jump", "read", "wait", "write", "eof"}
           => thr[i].pc \in {"top", "jump", "read", "wait", "write", "eof"},
         thr'[i].fd = thr[i].fd, thr'[i].pc \notin {"none", "next", "eofset"}
  PROVE  Alone'
<1>1. Session(i) BY DEF Alone
<1>2. HoldsFile(slot[i].file) => HoldsFile(slot[i].file)' BY DEF HoldsFile
<1>3. Session(i)' BY <1>1, <1>2 DEF Session
<1>4. OnlyFirst' BY DEF Alone, OnlyFirst
<1>5. QED BY <1>3, <1>4, AloneMoves

LEMMA PlayerAlone ==
  ASSUME TypeInv, Alone, NEW i \in Slots, Player(i), requests' = requests,
         "other" \notin Faults
  PROVE  Alone'
<1> DEFINE th == thr[i]
<1>0. /\ th \in ThreadTypes /\ slot[i] \in SlotTypes
      /\ thr \in [Slots -> ThreadTypes] /\ slot \in [Slots -> SlotTypes]
      /\ fds \in [Fds -> FdEntries] /\ TypeOK
  BY DEF TypeInv, TypeOK
<1>1. srv' = srv /\ th.pc # "none" /\ \A k \in Slots : k # i => thr'[k] = thr[k]
  BY <1>0
  DEF Player, Top, Jump, JumpFails, Read, ReadEnd, EofClose, EofOpen, EofLast, EofSet,
      Poll, WaitOver, Write, WriteFull, End, Last, Thread, history
<1>2. Session(i) /\ OnlyFirst BY <1>1 DEF Alone
<1>3. \A from, new : Thread(i, from, new) => th.pc = from /\ thr'[i] = new
  BY <1>0 DEF Thread
<1>4. CASE Top(i)
  <2>1. /\ th.pc = "top" /\ fds' = fds
        /\ thr'[i] = [th EXCEPT !.pc = AfterTop(i), !.status = slot[i].status,
                                !.file = slot[i].file,
                                !.fd = IF slot[i].seek THEN slot[i].fd ELSE @,
                                !.to = IF slot[i].seek THEN slot[i].to ELSE @]
        /\ slot' = [slot EXCEPT ![i].seek = FALSE, ![i].speed = FALSE]
    BY <1>3, <1>4 DEF Top
  <2>2. slot'[i].fd = slot[i].fd /\ slot'[i].file = slot[i].file
    BY <1>0, <2>1 DEF SlotTypes
  <2>3. AfterTop(i) \in {"end", "jump", "read"} BY DEF AfterTop
  <2>4. thr'[i].pc = AfterTop(i) /\ thr'[i].file = slot[i].file /\ thr'[i].fd = th.fd
    BY <1>0, <1>2, <2>1 DEF ThreadTypes, Session
  <2>5. QED BY <1>1, <2>1, <2>2, <2>3, <2>4, SessionGoesOn
<1>5. CASE Jump(i) \/ Read(i)
  <2>1. /\ th.pc \in {"jump", "read"} /\ slot' = slot
        /\ th.fd \in Fds /\ \E p : fds' = [fds EXCEPT ![th.fd].pos = p]
    BY <1>3, <1>5 DEF Jump, Read, HasFrame, Readable
  <2>2. /\ thr'[i].fd = th.fd /\ thr'[i].file = th.file
        /\ thr'[i].pc \in {"read", "top", "wait"}
    <3>1. \/ thr'[i] = [th EXCEPT !.pc = "read", !.list = ClearPlayTime(@)]
          \/ thr'[i] = AfterRead(th, FrameAt(th.fd))
      BY <1>3, <1>5 DEF Jump, Read
    <3>2. CASE thr'[i] = [th EXCEPT !.pc = "read", !.list = ClearPlayTime(@)]
      BY <1>0, <3>2 DEF ThreadTypes
    <3>3. CASE thr'[i] = AfterRead(th, FrameAt(th.fd))
      BY <1>0, <3>3 DEF ThreadTypes, AfterRead
    <3>4. QED BY <3>1, <3>2, <3>3
  <2>3. \A d \in Fds : /\ fds'[d].file = fds[d].file
                       /\ d # FirstFd => fds'[d] = fds[d]
    BY <1>0, <1>2, <2>1 DEF Session, FdEntries
  <2>4. th.file = slot[i].file BY <1>2, <2>1 DEF Session
  <2>5. QED BY <1>1, <2>1, <2>2, <2>3, <2>4, SessionGoesOn
<1>6. CASE JumpFails(i) \/ ReadEnd(i) \/ WaitOver(i) \/ Write(i) \/ WriteFull(i) \/ Poll(i)
  <2>1. /\ th.pc \in {"jump", "read", "wait", "write"} /\ fds' = fds
        /\ slot'[i].fd = slot[i].fd /\ slot'[i].file = slot[i].file
    BY <1>0, <1>3, <1>6
    DEF JumpFails, ReadEnd, WaitOver, Write, WriteFull, Poll, SlotTypes
  <2>2. /\ thr'[i].fd = th.fd /\ thr'[i].file = th.file
        /\ thr'[i].pc \in {"read", "eof", "top", "wait", "write", "end"}
    <3>1. CASE JumpFails(i) BY <1>0, <1>3, <3>1 DEF JumpFails, ThreadTypes
    <3>2. CASE ReadEnd(i)
      <4>1. thr'[i] = [th EXCEPT !.pc = "eof", !.frame = NoFrame]
        BY <1>3, <3>2 DEF ReadEnd
      <4>2. QED BY <1>0, <4>1 DEF ThreadTypes
    <3>3. CASE WaitOver(i)
      <4>1. \/ thr'[i] = [th EXCEPT !.pc = "top", !.frame = NoFrame]
            \/ thr'[i] = [th EXCEPT !.pc = "write", !.tries = 0]
        BY <1>3, <3>3 DEF WaitOver
      <4>2. QED BY <1>0, <4>1 DEF ThreadTypes
    <3>4. CASE Write(i)
      <4>1. thr'[i] = [th EXCEPT !.pc = "top", !.frame = NoFrame, !.tries = 0]
        BY <1>3, <3>4 DEF Write
      <4>2. QED BY <1>0, <4>1 DEF ThreadTypes
    <3>5. CASE WriteFull(i)
      <4>1. th.pc = "write" /\ thr'[i] = AfterFull(th, slot[i].status)
        BY <1>3, <3>5 DEF WriteFull
      <4>2. QED BY <1>0, <4>1 DEF AfterFull, ThreadTypes
    <3>6. CASE Poll(i)
      <4>1. th.pc = "wait" /\ thr'[i] = AfterPoll(th, slot[i].status)
        BY <1>3, <3>6 DEF Poll
      <4>2. QED BY <1>0, <4>1 DEF AfterPoll, ThreadTypes
    <3>7. QED BY <1>6, <3>1, <3>2, <3>3, <3>4, <3>5, <3>6
  <2>3. th.file = slot[i].file BY <1>2, <2>1 DEF Session
  <2>4. QED BY <1>1, <2>1, <2>2, <2>3, SessionGoesOn
<1>7. CASE EofClose(i)
  <2>1. /\ \E next \in {"next", "end"} : thr'[i] = [th EXCEPT !.pc = next]
        /\ slot' = slot /\ fds' = CloseFd(FirstFd)
    BY <1>2, <1>3, <1>7 DEF EofClose, Session
  <2>2. thr'[i].fd = th.fd /\ thr'[i].pc \in {"next", "end"}
    BY <1>0, <2>1 DEF ThreadTypes
  <2>3. AllClosed' /\ OnlyFirst' BY <1>0, <1>2, <2>1, ClosesFirst
  <2>4. Session(i)' BY <1>2, <2>1, <2>2, <2>3 DEF Session
  <2>5. QED BY <1>1, <2>2, <2>3, <2>4, AloneMoves
<1>8. CASE EofOpen(i)
  <2>1. PICK f \in Files, d \in Fds :
          /\ OpenAt(f, d) /\ slot' = slot /\ th.pc = "next"
          /\ thr'[i] = [th EXCEPT !.pc = "eofset", !.file = f, !.new = d]
    BY <1>3, <1>8, KindsAssumption DEF EofOpen, Later
  <2>2. /\ thr'[i].pc = "eofset" /\ thr'[i].file = f /\ thr'[i].new = d
        /\ thr'[i].fd = th.fd
    BY <1>0, <2>1 DEF ThreadTypes
  <2>3. AllClosed BY <1>2, <2>1 DEF Session
  <2>4. d = FirstFd /\ HoldsFile(f)' /\ OnlyFirst' BY <1>0, <2>1, <2>3, OpensFirst
  <2>5. Session(i)' BY <1>2, <2>1, <2>2, <2>4 DEF Session, HoldsFile
  <2>6. QED BY <1>1, <2>2, <2>4, <2>5, AloneMoves
<1>9. CASE EofLast(i) \/ End(i)
  <2>1. slot' = slot /\ fds' = fds /\ thr'[i].fd = th.fd /\ thr'[i].pc \in {"end", "last"}
    <3>1. /\ slot' = slot /\ fds' = fds
          /\ \/ thr'[i] = [th EXCEPT !.pc = "end"]
             \/ thr'[i] = [th EXCEPT !.pc = "last", !.frame = NoFrame,
                                     !.list = ClearPlayTime(@)]
      BY <1>3, <1>9 DEF EofLast, End
    <3>2. QED BY <1>0, <3>1 DEF ThreadTypes
  <2>2. Session(i)' /\ OnlyFirst' BY <1>2, <2>1 DEF Session, OnlyFirst
  <2>3. QED BY <1>1, <2>1, <2>2, AloneMoves
<1>10. CASE EofSet(i)
  <2>1. /\ th.pc = "eofset" /\ fds' = fds
        /\ thr'[i] = [th EXCEPT !.pc = "top", !.new = NoFd]
        /\ slot' = [slot EXCEPT ![i] = [@ EXCEPT !.file = th.file, !.fd = th.new,
                                                 !.seek = FALSE]]
    BY <1>3, <1>10 DEF EofSet
  <2>2. slot'[i].file = th.file /\ slot'[i].fd = th.new BY <1>0, <2>1 DEF SlotTypes
  <2>3. thr'[i].pc = "top" /\ thr'[i].fd = th.fd BY <1>0, <2>1 DEF ThreadTypes
  <2>4. th.new = FirstFd /\ HoldsFile(th.file) BY <1>2, <2>1 DEF Session
  <2>5. Session(i)' /\ OnlyFirst'
    BY <1>2, <2>1, <2>2, <2>3, <2>4 DEF Session, OnlyFirst, HoldsFile
  <2>6. QED BY <1>1, <2>3, <2>5, AloneMoves
<1>11. CASE Last(i)
  <2>1. thr'[i].pc = "none" /\ fds' = CloseFd(FirstFd)
    BY <1>2, <1>3, <1>11 DEF Last, Session, NoThread
  <2>2. AllClosed' /\ OnlyFirst' BY <1>0, <1>2, <2>1, ClosesFirst
  <2>3. QED BY <1>1, <2>1, <2>2, AloneMoves
<1>12. QED
  BY <1>4, <1>5, <1>6, <1>7, <1>8, <1>9, <1>10, <1>11 DEF Player

(* Without other threads every open file is one of the recordings.         *)
NoForeign == "other" \notin Faults => \A d \in Fds : fds[d].file # NFiles

LEMMA NoForeignInit == Init => NoForeign
BY Constants DEF Init, NoForeign, Closed, NoFd

LEMMA NoForeignNext == TypeInv /\ NoForeign /\ [Next]_vars => NoForeign'
<1> SUFFICES ASSUME TypeInv, NoForeign, [Next]_vars, "other" \notin Faults
             PROVE  \A d \in Fds : fds'[d].file # NFiles
  BY DEF NoForeign
<1>0. fds \in [Fds -> FdEntries] /\ \A d \in Fds : fds[d].file # NFiles
  BY DEF TypeInv, TypeOK, NoForeign
<1>1. \/ fds' = fds
      \/ \E d : fds' = CloseFd(d)
      \/ \E f, d : OpenAt(f, d) /\ d \in Fds
      \/ \E d, p : d \in Fds /\ fds' = [fds EXCEPT ![d].pos = p]
  <2>1. CASE Asked BY <2>1 DEF Asked, Destroy, PlayOpen, Command
  <2>2. CASE Serves
    BY <2>2 DEF Serves, PlayClaim, PlayPass, PlayRefused, PlayStart, SetStop, SetSpeed,
       SeekTake, SeekClose, SeekOpen, SeekSet
  <2>3. ASSUME NEW i \in Slots, Jump(i) \/ Read(i)
        PROVE  \E d, p : d \in Fds /\ fds' = [fds EXCEPT ![d].pos = p]
    BY <2>3 DEF Jump, Read, HasFrame, Readable
  <2>4. ASSUME NEW i \in Slots, Player(i), ~Jump(i), ~Read(i)
        PROVE  \/ fds' = fds
               \/ \E d : fds' = CloseFd(d)
               \/ \E f, d : OpenAt(f, d) /\ d \in Fds
    BY <2>4 DEF Player, Top, JumpFails, ReadEnd, EofClose, EofOpen, EofLast, EofSet,
       Poll, WaitOver, Write, WriteFull, End, Last
  <2>5. CASE OtherOpens \/ OtherCloses BY <2>5 DEF OtherOpens, OtherCloses
  <2>6. QED BY <2>1, <2>2, <2>3, <2>4, <2>5 DEF Next, vars
<1>2. Closed.file # NFiles BY Constants DEF Closed, NoFd
<1>3. ASSUME NEW d, fds' = CloseFd(d) PROVE \A e \in Fds : fds'[e].file # NFiles
  BY <1>0, <1>2, <1>3 DEF CloseFd
<1>4. ASSUME NEW f, NEW d \in Fds, OpenAt(f, d)
      PROVE  \A e \in Fds : fds'[e].file # NFiles
  <2>1. f \in Files /\ fds' = [fds EXCEPT ![d] = Opened(f)]
    BY <1>4, KindsAssumption DEF OpenAt, CanOpen
  <2>2. Opened(f).file # NFiles BY <2>1, Constants DEF Opened
  <2>3. QED BY <1>0, <2>1, <2>2
<1>5. ASSUME NEW d \in Fds, NEW p, fds' = [fds EXCEPT ![d].pos = p]
      PROVE  \A e \in Fds : fds'[e].file # NFiles
  BY <1>0, <1>5 DEF FdEntries
<1>6. QED BY <1>0, <1>1, <1>3, <1>4, <1>5

LEMMA AloneNext == TypeInv /\ NoForeign /\ AloneInv /\ [Next]_vars => AloneInv'
<1> SUFFICES ASSUME TypeInv, NoForeign, AloneInv, [Next]_vars, Undisturbed' PROVE Alone'
  BY DEF AloneInv
<1>0. Alone /\ "other" \notin Faults BY StillAlone DEF AloneInv
<1>1. CASE Asked BY <1>0, <1>1, AskedAlone
<1>2. CASE Serves BY <1>0, <1>2, ServesAlone, StillAlone
<1>3. ASSUME NEW i \in Slots, Player(i) PROVE Alone'
  <2>1. requests' = requests BY <1>3, StillAlone
  <2>2. QED BY <1>0, <1>3, <2>1, PlayerAlone
<1>4. CASE OtherOpens BY <1>0, <1>4 DEF OtherOpens
<1>5. CASE OtherCloses
  <2>1. \A d \in Fds : fds[d] # Foreign BY <1>0 DEF NoForeign, Foreign
  <2>2. QED BY <1>5, <2>1 DEF OtherCloses
<1>6. CASE UNCHANGED vars BY <1>0, <1>6, AloneSame DEF vars, Alone, Opening
<1>7. QED BY <1>1, <1>2, <1>3, <1>4, <1>5, <1>6 DEF Next

(* The files of a session follow each other under one number, which the    *)
(* thread keeps although it never learns the new one: record_read reads    *)
(* the file that the thread takes its name from.                           *)
LEMMA OwnFileIsRead == Spec => []ReadsOwnFile
<1>1. TypeInv /\ AloneInv => ReadsOwnFile
  <2> SUFFICES ASSUME TypeInv, AloneInv, NEW i \in Slots, Undisturbed, thr[i].pc = "read"
               PROVE  /\ thr[i].fd = slot[i].fd /\ Readable(thr[i].fd)
                      /\ fds[thr[i].fd].file = thr[i].file
    BY DEF ReadsOwnFile
  <2>1. Session(i) BY DEF AloneInv, Alone
  <2>2. thr[i].fd \in Fds /\ fds[thr[i].fd].file = thr[i].file BY <2>1 DEF Session, HoldsFile
  <2>3. thr[i].file \in Files BY DEF TypeInv, TypeOK, ThreadTypes
  <2>4. QED BY <2>1, <2>2, <2>3 DEF Session, Readable
<1>2. QED
  BY <1>1, TypeInit, TypeNext, AloneInit, AloneNext, NoForeignInit, NoForeignNext, PTL
  DEF Spec

(* What a session opened is closed when it is over: the thread closes the  *)
(* number it has, the end that of the slot, and the two are the same.      *)
LEMMA NothingLeftOpen == Spec => []DescriptorsClosed
<1>1. OwnInv /\ AloneInv => DescriptorsClosed
  <2> SUFFICES ASSUME OwnInv, AloneInv, Undisturbed, srv.pc = "idle",
                      \A i \in Slots : ~slot[i].flag
               PROVE  AllClosed
    BY DEF DescriptorsClosed, AllClosed
  <2>1. NoThreads BY DEF OwnInv, Owner, NoThreads
  <2>2. QED BY <2>1 DEF AloneInv, Alone, Opening
<1>2. QED
  BY <1>1, TypeInit, TypeNext, OwnerInit, OwnNext, AloneInit, AloneNext, NoForeignInit,
     NoForeignNext, PTL
  DEF Spec

-----------------------------------------------------------------------------
(***************************************************************************)
(* The order of what is sent.  The list is sorted; what it holds, but for  *)
(* as many of its last frames as are read already of the last ListLen,     *)
(* comes before each frame that is still to be read.                       *)
(***************************************************************************)

(* The order in a file: a frame is stored so little late that the list     *)
(* still holds those before which it is to be sent.                        *)
LittleLate ==
  \A a, b \in 1 .. Len(Order) : b - a >= ListLen => Order[a] <= Order[b]

Sorted(list) == \A j, k \in DOMAIN list : j <= k => list[j] <= list[k]

(* With p frames read of file f.                                           *)
Ahead(list, f, p) ==
  /\ \A k \in DOMAIN list : list[k] < (f + 1) * L
  /\ \A k \in DOMAIN list, q \in p + 1 .. L :
       k + (p + ListLen - q) <= Len(list) => list[k] <= f * L + Order[q]

(* A set that holds with a number all smaller ones from 1.                 *)
LEMMA DownClosed ==
  ASSUME NEW n \in Nat, NEW K \in SUBSET (1 .. n), \A k \in K : 1 .. k \subseteq K
  PROVE  /\ Cardinality(K) \in 0 .. n
         /\ \A k \in 1 .. n : k \in K <=> k <= Cardinality(K)
<1> DEFINE c == Cardinality(K)
<1>1. IsFiniteSet(1 .. n) /\ Cardinality(1 .. n) = n BY FS_Interval
<1>2. IsFiniteSet(K) /\ c \in Nat /\ c <= n
  BY <1>1, FS_Subset, FS_CardinalityType
<1> HIDE DEF c
<1>3. ASSUME NEW k \in 1 .. n, k \in K PROVE k <= c
  <2>1. 1 .. k \subseteq K BY <1>3
  <2>2. Cardinality(1 .. k) = k BY FS_Interval
  <2>3. Cardinality(1 .. k) <= c BY <1>2, <2>1, FS_Subset DEF c
  <2>4. QED BY <2>2, <2>3
<1>4. ASSUME NEW k \in 1 .. n, k \notin K PROVE ~(k <= c)
  <2>1. \A j \in K : ~(k <= j)
    <3>1. SUFFICES ASSUME NEW j \in K, k <= j PROVE FALSE OBVIOUS
    <3>2. k \in 1 .. j /\ 1 .. j \subseteq K BY <3>1
    <3>3. QED BY <1>4, <3>2
  <2>2. K \subseteq 1 .. k - 1 BY <2>1
  <2>3. IsFiniteSet(1 .. k - 1) /\ Cardinality(1 .. k - 1) = k - 1 BY FS_Interval
  <2>4. c <= k - 1 BY <2>2, <2>3, FS_Subset DEF c
  <2>5. QED BY <1>2, <2>4
<1>5. QED BY <1>2, <1>3, <1>4 DEF c

LEMMA FramesAreNumbers == Frames \subseteq Nat
BY DEF Frames

LEMMA ListNumbers ==
  ASSUME NEW list \in Seq(Frames)
  PROVE  /\ DOMAIN list = 1 .. Len(list) /\ Len(list) \in Nat
         /\ \A k \in 1 .. Len(list) : list[k] \in Nat
<1>1. /\ DOMAIN list = 1 .. Len(list) /\ Len(list) \in Nat
      /\ \A k \in 1 .. Len(list) : list[k] \in Frames
  OBVIOUS
<1>2. QED BY <1>1, FramesAreNumbers

(* A frame goes behind all that are not later.                             *)
Inserted(list, t, new, p) ==
  /\ \A k \in 1 .. p : new[k] = list[k] /\ list[k] <= t
  /\ new[p + 1] = t
  /\ \A k \in p + 2 .. Len(list) + 1 : new[k] = list[k - 1]
  /\ \A k \in p + 1 .. Len(list) : t < list[k]

LEMMA InsertPlaces ==
  ASSUME NEW list \in Seq(Frames), NEW t \in Frames, Sorted(list),
         NEW new, new = InsertPlayTime(list, t)
  PROVE  /\ new \in Seq(Frames) /\ Len(new) = Len(list) + 1
         /\ \E p \in 0 .. Len(list) : Inserted(list, t, new, p)
<1> DEFINE K == {k \in DOMAIN list : list[k] <= t}
           p == Cardinality(K)
           n == Len(list)
<1>1. DOMAIN list = 1 .. n /\ n \in Nat /\ \A k \in 1 .. n : list[k] \in Nat
  BY ListNumbers
<1>2. t \in Nat BY FramesAreNumbers
<1>3. \A k \in K : 1 .. k \subseteq K
  <2>1. SUFFICES ASSUME NEW k \in K, NEW j \in 1 .. k PROVE j \in K OBVIOUS
  <2>2. j \in 1 .. n /\ k \in 1 .. n /\ j <= k BY <1>1
  <2>3. list[j] <= list[k] /\ list[k] <= t BY <1>1, <2>2 DEF Sorted
  <2>4. list[j] <= t BY <1>1, <1>2, <2>2, <2>3
  <2>5. QED BY <1>1, <2>2, <2>4
<1>4. p \in 0 .. n /\ \A k \in 1 .. n : k \in K <=> k <= p
  <2>1. K \in SUBSET (1 .. n) BY <1>1
  <2> HIDE DEF K, n
  <2>2. n \in Nat BY <1>1
  <2>3. QED BY <1>3, <2>1, <2>2, DownClosed
<1>5. \A k \in 1 .. n : list[k] <= t <=> k <= p BY <1>1, <1>4
<1>6. new = SubSeq(list, 1, p) \o <<t>> \o SubSeq(list, p + 1, n)
  BY DEF InsertPlayTime
<1> HIDE DEF p, n
<1> DEFINE a == SubSeq(list, 1, p)
           b == SubSeq(list, p + 1, n)
           one == <<t>>
           front == a \o one
<1>7. /\ a \in Seq(Frames) /\ Len(a) = p
      /\ \A k \in 1 .. p : a[k] = list[k]
  <2>1. 1 \in Int /\ p \in Int /\ \A k \in 1 .. p : list[k] \in Frames
    BY <1>1, <1>4 DEF n
  <2>2. /\ a \in Seq(Frames) /\ Len(a) = IF 1 <= p THEN p - 1 + 1 ELSE 0
        /\ \A k \in 1 .. p - 1 + 1 : a[k] = list[1 + k - 1]
    BY <2>1, SubSeqProperties
  <2> HIDE DEF a
  <2>3. p - 1 + 1 = p /\ \A k \in 1 .. p : 1 + k - 1 = k BY <1>4
  <2>4. Len(a) = p BY <1>4, <2>2
  <2>5. QED BY <2>2, <2>3, <2>4
<1>8. /\ b \in Seq(Frames) /\ Len(b) = n - p
      /\ \A k \in 1 .. n - p : b[k] = list[p + k]
  <2>1. p + 1 \in Int /\ n \in Int /\ \A k \in p + 1 .. n : list[k] \in Frames
    BY <1>1, <1>4 DEF n
  <2>2. /\ b \in Seq(Frames) /\ Len(b) = IF p + 1 <= n THEN n - (p + 1) + 1 ELSE 0
        /\ \A k \in 1 .. n - (p + 1) + 1 : b[k] = list[(p + 1) + k - 1]
    BY <2>1, SubSeqProperties
  <2> HIDE DEF b
  <2>3. n - (p + 1) + 1 = n - p BY <1>1, <1>4
  <2>4. \A k \in 1 .. n - p : (p + 1) + k - 1 = p + k BY <1>4
  <2>5. Len(b) = n - p BY <1>1, <1>4, <2>2
  <2>6. QED BY <2>2, <2>3, <2>4, <2>5
<1>9. one \in Seq(Frames) /\ Len(one) = 1 /\ one[1] = t OBVIOUS
<1>a. new = front \o b BY <1>6
<1> HIDE DEF a, b, one
<1>10. /\ front \in Seq(Frames) /\ Len(front) = p + 1
       /\ \A k \in 1 .. p : front[k] = a[k]
       /\ front[p + 1] = t
  <2>1. /\ front \in Seq(Frames) /\ Len(front) = Len(a) + Len(one)
        /\ \A k \in 1 .. Len(a) + Len(one) :
             front[k] = IF k <= Len(a) THEN a[k] ELSE one[k - Len(a)]
    BY <1>7, <1>9, ConcatProperties
  <2> HIDE DEF front
  <2>2. Len(a) = p /\ Len(one) = 1 BY <1>7, <1>9
  <2>3. \A k \in 1 .. p : k \in 1 .. p + 1 /\ k <= p BY <1>4
  <2>4. \A k \in 1 .. p : front[k] = a[k] BY <2>1, <2>2, <2>3
  <2>5. p + 1 \in 1 .. p + 1 /\ ~(p + 1 <= p) /\ p + 1 - p = 1 BY <1>4
  <2>6. front[p + 1] = one[p + 1 - p] BY <2>1, <2>2, <2>5
  <2>7. front[p + 1] = one[1] BY <2>5, <2>6
  <2>8. QED BY <1>4, <1>9, <2>1, <2>2, <2>4, <2>7
<1> HIDE DEF front
<1>11. /\ new \in Seq(Frames) /\ Len(new) = Len(front) + Len(b)
       /\ \A k \in 1 .. Len(front) + Len(b) :
            new[k] = IF k <= Len(front) THEN front[k] ELSE b[k - Len(front)]
  BY <1>a, <1>8, <1>10, ConcatProperties
<1>12. /\ new \in Seq(Frames) /\ Len(new) = (p + 1) + (n - p)
       /\ \A k \in 1 .. (p + 1) + (n - p) :
            new[k] = IF k <= p + 1 THEN front[k] ELSE b[k - (p + 1)]
  BY <1>8, <1>10, <1>11
<1>13. (p + 1) + (n - p) = n + 1 BY <1>1, <1>4
<1>14. \A k \in 1 .. p : new[k] = list[k] /\ list[k] <= t
  <2>1. SUFFICES ASSUME NEW k \in 1 .. p PROVE new[k] = list[k] /\ list[k] <= t OBVIOUS
  <2>2. k \in 1 .. n + 1 /\ k <= p + 1 /\ k \in 1 .. p + 1 /\ k <= p /\ k \in 1 .. n
    BY <1>1, <1>4
  <2>3. new[k] = front[k] BY <1>12, <1>13, <2>2
  <2>4. front[k] = a[k] BY <1>10, <2>2
  <2>5. QED BY <1>5, <1>7, <2>2, <2>3, <2>4
<1>15. new[p + 1] = t
  <2>1. p + 1 \in 1 .. n + 1 /\ p + 1 <= p + 1 BY <1>1, <1>4
  <2>2. new[p + 1] = front[p + 1] BY <1>12, <1>13, <2>1
  <2>3. QED BY <1>10, <2>2
<1>16. \A k \in p + 2 .. n + 1 : new[k] = list[k - 1]
  <2>1. SUFFICES ASSUME NEW k \in p + 2 .. n + 1 PROVE new[k] = list[k - 1] OBVIOUS
  <2>2. k \in 1 .. n + 1 /\ ~(k <= p + 1) BY <1>1, <1>4
  <2>3. k - (p + 1) \in 1 .. n - p BY <1>1, <1>4
  <2>4. p + (k - (p + 1)) = k - 1 BY <1>1, <1>4
  <2>5. new[k] = b[k - (p + 1)] BY <1>12, <1>13, <2>2
  <2>6. b[k - (p + 1)] = list[p + (k - (p + 1))] BY <1>8, <2>3
  <2>7. QED BY <2>4, <2>5, <2>6
<1>17. \A k \in p + 1 .. n : t < list[k]
  <2>1. SUFFICES ASSUME NEW k \in p + 1 .. n PROVE t < list[k] OBVIOUS
  <2>2. k \in 1 .. n /\ ~(k <= p) BY <1>1, <1>4
  <2>3. ~(list[k] <= t) /\ list[k] \in Nat BY <1>1, <1>5, <2>2
  <2>4. QED BY <1>2, <2>3
<1>18. Inserted(list, t, new, p) BY <1>14, <1>15, <1>16, <1>17 DEF n, Inserted
<1>19. QED BY <1>4, <1>12, <1>13, <1>18 DEF n

(* So the list stays sorted, and no place in it gets a later frame.        *)
LEMMA InsertSorted ==
  ASSUME NEW list \in Seq(Frames), NEW t \in Frames, Sorted(list),
         NEW new, new = InsertPlayTime(list, t)
  PROVE  /\ new \in Seq(Frames) /\ Len(new) = Len(list) + 1 /\ Sorted(new)
         /\ \A k \in 1 .. Len(list) : new[k] <= list[k]
         /\ \A k \in 1 .. Len(list) + 1 : new[k] = t \/ \E j \in 1 .. Len(list) : new[k] = list[j]
<1> DEFINE n == Len(list)
<1>1. n \in Nat /\ DOMAIN list = 1 .. n /\ \A k \in 1 .. n : list[k] \in Nat
  BY ListNumbers
<1>2. t \in Nat BY FramesAreNumbers
<1>3. new \in Seq(Frames) /\ Len(new) = n + 1 BY InsertPlaces
<1>p. PICK p \in 0 .. n : Inserted(list, t, new, p) BY InsertPlaces
<1>4. /\ \A k \in 1 .. p : new[k] = list[k] /\ list[k] <= t
      /\ new[p + 1] = t
      /\ \A k \in p + 2 .. n + 1 : new[k] = list[k - 1]
      /\ \A k \in p + 1 .. n : t < list[k]
  BY <1>p DEF Inserted
<1> HIDE DEF n
<1>5. \A j, k \in 1 .. n : j <= k => list[j] <= list[k] BY <1>1 DEF Sorted
<1>6. \A k \in 1 .. n + 1 : k \in 1 .. p \/ k = p + 1 \/ k \in p + 2 .. n + 1
  BY <1>1
<1>7. \A k \in p + 2 .. n + 1 : k - 1 \in 1 .. n /\ k - 1 \in p + 1 .. n BY <1>1
<1>8. \A k \in 1 .. p : k \in 1 .. n BY <1>1
<1>9. DOMAIN new = 1 .. n + 1 BY <1>3
<1>10. Sorted(new)
  <2>1. SUFFICES ASSUME NEW j \in 1 .. n + 1, NEW k \in 1 .. n + 1, j <= k
                 PROVE  new[j] <= new[k]
    BY <1>9 DEF Sorted
  <2>2. CASE j \in 1 .. p
    <3>1. new[j] = list[j] /\ list[j] <= t /\ j \in 1 .. n BY <1>4, <1>8, <2>2
    <3>2. CASE k \in 1 .. p BY <1>4, <1>5, <1>8, <2>1, <3>1, <3>2
    <3>3. CASE k = p + 1 BY <1>4, <3>1, <3>3
    <3>4. CASE k \in p + 2 .. n + 1
      <4>1. new[k] = list[k - 1] /\ k - 1 \in 1 .. n /\ t < list[k - 1]
        BY <1>4, <1>7, <3>4
      <4>2. QED BY <1>1, <1>2, <3>1, <4>1
    <3>5. QED BY <1>6, <3>2, <3>3, <3>4
  <2>3. CASE j = p + 1
    <3>1. k = p + 1 \/ k \in p + 2 .. n + 1 BY <1>1, <2>1, <2>3
    <3>2. CASE k = p + 1 BY <1>2, <1>4, <2>3, <3>2
    <3>3. CASE k \in p + 2 .. n + 1
      <4>1. new[k] = list[k - 1] /\ k - 1 \in 1 .. n /\ t < list[k - 1]
        BY <1>4, <1>7, <3>3
      <4>2. QED BY <1>1, <1>2, <1>4, <2>3, <4>1
    <3>4. QED BY <3>1, <3>2, <3>3
  <2>4. CASE j \in p + 2 .. n + 1
    <3>1. k \in p + 2 .. n + 1 /\ j - 1 <= k - 1 BY <1>1, <2>1, <2>4
    <3>2. new[j] = list[j - 1] /\ new[k] = list[k - 1] /\ j - 1 \in 1 .. n /\ k - 1 \in 1 .. n
      BY <1>4, <1>7, <2>4, <3>1
    <3>3. QED BY <1>5, <3>1, <3>2
  <2>5. QED BY <1>6, <2>2, <2>3, <2>4
<1>11. ASSUME NEW k \in 1 .. n PROVE new[k] <= list[k]
  <2>0. k \in 1 .. n + 1 BY <1>1
  <2>1. CASE k \in 1 .. p BY <1>1, <1>4, <2>1
  <2>2. CASE k = p + 1
    <3>1. k \in p + 1 .. n BY <1>1, <2>2
    <3>2. QED BY <1>1, <1>2, <1>4, <2>2, <3>1
  <2>3. CASE k \in p + 2 .. n + 1
    <3>1. new[k] = list[k - 1] /\ k - 1 \in 1 .. n /\ k - 1 <= k BY <1>4, <1>7, <2>3
    <3>2. QED BY <1>5, <3>1
  <2>4. QED BY <1>6, <2>0, <2>1, <2>2, <2>3
<1>12. \A k \in 1 .. n + 1 : new[k] = t \/ \E j \in 1 .. n : new[k] = list[j]
  BY <1>4, <1>6, <1>7, <1>8
<1>13. QED BY <1>3, <1>10, <1>11, <1>12 DEF n

LEMMA TailAhead ==
  ASSUME NEW list \in Seq(Frames), list # <<>>, Sorted(list), NEW f, NEW p \in Nat,
         Ahead(list, f, p)
  PROVE  Tail(list) \in Seq(Frames) /\ Sorted(Tail(list)) /\ Ahead(Tail(list), f, p)
<1> DEFINE n == Len(list)
           r == Tail(list)
<1>1. DOMAIN list = 1 .. n /\ n \in Nat BY ListNumbers
<1>2. r \in Seq(Frames) /\ Len(r) = n - 1 /\ \A k \in 1 .. Len(r) : r[k] = list[k + 1]
  BY HeadTailProperties
<1> HIDE DEF n, r
<1>3. n # 0
  <2>1. n = 0 => list = <<>> BY EmptySeq DEF n
  <2>2. QED BY <2>1
<1>4. DOMAIN r = 1 .. n - 1 /\ \A k \in 1 .. n - 1 : k + 1 \in 1 .. n /\ r[k] = list[k + 1]
  BY <1>1, <1>2, <1>3
<1>5. Sorted(r)
  <2>1. SUFFICES ASSUME NEW j \in 1 .. n - 1, NEW k \in 1 .. n - 1, j <= k
                 PROVE  r[j] <= r[k]
    BY <1>4 DEF Sorted
  <2>2. j + 1 <= k + 1 BY <2>1
  <2>3. QED BY <1>1, <1>4, <2>2 DEF Sorted
<1>6. \A k \in 1 .. n - 1 : r[k] < (f + 1) * L BY <1>1, <1>4 DEF Ahead
<1>7. ASSUME NEW k \in 1 .. n - 1, NEW q \in p + 1 .. L, k + (p + ListLen - q) <= n - 1
      PROVE  r[k] <= f * L + Order[q]
  <2>1. (k + 1) + (p + ListLen - q) <= n BY <1>1, <1>7, Constants
  <2>2. QED BY <1>1, <1>4, <2>1 DEF Ahead, n
<1>8. Ahead(r, f, p) BY <1>2, <1>4, <1>6, <1>7 DEF Ahead
<1>9. QED BY <1>2, <1>5, <1>8 DEF r

(* The next frame of the file is inserted.                                 *)
LEMMA InsertAhead ==
  ASSUME LittleLate, NEW list \in Seq(Frames), Sorted(list), NEW f \in Nat,
         NEW p \in 0 .. L - 1, Ahead(list, f, p),
         NEW t \in Frames, t = f * L + Order[p + 1]
  PROVE  Ahead(InsertPlayTime(list, t), f, p + 1)
<1> DEFINE n == Len(list)
           new == InsertPlayTime(list, t)
<1>1. DOMAIN list = 1 .. n /\ n \in Nat /\ \A k \in 1 .. n : list[k] \in Nat
  BY ListNumbers
<1>2. /\ new \in Seq(Frames) /\ Len(new) = n + 1
      /\ \A k \in 1 .. n : new[k] <= list[k]
      /\ \A k \in 1 .. n + 1 : new[k] = t \/ \E j \in 1 .. n : new[k] = list[j]
  <2> HIDE DEF new
  <2>1. new = InsertPlayTime(list, t) BY DEF new
  <2>2. QED BY <2>1, InsertSorted
<1> HIDE DEF n, new
<1>3. DOMAIN new = 1 .. n + 1 BY <1>1, <1>2
<1>4. L \in Nat /\ ListLen \in Nat /\ p + 1 \in 1 .. L /\ t \in Nat
  BY Constants, FramesAreNumbers
<1>5. \A q \in 1 .. L : Order[q] \in Nat BY SizesAssumption DEF L
<1>6. f * L \in Nat BY <1>4
<1>7. \A k \in 1 .. n + 1 : new[k] \in Nat BY <1>1, <1>2, <1>4
<1>8. t < (f + 1) * L
  <2>1. Order[p + 1] < L BY <1>4, SizesAssumption DEF L
  <2>2. (f + 1) * L = f * L + L BY <1>4
  <2>3. QED BY <1>4, <1>5, <1>6, <2>1, <2>2
<1>9. \A k \in 1 .. n + 1 : new[k] < (f + 1) * L BY <1>1, <1>2, <1>8 DEF Ahead
<1>10. ASSUME NEW k \in 1 .. n + 1, NEW q \in (p + 1) + 1 .. L,
              k + ((p + 1) + ListLen - q) <= n + 1
       PROVE  new[k] <= f * L + Order[q]
  <2> DEFINE m == p + ListLen - q
  <2>1. q \in p + 1 .. L /\ q \in 1 .. L /\ m \in Int BY <1>4
  <2>2. (p + 1) + ListLen - q = m + 1 BY <1>4, <2>1
  <2>3. k + m <= n BY <1>1, <1>10, <2>1, <2>2
  <2> HIDE DEF m
  <2>4. \A j \in 1 .. n : j + m <= n => list[j] <= f * L + Order[q]
    BY <1>1, <2>1 DEF Ahead, m, n
  <2>5. f * L + Order[q] \in Nat BY <1>5, <1>6, <2>1
  <2>6. CASE q - (p + 1) >= ListLen
    <3>1. m + 1 <= 0 BY <1>4, <2>1, <2>6 DEF m
    <3>2. \A j \in 1 .. n : j + m <= n BY <1>1, <2>1, <3>1
    <3>3. \A j \in 1 .. n : list[j] <= f * L + Order[q] BY <2>4, <3>2
    <3>4. Order[p + 1] <= Order[q] BY <1>4, <2>1, <2>6 DEF LittleLate, L
    <3>5. t <= f * L + Order[q] BY <1>4, <1>5, <1>6, <2>1, <3>4
    <3>6. QED BY <1>2, <3>3, <3>5
  <2>7. CASE ~(q - (p + 1) >= ListLen)
    <3>1. 0 <= m BY <1>4, <2>1, <2>7 DEF m
    <3>2. k \in 1 .. n BY <1>1, <2>1, <2>3, <3>1
    <3>3. new[k] <= list[k] /\ list[k] <= f * L + Order[q] BY <1>2, <2>3, <2>4, <3>2
    <3>4. QED BY <1>1, <1>7, <2>5, <3>2, <3>3
  <2>8. QED BY <2>6, <2>7
<1>11. QED BY <1>2, <1>3, <1>9, <1>10 DEF Ahead, new

(* A full list begins with a frame that none to come is before.            *)
LEMMA FirstIsFirst ==
  ASSUME NEW list \in Seq(Frames), Len(list) = ListLen, NEW f \in Nat,
         NEW p \in 0 .. L - 1, Ahead(list, f, p)
  PROVE  list[1] <= f * L + Order[p + 1]
<1>1. DOMAIN list = 1 .. ListLen /\ 1 \in 1 .. ListLen BY Constants
<1>2. p + 1 \in p + 1 .. L /\ 1 + (p + ListLen - (p + 1)) <= ListLen BY Constants
<1>3. QED BY <1>1, <1>2 DEF Ahead

(* What is waiting at the end of a file comes before the next file.        *)
LEMMA NextFileAhead ==
  ASSUME NEW list \in Seq(Frames), NEW g \in Files, NEW f \in Files, f > g,
         Ahead(list, g, L)
  PROVE  Ahead(list, f, 0)
<1>1. g \in Nat /\ f \in Nat /\ L \in Nat BY Constants DEF Files
<1>2. (g + 1) * L <= f * L
  <2>1. PICK d \in Nat : f = (g + 1) + d
    <3>1. f - (g + 1) \in Nat /\ f = (g + 1) + (f - (g + 1)) BY <1>1
    <3>2. QED BY <3>1
  <2>2. f * L = (g + 1) * L + d * L BY <1>1, <2>1
  <2>3. d * L \in Nat /\ (g + 1) * L \in Nat BY <1>1, <2>1
  <2>4. QED BY <2>2, <2>3
<1>3. f * L \in Nat /\ (g + 1) * L \in Nat /\ (f + 1) * L = f * L + L BY <1>1
<1>4. DOMAIN list = 1 .. Len(list) /\ \A k \in 1 .. Len(list) : list[k] \in Nat
  BY ListNumbers
<1>5. \A k \in DOMAIN list : list[k] < f * L BY <1>2, <1>3, <1>4 DEF Ahead
<1>6. \A k \in DOMAIN list : list[k] < (f + 1) * L BY <1>1, <1>3, <1>4, <1>5
<1>7. \A q \in 0 + 1 .. L : Order[q] \in Nat BY SizesAssumption DEF L
<1>8. \A k \in DOMAIN list, q \in 0 + 1 .. L : list[k] <= f * L + Order[q]
  BY <1>3, <1>4, <1>5, <1>7
<1>9. QED BY <1>6, <1>8 DEF Ahead

(* A thread with p frames read of file f that last sent s.  From the first *)
(* frame it sends to its end the list is full between two frames, and what *)
(* waits comes after what was sent.                                        *)
Reading == {"top", "jump", "read", "wait", "write", "eofset"}
Over == {"none", "end", "last"}

PlaysInOrder(th, f, p, s) ==
  /\ Sorted(th.list)
  /\ th.pc \in Reading => Ahead(th.list, f, p)
  /\ th.pc \in {"eof", "next"} => Ahead(th.list, th.file, L)
  /\ th.pc \notin Over /\ s # NoFrame => Len(th.list) = ListLen /\ s <= th.list[1]
  /\ th.pc \in {"wait", "write"} =>
       Len(th.list) = ListLen /\ th.frame <= th.list[1] /\ s <= th.frame

Ordered(i) == PlaysInOrder(thr[i], fds[FirstFd].file, fds[FirstFd].pos, sent[i])
OrderInv == Undisturbed => \A i \in Slots : Ordered(i)

(* Nothing waits, nothing was sent.                                        *)
LEMMA StartsInOrder ==
  ASSUME NEW th, th.list = <<>>, NEW f, NEW p, NEW s,
         th.pc \in Over \/ (s = NoFrame /\ th.pc \notin {"wait", "write"})
  PROVE  PlaysInOrder(th, f, p, s)
BY DEF PlaysInOrder, Sorted, Ahead, Over, Reading

(* A step that leaves the list and the position alone.                     *)
LEMMA OrderKept ==
  ASSUME NEW th, NEW new, NEW f, NEW p, NEW s, PlaysInOrder(th, f, p, s),
         new.list = th.list,
         new.pc \in Reading => th.pc \in Reading,
         new.pc \in {"eof", "next"} => th.pc \in {"eof", "next"} /\ new.file = th.file,
         new.pc \in {"wait", "write"} => th.pc \in {"wait", "write"} /\ new.frame = th.frame,
         new.pc \notin Over => th.pc \notin Over
  PROVE  PlaysInOrder(new, f, p, s)
BY DEF PlaysInOrder

(* A frame is read: the list takes it in, and when full gives up its first.*)
LEMMA ReadInOrder ==
  ASSUME LittleLate, NEW th \in ThreadTypes, th.pc = "read", NEW f \in Nat,
         NEW p \in 0 .. L - 1, NEW s \in Frames \cup {NoFrame},
         PlaysInOrder(th, f, p, s), NEW t \in Frames, t = f * L + Order[p + 1]
  PROVE  PlaysInOrder(AfterRead(th, t), f, p + 1, s)
<1> DEFINE new == AfterRead(th, t)
<1>1. /\ th.list \in Seq(Frames) /\ Len(th.list) \in Nat /\ Len(th.list) <= ListLen
      /\ ListLen \in Nat /\ ListLen # 0
  BY Constants DEF ThreadTypes, Lists
<1>2. Sorted(th.list) /\ Ahead(th.list, f, p) BY DEF PlaysInOrder, Reading
<1>3. s # NoFrame => Len(th.list) = ListLen /\ s <= th.list[1]
  BY DEF PlaysInOrder, Over
<1>4. CASE Len(th.list) < ListLen
  <2>1. new.pc = "top" /\ new.list = InsertPlayTime(th.list, t)
    BY <1>4 DEF AfterRead, ThreadTypes
  <2>2. Sorted(new.list) BY <1>1, <1>2, <2>1, InsertSorted
  <2>3. Ahead(new.list, f, p + 1) BY <1>1, <1>2, <2>1, InsertAhead
  <2>4. s = NoFrame BY <1>1, <1>3, <1>4
  <2> HIDE DEF new
  <2>5. PlaysInOrder(new, f, p + 1, s)
    BY <2>1, <2>2, <2>3, <2>4 DEF PlaysInOrder, Over
  <2>6. QED BY <2>5 DEF new
<1>5. CASE ~(Len(th.list) < ListLen)
  <2> DEFINE r == Tail(th.list)
  <2>1. Len(th.list) = ListLen /\ th.list # <<>> BY <1>1, <1>5
  <2>2. r \in Seq(Frames) /\ Sorted(r) /\ Ahead(r, f, p)
    BY <1>1, <1>2, <2>1, TailAhead
  <2>3. Len(r) = ListLen - 1 /\ \A k \in 1 .. Len(r) : r[k] = th.list[k + 1]
    BY <1>1, <2>1, HeadTailProperties
  <2>4. /\ new.pc = "wait" /\ new.frame = Head(th.list)
        /\ new.list = InsertPlayTime(r, t)
    BY <1>5 DEF AfterRead, ThreadTypes
  <2>5. Head(th.list) = th.list[1] BY <1>1, <2>1
  <2> HIDE DEF r
  <2>6. /\ new.list \in Seq(Frames) /\ Len(new.list) = Len(r) + 1 /\ Sorted(new.list)
        /\ \A k \in 1 .. Len(r) + 1 : new.list[k] = t \/ \E j \in 1 .. Len(r) : new.list[k] = r[j]
    BY <2>2, <2>4, InsertSorted
  <2>7. Ahead(new.list, f, p + 1) BY <2>2, <2>4, InsertAhead
  <2> HIDE DEF new
  <2>8. Len(new.list) = ListLen BY <1>1, <2>3, <2>6
  <2>9. th.list[1] <= t BY <1>1, <1>2, <2>1, FirstIsFirst
  <2>10. \A j \in 1 .. Len(r) : th.list[1] <= r[j]
    <3>1. \A k \in 1 .. ListLen : th.list[1] <= th.list[k]
      BY <1>1, <1>2, <2>1 DEF Sorted
    <3>2. \A j \in 1 .. Len(r) : j + 1 \in 1 .. ListLen BY <1>1, <2>3
    <3>3. QED BY <2>3, <3>1, <3>2
  <2>11. th.list[1] <= new.list[1]
    <3>1. 1 \in 1 .. Len(r) + 1 BY <1>1, <2>3
    <3>2. QED BY <2>6, <2>9, <2>10, <3>1
  <2>12. th.list[1] \in Nat /\ new.list[1] \in Nat
    <3>1. 1 \in 1 .. Len(th.list) /\ 1 \in 1 .. Len(new.list) BY <1>1, <2>1, <2>8
    <3>2. QED BY <1>1, <2>6, <3>1, ListNumbers
  <2>13. s <= th.list[1]
    <3>1. CASE s = NoFrame BY <2>12, <3>1 DEF NoFrame
    <3>2. CASE s # NoFrame BY <1>3, <3>2
    <3>3. QED BY <3>1, <3>2
  <2>14. s <= new.list[1]
    <3>1. s \in Int BY FramesAreNumbers DEF NoFrame
    <3>2. QED BY <2>11, <2>12, <2>13, <3>1
  <2>15. PlaysInOrder(new, f, p + 1, s)
    BY <2>4, <2>5, <2>6, <2>7, <2>8, <2>11, <2>13, <2>14 DEF PlaysInOrder
  <2>16. QED BY <2>15 DEF new
<1>6. QED BY <1>4, <1>5

LEMMA OrderInit == Init => OrderInv
<1> SUFFICES ASSUME Init, NEW i \in Slots PROVE Ordered(i) BY DEF OrderInv
<1>1. thr[i].list = <<>> /\ thr[i].pc = "none" BY DEF Init, NoThread
<1>2. QED BY <1>1, StartsInOrder DEF Ordered, Over

LEMMA PlayerInOrder ==
  ASSUME LittleLate, TypeInv, Alone, NEW i \in Slots, Ordered(i), Player(i)
  PROVE  Ordered(i)'
<1> DEFINE th == thr[i]
           f == fds[FirstFd].file
           p == fds[FirstFd].pos
<1>0. /\ th \in ThreadTypes /\ slot[i] \in SlotTypes
      /\ thr \in [Slots -> ThreadTypes] /\ slot \in [Slots -> SlotTypes]
      /\ fds \in [Fds -> FdEntries] /\ sent \in [Slots -> Frames \cup {NoFrame}]
  BY DEF TypeInv, TypeOK
<1>1. th.pc # "none"
  BY DEF Player, Top, Jump, JumpFails, Read, ReadEnd, EofClose, EofOpen, EofLast,
     EofSet, Poll, WaitOver, Write, WriteFull, End, Last, Thread
<1>2. Session(i) BY <1>1 DEF Alone
<1>3. \A from, new : Thread(i, from, new) => th.pc = from /\ thr'[i] = new
  BY <1>0 DEF Thread
<1>4. PlaysInOrder(th, f, p, sent[i]) BY DEF Ordered
<1>5. Ordered(i)' <=> PlaysInOrder(thr'[i], fds'[FirstFd].file, fds'[FirstFd].pos, sent'[i])
  BY DEF Ordered
(* The steps that neither read nor change what is waiting.                 *)
<1>6. ASSUME PlaysInOrder(thr'[i], f, p, sent[i]), fds'[FirstFd] = fds[FirstFd], sent' = sent
      PROVE  Ordered(i)'
  BY <1>5, <1>6
<1>7. ASSUME thr'[i].list = <<>>, thr'[i].pc \in Over PROVE Ordered(i)'
  BY <1>5, <1>7, StartsInOrder
<1>8. ASSUME thr'[i].list = th.list, thr'[i].pc \in {"end"} PROVE Ordered(i)'
  BY <1>4, <1>5, <1>8 DEF PlaysInOrder, Reading, Over
<1> HIDE DEF f, p
<1>10. CASE Top(i)
  <2>1. /\ th.pc = "top" /\ fds' = fds /\ sent' = sent
        /\ thr'[i] = [th EXCEPT !.pc = AfterTop(i), !.status = slot[i].status,
                                !.file = slot[i].file,
                                !.fd = IF slot[i].seek THEN slot[i].fd ELSE @,
                                !.to = IF slot[i].seek THEN slot[i].to ELSE @]
    BY <1>3, <1>10 DEF Top, history
  <2>2. AfterTop(i) \in {"end", "jump", "read"} BY DEF AfterTop
  <2>3. thr'[i].pc = AfterTop(i) /\ thr'[i].list = th.list
    BY <1>0, <2>1 DEF ThreadTypes
  <2>4. PlaysInOrder(thr'[i], f, p, sent[i])
    BY <1>4, <2>1, <2>2, <2>3, OrderKept DEF Reading, Over
  <2>5. QED BY <1>6, <2>1, <2>4
<1>11. CASE Jump(i)
  <2>1. /\ thr'[i] = [th EXCEPT !.pc = "read", !.list = <<>>]
        /\ sent' = [sent EXCEPT ![i] = NoFrame]
    BY <1>3, <1>11 DEF Jump, ClearPlayTime
  <2>2. thr'[i].pc = "read" /\ thr'[i].list = <<>> /\ sent'[i] = NoFrame
    BY <1>0, <2>1 DEF ThreadTypes
  <2>3. QED BY <1>5, <2>2, StartsInOrder
<1>12. CASE JumpFails(i)
  <2>1. /\ th.pc = "jump" /\ fds' = fds /\ sent' = sent
        /\ thr'[i] = [th EXCEPT !.pc = "read"]
    BY <1>3, <1>12 DEF JumpFails, history
  <2>2. thr'[i].pc = "read" /\ thr'[i].list = th.list BY <1>0, <2>1 DEF ThreadTypes
  <2>3. PlaysInOrder(thr'[i], f, p, sent[i])
    BY <1>4, <2>1, <2>2, OrderKept DEF Reading, Over
  <2>4. QED BY <1>6, <2>1, <2>3
<1>13. CASE Read(i)
  <2> DEFINE t == FrameAt(th.fd)
  <2>1. /\ HasFrame(th.fd) /\ th.pc = "read" /\ thr'[i] = AfterRead(th, t)
        /\ fds' = [fds EXCEPT ![th.fd].pos = @ + 1] /\ sent' = sent
    BY <1>3, <1>13 DEF Read
  <2>2. th.fd = FirstFd BY <1>2 DEF Session
  <2>3. FirstFd \in Fds /\ t \in Frames BY <2>1, <2>2, FrameRead DEF TypeInv
  <2>4. f \in Files /\ p \in 0 .. L - 1
    BY <1>0, <2>1, <2>2, Constants DEF HasFrame, Readable, FdEntries, L, f, p
  <2>5. t = f * L + Order[p + 1] BY <2>2 DEF FrameAt, L, f, p
  <2>6. fds'[FirstFd].file = f /\ fds'[FirstFd].pos = p + 1
    <3>1. fds'[FirstFd] = [fds[FirstFd] EXCEPT !.pos = p + 1]
      BY <1>0, <2>1, <2>2, <2>3 DEF p
    <3>2. fds[FirstFd] \in FdEntries BY <1>0, <2>3
    <3>3. QED BY <3>1, <3>2 DEF FdEntries, f
  <2>7. f \in Nat BY <2>4, Constants DEF Files
  <2> HIDE DEF t
  <2>8. PlaysInOrder(AfterRead(th, t), f, p + 1, sent[i])
    <3>1. sent[i] \in Frames \cup {NoFrame} BY <1>0
    <3>2. QED BY <1>0, <1>4, <2>1, <2>3, <2>4, <2>5, <2>7, <3>1, ReadInOrder
  <2>9. QED BY <1>5, <2>1, <2>6, <2>8
<1>14. CASE ReadEnd(i)
  <2>1. /\ ~HasFrame(th.fd) /\ th.pc = "read" /\ fds' = fds /\ sent' = sent
        /\ thr'[i] = [th EXCEPT !.pc = "eof", !.frame = NoFrame]
    BY <1>3, <1>14 DEF ReadEnd, history
  <2>2. /\ thr'[i].pc = "eof" /\ thr'[i].list = th.list /\ thr'[i].file = th.file
    BY <1>0, <2>1 DEF ThreadTypes
  <2>3. th.fd = FirstFd /\ th.file = slot[i].file /\ HoldsFile(slot[i].file)
    BY <1>2, <2>1 DEF Session
  <2>4. FirstFd \in Fds /\ f = th.file /\ f \in Files
    BY <1>0, <2>3 DEF HoldsFile, ThreadTypes, f
  <2>5. p = L
    <3>1. p \in 0 .. L BY <1>0, <2>4 DEF FdEntries, L, p
    <3>2. ~(p < L) BY <2>1, <2>3, <2>4 DEF HasFrame, Readable, L, f, p
    <3>3. QED BY <3>1, <3>2, Constants
  <2>6. PlaysInOrder(thr'[i], f, p, sent[i])
    BY <1>4, <2>1, <2>2, <2>4, <2>5 DEF PlaysInOrder, Reading, Over
  <2>7. QED BY <1>6, <2>1, <2>6
<1>15. CASE EofClose(i)
  <2>1. PICK next \in {"next", "end"} : th.pc = "eof" /\ thr'[i] = [th EXCEPT !.pc = next]
    BY <1>3, <1>15 DEF EofClose
  <2>2. thr'[i].pc = next /\ thr'[i].list = th.list /\ thr'[i].file = th.file
    BY <1>0, <2>1 DEF ThreadTypes
  <2>3. sent' = sent BY <1>15 DEF EofClose, history
  <2>4. QED BY <1>4, <1>5, <2>1, <2>2, <2>3 DEF PlaysInOrder, Reading, Over
<1>16. CASE EofOpen(i)
  <2>1. PICK g \in Files, d \in Fds :
          /\ g > th.file /\ OpenAt(g, d) /\ th.pc = "next" /\ sent' = sent
          /\ thr'[i] = [th EXCEPT !.pc = "eofset", !.file = g, !.new = d]
    BY <1>3, <1>16, KindsAssumption DEF EofOpen, Later, history
  <2>2. thr'[i].pc = "eofset" /\ thr'[i].list = th.list
    BY <1>0, <2>1 DEF ThreadTypes
  <2>3. d = FirstFd BY <1>2, <2>1, OpensFirst DEF Session, TypeInv
  <2>4. fds'[FirstFd].file = g /\ fds'[FirstFd].pos = 0
    BY <1>0, <2>1, <2>3 DEF OpenAt, Opened
  <2>5. th.list \in Seq(Frames) /\ th.file \in Files BY <1>0 DEF ThreadTypes, Lists
  <2>6. Ahead(th.list, th.file, L) BY <1>4, <2>1 DEF PlaysInOrder
  <2>7. Ahead(th.list, g, 0) BY <2>1, <2>5, <2>6, NextFileAhead
  <2>8. PlaysInOrder(thr'[i], g, 0, sent[i])
    BY <1>4, <2>1, <2>2, <2>7 DEF PlaysInOrder, Over
  <2>9. QED BY <1>5, <2>1, <2>4, <2>8
<1>17. CASE EofLast(i)
  <2>1. thr'[i] = [th EXCEPT !.pc = "end"] BY <1>3, <1>17 DEF EofLast
  <2>2. QED BY <1>0, <1>8, <2>1 DEF ThreadTypes
<1>18. CASE EofSet(i)
  <2>1. /\ th.pc = "eofset" /\ fds' = fds /\ sent' = sent
        /\ thr'[i] = [th EXCEPT !.pc = "top", !.new = NoFd]
    BY <1>3, <1>18 DEF EofSet, history
  <2>2. thr'[i].pc = "top" /\ thr'[i].list = th.list BY <1>0, <2>1 DEF ThreadTypes
  <2>3. PlaysInOrder(thr'[i], f, p, sent[i])
    BY <1>4, <2>1, <2>2, OrderKept DEF Reading, Over
  <2>4. QED BY <1>6, <2>1, <2>3
<1>19. CASE Poll(i) \/ WaitOver(i) \/ WriteFull(i)
  <2>1. th.pc \in {"wait", "write"} /\ fds' = fds /\ sent' = sent
    BY <1>3, <1>19 DEF Poll, WaitOver, WriteFull, history
  <2>2. /\ thr'[i].list = th.list
        /\ \/ thr'[i].pc \in {"wait", "write"} /\ thr'[i].frame = th.frame
           \/ thr'[i].pc \in {"top", "end"}
    <3>1. CASE Poll(i)
      <4>1. th.pc = "wait" /\ thr'[i] = AfterPoll(th, slot[i].status)
        BY <1>3, <3>1 DEF Poll
      <4>2. QED BY <1>0, <4>1 DEF AfterPoll, ThreadTypes
    <3>2. CASE WaitOver(i)
      <4>1. \/ thr'[i] = [th EXCEPT !.pc = "top", !.frame = NoFrame]
            \/ thr'[i] = [th EXCEPT !.pc = "write", !.tries = 0]
        BY <1>3, <3>2 DEF WaitOver
      <4>2. QED BY <1>0, <4>1 DEF ThreadTypes
    <3>3. CASE WriteFull(i)
      <4>1. th.pc = "write" /\ thr'[i] = AfterFull(th, slot[i].status)
        BY <1>3, <3>3 DEF WriteFull
      <4>2. QED BY <1>0, <4>1 DEF AfterFull, ThreadTypes
    <3>4. QED BY <1>19, <3>1, <3>2, <3>3
  <2>3. PlaysInOrder(thr'[i], f, p, sent[i])
    BY <1>4, <2>1, <2>2, OrderKept DEF Reading, Over
  <2>4. QED BY <1>6, <2>1, <2>3
<1>20. CASE Write(i)
  <2>1. /\ th.pc = "write" /\ fds' = fds /\ sent' = [sent EXCEPT ![i] = th.frame]
        /\ thr'[i] = [th EXCEPT !.pc = "top", !.frame = NoFrame, !.tries = 0]
    BY <1>3, <1>20 DEF Write
  <2>2. thr'[i].pc = "top" /\ thr'[i].list = th.list /\ sent'[i] = th.frame
    BY <1>0, <2>1 DEF ThreadTypes
  <2>3. PlaysInOrder(thr'[i], f, p, th.frame)
    BY <1>4, <2>1, <2>2 DEF PlaysInOrder, Reading, Over
  <2>4. QED BY <1>5, <2>1, <2>2, <2>3 DEF f, p
<1>21. CASE End(i)
  <2>1. thr'[i] = [th EXCEPT !.pc = "last", !.frame = NoFrame, !.list = <<>>]
    BY <1>3, <1>21 DEF End, ClearPlayTime
  <2>2. QED BY <1>0, <1>7, <2>1 DEF ThreadTypes, Over
<1>22. CASE Last(i)
  <2>1. thr'[i].list = <<>> /\ thr'[i].pc = "none" BY <1>3, <1>22 DEF Last, NoThread
  <2>2. QED BY <1>7, <2>1 DEF Over
<1>23. QED
  BY <1>10, <1>11, <1>12, <1>13, <1>14, <1>15, <1>16, <1>17, <1>18, <1>19, <1>20,
     <1>21, <1>22 DEF Player

(* A slot without a thread, and a step that leaves the thread alone.       *)
LEMMA OrderIdle ==
  ASSUME NEW i \in Slots, thr'[i] = thr[i], thr[i].pc = "none", Ordered(i)
  PROVE  Ordered(i)'
BY DEF Ordered, PlaysInOrder, Reading, Over

LEMMA OrderNext ==
  LittleLate /\ TypeInv /\ NoForeign /\ AloneInv /\ OrderInv /\ [Next]_vars => OrderInv'
<1> SUFFICES ASSUME LittleLate, TypeInv, NoForeign, AloneInv, OrderInv, [Next]_vars,
                    Undisturbed', NEW i \in Slots
             PROVE  Ordered(i)'
  BY DEF OrderInv
<1>0. /\ Undisturbed /\ Alone /\ \A k \in Slots : Ordered(k)
      /\ requests["PLAY"] \in Nat /\ requests'["PLAY"] <= 1 /\ "other" \notin Faults
      /\ thr \in [Slots -> ThreadTypes] /\ sent \in [Slots -> Frames \cup {NoFrame}]
      /\ requests \in [AllRequests -> Nat]
  BY StillAlone DEF AloneInv, OrderInv, TypeInv, TypeOK
<1>1. ASSUME thr' = thr, NoThreads PROVE Ordered(i)'
  BY <1>0, <1>1, OrderIdle DEF NoThreads
<1>2. ASSUME thr' = thr, fds' = fds, sent' = sent PROVE Ordered(i)'
  BY <1>0, <1>2 DEF Ordered
<1>3. ASSUME NEW c \in Clients, NEW f \in Files, NEW to \in 0 .. Len(Order) - 1,
             PlayOpen(c, f, to)
      PROVE  Ordered(i)'
  <2>1. thr' = thr /\ requests' = [requests EXCEPT !["PLAY"] = @ + 1]
    BY <1>3 DEF PlayOpen, Request
  <2>2. requests'["PLAY"] = requests["PLAY"] + 1 BY <1>0, <2>1 DEF AllRequests
  <2>3. requests["PLAY"] = 0 BY <1>0, <2>2
  <2>4. QED BY <1>0, <1>1, <2>1, <2>3 DEF Alone
<1>4. CASE Asked
  <2>1. \/ \E c \in Clients, f \in Files, to \in 0 .. Len(Order) - 1 : PlayOpen(c, f, to)
        \/ thr' = thr /\ fds' = fds /\ sent' = sent
    BY <1>4 DEF Asked, Destroy, Command
  <2>2. QED BY <1>2, <1>3, <2>1
<1>5. CASE PlayRefused
  <2>1. thr' = thr /\ Opening BY <1>5 DEF PlayRefused, Opening
  <2>2. QED BY <1>0, <1>1, <2>1 DEF Alone
<1>6. CASE PlayStart
  <2>1. NoThreads BY <1>0, <1>6 DEF PlayStart, Alone, Opening
  <2>2. CASE i = srv.id
    <3>1. thr'[i].list = <<>> /\ thr'[i].pc = "top" /\ sent'[i] = NoFrame
      BY <1>0, <1>6, <2>2 DEF PlayStart, NoThread
    <3>2. QED BY <3>1, StartsInOrder DEF Ordered
  <2>3. CASE i # srv.id
    <3>1. thr'[i] = thr[i] BY <1>0, <1>6, <2>3 DEF PlayStart
    <3>2. QED BY <1>0, <2>1, <3>1, OrderIdle DEF NoThreads
  <2>4. QED BY <2>2, <2>3
<1>7. CASE Serves
  <2>1. \/ PlayRefused \/ PlayStart
        \/ thr' = thr /\ fds' = fds /\ sent' = sent
    BY <1>0, <1>7
    DEF Serves, PlayClaim, PlayPass, SetStop, SetSpeed, SeekTake, SeekClose, SeekOpen,
        SeekSet, history, Alone
  <2>2. QED BY <1>2, <1>5, <1>6, <2>1
<1>8. ASSUME NEW j \in Slots, Player(j) PROVE Ordered(i)'
  <2>1. CASE i = j BY <1>0, <1>8, <2>1, PlayerInOrder
  <2>2. CASE i # j
    <3>1. thr[j].pc # "none" /\ thr'[i] = thr[i]
      BY <1>0, <1>8, <2>2
      DEF Player, Top, Jump, JumpFails, Read, ReadEnd, EofClose, EofOpen, EofLast,
          EofSet, Poll, WaitOver, Write, WriteFull, End, Last, Thread
    <3>2. thr[i].pc = "none" BY <1>0, <2>2, <3>1 DEF Alone
    <3>3. QED BY <1>0, <3>1, <3>2, OrderIdle
  <2>3. QED BY <2>1, <2>2
<1>9. CASE OtherOpens BY <1>0, <1>9 DEF OtherOpens
<1>10. CASE OtherCloses
  <2>1. \A d \in Fds : fds[d] # Foreign BY <1>0 DEF NoForeign, Foreign
  <2>2. QED BY <1>10, <2>1 DEF OtherCloses
<1>11. CASE UNCHANGED vars BY <1>2, <1>11 DEF vars
<1>12. QED BY <1>4, <1>7, <1>8, <1>9, <1>10, <1>11 DEF Next

(* What a step sends comes after what was sent before.                     *)
LEMMA SendsLater ==
  ASSUME TypeInv, OrderInv, [Next]_vars, Undisturbed, NEW i \in Slots,
         sent[i] # NoFrame, sent'[i] # NoFrame
  PROVE  sent[i] <= sent'[i]
<1>0. /\ Ordered(i) /\ sent \in [Slots -> Frames \cup {NoFrame}]
      /\ thr \in [Slots -> ThreadTypes]
  BY DEF OrderInv, TypeInv, TypeOK
<1>1. sent[i] <= sent[i]
  <2>1. sent[i] \in Nat BY <1>0, FramesAreNumbers
  <2>2. QED BY <2>1
<1>2. ASSUME NEW j \in Slots, Write(j) PROVE sent[i] <= sent'[i]
  <2>1. sent' = [sent EXCEPT ![j] = thr[j].frame] /\ thr[j].pc = "write"
    BY <1>2 DEF Write, Thread
  <2>2. CASE i = j
    <3>1. sent'[i] = thr[i].frame /\ thr[i].pc = "write" BY <1>0, <2>1, <2>2
    <3>2. QED BY <1>0, <3>1 DEF Ordered, PlaysInOrder
  <2>3. CASE i # j BY <1>0, <1>1, <2>1, <2>3
  <2>4. QED BY <2>2, <2>3
<1>3. ASSUME NEW j \in Slots, Jump(j) PROVE sent[i] <= sent'[i]
  <2>1. sent' = [sent EXCEPT ![j] = NoFrame] BY <1>3 DEF Jump
  <2>2. i # j BY <1>0, <2>1
  <2>3. QED BY <1>0, <1>1, <2>1, <2>2
<1>4. ASSUME NEW j \in Slots, Player(j) PROVE Write(j) \/ Jump(j) \/ sent' = sent
  BY <1>4
  DEF Player, Top, JumpFails, Read, ReadEnd, EofClose, EofOpen, EofLast,
      EofSet, Poll, WaitOver, WriteFull, End, Last, history
<1>5. CASE PlayStart
  <2>1. sent' = [sent EXCEPT ![srv.id] = NoFrame] BY <1>5 DEF PlayStart
  <2>2. i # srv.id BY <1>0, <2>1
  <2>3. QED BY <1>0, <1>1, <2>1, <2>2
<1>6. Asked \/ (Serves /\ ~PlayStart) => sent' = sent
  BY DEF Asked, Destroy, PlayOpen, Command, Serves, PlayClaim, PlayPass, PlayRefused,
     SetStop, SetSpeed, SeekTake, SeekClose, SeekOpen, SeekSet, history
<1>7. OtherOpens \/ OtherCloses \/ UNCHANGED vars => sent' = sent
  BY DEF OtherOpens, OtherCloses, history, vars
<1>8. QED BY <1>1, <1>2, <1>3, <1>4, <1>5, <1>6, <1>7 DEF Next

(* A session that nobody disturbs sends its frames in the order of time,   *)
(* over all its files and whatever writes fail, if no frame is stored too  *)
(* late for the list (insert_and_pop_playTime in playback_task.c).          *)
THEOREM FramesInOrder == LittleLate => (Spec => SentInOrder)
<1> SUFFICES ASSUME LittleLate PROVE Spec => SentInOrder OBVIOUS
<1>1. TypeInv /\ NoForeign /\ AloneInv /\ OrderInv /\ [Next]_vars => OrderInv'
  BY OrderNext
<1>2. TypeInv /\ OrderInv /\ [Next]_vars =>
        (Undisturbed => \A i \in Slots :
           sent[i] # NoFrame /\ sent'[i] # NoFrame => sent[i] <= sent'[i])
  BY SendsLater
<1>3. QED
  BY <1>1, <1>2, TypeInit, TypeNext, AloneInit, AloneNext, NoForeignInit, NoForeignNext,
     OrderInit, PTL
  DEF Spec, SentInOrder
===============================================================================
