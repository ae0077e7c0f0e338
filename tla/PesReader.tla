----------------------------- MODULE PesReader ------------------------------
(***************************************************************************)
(* A pes file, from the frames the recorder writes to those a playback     *)
(* gets out of it: wirte_es2pes_packet and the write buffer,               *)
(* read_pes2es_packet_frame, seek_pes_head and record_seek of              *)
(* av_packet_ps.c, with the codec of recorder_es2pes.c.                    *)
(*                                                                         *)
(* The file grows by whole buffers.  When the process ends what is in the  *)
(* buffer is lost, the file ends inside a frame, and the next process goes *)
(* on behind that tear.                                                    *)
(*                                                                         *)
(* A file is a sequence of cells; a cell says of which frame it is and     *)
(* which part.  Cell 0 stands for the start code and the stream id.        *)
(***************************************************************************)
EXTENDS Integers, Sequences, FiniteSets

CONSTANTS
  HeadLen,     \* PES_HEAD_LEN, in cells
  LenOf,       \* kind of frame -> length of its body, in cells
  MaxLen,      \* the longest body
  TornLen,     \* the longest a header of two halves can claim: some 31 MB
  Chunk,       \* READ_BUF_LEN
  BufLen,      \* RECORD_NWRITE_LEN: the file grows by this much
  TryLimit,    \* windows without a start code before a read gives up: 3600
  Step,        \* size_step of a jump: 200 KB
  ReadBuf,     \* SEEK_READ_BUF_SIZE: what is searched at once
  Times,       \* the time of the n-th frame, in milliseconds of the day
  Secs,        \* the seconds a jump may ask for
  MaxCrashes   \* how often the process may end (a bound)

Kinds  == {"key", "delta", "audio"}
Videos == {"key", "delta"}
Frames == 1 .. Len(Times)

ASSUME LengthsAssumption ==
  /\ HeadLen \in Nat \ {0, 1} /\ Chunk \in Nat \ {0} /\ BufLen \in Nat \ {0}
  /\ Step \in Nat \ {0} /\ ReadBuf \in Nat \ {0} /\ TryLimit \in Nat
  /\ MaxLen \in Nat \ {0} /\ LenOf \in [Kinds -> 1 .. MaxLen]
  /\ TornLen \in Nat /\ MaxLen <= TornLen
ASSUME TimesAssumption ==
  /\ Times \in Seq(Nat) /\ \A m, n \in Frames : m < n => Times[m] <= Times[n]
  /\ Secs \subseteq Nat /\ MaxCrashes \in Nat

VARIABLES
  kinds,    \* the kinds of the frames written so far
  disk,     \* the file
  buf,      \* wr_buf: what is not in the file yet
  proc,     \* how often the process has ended, and whether it has had a video
  rd,       \* the playback thread: its position and what it has parsed
  got,      \* history: the frames delivered since the start or the last jump
  hist      \* history: where these began, whether the end of the file cut a
            \* frame, and how long the file was when the playback left it

vars == <<kinds, disk, buf, proc, rd, got, hist>>

-----------------------------------------------------------------------------
(* Cells.                                                                  *)

Size(k) == HeadLen + LenOf[k]
CellsOf(n, k) == [i \in 1 .. Size(k) |-> [frame |-> n, part |-> i - 1]]

Cell(p) == disk[p + 1]                      \* positions count from 0
Positions == 0 .. Len(disk)

(* A start code, and a header that is as it was written.                   *)
IsCode(p) == p < Len(disk) /\ Cell(p).part = 0
IsHead(p) ==
  /\ p + HeadLen <= Len(disk)
  /\ \A i \in 0 .. HeadLen - 1 : Cell(p + i) = [frame |-> Cell(p).frame, part |-> i]

(* A header that a tear has cut: its rest is of another frame.             *)
TornHead(p) == IsCode(p) /\ ~IsHead(p) /\ p + HeadLen <= Len(disk)

KindAt(p) == kinds[Cell(p).frame]
LenAt(p)  == LenOf[KindAt(p)]

(* A body that is read whole: its cells, and no others.                    *)
IsBody(p, n, len) ==
  /\ p + len <= Len(disk)
  /\ \A i \in 0 .. len - 1 : Cell(p + i) = [frame |-> n, part |-> HeadLen + i]

(* The time a header holds: 90 ticks to the second, rounded down twice.    *)
DtsOf(ms) == (ms * 9) \div 100
MsOf(dts) == (dts * 100) \div 9
TimeAt(p) == MsOf(DtsOf(Times[Cell(p).frame]))

Idle  == [pc |-> "idle", pos |-> 0, frame |-> 0, len |-> 0, tries |-> 0]
Reset(p) == [Idle EXCEPT !.pos = p]
Start(p) == [from |-> p, cut |-> FALSE, end |-> 0]

Init ==
  /\ kinds = <<>> /\ disk = <<>> /\ buf = <<>>
  /\ proc \in [ends : {0}, video : BOOLEAN]
  /\ rd = [Idle EXCEPT !.pc = "closed"]
  /\ got = <<>> /\ hist = Start(0)

-----------------------------------------------------------------------------
(* The recorder: a frame goes through the buffer, which is written when it *)
(* is full or when the recording stops.                                    *)

WriteFrame(k) ==
  /\ Len(kinds) < Len(Times) /\ Len(buf) < BufLen
  /\ k \notin Videos => proc.video          \* vstart_timestamp
  /\ proc' = [proc EXCEPT !.video = TRUE]
  /\ kinds' = Append(kinds, k)
  /\ buf' = buf \o CellsOf(Len(kinds) + 1, k)
  /\ UNCHANGED <<disk, rd, got, hist>>

WriteBuf ==
  /\ Len(buf) >= BufLen
  /\ disk' = disk \o SubSeq(buf, 1, BufLen)
  /\ buf' = SubSeq(buf, BufLen + 1, Len(buf))
  /\ UNCHANGED <<kinds, proc, rd, got, hist>>

StopRecord ==
  /\ buf # <<>> /\ Len(buf) < BufLen
  /\ disk' = disk \o buf /\ buf' = <<>>
  /\ UNCHANGED <<kinds, proc, rd, got, hist>>

(* The process ends, and with it the playback.                             *)
ProcessEnds ==
  /\ proc.ends < MaxCrashes
  /\ proc' = [ends |-> proc.ends + 1, video |-> FALSE]
  /\ buf' = <<>> /\ rd' = [Idle EXCEPT !.pc = "closed"]
  /\ got' = <<>> /\ hist' = Start(0)
  /\ UNCHANGED <<kinds, disk>>

Crash == buf # <<>> /\ ProcessEnds

-----------------------------------------------------------------------------
(* read_pes2es_packet_frame.                                               *)

Open ==
  /\ rd.pc = "closed" /\ disk # <<>>
  /\ rd' = Idle /\ got' = <<>> /\ hist' = Start(0)
  /\ UNCHANGED <<kinds, disk, buf, proc>>

Ended(p) == [Reset(p) EXCEPT !.pc = "ended"]

(* The position behind n cells from p, or the end of the file.             *)
BehindAll(p, n) == p + n                    \* mutant: also beyond the end
Behind(p, n) == IF p + n <= Len(disk) THEN p + n ELSE Len(disk)

(* seek_pes_head, one window: a start code in it is moved to its front.    *)
CodeInFront == {p \in {rd.pos} : IsCode(p)}  \* mutant: does not look further
Codes == {p \in rd.pos .. rd.pos + HeadLen - 1 : IsCode(p)}

FindsHead ==
  /\ rd.pc = "idle" /\ Codes # {}
  /\ LET p == CHOOSE c \in Codes : \A d \in Codes : c <= d
         parsed(n, len) == [rd EXCEPT !.pc = "body", !.pos = Behind(p, HeadLen),
                                      !.frame = n, !.len = len, !.tries = 0]
     IN  IF IsHead(p)
         THEN /\ rd' = parsed(Cell(p).frame, LenAt(p))
              /\ UNCHANGED hist
         ELSE (* a header cut by a tear, or by the end of the file: the    *)
              (* rest is of another frame, or whatever was in memory; it   *)
              (* does not parse, or with any length                        *)
              /\ rd' \in {Ended(Behind(p, HeadLen))} \cup {parsed(Cell(p).frame, l) : l \in 1 .. TornLen}
              /\ hist' = [hist EXCEPT !.cut = @ \/ p + HeadLen > Len(disk), !.end = Len(disk)]
  /\ UNCHANGED <<kinds, disk, buf, proc, got>>

FindsNoHead ==
  /\ rd.pc = "idle" /\ Codes = {}
  /\ rd' = IF rd.pos = Len(disk) \/ rd.tries > TryLimit THEN Ended(rd.pos)
           ELSE [rd EXCEPT !.pos = Behind(rd.pos, HeadLen), !.tries = @ + 1]
  /\ hist' = [hist EXCEPT !.end = Len(disk)]
  /\ UNCHANGED <<kinds, disk, buf, proc, got>>

(* The body: its first cell, then chunk by chunk.  The end of the file in  *)
(* the last chunk is not noticed; before it, the next chunk is missing.    *)
LastCut(there, len) == there > 0 /\ there - 1 > ((len - 2) \div Chunk) * Chunk

Delivered(p) == [frame |-> rd.frame, whole |-> IsBody(p, rd.frame, rd.len)]

ReadsBody ==
  /\ rd.pc = "body"
  /\ LET there == Len(disk) - rd.pos
         cut   == there < rd.len
         whole == IsHead(rd.pos - HeadLen)
     IN  IF cut /\ ~LastCut(there, rd.len)
         THEN /\ rd' = Ended(Len(disk)) /\ UNCHANGED got
              /\ hist' = [hist EXCEPT !.cut = @ \/ whole, !.end = Len(disk)]
         ELSE /\ rd' = Reset(Behind(rd.pos, rd.len))
              /\ got' = Append(got, Delivered(rd.pos))
              /\ hist' = [hist EXCEPT !.cut = @ \/ (cut /\ whole)]
  /\ UNCHANGED <<kinds, disk, buf, proc>>

-----------------------------------------------------------------------------
(* record_seek: back from the offset, a step at a time, until the first    *)
(* frame found is of an earlier time; then on to the first key frame not   *)
(* two seconds earlier.                                                    *)

(* The searched parts of the file; each but the first reaches a header     *)
(* into the one before.                                                    *)
FromOf(off, k) == IF off > k * Step THEN off - k * Step ELSE 0
ToOf(off, k)   == IF k = 0 THEN Len(disk)
                  ELSE IF FromOf(off, k) > 0 THEN FromOf(off, k - 1) + HeadLen
                  ELSE Step + HeadLen

(* find_pes_head_from_buf, as far as seek_frame_whence asks it: the first  *)
(* frame of a video.  A torn header is taken for that of a video; or it    *)
(* does not parse, or is taken for audio of any length, and what follows   *)
(* in the same buffer may be passed over.                                  *)
VideosIn(a, b) == {p \in a .. b - HeadLen : IsHead(p) /\ KindAt(p) \in Videos}
TornIn(a, b)   == {p \in a .. b - HeadLen : TornHead(p)}
MaybePassed(p, a) ==
  \E g \in a .. p - 1 : p - g < ReadBuf /\ IsCode(g) /\ ~IsHead(g)
FoundIn(a, b) ==
  {p \in VideosIn(a, b) \cup TornIn(a, b) :
     \A q \in VideosIn(a, b) : q < p => MaybePassed(q, a)}

(* seek_frame_by_secs, from the header at p: frame by frame, without       *)
(* looking for start codes.  Where it may arrive, or -1.  A torn header    *)
(* holds any length, and perhaps what is wanted; so does one cut by the    *)
(* end of the file, of a frame taken to begin a header before that end.    *)
WantedLate(p, s) == KindAt(p) = "key" /\ TimeAt(p) > (s + 2) * 1000    \* mutant
Wanted(p, s) == KindAt(p) = "key" /\ TimeAt(p) > (s - 2) * 1000

Fails == -1

SeekBySecs(p, s) ==
  LET taken(q) == IF TornHead(q) THEN q ELSE Len(disk) - HeadLen
      arrives[q \in 0 .. Len(disk) + HeadLen + TornLen] ==
        IF ~IsCode(q) THEN {Fails}
        ELSE IF ~IsHead(q)
        THEN {Fails} \cup (UNION {arrives[q + HeadLen + l] : l \in 1 .. TornLen})
             \cup {e \in {taken(q)} : e >= 0}
        ELSE IF Wanted(q, s) THEN {q}
        ELSE arrives[q + HeadLen + LenAt(q)]
  IN  arrives[p]

(* How often the code steps back: until the beginning of the file.         *)
Steps(off) == {k \in 0 .. Len(disk) + 1 : k = 0 \/ FromOf(off, k - 1) > 0}

(* The outcomes of a jump: the frame found in a part is earlier than the   *)
(* time asked for, or the search steps back; a torn header holds any time. *)
(* A part without a frame that reaches over the end of the file fails an   *)
(* assertion of seek_frame_whence or the search, and a torn header taken   *)
(* for audio of a negative length leads out of the buffer.                 *)
Aborts == -2

Jumps(off, s) ==
  LET from(k)    == FromOf(off, k)
      to(k)      == ToOf(off, k)
      Early(p)   == TimeAt(p) < s * 1000
      Nothing(k) == \A p \in VideosIn(from(k), to(k)) : MaybePassed(p, from(k))
      OverEnd(k) == Nothing(k) /\ to(k) > Len(disk)
      Back(k)    == \/ Nothing(k) /\ to(k) <= Len(disk)
                    \/ \E p \in FoundIn(from(k), to(k)) : TornHead(p) \/ ~Early(p)
      Reached    == {k \in Steps(off) : \A j \in 0 .. k - 1 : Back(j)}
      Last       == CHOOSE k \in Steps(off) : \A j \in Steps(off) : j <= k
      starts     == UNION {{p \in FoundIn(from(k), to(k)) : TornHead(p) \/ Early(p)} : k \in Reached}
  IN  (UNION {SeekBySecs(p, s) : p \in starts})
        \cup (IF Last \in Reached /\ Back(Last) THEN {Fails} ELSE {})
        \cup (IF \E k \in Reached : OverEnd(k) \/ TornIn(from(k), to(k)) # {}
              THEN {Fails, Aborts} ELSE {})

(* An offset comes from the index: a frame begins there, or nothing yet.   *)
Offsets == {0, Len(disk)} \cup {p \in Positions : IsCode(p)}

Jump(off, s) ==
  /\ rd.pc = "idle" /\ rd.tries = 0
  /\ \E q \in IF s = 0 THEN {0} ELSE Jumps(off, s) :
       \/ q = Aborts /\ ProcessEnds
       \/ q = Fails /\ UNCHANGED vars
       \/ /\ q \in Nat
          /\ rd' = Reset(q) /\ got' = <<>> /\ hist' = Start(q)
          /\ UNCHANGED <<kinds, disk, buf, proc>>

Next ==
  \/ \E k \in Kinds : WriteFrame(k)
  \/ WriteBuf \/ StopRecord \/ Crash
  \/ Open \/ FindsHead \/ FindsNoHead \/ ReadsBody
  \/ \E off \in Offsets, s \in Secs : Jump(off, s)

Spec == Init /\ [][Next]_vars

-----------------------------------------------------------------------------
(* Types.                                                                  *)
TypeOK ==
  /\ kinds \in Seq(Kinds) /\ Len(kinds) \in 0 .. Len(Times)
  /\ \A c \in {disk[i] : i \in DOMAIN disk} \cup {buf[i] : i \in DOMAIN buf} :
       c.frame \in 1 .. Len(kinds) /\ c.part \in 0 .. Size(kinds[c.frame]) - 1
  /\ proc \in [ends : 0 .. MaxCrashes, video : BOOLEAN]
  /\ rd \in [pc : {"closed", "idle", "body", "ended"}, pos : Positions,
             frame : 0 .. Len(kinds), len : 0 .. TornLen, tries : 0 .. TryLimit + 1]
  /\ \A i \in DOMAIN got : got[i].frame \in 1 .. Len(kinds)
  /\ hist \in [from : Positions, cut : BOOLEAN, end : Positions]

Starts == {p \in Positions : IsCode(p)}
Whole(p) == IsHead(p) /\ IsBody(p + HeadLen, Cell(p).frame, LenAt(p))

(* A frame of which a part is neither in the file nor still to be written. *)
Torn(p) ==
  LET all == disk \o buf
      end == p + Size(KindAt(p))
  IN  IF end > Len(all) THEN TRUE ELSE all[end].frame # Cell(p).frame

(* The end that its header gives a frame, or the latest that one gives     *)
(* which is cut; and what begins before that end of a torn frame.          *)
ClaimedEnd(t) == t + HeadLen + (IF IsHead(t) THEN LenAt(t) ELSE TornLen)
BehindTear(p) == \E t \in Starts : t < p /\ p < ClaimedEnd(t) /\ Torn(t)

(* A playback delivers, in their order and once, all frames that are whole *)
(* in the file.  A tear in a body costs what begins before the frame would *)
(* have ended, for the frame is read on over the tear; a tear in a header  *)
(* may cost as much as a header can claim.  Left out is what follows a     *)
(* frame that the end of the file, which may grow, has cut.  And a playback*)
(* leaves a file before its end only behind a tear.                        *)
TearCostsItsFrame ==
  /\ \A i, j \in DOMAIN got : i < j => got[i].frame < got[j].frame
  /\ ~hist.cut =>
       \A p \in Starts :
         Whole(p) /\ hist.from <= p /\ p + Size(KindAt(p)) <= rd.pos /\ rd.pc # "closed" =>
           \/ \E i \in DOMAIN got : got[i] = [frame |-> Cell(p).frame, whole |-> TRUE]
           \/ BehindTear(p)
  /\ rd.pc = "ended" /\ ~hist.cut =>
       rd.pos = hist.end \/ \E t \in Starts : t < rd.pos /\ Torn(t)

(* A jump, from whichever offset, arrives at a key frame that is less than *)
(* two seconds before the time asked for or later, and passes over no key  *)
(* frame of that time or later, unless it begins in the body that a torn   *)
(* frame should have had.  Left out is a jump that arrives at or behind a  *)
(* torn header, or a header's length before the end of a file that ends    *)
(* inside one.  In a file without tears that begins earlier a jump finds   *)
(* such a frame if there is one, unless the offset is that of the end of   *)
(* the file.  (The outcomes do not depend on the playback: a file nobody   *)
(* reads yet shows them.)                                                  *)
Astray(q) ==
  \E t \in Starts : ~IsHead(t) /\ (t <= q \/ q = Len(disk) - HeadLen)

JumpIsRight ==
  rd.pc = "closed" =>
  \A off \in Offsets, s \in Secs \ {0} :
    LET keys     == {p \in Starts : IsHead(p) /\ KindAt(p) = "key" /\ TimeAt(p) >= s * 1000}
        videos   == VideosIn(0, Len(disk))
        outcomes == Jumps(off, s)
    IN  /\ \A q \in outcomes \ {Fails, Aborts} :
             \/ Astray(q)
             \/ /\ IsHead(q) /\ Wanted(q, s)
                /\ \A p \in keys : p < q => BehindTear(p)
        /\ outcomes \cap {Fails, Aborts} # {} =>
             \/ keys = {} \/ \A v \in videos : TimeAt(v) >= s * 1000
             \/ off > Len(disk) - HeadLen
             \/ \E t \in Starts : Torn(t)
=============================================================================
