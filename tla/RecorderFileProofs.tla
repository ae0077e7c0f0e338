------------------------- MODULE RecorderFileProofs -------------------------
(***************************************************************************)
(* Theorems about the files RecorderTask leaves on the card: the index     *)
(* stays within its file, a file within its slot, and an alarm keeps it    *)
(* open up to there.                                                       *)
(***************************************************************************)
EXTENDS RecorderTaskProofs

-----------------------------------------------------------------------------
(* The index stays within its file. *)

(* What an index may be ahead of its file: the blocks that wait in the     *)
(* write buffer, or as many as may have been lost with it.                 *)
Waiting(r, f) == IF r.fd = "open" /\ r.file = f THEN r.buf ELSE 0
AheadOf(r, torn, f) == IF f \in torn THEN BufBlocks - 1 ELSE Waiting(r, f)

(* The index in memory fits its file, also when that is closed: it may be  *)
(* saved again.                                                            *)
FileHolds(r, p, h) ==
  r.file \in DOMAIN p \ h.pulled =>
    /\ r.len <= p[r.file] + Waiting(r, r.file)
    /\ \A i \in UnitIdx : r.units[i].offset <= p[r.file] + AheadOf(r, h.torn, r.file)

(* So does every index on the card. *)
IndexHolds(r, p, x, h) ==
  \A f \in (DOMAIN x \cap DOMAIN p) \ h.pulled :
    \A i \in UnitIdx : x[f][i].offset <= p[f] + AheadOf(r, h.torn, f)

(* A descriptor that names nothing is that of a file on a pulled card, the *)
(* write buffer is never left full, and closing leaves nothing in it.      *)
StaleIsPulled == rec.fd = "stale" => rec.file \in hist.pulled
BufferWaits == rec.buf <= BufBlocks - 1
ClosesFlushed == pc = "closing" /\ rec.fd = "open" => rec.buf = 0

FilesFit ==
  /\ StaleIsPulled /\ BufferWaits /\ ClosesFlushed
  /\ FileHolds(rec, pes, hist) /\ IndexHolds(rec, pes, idx, hist)
FilesInv == ControlInv /\ FilesFit

LEMMA FilesTyped ==
  ASSUME ControlInv
  PROVE  /\ rec \in Recs /\ PesType(pes) /\ IdxType(idx) /\ hist \in Hists
         /\ clock \in Nat /\ type \in AllTypes /\ pass \in Passes
         /\ rec.fd # "none" => rec.file \in Nat /\ diskValid
         /\ rec.fd = "open" => card
         /\ BufBlocks - 1 \in Nat
BY ChoicesAssumption, LengthsAssumption DEF ControlInv, TypeInv, TypeOK, FileNamed,
   PesType, IdxType, OpenOnCard, RecFdNeedsDisk

LEMMA WaitingType ==
  ASSUME NEW r \in Recs, r.buf <= BufBlocks - 1
  PROVE  \A f : /\ Waiting(r, f) \in Nat /\ Waiting(r, f) <= BufBlocks - 1
                /\ \A t : AheadOf(r, t, f) \in Nat /\ Waiting(r, f) <= AheadOf(r, t, f)
<1>1. r.buf \in Nat /\ BufBlocks - 1 \in Nat
  BY LengthsAssumption DEF Recs
<1> QED  BY <1>1 DEF Waiting, AheadOf

LEMMA HoldsIsInFile == IndexHolds(rec, pes, idx, hist) => IndexInFile
BY DEF IndexHolds, IndexInFile, AheadOf, Waiting, Ahead

(* A step that counts nothing and writes nothing: it may close a file that *)
(* is flushed, or cut it off.                                              *)
LEMMA FilesLeft ==
  ASSUME FilesInv, UNCHANGED <<pes, idx>>, rec' \in Recs,
         rec'.file = rec.file \/ rec'.file \notin Nat,
         rec'.len = rec.len, rec'.units = rec.units,
         hist.torn \subseteq hist'.torn, hist.pulled \subseteq hist'.pulled,
         rec'.buf <= BufBlocks - 1,
         \/ rec.fd # "open"
         \/ rec'.fd = "open" /\ rec'.buf = rec.buf /\ rec'.file = rec.file
         \/ rec.buf = 0
         \/ rec.file \in hist'.pulled
  PROVE  FileHolds(rec', pes', hist') /\ IndexHolds(rec', pes', idx', hist')
<1>1. rec \in Recs /\ PesType(pes) /\ IdxType(idx) /\ rec.buf <= BufBlocks - 1
  BY FilesTyped DEF FilesInv, FilesFit, BufferWaits
<1>2. ASSUME NEW f \in DOMAIN pes \ hist'.pulled
      PROVE  /\ AheadOf(rec, hist.torn, f) <= AheadOf(rec', hist'.torn, f)
             /\ rec'.file = f => Waiting(rec, f) <= Waiting(rec', f)
             /\ AheadOf(rec, hist.torn, f) \in Nat /\ AheadOf(rec', hist'.torn, f) \in Nat
             /\ Waiting(rec, f) \in Nat /\ Waiting(rec', f) \in Nat
  <2>1. /\ Waiting(rec, f) \in Nat /\ Waiting(rec, f) <= BufBlocks - 1
        /\ Waiting(rec', f) \in Nat /\ BufBlocks - 1 \in Nat
        /\ AheadOf(rec, hist.torn, f) \in Nat /\ AheadOf(rec', hist'.torn, f) \in Nat
    BY <1>1, WaitingType, LengthsAssumption
  <2>2. Waiting(rec, f) <= Waiting(rec', f)
    BY <1>2, <2>1 DEF Waiting
  <2>3. AheadOf(rec, hist.torn, f) <= AheadOf(rec', hist'.torn, f)
    BY <2>1, <2>2 DEF AheadOf
  <2> QED  BY <2>1, <2>2, <2>3
<1>3. FileHolds(rec', pes', hist')
  <2>1. SUFFICES ASSUME rec'.file \in DOMAIN pes \ hist'.pulled
                 PROVE  /\ rec'.len <= pes[rec'.file] + Waiting(rec', rec'.file)
                        /\ \A i \in UnitIdx : rec'.units[i].offset
                             <= pes[rec'.file] + AheadOf(rec', hist'.torn, rec'.file)
    BY DEF FileHolds
  <2>2. rec'.file = rec.file
    BY <1>1, <2>1 DEF PesType
  <2>3. /\ rec.len <= pes[rec.file] + Waiting(rec, rec.file)
        /\ \A i \in UnitIdx :
             rec.units[i].offset <= pes[rec.file] + AheadOf(rec, hist.torn, rec.file)
    BY <2>1, <2>2 DEF FilesInv, FilesFit, FileHolds
  <2>4. /\ rec.len \in Nat /\ pes[rec.file] \in Nat
        /\ \A i \in UnitIdx : rec.units[i].offset \in Nat
    BY <1>1, <2>1, <2>2 DEF Recs, Units, PesType
  <2> QED  BY <1>2, <2>1, <2>2, <2>3, <2>4
<1>4. IndexHolds(rec', pes', idx', hist')
  <2>1. SUFFICES ASSUME NEW f \in (DOMAIN idx \cap DOMAIN pes) \ hist'.pulled,
                        NEW i \in UnitIdx
                 PROVE  idx[f][i].offset <= pes[f] + AheadOf(rec', hist'.torn, f)
    BY DEF IndexHolds
  <2>2. idx[f][i].offset <= pes[f] + AheadOf(rec, hist.torn, f)
    BY <2>1 DEF FilesInv, FilesFit, IndexHolds
  <2>3. idx[f][i].offset \in Nat /\ pes[f] \in Nat
    BY <1>1, <2>1 DEF IdxType, Units, PesType
  <2> QED  BY <1>2, <2>1, <2>2, <2>3
<1> QED  BY <1>3, <1>4

LEMMA FilesUntouched ==
  ASSUME FilesInv, UNCHANGED <<rec, pes, idx>>,
         hist.torn \subseteq hist'.torn, hist'.pulled = hist.pulled,
         pc' = "closing" => pc = "closing"
  PROVE  FilesFit'
<1>1. rec \in Recs
  BY FilesTyped DEF FilesInv
<1>2. FileHolds(rec', pes', hist') /\ IndexHolds(rec', pes', idx', hist')
  BY <1>1, FilesLeft DEF FilesInv, FilesFit, BufferWaits
<1> QED  BY <1>2 DEF FilesInv, FilesFit, StaleIsPulled, BufferWaits, ClosesFlushed

(* write_frame_to_file: the length grows with what waits or is written.    *)
LEMMA PushHolds ==
  ASSUME FilesInv, NEW got \in BOOLEAN, got => rec.fd # "none"
  PROVE  LET a == AfterFrame(got)
             p == PesAfterFrame(got)
         IN  /\ a \in Recs /\ PesType(p) /\ a.fd = rec.fd /\ a.file = rec.file
             /\ a.buf <= BufBlocks - 1
             /\ FileHolds(a, p, hist) /\ IndexHolds(a, p, idx, hist)
<1> DEFINE a == AfterFrame(got)
           p == PesAfterFrame(got)
<1>1. rec \in Recs /\ PesType(pes) /\ IdxType(idx) /\ rec.buf <= BufBlocks - 1
  BY FilesTyped DEF FilesInv, FilesFit, BufferWaits
<1>2. a \in Recs /\ PesType(p) /\ a.fd = rec.fd /\ a.file = rec.file /\ a.units = rec.units
  BY <1>1, PushType DEF AfterFrame, PesAfterFrame, Push, Recs
<1>3. CASE ~got
  BY <1>1, <1>2, <1>3 DEF AfterFrame, PesAfterFrame, FilesInv, FilesFit
<1>4. CASE got /\ rec.fd # "open"
  <2>1. p = pes
    BY <1>4 DEF PesAfterFrame, PushPes, PushFull
  <2>2. rec.file \in hist.pulled
    BY <1>1, <1>4 DEF FilesInv, FilesFit, StaleIsPulled, Recs
  <2>3. \A f : Waiting(a, f) = Waiting(rec, f)
    BY <1>2, <1>4 DEF Waiting
  <2>4. FileHolds(a, p, hist)
    BY <1>2, <2>2 DEF FileHolds
  <2>5. IndexHolds(a, p, idx, hist)
    <3>1. \A f : AheadOf(a, hist.torn, f) = AheadOf(rec, hist.torn, f)
      BY <2>3 DEF AheadOf
    <3> HIDE DEF a, p
    <3> QED  BY <2>1, <3>1 DEF FilesInv, FilesFit, IndexHolds
  <2>6. a.buf = rec.buf
    BY <1>1, <1>4 DEF AfterFrame, Push, Recs
  <2> QED  BY <1>1, <1>2, <2>4, <2>5, <2>6
<1>5. CASE got /\ rec.fd = "open"
  <2>1. a.len = rec.len + 1 /\ a.buf = IF PushFull(rec) THEN 0 ELSE rec.buf + 1
    BY <1>1, <1>5 DEF AfterFrame, Push, Recs
  <2>2. DOMAIN p = DOMAIN pes
    BY DEF PesAfterFrame, PushPes
  <2>3. /\ rec.file \in DOMAIN pes => p[rec.file] + a.buf = pes[rec.file] + rec.buf + 1
        /\ \A f \in DOMAIN pes : f # rec.file => p[f] = pes[f]
        /\ \A f \in DOMAIN pes : pes[f] <= p[f]
    <3>1. rec.buf \in Nat /\ \A f \in DOMAIN pes : pes[f] \in Nat
      BY <1>1 DEF Recs, PesType
    <3>2. CASE PushFull(rec)
      <4>1. p = [pes EXCEPT ![rec.file] = @ + BufBlocks] /\ rec.buf + 1 = BufBlocks
        BY <1>5, <3>2 DEF PesAfterFrame, PushPes, PushFull
      <4>2. /\ rec.file \in DOMAIN pes => p[rec.file] = pes[rec.file] + BufBlocks
            /\ \A f \in DOMAIN pes : f # rec.file => p[f] = pes[f]
        BY <4>1
      <4> HIDE DEF p, a
      <4> QED  BY <2>1, <3>1, <3>2, <4>1, <4>2
    <3>3. CASE ~PushFull(rec)
      <4>1. p = pes
        BY <1>5, <3>3 DEF PesAfterFrame, PushPes
      <4> HIDE DEF p, a
      <4> QED  BY <2>1, <3>1, <3>3, <4>1
    <3> QED  BY <3>2, <3>3
  <2>4. a.buf <= BufBlocks - 1
    <3>1. rec.buf \in Nat /\ BufBlocks \in Nat \ {0}
      BY <1>1, LengthsAssumption DEF Recs
    <3>2. ~PushFull(rec) => rec.buf + 1 # BufBlocks
      BY <1>5 DEF PushFull
    <3> HIDE DEF a
    <3> QED  BY <1>1, <2>1, <3>1, <3>2
  <2>5. \A f \in DOMAIN pes :
          /\ p[f] + Waiting(a, f) \in Nat /\ pes[f] + Waiting(rec, f) \in Nat
          /\ pes[f] + Waiting(rec, f) <= p[f] + Waiting(a, f)
          /\ p[f] + AheadOf(a, hist.torn, f) \in Nat
          /\ pes[f] + AheadOf(rec, hist.torn, f) \in Nat
          /\ pes[f] + AheadOf(rec, hist.torn, f) <= p[f] + AheadOf(a, hist.torn, f)
    <3>1. ASSUME NEW f \in DOMAIN pes
          PROVE  /\ p[f] + Waiting(a, f) \in Nat /\ pes[f] + Waiting(rec, f) \in Nat
                 /\ pes[f] + Waiting(rec, f) <= p[f] + Waiting(a, f)
      <4>1. p[f] \in Nat /\ pes[f] \in Nat /\ a.buf \in Nat /\ rec.buf \in Nat
        BY <1>1, <1>2, <2>2 DEF PesType, Recs
      <4> HIDE DEF p, a
      <4> QED  BY <1>2, <1>5, <2>3, <4>1 DEF Waiting
    <3>2. ASSUME NEW f \in DOMAIN pes PROVE p[f] \in Nat /\ pes[f] \in Nat /\ pes[f] <= p[f]
      BY <1>1, <1>2, <2>2, <2>3 DEF PesType
    <3>3. BufBlocks - 1 \in Nat
      BY LengthsAssumption
    <3> HIDE DEF p, a
    <3> QED  BY <3>1, <3>2, <3>3 DEF AheadOf
  <2>6. FileHolds(a, p, hist)
    <3>1. SUFFICES ASSUME rec.file \in DOMAIN pes \ hist.pulled
                   PROVE  /\ a.len <= p[rec.file] + a.buf
                          /\ \A i \in UnitIdx : rec.units[i].offset
                               <= p[rec.file] + AheadOf(a, hist.torn, rec.file)
      BY <1>2, <1>5, <2>2 DEF FileHolds, Waiting
    <3>2. /\ rec.len <= pes[rec.file] + rec.buf
          /\ \A i \in UnitIdx :
               rec.units[i].offset <= pes[rec.file] + AheadOf(rec, hist.torn, rec.file)
      BY <1>5, <3>1 DEF FilesInv, FilesFit, FileHolds, Waiting
    <3>3. rec.len \in Nat /\ rec.buf \in Nat /\ pes[rec.file] \in Nat
          /\ \A i \in UnitIdx : rec.units[i].offset \in Nat
      BY <1>1, <3>1 DEF Recs, PesType, Units
    <3>4. p[rec.file] \in Nat /\ a.buf \in Nat
      BY <1>2, <2>2, <3>1 DEF PesType, Recs
    <3> HIDE DEF p, a
    <3> QED  BY <2>1, <2>3, <2>5, <3>1, <3>2, <3>3, <3>4
  <2>7. IndexHolds(a, p, idx, hist)
    <3>1. ASSUME NEW f \in (DOMAIN idx \cap DOMAIN p) \ hist.pulled, NEW i \in UnitIdx
          PROVE  idx[f][i].offset <= p[f] + AheadOf(a, hist.torn, f)
      <4>1. idx[f][i].offset <= pes[f] + AheadOf(rec, hist.torn, f) /\ f \in DOMAIN pes
        BY <2>2, <3>1 DEF FilesInv, FilesFit, IndexHolds
      <4>2. idx[f][i].offset \in Nat
        BY <1>1 DEF IdxType, Units
      <4> HIDE DEF p, a
      <4> QED  BY <2>5, <4>1, <4>2
    <3> QED  BY <3>1 DEF IndexHolds
  <2> QED  BY <1>2, <2>4, <2>6, <2>7
<1> QED  BY <1>3, <1>4, <1>5

(* A unit is marked with the length that the file has by then.             *)
LEMMA MarkHolds ==
  ASSUME NEW r \in Recs, NEW p, PesType(p), r.buf <= BufBlocks - 1,
         FileHolds(r, p, hist), IndexHolds(r, p, idx, hist),
         clock \in Nat, type \in AllTypes
  PROVE  LET m == MarkUnit(r)
         IN  /\ m \in Recs /\ m.fd = r.fd /\ m.file = r.file /\ m.buf = r.buf
             /\ FileHolds(m, p, hist) /\ IndexHolds(m, p, idx, hist)
<1> DEFINE m == MarkUnit(r)
<1>1. m \in Recs
  BY MarkUnitType
<1>2. m.fd = r.fd /\ m.file = r.file /\ m.len = r.len /\ m.buf = r.buf
  BY DEF MarkUnit, Recs
<1>3. \A i \in UnitIdx : m.units[i] = r.units[i] \/ m.units[i].offset = r.len
  <2> DEFINE e == EndedUnit(r)
  <2>1. CASE UnitOver(r) /\ e \in UnitIdx
    <3>1. m = [r EXCEPT !.unitTime = UnitEnd(r),
                        !.units = [@ EXCEPT ![e] = [type |-> type, offset |-> r.len]]]
      BY <2>1 DEF MarkUnit
    <3> HIDE DEF e
    <3>2. m.units = [r.units EXCEPT ![e] = [type |-> type, offset |-> r.len]]
      BY <3>1 DEF Recs
    <3> QED  BY <2>1, <3>2 DEF Recs, Units
  <2>2. CASE ~(UnitOver(r) /\ e \in UnitIdx)
    BY <2>2 DEF MarkUnit, Recs
  <2> QED  BY <2>1, <2>2
<1> HIDE DEF m
<1>4. \A f : Waiting(m, f) = Waiting(r, f)
             /\ AheadOf(m, hist.torn, f) = AheadOf(r, hist.torn, f)
  BY <1>2 DEF Waiting, AheadOf
<1>5. FileHolds(m, p, hist)
  <2>1. SUFFICES ASSUME r.file \in DOMAIN p \ hist.pulled
                 PROVE  \A i \in UnitIdx : m.units[i].offset
                          <= p[r.file] + AheadOf(r, hist.torn, r.file)
    BY <1>2, <1>4 DEF FileHolds
  <2>2. /\ r.len <= p[r.file] + Waiting(r, r.file)
        /\ \A i \in UnitIdx :
             r.units[i].offset <= p[r.file] + AheadOf(r, hist.torn, r.file)
    BY <2>1 DEF FileHolds
  <2>3. /\ r.len \in Nat /\ p[r.file] \in Nat
        /\ Waiting(r, r.file) \in Nat /\ AheadOf(r, hist.torn, r.file) \in Nat
        /\ Waiting(r, r.file) <= AheadOf(r, hist.torn, r.file)
    BY <2>1, WaitingType DEF Recs, PesType
  <2>4. r.len <= p[r.file] + AheadOf(r, hist.torn, r.file)
    BY <2>2, <2>3
  <2> QED  BY <1>3, <2>2, <2>4
<1>6. IndexHolds(m, p, idx, hist)
  BY <1>4 DEF IndexHolds
<1> QED  BY <1>1, <1>2, <1>5, <1>6 DEF m

LEMMA FilesSavePass ==
  ASSUME FilesInv, SavePass
  PROVE  FilesFit'
<1>1. PICK got \in BOOLEAN :
        /\ got => rec.fd # "none"
        /\ rec' = MarkUnit(AfterFrame(got))
        /\ pes' = PesAfterFrame(got)
        /\ pc' \in {"cutting", "checking"}
  BY DEF SavePass
<1> DEFINE a == AfterFrame(got)
           p == PesAfterFrame(got)
<1>2. /\ a \in Recs /\ PesType(p) /\ a.fd = rec.fd /\ a.file = rec.file
      /\ a.buf <= BufBlocks - 1
      /\ FileHolds(a, p, hist) /\ IndexHolds(a, p, idx, hist)
  BY <1>1, PushHolds
<1> HIDE DEF a, p
<1>3. clock \in Nat /\ type \in AllTypes /\ UNCHANGED <<hist, idx>>
  BY FilesTyped DEF FilesInv, SavePass
<1>4. LET m == MarkUnit(a)
      IN  /\ m.fd = rec.fd /\ m.file = rec.file /\ m.buf <= BufBlocks - 1
          /\ FileHolds(m, p, hist) /\ IndexHolds(m, p, idx, hist)
  BY <1>2, <1>3, MarkHolds
<1>5. rec' = MarkUnit(a) /\ pes' = p
  BY <1>1 DEF a, p
<1>6. FileHolds(rec', pes', hist') /\ IndexHolds(rec', pes', idx', hist')
  BY <1>3, <1>4, <1>5
<1>7. StaleIsPulled' /\ BufferWaits' /\ ClosesFlushed'
  BY <1>1, <1>3, <1>4, <1>5 DEF FilesInv, FilesFit, StaleIsPulled, BufferWaits, ClosesFlushed
<1> QED  BY <1>6, <1>7 DEF FilesFit

(* record_async_data_buff: what waited is in the file.                     *)
LEMMA FilesFlush ==
  ASSUME FilesInv, Flush
  PROVE  FilesFit'
<1>1. rec \in Recs /\ PesType(pes) /\ IdxType(idx) /\ UNCHANGED <<idx, hist>>
      /\ BufBlocks - 1 \in Nat
  BY FilesTyped DEF FilesInv, Flush
<1>2. CASE rec.fd # "open"
  <2>1. UNCHANGED <<rec, pes>>
    BY <1>2 DEF Flush, Flushed, PesFlushed
  <2>2. FileHolds(rec', pes', hist') /\ IndexHolds(rec', pes', idx', hist')
    BY <1>1, <2>1 DEF FilesInv, FilesFit
  <2> QED  BY <1>1, <1>2, <2>1, <2>2 DEF FilesInv, FilesFit, StaleIsPulled, BufferWaits,
           ClosesFlushed
<1>3. CASE rec.fd = "open"
  <2>1. /\ rec'.fd = rec.fd /\ rec'.file = rec.file /\ rec'.len = rec.len
        /\ rec'.units = rec.units /\ rec'.buf = 0 /\ rec' \in Recs
    BY <1>1, <1>3 DEF Flush, Flushed, Recs
  <2>2. pes' = [pes EXCEPT ![rec.file] = @ + rec.buf]
    BY <1>3 DEF Flush, PesFlushed
  <2>3. DOMAIN pes' = DOMAIN pes
    BY <2>2
  <2>4. ASSUME NEW f \in DOMAIN pes
        PROVE  /\ pes'[f] + Waiting(rec', f) = pes[f] + Waiting(rec, f)
               /\ pes[f] + AheadOf(rec, hist.torn, f) <= pes'[f] + AheadOf(rec', hist.torn, f)
               /\ pes[f] + AheadOf(rec, hist.torn, f) \in Nat
               /\ pes'[f] + AheadOf(rec', hist.torn, f) \in Nat
    <3>1. pes[f] \in Nat /\ rec.buf \in Nat
      BY <1>1 DEF PesType, Recs
    <3>2. pes'[f] = IF f = rec.file THEN pes[f] + rec.buf ELSE pes[f]
      BY <2>2
    <3>3. Waiting(rec', f) = 0
          /\ Waiting(rec, f) = IF f = rec.file THEN rec.buf ELSE 0
      BY <1>3, <2>1 DEF Waiting
    <3>4. pes'[f] + Waiting(rec', f) = pes[f] + Waiting(rec, f)
          /\ Waiting(rec, f) \in Nat /\ pes'[f] \in Nat /\ pes[f] <= pes'[f]
      BY <3>1, <3>2, <3>3
    <3> QED  BY <1>1, <3>1, <3>3, <3>4 DEF AheadOf
  <2>5. FileHolds(rec', pes', hist')
    <3>1. SUFFICES ASSUME rec.file \in DOMAIN pes \ hist.pulled
                   PROVE  /\ rec.len <= pes'[rec.file] + Waiting(rec', rec.file)
                          /\ \A i \in UnitIdx : rec.units[i].offset
                               <= pes'[rec.file] + AheadOf(rec', hist.torn, rec.file)
      BY <1>1, <2>1, <2>3 DEF FileHolds
    <3>2. /\ rec.len <= pes[rec.file] + Waiting(rec, rec.file)
          /\ \A i \in UnitIdx :
               rec.units[i].offset <= pes[rec.file] + AheadOf(rec, hist.torn, rec.file)
      BY <3>1 DEF FilesInv, FilesFit, FileHolds
    <3>3. \A i \in UnitIdx : rec.units[i].offset \in Nat
      BY <1>1 DEF Recs, Units
    <3> QED  BY <2>4, <3>1, <3>2, <3>3
  <2>6. IndexHolds(rec', pes', idx', hist')
    <3>1. SUFFICES ASSUME NEW f \in (DOMAIN idx \cap DOMAIN pes) \ hist.pulled,
                          NEW i \in UnitIdx
                   PROVE  idx[f][i].offset <= pes'[f] + AheadOf(rec', hist.torn, f)
      BY <1>1, <2>3 DEF IndexHolds
    <3>2. idx[f][i].offset <= pes[f] + AheadOf(rec, hist.torn, f)
      BY <3>1 DEF FilesInv, FilesFit, IndexHolds
    <3>3. idx[f][i].offset \in Nat
      BY <1>1, <3>1 DEF IdxType, Units
    <3> QED  BY <2>4, <3>1, <3>2, <3>3
  <2>7. StaleIsPulled' /\ BufferWaits' /\ ClosesFlushed'
    BY <1>1, <1>3, <2>1 DEF StaleIsPulled, BufferWaits, ClosesFlushed
  <2> QED  BY <2>5, <2>6, <2>7 DEF FilesFit
<1> QED  BY <1>2, <1>3

LEMMA FilesCloseFile ==
  ASSUME FilesInv, CloseFile
  PROVE  FilesFit'
<1>1. rec \in Recs /\ UNCHANGED <<pes, idx, hist>> /\ BufBlocks - 1 \in Nat
      /\ pc = "closing" /\ pass \in Passes
  BY FilesTyped DEF FilesInv, CloseFile
<1>2. CASE card
  <2>1. /\ rec' \in Recs /\ rec'.fd = "none" /\ rec'.file = rec.file
        /\ rec'.units = rec.units /\ rec'.len = rec.len /\ rec'.buf = 0
    BY <1>1, <1>2, ClosedType DEF CloseFile, Closed, Recs
  <2>2. rec.fd = "open" => rec.buf = 0
    BY <1>1 DEF FilesInv, FilesFit, ClosesFlushed
  <2>3. FileHolds(rec', pes', hist') /\ IndexHolds(rec', pes', idx', hist')
    BY <1>1, <2>1, <2>2, FilesLeft
  <2> QED  BY <1>1, <2>1, <2>3 DEF FilesFit, StaleIsPulled, BufferWaits, ClosesFlushed
<1>3. CASE ~card
  <2>1. rec' = rec /\ pc' # "closing"
    <3>1. PICK next \in {"idle", "saving", "checking"} : GoesOn(next)
      BY <1>1, <1>3 DEF CloseFile, Passes
    <3>2. pc' = next
      BY <1>1, <3>1, GoesOnType
    <3> QED  BY <1>3, <3>2 DEF CloseFile
  <2> QED  BY <1>1, <2>1, FilesUntouched
<1> QED  BY <1>2, <1>3

(* save_rec_units: what is in memory becomes the index of its file.        *)
LEMMA FilesSave ==
  ASSUME FilesInv, CutIdx \/ WriteIdx
  PROVE  FilesFit'
<1>1. UNCHANGED <<rec, pes, hist>> /\ pass \in Passes
  BY FilesTyped DEF FilesInv, CutIdx, WriteIdx
<1>2. pc' # "closing"
  <2>1. Returns => pc' # "closing"
    BY <1>1, ReturnsType
  <2> QED  BY <2>1 DEF CutIdx, WriteIdx
<1>3. ASSUME NEW f \in DOMAIN idx'
      PROVE  \/ f \in DOMAIN idx /\ idx'[f] = idx[f]
             \/ f = rec.file /\ idx'[f] = rec.units
  <2>1. CASE CutIdx
    <3>1. \/ idx' = idx
          \/ idx' = [g \in DOMAIN idx \ {rec.file} |-> idx[g]]
      BY <2>1 DEF CutIdx
    <3> QED  BY <3>1, <1>3
  <2>2. CASE WriteIdx
    <3>1. idx' = [g \in DOMAIN idx \cup {rec.file} |->
                    IF g = rec.file THEN rec.units ELSE idx[g]]
      BY <2>2 DEF WriteIdx
    <3> QED  BY <3>1, <1>3
  <2> QED  BY <2>1, <2>2
<1>4. IndexHolds(rec', pes', idx', hist')
  BY <1>1, <1>3 DEF FilesInv, FilesFit, IndexHolds, FileHolds
<1> QED  BY <1>1, <1>2, <1>4 DEF FilesInv, FilesFit, StaleIsPulled, BufferWaits, ClosesFlushed

(* A file that is continued has the index it was left with, and is counted *)
(* from its end; a new one has none.                                       *)
LEMMA FilesOpenFile ==
  ASSUME FilesInv, OpenFile
  PROVE  FilesFit'
<1>1. PICK fd \in {"none", "open"} :
        /\ rec' = OpenedRec(fd)
        /\ pes' = IF fd = "none" \/ Slot \in DOMAIN pes THEN pes
                  ELSE [f \in DOMAIN pes \cup {Slot} |-> IF f = Slot THEN 0 ELSE pes[f]]
        /\ hist'.torn = hist.torn /\ hist'.pulled = hist.pulled
        /\ fd = "none" => Slot \notin DOMAIN pes
  <2>1. hist \in Hists
    BY FilesTyped DEF FilesInv
  <2>2. LET h == [hist EXCEPT !.covered = @ \cup {UnitAt(clock)}, !.openedAt = clock]
        IN  h.torn = hist.torn /\ h.pulled = hist.pulled
    BY <2>1 DEF Hists
  <2> QED  BY <2>2 DEF OpenFile
<1>2. idx' = IF Slot \in DOMAIN pes THEN idx ELSE [f \in DOMAIN idx \ {Slot} |-> idx[f]]
  BY DEF OpenFile
<1>3. rec.fd = "none" /\ PesType(pes) /\ IdxType(idx) /\ BufBlocks - 1 \in Nat
  BY FilesTyped DEF OpenFile, FilesInv, ControlInv, StartsWithoutFile
<1> DEFINE known == Slot \in DOMAIN pes /\ Slot \in DOMAIN idx
<1>4. /\ rec'.fd = fd /\ rec'.file = Slot /\ rec'.buf = 0 /\ pc' = "saving"
      /\ rec'.len = IF known THEN pes[Slot] ELSE 0
      /\ rec'.units = IF known THEN idx[Slot] ELSE NoUnits
  BY <1>1 DEF OpenedRec, OpenFile
<1>5. \A f : Waiting(rec, f) = 0 /\ Waiting(rec', f) = 0
             /\ AheadOf(rec', hist'.torn, f) = AheadOf(rec, hist.torn, f)
             /\ AheadOf(rec, hist.torn, f) \in Nat
  BY <1>1, <1>3, <1>4 DEF Waiting, AheadOf
<1>6. ASSUME NEW f \in DOMAIN pes'
      PROVE  /\ f \in DOMAIN pes => pes'[f] = pes[f]
             /\ f \notin DOMAIN pes => f = Slot /\ pes'[f] = 0
             /\ pes'[f] \in Nat
  BY <1>1, <1>3, <1>6 DEF PesType
<1>7. FileHolds(rec', pes', hist')
  <2>1. SUFFICES ASSUME Slot \in DOMAIN pes' \ hist.pulled
                 PROVE  /\ rec'.len <= pes'[Slot]
                        /\ \A i \in UnitIdx : rec'.units[i].offset
                             <= pes'[Slot] + AheadOf(rec, hist.torn, Slot)
    <3>1. Waiting(rec', Slot) = 0 /\ AheadOf(rec', hist'.torn, Slot) = AheadOf(rec, hist.torn, Slot)
      BY <1>5
    <3>2. Slot \in DOMAIN pes' => pes'[Slot] + 0 = pes'[Slot]
      BY <1>6
    <3> QED  BY <1>1, <1>4, <3>1, <3>2 DEF FileHolds
  <2>2. pes'[Slot] \in Nat /\ AheadOf(rec, hist.torn, Slot) \in Nat
    BY <1>5, <1>6, <2>1
  <2>3. CASE known
    <3>1. rec'.len = pes[Slot] /\ rec'.units = idx[Slot] /\ pes'[Slot] = pes[Slot]
      BY <1>4, <1>6, <2>1, <2>3
    <3>2. \A i \in UnitIdx : idx[Slot][i].offset <= pes[Slot] + AheadOf(rec, hist.torn, Slot)
      BY <2>1, <2>3 DEF FilesInv, FilesFit, IndexHolds
    <3> QED  BY <2>2, <3>1, <3>2
  <2>4. CASE ~known
    <3>1. rec'.len = 0 /\ rec'.units = NoUnits
      BY <1>4, <2>4
    <3>2. \A i \in UnitIdx : NoUnits[i].offset = 0
      BY DEF NoUnits, Unmarked
    <3>3. 0 <= pes'[Slot] + AheadOf(rec, hist.torn, Slot) /\ 0 <= pes'[Slot]
      BY <2>2
    <3> QED  BY <3>1, <3>2, <3>3
  <2> QED  BY <2>3, <2>4
<1>8. IndexHolds(rec', pes', idx', hist')
  <2>1. SUFFICES ASSUME NEW f \in (DOMAIN idx' \cap DOMAIN pes') \ hist.pulled,
                        NEW i \in UnitIdx
                 PROVE  idx'[f][i].offset <= pes'[f] + AheadOf(rec, hist.torn, f)
    BY <1>1, <1>5 DEF IndexHolds
  <2>2. f \in DOMAIN idx /\ idx'[f] = idx[f] /\ f \in DOMAIN pes /\ pes'[f] = pes[f]
    BY <1>2, <1>6, <2>1
  <2> QED  BY <2>1, <2>2 DEF FilesInv, FilesFit, IndexHolds
<1>9. StaleIsPulled' /\ BufferWaits' /\ ClosesFlushed'
  BY <1>3, <1>4 DEF StaleIsPulled, BufferWaits, ClosesFlushed
<1> QED  BY <1>7, <1>8, <1>9 DEF FilesFit

(* What ends the process leaves the file that was open without the blocks  *)
(* that waited; what takes the card away leaves it to itself.              *)
LEMMA FilesTorn ==
  ASSUME FilesInv, Dies \/ CardRemoved,
         hist'.torn = hist.torn \cup Unfinished,
         CardRemoved => hist'.pulled = hist.pulled \cup
                          IF rec.fd = "open" THEN {rec.file} ELSE {},
         Dies => hist'.pulled = hist.pulled
  PROVE  FilesFit'
<1>1. /\ rec \in Recs /\ UNCHANGED <<pes, idx>> /\ NoFile \notin Nat
      /\ rec.fd = "open" => rec.file \in Nat
      /\ BufBlocks - 1 \in Nat
  BY FilesTyped DEF FilesInv, Dies, CardRemoved, NoFile
<1>2. rec.fd = "open" => rec.file \in hist'.torn
  BY <1>1 DEF Unfinished
<1>3. CASE Dies
  <2>1. rec' = FreshRec /\ pc' = "idle"
    BY <1>3 DEF Dies
  <2>2. FileHolds(rec', pes', hist')
    <3>1. DOMAIN pes \subseteq Nat
      BY FilesTyped DEF FilesInv, PesType
    <3> QED  BY <1>1, <2>1, <3>1 DEF FileHolds, FreshRec
  <2>3. IndexHolds(rec', pes', idx', hist')
    <3>1. SUFFICES ASSUME NEW f \in (DOMAIN idx \cap DOMAIN pes) \ hist.pulled,
                          NEW i \in UnitIdx
                   PROVE  idx[f][i].offset <= pes[f] + AheadOf(rec', hist'.torn, f)
      BY <1>1, <1>3 DEF IndexHolds
    <3>2. idx[f][i].offset <= pes[f] + AheadOf(rec, hist.torn, f)
      BY <3>1 DEF FilesInv, FilesFit, IndexHolds
    <3>3. idx[f][i].offset \in Nat /\ pes[f] \in Nat
      BY <3>1, FilesTyped DEF FilesInv, IdxType, Units, PesType
    <3>4. rec.buf \in Nat /\ rec.buf <= BufBlocks - 1
      BY <1>1 DEF FilesInv, FilesFit, BufferWaits, Recs
    <3>5. AheadOf(rec, hist.torn, f) \in Nat /\ AheadOf(rec', hist'.torn, f) \in Nat
          /\ AheadOf(rec, hist.torn, f) <= AheadOf(rec', hist'.torn, f)
      BY <1>1, <1>2, <2>1, <3>4 DEF AheadOf, Waiting, FreshRec
    <3> QED  BY <3>2, <3>3, <3>5
  <2> QED  BY <1>1, <2>1, <2>2, <2>3 DEF FilesFit, StaleIsPulled, BufferWaits,
           ClosesFlushed, FreshRec
<1>4. CASE CardRemoved
  <2>1. /\ rec' \in Recs /\ rec'.file = rec.file /\ rec'.len = rec.len
        /\ rec'.units = rec.units /\ rec'.buf = rec.buf
        /\ rec'.fd = IF rec.fd = "open" THEN "stale" ELSE rec.fd
        /\ pc' = "closing" => pc = "closing"
    BY <1>1, <1>4 DEF CardRemoved, Recs
  <2>2. /\ hist.torn \subseteq hist'.torn /\ hist.pulled \subseteq hist'.pulled
        /\ rec.fd = "open" => rec.file \in hist'.pulled
    BY <1>4
  <2>3. rec'.buf <= BufBlocks - 1
    BY <2>1 DEF FilesInv, FilesFit, BufferWaits
  <2>4. FileHolds(rec', pes', hist') /\ IndexHolds(rec', pes', idx', hist')
    BY <1>1, <2>1, <2>2, <2>3, FilesLeft
  <2>5. StaleIsPulled' /\ BufferWaits' /\ ClosesFlushed'
    BY <2>1, <2>2, <2>3 DEF FilesInv, FilesFit, StaleIsPulled, BufferWaits, ClosesFlushed
  <2> QED  BY <2>4, <2>5 DEF FilesFit
<1> QED  BY <1>3, <1>4

LEMMA FilesStep == FilesInv /\ [Next]_vars => FilesInv'
<1> SUFFICES ASSUME FilesInv, [Next]_vars PROVE FilesFit'
  BY ControlStep DEF FilesInv
<1>1. /\ hist \in Hists /\ TypeInv /\ pass \in Passes
      /\ Upset(hist).torn = hist.torn /\ Upset(hist).pulled = hist.pulled
  BY FilesTyped, TornSets DEF FilesInv, ControlInv
<1>2. CASE OpenFile
  BY <1>2, FilesOpenFile
<1>3. CASE SavePass
  BY <1>3, FilesSavePass
<1>4. CASE Flush \/ CloseFile \/ CutIdx \/ WriteIdx
  BY <1>4, FilesFlush, FilesCloseFile, FilesSave
<1>5. CASE ExitEnds \/ Leave \/ Crash \/ CardRemoved
  <2>1. /\ hist'.torn = hist.torn \cup Unfinished
        /\ CardRemoved => hist'.pulled = hist.pulled \cup
                            IF rec.fd = "open" THEN {rec.file} ELSE {}
    BY <1>1, <1>5, TornSets DEF ExitEnds, Leave, Crash
  <2>2. Dies => hist'.pulled = hist.pulled
    <3>1. CASE ExitEnds \/ Leave \/ Crash
      BY <1>1, <3>1, TornSets DEF ExitEnds, Leave, Crash
    <3>2. CASE CardRemoved
      <4>1. ~Dies
        BY <3>2 DEF CardRemoved, Dies
      <4> QED  BY <4>1
    <3> QED  BY <1>5, <3>1, <3>2
  <2> QED  BY <1>5, <2>1, <2>2, FilesTorn DEF ExitEnds, Leave, Crash
<1>6. CASE PollStart \/ StartSkipped \/ StartFails \/ PollSave
  BY <1>6, FilesUntouched DEF PollStart, StartSkipped, StartFails, PollSave, fileVars
<1>7. CASE SaveAborts \/ HandleStop
  <2>1. pc' # "closing" /\ UNCHANGED <<rec, pes, idx, hist>>
    BY <1>1, <1>7, StopsType DEF SaveAborts, HandleStop, fileVars
  <2> QED  BY <2>1, FilesUntouched
<1>8. CASE CheckPass
  <2>1. pc' # "closing" /\ UNCHANGED <<pes, idx, hist>>
    BY <1>1, <1>8, TypeCheckPassGoes DEF CheckPass
  <2>2. rec' = rec
    BY <1>8 DEF CheckPass, Checked, FilesInv, ControlInv, RecFdNeedsDisk
  <2> QED  BY <2>1, <2>2, FilesUntouched
<1>9. CASE WriteFails
  <2>1. pc' # "closing"
    BY <1>1, <1>9, ReturnsType DEF WriteFails
  <2>2. hist.torn \subseteq hist'.torn /\ hist'.pulled = hist.pulled
    BY <1>1, <1>9, TornSets DEF WriteFails
  <2> QED  BY <1>9, <2>1, <2>2, FilesUntouched DEF WriteFails, fileVars
<1>10. CASE HandleAlarm
  <2>1. hist'.torn = hist.torn /\ hist'.pulled = hist.pulled
    BY <1>1, <1>10 DEF HandleAlarm, Hists
  <2> QED  BY <1>10, <2>1, FilesUntouched DEF HandleAlarm, fileVars
<1>11. CASE Callback
  BY <1>1, <1>11, FilesUntouched DEF Callback, RebootFlag, RebootNotify, RebootLeave,
     FormatNotify, FormatFlag, FormatDone, AlarmReport, callbackLeaves
<1>12. CASE ExitBegins \/ Boot
  BY <1>1, <1>12, FilesUntouched DEF ExitBegins, Boot
<1>13. CASE Tick
  <2>1. hist'.torn = hist.torn /\ hist'.pulled = hist.pulled
    BY <1>1, <1>13 DEF Tick, Hists
  <2> QED  BY <1>13, <2>1, FilesUntouched DEF Tick
<1>14. CASE Sync \/ SetRecordType \/ SetRecordTimes \/ CardInserted
  BY <1>14, FilesUntouched DEF Sync, SetRecordType, SetRecordTimes, CardInserted
<1>15. CASE UNCHANGED vars
  BY <1>15, FilesUntouched DEF vars
<1> QED  BY <1>2, <1>3, <1>4, <1>5, <1>6, <1>7, <1>8, <1>9, <1>10, <1>11, <1>12, <1>13,
            <1>14, <1>15 DEF Next, Task, Process, Env

LEMMA FilesInit == Init => FilesInv
<1> SUFFICES ASSUME Init PROVE FilesFit
  BY ControlInit DEF FilesInv
<1>1. rec = FreshRec /\ DOMAIN idx = {} /\ DOMAIN pes = {}
  BY DEF Init
<1> QED  BY <1>1, LengthsAssumption DEF FilesFit, StaleIsPulled, BufferWaits,
         ClosesFlushed, FileHolds, IndexHolds, FreshRec

(* An index on the card never points behind what its file holds and what   *)
(* waits for it in the write buffer, through stops, reboots, formats,      *)
(* continued files and files that could not be created: closing flushes    *)
(* before the index is saved.  The blocks that waited when the process     *)
(* ended, in an index that a minute's save wrote before, are all it may    *)
(* ever be ahead of its file.  Files on a card that was pulled are left    *)
(* out: the task goes on counting frames for them.                         *)
THEOREM IndexStaysInFile == Spec => []IndexInFile
<1>1. FilesInv => IndexInFile
  BY HoldsIsInFile DEF FilesInv, FilesFit
<1> QED  BY <1>1, FilesStep, FilesInit, PTL DEF Spec

-----------------------------------------------------------------------------
(* A file stays within its slot, if no format is reported and an open file *)
(* is polled at least once in the time of a unit.  The end of the slot is  *)
(* a time of day, 0 o'clock for the last one of a day: it must be seen     *)
(* before the first unit of the new day is over.                           *)

LEMMA Product ==
  ASSUME NEW a \in Nat, NEW b \in Nat \ {0}
  PROVE  a * b \in Nat /\ b * a = a * b /\ (a + 1) * b = a * b + b
OBVIOUS

LEMMA UnitInFile == UnitSecs <= FileSecs
<1>1. ASSUME NEW a \in Nat \ {0}, NEW b \in Nat \ {0} PROVE a <= a * b
  <2>1. a * b - a = a * (b - 1) /\ a * (b - 1) >= 0
    OBVIOUS
  <2> QED  BY <2>1
<1> QED  BY <1>1, LengthsAssumption DEF FileSecs

(* The slot of a day a file is of, and the end of that slot.               *)
LEMMA SlotOfDay ==
  ASSUME NEW f \in Nat
  PROVE  \E d \in Nat, k \in 0 .. FilesPerDay - 1 :
           /\ f % FilesPerDay = k
           /\ (f + 1) * FileSecs = DaySecs * d + (k + 1) * FileSecs
           /\ (k + 1) * FileSecs <= DaySecs
           /\ k + 1 < FilesPerDay => (k + 1) * FileSecs + FileSecs <= DaySecs
           /\ k + 1 = FilesPerDay => (k + 1) * FileSecs = DaySecs
<1> DEFINE n == FilesPerDay
           L == FileSecs
           d == f \div n
           k == f % n
<1>1. n \in Nat \ {0} /\ L \in Nat \ {0} /\ DaySecs = L * n
  BY LengthsAssumption, LengthsPositive DEF DaySecs
<1>2. d \in Nat /\ k \in 0 .. n - 1 /\ f = n * d + k
  <2>1. d \in Nat
    BY <1>1, DivMod
  <2>2. k \in 0 .. n - 1 /\ f = n * d + k
    BY <1>1, Division
  <2> QED  BY <2>1, <2>2
<1> HIDE DEF n, L, d, k
<1>3. (f + 1) * L = DaySecs * d + (k + 1) * L
  <2>1. ASSUME NEW x \in Nat, NEW y \in Nat, NEW z \in Nat, NEW w \in Nat
        PROVE  (x * y + z + 1) * w = (w * x) * y + (z + 1) * w
    OBVIOUS
  <2>2. (n * d + k + 1) * L = (L * n) * d + (k + 1) * L
    BY <1>1, <1>2, <2>1
  <2> QED  BY <1>1, <1>2, <2>2
<1>4. ASSUME NEW m \in Nat, m <= n PROVE m * L <= L * n
  <2>1. ASSUME NEW x \in Nat, NEW y \in Nat, NEW z \in Nat, x <= y
        PROVE  x * z <= z * y
    <3>1. z * y - x * z = z * (y - x) /\ z * (y - x) >= 0
      BY <2>1
    <3>2. x * z \in Nat /\ z * y \in Nat
      BY <2>1
    <3> QED  BY <3>1, <3>2
  <2> QED  BY <1>1, <1>4, <2>1
<1>5. (k + 1) * L <= DaySecs
  BY <1>1, <1>2, <1>4
<1>6. k + 1 < n => (k + 1) * L + L <= DaySecs
  <2>1. (k + 2) * L = (k + 1) * L + L
    <3>1. k + 1 \in Nat /\ (k + 1) + 1 = k + 2
      BY <1>1, <1>2
    <3> QED  BY <1>1, <3>1, Product
  <2>2. k + 1 < n => k + 2 \in Nat /\ k + 2 <= n
    BY <1>1, <1>2
  <2> QED  BY <1>1, <1>4, <2>1, <2>2
<1>7. k + 1 = n => (k + 1) * L = DaySecs
  BY <1>1, Product
<1> QED  BY <1>2, <1>3, <1>5, <1>6, <1>7 DEF n, L, d, k

(* Within a unit behind the end of its slot a file is seen to be over.     *)
LEMMA SlotIsOver ==
  ASSUME NEW r, r.file \in Nat, clock \in Nat,
         (r.file + 1) * FileSecs <= clock,
         clock < (r.file + 1) * FileSecs + UnitSecs
  PROVE  SlotEnded(r)
<1>1. PICK d \in Nat, k \in 0 .. FilesPerDay - 1 :
           /\ r.file % FilesPerDay = k
           /\ (r.file + 1) * FileSecs = DaySecs * d + (k + 1) * FileSecs
           /\ (k + 1) * FileSecs <= DaySecs
           /\ k + 1 < FilesPerDay => (k + 1) * FileSecs + FileSecs <= DaySecs
           /\ k + 1 = FilesPerDay => (k + 1) * FileSecs = DaySecs
  BY SlotOfDay
<1> DEFINE E == (k + 1) * FileSecs
           x == clock - (r.file + 1) * FileSecs
<1>2. /\ DaySecs \in Nat \ {0} /\ FileSecs \in Nat \ {0} /\ FilesPerDay \in Nat \ {0}
      /\ UnitSecs \in Nat \ {0} /\ UnitSecs <= FileSecs
  BY LengthsPositive, LengthsAssumption, UnitInFile
<1>3. /\ E \in Nat /\ DaySecs * d \in Nat /\ (r.file + 1) * FileSecs \in Nat
      /\ k * FileSecs + FileSecs = E
  BY <1>2, Product
<1>4. FileEnd(r) = E % DaySecs
  <2>1. NoFile \notin Nat
    BY DEF NoFile
  <2> QED  BY <1>1, <1>3, <2>1 DEF FileEnd, FileTime
<1>5. x \in 0 .. UnitSecs - 1 /\ clock = DaySecs * d + E + x
  <2> HIDE DEF E
  <2>1. (r.file + 1) * FileSecs = DaySecs * d + E
    BY <1>1 DEF E
  <2> QED  BY <1>2, <1>3, <2>1
<1>6. CASE k + 1 < FilesPerDay
  <2>1. E + x < DaySecs /\ E < DaySecs /\ E > 0 /\ E + FileSecs <= DaySecs
    <3>1. E + FileSecs <= DaySecs
      BY <1>1, <1>6
    <3>2. E = k * FileSecs + FileSecs /\ k * FileSecs \in Nat
      BY <1>2, <1>3, Product
    <3> HIDE DEF E, x
    <3> QED  BY <1>2, <1>3, <1>5, <3>1, <3>2
  <2> HIDE DEF E, x
  <2>2. Now = E + x
    <3> DEFINE y == E + x
    <3>1. y \in 0 .. DaySecs - 1 /\ clock = DaySecs * d + y
      BY <1>2, <1>3, <1>5, <2>1
    <3> HIDE DEF y
    <3>2. (DaySecs * d + y) % DaySecs = y
      BY <1>2, <3>1, DivisionUnique
    <3> QED  BY <3>1, <3>2 DEF Now, y
  <2>3. FileEnd(r) = E
    <3>1. E \in 0 .. DaySecs - 1 /\ E = DaySecs * 0 + E
      BY <1>2, <1>3, <2>1
    <3> QED  BY <1>2, <1>4, <3>1, DivisionUnique
  <2> QED  BY <1>2, <1>3, <1>5, <2>1, <2>2, <2>3 DEF SlotEnded, PastEnd
<1>7. CASE k + 1 = FilesPerDay
  <2>1. E = DaySecs
    BY <1>1, <1>7
  <2> HIDE DEF E, x
  <2>2. x \in 0 .. DaySecs - 1
    <3>1. k * FileSecs \in Nat
      BY <1>2, Product
    <3> QED  BY <1>2, <1>3, <1>5, <2>1, <3>1
  <2>3. Now = x
    <3>1. clock = DaySecs * (d + 1) + x /\ d + 1 \in Int
      BY <1>2, <1>5, <2>1, Product
    <3>2. (DaySecs * (d + 1) + x) % DaySecs = x
      BY <1>2, <2>2, <3>1, DivisionUnique
    <3> QED  BY <3>1, <3>2 DEF Now
  <2>4. FileEnd(r) = 0
    <3>1. DaySecs = DaySecs * 1 + 0 /\ 0 \in 0 .. DaySecs - 1
      BY <1>2
    <3> QED  BY <1>2, <1>4, <2>1, <3>1, DivisionUnique
  <2> QED  BY <1>2, <1>5, <2>3, <2>4 DEF SlotEnded, PastEnd
<1> QED  BY <1>1, <1>2, <1>6, <1>7

(* What the last poll of an open file has seen was before its end.         *)
InSlot == rec.fd = "open" /\ ~reboot => clock - lag < (rec.file + 1) * FileSecs
NoFormat == ~format /\ cb # "formatFlag"
WindowInv == ControlInv /\ NoFormat /\ lag <= MaxLag /\ InSlot

LEMMA WindowTyped ==
  ASSUME ControlInv
  PROVE  /\ clock \in Nat /\ lag \in Nat /\ rec \in Recs /\ type \in AllTypes
         /\ rec.fd = "open" => rec.file \in Nat /\ (rec.file + 1) * FileSecs \in Nat
         /\ FileSecs \in Nat \ {0} /\ MaxLag \in Nat
<1>1. /\ clock \in Nat /\ lag \in Nat /\ rec \in Recs /\ type \in AllTypes
      /\ rec.fd = "open" => rec.file \in Nat
  BY ChoicesAssumption DEF ControlInv, TypeInv, TypeOK, FileNamed
<1>2. FileSecs \in Nat \ {0} /\ MaxLag \in Nat
  BY LengthsPositive, BoundsAssumption
<1>3. ASSUME NEW f \in Nat PROVE (f + 1) * FileSecs \in Nat
  BY <1>2, Product
<1> QED  BY <1>1, <1>2, <1>3

(* All other actions leave the clock, and open no file.                    *)
LEMMA WindowUntouched ==
  ASSUME WindowInv, clock' = clock, lag' = lag,
         rec'.fd = "open" => rec.fd = "open" /\ rec'.file = rec.file,
         reboot => reboot' \/ rec'.fd # "open"
  PROVE  lag' <= MaxLag /\ InSlot'
BY DEF WindowInv, InSlot

(* No step of a stop, of a save or of the checks opens a file or names one. *)
LEMMA StopKeepsFile ==
  ASSUME rec \in Recs,
         \/ CheckPass \/ Flush \/ CloseFile \/ CutIdx \/ WriteIdx \/ WriteFails
         \/ SaveAborts \/ HandleStop
  PROVE  rec'.fd = "open" => rec.fd = "open" /\ rec'.file = rec.file
<1>1. CASE CheckPass
  BY <1>1 DEF CheckPass, Recs
<1>2. CASE Flush
  BY <1>2 DEF Flush, Flushed, Recs
<1>3. CASE CloseFile
  BY <1>3 DEF CloseFile, Closed, Recs
<1>4. CASE CutIdx \/ WriteIdx \/ WriteFails \/ SaveAborts \/ HandleStop
  BY <1>4 DEF CutIdx, WriteIdx, WriteFails, SaveAborts, HandleStop, fileVars
<1> QED  BY <1>1, <1>2, <1>3, <1>4

LEMMA WindowSavePass ==
  ASSUME WindowInv, SavePass, MaxLag <= UnitSecs
  PROVE  lag' <= MaxLag /\ InSlot'
<1>1. PICK got \in BOOLEAN :
        LET r == MarkUnit(AfterFrame(got))
        IN  rec' = r /\ lag' = IF SlotEnded(r) /\ rec.fd = "open" THEN lag ELSE 0
  BY DEF SavePass
<1>2. clock' = clock /\ ~reboot /\ reboot' = reboot /\ 0 <= MaxLag
  BY BoundsAssumption DEF SavePass, envVars
<1> DEFINE r == MarkUnit(AfterFrame(got))
<1>3. r.fd = rec.fd /\ r.file = rec.file /\ r \in Recs
  BY PassType DEF WindowInv, ControlInv
<1> HIDE DEF r
<1>4. rec' = r /\ lag' = IF SlotEnded(r) /\ rec.fd = "open" THEN lag ELSE 0
  BY <1>1 DEF r
<1>5. CASE rec.fd # "open"
  BY <1>2, <1>3, <1>4, <1>5 DEF InSlot
<1>6. CASE rec.fd = "open" /\ SlotEnded(r)
  BY <1>2, <1>3, <1>4, <1>6, WindowUntouched
<1>7. CASE rec.fd = "open" /\ ~SlotEnded(r)
  <2> DEFINE E == (rec.file + 1) * FileSecs
  <2>1. /\ clock \in Nat /\ lag \in Nat /\ rec.file \in Nat /\ E \in Nat
        /\ lag <= UnitSecs /\ clock - lag < E /\ UnitSecs \in Nat
    BY <1>2, <1>7, WindowTyped, LengthsAssumption DEF WindowInv, InSlot
  <2>2. ~(E <= clock /\ clock < E + UnitSecs)
    BY <1>3, <1>7, <2>1, SlotIsOver
  <2>3. clock < E
    <3> HIDE DEF E
    <3> QED  BY <2>1, <2>2
  <2> QED  BY <1>2, <1>3, <1>4, <1>7, <2>1, <2>3 DEF InSlot
<1> QED  BY <1>5, <1>6, <1>7

LEMMA WindowOpenFile ==
  ASSUME WindowInv, OpenFile
  PROVE  lag' <= MaxLag /\ InSlot'
<1>1. clock \in Nat /\ clock' = clock /\ lag' = 0 /\ 0 <= MaxLag
  BY WindowTyped, BoundsAssumption DEF WindowInv, OpenFile, envVars
<1>2. rec'.file = Slot
  BY DEF OpenFile, OpenedRec
<1>3. clock < (Slot + 1) * FileSecs
  <2> DEFINE q == clock \div FileSecs
             r == clock % FileSecs
  <2>1. FileSecs \in Nat \ {0} /\ q \in Nat
    BY <1>1, LengthsPositive, DivMod
  <2>2. r \in 0 .. FileSecs - 1 /\ clock = FileSecs * q + r
    BY <1>1, <2>1, Division
  <2> HIDE DEF q, r
  <2>3. (q + 1) * FileSecs = q * FileSecs + FileSecs /\ FileSecs * q = q * FileSecs
        /\ q * FileSecs \in Nat
    BY <2>1, Product
  <2>4. clock < (q + 1) * FileSecs
    BY <1>1, <2>1, <2>2, <2>3
  <2> QED  BY <2>4 DEF q, Slot
<1>4. (Slot + 1) * FileSecs \in Nat
  BY <1>1, TimesAreNat, LengthsPositive, Product
<1> QED  BY <1>1, <1>2, <1>3, <1>4 DEF InSlot

LEMMA WindowTick ==
  ASSUME WindowInv, Tick
  PROVE  lag' <= MaxLag /\ InSlot'
<1>1. /\ clock' = clock + 1 /\ UNCHANGED <<rec, reboot>>
      /\ lag' = IF rec.fd # "none" /\ lag < MaxLag THEN lag + 1 ELSE lag
      /\ rec.fd # "none" /\ ~reboot => lag < MaxLag
  BY DEF Tick, WindowInv, NoFormat
<1>2. /\ clock \in Nat /\ lag \in Nat /\ MaxLag \in Nat /\ lag <= MaxLag
      /\ rec.fd = "open" => (rec.file + 1) * FileSecs \in Nat
  BY WindowTyped DEF WindowInv
<1>3. lag' <= MaxLag
  BY <1>1, <1>2
<1>4. ASSUME rec.fd = "open", ~reboot PROVE clock' - lag' = clock - lag
  BY <1>1, <1>2, <1>4
<1> QED  BY <1>1, <1>3, <1>4 DEF WindowInv, InSlot

LEMMA WindowStep ==
  ASSUME "format" \notin Events, MaxLag <= UnitSecs
  PROVE  WindowInv /\ [Next]_vars => WindowInv'
<1> SUFFICES ASSUME WindowInv, [Next]_vars PROVE NoFormat' /\ lag' <= MaxLag /\ InSlot'
  BY ControlStep DEF WindowInv
<1>1. /\ rec \in Recs /\ lag \in Nat
      /\ main = "down" => rec.fd = "none"
  BY WindowTyped DEF WindowInv, ControlInv, DeadHoldsNothing
<1>2. NoFormat'
  <2>1. CASE Task \/ UNCHANGED vars
    <3>1. UNCHANGED <<format, cb>>
      BY <2>1 DEF Task, vars, envVars, PollStart, StartSkipped, StartFails, OpenFile,
         PollSave, SaveAborts, SavePass, CheckPass, Flush, CloseFile, CutIdx, WriteIdx,
         WriteFails, HandleStop, HandleAlarm
    <3> QED  BY <3>1 DEF WindowInv, NoFormat
  <2>2. CASE Callback
    BY <2>2 DEF WindowInv, NoFormat, Callback, RebootFlag, RebootNotify, RebootLeave,
       FormatNotify, FormatFlag, FormatDone, AlarmReport
  <2>3. CASE Process
    BY <2>3 DEF WindowInv, NoFormat, Process, ExitBegins, ExitEnds, Leave, Crash, Boot, Dies
  <2>4. CASE Env
    <3>1. UNCHANGED <<format, cb>>
      BY <2>4 DEF Env, Tick, Sync, SetRecordType, SetRecordTimes, CardRemoved, CardInserted
    <3> QED  BY <3>1 DEF WindowInv, NoFormat
  <2> QED  BY <2>1, <2>2, <2>3, <2>4 DEF Next
<1>3. CASE OpenFile
  BY <1>2, <1>3, WindowOpenFile
<1>4. CASE SavePass
  BY <1>2, <1>4, WindowSavePass
<1>5. CASE Tick
  BY <1>2, <1>5, WindowTick
<1>6. CASE CheckPass \/ Flush \/ CloseFile \/ CutIdx \/ WriteIdx \/ WriteFails
           \/ SaveAborts \/ HandleStop
  <2>1. clock' = clock /\ lag' = lag /\ reboot' = reboot
    BY <1>6 DEF CheckPass, Flush, CloseFile, CutIdx, WriteIdx, WriteFails, SaveAborts,
       HandleStop, envVars
  <2>2. rec'.fd = "open" => rec.fd = "open" /\ rec'.file = rec.file
    BY <1>1, <1>6, StopKeepsFile
  <2> QED  BY <1>2, <2>1, <2>2, WindowUntouched
<1>7. CASE ExitEnds \/ Leave \/ Crash
  <2>1. clock' = clock /\ lag' = 0 /\ rec'.fd = "none"
    BY <1>7 DEF ExitEnds, Leave, Crash, Dies, FreshRec
  <2> QED  BY <1>2, <2>1, BoundsAssumption DEF InSlot
<1>8. CASE CardRemoved
  <2>1. clock' = clock /\ lag' = lag /\ reboot' = reboot /\ rec'.fd # "open"
    BY <1>1, <1>8 DEF CardRemoved, Recs
  <2> QED  BY <1>2, <2>1, WindowUntouched
<1>9. CASE Boot
  BY <1>1, <1>2, <1>9, WindowUntouched DEF Boot
<1>10. CASE PollStart \/ StartSkipped \/ StartFails \/ PollSave \/ HandleAlarm
  BY <1>2, <1>10, WindowUntouched DEF PollStart, StartSkipped, StartFails, PollSave,
     HandleAlarm, fileVars, envVars
<1>11. CASE Callback
  BY <1>2, <1>11, WindowUntouched DEF Callback, RebootFlag, RebootNotify, RebootLeave,
     FormatNotify, FormatFlag, FormatDone, AlarmReport, callbackLeaves
<1>12. CASE ExitBegins \/ Sync \/ SetRecordType \/ SetRecordTimes \/ CardInserted
            \/ UNCHANGED vars
  BY <1>2, <1>12, WindowUntouched DEF ExitBegins, Sync, SetRecordType, SetRecordTimes,
     CardInserted, vars
<1> QED  BY <1>3, <1>4, <1>5, <1>6, <1>7, <1>8, <1>9, <1>10, <1>11, <1>12
         DEF Next, Task, Process, Env

LEMMA WindowInit == Init => WindowInv
<1> SUFFICES ASSUME Init PROVE NoFormat /\ lag <= MaxLag /\ InSlot
  BY ControlInit DEF WindowInv
<1>1. rec.fd = "none" /\ lag = 0 /\ ~format /\ cb = "idle"
  BY DEF Init, FreshRec
<1> QED  BY <1>1, BoundsAssumption DEF NoFormat, InSlot

(* A file ends with its slot, at most a poll late, over midnight and the   *)
(* last slot of a day too: save_record_frame compares times of day and     *)
(* takes 0 o'clock for the end of the day only in the first unit of the    *)
(* next, so it has to look once in the time of a unit.  A format that is   *)
(* over leaves a file open that nobody polled meanwhile.                   *)
THEOREM FileEndsWithSlot ==
  ASSUME "format" \notin Events, MaxLag <= UnitSecs
  PROVE  Spec => []FileWindow
<1>1. WindowInv => FileWindow
  <2> SUFFICES ASSUME WindowInv, rec.fd = "open", ~reboot
               PROVE  clock < (rec.file + 1) * FileSecs + MaxLag
    BY DEF FileWindow
  <2>1. /\ clock \in Nat /\ lag \in Nat /\ MaxLag \in Nat /\ lag <= MaxLag
        /\ (rec.file + 1) * FileSecs \in Nat /\ clock - lag < (rec.file + 1) * FileSecs
    BY WindowTyped DEF WindowInv, InSlot
  <2> QED  BY <2>1
<1>2. WindowInv /\ [Next]_vars => WindowInv'
  BY WindowStep
<1> QED  BY <1>1, <1>2, WindowInit, PTL DEF Spec

-----------------------------------------------------------------------------
(* An alarm keeps its file open, if a day has more than one file.          *)

(* Before the end of its slot a file is not seen to be over.  The last one *)
(* of a day ends at 0 o'clock, which all times of day have passed; that it *)
(* counts in the first unit of a day only is enough if the file began      *)
(* later than that.                                                        *)
LEMMA SlotGoesOn ==
  ASSUME NEW r, r.file \in Nat, clock \in Nat, FilesPerDay > 1,
         r.file * FileSecs <= clock, clock < (r.file + 1) * FileSecs
  PROVE  ~SlotEnded(r)
<1>1. PICK d \in Nat, k \in 0 .. FilesPerDay - 1 :
           /\ r.file % FilesPerDay = k
           /\ (r.file + 1) * FileSecs = DaySecs * d + (k + 1) * FileSecs
           /\ (k + 1) * FileSecs <= DaySecs
           /\ k + 1 < FilesPerDay => (k + 1) * FileSecs + FileSecs <= DaySecs
           /\ k + 1 = FilesPerDay => (k + 1) * FileSecs = DaySecs
  BY SlotOfDay
<1> DEFINE E == (k + 1) * FileSecs
           y == clock - DaySecs * d
<1>2. /\ DaySecs \in Nat \ {0} /\ FileSecs \in Nat \ {0} /\ FilesPerDay \in Nat \ {0}
      /\ UnitSecs \in Nat \ {0} /\ UnitSecs <= FileSecs
  BY LengthsPositive, LengthsAssumption, UnitInFile
<1>3. /\ k * FileSecs \in Nat /\ E = k * FileSecs + FileSecs /\ E \in Nat
      /\ DaySecs * d \in Nat /\ r.file * FileSecs \in Nat
      /\ (r.file + 1) * FileSecs = r.file * FileSecs + FileSecs
  BY <1>2, Product
<1>4. FileEnd(r) = E % DaySecs
  <2>1. NoFile \notin Nat
    BY DEF NoFile
  <2> QED  BY <1>1, <1>3, <2>1 DEF FileEnd, FileTime
<1>5. y \in 0 .. DaySecs - 1 /\ E - FileSecs <= y /\ y < E /\ clock = DaySecs * d + y
  <2> HIDE DEF E
  <2>1. (r.file + 1) * FileSecs = DaySecs * d + E /\ E <= DaySecs
    BY <1>1 DEF E
  <2> QED  BY <1>2, <1>3, <2>1
<1>6. Now = y
  <2> HIDE DEF E, y
  <2>1. DaySecs \in Nat \ {0} /\ d \in Int /\ y \in 0 .. DaySecs - 1
    BY <1>2, <1>5
  <2>2. (DaySecs * d + y) % DaySecs = y
    BY <2>1, DivisionUnique, Zenon
  <2> QED  BY <1>5, <2>2 DEF Now
<1>7. CASE k + 1 < FilesPerDay
  <2>1. E + FileSecs <= DaySecs
    BY <1>1, <1>7
  <2> HIDE DEF E, y
  <2>2. E \in 0 .. DaySecs - 1 /\ E = DaySecs * 0 + E
    BY <1>2, <1>3, <2>1
  <2>3. FileEnd(r) = E
    <3>1. (DaySecs * 0 + E) % DaySecs = E
      <4>1. DaySecs \in Nat \ {0} /\ 0 \in Int /\ E \in 0 .. DaySecs - 1
        BY <1>2, <2>2
      <4> QED  BY <4>1, DivisionUnique, Zenon
    <3> QED  BY <1>4, <2>2, <3>1
  <2> QED  BY <1>2, <1>3, <1>5, <1>6, <2>3 DEF SlotEnded, PastEnd
<1>8. CASE k + 1 = FilesPerDay
  <2>1. E = DaySecs
    BY <1>1, <1>8
  <2>2. FileSecs <= k * FileSecs
    <3>1. k - 1 \in Nat /\ k = (k - 1) + 1
      BY <1>2, <1>8
    <3>2. k * FileSecs = (k - 1) * FileSecs + FileSecs /\ (k - 1) * FileSecs \in Nat
      BY <1>2, <3>1, Product
    <3> QED  BY <1>2, <3>2
  <2>3. y >= UnitSecs
    <3> HIDE DEF E, y
    <3> QED  BY <1>2, <1>3, <1>5, <2>2
  <2> HIDE DEF E, y
  <2>4. FileEnd(r) = 0
    <3>1. DaySecs = DaySecs * 1 + 0 /\ 0 \in 0 .. DaySecs - 1
      BY <1>2
    <3> QED  BY <1>2, <1>4, <2>1, <3>1, DivisionUnique
  <2> QED  BY <1>2, <1>5, <1>6, <2>3, <2>4 DEF SlotEnded
<1> QED  BY <1>1, <1>2, <1>7, <1>8

(* The time of day of an alarm, and a window, reach as far as the clock    *)
(* has come since, over midnight too.                                      *)
LEMMA WindowOverMidnight ==
  ASSUME NEW D \in Nat \ {0}, NEW a \in Nat, NEW c \in Nat, NEW w \in Nat,
         a <= c, c - a <= w
  PROVE  (a % D) + w >= (c % D)
<1> DEFINE p == a \div D
           q == c \div D
           x == a % D
           y == c % D
<1>1. /\ p \in Int /\ x \in 0 .. D - 1 /\ a = D * p + x
      /\ q \in Int /\ y \in 0 .. D - 1 /\ c = D * q + y
  BY Division
<1> HIDE DEF p, q, x, y
<1>2. ASSUME NEW i \in Int, NEW j \in Int, i <= j
      PROVE  D * i <= D * j /\ D * i \in Int /\ D * j \in Int
  <2>1. D * j - D * i = D * (j - i) /\ D * (j - i) >= 0
    BY <1>2
  <2>2. D * i \in Int /\ D * j \in Int
    OBVIOUS
  <2> QED  BY <2>1, <2>2
<1>3. D * p \in Int /\ D * q \in Int
  BY <1>1, <1>2
<1>4. p <= q
  <2> SUFFICES ASSUME q + 1 <= p PROVE FALSE
    BY <1>1
  <2>1. D * (q + 1) <= D * p /\ D * (q + 1) = D * q + D
    BY <1>1, <1>2
  <2> QED  BY <1>1, <1>3, <2>1
<1>5. D * p <= D * q
  BY <1>1, <1>2, <1>4
<1> QED  BY <1>1, <1>3, <1>5 DEF x, y

(* As long as the process knows of an alarm that went off at most once, it *)
(* has its time.                                                           *)
AlarmKnown ==
  hist.offs < 2 =>
    /\ alarm.lo /\ alarm.last = hist.alarmAt % DaySecs /\ hist.alarmAt <= clock
    /\ hist.offs = 0 => alarm.cnt
BegunInSlot == rec.fd = "open" => rec.file * FileSecs <= clock
(* A pass that found the slot of its file over was right about it.         *)
SeenOver ==
  pass.loop = "over" /\ rec.fd = "open" => (rec.file + 1) * FileSecs <= clock
AlarmInv == ControlInv /\ BegunInSlot /\ AlarmKnown /\ SeenOver

LEMMA AlarmTyped ==
  ASSUME ControlInv
  PROVE  /\ clock \in Nat /\ rec \in Recs /\ alarm \in Alarms /\ hist \in Hists
         /\ rec.fd = "open" => rec.file \in Nat /\ rec.file * FileSecs \in Nat
<1>1. /\ clock \in Nat /\ rec \in Recs /\ alarm \in Alarms /\ hist \in Hists
      /\ rec.fd = "open" => rec.file \in Nat
  BY DEF ControlInv, TypeInv, TypeOK, FileNamed
<1>2. FileSecs \in Nat \ {0}
  BY LengthsPositive
<1> QED  BY <1>1, <1>2, Product

LEMMA BegunStep == AlarmInv /\ [Next]_vars => BegunInSlot'
<1> SUFFICES ASSUME AlarmInv, [Next]_vars PROVE BegunInSlot'
  OBVIOUS
<1>1. /\ clock \in Nat /\ rec \in Recs /\ BegunInSlot
      /\ rec.fd = "open" => rec.file * FileSecs \in Nat
  BY AlarmTyped DEF AlarmInv
<1>2. ASSUME rec'.fd = "open" => rec.fd = "open" /\ rec'.file = rec.file,
             clock' \in {clock, clock + 1}
      PROVE  BegunInSlot'
  BY <1>1, <1>2 DEF BegunInSlot
<1>3. CASE OpenFile
  <2> DEFINE q == clock \div FileSecs
  <2>1. FileSecs \in Nat \ {0} /\ q \in Nat
    BY <1>1, LengthsPositive, DivMod
  <2>2. clock % FileSecs \in 0 .. FileSecs - 1 /\ clock = FileSecs * q + (clock % FileSecs)
    BY <1>1, <2>1, Division
  <2>3. q * FileSecs = FileSecs * q /\ q * FileSecs \in Nat
    BY <2>1, Product
  <2> HIDE DEF q
  <2>4. q * FileSecs <= clock
    BY <1>1, <2>1, <2>2, <2>3
  <2>5. clock' = clock /\ rec'.file = q
    BY <1>3 DEF OpenFile, OpenedRec, envVars, Slot, q
  <2> QED  BY <2>4, <2>5 DEF BegunInSlot
<1>4. CASE SavePass
  <2>1. rec'.fd = rec.fd /\ rec'.file = rec.file /\ clock' = clock
    BY <1>4, PassType DEF SavePass, envVars, AlarmInv, ControlInv
  <2> QED  BY <1>2, <2>1
<1>5. CASE CheckPass \/ Flush \/ CloseFile \/ CutIdx \/ WriteIdx \/ WriteFails
           \/ SaveAborts \/ HandleStop
  <2>1. clock' = clock
    BY <1>5 DEF CheckPass, Flush, CloseFile, CutIdx, WriteIdx, WriteFails, SaveAborts,
       HandleStop, envVars
  <2> QED  BY <1>1, <1>2, <1>5, <2>1, StopKeepsFile
<1>6. CASE ExitEnds \/ Leave \/ Crash
  <2>1. rec'.fd = "none"
    BY <1>6 DEF ExitEnds, Leave, Crash, Dies, FreshRec
  <2> QED  BY <2>1 DEF BegunInSlot
<1>7. CASE CardRemoved
  <2>1. clock' = clock /\ rec'.fd # "open"
    BY <1>1, <1>7 DEF CardRemoved, Recs
  <2> QED  BY <1>2, <2>1
<1>8. CASE Tick
  BY <1>2, <1>8 DEF Tick
<1>9. CASE PollStart \/ StartSkipped \/ StartFails \/ PollSave \/ HandleAlarm
  BY <1>2, <1>9 DEF PollStart, StartSkipped, StartFails, PollSave, HandleAlarm,
     fileVars, envVars
<1>10. CASE Callback
  BY <1>2, <1>10 DEF Callback, RebootFlag, RebootNotify, RebootLeave, FormatNotify,
     FormatFlag, FormatDone, AlarmReport, callbackLeaves
<1>11. CASE ExitBegins \/ Boot \/ Sync \/ SetRecordType \/ SetRecordTimes
            \/ CardInserted \/ UNCHANGED vars
  BY <1>2, <1>11 DEF ExitBegins, Boot, Sync, SetRecordType, SetRecordTimes, CardInserted,
     vars
<1> QED  BY <1>3, <1>4, <1>5, <1>6, <1>7, <1>8, <1>9, <1>10, <1>11
         DEF Next, Task, Process, Env

LEMMA KnownStep == AlarmInv /\ [Next]_vars => AlarmKnown'
<1> SUFFICES ASSUME AlarmInv, [Next]_vars PROVE AlarmKnown'
  OBVIOUS
<1>1. clock \in Nat /\ alarm \in Alarms /\ hist \in Hists /\ AlarmKnown
  BY AlarmTyped DEF AlarmInv
<1>2. ASSUME alarm'.lo = alarm.lo, alarm'.last = alarm.last, alarm'.cnt = alarm.cnt,
             hist'.offs = hist.offs, hist'.alarmAt = hist.alarmAt,
             clock' \in {clock, clock + 1}
      PROVE  AlarmKnown'
  <2>1. hist.alarmAt \in Nat
    BY <1>1 DEF Hists
  <2> QED  BY <1>1, <1>2, <2>1 DEF AlarmKnown
<1>3. Upset(hist).offs = hist.offs /\ Upset(hist).alarmAt = hist.alarmAt
  BY <1>1 DEF Upset, Hists
<1>4. CASE HandleAlarm
  <2>1. PICK on \in BOOLEAN :
          /\ alarm' = AlarmAfter(on)
          /\ hist' = IF on THEN [hist EXCEPT !.alarmAt = clock, !.offs = 0]
                     ELSE [hist EXCEPT !.offs = IF hist.offs < 2 THEN hist.offs + 1
                                                ELSE hist.offs]
    BY <1>4 DEF HandleAlarm
  <2>2. clock' = clock
    BY <1>4 DEF HandleAlarm, envVars
  <2>3. CASE on
    <3>1. /\ alarm'.lo /\ alarm'.cnt /\ alarm'.last = clock % DaySecs
          /\ hist'.alarmAt = clock
      BY <1>1, <2>1, <2>3 DEF AlarmAfter, Now, Hists
    <3> QED  BY <1>1, <2>2, <3>1 DEF AlarmKnown
  <2>4. CASE ~on
    <3>1. hist'.offs = IF hist.offs < 2 THEN hist.offs + 1 ELSE hist.offs
      BY <1>1, <2>1, <2>4 DEF Hists
    <3>2. hist'.alarmAt = hist.alarmAt /\ hist.offs \in Nat
      BY <1>1, <2>1, <2>4 DEF Hists
    <3>3. ASSUME hist'.offs < 2 PROVE hist.offs = 0 /\ hist'.offs = 1
      BY <3>1, <3>2, <3>3
    <3>4. alarm.cnt => alarm'.lo /\ alarm'.last = alarm.last
      BY <1>1, <2>1, <2>4 DEF AlarmAfter, Alarms
    <3> QED  BY <1>1, <2>2, <3>2, <3>3, <3>4 DEF AlarmKnown
  <2> QED  BY <2>3, <2>4
<1>5. CASE OpenFile
  <2>1. alarm' = [alarm EXCEPT !.tag = clock % UnitSecs] /\ clock' = clock
    BY <1>5 DEF OpenFile, envVars
  <2>2. alarm'.lo = alarm.lo /\ alarm'.last = alarm.last /\ alarm'.cnt = alarm.cnt
    BY <1>1, <2>1 DEF Alarms
  <2>3. hist'.offs = hist.offs /\ hist'.alarmAt = hist.alarmAt
    BY <1>1, <1>5 DEF OpenFile, Hists
  <2> QED  BY <1>2, <2>1, <2>2, <2>3
<1>6. CASE ExitEnds \/ Leave \/ Crash
  <2>1. Torn \in Hists
    BY TornType DEF AlarmInv, ControlInv
  <2>2. Lost.offs = 2 /\ Upset(Lost).offs = 2
    BY <2>1 DEF Lost, Upset, Hists
  <2>3. hist'.offs = 2
    BY <1>6, <2>2 DEF ExitEnds, Leave, Crash
  <2> QED  BY <2>3 DEF AlarmKnown
<1>7. CASE CardRemoved
  <2>1. Torn.offs = hist.offs /\ Torn.alarmAt = hist.alarmAt /\ Torn \in Hists
    BY <1>1, TornType DEF Torn, Hists, AlarmInv, ControlInv
  <2>2. hist'.offs = hist.offs /\ hist'.alarmAt = hist.alarmAt
    BY <1>7, <2>1 DEF CardRemoved, Upset, Hists
  <2> QED  BY <1>2, <1>7, <2>2 DEF CardRemoved
<1>13. CASE WriteFails
  <2>1. hist'.offs = hist.offs /\ hist'.alarmAt = hist.alarmAt
    BY <1>1, <1>13 DEF WriteFails, Torn, Hists
  <2> QED  BY <1>2, <1>13, <2>1 DEF WriteFails, envVars
<1>8. CASE Tick
  <2>1. hist'.offs = hist.offs /\ hist'.alarmAt = hist.alarmAt
    BY <1>1, <1>8 DEF Tick, Hists
  <2> QED  BY <1>2, <1>8, <2>1 DEF Tick
<1>9. CASE PollStart \/ StartSkipped \/ StartFails \/ PollSave \/ SaveAborts
           \/ SavePass \/ CheckPass \/ Flush \/ CloseFile \/ CutIdx \/ WriteIdx
           \/ HandleStop
  BY <1>2, <1>9 DEF PollStart, StartSkipped, StartFails, PollSave, SaveAborts,
     SavePass, CheckPass, Flush, CloseFile, CutIdx, WriteIdx, HandleStop, envVars
<1>10. CASE Callback
  BY <1>2, <1>3, <1>10 DEF Callback, RebootFlag, RebootNotify, RebootLeave, FormatNotify,
     FormatFlag, FormatDone, AlarmReport, callbackLeaves
<1>11. CASE ExitBegins
  BY <1>2, <1>3, <1>11 DEF ExitBegins
<1>12. CASE Boot \/ Sync \/ SetRecordType \/ SetRecordTimes
            \/ CardInserted \/ UNCHANGED vars
  BY <1>2, <1>12 DEF Boot, Sync, SetRecordType, SetRecordTimes, CardInserted,
     vars
<1> QED  BY <1>4, <1>5, <1>6, <1>7, <1>8, <1>9, <1>10, <1>11, <1>12, <1>13
         DEF Next, Task, Process, Env

LEMMA SeenStep == FilesPerDay > 1 /\ AlarmInv /\ [Next]_vars => SeenOver'
<1> SUFFICES ASSUME FilesPerDay > 1, AlarmInv, [Next]_vars PROVE SeenOver'
  OBVIOUS
<1>1. /\ clock \in Nat /\ rec \in Recs /\ pass \in Passes /\ SeenOver /\ TypeInv
      /\ rec.fd = "open" => rec.file \in Nat /\ (rec.file + 1) * FileSecs \in Nat
  BY WindowTyped DEF AlarmInv, ControlInv, TypeInv, TypeOK
<1>2. ASSUME rec'.fd = "open" => rec.fd = "open" /\ rec'.file = rec.file,
             clock' \in {clock, clock + 1},
             pass'.loop = "over" => pass.loop = "over"
      PROVE  SeenOver'
  BY <1>1, <1>2 DEF SeenOver
<1>3. ASSUME NEW next, GoesOn(next) PROVE pass'.loop = "over" => pass.loop = "over"
  BY <1>1, <1>3 DEF GoesOn, NoPass, Passes
<1>4. ASSUME NEW next, Stops(next) PROVE pass'.loop # "over"
  BY <1>1, <1>4 DEF Stops, NoPass, Passes
<1>5. CASE SavePass
  <2>1. PICK got \in BOOLEAN :
          LET r == MarkUnit(AfterFrame(got))
          IN  rec' = r /\ pass'.loop = LoopAfter(r, got)
    BY <1>1, <1>5 DEF SavePass, Passes
  <2> DEFINE r == MarkUnit(AfterFrame(got))
  <2>2. r.fd = rec.fd /\ r.file = rec.file
    BY <1>1, PassType
  <2> HIDE DEF r
  <2>3. rec' = r /\ pass'.loop = LoopAfter(r, got) /\ clock' = clock
    BY <1>5, <2>1 DEF r, SavePass, envVars
  <2>4. SUFFICES ASSUME SlotEnded(r), rec.fd = "open"
                 PROVE  (rec.file + 1) * FileSecs <= clock
    BY <2>2, <2>3 DEF SeenOver, LoopAfter
  <2>5. r.file \in Nat /\ r.file * FileSecs <= clock
    BY <1>1, <2>2, <2>4 DEF AlarmInv, BegunInSlot
  <2>6. ~(clock < (r.file + 1) * FileSecs)
    BY <1>1, <2>4, <2>5, SlotGoesOn
  <2> QED  BY <1>1, <2>2, <2>4, <2>6
<1>6. CASE OpenFile
  BY <1>6 DEF OpenFile, NoPass, SeenOver
<1>7. CASE SaveAborts \/ HandleStop
  <2>1. Stops("idle")
    BY <1>7 DEF SaveAborts, HandleStop
  <2> QED  BY <1>4, <2>1 DEF SeenOver
<1>8. CASE CheckPass
  <2>1. pass'.loop = "over" => pass.loop = "over"
    BY <1>3, <1>4, <1>8 DEF CheckPass
  <2>2. clock' = clock
    BY <1>8 DEF CheckPass, envVars
  <2> QED  BY <1>1, <1>2, <1>8, <2>1, <2>2, StopKeepsFile
<1>9. CASE Flush \/ CloseFile \/ CutIdx \/ WriteIdx \/ WriteFails
  <2>1. Returns => (pass'.loop = "over" => pass.loop = "over")
    BY <1>3 DEF Returns
  <2>2. pass'.loop = "over" => pass.loop = "over"
    BY <1>3, <1>9, <2>1 DEF Flush, CloseFile, CutIdx, WriteIdx, WriteFails
  <2>3. clock' = clock
    BY <1>9 DEF Flush, CloseFile, CutIdx, WriteIdx, WriteFails, envVars
  <2> QED  BY <1>1, <1>2, <1>9, <2>2, <2>3, StopKeepsFile
<1>10. CASE ExitEnds \/ Leave \/ Crash
  BY <1>10 DEF ExitEnds, Leave, Crash, Dies, NoPass, SeenOver
<1>11. CASE CardRemoved
  <2>1. clock' = clock /\ rec'.fd # "open"
    BY <1>1, <1>11 DEF CardRemoved, Recs
  <2> QED  BY <2>1 DEF SeenOver
<1>12. CASE Tick
  BY <1>2, <1>12 DEF Tick
<1>13. CASE PollStart \/ StartSkipped \/ StartFails \/ PollSave \/ HandleAlarm
  BY <1>2, <1>13 DEF PollStart, StartSkipped, StartFails, PollSave, HandleAlarm,
     fileVars, envVars, NoPass
<1>14. CASE Callback
  BY <1>2, <1>14 DEF Callback, RebootFlag, RebootNotify, RebootLeave, FormatNotify,
     FormatFlag, FormatDone, AlarmReport, callbackLeaves
<1>15. CASE ExitBegins \/ Boot \/ Sync \/ SetRecordType \/ SetRecordTimes
            \/ CardInserted \/ UNCHANGED vars
  BY <1>2, <1>15 DEF ExitBegins, Boot, Sync, SetRecordType, SetRecordTimes,
     CardInserted, vars
<1> QED  BY <1>5, <1>6, <1>7, <1>8, <1>9, <1>10, <1>11, <1>12, <1>13, <1>14, <1>15
         DEF Next, Task, Process, Env

(* One report that motion has ended does not close a file early, whenever  *)
(* it comes and whatever else happens: while the schedule lasts, and until *)
(* the last report of motion is too old or a second one of its end has     *)
(* come, check_and_stop_record lets the file run to the end of its slot.   *)
THEOREM AlarmHoldsFile ==
  ASSUME FilesPerDay > 1
  PROVE  Spec => AlarmKeepsFile
<1>1. Init => AlarmInv
  <2> SUFFICES ASSUME Init PROVE BegunInSlot /\ AlarmKnown /\ SeenOver
    BY ControlInit DEF AlarmInv
  <2> QED  BY DEF Init, BegunInSlot, AlarmKnown, SeenOver, FreshRec
<1>2. AlarmInv /\ [Next]_vars => AlarmInv'
  BY ControlStep, BegunStep, KnownStep, SeenStep DEF AlarmInv
<1>3. AlarmInv /\ [Next]_vars =>
        [CheckPass /\ rec.fd = "open" /\ pc' = "stopping"
         /\ type = ALARM /\ InSchedule /\ clock < (rec.file + 1) * FileSecs
           => clock - hist.alarmAt > StopWindow \/ hist.offs > 1]_vars
  <2> SUFFICES ASSUME AlarmInv, CheckPass, rec.fd = "open", pc' = "stopping",
                      type = ALARM, InSchedule, clock < (rec.file + 1) * FileSecs,
                      ~(clock - hist.alarmAt > StopWindow), ~(hist.offs > 1)
               PROVE  FALSE
    OBVIOUS
  <2>1. clock \in Nat /\ rec.file \in Nat /\ hist \in Hists /\ StopWindow \in Nat
        /\ hist.alarmAt \in Nat /\ hist.offs \in Nat
        /\ (rec.file + 1) * FileSecs \in Nat /\ pass \in Passes
    BY AlarmTyped, WindowTyped, BoundsAssumption
    DEF AlarmInv, Hists, ControlInv, TypeInv, TypeOK
  <2>2. pass.loop # "over"
    BY <2>1 DEF AlarmInv, SeenOver
  <2>3. Alarmed /\ alarm.last + StopWindow >= Now
    <3>1. /\ alarm.lo /\ alarm.last = hist.alarmAt % DaySecs /\ hist.alarmAt <= clock
      BY <2>1 DEF AlarmInv, AlarmKnown
    <3>2. clock - hist.alarmAt <= StopWindow
      BY <2>1
    <3>3. (hist.alarmAt % DaySecs) + StopWindow >= (clock % DaySecs)
      BY <2>1, <3>1, <3>2, LengthsPositive, WindowOverMidnight
    <3> QED  BY <3>1, <3>3 DEF Alarmed, Now
  <2>4. KeepsRecording
    BY <2>3 DEF KeepsRecording
  <2>5. PICK next \in {"saving", "idle"} : GoesOn(next)
    BY <2>2, <2>4 DEF CheckPass
  <2>6. pc' = next
    BY <2>5 DEF GoesOn
  <2> QED  BY <2>5, <2>6
<1> QED  BY <1>1, <1>2, <1>3, PTL DEF Spec, AlarmKeepsFile
=============================================================================
