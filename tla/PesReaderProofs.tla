-------------------------- MODULE PesReaderProofs ---------------------------
(***************************************************************************)
(* Proofs about PesReader, for every length of a buffer, a header and a    *)
(* body and any number of frames and of ends of the process: what writing  *)
(* and reading a time stamp does to it, what a tear costs a playback, and  *)
(* where a jump arrives.                                                   *)
(***************************************************************************)
EXTENDS PesReader, SequenceTheorems, FiniteSetTheorems, WellFoundedInduction, TLAPS

-----------------------------------------------------------------------------
(* Times.                                                                  *)

LEMMA TicksBound ==
  ASSUME NEW ms \in Nat
  PROVE  /\ DtsOf(ms) \in Nat
         /\ 100 * DtsOf(ms) <= 9 * ms /\ 9 * ms < 100 * DtsOf(ms) + 100
BY DEF DtsOf

LEMMA MillisBound ==
  ASSUME NEW dts \in Nat
  PROVE  /\ MsOf(dts) \in Nat
         /\ 9 * MsOf(dts) <= 100 * dts /\ 100 * dts < 9 * MsOf(dts) + 9
BY DEF MsOf

(* recorder_build_pes_hdr and read_pes2es_packet_frame: what is read is    *)
(* never later than what was written and less than twelve milliseconds     *)
(* earlier.                                                                *)
THEOREM TimeIsKept ==
  ASSUME NEW ms \in Nat
  PROVE  MsOf(DtsOf(ms)) \in Nat /\ MsOf(DtsOf(ms)) <= ms /\ ms < MsOf(DtsOf(ms)) + 12
<1> DEFINE d == DtsOf(ms)
           r == MsOf(d)
<1>1. d \in Nat /\ 100 * d <= 9 * ms /\ 9 * ms < 100 * d + 100
  BY TicksBound
<1>2. r \in Nat /\ 9 * r <= 100 * d /\ 100 * d < 9 * r + 9
  BY <1>1, MillisBound
<1> HIDE DEF d, r
<1>3. r <= ms /\ ms < r + 12
  BY <1>1, <1>2
<1> QED
  BY <1>2, <1>3 DEF d, r

(* Frames are read in the order of their times, which record_seek relies   *)
(* on when it stops at the first frame that is late enough.                *)
THEOREM OrderIsKept ==
  ASSUME NEW m \in Nat, NEW n \in Nat, m <= n
  PROVE  MsOf(DtsOf(m)) <= MsOf(DtsOf(n))
<1>1. DtsOf(m) \in Nat /\ DtsOf(n) \in Nat /\ DtsOf(m) <= DtsOf(n)
  <2>1. /\ DtsOf(m) \in Nat /\ 100 * DtsOf(m) <= 9 * m
        /\ DtsOf(n) \in Nat /\ 9 * n < 100 * DtsOf(n) + 100
    BY TicksBound
  <2> QED
    BY <2>1
<1>2. /\ MsOf(DtsOf(m)) \in Nat /\ 9 * MsOf(DtsOf(m)) <= 100 * DtsOf(m)
      /\ MsOf(DtsOf(n)) \in Nat /\ 100 * DtsOf(n) < 9 * MsOf(DtsOf(n)) + 9
  BY <1>1, MillisBound
<1> QED
  BY <1>1, <1>2

-----------------------------------------------------------------------------
(* A set of numbers has a least one: the numbers up to it are a smallest   *)
(* set among the finite ones.                                              *)
LEMMA LeastNumber ==
  ASSUME NEW S \in SUBSET Nat, S # {}
  PROVE  \E m \in S : \A n \in S : m <= n
<1> DEFINE R == StrictSubsetOrdering(Nat)
           F == FiniteSubsetsOf(Nat)
           T == {0 .. n : n \in S}
<1>1. ASSUME NEW n \in Nat PROVE 0 .. n \in F
  BY FS_Interval DEF FiniteSubsetsOf
<1>2. T \subseteq F /\ T # {}
  BY <1>1
<1>3. IsWellFoundedOn(R, F)
  BY FS_StrictSubsetOrderingWellFounded
<1>4. \E x \in T : \A y \in T : ~ (<<y, x>> \in R)
  <2> HIDE DEF T, R, F
  <2> QED BY <1>2, <1>3, WFMin
<1>5. ASSUME NEW m \in Nat, NEW n \in Nat, n < m
      PROVE  <<0 .. n, 0 .. m>> \in R
  BY <1>5 DEF StrictSubsetOrdering
<1>6. PICK m \in S : \A n \in S : ~(<<0 .. n, 0 .. m>> \in R)
  BY <1>4
<1> HIDE DEF R
<1>7. \A n \in S : ~(n < m)
  BY <1>5, <1>6
<1> QED
  BY <1>6, <1>7

(* What holds at a place if it holds at all places further on holds        *)
(* everywhere.                                                             *)
LEMMA FromTheEnd ==
  ASSUME NEW n \in Nat, NEW S \in SUBSET (0 .. n),
         \A q \in 0 .. n : (\A x \in q + 1 .. n : x \in S) => q \in S
  PROVE  S = 0 .. n
<1> DEFINE T == {m \in Nat : m <= n /\ n - m \notin S}
<1>1. ASSUME T # {} PROVE FALSE
  <2>1. PICK m \in T : \A k \in T : m <= k
    <3>1. T \in SUBSET Nat
      OBVIOUS
    <3> HIDE DEF T
    <3>2. QED
      BY <1>1, <3>1, LeastNumber
  <2>2. m \in Nat /\ m <= n /\ n - m \notin S /\ n - m \in 0 .. n
    OBVIOUS
  <2>3. ASSUME NEW x \in (n - m) + 1 .. n PROVE x \in S
    <3>1. n - x \in Nat /\ n - x <= n /\ n - x < m /\ n - (n - x) = x
      BY <2>2
    <3>2. n - x \notin T
      <4> HIDE DEF T
      <4>1. QED
        BY <2>1, <2>2, <3>1
    <3>3. QED
      BY <3>1, <3>2
  <2>4. QED
    BY <2>2, <2>3
<1>2. ASSUME NEW q \in 0 .. n PROVE q \in S
  <2>1. n - q \in Nat /\ n - q <= n /\ n - (n - q) = q
    OBVIOUS
  <2>2. n - q \notin T
    BY <1>1
  <2>3. QED
    BY <2>1, <2>2
<1>3. QED
  BY <1>2

-----------------------------------------------------------------------------
(* What is written.                                                        *)

CellType == [frame : Nat, part : Nat]

(* The cells of the frames stand in order: each belongs to a frame that    *)
(* begins as many cells before it as its part says, and what follows it is *)
(* the next part or a later frame.                                         *)
Belongs(s, ks) ==
  \A i \in 1 .. Len(s) :
    /\ s[i].frame \in 1 .. Len(ks) /\ s[i].part < Size(ks[s[i].frame])
    /\ s[i].part < i /\ s[i - s[i].part].frame = s[i].frame
InOrder(s) ==
  \A i, j \in 1 .. Len(s) :
    i < j => /\ s[i].frame <= s[j].frame
             /\ s[i].frame = s[j].frame => s[j].part = s[i].part + (j - i)

FileInv ==
  /\ kinds \in Seq(Kinds) /\ Len(kinds) \in 0 .. Len(Times)
  /\ disk \in Seq(CellType) /\ buf \in Seq(CellType)
  /\ Belongs(disk \o buf, kinds) /\ InOrder(disk \o buf)

LEMMA CellsAssociate ==
  ASSUME NEW a \in Seq(CellType), NEW b \in Seq(CellType), NEW c \in Seq(CellType)
  PROVE  (a \o b) \o c = a \o (b \o c)
BY ConcatAssociative

LEMMA SizeBounds ==
  ASSUME NEW k \in Kinds
  PROVE  /\ LenOf[k] \in 1 .. MaxLen /\ Size(k) \in Nat
         /\ HeadLen < Size(k) /\ Size(k) <= HeadLen + MaxLen
<1>1. LenOf[k] \in 1 .. MaxLen /\ HeadLen \in Nat /\ MaxLen \in Nat
  BY LengthsAssumption
<1>2. QED
  BY <1>1 DEF Size

LEMMA CellsOfFrame ==
  ASSUME NEW n \in Nat, NEW k \in Kinds
  PROVE  /\ CellsOf(n, k) \in Seq(CellType) /\ Len(CellsOf(n, k)) = Size(k)
         /\ \A i \in 1 .. Size(k) : CellsOf(n, k)[i] = [frame |-> n, part |-> i - 1]
<1>1. Size(k) \in Nat
  BY SizeBounds
<1>2. \A i \in 1 .. Size(k) : [frame |-> n, part |-> i - 1] \in CellType
  BY <1>1 DEF CellType
<1>3. QED
  BY <1>1, <1>2 DEF CellsOf

(* A part of what is written, from its beginning, is written as well.      *)
LEMMA WrittenPart ==
  ASSUME NEW s \in Seq(CellType), NEW t \in Seq(CellType), NEW ks \in Seq(Kinds),
         Belongs(s \o t, ks), InOrder(s \o t)
  PROVE  Belongs(s, ks) /\ InOrder(s)
<1> DEFINE all == s \o t
<1>1. Len(s) \in Nat /\ Len(t) \in Nat /\ Len(all) = Len(s) + Len(t)
      /\ \A i \in 1 .. Len(s) : all[i] = s[i]
  BY ConcatProperties
<1>2. \A i \in 1 .. Len(s) : s[i] \in CellType /\ i \in 1 .. Len(all)
  BY <1>1
<1>3. \A i \in 1 .. Len(s) : s[i].part \in Nat
  BY <1>2 DEF CellType
<1> HIDE DEF all
<1>4. Belongs(all, ks) /\ InOrder(all)
  BY DEF all
<1>5. Belongs(s, ks)
  <2>1. ASSUME NEW i \in 1 .. Len(s)
        PROVE  /\ s[i].frame \in 1 .. Len(ks) /\ s[i].part < Size(ks[s[i].frame])
               /\ s[i].part < i /\ s[i - s[i].part].frame = s[i].frame
    <3>1. /\ s[i].frame \in 1 .. Len(ks) /\ s[i].part < Size(ks[s[i].frame])
          /\ s[i].part < i /\ all[i - s[i].part].frame = s[i].frame
      BY <1>1, <1>2, <1>4 DEF Belongs
    <3>2. i - s[i].part \in 1 .. Len(s)
      BY <1>1, <1>3, <3>1
    <3>3. QED
      BY <1>1, <3>1, <3>2
  <2>2. QED
    BY <2>1 DEF Belongs
<1>6. InOrder(s)
  BY <1>1, <1>2, <1>4 DEF InOrder
<1>7. QED
  BY <1>5, <1>6

(* So is what is written with the next frame behind it.                    *)
LEMMA WrittenNext ==
  ASSUME NEW s \in Seq(CellType), NEW ks \in Seq(Kinds), NEW k \in Kinds,
         Belongs(s, ks), InOrder(s)
  PROVE  LET next == s \o CellsOf(Len(ks) + 1, k)
         IN  Belongs(next, Append(ks, k)) /\ InOrder(next)
<1> DEFINE n == Len(ks) + 1
           c == CellsOf(n, k)
           N == Len(s)
           Z == Size(k)
           next == s \o c
           ks2 == Append(ks, k)
<1>1. n \in Nat /\ N \in Nat /\ Z \in Nat /\ Len(ks) \in Nat
  BY SizeBounds
<1>2. /\ c \in Seq(CellType) /\ Len(c) = Z
      /\ \A i \in 1 .. Z : c[i] = [frame |-> n, part |-> i - 1]
  BY <1>1, CellsOfFrame
<1> HIDE DEF c, Z
<1>3. /\ Len(next) = N + Z
      /\ \A i \in 1 .. N : next[i] = s[i]
      /\ \A i \in 1 .. N + Z : i \notin 1 .. N => next[i] = c[i - N]
  <2>1. /\ Len(next) = Len(s) + Len(c)
        /\ \A i \in 1 .. Len(s) + Len(c) :
             next[i] = IF i <= Len(s) THEN s[i] ELSE c[i - Len(s)]
    BY <1>2, ConcatProperties
  <2> HIDE DEF next
  <2>2. QED
    BY <1>1, <1>2, <2>1
<1>4. \A i \in 1 .. N + Z : i \notin 1 .. N =>
        next[i].frame = n /\ next[i].part = i - N - 1
  <2>1. ASSUME NEW i \in 1 .. N + Z, i \notin 1 .. N
        PROVE  next[i].frame = n /\ next[i].part = i - N - 1
    <3>1. i - N \in 1 .. Z /\ next[i] = c[i - N]
      BY <1>1, <1>3, <2>1
    <3>2. c[i - N] = [frame |-> n, part |-> (i - N) - 1]
      BY <1>2, <3>1
    <3>3. QED
      BY <3>1, <3>2
  <2>2. QED
    BY <2>1
<1>5. \A i \in 1 .. N : s[i].part \in Nat
  <2>1. \A i \in 1 .. N : s[i] \in CellType
    BY <1>1
  <2>2. QED
    BY <2>1 DEF CellType
<1>6. /\ Len(ks2) = n /\ ks2[n] = k
      /\ \A i \in 1 .. Len(ks) : ks2[i] = ks[i]
  BY <1>1
<1> HIDE DEF next, ks2, N, Z
<1>7. Belongs(next, ks2)
  <2>1. ASSUME NEW i \in 1 .. N + Z
        PROVE  /\ next[i].frame \in 1 .. Len(ks2) /\ next[i].part < Size(ks2[next[i].frame])
               /\ next[i].part < i /\ next[i - next[i].part].frame = next[i].frame
    <3>1. CASE i \in 1 .. N
      <4>1. /\ s[i].frame \in 1 .. Len(ks) /\ s[i].part < Size(ks[s[i].frame])
            /\ s[i].part < i /\ s[i - s[i].part].frame = s[i].frame
        BY <3>1 DEF Belongs, N
      <4>2. i - s[i].part \in 1 .. N
        BY <1>1, <1>5, <3>1, <4>1
      <4>3. s[i].frame \in 1 .. n /\ ks2[s[i].frame] = ks[s[i].frame]
        BY <1>1, <1>6, <4>1
      <4>4. QED
        BY <1>3, <1>6, <3>1, <4>1, <4>2, <4>3
    <3>2. CASE i \notin 1 .. N
      <4>1. next[i].frame = n /\ next[i].part = i - N - 1
        BY <1>4, <3>2
      <4>2. i - next[i].part = N + 1 /\ N + 1 \in 1 .. N + Z /\ N + 1 \notin 1 .. N
        BY <1>1, <3>2, <4>1
      <4>3. next[N + 1].frame = n
        BY <1>4, <4>2
      <4>4. next[i].part < Size(k) /\ next[i].part < i
        BY <1>1, <3>2, <4>1 DEF Z
      <4>5. QED
        BY <1>1, <1>6, <4>1, <4>2, <4>3, <4>4
    <3>3. QED
      BY <3>1, <3>2
  <2>2. QED
    BY <1>3, <2>1 DEF Belongs
<1>8. InOrder(next)
  <2>1. ASSUME NEW i \in 1 .. N + Z, NEW j \in 1 .. N + Z, i < j
        PROVE  /\ next[i].frame <= next[j].frame
               /\ next[i].frame = next[j].frame => next[j].part = next[i].part + (j - i)
    <3>1. CASE j \in 1 .. N
      <4>1. i \in 1 .. N
        BY <1>1, <2>1, <3>1
      <4>2. QED
        BY <1>3, <2>1, <3>1, <4>1 DEF InOrder, N
    <3>2. CASE j \notin 1 .. N
      <4>1. next[j].frame = n /\ next[j].part = j - N - 1
        BY <1>4, <3>2
      <4>2. CASE i \in 1 .. N
        <5>1. next[i].frame \in 1 .. Len(ks)
          BY <1>3, <4>2 DEF Belongs, N
        <5>2. QED
          BY <1>1, <4>1, <5>1
      <4>3. CASE i \notin 1 .. N
        <5>1. next[i].frame = n /\ next[i].part = i - N - 1
          BY <1>4, <4>3
        <5>2. QED
          BY <1>1, <4>1, <5>1
      <4>4. QED
        BY <4>2, <4>3
    <3>3. QED
      BY <3>1, <3>2
  <2>2. QED
    BY <1>3, <2>1 DEF InOrder
<1>9. QED
  BY <1>7, <1>8 DEF next, ks2, c

(* What is in the file and what is still to be written to it.              *)
All == disk \o buf

(* The recorder only adds to what is written, and a frame it adds is a     *)
(* later one.                                                              *)
Grown ==
  /\ Len(kinds) <= Len(kinds') /\ \A i \in 1 .. Len(kinds) : kinds'[i] = kinds[i]
  /\ Len(disk) <= Len(disk') /\ \A i \in 1 .. Len(disk) : disk'[i] = disk[i]
  /\ Len(All) <= Len(All') /\ \A i \in 1 .. Len(All) : All'[i] = All[i]
  /\ \A i \in 1 .. Len(All') : i \notin 1 .. Len(All) => All'[i].frame > Len(kinds)

LEMMA FileTypes ==
  ASSUME FileInv
  PROVE  /\ kinds \in Seq(Kinds) /\ disk \in Seq(CellType) /\ buf \in Seq(CellType)
         /\ Len(kinds) \in Nat /\ Len(disk) \in Nat /\ Len(buf) \in Nat
         /\ All \in Seq(CellType) /\ Len(All) = Len(disk) + Len(buf)
         /\ \A i \in 1 .. Len(disk) : All[i] = disk[i]
         /\ Belongs(All, kinds) /\ InOrder(All)
<1>1. kinds \in Seq(Kinds) /\ disk \in Seq(CellType) /\ buf \in Seq(CellType)
  BY DEF FileInv
<1>2. Len(kinds) \in Nat /\ Len(disk) \in Nat /\ Len(buf) \in Nat
  BY <1>1
<1>3. /\ disk \o buf \in Seq(CellType)
      /\ Len(disk \o buf) = Len(disk) + Len(buf)
      /\ \A i \in 1 .. Len(disk) : (disk \o buf)[i] = disk[i]
  BY <1>1, ConcatProperties
<1>4. QED
  BY <1>1, <1>2, <1>3 DEF FileInv, All

(* The buffer moves to the file.                                           *)
LEMMA MoveBuf ==
  ASSUME FileInv, NEW d \in Seq(CellType), NEW b \in Seq(CellType),
         disk' = disk \o d, buf' = b, d \o b = buf, kinds' = kinds
  PROVE  FileInv' /\ Grown
<1>1. /\ disk \in Seq(CellType) /\ Len(disk) \in Nat /\ Len(d) \in Nat /\ Len(All) \in Nat
      /\ Belongs(All, kinds) /\ InOrder(All) /\ All = disk \o buf
      /\ kinds \in Seq(Kinds) /\ Len(kinds) \in 0 .. Len(Times)
  BY FileTypes DEF FileInv, All
<1>2. /\ disk \o d \in Seq(CellType) /\ Len(disk \o d) = Len(disk) + Len(d)
      /\ \A i \in 1 .. Len(disk) : (disk \o d)[i] = disk[i]
  BY <1>1, ConcatProperties
<1>3. (disk \o d) \o b = All
  <2>1. (disk \o d) \o b = disk \o (d \o b)
    BY <1>1, CellsAssociate
  <2>2. QED
    BY <1>1, <2>1
<1>4. All' = All
  BY <1>3 DEF All
<1>5. FileInv'
  BY <1>1, <1>2, <1>3 DEF FileInv
<1>6. Grown
  BY <1>1, <1>2, <1>4 DEF Grown
<1>7. QED
  BY <1>5, <1>6

LEMMA RecorderWrites ==
  ASSUME FileInv, NEW k \in Kinds, WriteFrame(k) \/ WriteBuf \/ StopRecord
  PROVE  FileInv' /\ Grown
<1>1. /\ kinds \in Seq(Kinds) /\ disk \in Seq(CellType) /\ buf \in Seq(CellType)
      /\ Len(kinds) \in Nat /\ Len(disk) \in Nat /\ Len(buf) \in Nat
      /\ All \in Seq(CellType) /\ Len(All) = Len(disk) + Len(buf)
      /\ Belongs(All, kinds) /\ InOrder(All)
  BY FileTypes, Zenon
<1>0. Len(Times) \in Nat
  BY TimesAssumption
<1>2. CASE WriteFrame(k)
  <2> DEFINE n == Len(kinds) + 1
             c == CellsOf(n, k)
  <2>1. /\ Len(kinds) < Len(Times) /\ kinds' = Append(kinds, k) /\ buf' = buf \o c
        /\ disk' = disk
    BY <1>2 DEF WriteFrame
  <2>2. /\ c \in Seq(CellType) /\ Len(c) = Size(k) /\ Size(k) \in Nat
        /\ \A i \in 1 .. Size(k) : c[i].frame = n
    <3>1. n \in Nat
      BY <1>1
    <3> HIDE DEF n
    <3>2. /\ c \in Seq(CellType) /\ Len(c) = Size(k) /\ Size(k) \in Nat
          /\ \A i \in 1 .. Size(k) : c[i] = [frame |-> n, part |-> i - 1]
      BY <3>1, CellsOfFrame, SizeBounds, Zenon
    <3> HIDE DEF c
    <3>3. QED
      BY <3>2
  <2>3. Belongs(All \o c, Append(kinds, k)) /\ InOrder(All \o c)
    BY <1>1, WrittenNext
  <2> HIDE DEF c
  <2>4. All' = All \o c
    <3>1. (disk \o buf) \o c = disk \o (buf \o c)
      BY <1>1, <2>2, CellsAssociate
    <3>2. QED
      BY <2>1, <3>1, Zenon DEF All
  <2>5. buf \o c \in Seq(CellType)
    BY <1>1, <2>2
  <2>6. /\ kinds' \in Seq(Kinds) /\ Len(kinds') = Len(kinds) + 1
        /\ \A i \in 1 .. Len(kinds) : kinds'[i] = kinds[i]
    BY <1>1, <2>1
  <2>7. FileInv'
    BY <1>0, <1>1, <2>1, <2>3, <2>4, <2>5, <2>6 DEF FileInv, All
  <2>8. /\ Len(All \o c) = Len(All) + Len(c)
        /\ \A i \in 1 .. Len(All) + Len(c) :
             (All \o c)[i] = IF i <= Len(All) THEN All[i] ELSE c[i - Len(All)]
    BY <1>1, <2>2, ConcatProperties
  <2>9. Len(All) \in Nat
    BY <1>1
  <2>10. /\ Len(All) <= Len(All') /\ \A i \in 1 .. Len(All) : All'[i] = All[i]
         /\ \A i \in 1 .. Len(All') : i \notin 1 .. Len(All) =>
              i - Len(All) \in 1 .. Len(c) /\ All'[i] = c[i - Len(All)]
    BY <2>2, <2>4, <2>8, <2>9
  <2>11. \A i \in 1 .. Len(All') : i \notin 1 .. Len(All) => All'[i].frame > Len(kinds)
    BY <1>1, <2>2, <2>10
  <2>12. Grown
    BY <1>1, <2>1, <2>6, <2>10, <2>11 DEF Grown
  <2>13. QED
    BY <2>7, <2>12
<1>3. CASE WriteBuf
  <2> DEFINE d == SubSeq(buf, 1, BufLen)
             b == SubSeq(buf, BufLen + 1, Len(buf))
  <2>1. /\ BufLen \in Nat \ {0} /\ BufLen <= Len(buf)
        /\ disk' = disk \o d /\ buf' = b /\ kinds' = kinds
    BY <1>3, LengthsAssumption DEF WriteBuf
  <2>2. \A i \in 1 .. Len(buf) : buf[i] \in CellType
    BY <1>1
  <2>3. d \in Seq(CellType) /\ b \in Seq(CellType)
    BY <1>1, <2>1, <2>2, SubSeqProperties
  <2>4. d \o b = SubSeq(buf, 1, Len(buf))
    <3>1. /\ 1 \in 1 .. Len(buf) + 1 /\ BufLen \in 1 - 1 .. Len(buf)
          /\ Len(buf) \in BufLen .. Len(buf)
      BY <1>1, <2>1
    <3>2. QED
      BY <1>1, <3>1, ConcatAdjacentSubSeq
  <2>5. d \o b = buf
    BY <1>1, <2>4, SubSeqFull
  <2> HIDE DEF d, b
  <2>6. QED
    BY <2>1, <2>3, <2>5, MoveBuf
<1>4. CASE StopRecord
  <2>1. disk' = disk \o buf /\ buf' = <<>> /\ kinds' = kinds
    BY <1>4 DEF StopRecord
  <2>2. <<>> \in Seq(CellType) /\ buf \o <<>> = buf
    BY <1>1, ConcatEmptySeq
  <2>3. QED
    BY <1>1, <2>1, <2>2, MoveBuf
<1>5. QED
  BY <1>2, <1>3, <1>4

(* What the process leaves when it ends is the file.                       *)
LEMMA ProcessLeaves ==
  ASSUME FileInv, ProcessEnds
  PROVE  FileInv'
<1>1. /\ kinds' = kinds /\ disk' = disk /\ buf' = <<>>
      /\ kinds \in Seq(Kinds) /\ disk \in Seq(CellType) /\ buf \in Seq(CellType)
      /\ Len(kinds) \in 0 .. Len(Times)
  BY DEF ProcessEnds, FileInv
<1>2. Belongs(disk, kinds) /\ InOrder(disk)
  BY <1>1, WrittenPart DEF FileInv
<1>3. <<>> \in Seq(CellType) /\ disk \o <<>> = disk
  BY <1>1, ConcatEmptySeq
<1>4. QED
  BY <1>1, <1>2, <1>3 DEF FileInv

-----------------------------------------------------------------------------
(* Positions in the file.                                                  *)

LEMMA CellFacts ==
  ASSUME FileInv, NEW p \in 0 .. Len(disk) - 1
  PROVE  /\ p \in Nat /\ p + 1 \in 1 .. Len(disk) /\ p + 1 \in 1 .. Len(All)
         /\ Cell(p) = All[p + 1] /\ Cell(p) \in CellType
         /\ Cell(p).frame \in 1 .. Len(kinds) /\ Cell(p).frame \in Nat /\ Cell(p).part \in Nat
         /\ Cell(p).part < Size(KindAt(p)) /\ Cell(p).part <= p
         /\ Cell(p - Cell(p).part).frame = Cell(p).frame
<1>1. /\ disk \in Seq(CellType) /\ Len(disk) \in Nat /\ Len(buf) \in Nat
      /\ Len(All) = Len(disk) + Len(buf)
      /\ \A i \in 1 .. Len(disk) : All[i] = disk[i]
      /\ Belongs(All, kinds)
  BY FileTypes
<1>2. p \in Nat /\ p + 1 \in 1 .. Len(disk) /\ p + 1 \in 1 .. Len(All)
  BY <1>1
<1>3. Cell(p) = All[p + 1] /\ Cell(p) \in CellType
  BY <1>1, <1>2 DEF Cell
<1>4. /\ Cell(p).frame \in 1 .. Len(kinds) /\ Cell(p).part < Size(kinds[Cell(p).frame])
      /\ Cell(p).part < p + 1 /\ All[(p + 1) - Cell(p).part].frame = Cell(p).frame
  BY <1>1, <1>2, <1>3 DEF Belongs
<1>5. Cell(p).frame \in Nat /\ Cell(p).part \in Nat
  BY <1>3 DEF CellType
<1> DEFINE k == Cell(p).part
<1>6. k \in Nat /\ k < p + 1
  BY <1>4, <1>5
<1>7. k <= p /\ (p + 1) - k \in 1 .. Len(disk) /\ (p - k) + 1 = (p + 1) - k
  BY <1>1, <1>2, <1>6
<1>8. Cell(p - k) = All[(p + 1) - k]
  BY <1>1, <1>7 DEF Cell
<1>9. QED
  BY <1>2, <1>3, <1>4, <1>5, <1>7, <1>8 DEF KindAt

(* The kind of the frame of a cell and its length.                         *)
LEMMA KindFacts ==
  ASSUME FileInv, NEW p \in 0 .. Len(disk) - 1
  PROVE  /\ KindAt(p) \in Kinds /\ LenAt(p) \in 1 .. MaxLen /\ LenAt(p) \in Nat
         /\ Size(KindAt(p)) = HeadLen + LenAt(p) /\ Size(KindAt(p)) \in Nat
         /\ HeadLen < Size(KindAt(p)) /\ Size(KindAt(p)) <= HeadLen + MaxLen
         /\ HeadLen \in Nat /\ 1 < HeadLen /\ MaxLen \in Nat
<1>1. Cell(p).frame \in 1 .. Len(kinds)
  BY CellFacts
<1>2. kinds \in Seq(Kinds)
  BY FileTypes
<1>3. KindAt(p) \in Kinds
  BY <1>1, <1>2 DEF KindAt
<1>4. LenAt(p) \in 1 .. MaxLen
  BY <1>3, SizeBounds DEF LenAt
<1>5. QED
  BY <1>3, <1>4, SizeBounds, LengthsAssumption DEF LenAt, Size

LEMMA CellOrder ==
  ASSUME FileInv, NEW p \in 0 .. Len(disk) - 1, NEW q \in 0 .. Len(disk) - 1, p < q
  PROVE  /\ Cell(p).frame <= Cell(q).frame
         /\ Cell(p).frame = Cell(q).frame => Cell(q).part = Cell(p).part + (q - p)
<1>1. InOrder(All)
  BY FileTypes
<1>2. /\ p \in Nat /\ p + 1 \in 1 .. Len(All) /\ Cell(p) = All[p + 1] /\ Cell(p).part \in Nat
      /\ q \in Nat /\ q + 1 \in 1 .. Len(All) /\ Cell(q) = All[q + 1]
  BY CellFacts
<1>3. p + 1 < q + 1 /\ (q + 1) - (p + 1) = q - p
  BY <1>2
<1>4. QED
  BY <1>1, <1>2, <1>3 DEF InOrder

LEMMA StartFacts ==
  ASSUME FileInv, NEW p \in Starts
  PROVE  p \in 0 .. Len(disk) - 1 /\ p \in Nat /\ Cell(p).part = 0
BY FileTypes DEF Starts, Positions, IsCode

(* The end of the frame that begins at p.                                  *)
EndOf(p) == p + Size(KindAt(p))

LEMMA EndFacts ==
  ASSUME FileInv, NEW p \in Starts
  PROVE  /\ EndOf(p) \in Nat /\ p + HeadLen < EndOf(p) /\ p < EndOf(p)
         /\ EndOf(p) <= p + HeadLen + MaxLen
         /\ EndOf(p) = p + HeadLen + LenAt(p)
         /\ HeadLen \in Nat /\ 1 < HeadLen /\ MaxLen \in Nat
<1>1. p \in 0 .. Len(disk) - 1 /\ p \in Nat
  BY StartFacts
<1>2. QED
  BY <1>1, KindFacts DEF EndOf

LEMMA TornIs ==
  ASSUME NEW p
  PROVE  Torn(p) <=> EndOf(p) > Len(All) \/ All[EndOf(p)].frame # Cell(p).frame
BY DEF Torn, All, EndOf

LEMMA StartsRise ==
  ASSUME FileInv, NEW p \in Starts, NEW q \in Starts, p < q
  PROVE  Cell(p).frame < Cell(q).frame /\ Cell(p).frame \in Nat /\ Cell(q).frame \in Nat
<1>1. /\ p \in 0 .. Len(disk) - 1 /\ p \in Nat /\ Cell(p).part = 0
      /\ q \in 0 .. Len(disk) - 1 /\ q \in Nat /\ Cell(q).part = 0
  BY StartFacts
<1>2. Cell(p).frame \in Nat /\ Cell(q).frame \in Nat
  BY <1>1, CellFacts
<1>3. /\ Cell(p).frame <= Cell(q).frame
      /\ Cell(p).frame = Cell(q).frame => Cell(q).part = Cell(p).part + (q - p)
  BY <1>1, CellOrder
<1>4. QED
  BY <1>1, <1>2, <1>3

LEMMA ClaimFacts ==
  ASSUME FileInv, NEW p \in Starts
  PROVE  /\ ClaimedEnd(p) \in Nat /\ p < ClaimedEnd(p)
         /\ IsHead(p) => ClaimedEnd(p) = EndOf(p)
         /\ ~IsHead(p) => ClaimedEnd(p) = p + HeadLen + TornLen
<1>1. p \in Nat /\ HeadLen \in Nat /\ TornLen \in Nat /\ 1 < HeadLen
  BY StartFacts, LengthsAssumption
<1>2. LenAt(p) \in Nat /\ EndOf(p) = p + HeadLen + LenAt(p)
  BY StartFacts, KindFacts, EndFacts
<1>3. QED
  BY <1>1, <1>2 DEF ClaimedEnd

(* A frame with cells of a later one before its end is torn.               *)
LEMMA CutShort ==
  ASSUME FileInv, NEW p \in Starts, NEW q \in 0 .. Len(disk) - 1,
         p < q, q < EndOf(p), Cell(p).frame # Cell(q).frame
  PROVE  Torn(p)
<1>1. p \in 0 .. Len(disk) - 1 /\ EndOf(p) \in Nat /\ p \in Nat /\ q \in Nat
  BY StartFacts, EndFacts
<1>2. CASE EndOf(p) > Len(All)
  BY <1>2, TornIs
<1>3. CASE EndOf(p) <= Len(All)
  <2> DEFINE e == EndOf(p)
  <2>1. /\ Cell(p).frame <= Cell(q).frame
        /\ Cell(p).frame \in Nat /\ Cell(q).frame \in Nat
    BY <1>1, CellOrder, CellFacts
  <2>2. q + 1 \in 1 .. Len(All) /\ Cell(q) = All[q + 1] /\ Len(All) \in Nat
        /\ InOrder(All) /\ All \in Seq(CellType)
    BY CellFacts, FileTypes
  <2> HIDE DEF e
  <2>3. e \in 1 .. Len(All) /\ q + 1 <= e
    BY <1>1, <1>3, <2>2 DEF e
  <2>4. All[q + 1].frame <= All[e].frame /\ All[e].frame \in Nat
    <3>1. All[e] \in CellType
      BY <2>2, <2>3
    <3>2. CASE q + 1 = e
      BY <2>1, <2>2, <3>1, <3>2 DEF CellType
    <3>3. CASE q + 1 < e
      BY <2>2, <2>3, <3>1, <3>3 DEF CellType, InOrder
    <3>4. QED
      BY <1>1, <2>3, <3>2, <3>3
  <2>5. All[e].frame # Cell(p).frame
    BY <2>1, <2>2, <2>4
  <2>6. QED
    BY <2>5, TornIs DEF e
<1>4. QED
  BY <1>1, <1>2, <1>3, FileTypes

LEMMA BegunInside ==
  ASSUME FileInv, NEW p \in Starts, NEW q \in Starts, p < q, q < EndOf(p)
  PROVE  Torn(p)
<1>1. q \in 0 .. Len(disk) - 1
  BY StartFacts
<1>2. Cell(p).frame # Cell(q).frame
  BY StartsRise
<1>3. QED
  BY <1>1, <1>2, CutShort

LEMMA HeadTorn ==
  ASSUME FileInv, NEW p \in Starts, p + HeadLen <= Len(disk), ~IsHead(p)
  PROVE  Torn(p)
<1>1. /\ p \in 0 .. Len(disk) - 1 /\ p \in Nat /\ Cell(p).part = 0
      /\ HeadLen \in Nat /\ EndOf(p) \in Nat /\ p + HeadLen < EndOf(p) /\ Len(disk) \in Nat
  BY StartFacts, EndFacts, FileTypes
<1>2. PICK i \in 0 .. HeadLen - 1 : Cell(p + i) # [frame |-> Cell(p).frame, part |-> i]
  BY <1>1 DEF IsHead
<1>3. p + i \in 0 .. Len(disk) - 1 /\ p + i < EndOf(p) /\ i \in Nat
  BY <1>1
<1>4. Cell(p + i) \in CellType /\ Cell(p) \in CellType
  BY <1>1, <1>3, CellFacts
<1>5. i # 0
  BY <1>1, <1>2, <1>4 DEF CellType
<1>6. Cell(p).frame # Cell(p + i).frame
  <2>1. ASSUME Cell(p).frame = Cell(p + i).frame PROVE FALSE
    <3>1. p < p + i /\ (p + i) - p = i
      BY <1>1, <1>3, <1>5
    <3>2. Cell(p + i).part = Cell(p).part + ((p + i) - p)
      BY <1>1, <1>3, <2>1, <3>1, CellOrder
    <3>3. Cell(p + i).part = i
      BY <1>1, <1>3, <3>1, <3>2
    <3>4. QED
      BY <1>2, <1>4, <2>1, <3>3 DEF CellType
  <2>2. QED
    BY <2>1
<1>7. p < p + i
  BY <1>1, <1>3, <1>5
<1>8. QED
  BY <1>3, <1>6, <1>7, CutShort

LEMMA TornHeadIsTorn ==
  ASSUME FileInv, NEW p \in Starts, TornHead(p)
  PROVE  Torn(p)
BY HeadTorn DEF TornHead

LEMMA WholeNotTorn ==
  ASSUME FileInv, NEW p \in Starts, Whole(p)
  PROVE  EndOf(p) <= Len(disk) /\ ~Torn(p)
<1>1. /\ p \in 0 .. Len(disk) - 1 /\ p \in Nat /\ HeadLen \in Nat
      /\ LenAt(p) \in 1 .. MaxLen /\ LenAt(p) \in Nat /\ EndOf(p) = p + HeadLen + LenAt(p)
      /\ Len(disk) \in Nat /\ Len(All) \in Nat /\ Len(disk) <= Len(All)
  <2>1. Len(disk) \in Nat /\ Len(buf) \in Nat /\ Len(All) = Len(disk) + Len(buf)
    BY FileTypes
  <2>2. p \in 0 .. Len(disk) - 1 /\ p \in Nat
    BY StartFacts
  <2>3. QED
    BY <2>1, <2>2, EndFacts, KindFacts
<1>2. /\ (p + HeadLen) + LenAt(p) <= Len(disk)
      /\ \A i \in 0 .. LenAt(p) - 1 :
           Cell((p + HeadLen) + i) = [frame |-> Cell(p).frame, part |-> HeadLen + i]
  BY DEF Whole, IsBody
<1>3. EndOf(p) <= Len(disk)
  BY <1>1, <1>2
<1> DEFINE i == LenAt(p) - 1
<1>4. i \in 0 .. LenAt(p) - 1 /\ (p + HeadLen) + i = EndOf(p) - 1
  BY <1>1
<1>5. Cell(EndOf(p) - 1).frame = Cell(p).frame
  <2> HIDE DEF i
  <2>1. Cell((p + HeadLen) + i) = [frame |-> Cell(p).frame, part |-> HeadLen + i]
    BY <1>2, <1>4
  <2>2. Cell((p + HeadLen) + i).frame = Cell(p).frame
    BY <2>1
  <2>3. QED
    BY <1>4, <2>2
<1>6. EndOf(p) - 1 \in 0 .. Len(disk) - 1 /\ (EndOf(p) - 1) + 1 = EndOf(p)
  BY <1>1, <1>3
<1>7. All[EndOf(p)].frame = Cell(p).frame
  BY <1>5, <1>6, CellFacts
<1>8. QED
  BY <1>1, <1>3, <1>7, TornIs

(* Behind a frame that is not torn the next one begins.                    *)
LEMMA NextBegins ==
  ASSUME FileInv, NEW p \in Starts, ~Torn(p), EndOf(p) < Len(disk)
  PROVE  EndOf(p) \in Starts
<1> DEFINE q == EndOf(p)
           r == q - 1
           k == Cell(q).part
<1>1. /\ p \in 0 .. Len(disk) - 1 /\ p \in Nat /\ Cell(p).part = 0
      /\ q \in Nat /\ p + HeadLen < q /\ HeadLen \in Nat /\ 1 < HeadLen /\ Len(disk) \in Nat
      /\ q = p + Size(KindAt(p)) /\ Size(KindAt(p)) \in Nat
  BY StartFacts, EndFacts, KindFacts, FileTypes DEF EndOf
<1>2. All[q].frame = Cell(p).frame
  BY TornIs
<1> HIDE DEF q
<1>3. q \in 0 .. Len(disk) - 1 /\ r \in 0 .. Len(disk) - 1 /\ p < r /\ p < q /\ r + 1 = q
  BY <1>1 DEF q
<1>4. Cell(r).frame = Cell(p).frame
  BY <1>2, <1>3, CellFacts
<1>5. /\ Cell(q) \in CellType /\ Cell(q).frame \in Nat /\ k \in Nat /\ k <= q
      /\ Cell(q - k).frame = Cell(q).frame /\ k < Size(KindAt(q))
      /\ Cell(p).frame \in Nat
  BY <1>1, <1>3, CellFacts
<1>6. Cell(q).frame # Cell(p).frame
  <2>1. ASSUME Cell(q).frame = Cell(p).frame PROVE FALSE
    <3>1. k = Cell(p).part + (q - p)
      BY <1>1, <1>3, <2>1, CellOrder
    <3>2. KindAt(q) = KindAt(p)
      BY <2>1 DEF KindAt
    <3>3. QED
      BY <1>1, <1>5, <3>1, <3>2
  <2>2. QED
    BY <2>1
<1>7. Cell(p).frame < Cell(q).frame
  <2>1. Cell(p).frame <= Cell(q).frame
    BY <1>1, <1>3, CellOrder
  <2>2. QED
    BY <1>5, <1>6, <2>1
<1>8. k = 0
  <2>1. ASSUME k # 0 PROVE FALSE
    <3>1. q - k \in 0 .. Len(disk) - 1 /\ q - k <= r
      BY <1>3, <1>5, <2>1
    <3>2. Cell(q - k).frame <= Cell(r).frame
      <4>1. CASE q - k = r
        BY <1>1, <1>4, <1>5, <4>1
      <4>2. CASE q - k < r
        BY <1>3, <3>1, <4>2, CellOrder
      <4>3. QED
        BY <1>3, <1>5, <3>1, <4>1, <4>2
    <3>3. QED
      BY <1>4, <1>5, <1>7, <3>2
  <2>2. QED
    BY <2>1
<1>9. QED
  BY <1>1, <1>3, <1>8 DEF Starts, Positions, IsCode, q

-----------------------------------------------------------------------------
(* What the recorder adds changes nothing of what is there.                *)

LEMMA GrownCells ==
  ASSUME FileInv, FileInv', Grown, NEW p \in 0 .. Len(disk) - 1
  PROVE  /\ p \in 0 .. Len(disk') - 1
         /\ Cell(p)' = Cell(p) /\ KindAt(p)' = KindAt(p) /\ LenAt(p)' = LenAt(p)
         /\ EndOf(p)' = EndOf(p)
<1>1. Len(disk) \in Nat /\ Len(disk') \in Nat
  BY FileTypes DEF FileInv
<1>2. p + 1 \in 1 .. Len(disk) /\ p \in 0 .. Len(disk') - 1
  BY <1>1 DEF Grown
<1>3. Cell(p)' = Cell(p)
  BY <1>2 DEF Grown, Cell
<1>4. Cell(p).frame \in 1 .. Len(kinds)
  BY CellFacts
<1>5. kinds'[Cell(p).frame] = kinds[Cell(p).frame]
  BY <1>4 DEF Grown
<1>6. KindAt(p)' = KindAt(p)
  BY <1>3, <1>5 DEF KindAt
<1>7. QED
  BY <1>2, <1>3, <1>6 DEF LenAt, EndOf

LEMMA GrownStarts ==
  ASSUME FileInv, FileInv', Grown
  PROVE  /\ \A p \in Starts : p \in Starts'
         /\ \A p \in Starts' : p < Len(disk) => p \in Starts
<1>1. Len(disk) \in Nat /\ Len(disk') \in Nat /\ Len(disk) <= Len(disk')
  BY FileTypes DEF FileInv, Grown
<1>2. ASSUME NEW p \in 0 .. Len(disk) - 1 PROVE p \in Starts <=> p \in Starts'
  <2>1. p \in 0 .. Len(disk') - 1 /\ Cell(p)' = Cell(p)
    BY GrownCells
  <2>2. p \in Starts <=> Cell(p).part = 0
    BY <1>1 DEF Starts, Positions, IsCode
  <2>3. p \in Starts' <=> Cell(p)'.part = 0
    BY <1>1, <2>1 DEF Starts, Positions, IsCode
  <2>4. QED
    BY <2>1, <2>2, <2>3
<1>3. \A p \in Starts : p \in 0 .. Len(disk) - 1
  BY StartFacts
<1>4. \A p \in Starts' : p < Len(disk) => p \in 0 .. Len(disk) - 1
  BY <1>1 DEF Starts, Positions
<1>5. QED
  BY <1>2, <1>3, <1>4

LEMMA GrownHead ==
  ASSUME FileInv, FileInv', Grown, NEW p \in Nat, p + HeadLen <= Len(disk)
  PROVE  IsHead(p)' <=> IsHead(p)
<1>1. /\ Len(disk) \in Nat /\ Len(disk') \in Nat /\ Len(disk) <= Len(disk')
      /\ HeadLen \in Nat /\ 1 < HeadLen
  BY FileTypes, LengthsAssumption DEF FileInv, Grown
<1>2. \A i \in 0 .. HeadLen - 1 : p + i \in 0 .. Len(disk) - 1
  BY <1>1
<1>3. \A i \in 0 .. HeadLen - 1 : Cell(p + i)' = Cell(p + i)
  BY <1>2, GrownCells
<1>4. Cell(p)' = Cell(p)
  <2>1. p \in 0 .. Len(disk) - 1
    BY <1>1
  <2>2. QED
    BY <2>1, GrownCells
<1>5. QED
  BY <1>1, <1>3, <1>4 DEF IsHead

LEMMA GrownTorn ==
  ASSUME FileInv, FileInv', Grown, NEW p \in Starts, Torn(p)
  PROVE  Torn(p)'
<1> DEFINE e == EndOf(p)
<1>1. p \in 0 .. Len(disk) - 1 /\ e \in Nat /\ p < e /\ p \in Nat
  BY StartFacts, EndFacts
<1>2. EndOf(p)' = e /\ Cell(p)' = Cell(p) /\ Cell(p).frame \in 1 .. Len(kinds)
  BY <1>1, GrownCells, CellFacts
<1>3. Torn(p)' <=> EndOf(p)' > Len(All') \/ All'[EndOf(p)'].frame # (Cell(p)').frame
  BY DEF Torn, All, EndOf
<1>4. e > Len(All) \/ All[e].frame # Cell(p).frame
  BY TornIs
<1> HIDE DEF e
<1>5. Len(All) \in Nat /\ Len(All') \in Nat /\ Len(kinds) \in Nat
  <2>1. disk' \in Seq(CellType) /\ buf' \in Seq(CellType)
    BY DEF FileInv
  <2>2. QED
    BY <2>1, FileTypes, ConcatProperties DEF All
<1>6. CASE e > Len(All')
  BY <1>2, <1>3, <1>6
<1>7. CASE e <= Len(All') /\ e > Len(All)
  <2>1. e \in 1 .. Len(All') /\ e \notin 1 .. Len(All)
    BY <1>1, <1>5, <1>7
  <2>2. All'[e].frame > Len(kinds)
    BY <2>1 DEF Grown
  <2>3. QED
    BY <1>2, <1>3, <1>5, <2>2
<1>8. CASE e <= Len(All)
  <2>1. e \in 1 .. Len(All)
    BY <1>1, <1>5, <1>8
  <2>2. All'[e] = All[e]
    BY <2>1 DEF Grown
  <2>3. All[e].frame # Cell(p).frame
    BY <1>1, <1>4, <1>5, <1>8
  <2>4. QED
    BY <1>2, <1>3, <2>2, <2>3
<1>9. QED
  BY <1>1, <1>5, <1>6, <1>7, <1>8

LEMMA GrownBehind ==
  ASSUME FileInv, FileInv', Grown, NEW p \in Starts, BehindTear(p)
  PROVE  BehindTear(p)'
<1>1. PICK t \in Starts : t < p /\ p < ClaimedEnd(t) /\ Torn(t)
  BY DEF BehindTear
<1>2. t \in Starts' /\ Torn(t)' /\ LenAt(t)' = LenAt(t)
  BY <1>1, GrownStarts, GrownTorn, GrownCells, StartFacts
<1>3. /\ t \in Nat /\ p \in Nat /\ p < Len(disk) /\ Len(disk) \in Nat /\ HeadLen \in Nat
      /\ LenAt(t) \in Nat /\ TornLen \in Nat
  BY StartFacts, KindFacts, FileTypes, LengthsAssumption
<1>4. p < ClaimedEnd(t)'
  <2>1. CASE t + HeadLen <= Len(disk)
    <3>1. IsHead(t)' <=> IsHead(t)
      BY <1>3, <2>1, GrownHead
    <3>2. QED
      BY <1>1, <1>2, <3>1 DEF ClaimedEnd
  <2>2. CASE ~(t + HeadLen <= Len(disk))
    BY <1>2, <1>3, <2>2 DEF ClaimedEnd
  <2>3. QED
    BY <2>1, <2>2
<1>5. QED
  BY <1>1, <1>2, <1>4 DEF BehindTear

LEMMA GrownWhole ==
  ASSUME FileInv, FileInv', Grown, NEW p \in Starts, Whole(p)', EndOf(p) <= Len(disk)
  PROVE  Whole(p)
<1>1. /\ p \in 0 .. Len(disk) - 1 /\ p \in Nat /\ HeadLen \in Nat /\ Len(disk) \in Nat
      /\ EndOf(p) = p + HeadLen + LenAt(p) /\ LenAt(p) \in Nat
      /\ p + HeadLen < EndOf(p)
  BY StartFacts, EndFacts, KindFacts, FileTypes
<1>2. Cell(p)' = Cell(p) /\ LenAt(p)' = LenAt(p)
  BY <1>1, GrownCells
<1>3. IsHead(p)
  <2>1. p + HeadLen <= Len(disk)
    BY <1>1
  <2>2. QED
    BY <1>1, <2>1, GrownHead DEF Whole
<1>4. ASSUME NEW i \in 0 .. LenAt(p) - 1
      PROVE  Cell(p + HeadLen + i) = [frame |-> Cell(p).frame, part |-> HeadLen + i]
  <2>1. p + HeadLen + i \in 0 .. Len(disk) - 1
    BY <1>1
  <2>2. Cell(p + HeadLen + i)' = Cell(p + HeadLen + i)
    BY <2>1, GrownCells
  <2>3. Cell(p + HeadLen + i)' = [frame |-> Cell(p)'.frame, part |-> HeadLen + i]
    BY <1>2, <1>4 DEF Whole, IsBody
  <2>4. QED
    BY <1>2, <2>2, <2>3
<1>5. QED
  BY <1>1, <1>3, <1>4 DEF Whole, IsBody

-----------------------------------------------------------------------------
(* Where a jump may arrive.  The function it is read from is recursive: it *)
(* is there because each value is made of those further on in the file.    *)

Top == Len(disk) + HeadLen + TornLen
Taken(q) == IF TornHead(q) THEN q ELSE Len(disk) - HeadLen
ArrivesFrom(f, q, s) ==
  IF ~IsCode(q) THEN {Fails}
  ELSE IF ~IsHead(q)
  THEN {Fails} \cup (UNION {f[q + HeadLen + l] : l \in 1 .. TornLen})
       \cup {e \in {Taken(q)} : e >= 0}
  ELSE IF Wanted(q, s) THEN {q}
  ELSE f[q + HeadLen + LenAt(q)]

LEMMA TopFacts ==
  ASSUME FileInv
  PROVE  /\ Len(disk) \in Nat /\ HeadLen \in Nat /\ 1 < HeadLen /\ TornLen \in Nat /\ 0 < TornLen
         /\ MaxLen \in Nat /\ MaxLen <= TornLen
         /\ Top \in Nat /\ Top = Len(disk) + HeadLen + TornLen
BY FileTypes, LengthsAssumption DEF Top

(* What is further on is still within the function.                        *)
LEMMA FurtherOn ==
  ASSUME FileInv, NEW q \in 0 .. Top, IsCode(q)
  PROVE  /\ q \in 0 .. Len(disk) - 1
         /\ \A l \in 1 .. TornLen : q + HeadLen + l \in q + 1 .. Top
         /\ q + HeadLen + LenAt(q) \in q + 1 .. Top
<1>1. q \in 0 .. Len(disk) - 1
  BY TopFacts DEF IsCode
<1>2. \A l \in 1 .. TornLen : q + HeadLen + l \in q + 1 .. Top
  BY <1>1, TopFacts
<1>3. LenAt(q) \in 1 .. MaxLen
  BY <1>1, KindFacts
<1>4. q + HeadLen + LenAt(q) \in q + 1 .. Top
  BY <1>1, <1>3, TopFacts
<1>5. QED
  BY <1>1, <1>2, <1>4

LEMMA ArrivesLocal ==
  ASSUME FileInv, NEW s, NEW q \in 0 .. Top, NEW f, NEW g,
         \A x \in q + 1 .. Top : f[x] = g[x]
  PROVE  ArrivesFrom(f, q, s) = ArrivesFrom(g, q, s)
<1>1. CASE ~IsCode(q)
  BY <1>1 DEF ArrivesFrom
<1>2. CASE IsCode(q) /\ IsHead(q)
  <2>1. f[q + HeadLen + LenAt(q)] = g[q + HeadLen + LenAt(q)]
    BY <1>2, FurtherOn
  <2>2. QED
    BY <1>2, <2>1 DEF ArrivesFrom
<1>3. CASE IsCode(q) /\ ~IsHead(q)
  <2>1. \A l \in 1 .. TornLen : f[q + HeadLen + l] = g[q + HeadLen + l]
    BY <1>3, FurtherOn
  <2>2. {f[q + HeadLen + l] : l \in 1 .. TornLen} = {g[q + HeadLen + l] : l \in 1 .. TornLen}
    BY <2>1
  <2>3. QED
    BY <1>3, <2>2, Zenon DEF ArrivesFrom
<1>4. QED
  BY <1>1, <1>2, <1>3

LEMMA ArrivesExists ==
  ASSUME FileInv, NEW s
  PROVE  \E f : f = [q \in 0 .. Top |-> ArrivesFrom(f, q, s)]
<1> DEFINE S == {p \in 0 .. Top : \E f : f = [q \in p .. Top |-> ArrivesFrom(f, q, s)]}
<1>0. Top \in Nat
  BY TopFacts
<1>1. ASSUME NEW p \in 0 .. Top, \A z \in p + 1 .. Top : z \in S
      PROVE  p \in S
  <2>1. p + 1 \in Nat /\ p \in Nat
    BY <1>0
  <2>2. \E f : f = [q \in p + 1 .. Top |-> ArrivesFrom(f, q, s)]
    <3>1. CASE p + 1 \in 0 .. Top
      <4>1. p + 1 \in p + 1 .. Top
        BY <2>1, <3>1
      <4>2. QED
        BY <1>1, <4>1
    <3>2. CASE p + 1 \notin 0 .. Top
      <4> DEFINE f == [q \in {} |-> {}]
      <4>1. p + 1 .. Top = {}
        BY <1>0, <2>1, <3>2
      <4>2. f = [q \in {} |-> ArrivesFrom(f, q, s)]
        OBVIOUS
      <4>3. QED
        BY <4>1, <4>2
    <3>3. QED
      BY <3>1, <3>2
  <2>3. PICK f : f = [q \in p + 1 .. Top |-> ArrivesFrom(f, q, s)]
    BY <2>2
  <2> DEFINE g == [q \in p .. Top |-> IF q = p THEN ArrivesFrom(f, p, s) ELSE f[q]]
  <2>4. \A q \in p + 1 .. Top : g[q] = f[q] /\ f[q] = ArrivesFrom(f, q, s)
    <3>1. ASSUME NEW q \in p + 1 .. Top PROVE g[q] = f[q]
      <4>1. q \in p .. Top /\ q # p
        BY <1>0, <2>1
      <4>2. QED
        BY <4>1
    <3> HIDE DEF g
    <3>2. ASSUME NEW q \in p + 1 .. Top PROVE f[q] = ArrivesFrom(f, q, s)
      BY <2>3, Zenon
    <3>3. QED
      BY <3>1, <3>2
  <2>5. g[p] = ArrivesFrom(f, p, s)
    <3>1. p \in p .. Top
      BY <1>0, <2>1
    <3>2. QED
      BY <3>1
  <2>6. DOMAIN g = p .. Top /\ g = [q \in p .. Top |-> g[q]]
    OBVIOUS
  <2> HIDE DEF g
  <2>7. ASSUME NEW q \in p .. Top
        PROVE  g[q] = ArrivesFrom(g, q, s)
    <3>0. q \in 0 .. Top
      BY <1>0, <2>1
    <3>1. \A x \in q + 1 .. Top : f[x] = g[x]
      <4>1. \A x \in q + 1 .. Top : x \in p + 1 .. Top
        BY <1>0, <2>1
      <4>2. QED
        BY <2>4, <4>1
    <3>2. ArrivesFrom(f, q, s) = ArrivesFrom(g, q, s)
      BY <3>0, <3>1, ArrivesLocal
    <3>3. CASE q = p
      BY <2>5, <3>2, <3>3
    <3>4. CASE q # p
      <4>1. q \in p + 1 .. Top
        BY <1>0, <2>1, <3>4
      <4>2. QED
        BY <2>4, <3>2, <4>1
    <3>5. QED
      BY <3>3, <3>4
  <2>8. g = [q \in p .. Top |-> ArrivesFrom(g, q, s)]
    BY <2>6, <2>7, Zenon
  <2>9. QED
    BY <2>8
<1>2. S \in SUBSET (0 .. Top) /\ 0 \in 0 .. Top
  BY <1>0
<1>3. S = 0 .. Top
  <2> HIDE DEF S
  <2>1. QED
    BY <1>0, <1>1, <1>2, FromTheEnd
<1>4. QED
  BY <1>2, <1>3

LEMMA SeekIsArrives ==
  ASSUME FileInv, NEW p, NEW s
  PROVE  \E f : /\ f = [q \in 0 .. Top |-> ArrivesFrom(f, q, s)]
                /\ SeekBySecs(p, s) = f[p]
<1> DEFINE F == CHOOSE f : f = [q \in 0 .. Top |-> ArrivesFrom(f, q, s)]
<1>1. F = [q \in 0 .. Top |-> ArrivesFrom(F, q, s)]
  <2>1. \E f : f = [q \in 0 .. Top |-> ArrivesFrom(f, q, s)]
    BY ArrivesExists
  <2>2. QED
    BY <2>1, Zenon
<1>2. SeekBySecs(p, s) = F[p]
  BY DEF SeekBySecs, Top, ArrivesFrom, Taken
<1> HIDE DEF F
<1>3. QED
  BY <1>1, <1>2

(* A jump arrives at the beginning of a frame, or so close to the end of   *)
(* the file that the next header it sees is one that is cut.               *)
Landings ==
  Starts \cup {e \in Positions : e = Len(disk) - HeadLen /\ \E c \in Starts : e < c}

LEMMA ArrivesLands ==
  ASSUME FileInv, NEW s, NEW f, f = [q \in 0 .. Top |-> ArrivesFrom(f, q, s)],
         NEW p \in 0 .. Top
  PROVE  f[p] \subseteq Landings \cup {Fails}
<1> DEFINE R == Landings \cup {Fails}
           S == {q \in 0 .. Top : f[q] \subseteq R}
<1>0. Top \in Nat
  BY TopFacts
<1>1. ASSUME NEW q \in 0 .. Top, \A x \in q + 1 .. Top : f[x] \subseteq R
      PROVE  f[q] \subseteq R
  <2>1. f[q] = ArrivesFrom(f, q, s)
    BY Zenon
  <2> HIDE DEF R
  <2>2. Fails \in R
    BY DEF R
  <2>3. CASE ~IsCode(q)
    BY <2>1, <2>2, <2>3 DEF ArrivesFrom
  <2>4. CASE IsCode(q)
    <3>1. /\ q \in 0 .. Len(disk) - 1
          /\ \A l \in 1 .. TornLen : q + HeadLen + l \in q + 1 .. Top
          /\ q + HeadLen + LenAt(q) \in q + 1 .. Top
      BY <2>4, FurtherOn
    <3>2. q \in Starts /\ q \in R
      BY <2>4, <3>1, TopFacts DEF Starts, Positions, R, Landings
    <3>3. CASE IsHead(q)
      BY <1>1, <2>1, <2>4, <3>1, <3>2, <3>3 DEF ArrivesFrom
    <3>4. CASE ~IsHead(q)
      <4>1. UNION {f[q + HeadLen + l] : l \in 1 .. TornLen} \subseteq R
        BY <1>1, <3>1
      <4>2. {e \in {Taken(q)} : e >= 0} \subseteq R
        <5>1. ~TornHead(q) => Len(disk) - HeadLen < q
          BY <2>4, <3>1, <3>4, TopFacts DEF TornHead
        <5>2. QED
          BY <3>1, <3>2, <5>1, TopFacts DEF R, Landings, Positions, Taken
      <4>3. QED
        BY <2>1, <2>2, <2>4, <3>4, <4>1, <4>2 DEF ArrivesFrom
    <3>5. QED
      BY <3>3, <3>4
  <2>5. QED
    BY <2>3, <2>4
<1>2. \A q \in 0 .. Top : (\A x \in q + 1 .. Top : x \in S) => q \in S
  <2> HIDE DEF R
  <2>1. QED
    BY <1>1
<1>3. S = 0 .. Top
  <2>1. S \in SUBSET (0 .. Top)
    OBVIOUS
  <2> HIDE DEF S
  <2>2. QED
    BY <1>0, <1>2, <2>1, FromTheEnd
<1>4. QED
  BY <1>3

LEMMA SeekLands ==
  ASSUME FileInv, NEW s, NEW p \in 0 .. Top
  PROVE  SeekBySecs(p, s) \subseteq Landings \cup {Fails}
<1>1. PICK f : /\ f = [q \in 0 .. Top |-> ArrivesFrom(f, q, s)]
               /\ SeekBySecs(p, s) = f[p]
  BY SeekIsArrives
<1>2. f[p] \subseteq Landings \cup {Fails}
  BY <1>1, ArrivesLands
<1>3. QED
  BY <1>1, <1>2

LEMMA FromOfType ==
  ASSUME NEW off \in Nat, NEW k \in Nat
  PROVE  FromOf(off, k) \in Nat
<1>1. k * Step \in Nat
  BY LengthsAssumption
<1>2. QED
  BY <1>1 DEF FromOf

LEMMA StepsType ==
  ASSUME FileInv, NEW off, NEW k \in Steps(off)
  PROVE  k \in Nat
BY TopFacts DEF Steps

(* What a search of a part of the file may find is in the file.            *)
LEMMA FoundFacts ==
  ASSUME FileInv, NEW a \in Nat, NEW b, NEW p \in FoundIn(a, b)
  PROVE  /\ p \in Starts /\ p \in 0 .. Top /\ p \in Nat /\ a <= p
         /\ TornHead(p) \/ p \in VideosIn(a, b)
<1>1. /\ p \in VideosIn(a, b) \/ p \in TornIn(a, b)
      /\ p \in a .. b - HeadLen
      /\ IsHead(p) \/ TornHead(p)
  BY DEF FoundIn, VideosIn, TornIn
<1>2. p \in Nat /\ a <= p
  BY <1>1
<1>3. IsCode(p) /\ p < Len(disk)
  <2>1. CASE IsHead(p)
    <3>1. p + HeadLen <= Len(disk) /\ Cell(p + 0) = [frame |-> Cell(p).frame, part |-> 0]
      BY <2>1, TopFacts DEF IsHead
    <3>2. QED
      BY <1>2, <3>1, TopFacts DEF IsCode
  <2>2. CASE TornHead(p)
    BY <2>2 DEF TornHead, IsCode
  <2>3. QED
    BY <1>1, <2>1, <2>2
<1>4. QED
  BY <1>1, <1>2, <1>3, TopFacts DEF Starts, Positions, TornIn

LEMMA JumpsLand ==
  ASSUME FileInv, NEW off \in Nat, NEW s, NEW q \in Jumps(off, s)
  PROVE  q \in Landings \cup {Fails, Aborts}
<1> DEFINE from(k)    == FromOf(off, k)
           to(k)      == ToOf(off, k)
           Early(p)   == TimeAt(p) < s * 1000
           Nothing(k) == \A p \in VideosIn(from(k), to(k)) : MaybePassed(p, from(k))
           OverEnd(k) == Nothing(k) /\ to(k) > Len(disk)
           Back(k)    == \/ Nothing(k) /\ to(k) <= Len(disk)
                         \/ \E p \in FoundIn(from(k), to(k)) : TornHead(p) \/ ~Early(p)
           Reached    == {k \in Steps(off) : \A j \in 0 .. k - 1 : Back(j)}
           Last       == CHOOSE k \in Steps(off) : \A j \in Steps(off) : j <= k
           starts     == UNION {{p \in FoundIn(from(k), to(k)) : TornHead(p) \/ Early(p)} : k \in Reached}
<1>1. Jumps(off, s) = (UNION {SeekBySecs(p, s) : p \in starts})
        \cup (IF Last \in Reached /\ Back(Last) THEN {Fails} ELSE {})
        \cup (IF \E k \in Reached : OverEnd(k) \/ TornIn(from(k), to(k)) # {}
              THEN {Fails, Aborts} ELSE {})
  BY DEF Jumps
<1>2. ASSUME NEW p \in starts PROVE p \in 0 .. Top
  <2>1. PICK k \in Reached : p \in FoundIn(from(k), to(k))
    BY <1>2
  <2>2. k \in Nat
    BY StepsType
  <2>3. from(k) \in Nat
    BY <2>2, FromOfType
  <2>4. QED
    BY <2>1, <2>3, FoundFacts
<1>3. \A p \in starts : SeekBySecs(p, s) \subseteq Landings \cup {Fails}
  BY <1>2, SeekLands
<1> HIDE DEF starts, Last, Reached, OverEnd, Back
<1>4. QED
  BY <1>1, <1>3

-----------------------------------------------------------------------------
(* What the playback thread has parsed and delivered.                      *)

TearBefore(q) == \E t \in Starts : t < q /\ Torn(t)
CodesFrom(q) == {p \in q .. q + HeadLen - 1 : IsCode(p)}

Delivery == [frame : Nat, whole : BOOLEAN]

TypesOf(r, g, h) ==
  /\ r \in [pc : {"closed", "idle", "body", "ended"}, pos : Positions,
            frame : 0 .. Len(kinds), len : 0 .. TornLen, tries : 0 .. TryLimit + 1]
  /\ g \in Seq(Delivery) /\ \A i \in DOMAIN g : g[i].frame \in 1 .. Len(kinds)
  /\ h \in [from : Positions, cut : BOOLEAN, end : Positions]

(* The body that is read is of a header, and as long as that says unless   *)
(* it is torn.                                                             *)
BodyOf(r, h) ==
  r.pc = "body" /\ ~h.cut =>
    \E p \in Starts :
      /\ r.pos = p + HeadLen /\ r.frame = Cell(p).frame /\ r.len \in 1 .. TornLen
      /\ IF IsHead(p) THEN r.len = LenAt(p) ELSE Torn(p)

(* What is delivered, or will be next, begins before the position.         *)
OrderOf(r, g) ==
  /\ \A i, j \in DOMAIN g : i < j => g[i].frame < g[j].frame
  /\ \A i \in DOMAIN g : \E p \in Starts : p < r.pos /\ g[i].frame = Cell(p).frame
  /\ r.pc = "body" =>
       /\ \E p \in Starts : p < r.pos /\ r.frame = Cell(p).frame
       /\ \A i \in DOMAIN g : g[i].frame < r.frame

CoverOf(r, g, h) ==
  ~h.cut /\ r.pc # "closed" =>
    \A p \in Starts :
      Whole(p) /\ h.from <= p /\ EndOf(p) <= r.pos =>
        \/ \E i \in DOMAIN g : g[i] = [frame |-> Cell(p).frame, whole |-> TRUE]
        \/ BehindTear(p)

(* Between two frames: a frame the position lies inside of is torn or      *)
(* begins behind a tear; and without a tear before the position a frame    *)
(* begins there, or has just ended.                                        *)
InsideOf(r, h) ==
  r.pc = "idle" /\ ~h.cut =>
    \A p \in Starts :
      h.from <= p /\ p < r.pos /\ r.pos < EndOf(p) => Torn(p) \/ BehindTear(p)
NextOf(r, h) ==
  r.pc = "idle" /\ ~h.cut =>
    TearBefore(r.pos) \/ CodesFrom(r.pos) # {} \/ \E p \in Starts : r.pos = EndOf(p)

LeftOf(r, h) == r.pc = "ended" /\ ~h.cut => r.pos = h.end \/ TearBefore(r.pos)

PlaysOf(r, g, h) ==
  /\ TypesOf(r, g, h) /\ BodyOf(r, h) /\ OrderOf(r, g) /\ CoverOf(r, g, h)
  /\ InsideOf(r, h) /\ NextOf(r, h) /\ LeftOf(r, h)
  /\ r.pc # "closed" => disk # <<>>

PlaysInv == PlaysOf(rd, got, hist)

(* A step of the playback leaves the file as it is.                        *)
LEMMA SameFile ==
  ASSUME UNCHANGED <<kinds, disk, buf>>, PlaysOf(rd', got', hist')
  PROVE  PlaysInv'
<1>1. TypesOf(rd, got, hist)'
  BY DEF PlaysOf, TypesOf, Positions
<1>2. BodyOf(rd, hist)'
  BY DEF PlaysOf, BodyOf, Starts, Positions, IsCode, IsHead, Cell, LenAt, KindAt, Torn, Size
<1>3. OrderOf(rd, got)'
  BY DEF PlaysOf, OrderOf, Starts, Positions, IsCode, Cell
<1>4. CoverOf(rd, got, hist)' /\ InsideOf(rd, hist)'
  <2>1. Starts' = Starts
    BY DEF Starts, Positions, IsCode, Cell
  <2>2. ASSUME NEW p
        PROVE  (EndOf(p)' = EndOf(p)) /\ (Cell(p)' = Cell(p)) /\ (LenAt(p)' = LenAt(p))
    BY DEF EndOf, Cell, KindAt, LenAt, Size
  <2>3. ASSUME NEW p PROVE Whole(p)' <=> Whole(p)
    <3>1. IsHead(p)' <=> IsHead(p)
      BY DEF IsHead, Cell
    <3>2. IsBody(p + HeadLen, Cell(p).frame, LenAt(p))' <=> IsBody(p + HeadLen, Cell(p).frame, LenAt(p))
      BY <2>2 DEF IsBody, Cell
    <3>3. QED
      BY <3>1, <3>2 DEF Whole
  <2>4. ASSUME NEW p PROVE BehindTear(p)' <=> BehindTear(p)
    <3>1. ASSUME NEW q PROVE Torn(q)' <=> Torn(q)
      BY DEF Torn, KindAt, Cell, Size
    <3>2. ASSUME NEW q PROVE ClaimedEnd(q)' = ClaimedEnd(q)
      <4>1. IsHead(q)' <=> IsHead(q)
        BY DEF IsHead, Cell
      <4>2. QED
        BY <2>2, <4>1 DEF ClaimedEnd
    <3>3. QED
      BY <2>1, <3>1, <3>2 DEF BehindTear
  <2>5. CoverOf(rd', got', hist') /\ InsideOf(rd', hist')
    BY DEF PlaysOf
  <2>6. CoverOf(rd, got, hist)'
    BY <2>1, <2>2, <2>3, <2>4, <2>5 DEF CoverOf
  <2>7. ASSUME NEW p PROVE Torn(p)' <=> Torn(p)
    BY DEF Torn, KindAt, Cell, Size
  <2>8. InsideOf(rd, hist)'
    BY <2>1, <2>2, <2>4, <2>5, <2>7 DEF InsideOf
  <2>9. QED
    BY <2>6, <2>8
<1>6. NextOf(rd, hist)'
  BY DEF PlaysOf, NextOf, Starts, Positions, IsCode, EndOf, TearBefore, CodesFrom, Cell, KindAt,
         Torn, Size
<1>7. LeftOf(rd, hist)'
  BY DEF PlaysOf, LeftOf, Starts, Positions, IsCode, TearBefore, Cell, KindAt, Torn, Size
<1>8. (rd.pc # "closed" => disk # <<>>)'
  BY DEF PlaysOf
<1>9. QED
  BY <1>1, <1>2, <1>3, <1>4, <1>6, <1>7, <1>8 DEF PlaysInv, PlaysOf

(* A step of the recorder leaves the playback as it is.                    *)

LEMMA GrownStart ==
  ASSUME FileInv, FileInv', Grown, NEW p \in Starts
  PROVE  /\ p \in Starts' /\ p \in 0 .. Len(disk) - 1
         /\ Cell(p)' = Cell(p) /\ KindAt(p)' = KindAt(p) /\ LenAt(p)' = LenAt(p)
         /\ EndOf(p)' = EndOf(p)
<1>1. p \in 0 .. Len(disk) - 1
  BY StartFacts
<1>2. QED
  BY <1>1, GrownStarts, GrownCells

LEMMA EndBehind ==
  ASSUME FileInv', NEW p \in Starts'
  PROVE  p \in Nat /\ EndOf(p)' \in Nat /\ p < EndOf(p)'
<1>1. /\ kinds' \in Seq(Kinds) /\ disk' \in Seq(CellType) /\ buf' \in Seq(CellType)
      /\ Belongs(disk' \o buf', kinds')
  BY DEF FileInv, Belongs
<1>2. p \in Nat /\ p + 1 \in 1 .. Len(disk')
  BY <1>1 DEF Starts, Positions, IsCode
<1>3. p + 1 \in 1 .. Len(disk' \o buf') /\ (disk' \o buf')[p + 1] = disk'[p + 1]
  BY <1>1, <1>2
<1>4. disk'[p + 1].frame \in 1 .. Len(kinds')
  BY <1>1, <1>3 DEF Belongs
<1>5. kinds'[disk'[p + 1].frame] \in Kinds
  BY <1>1, <1>4
<1>6. EndOf(p)' = p + Size(kinds'[disk'[p + 1].frame])
  BY DEF EndOf, KindAt, Cell, Size
<1>7. /\ Size(kinds'[disk'[p + 1].frame]) \in Nat
      /\ HeadLen < Size(kinds'[disk'[p + 1].frame]) /\ HeadLen \in Nat
  BY <1>5, SizeBounds, LengthsAssumption
<1>8. QED
  BY <1>2, <1>6, <1>7

LEMMA GrownPlays ==
  ASSUME FileInv, FileInv', Grown, PlaysInv, UNCHANGED <<rd, got, hist>>
  PROVE  PlaysInv'
<1>0. PlaysOf(rd, got, hist) /\ TypesOf(rd, got, hist) /\ rd' = rd /\ got' = got /\ hist' = hist
  BY DEF PlaysInv, PlaysOf
<1>1. /\ rd.pos \in 0 .. Len(disk) /\ hist.end \in 0 .. Len(disk) /\ Len(disk) \in Nat
      /\ Len(disk') \in Nat /\ Len(disk) <= Len(disk') /\ Len(kinds) <= Len(kinds')
      /\ Len(kinds) \in Nat /\ Len(kinds') \in Nat
  <2>1. rd.pos \in 0 .. Len(disk) /\ hist.end \in 0 .. Len(disk)
    BY <1>0 DEF TypesOf, Positions
  <2>2. QED
    BY <2>1, FileTypes DEF FileInv, Grown
<1>2. TypesOf(rd, got, hist)'
  <2>1. Positions \subseteq Positions' /\ 0 .. Len(kinds) \subseteq 0 .. Len(kinds')
        /\ 1 .. Len(kinds) \subseteq 1 .. Len(kinds')
    BY <1>1 DEF Positions
  <2>2. TypesOf(rd, got, hist)
    BY <1>0
  <2>3. QED
    BY <1>0, <2>1, <2>2 DEF TypesOf
<1>3. BodyOf(rd, hist)'
  <2>1. SUFFICES ASSUME rd.pc = "body", ~hist.cut
                 PROVE  \E p \in Starts' :
                          /\ rd.pos = p + HeadLen /\ rd.frame = Cell(p)'.frame
                          /\ rd.len \in 1 .. TornLen
                          /\ IF IsHead(p)' THEN rd.len = LenAt(p)' ELSE Torn(p)'
    BY <1>0 DEF BodyOf
  <2>2. PICK p \in Starts :
          /\ rd.pos = p + HeadLen /\ rd.frame = Cell(p).frame /\ rd.len \in 1 .. TornLen
          /\ IF IsHead(p) THEN rd.len = LenAt(p) ELSE Torn(p)
    BY <1>0, <2>1 DEF PlaysOf, BodyOf
  <2>3. p \in Nat /\ p + HeadLen <= Len(disk)
    BY <1>1, <2>2, StartFacts
  <2>4. IsHead(p)' <=> IsHead(p)
    BY <2>3, GrownHead
  <2>5. p \in Starts' /\ Cell(p)' = Cell(p) /\ LenAt(p)' = LenAt(p)
    BY GrownStart
  <2>6. Torn(p) => Torn(p)'
    BY GrownTorn
  <2>7. QED
    BY <2>2, <2>4, <2>5, <2>6
<1>4. OrderOf(rd, got)'
  <2>1. \A p \in Starts : p \in Starts' /\ Cell(p)' = Cell(p)
    BY GrownStart
  <2>2. OrderOf(rd, got)
    BY <1>0 DEF PlaysOf
  <2>3. QED
    BY <1>0, <2>1, <2>2 DEF OrderOf
<1>5. CoverOf(rd, got, hist)'
  <2>1. SUFFICES ASSUME ~hist.cut, rd.pc # "closed", NEW p \in Starts',
                        Whole(p)', hist.from <= p, EndOf(p)' <= rd.pos
                 PROVE  \/ \E i \in DOMAIN got : got[i] = [frame |-> Cell(p)'.frame, whole |-> TRUE]
                        \/ BehindTear(p)'
    BY <1>0 DEF CoverOf
  <2>2. p \in Starts
    <3>1. p < Len(disk)
      <4>1. EndOf(p)' \in Nat /\ p < EndOf(p)' /\ p \in Nat
        BY EndBehind
      <4>2. QED
        BY <1>1, <2>1, <4>1
    <3>2. QED
      BY <3>1, GrownStarts
  <2>3. EndOf(p)' = EndOf(p) /\ Cell(p)' = Cell(p)
    BY <2>2, GrownStart
  <2>4. Whole(p)
    <3>1. EndOf(p) <= Len(disk)
      BY <1>1, <2>1, <2>2, <2>3, EndFacts
    <3>2. QED
      BY <2>1, <2>2, <3>1, GrownWhole
  <2>5. \/ \E i \in DOMAIN got : got[i] = [frame |-> Cell(p).frame, whole |-> TRUE]
        \/ BehindTear(p)
    BY <1>0, <2>1, <2>2, <2>3, <2>4 DEF PlaysOf, CoverOf
  <2>6. QED
    BY <2>2, <2>3, <2>5, GrownBehind
<1>6. InsideOf(rd, hist)'
  <2>1. SUFFICES ASSUME rd.pc = "idle", ~hist.cut, NEW p \in Starts',
                        hist.from <= p, p < rd.pos, rd.pos < EndOf(p)'
                 PROVE  Torn(p)' \/ BehindTear(p)'
    BY <1>0 DEF InsideOf
  <2>2. p \in Starts
    <3>1. p \in Nat
      BY <2>1 DEF Starts, Positions
    <3>2. QED
      BY <1>1, <2>1, <3>1, GrownStarts
  <2>3. EndOf(p)' = EndOf(p)
    BY <2>2, GrownStart
  <2>4. Torn(p) \/ BehindTear(p)
    BY <1>0, <2>1, <2>2, <2>3 DEF PlaysOf, InsideOf
  <2>5. QED
    BY <2>2, <2>4, GrownTorn, GrownBehind
<1>7. NextOf(rd, hist)'
  <2>1. SUFFICES ASSUME rd.pc = "idle", ~hist.cut
                 PROVE  \/ TearBefore(rd.pos)' \/ CodesFrom(rd.pos)' # {}
                        \/ \E p \in Starts' : rd.pos = EndOf(p)'
    BY <1>0 DEF NextOf
  <2>2. TearBefore(rd.pos) => TearBefore(rd.pos)'
    <3> DEFINE q == rd.pos
    <3>1. q' = q
      BY <1>0
    <3>2. TearBefore(q) => \E t \in Starts' : t < q /\ Torn(t)'
      BY GrownStarts, GrownTorn DEF TearBefore
    <3>3. QED
      BY <3>1, <3>2 DEF TearBefore
  <2>3. CodesFrom(rd.pos) # {} => CodesFrom(rd.pos)' # {}
    <3>1. ASSUME NEW p \in CodesFrom(rd.pos) PROVE p \in CodesFrom(rd.pos)'
      <4>1. p \in rd.pos .. rd.pos + HeadLen - 1 /\ IsCode(p)
        BY DEF CodesFrom
      <4>2. p \in Starts
        BY <1>1, <4>1 DEF Starts, Positions, IsCode
      <4>3. p \in Starts'
        BY <4>2, GrownStarts
      <4>4. QED
        BY <1>0, <4>1, <4>3 DEF CodesFrom, Starts
    <3>2. QED
      BY <3>1
  <2>4. \A p \in Starts : p \in Starts' /\ EndOf(p)' = EndOf(p)
    BY GrownStart
  <2>5. QED
    BY <1>0, <2>1, <2>2, <2>3, <2>4 DEF PlaysOf, NextOf
<1>8. LeftOf(rd, hist)'
  <2>1. TearBefore(rd.pos) => \E t \in Starts' : t < rd.pos /\ Torn(t)'
    BY GrownStarts, GrownTorn DEF TearBefore
  <2>2. QED
    BY <1>0, <2>1 DEF PlaysOf, LeftOf, TearBefore
<1>9. (rd.pc # "closed" => disk # <<>>)'
  <2>1. disk # <<>> => disk' # <<>>
    BY <1>1, EmptySeq, FileTypes DEF FileInv
  <2>2. QED
    BY <1>0, <2>1 DEF PlaysOf
<1>10. QED
  BY <1>2, <1>3, <1>4, <1>5, <1>6, <1>7, <1>8, <1>9 DEF PlaysInv, PlaysOf

-----------------------------------------------------------------------------
(* The steps of the playback.                                              *)

First(C) == CHOOSE c \in C : \A d \in C : c <= d

LEMMA FirstCode ==
  ASSUME FileInv, NEW q \in Nat, CodesFrom(q) # {}
  PROVE  LET p == First(CodesFrom(q))
         IN  /\ p \in Starts /\ p \in 0 .. Len(disk) - 1 /\ q <= p /\ p < q + HeadLen
             /\ \A d \in Starts : q <= d => p <= d
<1> DEFINE S == CodesFrom(q)
           p == First(S)
<1>1. S \in SUBSET Nat /\ S # {} /\ \A c \in S : c \in q .. q + HeadLen - 1 /\ c < Len(disk) /\ c \in Starts
  BY TopFacts DEF CodesFrom, Starts, Positions, IsCode
<1>2. \E c \in S : \A d \in S : c <= d
  <2> HIDE DEF S
  <2>1. QED
    BY <1>1, LeastNumber
<1>3. p \in S /\ \A d \in S : p <= d
  <2> HIDE DEF S
  <2>1. QED
    BY <1>2, Zenon DEF First
<1>4. /\ p \in Starts /\ p \in 0 .. Len(disk) - 1 /\ q <= p /\ p < q + HeadLen /\ p \in Nat
  <2> HIDE DEF p, S
  <2>1. QED
    BY <1>1, <1>3, TopFacts
<1>5. ASSUME NEW d \in Starts, q <= d PROVE p <= d
  <2> HIDE DEF p
  <2>1. CASE d \in S
    BY <1>3, <2>1
  <2>2. CASE d \notin S
    BY <1>4, <1>5, <2>2, StartFacts, TopFacts DEF CodesFrom, Starts
  <2>3. QED
    BY <2>1, <2>2
<1> HIDE DEF p, S
<1>6. QED
  BY <1>4, <1>5 DEF p, S

LEMMA BehindFacts ==
  ASSUME FileInv, NEW q \in Nat, q <= Len(disk), NEW n \in Nat
  PROVE  /\ Behind(q, n) \in Nat /\ Behind(q, n) \in Positions
         /\ q <= Behind(q, n) /\ Behind(q, n) <= q + n
         /\ q + n <= Len(disk) => Behind(q, n) = q + n
         /\ q + n > Len(disk) => Behind(q, n) = Len(disk)
BY TopFacts DEF Behind, Positions

(* A read within its limit may count one more window.                      *)
LEMMA NextTry ==
  ASSUME NEW t, t \in 0 .. TryLimit + 1, t <= TryLimit
  PROVE  t + 1 \in 0 .. TryLimit + 1
BY LengthsAssumption

(* What the types say of the position and the delivered frames.            *)
LEMMA PlayTypes ==
  ASSUME FileInv, PlaysInv
  PROVE  /\ rd = [pc |-> rd.pc, pos |-> rd.pos, frame |-> rd.frame, len |-> rd.len, tries |-> rd.tries]
         /\ rd.pc \in {"closed", "idle", "body", "ended"}
         /\ rd.pos \in Nat /\ rd.pos <= Len(disk) /\ rd.pos \in Positions
         /\ rd.frame \in 0 .. Len(kinds) /\ rd.len \in 0 .. TornLen /\ rd.tries \in 0 .. TryLimit + 1
         /\ got \in Seq(Delivery) /\ Len(got) \in Nat /\ DOMAIN got = 1 .. Len(got)
         /\ \A i \in DOMAIN got : got[i].frame \in 1 .. Len(kinds) /\ got[i].frame \in Nat
         /\ hist = [from |-> hist.from, cut |-> hist.cut, end |-> hist.end]
         /\ hist.from \in Positions /\ hist.from \in Nat /\ hist.cut \in BOOLEAN
         /\ hist.end \in Positions
         /\ Len(disk) \in Nat /\ Len(kinds) \in Nat
<1>1. TypesOf(rd, got, hist)
  BY DEF PlaysInv, PlaysOf
<1>2. Len(disk) \in Nat /\ Len(kinds) \in Nat
  BY FileTypes
<1>3. QED
  BY <1>1, <1>2 DEF TypesOf, Positions

(* Where the frames that end between two positions begin.                  *)
LEMMA StillCovered ==
  ASSUME FileInv, PlaysInv, rd.pc = "idle", ~hist.cut, NEW p \in Starts, Whole(p),
         hist.from <= p, p < rd.pos
  PROVE  \/ \E i \in DOMAIN got : got[i] = [frame |-> Cell(p).frame, whole |-> TRUE]
         \/ BehindTear(p)
<1>1. CoverOf(rd, got, hist) /\ InsideOf(rd, hist)
  BY DEF PlaysInv, PlaysOf
<1>2. EndOf(p) \in Nat /\ rd.pos \in Nat
  BY EndFacts, PlayTypes
<1>3. CASE EndOf(p) <= rd.pos
  BY <1>1, <1>3 DEF CoverOf
<1>4. CASE rd.pos < EndOf(p)
  BY <1>1, <1>4, WholeNotTorn DEF InsideOf
<1>5. QED
  BY <1>2, <1>3, <1>4

(* Nothing begins before a position but what begins before it.             *)
LEMMA OrderGoesOn ==
  ASSUME FileInv, PlaysInv, NEW r, r.pos \in Nat, rd.pos <= r.pos, r.pc # "body"
  PROVE  OrderOf(r, got)
<1>1. OrderOf(rd, got)
  BY DEF PlaysInv, PlaysOf
<1>2. ASSUME NEW p \in Starts, p < rd.pos PROVE p < r.pos
  BY <1>2, StartFacts, PlayTypes
<1>3. QED
  BY <1>1, <1>2 DEF OrderOf

LEMMA HeadPlays ==
  ASSUME FileInv, PlaysInv, FindsHead
  PROVE  PlaysOf(rd', got', hist')
<1> DEFINE p == First(Codes)
           end == Behind(p, HeadLen)
           parsed(n, len) == [rd EXCEPT !.pc = "body", !.pos = end, !.frame = n, !.len = len, !.tries = 0]
<1>1. /\ rd.pc = "idle" /\ Codes # {} /\ got' = got
      /\ IF IsHead(p)
         THEN rd' = parsed(Cell(p).frame, LenAt(p)) /\ hist' = hist
         ELSE /\ rd' \in {Ended(end)} \cup {parsed(Cell(p).frame, l) : l \in 1 .. TornLen}
              /\ hist' = [hist EXCEPT !.cut = @ \/ p + HeadLen > Len(disk), !.end = Len(disk)]
  BY DEF FindsHead, First
<1>2. /\ p \in Starts /\ p \in 0 .. Len(disk) - 1 /\ p \in Nat
      /\ rd.pos <= p /\ p < rd.pos + HeadLen
      /\ \A d \in Starts : rd.pos <= d => p <= d
  <2>1. Codes = CodesFrom(rd.pos) /\ rd.pos \in Nat
    BY PlayTypes DEF Codes, CodesFrom
  <2>2. QED
    BY <1>1, <2>1, FirstCode, StartFacts
<1>3. /\ end \in Nat /\ end \in Positions /\ p < end /\ end <= p + HeadLen /\ rd.pos <= end
      /\ p + HeadLen <= Len(disk) => end = p + HeadLen
      /\ Cell(p).frame \in 1 .. Len(kinds) /\ Cell(p).frame \in Nat
      /\ LenAt(p) \in 1 .. MaxLen /\ disk # <<>> /\ HeadLen \in Nat /\ Len(disk) \in Nat
  <2>1. /\ Behind(p, HeadLen) \in Nat /\ Behind(p, HeadLen) \in Positions
        /\ p < Behind(p, HeadLen) /\ Behind(p, HeadLen) <= p + HeadLen
        /\ rd.pos <= Behind(p, HeadLen)
        /\ p + HeadLen <= Len(disk) => Behind(p, HeadLen) = p + HeadLen
    <3> HIDE DEF p
    <3>0. p \in Nat /\ p < Len(disk) /\ p <= Len(disk) /\ HeadLen \in Nat /\ 1 < HeadLen /\ Len(disk) \in Nat
          /\ rd.pos \in Nat
      BY <1>2, TopFacts, PlayTypes
    <3>1. /\ Behind(p, HeadLen) \in Nat /\ Behind(p, HeadLen) \in Positions
          /\ Behind(p, HeadLen) <= p + HeadLen
          /\ p + HeadLen <= Len(disk) => Behind(p, HeadLen) = p + HeadLen
          /\ p + HeadLen > Len(disk) => Behind(p, HeadLen) = Len(disk)
      BY <3>0, BehindFacts
    <3>2. p < Behind(p, HeadLen)
      BY <3>0, <3>1
    <3>3. QED
      BY <1>2, <3>0, <3>1, <3>2
  <2>2. Cell(p).frame \in 1 .. Len(kinds) /\ Cell(p).frame \in Nat /\ LenAt(p) \in 1 .. MaxLen
    <3> HIDE DEF p
    <3>1. QED
      BY <1>2, CellFacts, KindFacts
  <2>3. disk # <<>> /\ HeadLen \in Nat /\ Len(disk) \in Nat
    <3>1. rd.pc # "closed" => disk # <<>>
      BY DEF PlaysInv, PlaysOf
    <3>2. QED
      BY <1>1, <3>1, PlayTypes, TopFacts
  <2>4. QED
    BY <2>1, <2>2, <2>3
<1> HIDE DEF p, end
<1>4. /\ rd'.pos = end
      /\ \/ /\ rd'.pc = "body" /\ rd'.frame = Cell(p).frame /\ rd'.len \in 1 .. TornLen
            /\ IsHead(p) => rd'.len = LenAt(p)
            /\ rd' \in [pc : {"body"}, pos : {end}, frame : {Cell(p).frame}, len : 1 .. TornLen, tries : {0}]
         \/ rd' = Ended(end) /\ rd'.pc = "ended" /\ ~IsHead(p)
  <2>1. ASSUME NEW l \in 1 .. TornLen, rd' = parsed(Cell(p).frame, l)
        PROVE  /\ rd'.pos = end /\ rd'.pc = "body" /\ rd'.frame = Cell(p).frame
               /\ rd'.len = l /\ rd'.len \in 1 .. TornLen
               /\ rd' = [pc |-> "body", pos |-> end, frame |-> Cell(p).frame, len |-> l, tries |-> 0]
               /\ rd' \in [pc : {"body"}, pos : {end}, frame : {Cell(p).frame}, len : 1 .. TornLen, tries : {0}]
    <3> DEFINE n == Cell(p).frame
    <3>1. rd' = [rd EXCEPT !.pc = "body", !.pos = end, !.frame = n, !.len = l, !.tries = 0]
      BY <2>1
    <3> HIDE DEF n
    <3>2. rd' = [pc |-> "body", pos |-> end, frame |-> n, len |-> l, tries |-> 0]
      BY <3>1, PlayTypes
    <3>3. QED
      BY <3>2 DEF n
  <2>2. ASSUME rd' = Ended(end) PROVE rd'.pos = end /\ rd'.pc = "ended"
    BY <2>2 DEF Ended, Reset, Idle
  <2>3. CASE IsHead(p)
    <3>1. LenAt(p) \in 1 .. TornLen
      BY <1>3, TopFacts
    <3>2. QED
      BY <1>1, <2>1, <2>3, <3>1
  <2>4. CASE ~IsHead(p)
    BY <1>1, <1>3, <2>1, <2>2, <2>4
  <2>5. QED
    BY <2>3, <2>4
<1>5. /\ hist'.from = hist.from /\ ~hist'.cut => ~hist.cut
      /\ ~hist'.cut /\ ~IsHead(p) => p + HeadLen <= Len(disk)
      /\ hist' \in [from : Positions, cut : BOOLEAN, end : Positions]
  <2>1. Len(disk) \in Positions /\ (p + HeadLen > Len(disk)) \in BOOLEAN
    BY <1>3 DEF Positions
  <2>2. CASE IsHead(p)
    BY <1>1, <2>2, PlayTypes
  <2>3. CASE ~IsHead(p)
    <3> DEFINE over == p + HeadLen > Len(disk)
    <3>1. hist' = [hist EXCEPT !.cut = @ \/ over, !.end = Len(disk)]
      BY <1>1, <2>3
    <3>2. p + HeadLen <= Len(disk) <=> ~over
      BY <1>2, <1>3
    <3>3. over \in BOOLEAN
      OBVIOUS
    <3> HIDE DEF over
    <3>4. hist' = [from |-> hist.from, cut |-> hist.cut \/ over, end |-> Len(disk)]
      BY <3>1, PlayTypes
    <3>5. hist'.from = hist.from /\ hist'.cut = (hist.cut \/ over)
          /\ hist' \in [from : Positions, cut : BOOLEAN, end : Positions]
      BY <2>1, <3>3, <3>4, PlayTypes
    <3>6. QED
      BY <3>2, <3>5
  <2>4. QED
    BY <2>2, <2>3
<1>6. ~hist'.cut /\ ~IsHead(p) => Torn(p)
  BY <1>2, <1>5, HeadTorn
<1>7. TypesOf(rd', got', hist')
  <2>1. rd' \in [pc : {"closed", "idle", "body", "ended"}, pos : Positions,
                 frame : 0 .. Len(kinds), len : 0 .. TornLen, tries : 0 .. TryLimit + 1]
    <3>1. Cell(p).frame \in 0 .. Len(kinds) /\ 0 \in 0 .. Len(kinds) /\ 0 \in 0 .. TornLen
          /\ 1 .. TornLen \subseteq 0 .. TornLen /\ 0 \in 0 .. TryLimit + 1
      <4>1. Cell(p).frame \in 0 .. Len(kinds)
        <5> DEFINE n == Cell(p).frame
                   m == Len(kinds)
        <5>1. n \in 1 .. m /\ m \in Nat
          BY <1>3, PlayTypes
        <5> HIDE DEF n, m
        <5>2. n \in 0 .. m
          BY <5>1
        <5>3. QED
          BY <5>2 DEF n, m
      <4>2. 0 \in 0 .. Len(kinds)
        BY PlayTypes
      <4>3. 0 \in 0 .. TornLen /\ 1 .. TornLen \subseteq 0 .. TornLen /\ 0 \in 0 .. TryLimit + 1
        BY LengthsAssumption
      <4>4. QED
        BY <4>1, <4>2, <4>3
    <3>2. CASE rd' = Ended(end)
      BY <1>3, <3>1, <3>2 DEF Ended, Reset, Idle
    <3>3. CASE rd' \in [pc : {"body"}, pos : {end}, frame : {Cell(p).frame}, len : 1 .. TornLen, tries : {0}]
      <4> DEFINE n == Cell(p).frame
      <4>1. n \in 0 .. Len(kinds)
        BY <3>1
      <4> HIDE DEF n
      <4>2. rd' \in [pc : {"body"}, pos : {end}, frame : {n}, len : 1 .. TornLen, tries : {0}]
        BY <3>3 DEF n
      <4>3. QED
        BY <1>3, <3>1, <4>1, <4>2
    <3>4. QED
      BY <1>4, <3>2, <3>3
  <2>2. QED
    BY <1>1, <1>5, <2>1, PlayTypes DEF TypesOf
<1>8. BodyOf(rd', hist')
  <2>1. CASE rd'.pc = "body" /\ ~hist'.cut
    <3>1. rd'.pos = p + HeadLen
      <4>1. IsHead(p) => p + HeadLen <= Len(disk)
        BY DEF IsHead
      <4>2. QED
        BY <1>3, <1>4, <1>5, <2>1, <4>1
    <3>2. IF IsHead(p) THEN rd'.len = LenAt(p) ELSE Torn(p)
      BY <1>4, <1>6, <2>1
    <3>3. QED
      BY <1>2, <1>4, <2>1, <3>1, <3>2 DEF BodyOf
  <2>2. QED
    BY <2>1 DEF BodyOf
<1>9. OrderOf(rd', got')
  <2>1. CASE rd'.pc # "body"
    BY <1>1, <1>3, <1>4, <2>1, OrderGoesOn
  <2>2. CASE rd'.pc = "body"
    <3>1. OrderOf(rd, got)
      BY DEF PlaysInv, PlaysOf
    <3>2. ASSUME NEW d \in Starts, d < rd.pos
          PROVE  d < rd'.pos /\ Cell(d).frame < Cell(p).frame
      <4>1. d \in Nat /\ d < p /\ d < end
        BY <1>2, <1>3, <3>2, StartFacts, PlayTypes
      <4>2. QED
        BY <1>2, <1>4, <4>1, StartsRise
    <3>3. rd'.frame = Cell(p).frame /\ p < rd'.pos
      BY <1>3, <1>4, <2>2
    <3>4. QED
      BY <1>1, <1>2, <3>1, <3>2, <3>3 DEF OrderOf
  <2>3. QED
    BY <2>1, <2>2
<1>10. CoverOf(rd', got', hist')
  <2>1. SUFFICES ASSUME ~hist'.cut, NEW d \in Starts, Whole(d), hist'.from <= d, EndOf(d) <= rd'.pos
                 PROVE  \/ \E i \in DOMAIN got : got[i] = [frame |-> Cell(d).frame, whole |-> TRUE]
                        \/ BehindTear(d)
    BY <1>1 DEF CoverOf
  <2>2. d < rd.pos
    <3>1. d \in Nat /\ d + HeadLen < EndOf(d) /\ EndOf(d) \in Nat
      BY EndFacts, StartFacts
    <3>2. d < p
      BY <1>2, <1>3, <1>4, <2>1, <3>1
    <3>3. QED
      BY <1>2, <3>1, <3>2, PlayTypes
  <2>3. QED
    BY <1>1, <1>5, <2>1, <2>2, StillCovered
<1>11. InsideOf(rd', hist') /\ NextOf(rd', hist')
  BY <1>4 DEF InsideOf, NextOf
<1>12. LeftOf(rd', hist')
  BY <1>2, <1>3, <1>4, <1>6 DEF LeftOf, TearBefore
<1>13. QED
  BY <1>3, <1>7, <1>8, <1>9, <1>10, <1>11, <1>12 DEF PlaysOf

LEMMA NoHeadPlays ==
  ASSUME FileInv, PlaysInv, FindsNoHead
  PROVE  PlaysOf(rd', got', hist')
<1> DEFINE far == Behind(rd.pos, HeadLen)
<1>1. /\ rd.pc = "idle" /\ got' = got
      /\ hist' = [hist EXCEPT !.end = Len(disk)]
      /\ rd' = IF rd.pos = Len(disk) \/ rd.tries > TryLimit THEN Ended(rd.pos)
               ELSE [rd EXCEPT !.pos = far, !.tries = @ + 1]
  BY DEF FindsNoHead
<1>2. CodesFrom(rd.pos) = {}
  BY DEF FindsNoHead, Codes, CodesFrom
<1>3. /\ far \in Nat /\ far \in Positions /\ rd.pos <= far /\ far <= rd.pos + HeadLen
      /\ HeadLen \in Nat /\ 1 < HeadLen /\ Len(disk) \in Nat /\ Len(disk) \in Positions
  <2>1. /\ rd.pos \in Nat /\ rd.pos <= Len(disk) /\ HeadLen \in Nat /\ 1 < HeadLen
        /\ Len(disk) \in Nat /\ Len(disk) \in Positions
    BY PlayTypes, TopFacts DEF Positions
  <2>2. QED
    BY <2>1, BehindFacts
<1> HIDE DEF far
<1>4. \/ rd'.pc = "ended" /\ rd'.pos = rd.pos /\ rd' = Ended(rd.pos)
           /\ (rd.pos = Len(disk) \/ rd.pos < Len(disk))
      \/ /\ rd'.pc = "idle" /\ rd'.pos = far /\ rd.pos # Len(disk) /\ rd.tries <= TryLimit
         /\ rd' = [rd EXCEPT !.pos = far, !.tries = @ + 1]
  <2>1. CASE rd.pos = Len(disk) \/ rd.tries > TryLimit
    BY <1>1, <2>1, PlayTypes DEF Ended, Reset, Idle
  <2>2. CASE ~(rd.pos = Len(disk) \/ rd.tries > TryLimit)
    <3>1. rd' = [rd EXCEPT !.pos = far, !.tries = @ + 1]
      BY <1>1, <2>2
    <3>2. rd.tries <= TryLimit
      BY <2>2, PlayTypes, LengthsAssumption
    <3>3. QED
      BY <1>1, <2>2, <3>1, <3>2, PlayTypes
  <2>3. QED
    BY <2>1, <2>2
<1>5. /\ hist'.from = hist.from /\ hist'.cut = hist.cut /\ hist'.end = Len(disk)
      /\ hist' \in [from : Positions, cut : BOOLEAN, end : Positions]
  BY <1>1, <1>3, PlayTypes
<1>6. rd.pos <= rd'.pos /\ rd'.pos \in Nat /\ rd'.pc # "body" /\ rd'.pos <= rd.pos + HeadLen
  BY <1>3, <1>4, PlayTypes
(* No frame begins in what is passed over.                                 *)
<1>7. ASSUME NEW p \in Starts, p < rd'.pos PROVE p < rd.pos
  <2>1. p \in Nat /\ IsCode(p) /\ rd.pos \in Nat
    BY StartFacts, PlayTypes DEF Starts
  <2>2. ASSUME rd.pos <= p PROVE FALSE
    <3>1. p \in rd.pos .. rd.pos + HeadLen - 1
      BY <1>3, <1>6, <1>7, <2>1, <2>2
    <3>2. QED
      BY <1>2, <2>1, <3>1 DEF CodesFrom
  <2>3. QED
    BY <2>1, <2>2
(* The position is the end of the file or behind a tear.                   *)
<1>8. ~hist.cut => rd.pos = Len(disk) \/ TearBefore(rd.pos)
  <2>1. SUFFICES ASSUME ~hist.cut, rd.pos # Len(disk), ~TearBefore(rd.pos) PROVE FALSE
    OBVIOUS
  <2>2. PICK p \in Starts : rd.pos = EndOf(p)
    BY <1>1, <1>2, <2>1 DEF PlaysInv, PlaysOf, NextOf
  <2>3. p < rd.pos /\ rd.pos \in Nat /\ rd.pos < Len(disk)
    BY <2>1, <2>2, EndFacts, PlayTypes
  <2>4. ~Torn(p)
    BY <2>1, <2>3 DEF TearBefore
  <2>5. rd.pos \in Starts
    BY <2>2, <2>3, <2>4, NextBegins
  <2>6. rd.pos \in CodesFrom(rd.pos)
    BY <1>3, <2>3, <2>5 DEF CodesFrom, Starts
  <2>7. QED
    BY <1>2, <2>6
<1>9. TypesOf(rd', got', hist')
  <2>1. rd' \in [pc : {"closed", "idle", "body", "ended"}, pos : Positions,
                 frame : 0 .. Len(kinds), len : 0 .. TornLen, tries : 0 .. TryLimit + 1]
    <3>1. 0 \in 0 .. Len(kinds) /\ 0 \in 0 .. TornLen /\ 0 \in 0 .. TryLimit + 1
      BY PlayTypes, LengthsAssumption
    <3>2. CASE rd' = Ended(rd.pos)
      BY <3>1, <3>2, PlayTypes DEF Ended, Reset, Idle
    <3>3. CASE rd.tries <= TryLimit /\ rd' = [rd EXCEPT !.pos = far, !.tries = @ + 1]
      <4>0. rd.tries \in 0 .. TryLimit + 1 /\ rd.tries <= TryLimit
        BY <3>3, PlayTypes
      <4>1. rd.tries + 1 \in 0 .. TryLimit + 1
        BY <4>0, NextTry
      <4>2. rd' = [pc |-> rd.pc, pos |-> far, frame |-> rd.frame, len |-> rd.len, tries |-> rd.tries + 1]
        BY <3>3, PlayTypes
      <4>3. QED
        BY <1>3, <4>1, <4>2, PlayTypes
    <3>4. QED
      BY <1>4, <3>2, <3>3
  <2>2. QED
    BY <1>1, <1>5, <2>1, PlayTypes DEF TypesOf
<1>10. OrderOf(rd', got')
  BY <1>1, <1>6, OrderGoesOn
<1>11. CoverOf(rd', got', hist')
  <2>1. SUFFICES ASSUME ~hist.cut, NEW p \in Starts, Whole(p), hist.from <= p, EndOf(p) <= rd'.pos
                 PROVE  \/ \E i \in DOMAIN got : got[i] = [frame |-> Cell(p).frame, whole |-> TRUE]
                        \/ BehindTear(p)
    BY <1>1, <1>5 DEF CoverOf
  <2>2. p < rd'.pos
    BY <1>6, <2>1, EndFacts, StartFacts
  <2>3. p < rd.pos
    BY <1>7, <2>2
  <2>4. QED
    BY <1>1, <2>1, <2>3, StillCovered
<1>12. InsideOf(rd', hist')
  <2>1. SUFFICES ASSUME ~hist.cut, NEW p \in Starts, hist.from <= p, p < rd'.pos, rd'.pos < EndOf(p)
                 PROVE  Torn(p) \/ BehindTear(p)
    BY <1>5 DEF InsideOf
  <2>2. p < rd.pos /\ rd.pos < EndOf(p)
    BY <1>6, <1>7, <2>1, EndFacts, PlayTypes
  <2>3. QED
    BY <1>1, <2>1, <2>2 DEF PlaysInv, PlaysOf, InsideOf
<1>13. NextOf(rd', hist')
  <2>1. SUFFICES ASSUME ~hist.cut, rd'.pc = "idle" PROVE TearBefore(rd'.pos)
    BY <1>5 DEF NextOf
  <2>2. PICK t \in Starts : t < rd.pos /\ Torn(t)
    BY <1>4, <1>8, <2>1 DEF TearBefore
  <2>3. t < rd'.pos
    BY <1>6, <2>2, StartFacts, PlayTypes
  <2>4. QED
    BY <2>2, <2>3 DEF TearBefore
<1>14. LeftOf(rd', hist')
  <2>1. CASE rd'.pc = "ended"
    BY <1>4, <1>5, <1>8, <2>1 DEF LeftOf
  <2>2. CASE rd'.pc # "ended"
    BY <2>2 DEF LeftOf
  <2>3. QED
    BY <2>1, <2>2
<1>15. BodyOf(rd', hist')
  BY <1>6 DEF BodyOf
<1>16. disk # <<>>
  BY <1>1 DEF PlaysInv, PlaysOf
<1>17. QED
  BY <1>9, <1>10, <1>11, <1>12, <1>13, <1>14, <1>15, <1>16 DEF PlaysOf

(* The first steps of a playback, and those after a jump.                  *)
LEMMA FromHere ==
  ASSUME FileInv, disk # <<>>, NEW q \in Landings
  PROVE  PlaysOf(Reset(q), <<>>, Start(q))
<1> DEFINE r == Reset(q)
           h == Start(q)
<1>1. /\ r = [pc |-> "idle", pos |-> q, frame |-> 0, len |-> 0, tries |-> 0]
      /\ h = [from |-> q, cut |-> FALSE, end |-> 0]
  BY DEF Reset, Idle, Start
<1>2. q \in Nat /\ q \in Positions /\ q <= Len(disk) /\ Len(disk) \in Nat /\ 0 \in Positions
  BY TopFacts DEF Landings, Starts, Positions
<1> HIDE DEF r, h
<1>3. TypesOf(r, <<>>, h)
  <2>1. 0 \in 0 .. Len(kinds) /\ 0 \in 0 .. TornLen /\ 0 \in 0 .. TryLimit + 1
    BY FileTypes, LengthsAssumption
  <2>2. <<>> \in Seq(Delivery) /\ DOMAIN <<>> = {}
    OBVIOUS
  <2>3. QED
    BY <1>1, <1>2, <2>1, <2>2 DEF TypesOf
<1>4. OrderOf(r, <<>>)
  <2>1. DOMAIN <<>> = {}
    OBVIOUS
  <2>2. QED
    BY <1>1, <2>1 DEF OrderOf
<1>5. CoverOf(r, <<>>, h)
  <2>1. ASSUME NEW p \in Starts, q <= p, EndOf(p) <= q PROVE FALSE
    BY <1>2, <2>1, EndFacts, StartFacts
  <2>2. QED
    BY <1>1, <2>1 DEF CoverOf
<1>6. InsideOf(r, h)
  <2>1. ASSUME NEW p \in Starts, q <= p, p < q PROVE FALSE
    BY <1>2, <2>1, StartFacts
  <2>2. QED
    BY <1>1, <2>1 DEF InsideOf
<1>7. NextOf(r, h)
  <2>1. CASE q \in Starts
    <3>1. q \in CodesFrom(q)
      BY <1>2, <2>1, TopFacts DEF CodesFrom, Starts
    <3>2. QED
      BY <1>1, <3>1 DEF NextOf
  <2>2. CASE q \notin Starts
    <3>1. q = Len(disk) - HeadLen
      BY <2>2 DEF Landings
    <3>2. PICK c \in Starts : q < c
      BY <2>2 DEF Landings
    <3>3. c \in q .. q + HeadLen - 1 /\ IsCode(c)
      BY <1>2, <3>1, <3>2, StartFacts, TopFacts DEF Starts
    <3>4. c \in CodesFrom(q)
      BY <3>3 DEF CodesFrom
    <3>5. QED
      BY <1>1, <3>4 DEF NextOf
  <2>3. QED
    BY <2>1, <2>2
<1>8. BodyOf(r, h) /\ LeftOf(r, h)
  BY <1>1 DEF BodyOf, LeftOf
<1>9. QED
  BY <1>3, <1>4, <1>5, <1>6, <1>7, <1>8 DEF PlaysOf, r, h

(* The file begins with a frame.                                           *)
LEMMA FirstBegins ==
  ASSUME FileInv, disk # <<>>
  PROVE  0 \in Starts
<1>1. 0 \in 0 .. Len(disk) - 1 /\ Len(disk) \in Nat /\ 0 < Len(disk)
  <2>1. disk \in Seq(CellType) /\ Len(disk) \in Nat
    BY FileTypes
  <2>2. Len(disk) # 0
    BY <2>1, EmptySeq
  <2>3. QED
    BY <2>1, <2>2
<1>2. Cell(0).part \in Nat /\ Cell(0).part <= 0
  BY <1>1, CellFacts
<1>3. QED
  BY <1>1, <1>2 DEF Starts, Positions, IsCode

LEMMA OpenPlays ==
  ASSUME FileInv, Open
  PROVE  PlaysOf(rd', got', hist')
<1>1. rd' = Idle /\ got' = <<>> /\ hist' = Start(0) /\ disk # <<>>
  BY DEF Open
<1>2. Idle = Reset(0)
  BY DEF Idle, Reset
<1>3. 0 \in Landings
  BY <1>1, FirstBegins DEF Landings
<1>4. QED
  BY <1>1, <1>2, <1>3, FromHere

LEMMA EndsPlays ==
  ASSUME FileInv, ProcessEnds
  PROVE  PlaysInv'
<1> DEFINE r == [Idle EXCEPT !.pc = "closed"]
           h == Start(0)
<1>1. rd' = r /\ got' = <<>> /\ hist' = h /\ kinds' = kinds /\ disk' = disk
  BY DEF ProcessEnds
<1>2. /\ r = [pc |-> "closed", pos |-> 0, frame |-> 0, len |-> 0, tries |-> 0]
      /\ h = [from |-> 0, cut |-> FALSE, end |-> 0]
  BY DEF Idle, Start
<1>3. /\ 0 \in 0 .. Len(disk) /\ 0 \in 0 .. Len(kinds) /\ 0 \in 0 .. TornLen /\ 0 \in 0 .. TryLimit + 1
      /\ <<>> \in Seq(Delivery) /\ DOMAIN <<>> = {}
  BY FileTypes, LengthsAssumption
<1> HIDE DEF r, h
<1>4. TypesOf(rd, got, hist)'
  BY <1>1, <1>2, <1>3 DEF TypesOf, Positions
<1>5. OrderOf(rd, got)'
  BY <1>1, <1>2, <1>3 DEF OrderOf
<1>6. /\ BodyOf(rd, hist)' /\ CoverOf(rd, got, hist)' /\ InsideOf(rd, hist)'
      /\ NextOf(rd, hist)' /\ LeftOf(rd, hist)' /\ (rd.pc # "closed" => disk # <<>>)'
  BY <1>1, <1>2 DEF BodyOf, CoverOf, InsideOf, NextOf, LeftOf
<1>7. QED
  BY <1>4, <1>5, <1>6 DEF PlaysInv, PlaysOf

LEMMA DeliverPlays ==
  ASSUME FileInv, PlaysInv, rd.pc = "body", NEW cut \in BOOLEAN,
         cut <=> Len(disk) - rd.pos < rd.len,
         rd' = Reset(Behind(rd.pos, rd.len)), got' = Append(got, Delivered(rd.pos)),
         hist' = [hist EXCEPT !.cut = @ \/ (cut /\ IsHead(rd.pos - HeadLen))]
  PROVE  PlaysOf(rd', got', hist')
<1> DEFINE to == Behind(rd.pos, rd.len)
           new == Delivered(rd.pos)
           n == Len(got)
           lost == cut /\ IsHead(rd.pos - HeadLen)
<1>1. /\ rd.pos \in Nat /\ rd.pos <= Len(disk) /\ Len(disk) \in Nat /\ rd.len \in Nat /\ rd.len <= TornLen
      /\ TornLen \in Nat /\ HeadLen \in Nat /\ 1 < HeadLen
  BY PlayTypes, TopFacts
<1>2. /\ to \in Nat /\ to \in Positions /\ rd.pos <= to /\ to <= rd.pos + rd.len
      /\ ~cut => to = rd.pos + rd.len
  <2>1. /\ to \in Nat /\ to \in Positions /\ rd.pos <= to /\ to <= rd.pos + rd.len
        /\ rd.pos + rd.len <= Len(disk) => to = rd.pos + rd.len
    BY <1>1, BehindFacts
  <2> HIDE DEF to
  <2>2. QED
    BY <1>1, <2>1
<1>3. rd' = [pc |-> "idle", pos |-> to, frame |-> 0, len |-> 0, tries |-> 0]
  BY DEF Reset, Idle
<1>4. new.frame = rd.frame /\ new = [frame |-> rd.frame, whole |-> IsBody(rd.pos, rd.frame, rd.len)]
  BY DEF Delivered
<1>5. OrderOf(rd, got) /\ BodyOf(rd, hist) /\ CoverOf(rd, got, hist)
  BY DEF PlaysInv, PlaysOf
<1>6. PICK b \in Starts : b < rd.pos /\ rd.frame = Cell(b).frame
  BY <1>5 DEF OrderOf
<1>7. rd.frame \in 1 .. Len(kinds) /\ rd.frame \in Nat
  BY <1>6, StartFacts, CellFacts
<1>8. new \in Delivery
  <2>1. IsBody(rd.pos, rd.frame, rd.len) \in BOOLEAN
    BY DEF IsBody
  <2>2. QED
    BY <1>4, <1>7, <2>1 DEF Delivery
<1> HIDE DEF to, new
<1>9. /\ got' = Append(got, new) /\ got \in Seq(Delivery) /\ n \in Nat /\ DOMAIN got = 1 .. n
      /\ got' \in Seq(Delivery) /\ Len(got') = n + 1 /\ DOMAIN got' = 1 .. n + 1
      /\ got'[n + 1] = new /\ \A i \in 1 .. n : got'[i] = got[i]
  <2>1. got' = Append(got, new) /\ got \in Seq(Delivery)
    BY PlayTypes DEF new
  <2>2. QED
    BY <1>8, <2>1
<1>10. /\ hist'.from = hist.from /\ hist'.cut = (hist.cut \/ lost) /\ hist'.end = hist.end
       /\ hist' \in [from : Positions, cut : BOOLEAN, end : Positions]
  <2>1. lost \in BOOLEAN
    BY DEF IsHead
  <2> HIDE DEF lost
  <2>2. hist' = [from |-> hist.from, cut |-> hist.cut \/ lost, end |-> hist.end]
    BY PlayTypes DEF lost
  <2>3. QED
    BY <2>1, <2>2, PlayTypes
<1> HIDE DEF n
<1>11. TypesOf(rd', got', hist')
  <2>1. 0 \in 0 .. Len(kinds) /\ 0 \in 0 .. TornLen /\ 0 \in 0 .. TryLimit + 1
    BY PlayTypes, LengthsAssumption
  <2>2. rd' \in [pc : {"closed", "idle", "body", "ended"}, pos : Positions,
                 frame : 0 .. Len(kinds), len : 0 .. TornLen, tries : 0 .. TryLimit + 1]
    BY <1>2, <1>3, <2>1
  <2>3. \A i \in DOMAIN got' : got'[i].frame \in 1 .. Len(kinds)
    BY <1>4, <1>7, <1>9, PlayTypes
  <2>4. QED
    BY <1>9, <1>10, <2>2, <2>3 DEF TypesOf
<1>12. OrderOf(rd', got')
  <2>1. ASSUME NEW i \in DOMAIN got', NEW j \in DOMAIN got', i < j
        PROVE  got'[i].frame < got'[j].frame
    <3>1. i \in 1 .. n
      BY <1>9, <2>1
    <3>2. CASE j \in 1 .. n
      BY <1>5, <1>9, <2>1, <3>1, <3>2 DEF OrderOf
    <3>3. CASE j = n + 1
      BY <1>4, <1>5, <1>9, <3>1, <3>3 DEF OrderOf
    <3>4. QED
      BY <1>9, <3>2, <3>3
  <2>2. ASSUME NEW i \in DOMAIN got'
        PROVE  \E p \in Starts : p < to /\ got'[i].frame = Cell(p).frame
    <3>1. ASSUME NEW p \in Starts, p < rd.pos PROVE p < to
      BY <1>1, <1>2, <3>1, StartFacts
    <3>2. CASE i \in 1 .. n
      BY <1>5, <1>9, <3>1, <3>2 DEF OrderOf
    <3>3. CASE i = n + 1
      BY <1>4, <1>6, <1>9, <3>1, <3>3
    <3>4. QED
      BY <1>9, <3>2, <3>3
  <2>3. rd'.pos = to /\ rd'.pc # "body"
    BY <1>3
  <2>4. QED
    BY <2>1, <2>2, <2>3 DEF OrderOf
(* The frame that is read, if neither the playback nor the file ended in   *)
(* between.                                                                *)
<1>13. ~hist'.cut =>
         \E p \in Starts :
           /\ rd.pos = p + HeadLen /\ rd.frame = Cell(p).frame
           /\ p \in Nat /\ to <= ClaimedEnd(p) /\ p < to
           /\ IF IsHead(p) THEN rd.len = LenAt(p) /\ to = EndOf(p) ELSE Torn(p)
  <2>1. SUFFICES ASSUME ~hist'.cut PROVE <1>13!2
    OBVIOUS
  <2>2. ~lost /\ ~hist.cut
    BY <1>10, <2>1
  <2>3. PICK p \in Starts :
          /\ rd.pos = p + HeadLen /\ rd.frame = Cell(p).frame /\ rd.len \in 1 .. TornLen
          /\ IF IsHead(p) THEN rd.len = LenAt(p) ELSE Torn(p)
    BY <1>5, <2>2 DEF BodyOf
  <2>4. p \in Nat /\ rd.pos - HeadLen = p /\ p < to
    <3>1. p \in Nat
      BY StartFacts
    <3>2. QED
      BY <1>1, <1>2, <2>3, <3>1
  <2>5. CASE IsHead(p)
    <3>1. ~cut
      BY <2>2, <2>4, <2>5
    <3>2. to = p + HeadLen + LenAt(p)
      BY <1>1, <1>2, <2>3, <2>5, <3>1
    <3>3. to = EndOf(p) /\ to <= ClaimedEnd(p)
      BY <1>2, <2>5, <3>2, EndFacts DEF ClaimedEnd
    <3>4. QED
      BY <2>3, <2>4, <2>5, <3>3
  <2>6. CASE ~IsHead(p)
    <3>1. to <= ClaimedEnd(p)
      BY <1>1, <1>2, <2>3, <2>4, <2>6 DEF ClaimedEnd
    <3>2. QED
      BY <2>3, <2>4, <2>6, <3>1
  <2>7. QED
    BY <2>5, <2>6
(* What begins before the next position.                                   *)
<1>14. ASSUME ~hist'.cut, NEW p \in Starts, p < to, NEW q \in Starts,
              rd.pos = q + HeadLen, q \in Nat, to <= ClaimedEnd(q), q < to,
              IF IsHead(q) THEN to = EndOf(q) ELSE Torn(q), p # q, rd.pos < EndOf(p)
       PROVE  Torn(p) \/ BehindTear(p)
  <2>1. p \in Nat
    BY StartFacts
  <2>2. CASE p < q
    <3>1. q < EndOf(p)
      BY <1>1, <1>14, <2>1, EndFacts
    <3>2. QED
      BY <2>2, <3>1, BegunInside
  <2>3. CASE q < p
    <3>1. Torn(q)
      <4>1. CASE IsHead(q)
        BY <1>14, <2>3, <4>1, BegunInside
      <4>2. CASE ~IsHead(q)
        BY <1>14, <4>2
      <4>3. QED
        BY <4>1, <4>2
    <3>2. p < ClaimedEnd(q)
      <4>1. ClaimedEnd(q) \in Nat
        BY <1>14, ClaimFacts
      <4>2. QED
        BY <1>2, <1>14, <2>1, <4>1
    <3>3. QED
      BY <2>3, <3>1, <3>2 DEF BehindTear
  <2>4. QED
    BY <1>14, <2>1, <2>2, <2>3
<1>15. CoverOf(rd', got', hist')
  <2>1. SUFFICES ASSUME ~hist'.cut, NEW p \in Starts, Whole(p), hist.from <= p, EndOf(p) <= to
                 PROVE  \/ \E i \in DOMAIN got' : got'[i] = [frame |-> Cell(p).frame, whole |-> TRUE]
                        \/ BehindTear(p)
    BY <1>3, <1>10 DEF CoverOf
  <2>2. p \in Nat /\ EndOf(p) \in Nat /\ p < to
    BY <1>2, <2>1, StartFacts, EndFacts
  <2>3. CASE EndOf(p) <= rd.pos
    <3>1. ~hist.cut
      BY <1>10, <2>1
    <3>2. \/ \E i \in DOMAIN got : got[i] = [frame |-> Cell(p).frame, whole |-> TRUE]
          \/ BehindTear(p)
      BY <1>5, <2>1, <2>3, <3>1 DEF CoverOf
    <3>3. ASSUME NEW i \in DOMAIN got PROVE i \in DOMAIN got' /\ got'[i] = got[i]
      BY <1>9
    <3>4. QED
      BY <3>2, <3>3, Zenon
  <2>4. CASE rd.pos < EndOf(p)
    <3>1. PICK q \in Starts :
           /\ rd.pos = q + HeadLen /\ rd.frame = Cell(q).frame
           /\ q \in Nat /\ to <= ClaimedEnd(q) /\ q < to
           /\ IF IsHead(q) THEN rd.len = LenAt(q) /\ to = EndOf(q) ELSE Torn(q)
      BY <1>13, <2>1
    <3>2. CASE p # q
      BY <1>14, <2>1, <2>2, <2>4, <3>1, <3>2, WholeNotTorn
    <3>3. CASE p = q
      <4>1. new = [frame |-> Cell(p).frame, whole |-> TRUE]
        BY <1>4, <2>1, <3>1, <3>3 DEF Whole
      <4>2. n + 1 \in DOMAIN got'
        BY <1>9
      <4>3. QED
        BY <1>9, <4>1, <4>2
    <3>4. QED
      BY <3>2, <3>3
  <2>5. EndOf(p) <= rd.pos \/ rd.pos < EndOf(p)
    BY <1>1, <2>2
  <2>6. QED
    BY <2>3, <2>4, <2>5, Zenon
<1>16. InsideOf(rd', hist')
  <2>1. SUFFICES ASSUME ~hist'.cut, NEW p \in Starts, p < to, to < EndOf(p)
                 PROVE  Torn(p) \/ BehindTear(p)
    BY <1>3 DEF InsideOf
  <2>2. PICK q \in Starts :
         /\ rd.pos = q + HeadLen /\ rd.frame = Cell(q).frame
         /\ q \in Nat /\ to <= ClaimedEnd(q) /\ q < to
         /\ IF IsHead(q) THEN rd.len = LenAt(q) /\ to = EndOf(q) ELSE Torn(q)
    BY <1>13, <2>1
  <2>3. CASE p # q
    <3>1. rd.pos < EndOf(p)
      BY <1>1, <1>2, <2>1, EndFacts
    <3>2. QED
      BY <1>14, <2>1, <2>2, <2>3, <3>1
  <2>4. CASE p = q
    BY <1>2, <2>1, <2>2, <2>4
  <2>5. QED
    BY <2>3, <2>4
<1>17. NextOf(rd', hist')
  <2>1. SUFFICES ASSUME ~hist'.cut PROVE TearBefore(to) \/ \E p \in Starts : to = EndOf(p)
    BY <1>3 DEF NextOf
  <2>2. QED
    BY <1>13, <2>1 DEF TearBefore
<1>18. BodyOf(rd', hist') /\ LeftOf(rd', hist')
  BY <1>3 DEF BodyOf, LeftOf
<1>19. disk # <<>>
  BY DEF PlaysInv, PlaysOf
<1>20. QED
  BY <1>11, <1>12, <1>15, <1>16, <1>17, <1>18, <1>19 DEF PlaysOf

LEMMA CutPlays ==
  ASSUME FileInv, PlaysInv, rd.pc = "body", Len(disk) - rd.pos < rd.len,
         rd' = Ended(Len(disk)), got' = got,
         hist' = [hist EXCEPT !.cut = @ \/ IsHead(rd.pos - HeadLen), !.end = Len(disk)]
  PROVE  PlaysOf(rd', got', hist')
<1> DEFINE lost == IsHead(rd.pos - HeadLen)
<1>1. rd' = [pc |-> "ended", pos |-> Len(disk), frame |-> 0, len |-> 0, tries |-> 0]
  BY DEF Ended, Reset, Idle
<1>2. Len(disk) \in Nat /\ Len(disk) \in Positions /\ rd.pos <= Len(disk) /\ rd.pos \in Nat
      /\ rd.len \in Nat /\ rd.len <= TornLen /\ TornLen \in Nat /\ HeadLen \in Nat /\ 1 < HeadLen
  BY PlayTypes, TopFacts DEF Positions
<1>3. /\ hist'.from = hist.from /\ hist'.cut = (hist.cut \/ lost) /\ hist'.end = Len(disk)
      /\ hist' \in [from : Positions, cut : BOOLEAN, end : Positions]
  <2>1. lost \in BOOLEAN
    BY DEF IsHead
  <2> HIDE DEF lost
  <2>2. hist' = [from |-> hist.from, cut |-> hist.cut \/ lost, end |-> Len(disk)]
    BY PlayTypes DEF lost
  <2>3. hist.from \in Positions /\ Len(disk) \in Positions /\ hist.cut \in BOOLEAN
    BY <1>2, PlayTypes
  <2>4. (hist.cut \/ lost) \in BOOLEAN
    BY <2>1, <2>3
  <2> DEFINE c == hist.cut \/ lost
             n == Len(disk)
             h == hist'
  <2>5. c \in BOOLEAN /\ n \in Positions /\ h = [from |-> hist.from, cut |-> c, end |-> n]
    BY <2>2, <2>3, <2>4
  <2> HIDE DEF c, n, h
  <2>6. h.from = hist.from /\ h.end = n
    BY <2>5
  <2>7. h.cut = c
    BY <2>5
  <2>8. h \in [from : Positions, cut : BOOLEAN, end : Positions]
    BY <2>3, <2>5
  <2>9. QED
    BY <2>6, <2>7, <2>8, Zenon DEF c, n, h
<1>4. TypesOf(rd', got', hist')
  <2>1. 0 \in 0 .. Len(kinds) /\ 0 \in 0 .. TornLen /\ 0 \in 0 .. TryLimit + 1
    BY PlayTypes, LengthsAssumption
  <2>2. QED
    BY <1>1, <1>2, <1>3, <2>1, PlayTypes DEF TypesOf
<1>5. OrderOf(rd', got')
  BY <1>1, <1>2, OrderGoesOn
<1>6. CoverOf(rd', got', hist')
  <2>1. SUFFICES ASSUME ~hist'.cut, NEW p \in Starts, Whole(p), hist.from <= p
                 PROVE  \/ \E i \in DOMAIN got : got[i] = [frame |-> Cell(p).frame, whole |-> TRUE]
                        \/ BehindTear(p)
    BY <1>3 DEF CoverOf
  <2>2. ~hist.cut /\ ~lost
    BY <1>3, <2>1
  <2>3. BodyOf(rd, hist) /\ CoverOf(rd, got, hist)
    BY DEF PlaysInv, PlaysOf
  <2>4. PICK q \in Starts : rd.pos = q + HeadLen /\ (IF IsHead(q) THEN TRUE ELSE Torn(q))
    BY <2>2, <2>3 DEF BodyOf
  <2>5. q \in Nat /\ p \in Nat /\ p < Len(disk) /\ EndOf(p) \in Nat
    BY StartFacts, EndFacts
  <2>6. ~IsHead(q) /\ Torn(q)
    <3>1. rd.pos - HeadLen = q
      BY <1>2, <2>4, <2>5
    <3>2. QED
      BY <2>2, <2>4, <3>1
  <2>7. CASE EndOf(p) <= rd.pos
    BY <2>1, <2>2, <2>3, <2>7 DEF CoverOf
  <2>8. CASE rd.pos < EndOf(p)
    <3>1. q < EndOf(p)
      BY <1>2, <2>4, <2>5, <2>8
    <3>2. ~(p < q)
      BY <2>1, <3>1, BegunInside, WholeNotTorn
    <3>3. p # q
      BY <2>1, <2>6 DEF Whole
    <3>4. q < p
      BY <2>5, <3>2, <3>3
    <3>5. p < ClaimedEnd(q)
      BY <1>2, <2>4, <2>5, <2>6, ClaimFacts
    <3>6. QED
      BY <2>6, <3>4, <3>5 DEF BehindTear
  <2>9. QED
    BY <1>2, <2>5, <2>7, <2>8
<1>7. BodyOf(rd', hist') /\ InsideOf(rd', hist') /\ NextOf(rd', hist') /\ LeftOf(rd', hist')
  BY <1>1, <1>3 DEF BodyOf, InsideOf, NextOf, LeftOf
<1>8. disk # <<>>
  BY DEF PlaysInv, PlaysOf
<1>9. QED
  BY <1>4, <1>5, <1>6, <1>7, <1>8 DEF PlaysOf

LEMMA BodyPlays ==
  ASSUME FileInv, PlaysInv, ReadsBody
  PROVE  PlaysOf(rd', got', hist')
<1> DEFINE there == Len(disk) - rd.pos
           cut   == there < rd.len
           ends  == cut /\ ~LastCut(there, rd.len)
<1>1. /\ rd.pc = "body"
      /\ IF ends
         THEN /\ rd' = Ended(Len(disk)) /\ got' = got
              /\ hist' = [hist EXCEPT !.cut = @ \/ IsHead(rd.pos - HeadLen), !.end = Len(disk)]
         ELSE /\ rd' = Reset(Behind(rd.pos, rd.len))
              /\ got' = Append(got, Delivered(rd.pos))
              /\ hist' = [hist EXCEPT !.cut = @ \/ (cut /\ IsHead(rd.pos - HeadLen))]
  BY DEF ReadsBody
<1>2. cut \in BOOLEAN /\ (cut <=> Len(disk) - rd.pos < rd.len) /\ (ends => cut)
  OBVIOUS
<1> HIDE DEF there, cut, ends
<1>3. CASE ends
  BY <1>1, <1>2, <1>3, CutPlays
<1>4. CASE ~ends
  BY <1>1, <1>2, <1>4, DeliverPlays
<1>5. QED
  BY <1>3, <1>4

-----------------------------------------------------------------------------
IInv == FileInv /\ proc \in [ends : 0 .. MaxCrashes, video : BOOLEAN] /\ PlaysInv

LEMMA EndsInv ==
  ASSUME IInv, ProcessEnds
  PROVE  IInv'
<1>1. FileInv' /\ PlaysInv'
  BY ProcessLeaves, EndsPlays DEF IInv
<1>2. proc' \in [ends : 0 .. MaxCrashes, video : BOOLEAN]
  <2>1. proc.ends \in 0 .. MaxCrashes
    BY DEF IInv
  <2>2. proc.ends + 1 \in 0 .. MaxCrashes
    BY <2>1, TimesAssumption DEF ProcessEnds
  <2>3. QED
    BY <2>2 DEF ProcessEnds
<1>3. QED
  BY <1>1, <1>2 DEF IInv

LEMMA SameFileInv ==
  ASSUME FileInv, UNCHANGED <<kinds, disk, buf>>
  PROVE  FileInv'
<1>1. kinds' = kinds /\ disk' = disk /\ buf' = buf
  OBVIOUS
<1>2. Belongs(disk \o buf, kinds)' <=> Belongs(disk \o buf, kinds)
  BY <1>1 DEF Belongs, Size
<1>3. InOrder(disk \o buf)' <=> InOrder(disk \o buf)
  BY <1>1 DEF InOrder
<1>4. QED
  BY <1>1, <1>2, <1>3 DEF FileInv

LEMMA JumpInv ==
  ASSUME IInv, NEW off \in Offsets, NEW s \in Secs, Jump(off, s)
  PROVE  IInv'
<1>1. off \in Nat
  BY FileTypes DEF IInv, Offsets, Positions
<1>2. FileInv /\ PlaysInv /\ rd.pc = "idle"
  BY DEF IInv, Jump
<1>3. PICK q \in IF s = 0 THEN {0} ELSE Jumps(off, s) :
         \/ q = Aborts /\ ProcessEnds
         \/ q = Fails /\ UNCHANGED vars
         \/ /\ q \in Nat
            /\ rd' = Reset(q) /\ got' = <<>> /\ hist' = Start(q)
            /\ UNCHANGED <<kinds, disk, buf, proc>>
  BY DEF Jump
<1>4. CASE q = Aborts /\ ProcessEnds
  BY <1>4, EndsInv
<1>5. CASE q = Fails /\ UNCHANGED vars
  <2>1. UNCHANGED <<kinds, disk, buf, proc>> /\ PlaysOf(rd', got', hist')
    BY <1>2, <1>5 DEF vars, PlaysInv
  <2>2. QED
    BY <1>2, <2>1, SameFile, SameFileInv DEF IInv
<1>6. CASE /\ q \in Nat
           /\ rd' = Reset(q) /\ got' = <<>> /\ hist' = Start(q)
           /\ UNCHANGED <<kinds, disk, buf, proc>>
  <2>1. disk # <<>>
    BY <1>2 DEF PlaysInv, PlaysOf
  <2>2. q \in Landings
    <3>1. CASE s = 0
      BY <1>2, <1>3, <2>1, <3>1, FirstBegins DEF Landings
    <3>2. CASE s # 0
      <4>1. q \in Jumps(off, s)
        BY <1>3, <3>2
      <4>2. q \in Landings \cup {Fails, Aborts}
        BY <1>1, <1>2, <4>1, JumpsLand
      <4>3. QED
        BY <1>6, <4>2 DEF Fails, Aborts
    <3>3. QED
      BY <3>1, <3>2
  <2>3. PlaysOf(rd', got', hist')
    BY <1>2, <1>6, <2>1, <2>2, FromHere
  <2>4. FileInv' /\ PlaysInv'
    BY <1>2, <1>6, <2>3, SameFile, SameFileInv
  <2>5. QED
    BY <1>6, <2>4 DEF IInv
<1>7. QED
  BY <1>3, <1>4, <1>5, <1>6

LEMMA NextInv ==
  ASSUME IInv, [Next]_vars
  PROVE  IInv'
<1>1. FileInv /\ PlaysInv
  BY DEF IInv
<1>2. ASSUME NEW k \in Kinds, WriteFrame(k) \/ WriteBuf \/ StopRecord
      PROVE  IInv'
  <2>1. FileInv' /\ Grown
    BY <1>1, <1>2, RecorderWrites
  <2>2. UNCHANGED <<rd, got, hist>>
    BY <1>2 DEF WriteFrame, WriteBuf, StopRecord
  <2>3. PlaysInv'
    BY <1>1, <2>1, <2>2, GrownPlays
  <2>4. proc' \in [ends : 0 .. MaxCrashes, video : BOOLEAN]
    BY <1>2 DEF IInv, WriteFrame, WriteBuf, StopRecord
  <2>5. QED
    BY <2>1, <2>3, <2>4 DEF IInv
<1>3. CASE Crash
  BY <1>3, EndsInv DEF Crash
<1>4. ASSUME UNCHANGED <<kinds, disk, buf, proc>>, PlaysOf(rd', got', hist')
      PROVE  IInv'
  BY <1>1, <1>4, SameFile, SameFileInv DEF IInv
<1>5. CASE Open
  BY <1>1, <1>4, <1>5, OpenPlays DEF Open
<1>6. CASE FindsHead
  BY <1>1, <1>4, <1>6, HeadPlays DEF FindsHead
<1>7. CASE FindsNoHead
  BY <1>1, <1>4, <1>7, NoHeadPlays DEF FindsNoHead
<1>8. CASE ReadsBody
  BY <1>1, <1>4, <1>8, BodyPlays DEF ReadsBody
<1>9. CASE UNCHANGED vars
  BY <1>1, <1>4, <1>9 DEF vars, PlaysInv
<1>10. "key" \in Kinds
  BY DEF Kinds
<1>11. QED
  BY <1>2, <1>3, <1>5, <1>6, <1>7, <1>8, <1>9, <1>10, JumpInv DEF Next

LEMMA InitInv ==
  ASSUME Init
  PROVE  IInv
<1>1. /\ kinds = <<>> /\ disk = <<>> /\ buf = <<>> /\ got = <<>>
      /\ rd = [pc |-> "closed", pos |-> 0, frame |-> 0, len |-> 0, tries |-> 0]
      /\ hist = [from |-> 0, cut |-> FALSE, end |-> 0]
  BY DEF Init, Idle, Start
<1>2. /\ Len(kinds) = 0 /\ Len(disk) = 0 /\ kinds \in Seq(Kinds) /\ disk \in Seq(CellType)
      /\ buf \in Seq(CellType) /\ Len(disk \o buf) = 0
  BY <1>1
<1>3. FileInv
  <2>1. Len(Times) \in Nat
    BY TimesAssumption
  <2>2. Belongs(disk \o buf, kinds) /\ InOrder(disk \o buf)
    BY <1>2 DEF Belongs, InOrder
  <2>3. QED
    BY <1>2, <2>1, <2>2 DEF FileInv
<1>4. /\ 0 \in 0 .. Len(disk) /\ 0 \in 0 .. Len(kinds) /\ 0 \in 0 .. TornLen /\ 0 \in 0 .. TryLimit + 1
      /\ <<>> \in Seq(Delivery) /\ DOMAIN <<>> = {} /\ 0 \in 0 .. MaxCrashes
  BY <1>2, LengthsAssumption, TimesAssumption
<1>5. TypesOf(rd, got, hist)
  BY <1>1, <1>4 DEF TypesOf, Positions
<1>6. OrderOf(rd, got)
  BY <1>1, <1>4 DEF OrderOf
<1>7. /\ BodyOf(rd, hist) /\ CoverOf(rd, got, hist) /\ InsideOf(rd, hist)
      /\ NextOf(rd, hist) /\ LeftOf(rd, hist) /\ (rd.pc # "closed" => disk # <<>>)
  BY <1>1 DEF BodyOf, CoverOf, InsideOf, NextOf, LeftOf
<1>8. proc \in [ends : 0 .. MaxCrashes, video : BOOLEAN]
  BY <1>4 DEF Init
<1>9. QED
  BY <1>3, <1>5, <1>6, <1>7, <1>8 DEF IInv, PlaysInv, PlaysOf

LEMMA InvHolds == Spec => []IInv
<1>1. Init => IInv
  BY InitInv
<1>2. IInv /\ [Next]_vars => IInv'
  BY NextInv
<1>3. QED
  BY <1>1, <1>2, PTL DEF Spec

(* Every cell in the file and in the buffer is a part of a frame that was  *)
(* written; the position of the playback stays within the file, a length   *)
(* it has parsed within that of a frame, and its windows without a start   *)
(* code within the limit (wirte_es2pes_packet, read_pes2es_packet_frame).  *)
THEOREM PlaybackStaysInFile == Spec => []TypeOK
<1>1. IInv => TypeOK
  <2>1. SUFFICES ASSUME IInv PROVE TypeOK
    OBVIOUS
  <2>2. FileInv /\ PlaysInv
    BY <2>1 DEF IInv
  <2>3. ASSUME NEW c \in {disk[i] : i \in DOMAIN disk} \cup {buf[i] : i \in DOMAIN buf}
        PROVE  c.frame \in 1 .. Len(kinds) /\ c.part \in 0 .. Size(kinds[c.frame]) - 1
    <3>1. /\ disk \in Seq(CellType) /\ buf \in Seq(CellType) /\ kinds \in Seq(Kinds)
          /\ Belongs(disk \o buf, kinds)
      BY <2>2 DEF FileInv
    <3>2. \E i \in 1 .. Len(disk \o buf) : c = (disk \o buf)[i]
      <4>1. CASE c \in {disk[i] : i \in DOMAIN disk}
        <5>1. PICK i \in 1 .. Len(disk) : c = disk[i]
          BY <3>1, <4>1
        <5>2. i \in 1 .. Len(disk \o buf) /\ (disk \o buf)[i] = disk[i]
          BY <3>1
        <5>3. QED
          BY <5>1, <5>2
      <4>2. CASE c \in {buf[i] : i \in DOMAIN buf}
        <5>1. PICK i \in 1 .. Len(buf) : c = buf[i]
          BY <3>1, <4>2
        <5>2. Len(disk) + i \in 1 .. Len(disk \o buf) /\ (disk \o buf)[Len(disk) + i] = buf[i]
          BY <3>1
        <5>3. QED
          BY <5>1, <5>2
      <4>3. QED
        BY <4>1, <4>2
    <3>3. c \in CellType /\ c.frame \in 1 .. Len(kinds) /\ c.part < Size(kinds[c.frame])
      BY <3>1, <3>2 DEF Belongs
    <3>4. c.part \in Nat /\ kinds[c.frame] \in Kinds
      BY <3>1, <3>3 DEF CellType
    <3>5. Size(kinds[c.frame]) \in Nat
      BY <3>4, SizeBounds
    <3>6. QED
      BY <3>3, <3>4, <3>5
  <2>4. TypesOf(rd, got, hist)
    BY <2>2 DEF PlaysInv, PlaysOf
  <2>5. kinds \in Seq(Kinds) /\ Len(kinds) \in 0 .. Len(Times)
    BY <2>2 DEF FileInv
  <2>6. proc \in [ends : 0 .. MaxCrashes, video : BOOLEAN]
    BY <2>1 DEF IInv
  <2>7. QED
    BY <2>3, <2>4, <2>5, <2>6 DEF TypeOK, TypesOf
<1>2. QED
  BY <1>1, InvHolds, PTL

(* Wherever the process ended and whatever the lengths are, a playback     *)
(* delivers what is whole in the file, in order and once, but for what     *)
(* begins before the end that a torn frame claims, and leaves the file     *)
(* before its end only behind a tear (read_pes2es_packet_frame,            *)
(* seek_pes_head).                                                         *)
THEOREM TearsCostTheirFrames == Spec => []TearCostsItsFrame
<1>1. IInv => TearCostsItsFrame
  <2>1. SUFFICES ASSUME IInv PROVE TearCostsItsFrame
    OBVIOUS
  <2>2. OrderOf(rd, got) /\ CoverOf(rd, got, hist) /\ LeftOf(rd, hist)
    BY <2>1 DEF IInv, PlaysInv, PlaysOf
  <2>3. \A p \in Starts : EndOf(p) = p + Size(KindAt(p))
    BY DEF EndOf
  <2>4. QED
    BY <2>2, <2>3, Zenon DEF TearCostsItsFrame, OrderOf, CoverOf, LeftOf, TearBefore, EndOf
<1>2. QED
  BY <1>1, InvHolds, PTL

-----------------------------------------------------------------------------
(* Where a jump arrives.                                                   *)

LEMMA TimesRise ==
  ASSUME FileInv, NEW p \in 0 .. Len(disk) - 1, NEW q \in 0 .. Len(disk) - 1, p <= q
  PROVE  TimeAt(p) \in Nat /\ TimeAt(q) \in Nat /\ TimeAt(p) <= TimeAt(q)
<1> DEFINE m == Cell(p).frame
           n == Cell(q).frame
<1>1. m \in 1 .. Len(kinds) /\ n \in 1 .. Len(kinds)
  BY CellFacts
<1>2. m <= n
  <2>1. CASE p = q
    BY <1>1, <2>1
  <2>2. CASE p < q
    BY <2>2, CellOrder
  <2>3. QED
    BY <2>1, <2>2
<1> HIDE DEF m, n
<1>3. m \in Frames /\ n \in Frames /\ Times \in Seq(Nat)
  BY <1>1, TimesAssumption DEF FileInv, Frames
<1>4. Times[m] \in Nat /\ Times[n] \in Nat
  BY <1>3 DEF Frames
<1>5. Times[m] <= Times[n]
  <2>1. CASE m = n
    BY <1>4, <2>1
  <2>2. CASE m < n
    BY <1>3, <2>2, TimesAssumption
  <2>3. QED
    BY <1>1, <1>2, <2>1, <2>2
<1>6. MsOf(DtsOf(Times[m])) \in Nat /\ MsOf(DtsOf(Times[n])) \in Nat
  BY <1>4, TimeIsKept
<1>7. MsOf(DtsOf(Times[m])) <= MsOf(DtsOf(Times[n]))
  BY <1>4, <1>5, OrderIsKept
<1>8. QED
  BY <1>6, <1>7 DEF TimeAt, m, n

LEMMA HeadFacts ==
  ASSUME FileInv, NEW p \in Nat, IsHead(p)
  PROVE  /\ p \in Starts /\ p + HeadLen <= Len(disk) /\ p \in 0 .. Len(disk) - 1 /\ p \in 0 .. Top
         /\ IsCode(p)
<1>1. p + HeadLen <= Len(disk) /\ Cell(p + 0) = [frame |-> Cell(p).frame, part |-> 0]
  BY TopFacts DEF IsHead
<1>2. p < Len(disk) /\ Cell(p).part = 0
  BY <1>1, TopFacts
<1>3. QED
  BY <1>1, <1>2, TopFacts DEF Starts, Positions, IsCode

(* The key frames that a jump to s must not pass over.                     *)
Late(s) == {p \in Starts : IsHead(p) /\ KindAt(p) = "key" /\ TimeAt(p) >= s * 1000}

LEMMA LateIsWanted ==
  ASSUME FileInv, NEW s \in Nat, NEW p \in Late(s)
  PROVE  Wanted(p, s) /\ p \in Starts /\ IsHead(p) /\ p \in Nat
<1>1. p \in Starts /\ IsHead(p) /\ KindAt(p) = "key" /\ TimeAt(p) >= s * 1000
  BY DEF Late
<1>2. p \in 0 .. Len(disk) - 1 /\ p \in Nat
  BY <1>1, StartFacts
<1>3. TimeAt(p) \in Nat
  BY <1>2, TimesRise
<1>4. TimeAt(p) > (s - 2) * 1000
  BY <1>1, <1>3
<1>5. QED
  BY <1>1, <1>2, <1>4 DEF Wanted

(* An early frame stands before those that must not be passed over.        *)
LEMMA EarlyBefore ==
  ASSUME FileInv, NEW s \in Nat, NEW v \in Starts, TimeAt(v) < s * 1000,
         NEW p \in Starts, TimeAt(p) >= s * 1000
  PROVE  v < p
<1>1. v \in 0 .. Len(disk) - 1 /\ p \in 0 .. Len(disk) - 1 /\ v \in Nat /\ p \in Nat
  BY StartFacts
<1>2. TimeAt(v) \in Nat /\ TimeAt(p) \in Nat
  BY <1>1, TimesRise
<1>3. ASSUME p <= v PROVE FALSE
  BY <1>1, <1>2, <1>3, TimesRise
<1>4. QED
  BY <1>1, <1>3

(* Where a walk from x arrives, unless it has met a header that is cut: at *)
(* a frame that is wanted, and it passed over nothing but what lies behind *)
(* a tear.                                                                 *)
ArrivedFrom(x, q, s) ==
  \/ Astray(q)
  \/ /\ q \in Nat /\ IsHead(q) /\ Wanted(q, s) /\ x <= q
     /\ \A p \in Late(s) : x <= p /\ p < q => BehindTear(p)
PassesTorn(f, x, s) == \A q \in f[x] \ {Fails} : ArrivedFrom(x, q, s)

LEMMA PassesStep ==
  ASSUME FileInv, NEW s \in Nat, NEW f, NEW y \in 0 .. Top,
         \A z \in y + 1 .. Top : PassesTorn(f, z, s),
         NEW q \in ArrivesFrom(f, y, s), q # Fails
  PROVE  ArrivedFrom(y, q, s)
<1>1. IsCode(y)
  BY DEF ArrivesFrom
<1>2. /\ y \in 0 .. Len(disk) - 1 /\ y \in Nat /\ y \in Starts
      /\ \A l \in 1 .. TornLen : y + HeadLen + l \in y + 1 .. Top
      /\ y + HeadLen + LenAt(y) \in y + 1 .. Top
      /\ EndOf(y) = y + HeadLen + LenAt(y) /\ EndOf(y) \in Nat
  BY <1>1, FurtherOn, EndFacts, TopFacts DEF Starts, Positions
<1>3. ASSUME NEW z \in y + 1 .. Top, q \in f[z]
      PROVE  ArrivedFrom(z, q, s) /\ y <= z
  BY <1>2, <1>3 DEF PassesTorn
<1>4. CASE ~IsHead(y)
  <2>1. CASE q \in {e \in {Taken(y)} : e >= 0}
    <3>1. q = y \/ q = Len(disk) - HeadLen
      BY <2>1 DEF Taken
    <3>2. QED
      BY <1>2, <1>4, <3>1 DEF ArrivedFrom, Astray
  <2>2. CASE q \in UNION {f[y + HeadLen + l] : l \in 1 .. TornLen}
    <3>1. PICK l \in 1 .. TornLen : q \in f[y + HeadLen + l]
      BY <2>2
    <3> DEFINE z == y + HeadLen + l
    <3>2. z \in y + 1 .. Top /\ q \in f[z]
      BY <1>2, <3>1
    <3> HIDE DEF z
    <3>3. ArrivedFrom(z, q, s) /\ y <= z
      BY <1>3, <3>2
    <3>4. CASE Astray(q)
      BY <3>4 DEF ArrivedFrom
    <3>5. CASE ~Astray(q)
      <4>1. q \in Nat /\ z <= q
        BY <3>3, <3>5 DEF ArrivedFrom
      <4>2. y <= q
        BY <1>2, <3>2, <4>1
      <4>3. QED
        BY <1>2, <1>4, <4>2 DEF ArrivedFrom, Astray
    <3>6. QED
      BY <3>4, <3>5
  <2>3. QED
    BY <1>1, <1>4, <2>1, <2>2 DEF ArrivesFrom
<1>5. CASE IsHead(y) /\ Wanted(y, s)
  <2>1. q = y
    BY <1>1, <1>5 DEF ArrivesFrom
  <2>2. \A p \in Late(s) : ~(y <= p /\ p < y)
    BY <1>2, LateIsWanted
  <2>3. QED
    BY <1>2, <1>5, <2>1, <2>2 DEF ArrivedFrom
<1>6. CASE IsHead(y) /\ ~Wanted(y, s)
  <2> DEFINE z == EndOf(y)
  <2>1. z \in y + 1 .. Top /\ q \in f[z] /\ z \in Nat
    BY <1>1, <1>2, <1>6 DEF ArrivesFrom
  <2> HIDE DEF z
  <2>2. ArrivedFrom(z, q, s) /\ y <= z
    BY <1>3, <2>1
  <2>3. CASE Astray(q)
    BY <2>3 DEF ArrivedFrom
  <2>4. CASE ~Astray(q)
    <3>1. /\ IsHead(q) /\ Wanted(q, s) /\ z <= q /\ q \in Nat
          /\ \A p \in Late(s) : z <= p /\ p < q => BehindTear(p)
      BY <2>2, <2>4 DEF ArrivedFrom
    <3>3. ASSUME NEW p \in Late(s), y <= p, p < q PROVE BehindTear(p)
      <4>1. p \in Starts /\ Wanted(p, s) /\ p \in Nat
        BY LateIsWanted
      <4>2. y < p
        <5>1. y # p
          BY <1>6, <4>1
        <5>2. QED
          BY <1>2, <3>3, <4>1, <5>1
      <4>3. CASE p < z
        <5>1. Torn(y)
          BY <1>2, <4>1, <4>2, <4>3, BegunInside DEF z
        <5>2. ClaimedEnd(y) = z
          BY <1>2, <1>6, ClaimFacts DEF z
        <5>3. QED
          BY <1>2, <4>2, <4>3, <5>1, <5>2 DEF BehindTear
      <4>4. CASE z <= p
        BY <3>1, <3>3, <4>4
      <4>5. QED
        BY <2>1, <4>1, <4>3, <4>4
    <3>4. y <= q
      BY <1>2, <2>1, <2>2, <3>1
    <3>5. QED
      BY <3>1, <3>3, <3>4 DEF ArrivedFrom
  <2>5. QED
    BY <2>3, <2>4
<1>7. QED
  BY <1>4, <1>5, <1>6

LEMMA PassesOver ==
  ASSUME FileInv, NEW s \in Nat, NEW f, f = [q \in 0 .. Top |-> ArrivesFrom(f, q, s)],
         NEW x \in 0 .. Top
  PROVE  PassesTorn(f, x, s)
<1> DEFINE S == {y \in 0 .. Top : PassesTorn(f, y, s)}
<1>1. ASSUME NEW y \in 0 .. Top, \A z \in y + 1 .. Top : z \in S
      PROVE  y \in S
  <2>1. f[y] = ArrivesFrom(f, y, s)
    BY Zenon
  <2>2. \A z \in y + 1 .. Top : PassesTorn(f, z, s)
    BY <1>1
  <2>3. ASSUME NEW q \in f[y] \ {Fails} PROVE ArrivedFrom(y, q, s)
    <3>1. q \in ArrivesFrom(f, y, s) /\ q # Fails
      BY <2>1, <2>3, Zenon
    <3>2. QED
      BY <2>2, <3>1, PassesStep, Zenon
  <2>4. QED
    BY <2>3, Zenon DEF PassesTorn
<1>2. Top \in Nat /\ S \in SUBSET (0 .. Top)
  BY TopFacts
<1>3. S = 0 .. Top
  <2> HIDE DEF S
  <2>1. QED
    BY <1>1, <1>2, FromTheEnd
<1>4. QED
  BY <1>3

(* Without a tear a walk from before a frame that is wanted arrives.       *)
LEMMA ArrivesStep ==
  ASSUME FileInv, NEW s \in Nat, NEW f, NEW y \in 0 .. Top, NEW p \in Late(s),
         \A t \in Starts : ~Torn(t),
         \A z \in y + 1 .. Top : z \in Starts /\ z <= p => Fails \notin f[z],
         y \in Starts, y <= p
  PROVE  Fails \notin ArrivesFrom(f, y, s)
<1>1. p \in Starts /\ IsHead(p) /\ Wanted(p, s) /\ p \in Nat /\ p + HeadLen <= Len(disk)
  BY LateIsWanted, HeadFacts
<1>2. /\ y \in Nat /\ IsCode(y) /\ y # Fails
      /\ y + HeadLen + LenAt(y) \in y + 1 .. Top
      /\ EndOf(y) = y + HeadLen + LenAt(y) /\ EndOf(y) \in Nat
  BY StartFacts, EndFacts, FurtherOn DEF Starts, Fails
<1>3. IsHead(y)
  <2>1. y + HeadLen <= Len(disk)
    BY <1>1, <1>2, TopFacts
  <2>2. QED
    BY <2>1, HeadTorn
<1>4. CASE Wanted(y, s)
  BY <1>2, <1>3, <1>4 DEF ArrivesFrom
<1>5. CASE ~Wanted(y, s)
  <2>1. y < p
    <3>1. y # p
      BY <1>1, <1>5
    <3>2. QED
      BY <1>1, <1>2, <3>1
  <2>2. EndOf(y) <= p
    <3>1. ASSUME p < EndOf(y) PROVE FALSE
      BY <1>1, <2>1, <3>1, BegunInside
    <3>2. QED
      BY <1>1, <1>2, <3>1
  <2>3. EndOf(y) \in Starts
    <3>1. EndOf(y) < Len(disk)
      BY <1>1, <1>2, <2>2, TopFacts
    <3>2. QED
      BY <3>1, NextBegins
  <2>4. ArrivesFrom(f, y, s) = f[EndOf(y)]
    BY <1>2, <1>3, <1>5 DEF ArrivesFrom
  <2>5. EndOf(y) \in y + 1 .. Top
    BY <1>2
  <2> HIDE DEF EndOf
  <2>6. QED
    BY <2>2, <2>3, <2>4, <2>5
<1>6. QED
  BY <1>4, <1>5

LEMMA ArrivesSafely ==
  ASSUME FileInv, NEW s \in Nat, NEW f, f = [q \in 0 .. Top |-> ArrivesFrom(f, q, s)],
         NEW p \in Late(s), \A t \in Starts : ~Torn(t), NEW x \in Starts, x <= p
  PROVE  Fails \notin f[x]
<1> DEFINE S == {y \in 0 .. Top : y \in Starts /\ y <= p => Fails \notin f[y]}
<1>1. ASSUME NEW y \in 0 .. Top, \A z \in y + 1 .. Top : z \in S
      PROVE  y \in S
  <2>1. f[y] = ArrivesFrom(f, y, s)
    BY Zenon
  <2>2. \A z \in y + 1 .. Top : z \in Starts /\ z <= p => Fails \notin f[z]
    BY <1>1
  <2>3. ASSUME y \in Starts, y <= p PROVE Fails \notin f[y]
    BY <2>1, <2>2, <2>3, ArrivesStep, Zenon
  <2>4. QED
    BY <2>3
<1>2. Top \in Nat /\ S \in SUBSET (0 .. Top)
  BY TopFacts
<1>3. S = 0 .. Top
  <2> HIDE DEF S
  <2>1. QED
    BY <1>1, <1>2, FromTheEnd
<1>4. x \in 0 .. Top
  BY StartFacts, TopFacts
<1>5. QED
  BY <1>3, <1>4

-----------------------------------------------------------------------------
(* The parts a jump searches.                                              *)

NothingIn(off, k) == \A p \in VideosIn(FromOf(off, k), ToOf(off, k)) : MaybePassed(p, FromOf(off, k))
GoesBack(off, s, k) ==
  \/ NothingIn(off, k) /\ ToOf(off, k) <= Len(disk)
  \/ \E p \in FoundIn(FromOf(off, k), ToOf(off, k)) : TornHead(p) \/ ~(TimeAt(p) < s * 1000)

(* A part in which the search may fail or abort.                           *)
LeadsOut(off, k) ==
  \/ NothingIn(off, k) /\ ToOf(off, k) > Len(disk)
  \/ TornIn(FromOf(off, k), ToOf(off, k)) # {}

LEMMA LastStep ==
  ASSUME FileInv, NEW off
  PROVE  \E k \in Steps(off) : \A j \in Steps(off) : j <= k
<1> DEFINE n == Len(disk) + 1
           T == {m \in Nat : m <= n /\ n - m \in Steps(off)}
<1>1. n \in Nat /\ 0 \in Steps(off) /\ Steps(off) \subseteq 0 .. n
  BY TopFacts DEF Steps
<1> HIDE DEF n
<1>2. T \in SUBSET Nat /\ n \in T
  <2>1. n - n = 0
    BY <1>1
  <2>2. QED
    BY <1>1, <2>1
<1>3. PICK m \in T : \A l \in T : m <= l
  <2> HIDE DEF T
  <2>1. QED
    BY <1>2, LeastNumber
<1>4. m \in Nat /\ m <= n /\ n - m \in Steps(off)
  OBVIOUS
<1>5. ASSUME NEW j \in Steps(off) PROVE j <= n - m
  <2>1. j \in Nat /\ n - j \in Nat /\ n - j <= n /\ n - (n - j) = j
    BY <1>1
  <2>2. n - j \in T
    BY <2>1
  <2> HIDE DEF T
  <2>3. m <= n - j
    BY <1>3, <2>2
  <2>4. QED
    BY <1>1, <1>4, <2>1, <2>3
<1>6. QED
  BY <1>4, <1>5

LEMMA JumpCases ==
  ASSUME FileInv, NEW off, NEW s, NEW q \in Jumps(off, s)
  PROVE  \/ \E k \in Steps(off) : \E p \in FoundIn(FromOf(off, k), ToOf(off, k)) :
              (TornHead(p) \/ TimeAt(p) < s * 1000) /\ q \in SeekBySecs(p, s)
         \/ /\ q = Fails
            /\ \E k \in Steps(off) :
                 /\ \A j \in Steps(off) : j <= k
                 /\ \A j \in 0 .. k : GoesBack(off, s, j)
         \/ /\ q \in {Fails, Aborts}
            /\ \E k \in Steps(off) : LeadsOut(off, k)
<1> DEFINE from(k)    == FromOf(off, k)
           to(k)      == ToOf(off, k)
           Early(p)   == TimeAt(p) < s * 1000
           Reached    == {k \in Steps(off) : \A j \in 0 .. k - 1 : GoesBack(off, s, j)}
           Last       == CHOOSE k \in Steps(off) : \A j \in Steps(off) : j <= k
           starts     == UNION {{p \in FoundIn(from(k), to(k)) : TornHead(p) \/ Early(p)} : k \in Reached}
<1>1. Jumps(off, s) = (UNION {SeekBySecs(p, s) : p \in starts})
        \cup (IF Last \in Reached /\ GoesBack(off, s, Last) THEN {Fails} ELSE {})
        \cup (IF \E k \in Reached : LeadsOut(off, k) THEN {Fails, Aborts} ELSE {})
  BY DEF Jumps, NothingIn, GoesBack, LeadsOut
<1>2. Last \in Steps(off) /\ \A j \in Steps(off) : j <= Last
  BY LastStep, Zenon
<1>3. CASE q \in UNION {SeekBySecs(p, s) : p \in starts}
  <2>1. PICK p \in starts : q \in SeekBySecs(p, s)
    BY <1>3
  <2>2. PICK k \in Reached : p \in FoundIn(from(k), to(k)) /\ (TornHead(p) \/ Early(p))
    BY <2>1
  <2>3. QED
    BY <2>1, <2>2, Zenon
<1>4. CASE q = Fails /\ Last \in Reached /\ GoesBack(off, s, Last)
  <2> HIDE DEF Last
  <2>1. \A j \in 0 .. Last - 1 : GoesBack(off, s, j)
    BY <1>4
  <2>2. Last \in Nat
    BY <1>2, StepsType
  <2>3. ASSUME NEW j \in 0 .. Last PROVE GoesBack(off, s, j)
    <3>1. j \in 0 .. Last - 1 \/ j = Last
      BY <2>2, <2>3
    <3>2. QED
      BY <1>4, <2>1, <3>1
  <2>4. QED
    BY <1>2, <1>4, <2>3, Zenon
<1>5. CASE q \in {Fails, Aborts} /\ \E k \in Reached : LeadsOut(off, k)
  <2>1. PICK k \in Reached : LeadsOut(off, k)
    BY <1>5
  <2>2. k \in Steps(off)
    BY <2>1
  <2>3. QED
    BY <1>5, <2>1, <2>2, Zenon
<1> HIDE DEF starts, Reached, Last
<1>6. QED
  BY <1>1, <1>3, <1>4, <1>5

LEMMA StepsAdd ==
  ASSUME NEW k \in Nat
  PROVE  /\ k * Step \in Nat /\ k <= k * Step /\ (k + 1) * Step = k * Step + Step
         /\ Step \in Nat /\ 0 < Step
<1>1. Step \in Nat /\ 0 < Step
  BY LengthsAssumption
<1>2. k * Step \in Nat /\ (k + 1) * Step = k * Step + Step
  BY <1>1
<1>3. k <= k * Step
  <2>1. k * (Step - 1) \in Nat /\ k * Step = k * (Step - 1) + k
    BY <1>1
  <2>2. QED
    BY <1>2, <2>1
<1>4. QED
  BY <1>1, <1>2, <1>3

(* The step back from one part to the next.                                *)
LEMMA PartFacts ==
  ASSUME FileInv, NEW off \in Nat, NEW k \in Nat
  PROVE  /\ FromOf(off, k) \in Nat /\ FromOf(off, k) <= off /\ ToOf(off, k) \in Nat
         /\ FromOf(off, k + 1) = 0 => FromOf(off, k) <= Step
         /\ FromOf(off, k + 1) = 0 => ToOf(off, k + 1) = Step + HeadLen
         /\ FromOf(off, k + 1) > 0 => ToOf(off, k + 1) = FromOf(off, k) + HeadLen
         /\ FromOf(off, k) > 0 => k < off
         /\ ToOf(off, 0) = Len(disk)
<1> DEFINE ks == k * Step
           ls == (k + 1) * Step
<1>1. ks \in Nat /\ k <= ks /\ ls = ks + Step /\ Step \in Nat /\ 0 < Step
  BY StepsAdd
<1> HIDE DEF ks, ls
<1>2. /\ FromOf(off, k) = IF off > ks THEN off - ks ELSE 0
      /\ FromOf(off, k + 1) = IF off > ls THEN off - ls ELSE 0
  BY DEF FromOf, ks, ls
<1>3. /\ FromOf(off, k) \in Nat /\ FromOf(off, k) <= off
      /\ FromOf(off, k + 1) \in Nat
      /\ FromOf(off, k + 1) = 0 => FromOf(off, k) <= Step
      /\ FromOf(off, k) > 0 => k < off
  BY <1>1, <1>2
<1>4. ToOf(off, k) \in Nat
  <2>1. FromOf(off, k - 1) \in Nat \/ k = 0
    <3>1. k = 0 \/ k - 1 \in Nat
      OBVIOUS
    <3>2. QED
      BY <3>1, FromOfType
  <2>2. QED
    BY <1>1, <2>1, TopFacts DEF ToOf
<1>5. (k + 1) - 1 = k /\ k + 1 # 0
  OBVIOUS
<1>6. /\ FromOf(off, k + 1) = 0 => ToOf(off, k + 1) = Step + HeadLen
      /\ FromOf(off, k + 1) > 0 => ToOf(off, k + 1) = FromOf(off, k) + HeadLen
      /\ ToOf(off, 0) = Len(disk)
  BY <1>3, <1>5 DEF ToOf
<1>7. QED
  BY <1>3, <1>4, <1>6

LEMMA LastFromBeginning ==
  ASSUME FileInv, NEW off \in Nat, off <= Len(disk),
         NEW k \in Steps(off), \A j \in Steps(off) : j <= k
  PROVE  FromOf(off, k) = 0
<1>1. k \in Nat /\ Len(disk) \in Nat
  BY StepsType, TopFacts
<1>2. FromOf(off, k) \in Nat /\ (FromOf(off, k) > 0 => k < off)
  BY <1>1, PartFacts
<1>3. ASSUME FromOf(off, k) > 0 PROVE FALSE
  <2>1. k + 1 \in 0 .. Len(disk) + 1 /\ (k + 1) - 1 = k
    BY <1>1, <1>2, <1>3
  <2>2. k + 1 \in Steps(off)
    BY <1>3, <2>1 DEF Steps
  <2>3. QED
    BY <1>1, <2>2
<1>4. QED
  BY <1>2, <1>3

(* The parts leave nothing out between the beginning and the end.          *)
LEMMA PartsCover ==
  ASSUME FileInv, NEW off \in Nat, NEW k \in Nat, FromOf(off, k) = 0,
         NEW v \in Nat, v + HeadLen <= Len(disk)
  PROVE  \E j \in 0 .. k : FromOf(off, j) <= v /\ v <= ToOf(off, j) - HeadLen
<1> DEFINE T == {j \in Nat : FromOf(off, j) <= v}
<1>1. PICK j \in T : \A i \in T : j <= i
  <2>1. T \in SUBSET Nat /\ k \in T
    OBVIOUS
  <2> HIDE DEF T
  <2>2. QED
    BY <2>1, LeastNumber
<1>2. k \in T /\ j \in Nat /\ FromOf(off, j) <= v
  OBVIOUS
<1>3. j \in 0 .. k
  <2>1. j <= k
    BY <1>1, <1>2
  <2>2. QED
    BY <1>2, <2>1
<1>4. v <= ToOf(off, j) - HeadLen
  <2>1. CASE j = 0
    <3>1. ToOf(off, j) = Len(disk)
      BY <2>1 DEF ToOf
    <3>2. QED
      BY <3>1, TopFacts
  <2>2. CASE j # 0
    <3> DEFINE i == j - 1
    <3>1. i \in Nat /\ i + 1 = j /\ ~(j <= i)
      BY <1>2, <2>2
    <3>2. i \notin T
      <4> HIDE DEF T
      <4>1. QED
        BY <1>1, <3>1
    <3>3. ~(FromOf(off, i) <= v)
      BY <3>1, <3>2
    <3> HIDE DEF i, T
    <3>4. /\ FromOf(off, i) \in Nat
          /\ FromOf(off, i + 1) = 0 => FromOf(off, i) <= Step
          /\ FromOf(off, i + 1) = 0 => ToOf(off, i + 1) = Step + HeadLen
          /\ FromOf(off, i + 1) > 0 => ToOf(off, i + 1) = FromOf(off, i) + HeadLen
          /\ FromOf(off, i + 1) \in Nat
      <4>1. i + 1 \in Nat
        BY <3>1
      <4>2. FromOf(off, i + 1) \in Nat
        BY <4>1, FromOfType
      <4>3. QED
        BY <3>1, <4>2, PartFacts
    <3>5. v <= ToOf(off, i + 1) - HeadLen
      <4> DEFINE x == FromOf(off, i)
                 y == FromOf(off, i + 1)
                 z == ToOf(off, i + 1)
      <4>1. /\ x \in Nat /\ y \in Nat /\ ~(x <= v)
            /\ y = 0 => x <= Step /\ z = Step + HeadLen
            /\ y > 0 => z = x + HeadLen
        BY <3>3, <3>4
      <4>2. HeadLen \in Nat /\ Step \in Nat
        BY LengthsAssumption
      <4> HIDE DEF x, y, z
      <4>3. v <= z - HeadLen
        BY <4>1, <4>2
      <4>4. QED
        BY <4>3 DEF z
    <3>6. QED
      BY <3>1, <3>5
  <2>3. QED
    BY <2>1, <2>2
<1>5. QED
  BY <1>2, <1>3, <1>4

LEMMA VideoFacts ==
  ASSUME FileInv, NEW a \in Nat, NEW b, NEW p \in VideosIn(a, b)
  PROVE  p \in Nat /\ p \in Starts /\ IsHead(p) /\ KindAt(p) \in Videos /\ a <= p /\ p + HeadLen <= Len(disk)
<1>1. p \in a .. b - HeadLen /\ IsHead(p) /\ KindAt(p) \in Videos
  BY DEF VideosIn
<1>2. p \in Nat /\ a <= p
  BY <1>1
<1>3. QED
  BY <1>1, <1>2, HeadFacts

(* Without a tear a search gives up on nothing.                            *)
LEMMA NonePassed ==
  ASSUME FileInv, \A t \in Starts : ~Torn(t), NEW a \in Nat, NEW b, NEW p \in VideosIn(a, b)
  PROVE  ~MaybePassed(p, a)
<1>1. ASSUME NEW g \in a .. p - 1, IsCode(g), ~IsHead(g) PROVE FALSE
  <2>1. p \in Nat /\ p + HeadLen <= Len(disk)
    BY VideoFacts
  <2>2. g \in Nat /\ g < p
    BY <1>1, <2>1
  <2>3. g + HeadLen <= Len(disk) /\ g \in Positions
    BY <2>1, <2>2, TopFacts DEF Positions
  <2>4. QED
    BY <1>1, <2>3, HeadTorn DEF Starts
<1>2. QED
  BY <1>1 DEF MaybePassed

LEMMA EarlyStops ==
  ASSUME FileInv, \A t \in Starts : ~Torn(t), NEW off \in Nat, NEW s \in Nat, NEW k \in Nat,
         NEW v \in VideosIn(FromOf(off, k), ToOf(off, k)), TimeAt(v) < s * 1000
  PROVE  ~GoesBack(off, s, k) /\ ~NothingIn(off, k)
<1> DEFINE a == FromOf(off, k)
           b == ToOf(off, k)
<1>1. a \in Nat
  BY PartFacts
<1> HIDE DEF a, b
<1>2. v \in VideosIn(a, b) /\ v \in Starts
  BY <1>1, VideoFacts DEF a, b
<1>3. ~MaybePassed(v, a)
  BY <1>1, <1>2, NonePassed
<1>4. ~NothingIn(off, k)
  BY <1>2, <1>3 DEF NothingIn, a, b
<1>5. ASSUME NEW p \in FoundIn(a, b), TornHead(p) \/ ~(TimeAt(p) < s * 1000) PROVE FALSE
  <2>1. p \in Starts /\ p \in 0 .. Len(disk) - 1
    BY <1>1, FoundFacts, StartFacts
  <2>0. ~(TimeAt(p) < s * 1000)
    BY <1>5, <2>1, TornHeadIsTorn
  <2>2. TimeAt(p) \in Nat
    BY <2>1, TimesRise
  <2>3. TimeAt(p) >= s * 1000
    BY <2>0, <2>2
  <2>4. v < p
    BY <1>2, <2>1, <2>3, EarlyBefore
  <2>5. QED
    BY <1>2, <1>3, <2>4 DEF FoundIn
<1>6. QED
  BY <1>4, <1>5 DEF GoesBack, a, b

(* A jump, from whichever offset of the index, arrives at a key frame less *)
(* than two seconds before the time asked for, or later, and passes over   *)
(* none of that time or later unless that one begins in the body a torn    *)
(* frame should have had; it may do otherwise where it meets a header that *)
(* is cut.  Without tears it finds one, for every length of a step, of a   *)
(* buffer and of the frames (record_seek, seek_frame_whence,               *)
(* seek_frame_by_secs).                                                    *)
THEOREM JumpsAreRight == Spec => []JumpIsRight
<1>1. IInv => JumpIsRight
  <2> SUFFICES ASSUME FileInv, NEW off \in Offsets, NEW s \in Secs \ {0}
               PROVE
    LET keys     == {p \in Starts : IsHead(p) /\ KindAt(p) = "key" /\ TimeAt(p) >= s * 1000}
        videos   == VideosIn(0, Len(disk))
        outcomes == Jumps(off, s)
    IN  /\ \A q \in outcomes \ {Fails, Aborts} :
             \/ Astray(q)
             \/ /\ IsHead(q) /\ Wanted(q, s)
                /\ \A p \in keys : p < q => BehindTear(p)
        /\ outcomes \cap {Fails, Aborts} # {} =>
             \/ keys = {} \/ \A v \in videos : TimeAt(v) >= s * 1000
             \/ off > Len(disk) - HeadLen
             \/ \E t \in Starts : Torn(t)
    BY Zenon DEF JumpIsRight, IInv
  <2>1. s \in Nat /\ off \in Nat /\ off <= Len(disk) /\ Len(disk) \in Nat /\ HeadLen \in Nat
    BY TimesAssumption, TopFacts DEF Offsets, Positions
  (* Where it arrives.                                                     *)
  <2>2. ASSUME NEW q \in Jumps(off, s) \ {Fails, Aborts}, ~Astray(q)
        PROVE  IsHead(q) /\ Wanted(q, s) /\ \A p \in Late(s) : p < q => BehindTear(p)
    <3>1. PICK k \in Steps(off) : \E v \in FoundIn(FromOf(off, k), ToOf(off, k)) :
              (TornHead(v) \/ TimeAt(v) < s * 1000) /\ q \in SeekBySecs(v, s)
      BY <2>2, JumpCases, Zenon
    <3>2. PICK v \in FoundIn(FromOf(off, k), ToOf(off, k)) :
              (TornHead(v) \/ TimeAt(v) < s * 1000) /\ q \in SeekBySecs(v, s)
      BY <3>1
    <3>3. k \in Nat /\ FromOf(off, k) \in Nat
      BY <2>1, StepsType, PartFacts
    <3>4. v \in Starts /\ v \in 0 .. Top
      BY <3>3, FoundFacts
    <3>5. PICK f : /\ f = [x \in 0 .. Top |-> ArrivesFrom(f, x, s)]
                   /\ SeekBySecs(v, s) = f[v]
      BY SeekIsArrives
    <3>6. PassesTorn(f, v, s)
      BY <2>1, <3>4, <3>5, PassesOver, Zenon
    <3>7. q \in f[v] \ {Fails}
      BY <2>2, <3>2, <3>5, Zenon
    <3>8. /\ IsHead(q) /\ Wanted(q, s) /\ v <= q
          /\ \A p \in Late(s) : v <= p /\ p < q => BehindTear(p)
      BY <2>2, <3>6, <3>7 DEF PassesTorn, ArrivedFrom
    <3>9. TimeAt(v) < s * 1000
      BY <2>2, <3>2, <3>4, <3>8 DEF Astray, TornHead
    <3>10. ASSUME NEW p \in Late(s) PROVE v <= p
      <4>1. p \in Starts /\ TimeAt(p) >= s * 1000
        BY DEF Late
      <4>2. v < p
        BY <2>1, <3>4, <3>9, <4>1, EarlyBefore
      <4>3. QED
        BY <3>4, <4>1, <4>2, StartFacts
    <3>11. QED
      BY <3>8, <3>10
  (* Without a tear it arrives.                                            *)
  <2>3. ASSUME NEW q \in Jumps(off, s), q \in {Fails, Aborts}, NEW p \in Late(s),
               NEW w \in VideosIn(0, Len(disk)), ~(TimeAt(w) >= s * 1000),
               ~(off > Len(disk) - HeadLen), \A t \in Starts : ~Torn(t)
        PROVE  FALSE
    <3>1. w \in Nat /\ w \in Starts /\ IsHead(w) /\ KindAt(w) \in Videos /\ w + HeadLen <= Len(disk)
      BY VideoFacts
    <3>2. TimeAt(w) < s * 1000
      <4>1. TimeAt(w) \in Nat
        BY <3>1, StartFacts, TimesRise
      <4>2. QED
        BY <2>1, <2>3, <4>1
    <3>3. ASSUME NEW k \in Steps(off), NEW v \in FoundIn(FromOf(off, k), ToOf(off, k)),
                 TornHead(v) \/ TimeAt(v) < s * 1000, q \in SeekBySecs(v, s)
          PROVE  FALSE
      <4>1. k \in Nat /\ FromOf(off, k) \in Nat
        BY <2>1, StepsType, PartFacts
      <4>2. v \in Starts /\ v \in 0 .. Top
        BY <4>1, FoundFacts
      <4>3. PICK f : /\ f = [x \in 0 .. Top |-> ArrivesFrom(f, x, s)]
                     /\ SeekBySecs(v, s) = f[v]
        BY SeekIsArrives
      <4>4. v <= p
        <5>1. p \in Starts /\ TimeAt(p) >= s * 1000
          BY DEF Late
        <5>2. v < p
          <6>1. TimeAt(v) < s * 1000
            BY <2>3, <3>3, <4>2, TornHeadIsTorn
          <6>2. QED
            BY <2>1, <4>2, <5>1, <6>1, EarlyBefore
        <5>3. QED
          BY <4>2, <5>1, <5>2, StartFacts
      <4>5. Fails \notin f[v]
        BY <2>1, <2>3, <4>2, <4>3, <4>4, ArrivesSafely, Zenon
      <4>6. f[v] \subseteq Landings \cup {Fails}
        BY <4>2, <4>3, ArrivesLands, Zenon
      <4>7. Aborts \notin Landings \cup {Fails}
        BY TopFacts DEF Landings, Starts, Positions, Aborts, Fails
      <4>8. q \in f[v]
        BY <3>3, <4>3, Zenon
      <4>9. QED
        BY <2>3, <4>5, <4>6, <4>7, <4>8, Zenon
    <3>4. ASSUME NEW k \in Steps(off), \A j \in Steps(off) : j <= k,
                 \A j \in 0 .. k : GoesBack(off, s, j)
          PROVE  FALSE
      <4>1. k \in Nat /\ FromOf(off, k) = 0
        BY <2>1, <3>4, StepsType, LastFromBeginning
      <4>2. PICK j \in 0 .. k : FromOf(off, j) <= w /\ w <= ToOf(off, j) - HeadLen
        BY <2>1, <3>1, <4>1, PartsCover
      <4>3. j \in Nat
        BY <4>1
      <4>4. FromOf(off, j) \in Nat /\ ToOf(off, j) \in Nat
        BY <2>1, <4>3, PartFacts
      <4>5. w \in VideosIn(FromOf(off, j), ToOf(off, j))
        BY <2>1, <3>1, <4>2, <4>4 DEF VideosIn
      <4>6. ~GoesBack(off, s, j)
        BY <2>1, <2>3, <3>2, <4>3, <4>5, EarlyStops
      <4>7. QED
        BY <3>4, <4>2, <4>6
    <3>5. ASSUME NEW k \in Steps(off), LeadsOut(off, k)
          PROVE  FALSE
      <4>1. k \in Nat
        BY StepsType
      <4>0. NothingIn(off, k) /\ ToOf(off, k) > Len(disk)
        <5>1. ASSUME NEW t \in TornIn(FromOf(off, k), ToOf(off, k)) PROVE FALSE
          <6>1. FromOf(off, k) \in Nat
            BY <2>1, <4>1, PartFacts
          <6>2. TornHead(t) /\ t \in Nat
            BY <6>1 DEF TornIn
          <6>3. t \in Starts
            BY <2>1, <6>2 DEF TornHead, IsCode, Starts, Positions
          <6>4. QED
            BY <2>3, <6>2, <6>3, TornHeadIsTorn
        <5>2. QED
          BY <3>5, <5>1 DEF LeadsOut
      <4>2. k # 0
        <5>1. k = 0 => ToOf(off, k) = Len(disk)
          BY DEF ToOf
        <5>2. QED
          BY <2>1, <4>0, <5>1
      <4>3. PICK i \in Nat : k = i + 1
        <5>1. k - 1 \in Nat /\ k = (k - 1) + 1
          BY <4>1, <4>2
        <5>2. QED
          BY <5>1
      <4> DEFINE a == FromOf(off, i)
                 b == FromOf(off, i + 1)
                 c == ToOf(off, i + 1)
      <4>4. /\ a \in Nat /\ a <= off /\ b \in Nat /\ c \in Nat
            /\ b = 0 => c = Step + HeadLen
            /\ b > 0 => c = a + HeadLen
        <5>1. i + 1 \in Nat
          OBVIOUS
        <5>2. b \in Nat /\ c \in Nat
          BY <2>1, <5>1, PartFacts
        <5>3. QED
          BY <2>1, <5>2, PartFacts
      <4>5. c > Len(disk) /\ NothingIn(off, i + 1)
        BY <4>0, <4>3
      <4>6. off + HeadLen <= Len(disk)
        BY <2>1, <2>3
      <4> HIDE DEF a, b, c
      <4>7. b = 0 /\ c = Step + HeadLen
        BY <2>1, <4>4, <4>5, <4>6
      <4>8. w \in b .. c - HeadLen
        BY <2>1, <3>1, <4>4, <4>5, <4>7
      <4>9. w \in VideosIn(FromOf(off, i + 1), ToOf(off, i + 1))
        BY <3>1, <4>8 DEF VideosIn, b, c
      <4>10. i + 1 \in Nat
        OBVIOUS
      <4>11. ~NothingIn(off, i + 1)
        BY <2>1, <2>3, <3>2, <4>9, <4>10, EarlyStops
      <4>12. QED
        BY <4>5, <4>11
    <3>6. QED
      BY <3>3, <3>4, <3>5, JumpCases, Zenon
  <2>4. ASSUME Jumps(off, s) \cap {Fails, Aborts} # {}, Late(s) # {},
               ~(\A v \in VideosIn(0, Len(disk)) : TimeAt(v) >= s * 1000),
               ~(off > Len(disk) - HeadLen), ~(\E t \in Starts : Torn(t))
        PROVE  FALSE
    <3>1. PICK q \in Jumps(off, s) : q \in {Fails, Aborts}
      BY <2>4
    <3>2. PICK p : p \in Late(s)
      BY <2>4
    <3>3. PICK w \in VideosIn(0, Len(disk)) : ~(TimeAt(w) >= s * 1000)
      BY <2>4
    <3>4. QED
      BY <2>3, <2>4, <3>1, <3>2, <3>3, Zenon
  <2>5. QED
    BY <2>2, <2>4, Zenon DEF Late
<1>2. QED
  BY <1>1, InvHolds, PTL

=============================================================================
