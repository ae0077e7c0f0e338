------------------------ MODULE RecorderIndexProofs ------------------------
(***************************************************************************)
(* Theorems about what the index of RecorderTask says: which units were    *)
(* recorded, and where in the file they begin; and that the task keeps     *)
(* what Archive promises of it.                                            *)
(***************************************************************************)
EXTENDS RecorderFileProofs

(* The time a unit of a file begins; the one after it begins at its end.   *)
Begin(f, i) == f * FileSecs + i * UnitSecs

Marked(units, i) == units[i].type # CLOSED

(* A unit of a file by the time of day the code keeps of it.               *)
AtUnitTime(r, u) ==
  r.file \in Nat /\ u \in UnitIdx /\ r.unitTime = FileTime(r) + u * UnitSecs

(* An index shows only units that are over and were recorded, and those in *)
(* the order of the file.                                                  *)
Kept(f, units, h, c) ==
  /\ \A i \in UnitIdx :
       Marked(units, i) => <<f, i>> \in h.covered /\ Begin(f, i + 1) <= c
  /\ f \notin h.torn => Monotone(units)

(* The unit whose end the task waits for is recorded, and not marked yet.  *)
AtUnit(r, u, h, c) ==
  /\ AtUnitTime(r, u)
  /\ Begin(r.file, u) <= c
  /\ <<r.file, u>> \in h.covered
  /\ \A i \in UnitIdx : Marked(r.units, i) => i < u

(* An open file has been so from that unit on; the last poll was before    *)
(* the end of that unit, and the units since it was opened are marked.     *)
Covers(f, u, h, c) ==
  \A i \in UnitIdx : u <= i /\ Begin(f, i) <= c => <<f, i>> \in h.covered
Completes(r, u, h, seen) ==
  /\ seen < Begin(r.file, u + 1)
  /\ CLOSED \notin Types =>
       \A i \in UnitIdx :
         i < u /\ h.openedAt < Begin(r.file, i + 1) => Marked(r.units, i)

Counted(r, h) == r.file \notin h.torn => \A i \in UnitIdx : r.units[i].offset <= r.len

(* No card was pulled.                                                     *)
Undamaged == card /\ rec.fd # "stale" /\ pc # "lost" /\ hist.pulled = {}

(* The running pass knows what is to come: the loop goes on only with a    *)
(* file open, a stop closes one, and the file whose index is saved has a   *)
(* name.                                                                   *)
PassHolds ==
  /\ pass.loop = "on" => rec.fd = "open"
  /\ pc \in {"stopping", "closing"} =>
       rec.fd # "none" /\ pass.loop = "last" /\ pass.then # "checking"
  /\ pc \in {"cutting", "writing"} =>
       rec.file \in Nat /\ (rec.fd # "none" => pass.then = "checking")

SavedKept == \A f \in DOMAIN idx : Kept(f, idx[f], hist, clock)
HeldKept ==
  /\ rec.file # NoFile => Kept(rec.file, rec.units, hist, clock)
  /\ rec.file = NoFile => rec.units = NoUnits
  /\ Counted(rec, hist)

(* There is another pass to come for the file, unless something stops it.  *)
Going ==
  \/ pc = "saving"
  \/ pc = "idle" /\ rec.fd = "open"
  \/ /\ pc \in {"checking", "cutting", "writing"}
     /\ rec.fd = "open" /\ pass.loop # "over"
  \/ /\ pc \in {"stopping", "closing", "cutting", "writing"}
     /\ pass.then \in {"saving", "failed"}
Waits ==
  Going =>
    \E u \in UnitIdx :
      /\ AtUnit(rec, u, hist, clock)
      /\ rec.fd = "open" =>
           /\ Covers(rec.file, u, hist, clock)
           /\ ~reboot => Completes(rec, u, hist, clock - lag)
Ended ==
  rec.fd = "open" /\ ~Going /\ ~reboot =>
    \E u \in UnitIdx : Completes(rec, u, hist, clock - lag)

UnitsKept == Undamaged /\ PassHolds /\ SavedKept /\ HeldKept /\ Waits /\ Ended
IndexInv == FilesInv /\ WindowInv /\ UnitsKept

-----------------------------------------------------------------------------
(* Units, files and days.                                                  *)

LEMMA QuotientUnique ==
  ASSUME NEW b \in Nat \ {0}, NEW q \in Nat, NEW r \in 0 .. b - 1
  PROVE  (b * q + r) \div b = q
OBVIOUS

LEMMA Quotient ==
  ASSUME NEW a \in Nat, NEW b \in Nat \ {0}
  PROVE  a \div b \in Nat /\ a % b \in 0 .. b - 1 /\ a = b * (a \div b) + (a % b)
<1>1. a \div b \in Nat
  BY DivMod
<1>2. a % b \in 0 .. b - 1 /\ a = b * (a \div b) + (a % b)
  BY Division
<1> QED  BY <1>1, <1>2

LEMMA Lengths ==
  /\ UnitSecs \in Nat \ {0} /\ UnitsPerFile \in Nat \ {0} /\ FilesPerDay \in Nat \ {0}
  /\ FileSecs \in Nat \ {0} /\ DaySecs \in Nat \ {0} /\ UnitSecs <= FileSecs
  /\ UnitsPerFile * UnitSecs = FileSecs
  /\ \A u \in UnitIdx : u \in Nat /\ u + 1 <= UnitsPerFile
<1>1. /\ UnitSecs \in Nat \ {0} /\ UnitsPerFile \in Nat \ {0} /\ FilesPerDay \in Nat \ {0}
      /\ FileSecs \in Nat \ {0} /\ DaySecs \in Nat \ {0} /\ UnitSecs <= FileSecs
  BY LengthsAssumption, LengthsPositive, UnitInFile
<1>2. UnitsPerFile * UnitSecs = FileSecs
  BY <1>1 DEF FileSecs
<1> QED  BY <1>1, <1>2 DEF UnitIdx

LEMMA Ordered ==
  ASSUME NEW a \in Nat, NEW b \in Nat, NEW c \in Nat \ {0}
  PROVE  /\ a * c \in Nat /\ (a + 1) * c = a * c + c
         /\ a <= b => a * c <= b * c
         /\ a < b => a * c + c <= b * c
<1>1. a * c \in Nat /\ (a + 1) * c = a * c + c /\ b * c \in Nat
  OBVIOUS
<1>2. (b - a) * c = b * c - a * c
  OBVIOUS
<1>3. ASSUME NEW d \in Nat PROVE d * c \in Nat /\ (d >= 1 => d * c >= c)
  <2>1. d * c \in Nat /\ (d - 1) * c = d * c - c
    OBVIOUS
  <2>2. d >= 1 => (d - 1) * c >= 0
    <3>1. d >= 1 => d - 1 \in Nat
      OBVIOUS
    <3>2. ASSUME NEW e \in Nat PROVE e * c >= 0
      OBVIOUS
    <3> QED  BY <3>1, <3>2
  <2> QED  BY <2>1, <2>2
<1>4. a <= b => b - a \in Nat
  OBVIOUS
<1>5. a < b => b - a >= 1
  OBVIOUS
<1> QED  BY <1>1, <1>2, <1>3, <1>4, <1>5

LEMMA BeginIsTime ==
  ASSUME NEW f \in Nat, NEW i \in Nat
  PROVE  /\ Begin(f, i) \in Nat /\ Begin(f, i + 1) \in Nat
         /\ Begin(f, i + 1) = Begin(f, i) + UnitSecs
         /\ Begin(f, UnitsPerFile) = (f + 1) * FileSecs
         /\ \A j \in Nat : i < j => Begin(f, i + 1) <= Begin(f, j)
<1>1. f * FileSecs \in Nat /\ (f + 1) * FileSecs = f * FileSecs + FileSecs
  BY Lengths, Ordered
<1>2. \A j \in Nat : i * UnitSecs \in Nat /\ (i + 1) * UnitSecs = i * UnitSecs + UnitSecs
                    /\ j * UnitSecs \in Nat
                    /\ (i < j => i * UnitSecs + UnitSecs <= j * UnitSecs)
  BY Lengths, Ordered
<1> QED  BY <1>1, <1>2, Lengths DEF Begin

(* The slot a file covers, within its day.  With more than one file a day  *)
(* the last of them does not begin with the day.                           *)
LEMMA FileOfDay ==
  ASSUME NEW r, r.file \in Nat, FilesPerDay > 1
  PROVE  \E d \in Nat :
           /\ FileTime(r) \in Nat /\ DaySecs * d \in Nat
           /\ r.file * FileSecs = DaySecs * d + FileTime(r)
           /\ FileTime(r) + FileSecs <= DaySecs
           /\ FileTime(r) + FileSecs = DaySecs => FileTime(r) >= FileSecs
<1>1. PICK d \in Nat, k \in 0 .. FilesPerDay - 1 :
           /\ r.file % FilesPerDay = k
           /\ (r.file + 1) * FileSecs = DaySecs * d + (k + 1) * FileSecs
           /\ (k + 1) * FileSecs <= DaySecs
           /\ k + 1 < FilesPerDay => (k + 1) * FileSecs + FileSecs <= DaySecs
           /\ k + 1 = FilesPerDay => (k + 1) * FileSecs = DaySecs
  BY SlotOfDay
<1> DEFINE T == k * FileSecs
<1>2. FileTime(r) = T
  BY <1>1 DEF FileTime, NoFile
<1>3. /\ T \in Nat /\ DaySecs * d \in Nat /\ (k + 1) * FileSecs = T + FileSecs
      /\ (r.file + 1) * FileSecs = r.file * FileSecs + FileSecs
      /\ r.file * FileSecs \in Nat
      /\ (0 < k => FileSecs <= T)
  <2>1. k \in Nat /\ 0 * FileSecs = 0 /\ 0 \in Nat
    BY Lengths
  <2>2. 0 < k => 0 * FileSecs + FileSecs <= k * FileSecs
    BY <2>1, Lengths, Ordered
  <2> QED  BY <2>1, <2>2, Lengths, Ordered, Product
<1>4. T + FileSecs = DaySecs => 0 < k
  <2>1. k = 0 => T = 0
    BY Lengths
  <2>2. k = 0 => T + FileSecs + FileSecs <= DaySecs
    BY <1>1, <1>3, Lengths
  <2> HIDE DEF T
  <2> QED  BY <1>3, <2>1, <2>2, Lengths
<1> HIDE DEF T
<1>5. /\ r.file * FileSecs = DaySecs * d + T
      /\ T + FileSecs <= DaySecs
      /\ T + FileSecs = DaySecs => T >= FileSecs
  BY <1>1, <1>3, <1>4, Lengths
<1> QED  BY <1>2, <1>3, <1>5

(* A unit within its file and its day: the code knows only times of day.   *)
LEMMA UnitOfDay ==
  ASSUME NEW r, NEW u, AtUnitTime(r, u), FilesPerDay > 1
  PROVE  \E d \in Nat, b \in Nat, e \in Nat :
           /\ DaySecs * d \in Nat
           /\ r.unitTime = b /\ e = b + UnitSecs /\ e <= DaySecs
           /\ Begin(r.file, u) = DaySecs * d + b
           /\ Begin(r.file, u + 1) = DaySecs * d + e
           /\ UnitEnd(r) = IF e = DaySecs THEN 0 ELSE e
           /\ e = DaySecs => u + 1 = UnitsPerFile /\ b >= UnitSecs
           /\ (r.file + 1) * FileSecs <= DaySecs * d + DaySecs
           /\ e < FileTime(r) + FileSecs => u + 1 \in UnitIdx
           /\ (r.file + 1) * FileSecs = DaySecs * d + FileTime(r) + FileSecs
<1>1. PICK d \in Nat :
        /\ FileTime(r) \in Nat /\ DaySecs * d \in Nat
        /\ r.file * FileSecs = DaySecs * d + FileTime(r)
        /\ FileTime(r) + FileSecs <= DaySecs
        /\ FileTime(r) + FileSecs = DaySecs => FileTime(r) >= FileSecs
  BY FileOfDay DEF AtUnitTime
<1> DEFINE T == FileTime(r)
           b == T + u * UnitSecs
           e == b + UnitSecs
<1>2. /\ u \in Nat /\ u + 1 <= UnitsPerFile /\ u * UnitSecs \in Nat
      /\ (u + 1) * UnitSecs = u * UnitSecs + UnitSecs
      /\ u * UnitSecs + UnitSecs <= FileSecs
      /\ u + 1 < UnitsPerFile => u * UnitSecs + UnitSecs < FileSecs
  <2>1. u \in Nat /\ u + 1 \in Nat /\ u < UnitsPerFile
    BY Lengths DEF AtUnitTime
  <2>2. /\ u * UnitSecs \in Nat /\ (u + 1) * UnitSecs = u * UnitSecs + UnitSecs
        /\ u * UnitSecs + UnitSecs <= UnitsPerFile * UnitSecs
    BY <2>1, Lengths, Ordered
  <2>3. u + 1 < UnitsPerFile => (u + 1) * UnitSecs + UnitSecs <= UnitsPerFile * UnitSecs
    BY <2>1, Lengths, Ordered
  <2> QED  BY <2>1, <2>2, <2>3, Lengths
<1>3. /\ r.unitTime = b
      /\ Begin(r.file, u) = DaySecs * d + b /\ Begin(r.file, u + 1) = DaySecs * d + e
  <2>1. r.unitTime = b
    BY DEF AtUnitTime
  <2>2. /\ Begin(r.file, u) = r.file * FileSecs + u * UnitSecs
        /\ Begin(r.file, u + 1) = r.file * FileSecs + (u + 1) * UnitSecs
    BY DEF Begin
  <2> HIDE DEF T
  <2>3. ASSUME NEW x \in Nat, NEW y \in Nat, NEW z \in Nat
        PROVE  (x + y) + z = x + (y + z) /\ (x + y) + (z + UnitSecs) = x + ((y + z) + UnitSecs)
    BY Lengths
  <2>4. T \in Nat /\ r.file * FileSecs = DaySecs * d + T
    BY <1>1 DEF T
  <2> QED  BY <1>1, <1>2, <2>1, <2>2, <2>3, <2>4
<1> HIDE DEF T
<1>4. b \in Nat /\ e \in Nat /\ b >= T /\ e > 0 /\ e <= T + FileSecs /\ e <= DaySecs
  BY <1>1, <1>2, Lengths DEF T
<1>5. e = DaySecs => u + 1 = UnitsPerFile /\ b >= UnitSecs
  BY <1>1, <1>2, <1>4, Lengths DEF T
<1>6. e < T + FileSecs => u + 1 \in UnitIdx
  <2>1. e < T + FileSecs => u + 1 # UnitsPerFile
    BY <1>1, <1>2, Lengths DEF T
  <2> QED  BY <1>2, <2>1, Lengths DEF UnitIdx
<1>7. (r.file + 1) * FileSecs = DaySecs * d + T + FileSecs
  <2>1. (r.file + 1) * FileSecs = r.file * FileSecs + FileSecs
    BY Lengths, Ordered DEF AtUnitTime
  <2> QED  BY <1>1, <2>1 DEF T
<1>8. UnitEnd(r) = IF e = DaySecs THEN 0 ELSE e
  <2>1. UnitEnd(r) = e % DaySecs
    BY <1>3 DEF UnitEnd
  <2> HIDE DEF e
  <2>2. CASE e = DaySecs
    <3>1. e = DaySecs * 1 + 0 /\ 0 \in 0 .. DaySecs - 1
      BY <2>2, Lengths
    <3> QED  BY <2>1, <2>2, <3>1, Lengths, DivisionUnique
  <2>3. CASE e # DaySecs
    <3>1. e = DaySecs * 0 + e /\ e \in 0 .. DaySecs - 1
      BY <1>4, <2>3, Lengths
    <3> QED  BY <2>1, <2>3, <3>1, Lengths, DivisionUnique
  <2> QED  BY <2>2, <2>3
<1>9. (r.file + 1) * FileSecs <= DaySecs * d + DaySecs
  BY <1>1, <1>7, Lengths DEF T
<1> HIDE DEF b
<1>10. e = b + UnitSecs
  OBVIOUS
<1> HIDE DEF e
<1> QED  BY <1>1, <1>3, <1>4, <1>5, <1>6, <1>7, <1>8, <1>9, <1>10 DEF T

(* The time of day within the day of a file.                               *)
LEMMA NowOfDay ==
  ASSUME NEW d \in Nat, DaySecs * d \in Nat, clock \in Nat,
         DaySecs * d <= clock, clock < DaySecs * d + DaySecs
  PROVE  Now = clock - DaySecs * d
<1> DEFINE y == clock - DaySecs * d
<1>1. y \in 0 .. DaySecs - 1 /\ clock = DaySecs * d + y
  BY Lengths
<1> HIDE DEF y
<1>2. (DaySecs * d + y) % DaySecs = y
  BY <1>1, Lengths, DivisionUnique
<1> QED  BY <1>1, <1>2 DEF Now, y

(* When the code takes a unit for over, it is; 0 o'clock is no exception.  *)
LEMMA OverIsOver ==
  ASSUME NEW r, NEW u, AtUnitTime(r, u), FilesPerDay > 1, clock \in Nat,
         Begin(r.file, u) <= clock, UnitOver(r)
  PROVE  Begin(r.file, u + 1) <= clock
<1>1. PICK d \in Nat, b \in Nat, e \in Nat :
           /\ DaySecs * d \in Nat
           /\ e = b + UnitSecs /\ e <= DaySecs
           /\ Begin(r.file, u) = DaySecs * d + b
           /\ Begin(r.file, u + 1) = DaySecs * d + e
           /\ UnitEnd(r) = IF e = DaySecs THEN 0 ELSE e
           /\ e = DaySecs => b >= UnitSecs
  BY UnitOfDay
<1> SUFFICES ASSUME clock < DaySecs * d + e PROVE FALSE
  BY <1>1
<1>2. Now = clock - DaySecs * d
  BY <1>1, Lengths, NowOfDay
<1>3. UnitSecs \in Nat \ {0} /\ DaySecs \in Nat \ {0}
  BY Lengths
<1> QED  BY <1>1, <1>2, <1>3 DEF UnitOver

(* Within its slot a file shows the end of each of its units to the code.  *)
LEMMA OverIsSeen ==
  ASSUME NEW r, NEW u, AtUnitTime(r, u), FilesPerDay > 1, clock \in Nat,
         Begin(r.file, u + 1) <= clock, clock < (r.file + 1) * FileSecs
  PROVE  UnitOver(r) /\ u + 1 \in UnitIdx /\ UnitEnd(r) = FileTime(r) + (u + 1) * UnitSecs
<1>1. PICK d \in Nat, b \in Nat, e \in Nat :
           /\ DaySecs * d \in Nat
           /\ r.unitTime = b /\ e = b + UnitSecs /\ e <= DaySecs
           /\ Begin(r.file, u + 1) = DaySecs * d + e
           /\ UnitEnd(r) = IF e = DaySecs THEN 0 ELSE e
           /\ (r.file + 1) * FileSecs <= DaySecs * d + DaySecs
           /\ e < FileTime(r) + FileSecs => u + 1 \in UnitIdx
           /\ (r.file + 1) * FileSecs = DaySecs * d + FileTime(r) + FileSecs
  BY UnitOfDay
<1>2. /\ FileTime(r) \in Int
      /\ FileTime(r) + (u + 1) * UnitSecs = e
  <2>1. FileTime(r) \in Nat
    BY FileOfDay DEF AtUnitTime
  <2>2. u * UnitSecs \in Nat /\ (u + 1) * UnitSecs = u * UnitSecs + UnitSecs
    BY Lengths, Ordered DEF AtUnitTime
  <2> QED  BY <1>1, <2>1, <2>2, Lengths DEF AtUnitTime
<1>3. e < DaySecs /\ e > 0 /\ e < FileTime(r) + FileSecs
  BY <1>1, <1>2, Lengths
<1>4. Now = clock - DaySecs * d
  <2>1. DaySecs * d <= clock /\ clock < DaySecs * d + DaySecs
    <3>1. (r.file + 1) * FileSecs \in Nat
      BY Lengths, Ordered DEF AtUnitTime
    <3> QED  BY <1>1, <3>1, Lengths
  <2> QED  BY <1>1, <2>1, NowOfDay
<1> QED  BY <1>1, <1>2, <1>3, <1>4, Lengths DEF UnitOver

(* The unit the code marks is the one that is over.                        *)
LEMMA EndedIsUnit ==
  ASSUME NEW r, NEW u, AtUnitTime(r, u), FilesPerDay > 1
  PROVE  EndedUnit(r) = u
<1>1. PICK e \in Nat :
           /\ e = r.unitTime + UnitSecs
           /\ UnitEnd(r) = IF e = DaySecs THEN 0 ELSE e
           /\ e = DaySecs => u + 1 = UnitsPerFile
           /\ e = 0 \/ e > 0
  BY UnitOfDay
<1>2. /\ u \in Nat /\ u + 1 <= UnitsPerFile /\ FileTime(r) \in Nat
      /\ UnitSecs \in Nat \ {0} /\ UnitsPerFile \in Nat /\ FileSecs \in Nat
      /\ u * UnitSecs \in Nat
  <2>1. FileTime(r) \in Nat
    BY FileOfDay DEF AtUnitTime
  <2> QED  BY <2>1, Lengths, Ordered DEF AtUnitTime
<1>3. r.unitTime = FileTime(r) + u * UnitSecs
  BY DEF AtUnitTime
<1>4. CASE e = DaySecs
  BY <1>1, <1>2, <1>4 DEF EndedUnit
<1>5. CASE e # DaySecs
  <2> DEFINE diff == e - FileTime(r)
  <2>1. /\ diff = u * UnitSecs + UnitSecs /\ diff >= 0 /\ diff <= FileSecs
    <3>1. u * UnitSecs + UnitSecs <= UnitsPerFile * UnitSecs
      <4>1. u < UnitsPerFile
        BY <1>2
      <4> QED  BY <1>2, <4>1, Ordered
    <3> QED  BY <1>1, <1>2, <1>3, <3>1, Lengths
  <2>2. diff \div UnitSecs = u + 1
    <3>1. UnitSecs * (u + 1) + 0 = u * UnitSecs + UnitSecs /\ 0 \in 0 .. UnitSecs - 1
      BY <1>2
    <3>2. (UnitSecs * (u + 1) + 0) \div UnitSecs = u + 1
      <4>1. u + 1 \in Nat
        BY <1>2
      <4> QED  BY <1>2, <3>1, <4>1, QuotientUnique
    <3> QED  BY <2>1, <3>1, <3>2
  <2>3. UnitEnd(r) = e /\ e # 0
    BY <1>1, <1>2, <1>3, <1>5
  <2>4. EndedUnit(r) = TimeToIdx(e, FileTime(r))
    BY <2>3 DEF EndedUnit
  <2>5. TimeToIdx(e, FileTime(r)) = u
    <3> HIDE DEF diff
    <3>1. ~(diff > FileSecs \/ diff < 0) /\ ~(u + 1 < 1) /\ (u + 1) - 1 = u
      BY <1>2, <2>1
    <3> QED  BY <2>2, <3>1 DEF TimeToIdx, diff
  <2> QED  BY <2>4, <2>5
<1> QED  BY <1>4, <1>5

(* The unit of a time, and its begin as the code finds it.                 *)
LEMMA UnitAtTime ==
  ASSUME NEW t \in Nat, NEW f \in Nat, NEW i \in UnitIdx,
         Begin(f, i) <= t, t < Begin(f, i + 1)
  PROVE  UnitAt(t) = <<f, i>>
<1> DEFINE w == t - Begin(f, i)
           v == i * UnitSecs + w
<1>1. /\ i \in Nat /\ i * UnitSecs \in Nat /\ i * UnitSecs + UnitSecs <= FileSecs
      /\ Begin(f, i) \in Nat /\ Begin(f, i + 1) = Begin(f, i) + UnitSecs
      /\ f * FileSecs \in Nat
  <2>1. i \in Nat /\ i < UnitsPerFile
    BY Lengths
  <2> QED  BY <2>1, Lengths, Ordered, BeginIsTime
<1>2. w \in 0 .. UnitSecs - 1 /\ v \in 0 .. FileSecs - 1 /\ t = FileSecs * f + v
  <2>1. w \in 0 .. UnitSecs - 1
    BY <1>1, Lengths
  <2>2. t = f * FileSecs + i * UnitSecs + w
    BY <1>1 DEF Begin
  <2> HIDE DEF w
  <2>3. f * FileSecs = FileSecs * f
    BY Lengths
  <2> QED  BY <1>1, <2>1, <2>2, <2>3, Lengths
<1> HIDE DEF w
<1>3. v \div UnitSecs = i
  <2>1. v = UnitSecs * i + w
    BY <1>1, <1>2, Lengths
  <2> QED  BY <1>1, <1>2, <2>1, Lengths, QuotientUnique
<1> HIDE DEF v
<1>4. t \div FileSecs = f /\ t % FileSecs = v
  <2>1. (FileSecs * f + v) \div FileSecs = f
    BY <1>2, Lengths, QuotientUnique
  <2>2. (FileSecs * f + v) % FileSecs = v
    BY <1>2, Lengths, DivisionUnique
  <2> QED  BY <1>2, <2>1, <2>2
<1> QED  BY <1>3, <1>4 DEF UnitAt

LEMMA OpenedAtUnit ==
  ASSUME clock \in Nat, FilesPerDay > 1, NEW r, r.file = Slot,
         r.unitTime = Now - (Now % UnitSecs)
  PROVE  \E u \in UnitIdx :
           /\ AtUnitTime(r, u) /\ UnitAt(clock) = <<Slot, u>>
           /\ Begin(Slot, u) <= clock /\ clock < Begin(Slot, u + 1)
<1> DEFINE f == clock \div FileSecs
           v == clock % FileSecs
           u == v \div UnitSecs
           w == v % UnitSecs
<1>1. f \in Nat /\ v \in 0 .. FileSecs - 1 /\ clock = FileSecs * f + v
  BY Lengths, Quotient
<1> HIDE DEF f, v
<1>2. u \in Nat /\ w \in 0 .. UnitSecs - 1 /\ v = UnitSecs * u + w
  <2>1. v \in Nat
    BY <1>1, Lengths
  <2> QED  BY <2>1, Lengths, Quotient
<1> HIDE DEF u, w
<1>3. u \in UnitIdx
  <2>1. UnitsPerFile <= u => UnitsPerFile * UnitSecs <= u * UnitSecs
    BY <1>2, Lengths, Ordered
  <2>2. UnitSecs * u = u * UnitSecs /\ u * UnitSecs \in Nat
    BY <1>2, Lengths
  <2> QED  BY <1>1, <1>2, <2>1, <2>2, Lengths DEF UnitIdx
<1>4. Begin(f, u) = clock - w /\ Begin(f, u + 1) = Begin(f, u) + UnitSecs
      /\ Begin(f, u) \in Nat
  <2>1. Begin(f, u) = f * FileSecs + u * UnitSecs
    BY DEF Begin
  <2>2. f * FileSecs = FileSecs * f /\ UnitSecs * u = u * UnitSecs
        /\ u * UnitSecs \in Nat /\ f * FileSecs \in Nat
    BY <1>1, <1>2, Lengths
  <2>3. Begin(f, u) = clock - w
    BY <1>1, <1>2, <2>1, <2>2
  <2> QED  BY <1>1, <1>2, <2>3, BeginIsTime
<1>5. Begin(f, u) <= clock /\ clock < Begin(f, u + 1)
  BY <1>2, <1>4, Lengths
<1>6. UnitAt(clock) = <<f, u>>
  BY <1>1, <1>3, <1>5, UnitAtTime
<1>7. r.file = f /\ Slot = f
  BY DEF Slot, f
<1>8. r.unitTime = FileTime(r) + u * UnitSecs
  <2>1. PICK d \in Nat :
          /\ FileTime(r) \in Nat /\ DaySecs * d \in Nat
          /\ f * FileSecs = DaySecs * d + FileTime(r)
          /\ FileTime(r) + FileSecs <= DaySecs
    BY <1>1, <1>7, FileOfDay
  <2>2. f * FileSecs = FileSecs * f /\ u * UnitSecs \in Nat /\ UnitSecs * u = u * UnitSecs
    BY <1>1, <1>2, Lengths
  <2>3. clock = DaySecs * d + FileTime(r) + v
    BY <1>1, <2>1, <2>2
  <2>4. Now = FileTime(r) + u * UnitSecs + w
    <3>1. DaySecs * d <= clock /\ clock < DaySecs * d + DaySecs
      BY <1>1, <2>1, <2>3, Lengths
    <3>2. Now = clock - DaySecs * d
      BY <2>1, <3>1, NowOfDay
    <3> QED  BY <1>1, <1>2, <2>1, <2>2, <2>3, <3>2
  <2>5. PICK n \in Nat : FileTime(r) = UnitSecs * n
    <3> DEFINE k == f % FilesPerDay
    <3>1. k \in Nat
      BY <1>1, Lengths, DivMod
    <3>2. FileTime(r) = k * FileSecs
      BY <1>1, <1>7 DEF FileTime, NoFile
    <3> HIDE DEF k
    <3>3. ASSUME NEW x \in Nat, NEW y \in Nat, NEW z \in Nat
          PROVE  x * (y * z) = y * (x * z) /\ x * z \in Nat
      OBVIOUS
    <3>4. k * FileSecs = UnitSecs * (k * UnitsPerFile) /\ k * UnitsPerFile \in Nat
      BY <3>1, <3>3, Lengths DEF FileSecs
    <3> QED  BY <3>2, <3>4
  <2>6. Now % UnitSecs = w
    <3>1. ASSUME NEW x \in Nat, NEW y \in Nat, NEW z \in Nat
          PROVE  x * y + z * x = x * (y + z)
      OBVIOUS
    <3>2. Now = UnitSecs * (n + u) + w
      BY <1>2, <2>2, <2>4, <2>5, <3>1, Lengths
    <3>3. n + u \in Int
      BY <1>2
    <3> QED  BY <1>2, <3>2, <3>3, Lengths, DivisionUnique
  <2> QED  BY <1>2, <2>1, <2>2, <2>4, <2>6
<1> QED  BY <1>1, <1>3, <1>5, <1>6, <1>7, <1>8 DEF AtUnitTime

-----------------------------------------------------------------------------
(* What the theorems assume: opening a file works, the card stays in and   *)
(* is not full (else a slot is overrun or marked with no file open), no    *)
(* format ends with a file open, and an open file is polled once a unit.   *)
(* With one file a day its last unit may be its first.                     *)
Undisturbed ==
  /\ Faults \subseteq {"crash", "ipc"} /\ "format" \notin Events
  /\ MaxLag <= UnitSecs /\ FilesPerDay > 1

LEMMA IndexTyped ==
  ASSUME IndexInv
  PROVE  /\ rec \in Recs /\ PesType(pes) /\ IdxType(idx) /\ hist \in Hists
         /\ clock \in Nat /\ lag \in Nat /\ lag <= MaxLag /\ MaxLag \in Nat
         /\ type \in Types /\ type \in AllTypes /\ pass \in Passes
         /\ rec.fd \in {"none", "open"}
         /\ rec.fd # "none" => rec.file \in Nat /\ diskValid
         /\ card /\ pc # "lost" /\ TypeInv /\ ControlInv
<1>1. FilesInv /\ WindowInv /\ Undamaged /\ ControlInv /\ TypeOK /\ TypeInv
  BY DEF IndexInv, UnitsKept, FilesInv, ControlInv, TypeInv
<1>2. rec \in Recs /\ PesType(pes) /\ IdxType(idx) /\ hist \in Hists /\ pass \in Passes
      /\ (rec.fd # "none" => rec.file \in Nat /\ diskValid) /\ type \in AllTypes
  BY <1>1, FilesTyped
<1>3. clock \in Nat /\ lag \in Nat /\ lag <= MaxLag /\ MaxLag \in Nat
  BY <1>1, WindowTyped DEF WindowInv
<1>4. rec.fd \in {"none", "open"}
  BY <1>1, <1>2 DEF Undamaged, Recs
<1>5. type \in Types /\ card /\ pc # "lost"
  BY <1>1 DEF TypeOK, Undamaged
<1> QED  BY <1>1, <1>2, <1>3, <1>4, <1>5

-----------------------------------------------------------------------------
(* What the steps of the task are to the index.                            *)

SameHistory ==
  /\ hist'.covered = hist.covered /\ hist'.openedAt = hist.openedAt
  /\ hist'.torn = hist.torn /\ hist'.pulled = hist.pulled

(* A step that touches no file: the task waits, polls or thinks.           *)
Rests ==
  /\ UNCHANGED <<rec, pes, idx, clock, card, lag>> /\ SameHistory
  /\ reboot => reboot' \/ rec.fd # "open"
  /\ \/ UNCHANGED <<pc, pass>>
     \/ pc = "idle" /\ rec.fd = "open" /\ pc' = "saving" /\ pass' = NoPass
     \/ {pc, pc'} \subseteq {"idle", "starting"} /\ rec.fd = "none" /\ pass' = pass

Stopping == CheckPass \/ SaveAborts \/ HandleStop \/ Flush \/ CloseFile
Ending == Dies /\ hist' \in {Lost, Upset(Lost)}

LEMMA StepCases ==
  ASSUME Undisturbed, IndexInv, [Next]_vars
  PROVE  \/ OpenFile \/ SavePass \/ Stopping \/ CutIdx \/ WriteIdx
         \/ Tick \/ Ending \/ Rests
<1>1. /\ hist \in Hists /\ rec.fd \in {"none", "open"} /\ card /\ pc # "lost"
      /\ main = "down" => rec.fd = "none"
      /\ pc = "starting" => rec.fd = "none"
  BY IndexTyped DEF IndexInv, WindowInv, ControlInv, DeadHoldsNothing, StartsWithoutFile
<1>2. "full" \notin Faults /\ "card" \notin Faults
  BY DEF Undisturbed
<1>3. /\ Upset(hist).covered = hist.covered /\ Upset(hist).openedAt = hist.openedAt
      /\ Upset(hist).torn = hist.torn /\ Upset(hist).pulled = hist.pulled
  BY <1>1 DEF Upset, Hists
<1>4. CASE Task
  <2>1. CASE PollSave
    BY <1>1, <2>1 DEF PollSave, envVars, fileVars, Rests, SameHistory
  <2>2. CASE PollStart \/ StartFails
    BY <1>1, <2>2 DEF PollStart, StartFails, envVars, fileVars, Rests, SameHistory
  <2>3. CASE HandleAlarm
    <3>1. SameHistory
      BY <1>1, <2>3 DEF HandleAlarm, Hists, SameHistory
    <3> QED  BY <2>3, <3>1 DEF HandleAlarm, envVars, fileVars, Rests
  <2>4. ~StartSkipped /\ ~WriteFails
    BY <1>1, <1>2 DEF StartSkipped, WriteFails
  <2> QED  BY <1>4, <2>1, <2>2, <2>3, <2>4 DEF Task, Stopping
<1>5. CASE Callback
  BY <1>3, <1>5 DEF Callback, RebootFlag, RebootNotify, RebootLeave, FormatNotify,
     FormatFlag, FormatDone, AlarmReport, callbackLeaves, Rests, SameHistory
<1>6. CASE Process
  BY <1>1, <1>3, <1>6 DEF Process, ExitBegins, ExitEnds, Leave, Crash, Boot, Ending, Rests,
     SameHistory
<1>7. CASE Env
  BY <1>1, <1>2, <1>7 DEF Env, Sync, SetRecordType, SetRecordTimes, CardRemoved,
     CardInserted, Rests, SameHistory
<1>8. CASE UNCHANGED vars
  BY <1>8 DEF vars, Rests, SameHistory
<1> QED  BY <1>4, <1>5, <1>6, <1>7, <1>8 DEF Next

(* The index in memory is left, and what was to come comes still.          *)
Leaves ==
  /\ rec' \in Recs /\ rec'.file = rec.file /\ rec'.units = rec.units
  /\ rec'.unitTime = rec.unitTime /\ rec'.len = rec.len
  /\ rec'.fd \in {rec.fd, "none"}
  /\ UNCHANGED <<clock, card, lag>> /\ SameHistory
  /\ reboot => reboot' \/ rec'.fd # "open"
  /\ pc' # "lost" /\ (Going' => Going)

LEMMA RestLeaves ==
  ASSUME IndexInv, Rests
  PROVE  Leaves /\ PassHolds' /\ (pc' = "writing" <=> pc = "writing")
<1>1. rec \in Recs /\ pc # "lost" /\ PassHolds
  BY IndexTyped DEF IndexInv, UnitsKept
<1>2. Going' => Going
  BY DEF Rests, Going, NoPass
<1>3. PassHolds'
  BY <1>1 DEF Rests, PassHolds, NoPass
<1> QED  BY <1>1, <1>2, <1>3 DEF Rests, Leaves

(* A stop up to the save closes at most the file, and touches no index.    *)
LEMMA StoppingLeaves ==
  ASSUME IndexInv, Stopping
  PROVE  /\ Leaves /\ PassHolds'
         /\ idx' = idx /\ DOMAIN pes' = DOMAIN pes
         /\ pc # "writing" /\ pc' # "writing"
         /\ rec'.fd # rec.fd => pc' = "cutting"
         /\ pc' = "saving" => rec'.fd = "open"
         /\ pc' = "cutting" => pc = "closing"
<1>1. /\ rec \in Recs /\ PesType(pes) /\ pass \in Passes /\ card /\ PassHolds
      /\ rec.fd \in {"none", "open"}
      /\ rec.fd # "none" => diskValid /\ rec.file \in Nat
  BY IndexTyped DEF IndexInv, UnitsKept
<1>2. UNCHANGED <<clock, card, lag, reboot, idx, hist>> /\ SameHistory
  BY DEF Stopping, CheckPass, SaveAborts, HandleStop, Flush, CloseFile, envVars, fileVars,
     SameHistory
<1>3. CASE SaveAborts \/ HandleStop
  <2>1. Stops("idle") /\ UNCHANGED <<rec, pes>> /\ pc \in {"saving", "idle"}
    BY <1>3 DEF SaveAborts, HandleStop, fileVars
  <2>2. /\ rec.fd # "none" => pc' = "stopping" /\ pass'.then = "idle" /\ pass'.loop = "last"
        /\ rec.fd = "none" => pc' = "idle" /\ pass' = NoPass
    BY <1>1, <2>1 DEF Stops, Passes
  <2>3. PassHolds' /\ (Going' => Going)
    BY <1>1, <2>1, <2>2 DEF PassHolds, Going, NoPass
  <2> QED  BY <1>1, <1>2, <2>1, <2>2, <2>3 DEF Leaves
<1>4. CASE CheckPass
  <2>1. rec' = rec /\ pes' = pes /\ pc = "checking"
    BY <1>1, <1>4 DEF CheckPass, Checked
  <2>2. CASE Stops("idle") /\ pass.loop = "over"
    <3>1. /\ rec.fd # "none" => pc' = "stopping" /\ pass'.then = "idle" /\ pass'.loop = "last"
          /\ rec.fd = "none" => pc' = "idle" /\ pass' = NoPass
      BY <1>1, <2>2 DEF Stops, Passes
    <3>2. PassHolds' /\ (Going' => Going)
      BY <1>1, <2>1, <3>1 DEF PassHolds, Going, NoPass
    <3> QED  BY <1>1, <1>2, <2>1, <3>1, <3>2 DEF Leaves
  <2>3. CASE Stops(AfterStop) /\ Checked
    <3>1. AfterStop \in {"idle", "saving", "failed"} /\ pass.loop # "over" /\ rec.fd = "open"
      BY <1>1, <2>3 DEF AfterStop, Checked
    <3>2. pc' = "stopping" /\ pass'.then = AfterStop /\ pass'.loop = "last"
      BY <1>1, <2>3, <3>1 DEF Stops, Passes
    <3>3. PassHolds' /\ Going
      BY <1>1, <2>1, <3>1, <3>2 DEF PassHolds, Going
    <3> QED  BY <1>1, <1>2, <2>1, <3>2, <3>3 DEF Leaves
  <2>4. CASE GoesOn(IF pass.loop = "on" THEN "saving" ELSE "idle") /\ pass.loop # "over"
    <3>1. /\ pc' = IF pass.loop = "on" THEN "saving" ELSE "idle"
          /\ pass'.loop = "last"
      BY <2>4 DEF GoesOn, NoPass
    <3>2. PassHolds' /\ (Going' => Going)
      BY <1>1, <2>1, <2>4, <3>1 DEF PassHolds, Going
    <3>3. pc' = "saving" => rec.fd = "open"
      BY <1>1, <3>1 DEF PassHolds
    <3> QED  BY <1>1, <1>2, <2>1, <3>1, <3>2, <3>3 DEF Leaves
  <2> QED  BY <1>4, <2>2, <2>3, <2>4 DEF CheckPass
<1>5. CASE Flush
  <2>1. /\ rec' \in Recs /\ rec'.file = rec.file /\ rec'.units = rec.units
        /\ rec'.unitTime = rec.unitTime /\ rec'.len = rec.len /\ rec'.fd = rec.fd
        /\ DOMAIN pes' = DOMAIN pes
    <3>1. rec' = Flushed(rec) /\ pes' = PesFlushed(rec)
      BY <1>5 DEF Flush
    <3> QED  BY <1>1, <3>1, FlushType DEF Flushed, PesFlushed, Recs
  <2>2. pc = "stopping" /\ pc' = "closing" /\ pass' = pass
    BY <1>5 DEF Flush
  <2>3. PassHolds' /\ (Going' => Going)
    BY <1>1, <2>1, <2>2 DEF PassHolds, Going
  <2> QED  BY <1>1, <1>2, <2>1, <2>2, <2>3 DEF Leaves
<1>6. CASE CloseFile
  <2>1. /\ rec' = Closed(rec) /\ pc = "closing" /\ pc' = "cutting" /\ pass' = pass
        /\ pes' = pes
    BY <1>1, <1>6 DEF CloseFile
  <2>2. /\ rec' \in Recs /\ rec'.file = rec.file /\ rec'.units = rec.units
        /\ rec'.unitTime = rec.unitTime /\ rec'.len = rec.len /\ rec'.fd = "none"
    BY <1>1, <2>1, ClosedType
  <2>3. PassHolds' /\ (Going' => Going)
    BY <1>1, <2>1, <2>2 DEF PassHolds, Going
  <2> QED  BY <1>1, <1>2, <2>1, <2>2, <2>3 DEF Leaves
<1> QED  BY <1>3, <1>4, <1>5, <1>6 DEF Stopping

(* A save takes the index of the file from the card, and writes it again.  *)
LEMMA SavingLeaves ==
  ASSUME IndexInv, CutIdx \/ WriteIdx
  PROVE  /\ Leaves /\ PassHolds' /\ UNCHANGED <<rec, pes>> /\ rec.file \in Nat
         /\ pc = "cutting" =>
              pc' = "writing" /\ idx' = [f \in DOMAIN idx \ {rec.file} |-> idx[f]]
         /\ pc = "writing" =>
              /\ pc' \in {"idle", "saving", "checking"}
              /\ idx' = [f \in DOMAIN idx \cup {rec.file} |->
                           IF f = rec.file THEN rec.units ELSE idx[f]]
         /\ pc \in {"cutting", "writing"}
<1>1. /\ rec \in Recs /\ pass \in Passes /\ card /\ PassHolds
      /\ rec.fd \in {"none", "open"}
  BY IndexTyped DEF IndexInv, UnitsKept
<1>2. UNCHANGED <<clock, card, lag, reboot, hist, rec, pes>> /\ SameHistory
  BY DEF CutIdx, WriteIdx, envVars, SameHistory
<1>3. CASE CutIdx
  <2>1. pc = "cutting" /\ rec.file \in Nat /\ NoFile \notin Nat
    BY <1>1, <1>3 DEF CutIdx, PassHolds, NoFile
  <2>2. /\ idx' = [f \in DOMAIN idx \ {rec.file} |-> idx[f]]
        /\ pc' = "writing" /\ pass' = pass
    BY <1>1, <1>3, <2>1 DEF CutIdx
  <2>3. PassHolds' /\ (Going' => Going)
    BY <1>1, <1>2, <2>1, <2>2 DEF PassHolds, Going
  <2> QED  BY <1>1, <1>2, <2>1, <2>2, <2>3 DEF Leaves
<1>4. CASE WriteIdx
  <2>1. pc = "writing" /\ rec.file \in Nat
    BY <1>1, <1>4 DEF WriteIdx, PassHolds
  <2>2. /\ idx' = [f \in DOMAIN idx \cup {rec.file} |->
                     IF f = rec.file THEN rec.units ELSE idx[f]]
        /\ Returns
    BY <1>4 DEF WriteIdx
  <2>3. PICK next \in IF pass.then = "failed" THEN {"saving", "idle"} ELSE {pass.then} :
          GoesOn(next)
    BY <2>2 DEF Returns
  <2>4. /\ next \in {"idle", "saving", "checking"} /\ pc' = next
        /\ next = "checking" => pass.then = "checking" /\ pass'.loop = pass.loop
        /\ next # "checking" => pass'.loop = "last"
    BY <1>1, <2>3 DEF GoesOn, Passes, NoPass
  <2>5. next = "saving" => pass.then \in {"saving", "failed"}
    BY <2>3
  <2>6. next = "idle" => rec.fd # "open"
    BY <1>1, <2>1, <2>3 DEF PassHolds
  <2>7. Going' => Going
    BY <1>2, <2>1, <2>4, <2>5, <2>6 DEF Going
  <2>8. PassHolds'
    BY <1>1, <1>2, <2>4 DEF PassHolds
  <2> QED  BY <1>1, <1>2, <2>1, <2>2, <2>4, <2>7, <2>8 DEF Leaves
<1> QED  BY <1>3, <1>4

-----------------------------------------------------------------------------
(* The index in memory and on the card, step by step.                      *)

LEMMA KeptLater ==
  ASSUME NEW f \in Nat, NEW units, NEW h, NEW g, NEW c \in Nat, NEW d \in Nat,
         Kept(f, units, h, c), c <= d, h.covered \subseteq g.covered,
         h.torn \subseteq g.torn
  PROVE  Kept(f, units, g, d)
<1>1. ASSUME NEW i \in UnitIdx, Marked(units, i)
      PROVE  <<f, i>> \in g.covered /\ Begin(f, i + 1) <= d
  <2>1. <<f, i>> \in h.covered /\ Begin(f, i + 1) <= c
    BY <1>1 DEF Kept
  <2>2. Begin(f, i + 1) \in Nat
    BY Lengths, BeginIsTime
  <2> QED  BY <2>1, <2>2
<1> QED  BY <1>1 DEF Kept

LEMMA UnitsLeft ==
  ASSUME IndexInv, Leaves
  PROVE  HeldKept' /\ Waits' /\ Ended'
<1>1. HeldKept'
  BY DEF IndexInv, UnitsKept, HeldKept, Kept, Counted, Leaves, SameHistory
<1>2. rec'.fd = "open" => rec.fd = "open"
  BY DEF Leaves
<1>3. ASSUME NEW u \in UnitIdx
      PROVE  /\ AtUnit(rec, u, hist, clock) => AtUnit(rec, u, hist, clock)'
             /\ Covers(rec.file, u, hist, clock) => Covers(rec.file, u, hist, clock)'
             /\ Completes(rec, u, hist, clock - lag) => Completes(rec, u, hist, clock - lag)'
  BY DEF Leaves, SameHistory, AtUnit, AtUnitTime, FileTime, Covers, Completes
<1>4. ASSUME rec'.fd = "open", ~reboot' PROVE ~reboot
  BY <1>4 DEF Leaves
<1>5. Waits'
  <2> SUFFICES ASSUME Going'
               PROVE  \E u \in UnitIdx :
                        /\ AtUnit(rec, u, hist, clock)'
                        /\ rec'.fd = "open" =>
                             /\ Covers(rec.file, u, hist, clock)'
                             /\ ~reboot' => Completes(rec, u, hist, clock - lag)'
    BY DEF Waits
  <2>1. PICK u \in UnitIdx :
          /\ AtUnit(rec, u, hist, clock)
          /\ rec.fd = "open" =>
               /\ Covers(rec.file, u, hist, clock)
               /\ ~reboot => Completes(rec, u, hist, clock - lag)
    BY DEF IndexInv, UnitsKept, Waits, Leaves
  <2> QED  BY <1>2, <1>3, <1>4, <2>1
<1>6. Ended'
  <2> SUFFICES ASSUME rec'.fd = "open", ~reboot'
               PROVE  \E u \in UnitIdx : Completes(rec, u, hist, clock - lag)'
    BY DEF Ended
  <2>1. PICK u \in UnitIdx : Completes(rec, u, hist, clock - lag)
    BY <1>2, <1>4 DEF IndexInv, UnitsKept, Waits, Ended
  <2> QED  BY <1>3, <2>1
<1> QED  BY <1>1, <1>5, <1>6

LEMMA SavedLeft ==
  ASSUME IndexInv, idx' = idx, clock' = clock, SameHistory
  PROVE  SavedKept'
BY DEF IndexInv, UnitsKept, SavedKept, Kept, SameHistory

LEMMA SavedRewritten ==
  ASSUME IndexInv, CutIdx \/ WriteIdx
  PROVE  SavedKept'
<1>1. /\ clock' = clock /\ SameHistory /\ rec.file \in Nat
      /\ \/ idx' = [f \in DOMAIN idx \ {rec.file} |-> idx[f]]
         \/ idx' = [f \in DOMAIN idx \cup {rec.file} |->
                      IF f = rec.file THEN rec.units ELSE idx[f]]
  BY SavingLeaves DEF Leaves
<1>2. ASSUME NEW f \in DOMAIN idx' PROVE Kept(f, idx'[f], hist, clock)
  <2>1. \/ f \in DOMAIN idx /\ idx'[f] = idx[f]
        \/ f = rec.file /\ idx'[f] = rec.units
    BY <1>1
  <2> QED  BY <1>1, <2>1 DEF IndexInv, UnitsKept, SavedKept, HeldKept, NoFile
<1> QED  BY <1>1, <1>2 DEF SavedKept, Kept, SameHistory

LEMMA UnitsEnding ==
  ASSUME IndexInv, Ending
  PROVE  UnitsKept'
<1>1. /\ rec' = FreshRec /\ pc' = "idle" /\ pass' = NoPass
      /\ UNCHANGED <<idx, clock, card>>
  BY DEF Ending, Dies
<1>2. hist'.covered = hist.covered /\ hist.torn \subseteq hist'.torn
      /\ hist'.pulled = hist.pulled
  <2>1. hist \in Hists
    BY IndexTyped
  <2>2. /\ Torn.covered = hist.covered /\ hist.torn \subseteq Torn.torn
        /\ Torn.pulled = hist.pulled /\ DOMAIN Torn = DOMAIN hist
    BY <2>1 DEF Torn, Hists
  <2>3. Lost.covered = hist.covered /\ hist.torn \subseteq Lost.torn
        /\ Lost.pulled = hist.pulled
    BY <2>1, <2>2 DEF Lost, Hists
  <2>4. /\ Upset(Lost).covered = Lost.covered /\ Upset(Lost).torn = Lost.torn
        /\ Upset(Lost).pulled = Lost.pulled
    BY <2>1 DEF Upset, Lost, Torn, Hists
  <2> QED  BY <2>2, <2>3, <2>4 DEF Ending
<1>3. SavedKept'
  <2>1. ASSUME NEW f \in DOMAIN idx PROVE Kept(f, idx[f], hist', clock)
    BY <1>2 DEF IndexInv, UnitsKept, SavedKept, Kept
  <2> QED  BY <1>1, <2>1 DEF SavedKept
<1>4. HeldKept'
  BY <1>1 DEF HeldKept, Counted, FreshRec, NoUnits, Unmarked
<1>5. Undamaged' /\ PassHolds' /\ Waits' /\ Ended'
  BY <1>1, <1>2, IndexTyped
  DEF IndexInv, UnitsKept, Undamaged, PassHolds, Waits, Ended, Going, FreshRec, NoPass
<1> QED  BY <1>3, <1>4, <1>5 DEF UnitsKept

(* Time passes; the unit that begins is recorded, if the file covers it.   *)
LEMMA UnitsTick ==
  ASSUME IndexInv, Tick
  PROVE  SavedKept' /\ HeldKept' /\ Waits' /\ Ended'
<1>1. /\ clock' = clock + 1 /\ UNCHANGED <<rec, idx, card, reboot, pc, pass>>
      /\ rec.fd = "open" /\ ~reboot => lag < MaxLag
      /\ lag' = IF rec.fd # "none" /\ lag < MaxLag THEN lag + 1 ELSE lag
  BY DEF Tick, IndexInv, WindowInv, NoFormat
<1>2. /\ rec \in Recs /\ IdxType(idx) /\ clock \in Nat /\ lag \in Nat /\ card
      /\ clock <= clock + 1 /\ clock + 1 \in Nat /\ MaxLag \in Nat
  BY IndexTyped
<1>3. /\ hist.covered \subseteq hist'.covered /\ hist'.torn = hist.torn
      /\ hist'.openedAt = hist.openedAt
      /\ rec.fd = "open" /\ UnitAt(clock + 1)[1] = rec.file
           => UnitAt(clock + 1) \in hist'.covered
  BY IndexTyped DEF Tick, Hists
<1>4. ASSUME NEW f \in Nat, NEW units, Kept(f, units, hist, clock)
      PROVE  Kept(f, units, hist', clock')
  BY <1>1, <1>2, <1>3, <1>4, KeptLater
<1>5. SavedKept' /\ HeldKept'
  <2>1. SavedKept'
    <3>1. ASSUME NEW f \in DOMAIN idx PROVE Kept(f, idx[f], hist', clock')
      BY <1>2, <1>4 DEF IndexInv, UnitsKept, SavedKept, IdxType
    <3> QED  BY <1>1, <3>1 DEF SavedKept
  <2>2. HeldKept'
    <3>1. rec.file # NoFile => rec.file \in Nat
      BY <1>2 DEF Recs
    <3> QED  BY <1>1, <1>3, <1>4, <3>1 DEF IndexInv, UnitsKept, HeldKept, Counted
  <2> QED  BY <2>1, <2>2
<1>6. Waits'
  <2> SUFFICES ASSUME Going
               PROVE  \E u \in UnitIdx :
                        /\ AtUnit(rec, u, hist', clock')
                        /\ rec.fd = "open" =>
                             /\ Covers(rec.file, u, hist', clock')
                             /\ ~reboot => Completes(rec, u, hist', clock' - lag')
    BY <1>1 DEF Waits, Going, AtUnit, AtUnitTime, FileTime, Covers, Completes
  <2>1. PICK u \in UnitIdx :
          /\ AtUnit(rec, u, hist, clock)
          /\ rec.fd = "open" =>
               /\ Covers(rec.file, u, hist, clock)
               /\ ~reboot => Completes(rec, u, hist, clock - lag)
    BY DEF IndexInv, UnitsKept, Waits
  <2>2. rec.file \in Nat
    BY <2>1 DEF AtUnit, AtUnitTime
  <2>3. ASSUME NEW i \in UnitIdx
        PROVE  /\ Begin(rec.file, i) \in Nat
               /\ Begin(rec.file, i + 1) = Begin(rec.file, i) + UnitSecs
    BY <2>2, Lengths, BeginIsTime
  <2>4. AtUnit(rec, u, hist', clock')
    BY <1>1, <1>2, <1>3, <2>1, <2>3 DEF AtUnit
  <2>5. ASSUME rec.fd = "open" PROVE Covers(rec.file, u, hist', clock')
    <3>1. ASSUME NEW i \in UnitIdx, u <= i, Begin(rec.file, i) <= clock + 1
          PROVE  <<rec.file, i>> \in hist'.covered
      <4>1. CASE Begin(rec.file, i) <= clock
        BY <1>3, <2>1, <2>5, <3>1, <4>1 DEF Covers
      <4>2. CASE ~(Begin(rec.file, i) <= clock)
        <5>1. Begin(rec.file, i) = clock + 1 /\ clock + 1 < Begin(rec.file, i + 1)
          BY <1>2, <2>3, <3>1, <4>2, Lengths
        <5>2. UnitAt(clock + 1) = <<rec.file, i>>
          BY <1>2, <2>2, <5>1, UnitAtTime
        <5> QED  BY <1>3, <2>5, <5>2
      <4> QED  BY <4>1, <4>2
    <3> QED  BY <1>1, <3>1 DEF Covers
  <2>6. ASSUME rec.fd = "open", ~reboot PROVE Completes(rec, u, hist', clock' - lag')
    <3>1. clock' - lag' = clock - lag
      BY <1>1, <1>2, <2>6
    <3> QED  BY <1>3, <2>1, <2>6, <3>1 DEF Completes
  <2> QED  BY <2>4, <2>5, <2>6
<1>7. Ended'
  <2> SUFFICES ASSUME rec.fd = "open", ~Going, ~reboot
               PROVE  \E u \in UnitIdx : Completes(rec, u, hist', clock' - lag')
    BY <1>1 DEF Ended, Going, Completes
  <2>1. PICK u \in UnitIdx : Completes(rec, u, hist, clock - lag)
    BY DEF IndexInv, UnitsKept, Ended
  <2>2. clock' - lag' = clock - lag
    BY <1>1, <1>2
  <2> QED  BY <1>3, <2>1, <2>2 DEF Completes
<1> QED  BY <1>5, <1>6, <1>7

(* The end of a unit: it is marked with the length the file has by then,   *)
(* which is behind all units marked before.                                *)
LEMMA MarkKept ==
  ASSUME NEW r \in Recs, NEW u \in UnitIdx, AtUnit(r, u, hist, clock),
         Counted(r, hist), Kept(r.file, r.units, hist, clock),
         FilesPerDay > 1, clock \in Nat, type \in AllTypes
  PROVE  LET m == MarkUnit(r)
         IN  /\ Kept(r.file, m.units, hist, clock) /\ Counted(m, hist)
             /\ ~UnitOver(r) => m = r
             /\ UnitOver(r) => m.unitTime = UnitEnd(r) /\ m.units[u].type = type
             /\ \A i \in UnitIdx : i # u => m.units[i] = r.units[i]
<1> DEFINE m == MarkUnit(r)
<1>1. CASE ~UnitOver(r)
  BY <1>1 DEF MarkUnit
<1>2. CASE UnitOver(r)
  <2>1. /\ r.file \in Nat /\ AtUnitTime(r, u) /\ Begin(r.file, u) <= clock
        /\ <<r.file, u>> \in hist.covered
        /\ \A i \in UnitIdx : Marked(r.units, i) => i < u
    BY DEF AtUnit, AtUnitTime
  <2>2. EndedUnit(r) = u /\ Begin(r.file, u + 1) <= clock
    BY <1>2, <2>1, EndedIsUnit, OverIsOver
  <2>3. m = [r EXCEPT !.unitTime = UnitEnd(r),
                      !.units = [@ EXCEPT ![u] = [type |-> type, offset |-> r.len]]]
    BY <1>2, <2>2 DEF MarkUnit
  <2>4. /\ m.unitTime = UnitEnd(r)
        /\ m.units = [r.units EXCEPT ![u] = [type |-> type, offset |-> r.len]]
    BY <2>3 DEF Recs
  <2>5. /\ m.units[u] = [type |-> type, offset |-> r.len]
        /\ \A i \in UnitIdx : i # u => m.units[i] = r.units[i]
    BY <2>4 DEF Recs, Units
  <2> HIDE DEF m
  <2>6. ASSUME NEW i \in UnitIdx, Marked(m.units, i)
        PROVE  <<r.file, i>> \in hist.covered /\ Begin(r.file, i + 1) <= clock
    <3>1. CASE i = u
      BY <2>1, <2>2, <3>1
    <3>2. CASE i # u
      BY <2>5, <2>6, <3>2 DEF Kept, Marked
    <3> QED  BY <3>1, <3>2
  <2>7. ASSUME r.file \notin hist.torn PROVE Monotone(m.units)
    <3>1. \A i \in UnitIdx : r.units[i].offset <= r.len
      BY <2>7 DEF Counted
    <3>2. ASSUME NEW i \in UnitIdx, NEW j \in UnitIdx,
                 i < j, Marked(m.units, i), Marked(m.units, j)
          PROVE  m.units[i].offset <= m.units[j].offset
      <4>1. i \in Nat /\ j \in Nat /\ u \in Nat
        BY Lengths
      <4>2. CASE j = u
        BY <2>5, <3>1, <3>2, <4>1, <4>2
      <4>3. CASE j # u
        <5>1. Marked(r.units, j) /\ m.units[j] = r.units[j]
          BY <2>5, <3>2, <4>3 DEF Marked
        <5>2. i # u
          BY <2>1, <3>2, <4>1, <5>1
        <5>3. Marked(r.units, i) /\ m.units[i] = r.units[i]
          BY <2>5, <3>2, <5>2 DEF Marked
        <5>4. Monotone(r.units)
          BY <2>7 DEF Kept
        <5> QED  BY <3>2, <5>1, <5>3, <5>4 DEF Monotone, Marked
      <4> QED  BY <4>2, <4>3
    <3> QED  BY <3>2 DEF Monotone, Marked
  <2>8. Kept(r.file, m.units, hist, clock)
    BY <2>6, <2>7 DEF Kept
  <2>9. Counted(m, hist)
    <3>1. m.len = r.len /\ m.file = r.file
      BY <2>3 DEF Recs
    <3>2. r.len \in Nat
      BY DEF Recs
    <3> QED  BY <2>5, <3>1, <3>2 DEF Counted
  <2> QED  BY <1>2, <2>4, <2>5, <2>8, <2>9 DEF m
<1> QED  BY <1>1, <1>2

-----------------------------------------------------------------------------
(* A pass of save_record_frame.                                            *)
LEMMA PassTaken ==
  ASSUME IndexInv, SavePass
  PROVE  \E got \in BOOLEAN :
           LET a == AfterFrame(got)
               m == MarkUnit(a)
           IN  /\ a \in Recs /\ m \in Recs /\ rec' = m
               /\ a.fd = rec.fd /\ a.file = rec.file /\ a.units = rec.units
               /\ a.unitTime = rec.unitTime /\ rec.len <= a.len
               /\ m.fd = rec.fd /\ m.file = rec.file
               /\ got => rec.fd # "none"
               /\ pc' = IF MinuteSave(a) THEN "cutting" ELSE "checking"
               /\ pass'.loop = LoopAfter(m, got)
               /\ pass'.then = IF MinuteSave(a) THEN "checking" ELSE "idle"
               /\ lag' = IF SlotEnded(m) /\ rec.fd = "open" THEN lag ELSE 0
<1>1. PICK got \in BOOLEAN :
        LET m == MarkUnit(AfterFrame(got))
        IN  /\ got => rec.fd # "none"
            /\ rec' = m
            /\ pc' = IF MinuteSave(AfterFrame(got)) THEN "cutting" ELSE "checking"
            /\ pass' = [pass EXCEPT !.loop = LoopAfter(m, got),
                          !.then = IF MinuteSave(AfterFrame(got)) THEN "checking" ELSE "idle"]
            /\ lag' = IF SlotEnded(m) /\ rec.fd = "open" THEN lag ELSE 0
  BY DEF SavePass
<1> DEFINE a == AfterFrame(got)
           m == MarkUnit(a)
<1>2. a \in Recs /\ m \in Recs /\ m.fd = rec.fd /\ m.file = rec.file
  BY PassType, IndexTyped
<1>3. /\ a.fd = rec.fd /\ a.file = rec.file /\ a.units = rec.units
      /\ a.unitTime = rec.unitTime /\ rec.len <= a.len
  BY IndexTyped DEF AfterFrame, Push, Recs
<1> HIDE DEF m, a
<1>4. /\ pass'.loop = LoopAfter(m, got)
      /\ pass'.then = IF MinuteSave(a) THEN "checking" ELSE "idle"
  BY <1>1, IndexTyped DEF Passes, m, a
<1>5. /\ rec' = m /\ (got => rec.fd # "none")
      /\ pc' = IF MinuteSave(a) THEN "cutting" ELSE "checking"
      /\ lag' = IF SlotEnded(m) /\ rec.fd = "open" THEN lag ELSE 0
  BY <1>1 DEF m, a
<1> QED  BY <1>2, <1>3, <1>4, <1>5 DEF m, a

(* In a file that goes on, its next unit is waited for when one was over.  *)
LEMMA UnitWaited ==
  ASSUME NEW a \in Recs, NEW u \in UnitIdx, NEW m \in Recs,
         m.file = a.file, AtUnit(a, u, hist, clock),
         Covers(a.file, u, hist, clock), Completes(a, u, hist, clock - lag),
         clock \in Nat, lag \in Nat, lag <= UnitSecs, type \in Types, FilesPerDay > 1,
         clock < (a.file + 1) * FileSecs,
         ~UnitOver(a) => m.units = a.units /\ m.unitTime = a.unitTime,
         UnitOver(a) => m.unitTime = UnitEnd(a) /\ m.units[u].type = type,
         \A i \in UnitIdx : i # u => m.units[i] = a.units[i]
  PROVE  \E v \in UnitIdx :
           /\ AtUnit(m, v, hist, clock)
           /\ Covers(m.file, v, hist, clock)
           /\ Completes(m, v, hist, clock)
<1>1. /\ AtUnitTime(a, u) /\ Begin(a.file, u) <= clock /\ a.file \in Nat
      /\ u \in Nat /\ u + 1 \in Nat /\ UnitSecs \in Nat \ {0}
      /\ Begin(a.file, u + 1) \in Nat
      /\ Begin(a.file, (u + 1) + 1) = Begin(a.file, u + 1) + UnitSecs
      /\ clock - lag < Begin(a.file, u + 1)
      /\ \A i \in UnitIdx : i \in Nat
  <2>1. /\ AtUnitTime(a, u) /\ Begin(a.file, u) <= clock /\ a.file \in Nat
    BY DEF AtUnit, AtUnitTime
  <2>2. u \in Nat /\ u + 1 \in Nat /\ UnitSecs \in Nat \ {0} /\ \A i \in UnitIdx : i \in Nat
    BY Lengths
  <2>3. clock - lag < Begin(a.file, u + 1)
    BY DEF Completes
  <2>4. Begin(a.file, u + 1) \in Nat
        /\ Begin(a.file, (u + 1) + 1) = Begin(a.file, u + 1) + UnitSecs
    BY <2>1, <2>2, BeginIsTime
  <2> QED  BY <2>1, <2>2, <2>3, <2>4
<1>2. CASE UnitOver(a)
  <2> DEFINE v == u + 1
  <2>1. Begin(a.file, v) <= clock
    BY <1>1, <1>2, OverIsOver
  <2>2. v \in UnitIdx /\ UnitEnd(a) = FileTime(a) + v * UnitSecs
    BY <1>1, <1>2, <2>1, OverIsSeen
  <2>3. AtUnitTime(m, v)
    BY <1>1, <1>2, <2>2 DEF AtUnitTime, FileTime
  <2>4. <<a.file, v>> \in hist.covered /\ Covers(a.file, v, hist, clock)
    <3>1. ASSUME NEW i \in UnitIdx, v <= i, Begin(a.file, i) <= clock
          PROVE  <<a.file, i>> \in hist.covered
      <4>1. u <= i
        BY <1>1, <3>1
      <4> QED  BY <3>1, <4>1 DEF Covers
    <3>2. v <= v
      BY <1>1
    <3> QED  BY <2>1, <2>2, <3>1, <3>2 DEF Covers
  <2>5. \A i \in UnitIdx : Marked(m.units, i) => i < v
    <3>1. ASSUME NEW i \in UnitIdx, Marked(m.units, i), i # u PROVE i < u
      BY <3>1 DEF AtUnit, Marked
    <3>2. ASSUME NEW i \in UnitIdx, Marked(m.units, i) PROVE i < v
      <4>1. i = u \/ i < u
        BY <3>1, <3>2
      <4> QED  BY <1>1, <4>1
    <3> QED  BY <3>2
  <2>6. AtUnit(m, v, hist, clock)
    BY <2>1, <2>3, <2>4, <2>5 DEF AtUnit
  <2>7. Completes(m, v, hist, clock)
    <3>1. clock < Begin(a.file, v + 1)
      BY <1>1
    <3>2. ASSUME CLOSED \notin Types, NEW i \in UnitIdx, i < v,
                 hist.openedAt < Begin(a.file, i + 1)
          PROVE  Marked(m.units, i)
      <4>1. CASE i = u
        BY <1>2, <3>2, <4>1 DEF Marked
      <4>2. CASE i # u
        <5>1. i < u
          BY <1>1, <3>2, <4>2
        <5>2. Marked(a.units, i)
          BY <3>2, <5>1 DEF Completes
        <5> QED  BY <4>2, <5>2 DEF Marked
      <4> QED  BY <4>1, <4>2
    <3> QED  BY <3>1, <3>2 DEF Completes
  <2> QED  BY <2>2, <2>4, <2>6, <2>7
<1>3. CASE ~UnitOver(a)
  <2>1. clock < Begin(a.file, u + 1)
    BY <1>1, <1>3, OverIsSeen
  <2>2. AtUnit(m, u, hist, clock)
    BY <1>3 DEF AtUnit, AtUnitTime, FileTime
  <2>3. Completes(m, u, hist, clock)
    BY <1>3, <2>1 DEF Completes
  <2> QED  BY <2>2, <2>3
<1> QED  BY <1>2, <1>3

LEMMA UnitsSavePass ==
  ASSUME Undisturbed, IndexInv, SavePass
  PROVE  UnitsKept'
<1>1. PICK got \in BOOLEAN :
        LET a == AfterFrame(got)
            m == MarkUnit(a)
        IN  /\ a \in Recs /\ m \in Recs /\ rec' = m
            /\ a.fd = rec.fd /\ a.file = rec.file /\ a.units = rec.units
            /\ a.unitTime = rec.unitTime /\ rec.len <= a.len
            /\ m.fd = rec.fd /\ m.file = rec.file
            /\ got => rec.fd # "none"
            /\ pc' = IF MinuteSave(a) THEN "cutting" ELSE "checking"
            /\ pass'.loop = LoopAfter(m, got)
            /\ pass'.then = IF MinuteSave(a) THEN "checking" ELSE "idle"
            /\ lag' = IF SlotEnded(m) /\ rec.fd = "open" THEN lag ELSE 0
  BY PassTaken
<1> DEFINE a == AfterFrame(got)
           m == MarkUnit(a)
<1>2. /\ UNCHANGED <<clock, hist, card, reboot, idx>> /\ ~reboot
      /\ pc = "saving" /\ Going
  BY DEF SavePass, envVars, Going
<1>3. /\ clock \in Nat /\ lag \in Nat /\ lag <= UnitSecs /\ card /\ rec \in Recs
      /\ hist \in Hists
      /\ type \in Types /\ type \in AllTypes /\ UnitSecs \in Nat \ {0}
      /\ rec.fd # "none" => rec.fd = "open"
  BY IndexTyped, Lengths DEF Undisturbed
<1>4. PICK u \in UnitIdx :
        /\ AtUnit(rec, u, hist, clock)
        /\ rec.fd = "open" =>
             /\ Covers(rec.file, u, hist, clock)
             /\ Completes(rec, u, hist, clock - lag)
  BY <1>2 DEF IndexInv, UnitsKept, Waits
<1>5. /\ rec.file \in Nat /\ rec.file # NoFile /\ Undamaged
      /\ Kept(rec.file, rec.units, hist, clock) /\ Counted(rec, hist)
  BY <1>4 DEF AtUnit, AtUnitTime, IndexInv, UnitsKept, HeldKept, NoFile
<1>6. AtUnit(a, u, hist, clock) /\ Counted(a, hist)
  <2> HIDE DEF a
  <2>1. AtUnit(a, u, hist, clock)
    BY <1>1, <1>4 DEF AtUnit, AtUnitTime, FileTime, a
  <2>2. a.units = rec.units /\ a.file = rec.file /\ rec.len <= a.len
        /\ a.len \in Nat /\ rec.len \in Nat /\ \A i \in UnitIdx : rec.units[i].offset \in Nat
    BY <1>1, <1>3 DEF a, Recs, Units
  <2>3. Counted(a, hist)
    BY <1>5, <2>2 DEF Counted
  <2> QED  BY <2>1, <2>3
<1>7. /\ Kept(rec.file, m.units, hist, clock) /\ Counted(m, hist)
      /\ ~UnitOver(a) => m = a
      /\ UnitOver(a) => m.unitTime = UnitEnd(a) /\ m.units[u].type = type
      /\ \A i \in UnitIdx : i # u => m.units[i] = rec.units[i]
  BY <1>1, <1>3, <1>5, <1>6, MarkKept DEF Undisturbed
<1> HIDE DEF m, a
<1>8. /\ a \in Recs /\ m \in Recs /\ rec' = m
      /\ a.fd = rec.fd /\ a.file = rec.file /\ a.units = rec.units
      /\ a.unitTime = rec.unitTime
      /\ m.fd = rec.fd /\ m.file = rec.file
      /\ got => rec.fd # "none"
      /\ pc' \in {"cutting", "checking"}
      /\ pass'.loop = LoopAfter(m, got)
      /\ pass'.then = IF pc' = "cutting" THEN "checking" ELSE "idle"
      /\ lag' = IF SlotEnded(m) /\ rec.fd = "open" THEN lag ELSE 0
  BY <1>1 DEF m, a
<1>9. SavedKept' /\ HeldKept'
  <2>1. SavedKept'
    BY <1>2, SavedLeft DEF SameHistory
  <2>2. HeldKept'
    BY <1>2, <1>5, <1>7, <1>8 DEF HeldKept
  <2> QED  BY <2>1, <2>2
<1>10. Undamaged' /\ PassHolds'
  <2>1. pass'.loop = "on" => rec'.fd = "open"
    BY <1>3, <1>8 DEF LoopAfter
  <2> QED  BY <1>2, <1>5, <1>8, <2>1 DEF Undamaged, PassHolds
<1>11. Waits' /\ Ended'
  <2>1. CASE rec.fd # "open"
    BY <1>8, <2>1 DEF Waits, Ended, Going
  <2>2. CASE rec.fd = "open" /\ SlotEnded(m)
    <3>1. pass'.loop = "over" /\ clock' - lag' = clock - lag
      BY <1>2, <1>8, <2>2 DEF LoopAfter
    <3>2. ~Going'
      BY <1>8, <3>1 DEF Going
    <3>3. Completes(m, u, hist, clock - lag)
      <4>1. \A i \in UnitIdx : i < u => i # u
        BY Lengths
      <4> QED  BY <1>4, <1>7, <1>8, <2>2, <4>1 DEF Completes, Marked
    <3>4. Completes(rec, u, hist, clock - lag)'
      BY <1>2, <1>8, <3>1, <3>3
    <3> QED  BY <3>2, <3>4 DEF Waits, Ended
  <2>3. CASE rec.fd = "open" /\ ~SlotEnded(m)
    <3> DEFINE E == (rec.file + 1) * FileSecs
    <3>1. clock < E
      <4>1. E \in Nat /\ clock - lag < E
        BY <1>2, <1>5, <2>3, Lengths, Product DEF IndexInv, WindowInv, InSlot
      <4>2. ~(E <= clock /\ clock < E + UnitSecs)
        BY <1>3, <1>5, <1>8, <2>3, SlotIsOver
      <4> HIDE DEF E
      <4> QED  BY <1>3, <4>1, <4>2
    <3>2. /\ Covers(a.file, u, hist, clock) /\ Completes(a, u, hist, clock - lag)
          /\ clock < (a.file + 1) * FileSecs
      BY <1>4, <1>8, <2>3, <3>1 DEF Completes
    <3>3. PICK v \in UnitIdx :
            /\ AtUnit(m, v, hist, clock)
            /\ Covers(m.file, v, hist, clock)
            /\ Completes(m, v, hist, clock)
      BY <1>3, <1>6, <1>7, <1>8, <3>2, UnitWaited DEF Undisturbed
    <3>4. clock' - lag' = clock
      BY <1>2, <1>3, <1>8, <2>3
    <3>5. /\ AtUnit(rec, v, hist, clock)' /\ Covers(rec.file, v, hist, clock)'
          /\ Completes(rec, v, hist, clock - lag)'
      <4>1. AtUnit(rec', v, hist', clock')
        BY <1>2, <1>8, <3>3
      <4>2. Covers(rec'.file, v, hist', clock')
        BY <1>2, <1>8, <3>3
      <4>3. Completes(rec', v, hist', clock' - lag')
        BY <1>2, <1>8, <3>3, <3>4
      <4> QED  BY <4>1, <4>2, <4>3 DEF AtUnit, AtUnitTime, FileTime, Covers, Completes
    <3> QED  BY <3>5 DEF Waits, Ended
  <2> QED  BY <2>1, <2>2, <2>3
<1> QED  BY <1>9, <1>10, <1>11 DEF UnitsKept

(* A file is opened, new or continued: the index of a continued one shows  *)
(* only units that are over, so none from the present unit on, and none    *)
(* behind the length the file has.                                         *)
LEMMA UnitsOpenFile ==
  ASSUME Undisturbed, IndexInv, OpenFile
  PROVE  UnitsKept'
<1>1. /\ rec' = OpenedRec("open") /\ lag' = 0 /\ pc' = "saving" /\ pass' = NoPass
      /\ UNCHANGED <<clock, card>> /\ pc = "starting"
      /\ idx' = IF Slot \in DOMAIN pes THEN idx ELSE [f \in DOMAIN idx \ {Slot} |-> idx[f]]
      /\ hist' = [hist EXCEPT !.covered = @ \cup {UnitAt(clock)}, !.openedAt = clock]
  BY DEF OpenFile, envVars, Undisturbed
<1>2. /\ hist \in Hists /\ clock \in Nat /\ IdxType(idx) /\ PesType(pes) /\ Slot \in Nat
      /\ SavedKept /\ Undamaged /\ FilesPerDay > 1 /\ rec.fd = "none"
      /\ IndexHolds(rec, pes, idx, hist)
  BY <1>1, IndexTyped, TimesAreNat DEF IndexInv, UnitsKept, Undisturbed, FilesInv, FilesFit,
     ControlInv, StartsWithoutFile
<1>3. /\ hist'.covered = hist.covered \cup {UnitAt(clock)}
      /\ hist'.torn = hist.torn /\ hist'.openedAt = clock /\ hist'.pulled = hist.pulled
  BY <1>1, <1>2 DEF Hists
<1> DEFINE known == Slot \in DOMAIN pes /\ Slot \in DOMAIN idx
<1>4. /\ rec'.fd = "open" /\ rec'.file = Slot
      /\ rec'.unitTime = Now - (Now % UnitSecs)
      /\ rec'.units = IF known THEN idx[Slot] ELSE NoUnits
      /\ rec'.len = IF known THEN pes[Slot] ELSE 0
  BY <1>1 DEF OpenedRec
<1>5. ASSUME NEW f \in Nat, NEW units, Kept(f, units, hist, clock)
      PROVE  Kept(f, units, hist', clock)
  BY <1>2, <1>3, <1>5, KeptLater
<1>6. SavedKept'
  <2>1. ASSUME NEW f \in DOMAIN idx' PROVE Kept(f, idx'[f], hist', clock)
    <3>1. f \in DOMAIN idx /\ idx'[f] = idx[f]
      BY <1>1, <2>1
    <3> QED  BY <1>2, <1>5, <3>1 DEF SavedKept, IdxType
  <2> QED  BY <1>1, <2>1 DEF SavedKept
<1>7. Kept(Slot, rec'.units, hist', clock) /\ Counted(rec', hist')
  <2>1. CASE known
    <3>1. Kept(Slot, rec'.units, hist', clock)
      BY <1>2, <1>4, <1>5, <2>1 DEF SavedKept
    <3>2. Slot \notin hist.torn => AheadOf(rec, hist.torn, Slot) = 0
      BY <1>2 DEF AheadOf, Waiting
    <3>3. ASSUME Slot \notin hist.torn, NEW i \in UnitIdx
          PROVE  idx[Slot][i].offset <= pes[Slot]
      <4>1. idx[Slot][i].offset <= pes[Slot] + AheadOf(rec, hist.torn, Slot)
        BY <1>2, <2>1 DEF IndexHolds, Undamaged
      <4>2. pes[Slot] \in Nat
        BY <1>2, <2>1 DEF PesType
      <4> QED  BY <3>2, <3>3, <4>1, <4>2
    <3> QED  BY <1>3, <1>4, <2>1, <3>1, <3>3 DEF Counted
  <2>2. CASE ~known
    <3>1. /\ rec'.units = NoUnits /\ rec'.len = 0
          /\ \A i \in UnitIdx : NoUnits[i].type = CLOSED /\ NoUnits[i].offset = 0
      BY <1>4, <2>2 DEF NoUnits, Unmarked
    <3> QED  BY <3>1 DEF Kept, Marked, Monotone, Counted
  <2> QED  BY <2>1, <2>2
<1>8. HeldKept' /\ Undamaged' /\ PassHolds'
  BY <1>1, <1>2, <1>3, <1>4, <1>7
  DEF HeldKept, Counted, Undamaged, PassHolds, NoPass, NoFile
<1>9. Waits' /\ Ended'
  <2>1. PICK u \in UnitIdx :
          /\ AtUnitTime(rec', u) /\ UnitAt(clock) = <<Slot, u>>
          /\ Begin(Slot, u) <= clock /\ clock < Begin(Slot, u + 1)
    BY <1>2, <1>4, OpenedAtUnit
  <2>2. ASSUME NEW i \in UnitIdx
        PROVE  /\ i \in Nat /\ u \in Nat
               /\ Begin(Slot, i) \in Nat /\ Begin(Slot, i + 1) \in Nat
               /\ Begin(Slot, u) \in Nat /\ Begin(Slot, u + 1) \in Nat
               /\ Begin(Slot, i) <= Begin(Slot, i + 1)
               /\ i < u => Begin(Slot, i + 1) <= Begin(Slot, u)
               /\ u < i => Begin(Slot, u + 1) <= Begin(Slot, i)
               /\ i = u \/ i < u \/ u < i
    <3>1. i \in Nat /\ u \in Nat
      BY Lengths
    <3>2. /\ Begin(Slot, i) \in Nat /\ Begin(Slot, i + 1) \in Nat
          /\ Begin(Slot, i + 1) = Begin(Slot, i) + UnitSecs
          /\ i < u => Begin(Slot, i + 1) <= Begin(Slot, u)
      BY <1>2, <3>1, BeginIsTime
    <3>3. /\ Begin(Slot, u) \in Nat /\ Begin(Slot, u + 1) \in Nat
          /\ u < i => Begin(Slot, u + 1) <= Begin(Slot, i)
      BY <1>2, <3>1, BeginIsTime
    <3> QED  BY <3>1, <3>2, <3>3, Lengths
  <2>3. AtUnit(rec', u, hist', clock)
    <3>1. ASSUME NEW i \in UnitIdx, Marked(rec'.units, i) PROVE i < u
      <4>1. Begin(Slot, i + 1) <= clock
        BY <1>7, <3>1 DEF Kept
      <4>2. i = u => FALSE
        BY <1>2, <2>1, <2>2, <4>1
      <4>3. u < i => FALSE
        <5>1. /\ Begin(Slot, i) <= Begin(Slot, i + 1)
              /\ u < i => Begin(Slot, u + 1) <= Begin(Slot, i)
          BY <2>2
        <5> QED  BY <1>2, <2>1, <2>2, <4>1, <5>1
      <4> QED  BY <2>2, <4>2, <4>3
    <3> QED  BY <1>3, <1>4, <2>1, <3>1 DEF AtUnit
  <2>4. Covers(Slot, u, hist', clock)
    <3>1. ASSUME NEW i \in UnitIdx, u <= i, Begin(Slot, i) <= clock PROVE i = u
      BY <1>2, <2>1, <2>2, <3>1
    <3> QED  BY <1>3, <2>1, <3>1 DEF Covers
  <2>5. Completes(rec', u, hist', clock)
    <3>1. ASSUME NEW i \in UnitIdx, i < u, clock < Begin(Slot, i + 1) PROVE FALSE
      BY <1>2, <2>1, <2>2, <3>1
    <3> QED  BY <1>3, <1>4, <2>1, <3>1 DEF Completes
  <2>6. clock' - lag' = clock
    BY <1>1, <1>2
  <2> QED
    BY <1>1, <1>4, <2>3, <2>4, <2>5, <2>6
    DEF Waits, Ended, AtUnit, AtUnitTime, FileTime, Covers, Completes
<1> QED  BY <1>6, <1>8, <1>9 DEF UnitsKept

LEMMA UnitsStep ==
  ASSUME Undisturbed
  PROVE  IndexInv /\ [Next]_vars => IndexInv'
<1> SUFFICES ASSUME IndexInv, [Next]_vars PROVE UnitsKept'
  BY FilesStep, WindowStep DEF IndexInv, Undisturbed
<1>1. Undamaged
  BY DEF IndexInv, UnitsKept
<1>2. CASE OpenFile
  BY <1>2, UnitsOpenFile
<1>3. CASE SavePass
  BY <1>3, UnitsSavePass
<1>4. CASE Stopping
  <2>1. Leaves /\ PassHolds' /\ idx' = idx
    BY <1>4, StoppingLeaves
  <2>2. HeldKept' /\ Waits' /\ Ended' /\ SavedKept'
    BY <2>1, UnitsLeft, SavedLeft DEF Leaves
  <2>3. Undamaged'
    BY <1>1, <2>1 DEF Undamaged, Leaves, SameHistory
  <2> QED  BY <2>1, <2>2, <2>3 DEF UnitsKept
<1>5. CASE CutIdx \/ WriteIdx
  <2>1. Leaves /\ PassHolds'
    BY <1>5, SavingLeaves
  <2>2. HeldKept' /\ Waits' /\ Ended' /\ SavedKept'
    BY <1>5, <2>1, UnitsLeft, SavedRewritten
  <2>3. Undamaged'
    BY <1>1, <2>1 DEF Undamaged, Leaves, SameHistory
  <2> QED  BY <2>1, <2>2, <2>3 DEF UnitsKept
<1>6. CASE Tick
  <2>1. SavedKept' /\ HeldKept' /\ Waits' /\ Ended'
    BY <1>6, UnitsTick
  <2>2. Undamaged' /\ PassHolds'
    <3>1. UNCHANGED <<rec, card, pc, pass>> /\ hist'.pulled = hist.pulled
      BY <1>6, IndexTyped DEF Tick, Hists
    <3> QED  BY <1>1, <3>1 DEF Undamaged, PassHolds, IndexInv, UnitsKept
  <2> QED  BY <2>1, <2>2 DEF UnitsKept
<1>7. CASE Ending
  BY <1>7, UnitsEnding
<1>8. CASE Rests
  <2>1. Leaves /\ PassHolds' /\ idx' = idx
    BY <1>8, RestLeaves DEF Rests
  <2>2. HeldKept' /\ Waits' /\ Ended' /\ SavedKept'
    BY <2>1, UnitsLeft, SavedLeft DEF Leaves
  <2>3. Undamaged'
    BY <1>1, <2>1 DEF Undamaged, Leaves, SameHistory
  <2> QED  BY <2>1, <2>2, <2>3 DEF UnitsKept
<1> QED  BY <1>2, <1>3, <1>4, <1>5, <1>6, <1>7, <1>8, StepCases

LEMMA UnitsInit == Init => IndexInv
<1> SUFFICES ASSUME Init PROVE UnitsKept
  BY FilesInit, WindowInit DEF IndexInv
<1>1. Undamaged /\ PassHolds /\ SavedKept /\ Waits /\ Ended
  BY DEF Init, FreshRec, NoPass, Undamaged, PassHolds, SavedKept, Waits, Ended, Going
<1>2. HeldKept
  BY DEF Init, FreshRec, HeldKept, Counted, NoUnits, Unmarked
<1> QED  BY <1>1, <1>2 DEF UnitsKept

LEMMA IndexInvariant == ASSUME Undisturbed PROVE Spec => []IndexInv
<1>1. IndexInv /\ [Next]_vars => IndexInv'
  BY UnitsStep
<1> QED  BY <1>1, UnitsInit, PTL DEF Spec

(* What an index shows as recorded was recorded, on the card, also after   *)
(* the process has ended at any moment and a file has been continued:      *)
(* save_record_frame marks the unit that has ended, which it began in.     *)
THEOREM MarkedIsRecorded ==
  ASSUME Undisturbed
  PROVE  Spec => []MarkedMeansRecorded
<1>1. IndexInv => MarkedMeansRecorded
  BY DEF IndexInv, UnitsKept, SavedKept, Kept, Marked, MarkedMeansRecorded
<1> QED  BY <1>1, IndexInvariant, PTL

(* The units of an index lie in the file in their order, however often the *)
(* file was closed and continued: a unit is marked only after all before   *)
(* it, and with the length the file has by then.                           *)
THEOREM UnitsInOrder ==
  ASSUME Undisturbed
  PROVE  Spec => []IndexOrdered
<1>1. IndexInv => IndexOrdered
  <2> SUFFICES ASSUME IndexInv PROVE IndexOrdered
    OBVIOUS
  <2>1. \A f \in DOMAIN idx \ hist.torn : Monotone(idx[f])
    BY DEF IndexInv, UnitsKept, SavedKept, Kept
  <2>2. rec.file # NoFile /\ rec.file \notin hist.torn => Monotone(rec.units)
    BY DEF IndexInv, UnitsKept, HeldKept, Kept
  <2>3. rec.file = NoFile => Monotone(rec.units)
    <3>1. \A i \in UnitIdx : NoUnits[i].type = CLOSED
      BY DEF NoUnits, Unmarked
    <3> QED  BY <3>1 DEF IndexInv, UnitsKept, HeldKept, Monotone
  <2> QED  BY <2>1, <2>2, <2>3 DEF IndexOrdered
<1> QED  BY <1>1, IndexInvariant, PTL

(* An open file has all its units: each whose end a poll could see, since  *)
(* the file was opened, is marked, for a poll marks one unit and comes     *)
(* once in the time of one.  In the last slot of a day, where every time   *)
(* of day is past the end, recording that is switched off goes on and the  *)
(* units are marked as not recorded: it is assumed to be left on.          *)
THEOREM AllUnitsMarked ==
  ASSUME Undisturbed, CLOSED \notin Types
  PROVE  Spec => []IndexComplete
<1>1. IndexInv => IndexComplete
  <2> SUFFICES ASSUME IndexInv, rec.fd = "open", ~reboot, NEW i \in UnitIdx,
                      hist.openedAt < Begin(rec.file, i + 1),
                      Begin(rec.file, i + 1) <= clock - lag
               PROVE  Marked(rec.units, i)
    BY DEF IndexComplete, Begin, Marked
  <2>1. PICK u \in UnitIdx : Completes(rec, u, hist, clock - lag)
    BY DEF IndexInv, UnitsKept, Waits, Ended
  <2>2. rec.file \in Nat /\ i \in Nat /\ u \in Nat /\ clock - lag \in Int
    BY Lengths, IndexTyped
  <2>3. /\ Begin(rec.file, i) \in Nat /\ Begin(rec.file, i + 1) \in Nat
        /\ Begin(rec.file, i + 1) = Begin(rec.file, i) + UnitSecs
        /\ Begin(rec.file, u + 1) \in Nat
        /\ u < i => Begin(rec.file, u + 1) <= Begin(rec.file, i)
    BY <2>2, BeginIsTime
  <2>4. clock - lag < Begin(rec.file, u + 1)
    BY <2>1 DEF Completes
  <2>5. i # u /\ ~(u < i)
    BY <2>2, <2>3, <2>4, Lengths
  <2>6. i < u
    BY <2>2, <2>5
  <2> QED  BY <2>1, <2>6 DEF Completes
<1> QED  BY <1>1, IndexInvariant, PTL

-----------------------------------------------------------------------------
(* What is on the card is never taken back.                                *)

-----------------------------------------------------------------------------
(* What is on the card is taken from it only to be written again.          *)

(* The index in memory shows all that the saved one of its file shows.     *)
HeldAhead == rec.file \in DOMAIN idx => Shows(rec.units, idx[rec.file])

Grows ==
  \A f \in DOMAIN idx \cap DOMAIN pes :
    \/ f \in DOMAIN idx' /\ Shows(idx'[f], idx[f])
    \/ pc' = "writing" /\ f = rec.file /\ Shows(rec.units, idx[f])

LEMMA GrowsLeft == idx' = idx => Grows
BY DEF Grows, Shows

(* A pass changes no unit that is marked.                                  *)
LEMMA PassAdds ==
  ASSUME Undisturbed, IndexInv, SavePass
  PROVE  /\ rec'.file = rec.file /\ idx' = idx
         /\ \A i \in UnitIdx : Marked(rec.units, i) => rec'.units[i] = rec.units[i]
<1>1. PICK got \in BOOLEAN :
        LET a == AfterFrame(got)
            m == MarkUnit(a)
        IN  /\ a \in Recs /\ rec' = m
            /\ a.file = rec.file /\ a.units = rec.units /\ a.unitTime = rec.unitTime
            /\ m.file = rec.file
  BY PassTaken
<1> DEFINE a == AfterFrame(got)
           m == MarkUnit(a)
<1>2. PICK u \in UnitIdx : AtUnit(rec, u, hist, clock)
  BY DEF SavePass, Going, IndexInv, UnitsKept, Waits
<1> HIDE DEF m, a
<1>3. /\ a \in Recs /\ rec' = m /\ m = MarkUnit(a)
      /\ a.file = rec.file /\ a.units = rec.units /\ a.unitTime = rec.unitTime
      /\ m.file = rec.file /\ a.file \in Nat /\ idx' = idx
  BY <1>1, <1>2 DEF m, a, AtUnit, AtUnitTime, SavePass
<1>4. AtUnitTime(a, u)
  BY <1>2, <1>3 DEF AtUnit, AtUnitTime, FileTime
<1>5. \A i \in UnitIdx : i # u => m.units[i] = a.units[i]
  <2>1. UnitOver(a) => EndedUnit(a) = u
    BY <1>4, EndedIsUnit DEF Undisturbed
  <2>2. a.units \in Units
    BY <1>3 DEF Recs
  <2>3. UnitOver(a) =>
          m.units = [a.units EXCEPT ![u] = [type |-> type, offset |-> a.len]]
    BY <1>3, <2>1 DEF MarkUnit, Recs
  <2>4. ~UnitOver(a) => m = a
    BY <1>3 DEF MarkUnit
  <2> QED  BY <2>2, <2>3, <2>4 DEF Units
<1>6. ASSUME NEW i \in UnitIdx, Marked(rec.units, i) PROVE rec'.units[i] = rec.units[i]
  <2>1. i < u /\ i \in Nat /\ u \in Nat
    BY <1>2, <1>6, Lengths DEF AtUnit
  <2> QED  BY <1>3, <1>5, <2>1
<1> QED  BY <1>3, <1>6

LEMMA AheadStep ==
  ASSUME Undisturbed, IndexInv, HeldAhead, [Next]_vars
  PROVE  HeldAhead' /\ Grows
<1>1. ASSUME UNCHANGED <<rec.file, rec.units, idx>> PROVE HeldAhead' /\ Grows
  BY <1>1, GrowsLeft DEF HeldAhead, Shows
<1>2. CASE OpenFile
  <2>1. /\ rec'.file = Slot
        /\ rec'.units = IF Slot \in DOMAIN pes /\ Slot \in DOMAIN idx
                        THEN idx[Slot] ELSE NoUnits
        /\ idx' = IF Slot \in DOMAIN pes THEN idx
                  ELSE [f \in DOMAIN idx \ {Slot} |-> idx[f]]
    BY <1>2 DEF OpenFile, OpenedRec
  <2>2. HeldAhead'
    BY <2>1 DEF HeldAhead, Shows
  <2>3. Grows
    BY <2>1 DEF Grows, Shows
  <2> QED  BY <2>2, <2>3
<1>3. CASE SavePass
  <2>1. /\ rec'.file = rec.file /\ idx' = idx
        /\ \A i \in UnitIdx : Marked(rec.units, i) => rec'.units[i] = rec.units[i]
    BY <1>3, PassAdds
  <2>2. HeldAhead'
    BY <2>1 DEF HeldAhead, Shows, Marked
  <2> QED  BY <2>1, <2>2, GrowsLeft
<1>4. CASE Stopping
  BY <1>1, <1>4, StoppingLeaves DEF Leaves
<1>5. CASE CutIdx \/ WriteIdx
  <2>1. /\ rec' = rec
        /\ pc = "cutting" =>
             pc' = "writing" /\ idx' = [f \in DOMAIN idx \ {rec.file} |-> idx[f]]
        /\ pc = "writing" =>
             idx' = [f \in DOMAIN idx \cup {rec.file} |->
                       IF f = rec.file THEN rec.units ELSE idx[f]]
        /\ pc \in {"cutting", "writing"}
    BY <1>5, SavingLeaves
  <2>2. HeldAhead'
    BY <2>1 DEF HeldAhead, Shows
  <2>3. Grows
    BY <2>1 DEF Grows, HeldAhead, Shows
  <2> QED  BY <2>2, <2>3
<1>6. CASE Tick \/ Rests
  <2>1. UNCHANGED <<rec, idx>>
    BY <1>6 DEF Tick, Rests
  <2> QED  BY <1>1, <2>1
<1>7. CASE Ending
  <2>1. rec'.file = NoFile /\ idx' = idx
    BY <1>7 DEF Ending, Dies, FreshRec
  <2>2. NoFile \notin DOMAIN idx
    BY IndexTyped DEF IdxType, NoFile
  <2> QED  BY <2>1, <2>2, GrowsLeft DEF HeldAhead
<1> QED  BY <1>2, <1>3, <1>4, <1>5, <1>6, <1>7, StepCases

(* What an index on the card shows as recorded stays there as it is, as    *)
(* long as its file exists, but for the moment between the two calls of a  *)
(* save, in which the task holds all of it: the file that is continued     *)
(* begins with what was saved of it, and the unit that ends was not marked *)
(* before.  A process that ends in that moment takes it with it.           *)
THEOREM SavedStays ==
  ASSUME Undisturbed
  PROVE  Spec => IndexOnlyGrows
<1>1. Init => HeldAhead
  BY DEF Init, HeldAhead
<1>2. IndexInv /\ HeldAhead /\ [Next]_vars => HeldAhead' /\ [Grows]_idx
  BY AheadStep
<1> QED  BY <1>1, <1>2, IndexInvariant, PTL DEF Spec, IndexOnlyGrows, Grows

-----------------------------------------------------------------------------
(* The recorder task implements the archive.                               *)

(* A unit that is known but not saved, and the units with which the index  *)
(* is saved each minute.                                                   *)
Unsaved(i) ==
  /\ Marked(rec.units, i)
  /\ ~(rec.file \in DOMAIN idx /\ Marked(idx[rec.file], i))
Saves(f, j) == ((f % FilesPerDay) * UnitsPerFile + j + 2) % UnitsPerMinute = 0

(* Closing a file saves all of it, but one more unit may end in the pass   *)
(* after; but for the moment of a save never a minute of them is unsaved,  *)
(* for while a file is open none is that a minute has passed over.         *)
FileThere == rec.file # NoFile => rec.file \in DOMAIN pes
InSave == pc \in {"cutting", "writing"}
OneUnsaved ==
  rec.fd = "none" /\ ~InSave =>
    /\ \A i, k \in UnitIdx : Unsaved(i) /\ Unsaved(k) => i = k
    /\ pc = "saving" => \A i \in UnitIdx : ~Unsaved(i)
Span ==
  pc # "writing" =>
    \A i, k \in UnitIdx : Unsaved(i) /\ Unsaved(k) => k - i < UnitsPerMinute
MinuteSaved ==
  Going /\ rec.fd = "open" /\ ~InSave =>
    \A i, j \in UnitIdx :
      Unsaved(i) /\ Saves(rec.file, j) /\ i <= j
        => rec.unitTime <= FileTime(rec) + j * UnitSecs
SavedInv == FileThere /\ OneUnsaved /\ Span /\ MinuteSaved

ArchiveInv == IndexInv /\ HeldAhead /\ SavedInv

(* The index is saved within a minute, and a day is one of whole minutes.  *)
WholeMinutes ==
  /\ UnitsPerMinute > 1
  /\ (FilesPerDay * UnitsPerFile) % UnitsPerMinute = 0

LEMMA SomeSaves ==
  ASSUME NEW f \in Nat, NEW i \in Nat
  PROVE  \E d \in 0 .. UnitsPerMinute - 1 : Saves(f, i + d)
<1> DEFINE m == UnitsPerMinute
           n == (f % FilesPerDay) * UnitsPerFile + i + 2
           q == n \div m
           w == n % m
<1>1. m \in Nat \ {0} /\ f % FilesPerDay \in Nat /\ UnitsPerFile \in Nat
  BY LengthsAssumption, DivMod
<1>2. n \in Nat
  <2>1. (f % FilesPerDay) * UnitsPerFile \in Nat
    BY <1>1
  <2> HIDE DEF m
  <2> QED  BY <2>1
<1>3. ASSUME NEW d \in Nat, (n + d) % m = 0 PROVE Saves(f, i + d)
  <2> DEFINE x == (f % FilesPerDay) * UnitsPerFile
  <2>1. x \in Nat
    BY <1>1
  <2> HIDE DEF x
  <2>2. x + (i + d) + 2 = (x + i + 2) + d
    BY <2>1
  <2> QED  BY <1>3, <2>2 DEF Saves, x
<1> HIDE DEF n, m
<1>4. q \in Nat /\ w \in 0 .. m - 1 /\ n = m * q + w
  BY <1>1, <1>2, Quotient
<1> HIDE DEF q, w
<1>5. CASE w = 0
  <2>1. n + 0 = m * q + 0 /\ 0 \in 0 .. m - 1 /\ q \in Int
    BY <1>1, <1>4, <1>5
  <2>2. (n + 0) % m = 0
    BY <1>1, <2>1, DivisionUnique
  <2> QED  BY <1>3, <2>1, <2>2 DEF m
<1>6. CASE w # 0
  <2> DEFINE d == m - w
  <2>1. d \in Nat /\ d \in 0 .. m - 1 /\ 0 \in 0 .. m - 1
    BY <1>1, <1>4, <1>6
  <2>2. m * (q + 1) = m * q + m
    BY <1>1, <1>4
  <2>3. m * q \in Nat
    BY <1>1, <1>4
  <2>4. n + d = m * (q + 1) + 0
    BY <1>1, <1>4, <2>2, <2>3
  <2>5. (n + d) % m = 0
    BY <1>1, <1>4, <2>1, <2>4, DivisionUnique
  <2> HIDE DEF d
  <2> QED  BY <1>3, <2>1, <2>5 DEF m
<1> QED  BY <1>5, <1>6

(* The end of such a unit saves the index; 0 o'clock is none.              *)
LEMMA MinuteUnitSaves ==
  ASSUME NEW r, NEW u, AtUnitTime(r, u), UnitOver(r), FilesPerDay > 1, WholeMinutes,
         Saves(r.file, u)
  PROVE  MinuteSave(r)
<1> DEFINE k == r.file % FilesPerDay
           n == k * UnitsPerFile + u + 1
           N == FilesPerDay * UnitsPerFile
           m == UnitsPerMinute
<1>1. PICK d \in Nat, b \in Nat, e \in Nat :
           /\ r.unitTime = b /\ e = b + UnitSecs /\ e <= DaySecs
           /\ UnitEnd(r) = IF e = DaySecs THEN 0 ELSE e
  BY UnitOfDay
<1>2. /\ m \in Nat \ {0} /\ 1 < m /\ UnitSecs \in Nat \ {0} /\ u \in Nat /\ k \in Nat
      /\ N \in Nat /\ k * UnitsPerFile \in Nat /\ n \in Nat /\ MinSecs = UnitSecs * m
      /\ MinSecs \in Nat \ {0}
  <2>1. /\ m \in Nat \ {0} /\ 1 < m /\ UnitSecs \in Nat \ {0} /\ u \in Nat
        /\ UnitsPerFile \in Nat /\ FilesPerDay \in Nat \ {0} /\ r.file \in Nat
    BY LengthsAssumption, Lengths DEF WholeMinutes, AtUnitTime
  <2>2. k \in Nat
    BY <2>1, DivMod
  <2>3. ASSUME NEW x \in Nat, NEW y \in Nat PROVE x * y \in Nat
    OBVIOUS
  <2>4. ASSUME NEW x \in Nat \ {0}, NEW y \in Nat \ {0} PROVE x * y \in Nat \ {0}
    OBVIOUS
  <2>5. N \in Nat /\ k * UnitsPerFile \in Nat /\ UnitSecs * m \in Nat \ {0}
    <3> HIDE DEF k
    <3> QED  BY <2>1, <2>2, <2>3, <2>4
  <2> QED  BY <2>1, <2>2, <2>5 DEF MinSecs
<1>3. e = n * UnitSecs
  <2>1. r.unitTime = FileTime(r) + u * UnitSecs
    BY DEF AtUnitTime
  <2>2. FileTime(r) = (k * UnitsPerFile) * UnitSecs
    <3>1. FileTime(r) = k * FileSecs
      BY DEF FileTime, AtUnitTime, NoFile
    <3>2. ASSUME NEW x \in Nat, NEW y \in Nat, NEW z \in Nat PROVE x * (y * z) = (x * z) * y
      OBVIOUS
    <3> HIDE DEF k
    <3> QED  BY <1>2, <3>1, <3>2, Lengths DEF FileSecs
  <2>3. ASSUME NEW x \in Nat, NEW y \in Nat, NEW z \in Nat
        PROVE  x * z + y * z + z = (x + y + 1) * z
    OBVIOUS
  <2> HIDE DEF k
  <2>4. (k * UnitsPerFile) * UnitSecs + u * UnitSecs + UnitSecs = n * UnitSecs
    BY <1>2, <2>3
  <2> QED  BY <1>1, <2>1, <2>2, <2>4
<1>4. N * UnitSecs = DaySecs
  <2>1. ASSUME NEW x \in Nat, NEW y \in Nat, NEW z \in Nat PROVE (x * y) * z = (z * y) * x
    OBVIOUS
  <2> QED  BY <1>2, <2>1, Lengths DEF DaySecs, FileSecs
<1>5. (n + 1) % m = 0 /\ N % m = 0
  <2> DEFINE x == k * UnitsPerFile
  <2>1. x + u + 2 = (x + u + 1) + 1
    <3> HIDE DEF k, x
    <3> QED  BY <1>2 DEF x
  <2> QED  BY <2>1 DEF Saves, WholeMinutes
<1> HIDE DEF n, N, k, m
<1>6. e # DaySecs
  <2> SUFFICES ASSUME e = DaySecs PROVE FALSE
    OBVIOUS
  <2>1. n = N
    <3>1. n < N => n * UnitSecs + UnitSecs <= N * UnitSecs
      BY <1>2, Ordered
    <3>2. N < n => N * UnitSecs + UnitSecs <= n * UnitSecs
      BY <1>2, Ordered
    <3>3. n * UnitSecs = N * UnitSecs /\ n * UnitSecs \in Nat
      BY <1>1, <1>3, <1>4
    <3> QED  BY <1>2, <3>1, <3>2, <3>3
  <2>2. PICK q \in Nat : N = m * q
    <3>1. N \div m \in Nat /\ N = m * (N \div m) + (N % m)
      BY <1>2, Quotient
    <3>2. m * (N \div m) \in Nat
      BY <1>2, <3>1
    <3> QED  BY <1>5, <3>1, <3>2
  <2>3. (m * q + 1) % m = 1
    <3>1. 1 \in 0 .. m - 1 /\ q \in Int
      BY <1>2
    <3> QED  BY <1>2, <3>1, DivisionUnique
  <2> QED  BY <1>5, <2>1, <2>2, <2>3
<1>7. UnitEnd(r) = e /\ e # 0
  BY <1>1, <1>2, <1>6
<1>8. (e + UnitSecs) % MinSecs = 0
  <2>1. PICK q \in Nat : n + 1 = m * q
    <3>0. n + 1 \in Nat
      BY <1>2
    <3>1. (n + 1) \div m \in Nat /\ n + 1 = m * ((n + 1) \div m) + ((n + 1) % m)
      BY <1>2, <3>0, Quotient
    <3>2. m * ((n + 1) \div m) \in Nat
      BY <1>2, <3>1
    <3> QED  BY <1>5, <3>1, <3>2
  <2>2. e + UnitSecs = (n + 1) * UnitSecs
    BY <1>2, <1>3
  <2>3. (m * q) * UnitSecs = (UnitSecs * m) * q
    BY <1>2
  <2>4. MinSecs * q \in Nat
    BY <1>2
  <2>5. e + UnitSecs = MinSecs * q + 0
    BY <1>2, <2>1, <2>2, <2>3, <2>4
  <2>6. (MinSecs * q + 0) % MinSecs = 0
    <3>1. MinSecs \in Nat \ {0} /\ 0 \in 0 .. MinSecs - 1 /\ q \in Int
      BY <1>2
    <3> QED  BY <3>1, DivisionUnique
  <2> QED  BY <2>5, <2>6
<1>9. EndedUnit(r) \in UnitIdx
  BY EndedIsUnit DEF AtUnitTime
<1> QED  BY <1>7, <1>8, <1>9 DEF MinuteSave

(* A unit as it is shown.                                                  *)
UnitShown(f, units, i) ==
  [file |-> f, unit |-> i, type |-> units[i].type, offset |-> units[i].offset]

LEMMA ShownIs ==
  ASSUME NEW f, NEW units, NEW x
  PROVE  x \in ShownUnits(f, units)
           <=> \E i \in UnitIdx : Marked(units, i) /\ x = UnitShown(f, units, i)
BY DEF ShownUnits, UnitShown, Marked

LEMMA CardShows ==
  ASSUME NEW x
  PROVE  x \in CardUnits
           <=> \E f \in DOMAIN idx \cap DOMAIN pes : x \in ShownUnits(f, idx[f])
BY DEF CardUnits

LEMMA UnsavedIs ==
  ASSUME ArchiveInv, NEW x \in ShownUnits(rec.file, rec.units) \ CardUnits
  PROVE  \E i \in UnitIdx : Unsaved(i) /\ x = UnitShown(rec.file, rec.units, i)
<1>1. PICK i \in UnitIdx : Marked(rec.units, i) /\ x = UnitShown(rec.file, rec.units, i)
  BY ShownIs
<1>2. SUFFICES ASSUME rec.file \in DOMAIN idx, Marked(idx[rec.file], i) PROVE FALSE
  BY <1>1 DEF Unsaved
<1>3. rec.units[i] = idx[rec.file][i]
  BY <1>2 DEF ArchiveInv, HeldAhead, Shows, Marked
<1>4. rec.file \in DOMAIN pes
  BY <1>2, IndexTyped DEF ArchiveInv, SavedInv, FileThere, IdxType, NoFile
<1>5. x \in ShownUnits(rec.file, idx[rec.file])
  BY <1>1, <1>2, <1>3, ShownIs DEF UnitShown
<1> QED  BY <1>2, <1>4, <1>5, CardShows

(* The index in memory is written to the card.                             *)
LEMMA CardSaved ==
  ASSUME ArchiveInv, rec.file \in Nat, DOMAIN pes' = DOMAIN pes,
         idx' = [f \in DOMAIN idx \cup {rec.file} |->
                   IF f = rec.file THEN rec.units ELSE idx[f]]
  PROVE  CardUnits' = CardUnits \cup ShownUnits(rec.file, rec.units)
<1>1. rec.file \in DOMAIN pes
  BY DEF ArchiveInv, SavedInv, FileThere, NoFile
<1>2. ASSUME NEW x \in CardUnits' PROVE x \in CardUnits \cup ShownUnits(rec.file, rec.units)
  <2>1. PICK f \in DOMAIN idx' \cap DOMAIN pes : x \in ShownUnits(f, idx'[f])
    BY <1>2 DEF CardUnits, ShownUnits
  <2>2. CASE f = rec.file
    BY <2>1, <2>2
  <2>3. CASE f # rec.file
    <3>1. f \in DOMAIN idx /\ idx'[f] = idx[f]
      BY <2>1, <2>3
    <3> QED  BY <2>1, <3>1, CardShows
  <2> QED  BY <2>2, <2>3
<1>3. ASSUME NEW f \in DOMAIN idx' \cap DOMAIN pes, NEW x \in ShownUnits(f, idx'[f])
      PROVE  x \in CardUnits'
  BY <1>3 DEF CardUnits, ShownUnits
<1>4. ASSUME NEW x \in ShownUnits(rec.file, rec.units) PROVE x \in CardUnits'
  <2>1. rec.file \in DOMAIN idx' \cap DOMAIN pes /\ idx'[rec.file] = rec.units
    BY <1>1
  <2> QED  BY <1>3, <1>4, <2>1
<1>5. ASSUME NEW x \in CardUnits PROVE x \in CardUnits'
  <2>1. PICK f \in DOMAIN idx \cap DOMAIN pes : x \in ShownUnits(f, idx[f])
    BY <1>5, CardShows
  <2>2. CASE f = rec.file
    <3>1. PICK i \in UnitIdx : Marked(idx[f], i) /\ x = UnitShown(f, idx[f], i)
      BY <2>1, ShownIs
    <3>2. rec.units[i] = idx[f][i]
      BY <2>1, <2>2, <3>1 DEF ArchiveInv, HeldAhead, Shows, Marked
    <3>3. Marked(rec.units, i) /\ x = UnitShown(f, rec.units, i)
      BY <3>1, <3>2 DEF Marked, UnitShown
    <3>4. x \in ShownUnits(rec.file, rec.units)
      BY <2>2, <3>3, ShownIs
    <3> QED  BY <1>4, <3>4
  <2>3. CASE f # rec.file
    <3>1. f \in DOMAIN idx' \cap DOMAIN pes /\ idx'[f] = idx[f]
      BY <2>1, <2>3
    <3> QED  BY <1>3, <2>1, <3>1
  <2> QED  BY <2>2, <2>3
<1> QED  BY <1>2, <1>4, <1>5

(* The index of a file is taken from the card.                             *)
LEMMA CardCut ==
  ASSUME DOMAIN pes' = DOMAIN pes, idx' = [f \in DOMAIN idx \ {rec.file} |-> idx[f]]
  PROVE  CardUnits' = {u \in CardUnits : u.file # rec.file}
<1>1. ASSUME NEW f, NEW x \in ShownUnits(f, idx[f]) PROVE x.file = f
  <2>1. PICK i \in UnitIdx : x = UnitShown(f, idx[f], i)
    BY <1>1, ShownIs
  <2> QED  BY <2>1 DEF UnitShown
<1>2. ASSUME NEW x \in CardUnits' PROVE x \in CardUnits /\ x.file # rec.file
  <2>1. PICK f \in DOMAIN idx' \cap DOMAIN pes : x \in ShownUnits(f, idx'[f])
    BY <1>2 DEF CardUnits, ShownUnits
  <2>2. f \in DOMAIN idx \cap DOMAIN pes /\ idx'[f] = idx[f] /\ f # rec.file
    BY <2>1
  <2> QED  BY <1>1, <2>1, <2>2, CardShows
<1>3. ASSUME NEW x \in CardUnits, x.file # rec.file PROVE x \in CardUnits'
  <2>1. PICK f \in DOMAIN idx \cap DOMAIN pes : x \in ShownUnits(f, idx[f])
    BY <1>3, CardShows
  <2>2. f \in DOMAIN idx' \cap DOMAIN pes' /\ x \in ShownUnits(f, idx'[f])
    BY <1>1, <1>3, <2>1
  <2>3. x \in UNION {ShownUnits(g, idx'[g]) : g \in DOMAIN idx' \cap DOMAIN pes'}
    BY <2>2
  <2>4. CardUnits' = UNION {ShownUnits(g, idx'[g]) : g \in DOMAIN idx' \cap DOMAIN pes'}
    BY DEF CardUnits, ShownUnits
  <2> QED  BY <2>3, <2>4
<1> QED  BY <1>2, <1>3

LEMMA CardSame ==
  ASSUME idx' = idx, DOMAIN pes' = DOMAIN pes
  PROVE  CardUnits' = CardUnits
BY DEF CardUnits, ShownUnits

(* What the archive sees of a pass.                                        *)
LEMMA PassMarks ==
  ASSUME Undisturbed, WholeMinutes, IndexInv, SavePass
  PROVE  \E u \in UnitIdx : \E over \in BOOLEAN :
           /\ AtUnit(rec, u, hist, clock) /\ rec.file \in Nat
           /\ rec'.file = rec.file /\ rec'.fd = rec.fd
           /\ \A i \in UnitIdx : i # u => rec'.units[i] = rec.units[i]
           /\ over => Begin(rec.file, u + 1) <= clock
           /\ over => /\ rec'.unitTime \in Nat
                      /\ rec'.unitTime <= FileTime(rec) + (u + 1) * UnitSecs
           /\ ~over => rec'.units = rec.units /\ rec'.unitTime = rec.unitTime
           /\ over /\ Saves(rec.file, u) => pc' = "cutting"
           /\ pc = "saving" /\ pc' \in {"cutting", "checking"}
<1>1. PICK got \in BOOLEAN :
        LET a == AfterFrame(got)
            m == MarkUnit(a)
        IN  /\ a \in Recs /\ rec' = m
            /\ a.file = rec.file /\ a.units = rec.units /\ a.unitTime = rec.unitTime
            /\ m.fd = rec.fd /\ m.file = rec.file
            /\ pc' = IF MinuteSave(a) THEN "cutting" ELSE "checking"
  BY PassTaken
<1> DEFINE a == AfterFrame(got)
           m == MarkUnit(a)
<1>2. PICK u \in UnitIdx : AtUnit(rec, u, hist, clock)
  BY DEF SavePass, Going, IndexInv, UnitsKept, Waits
<1> HIDE DEF m, a
<1>3. /\ a \in Recs /\ rec' = m /\ m = MarkUnit(a)
      /\ a.file = rec.file /\ a.units = rec.units /\ a.unitTime = rec.unitTime
      /\ m.file = rec.file /\ m.fd = rec.fd /\ a.file \in Nat /\ pc = "saving"
      /\ pc' = IF MinuteSave(a) THEN "cutting" ELSE "checking"
  BY <1>1, <1>2 DEF m, a, AtUnit, AtUnitTime, SavePass
<1>4. /\ AtUnitTime(a, u) /\ Begin(a.file, u) <= clock /\ clock \in Nat
      /\ FileTime(a) = FileTime(rec) /\ FilesPerDay > 1
  BY <1>2, <1>3, IndexTyped DEF AtUnit, AtUnitTime, FileTime, Undisturbed
<1>5. /\ ~UnitOver(a) => m = a
      /\ UnitOver(a) => m.unitTime = UnitEnd(a)
      /\ \A i \in UnitIdx : i # u => m.units[i] = a.units[i]
  <2>1. UnitOver(a) => EndedUnit(a) = u
    BY <1>4, EndedIsUnit
  <2>2. a.units \in Units
    BY <1>3 DEF Recs
  <2>3. UnitOver(a) =>
          /\ m.units = [a.units EXCEPT ![u] = [type |-> type, offset |-> a.len]]
          /\ m.unitTime = UnitEnd(a)
    BY <1>3, <2>1 DEF MarkUnit, Recs
  <2>4. ~UnitOver(a) => m = a
    BY <1>3 DEF MarkUnit
  <2> QED  BY <2>2, <2>3, <2>4 DEF Units
<1>6. UnitOver(a) => Begin(a.file, u + 1) <= clock
  BY <1>4, OverIsOver
<1>7. UnitEnd(a) \in Nat /\ UnitEnd(a) <= FileTime(a) + (u + 1) * UnitSecs
  <2>1. PICK e \in Nat :
             e = a.unitTime + UnitSecs /\ UnitEnd(a) = IF e = DaySecs THEN 0 ELSE e
    BY <1>4, UnitOfDay
  <2>2. FileTime(a) \in Nat
    BY <1>4, FileOfDay DEF AtUnitTime
  <2>3. u \in Nat /\ u * UnitSecs \in Nat /\ (u + 1) * UnitSecs = u * UnitSecs + UnitSecs
    BY Lengths, Ordered
  <2>4. a.unitTime = FileTime(a) + u * UnitSecs
    BY <1>4 DEF AtUnitTime
  <2>5. e = FileTime(a) + (u + 1) * UnitSecs
    BY <2>1, <2>2, <2>3, <2>4, Lengths
  <2> QED  BY <2>1, <2>5
<1>8. UnitOver(a) /\ Saves(a.file, u) => MinuteSave(a)
  BY <1>4, MinuteUnitSaves
<1>9. UnitOver(a) \in BOOLEAN
  BY DEF UnitOver
<1> QED  BY <1>2, <1>3, <1>4, <1>5, <1>6, <1>7, <1>8, <1>9

(* Steps that touch no index.                                              *)
LEMMA SavedUntouched ==
  ASSUME SavedInv, UNCHANGED <<rec.file, rec.units, rec.unitTime, idx>>,
         DOMAIN pes' = DOMAIN pes, Going' => Going,
         rec'.fd = "open" => rec.fd = "open",
         pc = "writing" => pc' = "writing",
         ~InSave' => ~InSave /\ (rec'.fd = "none" => rec.fd = "none"),
         pc' = "saving" => pc = "saving" \/ rec'.fd = "open"
  PROVE  SavedInv'
<1>1. \A i \in UnitIdx : Unsaved(i)' <=> Unsaved(i)
  BY DEF Unsaved, Marked
<1>2. OneUnsaved'
  BY <1>1 DEF SavedInv, OneUnsaved
<1>3. Span'
  BY <1>1 DEF SavedInv, Span
<1>4. MinuteSaved'
  BY <1>1 DEF SavedInv, MinuteSaved, FileTime
<1> QED  BY <1>2, <1>3, <1>4 DEF SavedInv, FileThere

(* When all is on the card, nothing is unsaved.                            *)
LEMMA SavedAll ==
  ASSUME FileThere', \A i \in UnitIdx : ~Unsaved(i)'
  PROVE  SavedInv'
BY DEF SavedInv, OneUnsaved, Span, MinuteSaved

LEMMA SavedSavePass ==
  ASSUME Undisturbed, ArchiveInv, SavePass, WholeMinutes
  PROVE  SavedInv'
<1>1. PICK u \in UnitIdx, over \in BOOLEAN :
           /\ AtUnit(rec, u, hist, clock) /\ rec.file \in Nat
           /\ rec'.file = rec.file /\ rec'.fd = rec.fd
           /\ \A i \in UnitIdx : i # u => rec'.units[i] = rec.units[i]
           /\ over => /\ rec'.unitTime \in Nat
                      /\ rec'.unitTime <= FileTime(rec) + (u + 1) * UnitSecs
           /\ ~over => rec'.units = rec.units /\ rec'.unitTime = rec.unitTime
           /\ over /\ Saves(rec.file, u) => pc' = "cutting"
           /\ pc = "saving" /\ pc' \in {"cutting", "checking"}
  BY PassMarks DEF ArchiveInv
<1>2. /\ idx' = idx /\ DOMAIN pes' = DOMAIN pes
      /\ rec.fd \in {"none", "open"} /\ Going /\ ~InSave
  <2>1. \A got : DOMAIN PesAfterFrame(got) = DOMAIN pes
    BY DEF PesAfterFrame, PushPes
  <2> QED  BY <1>1, <2>1, IndexTyped DEF SavePass, ArchiveInv, Going, InSave
<1>3. ASSUME NEW i \in UnitIdx, i # u \/ ~over, Unsaved(i)' PROVE Unsaved(i)
  BY <1>1, <1>2, <1>3 DEF Unsaved, Marked
<1>4. /\ u \in Nat /\ u * UnitSecs \in Nat /\ u < UnitsPerFile
      /\ FileTime(rec) \in Int /\ rec.unitTime = FileTime(rec) + u * UnitSecs
      /\ (u + 1) * UnitSecs = u * UnitSecs + UnitSecs /\ (u + 1) * UnitSecs \in Nat
      /\ \A j \in UnitIdx : j \in Nat /\ j * UnitSecs \in Nat
      /\ UnitSecs \in Nat \ {0} /\ UnitsPerFile \in Nat
  <2>1. u \in Nat /\ u < UnitsPerFile /\ \A j \in UnitIdx : j \in Nat
    BY Lengths
  <2>2. FileTime(rec) \in Int
    <3>1. rec.file % FilesPerDay \in Nat
      BY <1>1, Lengths, DivMod
    <3> QED  BY <1>1, <3>1, Lengths, Ordered DEF FileTime
  <2>3. rec.unitTime = FileTime(rec) + u * UnitSecs
    BY <1>1 DEF AtUnit, AtUnitTime
  <2> QED  BY <2>1, <2>2, <2>3, Lengths, Ordered
<1>5. FileThere'
  BY <1>1, <1>2 DEF ArchiveInv, SavedInv, FileThere
<1>6. CASE rec.fd = "none"
  <2>1. \A i \in UnitIdx : ~Unsaved(i)
    BY <1>1, <1>2, <1>6 DEF ArchiveInv, SavedInv, OneUnsaved
  <2>2. \A i \in UnitIdx : Unsaved(i)' => i = u
    BY <1>3, <2>1
  <2>3. OneUnsaved' /\ MinuteSaved'
    BY <1>1, <1>6, <2>2 DEF OneUnsaved, MinuteSaved
  <2>4. UnitsPerMinute \in Nat \ {0}
    BY LengthsAssumption
  <2>5. Span'
    <3>1. u - u < UnitsPerMinute
      BY <1>4, <2>4
    <3> QED  BY <2>2, <3>1 DEF Span
  <2> QED  BY <1>5, <2>3, <2>5 DEF SavedInv
<1>7. CASE rec.fd = "open"
  <2>1. ASSUME NEW i \in UnitIdx, NEW j \in UnitIdx,
               Unsaved(i), Saves(rec.file, j), i <= j
        PROVE  u <= j
    <3>1. rec.unitTime <= FileTime(rec) + j * UnitSecs
      BY <1>2, <1>7, <2>1 DEF ArchiveInv, SavedInv, MinuteSaved
    <3>2. j < u => j * UnitSecs + UnitSecs <= u * UnitSecs
      BY <1>4, Ordered
    <3> QED  BY <1>4, <3>1, <3>2
  <2>2. ASSUME NEW i \in UnitIdx, Unsaved(i)' PROVE i <= u
    <3>1. i # u => i < u
      BY <1>1, <1>3, <2>2 DEF AtUnit, Unsaved
    <3> QED  BY <1>4, <3>1
  <2>3. Span'
    <3> SUFFICES ASSUME NEW i \in UnitIdx, NEW k \in UnitIdx, Unsaved(i)', Unsaved(k)'
                 PROVE  k - i < UnitsPerMinute
      BY DEF Span
    <3>1. /\ i \in Nat /\ k \in Nat /\ k <= u /\ UnitsPerMinute \in Nat
          /\ UnitsPerMinute > 1
      BY <1>4, <2>2, LengthsAssumption DEF WholeMinutes
    <3>2. CASE i = u
      BY <1>4, <3>1, <3>2
    <3>3. CASE i # u
      <4>1. PICK d \in 0 .. UnitsPerMinute - 1 : Saves(rec.file, i + d)
        BY <1>1, <3>1, SomeSaves
      <4> DEFINE j == i + d
      <4>2. j \in Nat /\ i <= j /\ (j < UnitsPerFile => j \in UnitIdx)
        BY <1>4, <3>1, <4>1 DEF UnitIdx
      <4>3. Saves(rec.file, j) /\ Unsaved(i)
        BY <1>3, <3>3, <4>1
      <4>4. j < UnitsPerFile => u <= j
        <5> HIDE DEF j
        <5> QED  BY <2>1, <4>2, <4>3
      <4>5. u <= j
        BY <1>4, <4>2, <4>4
      <4> QED  BY <1>4, <3>1, <4>1, <4>5
    <3> QED  BY <3>2, <3>3
  <2>4. MinuteSaved'
    <3> SUFFICES ASSUME ~InSave', NEW i \in UnitIdx, NEW j \in UnitIdx,
                        Unsaved(i)', Saves(rec.file, j), i <= j
                 PROVE  rec'.unitTime <= FileTime(rec) + j * UnitSecs
      BY <1>1 DEF MinuteSaved, FileTime
    <3>1. u <= j
      <4>1. i # u => u <= j
        BY <1>3, <2>1
      <4> QED  BY <1>4, <4>1
    <3>2. CASE over
      <4>1. j # u
        BY <1>1, <3>2 DEF InSave
      <4>2. u + 1 <= j /\ u + 1 \in Nat /\ j \in Nat
        BY <1>4, <3>1, <4>1
      <4>3. (u + 1) * UnitSecs <= j * UnitSecs
        BY <1>4, <4>2, Ordered
      <4>4. /\ rec'.unitTime <= FileTime(rec) + (u + 1) * UnitSecs
            /\ rec'.unitTime \in Nat
        BY <1>1, <3>2
      <4> QED  BY <1>4, <4>3, <4>4
    <3>3. CASE ~over
      <4>1. u * UnitSecs <= j * UnitSecs
        BY <1>4, <3>1, Ordered
      <4> QED  BY <1>1, <1>4, <3>3, <4>1
    <3> QED  BY <3>2, <3>3
  <2>5. OneUnsaved'
    BY <1>1, <1>7 DEF OneUnsaved
  <2> QED  BY <1>5, <2>3, <2>4, <2>5 DEF SavedInv
<1> QED  BY <1>2, <1>6, <1>7

LEMMA SavedStep ==
  ASSUME Undisturbed, WholeMinutes, ArchiveInv, [Next]_vars
  PROVE  SavedInv'
<1>1. SavedInv /\ IndexInv /\ FileThere
  BY DEF ArchiveInv, SavedInv
<1>2. CASE OpenFile
  <2>1. /\ rec'.file = Slot
        /\ rec'.units = IF Slot \in DOMAIN pes /\ Slot \in DOMAIN idx
                        THEN idx[Slot] ELSE NoUnits
        /\ idx' = IF Slot \in DOMAIN pes THEN idx
                  ELSE [f \in DOMAIN idx \ {Slot} |-> idx[f]]
        /\ Slot \in DOMAIN pes'
    BY <1>2 DEF OpenFile, OpenedRec, Undisturbed
  <2>2. \A i \in UnitIdx : ~Marked(NoUnits, i)
    BY DEF Marked, NoUnits, Unmarked
  <2>3. \A i \in UnitIdx : ~Unsaved(i)'
    BY <2>1, <2>2 DEF Unsaved, Marked
  <2> QED  BY <2>1, <2>3, SavedAll DEF FileThere
<1>3. CASE SavePass
  BY <1>3, SavedSavePass
<1>4. CASE Stopping
  <2>1. /\ Leaves /\ idx' = idx /\ DOMAIN pes' = DOMAIN pes
        /\ pc # "writing" /\ pc' # "writing"
        /\ rec'.fd # rec.fd => pc' = "cutting"
        /\ pc' = "saving" => rec'.fd = "open"
    BY <1>1, <1>4, StoppingLeaves
  <2>2. pc # "cutting"
    BY <1>4 DEF Stopping, CheckPass, SaveAborts, HandleStop, Flush, CloseFile
  <2> QED  BY <1>1, <2>1, <2>2, SavedUntouched DEF Leaves, InSave
<1>5. CASE CutIdx \/ WriteIdx
  <2>1. /\ UNCHANGED <<rec, pes>> /\ rec.file \in Nat
        /\ pc = "cutting" => pc' = "writing"
        /\ pc = "writing" =>
             idx' = [f \in DOMAIN idx \cup {rec.file} |->
                       IF f = rec.file THEN rec.units ELSE idx[f]]
        /\ pc \in {"cutting", "writing"}
    BY <1>1, <1>5, SavingLeaves
  <2>2. FileThere'
    BY <1>1, <2>1 DEF FileThere
  <2>3. CASE pc = "cutting"
    BY <2>1, <2>2, <2>3 DEF SavedInv, OneUnsaved, Span, MinuteSaved, InSave
  <2>4. CASE pc = "writing"
    <3>1. \A i \in UnitIdx : ~Unsaved(i)'
      BY <2>1, <2>4 DEF Unsaved, Marked
    <3> QED  BY <2>2, <3>1, SavedAll
  <2> QED  BY <2>1, <2>3, <2>4
<1>6. CASE Tick
  <2>1. UNCHANGED <<rec, idx, pes, pc, pass>>
    BY <1>6 DEF Tick
  <2>2. Going' = Going
    BY <2>1 DEF Going
  <2> QED  BY <1>1, <2>1, <2>2, SavedUntouched DEF InSave
<1>7. CASE Ending
  <2>1. rec' = FreshRec
    BY <1>7 DEF Ending, Dies
  <2>2. \A i \in UnitIdx : ~Unsaved(i)'
    BY <2>1 DEF Unsaved, Marked, FreshRec, NoUnits, Unmarked
  <2> QED  BY <2>1, <2>2, SavedAll DEF FileThere, FreshRec
<1>8. CASE Rests
  <2>1. /\ UNCHANGED <<rec, pes, idx>> /\ (Going' => Going)
        /\ pc' = "writing" <=> pc = "writing"
    BY <1>1, <1>8, RestLeaves DEF Rests, Leaves
  <2>2. /\ InSave' <=> InSave
        /\ pc' = "saving" => pc = "saving" \/ rec'.fd = "open"
    BY <1>8 DEF Rests, InSave
  <2> QED  BY <1>1, <2>1, <2>2, SavedUntouched
<1> QED  BY <1>1, <1>2, <1>3, <1>4, <1>5, <1>6, <1>7, <1>8, StepCases

(* -- steps of the archive ------------------------------------------------ *)

ArchiveStays ==
  UNCHANGED <<clock, rec.file, ShownUnits(rec.file, rec.units), CardUnits, pc = "writing">>
Steps == Recordings!Next \/ ArchiveStays

(* A step that leaves the index, in memory and on the card.                *)
LEMMA ArchiveLeft ==
  ASSUME UNCHANGED <<clock, rec.file, rec.units, idx>>, DOMAIN pes' = DOMAIN pes,
         pc' = "writing" <=> pc = "writing"
  PROVE  Steps
<1>1. ShownUnits(rec.file, rec.units)' = ShownUnits(rec.file, rec.units)
  BY DEF ShownUnits
<1> QED  BY <1>1, CardSame DEF Steps, ArchiveStays

LEMMA ArchiveOpens ==
  ASSUME ArchiveInv, OpenFile, "create" \notin Faults
  PROVE  Recordings!Open
<1> DEFINE held == ShownUnits(rec.file, rec.units)
<1>1. \A x, y \in held \ CardUnits : x = y
  <2>1. rec.fd = "none" /\ ~InSave
    BY DEF OpenFile, ArchiveInv, IndexInv, FilesInv, ControlInv, StartsWithoutFile, InSave
  <2>2. ASSUME NEW x \in held \ CardUnits, NEW y \in held \ CardUnits PROVE x = y
    <3>1. PICK i \in UnitIdx : Unsaved(i) /\ x = UnitShown(rec.file, rec.units, i)
      BY <2>2, UnsavedIs
    <3>2. PICK k \in UnitIdx : Unsaved(k) /\ y = UnitShown(rec.file, rec.units, k)
      BY <2>2, UnsavedIs
    <3>3. i = k
      BY <2>1, <3>1, <3>2 DEF ArchiveInv, SavedInv, OneUnsaved
    <3> QED  BY <3>1, <3>2, <3>3
  <2> QED  BY <2>2
<1>2. /\ rec'.file = Slot /\ clock' = clock
      /\ rec'.units = IF Slot \in DOMAIN pes /\ Slot \in DOMAIN idx
                      THEN idx[Slot] ELSE NoUnits
      /\ idx' = IF Slot \in DOMAIN pes THEN idx
                ELSE [f \in DOMAIN idx \ {Slot} |-> idx[f]]
      /\ DOMAIN pes' = DOMAIN pes \cup {Slot}
  BY DEF OpenFile, OpenedRec, envVars
<1>3. CardUnits' = CardUnits
  <2>1. /\ DOMAIN idx' \cap DOMAIN pes' = DOMAIN idx \cap DOMAIN pes
        /\ \A f \in DOMAIN idx \cap DOMAIN pes : idx'[f] = idx[f]
    BY <1>2
  <2> QED  BY <2>1 DEF CardUnits, ShownUnits
<1>4. ShownUnits(rec'.file, rec'.units) = {u \in CardUnits : u.file = Slot}
  <2>1. ASSUME NEW x \in ShownUnits(Slot, rec'.units) PROVE x \in CardUnits /\ x.file = Slot
    <3>1. PICK i \in UnitIdx : Marked(rec'.units, i) /\ x = UnitShown(Slot, rec'.units, i)
      BY <2>1, ShownIs
    <3>2. Slot \in DOMAIN idx \cap DOMAIN pes /\ rec'.units = idx[Slot]
      BY <1>2, <3>1 DEF Marked, NoUnits, Unmarked
    <3>3. x \in CardUnits
      BY <2>1, <3>2, CardShows
    <3> QED  BY <3>1, <3>3 DEF UnitShown
  <2>2. ASSUME NEW x \in CardUnits, x.file = Slot PROVE x \in ShownUnits(Slot, rec'.units)
    <3>1. PICK f \in DOMAIN idx \cap DOMAIN pes : x \in ShownUnits(f, idx[f])
      BY <2>2, CardShows
    <3>2. x.file = f
      <4>1. PICK i \in UnitIdx : x = UnitShown(f, idx[f], i)
        BY <3>1, ShownIs
      <4> QED  BY <4>1 DEF UnitShown
    <3> QED  BY <1>2, <2>2, <3>1, <3>2
  <2> QED  BY <1>2, <2>1, <2>2
<1>5. ShownUnits(rec.file, rec.units)' = ShownUnits(rec'.file, rec'.units)
  BY DEF ShownUnits
<1> HIDE DEF held
<1>7. pc # "writing" /\ pc' # "writing"
  BY DEF OpenFile
<1>6. Slot = clock \div (UnitSecs * UnitsPerFile)
  BY DEF Slot, FileSecs
<1> QED
  BY <1>1, <1>2, <1>3, <1>4, <1>5, <1>6, <1>7
  DEF Recordings!Open, Recordings!Unsaved, Recordings!FileSecs, held

LEMMA ArchiveRecords ==
  ASSUME Undisturbed, ArchiveInv, SavePass, WholeMinutes
  PROVE  Steps
<1>1. PICK u \in UnitIdx, over \in BOOLEAN :
           /\ AtUnit(rec, u, hist, clock) /\ rec.file \in Nat
           /\ rec'.file = rec.file
           /\ \A i \in UnitIdx : i # u => rec'.units[i] = rec.units[i]
           /\ over => Begin(rec.file, u + 1) <= clock
           /\ ~over => rec'.units = rec.units
           /\ pc = "saving" /\ pc' \in {"cutting", "checking"}
  BY PassMarks DEF ArchiveInv
<1> DEFINE held == ShownUnits(rec.file, rec.units)
           known == ShownUnits(rec.file, rec'.units)
<1>2. \A i \in UnitIdx : Marked(rec.units, i) => i < u /\ i # u
  BY <1>1, Lengths DEF AtUnit
<1>3. ShownUnits(rec.file, rec.units)' = known /\ clock' = clock
  BY <1>1 DEF ShownUnits, SavePass, envVars
<1>4. CardUnits' = CardUnits
  <2>1. \A got : DOMAIN PesAfterFrame(got) = DOMAIN pes
    BY DEF PesAfterFrame, PushPes
  <2>2. idx' = idx /\ DOMAIN pes' = DOMAIN pes
    BY <2>1 DEF SavePass
  <2> QED  BY <2>2, CardSame
<1>5. ASSUME NEW i \in UnitIdx, i # u
      PROVE  /\ Marked(rec'.units, i) <=> Marked(rec.units, i)
             /\ UnitShown(rec.file, rec'.units, i) = UnitShown(rec.file, rec.units, i)
  BY <1>1, <1>5 DEF Marked, UnitShown
<1>6. CASE ~Marked(rec'.units, u)
  <2>1. ASSUME NEW x PROVE x \in known <=> x \in held
    BY <1>2, <1>5, <1>6, ShownIs
  <2>2. known = held
    BY <2>1
  <2> QED  BY <1>1, <1>3, <1>4, <2>2 DEF Steps, ArchiveStays
<1>7. CASE Marked(rec'.units, u)
  <2> DEFINE x == UnitShown(rec.file, rec'.units, u)
  <2>1. Begin(rec.file, u + 1) <= clock
    BY <1>1, <1>2, <1>7
  <2>2. x \in known /\ x.file = rec.file /\ x.unit = u
    BY <1>7, ShownIs DEF UnitShown
  <2>3. known = held \cup {x}
    <3>1. ASSUME NEW y PROVE y \in known <=> y \in held \/ y = x
      BY <1>2, <1>5, <1>7, ShownIs
    <3> QED  BY <3>1
  <2>4. \A v \in held : v.unit < u
    <3>1. ASSUME NEW v \in held PROVE v.unit < u
      <4>1. PICK i \in UnitIdx : Marked(rec.units, i) /\ v = UnitShown(rec.file, rec.units, i)
        BY ShownIs
      <4> QED  BY <1>2, <4>1 DEF UnitShown
    <3> QED  BY <3>1
  <2> HIDE DEF x
  <2>5. Recordings!Ends(x) <= clock
    BY <2>1, <2>2 DEF Recordings!Ends, Recordings!FileSecs, Begin, FileSecs
  <2> HIDE DEF held, known
  <2>6. /\ \E w \in known : /\ w.file = rec.file /\ Recordings!Ends(w) <= clock
                            /\ \A v \in held : v.unit < w.unit
                            /\ known = held \cup {w}
        /\ CardUnits' = CardUnits
        /\ UNCHANGED <<clock, rec.file>>
        /\ pc # "writing" /\ pc' # "writing"
    BY <1>1, <1>3, <1>4, <2>2, <2>3, <2>4, <2>5
  <2>7. Recordings!Record
    BY <1>3, <2>6 DEF Recordings!Record, held
  <2> QED  BY <2>7 DEF Steps, Recordings!Next
<1> QED  BY <1>6, <1>7

LEMMA ArchiveSaves ==
  ASSUME ArchiveInv, CutIdx \/ WriteIdx
  PROVE  Steps
<1>1. /\ UNCHANGED <<rec, pes, clock>> /\ rec.file \in Nat
      /\ pc = "cutting" =>
           pc' = "writing" /\ idx' = [f \in DOMAIN idx \ {rec.file} |-> idx[f]]
      /\ pc = "writing" =>
           /\ pc' # "writing"
           /\ idx' = [f \in DOMAIN idx \cup {rec.file} |->
                        IF f = rec.file THEN rec.units ELSE idx[f]]
      /\ pc \in {"cutting", "writing"}
  BY SavingLeaves DEF ArchiveInv, Leaves
<1>2. ShownUnits(rec.file, rec.units)' = ShownUnits(rec.file, rec.units)
  BY <1>1 DEF ShownUnits
<1>3. CASE pc = "cutting"
  <2>1. CardUnits' = {u \in CardUnits : u.file # rec.file}
    BY <1>1, <1>3, CardCut
  <2>2. ASSUME NEW u \in CardUnits, u.file = rec.file
        PROVE  u \in ShownUnits(rec.file, rec.units)
    <3>1. PICK f \in DOMAIN idx \cap DOMAIN pes : u \in ShownUnits(f, idx[f])
      BY <2>2, CardShows
    <3>2. PICK i \in UnitIdx : Marked(idx[f], i) /\ u = UnitShown(f, idx[f], i)
      BY <3>1, ShownIs
    <3>3. f = rec.file
      BY <2>2, <3>2 DEF UnitShown
    <3>4. rec.units[i] = idx[f][i]
      BY <3>1, <3>2, <3>3 DEF ArchiveInv, HeldAhead, Shows, Marked
    <3>5. Marked(rec.units, i) /\ u = UnitShown(rec.file, rec.units, i)
      BY <3>2, <3>3, <3>4 DEF Marked, UnitShown
    <3> QED  BY <3>5, ShownIs
  <2>3. pc # "writing" /\ pc' = "writing"
    BY <1>1, <1>3
  <2>4. Recordings!Cut
    BY <1>1, <1>2, <2>1, <2>2, <2>3 DEF Recordings!Cut
  <2> QED  BY <2>4 DEF Steps, Recordings!Next
<1>4. CASE pc = "writing"
  <2>1. CardUnits' = CardUnits \cup ShownUnits(rec.file, rec.units)
    BY <1>1, <1>4, CardSaved
  <2>2. Recordings!Save
    BY <1>1, <1>2, <1>4, <2>1 DEF Recordings!Save
  <2> QED  BY <2>2 DEF Steps, Recordings!Next
<1> QED  BY <1>1, <1>3, <1>4

LEMMA ArchiveEnds ==
  ASSUME ArchiveInv, Dies
  PROVE  Recordings!End
<1> DEFINE held == ShownUnits(rec.file, rec.units)
<1>1. ASSUME pc # "writing", NEW x \in held \ CardUnits, NEW y \in held \ CardUnits
      PROVE  y.unit - x.unit < UnitsPerMinute
  <2>1. PICK i \in UnitIdx : Unsaved(i) /\ x = UnitShown(rec.file, rec.units, i)
    BY <1>1, UnsavedIs
  <2>2. PICK k \in UnitIdx : Unsaved(k) /\ y = UnitShown(rec.file, rec.units, k)
    BY <1>1, UnsavedIs
  <2>3. x.unit = i /\ y.unit = k
    BY <2>1, <2>2 DEF UnitShown
  <2>4. k - i < UnitsPerMinute
    BY <1>1, <2>1, <2>2 DEF ArchiveInv, SavedInv, Span
  <2> QED  BY <2>3, <2>4
<1>2. rec'.file = -1 /\ clock' = clock /\ CardUnits' = CardUnits /\ pc' # "writing"
  BY CardSame DEF Dies, FreshRec, NoFile
<1>3. ShownUnits(rec.file, rec.units)' = {}
  <2>1. \A i \in UnitIdx : rec'.units[i].type = CLOSED
    BY DEF Dies, FreshRec, NoUnits, Unmarked
  <2> QED  BY <2>1 DEF ShownUnits
<1> QED
  BY <1>1, <1>2, <1>3 DEF Recordings!End, Recordings!Unsaved, Recordings!NoFile

LEMMA ArchiveStep ==
  ASSUME Undisturbed, WholeMinutes, ArchiveInv, [Next]_vars
  PROVE  Steps
<1>1. IndexInv
  BY DEF ArchiveInv
<1>2. CASE OpenFile
  BY <1>2, ArchiveOpens DEF Steps, Recordings!Next, Undisturbed
<1>3. CASE SavePass
  BY <1>3, ArchiveRecords
<1>4. CASE Stopping
  <2>1. /\ Leaves /\ idx' = idx /\ DOMAIN pes' = DOMAIN pes
        /\ pc # "writing" /\ pc' # "writing"
    BY <1>1, <1>4, StoppingLeaves
  <2> QED  BY <2>1, ArchiveLeft DEF Leaves
<1>5. CASE CutIdx \/ WriteIdx
  BY <1>5, ArchiveSaves
<1>6. CASE Tick
  <2>1. clock' = clock + 1 /\ UNCHANGED <<rec, pes, idx, pc>>
    BY <1>6 DEF Tick
  <2>2. Recordings!Pass
    BY <2>1 DEF Recordings!Pass, ShownUnits, CardUnits
  <2> QED  BY <2>2 DEF Steps, Recordings!Next
<1>7. CASE Ending
  BY <1>7, ArchiveEnds DEF Ending, Steps, Recordings!Next
<1>8. CASE Rests
  <2>1. UNCHANGED <<clock, rec, pes, idx>> /\ (pc' = "writing" <=> pc = "writing")
    BY <1>1, <1>8, RestLeaves DEF Rests
  <2> QED  BY <2>1, ArchiveLeft
<1> QED  BY <1>1, <1>2, <1>3, <1>4, <1>5, <1>6, <1>7, <1>8, StepCases

LEMMA ArchiveInit == Init => Recordings!Init /\ HeldAhead /\ SavedInv
<1> SUFFICES ASSUME Init PROVE Recordings!Init /\ HeldAhead /\ SavedInv
  OBVIOUS
<1>1. rec = FreshRec /\ idx = <<>> /\ pes = <<>> /\ clock = 0 /\ pc = "idle"
      /\ rec.file = NoFile /\ rec.units = NoUnits
  BY DEF Init, FreshRec
<1>2. \A i \in UnitIdx : ~Marked(rec.units, i)
  BY <1>1 DEF Marked, NoUnits, Unmarked
<1>3. ShownUnits(rec.file, rec.units) = {}
  BY <1>2 DEF ShownUnits, Marked
<1>4. CardUnits = {}
  <2>1. DOMAIN idx = {}
    BY <1>1
  <2> QED  BY <2>1 DEF CardUnits
<1>5. Recordings!Init
  BY <1>1, <1>3, <1>4 DEF Recordings!Init, Recordings!NoFile, NoFile
<1>6. HeldAhead /\ SavedInv
  BY <1>1, <1>2 DEF HeldAhead, SavedInv, FileThere, OneUnsaved, Span, MinuteSaved, Unsaved
<1> QED  BY <1>5, <1>6

(* The recorder task implements Archive.  Whatever the polls, stops,       *)
(* schedules, ends and restarts of the process: the units of a file are    *)
(* recorded in order and when they are over, and the card's index of it is *)
(* taken away only to be written again with all of them; a file that is    *)
(* opened again has all the card shows of it, and what the process forgets *)
(* of the one before is at most one unit, or, when it ends, a minute of    *)
(* units - unless it ends between the two calls of a save, which           *)
(* takes all units of that file.                                           *)
THEOREM TaskImplements ==
  ASSUME Undisturbed, WholeMinutes
  PROVE  Spec => KeepsArchive
<1>1. Init => Recordings!Init /\ HeldAhead /\ SavedInv
  BY ArchiveInit
<1>2. IndexInv /\ HeldAhead /\ SavedInv /\ [Next]_vars
        => HeldAhead' /\ SavedInv' /\ [Recordings!Next]_(Recordings!vars)
  <2> SUFFICES ASSUME ArchiveInv, [Next]_vars
               PROVE  HeldAhead' /\ SavedInv' /\ [Recordings!Next]_(Recordings!vars)
    BY DEF ArchiveInv
  <2>1. HeldAhead' /\ SavedInv'
    BY AheadStep, SavedStep DEF ArchiveInv
  <2>2. Steps
    BY ArchiveStep
  <2> QED  BY <2>1, <2>2 DEF Steps, ArchiveStays, Recordings!vars
<1> QED  BY <1>1, <1>2, IndexInvariant, PTL DEF Spec, KeepsArchive, Recordings!Spec
=============================================================================
