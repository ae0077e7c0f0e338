--------------------------- MODULE UnitListProofs ---------------------------
(***************************************************************************)
(* Proofs about UnitList, for any number of days, units, files and any     *)
(* length of a page.                                                       *)
(***************************************************************************)
EXTENDS UnitList, TLAPS

USE LengthsAssumption, DaysAssumption

-----------------------------------------------------------------------------
(* Slots.                                                                  *)

(* Division with remainder.                                                *)
LEMMA DivMod ==
  ASSUME NEW n \in Nat, NEW k \in Nat \ {0}
  PROVE  n \div k \in Nat /\ n % k \in 0 .. k - 1 /\ n = (n \div k) * k + (n % k)
BY SMT

LEMMA DivModUnique ==
  ASSUME NEW q \in Nat, NEW k \in Nat \ {0}, NEW i \in 0 .. k - 1
  PROVE  (q * k + i) \div k = q /\ (q * k + i) % k = i
BY SMT

LEMMA SlotOfUnit ==
  ASSUME NEW u \in Idx
  PROVE  FileOf(u) \in Nat /\ u % UnitsPerFile \in FileIdx
<1>1. u \in Nat
  BY DEF Idx
<1>2. u \div UnitsPerFile \in Nat /\ u % UnitsPerFile \in 0 .. UnitsPerFile - 1
  BY <1>1, DivMod
<1>3. QED
  BY <1>2 DEF FileIdx, FileOf

(* The slot of a unit lies within the day.                                 *)
LEMMA SlotInDay ==
  ASSUME NEW u \in Idx, NEW i \in FileIdx
  PROVE  /\ FileOf(u) * UnitsPerFile + i \in Idx
         /\ FileOf(FileOf(u) * UnitsPerFile + i) = FileOf(u)
         /\ (FileOf(u) * UnitsPerFile + i) % UnitsPerFile = i
<1> DEFINE k == UnitsPerFile
           q == u \div k
           Q == UnitsPerDay \div k
<1>0. k \in Nat \ {0} /\ u \in Nat /\ u < UnitsPerDay
  BY DEF Idx
<1>1. q \in Nat /\ u % k \in 0 .. k - 1 /\ u = q * k + (u % k)
  BY <1>0, DivMod
<1>2. Q \in Nat /\ UnitsPerDay = Q * k
  BY <1>0, DivMod
<1> HIDE DEF k, q, Q
<1>3. q < Q
  <2>1. q >= Q => q * k >= Q * k
    BY <1>0, <1>1, <1>2, SMT
  <2>2. u % k >= 0 /\ q * k \in Nat /\ Q * k \in Nat
    BY <1>0, <1>1, <1>2
  <2> QED
    BY <1>0, <1>1, <1>2, <2>1, <2>2
<1>4. (q + 1) * k <= Q * k
  BY <1>0, <1>1, <1>2, <1>3, SMT
<1>5. i \in 0 .. k - 1
  BY DEF FileIdx, k
<1>6. q * k + i \in 0 .. UnitsPerDay - 1
  BY <1>0, <1>1, <1>2, <1>4, <1>5, SMT
<1>7. (q * k + i) \div k = q /\ (q * k + i) % k = i
  BY <1>0, <1>1, <1>5, DivModUnique
<1> QED
  BY <1>1, <1>6, <1>7 DEF k, q, Idx, FileOf, FileIdx

(* Slots come in the order they are read, and all of them are read.        *)
LEMMA SlotIsRead ==
  ASSUME NEW u \in Idx
  PROVE  FileOf(u) < NumFiles
<1> DEFINE k == UnitsPerFile
           q == u \div k
           Q == UnitsPerDay \div k
<1>1. k \in Nat \ {0} /\ u \in Nat /\ u < UnitsPerDay /\ UnitsPerDay \in Nat
  BY DEF Idx
<1>2. q \in Nat /\ u % k \in 0 .. k - 1 /\ u = q * k + (u % k)
  BY <1>1, DivMod
<1>3. Q \in Nat /\ UnitsPerDay = Q * k
  BY <1>1, DivMod
<1> HIDE DEF k, q, Q
<1>4. q < Q
  <2>1. q >= Q => q * k >= Q * k
    BY <1>1, <1>2, <1>3, SMT
  <2>2. u % k >= 0 /\ q * k \in Nat /\ Q * k \in Nat
    BY <1>1, <1>2, <1>3
  <2> QED
    BY <1>1, <1>2, <1>3, <2>1, <2>2
<1> QED
  BY <1>4 DEF FileOf, NumFiles, k, q, Q

-----------------------------------------------------------------------------
(* Types, and the loop of a page.                                          *)

MemType == [day : Days \cup {NoDay}, file : Nat, first : FileIdx,
            units : [FileIdx -> Kinds],
            pc : {"still", "time", "units", "load", "slot", "saving"},
            was : [file : Nat, units : [FileIdx -> Kinds]]]
SrvType == [pc : {"idle", "load", "dated", "timed", "scan"}, units : Units,
            unsaved : SUBSET Idx, slot : Nat, dated : Days \cup {NoDay},
            i : 0 .. UnitsPerDay, start : Idx \cup {NoStart}, page : Seq(Segs)]
ClientType == [pc : {"idle", "asked", "waits", "done"}, list : Lists,
               day : Days \cup {NoDay}, from : 0 .. UnitsPerDay, segs : Seq(Segs),
               due : SUBSET Idx, phantom : SUBSET Idx]

(* What a request and the loop that serves it agree on; an index that is   *)
(* being saved is of a day.                                                *)
Serving ==
  /\ client.pc = "waits" <=> srv.pc # "idle"
  /\ client.pc \in {"asked", "waits"} => client.day \in Days
  /\ srv.pc # "scan" => srv.page = <<>> /\ srv.start = NoStart
  /\ srv.pc = "scan" => client.from <= srv.i
  /\ srv.pc \in {"dated", "timed"} => srv.dated = client.day
  /\ mem.pc = "saving" => mem.day # NoDay

TypeInv == TypeOK /\ Serving
PageInv == TypeInv /\ PageExact

LEMMA OverlaidType ==
  ASSUME NEW units \in Units, NEW f, NEW m \in [FileIdx -> Kinds]
  PROVE  Overlaid(units, f, m) \in Units
BY SlotOfUnit DEF Overlaid, Units

LEMMA BlankType == Blank \in [FileIdx -> Kinds] /\ [u \in Idx |-> None] \in Units
BY DEF Blank, Units, Kinds

LEMMA Basics ==
  /\ 0 \in Idx /\ 0 \in 0 .. UnitsPerDay /\ PageLen \in Nat \ {0}
  /\ <<>> \in Seq(Segs) /\ Len(<<>>) = 0
  /\ {} \in SUBSET Idx /\ 0 \in FileIdx /\ 0 \in Nat
BY DEF Idx, FileIdx

LEMMA TypesAre ==
  TypeOK <=> /\ today \in Days /\ now \in Idx /\ card \in [Days -> Units]
             /\ mem \in MemType /\ srv \in SrvType /\ client \in ClientType
             /\ Len(srv.page) + (IF srv.start = NoStart THEN 0 ELSE 1) <= PageLen
BY DEF TypeOK, MemType, SrvType, ClientType

LEMMA IdleType ==
  /\ Idle \in SrvType /\ Idle.page = <<>> /\ Idle.start = NoStart
  /\ Len(Idle.page) + (IF Idle.start = NoStart THEN 0 ELSE 1) <= PageLen
<1>1. Idle \in SrvType
  BY BlankType, Basics DEF Idle, SrvType, NoDay, NoStart
<1>2. Idle.page = <<>> /\ Idle.start = NoStart
  BY DEF Idle
<1>3. QED
  BY <1>1, <1>2, Basics

LEMMA FreshType == Fresh \in MemType
<1>1. Blank \in [FileIdx -> Kinds]
  BY BlankType
<1>2. QED
  BY <1>1, Basics DEF Fresh, MemType

LEMMA NoListType == NoList \in ClientType
BY Basics DEF NoList, Lists, ClientType

LEMMA InitPage == Init => PageInv
<1> SUFFICES ASSUME Init PROVE PageInv
  OBVIOUS
<1>1. srv = Idle /\ mem = Fresh /\ client = NoList
  BY DEF Init
<1>2. TypeOK
  BY <1>1, IdleType, FreshType, NoListType, TypesAre DEF Init
<1>3. Serving /\ PageExact
  BY <1>1 DEF Idle, NoList, Fresh, Serving, PageExact
<1>4. QED
  BY <1>2, <1>3 DEF PageInv, TypeInv

(* What memory is found to hold while it is changed is of its type.        *)
LEMMA SeenTypes ==
  ASSUME TypeOK
  PROVE  TimesSeen \subseteq Nat /\ UnitsSeen \subseteq [FileIdx -> Kinds]
<1>1. mem \in MemType
  BY TypesAre
<1>2. mem.file \in Nat /\ mem.was.file \in Nat
      /\ mem.units \in [FileIdx -> Kinds] /\ mem.was.units \in [FileIdx -> Kinds]
  BY <1>1 DEF MemType
<1>3. \A f, g \in Nat : Mix(f, g) \in Nat
  <2>1. ASSUME NEW f \in Nat, NEW g \in Nat PROVE Mix(f, g) \in Nat
    <3>1. f \div FilesPerHour \in Nat /\ g % FilesPerHour \in Nat
      <4>1. g % FilesPerHour \in 0 .. FilesPerHour - 1
        BY DivMod
      <4>2. f \div FilesPerHour \in Nat
        BY DivMod
      <4>3. QED
        BY <4>1, <4>2
    <3>2. (f \div FilesPerHour) * FilesPerHour \in Nat
      BY <3>1
    <3>3. QED
      BY <3>1, <3>2 DEF Mix
  <2>2. QED
    BY <2>1
<1>4. TimesSeen \subseteq Nat
  BY <1>2, <1>3 DEF TimesSeen
<1>5. QED
  BY <1>2, <1>4 DEF UnitsSeen

(* Steps that leave the loop of the page and the request alone.            *)
Quiet == UNCHANGED <<srv, client.list, client.from>>

LEMMA QuietPage ==
  ASSUME PageExact, Quiet
  PROVE  PageExact'
BY DEF PageExact, Quiet, Want, Wanted, OnPage, IsOpen, Within

(* The unit that is marked had not been marked before.                     *)
LEMMA MarksUnit ==
  ASSUME TypeOK, MarkUnit
  PROVE  \E i \in FileIdx, k \in Kinds :
           mem.units[i] = None /\ mem' = [mem EXCEPT !.units[i] = k]
<1>1. PICK i \in mem.first .. UnitsPerFile - 1, k \in Kinds \ {None} :
        /\ \A j \in FileIdx : j >= i => mem.units[j] = None
        /\ mem' = [mem EXCEPT !.units[i] = k]
  BY DEF MarkUnit
<1>2. mem.first \in Nat
  BY DEF TypeOK, FileIdx
<1>3. i \in FileIdx /\ i >= i
  BY <1>2 DEF FileIdx
<1>4. QED
  BY <1>1, <1>3

(* A file that is opened has the index the card has of its slot.           *)
LEMMA OpensFile ==
  ASSUME PageInv, OpenFile
  PROVE  /\ mem' \in MemType /\ mem'.pc # "saving" /\ mem.pc = "still"
         /\ mem'.day = today /\ mem'.file = FileOf(now)
         /\ \A i \in FileIdx : mem'.units[i] = card[today][FileOf(now) * UnitsPerFile + i]
         /\ UNCHANGED <<today, now, card, srv>>
<1>1. mem \in MemType /\ now \in Idx /\ today \in Days /\ card[today] \in Units
  BY TypesAre DEF PageInv, TypeInv
<1> DEFINE found == [i \in FileIdx |-> card[today][FileOf(now) * UnitsPerFile + i]]
<1>2. PICK pc \in {"time", "load"} :
        mem' = [day |-> today, file |-> FileOf(now), first |-> now % UnitsPerFile,
                units |-> found, pc |-> pc,
                was |-> [file |-> mem.file, units |-> mem.units]]
  BY DEF OpenFile
<1>3. found \in [FileIdx -> Kinds]
  BY <1>1, SlotInDay DEF Units
<1>4. \A i \in FileIdx : found[i] = card[today][FileOf(now) * UnitsPerFile + i]
  OBVIOUS
<1> HIDE DEF found
<1>5. FileOf(now) \in Nat /\ now % UnitsPerFile \in FileIdx
  BY <1>1, SlotOfUnit
<1>6. [file |-> mem.file, units |-> mem.units] \in [file : Nat, units : [FileIdx -> Kinds]]
  BY <1>1 DEF MemType
<1>7. mem' \in MemType
  BY <1>1, <1>2, <1>3, <1>5, <1>6 DEF MemType
<1>8. mem'.pc # "saving" /\ mem'.day = today /\ mem'.file = FileOf(now) /\ mem'.units = found
  BY <1>2
<1>9. QED
  BY <1>4, <1>7, <1>8 DEF OpenFile

(* The steps by which memory comes to hold it, and by which it is saved.   *)
LEMMA ChangesMem ==
  ASSUME PageInv, OpenStep \/ CutUnits \/ SaveUnits
  PROVE  /\ mem' \in MemType /\ mem'.day = mem.day /\ mem'.file = mem.file
         /\ mem'.units = mem.units /\ (mem'.pc = "saving" => mem.day # NoDay)
         /\ UNCHANGED <<today, now, srv, client>>
<1>1. mem \in MemType
  BY TypesAre DEF PageInv, TypeInv
<1>2. CASE OpenStep
  <2>1. \/ mem' = [mem EXCEPT !.pc = "units"]
        \/ mem' = [mem EXCEPT !.pc = "slot"]
        \/ mem' = [mem EXCEPT !.pc = "still", !.was = Fresh.was]
    BY <1>2 DEF OpenStep
  <2>2. Fresh.was \in [file : Nat, units : [FileIdx -> Kinds]]
    BY FreshType DEF MemType
  <2>3. mem' \in MemType /\ mem'.pc # "saving"
    BY <1>1, <2>1, <2>2 DEF MemType
  <2>4. mem'.day = mem.day /\ mem'.file = mem.file /\ mem'.units = mem.units
    BY <1>1, <2>1 DEF MemType
  <2>5. QED
    BY <1>2, <2>3, <2>4 DEF OpenStep
<1>3. CASE CutUnits
  BY <1>1, <1>3 DEF CutUnits, MemType
<1>4. CASE SaveUnits
  BY <1>1, <1>4 DEF SaveUnits, MemType
<1>5. QED
  BY <1>2, <1>3, <1>4

(* A step of the recorder changes nothing of a request and its answers; a  *)
(* unit that is lost is no longer due.                                     *)
LEMMA RecorderClient ==
  ASSUME PageInv, Tick \/ Recorder
  PROVE  /\ srv' = srv /\ client' \in ClientType
         /\ client'.pc = client.pc /\ client'.list = client.list
         /\ client'.day = client.day /\ client'.from = client.from
         /\ client'.segs = client.segs /\ client.phantom \subseteq client'.phantom
         /\ client'.due \subseteq client.due
         /\ \A u \in client'.due : u \in client'.phantom => u \in client.phantom
         /\ OpenFile /\ client.day = mem.day => Lost \subseteq client'.phantom
<1>1. client \in ClientType
  BY TypesAre DEF PageInv, TypeInv
<1>2. CASE OpenFile
  <2>1. Lost \subseteq Idx
    BY DEF Lost, NotSaved
  <2>2. /\ srv' = srv
        /\ client' = IF client.day = mem.day
                     THEN [client EXCEPT !.due = client.due \ Lost,
                                         !.phantom = client.phantom \cup Lost]
                     ELSE client
    BY <1>1, <1>2 DEF OpenFile, ClientType
  <2>3. QED
    BY <1>1, <2>1, <2>2 DEF ClientType
<1>3. CASE Tick \/ MarkUnit \/ OpenStep \/ CutUnits \/ SaveUnits
  <2>1. srv' = srv /\ client' = client
    BY <1>3 DEF Tick, MarkUnit, OpenStep, CutUnits, SaveUnits
  <2>2. OpenFile /\ client.day = mem.day => Lost \subseteq client'.phantom
    <3>1. ASSUME OpenFile, client.day = mem.day PROVE Lost \subseteq client'.phantom
      <4>1. client'.phantom = client.phantom \cup Lost
        BY <1>1, <3>1 DEF OpenFile, ClientType
      <4>2. QED
        BY <4>1
    <3>2. QED
      BY <3>1
  <2>3. QED
    BY <1>1, <2>1, <2>2
<1>4. QED
  BY <1>2, <1>3 DEF Recorder

LEMMA RecorderPage ==
  ASSUME PageInv, Tick \/ Recorder
  PROVE  PageInv'
<1>1. /\ srv' = srv /\ client' \in ClientType
      /\ client'.pc = client.pc /\ client'.list = client.list
      /\ client'.day = client.day /\ client'.from = client.from
  BY RecorderClient
<1>2. TypeOK /\ Serving /\ PageExact
  BY DEF PageInv, TypeInv
<1>3. today' \in Days /\ now' \in Idx
  <2>1. CASE Tick
    BY <1>2, <2>1 DEF Tick, TypeOK, Idx
  <2>2. CASE Recorder
    BY <1>2, <2>2 DEF Recorder, OpenFile, OpenStep, MarkUnit, CutUnits, SaveUnits, TypeOK
  <2>3. QED
    BY <2>1, <2>2
<1>4. mem' \in MemType /\ (mem'.pc = "saving" => mem'.day # NoDay)
  <2>1. CASE Tick
    BY <1>2, <2>1, TypesAre DEF Tick, Serving
  <2>2. CASE OpenFile
    BY <2>2, OpensFile
  <2>3. CASE MarkUnit
    <3>1. PICK i \in FileIdx, k \in Kinds : mem' = [mem EXCEPT !.units[i] = k]
      BY <1>2, <2>3, MarksUnit
    <3>2. mem.pc = "still" /\ mem \in MemType
      BY <1>2, <2>3, TypesAre DEF MarkUnit
    <3>3. QED
      BY <3>1, <3>2 DEF MemType
  <2>4. CASE OpenStep \/ CutUnits \/ SaveUnits
    BY <2>4, ChangesMem
  <2>5. QED
    BY <2>1, <2>2, <2>3, <2>4 DEF Recorder
<1>5. card' \in [Days -> Units]
  <2>1. card \in [Days -> Units] /\ mem \in MemType
    BY <1>2, TypesAre
  <2>2. CASE CutUnits \/ SaveUnits
    <3>1. mem.day \in Days /\ mem.units \in [FileIdx -> Kinds]
      BY <1>2, <2>1, <2>2 DEF CutUnits, SaveUnits, Serving, MemType
    <3>2. Overlaid(card[mem.day], mem.file, Blank) \in Units
      BY <2>1, <3>1, OverlaidType, BlankType
    <3>3. Overlaid(card[mem.day], mem.file, mem.units) \in Units
      BY <2>1, <3>1, OverlaidType
    <3>4. \/ card' = [card EXCEPT ![mem.day] = Overlaid(card[mem.day], mem.file, Blank)]
          \/ card' = [card EXCEPT ![mem.day] = Overlaid(card[mem.day], mem.file, mem.units)]
      BY <2>2 DEF CutUnits, SaveUnits
    <3>5. QED
      BY <2>1, <3>1, <3>2, <3>3, <3>4
  <2>3. CASE Tick \/ OpenFile \/ OpenStep \/ MarkUnit
    BY <2>1, <2>3 DEF Tick, OpenFile, OpenStep, MarkUnit
  <2>4. QED
    BY <2>2, <2>3 DEF Recorder
<1>6. TypeOK'
  <2>1. srv' \in SrvType
        /\ Len(srv'.page) + (IF srv'.start = NoStart THEN 0 ELSE 1) <= PageLen
    BY <1>1, <1>2, TypesAre
  <2>2. QED
    BY <1>1, <1>3, <1>4, <1>5, <2>1 DEF TypeOK, MemType, SrvType, ClientType
<1>7. Serving'
  BY <1>1, <1>2, <1>4 DEF Serving
<1>8. PageExact'
  BY <1>1, <1>2, QuietPage DEF Quiet
<1>9. QED
  BY <1>6, <1>7, <1>8 DEF PageInv, TypeInv

(* What is left to show of a step of a request that does not scan.         *)
LEMMA RequestFrame ==
  ASSUME PageInv, UNCHANGED <<today, now, card, mem>>,
         srv' \in SrvType, srv'.page = <<>>, srv'.start = NoStart,
         srv'.pc = "scan" => srv'.i = client'.from,
         srv'.pc \in {"dated", "timed"} => srv'.dated = client'.day,
         client' \in ClientType, client'.pc = "waits" <=> srv'.pc # "idle",
         client'.pc \in {"asked", "waits"} => client'.day \in Days
  PROVE  PageInv'
<1>1. TypeOK'
  <2>1. Len(srv'.page) + (IF srv'.start = NoStart THEN 0 ELSE 1) <= PageLen
    BY Basics
  <2>2. today' \in Days /\ now' \in Idx /\ card' \in [Days -> Units] /\ mem' \in MemType
    BY TypesAre DEF PageInv, TypeInv
  <2>3. QED
    BY <2>1, <2>2 DEF TypeOK, MemType, SrvType, ClientType
<1>2. client'.from \in Nat
  BY DEF ClientType
<1>3. Serving'
  BY <1>2 DEF PageInv, TypeInv, Serving
<1>4. PageExact'
  <2>1. DOMAIN srv'.page = {}
    OBVIOUS
  <2>2. srv'.pc = "scan" => client'.from .. srv'.i - 1 = {}
    BY <1>2
  <2>3. QED
    BY <2>1, <2>2 DEF PageExact
<1>5. QED
  BY <1>1, <1>3, <1>4 DEF PageInv, TypeInv

LEMMA AskPage ==
  ASSUME PageInv, Ask \/ LoadFiles \/ LoadFails
  PROVE  PageInv'
<1>1. UNCHANGED <<today, now, card, mem>>
  BY DEF Ask, LoadFiles, LoadFails
<1>2. client \in ClientType /\ srv \in SrvType /\ Serving
  BY TypesAre DEF PageInv, TypeInv
<1>3. CASE Ask
  <2>1. PICK l \in Lists, d \in Days :
          client' = [NoList EXCEPT !.pc = "asked", !.list = l, !.day = d,
                       !.due = {u \in Idx : Wanted(l, Recorded(d)[u])}]
    BY <1>3 DEF Ask
  <2>2. srv' = srv /\ srv.pc = "idle"
    BY <1>2, <1>3 DEF Ask, Serving
  <2>3. client' \in ClientType /\ client'.pc = "asked" /\ client'.day \in Days
    BY <2>1, NoListType DEF ClientType
  <2>4. QED
    BY <1>1, <1>2, <2>2, <2>3, RequestFrame DEF Serving
<1>4. CASE LoadFiles
  <2>1. srv' = [Idle EXCEPT !.pc = "load"] /\ client' = [client EXCEPT !.pc = "waits"]
        /\ client.day \in Days
    BY <1>2, <1>4 DEF LoadFiles, Serving
  <2>2. srv' \in SrvType /\ srv'.page = <<>> /\ srv'.start = NoStart /\ srv'.pc = "load"
    BY <2>1, IdleType DEF SrvType
  <2>3. client' \in ClientType /\ client'.pc = "waits" /\ client'.day \in Days
    BY <1>2, <2>1 DEF ClientType
  <2>4. QED
    BY <1>1, <2>2, <2>3, RequestFrame
<1>5. CASE LoadFails
  <2>1. client' = NoList /\ srv' = srv /\ srv.pc = "idle"
    BY <1>5 DEF LoadFails
  <2>2. client' \in ClientType /\ client'.pc = "idle"
    BY <2>1, NoListType DEF NoList
  <2>3. QED
    BY <1>1, <1>2, <2>1, <2>2, RequestFrame DEF Serving
<1>6. QED
  BY <1>3, <1>4, <1>5

(* The files, the date and the time are read.                              *)
LEMMA LoadPage ==
  ASSUME PageInv, LoadFile \/ TestDate \/ ReadTime
  PROVE  /\ PageInv' /\ UNCHANGED <<today, now, card, mem, client>>
         /\ client.pc = "waits" /\ client.day \in Days
<1>1. UNCHANGED <<today, now, card, mem, client>>
  BY DEF LoadFile, TestDate, ReadTime
<1>2. /\ client \in ClientType /\ srv \in SrvType /\ Serving /\ TypeOK
      /\ today \in Days /\ card \in [Days -> Units]
  BY TypesAre DEF PageInv, TypeInv
<1>3. srv.pc \in {"load", "dated"}
  BY DEF LoadFile, TestDate, ReadTime
<1>4. client.pc = "waits" /\ client.day \in Days /\ srv.page = <<>> /\ srv.start = NoStart
  BY <1>2, <1>3 DEF Serving
<1>5. CASE LoadFile
  <2> DEFINE units == [u \in Idx |-> IF FileOf(u) = srv.slot THEN card[client.day][u] ELSE srv.units[u]]
             unsaved == srv.unsaved \cup (NotSaved(client.day) \cap UnitsOf(srv.slot))
  <2>1. srv' = [srv EXCEPT !.units = units, !.unsaved = unsaved, !.slot = srv.slot + 1]
    BY <1>5 DEF LoadFile
  <2>2. units \in Units
    <3>1. card[client.day] \in [Idx -> Kinds] /\ srv.units \in [Idx -> Kinds]
      BY <1>2, <1>4 DEF Units, SrvType
    <3>2. QED
      BY <3>1 DEF Units
  <2>3. unsaved \in SUBSET Idx
    BY <1>2 DEF SrvType, NotSaved
  <2> HIDE DEF units, unsaved
  <2>4. srv' \in SrvType /\ srv'.pc = srv.pc /\ srv'.page = srv.page /\ srv'.start = srv.start
    <3>1. srv.slot \in Nat /\ srv.slot + 1 \in Nat
      BY <1>2 DEF SrvType
    <3>2. srv \in SrvType
      BY <1>2
    <3> DEFINE next == srv.slot + 1
    <3>3. next \in Nat /\ srv' = [srv EXCEPT !.units = units, !.unsaved = unsaved, !.slot = next]
      BY <2>1, <3>1
    <3> HIDE DEF next
    <3>4. QED
      BY <2>2, <2>3, <3>2, <3>3 DEF SrvType
  <2>5. srv.pc = "load"
    BY <1>5 DEF LoadFile
  <2>6. PageInv'
    BY <1>1, <1>2, <1>4, <2>4, <2>5, RequestFrame
  <2>7. QED
    BY <1>1, <1>4, <2>6
<1>6. CASE TestDate
  <2>1. srv' = [srv EXCEPT !.pc = "dated", !.dated = today] /\ client.day = today
    BY <1>6 DEF TestDate, IsToday
  <2>2. srv' \in SrvType /\ srv'.pc = "dated" /\ srv'.dated = client.day
        /\ srv'.page = srv.page /\ srv'.start = srv.start
    BY <1>2, <2>1 DEF SrvType
  <2>3. PageInv'
    BY <1>1, <1>2, <1>4, <2>2, RequestFrame
  <2>4. QED
    BY <1>1, <1>4, <2>3
<1>7. CASE ReadTime
  <2>1. PICK f \in TimesSeen : srv' = [srv EXCEPT !.pc = "timed", !.slot = f]
    BY <1>7 DEF ReadTime
  <2>2. f \in Nat
    BY <1>2, SeenTypes
  <2>3. srv.dated = client.day
    BY <1>2, <1>7 DEF ReadTime, Serving
  <2>4. srv' \in SrvType /\ srv'.pc = "timed" /\ srv'.dated = client.day
        /\ srv'.page = srv.page /\ srv'.start = srv.start
    BY <1>2, <2>1, <2>2, <2>3 DEF SrvType
  <2>5. PageInv'
    BY <1>1, <1>2, <1>4, <2>4, RequestFrame
  <2>6. QED
    BY <1>1, <1>4, <2>5
<1>8. QED
  BY <1>5, <1>6, <1>7

(* What memory is found to hold is laid over its slot: only the index of   *)
(* this day and slot shows what is recorded.                               *)
LEMMA CopyPage ==
  ASSUME PageInv, CopyUnits
  PROVE  /\ PageInv' /\ UNCHANGED <<today, now, card, mem>>
         /\ srv.pc = "timed" /\ srv'.pc = "scan" /\ client.pc = "waits" /\ client.day \in Days
         /\ client'.segs = client.segs /\ client'.day = client.day
         /\ client'.list = client.list /\ client'.from = client.from
         /\ client'.pc = client.pc
         /\ \E units \in [FileIdx -> Kinds], F \in SUBSET Idx :
              /\ F = IF OwnIndex(units) THEN {} ELSE UnitsOf(srv.slot)
              /\ srv'.units = Overlaid(srv.units, srv.slot, units)
              /\ client'.due = client.due \ ((srv.unsaved \ UnitsOf(srv.slot)) \cup F)
              /\ client'.phantom = client.phantom \cup F
<1>1. UNCHANGED <<today, now, card, mem>> /\ srv.pc = "timed"
  BY DEF CopyUnits
<1>2. client \in ClientType /\ srv \in SrvType /\ Serving /\ TypeOK
  BY TypesAre DEF PageInv, TypeInv
<1>3. client.pc = "waits" /\ client.day \in Days /\ srv.dated = client.day
  BY <1>1, <1>2 DEF Serving
<1>4. PICK units \in UnitsSeen :
        /\ srv' = [Idle EXCEPT !.pc = "scan", !.units = Laid(units), !.i = client.from]
        /\ client' = [client EXCEPT
             !.due = client.due \ ((srv.unsaved \ UnitsOf(srv.slot)) \cup Foreign(units)),
             !.phantom = client.phantom \cup Foreign(units)]
  BY DEF CopyUnits
<1>5. units \in [FileIdx -> Kinds]
  BY <1>2, SeenTypes
<1> DEFINE F == Foreign(units)
           laid == Overlaid(srv.units, srv.slot, units)
<1>6. F = (IF OwnIndex(units) THEN {} ELSE UnitsOf(srv.slot)) /\ F \in SUBSET Idx
  BY <1>3 DEF Foreign, UnitsOf
<1>7. Laid(units) = laid /\ laid \in Units
  <2>1. srv.units \in Units
    BY <1>2 DEF SrvType
  <2>2. QED
    BY <1>5, <2>1, OverlaidType DEF Laid
<1> HIDE DEF F, laid
<1>8. /\ srv' \in SrvType /\ srv'.pc = "scan" /\ srv'.i = client.from
      /\ srv'.page = <<>> /\ srv'.start = NoStart /\ srv'.units = laid
  <2>1. client.from \in 0 .. UnitsPerDay
    BY <1>2 DEF ClientType
  <2>2. srv' = [Idle EXCEPT !.pc = "scan", !.units = laid, !.i = client.from]
    BY <1>4, <1>7
  <2>3. QED
    BY <1>7, <2>1, <2>2, IdleType DEF SrvType
<1>9. /\ client' \in ClientType
      /\ client'.segs = client.segs /\ client'.day = client.day
      /\ client'.list = client.list /\ client'.from = client.from
      /\ client'.pc = client.pc
      /\ client'.due = client.due \ ((srv.unsaved \ UnitsOf(srv.slot)) \cup F)
      /\ client'.phantom = client.phantom \cup F
  <2>1. client' = [client EXCEPT
             !.due = client.due \ ((srv.unsaved \ UnitsOf(srv.slot)) \cup F),
             !.phantom = client.phantom \cup F]
    BY <1>4 DEF F
  <2>2. QED
    BY <1>2, <1>6, <2>1 DEF ClientType
<1>10. PageInv'
  BY <1>1, <1>3, <1>8, <1>9, RequestFrame
<1>11. srv'.units = Overlaid(srv.units, srv.slot, units)
  BY <1>8 DEF laid
<1>12. QED
  BY <1>1, <1>3, <1>5, <1>6, <1>8, <1>9, <1>10, <1>11

LEMMA OnlyPage ==
  ASSUME PageInv, OnlyFiles
  PROVE  /\ PageInv' /\ UNCHANGED <<today, now, card, mem>>
         /\ srv.pc = "load" /\ srv.slot = NumFiles /\ srv'.pc = "scan"
         /\ client.pc = "waits" /\ client.day \in Days
         /\ client'.segs = client.segs /\ client'.day = client.day
         /\ client'.list = client.list /\ client'.from = client.from
         /\ client'.pc = client.pc /\ client'.phantom = client.phantom
         /\ srv'.units = srv.units /\ client'.due = client.due \ srv.unsaved
<1>1. UNCHANGED <<today, now, card, mem>> /\ srv.pc = "load" /\ srv.slot = NumFiles
  BY DEF OnlyFiles
<1>2. client \in ClientType /\ srv \in SrvType /\ Serving
  BY TypesAre DEF PageInv, TypeInv
<1>3. client.pc = "waits" /\ client.day \in Days
  BY <1>1, <1>2 DEF Serving
<1>4. /\ srv' = [Idle EXCEPT !.pc = "scan", !.units = srv.units, !.i = client.from]
      /\ client' = [client EXCEPT !.due = client.due \ srv.unsaved]
  BY DEF OnlyFiles
<1>5. /\ srv' \in SrvType /\ srv'.pc = "scan" /\ srv'.i = client.from
      /\ srv'.page = <<>> /\ srv'.start = NoStart /\ srv'.units = srv.units
  <2>1. client.from \in 0 .. UnitsPerDay /\ srv.units \in Units
    BY <1>2 DEF ClientType, SrvType
  <2>2. QED
    BY <1>4, <2>1, IdleType DEF SrvType
<1>6. /\ client' \in ClientType
      /\ client'.segs = client.segs /\ client'.day = client.day
      /\ client'.list = client.list /\ client'.from = client.from
      /\ client'.pc = client.pc /\ client'.phantom = client.phantom
      /\ client'.due = client.due \ srv.unsaved
  BY <1>2, <1>4 DEF ClientType
<1>7. PageInv'
  BY <1>1, <1>3, <1>5, <1>6, RequestFrame
<1>8. QED
  BY <1>1, <1>3, <1>5, <1>6, <1>7

(* What is left to show of a pass of the loop.                             *)
LEMMA ScanFrame ==
  ASSUME PageInv, ScanUnit, srv' \in SrvType, srv'.pc = "scan", PageExact',
         Len(srv'.page) + (IF srv'.start = NoStart THEN 0 ELSE 1) <= PageLen
  PROVE  PageInv'
<1>1. UNCHANGED <<today, now, card, mem, client>> /\ srv.pc = "scan"
  BY DEF ScanUnit
<1>2. TypeOK'
  BY <1>1 DEF PageInv, TypeInv, TypeOK, SrvType
<1>3. srv'.i = srv.i + 1 /\ srv.i \in Nat /\ client.from \in Nat
  BY DEF ScanUnit, PageInv, TypeInv, TypeOK
<1>4. Serving'
  BY <1>1, <1>3 DEF PageInv, TypeInv, Serving
<1>5. QED
  BY <1>2, <1>4 DEF PageInv, TypeInv

LEMMA ScanPage ==
  ASSUME PageInv, ScanUnit
  PROVE  PageInv'
<1> DEFINE i == srv.i
           page == srv.page
           L == Len(srv.page)
           from == client.from
<1>1. /\ srv.pc = "scan" /\ client' = client /\ i < UnitsPerDay /\ L < PageLen
  BY DEF ScanUnit, Full
<1>2. /\ srv \in SrvType /\ i \in Nat /\ i \in Idx /\ i + 1 \in 0 .. UnitsPerDay
      /\ from \in Nat /\ srv.start \in Idx \cup {NoStart}
      /\ page \in Seq(Segs) /\ L \in Nat /\ DOMAIN page = 1 .. L
  BY <1>1 DEF PageInv, TypeInv, TypeOK, Idx, SrvType
<1>3. \A k \in 1 .. L : page[k].st \in Nat /\ page[k].e \in Nat
  <2>1. \A g \in Segs : g.st \in Nat /\ g.e \in Nat
    BY DEF Segs, Idx
  <2>2. \A k \in 1 .. L : page[k] \in Segs
    BY <1>2
  <2>3. QED
    BY <2>1, <2>2
<1>4. \A u \in from .. i - 1 : Want(u) <=> OnPage(u) \/ IsOpen(u)
  BY <1>1 DEF PageInv, PageExact
<1>5. \A k \in 1 .. L : from <= page[k].st /\ page[k].st < page[k].e /\ page[k].e < i
  BY <1>1, <1>2 DEF PageInv, PageExact
<1>6. \A j, k \in 1 .. L : j < k => page[j].e < page[k].st
  BY <1>1, <1>2 DEF PageInv, PageExact
<1>7. srv.start # NoStart =>
        /\ from <= srv.start /\ srv.start < i
        /\ \A k \in 1 .. L : page[k].e < srv.start
  BY <1>1, <1>2 DEF PageInv, PageExact
<1>8. from <= i
  BY <1>1 DEF PageInv, TypeInv, Serving
<1>9. PageLen \in Nat
  OBVIOUS
<1>10. CASE Want(i)
  <2> DEFINE b == Begun(i)
  <2>1. srv' = [srv EXCEPT !.i = i + 1, !.start = b]
    BY <1>10 DEF ScanUnit
  <2>2. b \in Idx /\ b \in Nat /\ b # NoStart /\ from <= b /\ b <= i
        /\ (srv.start # NoStart => b = srv.start) /\ (srv.start = NoStart => b = i)
    BY <1>2, <1>7, <1>8 DEF Begun, Idx, NoStart
  <2> HIDE DEF b
  <2>3. srv' \in SrvType
    BY <1>2, <2>1, <2>2 DEF SrvType
  <2>4. /\ srv'.pc = "scan" /\ srv'.page = page /\ srv'.start = b /\ srv'.i = i + 1
        /\ srv'.units = srv.units
    BY <1>1, <1>2, <2>1 DEF SrvType
  <2>5. \A u \in from .. i : Want(u) <=> OnPage(u) \/ b <= u
    <3>1. ASSUME NEW u \in from .. i PROVE Want(u) <=> OnPage(u) \/ b <= u
      <4>1. CASE u = i
        BY <1>10, <2>2, <4>1
      <4>2. CASE u # i
        <5>1. u \in from .. i - 1
          BY <1>2, <4>2
        <5>2. IsOpen(u) <=> b <= u
          BY <1>2, <2>2, <5>1 DEF IsOpen
        <5>3. QED
          BY <1>4, <5>1, <5>2
      <4>3. QED
        BY <4>1, <4>2
    <3>2. QED
      BY <3>1
  <2>6. \A k \in 1 .. L : page[k].e < i + 1 /\ page[k].e < b
    BY <1>2, <1>3, <1>5, <1>7, <2>2
  <2>7. \A u : /\ Want(u)' <=> Want(u)
               /\ OnPage(u)' <=> OnPage(u)
               /\ IsOpen(u)' <=> b <= u
    BY <1>1, <2>2, <2>4 DEF Want, Wanted, OnPage, Within, IsOpen
  <2>8. PageExact'
    <3>1. \A u \in from .. (i + 1) - 1 : Want(u)' <=> OnPage(u)' \/ IsOpen(u)'
      <4>1. (i + 1) - 1 = i
        BY <1>2
      <4>2. QED
        BY <2>5, <2>7, <4>1
    <3>2. \A k \in 1 .. L : from <= page[k].st /\ page[k].st < page[k].e /\ page[k].e < i + 1
      BY <1>5, <2>6
    <3>3. b < i + 1
      BY <1>2, <2>2
    <3> HIDE DEF L, page, i, from
    <3>4. srv'.i = i + 1 /\ srv'.page = page /\ srv'.start = b /\ client'.from = from
          /\ Len(srv'.page) = L /\ DOMAIN srv'.page = 1 .. L
      BY <1>1, <1>2, <2>4 DEF page, L, from, i
    <3>5. QED
      BY <1>6, <2>2, <2>6, <3>1, <3>2, <3>3, <3>4 DEF PageExact
  <2>9. L + 1 <= PageLen
    BY <1>1, <1>2, <1>9
  <2>10. QED
    BY <2>2, <2>3, <2>4, <2>8, <2>9, ScanFrame
<1>11. CASE ~Want(i) /\ srv.start = NoStart
  <2>1. srv' = [srv EXCEPT !.i = i + 1]
    BY <1>11 DEF ScanUnit
  <2>2. srv' \in SrvType
    BY <1>2, <2>1 DEF SrvType
  <2>3. /\ srv'.pc = "scan" /\ srv'.page = page /\ srv'.start = NoStart /\ srv'.i = i + 1
        /\ srv'.units = srv.units
    BY <1>1, <1>2, <1>11, <2>1 DEF SrvType
  <2>4. \A u : /\ Want(u)' = Want(u) /\ OnPage(u)' = OnPage(u)
               /\ ~IsOpen(u)' /\ ~IsOpen(u)
    BY <1>1, <1>11, <2>3 DEF Want, Wanted, OnPage, Within, IsOpen
  <2>5. ~OnPage(i)
    BY <1>2, <1>3, <1>5 DEF OnPage, Within
  <2>6. \A u \in from .. i : Want(u) <=> OnPage(u)
    <3>1. \A u \in from .. i : u = i \/ u \in from .. i - 1
      BY <1>2
    <3>2. QED
      BY <1>4, <1>11, <2>4, <2>5, <3>1
  <2>7. \A k \in 1 .. L : page[k].e < i + 1
    BY <1>2, <1>3, <1>5
  <2>8. PageExact'
    <3>1. \A u \in from .. (i + 1) - 1 : Want(u)' <=> OnPage(u)' \/ IsOpen(u)'
      BY <1>2, <2>4, <2>6
    <3>2. \A k \in 1 .. L : from <= page[k].st /\ page[k].st < page[k].e /\ page[k].e < i + 1
      BY <1>5, <2>7
    <3> HIDE DEF L, page, i, from
    <3>3. srv'.i = i + 1 /\ srv'.page = page /\ srv'.start = NoStart /\ client'.from = from
          /\ Len(srv'.page) = L /\ DOMAIN srv'.page = 1 .. L
      BY <1>1, <1>2, <2>3 DEF page, L, from, i
    <3>4. QED
      BY <1>6, <3>1, <3>2, <3>3 DEF PageExact
  <2>9. L + 0 <= PageLen
    BY <1>1, <1>2, <1>9
  <2>10. QED
    BY <2>2, <2>3, <2>8, <2>9, ScanFrame
<1>12. CASE ~Want(i) /\ srv.start # NoStart
  <2> DEFINE s == Seg(srv.start, i)
             longer == Append(page, s)
  <2>1. srv' = [srv EXCEPT !.i = i + 1, !.start = NoStart, !.page = longer]
    BY <1>12 DEF ScanUnit, Ended
  <2>2. s \in Segs /\ s.st = srv.start /\ s.e = i /\ srv.start \in Nat /\ srv.start < i
    BY <1>2, <1>7, <1>12 DEF Seg, Segs, Idx
  <2> HIDE DEF s
  <2>3. /\ longer \in Seq(Segs) /\ Len(longer) = L + 1 /\ DOMAIN longer = 1 .. L + 1
        /\ \A k \in 1 .. L : longer[k] = page[k]
        /\ longer[L + 1] = s
    BY <1>2, <2>2
  <2> HIDE DEF longer
  <2>4. srv' \in SrvType
    BY <1>2, <2>1, <2>3 DEF SrvType
  <2>5. /\ srv'.pc = "scan" /\ srv'.page = longer /\ srv'.start = NoStart /\ srv'.i = i + 1
        /\ srv'.units = srv.units
    BY <1>1, <1>2, <2>1 DEF SrvType
  <2>6. \A u : Want(u)' = Want(u) /\ ~IsOpen(u)'
    BY <1>1, <2>5 DEF Want, Wanted, IsOpen
  <2>7. \A u : OnPage(u)' <=> OnPage(u) \/ Within(u, s)
    <3>1. \A k : k \in 1 .. L + 1 <=> k \in 1 .. L \/ k = L + 1
      BY <1>2
    <3>2. \A u : OnPage(u)' <=> \E k \in 1 .. L + 1 : Within(u, longer[k])
      BY <2>3, <2>5 DEF OnPage, Within
    <3>3. QED
      BY <1>2, <2>3, <3>1, <3>2 DEF OnPage
  <2>8. \A u \in from .. i : Want(u) <=> OnPage(u)'
    <3>1. ASSUME NEW u \in from .. i PROVE Want(u) <=> OnPage(u)'
      <4>1. CASE u = i
        <5>1. ~OnPage(i)
          BY <1>2, <1>3, <1>5 DEF OnPage, Within
        <5>2. ~Within(i, s)
          BY <1>2, <2>2 DEF Within
        <5>3. QED
          BY <1>12, <2>7, <4>1, <5>1, <5>2
      <4>2. CASE u # i
        <5>1. u \in from .. i - 1
          BY <1>2, <4>2
        <5>2. IsOpen(u) <=> Within(u, s)
          BY <1>2, <1>12, <2>2, <5>1 DEF IsOpen, Within
        <5>3. QED
          BY <1>4, <2>7, <5>1, <5>2
      <4>3. QED
        BY <4>1, <4>2
    <3>2. QED
      BY <3>1
  <2>9. \A k \in 1 .. L + 1 :
          from <= longer[k].st /\ longer[k].st < longer[k].e /\ longer[k].e < i + 1
    <3>1. from <= s.st /\ s.st < s.e /\ s.e < i + 1
      BY <1>2, <1>7, <1>12, <2>2
    <3>2. ASSUME NEW k \in 1 .. L + 1
          PROVE from <= longer[k].st /\ longer[k].st < longer[k].e /\ longer[k].e < i + 1
      <4>1. CASE k = L + 1
        BY <2>3, <3>1, <4>1
      <4>2. CASE k # L + 1
        <5>1. k \in 1 .. L
          BY <1>2, <4>2
        <5>2. longer[k] = page[k]
          BY <2>3, <5>1
        <5>3. page[k].e \in Nat /\ page[k].e < i
          BY <1>3, <1>5, <5>1
        <5>4. page[k].e < i + 1
          BY <1>2, <5>3
        <5>5. QED
          BY <1>5, <5>1, <5>2, <5>4
      <4>3. QED
        BY <4>1, <4>2
    <3>3. QED
      BY <3>2
  <2>10. \A j, k \in 1 .. L + 1 : j < k => longer[j].e < longer[k].st
    <3>1. ASSUME NEW j \in 1 .. L + 1, NEW k \in 1 .. L + 1, j < k
          PROVE  longer[j].e < longer[k].st
      <4>1. j \in 1 .. L /\ longer[j] = page[j]
        BY <1>2, <2>3, <3>1
      <4>2. CASE k = L + 1
        BY <1>7, <1>12, <2>2, <2>3, <4>1, <4>2
      <4>3. CASE k # L + 1
        <5>1. k \in 1 .. L
          BY <1>2, <4>3
        <5>2. QED
          BY <1>6, <2>3, <3>1, <4>1, <5>1
      <4>4. QED
        BY <4>2, <4>3
    <3>2. QED
      BY <3>1
  <2>11. Len(longer) - 1 = L
    BY <1>2, <2>3
  <2>12. PageExact'
    BY <1>1, <1>2, <2>3, <2>5, <2>6, <2>8, <2>9, <2>10, <2>11 DEF PageExact
  <2>13. Len(longer) + 0 <= PageLen
    BY <1>1, <1>2, <1>9, <2>3
  <2>14. QED
    BY <2>4, <2>5, <2>12, <2>13, ScanFrame
<1>13. QED
  BY <1>10, <1>11, <1>12

LEMMA RespondPage ==
  ASSUME PageInv, Respond
  PROVE  PageInv'
<1> USE DEF PageInv, TypeInv
<1> DEFINE resp == srv.page \o LastSeg
<1>1. /\ srv.pc = "scan" /\ client' = Answered(resp) /\ srv' = Idle
      /\ UNCHANGED <<today, now, card, mem>>
  BY DEF Respond
<1>2. LastSeg \in Seq(Segs)
  <2>1. srv.start # NoStart => Seg(srv.start, UnitsPerDay) \in Segs
    BY DEF Seg, Segs, TypeOK, Idx
  <2>2. QED
    BY <2>1, Basics DEF LastSeg
<1>3. resp \in Seq(Segs)
  BY <1>2 DEF TypeOK
<1> HIDE DEF resp
<1>4. Answered(resp) \in ClientType /\ Answered(resp).pc \in {"done", "asked"}
  <2>1. resp # <<>> => resp[Len(resp)].e \in 0 .. UnitsPerDay
    <3>1. resp # <<>> => Len(resp) \in DOMAIN resp
      BY <1>3
    <3>2. \A g \in Segs : g.e \in 0 .. UnitsPerDay
      BY DEF Segs
    <3>3. QED
      BY <1>3, <3>1, <3>2
  <2>2. client.segs \o resp \in Seq(Segs)
    BY <1>3 DEF TypeOK
  <2>3. client \in ClientType
    BY TypesAre
  <2>4. QED
    BY <2>1, <2>2, <2>3 DEF Answered, ClientType
<1>5. Answered(resp).day = client.day /\ client.pc = "waits"
  BY <1>1 DEF Answered, Serving, TypeOK
<1>6. /\ srv' \in SrvType /\ srv'.pc = "idle" /\ srv'.page = <<>> /\ srv'.start = NoStart
  <2>1. Idle.pc = "idle"
    BY DEF Idle
  <2>2. QED
    BY <1>1, <2>1, IdleType
<1>7. client'.pc \in {"done", "asked"} /\ client'.day \in Days
  BY <1>1, <1>4, <1>5 DEF Serving
<1>8. QED
  BY <1>1, <1>4, <1>6, <1>7, RequestFrame

(* Types, and pages that never outgrow the response; and in every pass of  *)
(* the loop the segments so far are exactly the runs of wanted units.      *)
THEOREM PagesAreExact == Spec => [](TypeOK /\ PageExact)
<1>1. Init => PageInv
  BY InitPage
<1>2. PageInv /\ [Next]_vars => PageInv'
  <2> SUFFICES ASSUME PageInv, [Next]_vars PROVE PageInv'
    OBVIOUS
  <2>1. CASE UNCHANGED vars
    BY <2>1, QuietPage DEF vars, PageInv, TypeInv, TypeOK, Serving, Quiet
  <2>2. CASE Next
    BY <2>2, RecorderPage, AskPage, LoadPage, CopyPage, OnlyPage, ScanPage, RespondPage
       DEF Next, Server
  <2>3. QED
    BY <2>1, <2>2
<1>3. PageInv => TypeOK /\ PageExact
  BY DEF PageInv, TypeInv
<1>4. QED
  BY <1>1, <1>2, <1>3, PTL DEF Spec

(* The types, and with them that a page never outgrows the response: the   *)
(* segment that ends with the day still has room in it.                    *)
THEOREM PageHasRoom == Spec => []TypeOK
BY PagesAreExact, PTL

-----------------------------------------------------------------------------
(* What a listing shows has been recorded.                                 *)

(* The index in memory holds what the idx file of its slot holds, also     *)
(* while that is empty because it is being saved.                          *)
Kept ==
  mem.day # NoDay =>
    \A u \in UnitsOf(mem.file) :
      card[mem.day][u] # None => mem.units[u % UnitsPerFile] = card[mem.day][u]

(* The units the server has loaded are units recorded.                     *)
LoadedSound ==
  srv.pc # "idle" =>
    \A u \in Idx \ client.phantom :
      srv.units[u] # None => srv.units[u] = Recorded(client.day)[u]

(* The next page begins where the segments end.                            *)
Joined ==
  /\ client.segs # <<>> => client.day \in Days
  /\ \A k \in DOMAIN client.segs :
       client.segs[k].st < client.segs[k].e /\ client.segs[k].e <= client.from

ListedSound ==
  \A u \in Listed \ client.phantom :
    Wanted(client.list, Recorded(client.day)[u])
Ordered ==
  \A k \in 1 .. Len(client.segs) - 1 : client.segs[k].e <= client.segs[k + 1].st

SoundInv == PageInv /\ Kept /\ LoadedSound /\ Joined /\ ListedSound /\ Ordered

LEMMA RecordedAt ==
  ASSUME PageInv, NEW d \in Days, NEW u \in Idx
  PROVE  Recorded(d)[u] = IF mem.day = d /\ FileOf(u) = mem.file
                          THEN mem.units[u % UnitsPerFile] ELSE card[d][u]
BY DEF Recorded, Overlaid

LEMMA UnitInSlot ==
  ASSUME NEW u \in Idx
  PROVE  FileOf(u) * UnitsPerFile + (u % UnitsPerFile) = u
<1>1. u \in Nat
  BY DEF Idx
<1>2. QED
  BY <1>1, DivMod DEF FileOf

(* Recording, saving and the next file only add to what is recorded, but   *)
(* for what is lost.                                                       *)
LEMMA RecordedGrows ==
  ASSUME PageInv, PageInv', Kept, Tick \/ Recorder
  PROVE  /\ Kept'
         /\ \A d \in Days, u \in Idx :
              d = client.day /\ u \notin client'.phantom /\ Recorded(d)[u] # None
                => Recorded(d)'[u] = Recorded(d)[u]
<1>1. CASE Tick
  BY <1>1 DEF Tick, Kept, Recorded
<1>2. CASE OpenFile
  <2>1. /\ card' = card /\ mem'.day = today /\ mem'.file = FileOf(now)
        /\ \A i \in FileIdx : mem'.units[i] = card[today][FileOf(now) * UnitsPerFile + i]
    BY <1>2, OpensFile
  <2>2. ASSUME NEW d \in Days, NEW u \in Idx, d = client.day, u \notin client'.phantom
        PROVE  Recorded(d)[u] = card[d][u]
    <3>1. CASE mem.day = d
      <4>1. mem.day # NoDay
        BY <3>1 DEF NoDay
      <4>2. u \notin NotSaved(d)
        BY <1>2, <2>2, <3>1, <4>1, RecorderClient DEF Lost
      <4>3. QED
        BY <4>2 DEF NotSaved
    <3>2. CASE mem.day # d
      BY <3>2 DEF Recorded
    <3>3. QED
      BY <3>1, <3>2
  <2>3. ASSUME NEW u \in Idx, FileOf(u) = FileOf(now)
        PROVE  mem'.units[u % UnitsPerFile] = card[today][u]
    BY <2>1, <2>3, SlotOfUnit, UnitInSlot
  <2>4. ASSUME NEW d \in Days, NEW u \in Idx
        PROVE  Recorded(d)'[u] = card[d][u]
    <3>1. Recorded(d)'[u] = IF mem'.day = d /\ FileOf(u) = mem'.file
                            THEN mem'.units[u % UnitsPerFile] ELSE card'[d][u]
      BY DEF Recorded, Overlaid, PageInv, TypeInv, TypeOK
    <3>2. QED
      BY <2>1, <2>3, <3>1
  <2>5. Kept'
    BY <2>1, <2>3 DEF Kept, UnitsOf
  <2>6. QED
    BY <2>2, <2>4, <2>5
<1>3. CASE MarkUnit
  <2>1. PICK j \in FileIdx, k \in Kinds :
          mem.units[j] = None /\ mem' = [mem EXCEPT !.units[j] = k]
    BY <1>3, MarksUnit DEF PageInv, TypeInv
  <2>2. /\ card' = card /\ mem'.day = mem.day /\ mem'.file = mem.file
        /\ mem.units[j] = None
        /\ \A i \in FileIdx : i # j => mem'.units[i] = mem.units[i]
    BY <1>3, <2>1 DEF MarkUnit, PageInv, TypeInv, TypeOK
  <2>3. \A u \in Idx : mem.units[u % UnitsPerFile] # None =>
          mem'.units[u % UnitsPerFile] = mem.units[u % UnitsPerFile]
    BY <2>2, SlotOfUnit
  <2>4. Kept'
    BY <2>2, <2>3 DEF Kept, UnitsOf
  <2>5. ASSUME NEW d \in Days, NEW u \in Idx, Recorded(d)[u] # None
        PROVE  Recorded(d)'[u] = Recorded(d)[u]
    BY <2>2, <2>3, <2>5 DEF Recorded, Overlaid
  <2>6. QED
    BY <2>4, <2>5
<1>4. CASE CutUnits \/ SaveUnits
  <2> DEFINE day == mem.day
  <2>1. /\ mem'.day = day /\ mem'.file = mem.file /\ mem'.units = mem.units
        /\ day \in Days /\ card \in [Days -> Units]
    <3>1. day # NoDay /\ day \in Days \cup {NoDay}
      BY <1>4 DEF CutUnits, SaveUnits, PageInv, TypeInv, TypeOK, Serving
    <3>2. QED
      BY <1>4, <3>1, ChangesMem, TypesAre DEF PageInv, TypeInv
  <2>2. PICK m \in {Blank, mem.units} :
          card' = [card EXCEPT ![day] = Overlaid(card[day], mem.file, m)]
    BY <1>4 DEF CutUnits, SaveUnits
  <2>3. /\ card'[day] = Overlaid(card[day], mem.file, m)
        /\ \A d \in Days : d # day => card'[d] = card[d]
    BY <2>1, <2>2
  <2>4. ASSUME NEW u \in UnitsOf(mem.file), card'[day][u] # None
        PROVE  mem.units[u % UnitsPerFile] = card'[day][u]
    <3>1. u \in Idx /\ FileOf(u) = mem.file /\ u % UnitsPerFile \in FileIdx
      BY SlotOfUnit DEF UnitsOf
    <3>2. card'[day][u] = m[u % UnitsPerFile]
      BY <2>3, <3>1 DEF Overlaid
    <3>3. m # Blank
      BY <2>4, <3>1, <3>2 DEF Blank
    <3>4. QED
      BY <3>2, <3>3
  <2>5. Kept'
    BY <2>1, <2>4 DEF Kept, UnitsOf
  <2>6. ASSUME NEW d \in Days, NEW u \in Idx
        PROVE  Recorded(d)'[u] = Recorded(d)[u]
    <3>1. Recorded(d)'[u] = IF mem'.day = d /\ FileOf(u) = mem'.file
                            THEN mem'.units[u % UnitsPerFile] ELSE card'[d][u]
      BY DEF Recorded, Overlaid
    <3>2. Recorded(d)[u] = IF mem.day = d /\ FileOf(u) = mem.file
                           THEN mem.units[u % UnitsPerFile] ELSE card[d][u]
      BY RecordedAt
    <3>3. ~(day = d /\ FileOf(u) = mem.file) => card'[d][u] = card[d][u]
      BY <2>3 DEF Overlaid
    <3>4. QED
      BY <2>1, <3>1, <3>2, <3>3
  <2>7. QED
    BY <2>5, <2>6
<1>5. CASE OpenStep
  <2>1. mem'.day = mem.day /\ mem'.file = mem.file /\ mem'.units = mem.units /\ card' = card
    BY <1>5, ChangesMem DEF OpenStep
  <2>2. QED
    BY <2>1 DEF Kept, Recorded, UnitsOf
<1>6. QED
  BY <1>1, <1>2, <1>3, <1>4, <1>5 DEF Recorder

LEMMA RecorderSound ==
  ASSUME SoundInv, Tick \/ Recorder
  PROVE  SoundInv'
<1> USE DEF SoundInv
<1>1. PageInv'
  BY RecorderPage
<1>2. /\ srv' = srv /\ client'.list = client.list /\ client'.day = client.day
      /\ client'.from = client.from /\ client'.segs = client.segs
      /\ client.phantom \subseteq client'.phantom
  BY RecorderClient
<1>3. /\ Kept'
      /\ client.day \in Days => \A u \in Idx \ client'.phantom :
           Recorded(client.day)[u] # None
             => Recorded(client.day)'[u] = Recorded(client.day)[u]
  <2>1. ASSUME NEW d \in Days, d = client.day, NEW u \in Idx \ client'.phantom, Recorded(d)[u] # None
        PROVE  Recorded(client.day)'[u] = Recorded(d)[u]
    <3>1. Recorded(d)'[u] = Recorded(d)[u]
      BY <1>1, <2>1, RecordedGrows
    <3>2. Recorded(client.day)' = Recorded(d)'
      BY <1>2, <2>1 DEF Recorded, Overlaid
    <3>3. QED
      BY <3>1, <3>2
  <2>2. Kept'
    BY <1>1, RecordedGrows
  <2>3. QED
    BY <2>1, <2>2
<1>4. LoadedSound'
  <2>1. srv.pc # "idle" => client.day \in Days
    BY DEF PageInv, TypeInv, Serving
  <2>2. QED
    BY <1>2, <1>3, <2>1 DEF LoadedSound
<1>5. ListedSound'
  <2>1. Listed' = Listed
    BY <1>2 DEF Listed
  <2> DEFINE d == client.day
  <2>2. ASSUME NEW u \in Listed \ client'.phantom
        PROVE  Wanted(client.list, Recorded(client.day)'[u])
    <3>1. u \in Idx /\ d \in Days /\ u \notin client.phantom
      BY <1>2, <2>2 DEF Listed, Joined
    <3>2. Wanted(client.list, Recorded(d)[u])
      BY <2>2, <3>1 DEF ListedSound
    <3>3. Recorded(d)[u] # None
      BY <3>2 DEF Wanted, None, Plain, Alarmed
    <3>4. Recorded(client.day)'[u] = Recorded(d)[u]
      BY <1>3, <2>2, <3>1, <3>3
    <3>5. QED
      BY <3>2, <3>4
  <2>3. QED
    BY <1>2, <2>1, <2>2 DEF ListedSound
<1>6. Joined' /\ Ordered'
  BY <1>2 DEF Joined, Ordered
<1>7. QED
  BY <1>1, <1>3, <1>4, <1>5, <1>6

LEMMA AskSound ==
  ASSUME SoundInv, Ask \/ LoadFiles \/ LoadFails
  PROVE  SoundInv'
<1> USE DEF SoundInv
<1>1. PageInv'
  BY AskPage
<1>2. UNCHANGED <<today, now, card, mem>>
  BY DEF Ask, LoadFiles, LoadFails
<1>3. Kept'
  BY <1>2 DEF Kept
<1>4. CASE Ask \/ LoadFails
  <2>1. client'.segs = <<>> /\ srv' = srv /\ srv.pc = "idle"
    <3>1. srv' = srv /\ client.pc # "waits"
      BY <1>4 DEF Ask, LoadFails
    <3>2. NoList \in ClientType /\ NoList.segs = <<>>
      BY NoListType DEF NoList
    <3>3. client'.segs = <<>>
      BY <1>4, <3>2 DEF Ask, LoadFails, ClientType
    <3>4. QED
      BY <3>1, <3>3 DEF PageInv, TypeInv, Serving
  <2>2. Listed' = {}
    BY <2>1 DEF Listed
  <2>3. LoadedSound' /\ Joined' /\ ListedSound' /\ Ordered'
    BY <2>1, <2>2 DEF LoadedSound, Joined, ListedSound, Ordered
  <2>4. QED
    BY <1>1, <1>3, <2>3
<1>5. CASE LoadFiles
  <2>1. client' = [client EXCEPT !.pc = "waits"] /\ srv'.units = [u \in Idx |-> None]
    BY <1>5 DEF LoadFiles, Idle
  <2>2. /\ client'.segs = client.segs /\ client'.day = client.day /\ client'.list = client.list
        /\ client'.from = client.from /\ client'.phantom = client.phantom
    BY <2>1 DEF PageInv, TypeInv, TypeOK
  <2>3. Listed' = Listed
    BY <2>2 DEF Listed
  <2>4. Joined' /\ ListedSound' /\ Ordered'
    BY <1>2, <2>2, <2>3 DEF Joined, ListedSound, Ordered, Recorded
  <2>5. LoadedSound'
    BY <2>1 DEF LoadedSound
  <2>6. QED
    BY <1>1, <1>3, <2>4, <2>5
<1>6. QED
  BY <1>4, <1>5

(* What a file holds has been recorded.                                    *)
LEMMA CardSound ==
  ASSUME PageInv, Kept, NEW d \in Days, NEW u \in Idx, card[d][u] # None
  PROVE  card[d][u] = Recorded(d)[u]
<1>1. CASE mem.day = d /\ FileOf(u) = mem.file
  <2>1. mem.day # NoDay
    BY <1>1 DEF NoDay
  <2>2. QED
    BY <1>1, <2>1, RecordedAt DEF Kept, UnitsOf
<1>2. CASE ~(mem.day = d /\ FileOf(u) = mem.file)
  BY <1>2, RecordedAt
<1>3. QED
  BY <1>1, <1>2

LEMMA LoadSound ==
  ASSUME SoundInv, LoadFile \/ TestDate \/ ReadTime
  PROVE  SoundInv'
<1> USE DEF SoundInv
<1>1. /\ PageInv' /\ UNCHANGED <<today, now, card, mem, client>>
      /\ client.pc = "waits" /\ client.day \in Days
  BY LoadPage
<1>2. Kept' /\ Joined' /\ ListedSound' /\ Ordered'
  BY <1>1 DEF Kept, Joined, ListedSound, Listed, Ordered, Recorded
<1>3. srv \in SrvType /\ srv.pc # "idle"
  BY TypesAre DEF PageInv, TypeInv, LoadFile, TestDate, ReadTime
<1>4. ASSUME NEW u \in Idx \ client.phantom, srv'.units[u] # None
      PROVE  srv'.units[u] = Recorded(client.day)[u]
  <2>1. CASE LoadFile
    <3>1. srv'.units[u] = IF FileOf(u) = srv.slot THEN card[client.day][u] ELSE srv.units[u]
      BY <1>3, <2>1 DEF LoadFile, SrvType
    <3>2. CASE FileOf(u) = srv.slot
      BY <1>1, <1>4, <3>1, <3>2, CardSound
    <3>3. CASE FileOf(u) # srv.slot
      BY <1>3, <1>4, <3>1, <3>3 DEF LoadedSound
    <3>4. QED
      BY <3>2, <3>3
  <2>2. CASE TestDate \/ ReadTime
    <3>1. srv'.units = srv.units
      BY <1>3, <2>2 DEF TestDate, ReadTime, SrvType
    <3>2. QED
      BY <1>3, <1>4, <3>1 DEF LoadedSound
  <2>3. QED
    BY <2>1, <2>2
<1>5. LoadedSound'
  <2>1. Recorded(client.day)' = Recorded(client.day)
    BY <1>1 DEF Recorded, Overlaid
  <2>2. QED
    BY <1>1, <1>4, <2>1 DEF LoadedSound
<1>6. QED
  BY <1>1, <1>2, <1>5

LEMMA CopySound ==
  ASSUME SoundInv, CopyUnits \/ OnlyFiles
  PROVE  SoundInv'
<1> USE DEF SoundInv
<1> DEFINE day == client.day
<1>1. /\ PageInv' /\ UNCHANGED <<today, now, card, mem>> /\ day \in Days /\ srv.pc # "idle"
      /\ client'.segs = client.segs /\ client'.day = day
      /\ client'.list = client.list /\ client'.from = client.from
      /\ client.phantom \subseteq client'.phantom
  <2>1. CASE CopyUnits
    BY <2>1, CopyPage
  <2>2. CASE OnlyFiles
    BY <2>2, OnlyPage
  <2>3. QED
    BY <2>1, <2>2
<1>2. Recorded(client.day)' = Recorded(day)
  BY <1>1 DEF Recorded, Overlaid
<1>3. Kept' /\ Joined' /\ ListedSound' /\ Ordered'
  <2>1. Listed' = Listed
    BY <1>1 DEF Listed
  <2>2. QED
    BY <1>1, <1>2, <2>1 DEF Kept, Joined, ListedSound, Ordered
<1>4. ASSUME NEW u \in Idx \ client'.phantom, srv'.units[u] # None
      PROVE  srv'.units[u] = Recorded(day)[u]
  <2>1. CASE CopyUnits
    <3>1. PICK units \in [FileIdx -> Kinds], F \in SUBSET Idx :
            /\ F = IF OwnIndex(units) THEN {} ELSE UnitsOf(srv.slot)
            /\ srv'.units = Overlaid(srv.units, srv.slot, units)
            /\ client'.phantom = client.phantom \cup F
      BY <2>1, CopyPage
    <3>2. CASE FileOf(u) = srv.slot
      <4>1. OwnIndex(units)
        BY <1>4, <3>1, <3>2 DEF UnitsOf
      <4>2. srv'.units[u] = units[u % UnitsPerFile]
        BY <3>1, <3>2 DEF Overlaid
      <4>3. QED
        BY <1>1, <3>2, <4>1, <4>2, RecordedAt DEF OwnIndex
    <3>3. CASE FileOf(u) # srv.slot
      <4>1. srv'.units[u] = srv.units[u]
        BY <3>1, <3>3 DEF Overlaid
      <4>2. QED
        BY <1>1, <1>4, <4>1 DEF LoadedSound
    <3>4. QED
      BY <3>2, <3>3
  <2>2. CASE OnlyFiles
    <3>1. srv'.units = srv.units
      BY <2>2, OnlyPage
    <3>2. QED
      BY <1>1, <1>4, <3>1 DEF LoadedSound
  <2>3. QED
    BY <2>1, <2>2
<1>5. LoadedSound'
  BY <1>1, <1>2, <1>4 DEF LoadedSound
<1>6. QED
  BY <1>1, <1>3, <1>5

LEMMA ScanSound ==
  ASSUME SoundInv, ScanUnit
  PROVE  SoundInv'
<1>1. PageInv'
  BY ScanPage DEF SoundInv
<1>2. /\ UNCHANGED <<today, now, card, mem, client>> /\ srv.pc = "scan"
      /\ srv'.units = srv.units /\ srv'.pc = "scan"
  BY DEF ScanUnit, SoundInv, PageInv, TypeInv, TypeOK
<1>3. QED
  BY <1>1, <1>2 DEF SoundInv, Kept, LoadedSound, Joined, ListedSound, Listed, Ordered, Recorded

(* The page that is sent: its segments lie behind those the client has,    *)
(* and show units that the server has loaded as wanted.                    *)
LEMMA PageSent ==
  ASSUME PageInv, Respond, NEW resp, resp = srv.page \o LastSeg
  PROVE  /\ resp \in Seq(Segs)
         /\ \A k \in DOMAIN resp :
              /\ client.from <= resp[k].st /\ resp[k].st < resp[k].e
              /\ \A u \in Idx : Within(u, resp[k]) => Want(u)
         /\ \A j, k \in DOMAIN resp : j < k => resp[j].e <= resp[k].st
<1> DEFINE page == srv.page
           L == Len(srv.page)
           from == client.from
           last == Seg(srv.start, UnitsPerDay)
<1>1. /\ srv.pc = "scan" /\ (srv.i >= UnitsPerDay \/ L >= PageLen)
      /\ srv.i \in 0 .. UnitsPerDay /\ from \in Nat /\ from <= srv.i
      /\ page \in Seq(Segs) /\ L \in Nat /\ DOMAIN page = 1 .. L
      /\ srv.start \in Idx \cup {NoStart} /\ PageLen \in Nat
      /\ L + (IF srv.start = NoStart THEN 0 ELSE 1) <= PageLen
  BY DEF Respond, Full, PageInv, TypeInv, TypeOK, Serving
<1>2. /\ \A u \in from .. srv.i - 1 : Want(u) <=> OnPage(u) \/ IsOpen(u)
      /\ \A k \in 1 .. L : from <= page[k].st /\ page[k].st < page[k].e /\ page[k].e < srv.i
      /\ \A j, k \in 1 .. L : j < k => page[j].e < page[k].st
      /\ srv.start # NoStart =>
           /\ from <= srv.start /\ srv.start < srv.i
           /\ \A k \in 1 .. L : page[k].e < srv.start
  BY <1>1 DEF PageInv, PageExact
<1>3. \A k \in 1 .. L : page[k].st \in Nat /\ page[k].e \in Nat
  <2>1. \A g \in Segs : g.st \in Nat /\ g.e \in Nat
    BY DEF Segs, Idx
  <2>2. \A k \in 1 .. L : page[k] \in Segs
    BY <1>1
  <2>3. QED
    BY <2>1, <2>2
<1>4. ASSUME NEW k \in 1 .. L, NEW u \in Idx, Within(u, page[k])
      PROVE  Want(u)
  <2>1. u \in from .. srv.i - 1
    <3>1. /\ from <= page[k].st /\ page[k].e < srv.i /\ page[k].st <= u /\ u < page[k].e
          /\ u \in Nat /\ page[k].st \in Nat /\ page[k].e \in Nat
      BY <1>2, <1>3, <1>4 DEF Within, Idx
    <3>2. \A a, b, st, e \in Nat : a <= st /\ e < b /\ st <= u /\ u < e => u \in a .. b - 1
      BY <3>1
    <3>3. srv.i \in Nat
      BY <1>1
    <3>4. QED
      BY <1>1, <3>1, <3>2, <3>3
  <2>2. OnPage(u)
    BY <1>1, <1>4 DEF OnPage
  <2>3. QED
    BY <1>2, <2>1, <2>2
<1>5. CASE LastSeg = <<>>
  <2>1. resp = page
    BY <1>1, <1>5
  <2>2. \A j, k \in 1 .. L : j < k => page[j].e <= page[k].st
    <3>1. ASSUME NEW j \in 1 .. L, NEW k \in 1 .. L, j < k PROVE page[j].e <= page[k].st
      <4>1. page[j].e < page[k].st /\ page[j].e \in Nat /\ page[k].st \in Nat
        BY <1>2, <1>3, <3>1
      <4>2. QED
        BY <4>1
    <3>2. QED
      BY <3>1
  <2>3. QED
    BY <1>1, <1>2, <1>4, <2>1, <2>2
<1>6. CASE LastSeg # <<>>
  <2>1. srv.start # NoStart /\ LastSeg = <<last>>
    BY <1>6 DEF LastSeg
  <2>2. srv.start \in Idx /\ srv.start \in Nat /\ srv.i = UnitsPerDay
    BY <1>1, <2>1 DEF Idx
  <2>3. last \in Segs /\ last.st = srv.start /\ last.e = UnitsPerDay
    BY <1>2, <2>1, <2>2 DEF Seg, Segs
  <2> HIDE DEF last
  <2>4. /\ resp \in Seq(Segs) /\ DOMAIN resp = 1 .. L + 1 /\ resp[L + 1] = last
        /\ \A k \in 1 .. L : resp[k] = page[k]
    BY <1>1, <2>1, <2>3
  <2>5. ASSUME NEW u \in Idx, Within(u, last)
        PROVE  Want(u)
    <3>1. u \in from .. srv.i - 1 /\ IsOpen(u)
      BY <1>1, <1>2, <2>1, <2>2, <2>3, <2>5 DEF Within, IsOpen, Idx
    <3>2. QED
      BY <1>2, <3>1
  <2>6. from <= last.st /\ last.st < last.e /\ \A j \in 1 .. L : page[j].e <= last.st
    BY <1>1, <1>2, <1>3, <2>1, <2>2, <2>3
  <2>7. ASSUME NEW k \in DOMAIN resp
        PROVE  /\ client.from <= resp[k].st /\ resp[k].st < resp[k].e
               /\ \A u \in Idx : Within(u, resp[k]) => Want(u)
    <3>1. CASE k = L + 1
      BY <2>4, <2>5, <2>6, <3>1
    <3>2. CASE k # L + 1
      <4>1. k \in 1 .. L
        <5>1. \A n \in Nat : \A j \in 1 .. n + 1 : j # n + 1 => j \in 1 .. n
          OBVIOUS
        <5>2. k \in 1 .. L + 1 /\ L \in Nat
          BY <1>1, <2>4, <2>7
        <5>3. QED
          BY <3>2, <5>1, <5>2
      <4>2. QED
        BY <1>2, <1>4, <2>4, <4>1
    <3>3. QED
      BY <3>1, <3>2
  <2>8. ASSUME NEW j \in DOMAIN resp, NEW k \in DOMAIN resp, j < k
        PROVE  resp[j].e <= resp[k].st
    <3>1. j \in 1 .. L /\ resp[j] = page[j]
      BY <1>1, <2>4, <2>8
    <3>2. CASE k = L + 1
      BY <2>4, <2>6, <3>1, <3>2
    <3>3. CASE k # L + 1
      <4>1. k \in 1 .. L /\ resp[k] = page[k]
        BY <1>1, <2>4, <3>3
      <4>2. QED
        BY <1>2, <1>3, <2>8, <3>1, <4>1
    <3>4. QED
      BY <3>2, <3>3
  <2>9. QED
    BY <2>4, <2>7, <2>8
<1>7. QED
  BY <1>5, <1>6

LEMMA RespondSound ==
  ASSUME SoundInv, Respond
  PROVE  SoundInv'
<1> USE DEF SoundInv
<1> DEFINE resp == srv.page \o LastSeg
           old == client.segs
           new == client.segs \o resp
           N == Len(client.segs)
           M == Len(resp)
<1>1. PageInv'
  BY RespondPage
<1>2. /\ UNCHANGED <<today, now, card, mem>> /\ client' = Answered(resp)
      /\ srv.pc = "scan" /\ srv'.pc = "idle" /\ client.day \in Days
  BY DEF Respond, Idle, PageInv, TypeInv, Serving, TypeOK
<1>3. /\ resp \in Seq(Segs)
      /\ \A k \in DOMAIN resp :
           /\ client.from <= resp[k].st /\ resp[k].st < resp[k].e
           /\ \A u \in Idx : Within(u, resp[k]) => Want(u)
      /\ \A j, k \in DOMAIN resp : j < k => resp[j].e <= resp[k].st
  BY PageSent
<1> HIDE DEF resp
<1>4. /\ client'.segs = new /\ client'.day = client.day /\ client'.list = client.list
      /\ client'.phantom = client.phantom
      /\ client'.from = IF resp = <<>> THEN client.from ELSE resp[M].e
  BY <1>2 DEF Answered, PageInv, TypeInv, TypeOK
<1>5. old \in Seq(Segs) /\ N \in Nat /\ M \in Nat /\ client.from \in Nat
  BY <1>3 DEF PageInv, TypeInv, TypeOK
<1>6. /\ new \in Seq(Segs) /\ Len(new) = N + M
      /\ \A k \in 1 .. N : new[k] = old[k]
      /\ \A k \in 1 .. M : new[N + k] = resp[k]
      /\ DOMAIN new = 1 .. N + M /\ DOMAIN old = 1 .. N /\ DOMAIN resp = 1 .. M
  BY <1>3, <1>5
<1> HIDE DEF new
<1>7. \A g \in Segs : g.st \in Nat /\ g.e \in Nat
  BY DEF Segs, Idx
<1>8. /\ \A k \in 1 .. M : resp[k].st \in Nat /\ resp[k].e \in Nat
      /\ \A k \in 1 .. N : old[k].st \in Nat /\ old[k].e \in Nat
  BY <1>3, <1>5, <1>6, <1>7
<1>9. \A k \in 1 .. N + M : k \in 1 .. N \/ (k - N \in 1 .. M /\ new[k] = resp[k - N])
  <2>1. ASSUME NEW k \in 1 .. N + M, k \notin 1 .. N
        PROVE  k - N \in 1 .. M /\ new[k] = resp[k - N]
    <3>1. k - N \in 1 .. M /\ N + (k - N) = k
      BY <1>5, <2>1
    <3>2. QED
      BY <1>6, <3>1
  <2>2. QED
    BY <2>1
<1>10. Kept' /\ LoadedSound'
  BY <1>2 DEF Kept, LoadedSound
<1>11. resp # <<>> => M \in 1 .. M /\ \A k \in 1 .. M : resp[k].e <= resp[M].e
  <2>1. ASSUME resp # <<>> PROVE M \in 1 .. M
    BY <1>3, <1>5, <2>1
  <2>2. ASSUME resp # <<>>, NEW k \in 1 .. M PROVE resp[k].e <= resp[M].e
    <3>1. CASE k = M
      BY <1>8, <2>1, <2>2, <3>1
    <3>2. CASE k # M
      <4>1. k < M
        BY <1>5, <2>2, <3>2
      <4>2. resp[k].e <= resp[M].st /\ resp[M].st < resp[M].e
        BY <1>3, <1>6, <2>1, <2>2, <4>1
      <4>3. QED
        BY <1>8, <2>1, <2>2, <4>2
    <3>3. QED
      BY <3>1, <3>2
  <2>3. QED
    BY <2>1, <2>2
<1>12. client'.from \in Nat /\ client.from <= client'.from
  <2>1. CASE resp = <<>>
    BY <1>4, <1>5, <2>1
  <2>2. CASE resp # <<>>
    <3>1. M \in 1 .. M
      BY <1>11, <2>2
    <3>2. client.from <= resp[M].st /\ resp[M].st < resp[M].e
      BY <1>3, <1>6, <3>1
    <3>3. QED
      BY <1>4, <1>5, <1>8, <2>2, <3>1, <3>2
  <2>3. QED
    BY <2>1, <2>2
<1>13. \A k \in 1 .. N : old[k].st < old[k].e /\ old[k].e <= client.from
  BY <1>6 DEF Joined
<1>14. Joined'
  <2>1. ASSUME NEW k \in 1 .. N + M
        PROVE  new[k].st < new[k].e /\ new[k].e <= client'.from
    <3>1. CASE k \in 1 .. N
      <4>1. new[k] = old[k] /\ old[k].e \in Nat
        BY <1>6, <1>8, <3>1
      <4>2. old[k].st < old[k].e /\ old[k].e <= client.from
        BY <1>13, <3>1
      <4>3. QED
        BY <1>5, <1>12, <4>1, <4>2
    <3>2. CASE k \notin 1 .. N
      <4>1. k - N \in 1 .. M /\ new[k] = resp[k - N]
        BY <1>9, <3>2
      <4>2. resp # <<>>
        BY <1>3, <1>5, <4>1
      <4>3. QED
        BY <1>3, <1>4, <1>6, <1>11, <4>1, <4>2
    <3>3. QED
      BY <3>1, <3>2
  <2>2. QED
    BY <1>2, <1>4, <1>6, <2>1 DEF Joined
<1>15. ListedSound'
  <2>1. ASSUME NEW u \in Idx, NEW k \in 1 .. N + M, Within(u, new[k]),
               u \notin client.phantom
        PROVE  Wanted(client.list, Recorded(client.day)[u])
    <3>1. CASE k \in 1 .. N
      <4>1. u \in Listed
        BY <1>6, <2>1, <3>1 DEF Listed
      <4>2. QED
        BY <2>1, <4>1 DEF ListedSound
    <3>2. CASE k \notin 1 .. N
      <4>1. Want(u)
        BY <1>3, <1>6, <1>9, <2>1, <3>2
      <4>2. srv.units[u] # None
        BY <4>1 DEF Want, Wanted, None, Plain, Alarmed
      <4>3. srv.units[u] = Recorded(client.day)[u]
        BY <1>2, <2>1, <4>2 DEF LoadedSound
      <4>4. QED
        BY <4>1, <4>3 DEF Want
    <3>3. QED
      BY <3>1, <3>2
  <2>2. Recorded(client.day)' = Recorded(client.day)
    BY <1>2, <1>4 DEF Recorded, Overlaid
  <2>3. QED
    BY <1>4, <1>6, <2>1, <2>2 DEF ListedSound, Listed
<1>16. Ordered'
  <2> HIDE DEF N, M
  <2>1. ASSUME NEW k \in 1 .. (N + M) - 1
        PROVE  new[k].e <= new[k + 1].st
    <3>1. CASE k + 1 \in 1 .. N
      <4>1. k \in 1 .. N - 1 /\ k \in 1 .. N
        BY <1>5, <3>1
      <4>2. \A i \in 1 .. N - 1 : old[i].e <= old[i + 1].st
        BY DEF Ordered, N
      <4>3. new[k] = old[k] /\ new[k + 1] = old[k + 1]
        BY <1>6, <3>1, <4>1
      <4>4. QED
        BY <4>1, <4>2, <4>3, Zenon
    <3>2. CASE k + 1 \notin 1 .. N
      <4>1. k \in 1 .. N + M /\ k + 1 \in 1 .. N + M
        BY <1>5
      <4>2. (k + 1) - N \in 1 .. M /\ new[k + 1] = resp[(k + 1) - N]
        BY <1>9, <3>2, <4>1
      <4>3. client.from <= resp[(k + 1) - N].st
        BY <1>3, <1>6, <4>2
      <4>4. CASE k \in 1 .. N
        <5>1. new[k] = old[k] /\ old[k].e \in Nat /\ old[k].e <= client.from
          BY <1>6, <1>8, <1>13, <4>4
        <5>2. resp[(k + 1) - N].st \in Nat
          BY <1>8, <4>2
        <5>3. \A a, b, c \in Nat : a <= b /\ b <= c => a <= c
          OBVIOUS
        <5>4. old[k].e <= resp[(k + 1) - N].st
          BY <1>5, <4>3, <5>1, <5>2, <5>3
        <5>5. QED
          BY <4>2, <5>1, <5>4
      <4>5. CASE k \notin 1 .. N
        <5>0. k - N \in 1 .. M /\ new[k] = resp[k - N]
          BY <1>9, <4>1, <4>5, Zenon
        <5>1. k - N < (k + 1) - N
          BY <1>5, <2>1
        <5>2. \A i, j \in 1 .. M : i < j => resp[i].e <= resp[j].st
          BY <1>3, <1>6
        <5>3. resp[k - N].e <= resp[(k + 1) - N].st
          BY <4>2, <5>0, <5>1, <5>2, Zenon
        <5>4. QED
          BY <4>2, <5>0, <5>3, Zenon
      <4>6. QED
        BY <4>4, <4>5
    <3>3. QED
      BY <3>1, <3>2
  <2>2. QED
    BY <1>4, <1>6, <2>1 DEF Ordered, N, M
<1>17. QED
  BY <1>1, <1>10, <1>14, <1>15, <1>16

(* What the pages show of a day is recorded there, in segments that do not *)
(* overlap, however many pages and whatever is recorded meanwhile - but for*)
(* a slot that a wrong or changing index was laid over, and a unit that was*)
(* lost.                                                                   *)
THEOREM ListingIsSound == Spec => []ListingSound
<1>1. Init => SoundInv
  <2> SUFFICES ASSUME Init PROVE SoundInv
    OBVIOUS
  <2>2. mem.day = NoDay /\ srv.pc = "idle" /\ client.segs = <<>>
    BY DEF Init, Fresh, Idle, NoList
  <2>3. QED
    BY <2>2, InitPage
       DEF SoundInv, Kept, LoadedSound, Joined, ListedSound, Listed, Ordered
<1>2. SoundInv /\ [Next]_vars => SoundInv'
  <2> SUFFICES ASSUME SoundInv, [Next]_vars PROVE SoundInv'
    OBVIOUS
  <2>1. CASE UNCHANGED vars
    <3>1. PageInv'
      BY <2>1, QuietPage DEF SoundInv, vars, PageInv, TypeInv, TypeOK, Serving, Quiet
    <3>2. QED
      BY <2>1, <3>1
         DEF SoundInv, vars, Kept, LoadedSound, Joined, ListedSound, Listed, Ordered, Recorded
  <2>2. CASE Next
    BY <2>2, RecorderSound, AskSound, LoadSound, CopySound, ScanSound, RespondSound
       DEF Next, Server
  <2>3. QED
    BY <2>1, <2>2
<1>3. SoundInv => ListingSound
  BY DEF SoundInv, ListingSound, ListedSound, Ordered
<1>4. QED
  BY <1>1, <1>2, <1>3, PTL DEF Spec

-----------------------------------------------------------------------------
(* A listing shows all that was recorded when it was asked for.            *)

(* What is due is excused of nothing, and still recorded as it was.        *)
DueRecorded ==
  \A u \in client.due :
    u \notin client.phantom /\ client.day \in Days /\ Wanted(client.list, Recorded(client.day)[u])

(* The server finds what is due: in the files it has read, but for what    *)
(* they did not hold; and all of it once the index in memory is laid over  *)
(* them.                                                                   *)
LoadedDue ==
  /\ srv.pc = "load" => \A u \in client.due \ srv.unsaved : FileOf(u) < srv.slot => Want(u)
  /\ srv.pc \in {"dated", "timed"} => \A u \in client.due \ srv.unsaved : Want(u)
  /\ srv.pc = "scan" => \A u \in client.due : Want(u)

(* The pages so far have shown what is due before the next one.            *)
ListedDue == \A u \in client.due : u < client.from => u \in Listed

DueInv == DueRecorded /\ LoadedDue /\ ListedDue
CompleteInv == SoundInv /\ DueInv /\ ListingComplete

(* A unit that is wanted is on the page, unless the page ends before it or *)
(* it is of alarms that last until the end of the day.                     *)
LEMMA PageComplete ==
  ASSUME PageInv, Respond, NEW resp, resp = srv.page \o LastSeg,
         NEW u \in Idx, client.from <= u, Want(u),
         Len(resp) < PageLen \/ (resp # <<>> /\ u < resp[Len(resp)].e)
  PROVE  \/ \E k \in DOMAIN resp : Within(u, resp[k])
         \/ client.list = "alarm" /\ srv.i = UnitsPerDay /\ IsOpen(u) /\ client.from <= srv.start
<1> DEFINE page == srv.page
           L == Len(srv.page)
           from == client.from
           last == Seg(srv.start, UnitsPerDay)
<1>1. /\ srv.pc = "scan" /\ (srv.i >= UnitsPerDay \/ L >= PageLen)
      /\ srv.i \in 0 .. UnitsPerDay /\ from \in Nat /\ from <= srv.i
      /\ page \in Seq(Segs) /\ L \in Nat /\ DOMAIN page = 1 .. L
      /\ srv.start \in Idx \cup {NoStart} /\ PageLen \in Nat
      /\ L + (IF srv.start = NoStart THEN 0 ELSE 1) <= PageLen
      /\ client.list \in {"record", "alarm"} /\ u \in Nat /\ u < UnitsPerDay
  BY DEF Respond, Full, PageInv, TypeInv, TypeOK, Serving, Lists, Idx
<1>2. /\ \A v \in from .. srv.i - 1 : Want(v) <=> OnPage(v) \/ IsOpen(v)
      /\ \A k \in 1 .. L : page[k].e < srv.i
      /\ srv.start # NoStart =>
           from <= srv.start /\ \A k \in 1 .. L : page[k].e < srv.start
  BY <1>1 DEF PageInv, PageExact
<1>3. \A k \in 1 .. L : page[k].st \in Nat /\ page[k].e \in Nat
  <2>1. \A g \in Segs : g.st \in Nat /\ g.e \in Nat
    BY DEF Segs, Idx
  <2>2. \A k \in 1 .. L : page[k] \in Segs
    BY <1>1
  <2>3. QED
    BY <2>1, <2>2
<1>4. OnPage(u) => \E k \in 1 .. L : Within(u, page[k])
  BY <1>1 DEF OnPage
<1>5. CASE LastSeg = <<>>
  <2>1. resp = page /\ Len(resp) = L
    BY <1>1, <1>5
  <2>2. CASE L < PageLen
    <3>1. srv.i = UnitsPerDay /\ u \in from .. srv.i - 1
      BY <1>1, <2>2
    <3>2. OnPage(u) \/ IsOpen(u)
      BY <1>2, <3>1
    <3>3. ASSUME IsOpen(u) PROVE client.list = "alarm" /\ from <= srv.start
      <4>1. srv.start # NoStart
        BY <3>3 DEF IsOpen
      <4>2. client.list # "record"
        BY <1>5, <4>1 DEF LastSeg
      <4>3. QED
        BY <1>1, <1>2, <4>1, <4>2
    <3>4. QED
      BY <1>1, <1>4, <2>1, <3>1, <3>2, <3>3
  <2>3. CASE page # <<>> /\ u < page[L].e
    <3>1. L \in 1 .. L
      BY <1>1, <2>3
    <3>2. page[L].e \in Nat /\ page[L].e < srv.i
      BY <1>2, <1>3, <3>1
    <3>3. u \in from .. srv.i - 1
      BY <1>1, <2>3, <3>2
    <3>4. ~IsOpen(u)
      <4>1. ASSUME IsOpen(u) PROVE FALSE
        <5>1. srv.start # NoStart /\ srv.start <= u /\ page[L].e < srv.start
          BY <1>2, <3>1, <4>1 DEF IsOpen
        <5>2. srv.start \in Nat
          BY <1>1, <5>1 DEF Idx
        <5>3. QED
          BY <1>1, <2>3, <3>2, <5>1, <5>2
      <4>2. QED
        BY <4>1
    <3>5. QED
      BY <1>1, <1>2, <1>4, <2>1, <3>3, <3>4
  <2>4. QED
    BY <2>1, <2>2, <2>3
<1>6. CASE LastSeg # <<>>
  <2>1. srv.start # NoStart /\ LastSeg = <<last>>
    BY <1>6 DEF LastSeg
  <2>2. srv.start \in Idx /\ srv.start \in Nat /\ srv.i = UnitsPerDay
    BY <1>1, <2>1 DEF Idx
  <2>3. last.st = srv.start /\ last.e = UnitsPerDay
    BY DEF Seg
  <2> HIDE DEF last
  <2>4. /\ DOMAIN resp = 1 .. L + 1 /\ resp[L + 1] = last
        /\ \A k \in 1 .. L : resp[k] = page[k]
    BY <1>1, <2>1
  <2>5. u \in from .. srv.i - 1
    BY <1>1, <2>2
  <2>6. CASE OnPage(u)
    <3>1. PICK k \in 1 .. L : Within(u, page[k])
      BY <1>4, <2>6
    <3>2. k \in DOMAIN resp /\ resp[k] = page[k]
      BY <1>1, <2>4
    <3>3. QED
      BY <3>1, <3>2
  <2>7. CASE IsOpen(u)
    <3>1. Within(u, last)
      BY <1>1, <2>3, <2>7 DEF IsOpen, Within
    <3>2. L + 1 \in DOMAIN resp
      BY <1>1, <2>4
    <3>3. QED
      BY <2>4, <3>1, <3>2
  <2>8. QED
    BY <1>2, <2>5, <2>6, <2>7
<1>7. QED
  BY <1>5, <1>6

LEMMA WantedIsRecorded ==
  ASSUME NEW list, NEW k, Wanted(list, k)
  PROVE  k # None
BY DEF Wanted, None, Plain, Alarmed

(* Time and the recorder: what is recorded stays, so what is due stays due *)
(* and what has been listed stays listed.                                  *)
LEMMA RecorderComplete ==
  ASSUME CompleteInv, Tick \/ Recorder
  PROVE  CompleteInv'
<1> USE DEF CompleteInv, DueInv
<1>1. SoundInv'
  BY RecorderSound
<1>2. /\ srv' = srv /\ client'.list = client.list /\ client'.day = client.day
      /\ client'.from = client.from /\ client'.segs = client.segs /\ client'.pc = client.pc
      /\ client'.due \subseteq client.due /\ client.phantom \subseteq client'.phantom
      /\ \A u \in client'.due : u \in client'.phantom => u \in client.phantom
  BY RecorderClient DEF SoundInv
<1>3. client.due \subseteq Idx
  BY DEF SoundInv, PageInv, TypeInv, TypeOK
<1> DEFINE day == client.day
<1>4. day \in Days => \A u \in Idx \ client'.phantom :
        Recorded(day)[u] # None => Recorded(client.day)'[u] = Recorded(day)[u]
  <2>1. ASSUME NEW d \in Days, d = day, NEW u \in Idx \ client'.phantom, Recorded(d)[u] # None
        PROVE  Recorded(client.day)'[u] = Recorded(d)[u]
    <3>1. Recorded(d)'[u] = Recorded(d)[u]
      BY <1>1, <2>1, RecordedGrows DEF SoundInv
    <3>2. Recorded(client.day)' = Recorded(d)'
      BY <1>2, <2>1 DEF Recorded, Overlaid
    <3>3. QED
      BY <3>1, <3>2
  <2>2. QED
    BY <2>1
<1>5. DueRecorded'
  <2>1. ASSUME NEW u \in client'.due
        PROVE  /\ u \notin client'.phantom /\ day \in Days
               /\ Wanted(client.list, Recorded(client.day)'[u])
    <3>1. /\ u \notin client.phantom /\ day \in Days /\ u \in Idx
          /\ Wanted(client.list, Recorded(day)[u])
      BY <1>2, <1>3, <2>1 DEF DueRecorded
    <3>2. Recorded(day)[u] # None /\ u \notin client'.phantom
      BY <1>2, <2>1, <3>1, WantedIsRecorded
    <3>3. QED
      BY <1>4, <3>1, <3>2
  <2>2. QED
    BY <1>2, <2>1 DEF DueRecorded
<1>6. LoadedDue' /\ ListedDue'
  BY <1>2 DEF LoadedDue, ListedDue, Want, Wanted, Listed
<1>7. ListingComplete'
  <2>1. ASSUME NEW u \in client.due, UpToEnd(u)
        PROVE  UpToEnd(u)'
    <3>1. day \in Days /\ u \in Idx
      BY <1>3, <2>1 DEF DueRecorded
    <3>2. ASSUME NEW v \in u .. UnitsPerDay - 1, v \notin client'.phantom
          PROVE  Wanted("alarm", Recorded(client.day)'[v])
      <4>1. v \in Idx /\ Wanted("alarm", Recorded(day)[v])
        BY <1>2, <2>1, <3>1, <3>2 DEF Idx, UpToEnd
      <4>2. Recorded(day)[v] # None
        BY <4>1, WantedIsRecorded
      <4>3. QED
        BY <1>4, <3>1, <3>2, <4>1, <4>2
    <3>3. QED
      BY <1>2, <3>2 DEF UpToEnd
  <2>2. Listed' = Listed
    BY <1>2 DEF Listed
  <2>3. QED
    BY <1>2, <2>1, <2>2 DEF ListingComplete
<1>8. QED
  BY <1>1, <1>5, <1>6, <1>7

LEMMA AskComplete ==
  ASSUME CompleteInv, Ask \/ LoadFiles \/ LoadFails
  PROVE  CompleteInv'
<1> USE DEF CompleteInv, DueInv
<1>1. SoundInv'
  BY AskSound
<1>2. UNCHANGED <<today, now, card, mem>>
  BY DEF Ask, LoadFiles, LoadFails
<1>3. client \in ClientType /\ Serving
  BY TypesAre DEF SoundInv, PageInv, TypeInv
<1>4. CASE Ask
  <2>1. PICK l \in Lists, d \in Days :
          client' = [NoList EXCEPT !.pc = "asked", !.list = l, !.day = d,
                       !.due = {u \in Idx : Wanted(l, Recorded(d)[u])}]
    BY <1>4 DEF Ask
  <2>2. /\ client'.pc = "asked" /\ client'.list = l /\ client'.day = d /\ client'.from = 0
        /\ client'.due = {u \in Idx : Wanted(l, Recorded(d)[u])}
        /\ client'.phantom = {}
    BY <2>1 DEF NoList
  <2>3. Recorded(client.day)' = Recorded(d)
    BY <1>2, <2>2 DEF Recorded, Overlaid
  <2>4. DueRecorded'
    BY <2>2, <2>3 DEF DueRecorded
  <2>5. srv' = srv /\ srv.pc = "idle"
    BY <1>3, <1>4 DEF Ask, Serving
  <2>6. \A u \in Idx : ~(u < 0)
    BY DEF Idx
  <2>7. ListedDue' /\ LoadedDue' /\ ListingComplete'
    BY <2>2, <2>5, <2>6 DEF ListedDue, LoadedDue, ListingComplete
  <2>8. QED
    BY <1>1, <2>4, <2>7
<1>5. CASE LoadFails
  <2>1. client'.due = {} /\ client'.pc = "idle" /\ srv' = srv /\ srv.pc = "idle"
    BY <1>5 DEF LoadFails, NoList
  <2>2. DueRecorded' /\ LoadedDue' /\ ListedDue' /\ ListingComplete'
    BY <2>1 DEF DueRecorded, LoadedDue, ListedDue, ListingComplete
  <2>3. QED
    BY <1>1, <2>2
<1>6. CASE LoadFiles
  <2>1. client' = [client EXCEPT !.pc = "waits"] /\ srv'.pc = "load" /\ srv'.slot = 0
    BY <1>6 DEF LoadFiles, Idle
  <2>2. /\ client'.segs = client.segs /\ client'.day = client.day /\ client'.list = client.list
        /\ client'.from = client.from /\ client'.due = client.due /\ client'.pc = "waits"
        /\ client'.phantom = client.phantom
    BY <1>3, <2>1 DEF ClientType
  <2>3. Recorded(client.day)' = Recorded(client.day)
    BY <1>2, <2>2 DEF Recorded, Overlaid
  <2>4. DueRecorded' /\ ListedDue' /\ ListingComplete'
    BY <2>2, <2>3 DEF DueRecorded, ListedDue, Listed, ListingComplete
  <2>5. \A u \in client.due : ~(FileOf(u) < 0)
    <3>1. \A u \in Idx : FileOf(u) \in Nat
      BY SlotOfUnit
    <3>2. QED
      BY <1>3, <3>1 DEF ClientType
  <2>6. LoadedDue'
    BY <2>1, <2>2, <2>5 DEF LoadedDue
  <2>7. QED
    BY <1>1, <2>4, <2>6
<1>7. QED
  BY <1>4, <1>5, <1>6

LEMMA LoadComplete ==
  ASSUME CompleteInv, LoadFile \/ TestDate \/ ReadTime
  PROVE  CompleteInv'
<1> USE DEF CompleteInv, DueInv
<1> DEFINE day == client.day
<1>1. SoundInv'
  BY LoadSound
<1>2. /\ UNCHANGED <<today, now, card, mem, client>> /\ client.pc = "waits" /\ day \in Days
  BY LoadPage DEF SoundInv
<1>3. DueRecorded' /\ ListedDue' /\ ListingComplete'
  BY <1>2 DEF DueRecorded, ListedDue, Listed, ListingComplete, Recorded
<1>4. client.due \subseteq Idx /\ srv \in SrvType
  BY TypesAre DEF SoundInv, PageInv, TypeInv, ClientType
<1>5. CASE LoadFile
  <2>1. /\ srv.pc = "load" /\ srv'.pc = "load" /\ srv.slot \in Nat /\ srv'.slot = srv.slot + 1
        /\ srv'.unsaved = srv.unsaved \cup (NotSaved(day) \cap UnitsOf(srv.slot))
        /\ \A u \in Idx : srv'.units[u] = IF FileOf(u) = srv.slot THEN card[day][u] ELSE srv.units[u]
    BY <1>4, <1>5 DEF LoadFile, SrvType
  <2>2. ASSUME NEW u \in client.due \ srv'.unsaved, FileOf(u) < srv'.slot
        PROVE  Wanted(client.list, srv'.units[u])
    <3>1. u \in Idx /\ FileOf(u) \in Nat
      BY <1>4, <2>2, SlotOfUnit
    <3>2. CASE FileOf(u) = srv.slot
      <4>1. u \notin NotSaved(day)
        BY <2>1, <2>2, <3>1, <3>2 DEF UnitsOf
      <4>2. Recorded(day)[u] = card[day][u]
        BY <3>1, <4>1 DEF NotSaved
      <4>3. Wanted(client.list, Recorded(day)[u])
        BY <2>2 DEF DueRecorded
      <4>4. QED
        BY <2>1, <3>1, <3>2, <4>2, <4>3
    <3>3. CASE FileOf(u) # srv.slot
      <4>1. FileOf(u) < srv.slot
        BY <2>1, <2>2, <3>1, <3>3
      <4>2. Want(u)
        BY <2>1, <2>2, <4>1 DEF LoadedDue
      <4>3. QED
        BY <2>1, <3>1, <3>3, <4>2 DEF Want
    <3>4. QED
      BY <3>2, <3>3
  <2>3. LoadedDue'
    BY <1>2, <2>1, <2>2 DEF LoadedDue, Want
  <2>4. QED
    BY <1>1, <1>3, <2>3
<1>6. CASE TestDate
  <2>1. /\ srv.pc = "load" /\ srv'.pc = "dated" /\ srv.slot = NumFiles
        /\ srv'.unsaved = srv.unsaved /\ srv'.units = srv.units
    BY <1>4, <1>6 DEF TestDate, SrvType
  <2>2. \A u \in client.due : FileOf(u) < srv.slot
    BY <1>4, <2>1, SlotIsRead
  <2>3. LoadedDue'
    BY <1>2, <2>1, <2>2 DEF LoadedDue, Want
  <2>4. QED
    BY <1>1, <1>3, <2>3
<1>7. CASE ReadTime
  <2>1. /\ srv.pc = "dated" /\ srv'.pc = "timed"
        /\ srv'.unsaved = srv.unsaved /\ srv'.units = srv.units
    BY <1>4, <1>7 DEF ReadTime, SrvType
  <2>2. LoadedDue'
    BY <1>2, <2>1 DEF LoadedDue, Want
  <2>3. QED
    BY <1>1, <1>3, <2>2
<1>8. QED
  BY <1>5, <1>6, <1>7

LEMMA CopyComplete ==
  ASSUME CompleteInv, CopyUnits
  PROVE  CompleteInv'
<1> USE DEF CompleteInv, DueInv
<1> DEFINE day == client.day
<1>1. SoundInv' /\ PageInv
  BY CopySound DEF SoundInv
<1>2. /\ UNCHANGED <<today, now, card, mem>>
      /\ srv.pc = "timed" /\ srv'.pc = "scan" /\ client.pc = "waits" /\ day \in Days
      /\ client'.segs = client.segs /\ client'.day = day
      /\ client'.list = client.list /\ client'.from = client.from /\ client'.pc = client.pc
  BY <1>1, CopyPage
<1>3. PICK units \in [FileIdx -> Kinds], F \in SUBSET Idx :
        /\ F = IF OwnIndex(units) THEN {} ELSE UnitsOf(srv.slot)
        /\ srv'.units = Overlaid(srv.units, srv.slot, units)
        /\ client'.due = client.due \ ((srv.unsaved \ UnitsOf(srv.slot)) \cup F)
        /\ client'.phantom = client.phantom \cup F
  BY <1>1, CopyPage
<1>4. client.due \subseteq Idx
  BY <1>1, TypesAre DEF PageInv, TypeInv, ClientType
<1>5. Recorded(client.day)' = Recorded(day)
  BY <1>2 DEF Recorded, Overlaid
<1>6. DueRecorded' /\ ListedDue' /\ ListingComplete'
  <2>1. Listed' = Listed
    BY <1>2 DEF Listed
  <2>2. QED
    BY <1>2, <1>3, <1>5, <2>1 DEF DueRecorded, ListedDue, ListingComplete
<1>7. ASSUME NEW u \in client'.due
      PROVE  Wanted(client.list, srv'.units[u])
  <2>1. u \in client.due /\ u \notin F /\ u \in Idx /\ (u \in srv.unsaved => u \in UnitsOf(srv.slot))
    BY <1>3, <1>4, <1>7
  <2>2. CASE FileOf(u) = srv.slot
    <3>1. OwnIndex(units)
      BY <1>3, <2>1, <2>2 DEF UnitsOf
    <3>2. srv'.units[u] = units[u % UnitsPerFile]
      BY <1>3, <2>1, <2>2 DEF Overlaid
    <3>3. Recorded(day)[u] = units[u % UnitsPerFile]
      BY <1>1, <1>2, <2>1, <2>2, <3>1, RecordedAt DEF OwnIndex
    <3>4. QED
      BY <2>1, <3>2, <3>3 DEF DueRecorded
  <2>3. CASE FileOf(u) # srv.slot
    <3>1. u \notin srv.unsaved
      BY <2>1, <2>3 DEF UnitsOf
    <3>2. Want(u)
      BY <1>2, <2>1, <3>1 DEF LoadedDue
    <3>3. srv'.units[u] = srv.units[u]
      BY <1>3, <2>1, <2>3 DEF Overlaid
    <3>4. QED
      BY <3>2, <3>3 DEF Want
  <2>4. QED
    BY <2>2, <2>3
<1>8. LoadedDue'
  BY <1>2, <1>7 DEF LoadedDue, Want
<1>9. QED
  BY <1>1, <1>6, <1>8

LEMMA OnlyComplete ==
  ASSUME CompleteInv, OnlyFiles
  PROVE  CompleteInv'
<1> USE DEF CompleteInv, DueInv
<1>1. SoundInv' /\ PageInv
  BY CopySound DEF SoundInv
<1>2. /\ UNCHANGED <<today, now, card, mem>>
      /\ srv.pc = "load" /\ srv.slot = NumFiles /\ srv'.pc = "scan"
      /\ client.pc = "waits" /\ client'.segs = client.segs /\ client'.day = client.day
      /\ client'.list = client.list /\ client'.from = client.from
      /\ client'.pc = client.pc /\ client'.phantom = client.phantom
      /\ srv'.units = srv.units /\ client'.due = client.due \ srv.unsaved
  BY <1>1, OnlyPage
<1>3. client.due \subseteq Idx
  BY <1>1, TypesAre DEF PageInv, TypeInv, ClientType
<1>4. DueRecorded' /\ ListedDue' /\ ListingComplete'
  <2>1. Recorded(client.day)' = Recorded(client.day)
    BY <1>2 DEF Recorded, Overlaid
  <2>2. Listed' = Listed
    BY <1>2 DEF Listed
  <2>3. QED
    BY <1>2, <2>1, <2>2 DEF DueRecorded, ListedDue, ListingComplete
<1>5. \A u \in client.due : FileOf(u) < srv.slot
  BY <1>2, <1>3, SlotIsRead
<1>6. LoadedDue'
  BY <1>2, <1>5 DEF LoadedDue, Want
<1>7. QED
  BY <1>1, <1>4, <1>6

LEMMA ScanComplete ==
  ASSUME CompleteInv, ScanUnit
  PROVE  CompleteInv'
<1>1. SoundInv'
  BY ScanSound DEF CompleteInv
<1>2. /\ UNCHANGED <<today, now, card, mem, client>> /\ srv.pc = "scan"
      /\ srv'.units = srv.units /\ srv'.pc = "scan"
  BY DEF ScanUnit, CompleteInv, SoundInv, PageInv, TypeInv, TypeOK
<1>3. ListingComplete'
  BY <1>2 DEF CompleteInv, ListingComplete, Listed, UpToEnd, Recorded
<1>4. DueInv'
  BY <1>2 DEF CompleteInv, DueInv, DueRecorded, LoadedDue, ListedDue, Listed, Want, Recorded
<1>5. QED
  BY <1>1, <1>3, <1>4 DEF CompleteInv

LEMMA RespondComplete ==
  ASSUME CompleteInv, Respond
  PROVE  CompleteInv'
<1> USE DEF CompleteInv, DueInv
<1> DEFINE resp == srv.page \o LastSeg
           old == client.segs
           new == client.segs \o resp
           N == Len(client.segs)
           M == Len(resp)
           day == client.day
<1>1. SoundInv' /\ PageInv
  BY RespondSound DEF SoundInv
<1>2. /\ UNCHANGED <<today, now, card, mem>> /\ client' = Answered(resp)
      /\ srv.pc = "scan" /\ srv'.pc = "idle" /\ day \in Days
  BY <1>1 DEF Respond, Idle, PageInv, TypeInv, Serving, TypeOK
<1>3. resp \in Seq(Segs)
  BY <1>1, PageSent
<1>4. \A u \in Idx :
        /\ client.from <= u /\ Want(u)
        /\ M < PageLen \/ (resp # <<>> /\ u < resp[M].e)
        => \/ \E k \in DOMAIN resp : Within(u, resp[k])
           \/ client.list = "alarm" /\ srv.i = UnitsPerDay /\ IsOpen(u)
              /\ client.from <= srv.start
  BY <1>1, PageComplete
<1> HIDE DEF resp
<1>5. /\ client \in ClientType
      /\ client.due \subseteq Idx /\ client.from \in Nat
  BY <1>1, TypesAre DEF PageInv, TypeInv, ClientType
<1>6. /\ client'.segs = new /\ client'.day = day /\ client'.list = client.list
      /\ client'.due = client.due /\ client'.phantom = client.phantom
      /\ client'.from = IF resp = <<>> THEN client.from ELSE resp[M].e
      /\ client'.pc = IF M < PageLen THEN "done" ELSE "asked"
  BY <1>2, <1>5 DEF Answered, ClientType
<1>7. /\ DOMAIN new = 1 .. N + M /\ DOMAIN old = 1 .. N /\ DOMAIN resp = 1 .. M
      /\ N \in Nat /\ M \in Nat
      /\ \A k \in 1 .. N : new[k] = old[k]
      /\ \A k \in 1 .. M : new[N + k] = resp[k]
  BY <1>3, <1>5 DEF ClientType
<1> HIDE DEF new, M, N
<1>8. Recorded(client.day)' = Recorded(day)
  BY <1>2, <1>6 DEF Recorded, Overlaid
<1>9. DueRecorded' /\ LoadedDue'
  BY <1>2, <1>6, <1>8 DEF DueRecorded, LoadedDue
<1>10. ASSUME NEW u \in Listed PROVE u \in Listed'
  <2>1. PICK k \in 1 .. N : Within(u, old[k])
    BY <1>7, <1>10 DEF Listed
  <2>2. k \in DOMAIN new /\ new[k] = old[k]
    BY <1>7, <2>1
  <2>3. QED
    BY <1>6, <1>10, <2>1, <2>2 DEF Listed
<1>11. ASSUME NEW u \in Idx, NEW k \in DOMAIN resp, Within(u, resp[k])
       PROVE  u \in Listed'
  <2>1. N + k \in DOMAIN new /\ new[N + k] = resp[k]
    BY <1>7
  <2>2. QED
    BY <1>6, <1>11, <2>1 DEF Listed
<1>12. ListedDue'
  <2>1. ASSUME NEW u \in client.due, u < client'.from
        PROVE  u \in Listed'
    <3>1. u \in Idx /\ u \in Nat /\ Want(u)
      BY <1>2, <1>5 DEF LoadedDue, Idx
    <3>2. CASE u < client.from
      BY <1>10, <3>2 DEF ListedDue
    <3>3. CASE ~(u < client.from)
      <4>1. client.from <= u /\ resp # <<>> /\ u < resp[M].e
        BY <1>5, <1>6, <2>1, <3>1, <3>3
      <4>2. ~(srv.i = UnitsPerDay /\ IsOpen(u) /\ client.list = "alarm")
        <5>1. ASSUME srv.i = UnitsPerDay, IsOpen(u), client.list = "alarm" PROVE FALSE
          <6>1. srv.start # NoStart /\ LastSeg = <<>> /\ srv.page \in Seq(Segs)
            BY <1>1, <5>1 DEF IsOpen, LastSeg, PageInv, TypeInv, TypeOK
          <6>2. resp = srv.page
            BY <6>1 DEF resp
          <6>3. M \in DOMAIN srv.page /\ resp[M] \in Segs
            BY <1>3, <1>7, <4>1, <6>2 DEF M
          <6>4. resp[M].e \in Nat /\ srv.start \in Nat
            <7>1. \A g \in Segs : g.e \in Nat
              BY DEF Segs
            <7>2. srv.start \in Idx
              BY <1>1, <6>1 DEF PageInv, TypeInv, TypeOK
            <7>3. QED
              BY <6>3, <7>1, <7>2 DEF Idx
          <6>5. resp[M].e < srv.start /\ srv.start <= u
            BY <1>1, <1>2, <5>1, <6>1, <6>2, <6>3 DEF PageInv, PageExact, IsOpen
          <6>6. QED
            BY <3>1, <4>1, <6>4, <6>5
        <5>2. QED
          BY <5>1
      <4>3. \E k \in DOMAIN resp : Within(u, resp[k])
        BY <1>4, <3>1, <4>1, <4>2
      <4>4. QED
        BY <1>11, <3>1, <4>3
    <3>4. QED
      BY <3>2, <3>3
  <2>2. QED
    BY <1>6, <2>1 DEF ListedDue
<1>13. ListingComplete'
  <2>1. ASSUME M < PageLen, NEW u \in client.due
        PROVE  u \in Listed' \/ (client.list = "alarm" /\ UpToEnd(u))
    <3>1. u \in Idx /\ u \in Nat /\ Want(u)
      BY <1>2, <1>5, <2>1 DEF LoadedDue, Idx
    <3>2. CASE u < client.from
      BY <1>10, <2>1, <3>2 DEF ListedDue
    <3>3. CASE ~(u < client.from)
      <4>1. client.from <= u
        BY <1>5, <3>1, <3>3
      <4>2. CASE \E k \in DOMAIN resp : Within(u, resp[k])
        BY <1>11, <3>1, <4>2
      <4>3. CASE /\ client.list = "alarm" /\ srv.i = UnitsPerDay /\ IsOpen(u)
                 /\ client.from <= srv.start
        <5>1. ASSUME NEW v \in u .. UnitsPerDay - 1, v \notin client.phantom
              PROVE  Wanted("alarm", Recorded(day)[v])
          <6>1. v \in Idx /\ v \in client.from .. srv.i - 1
            BY <1>5, <3>1, <4>1, <4>3, <5>1 DEF Idx
          <6>2. IsOpen(v)
            <7>1. srv.start # NoStart /\ srv.start <= u
              BY <4>3 DEF IsOpen
            <7>2. srv.start \in Nat
              BY <1>1, <7>1 DEF PageInv, TypeInv, TypeOK, Idx
            <7>3. srv.start <= v
              BY <3>1, <5>1, <7>1, <7>2
            <7>4. QED
              BY <7>1, <7>3 DEF IsOpen
          <6>3. Want(v)
            BY <1>1, <1>2, <6>1, <6>2 DEF PageInv, PageExact
          <6>4. srv.units[v] # None
            BY <6>3, WantedIsRecorded DEF Want
          <6>5. srv.units[v] = Recorded(day)[v]
            BY <1>1, <1>2, <5>1, <6>1, <6>4 DEF SoundInv, LoadedSound
          <6>6. QED
            BY <4>3, <6>3, <6>5 DEF Want
        <5>2. QED
          BY <4>3, <5>1 DEF UpToEnd
      <4>4. QED
        BY <1>4, <2>1, <3>1, <4>1, <4>2, <4>3
    <3>4. QED
      BY <3>2, <3>3
  <2>2. ASSUME NEW u, UpToEnd(u) PROVE UpToEnd(u)'
    BY <1>6, <1>8, <2>2 DEF UpToEnd
  <2>3. QED
    BY <1>6, <2>1, <2>2 DEF ListingComplete
<1>14. QED
  BY <1>1, <1>9, <1>12, <1>13

LEMMA InitComplete == Init => CompleteInv
<1> SUFFICES ASSUME Init PROVE CompleteInv
  OBVIOUS
<1>1. PageInv
  BY InitPage
<1>2. /\ mem.day = NoDay /\ srv.pc = "idle" /\ client.segs = <<>> /\ client.due = {}
  BY DEF Init, Fresh, Idle, NoList
<1>3. SoundInv
  BY <1>1, <1>2
     DEF SoundInv, Kept, LoadedSound, Joined, ListedSound, Listed, Ordered
<1>4. DueInv
  BY <1>2 DEF DueInv, DueRecorded, LoadedDue, ListedDue
<1>5. QED
  BY <1>2, <1>3, <1>4 DEF CompleteInv, ListingComplete

(* When the last page has come, all that was recorded when the client      *)
(* asked has been shown, whatever the length of a page and of a day and    *)
(* whatever was recorded, saved or begun meanwhile - but for what the files*)
(* did not hold when they were read and memory did not supply, a slot that *)
(* a wrong or changing index was laid over, a unit that was lost, and a run*)
(* of alarms up to the end of the day.                                     *)
THEOREM ListingIsComplete == Spec => []ListingComplete
<1>1. Init => CompleteInv
  BY InitComplete
<1>2. CompleteInv /\ [Next]_vars => CompleteInv'
  <2> SUFFICES ASSUME CompleteInv, [Next]_vars PROVE CompleteInv'
    OBVIOUS
  <2>1. CASE UNCHANGED vars
    <3>1. SoundInv'
      <4>1. PageInv'
        BY <2>1, QuietPage
           DEF CompleteInv, SoundInv, vars, PageInv, TypeInv, TypeOK, Serving, Quiet
      <4>2. QED
        BY <2>1, <4>1
           DEF CompleteInv, SoundInv, vars, Kept, LoadedSound, Joined, ListedSound, Listed,
               Ordered, Recorded
    <3>2. DueInv' /\ ListingComplete'
      BY <2>1 DEF CompleteInv, DueInv, vars, DueRecorded, LoadedDue, ListedDue,
                  Listed, Want, Recorded, ListingComplete, UpToEnd
    <3>3. QED
      BY <3>1, <3>2 DEF CompleteInv
  <2>2. CASE Next
    BY <2>2, RecorderComplete, AskComplete, LoadComplete, CopyComplete, OnlyComplete,
       ScanComplete, RespondComplete
       DEF Next, Server
  <2>3. QED
    BY <2>1, <2>2
<1>3. CompleteInv => ListingComplete
  BY DEF CompleteInv
<1>4. QED
  BY <1>1, <1>2, <1>3, PTL DEF Spec
=============================================================================
