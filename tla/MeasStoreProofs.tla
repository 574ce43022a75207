-------------------------- MODULE MeasStoreProofs --------------------------
(***************************************************************************)
(* Theorems about MeasStore for every number of allocations, entries and   *)
(* parts: its types; what a restart keeps; for power that stays on once    *)
(* the entries have been round, that a write leaves the allocations only   *)
(* as the first since a chip erase, that a restart finds the latest file   *)
(* and that there is space ahead of it; what it holds, in the second part; *)
(* and in the third, that it is a queue for a host that repeats its part.  *)
(***************************************************************************)
EXTENDS MeasStoreProps, FiniteSetTheorems, WellFoundedInduction, TLAPS

Busy == {"ring", "entry", "retire", "header", "unread", "next", "data", "last"}

(***************************************************************************)
(* Types.  A part stays inside the measurement because what the call asks  *)
(* for is what the host has left to send.                                  *)
(***************************************************************************)
RequestOK ==
    /\ wr = NoFile \/ wr.file \in Files
    /\ pc \in Busy => wr.file \in Files /\ req.rem = MeasLen - wr.sent /\ req.n <= req.rem

TypeInv == MeasTypeOK /\ RequestOK /\ Len(rd) < MeasLen

LEMMA Sizes ==
  /\ NSlots \in Nat /\ NSlots >= 2 /\ NMeta \in Nat /\ NMeta >= 3
  /\ MeasLen \in Nat /\ MeasLen >= 1 /\ WritePart \in Nat /\ WritePart >= 1
  /\ ReadPart \in Nat /\ ReadPart >= 1
  BY MeasAssumption

LEMMA Modulo ==
  /\ \A n \in Nat \ {0}, k \in Int : k % n \in 0 .. n - 1
  /\ \A n \in Nat \ {0} : \A k \in 0 .. n - 1 : k % n = k
  OBVIOUS

LEMMA NoFileNone == NoFile.file = <<>> /\ NoFile.sent = 0 /\ <<>> \notin Files
  <1>1. ASSUME <<>> \in Files PROVE FALSE
    <2>1. <<>> \in [1 .. MeasLen -> Vals] BY <1>1, MeasAssumption
    <2>2. DOMAIN <<>> = 1 .. MeasLen BY <2>1
    <2>3. 1 \in 1 .. MeasLen BY Sizes
    <2> QED BY <2>2, <2>3
  <1> QED BY <1>1 DEF NoFile

LEMMA FreeIsSlot == FreeSlot \in Slot /\ ErasedSlots \in [SlotNos -> Slot]
  BY DEF FreeSlot, Slot, ErasedSlots

LEMMA ErasedIsEntries == ErasedMeta \in [1 .. NMeta -> Entry]
  BY DEF ErasedMeta, Entry

LEMMA FoundRange == ASSUME MeasTypeOK PROVE Found \in 0 .. NMeta /\ \A st : WalkFinds(st) \in 0 .. NMeta
  <1>1. ASSUME NEW st PROVE WalkFinds(st) \in 0 .. NMeta
    <2>1. CASE \E e \in 1 .. NMeta : StopsAt(e) /\ meta[e].st = st
      <3>1. \E e \in 1 .. NMeta : StopsAt(e) BY <2>1
      <3>2. (CHOOSE e \in 1 .. NMeta : StopsAt(e)) \in 1 .. NMeta BY <3>1
      <3> QED BY <2>1, <3>2, Sizes DEF WalkFinds
    <2>2. CASE ~ \E e \in 1 .. NMeta : StopsAt(e) /\ meta[e].st = st
      BY <2>2, Sizes DEF WalkFinds
    <2> QED BY <2>1, <2>2
  <1> QED BY <1>1 DEF Found, MeasTypeOK

LEMMA TriedRange == \A i \in Int : Tried(i) \in SlotNos
  <1> SUFFICES ASSUME NEW i \in Int PROVE Tried(i) \in SlotNos OBVIOUS
  <1> DEFINE b == IF Latest \in SlotNos THEN Latest ELSE 0
  <1>1. b \in Int BY Sizes DEF SlotNos
  <1>2. Tried(i) = (b + i - 1) % NSlots BY DEF Tried
  <1> HIDE DEF b
  <1>3. b + i - 1 \in Int /\ NSlots \in Nat \ {0} BY <1>1, Sizes
  <1>4. (b + i - 1) % NSlots \in 0 .. NSlots - 1 BY <1>3, Modulo
  <1> QED BY <1>2, <1>4 DEF SlotNos

LEMMA NextRange == \A k \in SlotNos : NextSlot(k) \in SlotNos /\ NextSlot(k) # k
  BY Sizes DEF SlotNos, NextSlot

LEMMA MarkType ==
  ASSUME slots \in [SlotNos -> Slot], NEW k \in SlotNos,
         NEW st \in {"SPACE", "PARTIAL", "UNREAD", "READ", "OBSOLETE"}
  PROVE  /\ Mark(k, st) \in [SlotNos -> Slot]
         /\ \A j \in SlotNos : Mark(k, st)[j].data = slots[j].data
         /\ \A j \in SlotNos \ {k} : Mark(k, st)[j] = slots[j]
         /\ Mark(k, st)[k].st = IF slots[k].st = "OBSOLETE" THEN "OBSOLETE" ELSE st
  BY DEF Mark, Slot

LEMMA FreedType ==
  ASSUME slots \in [SlotNos -> Slot], NEW k \in SlotNos
  PROVE  /\ Freed(k) \in [SlotNos -> Slot]
         /\ Freed(k)[k].st = "SPACE"
         /\ \A j \in SlotNos \ {k} : Freed(k)[j] = slots[j]
  BY FreeIsSlot DEF Freed, FreeSlot

\* The header of the first allocation touches the last entry only.
LEMMA LastEntryType ==
  ASSUME meta \in [1 .. NMeta -> Entry], NEW a \in {None, Blank}
  PROVE  /\ LastEntry(a) \in [1 .. NMeta -> Entry]
         /\ \A e \in 1 .. NMeta - 1 : LastEntry(a)[e] = meta[e]
  BY Sizes DEF LastEntry, Entry

LEMMA AfterEraseType ==
  ASSUME meta \in [1 .. NMeta -> Entry], NEW k \in SlotNos
  PROVE  /\ AfterErase(k) \in [1 .. NMeta -> Entry]
         /\ \A e \in 1 .. NMeta - 1 : AfterErase(k)[e] = meta[e]
  BY LastEntryType DEF AfterErase

\* What is left in an allocation stays under the header of the next file.
Headed(d, n) == [c \in 1 .. n |-> IF c \in DOMAIN d THEN d[c] ELSE Blank]

LEMMA HeadedType ==
  \A d \in Seq(Vals \cup {Blank, Mixed}), n \in Nat :
     Headed(d, n) \in Seq(Vals \cup {Blank, Mixed}) /\ Len(Headed(d, n)) = n
  <1> SUFFICES ASSUME NEW d \in Seq(Vals \cup {Blank, Mixed}), NEW n \in Nat
               PROVE  Headed(d, n) \in Seq(Vals \cup {Blank, Mixed}) /\ Len(Headed(d, n)) = n
    OBVIOUS
  <1>1. Headed(d, n) \in [1 .. n -> Vals \cup {Blank, Mixed}] BY DEF Headed
  <1> QED BY <1>1

\* An allocation whose erase was cut short.
LEMMA HalfErasedType ==
  ASSUME slots \in [SlotNos -> Slot], NEW k \in SlotNos, NEW m
  PROVE  /\ HalfErased(k, m) \in [SlotNos -> Slot]
         /\ HalfErased(k, m)[k].st = "SPACE"
         /\ \A j \in SlotNos \ {k} : HalfErased(k, m)[j] = slots[j]
  <1> DEFINE d == slots[k].data
             cell(c) == IF c <= m THEN Blank ELSE d[c]
             new == [c \in DOMAIN d |-> cell(c)]
  <1>1. d \in Seq(Vals \cup {Blank, Mixed}) BY DEF Slot
  <1>2. new \in Seq(Vals \cup {Blank, Mixed})
    <2>1. DOMAIN d = 1 .. Len(d) /\ Len(d) \in Nat BY <1>1
    <2>2. \A c \in DOMAIN d : cell(c) \in Vals \cup {Blank, Mixed} BY <1>1
    <2> HIDE DEF cell
    <2>3. new \in [1 .. Len(d) -> Vals \cup {Blank, Mixed}] BY <2>1, <2>2
    <2> HIDE DEF new, d
    <2> QED BY <2>1, <2>3
  <1>3. HalfErased(k, m) = [slots EXCEPT ![k].st = "SPACE", ![k].data = new]
    BY DEF HalfErased
  <1> HIDE DEF new
  <1>4. /\ HalfErased(k, m) \in [SlotNos -> Slot]
        /\ HalfErased(k, m)[k].st = "SPACE"
    BY <1>2, <1>3 DEF Slot
  <1>5. \A j \in SlotNos \ {k} : HalfErased(k, m)[j] = slots[j] BY <1>3
  <1> QED BY <1>4, <1>5

LEMMA WithPartType ==
  ASSUME TypeInv, pc \in Busy, NEW m \in 0 .. req.n, PartStart >= 0
  PROVE  /\ WithPart(m) \in [SlotNos -> Slot]
         /\ \A j \in SlotNos : WithPart(m)[j].st = slots[j].st
         /\ \A j \in SlotNos : Len(WithPart(m)[j].data) = Len(slots[j].data)
         /\ \A j \in SlotNos \ {tgt} : WithPart(m)[j] = slots[j]
  <1> DEFINE d == slots[tgt].data
             cell(c) == IF c > PartStart /\ c <= PartStart + m
                        THEN ProgramCell(d[c], wr.file[wr.sent + c - PartStart])
                        ELSE d[c]
             new == [c \in DOMAIN d |-> cell(c)]
  <1>1. tgt \in SlotNos /\ slots \in [SlotNos -> Slot] /\ d \in Seq(Vals \cup {Blank, Mixed})
    BY DEF TypeInv, MeasTypeOK, Slot
  <1>2. /\ wr.file \in [1 .. MeasLen -> Vals] /\ wr.sent \in 0 .. MeasLen
        /\ req.rem = MeasLen - wr.sent /\ req.n <= req.rem /\ req.n \in Nat
    BY MeasAssumption DEF TypeInv, MeasTypeOK, RequestOK
  <1>3. Len(d) \in Nat /\ DOMAIN d = 1 .. Len(d) /\ PartStart = Len(d) - req.rem
    BY <1>1 DEF PartStart
  <1>4. ASSUME NEW c \in DOMAIN d PROVE cell(c) \in Vals \cup {Blank, Mixed}
    <2>1. d[c] \in Vals \cup {Blank, Mixed} BY <1>1
    <2>2. CASE c > PartStart /\ c <= PartStart + m
      <3>1. wr.sent + c - PartStart \in 1 .. MeasLen
        <4>1. PICK l \in Nat : l = Len(d) /\ DOMAIN d = 1 .. l /\ PartStart = l - req.rem
          BY <1>3
        <4> HIDE DEF d
        <4>2. m \in Nat /\ m <= req.n BY <1>2
        <4>3. c \in 1 .. l BY <4>1
        <4>4. req.rem \in Int BY <1>2, Sizes
        <4>5. c \in Nat /\ PartStart \in Int BY <4>1, <4>3, <4>4
        <4> QED BY <1>2, <2>2, <4>2, <4>5, Sizes
      <3>2. wr.file[wr.sent + c - PartStart] \in Vals BY <1>2, <3>1
      <3> QED BY <2>2, <3>2 DEF ProgramCell
    <2> QED BY <2>1, <2>2
  <1>5. new \in Seq(Vals \cup {Blank, Mixed}) /\ Len(new) = Len(d)
    <2> HIDE DEF cell
    <2>1. new \in [1 .. Len(d) -> Vals \cup {Blank, Mixed}] BY <1>3, <1>4
    <2> HIDE DEF new, d
    <2> QED BY <1>3, <2>1
  <1>6. WithPart(m) = [slots EXCEPT ![tgt].data = new] BY DEF WithPart
  <1> HIDE DEF new
  <1>7. [slots EXCEPT ![tgt].data = new] \in [SlotNos -> Slot] BY <1>1, <1>5 DEF Slot
  <1>8. /\ \A j \in SlotNos : [slots EXCEPT ![tgt].data = new][j].st = slots[j].st
        /\ \A j \in SlotNos \ {tgt} : [slots EXCEPT ![tgt].data = new][j] = slots[j]
        /\ [slots EXCEPT ![tgt].data = new][tgt].data = new
    BY <1>1 DEF Slot
  <1> QED BY <1>5, <1>6, <1>7, <1>8

(***************************************************************************)
(* One lemma per action: it keeps the types.                               *)
(***************************************************************************)
LEMMA InitTypes == Init => TypeInv
  <1> SUFFICES ASSUME Init PROVE TypeInv OBVIOUS
  <1>1. /\ slots \in [SlotNos -> Slot] /\ meta \in [1 .. NMeta -> Entry]
    BY FreeIsSlot, ErasedIsEntries DEF Init
  <1>2. MeasTypeOK
    BY <1>1, Sizes DEF Init, MeasTypeOK, SlotNos, Pcs, NoReq, NoFile
  <1>3. RequestOK /\ Len(rd) < MeasLen
    BY Sizes DEF Init, RequestOK, Busy
  <1> QED BY <1>2, <1>3 DEF TypeInv

LEMMA CallWriteTypes ==
  ASSUME TypeInv, NEW file \in Files, CallWrite(file) PROVE TypeInv'
  <1> USE DEF TypeInv
  <1>1. PICK rem, n : /\ rem = MeasLen - wr.sent
                      /\ n = IF rem < WritePart THEN rem ELSE WritePart
                      /\ req' = [rem |-> rem, n |-> n]
    BY DEF CallWrite
  <1>2. rem \in 0 .. MeasLen /\ n \in 0 .. MeasLen /\ n <= rem
    BY <1>1, Sizes DEF MeasTypeOK
  <1>3. /\ wr' = [wr EXCEPT !.file = file] /\ current' = Found
        /\ UNCHANGED <<key, rd, result, wrapped>>
    BY DEF CallWrite
  <1>4. wr' \in [file : Files \cup {<<>>}, sent : 0 .. MeasLen]
        /\ wr'.file = file /\ wr'.sent = wr.sent
    BY <1>3 DEF MeasTypeOK
  <1>5. current' \in 0 .. NMeta BY <1>3, FoundRange
  <1>6. /\ slots' \in [SlotNos -> Slot] /\ meta' \in [1 .. NMeta -> Entry]
        /\ tgt' \in SlotNos /\ ent' \in 0 .. NMeta /\ pc' \in Pcs /\ doubt' \subseteq SlotNos
    <2>1. CASE pc' = "stray" /\ UNCHANGED <<slots, meta, tgt, ent, doubt>>
      BY <2>1 DEF MeasTypeOK, Pcs
    <2>2. CASE /\ \/ /\ Occupied
                     /\ tgt' = 0 /\ slots' = Freed(0) /\ meta' = AfterErase(0)
                     /\ doubt' = doubt \ {0}
                  \/ /\ \E i \in 1 .. NSlots : Takes(i) /\ tgt' = Tried(i)
                     /\ UNCHANGED <<slots, meta, doubt>>
               /\ \/ ent' = EntryToWrite /\ pc' \in {"ring", "entry"}
                  \/ ent' = 0 /\ pc' = AfterHeader(n = rem)
      <3>1. 0 \in SlotNos BY Sizes DEF SlotNos
      <3>2. /\ slots' \in [SlotNos -> Slot] /\ meta' \in [1 .. NMeta -> Entry]
            /\ tgt' \in SlotNos /\ doubt' \subseteq SlotNos
        BY <2>2, <3>1, FreedType, AfterEraseType, TriedRange DEF MeasTypeOK
      <3>3. EntryToWrite \in 0 .. NMeta
        <4>1. CASE TakesNew
          <5>1. ~Wraps BY <4>1 DEF Wraps
          <5>2. WalkFinds("NEW") \in 0 .. NMeta BY FoundRange
          <5> QED BY <4>1, <5>1, <5>2 DEF EntryToWrite
        <4>2. CASE ~TakesNew /\ Wraps BY <4>2, Sizes DEF EntryToWrite
        <4>3. CASE ~TakesNew /\ ~Wraps
          <5>1. Found < NMeta - 1 BY <4>3 DEF Wraps, RoomAfter
          <5> QED BY <4>3, <5>1, FoundRange, Sizes DEF EntryToWrite
        <4> QED BY <4>1, <4>2, <4>3
      <3> QED BY <2>2, <3>2, <3>3, Sizes DEF AfterHeader, Pcs
    <2>3. \/ pc' = "stray" /\ UNCHANGED <<slots, meta, tgt, ent, doubt>>
          \/ /\ \/ /\ Occupied
                   /\ tgt' = 0 /\ slots' = Freed(0) /\ meta' = AfterErase(0)
                   /\ doubt' = doubt \ {0}
                \/ /\ \E i \in 1 .. NSlots : Takes(i) /\ tgt' = Tried(i)
                   /\ UNCHANGED <<slots, meta, doubt>>
             /\ \/ ent' = EntryToWrite /\ pc' \in {"ring", "entry"}
                \/ ent' = 0 /\ pc' = AfterHeader(n = rem)
      BY <1>1 DEF CallWrite
    <2> QED BY <2>1, <2>2, <2>3
  <1>7. MeasTypeOK'
    BY <1>1, <1>2, <1>3, <1>4, <1>5, <1>6 DEF MeasTypeOK
  <1>8. RequestOK'
    BY <1>1, <1>2, <1>4 DEF RequestOK
  <1> QED BY <1>3, <1>7, <1>8

LEMMA WorkTypes ==
  ASSUME TypeInv, Work PROVE TypeInv'
  <1>1. /\ slots \in [SlotNos -> Slot] /\ meta \in [1 .. NMeta -> Entry]
        /\ tgt \in SlotNos /\ ent \in 0 .. NMeta /\ current \in 0 .. NMeta
        /\ req \in [rem : 0 .. MeasLen, n : 0 .. MeasLen]
        /\ wr \in [file : Files \cup {<<>>}, sent : 0 .. MeasLen]
        /\ doubt \subseteq SlotNos
    BY DEF TypeInv, MeasTypeOK
  <1>2. pc \in Busy
    BY DEF Work, EraseRing, WriteEntry, RetireEntry, WriteHeader, MarkUnread,
           EraseNext, WriteData, Busy
  <1>3. wr.file \in Files /\ req.rem = MeasLen - wr.sent /\ req.n <= req.rem
    BY <1>2 DEF TypeInv, RequestOK
  <1>4. ASSUME slots' \in [SlotNos -> Slot], meta' \in [1 .. NMeta -> Entry],
               current' \in 0 .. NMeta, pc' \in Pcs, wrapped' \in BOOLEAN,
               doubt' \subseteq SlotNos, UNCHANGED <<key, call, host>>
        PROVE  TypeInv'
    BY <1>3, <1>4 DEF TypeInv, MeasTypeOK, RequestOK, call, host
  <1>5. CASE EraseRing
    <2>1. meta' \in [1 .. NMeta -> Entry]
      BY <1>1, <1>5, ErasedIsEntries, Sizes DEF EraseRing, Entry
    <2> QED BY <1>1, <1>4, <1>5, <2>1 DEF EraseRing, Pcs
  <1>6. CASE WriteEntry
    <2>1. meta' \in [1 .. NMeta -> Entry]
      <3> DEFINE new(e) == [st   |-> IF meta[e].st = "INACTIVE" THEN "INACTIVE" ELSE "ACTIVE",
                            addr |-> IF meta[e].addr = None THEN None
                                     ELSE ProgramCell(meta[e].addr, tgt)]
      <3>1. \A e \in 1 .. NMeta : new(e) \in Entry BY <1>1 DEF Entry, ProgramCell
      <3>2. meta' = [meta EXCEPT ![ent] = new(ent)] BY <1>6 DEF WriteEntry
      <3> HIDE DEF new
      <3> QED BY <1>1, <3>1, <3>2
    <2>2. slots' \in [SlotNos -> Slot]
      <3>1. 0 \in SlotNos BY Sizes DEF SlotNos
      <3> QED BY <1>1, <1>6, <3>1, MarkType DEF WriteEntry
    <2>3. wrapped' \in BOOLEAN BY <1>6 DEF WriteEntry, TypeInv, MeasTypeOK
    <2> QED BY <1>1, <1>4, <1>6, <2>1, <2>2, <2>3 DEF WriteEntry, Pcs
  <1>7. CASE RetireEntry
    <2>1. meta' \in [1 .. NMeta -> Entry] BY <1>1, <1>7 DEF RetireEntry, Invalidated, Entry
    <2>2. UNCHANGED <<slots, key, call, host, wrapped, doubt>> /\ wrapped \in BOOLEAN
      BY <1>7 DEF RetireEntry, TypeInv, MeasTypeOK
    <2> QED BY <1>1, <1>4, <1>7, <2>1, <2>2 DEF RetireEntry, Pcs
  <1>8. CASE WriteHeader
    <2>1. Mark(tgt, "PARTIAL") \in [SlotNos -> Slot] BY <1>1, MarkType
    <2>2. Headed(Mark(tgt, "PARTIAL")[tgt].data, req.rem) \in Seq(Vals \cup {Blank, Mixed})
      <3>1. Mark(tgt, "PARTIAL")[tgt].data \in Seq(Vals \cup {Blank, Mixed})
        BY <1>1, <2>1 DEF Slot
      <3>2. req.rem \in Nat BY <1>1
      <3> QED BY <3>1, <3>2, HeadedType
    <2>3. slots' \in [SlotNos -> Slot]
      <3>1. slots' = [Mark(tgt, "PARTIAL") EXCEPT ![tgt].data =
                         Headed(Mark(tgt, "PARTIAL")[tgt].data, req.rem)]
        BY <1>1, <1>8, <2>1 DEF WriteHeader, Headed
      <3> QED BY <1>1, <2>1, <2>2, <3>1 DEF Slot
    <2>4. meta' \in [1 .. NMeta -> Entry] BY <1>1, <1>8, LastEntryType DEF WriteHeader
    <2>5. wrapped' \in BOOLEAN BY <1>8 DEF WriteHeader, TypeInv, MeasTypeOK
    <2> QED BY <1>1, <1>4, <1>8, <2>3, <2>4, <2>5 DEF WriteHeader, AfterHeader, Pcs
  <1>9. CASE MarkUnread
    <2>1. wrapped' \in BOOLEAN BY <1>9 DEF MarkUnread, TypeInv, MeasTypeOK
    <2> QED BY <1>1, <1>4, <1>9, <2>1, MarkType DEF MarkUnread, Pcs
  <1>10. CASE EraseNext
    <2>1. wrapped' \in BOOLEAN BY <1>10 DEF EraseNext, TypeInv, MeasTypeOK
    <2> QED BY <1>1, <1>4, <1>10, <2>1, NextRange, FreedType, AfterEraseType DEF EraseNext, Pcs
  <1>11. CASE WriteData
    <2>1. CASE PartStart < 0
      <3>1. TypeInv' <=> TypeInv' OBVIOUS
      <3>2. pc' = "stray" /\ UNCHANGED <<slots, wr, req, meta, key, current, tgt, ent, rd, result, wrapped, doubt>>
        BY <1>11, <2>1 DEF WriteData
      <3> QED BY <3>2 DEF TypeInv, MeasTypeOK, RequestOK, Busy, Pcs
    <2>2. CASE ~(PartStart < 0)
      <3>1. PartStart >= 0
        <4>1. PartStart \in Int BY <1>1 DEF PartStart, Slot
        <4> QED BY <2>2, <4>1
      <3>2. req.n \in 0 .. req.n BY <1>1
      <3>3. slots' \in [SlotNos -> Slot]
        BY <1>2, <1>11, <2>2, <3>1, <3>2, WithPartType DEF WriteData
      <3>4. /\ req' = NoReq /\ pc' = "idle"
            /\ wr' = IF req.n = req.rem THEN NoFile ELSE [wr EXCEPT !.sent = @ + req.n]
            /\ UNCHANGED <<meta, key, current, tgt, ent, rd, result, wrapped, doubt>>
        BY <1>11, <2>2 DEF WriteData
      <3>5. wr' \in [file : Files \cup {<<>>}, sent : 0 .. MeasLen]
            /\ (wr' = NoFile \/ wr'.file \in Files)
        <4>1. wr.sent + req.n \in 0 .. MeasLen
          <5>1. wr.sent \in 0 .. MeasLen /\ req.n \in 0 .. MeasLen BY <1>1
          <5>2. req.n <= MeasLen - wr.sent BY <1>3
          <5> QED BY <5>1, <5>2, Sizes
        <4>2. CASE req.n = req.rem BY <3>4, <4>2, Sizes DEF NoFile
        <4>3. CASE req.n # req.rem BY <1>1, <1>3, <3>4, <4>1, <4>3
        <4> QED BY <4>2, <4>3
      <3>6. NoReq \in [rem : 0 .. MeasLen, n : 0 .. MeasLen] BY Sizes DEF NoReq
      <3> QED BY <3>3, <3>4, <3>5, <3>6 DEF TypeInv, MeasTypeOK, RequestOK, Busy, Pcs
    <2> QED BY <2>1, <2>2
  <1> QED BY <1>5, <1>6, <1>7, <1>8, <1>9, <1>10, <1>11 DEF Work

LEMMA ReadTypes == ASSUME TypeInv, Read PROVE TypeInv'
  <1> DEFINE cells == Vals \cup {Blank, Mixed}
  <1>1. PICK k \in FirstUnread :
          LET from == Len(slots[k].data) - Left
              got  == rd \o [c \in 1 .. (IF LastRead THEN Left ELSE ReadPart) |->
                                CellAt(k, from + c)]
          IN  IF LastRead
              THEN slots' = Mark(k, "READ") /\ rd' = <<>> /\ result' = got
              ELSE rd' = got /\ UNCHANGED <<slots, result>>
    BY DEF Read
  <1> DEFINE from == Len(slots[k].data) - Left
             n    == IF LastRead THEN Left ELSE ReadPart
             more == [c \in 1 .. n |-> CellAt(k, from + c)]
  <1>2. k \in SlotNos /\ slots \in [SlotNos -> Slot] /\ rd \in Seq(cells) /\ Len(rd) < MeasLen
    BY DEF FirstUnread, UnreadAt, TypeInv, MeasTypeOK
  <1>3. slots[k].data \in Seq(cells) /\ Len(slots[k].data) \in Nat BY <1>2 DEF Slot
  <1>4. Left \in Nat /\ Left >= 1 /\ n \in Nat /\ n >= 1 /\ n <= Left
        /\ (~LastRead => Len(rd) + n < MeasLen)
    BY <1>2, Sizes DEF Left, LastRead
  <1>5. \A c \in 1 .. n : CellAt(k, from + c) \in cells
    <2> SUFFICES ASSUME NEW c \in 1 .. n PROVE CellAt(k, from + c) \in cells OBVIOUS
    <2> HIDE DEF n
    <2>1. from + c <= Len(slots[k].data) /\ from + c \in Int BY <1>3, <1>4
    <2>2. CASE from + c > 0
      <3>1. from + c \in 1 .. Len(slots[k].data) BY <2>1, <2>2, <1>3
      <3>2. slots[k].data[from + c] \in cells BY <1>3, <3>1
      <3> QED BY <2>2, <3>2 DEF CellAt
    <2>3. CASE ~(from + c > 0) BY <2>3 DEF CellAt
    <2> QED BY <2>2, <2>3
  <1>6. more \in Seq(cells) /\ Len(more) = n
    <2> HIDE DEF n, from
    <2>1. more \in [1 .. n -> cells] BY <1>5
    <2> HIDE DEF more
    <2> QED BY <1>4, <2>1
  <1>7. rd \o more \in Seq(cells) /\ Len(rd \o more) = Len(rd) + n
    <2> HIDE DEF more, n
    <2> QED BY <1>2, <1>6
  <1>8. IF LastRead THEN slots' = Mark(k, "READ") /\ rd' = <<>> /\ result' = rd \o more
        ELSE rd' = rd \o more /\ UNCHANGED <<slots, result>>
    BY <1>1
  <1> HIDE DEF more, n
  <1>9. slots' \in [SlotNos -> Slot] BY <1>2, <1>8, MarkType
  <1>10. rd' \in Seq(cells) /\ Len(rd') < MeasLen
    <2>1. CASE LastRead
      <3>1. rd' = <<>> BY <1>8, <2>1
      <3> HIDE DEF cells
      <3> QED BY <3>1, Sizes
    <2>2. CASE ~LastRead
      <3>1. rd' = rd \o more BY <1>8, <2>2
      <3> HIDE DEF cells
      <3> QED BY <1>4, <1>7, <2>2, <3>1
    <2> QED BY <2>1, <2>2
  <1>11. result' \in Seq(cells) BY <1>7, <1>8 DEF TypeInv, MeasTypeOK
  <1>12. current' \in 0 .. NMeta BY FoundRange DEF Read, TypeInv
  <1>13. UNCHANGED <<meta, key, pc, call, wr, wrapped, doubt>> BY DEF Read
  <1> QED BY <1>9, <1>10, <1>11, <1>12, <1>13
         DEF TypeInv, MeasTypeOK, RequestOK, call

LEMMA OtherTypes ==
  ASSUME TypeInv, ReadNone \/ EraseChip \/ Crash \/ Restart PROVE TypeInv'
  <1>1. <<>> \in Seq(Vals \cup {Blank, Mixed}) /\ Len(<<>>) < MeasLen BY Sizes
  <1>2. CASE ReadNone
    BY <1>1, <1>2, FoundRange DEF ReadNone, TypeInv, MeasTypeOK, RequestOK, call
  <1>3. CASE EraseChip
    <2>1. /\ slots' = ErasedSlots /\ meta' = ErasedMeta /\ key' = TRUE /\ wr' = NoFile
          /\ rd' = <<>> /\ wrapped' = FALSE /\ doubt' = {} /\ req' = NoReq /\ pc' = "idle"
          /\ UNCHANGED <<current, tgt, ent, result>>
      BY <1>3 DEF EraseChip
    <2>2. slots' \in [SlotNos -> Slot] /\ meta' \in [1 .. NMeta -> Entry]
      BY <2>1, FreeIsSlot, ErasedIsEntries
    <2>3. wr' \in [file : Files \cup {<<>>}, sent : 0 .. MeasLen] /\ wr' = NoFile
      BY <2>1, Sizes DEF NoFile
    <2>4. rd' \in Seq(Vals \cup {Blank, Mixed}) /\ Len(rd') < MeasLen BY <1>1, <2>1
    <2>5. pc' \notin Busy /\ pc' \in Pcs BY <2>1 DEF Busy, Pcs
    <2>6. req' \in [rem : 0 .. MeasLen, n : 0 .. MeasLen] BY <2>1, Sizes DEF NoReq
    <2>7. UNCHANGED <<current, tgt, ent, result>> /\ key' \in BOOLEAN /\ wrapped' \in BOOLEAN
          /\ doubt' \subseteq SlotNos
      BY <2>1
    <2> QED BY <2>2, <2>3, <2>4, <2>5, <2>6, <2>7 DEF TypeInv, MeasTypeOK, RequestOK
  <1>4. CASE Crash
    <2>1. slots' \in [SlotNos -> Slot] /\ meta' \in [1 .. NMeta -> Entry]
      <3>1. slots \in [SlotNos -> Slot] /\ meta \in [1 .. NMeta -> Entry]
        BY DEF TypeInv, MeasTypeOK
      <3>2. CASE slots' \in Torn /\ UNCHANGED meta
        <4>1. CASE pc \in {"data", "last"} /\ PartStart >= 0
          <5>1. PICK m \in 0 .. req.n : slots' = WithPart(m) BY <3>2, <4>1 DEF Torn
          <5> QED BY <3>1, <3>2, <4>1, <5>1, WithPartType DEF Busy
        <4>2. CASE ~(pc \in {"data", "last"} /\ PartStart >= 0)
          BY <3>1, <3>2, <4>2 DEF Torn
        <4> QED BY <4>1, <4>2
      <3>3. CASE \E k \in UnderErase, m \in 0 .. MeasLen :
                    slots' = HalfErased(k, m) /\ meta' = AfterErase(k)
        BY <3>1, <3>3, HalfErasedType, AfterEraseType DEF UnderErase
      <3> QED BY <1>4, <3>2, <3>3 DEF Crash
    <2>2. NoReq \in [rem : 0 .. MeasLen, n : 0 .. MeasLen] BY Sizes DEF NoReq
    <2>3. /\ pc' = "down" /\ current' = 0 /\ req' = NoReq /\ wr' \in {wr, NoFile}
          /\ UNCHANGED <<key, tgt, ent, rd, result, wrapped>>
      BY <1>4 DEF Crash
    <2>4. /\ wr' \in [file : Files \cup {<<>>}, sent : 0 .. MeasLen]
          /\ wr' = NoFile \/ wr'.file \in Files
      BY <2>3, Sizes DEF NoFile, TypeInv, MeasTypeOK, RequestOK
    <2>5. doubt' \subseteq SlotNos BY <1>4 DEF Crash, HalfWritten, TypeInv, MeasTypeOK
    <2> QED BY <2>1, <2>2, <2>3, <2>4, <2>5, Sizes
           DEF TypeInv, MeasTypeOK, RequestOK, Busy, Pcs
  <1>5. CASE Restart
    <2>1. slots' \in [SlotNos -> Slot] /\ meta' \in [1 .. NMeta -> Entry]
      BY <1>5, FreeIsSlot, ErasedIsEntries DEF Restart, TypeInv, MeasTypeOK
    <2>2. wrapped' \in BOOLEAN /\ doubt' \subseteq SlotNos
      BY <1>5 DEF Restart, TypeInv, MeasTypeOK
    <2>3. pc' = "idle" /\ key' = TRUE /\ UNCHANGED <<current, call, host>>
      BY <1>5 DEF Restart
    <2> QED BY <2>1, <2>2, <2>3 DEF TypeInv, MeasTypeOK, RequestOK, call, host, Busy, Pcs
  <1> QED BY <1>2, <1>3, <1>4, <1>5

LEMMA StepTypes == TypeInv /\ [Next]_vars => TypeInv'
  <1> SUFFICES ASSUME TypeInv, [Next]_vars PROVE TypeInv' OBVIOUS
  <1>1. CASE Command BY <1>1, CallWriteTypes, ReadTypes, OtherTypes DEF Command
  <1>2. CASE Work BY <1>2, WorkTypes
  <1>3. CASE Crash \/ Restart BY <1>3, OtherTypes
  <1>4. CASE UNCHANGED vars
    BY <1>4 DEF vars, call, host, TypeInv, MeasTypeOK, RequestOK
  <1> QED BY <1>1, <1>2, <1>3, <1>4 DEF Next

\* The types hold in every reachable state, for every number of allocations,
\* entries and cells in a part, and wherever the power fails.
THEOREM MeasTypesHold == Spec => []MeasTypeOK
  <1>1. Spec => []TypeInv BY InitTypes, StepTypes, PTL DEF Spec
  <1>2. TypeInv => MeasTypeOK BY DEF TypeInv
  <1> QED BY <1>1, <1>2, PTL

(***************************************************************************)
(* Reading, and what a restart keeps.                                      *)
(***************************************************************************)
\* The host reads only what is there, or in parts shorter than a measurement.
KeyIsSafe == ~ReadBlind \/ ReadPart < MeasLen

\* A reading that has begun finds its measurement again at every part.
ReadingOK ==
    /\ key
    /\ rd # <<>> => pc \notin Busy /\ \E k \in SlotNos : slots[k].st = "UNREAD"

(***************************************************************************)
(* The walk for the first unread measurement meets every allocation, so it *)
(* finds one when there is one.                                            *)
(***************************************************************************)
LEMMA LeastTurn ==
  ASSUME NEW T, T \subseteq Nat, T # {}
  PROVE  \E i \in T : \A j \in T : j >= i
  <1> DEFINE R == {ss \in Nat \X Nat : ss[1] < ss[2]}
  <1>1. IsWellFoundedOn(R, Nat) BY NatLessThanWellFounded DEF OpToRel
  <1> HIDE DEF R
  <1>2. PICK i \in T : \A j \in T : <<j, i>> \notin R BY <1>1, WFMin
  <1>3. ASSUME NEW j \in T PROVE j >= i
    <2>1. i \in Nat /\ j \in Nat /\ ~(j < i) BY <1>2 DEF R
    <2> QED BY <2>1
  <1> QED BY <1>3

LEMMA ModuloRound == \A n \in Nat \ {0} : \A k \in 0 .. n - 1 : (n + k) % n = k
  OBVIOUS

LEMMA EveryOneVisited ==
  \A latest, k : k \in SlotNos => \E i \in 1 .. NSlots + 1 : VisitedFrom(latest, i) = k
  <1> SUFFICES ASSUME NEW latest, NEW k \in SlotNos
               PROVE  \E i \in 1 .. NSlots + 1 : VisitedFrom(latest, i) = k
    OBVIOUS
  <1>1. k \in 0 .. NSlots - 1 /\ NSlots \in Nat BY Sizes DEF SlotNos
  <1>2. NSlots + 1 \in Nat \ {0} /\ k \in 0 .. (NSlots + 1) - 1 BY <1>1
  <1>3. CASE latest \notin SlotNos
    <2>1. k + 1 \in 1 .. NSlots + 1 /\ k + 1 - 1 = k BY <1>1
    <2>2. VisitedFrom(latest, k + 1) = (k + 1) - 1 BY <1>3, Zenon DEF VisitedFrom
    <2>3. VisitedFrom(latest, k + 1) = k BY <1>1, <2>2
    <2> QED BY <2>1, <2>3
  <1>4. CASE latest \in SlotNos /\ k > latest
    <2>1. k - latest \in 1 .. NSlots + 1 /\ latest + (k - latest) = k
      BY <1>1, <1>4 DEF SlotNos
    <2>2. k % (NSlots + 1) = k BY <1>2, Modulo
    <2>3. VisitedFrom(latest, k - latest) = k BY <1>4, <2>1, <2>2 DEF VisitedFrom
    <2> QED BY <2>1, <2>3
  <1>5. CASE latest \in SlotNos /\ ~(k > latest)
    <2>1. /\ NSlots + 1 + k - latest \in 1 .. NSlots + 1
          /\ latest + (NSlots + 1 + k - latest) = (NSlots + 1) + k
      BY <1>1, <1>5 DEF SlotNos
    <2>2. ((NSlots + 1) + k) % (NSlots + 1) = k BY <1>2, ModuloRound
    <2>3. VisitedFrom(latest, NSlots + 1 + k - latest) = k
      BY <1>5, <2>1, <2>2 DEF VisitedFrom
    <2> QED BY <2>1, <2>3
  <1> QED BY <1>3, <1>4, <1>5

LEMMA UnreadIsFound ==
  ASSUME NEW k \in SlotNos, slots[k].st = "UNREAD" PROVE FirstUnread # {}
  <1> DEFINE T == {i \in 1 .. NSlots + 1 : UnreadAt(i)}
  <1>1. T # {}
    <2>1. PICK i \in 1 .. NSlots + 1 : Visited(i) = k BY EveryOneVisited DEF Visited
    <2>2. UnreadAt(i) BY <2>1 DEF UnreadAt
    <2> QED BY <2>2
  <1>2. T \subseteq Nat BY Sizes
  <1> HIDE DEF T
  <1>3. PICK i \in T : \A j \in T : j >= i BY <1>1, <1>2, LeastTurn
  <1>4. i \in 1 .. NSlots + 1 /\ UnreadAt(i) BY DEF T
  <1>5. ASSUME NEW j \in 1 .. i - 1 PROVE ~UnreadAt(j)
    <2>1. j \in 1 .. NSlots + 1 /\ ~(j >= i) BY <1>4, Sizes
    <2> QED BY <1>3, <2>1 DEF T
  <1>6. Visited(i) \in FirstUnread BY <1>4, <1>5 DEF FirstUnread
  <1> QED BY <1>6

(***************************************************************************)
(* A restart keeps every measurement.                                      *)
(***************************************************************************)
LEMMA StepReading ==
  ASSUME KeyIsSafe, TypeInv, ReadingOK, [Next]_vars PROVE ReadingOK'
  <1>1. ASSUME NEW file \in Files, CallWrite(file) PROVE ReadingOK'
    <2>1. rd = <<>> /\ UNCHANGED <<key, rd>> BY <1>1 DEF CallWrite
    <2> QED BY <2>1 DEF ReadingOK
  <1>2. CASE Work
    <2>1. pc \in Busy
      BY <1>2 DEF Work, EraseRing, WriteEntry, RetireEntry, WriteHeader, MarkUnread,
                  EraseNext, WriteData, Busy
    <2>2. UNCHANGED <<key, rd>>
      BY <1>2 DEF Work, EraseRing, WriteEntry, RetireEntry, WriteHeader, MarkUnread,
                  EraseNext, WriteData, host
    <2> QED BY <2>1, <2>2 DEF ReadingOK
  <1>3. CASE Read
    <2>1. pc' = "idle" /\ key' = key BY <1>3 DEF Read
    <2>2. rd' = <<>> \/ (slots' = slots /\ \E k \in SlotNos : slots[k].st = "UNREAD")
      BY <1>3 DEF Read, FirstUnread, UnreadAt
    <2> QED BY <2>1, <2>2 DEF ReadingOK, Busy
  <1>4. CASE ReadNone
    <2>1. rd = <<>> BY <1>4, UnreadIsFound DEF ReadNone, ReadingOK
    <2>2. ~LastRead
      <3>1. Left = MeasLen BY <2>1, Sizes DEF Left
      <3>2. ReadPart < MeasLen BY <1>4 DEF ReadNone, KeyIsSafe
      <3> QED BY <3>1, <3>2, Sizes DEF LastRead
    <2>3. key' = key /\ rd' = <<>> BY <1>4, <2>2 DEF ReadNone, ReadingOK
    <2> QED BY <2>3 DEF ReadingOK
  <1>5. CASE EraseChip BY <1>5 DEF EraseChip, ReadingOK
  <1>6. CASE Crash
    <2>1. key' = key /\ rd' = rd /\ pc' = "down" BY <1>6 DEF Crash, host
    <2>2. rd # <<>> => slots' = slots
      BY <1>6 DEF ReadingOK, Crash, Torn, UnderErase, Busy
    <2> QED BY <2>1, <2>2 DEF ReadingOK, Busy
  <1>7. CASE Restart BY <1>7 DEF Restart, ReadingOK, Busy, host
  <1>8. CASE UNCHANGED vars BY <1>8 DEF vars, host, ReadingOK
  <1> QED BY <1>1, <1>2, <1>3, <1>4, <1>5, <1>6, <1>7, <1>8 DEF Next, Command

\* If reading does not reach the memory key, no restart finds the memory
\* without it: every measurement is kept, wherever power fails.
THEOREM RestartsKeepAll == ASSUME KeyIsSafe PROVE Spec => RestartKeepsMeas
  <1>1. Init => TypeInv /\ ReadingOK BY InitTypes DEF Init, ReadingOK
  <1>2. TypeInv /\ ReadingOK /\ [Next]_vars => (TypeInv /\ ReadingOK)'
    BY StepTypes, StepReading
  <1>3. ReadingOK /\ [Next]_vars => [pc = "down" /\ pc' = "idle" => slots' = slots]_vars
    <2> SUFFICES ASSUME ReadingOK, Next, pc = "down", pc' = "idle" PROVE slots' = slots
      OBVIOUS
    <2>1. Restart
      BY DEF Next, Command, CallWrite, Read, ReadNone, EraseChip, Crash, Work, EraseRing,
             WriteEntry, RetireEntry, WriteHeader, MarkUnread, EraseNext, WriteData
    <2> QED BY <2>1 DEF Restart, ReadingOK
  <1> QED BY <1>1, <1>2, <1>3, PTL DEF Spec, RestartKeepsMeas

(***************************************************************************)
(* The ring of entries and the allocations, for power that does not fail   *)
(* any more once the entries have been erased for a second round, and a    *)
(* host that repeats its part or keeps clear of the memory key.  Without   *)
(* the first there are writes outside; without the second a restart may    *)
(* format the memory in the middle of a measurement.                       *)
(***************************************************************************)
CautiousUse == ~CrashLate /\ (HostRepeats \/ KeyIsSafe)

\* In the first round f is the entry a walk finds, 0 if there is none.
FirstRound(f) ==
    /\ \A e \in 1 .. f - 1 : meta[e].st = "INACTIVE"
    /\ f # 0 => meta[f].st = "ACTIVE"
    /\ f = 0 => meta[1].st = "NEW"
    /\ \A e \in f + 1 .. NMeta - 1 : meta[e].st # "INACTIVE"

RingAt(f) ==
    /\ f \in 0 .. NMeta - 1
    /\ current \in {0, f}
    /\ f # 0 => meta[f].addr \in SlotNos
    /\ \A e \in f + 2 .. NMeta - 1 : meta[e].addr = Blank
    /\ wrapped => current = f /\ f # 0
    /\ ~wrapped => FirstRound(f)

TriedFrom(a, i) == (a + i - 1) % NSlots

TakesFrom(a, i) ==
    Usable(TriedFrom(a, i)) /\ \A j \in 1 .. i - 1 : ~Usable(TriedFrom(a, j))

\* A search that begins at a can only end at b.
OnlyTaken(a, b) == \A i \in 1 .. NSlots : TakesFrom(a, i) => TriedFrom(a, i) = b

\* The entry behind f is blank, or power failed after it was written: then
\* the repeated call takes the allocation it names.
NextBlank(f) == f + 1 \in 1 .. NMeta - 1 => meta[f + 1].addr = Blank

NextRepeats(f) ==
    /\ f # 0 /\ f + 1 \in 1 .. NMeta - 1
    /\ meta[f + 1].addr \in SlotNos
    /\ slots[meta[f + 1].addr].st = "SPACE"
    /\ OnlyTaken(meta[f].addr, meta[f + 1].addr)

Rest(f) == RingAt(f) /\ (NextBlank(f) \/ NextRepeats(f))

\* What the host may still send of the measurement in an allocation: a host
\* that repeats nothing may begin another one there.
Owed == IF HostRepeats THEN MeasLen - wr.sent ELSE MeasLen

\* The only PARTIAL file is the latest, with room for what the host may send.
NoPartial == \A k \in SlotNos : slots[k].st # "PARTIAL"

PartialAt(f) ==
    \A k \in SlotNos : slots[k].st = "PARTIAL" =>
        f # 0 /\ meta[f].addr = k /\ Len(slots[k].data) >= Owed

\* A host that repeats its part leaves no measurement unfinished.
Ahead(f) == HostRepeats /\ wr = NoFile /\ f # 0 => slots[NextSlot(meta[f].addr)].st = "SPACE"

\* The parts sent have an allocation.
Begun == HostRepeats \/ wr.sent = 0 \/ ~NoPartial

RestOK(f) == Rest(f) /\ PartialAt(f) /\ Ahead(f) /\ Begun

New == NoPartial /\ slots[tgt].st = "SPACE" /\ (HostRepeats \/ wr.sent = 0)

EntryOK ==
    /\ New
    /\ ent \in 1 .. NMeta - 1
    /\ meta[ent].addr \in {Blank, tgt}
    /\ \/ /\ Rest(current)
          /\ ent = current + 1
          /\ current # 0 => OnlyTaken(meta[current].addr, tgt)
       \/ /\ wrapped /\ ent = 1 /\ current = NMeta - 1
          /\ \A e \in 1 .. NMeta - 1 : meta[e].addr = Blank

RetireOK ==
    /\ New
    /\ ent \in 1 .. NMeta - 1 /\ current \in 1 .. NMeta - 1 /\ current # ent
    /\ meta[ent].addr = tgt
    /\ \A e \in ent + 1 .. NMeta - 1 : meta[e].addr = Blank
    /\ ~wrapped => Rest(current) /\ ent = current + 1 /\ meta[ent].st = "ACTIVE"

\* The allocation being written is the latest.
Writing == current # 0 /\ RingAt(current) /\ NextBlank(current) /\ meta[current].addr = tgt

Resting == \E f \in 0 .. NMeta - 1 : RestOK(f)

PlaceOK ==
    /\ pc \in {"idle", "down"} => Resting
    /\ pc = "down" => current = 0
    /\ pc = "ring" => New /\ Rest(current) /\ current = NMeta - 1 /\ ent = 1
    /\ pc = "entry" => EntryOK
    /\ pc = "retire" => RetireOK
    /\ pc = "header" => New /\ Writing
    /\ pc \in {"unread", "data"} => Writing /\ slots[tgt].st = "PARTIAL" /\ PartialAt(current)
    /\ pc \in {"next", "last"} =>
          Writing /\ NoPartial /\ Len(slots[tgt].data) >= MeasLen - wr.sent
    /\ pc = "last" => slots[NextSlot(tgt)].st = "SPACE"
    /\ pc = "data" => req.n # req.rem
    /\ pc \in {"unread", "next", "last"} => req.n = req.rem
    /\ pc # "stray"

RingInv == TypeInv /\ (HostRepeats \/ ReadingOK) /\ PlaceOK

LEMMA Distinct ==
  /\ None \notin {Blank, Mixed} /\ None \notin SlotNos
  /\ Blank \notin SlotNos /\ Mixed \notin SlotNos
  BY AddressAssumption

\* What the walk over the entries finds, and what the search begins with.
LEMMA FoundIs ==
  ASSUME TypeInv, NEW f \in 0 .. NMeta - 1, RingAt(f)
  PROVE  /\ Found = f
         /\ f = 0 => WalkFinds("NEW") = 1 /\ Latest = None
         /\ f # 0 => Latest = meta[f].addr /\ Latest \in SlotNos
         /\ f # 0 /\ ~wrapped => WalkFinds("ACTIVE") = f
  <1>1. CASE wrapped
    BY <1>1, Sizes DEF RingAt, Found, Latest
  <1>2. CASE ~wrapped /\ f # 0
    <2>1. FirstRound(f) BY <1>2 DEF RingAt
    <2>2. \A e \in 1 .. NMeta : StopsAt(e) <=> e = f
      <3>1. ASSUME NEW e \in 1 .. NMeta, e < f PROVE ~StopsAt(e)
        BY <2>1, <3>1 DEF FirstRound, StopsAt
      <3>2. ASSUME NEW e \in 1 .. NMeta, e > f PROVE ~StopsAt(e)
        <4>1. f \in 1 .. e - 1 BY <1>2, <3>2, Sizes
        <4> QED BY <1>2, <2>1, <4>1 DEF FirstRound, StopsAt
      <3>3. StopsAt(f) BY <1>2, <2>1 DEF FirstRound, StopsAt
      <3> QED BY <3>1, <3>2, <3>3, Sizes
    <2>3. f \in 1 .. NMeta BY <1>2, Sizes
    <2>4. (CHOOSE e \in 1 .. NMeta : StopsAt(e)) = f BY <2>2, <2>3
    <2>5. meta[f].st = "ACTIVE" BY <1>2, <2>1 DEF FirstRound
    <2>6. WalkFinds("ACTIVE") = f BY <2>2, <2>3, <2>4, <2>5 DEF WalkFinds
    <2> QED BY <1>2, <2>6 DEF RingAt, Found, Latest
  <1>3. CASE ~wrapped /\ f = 0
    <2>1. FirstRound(f) BY <1>3 DEF RingAt
    <2>2. meta[1].st = "NEW" BY <1>3, <2>1 DEF FirstRound
    <2>3. \A e \in 1 .. NMeta : StopsAt(e) <=> e = 1
      <3>1. StopsAt(1) BY <2>2 DEF StopsAt
      <3>2. ASSUME NEW e \in 1 .. NMeta, e > 1 PROVE ~StopsAt(e)
        <4>1. 1 \in 1 .. e - 1 BY <3>2, Sizes
        <4> QED BY <2>2, <4>1 DEF StopsAt
      <3> QED BY <3>1, <3>2
    <2>4. 1 \in 1 .. NMeta BY Sizes
    <2>5. (CHOOSE e \in 1 .. NMeta : StopsAt(e)) = 1 BY <2>3, <2>4
    <2>6. WalkFinds("NEW") = 1 BY <2>2, <2>3, <2>4, <2>5 DEF WalkFinds
    <2>7. WalkFinds("ACTIVE") = 0 BY <2>2, <2>3 DEF WalkFinds
    <2> QED BY <1>3, <2>6, <2>7 DEF RingAt, Found, Latest
  <1> QED BY <1>1, <1>2, <1>3

LEMMA TriedFromRange ==
  \A a \in SlotNos, i \in 1 .. NSlots : TriedFrom(a, i) \in SlotNos
  <1> SUFFICES ASSUME NEW a \in SlotNos, NEW i \in 1 .. NSlots
               PROVE  TriedFrom(a, i) \in SlotNos
    OBVIOUS
  <1>1. a + i - 1 \in Int /\ NSlots \in Nat \ {0} BY Sizes DEF SlotNos
  <1>2. (a + i - 1) % NSlots \in 0 .. NSlots - 1 BY <1>1, Modulo
  <1> QED BY <1>2 DEF TriedFrom, SlotNos

\* The search begins with the latest allocation.
LEMMA FirstTried == \A a \in SlotNos : TriedFrom(a, 1) = a
  <1> SUFFICES ASSUME NEW a \in SlotNos PROVE TriedFrom(a, 1) = a OBVIOUS
  <1>1. a + 1 - 1 = a /\ a \in 0 .. NSlots - 1 /\ NSlots \in Nat \ {0} BY Sizes DEF SlotNos
  <1>2. a % NSlots = a BY <1>1, Modulo
  <1> QED BY <1>1, <1>2 DEF TriedFrom

\* A search ends at one allocation.
LEMMA OneTaken ==
  ASSUME NEW a, NEW i \in 1 .. NSlots, TakesFrom(a, i)
  PROVE  OnlyTaken(a, TriedFrom(a, i))
  <1>1. ASSUME NEW j \in 1 .. NSlots, TakesFrom(a, j) PROVE j = i
    BY <1>1, Sizes DEF TakesFrom
  <1> QED BY <1>1 DEF OnlyTaken

\* It ends there still while the same allocations are usable.
LEMMA OnlyTakenKept ==
  ASSUME NEW a \in SlotNos, NEW b, OnlyTaken(a, b),
         \A k \in SlotNos : Usable(k)' <=> Usable(k)
  PROVE  OnlyTaken(a, b)'
  <1> SUFFICES ASSUME NEW i \in 1 .. NSlots, TakesFrom(a, i)' PROVE TriedFrom(a, i) = b
    BY DEF OnlyTaken, TriedFrom
  <1>1. \A j \in 1 .. i : TriedFrom(a, j) \in SlotNos BY TriedFromRange, Sizes
  <1>2. \A j \in 1 .. i : TriedFrom(a, j)' = TriedFrom(a, j) BY DEF TriedFrom
  <1>3. \A j \in 1 .. i : Usable(TriedFrom(a, j))' <=> Usable(TriedFrom(a, j))
    BY <1>1, <1>2
  <1>4. TakesFrom(a, i) BY <1>3, Sizes DEF TakesFrom
  <1> QED BY <1>4 DEF OnlyTaken

\* What a step that leaves the entries alone keeps, of the entry at rest.
LEMMA RestKept ==
  ASSUME TypeInv, NEW f \in 0 .. NMeta - 1, Rest(f), PartialAt(f),
         meta' = meta, wrapped' = wrapped,
         current' \in {0, f}, wrapped => current' = f,
         \A k \in SlotNos : \/ slots'[k].st = slots[k].st
                            \/ slots[k].st = "UNREAD" /\ slots'[k].st = "READ",
         \A k \in SlotNos : Len(slots'[k].data) = Len(slots[k].data),
         wr'.sent \in Nat, HostRepeats => wr'.sent >= wr.sent,
         HostRepeats /\ wr' = NoFile /\ f # 0 => slots[NextSlot(meta[f].addr)].st = "SPACE",
         Begun'
  PROVE  Resting'
  <1>1. RingAt(f)' BY DEF Rest, RingAt, FirstRound
  <1>2. NextBlank(f) => NextBlank(f)' BY DEF NextBlank
  <1>3. NextRepeats(f) => NextRepeats(f)'
    <2> SUFFICES ASSUME NextRepeats(f) PROVE NextRepeats(f)' OBVIOUS
    <2>1. PICK a \in SlotNos, b \in SlotNos : a = meta[f].addr /\ b = meta[f + 1].addr
      BY DEF Rest, RingAt, NextRepeats
    <2>2. slots'[b].st = "SPACE" BY <2>1 DEF NextRepeats
    <2>3. \A k \in SlotNos : Usable(k)' <=> Usable(k) BY DEF Usable
    <2>4. OnlyTaken(a, b) BY <2>1 DEF NextRepeats
    <2>5. OnlyTaken(a, b)' BY <2>3, <2>4, OnlyTakenKept
    <2> QED BY <2>1, <2>2, <2>5 DEF NextRepeats
  <1>4. PartialAt(f)'
    <2> SUFFICES ASSUME NEW k \in SlotNos, slots'[k].st = "PARTIAL"
                 PROVE  f # 0 /\ meta'[f].addr = k /\ Len(slots'[k].data) >= Owed'
      BY DEF PartialAt
    <2>1. slots[k].st = "PARTIAL" /\ Len(slots'[k].data) = Len(slots[k].data) OBVIOUS
    <2>2. f # 0 /\ meta[f].addr = k /\ Len(slots[k].data) >= Owed
      BY <2>1 DEF PartialAt
    <2>3. Len(slots[k].data) \in Nat /\ wr.sent \in Nat /\ MeasLen \in Nat
      BY Sizes DEF TypeInv, MeasTypeOK, Slot
    <2> QED BY <2>1, <2>2, <2>3 DEF Owed
  <1>5. Ahead(f)'
    <2> SUFFICES ASSUME HostRepeats, (wr = NoFile)', f # 0
                 PROVE  (slots[NextSlot(meta[f].addr)].st = "SPACE")'
      BY DEF Ahead
    <2>1. PICK k : k = NextSlot(meta[f].addr) OBVIOUS
    <2>2. meta[f].addr \in SlotNos BY DEF Rest, RingAt
    <2>3. k \in SlotNos BY <2>1, <2>2, NextRange
    <2>4. NoFile' = NoFile BY DEF NoFile
    <2>5. slots[k].st = "SPACE" BY <2>1, <2>4
    <2>6. slots'[k].st = "SPACE" BY <2>3, <2>5
    <2> QED BY <2>1, <2>6 DEF NextSlot
  <1> QED BY <1>1, <1>2, <1>3, <1>4, <1>5 DEF Resting, RestOK, Rest

\* A step that touches no entry but the last leaves the latest one in place.
LEMMA WritingKept ==
  ASSUME TypeInv, Writing, \A e \in 1 .. NMeta - 1 : meta'[e] = meta[e],
         UNCHANGED <<current, tgt, wrapped>>
  PROVE  Writing'
  <1>1. PICK f \in 1 .. NMeta - 1 : f = current BY DEF Writing, RingAt
  <1>2. meta'[f] = meta[f] OBVIOUS
  <1>3. RingAt(f)'
    <2>1. RingAt(f) BY <1>1 DEF Writing
    <2>2. FirstRound(f) => FirstRound(f)' BY Sizes DEF FirstRound
    <2> QED BY <1>1, <1>2, <2>1, <2>2, Sizes DEF RingAt
  <1>4. NextBlank(f)' BY <1>1 DEF Writing, NextBlank
  <1> QED BY <1>1, <1>2, <1>3, <1>4 DEF Writing, RingAt, FirstRound, NextBlank

LEMMA PlaceTypes ==
  ASSUME TypeInv
  PROVE  /\ slots \in [SlotNos -> Slot] /\ meta \in [1 .. NMeta -> Entry]
         /\ tgt \in SlotNos /\ ent \in 0 .. NMeta /\ current \in 0 .. NMeta
         /\ req.rem \in Nat /\ req.n \in Nat /\ wr.sent \in Nat
         /\ \A k \in SlotNos : Len(slots[k].data) \in Nat
         /\ pc \in Busy => wr.file \in Files /\ req.rem = MeasLen - wr.sent /\ req.n <= req.rem
         /\ wrapped \in BOOLEAN
  BY DEF TypeInv, MeasTypeOK, RequestOK, Slot

LEMMA EraseRingPlace == ASSUME RingInv, EraseRing PROVE PlaceOK'
  <1>1. New /\ Rest(current) /\ current = NMeta - 1 /\ ent = 1
    BY DEF RingInv, PlaceOK, EraseRing
  <1>2. UNCHANGED <<slots, current, tgt, ent, wr>> /\ pc' = "entry" /\ wrapped' = TRUE
    BY DEF EraseRing, call, host
  <1>3. \A e \in 1 .. NMeta - 1 : meta'[e].addr = Blank
    BY Sizes DEF EraseRing, ErasedMeta
  <1>4. New' BY <1>1, <1>2 DEF New, NoPartial
  <1>5. EntryOK' BY <1>1, <1>2, <1>3, <1>4, Sizes DEF EntryOK
  <1> QED BY <1>2, <1>5 DEF PlaceOK

LEMMA WriteEntryPlace == ASSUME RingInv, WriteEntry PROVE PlaceOK'
  <1>1. EntryOK /\ TypeInv BY DEF RingInv, PlaceOK, WriteEntry
  <1> DEFINE c == current
  <1>2. /\ ent \in 1 .. NMeta - 1 /\ ent # NMeta /\ c \in 0 .. NMeta - 1
        /\ tgt \in SlotNos /\ meta \in [1 .. NMeta -> Entry]
    BY <1>1, PlaceTypes, Sizes DEF EntryOK, Rest, RingAt
  <1>3. UNCHANGED <<slots, tgt, ent, wr, wrapped>> BY <1>2 DEF WriteEntry, call, host
  <1>4. New' BY <1>1, <1>3 DEF EntryOK, New, NoPartial
  <1>5. /\ meta'[ent].addr = tgt
        /\ meta[ent].st # "INACTIVE" => meta'[ent].st = "ACTIVE"
        /\ \A e \in 1 .. NMeta : e # ent => meta'[e] = meta[e]
    <2>1. meta[ent].addr \in {Blank, tgt} /\ tgt # None BY <1>1, <1>2, Distinct DEF EntryOK
    <2>2. meta[ent].addr # None BY <2>1, Distinct
    <2>3. ProgramCell(meta[ent].addr, tgt) = tgt BY <2>1 DEF ProgramCell
    <2>4. ent \in DOMAIN meta BY <1>2, Sizes
    <2> QED BY <1>2, <2>2, <2>3, <2>4 DEF WriteEntry
  <1>6. CASE c # 0
    <2>1. pc' = "retire" /\ UNCHANGED current BY <1>6 DEF WriteEntry
    <2>2. /\ c # ent
          /\ \A e \in ent + 1 .. NMeta - 1 : meta'[e].addr = Blank
      BY <1>1, <1>2, <1>5, <1>6, Sizes DEF EntryOK, Rest, RingAt
    <2>3. ASSUME ~wrapped
          PROVE  Rest(current)' /\ ent = c + 1 /\ meta'[ent].st = "ACTIVE"
      <3>1. PICK f \in 1 .. NMeta - 1 : f = current BY <1>2, <1>6
      <3>2. PICK a \in SlotNos : a = meta[f].addr
        BY <1>1, <2>3, <3>1 DEF EntryOK, Rest, RingAt
      <3>3. /\ RingAt(f) /\ FirstRound(f) /\ ent = f + 1 /\ OnlyTaken(a, tgt)
            /\ slots[tgt].st = "SPACE"
        BY <1>1, <2>3, <3>1, <3>2 DEF EntryOK, New, Rest, RingAt
      <3>4. meta[ent].st # "INACTIVE" BY <1>2, <3>3 DEF FirstRound
      <3>5. RingAt(f)'
        <4>1. FirstRound(f)'
          <5>1. \A e \in 1 .. f : meta'[e] = meta[e] BY <1>5, <3>1, <3>3, Sizes
          <5>2. \A e \in f + 1 .. NMeta - 1 : meta'[e].st # "INACTIVE"
            BY <1>2, <1>5, <3>1, <3>3, <3>4, Sizes DEF FirstRound
          <5> QED BY <3>1, <3>3, <5>1, <5>2, Sizes DEF FirstRound
        <4> QED BY <1>2, <1>3, <1>5, <2>1, <3>1, <3>3, <4>1, Sizes DEF RingAt
      <3>6. PICK b \in SlotNos : b = tgt BY <1>2
      <3>7. OnlyTaken(a, b)'
        BY <1>3, <3>3, <3>6 DEF OnlyTaken, TakesFrom, TriedFrom, Usable
      <3>8. NextRepeats(f)'
        <4>1. meta'[f].addr = a /\ meta'[f + 1].addr = b
          BY <1>2, <1>5, <3>1, <3>2, <3>3, <3>6, Sizes
        <4>2. slots'[b].st = "SPACE" /\ f + 1 \in 1 .. NMeta - 1
          BY <1>2, <1>3, <3>3, <3>6
        <4> QED BY <3>1, <3>7, <4>1, <4>2 DEF NextRepeats
      <3>9. Rest(f)' BY <3>5, <3>8 DEF Rest
      <3> QED BY <1>5, <2>1, <3>1, <3>3, <3>4, <3>9
             DEF Rest, RingAt, FirstRound, NextBlank, NextRepeats
    <2>4. RetireOK'
      BY <1>2, <1>3, <1>4, <1>5, <1>6, <2>1, <2>2, <2>3 DEF RetireOK
    <2> QED BY <2>1, <2>4 DEF PlaceOK
  <1>7. CASE c = 0
    <2>1. pc' = "header" /\ current' = ent BY <1>7 DEF WriteEntry
    <2>2. Rest(0) /\ ent = 1 BY <1>1, <1>7, Sizes DEF EntryOK
    <2>3. RingAt(0) /\ ~wrapped BY <2>2 DEF Rest, RingAt
    <2>4. FirstRound(0) BY <2>3 DEF RingAt
    <2>5. FirstRound(1)' BY <1>2, <1>5, <2>2, <2>4, Sizes DEF FirstRound
    <2>6. RingAt(1)' BY <1>2, <1>3, <1>5, <2>1, <2>2, <2>3, <2>5, Sizes DEF RingAt
    <2>7. NextBlank(1)' BY <1>2, <1>5, <2>2, <2>3, Sizes DEF RingAt, NextBlank
    <2>8. Writing'
      BY <1>3, <1>5, <2>1, <2>2, <2>6, <2>7 DEF Writing, RingAt, FirstRound, NextBlank
    <2> QED BY <1>4, <2>1, <2>8 DEF PlaceOK
  <1> QED BY <1>6, <1>7

LEMMA RetireEntryPlace == ASSUME RingInv, RetireEntry PROVE PlaceOK'
  <1>1. RetireOK /\ TypeInv BY DEF RingInv, PlaceOK, RetireEntry
  <1>2. /\ UNCHANGED <<slots, tgt, ent, wr, wrapped>> /\ pc' = "header" /\ current' = ent
        /\ meta' = [meta EXCEPT ![current].st = "INACTIVE"]
    BY DEF RetireEntry, call, host, Invalidated
  <1>3. PICK n \in 1 .. NMeta - 1, c \in 1 .. NMeta - 1 : n = ent /\ c = current /\ c # n
    BY <1>1 DEF RetireOK
  <1>4. meta \in [1 .. NMeta -> Entry] /\ tgt \in SlotNos BY <1>1, PlaceTypes
  <1>5. /\ \A e \in 1 .. NMeta : meta'[e].addr = meta[e].addr
        /\ \A e \in 1 .. NMeta : e # c => meta'[e].st = meta[e].st
        /\ meta'[c].st = "INACTIVE"
    BY <1>2, <1>3, <1>4, Sizes DEF Entry
  <1>6. New' BY <1>1, <1>2 DEF RetireOK, New, NoPartial
  <1>7. ~wrapped => FirstRound(n)'
    <2> SUFFICES ASSUME ~wrapped PROVE FirstRound(n)' OBVIOUS
    <2>1. n = c + 1 /\ meta[n].st = "ACTIVE" /\ FirstRound(c)
      BY <1>1, <1>3 DEF RetireOK, Rest, RingAt
    <2> QED BY <1>3, <1>5, <2>1, Sizes DEF FirstRound
  <1>8. \A e \in n + 1 .. NMeta - 1 : meta'[e].addr = Blank
    BY <1>1, <1>3, <1>5, Sizes DEF RetireOK
  <1>9. meta'[n].addr = tgt /\ tgt' = tgt BY <1>1, <1>2, <1>3, <1>5, Sizes DEF RetireOK
  <1>10. RingAt(n)' BY <1>2, <1>3, <1>4, <1>7, <1>8, <1>9, Sizes DEF RingAt
  <1>11. NextBlank(n)' BY <1>3, <1>8, Sizes DEF NextBlank
  <1>12. Writing'
    BY <1>2, <1>3, <1>9, <1>10, <1>11 DEF Writing, RingAt, FirstRound, NextBlank
  <1> QED BY <1>2, <1>6, <1>12 DEF PlaceOK

LEMMA WriteHeaderPlace == ASSUME RingInv, WriteHeader PROVE PlaceOK'
  <1>1. New /\ Writing /\ TypeInv BY DEF RingInv, PlaceOK, WriteHeader
  <1>2. /\ slots \in [SlotNos -> Slot] /\ tgt \in SlotNos /\ meta \in [1 .. NMeta -> Entry]
        /\ req.rem = MeasLen - wr.sent /\ req.rem \in Nat
    BY <1>1, PlaceTypes DEF WriteHeader, Busy
  <1>3. /\ UNCHANGED <<current, tgt, wrapped>> /\ wr' = wr /\ req' = req
    BY DEF WriteHeader, call, host
  <1> DEFINE new == Headed(Mark(tgt, "PARTIAL")[tgt].data, req.rem)
  <1>4. /\ pc' \in {"unread", "data"}
        /\ pc' = "data" => req'.n # req'.rem
        /\ pc' = "unread" => req'.n = req'.rem
    BY <1>3 DEF WriteHeader, AfterHeader
  <1>5. \A e \in 1 .. NMeta - 1 : meta'[e] = meta[e]
    BY <1>2, LastEntryType, Sizes DEF WriteHeader
  <1>6. Writing' BY <1>1, <1>3, <1>5, WritingKept
  <1>7. /\ slots'[tgt].st = "PARTIAL" /\ Len(slots'[tgt].data) = MeasLen - wr.sent
        /\ \A k \in SlotNos \ {tgt} : slots'[k] = slots[k]
    <2>1. Mark(tgt, "PARTIAL")[tgt].st = "PARTIAL" BY <1>1, <1>2, MarkType DEF New
    <2>2. Mark(tgt, "PARTIAL") \in [SlotNos -> Slot] BY <1>2, MarkType
    <2>3. Len(new) = req.rem
      <3>1. Mark(tgt, "PARTIAL")[tgt].data \in Seq(Vals \cup {Blank, Mixed})
        BY <1>2, <2>2 DEF Slot
      <3> QED BY <1>2, <3>1, HeadedType
    <2>4. slots' = [Mark(tgt, "PARTIAL") EXCEPT ![tgt].data = new]
      BY <1>2, <2>2 DEF WriteHeader, Headed
    <2> HIDE DEF new
    <2>5. /\ slots'[tgt].st = Mark(tgt, "PARTIAL")[tgt].st
          /\ slots'[tgt].data = new
          /\ \A k \in SlotNos \ {tgt} : slots'[k] = Mark(tgt, "PARTIAL")[k]
      BY <1>2, <2>2, <2>4 DEF Slot
    <2> QED BY <1>2, <2>1, <2>3, <2>5, MarkType
  <1>8. (PartialAt(current))'
    <2>1. Owed' = Owed /\ Owed = MeasLen - wr.sent BY <1>1, <1>3, Sizes DEF New, Owed
    <2>2. MeasLen - wr.sent \in Int BY <1>2
    <2> QED BY <1>1, <1>2, <1>3, <1>6, <1>7, <2>1, <2>2 DEF New, NoPartial, PartialAt, Writing
  <1> QED BY <1>3, <1>4, <1>6, <1>7, <1>8 DEF PlaceOK

LEMMA MarkUnreadPlace == ASSUME RingInv, MarkUnread PROVE PlaceOK'
  <1>1. Writing /\ slots[tgt].st = "PARTIAL" /\ PartialAt(current) /\ TypeInv
        /\ req.n = req.rem /\ req' = req
    BY DEF RingInv, PlaceOK, MarkUnread, call
  <1>2. slots \in [SlotNos -> Slot] /\ tgt \in SlotNos BY <1>1, PlaceTypes
  <1>3. /\ UNCHANGED <<meta, current, tgt, wrapped>> /\ wr' = wr
        /\ pc' = "next" /\ slots' = Mark(tgt, "UNREAD")
    BY DEF MarkUnread, call, host
  <1>4. Writing' BY <1>1, <1>3, WritingKept
  <1>5. /\ slots'[tgt].st = "UNREAD" /\ slots'[tgt].data = slots[tgt].data
        /\ \A k \in SlotNos \ {tgt} : slots'[k] = slots[k]
    BY <1>1, <1>2, <1>3, MarkType
  <1>6. \A k \in SlotNos : slots[k].st = "PARTIAL" => k = tgt /\ Len(slots[k].data) >= MeasLen - wr.sent
    <2>1. Owed \in Int /\ Owed >= MeasLen - wr.sent BY <1>1, PlaceTypes, Sizes DEF Owed
    <2>2. \A k \in SlotNos : Len(slots[k].data) \in Nat /\ wr.sent \in Nat /\ MeasLen \in Nat
      BY <1>1, PlaceTypes, Sizes
    <2> QED BY <1>1, <2>1, <2>2 DEF PartialAt, Writing
  <1>7. NoPartial' BY <1>5, <1>6 DEF NoPartial
  <1> QED BY <1>1, <1>2, <1>3, <1>4, <1>5, <1>6, <1>7 DEF PlaceOK

LEMMA EraseNextPlace == ASSUME RingInv, EraseNext PROVE PlaceOK'
  <1>1. Writing /\ NoPartial /\ Len(slots[tgt].data) >= MeasLen - wr.sent /\ TypeInv
        /\ req.n = req.rem /\ req' = req
    BY DEF RingInv, PlaceOK, EraseNext, call
  <1>2. slots \in [SlotNos -> Slot] /\ tgt \in SlotNos /\ meta \in [1 .. NMeta -> Entry]
    BY <1>1, PlaceTypes
  <1>3. PICK k \in SlotNos : k = NextSlot(tgt) /\ k # tgt BY <1>2, NextRange
  <1>4. /\ UNCHANGED <<current, tgt, wrapped>> /\ wr' = wr /\ pc' = "last"
        /\ slots' = Freed(k) /\ meta' = AfterErase(k)
    BY <1>3 DEF EraseNext, call, host
  <1>5. Writing' BY <1>1, <1>2, <1>4, AfterEraseType, WritingKept
  <1>6. slots'[k].st = "SPACE" /\ \A j \in SlotNos \ {k} : slots'[j] = slots[j]
    BY <1>2, <1>4, FreedType
  <1>7. NoPartial' BY <1>1, <1>6 DEF NoPartial
  <1>8. Len(slots'[tgt].data) >= MeasLen - wr.sent BY <1>1, <1>2, <1>3, <1>6
  <1>9. slots'[NextSlot(tgt)].st = "SPACE" BY <1>3, <1>6
  <1> QED BY <1>1, <1>4, <1>5, <1>7, <1>8, <1>9 DEF PlaceOK, NextSlot

\* The allocation being written holds what the host has left to send.
LEMMA DataFits ==
  ASSUME RingInv, pc \in {"data", "last"} PROVE PartStart >= 0
  <1>1. TypeInv /\ tgt \in SlotNos /\ Len(slots[tgt].data) \in Nat /\ req.rem \in Nat
        /\ req.rem = MeasLen - wr.sent
    BY PlaceTypes DEF RingInv, Busy
  <1>2. Len(slots[tgt].data) >= MeasLen - wr.sent
    <2>1. Owed >= MeasLen - wr.sent /\ Owed \in Int /\ wr.sent \in Nat /\ MeasLen \in Nat
      BY <1>1, PlaceTypes, Sizes DEF Owed
    <2>2. Len(slots[tgt].data) >= Owed \/ Len(slots[tgt].data) >= MeasLen - wr.sent
      BY <1>1 DEF RingInv, PlaceOK, PartialAt
    <2> QED BY <1>1, <2>1, <2>2
  <1> QED BY <1>1, <1>2 DEF PartStart

LEMMA WriteDataPlace == ASSUME RingInv, WriteData PROVE PlaceOK'
  <1>1. pc \in {"data", "last"} /\ Writing /\ TypeInv
    BY DEF RingInv, PlaceOK, WriteData
  <1>2. PICK f \in 1 .. NMeta - 1 : f = current BY <1>1 DEF Writing, RingAt
  <1>3. /\ tgt \in SlotNos /\ req.n \in Nat /\ wr.sent \in Nat
        /\ req.rem = MeasLen - wr.sent /\ req.n <= req.rem /\ wr.file \in Files
        /\ wr \in [file : Files \cup {<<>>}, sent : 0 .. MeasLen]
    BY <1>1, PlaceTypes DEF Busy, TypeInv, MeasTypeOK
  <1>4. PartStart >= 0 /\ ~(PartStart < 0)
    <2>1. PartStart >= 0 BY <1>1, DataFits
    <2>2. PartStart \in Int BY <1>1, <1>3, PlaceTypes DEF PartStart
    <2> QED BY <2>1, <2>2
  <1>5. /\ slots' = WithPart(req.n) /\ pc' = "idle"
        /\ wr' = IF req.n = req.rem THEN NoFile ELSE [wr EXCEPT !.sent = @ + req.n]
        /\ UNCHANGED <<meta, current, wrapped>>
    BY <1>4 DEF WriteData
  <1>6. /\ \A j \in SlotNos : slots'[j].st = slots[j].st
        /\ \A j \in SlotNos : Len(slots'[j].data) = Len(slots[j].data)
    <2>1. req.n \in 0 .. req.n BY <1>3
    <2> QED BY <1>1, <1>4, <1>5, <2>1, WithPartType DEF Busy
  <1>7. Rest(f) /\ meta[f].addr = tgt BY <1>1, <1>2 DEF Writing, Rest
  <1>8. CASE pc = "data"
    <2>1. req.n # req.rem /\ PartialAt(f) BY <1>2, <1>8 DEF RingInv, PlaceOK
    <2>2. wr' = [wr EXCEPT !.sent = @ + req.n] BY <1>5, <2>1
    <2>3. wr'.file \in Files /\ wr'.sent = wr.sent + req.n BY <1>3, <2>2
    <2>4. wr' # NoFile BY <2>3, NoFileNone
    <2>5. wr'.sent \in Nat /\ wr'.sent >= wr.sent BY <1>3, <2>3
    <2>6. Begun'
      <3>1. slots[tgt].st = "PARTIAL" BY <1>8 DEF RingInv, PlaceOK
      <3>2. ~NoPartial' BY <1>3, <1>6, <3>1 DEF NoPartial
      <3> QED BY <3>2 DEF Begun
    <2>7. Resting' BY <1>1, <1>2, <1>5, <1>6, <1>7, <2>1, <2>4, <2>5, <2>6, RestKept, Sizes
    <2> QED BY <1>5, <2>7 DEF PlaceOK
  <1>9. CASE pc = "last"
    <2>1. NoPartial /\ slots[NextSlot(tgt)].st = "SPACE" BY <1>9 DEF RingInv, PlaceOK
    <2>2. NextSlot(tgt) \in SlotNos /\ slots'[NextSlot(tgt)].st = "SPACE"
      BY <1>3, <1>6, <2>1, NextRange
    <2>3. Rest(f)'
      <3>1. RingAt(f)' BY <1>2, <1>5, <1>7 DEF Rest, RingAt, FirstRound
      <3>2. NextBlank(f)' BY <1>1, <1>2, <1>5 DEF Writing, NextBlank
      <3> QED BY <3>1, <3>2 DEF Rest
    <2>4. NoPartial' BY <1>6, <2>1 DEF NoPartial
    <2>5. PartialAt(f)' BY <2>4 DEF PartialAt, NoPartial
    <2>6. Ahead(f)' BY <1>5, <1>7, <2>2 DEF Ahead, NextSlot
    <2>7. Begun'
      <3>1. req.n = req.rem BY <1>9 DEF RingInv, PlaceOK
      <3> QED BY <1>5, <3>1, NoFileNone DEF Begun
    <2>8. Resting' BY <1>2, <2>3, <2>5, <2>6, <2>7 DEF Resting, RestOK
    <2> QED BY <1>5, <2>8 DEF PlaceOK
  <1> QED BY <1>1, <1>8, <1>9

(***************************************************************************)
(* The commands, power failure and restart.                                *)
(***************************************************************************)
LEMMA ReadPlace == ASSUME RingInv, Read \/ ReadNone PROVE PlaceOK'
  <1>1. pc = "idle" /\ wr = NoFile /\ current' = Found BY DEF Read, ReadNone
  <1>2. PICK f \in 0 .. NMeta - 1 : RestOK(f) BY <1>1 DEF RingInv, PlaceOK, Resting
  <1>3. TypeInv /\ Rest(f) /\ PartialAt(f) /\ RingAt(f) /\ Ahead(f)
    BY <1>2 DEF RingInv, RestOK, Rest
  <1>4. current' = f BY <1>1, <1>3, FoundIs
  <1>5. UNCHANGED <<meta, pc, wr, wrapped>> BY DEF Read, ReadNone
  <1>6. \/ slots' = slots
        \/ \E k \in SlotNos : slots[k].st = "UNREAD" /\ slots' = Mark(k, "READ")
    BY DEF Read, ReadNone, FirstUnread, UnreadAt
  <1>7. slots \in [SlotNos -> Slot] /\ wr.sent \in Nat BY <1>3, PlaceTypes
  <1>8. /\ \A k \in SlotNos : \/ slots'[k].st = slots[k].st
                              \/ slots[k].st = "UNREAD" /\ slots'[k].st = "READ"
        /\ \A k \in SlotNos : Len(slots'[k].data) = Len(slots[k].data)
    <2>1. CASE slots' = slots BY <2>1
    <2>2. CASE \E k \in SlotNos : slots[k].st = "UNREAD" /\ slots' = Mark(k, "READ")
      <3>1. PICK k \in SlotNos : slots[k].st = "UNREAD" /\ slots' = Mark(k, "READ") BY <2>2
      <3>2. slots'[k].st = "READ" /\ slots'[k].data = slots[k].data
        BY <1>7, <3>1, MarkType
      <3>3. \A j \in SlotNos \ {k} : slots'[j] = slots[j] BY <1>7, <3>1, MarkType
      <3> QED BY <3>1, <3>2, <3>3
    <2> QED BY <1>6, <2>1, <2>2
  <1>9. HostRepeats /\ wr' = NoFile /\ f # 0 => slots[NextSlot(meta[f].addr)].st = "SPACE"
    BY <1>1, <1>3 DEF Ahead
  <1>10. wr'.sent \in Nat /\ wr'.sent >= wr.sent /\ Begun'
    BY <1>1, <1>5, <1>7, NoFileNone DEF Begun
  <1>11. Resting' BY <1>3, <1>4, <1>5, <1>8, <1>9, <1>10, RestKept
  <1> QED BY <1>1, <1>5, <1>11 DEF PlaceOK

\* An erased memory is at rest.
LEMMA ErasedRests ==
  ASSUME slots' = ErasedSlots, meta' = ErasedMeta, current' = 0, wrapped' = FALSE,
         HostRepeats \/ wr'.sent = 0
  PROVE  Resting'
  <1>1. \A e \in 1 .. NMeta : meta'[e].addr = Blank /\ meta'[e].st = "NEW"
    BY DEF ErasedMeta
  <1>2. \A k \in SlotNos : slots'[k].st = "SPACE" BY DEF ErasedSlots, FreeSlot
  <1>3. FirstRound(0)' BY <1>1, Sizes DEF FirstRound
  <1>4. Rest(0)' BY <1>1, <1>3, Sizes DEF Rest, RingAt, NextBlank
  <1>5. PartialAt(0)' BY <1>2 DEF PartialAt
  <1>6. RestOK(0)' BY <1>4, <1>5 DEF RestOK, Ahead, Begun
  <1> QED BY <1>6, Sizes DEF Resting

\* The chip is erased and an address of an entry is still known.
StaleOK ==
    /\ pc \in {"idle", "stray"}
    /\ slots = ErasedSlots /\ meta = ErasedMeta /\ current # 0 /\ ~wrapped /\ doubt = {}
    /\ pc = "idle" => wr = NoFile

LEMMA EraseChipPlace == ASSUME TypeInv, EraseChip PROVE PlaceOK' \/ StaleOK'
  <1>1. /\ slots' = ErasedSlots /\ meta' = ErasedMeta /\ current' = current
        /\ wrapped' = FALSE /\ pc' = "idle" /\ wr' = NoFile /\ doubt' = {}
    BY DEF EraseChip
  <1>2. CASE current = 0 BY <1>1, <1>2, ErasedRests, NoFileNone DEF PlaceOK
  <1>3. CASE current # 0 BY <1>1, <1>3 DEF StaleOK, NoFile, ErasedSlots, ErasedMeta, FreeSlot
  <1> QED BY <1>2, <1>3

LEMMA CrashPlace == ASSUME RingInv, CautiousUse, Crash PROVE PlaceOK'
  <1>1. TypeInv /\ ~wrapped /\ wrapped' = wrapped /\ (wr' = wr \/ wr' = NoFile)
        /\ (HostRepeats => wr' = wr) /\ (pc # "idle" /\ ~HostRepeats => wr' = NoFile)
        /\ current' = 0 /\ pc' = "down" /\ pc \in Pcs \ {"stray", "down"}
    BY DEF RingInv, CautiousUse, Crash, TypeInv, MeasTypeOK
  <1>2. wr.sent \in Nat /\ wr'.sent \in Nat BY <1>1, PlaceTypes, NoFileNone
  <1>3. pc # "idle" => pc \in Busy /\ wr # NoFile
    <2>1. pc # "idle" => pc \in Busy BY <1>1 DEF Pcs, Busy
    <2> QED BY <1>1, <2>1, NoFileNone DEF TypeInv, RequestOK
  <1>4. CASE slots' \in Torn /\ UNCHANGED meta
    <2>1. /\ \A k \in SlotNos : slots'[k].st = slots[k].st
          /\ \A k \in SlotNos : Len(slots'[k].data) = Len(slots[k].data)
      <3>1. CASE pc \in {"data", "last"} /\ PartStart >= 0
        <4>1. PICK m \in 0 .. req.n : slots' = WithPart(m) BY <1>4, <3>1 DEF Torn
        <4> QED BY <1>1, <3>1, <4>1, WithPartType DEF Busy
      <3>2. CASE ~(pc \in {"data", "last"} /\ PartStart >= 0)
        BY <1>4, <3>2 DEF Torn
      <3> QED BY <3>1, <3>2
    <2>2. PICK f \in 0 .. NMeta - 1 :
             /\ Rest(f) /\ PartialAt(f)
             /\ HostRepeats /\ wr = NoFile /\ f # 0
                   => slots[NextSlot(meta[f].addr)].st = "SPACE"
      <3>1. CASE pc = "idle"
        BY <3>1 DEF RingInv, PlaceOK, Resting, RestOK, Ahead
      <3>2. CASE pc # "idle"
        <4>1. Rest(current)
          BY <1>1, <1>3, <3>2 DEF Busy, RingInv, PlaceOK, EntryOK, RetireOK, Writing, Rest
        <4>2. NoPartial \/ PartialAt(current)
          BY <1>3, <3>2 DEF Busy, RingInv, PlaceOK, EntryOK, RetireOK, New
        <4>3. PartialAt(current) BY <4>2 DEF NoPartial, PartialAt
        <4>4. current \in 0 .. NMeta - 1 BY <4>1 DEF Rest, RingAt
        <4> QED BY <1>3, <3>2, <4>1, <4>3, <4>4
      <3> QED BY <3>1, <3>2
    <2>3. Begun'
      <3>1. CASE HostRepeats \/ wr' = NoFile BY <3>1, NoFileNone DEF Begun
      <3>2. CASE ~HostRepeats /\ wr' = wr /\ pc = "idle"
        <4>1. Begun BY <3>2 DEF RingInv, PlaceOK, Resting, RestOK
        <4>2. NoPartial' => NoPartial BY <2>1 DEF NoPartial
        <4> QED BY <3>2, <4>1, <4>2 DEF Begun
      <3> QED BY <1>1, <3>1, <3>2
    <2>4. HostRepeats => wr' = wr /\ wr'.sent >= wr.sent BY <1>1, <1>2
    <2>5. Resting' BY <1>1, <1>2, <1>4, <2>1, <2>2, <2>3, <2>4, RestKept
    <2> QED BY <1>1, <2>5 DEF PlaceOK
  <1>5. ASSUME NEW k \in UnderErase, NEW m \in 0 .. MeasLen,
               slots' = HalfErased(k, m), meta' = AfterErase(k)
        PROVE  PlaceOK'
    <2>1. /\ k \in SlotNos /\ slots \in [SlotNos -> Slot] /\ meta \in [1 .. NMeta -> Entry]
          /\ pc = "next" \/ (pc = "idle" /\ Occupied)
      BY <1>1, PlaceTypes DEF UnderErase
    <2>2. /\ slots'[k].st = "SPACE" /\ \A j \in SlotNos \ {k} : slots'[j] = slots[j]
          /\ \A e \in 1 .. NMeta - 1 : meta'[e] = meta[e]
      BY <1>5, <2>1, HalfErasedType, AfterEraseType
    <2>3. NoPartial BY <2>1 DEF RingInv, PlaceOK, Occupied, Usable, NoPartial
    <2>4. PICK f \in 0 .. NMeta - 1 : RingAt(f) /\ NextBlank(f)
      <3>1. CASE pc = "next" BY <3>1 DEF RingInv, PlaceOK, Writing, RingAt
      <3>2. CASE pc = "idle" /\ Occupied
        <4>1. PICK f \in 0 .. NMeta - 1 : Rest(f)
          BY <3>2 DEF RingInv, PlaceOK, Resting, RestOK
        <4>2. ~NextRepeats(f) BY <3>2 DEF NextRepeats, Occupied, Usable
        <4> QED BY <4>1, <4>2 DEF Rest
      <3> QED BY <2>1, <3>1, <3>2
    <2>5. NoPartial' BY <2>2, <2>3 DEF NoPartial
    <2>6. RingAt(f)' /\ NextBlank(f)'
      <3>1. FirstRound(f)' BY <1>1, <2>2, <2>4, Sizes DEF RingAt, FirstRound
      <3>2. RingAt(f)' BY <1>1, <2>2, <2>4, <3>1, Sizes DEF RingAt
      <3>3. NextBlank(f)' BY <2>2, <2>4 DEF NextBlank
      <3> QED BY <3>2, <3>3
    <2>7. Ahead(f)'
      <3> SUFFICES ASSUME HostRepeats, wr' = NoFile, f # 0
                   PROVE  slots'[NextSlot(meta'[f].addr)].st = "SPACE"
        BY DEF Ahead, NoFile, NextSlot
      <3>1. pc = "idle" /\ Occupied /\ wr = NoFile BY <1>1, <1>3, <2>1
      <3>2. PICK g \in 0 .. NMeta - 1 : Rest(g) /\ Ahead(g)
        BY <3>1 DEF RingInv, PlaceOK, Resting, RestOK
      <3>3. g = f BY <1>1, <2>4, <3>2, FoundIs DEF Rest
      <3>4. slots[NextSlot(meta[f].addr)].st = "SPACE" BY <3>1, <3>2, <3>3 DEF Ahead
      <3>5. NextSlot(meta[f].addr) \in SlotNos BY <2>4, NextRange DEF RingAt
      <3> QED BY <3>1, <3>4, <3>5 DEF Occupied, Usable
    <2>8. Begun'
      <3>1. CASE HostRepeats \/ wr' = NoFile BY <3>1, NoFileNone DEF Begun
      <3>2. CASE ~HostRepeats /\ wr' = wr /\ pc = "idle"
        <4>1. Begun BY <3>2 DEF RingInv, PlaceOK, Resting, RestOK
        <4> QED BY <2>3, <3>2, <4>1 DEF Begun
      <3> QED BY <1>1, <3>1, <3>2
    <2>9. PartialAt(f)' BY <2>5 DEF PartialAt, NoPartial
    <2>10. RestOK(f)' BY <2>6, <2>7, <2>8, <2>9 DEF RestOK, Rest
    <2> QED BY <1>1, <2>10 DEF PlaceOK, Resting
  <1> QED BY <1>4, <1>5 DEF Crash

LEMMA RestartPlace == ASSUME RingInv, Restart PROVE PlaceOK'
  <1>1. TypeInv /\ Resting /\ current = 0 /\ key \in BOOLEAN /\ wrapped \in BOOLEAN
    BY DEF RingInv, PlaceOK, Restart, TypeInv, MeasTypeOK
  <1>2. current' = current /\ wr' = wr /\ pc' = "idle" BY DEF Restart, call, host
  <1>3. Resting'
    <2>1. CASE key
      <3>1. slots' = slots /\ meta' = meta /\ wrapped' = wrapped BY <1>1, <2>1 DEF Restart
      <3>2. PICK f \in 0 .. NMeta - 1 : RestOK(f) BY <1>1 DEF Resting
      <3>3. wr.sent \in Nat BY <1>1, PlaceTypes
      <3>4. wrapped => current' = f BY <1>2, <3>2 DEF RestOK, Rest, RingAt
      <3>5. wr'.sent \in Nat /\ wr'.sent >= wr.sent BY <1>2, <3>3
      <3>6. Begun' BY <1>2, <3>1, <3>2 DEF RestOK, Begun, NoPartial
      <3> QED BY <1>1, <1>2, <3>1, <3>2, <3>4, <3>5, <3>6, RestKept DEF RestOK, Ahead
    <2>2. CASE ~key
      <3>1. HostRepeats BY <2>2 DEF RingInv, ReadingOK
      <3> QED BY <1>1, <1>2, <2>2, <3>1, ErasedRests DEF Restart
    <2> QED BY <1>1, <2>1, <2>2
  <1> QED BY <1>1, <1>2, <1>3 DEF PlaceOK

(***************************************************************************)
(* A call to write.  What follows is about the entry f at rest: the call   *)
(* does not go astray, and it takes the latest allocation, or one to which *)
(* the next entry is free to point.                                        *)
(***************************************************************************)
LEMMA EntryToWriteIs ==
  ASSUME TypeInv, NEW f \in 0 .. NMeta - 1, RingAt(f)
  PROVE  \/ Wraps /\ f = NMeta - 1 /\ f # 0 /\ EntryToWrite = 1
         \/ ~Wraps /\ f + 1 \in 1 .. NMeta - 1 /\ EntryToWrite = f + 1
  <1>1. Found = f BY FoundIs
  <1>2. CASE f = 0
    <2>1. TakesNew /\ WalkFinds("NEW") = 1 BY <1>1, <1>2, FoundIs DEF TakesNew
    <2>2. ~Wraps BY <2>1 DEF Wraps
    <2> QED BY <1>2, <2>1, <2>2, Sizes DEF EntryToWrite
  <1>3. CASE f # 0
    <2>1. ~TakesNew BY <1>1, <1>3 DEF TakesNew
    <2>2. Wraps <=> ~(f < NMeta - 1) BY <1>1, <1>3, <2>1 DEF Wraps, RoomAfter
    <2>3. CASE f < NMeta - 1
      BY <1>1, <1>3, <2>1, <2>2, <2>3, Sizes DEF EntryToWrite
    <2>4. CASE ~(f < NMeta - 1)
      BY <1>3, <2>1, <2>2, <2>4, Sizes DEF EntryToWrite
    <2> QED BY <2>3, <2>4
  <1> QED BY <1>2, <1>3

\* The entries but the last stay as they are.
LEMMA RingKept ==
  ASSUME NEW f \in 0 .. NMeta - 1, RingAt(f), current' = f, wrapped' = wrapped,
         \A e \in 1 .. NMeta - 1 : meta'[e] = meta[e]
  PROVE  RingAt(current)' /\ (NextBlank(f) => NextBlank(current)')
  <1>1. FirstRound(f) => FirstRound(f)' BY Sizes DEF FirstRound
  <1>2. RingAt(f)' BY <1>1, Sizes DEF RingAt
  <1>3. NextBlank(f) => NextBlank(f)' BY DEF NextBlank
  <1> QED BY <1>2, <1>3 DEF RingAt, FirstRound, NextBlank

\* A new file: its entry is the next one, or the first of a new round.
LEMMA NewFilePlace ==
  ASSUME TypeInv, NEW f \in 0 .. NMeta - 1, RingAt(f), Rest(current)', New',
         current' = f, ent' = EntryToWrite, pc' = IF Wraps THEN "ring" ELSE "entry",
         f + 1 \in 1 .. NMeta - 1 => meta'[f + 1].addr \in {Blank, tgt'},
         f # 0 => OnlyTaken(meta[current].addr, tgt)'
  PROVE  PlaceOK'
  <1>1. CASE Wraps
    BY <1>1, EntryToWriteIs DEF PlaceOK
  <1>2. CASE ~Wraps
    <2>1. f + 1 \in 1 .. NMeta - 1 /\ ent' = f + 1 BY <1>2, EntryToWriteIs
    <2>2. EntryOK' BY <2>1 DEF EntryOK
    <2> QED BY <1>2, <2>2 DEF PlaceOK
  <1> QED BY <1>1, <1>2

LEMMA CallWritePlace ==
  ASSUME RingInv, NEW file \in Files, CallWrite(file) PROVE PlaceOK'
  <1>1. pc = "idle" BY DEF CallWrite
  <1>2. PICK f \in 0 .. NMeta - 1 : RestOK(f) BY <1>1 DEF RingInv, PlaceOK, Resting
  <1>3. TypeInv /\ Rest(f) /\ PartialAt(f) /\ RingAt(f) /\ Begun
    BY <1>2 DEF RingInv, RestOK, Rest
  <1>4. slots \in [SlotNos -> Slot] /\ meta \in [1 .. NMeta -> Entry] /\ 0 \in SlotNos
    BY <1>3, PlaceTypes, Sizes DEF SlotNos
  <1>5. Latest \notin {Blank, Mixed} BY <1>3, FoundIs, Distinct
  <1>6. PICK a \in SlotNos : /\ a = IF f = 0 THEN 0 ELSE meta[f].addr
                             /\ \A i \in 1 .. NSlots : Tried(i) = TriedFrom(a, i)
    <2>1. CASE f = 0
      <3>1. Latest \notin SlotNos BY <1>3, <2>1, FoundIs, Distinct
      <3> QED BY <1>4, <2>1, <3>1 DEF Tried, TriedFrom
    <2>2. CASE f # 0
      <3>1. Latest = meta[f].addr /\ Latest \in SlotNos BY <1>3, <2>2, FoundIs
      <3> QED BY <2>2, <3>1 DEF Tried, TriedFrom
    <2> QED BY <2>1, <2>2
  <1>7. /\ current' = f /\ wrapped' = wrapped /\ wr' = [wr EXCEPT !.file = file]
        /\ IF slots'[tgt'].st = "SPACE"
           THEN ent' = EntryToWrite /\ pc' = IF Wraps THEN "ring" ELSE "entry"
           ELSE /\ pc' \in {"unread", "data"}
                /\ pc' = "data" <=> req'.n # req'.rem
    <2>1. current' = Found /\ wrapped' = wrapped /\ wr' = [wr EXCEPT !.file = file]
      BY DEF CallWrite
    <2>2. IF slots'[tgt'].st = "SPACE"
          THEN ent' = EntryToWrite /\ pc' = IF Wraps THEN "ring" ELSE "entry"
          ELSE /\ pc' \in {"unread", "data"}
               /\ pc' = "data" <=> req'.n # req'.rem
      BY <1>5 DEF CallWrite, AfterHeader
    <2> QED BY <1>3, <2>1, <2>2, FoundIs
  <1>8. \/ Occupied /\ tgt' = 0 /\ slots' = Freed(0) /\ meta' = AfterErase(0)
        \/ \E i \in 1 .. NSlots : Takes(i) /\ tgt' = Tried(i) /\ slots' = slots /\ meta' = meta
    BY <1>5 DEF CallWrite
  <1>9. CASE Occupied /\ tgt' = 0 /\ slots' = Freed(0) /\ meta' = AfterErase(0)
    <2>1. slots'[0].st = "SPACE" /\ \A k \in SlotNos \ {0} : slots'[k] = slots[k]
      BY <1>4, <1>9, FreedType
    <2>2. \A e \in 1 .. NMeta - 1 : meta'[e] = meta[e] BY <1>4, <1>9, AfterEraseType
    <2>3. \A k \in SlotNos : ~Usable(k) /\ slots[k].st # "SPACE" /\ slots[k].st # "PARTIAL"
      BY <1>9 DEF Occupied, Usable
    <2>4. NextBlank(f) BY <1>3, <2>3 DEF Rest, NextRepeats
    <2>5. (RingAt(current))' /\ (NextBlank(current))' BY <1>3, <1>7, <2>2, <2>4, RingKept
    <2>6. (Rest(current))' BY <2>5 DEF Rest
    <2>7. New'
      <3>1. NoPartial BY <2>3 DEF NoPartial
      <3>2. HostRepeats \/ wr'.sent = 0
        BY <1>3, <1>7, <3>1 DEF Begun, TypeInv, MeasTypeOK
      <3> QED BY <1>9, <2>1, <2>3, <3>2 DEF New, NoPartial
    <2>8. f + 1 \in 1 .. NMeta - 1 => meta'[f + 1].addr \in {Blank, tgt'}
      BY <2>2, <2>4 DEF NextBlank
    <2>9. f # 0 => OnlyTaken(meta[current].addr, tgt)'
      <3> SUFFICES ASSUME f # 0, NEW i \in 1 .. NSlots, TakesFrom(a, i)'
                   PROVE  TriedFrom(a, i) = 0
        BY <1>6, <1>7, <1>9, <2>2 DEF OnlyTaken, TakesFrom, TriedFrom
      <3>1. TriedFrom(a, i) \in SlotNos BY TriedFromRange
      <3>2. slots'[TriedFrom(a, i)].st \in {"SPACE", "PARTIAL"}
        BY DEF TakesFrom, TriedFrom, Usable
      <3>3. slots[TriedFrom(a, i)].st \notin {"SPACE", "PARTIAL"} BY <2>3, <3>1
      <3> QED BY <2>1, <3>1, <3>2, <3>3
    <2>10. ent' = EntryToWrite /\ pc' = IF Wraps THEN "ring" ELSE "entry"
      BY <1>7, <1>9, <2>1
    <2> QED BY <1>3, <1>7, <2>6, <2>7, <2>8, <2>9, <2>10, NewFilePlace
  <1>10. ASSUME NEW i \in 1 .. NSlots, Takes(i), tgt' = Tried(i), slots' = slots, meta' = meta
         PROVE  PlaceOK'
    <2>1. PICK b \in SlotNos : b = tgt' /\ b = TriedFrom(a, i) 
      <3>1. Tried(i) = TriedFrom(a, i) BY <1>6
      <3>2. TriedFrom(a, i) \in SlotNos BY TriedFromRange
      <3> QED BY <1>10, <3>1, <3>2
    <2>2. TakesFrom(a, i)
      <3>1. \A j \in 1 .. i : j \in 1 .. NSlots BY Sizes
      <3>2. \A j \in 1 .. i : Tried(j) = TriedFrom(a, j) BY <1>6, <3>1
      <3> QED BY <1>6, <1>10, <3>2 DEF Takes, TakesFrom
    <2>3. OnlyTaken(a, b) BY <2>1, <2>2, OneTaken
    <2>4. TriedFrom(a, 1) = a BY FirstTried
    <2>5. Usable(b) BY <2>1, <2>2 DEF TakesFrom
    <2>6. Usable(a) => b = a
      <3>1. 1 \in 1 .. NSlots BY Sizes
      <3>2. Usable(a) => TakesFrom(a, 1) BY <2>4 DEF TakesFrom
      <3> QED BY <2>3, <2>4, <3>1, <3>2 DEF OnlyTaken
    <2>7. (RingAt(current))' /\ (NextBlank(f) => (NextBlank(current))')
      BY <1>3, <1>7, <1>10, RingKept
    <2>8. CASE slots[b].st = "SPACE"
      <3>1. NoPartial
        <4> SUFFICES ASSUME NEW k \in SlotNos, slots[k].st = "PARTIAL" PROVE FALSE
          BY DEF NoPartial
        <4>1. f # 0 /\ meta[f].addr = k BY <1>3 DEF PartialAt
        <4>2. k = a /\ Usable(a) BY <1>6, <4>1 DEF Usable
        <4> QED BY <2>6, <2>8, <4>2
      <3>2. New'
        <4>1. HostRepeats \/ wr'.sent = 0
          BY <1>3, <1>7, <3>1 DEF Begun, TypeInv, MeasTypeOK
        <4> QED BY <1>10, <2>1, <2>8, <3>1, <4>1 DEF New, NoPartial
      <3>3. (Rest(current))'
        <4>1. CASE NextBlank(f) BY <2>7, <4>1 DEF Rest
        <4>2. CASE NextRepeats(f)
          <5>1. (NextRepeats(current))'
            BY <1>7, <1>10, <4>2
               DEF NextRepeats, OnlyTaken, TakesFrom, TriedFrom, Usable
          <5> QED BY <2>7, <5>1 DEF Rest
        <4> QED BY <1>3, <4>1, <4>2 DEF Rest
      <3>4. f + 1 \in 1 .. NMeta - 1 => meta'[f + 1].addr \in {Blank, tgt'}
        <4>1. CASE NextBlank(f) BY <1>10, <4>1 DEF NextBlank
        <4>2. CASE NextRepeats(f)
          BY <1>6, <1>10, <2>1, <2>2, <4>2 DEF NextRepeats, OnlyTaken
        <4> QED BY <1>3, <4>1, <4>2 DEF Rest
      <3>5. f # 0 => OnlyTaken(meta[current].addr, tgt)'
        BY <1>6, <1>7, <1>10, <2>1, <2>3 DEF OnlyTaken, TakesFrom, TriedFrom, Usable
      <3>6. ent' = EntryToWrite /\ pc' = IF Wraps THEN "ring" ELSE "entry"
        BY <1>7, <1>10, <2>1, <2>8
      <3> QED BY <1>3, <1>7, <3>2, <3>3, <3>4, <3>5, <3>6, NewFilePlace
    <2>9. CASE slots[b].st = "PARTIAL"
      <3>1. f # 0 /\ meta[f].addr = b /\ a = b BY <1>3, <1>6, <2>9 DEF PartialAt
      <3>2. ~NextRepeats(f)
        <4> SUFFICES ASSUME NextRepeats(f) PROVE FALSE OBVIOUS
        <4>1. meta[f + 1].addr = b
          BY <2>1, <2>2, <3>1 DEF NextRepeats, OnlyTaken
        <4> QED BY <2>9, <4>1 DEF NextRepeats
      <3>3. Writing'
        BY <1>3, <1>7, <1>10, <2>1, <2>7, <3>1, <3>2 DEF Writing, Rest
      <3>4. (PartialAt(current))'
        <4>1. wr'.sent = wr.sent BY <1>3, <1>7 DEF TypeInv, MeasTypeOK
        <4>2. Owed' = Owed BY <4>1 DEF Owed
        <4> QED BY <1>3, <1>7, <1>10, <4>2 DEF PartialAt
      <3>5. slots'[tgt'].st = "PARTIAL" BY <1>10, <2>1, <2>9
      <3> QED BY <1>7, <3>3, <3>4, <3>5 DEF PlaceOK
    <2> QED BY <2>5, <2>8, <2>9 DEF Usable
  <1> QED BY <1>8, <1>9, <1>10

LEMMA StepPlace ==
  ASSUME CautiousUse, RingInv, [Next]_vars PROVE PlaceOK' \/ (EraseChip /\ StaleOK')
  <1>1. CASE EraseChip BY <1>1, EraseChipPlace DEF RingInv
  <1>2. CASE Command /\ ~EraseChip
    BY <1>2, CallWritePlace, ReadPlace DEF Command
  <1>3. CASE Work
    BY <1>3, EraseRingPlace, WriteEntryPlace, RetireEntryPlace, WriteHeaderPlace,
       MarkUnreadPlace, EraseNextPlace, WriteDataPlace DEF Work
  <1>4. CASE Crash BY <1>4, CrashPlace
  <1>5. CASE Restart BY <1>5, RestartPlace
  <1>6. CASE UNCHANGED vars
    BY <1>6 DEF vars, call, host, RingInv, PlaceOK, Resting, RestOK, Rest, RingAt,
       FirstRound, NextBlank, NextRepeats, OnlyTaken, TakesFrom, TriedFrom, Usable,
       PartialAt, Owed, Begun, Ahead, New, NoPartial, EntryOK, RetireOK, Writing, NextSlot,
       NoFile
  <1> QED BY <1>1, <1>2, <1>3, <1>4, <1>5, <1>6 DEF Next

EmptyRest == pc \in {"idle", "down"} /\ slots = ErasedSlots /\ wr = NoFile /\ doubt = {}

\* From there a call to write goes astray; only a restart leads back.
LEMMA StepStale ==
  ASSUME TypeInv, StaleOK, [Next]_vars PROVE (PlaceOK' /\ EmptyRest') \/ StaleOK'
  <1>1. /\ \A k \in SlotNos : slots[k].st = "SPACE"
        /\ current \in 1 .. NMeta /\ Found = current /\ Latest = Blank
    <2>1. \A k \in SlotNos : slots[k].st = "SPACE" BY DEF StaleOK, ErasedSlots, FreeSlot
    <2>2. current \in 1 .. NMeta BY Sizes DEF StaleOK, TypeInv, MeasTypeOK
    <2>3. Found = current BY <2>2 DEF Found, StaleOK
    <2>4. meta[current].addr = Blank BY <2>2 DEF StaleOK, ErasedMeta
    <2> QED BY <2>1, <2>2, <2>3, <2>4 DEF Latest, StaleOK
  <1>2. ASSUME NEW file \in Files, CallWrite(file) PROVE StaleOK'
    <2>1. /\ pc' = "stray" /\ current' = current
          /\ UNCHANGED <<slots, meta, wrapped, doubt>>
      BY <1>1, <1>2 DEF CallWrite
    <2> QED BY <2>1 DEF StaleOK, ErasedSlots, ErasedMeta, FreeSlot
  <1>3. ~Read BY <1>1 DEF Read, FirstUnread, UnreadAt
  <1>4. CASE ReadNone
    <2>1. /\ pc' = pc /\ current' = current /\ wr' = wr
          /\ UNCHANGED <<slots, meta, wrapped, doubt>>
      BY <1>1, <1>4 DEF ReadNone
    <2> QED BY <2>1 DEF StaleOK, ErasedSlots, ErasedMeta, FreeSlot, NoFile
  <1>5. CASE EraseChip
    <2>1. /\ slots' = ErasedSlots /\ meta' = ErasedMeta /\ current' = current
          /\ wrapped' = FALSE /\ pc' = "idle" /\ wr' = NoFile /\ doubt' = {}
      BY <1>5 DEF EraseChip
    <2> QED BY <2>1 DEF StaleOK, NoFile, ErasedSlots, ErasedMeta, FreeSlot
  <1>6. ~Work
    BY DEF StaleOK, Work, EraseRing, WriteEntry, RetireEntry, WriteHeader, MarkUnread,
           EraseNext, WriteData
  <1>7. CASE Crash
    <2>1. 0 \in SlotNos BY Sizes DEF SlotNos
    <2>2. ~Occupied BY <1>1, <2>1 DEF Occupied, Usable
    <2>3. pc = "idle" BY <1>7 DEF Crash, StaleOK
    <2>4. slots' = slots /\ meta' = meta
      BY <1>7, <2>2, <2>3 DEF Crash, Torn, UnderErase
    <2>5. wr' = NoFile /\ current' = 0 /\ pc' = "down" /\ wrapped' = FALSE
      BY <1>7, <2>3 DEF Crash, StaleOK, TypeInv, MeasTypeOK
    <2>6. Resting' BY <2>4, <2>5, ErasedRests, NoFileNone DEF StaleOK
    <2>7. doubt' = {}
      <3>1. HalfWritten = {} BY <1>1, <2>2, <2>3 DEF HalfWritten, UnderErase
      <3> QED BY <1>7, <3>1 DEF Crash, StaleOK
    <2>8. EmptyRest' BY <2>4, <2>5, <2>7 DEF EmptyRest, StaleOK, NoFile, ErasedSlots, FreeSlot
    <2> QED BY <2>5, <2>6, <2>8 DEF PlaceOK
  <1>8. ~Restart BY DEF Restart, StaleOK
  <1>9. CASE UNCHANGED vars
    BY <1>9 DEF vars, call, host, StaleOK, ErasedSlots, ErasedMeta, FreeSlot, NoFile
  <1> QED BY <1>2, <1>3, <1>4, <1>5, <1>6, <1>7, <1>8, <1>9 DEF Next, Command

RingStale == TypeInv /\ (HostRepeats \/ ReadingOK) /\ StaleOK

LEMMA StepRing ==
  CautiousUse /\ (RingInv \/ RingStale) /\ [Next]_vars => (RingInv \/ RingStale)'
  <1> SUFFICES ASSUME CautiousUse, RingInv \/ RingStale, [Next]_vars
               PROVE  RingInv' \/ RingStale'
    OBVIOUS
  <1>1. TypeInv /\ (HostRepeats \/ ReadingOK) BY DEF RingInv, RingStale
  <1>2. TypeInv' BY <1>1, StepTypes
  <1>3. HostRepeats \/ ReadingOK' BY <1>1, StepReading DEF CautiousUse
  <1>4. PlaceOK' \/ StaleOK'
    <2>1. CASE RingInv BY <2>1, StepPlace
    <2>2. CASE RingStale BY <2>2, StepStale DEF RingStale
    <2> QED BY <2>1, <2>2
  <1> QED BY <1>2, <1>3, <1>4 DEF RingInv, RingStale

LEMMA InitRing == Init => RingInv
  <1> SUFFICES ASSUME Init PROVE RingInv OBVIOUS
  <1>1. TypeInv BY InitTypes
  <1>2. /\ \A e \in 1 .. NMeta : meta[e].addr = Blank /\ meta[e].st = "NEW"
        /\ \A k \in SlotNos : slots[k].st = "SPACE"
        /\ current = 0 /\ wrapped = FALSE /\ pc = "idle"
    BY DEF Init, ErasedMeta, ErasedSlots, FreeSlot
  <1>3. Rest(0) BY <1>2, Sizes DEF Rest, RingAt, FirstRound, NextBlank
  <1>4. wr.sent = 0 /\ ReadingOK BY NoFileNone DEF Init, ReadingOK
  <1>5. RestOK(0) BY <1>2, <1>3, <1>4 DEF RestOK, PartialAt, Ahead, Begun
  <1>6. PlaceOK BY <1>2, <1>5, Sizes DEF PlaceOK, Resting
  <1> QED BY <1>1, <1>4, <1>6 DEF RingInv

LEMMA RingInvariance == ASSUME CautiousUse PROVE Spec => [](RingInv \/ RingStale)
  <1>1. (RingInv \/ RingStale) /\ [Next]_vars => (RingInv \/ RingStale)' BY StepRing
  <1> QED BY <1>1, InitRing, PTL DEF Spec

\* Wherever the power fails before the entries go round, a write leaves the
\* allocations in one way only: as the first one since the chip was erased, by
\* a device that was not restarted in between.
THEOREM StraysOnlyThen == ASSUME CautiousUse PROVE Spec => StraysOnlyAfterErase
  <1>1. (RingInv \/ RingStale) /\ [Next]_vars
           => [(pc # "stray" /\ pc' = "stray") => (pc = "idle" /\ Outlived)]_vars
    <2> SUFFICES ASSUME RingInv \/ RingStale, [Next]_vars, pc # "stray", pc' = "stray"
                 PROVE  pc = "idle" /\ Outlived
      OBVIOUS
    <2>1. ~RingInv BY StepPlace DEF PlaceOK, EraseChip
    <2> QED BY <2>1 DEF RingStale, StaleOK, Outlived
  <1> QED BY <1>1, RingInvariance, PTL DEF StraysOnlyAfterErase, Spec

\* In the first round of the entries a restart finds in flash the latest file
\* that is known in RAM.
THEOREM LatestIsFound == ASSUME CautiousUse PROVE Spec => []LatestStoredFirstRound
  <1>1. RingInv => LatestStoredFirstRound
    <2> SUFFICES ASSUME RingInv, pc = "idle", ~wrapped, current # 0
                 PROVE  /\ WalkFinds("ACTIVE") # 0
                        /\ meta[WalkFinds("ACTIVE")].addr = meta[current].addr
      BY DEF LatestStoredFirstRound, LatestStored
    <2>1. PICK f \in 0 .. NMeta - 1 : RingAt(f)
      BY DEF RingInv, PlaceOK, Resting, RestOK, Rest
    <2>2. f = current BY <2>1 DEF RingAt
    <2>3. WalkFinds("ACTIVE") = f BY <2>1, <2>2, FoundIs DEF RingInv
    <2> QED BY <2>2, <2>3
  <1>2. RingStale => LatestStoredFirstRound
    BY DEF RingStale, StaleOK, LatestStoredFirstRound, LatestStored, Outlived
  <1> QED BY <1>1, <1>2, RingInvariance, PTL

\* With a host that repeats its part: between two measurements the allocation
\* behind the latest is erased, and one file at most is PARTIAL.
THEOREM SpaceIsAhead == ASSUME CautiousUse, HostRepeats PROVE Spec => []SpaceAhead
  <1>1. ASSUME RingInv, pc = "idle", wr = NoFile, Latest \in SlotNos
        PROVE  slots[NextSlot(Latest)].st = "SPACE"
    <2>1. PICK f \in 0 .. NMeta - 1 : RingAt(f) /\ Ahead(f)
      BY <1>1 DEF RingInv, PlaceOK, Resting, RestOK, Rest
    <2>2. TypeInv BY <1>1 DEF RingInv
    <2>3. f # 0 BY <1>1, <2>1, <2>2, FoundIs, Distinct
    <2>4. Latest = meta[f].addr BY <2>1, <2>2, <2>3, FoundIs
    <2> QED BY <1>1, <2>1, <2>3, <2>4 DEF Ahead
  <1>2. ASSUME RingInv
        PROVE  Cardinality({k \in SlotNos : slots[k].st = "PARTIAL"}) <= 1
    <2> DEFINE S == {k \in SlotNos : slots[k].st = "PARTIAL"}
    <2>1. NoPartial \/ \E f \in 0 .. NMeta : PartialAt(f)
      <3>1. pc \in Pcs /\ current \in 0 .. NMeta
        BY <1>2 DEF RingInv, TypeInv, MeasTypeOK
      <3>2. CASE pc \in {"idle", "down"}
        <4>1. PICK f \in 0 .. NMeta - 1 : PartialAt(f)
          BY <1>2, <3>2 DEF RingInv, PlaceOK, Resting, RestOK
        <4> QED BY <4>1, Sizes
      <3>3. CASE pc \in {"unread", "data"}
        BY <1>2, <3>1, <3>3 DEF RingInv, PlaceOK
      <3>4. CASE pc \in {"ring", "entry", "retire", "header", "next", "last"}
        BY <1>2, <3>4 DEF RingInv, PlaceOK, EntryOK, RetireOK, New
      <3>5. pc # "stray" BY <1>2 DEF RingInv, PlaceOK
      <3> QED BY <3>1, <3>2, <3>3, <3>4, <3>5 DEF Pcs
    <2>2. S = {} \/ \E k : S = {k}
      <3>1. \A j, k \in S : j = k BY <2>1 DEF NoPartial, PartialAt
      <3> HIDE DEF S
      <3> QED BY <3>1
    <2>3. CASE S = {} BY <2>3, FS_EmptySet
    <2>4. CASE \E k : S = {k}
      <3>1. PICK k : S = {k} BY <2>4
      <3> HIDE DEF S
      <3>2. Cardinality(S) = 1 BY <3>1, FS_Singleton
      <3>3. Cardinality(S) <= 1 BY <3>2
      <3> QED BY <3>3 DEF S
    <2> QED BY <2>2, <2>3, <2>4
  <1>3. RingInv => SpaceAhead BY <1>1, <1>2 DEF SpaceAhead
  <1>4. RingStale => SpaceAhead
    <2> SUFFICES ASSUME RingStale PROVE SpaceAhead OBVIOUS
    <2>1. {k \in SlotNos : slots[k].st = "PARTIAL"} = {}
      BY DEF RingStale, StaleOK, ErasedSlots, FreeSlot
    <2>2. Cardinality({k \in SlotNos : slots[k].st = "PARTIAL"}) <= 1
      <3>1. Cardinality({k \in SlotNos : slots[k].st = "PARTIAL"}) = 0
        BY <2>1, FS_EmptySet, Zenon
      <3> QED BY <3>1
    <2>3. Latest = Blank
      <3>1. current \in 1 .. NMeta BY Sizes DEF RingStale, StaleOK, TypeInv, MeasTypeOK
      <3>2. meta[current].addr = Blank BY <3>1 DEF RingStale, StaleOK, ErasedMeta
      <3> QED BY <3>1, <3>2 DEF Latest, Found
    <2> QED BY <2>2, <2>3, Distinct DEF SpaceAhead
  <1> QED BY <1>3, <1>4, RingInvariance, PTL
-----------------------------------------------------------------------------
(***************************************************************************)
(* What the store holds: a measurement that is UNREAD is whole.  If the    *)
(* host repeats nothing power may fail anywhere, and what is left half     *)
(* written is in doubt; if it repeats its part nothing is ever in doubt,   *)
(* for power that does not fail between the UNREAD mark and the last part. *)
(***************************************************************************)
SafeUse ==
    /\ ~CrashLate /\ KeyIsSafe
    /\ HostRepeats => CrashPcs \cap {"next", "last"} = {}

\* Allocation k holds what the device has of the host's measurement: the cells
\* sent, and perhaps some of a part whose writing was cut short.
Received(k) ==
    /\ Len(slots[k].data) = MeasLen
    /\ \A c \in 1 .. MeasLen : slots[k].data[c] \in {Blank, wr.file[c]}
    /\ \A c \in 1 .. wr.sent : slots[k].data[c] = wr.file[c]

\* Allocation t is being finished: marked, with its last part to come.
Finishing == pc \in {"next", "last"}

\* What allocation k holds in each state, unless it is in doubt.
Sound(k) ==
    /\ slots[k].st = "UNREAD" => slots[k].data \in Files \/ (Finishing /\ k = tgt)
    /\ slots[k].st = "PARTIAL" => wr # NoFile /\ Received(k)
    /\ slots[k].st = "SPACE" => slots[k].data = <<>>

HoldsOK ==
    /\ HostRepeats => doubt = {}
    /\ \A k \in SlotNos \ doubt : Sound(k)
    /\ Finishing => slots[tgt].st = "UNREAD" /\ (tgt \notin doubt => Received(tgt))

SentOK ==
    /\ pc \in {"idle", "down"} /\ wr.sent # 0 => ~NoPartial
    /\ pc \in {"ring", "entry", "retire", "header"} => wr.sent = 0
    /\ pc \in {"unread", "next", "last"} => req.n = req.rem

\* A host that repeats its part never finds every allocation occupied.
SpareOK == HostRepeats /\ pc # "next" => ~Occupied

WholeInv == RingInv /\ ReadingOK /\ HoldsOK /\ SentOK /\ SpareOK

(***************************************************************************)
(* What is UNREAD is whole.  What a measurement has come to is told by the *)
(* state, the length and the cells of an allocation.                       *)
(***************************************************************************)
\* Programming a part adds the cells sent to what was received.
LEMMA PartReceived ==
  ASSUME TypeInv, pc \in {"data", "last"}, Received(tgt), NEW m \in 0 .. req.n
  PROVE  /\ PartStart = wr.sent
         /\ \A k \in SlotNos \ {tgt} : WithPart(m)[k] = slots[k]
         /\ WithPart(m)[tgt].st = slots[tgt].st
         /\ Len(WithPart(m)[tgt].data) = MeasLen
         /\ \A c \in 1 .. MeasLen : WithPart(m)[tgt].data[c] \in {Blank, wr.file[c]}
         /\ \A c \in 1 .. wr.sent + m : WithPart(m)[tgt].data[c] = wr.file[c]
  <1> DEFINE d == slots[tgt].data
             cell(c) == IF c > PartStart /\ c <= PartStart + m
                        THEN ProgramCell(d[c], wr.file[wr.sent + c - PartStart])
                        ELSE d[c]
             new == [c \in DOMAIN d |-> cell(c)]
  <1>1. /\ tgt \in SlotNos /\ slots \in [SlotNos -> Slot]
        /\ d \in Seq(Vals \cup {Blank, Mixed}) /\ Len(d) = MeasLen
    BY DEF TypeInv, MeasTypeOK, Slot, Received
  <1>2. /\ wr.sent \in 0 .. MeasLen /\ req.rem = MeasLen - wr.sent
        /\ req.n <= req.rem /\ req.n \in Nat
    BY DEF TypeInv, MeasTypeOK, RequestOK, Busy
  <1>3. DOMAIN d = 1 .. MeasLen /\ PartStart = wr.sent
    BY <1>1, <1>2, Sizes DEF PartStart
  <1>4. ASSUME NEW c \in 1 .. MeasLen
        PROVE  /\ cell(c) \in {Blank, wr.file[c]}
               /\ c <= wr.sent + m => cell(c) = wr.file[c]
    <2>1. d[c] \in {Blank, wr.file[c]} BY DEF Received
    <2>2. c <= wr.sent => d[c] = wr.file[c] BY <1>2 DEF Received
    <2>3. wr.sent + c - PartStart = c BY <1>2, <1>3
    <2>4. ProgramCell(d[c], wr.file[c]) = wr.file[c] BY <2>1 DEF ProgramCell
    <2>5. CASE c > PartStart /\ c <= PartStart + m BY <2>3, <2>4, <2>5
    <2>6. CASE ~(c > PartStart /\ c <= PartStart + m)
      <3>1. cell(c) = d[c] BY <2>6
      <3>2. c <= wr.sent + m => c <= wr.sent BY <1>2, <1>3, <2>6
      <3> QED BY <2>1, <2>2, <3>1, <3>2
    <2> QED BY <2>5, <2>6
  <1>5. /\ new \in Seq(Vals \cup {Blank, Mixed}) /\ Len(new) = MeasLen
        /\ \A c \in 1 .. MeasLen : new[c] = cell(c)
    <2>1. \A c \in 1 .. MeasLen : cell(c) \in Vals \cup {Blank, Mixed}
      <3> SUFFICES ASSUME NEW c \in 1 .. MeasLen PROVE cell(c) \in Vals \cup {Blank, Mixed}
        OBVIOUS
      <3>1. wr.file \in [1 .. MeasLen -> Vals]
        BY MeasAssumption DEF TypeInv, RequestOK, Busy
      <3>2. cell(c) \in {Blank, wr.file[c]} BY <1>4
      <3> HIDE DEF cell
      <3> QED BY <3>1, <3>2
    <2> HIDE DEF cell
    <2>2. new \in [1 .. MeasLen -> Vals \cup {Blank, Mixed}] BY <1>3, <2>1
    <2>3. \A c \in 1 .. MeasLen : new[c] = cell(c) BY <1>3
    <2> HIDE DEF new, d
    <2> QED BY <2>2, <2>3, Sizes
  <1>6. WithPart(m) = [slots EXCEPT ![tgt].data = new] BY DEF WithPart
  <1> HIDE DEF new, cell
  <1>7. /\ [slots EXCEPT ![tgt].data = new][tgt].st = slots[tgt].st
        /\ [slots EXCEPT ![tgt].data = new][tgt].data = new
        /\ \A k \in SlotNos \ {tgt} : [slots EXCEPT ![tgt].data = new][k] = slots[k]
    BY <1>1 DEF Slot
  <1>8. \A c \in 1 .. wr.sent + m : c \in 1 .. MeasLen /\ c <= wr.sent + m BY <1>2, Sizes
  <1> QED BY <1>3, <1>4, <1>5, <1>6, <1>7, <1>8

\* While a measurement is written its allocation holds what was sent.
LEMMA TargetReceived ==
  ASSUME WholeInv, pc \in {"unread", "data", "next", "last"}
  PROVE  /\ tgt \notin doubt => Received(tgt)
         /\ pc \in {"unread", "data"} => slots[tgt].st = "PARTIAL"
         /\ pc \in {"next", "last"} => NoPartial
  <1>1. pc \in {"unread", "data"} => slots[tgt].st = "PARTIAL" /\ tgt \in SlotNos
    BY DEF WholeInv, RingInv, TypeInv, MeasTypeOK, PlaceOK
  <1>2. pc \in {"next", "last"} => NoPartial BY DEF WholeInv, RingInv, PlaceOK
  <1>3. pc \in {"unread", "data"} /\ tgt \notin doubt => Received(tgt)
    BY <1>1 DEF WholeInv, HoldsOK, Sound
  <1>4. pc \in {"next", "last"} /\ tgt \notin doubt => Received(tgt)
    BY DEF WholeInv, HoldsOK, Finishing
  <1> QED BY <1>1, <1>2, <1>3, <1>4

\* What a step that programs no data keeps.
LEMMA HoldsKept ==
  ASSUME HoldsOK, ~Finishing, (~Finishing)', wr' = wr, HostRepeats => doubt' = {},
         \A k \in SlotNos \ doubt' :
            \/ k \notin doubt /\ slots'[k] = slots[k]
            \/ slots'[k] = FreeSlot
            \/ slots'[k].st \notin {"UNREAD", "PARTIAL", "SPACE"}
  PROVE  HoldsOK'
  <1>1. ASSUME NEW k \in SlotNos \ doubt' PROVE Sound(k)'
    <2>1. CASE k \notin doubt /\ slots'[k] = slots[k]
      <3>1. Sound(k) BY <2>1 DEF HoldsOK
      <3> QED BY <2>1, <3>1 DEF Sound, Received, NoFile
    <2>2. CASE slots'[k] = FreeSlot BY <2>2 DEF Sound, FreeSlot
    <2>3. CASE slots'[k].st \notin {"UNREAD", "PARTIAL", "SPACE"} BY <2>3 DEF Sound
    <2> QED BY <1>1, <2>1, <2>2, <2>3
  <1> QED BY <1>1 DEF HoldsOK

LEMMA CallWriteHolds ==
  ASSUME WholeInv, RingInv', NEW file \in Files, CallWrite(file) PROVE HoldsOK' /\ SentOK'
  <1>1. pc = "idle" /\ wr' = [wr EXCEPT !.file = file] /\ (wr = NoFile \/ wr.file = file)
    BY DEF CallWrite
  <1>2. /\ TypeInv /\ slots \in [SlotNos -> Slot] /\ 0 \in SlotNos
        /\ wr \in [file : Files \cup {<<>>}, sent : 0 .. MeasLen]
        /\ wr.sent \in 0 .. MeasLen
    BY Sizes DEF WholeInv, RingInv, TypeInv, MeasTypeOK, SlotNos
  <1>3. wr'.sent = wr.sent /\ wr'.file = file BY <1>1, <1>2
  <1>4. wr # NoFile => wr' = wr BY <1>1, <1>2
  <1>5. pc' # "stray" BY DEF RingInv, PlaceOK
  <1>6. \/ Occupied /\ slots' = Freed(0) /\ tgt' = 0 /\ doubt' = doubt \ {0}
        \/ \E i \in 1 .. NSlots :
              Takes(i) /\ tgt' = Tried(i) /\ slots' = slots /\ doubt' = doubt
    BY <1>5 DEF CallWrite
  <1>7. IF slots'[tgt'].st = "SPACE"
        THEN pc' \in {"ring", "entry"}
        ELSE pc' = "data" \/ (pc' = "unread" /\ req'.n = req'.rem)
    BY <1>5 DEF CallWrite, AfterHeader
  <1>8. (~Finishing)' BY <1>7 DEF Finishing
  <1>9. /\ \A k \in SlotNos \ doubt' :
              (k \notin doubt /\ slots'[k] = slots[k]) \/ slots'[k] = FreeSlot
        /\ HostRepeats => doubt' = {}
    <2>1. HostRepeats => doubt = {} BY DEF WholeInv, HoldsOK
    <2>2. Freed(0)[0] = FreeSlot BY <1>2 DEF Freed
    <2> QED BY <1>2, <1>6, <2>1, <2>2, FreedType
  <1>10. HoldsOK'
    <2>1. CASE wr = NoFile
      <3>1. ASSUME NEW k \in SlotNos \ doubt' PROVE Sound(k)'
        <4>1. CASE k \notin doubt /\ slots'[k] = slots[k]
          <5>1. Sound(k) BY <4>1 DEF WholeInv, HoldsOK
          <5> QED BY <1>1, <2>1, <4>1, <5>1 DEF Sound, Finishing
        <4>2. CASE slots'[k] = FreeSlot BY <4>2 DEF Sound, FreeSlot
        <4> QED BY <1>9, <4>1, <4>2
      <3> QED BY <1>8, <1>9, <3>1 DEF HoldsOK
    <2>2. CASE wr # NoFile
      BY <1>1, <1>4, <1>8, <1>9, <2>2, HoldsKept DEF WholeInv, Finishing
    <2> QED BY <2>1, <2>2
  <1>11. slots'[tgt'].st = "SPACE" => wr.sent = 0
    <2> SUFFICES ASSUME slots'[tgt'].st = "SPACE" PROVE NoPartial
      BY <1>1 DEF WholeInv, SentOK
    <2>1. NoPartial' BY <1>7 DEF RingInv, PlaceOK, New, EntryOK
    <2>2. CASE slots' = slots BY <2>1, <2>2 DEF NoPartial
    <2>3. CASE Occupied BY <2>3 DEF Occupied, Usable, NoPartial
    <2> QED BY <1>6, <2>2, <2>3
  <1> QED BY <1>3, <1>7, <1>10, <1>11 DEF SentOK

LEMMA WorkHolds ==
  ASSUME WholeInv, RingInv', Work PROVE HoldsOK' /\ SentOK'
  <1>1. /\ TypeInv /\ slots \in [SlotNos -> Slot] /\ tgt \in SlotNos
        /\ HoldsOK /\ SentOK /\ (HostRepeats => doubt = {})
    BY DEF WholeInv, RingInv, TypeInv, MeasTypeOK, HoldsOK
  <1>2. CASE EraseRing
    <2>1. slots' = slots /\ wr' = wr /\ pc = "ring" /\ pc' = "entry" /\ doubt' = doubt
      BY <1>2 DEF EraseRing, host
    <2> QED BY <1>1, <2>1, HoldsKept DEF SentOK, Finishing
  <1>3. CASE WriteEntry
    <2>1. /\ wr' = wr /\ pc = "entry" /\ pc' \in {"retire", "header"} /\ slots' = slots
          /\ doubt' = doubt
      <3>1. ent # NMeta
        BY <1>3, Sizes DEF WholeInv, RingInv, PlaceOK, EntryOK, WriteEntry
      <3> QED BY <1>3, <3>1 DEF WriteEntry, host
    <2> QED BY <1>1, <2>1, HoldsKept DEF SentOK, Finishing
  <1>4. CASE RetireEntry
    <2>1. slots' = slots /\ wr' = wr /\ pc = "retire" /\ pc' = "header" /\ doubt' = doubt
      BY <1>4 DEF RetireEntry, host
    <2> QED BY <1>1, <2>1, HoldsKept DEF SentOK, Finishing
  <1>5. CASE WriteHeader
    <2>1. /\ wr' = wr /\ tgt' = tgt /\ req' = req /\ pc = "header" /\ doubt' = doubt
          /\ pc' = "data" \/ (pc' = "unread" /\ req.n = req.rem)
      BY <1>5 DEF WriteHeader, AfterHeader, host, call
    <2>2. wr.sent = 0 /\ wr.file \in Files /\ req.rem = MeasLen /\ slots[tgt].st = "SPACE"
      <3>1. wr.sent = 0 /\ wr.file \in Files /\ req.rem = MeasLen
        BY <1>1, <2>1, Sizes DEF SentOK, TypeInv, RequestOK, Busy
      <3> QED BY <2>1, <3>1 DEF WholeInv, RingInv, PlaceOK, New
    <2> DEFINE new == Headed(slots[tgt].data, MeasLen)
    <2>3. Mark(tgt, "PARTIAL") \in [SlotNos -> Slot]
          /\ Mark(tgt, "PARTIAL")[tgt].data = slots[tgt].data
      BY <1>1, MarkType
    <2>4. /\ slots'[tgt].data = new
          /\ \A k \in SlotNos \ {tgt} : slots'[k] = Mark(tgt, "PARTIAL")[k]
          /\ slots'[tgt].st = Mark(tgt, "PARTIAL")[tgt].st
      <3>1. slots' = [Mark(tgt, "PARTIAL") EXCEPT ![tgt].data =
                         Headed(Mark(tgt, "PARTIAL")[tgt].data, req.rem)]
        BY <1>1, <1>5, <2>3 DEF WriteHeader, Headed
      <3>2. slots' = [Mark(tgt, "PARTIAL") EXCEPT ![tgt].data = new]
        BY <2>2, <2>3, <3>1
      <3> HIDE DEF new
      <3> QED BY <1>1, <2>3, <3>2 DEF Slot
    <2>5. \A k \in SlotNos \ {tgt} : slots'[k] = slots[k] BY <1>1, <2>4, MarkType
    <2>6. slots'[tgt].st \in {"PARTIAL", "OBSOLETE"} BY <1>1, <2>4, MarkType
    <2>7. tgt \notin doubt => Received(tgt)'
      <3> SUFFICES ASSUME tgt \notin doubt PROVE Received(tgt)' OBVIOUS
      <3>1. slots[tgt].data = <<>> BY <1>1, <2>2 DEF HoldsOK, Sound
      <3>2. \A c \in 1 .. MeasLen : new[c] = Blank BY <3>1 DEF Headed
      <3>3. Len(new) = MeasLen
        <4>1. slots[tgt].data \in Seq(Vals \cup {Blank, Mixed}) BY <1>1 DEF Slot
        <4> QED BY <4>1, Sizes, HeadedType
      <3>4. 1 .. wr.sent = {} BY <2>2
      <3> HIDE DEF new
      <3> QED BY <2>1, <2>4, <3>2, <3>3, <3>4 DEF Received
    <2> HIDE DEF new
    <2>8. wr # NoFile BY <2>2, NoFileNone
    <2>9. ASSUME NEW k \in SlotNos \ doubt' PROVE Sound(k)'
      <3>1. CASE k = tgt
        <4>1. PICK t \in SlotNos : t = tgt BY <1>1
        <4>2. Received(t)' BY <2>1, <2>7, <3>1, <4>1 DEF Received
        <4> QED BY <2>1, <2>6, <2>8, <3>1, <4>1, <4>2 DEF NoFile, Sound
      <3>2. CASE k # tgt
        <4>1. slots'[k] = slots[k] /\ Sound(k) BY <1>1, <2>1, <2>5, <3>2 DEF HoldsOK
        <4> QED BY <2>1, <4>1 DEF Sound, Finishing, Received, NoFile
      <3> QED BY <3>1, <3>2
    <2>10. HoldsOK' BY <1>1, <2>1, <2>9 DEF HoldsOK, Finishing
    <2>11. SentOK' BY <2>1 DEF SentOK
    <2> QED BY <2>10, <2>11
  <1>6. CASE MarkUnread
    <2>1. /\ wr' = wr /\ tgt' = tgt /\ req' = req /\ pc = "unread" /\ pc' = "next"
          /\ slots' = Mark(tgt, "UNREAD") /\ doubt' = doubt
      BY <1>6 DEF MarkUnread, host, call
    <2>2. /\ slots'[tgt].data = slots[tgt].data /\ slots'[tgt].st = "UNREAD"
          /\ \A k \in SlotNos \ {tgt} : slots'[k] = slots[k]
      BY <1>1, <2>1, MarkType, TargetReceived
    <2>3. tgt \notin doubt => Received(tgt)' BY <2>1, <2>2, TargetReceived DEF Received
    <2>4. NoPartial' BY <2>1 DEF RingInv, PlaceOK
    <2>5. ASSUME NEW k \in SlotNos \ doubt' PROVE Sound(k)'
      <3>1. CASE k = tgt
        BY <2>1, <2>2, <3>1 DEF Sound, Finishing
      <3>2. CASE k # tgt
        <4>1. slots'[k] = slots[k] /\ Sound(k) BY <1>1, <2>1, <2>2, <3>2 DEF HoldsOK
        <4>2. slots'[k].st # "PARTIAL" BY <2>4 DEF NoPartial
        <4> QED BY <2>1, <4>1, <4>2 DEF Sound, Finishing
      <3> QED BY <3>1, <3>2
    <2>6. HoldsOK' BY <1>1, <2>1, <2>2, <2>3, <2>5 DEF HoldsOK, Finishing
    <2>7. SentOK' BY <1>1, <2>1 DEF SentOK
    <2> QED BY <2>6, <2>7
  <1>7. CASE EraseNext
    <2>1. PICK n \in SlotNos : n = NextSlot(tgt) /\ n # tgt BY <1>1, NextRange
    <2>2. /\ wr' = wr /\ tgt' = tgt /\ req' = req /\ pc = "next" /\ pc' = "last"
          /\ slots' = Freed(n) /\ doubt' = doubt \ {n}
      BY <1>7, <2>1 DEF EraseNext, host, call
    <2>3. /\ slots'[n] = FreeSlot /\ \A k \in SlotNos \ {n} : slots'[k] = slots[k]
      BY <1>1, <2>2, FreedType DEF Freed
    <2>4. slots'[tgt] = slots[tgt] BY <1>1, <2>1, <2>3
    <2>5. tgt \notin doubt' => Received(tgt)'
      BY <2>1, <2>2, <2>4, TargetReceived DEF Received
    <2>6. NoPartial' BY <2>2 DEF RingInv, PlaceOK
    <2>7. ASSUME NEW k \in SlotNos \ doubt' PROVE Sound(k)'
      <3>1. CASE k = n
        BY <2>3, <3>1 DEF Sound, FreeSlot
      <3>2. CASE k # n
        <4>1. slots'[k] = slots[k] /\ Sound(k) BY <1>1, <2>2, <2>3, <3>2 DEF HoldsOK
        <4>2. slots'[k].st # "PARTIAL" BY <2>6 DEF NoPartial
        <4> QED BY <2>2, <4>1, <4>2 DEF Sound, Finishing
      <3> QED BY <3>1, <3>2
    <2>8. HoldsOK'
      <3>1. slots[tgt].st = "UNREAD" BY <1>1, <2>2 DEF HoldsOK, Finishing
      <3> QED BY <1>1, <2>2, <2>4, <2>5, <2>7, <3>1 DEF HoldsOK, Finishing
    <2>9. SentOK' BY <1>1, <2>2 DEF SentOK
    <2> QED BY <2>8, <2>9
  <1>8. CASE WriteData
    <2>1. pc \in {"data", "last"} BY <1>8 DEF WriteData
    <2>2. tgt \notin doubt => Received(tgt) BY <2>1, TargetReceived
    <2>3. PartStart >= 0 /\ ~(PartStart < 0) /\ req.n \in 0 .. req.n
      <3>1. req.n \in 0 .. req.n BY <1>1 DEF TypeInv, MeasTypeOK
      <3>2. PartStart >= 0 BY <2>1, DataFits DEF WholeInv
      <3>3. PartStart \in Int BY <1>1, <2>1, PlaceTypes DEF PartStart
      <3> QED BY <3>1, <3>2, <3>3
    <2>4. /\ slots' = WithPart(req.n) /\ pc' = "idle" /\ tgt' = tgt /\ doubt' = doubt
          /\ wr' = IF req.n = req.rem THEN NoFile ELSE [wr EXCEPT !.sent = @ + req.n]
      BY <1>8, <2>3 DEF WriteData
    <2>5. /\ \A k \in SlotNos \ {tgt} : slots'[k] = slots[k]
          /\ slots'[tgt].st = slots[tgt].st
      BY <1>1, <2>1, <2>3, <2>4, WithPartType DEF Busy
    <2>6. tgt \notin doubt =>
          /\ Len(slots'[tgt].data) = MeasLen
          /\ \A c \in 1 .. MeasLen : slots'[tgt].data[c] \in {Blank, wr.file[c]}
          /\ \A c \in 1 .. wr.sent + req.n : slots'[tgt].data[c] = wr.file[c]
      BY <1>1, <2>1, <2>2, <2>3, <2>4, PartReceived
    <2>7. /\ wr \in [file : Files \cup {<<>>}, sent : 0 .. MeasLen]
          /\ wr.file \in Files /\ req.rem = MeasLen - wr.sent /\ wr.sent \in 0 .. MeasLen
          /\ req.n \in Nat /\ req.n <= req.rem
      BY <1>1, <2>1 DEF TypeInv, MeasTypeOK, RequestOK, Busy
    <2>8. CASE pc = "data"
      <3>1. req.n # req.rem /\ slots[tgt].st = "PARTIAL"
        BY <2>8, TargetReceived DEF WholeInv, RingInv, PlaceOK
      <3>2. wr'.file = wr.file /\ wr'.sent = wr.sent + req.n BY <2>4, <2>7, <3>1
      <3>3. wr' # NoFile BY <2>7, <3>2, NoFileNone
      <3>4. PICK t \in SlotNos : t = tgt BY <1>1
      <3>5. t \notin doubt => Received(t)' BY <2>6, <3>2, <3>4 DEF Received
      <3>6. ASSUME NEW k \in SlotNos, slots'[k].st = "PARTIAL" PROVE k = t
        <4>1. PartialAt(current) /\ Writing BY <2>8 DEF WholeInv, RingInv, PlaceOK
        <4> QED BY <2>5, <3>4, <3>6, <4>1 DEF PartialAt, Writing
      <3>7. ASSUME NEW k \in SlotNos \ doubt' PROVE Sound(k)'
        <4>1. CASE k = t BY <2>4, <2>5, <3>1, <3>3, <3>4, <3>5, <3>7, <4>1 DEF Sound, NoFile
        <4>2. CASE k # t
          <5>1. slots'[k] = slots[k] /\ Sound(k)
            BY <1>1, <2>4, <2>5, <3>4, <4>2 DEF HoldsOK
          <5>2. slots'[k].st # "PARTIAL" BY <3>6, <4>2
          <5> QED BY <2>8, <5>1, <5>2 DEF Sound, Finishing
        <4> QED BY <4>1, <4>2
      <3>8. HoldsOK' BY <1>1, <2>4, <3>7 DEF HoldsOK, Finishing
      <3>9. ~NoPartial' BY <2>5, <3>1, <3>4 DEF NoPartial
      <3>10. SentOK' BY <2>4, <3>9 DEF SentOK
      <3> QED BY <3>8, <3>10
    <2>9. CASE pc = "last"
      <3>1. req.n = req.rem /\ NoPartial /\ slots[tgt].st = "UNREAD"
        BY <1>1, <2>9, TargetReceived DEF SentOK, HoldsOK, Finishing
      <3>2. wr' = NoFile /\ wr'.sent = 0 BY <2>4, <3>1, NoFileNone
      <3>3. NoPartial' BY <1>1, <2>5, <3>1 DEF NoPartial
      <3>4. tgt \notin doubt => slots'[tgt].data \in Files
        <4> SUFFICES ASSUME tgt \notin doubt PROVE slots'[tgt].data \in Files OBVIOUS
        <4>1. PICK d : d = slots'[tgt].data OBVIOUS
        <4>2. wr.sent + req.n = MeasLen BY <2>7, <3>1, Sizes
        <4>3. d \in Seq(Vals \cup {Blank, Mixed}) /\ Len(d) = MeasLen
          BY <1>1, <2>6, <4>1 DEF RingInv, TypeInv, MeasTypeOK, Slot
        <4>4. \A c \in 1 .. MeasLen : d[c] = wr.file[c] BY <2>6, <4>1, <4>2
        <4>5. d = [c \in 1 .. MeasLen |-> d[c]] BY <4>3
        <4>6. wr.file \in [1 .. MeasLen -> Vals] BY <2>7, MeasAssumption
        <4>7. d = wr.file BY <4>4, <4>5, <4>6
        <4> QED BY <2>7, <4>1, <4>7
      <3>5. ASSUME NEW k \in SlotNos \ doubt' PROVE Sound(k)'
        <4>1. CASE k = tgt BY <2>4, <2>5, <3>1, <3>4, <3>5, <4>1 DEF Sound
        <4>2. CASE k # tgt
          <5>1. slots'[k] = slots[k] /\ Sound(k)
            BY <1>1, <2>4, <2>5, <4>2 DEF HoldsOK
          <5>2. slots'[k].st # "PARTIAL" BY <3>3 DEF NoPartial
          <5> QED BY <4>2, <5>1, <5>2 DEF Sound
        <4> QED BY <4>1, <4>2
      <3>6. HoldsOK' BY <1>1, <2>4, <3>5 DEF HoldsOK, Finishing
      <3>7. SentOK' BY <2>4, <3>2 DEF SentOK
      <3> QED BY <3>6, <3>7
    <2> QED BY <2>1, <2>8, <2>9
  <1> QED BY <1>2, <1>3, <1>4, <1>5, <1>6, <1>7, <1>8 DEF Work

LEMMA ReadHolds ==
  ASSUME WholeInv, Read \/ ReadNone PROVE HoldsOK' /\ SentOK'
  <1>1. pc = "idle" /\ pc' = pc /\ wr' = wr /\ wr = NoFile /\ doubt' = doubt
    BY DEF Read, ReadNone
  <1>2. slots \in [SlotNos -> Slot] /\ (HostRepeats => doubt = {})
    BY DEF WholeInv, RingInv, TypeInv, MeasTypeOK, HoldsOK
  <1>3. \A k \in SlotNos : slots'[k] = slots[k] \/ slots'[k].st = "READ"
    <2>1. \/ slots' = slots
          \/ \E k \in SlotNos : slots[k].st = "UNREAD" /\ slots' = Mark(k, "READ")
      BY DEF Read, ReadNone, FirstUnread, UnreadAt
    <2>2. CASE \E k \in SlotNos : slots[k].st = "UNREAD" /\ slots' = Mark(k, "READ")
      <3>1. PICK k \in SlotNos : slots[k].st = "UNREAD" /\ slots' = Mark(k, "READ") BY <2>2
      <3>2. slots'[k].st = "READ" /\ \A j \in SlotNos \ {k} : slots'[j] = slots[j]
        BY <1>2, <3>1, MarkType
      <3> QED BY <3>2
    <2> QED BY <2>1, <2>2
  <1>4. HoldsOK' BY <1>1, <1>2, <1>3, HoldsKept DEF WholeInv, Finishing
  <1>5. SentOK' BY <1>1, NoFileNone DEF SentOK
  <1> QED BY <1>4, <1>5

LEMMA CrashHolds ==
  ASSUME SafeUse, WholeInv, Crash PROVE HoldsOK' /\ SentOK'
  <1>1. /\ TypeInv /\ slots \in [SlotNos -> Slot] /\ tgt \in SlotNos
        /\ HoldsOK /\ SentOK /\ (HostRepeats => doubt = {})
    BY DEF WholeInv, RingInv, TypeInv, MeasTypeOK, HoldsOK
  <1>2. /\ tgt' = tgt /\ pc' = "down" /\ pc \in Pcs \ {"stray", "down"}
        /\ wr' = wr \/ wr' = NoFile
        /\ HostRepeats => wr' = wr /\ pc \notin {"next", "last"}
        /\ pc # "idle" /\ ~HostRepeats => wr' = NoFile
        /\ doubt' = doubt \cup HalfWritten
    BY <1>1 DEF Crash, SafeUse, TypeInv, MeasTypeOK
  <1>3. pc # "idle" => wr # NoFile
    <2>1. pc # "idle" => pc \in Busy BY <1>2 DEF Pcs, Busy
    <2> QED BY <1>1, <2>1, NoFileNone DEF TypeInv, RequestOK
  <1>4. HostRepeats => doubt' = {} /\ slots' \in Torn
    <2> SUFFICES ASSUME HostRepeats PROVE doubt' = {} /\ slots' \in Torn OBVIOUS
    <2>1. ~Occupied /\ pc \notin {"next", "last"} /\ wr' = wr
      BY <1>2 DEF WholeInv, SpareOK
    <2>2. UnderErase = {} BY <2>1 DEF UnderErase
    <2>3. HalfWritten = {} BY <2>1, <2>2 DEF HalfWritten
    <2> QED BY <1>1, <1>2, <2>2, <2>3 DEF Crash
  <1>5. CASE HostRepeats /\ pc = "data"
    <2>1. Received(tgt) /\ slots[tgt].st = "PARTIAL"
      BY <1>1, <1>5, TargetReceived
    <2>2. PICK m \in 0 .. req.n : slots' = WithPart(m) \/ slots' = slots
      <3>1. 0 \in 0 .. req.n BY <1>1 DEF TypeInv, MeasTypeOK
      <3> QED BY <1>4, <1>5, <3>1 DEF Torn
    <2>3. CASE slots' = slots
      <3>1. HoldsOK' BY <1>1, <1>2, <1>4, <1>5, <2>3, HoldsKept DEF Finishing
      <3>2. ~NoPartial' BY <1>1, <2>1, <2>3 DEF NoPartial
      <3> QED BY <1>2, <3>1, <3>2 DEF SentOK
    <2>4. CASE slots' = WithPart(m)
      <3>1. PICK t \in SlotNos : t = tgt BY <1>1
      <3>2. /\ \A k \in SlotNos \ {t} : slots'[k] = slots[k]
            /\ slots'[t].st = "PARTIAL" /\ Len(slots'[t].data) = MeasLen
            /\ \A c \in 1 .. MeasLen : slots'[t].data[c] \in {Blank, wr.file[c]}
            /\ \A c \in 1 .. wr.sent + m : slots'[t].data[c] = wr.file[c]
        BY <1>1, <1>5, <2>1, <2>4, <3>1, PartReceived
      <3>3. \A c \in 1 .. wr.sent : c \in 1 .. wr.sent + m
        BY <1>1 DEF TypeInv, MeasTypeOK
      <3>4. Received(t)' BY <1>2, <1>5, <3>2, <3>3 DEF Received
      <3>5. wr # NoFile /\ wr' = wr BY <1>2, <1>3, <1>5
      <3>6. ASSUME NEW k \in SlotNos \ doubt' PROVE Sound(k)'
        <4>1. CASE k = t BY <3>2, <3>4, <3>5, <4>1 DEF Sound, NoFile
        <4>2. CASE k # t
          <5>1. slots'[k] = slots[k] /\ Sound(k) BY <1>1, <1>5, <3>2, <4>2 DEF HoldsOK
          <5> QED BY <1>5, <3>5, <5>1 DEF Sound, Finishing, Received, NoFile
        <4> QED BY <4>1, <4>2
      <3>7. HoldsOK' BY <1>2, <1>4, <1>5, <3>6 DEF HoldsOK, Finishing
      <3>8. ~NoPartial' BY <3>2 DEF NoPartial
      <3> QED BY <1>2, <3>7, <3>8 DEF SentOK
    <2> QED BY <2>2, <2>3, <2>4
  <1>6. CASE ~(HostRepeats /\ pc = "data")
    <2>1. ASSUME NEW k \in SlotNos \ doubt'
          PROVE  /\ k \notin doubt /\ slots'[k] = slots[k]
                 /\ slots[k].st = "PARTIAL" => wr' = wr
                 /\ ~(Finishing /\ k = tgt)
      <3>1. k \in SlotNos /\ k \notin doubt /\ k \notin HalfWritten BY <1>2, <2>1
      <3>2. /\ ~(k = tgt /\ pc \in {"next", "last"})
            /\ slots[k].st = "PARTIAL" => wr' = wr
            /\ k \in UnderErase => slots' = slots
        BY <3>1 DEF HalfWritten
      <3>3. slots'[k] = slots[k]
        <4>1. CASE slots' \in Torn
          <5>1. CASE pc \in {"data", "last"} /\ PartStart >= 0
            <6>1. k # tgt
              <7>1. pc = "data" => slots[tgt].st = "PARTIAL" /\ wr' # wr
                BY <1>2, <1>3, <1>6, TargetReceived
              <7> QED BY <3>2, <5>1, <7>1
            <6>2. PICK m \in 0 .. req.n : slots' = WithPart(m) BY <4>1, <5>1 DEF Torn
            <6> QED BY <1>1, <3>1, <5>1, <6>1, <6>2, WithPartType DEF Busy
          <5>2. CASE ~(pc \in {"data", "last"} /\ PartStart >= 0) BY <4>1, <5>2 DEF Torn
          <5> QED BY <5>1, <5>2
        <4>2. ASSUME NEW j \in UnderErase, NEW m, slots' = HalfErased(j, m)
              PROVE  slots'[k] = slots[k]
          <5>1. j \in SlotNos BY DEF UnderErase
          <5> QED BY <1>1, <3>1, <3>2, <4>2, <5>1, HalfErasedType
        <4> QED BY <4>1, <4>2 DEF Crash
      <3> QED BY <3>1, <3>2, <3>3 DEF Finishing
    <2>2. ASSUME NEW k \in SlotNos \ doubt' PROVE Sound(k)'
      <3>1. /\ slots'[k] = slots[k] /\ (slots[k].st = "PARTIAL" => wr' = wr)
            /\ ~(Finishing /\ k = tgt) /\ Sound(k)
        BY <1>1, <2>1 DEF HoldsOK
      <3> QED BY <3>1 DEF Sound, Received, NoFile
    <2>3. HoldsOK' BY <1>2, <1>4, <2>2 DEF HoldsOK, Finishing
    <2>4. wr'.sent # 0 => ~NoPartial'
      <3> SUFFICES ASSUME wr'.sent # 0 PROVE ~NoPartial' OBVIOUS
      <3>1. wr' = wr BY <1>2, NoFileNone
      <3>2. ~NoPartial /\ pc \notin {"data", "next", "last"}
        <4>1. pc \notin {"data", "next", "last"} BY <1>2, <1>3, <1>6, <3>1
        <4>2. pc = "unread" => ~NoPartial BY <1>1, TargetReceived DEF NoPartial
        <4> QED BY <1>1, <1>2, <3>1, <4>1, <4>2 DEF SentOK, Pcs
      <3>3. ~Occupied BY <3>2 DEF NoPartial, Occupied, Usable
      <3>4. UnderErase = {} BY <3>2, <3>3 DEF UnderErase
      <3>5. slots' = slots BY <3>2, <3>4 DEF Crash, Torn
      <3> QED BY <3>2, <3>5 DEF NoPartial
    <2> QED BY <1>2, <2>3, <2>4 DEF SentOK
  <1> QED BY <1>5, <1>6

LEMMA OtherHolds ==
  ASSUME SafeUse, WholeInv, EraseChip \/ Crash \/ Restart
  PROVE  HoldsOK' /\ SentOK'
  <1>1. TypeInv /\ HoldsOK /\ SentOK /\ ReadingOK BY DEF WholeInv, RingInv
  <1>2. CASE EraseChip
    <2>1. /\ slots' = ErasedSlots /\ wr' = NoFile /\ pc' = "idle" /\ doubt' = {}
      BY <1>2 DEF EraseChip
    <2>2. \A k \in SlotNos : slots'[k] = FreeSlot BY <2>1 DEF ErasedSlots
    <2>3. \A k \in SlotNos : Sound(k)' BY <2>2 DEF Sound, FreeSlot
    <2> QED BY <2>1, <2>3, NoFileNone DEF HoldsOK, SentOK, Finishing
  <1>3. CASE Crash BY <1>3, CrashHolds
  <1>4. CASE Restart
    <2>1. /\ slots' = slots /\ wr' = wr /\ pc = "down" /\ pc' = "idle" /\ doubt' = doubt
      BY <1>1, <1>4 DEF Restart, ReadingOK, host
    <2>2. HoldsOK'
      <3>1. HostRepeats => doubt' = {} BY <1>1, <2>1 DEF HoldsOK
      <3> QED BY <1>1, <2>1, <3>1, HoldsKept DEF Finishing
    <2> QED BY <1>1, <2>1, <2>2 DEF SentOK, NoPartial
  <1> QED BY <1>2, <1>3, <1>4

LEMMA EmptyHolds == EmptyRest => HoldsOK /\ SentOK /\ SpareOK
  <1> SUFFICES ASSUME EmptyRest PROVE HoldsOK /\ SentOK /\ SpareOK OBVIOUS
  <1>1. \A k \in SlotNos : slots[k] = FreeSlot BY DEF EmptyRest, ErasedSlots
  <1>2. \A k \in SlotNos : Sound(k) BY <1>1 DEF Sound, FreeSlot
  <1>3. HoldsOK BY <1>2 DEF HoldsOK, EmptyRest, Finishing
  <1>4. SentOK BY NoFileNone DEF SentOK, EmptyRest
  <1>5. SpareOK
    <2>1. 0 \in SlotNos BY Sizes DEF SlotNos
    <2> QED BY <1>1, <2>1 DEF SpareOK, Occupied, Usable, FreeSlot
  <1> QED BY <1>3, <1>4, <1>5

\* Some allocation is usable after every step but the UNREAD mark.
LEMMA StepSpare ==
  ASSUME SafeUse, WholeInv, PlaceOK', TypeInv', Next PROVE SpareOK'
  <1> SUFFICES ASSUME HostRepeats, pc' # "next" PROVE \E k \in SlotNos : Usable(k)'
    BY DEF SpareOK, Occupied
  <1>1. /\ TypeInv /\ slots \in [SlotNos -> Slot] /\ tgt \in SlotNos /\ tgt' \in SlotNos
        /\ pc' \in Pcs /\ 0 \in SlotNos
    BY Sizes DEF WholeInv, RingInv, TypeInv, MeasTypeOK, SlotNos
  <1>2. CASE pc' \in {"ring", "entry", "retire", "header"}
    BY <1>1, <1>2 DEF PlaceOK, EntryOK, RetireOK, New, Usable
  <1>3. CASE pc' \in {"unread", "data"} BY <1>1, <1>3 DEF PlaceOK, Usable
  <1>4. CASE pc' = "last"
    <2>1. PICK k \in SlotNos : k = NextSlot(tgt)' BY <1>1, NextRange DEF NextSlot
    <2>2. slots'[k].st = "SPACE" BY <1>4, <2>1 DEF PlaceOK, NextSlot
    <2> QED BY <2>2 DEF Usable
  <1>5. CASE pc' \in {"idle", "down"}
    <2>1. CASE \E file \in Files : CallWrite(file)
      BY <1>5, <2>1 DEF CallWrite, AfterHeader
    <2>2. CASE WriteData
      <3>1. pc \in {"data", "last"} /\ PartStart >= 0 /\ slots' = WithPart(req.n)
            /\ req.n \in 0 .. req.n
        <4>1. pc \in {"data", "last"} /\ req.n \in 0 .. req.n
          BY <1>1, <2>2 DEF WriteData, TypeInv, MeasTypeOK
        <4>2. PartStart >= 0 BY <4>1, DataFits DEF WholeInv
        <4>3. PartStart \in Int BY <1>1, <4>1, PlaceTypes DEF PartStart
        <4> QED BY <2>2, <4>1, <4>2, <4>3 DEF WriteData
      <3>2. \A k \in SlotNos : slots'[k].st = slots[k].st
        BY <1>1, <3>1, WithPartType DEF Busy
      <3>3. NextSlot(tgt) \in SlotNos BY <1>1, NextRange
      <3>4. Usable(tgt) \/ Usable(NextSlot(tgt))
        BY <3>1 DEF WholeInv, RingInv, PlaceOK, Usable
      <3>5. \A k \in SlotNos : Usable(k) => Usable(k)' BY <3>2 DEF Usable
      <3> QED BY <1>1, <3>3, <3>4, <3>5
    <2>3. CASE Read \/ ReadNone
      <3>1. PICK k \in SlotNos : Usable(k)
        BY <2>3 DEF Read, ReadNone, WholeInv, SpareOK, Occupied
      <3>2. \/ slots' = slots
            \/ \E j \in SlotNos : slots[j].st = "UNREAD" /\ slots' = Mark(j, "READ")
        BY <2>3 DEF Read, ReadNone, FirstUnread, UnreadAt
      <3>3. slots'[k] = slots[k] BY <1>1, <3>1, <3>2, MarkType DEF Usable
      <3> QED BY <3>1, <3>3 DEF Usable
    <2>4. CASE EraseChip
      BY <1>1, <2>4 DEF EraseChip, ErasedSlots, FreeSlot, Usable
    <2>5. CASE Crash
      <3>1. CASE slots' \in Torn
        <4>1. CASE pc \in {"data", "last"} /\ PartStart >= 0
          <5>1. PICK m \in 0 .. req.n : slots' = WithPart(m) BY <3>1, <4>1 DEF Torn
          <5>2. \A k \in SlotNos : slots'[k].st = slots[k].st
            BY <1>1, <4>1, <5>1, WithPartType DEF Busy
          <5>3. PICK k \in SlotNos : Usable(k) BY <4>1 DEF WholeInv, SpareOK, Occupied
          <5> QED BY <5>2, <5>3 DEF Usable
        <4>2. CASE ~(pc \in {"data", "last"} /\ PartStart >= 0)
          <5>1. slots' = slots BY <3>1, <4>2 DEF Torn
          <5>2. CASE pc # "next"
            <6>1. PICK k \in SlotNos : Usable(k) BY <5>2 DEF WholeInv, SpareOK, Occupied
            <6> QED BY <5>1, <6>1 DEF Usable
          <5>3. pc # "next" BY <2>5 DEF Crash, SafeUse
          <5> QED BY <5>2, <5>3
        <4> QED BY <4>1, <4>2
      <3>2. ASSUME NEW k \in UnderErase, NEW m, slots' = HalfErased(k, m)
            PROVE  \E j \in SlotNos : Usable(j)'
        <4>1. k \in SlotNos BY DEF UnderErase
        <4> QED BY <1>1, <3>2, <4>1, HalfErasedType DEF Usable
      <3> QED BY <2>5, <3>1, <3>2 DEF Crash
    <2>6. CASE Restart
      <3>1. slots' = slots /\ pc = "down" BY <2>6 DEF Restart, WholeInv, ReadingOK
      <3>2. PICK k \in SlotNos : Usable(k) BY <3>1 DEF WholeInv, SpareOK, Occupied
      <3> QED BY <3>1, <3>2 DEF Usable
    <2>7. CASE Work /\ ~WriteData
      BY <1>5, <2>7 DEF Work, EraseRing, WriteEntry, RetireEntry, WriteHeader, AfterHeader,
                        MarkUnread, EraseNext
    <2> QED BY <2>1, <2>2, <2>3, <2>4, <2>5, <2>6, <2>7 DEF Next, Command
  <1>6. pc' # "stray" BY DEF PlaceOK
  <1> QED BY <1>1, <1>2, <1>3, <1>4, <1>5, <1>6 DEF Pcs

WholeStale == TypeInv /\ ReadingOK /\ StaleOK

LEMMA NeverBoth == ~(RingInv /\ StaleOK)
  <1> SUFFICES ASSUME RingInv, StaleOK PROVE FALSE OBVIOUS
  <1>1. pc = "idle" /\ current # 0 /\ meta = ErasedMeta
    BY DEF StaleOK, RingInv, PlaceOK
  <1>2. PICK f \in 0 .. NMeta - 1 : RingAt(f)
    BY <1>1 DEF RingInv, PlaceOK, Resting, RestOK, Rest
  <1>3. f # 0 /\ meta[f].addr \in SlotNos BY <1>1, <1>2 DEF RingAt
  <1>4. meta[f].addr = Blank BY <1>1, <1>3, Sizes DEF ErasedMeta
  <1> QED BY <1>3, <1>4, Distinct

LEMMA StepWhole ==
  SafeUse /\ (WholeInv \/ WholeStale) /\ [Next]_vars =>
     /\ (WholeInv \/ WholeStale)'
     /\ WholeInv => WholeInv' \/ EraseChip
     /\ WholeStale => slots' = ErasedSlots /\ pc' \in {"idle", "down", "stray"}
  <1> SUFFICES ASSUME SafeUse, WholeInv \/ WholeStale, [Next]_vars
               PROVE  /\ WholeInv' \/ WholeStale'
                      /\ WholeInv => WholeInv' \/ EraseChip
                      /\ WholeStale => slots' = ErasedSlots /\ pc' \in {"idle", "down", "stray"}
    BY DEF ErasedSlots, FreeSlot
  <1>1. CautiousUse /\ KeyIsSafe /\ TypeInv /\ ReadingOK
    BY DEF SafeUse, CautiousUse, WholeInv, RingInv, WholeStale
  <1>2. TypeInv' /\ ReadingOK' BY <1>1, StepTypes, StepReading
  <1>3. CASE WholeInv
    <2>1. PlaceOK' \/ (EraseChip /\ StaleOK') BY <1>1, <1>3, StepPlace DEF WholeInv
    <2>2. PlaceOK' => WholeInv'
      <3> SUFFICES ASSUME PlaceOK' PROVE WholeInv' OBVIOUS
      <3>1. RingInv' BY <1>2 DEF RingInv
      <3>2. HoldsOK' /\ SentOK' /\ SpareOK'
        <4>1. CASE Next
          BY <1>2, <1>3, <3>1, <4>1, CallWriteHolds, WorkHolds, ReadHolds, OtherHolds,
             StepSpare DEF Next, Command
        <4>2. CASE UNCHANGED vars
          BY <1>3, <4>2 DEF vars, call, host, WholeInv, HoldsOK, SentOK, SpareOK, Sound,
                            Finishing, NoPartial, Received, NoFile, Occupied, Usable
        <4> QED BY <4>1, <4>2
      <3> QED BY <1>2, <3>1, <3>2 DEF WholeInv
    <2>3. ~WholeStale BY <1>3, NeverBoth DEF WholeInv, WholeStale
    <2> QED BY <1>2, <2>1, <2>2, <2>3 DEF WholeStale
  <1>4. CASE WholeStale
    <2>1. (PlaceOK' /\ EmptyRest') \/ StaleOK' BY <1>4, StepStale DEF WholeStale
    <2>2. EmptyRest' => HoldsOK' /\ SentOK' /\ SpareOK'
      <3>1. (EmptyRest => HoldsOK /\ SentOK /\ SpareOK)' BY EmptyHolds, PTL
      <3> QED BY <3>1
    <2>3. ~WholeInv BY <1>4, NeverBoth DEF WholeInv, WholeStale
    <2> QED BY <1>2, <2>1, <2>2, <2>3 DEF WholeInv, RingInv, WholeStale, StaleOK, EmptyRest
  <1> QED BY <1>3, <1>4

LEMMA InitWhole == Init => WholeInv
  <1> SUFFICES ASSUME Init PROVE WholeInv OBVIOUS
  <1>1. RingInv BY InitRing
  <1>2. ReadingOK BY DEF Init, ReadingOK
  <1>3. EmptyRest BY DEF Init, EmptyRest
  <1> QED BY <1>1, <1>2, <1>3, EmptyHolds DEF WholeInv

\* Between calls a measurement marked UNREAD is, unless it is in doubt, one the
\* host sent, whole: for the tool, wherever power fails before the entries go
\* round; for a host that repeats its part nothing is in doubt.
THEOREM UnreadStaysWhole == ASSUME SafeUse PROVE Spec => []UnreadIsWhole
  <1>1. (WholeInv \/ WholeStale) /\ [Next]_vars => (WholeInv \/ WholeStale)' BY StepWhole
  <1>2. WholeInv => UnreadIsWhole BY DEF WholeInv, HoldsOK, Sound, Finishing, UnreadIsWhole
  <1>3. WholeStale => UnreadIsWhole
    BY DEF WholeStale, StaleOK, ErasedSlots, FreeSlot, UnreadIsWhole
  <1> QED BY <1>1, <1>2, <1>3, InitWhole, PTL DEF Spec
-----------------------------------------------------------------------------
(***************************************************************************)
(* MeasStore implements MeasQueue, with a host that repeats its part.      *)
(***************************************************************************)

(***************************************************************************)
(* A set in the order of a key t, as a sequence.  An element's place is    *)
(* how many come earlier; every place up to the size of the set is taken   *)
(* by one element, so a sequence is told by what it has at their places.   *)
(***************************************************************************)
EarlierIn(U, t, k) == Cardinality({j \in U : t[j] < t[k]})

Listed(U, t, d) ==
    [n \in 1 .. Cardinality(U) |-> d[CHOOSE k \in U : EarlierIn(U, t, k) = n - 1]]

\* U is finite, and t tells its elements apart.
Ordered(U, t) ==
    /\ IsFiniteSet(U)
    /\ \A k \in U : t[k] \in Nat
    /\ \A j, k \in U : t[j] = t[k] => j = k

LEMMA PlaceRange ==
  ASSUME NEW U, NEW t, Ordered(U, t), NEW k \in U
  PROVE  Cardinality(U) \in Nat /\ EarlierIn(U, t, k) \in 0 .. Cardinality(U) - 1
  <1> DEFINE S == {j \in U : t[j] < t[k]}
  <1>1. IsFiniteSet(U) /\ t[k] \in Nat BY DEF Ordered
  <1>2. S \subseteq U \ {k} BY <1>1
  <1>3. IsFiniteSet(U \ {k}) /\ Cardinality(U \ {k}) = Cardinality(U) - 1
    BY <1>1, FS_RemoveElement
  <1>4. Cardinality(S) <= Cardinality(U \ {k}) /\ IsFiniteSet(S) BY <1>2, <1>3, FS_Subset
  <1>5. Cardinality(S) \in Nat /\ Cardinality(U) \in Nat BY <1>1, <1>4, FS_CardinalityType
  <1>6. EarlierIn(U, t, k) = Cardinality(S) BY DEF EarlierIn
  <1> HIDE DEF S
  <1> QED BY <1>3, <1>4, <1>5, <1>6

LEMMA PlacesGrow ==
  ASSUME NEW U, NEW t, Ordered(U, t), NEW j \in U, NEW k \in U, t[j] < t[k]
  PROVE  EarlierIn(U, t, j) < EarlierIn(U, t, k)
  <1> DEFINE S == {i \in U : t[i] < t[j]}
             T == {i \in U : t[i] < t[k]}
  <1>1. IsFiniteSet(U) /\ \A i \in U : t[i] \in Nat BY DEF Ordered
  <1>2. S \cup {j} \subseteq T /\ j \notin S BY <1>1
  <1>3. IsFiniteSet(S) /\ IsFiniteSet(T) BY <1>1, FS_Subset
  <1>4. Cardinality(S \cup {j}) = Cardinality(S) + 1 BY <1>2, <1>3, FS_AddElement
  <1>5. Cardinality(S \cup {j}) <= Cardinality(T) BY <1>2, <1>3, FS_Subset
  <1>6. Cardinality(S) \in Nat /\ Cardinality(T) \in Nat BY <1>3, FS_CardinalityType
  <1>7. EarlierIn(U, t, j) = Cardinality(S) /\ EarlierIn(U, t, k) = Cardinality(T)
    BY DEF EarlierIn
  <1> HIDE DEF S, T
  <1> QED BY <1>4, <1>5, <1>6, <1>7

LEMMA OnePlaceEach ==
  ASSUME NEW U, NEW t, Ordered(U, t), NEW j \in U, NEW k \in U,
         EarlierIn(U, t, j) = EarlierIn(U, t, k)
  PROVE  j = k
  <1>1. t[j] \in Nat /\ t[k] \in Nat /\ (t[j] = t[k] => j = k) BY DEF Ordered
  <1>2. EarlierIn(U, t, j) \in Int /\ EarlierIn(U, t, k) \in Int BY PlaceRange
  <1>3. ~(t[j] < t[k]) BY <1>2, PlacesGrow
  <1>4. ~(t[k] < t[j]) BY <1>2, PlacesGrow
  <1> QED BY <1>1, <1>3, <1>4

LEMMA EveryPlaceTaken ==
  ASSUME NEW U, NEW t, Ordered(U, t), NEW n \in 1 .. Cardinality(U)
  PROVE  \E k \in U : EarlierIn(U, t, k) = n - 1
  <1> DEFINE f == [k \in U |-> EarlierIn(U, t, k) + 1]
  <1>1. IsFiniteSet(U) BY DEF Ordered
  <1>2. PICK c \in Nat : c = Cardinality(U) BY <1>1, FS_CardinalityType
  <1>3. IsFiniteSet(1 .. c) /\ Cardinality(1 .. c) = c BY FS_Interval
  <1>4. \A k \in U : f[k] \in 1 .. c
    <2> SUFFICES ASSUME NEW k \in U PROVE f[k] \in 1 .. c OBVIOUS
    <2>1. EarlierIn(U, t, k) \in 0 .. c - 1 BY <1>2, PlaceRange
    <2> QED BY <2>1
  <1>5. \A j, k \in U : f[j] = f[k] => j = k
    <2> SUFFICES ASSUME NEW j \in U, NEW k \in U, f[j] = f[k] PROVE j = k OBVIOUS
    <2>1. EarlierIn(U, t, j) \in Int /\ EarlierIn(U, t, k) \in Int BY PlaceRange
    <2>2. EarlierIn(U, t, j) = EarlierIn(U, t, k) BY <2>1
    <2> QED BY <2>2, OnePlaceEach
  <1>6. f \in [U -> 1 .. c] BY <1>4
  <1>7. f \in Injection(U, 1 .. c) BY <1>5, <1>6, Zenon DEF Injection, IsInjective
  <1>8. f \in Surjection(U, 1 .. c) BY <1>2, <1>3, <1>7, FS_Injection
  <1>9. PICK k \in U : f[k] = n BY <1>2, <1>8 DEF Surjection
  <1>10. EarlierIn(U, t, k) \in Int BY PlaceRange
  <1> QED BY <1>9, <1>10

LEMMA ListedAt ==
  ASSUME NEW U, NEW t, NEW d, Ordered(U, t), NEW k \in U
  PROVE  /\ EarlierIn(U, t, k) + 1 \in 1 .. Cardinality(U)
         /\ Listed(U, t, d)[EarlierIn(U, t, k) + 1] = d[k]
  <1> DEFINE n == EarlierIn(U, t, k) + 1
  <1>1. /\ n \in 1 .. Cardinality(U) /\ EarlierIn(U, t, k) = n - 1 BY PlaceRange
  <1>2. (CHOOSE j \in U : EarlierIn(U, t, j) = n - 1) = k
    <2> DEFINE P(j) == EarlierIn(U, t, j) = n - 1
    <2>1. P(k) BY <1>1
    <2>2. \A j \in U : P(j) => j = k BY <1>1, OnePlaceEach
    <2> HIDE DEF P
    <2>3. (CHOOSE j \in U : P(j)) = k BY <2>1, <2>2
    <2> QED BY <2>3 DEF P
  <1> HIDE DEF n
  <1>3. Listed(U, t, d)[n] = d[CHOOSE j \in U : EarlierIn(U, t, j) = n - 1]
    BY <1>1 DEF Listed
  <1>4. Listed(U, t, d)[n] = d[k] BY <1>2, <1>3
  <1> QED BY <1>1, <1>4 DEF n

\* Sequence s has the value of every element at its place.
Fits(s, U, t, d) ==
    /\ DOMAIN s = 1 .. Cardinality(U)
    /\ s = [n \in DOMAIN s |-> s[n]]
    /\ \A k \in U : s[EarlierIn(U, t, k) + 1] = d[k]

LEMMA ListedIs ==
  ASSUME NEW U, NEW t, NEW d, Ordered(U, t), NEW s, Fits(s, U, t, d)
  PROVE  s = Listed(U, t, d)
  <1> DEFINE l == Listed(U, t, d)
  <1>1. ASSUME NEW n \in 1 .. Cardinality(U) PROVE s[n] = l[n]
    <2>1. PICK k \in U : EarlierIn(U, t, k) = n - 1 BY EveryPlaceTaken
    <2>2. EarlierIn(U, t, k) + 1 = n BY <2>1, PlaceRange
    <2>3. l[n] = d[k] BY <2>2, ListedAt
    <2> QED BY <2>2, <2>3 DEF Fits
  <1>2. l = [n \in 1 .. Cardinality(U) |-> l[n]] BY DEF Listed
  <1> HIDE DEF l
  <1>3. s = [n \in 1 .. Cardinality(U) |-> s[n]] BY DEF Fits
  <1>4. s = l BY <1>1, <1>2, <1>3
  <1> QED BY <1>4 DEF l

\* A sequence of the values of d, one for each element.
LEMMA ListedType ==
  ASSUME NEW U, NEW t, NEW d, Ordered(U, t), NEW V, \A k \in U : d[k] \in V
  PROVE  /\ Listed(U, t, d) \in Seq(V) /\ Listed(U, t, d) \in [1 .. Cardinality(U) -> V]
         /\ Len(Listed(U, t, d)) = Cardinality(U)
         /\ Cardinality(U) \in Nat
  <1> DEFINE l == Listed(U, t, d)
  <1>1. Cardinality(U) \in Nat BY FS_CardinalityType DEF Ordered
  <1>2. PICK c \in Nat : c = Cardinality(U) BY <1>1
  <1>3. l = [n \in 1 .. c |-> l[n]] BY <1>2 DEF Listed
  <1>4. ASSUME NEW n \in 1 .. c PROVE l[n] \in V
    <2>1. PICK k \in U : EarlierIn(U, t, k) = n - 1 BY <1>2, EveryPlaceTaken
    <2>2. EarlierIn(U, t, k) + 1 = n BY <2>1, PlaceRange
    <2>3. l[n] = d[k] BY <2>2, ListedAt
    <2> QED BY <2>3
  <1> HIDE DEF l
  <1>5. l \in [1 .. c -> V] BY <1>3, <1>4
  <1>6. l \in Seq(V) /\ Len(l) = c BY <1>5
  <1> QED BY <1>1, <1>2, <1>5, <1>6 DEF l

\* Only the order tells, not the key.
LEMMA ListedSame ==
  ASSUME NEW U, NEW t, NEW d, Ordered(U, t), NEW u, NEW e, Ordered(U, u),
         NEW V, \A k \in U : d[k] \in V,
         \A j, k \in U : t[j] < t[k] <=> u[j] < u[k],
         \A k \in U : d[k] = e[k]
  PROVE  Listed(U, t, d) = Listed(U, u, e)
  <1> DEFINE s == Listed(U, t, d)
  <1>1. s \in [1 .. Cardinality(U) -> V] BY ListedType
  <1>2. ASSUME NEW k \in U PROVE s[EarlierIn(U, u, k) + 1] = e[k]
    <2>1. {j \in U : t[j] < t[k]} = {j \in U : u[j] < u[k]} OBVIOUS
    <2>2. EarlierIn(U, t, k) = EarlierIn(U, u, k) BY <2>1 DEF EarlierIn
    <2>3. s[EarlierIn(U, t, k) + 1] = d[k] BY ListedAt
    <2> QED BY <2>2, <2>3
  <1> HIDE DEF s
  <1>3. Fits(s, U, u, e) BY <1>1, <1>2 DEF Fits
  <1>4. s = Listed(U, u, e) BY <1>3, ListedIs
  <1> QED BY <1>4 DEF s

\* W is U and the later m, or U without the first, and d and e agree on the rest.
Grows(U, W, m, t, d, e, V) ==
    /\ W = U \cup {m} /\ m \notin U
    /\ Ordered(W, t) /\ \A k \in U : t[k] < t[m]
    /\ \A k \in U : d[k] = e[k] /\ d[k] \in V
    /\ e[m] \in V

Shrinks(U, W, m, t, d, e, V) ==
    /\ W = U \ {m} /\ m \in U
    /\ Ordered(U, t) /\ \A k \in W : t[m] < t[k]
    /\ \A k \in W : d[k] = e[k] /\ d[k] \in V
    /\ d[m] \in V

Adds(s, l, x) == s = Append(l, x)

Drops(s, l, x) == l # <<>> /\ Head(l) = x /\ s = Tail(l)

LEMMA ListedAppend ==
  ASSUME NEW U, NEW W, NEW m, NEW t, NEW d, NEW e, NEW V, Grows(U, W, m, t, d, e, V)
  PROVE  Adds(Listed(W, t, e), Listed(U, t, d), e[m])
  <1> DEFINE l == Listed(U, t, d)
             s == Append(l, e[m])
  <1>0. /\ W = U \cup {m} /\ m \notin U
        /\ Ordered(W, t) /\ \A k \in U : t[k] < t[m]
        /\ \A k \in U : d[k] = e[k] /\ d[k] \in V
        /\ e[m] \in V
    BY DEF Grows
  <1> USE <1>0
  <1>1. Ordered(U, t)
    <2>1. IsFiniteSet(U) BY FS_Subset DEF Ordered
    <2> QED BY <2>1 DEF Ordered
  <1>2. PICK c \in Nat : c = Cardinality(U) BY <1>1, ListedType
  <1>3. Cardinality(W) = c + 1 BY <1>1, <1>2, FS_AddElement DEF Ordered
  <1>4. l \in Seq(V) /\ Len(l) = c BY <1>1, <1>2, ListedType
  <1>5. \A k \in U : EarlierIn(U, t, k) + 1 \in 1 .. c /\ l[EarlierIn(U, t, k) + 1] = d[k]
    BY <1>1, <1>2, ListedAt
  <1> HIDE DEF l
  <1>6. /\ s \in [1 .. c + 1 -> V] /\ s[c + 1] = e[m]
        /\ \A n \in 1 .. c : s[n] = l[n]
    <2>1. s \in Seq(V) /\ Len(s) = Len(l) + 1 BY <1>4
    <2>2. /\ s[Len(l) + 1] = e[m]
          /\ \A n \in 1 .. Len(l) : s[n] = l[n]
      BY <1>4
    <2> HIDE DEF s
    <2> QED BY <1>4, <2>1, <2>2
  <1>7. \A k \in W : t[k] \in Nat BY DEF Ordered
  <1>8. ASSUME NEW k \in U PROVE s[EarlierIn(W, t, k) + 1] = e[k]
    <2>1. ~(t[m] < t[k]) BY <1>7
    <2>2. {j \in W : t[j] < t[k]} = {j \in U : t[j] < t[k]} BY <2>1
    <2>3. EarlierIn(W, t, k) = EarlierIn(U, t, k) BY <2>2 DEF EarlierIn
    <2>4. s[EarlierIn(U, t, k) + 1] = l[EarlierIn(U, t, k) + 1] BY <1>5, <1>6
    <2> QED BY <1>5, <2>3, <2>4
  <1>9. s[EarlierIn(W, t, m) + 1] = e[m]
    <2>1. ~(t[m] < t[m]) BY <1>7
    <2>2. {j \in W : t[j] < t[m]} = U BY <2>1
    <2>3. EarlierIn(W, t, m) = c BY <1>2, <2>2 DEF EarlierIn
    <2> QED BY <1>6, <2>3
  <1> HIDE DEF s
  <1>10. \A k \in W : s[EarlierIn(W, t, k) + 1] = e[k] BY <1>8, <1>9
  <1>11. s \in [1 .. Cardinality(W) -> V] BY <1>3, <1>6
  <1>13. Fits(s, W, t, e) BY <1>10, <1>11 DEF Fits
  <1>14. s = Listed(W, t, e) BY <1>13, ListedIs
  <1> QED BY <1>14 DEF s, l, Adds

LEMMA ListedTail ==
  ASSUME NEW U, NEW W, NEW m, NEW t, NEW d, NEW e, NEW V, Shrinks(U, W, m, t, d, e, V)
  PROVE  Drops(Listed(W, t, e), Listed(U, t, d), d[m])
  <1> DEFINE l == Listed(U, t, d)
             s == Tail(l)
  <1>0. /\ W = U \ {m} /\ m \in U
        /\ Ordered(U, t) /\ \A k \in W : t[m] < t[k]
        /\ \A k \in U : d[k] \in V
        /\ \A k \in W : d[k] = e[k]
    BY DEF Shrinks
  <1> USE <1>0
  <1>1. IsFiniteSet(U) /\ Cardinality(U) \in Nat BY FS_CardinalityType DEF Ordered
  <1>2. Ordered(W, t)
    <2>1. IsFiniteSet(W) BY <1>1, FS_Subset
    <2> QED BY <2>1 DEF Ordered
  <1>3. PICK c \in Nat : c = Cardinality(W) BY <1>2, ListedType
  <1>4. Cardinality(U) = c + 1
    <2>1. Cardinality(W) = Cardinality(U) - 1 BY <1>1, FS_RemoveElement
    <2> QED BY <1>1, <1>3, <2>1
  <1>5. l \in Seq(V) /\ Len(l) = c + 1 BY <1>4, ListedType
  <1>6. \A k \in U : EarlierIn(U, t, k) + 1 \in 1 .. c + 1 /\ l[EarlierIn(U, t, k) + 1] = d[k]
    BY <1>4, ListedAt
  <1>7. \A k \in W : EarlierIn(W, t, k) + 1 \in 1 .. c BY <1>2, <1>3, ListedAt
  <1> HIDE DEF l
  <1>8. \A k \in U : t[k] \in Nat BY DEF Ordered
  <1>9. /\ s \in [1 .. c -> V] /\ l # <<>> /\ Head(l) = l[1]
        /\ \A n \in 1 .. c : s[n] = l[n + 1]
    <2>1. l # <<>> /\ Head(l) = l[1] BY <1>5
    <2>2. s \in Seq(V) /\ Len(s) = Len(l) - 1 /\ \A n \in 1 .. Len(l) - 1 : s[n] = l[n + 1]
      BY <1>5, <2>1
    <2> HIDE DEF s
    <2> QED BY <1>5, <2>1, <2>2
  <1>10. ASSUME NEW k \in W PROVE s[EarlierIn(W, t, k) + 1] = e[k]
    <2>1. {j \in U : t[j] < t[k]} = {j \in W : t[j] < t[k]} \cup {m} OBVIOUS
    <2>2. IsFiniteSet({j \in W : t[j] < t[k]}) BY <1>2, FS_Subset DEF Ordered
    <2>3. EarlierIn(U, t, k) = EarlierIn(W, t, k) + 1
      BY <2>1, <2>2, FS_AddElement DEF EarlierIn
    <2>4. PICK n \in 1 .. c : n = EarlierIn(W, t, k) + 1 BY <1>7
    <2>5. l[n + 1] = d[k] BY <1>6, <2>3, <2>4
    <2>6. s[n] = l[n + 1] BY <1>9
    <2> QED BY <2>4, <2>5, <2>6
  <1>11. Head(l) = d[m]
    <2>1. \A k \in U : ~(t[k] < t[m]) BY <1>8
    <2>2. {j \in U : t[j] < t[m]} = {} BY <2>1
    <2>3. EarlierIn(U, t, m) = 0 BY <2>2, FS_EmptySet DEF EarlierIn
    <2>4. l[1] = d[m] BY <1>6, <2>3
    <2> QED BY <1>9, <2>4
  <1> HIDE DEF s
  <1>12. s \in [1 .. Cardinality(W) -> V] BY <1>3, <1>9
  <1>13. Fits(s, W, t, e) BY <1>10, <1>12 DEF Fits
  <1>14. s = Listed(W, t, e) BY <1>2, <1>13, ListedIs
  <1> QED BY <1>9, <1>11, <1>14 DEF s, l, Drops

-----------------------------------------------------------------------------
(***************************************************************************)
(* The turns of the reader's walk behind allocation a: it comes to the     *)
(* next one first and to a last, and a walk behind the next one comes to   *)
(* the others in the same order.                                           *)
(***************************************************************************)
TurnFrom(a, k) == CHOOSE i \in 1 .. NSlots + 1 : VisitedFrom(a, i) = k

TurnsFrom(a) == [k \in SlotNos |-> TurnFrom(a, k)]

LEMMA TurnVisits ==
  \A a : \A k \in SlotNos :
    TurnFrom(a, k) \in 1 .. NSlots + 1 /\ VisitedFrom(a, TurnFrom(a, k)) = k
  <1> SUFFICES ASSUME NEW a, NEW k \in SlotNos
               PROVE  TurnFrom(a, k) \in 1 .. NSlots + 1 /\ VisitedFrom(a, TurnFrom(a, k)) = k
    OBVIOUS
  <1>1. \E i \in 1 .. NSlots + 1 : VisitedFrom(a, i) = k BY EveryOneVisited
  <1> QED BY <1>1, Zenon DEF TurnFrom

LEMMA AllocationsFinite == IsFiniteSet(SlotNos) /\ Cardinality(SlotNos) = NSlots
  <1>1. IsFiniteSet(0 .. NSlots - 1) /\ Cardinality(0 .. NSlots - 1) = NSlots
    BY FS_Interval, Sizes
  <1> QED BY <1>1 DEF SlotNos

LEMMA TurnsOrder ==
  ASSUME NEW a, NEW U, U \subseteq SlotNos PROVE Ordered(U, TurnsFrom(a))
  <1>1. IsFiniteSet(U) BY AllocationsFinite, FS_Subset
  <1>2. \A k \in U : TurnsFrom(a)[k] = TurnFrom(a, k) BY DEF TurnsFrom
  <1>3. \A k \in U : TurnFrom(a, k) \in Nat BY TurnVisits, Sizes
  <1>4. \A j, k \in U : TurnFrom(a, j) = TurnFrom(a, k) => j = k
    <2> SUFFICES ASSUME NEW j \in U, NEW k \in U, TurnFrom(a, j) = TurnFrom(a, k) PROVE j = k
      OBVIOUS
    <2>1. VisitedFrom(a, TurnFrom(a, j)) = j /\ VisitedFrom(a, TurnFrom(a, k)) = k
      BY TurnVisits
    <2> QED BY <2>1, Zenon
  <1> QED BY <1>1, <1>2, <1>3, <1>4 DEF Ordered

LEMMA VisitedIn ==
  ASSUME NEW a \in SlotNos, NEW k \in SlotNos, NEW i \in 1 .. NSlots + 1, VisitedFrom(a, i) = k
  PROVE  i = IF k > a THEN k - a ELSE NSlots + 1 + k - a
  <1> DEFINE n == NSlots + 1
  <1>1. i \in 1 .. n /\ VisitedFrom(a, i) = k OBVIOUS
  <1>2. a \in 0 .. n - 2 /\ k \in 0 .. n - 2 /\ n \in Nat \ {0} BY Sizes DEF SlotNos
  <1>3. (a + i) % n = k BY <1>1 DEF VisitedFrom
  <1> HIDE DEF n
  <1>4. CASE a + i <= n - 1
    <2>1. a + i \in 0 .. n - 1 BY <1>1, <1>2, <1>4
    <2>2. (a + i) % n = a + i BY <1>2, <2>1, Modulo
    <2>3. k = a + i BY <1>3, <2>2
    <2>4. k > a /\ i = k - a BY <1>1, <1>2, <2>3
    <2> QED BY <2>4
  <1>5. CASE ~(a + i <= n - 1)
    <2>1. PICK r \in 0 .. n - 1 : a + i = n + r
      <3>1. a + i - n \in 0 .. n - 1 /\ a + i = n + (a + i - n) BY <1>1, <1>2, <1>5
      <3> QED BY <3>1
    <2>2. (n + r) % n = r BY <1>2, ModuloRound
    <2>3. k = r BY <1>3, <2>1, <2>2
    <2>4. ~(k > a) /\ i = n + k - a BY <1>1, <1>2, <2>1, <2>3
    <2> QED BY <2>4 DEF n
  <1> QED BY <1>4, <1>5

LEMMA TurnIs ==
  \A a, k \in SlotNos : TurnFrom(a, k) = IF k > a THEN k - a ELSE NSlots + 1 + k - a
  BY TurnVisits, VisitedIn

\* The walk ends with the allocation it begins behind, and begins with the next.
LEMMA FirstAndLast ==
  ASSUME NEW a \in SlotNos, NEW k \in SlotNos
  PROVE  /\ k # a => TurnFrom(a, k) < TurnFrom(a, a)
         /\ k # NextSlot(a) => TurnFrom(a, NextSlot(a)) < TurnFrom(a, k)
  <1>1. a \in 0 .. NSlots - 1 /\ k \in 0 .. NSlots - 1 /\ NSlots \in Nat /\ NSlots >= 2
    BY Sizes DEF SlotNos
  <1>2. NextSlot(a) \in SlotNos BY NextRange
  <1>3. /\ TurnFrom(a, k) = IF k > a THEN k - a ELSE NSlots + 1 + k - a
        /\ TurnFrom(a, a) = NSlots + 1
        /\ TurnFrom(a, NextSlot(a)) =
             IF NextSlot(a) > a THEN NextSlot(a) - a ELSE NSlots + 1 + NextSlot(a) - a
    <2>1. TurnFrom(a, a) = IF a > a THEN a - a ELSE NSlots + 1 + a - a BY TurnIs
    <2>2. TurnFrom(a, a) = NSlots + 1 BY <1>1, <2>1
    <2> QED BY <1>2, <2>2, TurnIs
  <1> QED BY <1>1, <1>3 DEF NextSlot

LEMMA SameOrder ==
  ASSUME NEW a \in SlotNos, NEW j \in SlotNos \ {NextSlot(a)}, NEW k \in SlotNos \ {NextSlot(a)}
  PROVE  TurnFrom(a, j) < TurnFrom(a, k) <=> TurnFrom(NextSlot(a), j) < TurnFrom(NextSlot(a), k)
  <1>1. /\ a \in 0 .. NSlots - 1 /\ j \in 0 .. NSlots - 1 /\ k \in 0 .. NSlots - 1
        /\ NSlots \in Nat /\ NSlots >= 2
    BY Sizes DEF SlotNos
  <1>2. PICK b \in SlotNos : b = NextSlot(a) BY NextRange
  <1>3. b = IF a + 1 < NSlots THEN a + 1 ELSE 0 BY <1>2 DEF NextSlot
  <1>4. /\ TurnFrom(a, j) = IF j > a THEN j - a ELSE NSlots + 1 + j - a
        /\ TurnFrom(a, k) = IF k > a THEN k - a ELSE NSlots + 1 + k - a
        /\ TurnFrom(b, j) = IF j > b THEN j - b ELSE NSlots + 1 + j - b
        /\ TurnFrom(b, k) = IF k > b THEN k - b ELSE NSlots + 1 + k - b
    BY TurnIs
  <1>5. j # b /\ k # b BY <1>2
  <1>6. TurnFrom(a, j) < TurnFrom(a, k) <=> TurnFrom(b, j) < TurnFrom(b, k)
    BY <1>1, <1>3, <1>4, <1>5
  <1> QED BY <1>2, <1>6

(***************************************************************************)
(* The queue in those terms, and when a step leaves it as it is.           *)
(***************************************************************************)
Contents == [k \in SlotNos |-> slots[k].data]

LEMMA UnreadIs == Unread = Listed(Pending, TurnsFrom(Newest), Contents)
  <1> DEFINE t == TurnsFrom(Newest)
  <1>1. Pending \subseteq SlotNos BY DEF Pending
  <1>2. Ordered(Pending, t) BY <1>1, TurnsOrder
  <1>3. ASSUME NEW k \in Pending PROVE Earlier(k) = EarlierIn(Pending, t, k)
    <2>1. \A j \in Pending : TurnOf(j) = t[j] BY <1>1 DEF TurnOf, TurnsFrom, TurnFrom
    <2>2. {j \in Pending : TurnOf(j) < TurnOf(k)} = {j \in Pending : t[j] < t[k]}
      BY <2>1
    <2> QED BY <2>2 DEF Earlier, EarlierIn
  <1>4. ASSUME NEW n \in 1 .. Cardinality(Pending)
        PROVE  slots[CHOOSE k \in Pending : Earlier(k) = n - 1].data =
               Contents[CHOOSE k \in Pending : EarlierIn(Pending, t, k) = n - 1]
    <2> DEFINE P(k) == k \in Pending /\ EarlierIn(Pending, t, k) = n - 1
               Q(k) == k \in Pending /\ Earlier(k) = n - 1
    <2>1. PICK k \in Pending : EarlierIn(Pending, t, k) = n - 1 BY <1>2, EveryPlaceTaken
    <2>2. \A j \in Pending : EarlierIn(Pending, t, j) = n - 1 => j = k
      BY <1>2, <2>1, OnePlaceEach
    <2>3. (CHOOSE j \in Pending : EarlierIn(Pending, t, j) = n - 1) = k BY <2>1, <2>2
    <2>4. (CHOOSE j \in Pending : Earlier(j) = n - 1) = k
      <3>1. Earlier(k) = n - 1 BY <1>3, <2>1
      <3>2. \A j \in Pending : Earlier(j) = n - 1 => j = k BY <1>3, <2>2
      <3> QED BY <3>1, <3>2
    <2>5. Contents[k] = slots[k].data BY <1>1 DEF Contents
    <2> QED BY <2>3, <2>4, <2>5
  <1> HIDE DEF t
  <1>5. Unread = [n \in 1 .. Cardinality(Pending) |->
                    Contents[CHOOSE k \in Pending : EarlierIn(Pending, t, k) = n - 1]]
    BY <1>4 DEF Unread
  <1>6. Unread = Listed(Pending, t, Contents) BY <1>5, Zenon DEF Listed
  <1> QED BY <1>6 DEF t

\* The cells of an allocation.
Cells == Seq(Vals \cup {Blank, Mixed})

LEMMA ContentsType ==
  TypeInv => Contents \in [SlotNos -> Cells] /\ \A k \in SlotNos : Contents[k] = slots[k].data
  BY DEF TypeInv, MeasTypeOK, Slot, Contents, Cells

LEMMA QueueType == TypeInv => Unread \in Seq(Cells) /\ Len(Unread) = Cardinality(Pending)
  <1> SUFFICES ASSUME TypeInv PROVE Unread \in Seq(Cells) /\ Len(Unread) = Cardinality(Pending)
    OBVIOUS
  <1>1. Pending \subseteq SlotNos BY DEF Pending
  <1>2. \A k \in Pending : Contents[k] \in Cells BY <1>1, ContentsType
  <1>3. Ordered(Pending, TurnsFrom(Newest)) BY <1>1, TurnsOrder
  <1> QED BY <1>2, <1>3, ListedType, UnreadIs

LEMMA QueueKept ==
  ASSUME TypeInv, TypeInv', Pending' = Pending,
         \A k \in Pending : slots'[k].data = slots[k].data,
         \A j, k \in Pending :
            TurnFrom(Newest, j) < TurnFrom(Newest, k) <=> TurnFrom(Newest', j) < TurnFrom(Newest', k)
  PROVE  Unread' = Unread
  <1> DEFINE t == TurnsFrom(Newest)
             u == TurnsFrom(Newest')
  <1>1. Pending \subseteq SlotNos BY DEF Pending
  <1>2. Ordered(Pending, t) /\ Ordered(Pending, u) BY <1>1, TurnsOrder
  <1>3. \A k \in Pending : t[k] = TurnFrom(Newest, k) /\ u[k] = TurnFrom(Newest', k)
    BY <1>1 DEF TurnsFrom
  <1>4. /\ \A k \in SlotNos : Contents[k] = slots[k].data /\ Contents[k] \in Cells
        /\ \A k \in SlotNos : Contents'[k] = slots'[k].data
    BY ContentsType DEF Contents
  <1>5. \A k \in Pending : Contents'[k] = Contents[k] /\ Contents[k] \in Cells BY <1>1, <1>4
  <1> HIDE DEF t, u
  <1>6. \A j, k \in Pending : t[j] < t[k] <=> u[j] < u[k] BY <1>3
  <1>7. Listed(Pending, t, Contents) = Listed(Pending, u, Contents')
    BY <1>2, <1>5, <1>6, ListedSame
  <1>8. Unread = Listed(Pending, t, Contents) BY UnreadIs DEF t
  <1>9. (Unread = Listed(Pending, TurnsFrom(Newest), Contents))' BY UnreadIs, PTL
  <1>10. Unread' = Listed(Pending', u, Contents') BY <1>9 DEF u, TurnsFrom, Listed, EarlierIn
  <1> QED BY <1>7, <1>8, <1>10

LEMMA QueuePut ==
  ASSUME TypeInv, TypeInv', NEW b \in SlotNos \ Pending, Newest = b, Newest' = b,
         Pending' = Pending \cup {b},
         \A k \in Pending : slots'[k].data = slots[k].data
  PROVE  Unread' = Append(Unread, slots'[b].data)
  <1> DEFINE t == TurnsFrom(b)
  <1>1. Pending \subseteq SlotNos /\ Pending \cup {b} \subseteq SlotNos BY DEF Pending
  <1>2. Ordered(Pending \cup {b}, t) BY <1>1, TurnsOrder
  <1>3. \A k \in Pending : t[k] < t[b]
    <2> SUFFICES ASSUME NEW k \in Pending PROVE t[k] < t[b] OBVIOUS
    <2>1. k \in SlotNos /\ k # b BY <1>1
    <2>2. TurnFrom(b, k) < TurnFrom(b, b) BY <2>1, FirstAndLast
    <2> QED BY <2>1, <2>2 DEF TurnsFrom
  <1>4. /\ \A k \in SlotNos : Contents[k] = slots[k].data /\ Contents[k] \in Cells
        /\ \A k \in SlotNos : Contents'[k] = slots'[k].data /\ Contents'[k] \in Cells
    <2>1. (TypeInv => Contents \in [SlotNos -> Cells]
                      /\ \A k \in SlotNos : Contents[k] = slots[k].data)'
      BY ContentsType, PTL
    <2> QED BY <2>1, ContentsType DEF Cells
  <1>5. \A k \in Pending : Contents[k] = Contents'[k] /\ Contents[k] \in Cells BY <1>1, <1>4
  <1>10. b \notin Pending /\ Contents'[b] \in Cells BY <1>4
  <1> HIDE DEF t
  <1>11. Grows(Pending, Pending \cup {b}, b, t, Contents, Contents', Cells)
    BY <1>2, <1>3, <1>5, <1>10 DEF Grows
  <1>6. Adds(Listed(Pending \cup {b}, t, Contents'), Listed(Pending, t, Contents), Contents'[b])
    BY <1>11, ListedAppend
  <1>7. Unread = Listed(Pending, t, Contents) BY UnreadIs DEF t
  <1>8. (Unread = Listed(Pending, TurnsFrom(Newest), Contents))' BY UnreadIs, PTL
  <1>9. Unread' = Listed(Pending \cup {b}, t, Contents')
    BY <1>8 DEF t, TurnsFrom, Listed, EarlierIn
  <1> QED BY <1>4, <1>6, <1>7, <1>9 DEF Adds

LEMMA QueueGet ==
  ASSUME TypeInv, NEW m \in Pending,
         \A k \in Pending \ {m} : TurnFrom(Newest, m) < TurnFrom(Newest, k)
  PROVE  /\ Unread # <<>> /\ Head(Unread) = slots[m].data
         /\ Newest' = Newest /\ Pending' = Pending \ {m}
               /\ (\A k \in Pending \ {m} : slots'[k].data = slots[k].data)
            => Unread' = Tail(Unread)
  <1> DEFINE t == TurnsFrom(Newest)
  <1>1. Pending \subseteq SlotNos BY DEF Pending
  <1>2. Ordered(Pending, t) BY <1>1, TurnsOrder
  <1>3. \A k \in Pending \ {m} : t[m] < t[k] BY <1>1 DEF TurnsFrom
  <1>4. \A k \in Pending : Contents[k] = slots[k].data /\ Contents[k] \in Cells
    BY <1>1, ContentsType
  <1>5. Unread = Listed(Pending, t, Contents) BY UnreadIs
  <1>6. Unread # <<>> /\ Head(Unread) = slots[m].data
    <2> HIDE DEF t
    <2>1. Shrinks(Pending, Pending \ {m}, m, t, Contents, Contents, Cells)
      BY <1>2, <1>3, <1>4 DEF Shrinks
    <2>2. Drops(Listed(Pending \ {m}, t, Contents), Listed(Pending, t, Contents), Contents[m])
      BY <2>1, ListedTail
    <2> QED BY <1>4, <1>5, <2>2 DEF Drops
  <1>7. ASSUME Newest' = Newest, Pending' = Pending \ {m},
               \A k \in Pending \ {m} : slots'[k].data = slots[k].data
        PROVE  Unread' = Tail(Unread)
    <2>1. \A k \in Pending \ {m} : Contents[k] = Contents'[k]
      <3>1. \A k \in SlotNos : Contents'[k] = slots'[k].data BY DEF Contents
      <3> QED BY <1>1, <1>4, <1>7, <3>1
    <2>2. Drops(Listed(Pending \ {m}, t, Contents'), Listed(Pending, t, Contents), Contents[m])
      <3> HIDE DEF t
      <3>1. Shrinks(Pending, Pending \ {m}, m, t, Contents, Contents', Cells)
        BY <1>2, <1>3, <1>4, <2>1 DEF Shrinks
      <3> QED BY <3>1, ListedTail
    <2>3. (Unread = Listed(Pending, TurnsFrom(Newest), Contents))' BY UnreadIs, PTL
    <2>4. Unread' = Listed(Pending \ {m}, t, Contents')
      BY <1>7, <2>3 DEF TurnsFrom, Listed, EarlierIn
    <2> QED BY <1>5, <2>2, <2>4 DEF Drops
  <1> QED BY <1>6, <1>7

(***************************************************************************)
(* What the order of the queue needs.  Once the walk meets an unread file  *)
(* it meets no other kind: only the newest may still be to come.  The next *)
(* file goes to the newest's allocation, or to the one behind it, and that *)
(* is free.  And what the host has of a measurement is the beginning of    *)
(* the oldest.                                                             *)
(***************************************************************************)
NoUnread == \A k \in SlotNos : slots[k].st # "UNREAD"

UnreadIsLatest(b) ==
    IF b \in SlotNos
    THEN /\ \A j, k \in SlotNos \ {b} :
               slots[j].st = "UNREAD" /\ TurnFrom(b, j) < TurnFrom(b, k) => slots[k].st = "UNREAD"
         /\ NoUnread \/ slots[b].st \in {"UNREAD", "SPACE", "PARTIAL"}
    ELSE NoUnread

NextIsFree ==
    /\ pc \in {"idle", "down"} /\ Latest \in SlotNos
          => Usable(Latest) \/ slots[NextSlot(Latest)].st = "SPACE"
    /\ pc \in {"ring", "entry", "retire"} /\ ~wrapped =>
          IF current = 0 THEN NoUnread
          ELSE tgt \in {meta[current].addr, NextSlot(meta[current].addr)}

PartsAreOldest ==
    rd # <<>> => Unread # <<>> /\ \A c \in 1 .. Len(rd) : rd[c] = Head(Unread)[c]

Marked == Finishing => slots[tgt].st = "UNREAD"

OrderOK == UnreadIsLatest(Newest) /\ NextIsFree /\ Marked

QueueInv == HostRepeats /\ WholeInv /\ OrderOK /\ PartsAreOldest

\* The newest file's allocation is the one written, or the latest.
LEMMA NewestIs ==
  RingInv => /\ pc \in Busy => Newest = tgt /\ tgt \in SlotNos
             /\ pc \in {"idle", "down"} => Newest = Latest
             /\ pc \in {"header", "unread", "next", "data", "last"} => Newest = Latest
             /\ pc \in {"idle", "down"} => Latest = None \/ Latest \in SlotNos
  <1> SUFFICES ASSUME RingInv
               PROVE  /\ pc \in Busy => Newest = tgt /\ tgt \in SlotNos
                      /\ pc \in {"idle", "down"} => Newest = Latest
                      /\ pc \in {"header", "unread", "next", "data", "last"} => Newest = Latest
                      /\ pc \in {"idle", "down"} => Latest = None \/ Latest \in SlotNos
    OBVIOUS
  <1>1. TypeInv /\ tgt \in SlotNos BY DEF RingInv, TypeInv, MeasTypeOK
  <1>2. ASSUME pc \in {"header", "unread", "next", "data", "last"}
        PROVE  Latest = tgt /\ Newest = Latest
    <2>1. Writing BY <1>2 DEF RingInv, PlaceOK
    <2>2. PICK f \in 0 .. NMeta - 1 : f = current /\ RingAt(f) /\ f # 0 /\ meta[f].addr = tgt
      BY <2>1 DEF Writing, RingAt
    <2>3. Latest = tgt BY <1>1, <2>2, FoundIs
    <2> QED BY <1>2, <2>3 DEF Newest
  <1>3. ASSUME pc \in {"idle", "down"} PROVE Latest = None \/ Latest \in SlotNos
    <2>1. PICK f \in 0 .. NMeta - 1 : RestOK(f) BY <1>3 DEF RingInv, PlaceOK, Resting
    <2>2. RingAt(f) BY <2>1 DEF RestOK, Rest
    <2> QED BY <1>1, <2>2, FoundIs
  <1> QED BY <1>1, <1>2, <1>3 DEF Newest, Busy

LEMMA UnreadIsLatestKept ==
  ASSUME NEW b, UnreadIsLatest(b),
         \A k \in SlotNos : slots'[k].st = "UNREAD" <=> slots[k].st = "UNREAD",
         b \in SlotNos => slots'[b].st = slots[b].st \/ slots'[b].st \in {"UNREAD", "SPACE", "PARTIAL"}
  PROVE  UnreadIsLatest(b)'
  BY DEF UnreadIsLatest, NoUnread

\* What a step does to the queue of whole measurements.
QueueStep == Queue!Next \/ UNCHANGED <<Unread, wr.file, result>>

QueueGoal == OrderOK' /\ PartsAreOldest' /\ QueueStep

\* The host reads nothing while a call to write is in progress.
LEMMA NothingRead == WholeInv => (pc \in Busy => rd = <<>>)
  BY DEF WholeInv, ReadingOK

(***************************************************************************)
(* The steps of a call to write.  Until the file is finished they leave    *)
(* the queue as it is.                                                     *)
(***************************************************************************)
LEMMA WritingStays ==
  ASSUME QueueInv, WholeInv', pc \in Busy, pc' \in Busy, ~Finishing, UNCHANGED <<tgt, host>>,
         \A k \in SlotNos \ {tgt} : slots'[k] = slots[k],
         slots[tgt].st # "UNREAD", slots'[tgt].st \in {"UNREAD", "SPACE", "PARTIAL"},
         Marked', slots'[tgt].st = "UNREAD" => (Finishing)', NextIsFree'
  PROVE  QueueGoal
  <1>1. WholeInv /\ TypeInv /\ UnreadIsLatest(Newest) BY DEF QueueInv, OrderOK, WholeInv, RingInv
  <1>2. PICK t \in SlotNos : t = tgt /\ Newest = t
    BY <1>1, NewestIs DEF WholeInv
  <1>3. TypeInv' /\ Newest' = t
    <2>1. (RingInv => (pc \in Busy => Newest = tgt /\ tgt \in SlotNos))' BY NewestIs, PTL
    <2>2. Busy' = Busy BY DEF Busy
    <2> QED BY <1>2, <2>1, <2>2 DEF WholeInv, RingInv
  <1>4. Pending' = Pending /\ t \notin Pending
    <2>1. ASSUME NEW k \in SlotNos, k # t
          PROVE  slots'[k].st = "UNREAD" /\ ~Unfinished(k)' <=> slots[k].st = "UNREAD" /\ ~Unfinished(k)
      BY <1>2, <2>1 DEF Unfinished
    <2>2. ~(slots[t].st = "UNREAD" /\ ~Unfinished(t)) BY <1>2
    <2>3. ~(slots'[t].st = "UNREAD" /\ ~Unfinished(t)') BY <1>2 DEF Finishing, Unfinished
    <2> QED BY <2>1, <2>2, <2>3 DEF Pending
  <1>5. \A k \in Pending : slots'[k].data = slots[k].data BY <1>2, <1>4 DEF Pending
  <1>6. Unread' = Unread BY <1>1, <1>2, <1>3, <1>4, <1>5, QueueKept
  <1>7. UnreadIsLatest(t)' BY <1>1, <1>2 DEF UnreadIsLatest, NoUnread
  <1>8. UnreadIsLatest(Newest)' BY <1>3, <1>7 DEF UnreadIsLatest, NoUnread
  <1>9. PartsAreOldest' BY <1>1, NothingRead DEF PartsAreOldest, host
  <1> QED BY <1>6, <1>8, <1>9 DEF QueueGoal, OrderOK, QueueStep, host

LEMMA RingSteps ==
  ASSUME QueueInv, WholeInv', EraseRing \/ WriteEntry \/ RetireEntry \/ WriteHeader \/ MarkUnread
  PROVE  QueueGoal
  <1>1. /\ WholeInv /\ RingInv /\ TypeInv /\ NextIsFree /\ tgt \in SlotNos
        /\ slots \in [SlotNos -> Slot] /\ PlaceOK
    BY DEF QueueInv, OrderOK, WholeInv, RingInv, TypeInv, MeasTypeOK
  <1>2. CASE EraseRing
    <2>1. /\ pc = "ring" /\ pc' = "entry" /\ slots' = slots /\ wrapped' = TRUE
          /\ UNCHANGED <<tgt, host>>
      BY <1>2 DEF EraseRing, call
    <2>2. slots[tgt].st = "SPACE" BY <1>1, <2>1 DEF PlaceOK, New
    <2>3. NextIsFree' BY <2>1 DEF NextIsFree
    <2> QED BY <2>1, <2>2, <2>3, WritingStays DEF Busy, Finishing, Marked
  <1>3. CASE WriteEntry
    <2>1. /\ pc = "entry" /\ pc' \in {"retire", "header"} /\ wrapped' = wrapped
          /\ UNCHANGED <<tgt, ent, host>>
      BY <1>3 DEF WriteEntry, call
    <2>2. EntryOK BY <1>1, <2>1 DEF PlaceOK
    <2>3. slots' = slots /\ slots[tgt].st = "SPACE"
      <3>1. ent # NMeta BY <2>2, Sizes DEF EntryOK
      <3> QED BY <1>3, <2>2, <3>1 DEF WriteEntry, EntryOK, New
    <2>4. NextIsFree'
      <3> SUFFICES ASSUME pc' = "retire", ~wrapped
                   PROVE  current' # 0 /\ tgt \in {meta'[current'].addr, NextSlot(meta'[current'].addr)}
        BY <2>1 DEF NextIsFree, NextSlot
      <3>1. current # 0 /\ current' = current BY <1>3 DEF WriteEntry
      <3>2. ent = current + 1 /\ current \in 0 .. NMeta
        BY <1>1, <2>2 DEF EntryOK, TypeInv, MeasTypeOK
      <3>3. ent # current BY <3>2
      <3>4. meta'[current] = meta[current]
        <4>1. meta \in [1 .. NMeta -> Entry] /\ current \in 1 .. NMeta
          BY <1>1, <3>1 DEF TypeInv, MeasTypeOK
        <4> QED BY <1>3, <3>3, <4>1 DEF WriteEntry
      <3>5. tgt \in {meta[current].addr, NextSlot(meta[current].addr)}
        BY <1>1, <2>1, <3>1 DEF NextIsFree
      <3> QED BY <3>1, <3>4, <3>5
    <2> QED BY <2>1, <2>3, <2>4, WritingStays DEF Busy, Finishing, Marked
  <1>4. CASE RetireEntry
    <2>1. /\ pc = "retire" /\ pc' = "header" /\ slots' = slots /\ UNCHANGED <<tgt, host>>
      BY <1>4 DEF RetireEntry, call
    <2>2. slots[tgt].st = "SPACE" BY <1>1, <2>1 DEF PlaceOK, RetireOK, New
    <2>3. NextIsFree' BY <2>1 DEF NextIsFree
    <2> QED BY <2>1, <2>2, <2>3, WritingStays DEF Busy, Finishing, Marked
  <1>5. CASE WriteHeader
    <2>1. /\ pc = "header" /\ pc' \in {"unread", "data"} /\ UNCHANGED <<tgt, host>>
      BY <1>5 DEF WriteHeader, AfterHeader, call
    <2>2. slots[tgt].st = "SPACE" BY <1>1, <2>1 DEF PlaceOK, New
    <2>3. /\ slots'[tgt].st = "PARTIAL"
          /\ \A k \in SlotNos \ {tgt} : slots'[k] = slots[k]
      <3>1. slots' = [Mark(tgt, "PARTIAL") EXCEPT ![tgt].data = Headed(@, req.rem)]
        BY <1>5 DEF WriteHeader, Headed
      <3>2. /\ Mark(tgt, "PARTIAL") \in [SlotNos -> Slot]
            /\ Mark(tgt, "PARTIAL")[tgt].st = "PARTIAL"
            /\ \A k \in SlotNos \ {tgt} : Mark(tgt, "PARTIAL")[k] = slots[k]
        BY <1>1, <2>2, MarkType
      <3> QED BY <1>1, <3>1, <3>2 DEF Slot
    <2>4. NextIsFree' BY <2>1 DEF NextIsFree
    <2> QED BY <2>1, <2>2, <2>3, <2>4, WritingStays DEF Busy, Finishing, Marked
  <1>6. CASE MarkUnread
    <2>1. /\ pc = "unread" /\ pc' = "next" /\ UNCHANGED <<tgt, host>>
          /\ slots' = Mark(tgt, "UNREAD")
      BY <1>6 DEF MarkUnread, call
    <2>2. slots[tgt].st = "PARTIAL" BY <1>1, <2>1 DEF PlaceOK
    <2>3. /\ slots'[tgt].st = "UNREAD"
          /\ \A k \in SlotNos \ {tgt} : slots'[k] = slots[k]
      BY <1>1, <2>1, <2>2, MarkType
    <2>4. NextIsFree' BY <2>1 DEF NextIsFree
    <2> QED BY <2>1, <2>2, <2>3, <2>4, WritingStays DEF Busy, Finishing, Marked
  <1> QED BY <1>2, <1>3, <1>4, <1>5, <1>6

\* The allocation behind the file being finished is erased: when it holds an
\* unread file that is the oldest, and the store is full.
LEMMA NextErased == ASSUME QueueInv, WholeInv', EraseNext PROVE QueueGoal
  <1>1. /\ WholeInv /\ RingInv /\ TypeInv /\ UnreadIsLatest(Newest) /\ Marked
        /\ slots \in [SlotNos -> Slot] /\ TypeInv'
    BY DEF QueueInv, OrderOK, WholeInv, RingInv, TypeInv, MeasTypeOK
  <1>2. /\ pc = "next" /\ pc' = "last" /\ slots' = Freed(NextSlot(tgt))
        /\ UNCHANGED <<tgt, host>>
    BY DEF EraseNext, call
  <1>3. PICK t \in SlotNos : t = tgt /\ Newest = t
    BY <1>1, <1>2, NewestIs DEF Busy
  <1>4. Newest' = t
    <2>1. (RingInv => (pc \in Busy => Newest = tgt /\ tgt \in SlotNos))' BY NewestIs, PTL
    <2>2. pc' \in Busy' BY <1>2 DEF Busy
    <2> QED BY <1>2, <1>3, <2>1, <2>2 DEF WholeInv
  <1>5. PICK n \in SlotNos : n = NextSlot(t) /\ n # t BY NextRange
  <1>6. /\ slots'[n].st = "SPACE" /\ \A k \in SlotNos \ {n} : slots'[k] = slots[k]
        /\ slots[t].st = "UNREAD"
    BY <1>1, <1>2, <1>3, <1>5, FreedType DEF Marked, Finishing
  <1>7. \A k \in SlotNos \ {n} : TurnFrom(t, n) < TurnFrom(t, k) BY <1>5, FirstAndLast
  <1>8. /\ Pending = {k \in SlotNos \ {t} : slots[k].st = "UNREAD"}
        /\ Pending' = Pending \ {n}
    <2>1. \A k \in SlotNos : (Unfinished(k) <=> k = t) /\ (Unfinished(k)' <=> k = t)
      BY <1>2, <1>3 DEF Unfinished
    <2>2. Pending = {k \in SlotNos \ {t} : slots[k].st = "UNREAD"} BY <2>1 DEF Pending
    <2>3. Pending' = {k \in SlotNos \ {t} : slots'[k].st = "UNREAD"} BY <2>1 DEF Pending
    <2> QED BY <1>6, <2>2, <2>3
  <1>9. UnreadIsLatest(t)'
    <2>1. TurnFrom(t, n) \in Int /\ \A k \in SlotNos : TurnFrom(t, k) \in Int BY TurnVisits
    <2>2. ASSUME NEW j \in SlotNos \ {t}, NEW k \in SlotNos \ {t},
                 slots'[j].st = "UNREAD", TurnFrom(t, j) < TurnFrom(t, k)
          PROVE  slots'[k].st = "UNREAD"
      <3>1. j # n /\ slots[j].st = "UNREAD" BY <1>6, <2>2
      <3>2. k # n BY <1>7, <2>1, <2>2, <3>1
      <3>3. slots[k].st = "UNREAD" BY <1>1, <1>3, <2>2, <3>1 DEF UnreadIsLatest
      <3> QED BY <1>6, <3>2, <3>3
    <2>3. slots'[t].st = "UNREAD" BY <1>5, <1>6
    <2> QED BY <2>2, <2>3 DEF UnreadIsLatest
  <1>10. OrderOK'
    <2>1. UnreadIsLatest(Newest)' BY <1>4, <1>9 DEF UnreadIsLatest, NoUnread
    <2>2. NextIsFree' BY <1>2 DEF NextIsFree
    <2>3. Marked' BY <1>2, <1>3, <1>5, <1>6 DEF Marked
    <2> QED BY <2>1, <2>2, <2>3 DEF OrderOK
  <1>11. PartsAreOldest' BY <1>1, <1>2, NothingRead DEF PartsAreOldest, host, Busy
  <1>12. CASE slots[n].st = "UNREAD"
    <2>1. n \in Pending BY <1>5, <1>8, <1>12
    <2>2. \A k \in Pending \ {n} : TurnFrom(Newest, n) < TurnFrom(Newest, k)
      BY <1>3, <1>7, <1>8
    <2>3. \A k \in Pending \ {n} : slots'[k].data = slots[k].data BY <1>6, <1>8
    <2>4. Unread' = Tail(Unread) BY <1>1, <1>3, <1>4, <1>8, <2>1, <2>2, <2>3, QueueGet
    <2>5. Pending = SlotNos \ {t}
      <3>1. \A k \in SlotNos \ {t} : slots[k].st = "UNREAD"
        BY <1>1, <1>3, <1>5, <1>7, <1>12 DEF UnreadIsLatest
      <3> QED BY <1>8, <3>1
    <2>6. Len(Unread) = NSlots - 1
      <3>1. Cardinality(SlotNos \ {t}) = NSlots - 1 BY AllocationsFinite, FS_RemoveElement
      <3> QED BY <1>1, <2>5, <3>1, QueueType
    <2>7. wr.file # <<>> BY <1>1, <1>2, PlaceTypes, NoFileNone DEF Busy
    <2>8. Queue!Drop BY <1>2, <2>4, <2>6, <2>7 DEF Queue!Drop, host
    <2> QED BY <1>10, <1>11, <2>8 DEF QueueGoal, QueueStep, Queue!Next
  <1>13. CASE slots[n].st # "UNREAD"
    <2>1. Pending' = Pending BY <1>8, <1>13
    <2>2. \A k \in Pending : slots'[k].data = slots[k].data BY <1>6, <1>8, <1>13
    <2>3. Unread' = Unread BY <1>1, <1>3, <1>4, <2>1, <2>2, QueueKept
    <2> QED BY <1>2, <1>10, <1>11, <2>3 DEF QueueGoal, QueueStep, host
  <1> QED BY <1>12, <1>13

\* A part: the last one puts the measurement into the queue.
LEMMA DataWritten == ASSUME QueueInv, WholeInv', WriteData PROVE QueueGoal
  <1>1. /\ WholeInv /\ RingInv /\ TypeInv /\ UnreadIsLatest(Newest) /\ Marked /\ SentOK
        /\ slots \in [SlotNos -> Slot] /\ TypeInv' /\ PlaceOK
    BY DEF QueueInv, OrderOK, WholeInv, RingInv, TypeInv, MeasTypeOK
  <1>2. pc \in {"data", "last"} /\ UNCHANGED <<meta, current, tgt, rd, result, wrapped>>
    BY DEF WriteData
  <1>3. PICK t \in SlotNos : t = tgt /\ Newest = t /\ Latest = t
    BY <1>1, <1>2, NewestIs DEF Busy
  <1>4. Received(tgt)
    <2>1. doubt = {} BY DEF QueueInv, WholeInv, HoldsOK
    <2> QED BY <1>1, <1>2, <2>1, TargetReceived
  <1>5. /\ wr.file \in Files /\ req.rem = MeasLen - wr.sent /\ wr.sent \in 0 .. MeasLen
        /\ req.n \in Nat /\ req.n <= req.rem /\ req.n \in 0 .. req.n
        /\ wr \in [file : Files \cup {<<>>}, sent : 0 .. MeasLen]
    BY <1>1, <1>2 DEF TypeInv, MeasTypeOK, RequestOK, Busy
  <1>6. /\ slots' = WithPart(req.n) /\ pc' = "idle"
        /\ wr' = IF req.n = req.rem THEN NoFile ELSE [wr EXCEPT !.sent = @ + req.n]
    <2>1. PartStart = wr.sent BY <1>1, <1>2, <1>4, <1>5, PartReceived
    <2>2. ~(PartStart < 0) BY <1>5, <2>1
    <2> QED BY <2>2 DEF WriteData
  <1>7. /\ \A k \in SlotNos \ {t} : slots'[k] = slots[k]
        /\ slots'[t].st = slots[t].st
        /\ Len(slots'[t].data) = MeasLen
        /\ \A c \in 1 .. wr.sent + req.n : slots'[t].data[c] = wr.file[c]
    BY <1>1, <1>2, <1>3, <1>4, <1>5, <1>6, PartReceived
  <1>8. Newest' = t /\ Latest' = t
    <2>1. Latest' = Latest BY <1>2 DEF Latest, Found, WalkFinds, StopsAt
    <2> QED BY <1>3, <1>6, <2>1 DEF Newest
  <1>9. PartsAreOldest' BY <1>1, <1>2, NothingRead DEF PartsAreOldest, Busy
  <1>10. UnreadIsLatest(Newest)'
    <2>1. UnreadIsLatest(t)' BY <1>1, <1>3, <1>7 DEF UnreadIsLatest, NoUnread
    <2> QED BY <1>8, <2>1 DEF UnreadIsLatest, NoUnread
  <1>11. Marked' BY <1>6 DEF Marked, Finishing
  <1>12. Pending' = {k \in SlotNos : slots[k].st = "UNREAD"}
    <2>1. \A k \in SlotNos : ~Unfinished(k)' BY <1>6 DEF Unfinished
    <2>2. \A k \in SlotNos : slots'[k].st = slots[k].st BY <1>7
    <2> QED BY <2>1, <2>2 DEF Pending
  <1>13. CASE pc = "data"
    <2>1. slots[t].st = "PARTIAL" /\ req.n # req.rem BY <1>1, <1>3, <1>13 DEF PlaceOK
    <2>2. NextIsFree'
      <3>1. Usable(t)' BY <1>7, <2>1 DEF Usable
      <3> QED BY <1>6, <1>8, <3>1 DEF NextIsFree, Usable
    <2>3. Pending = {k \in SlotNos : slots[k].st = "UNREAD"} /\ t \notin Pending
      BY <1>13, <2>1 DEF Pending, Unfinished
    <2>4. \A k \in Pending : slots'[k].data = slots[k].data BY <1>7, <2>3
    <2>5. Unread' = Unread BY <1>1, <1>3, <1>8, <1>12, <2>3, <2>4, QueueKept
    <2>6. wr'.file = wr.file BY <1>5, <1>6, <2>1
    <2> QED BY <1>2, <1>9, <1>10, <1>11, <2>2, <2>5, <2>6 DEF QueueGoal, QueueStep, OrderOK
  <1>14. CASE pc = "last"
    <2>1. slots[t].st = "UNREAD" /\ req.n = req.rem
      BY <1>1, <1>3, <1>14 DEF Marked, Finishing, SentOK
    <2>2. PICK n \in SlotNos : n = NextSlot(t) /\ n # t /\ slots[n].st = "SPACE"
      BY <1>1, <1>3, <1>14, NextRange DEF PlaceOK
    <2>3. NextIsFree'
      <3>1. slots'[n].st = "SPACE" BY <1>7, <2>2
      <3> QED BY <1>6, <1>8, <2>2, <3>1 DEF NextIsFree, NextSlot
    <2>4. t \notin Pending /\ Pending' = Pending \cup {t} /\ Pending \subseteq SlotNos \ {t, n}
      BY <1>3, <1>12, <1>14, <2>1, <2>2 DEF Pending, Unfinished
    <2>5. \A k \in Pending : slots'[k].data = slots[k].data BY <1>7, <2>4
    <2>6. Unread' = Append(Unread, slots'[t].data)
      <3>1. PICK b \in SlotNos \ Pending : b = t BY <2>4
      <3> QED BY <1>1, <1>3, <1>8, <2>4, <2>5, <3>1, QueuePut
    <2>7. slots'[t].data = wr.file
      <3>1. PICK d : d = slots'[t].data OBVIOUS
      <3>2. wr.sent + req.n = MeasLen BY <1>5, <2>1, Sizes
      <3>3. d \in Seq(Vals \cup {Blank, Mixed}) /\ Len(d) = MeasLen
        BY <1>1, <1>7, <3>1 DEF TypeInv, MeasTypeOK, Slot
      <3>4. \A c \in 1 .. MeasLen : d[c] = wr.file[c] BY <1>7, <3>1, <3>2
      <3>5. d = [c \in 1 .. MeasLen |-> d[c]] BY <3>3
      <3>6. wr.file \in [1 .. MeasLen -> Vals] BY <1>5, MeasAssumption
      <3>7. d = wr.file BY <3>4, <3>5, <3>6
      <3> QED BY <3>1, <3>7
    <2>8. Len(Unread) < NSlots - 1
      <3>1. IsFiniteSet(SlotNos \ {t}) /\ Cardinality(SlotNos \ {t}) = NSlots - 1
        BY AllocationsFinite, FS_RemoveElement
      <3>2. /\ IsFiniteSet((SlotNos \ {t}) \ {n})
            /\ Cardinality((SlotNos \ {t}) \ {n}) = (NSlots - 1) - 1
        <4>1. PICK S : S = SlotNos \ {t} OBVIOUS
        <4>2. IsFiniteSet(S) /\ Cardinality(S) = NSlots - 1 /\ n \in S BY <2>2, <3>1, <4>1
        <4>3. IsFiniteSet(S \ {n}) /\ Cardinality(S \ {n}) = Cardinality(S) - 1
          BY <4>2, FS_RemoveElement
        <4> QED BY <4>1, <4>2, <4>3, Zenon
      <3>3. Cardinality(Pending) <= (NSlots - 1) - 1
        <4>1. Pending \in SUBSET ((SlotNos \ {t}) \ {n}) BY <2>4
        <4> QED BY <3>2, <4>1, FS_Subset
      <3>4. Len(Unread) = Cardinality(Pending) /\ Len(Unread) \in Nat BY <1>1, QueueType
      <3> QED BY <3>3, <3>4, Sizes
    <2>9. wr' = NoFile /\ wr'.file = <<>> BY <1>6, <2>1, NoFileNone
    <2>10. wr.file # <<>> BY <1>5, NoFileNone
    <2>11. Queue!Put BY <1>2, <2>6, <2>7, <2>8, <2>9, <2>10 DEF Queue!Put
    <2> QED BY <1>9, <1>10, <1>11, <2>3, <2>11 DEF QueueGoal, QueueStep, OrderOK, Queue!Next
  <1> QED BY <1>2, <1>13, <1>14

LEMMA EmptyQueue == TypeInv => (NoUnread => Unread = <<>>)
  <1> SUFFICES ASSUME TypeInv, NoUnread PROVE Unread = <<>> OBVIOUS
  <1>1. Pending = {} BY DEF NoUnread, Pending
  <1>2. Cardinality(Pending) = 0 BY <1>1, FS_EmptySet
  <1>3. Unread \in Seq(Cells) /\ Len(Unread) = 0 BY <1>2, QueueType
  <1> QED BY <1>3

(***************************************************************************)
(* A call to write: it leaves the queue as it is, whichever allocation it  *)
(* takes.                                                                  *)
(***************************************************************************)
\* The search takes the newest allocation, or the one behind it.
LEMMA NextTaken ==
  ASSUME TypeInv, NEW b \in SlotNos, Latest = b,
         Usable(b) \/ slots[NextSlot(b)].st = "SPACE"
  PROVE  /\ ~Occupied
         /\ \A i \in 1 .. NSlots : Takes(i) =>
               Tried(i) = IF Usable(b) THEN b ELSE NextSlot(b)
  <1>1. \A i \in Int : Tried(i) = (b + i - 1) % NSlots BY DEF Tried
  <1>2. b \in 0 .. NSlots - 1 /\ NSlots \in Nat \ {0} /\ NSlots >= 2 BY Sizes DEF SlotNos
  <1>3. Tried(1) = b
    <2>1. Tried(1) = (b + 1 - 1) % NSlots BY <1>1
    <2>2. b + 1 - 1 = b BY <1>2
    <2> QED BY <1>2, <2>1, <2>2, Modulo
  <1>4. Tried(2) = NextSlot(b)
    <2>1. Tried(2) = (b + 1) % NSlots
      <3>1. Tried(2) = (b + 2 - 1) % NSlots BY <1>1
      <3>2. b + 2 - 1 = b + 1 BY <1>2
      <3> QED BY <3>1, <3>2
    <2>2. CASE b + 1 < NSlots
      <3>1. b + 1 \in 0 .. NSlots - 1 BY <1>2, <2>2
      <3>2. (b + 1) % NSlots = b + 1 BY <1>2, <3>1, Modulo
      <3> QED BY <2>1, <2>2, <3>2 DEF NextSlot
    <2>3. CASE ~(b + 1 < NSlots)
      <3>1. b + 1 = NSlots + 0 /\ 0 \in 0 .. NSlots - 1 BY <1>2, <2>3
      <3>2. (NSlots + 0) % NSlots = 0 BY <1>2, <3>1, ModuloRound
      <3> QED BY <2>1, <2>3, <3>1, <3>2 DEF NextSlot
    <2> QED BY <2>2, <2>3
  <1>5. NextSlot(b) \in SlotNos BY NextRange
  <1>6. ~Occupied BY <1>5 DEF Occupied, Usable
  <1>7. ASSUME NEW i \in 1 .. NSlots, Takes(i)
        PROVE  Tried(i) = IF Usable(b) THEN b ELSE NextSlot(b)
    <2>1. Usable(Tried(i)) /\ \A j \in 1 .. i - 1 : ~Usable(Tried(j)) BY <1>7 DEF Takes
    <2>2. CASE Usable(b)
      <3>1. ~(1 \in 1 .. i - 1) BY <1>3, <2>1, <2>2
      <3>2. i = 1 BY <1>2, <3>1
      <3> QED BY <1>3, <2>2, <3>2
    <2>3. CASE ~Usable(b)
      <3>1. Usable(NextSlot(b)) BY <2>3 DEF Usable
      <3>2. ~(2 \in 1 .. i - 1) BY <1>4, <2>1, <3>1
      <3>3. i # 1 BY <1>3, <2>1, <2>3
      <3>4. i = 2 BY <1>2, <3>2, <3>3
      <3> QED BY <1>4, <2>3, <3>4
    <2> QED BY <2>2, <2>3
  <1> QED BY <1>6, <1>7

\* The order of the queue when the newest moves on to the next allocation, and back.
LEMMA MovedOn ==
  ASSUME TypeInv, TypeInv', NEW a \in SlotNos, NEW b \in SlotNos, b = NextSlot(a),
         {Newest, Newest'} = {a, b},
         Pending' = Pending, b \notin Pending,
         \A k \in Pending : slots'[k].data = slots[k].data
  PROVE  Unread' = Unread
  <1>1. Pending \subseteq SlotNos \ {b} BY DEF Pending
  <1>2. \A j, k \in Pending : TurnFrom(a, j) < TurnFrom(a, k) <=> TurnFrom(b, j) < TurnFrom(b, k)
    BY <1>1, SameOrder
  <1>3. \A j, k \in Pending :
          TurnFrom(Newest, j) < TurnFrom(Newest, k) <=> TurnFrom(Newest', j) < TurnFrom(Newest', k)
    <2>1. CASE Newest = a /\ Newest' = b BY <1>2, <2>1
    <2>2. CASE Newest = b /\ Newest' = a BY <1>2, <2>2
    <2>3. a # b BY NextRange
    <2> QED BY <2>1, <2>2, <2>3
  <1> QED BY <1>3, QueueKept

LEMMA WriteCalled ==
  ASSUME QueueInv, WholeInv', NEW file \in Files, CallWrite(file) PROVE QueueGoal
  <1>1. /\ WholeInv /\ RingInv /\ TypeInv /\ UnreadIsLatest(Newest) /\ NextIsFree
        /\ slots \in [SlotNos -> Slot] /\ TypeInv' /\ PlaceOK
    BY DEF QueueInv, OrderOK, WholeInv, RingInv, TypeInv, MeasTypeOK
  <1>2. /\ pc = "idle" /\ rd = <<>> /\ wr' = [wr EXCEPT !.file = file]
        /\ (wr = NoFile \/ wr.file = file)
        /\ UNCHANGED <<rd, result, wrapped>> /\ current' = Found
    BY DEF CallWrite
  <1>3. PICK f \in 0 .. NMeta - 1 : RingAt(f)
    BY <1>1, <1>2 DEF PlaceOK, Resting, RestOK, Rest
  <1>4. /\ Found = f
        /\ f = 0 => Latest = None
        /\ f # 0 => Latest = meta[f].addr /\ Latest \in SlotNos
    BY <1>1, <1>3, FoundIs
  <1>5. Newest = Latest /\ Latest \notin {Blank, Mixed} BY <1>1, <1>2, <1>4, NewestIs, Distinct
  <1>6. /\ \/ /\ Occupied
              /\ tgt' = 0 /\ slots' = Freed(0) /\ meta' = AfterErase(0)
           \/ /\ \E i \in 1 .. NSlots : Takes(i) /\ tgt' = Tried(i)
              /\ UNCHANGED <<slots, meta>>
        /\ IF slots'[tgt'].st = "SPACE"
           THEN pc' \in {"ring", "entry"} ELSE pc' \in {"unread", "data"}
    BY <1>5 DEF CallWrite, AfterHeader
  <1>7. PICK t \in SlotNos : t = tgt' /\ Newest' = t
    <2>1. (RingInv => (pc \in Busy => Newest = tgt /\ tgt \in SlotNos))' BY NewestIs, PTL
    <2>2. pc' \in Busy' BY <1>6 DEF Busy
    <2> QED BY <2>1, <2>2 DEF WholeInv
  <1>8. PartsAreOldest' BY <1>2 DEF PartsAreOldest
  <1>9. Marked' BY <1>6 DEF Marked, Finishing
  <1>10. Unread' = Unread => QueueStep
    <2> SUFFICES ASSUME Unread' = Unread PROVE QueueStep OBVIOUS
    <2>1. wr \in [file : Files \cup {<<>>}, sent : 0 .. MeasLen] BY <1>1 DEF TypeInv, MeasTypeOK
    <2>2. wr'.file = file BY <1>2, <2>1
    <2>3. CASE wr = NoFile
      <3>1. wr.file = <<>> BY <2>3, NoFileNone
      <3>2. Queue!Offer BY <1>2, <2>2, <3>1 DEF Queue!Offer
      <3> QED BY <3>2 DEF QueueStep, Queue!Next
    <2>4. CASE wr.file = file BY <1>2, <2>2, <2>4 DEF QueueStep
    <2> QED BY <1>2, <2>3, <2>4
  <1>11. CASE f = 0
    <2>1. NoUnread
      <3>1. Newest \notin SlotNos BY <1>4, <1>5, <1>11, Distinct
      <3> QED BY <1>1, <3>1 DEF UnreadIsLatest
    <2>2. NoUnread'
      <3>1. slots' = Freed(0) \/ slots' = slots BY <1>6
      <3>2. 0 \in SlotNos BY Sizes DEF SlotNos
      <3>3. CASE slots' = Freed(0)
        <4>1. slots'[0].st = "SPACE" /\ \A k \in SlotNos \ {0} : slots'[k] = slots[k]
          BY <1>1, <3>2, <3>3, FreedType
        <4> QED BY <2>1, <4>1 DEF NoUnread
      <3>4. CASE slots' = slots BY <2>1, <3>4 DEF NoUnread
      <3> QED BY <3>1, <3>3, <3>4
    <2>3. Unread = <<>> BY <1>1, <2>1, EmptyQueue
    <2>4. Unread' = <<>>
      <3>1. (TypeInv => (NoUnread => Unread = <<>>))' BY EmptyQueue, PTL
      <3> QED BY <1>1, <2>2, <3>1
    <2>5. UnreadIsLatest(Newest)' BY <2>2 DEF UnreadIsLatest, NoUnread
    <2>6. NextIsFree' BY <1>2, <1>4, <1>6, <1>11, <2>2 DEF NextIsFree
    <2> QED BY <1>8, <1>9, <1>10, <2>3, <2>4, <2>5, <2>6 DEF QueueGoal, OrderOK
  <1>12. CASE f # 0
    <2>1. PICK b \in SlotNos : b = Latest /\ b = meta[f].addr /\ b = Newest
      BY <1>4, <1>5, <1>12
    <2>2. Usable(b) \/ slots[NextSlot(b)].st = "SPACE" BY <1>1, <1>2, <2>1 DEF NextIsFree
    <2>3. /\ slots' = slots /\ meta' = meta
          /\ t = IF Usable(b) THEN b ELSE NextSlot(b)
      BY <1>1, <1>6, <1>7, <2>1, <2>2, NextTaken
    <2>4. slots[t].st \in {"SPACE", "PARTIAL"} BY <2>2, <2>3 DEF Usable
    <2>5. Pending' = Pending /\ t \notin Pending
      <3>1. \A k \in SlotNos : ~Unfinished(k) /\ ~Unfinished(k)'
        BY <1>2, <1>6 DEF Unfinished
      <3> QED BY <2>3, <2>4, <3>1 DEF Pending
    <2>6. \A k \in Pending : slots'[k].data = slots[k].data BY <2>3
    <2>7. NextIsFree'
      <3> SUFFICES ASSUME pc' \in {"ring", "entry"}
                   PROVE  tgt' \in {meta'[current'].addr, NextSlot(meta'[current'].addr)} /\ current' # 0
        BY <1>6 DEF NextIsFree, NextSlot
      <3> QED BY <1>2, <1>4, <1>7, <1>12, <2>1, <2>3
    <2>8. CASE t = b
      <3>1. Unread' = Unread BY <1>1, <1>7, <2>1, <2>5, <2>6, <2>8, QueueKept
      <3>2. UnreadIsLatest(b)' BY <1>1, <2>1, <2>3 DEF UnreadIsLatest, NoUnread
      <3>3. UnreadIsLatest(Newest)' BY <1>7, <2>8, <3>2 DEF UnreadIsLatest, NoUnread
      <3> QED BY <1>8, <1>9, <1>10, <2>7, <3>1, <3>3 DEF QueueGoal, OrderOK
    <2>9. CASE t # b
      <3>1. t = NextSlot(b) /\ ~Usable(b) BY <2>3, <2>9
      <3>2. Unread' = Unread BY <1>1, <1>7, <2>1, <2>5, <2>6, <3>1, MovedOn
      <3>3. slots[t].st = "SPACE" BY <2>2, <3>1
      <3>4. ASSUME NEW j \in SlotNos \ {t}, NEW k \in SlotNos \ {t},
                   slots[j].st = "UNREAD", TurnFrom(t, j) < TurnFrom(t, k)
            PROVE  slots[k].st = "UNREAD"
        <4>1. TurnFrom(b, j) < TurnFrom(b, k) BY <3>1, <3>4, SameOrder
        <4>2. TurnFrom(b, k) \in Int /\ TurnFrom(b, j) \in Int BY TurnVisits
        <4>3. j # b
          <5> SUFFICES ASSUME j = b PROVE FALSE OBVIOUS
          <5>1. k # b BY <4>1, <4>2
          <5>2. TurnFrom(b, k) < TurnFrom(b, b) BY <5>1, FirstAndLast
          <5> QED BY <4>1, <4>2, <5>2
        <4>4. CASE k = b
          <5>1. ~NoUnread BY <3>4 DEF NoUnread
          <5>2. slots[b].st \in {"UNREAD", "SPACE", "PARTIAL"}
            BY <1>1, <2>1, <5>1 DEF UnreadIsLatest
          <5> QED BY <3>1, <4>4, <5>2 DEF Usable
        <4>5. CASE k # b
          BY <1>1, <2>1, <3>4, <4>1, <4>3, <4>5 DEF UnreadIsLatest
        <4> QED BY <4>4, <4>5
      <3>5. UnreadIsLatest(t)' BY <2>3, <3>3, <3>4 DEF UnreadIsLatest
      <3>6. UnreadIsLatest(Newest)' BY <1>7, <3>5 DEF UnreadIsLatest, NoUnread
      <3> QED BY <1>8, <1>9, <1>10, <2>7, <3>2, <3>6 DEF QueueGoal, OrderOK
    <2> QED BY <2>8, <2>9
  <1> QED BY <1>11, <1>12

(***************************************************************************)
(* Reading: the walk's first unread file is the head of the queue.         *)
(***************************************************************************)
LEMMA FirstIsHead ==
  ASSUME QueueInv, pc = "idle", NEW k \in FirstUnread
  PROVE  /\ k \in SlotNos /\ slots[k].st = "UNREAD" /\ slots[k].data \in Files
         /\ Newest = Latest /\ Newest \in SlotNos
         /\ Pending = {j \in SlotNos : slots[j].st = "UNREAD"}
         /\ \A j \in Pending \ {k} : TurnFrom(Newest, k) < TurnFrom(Newest, j)
  <1>1. /\ RingInv /\ UnreadIsLatest(Newest) /\ HoldsOK /\ HostRepeats
    BY DEF QueueInv, OrderOK, WholeInv
  <1>2. PICK i \in 1 .. NSlots + 1 :
          k = Visited(i) /\ UnreadAt(i) /\ \A j \in 1 .. i - 1 : ~UnreadAt(j)
    BY DEF FirstUnread
  <1>3. k \in SlotNos /\ slots[k].st = "UNREAD" BY <1>2 DEF UnreadAt
  <1>4. slots[k].data \in Files BY <1>1, <1>3 DEF HoldsOK, Sound, Finishing
  <1>5. Newest = Latest BY <1>1, NewestIs
  <1>6. PICK b \in SlotNos : b = Newest
    BY <1>1, <1>3 DEF UnreadIsLatest, NoUnread
  <1>7. Pending = {j \in SlotNos : slots[j].st = "UNREAD"} BY DEF Pending, Unfinished
  <1>8. VisitedFrom(b, i) = k BY <1>2, <1>5, <1>6 DEF Visited
  <1>9. TurnFrom(b, k) = i BY <1>3, <1>8, VisitedIn, TurnIs
  <1>10. ASSUME NEW j \in Pending \ {k} PROVE TurnFrom(b, k) < TurnFrom(b, j)
    <2>1. j \in SlotNos /\ slots[j].st = "UNREAD" BY <1>7
    <2>2. TurnFrom(b, j) \in 1 .. NSlots + 1 /\ VisitedFrom(b, TurnFrom(b, j)) = j
      BY <2>1, TurnVisits
    <2>3. UnreadAt(TurnFrom(b, j)) BY <1>5, <1>6, <2>1, <2>2 DEF UnreadAt, Visited
    <2>4. TurnFrom(b, j) \notin 1 .. i - 1 BY <1>2, <2>3
    <2>5. TurnFrom(b, j) # i
      <3>1. j # k OBVIOUS
      <3> QED BY <1>8, <2>2, <3>1
    <2> QED BY <1>9, <2>2, <2>4, <2>5, Sizes
  <1> QED BY <1>3, <1>4, <1>5, <1>6, <1>7, <1>10

\* What a part adds to what the host has of the measurement d.
LEMMA PartOf ==
  ASSUME NEW V, NEW d \in [1 .. MeasLen -> V], NEW r \in Seq(V), Len(r) < MeasLen,
         \A c \in 1 .. Len(r) : r[c] = d[c],
         NEW n \in Nat, Len(r) + n <= MeasLen,
         NEW p, p = [c \in 1 .. n |-> d[Len(r) + c]]
  PROVE  /\ Len(r \o p) = Len(r) + n /\ \A c \in 1 .. Len(r \o p) : (r \o p)[c] = d[c]
         /\ Len(r) + n = MeasLen => r \o p = d
  <1>1. PICK l \in Nat : l = Len(r) OBVIOUS
  <1>2. \A c \in 1 .. n : d[l + c] \in V BY <1>1, Sizes
  <1>3. p \in [1 .. n -> V] BY <1>1, <1>2
  <1>4. p \in Seq(V) /\ Len(p) = n
    <2>1. \A f \in [1 .. n -> V] : f \in Seq(V) /\ Len(f) = n OBVIOUS
    <2> QED BY <1>3, <2>1, Zenon
  <1>5. /\ r \o p \in Seq(V) /\ Len(r \o p) = l + n
        /\ \A c \in 1 .. l + n : (r \o p)[c] = IF c <= l THEN r[c] ELSE p[c - l]
    BY <1>1, <1>4
  <1> DEFINE s == r \o p
  <1> HIDE DEF s
  <1>6. ASSUME NEW c \in 1 .. l + n PROVE s[c] = d[c]
    <2>1. CASE c <= l BY <1>1, <1>5, <2>1 DEF s
    <2>2. CASE ~(c <= l)
      <3>1. c - l \in 1 .. n /\ l + (c - l) = c BY <1>1, <2>2
      <3>2. p[c - l] = d[l + (c - l)] BY <1>1, <3>1
      <3> QED BY <1>5, <2>2, <3>1, <3>2 DEF s
    <2> QED BY <2>1, <2>2
  <1>7. s \in Seq(V) /\ Len(s) = l + n BY <1>5 DEF s
  <1>8. l + n = MeasLen => s = d
    <2> SUFFICES ASSUME l + n = MeasLen PROVE s = d OBVIOUS
    <2>1. s = [c \in 1 .. MeasLen |-> s[c]] BY <1>7
    <2>2. d = [c \in 1 .. MeasLen |-> d[c]] OBVIOUS
    <2> QED BY <1>6, <2>1, <2>2
  <1> QED BY <1>1, <1>6, <1>7, <1>8 DEF s

LEMMA ReadDone == ASSUME QueueInv, WholeInv', Read PROVE QueueGoal
  <1>1. /\ WholeInv /\ RingInv /\ TypeInv /\ UnreadIsLatest(Newest) /\ PartsAreOldest
        /\ slots \in [SlotNos -> Slot] /\ TypeInv' /\ PlaceOK
    BY DEF QueueInv, OrderOK, WholeInv, RingInv, TypeInv, MeasTypeOK
  <1>2. /\ pc = "idle" /\ pc' = "idle" /\ wr = NoFile /\ wr' = wr /\ current' = Found
        /\ UNCHANGED <<meta, tgt, wrapped>>
    BY DEF Read, call
  <1>3. PICK k \in FirstUnread :
          LET from == Len(slots[k].data) - Left
              got  == rd \o [c \in 1 .. (IF LastRead THEN Left ELSE ReadPart) |->
                                CellAt(k, from + c)]
          IN  IF LastRead
              THEN slots' = Mark(k, "READ") /\ rd' = <<>> /\ result' = got
              ELSE rd' = got /\ UNCHANGED <<slots, result>>
    BY DEF Read
  <1>4. /\ k \in SlotNos /\ slots[k].st = "UNREAD" /\ slots[k].data \in Files
        /\ Newest = Latest
        /\ Pending = {j \in SlotNos : slots[j].st = "UNREAD"}
        /\ \A j \in Pending \ {k} : TurnFrom(Newest, k) < TurnFrom(Newest, j)
    BY <1>2, FirstIsHead
  <1>5. PICK b \in SlotNos : b = Newest BY <1>2, FirstIsHead
  <1>6. Latest' = b /\ Newest' = b
    <2>1. Found' = Found
      <3>1. PICK f : f = Found OBVIOUS
      <3>2. current' = f /\ (current = 0 => f = WalkFinds("ACTIVE")) /\ (current # 0 => f = current)
        BY <1>2, <3>1 DEF Found
      <3>3. WalkFinds("ACTIVE")' = WalkFinds("ACTIVE") BY <1>2 DEF WalkFinds, StopsAt
      <3> QED BY <3>1, <3>2, <3>3 DEF Found
    <2>2. Latest' = Latest BY <1>2, <2>1 DEF Latest
    <2> QED BY <1>2, <1>4, <1>5, <2>2 DEF Newest
  <1>7. k \in Pending BY <1>4
  <1>8. PICK d : d = slots[k].data OBVIOUS
  <1>9. Unread # <<>> /\ Head(Unread) = d BY <1>1, <1>4, <1>7, <1>8, QueueGet
  <1>10. d \in [1 .. MeasLen -> Vals] BY <1>4, <1>8, MeasAssumption
  <1> DEFINE V == Vals \cup {Blank, Mixed}
             n == IF LastRead THEN Left ELSE ReadPart
             p == [c \in 1 .. n |-> d[Len(rd) + c]]
  <1>11. d \in [1 .. MeasLen -> V] /\ rd \in Seq(V) /\ Len(rd) < MeasLen /\ Len(rd) \in Nat
    BY <1>1, <1>10 DEF TypeInv, MeasTypeOK
  <1>12. \A c \in 1 .. Len(rd) : rd[c] = d[c]
    <2>1. CASE rd = <<>>
      <3>1. Len(rd) = 0 BY <2>1
      <3> QED BY <3>1
    <2>2. CASE rd # <<>>
      <3>1. \A c \in 1 .. Len(rd) : rd[c] = Head(Unread)[c] BY <1>1, <2>2 DEF PartsAreOldest
      <3> QED BY <1>9, <3>1, Zenon
    <2> QED BY <2>1, <2>2
  <1>13. n \in Nat /\ Len(rd) + n <= MeasLen /\ (LastRead => Len(rd) + n = MeasLen)
    BY <1>11, Sizes DEF LastRead, Left
  <1>14. [c \in 1 .. n |-> CellAt(k, (Len(slots[k].data) - Left) + c)] = p
    <2>1. Len(d) = MeasLen
      <3>1. d \in Seq(Vals) /\ Len(d) = MeasLen BY <1>10, Sizes
      <3> QED BY <3>1
    <2>2. PICK l \in Nat : l = Len(rd) BY <1>11
    <2>3. Len(slots[k].data) - Left = l
      BY <1>8, <2>1, <2>2, Sizes DEF Left
    <2>4. ASSUME NEW c \in 1 .. n PROVE CellAt(k, l + c) = d[l + c]
      <3>1. l + c > 0 BY <1>13, <2>2
      <3> QED BY <1>8, <3>1 DEF CellAt
    <2> HIDE DEF n
    <2> QED BY <2>2, <2>3, <2>4
  <1>15. /\ IF LastRead THEN slots' = Mark(k, "READ") /\ rd' = <<>> /\ result' = rd \o p
                        ELSE rd' = rd \o p /\ UNCHANGED <<slots, result>>
    BY <1>3, <1>14, Zenon
  <1> HIDE DEF n, p, V
  <1>16. /\ Len(rd \o p) = Len(rd) + n /\ \A c \in 1 .. Len(rd \o p) : (rd \o p)[c] = d[c]
         /\ Len(rd) + n = MeasLen => rd \o p = d
    <2>1. p = [c \in 1 .. n |-> d[Len(rd) + c]] BY DEF p
    <2> QED BY <1>11, <1>12, <1>13, <2>1, PartOf
  <1>17. Marked' BY <1>2 DEF Marked, Finishing
  <1>18. Pending' = {j \in SlotNos : slots'[j].st = "UNREAD"} BY <1>2 DEF Pending, Unfinished
  <1>19. CASE LastRead
    <2>1. /\ slots'[k].st = "READ" /\ \A j \in SlotNos \ {k} : slots'[j] = slots[j]
      BY <1>1, <1>4, <1>15, <1>19, MarkType
    <2>2. Pending' = Pending \ {k} BY <1>4, <1>18, <2>1
    <2>3. \A j \in Pending \ {k} : slots'[j].data = slots[j].data BY <1>4, <2>1
    <2>4. Unread' = Tail(Unread) BY <1>1, <1>4, <1>5, <1>6, <1>7, <2>2, <2>3, QueueGet
    <2>5. result' = Head(Unread) BY <1>9, <1>13, <1>15, <1>16, <1>19
    <2>6. Queue!Get BY <1>2, <1>9, <2>4, <2>5 DEF Queue!Get
    <2>7. PartsAreOldest' BY <1>15, <1>19 DEF PartsAreOldest
    <2>8. NextIsFree'
      <3>1. PICK f \in 0 .. NMeta - 1 : RestOK(f) BY <1>1, <1>2 DEF PlaceOK, Resting
      <3>2. RingAt(f) BY <3>1 DEF RestOK, Rest
      <3>3. f # 0 /\ b = meta[f].addr
        <4>1. Latest = b BY <1>4, <1>5
        <4> QED BY <1>1, <3>2, <4>1, FoundIs, Distinct
      <3>4. PICK m \in SlotNos : m = NextSlot(b) BY NextRange
      <3>5. slots[m].st = "SPACE" BY <1>2, <3>1, <3>3, <3>4 DEF RestOK, Ahead, QueueInv
      <3>6. slots'[m].st = "SPACE"
        <4>1. m # k BY <1>4, <3>5
        <4> QED BY <2>1, <3>5, <4>1
      <3> QED BY <1>2, <1>6, <3>4, <3>6 DEF NextIsFree, NextSlot
    <2>9. UnreadIsLatest(b)'
      <3>1. ASSUME NEW i \in SlotNos \ {b}, NEW j \in SlotNos \ {b},
                   slots'[i].st = "UNREAD", TurnFrom(b, i) < TurnFrom(b, j)
            PROVE  slots'[j].st = "UNREAD"
        <4>1. i # k /\ slots[i].st = "UNREAD" BY <2>1, <3>1
        <4>2. slots[j].st = "UNREAD" BY <1>1, <1>5, <3>1, <4>1 DEF UnreadIsLatest
        <4>3. TurnFrom(b, k) < TurnFrom(b, i) BY <1>4, <1>5, <4>1
        <4>4. /\ TurnFrom(b, k) \in Int /\ TurnFrom(b, i) \in Int /\ TurnFrom(b, j) \in Int
          BY <1>4, TurnVisits
        <4>5. j # k BY <3>1, <4>3, <4>4
        <4> QED BY <2>1, <4>2, <4>5
      <3>2. CASE k = b
        <4>1. ASSUME NEW j \in SlotNos \ {b}, slots[j].st = "UNREAD" PROVE FALSE
          <5>1. TurnFrom(b, b) < TurnFrom(b, j) BY <1>4, <1>5, <3>2, <4>1
          <5>2. TurnFrom(b, j) < TurnFrom(b, b) BY FirstAndLast
          <5>3. TurnFrom(b, b) \in Int /\ TurnFrom(b, j) \in Int BY TurnVisits
          <5> QED BY <5>1, <5>2, <5>3
        <4>2. NoUnread' BY <2>1, <3>2, <4>1 DEF NoUnread
        <4> QED BY <4>2 DEF UnreadIsLatest, NoUnread
      <3>3. CASE k # b
        <4>1. ~NoUnread BY <1>4 DEF NoUnread
        <4>2. slots[b].st \in {"UNREAD", "SPACE", "PARTIAL"}
          BY <1>1, <1>5, <4>1 DEF UnreadIsLatest
        <4> QED BY <2>1, <3>1, <3>3, <4>2 DEF UnreadIsLatest
      <3> QED BY <3>2, <3>3
    <2>10. UnreadIsLatest(Newest)' BY <1>6, <2>9 DEF UnreadIsLatest, NoUnread
    <2> QED BY <1>17, <2>6, <2>7, <2>8, <2>10 DEF QueueGoal, QueueStep, OrderOK, Queue!Next
  <1>20. CASE ~LastRead
    <2>1. rd' = rd \o p /\ slots' = slots /\ result' = result BY <1>15, <1>20
    <2>2. Pending' = Pending BY <1>4, <1>18, <2>1
    <2>3. Unread' = Unread BY <1>1, <1>5, <1>6, <2>1, <2>2, QueueKept
    <2>4. PartsAreOldest' BY <1>9, <1>16, <2>1, <2>3 DEF PartsAreOldest
    <2>5. NextIsFree'
      <3>1. NextIsFree /\ Latest = b BY <1>4, <1>5 DEF QueueInv, OrderOK
      <3> QED BY <1>2, <1>6, <2>1, <3>1 DEF NextIsFree, Usable, NextSlot
    <2>6. UnreadIsLatest(b)' BY <1>1, <1>5, <2>1 DEF UnreadIsLatest, NoUnread
    <2>7. UnreadIsLatest(Newest)' BY <1>6, <2>6 DEF UnreadIsLatest, NoUnread
    <2> QED BY <1>2, <1>17, <2>1, <2>3, <2>4, <2>5, <2>7 DEF QueueGoal, QueueStep, OrderOK
  <1> QED BY <1>19, <1>20

LEMMA NothingReadYet ==
  ASSUME QueueInv, WholeInv', ReadNone PROVE QueueGoal
  <1>1. /\ WholeInv /\ RingInv /\ TypeInv /\ UnreadIsLatest(Newest) /\ TypeInv' /\ NextIsFree
    BY DEF QueueInv, OrderOK, WholeInv, RingInv
  <1>2. /\ pc = "idle" /\ pc' = "idle" /\ wr' = wr /\ current' = Found /\ rd' = <<>>
        /\ UNCHANGED <<slots, meta, tgt, result>>
    BY DEF ReadNone, call
  <1>3. Latest' = Latest /\ Newest' = Newest
    <2>1. Found' = Found
      <3>1. PICK f : f = Found OBVIOUS
      <3>2. current' = f /\ (current = 0 => f = WalkFinds("ACTIVE")) /\ (current # 0 => f = current)
        BY <1>2, <3>1 DEF Found
      <3>3. WalkFinds("ACTIVE")' = WalkFinds("ACTIVE") BY <1>2 DEF WalkFinds, StopsAt
      <3> QED BY <3>1, <3>2, <3>3 DEF Found
    <2>2. Latest' = Latest BY <1>2, <2>1 DEF Latest
    <2> QED BY <1>2, <2>2 DEF Newest
  <1>4. Pending' = Pending BY <1>2 DEF Pending, Unfinished
  <1>5. \A k \in Pending : slots'[k].data = slots[k].data BY <1>2
  <1>6. Unread' = Unread BY <1>1, <1>3, <1>4, <1>5, QueueKept
  <1>7. PICK b : b = Newest OBVIOUS
  <1>8. UnreadIsLatest(b)' BY <1>1, <1>2, <1>7 DEF UnreadIsLatest, NoUnread
  <1>9. UnreadIsLatest(Newest)' BY <1>3, <1>7, <1>8 DEF UnreadIsLatest, NoUnread
  <1>10. NextIsFree' BY <1>1, <1>2, <1>3 DEF NextIsFree, Usable, NextSlot
  <1>11. Marked' /\ PartsAreOldest' BY <1>2 DEF Marked, Finishing, PartsAreOldest
  <1> QED BY <1>2, <1>6, <1>9, <1>10, <1>11 DEF QueueGoal, QueueStep, OrderOK

(***************************************************************************)
(* A chip erase, a power failure and a restart.                            *)
(***************************************************************************)
\* An erased memory is an empty queue.
EmptyStore == slots = ErasedSlots /\ pc \in {"idle", "down", "stray"}

LEMMA EmptyOrder ==
  ASSUME TypeInv, ReadingOK, EmptyStore
  PROVE  Unread = <<>> /\ rd = <<>> /\ OrderOK /\ PartsAreOldest
  <1>1. \A k \in SlotNos : slots[k].st = "SPACE" BY DEF EmptyStore, ErasedSlots, FreeSlot
  <1>2. NoUnread BY <1>1 DEF NoUnread
  <1>3. Unread = <<>> BY <1>2, EmptyQueue
  <1>4. rd = <<>> BY <1>1 DEF ReadingOK
  <1>5. UnreadIsLatest(Newest) BY <1>2 DEF UnreadIsLatest, NoUnread
  <1>6. NextIsFree BY <1>1 DEF NextIsFree, Usable, EmptyStore
  <1>7. Marked BY DEF Marked, Finishing, EmptyStore
  <1> QED BY <1>3, <1>4, <1>5, <1>6, <1>7 DEF OrderOK, PartsAreOldest

LEMMA ChipErased ==
  ASSUME TypeInv', ReadingOK', EraseChip PROVE QueueGoal
  <1>1. /\ slots' = ErasedSlots /\ wr' = NoFile /\ result' = result /\ pc' = "idle"
    BY DEF EraseChip
  <1>2. EmptyStore' BY <1>1 DEF EmptyStore, ErasedSlots, FreeSlot
  <1>3. (TypeInv /\ ReadingOK /\ EmptyStore
           => Unread = <<>> /\ rd = <<>> /\ OrderOK /\ PartsAreOldest)'
    BY EmptyOrder, PTL
  <1>4. Unread' = <<>> /\ OrderOK' /\ PartsAreOldest' BY <1>2, <1>3
  <1>5. Queue!Format BY <1>1, <1>4, NoFileNone DEF Queue!Format
  <1> QED BY <1>4, <1>5 DEF QueueGoal, QueueStep, Queue!Next

\* With an address of an entry left over from before it, it stays one.
LEMMA StaleQueue ==
  ASSUME HostRepeats, WholeStale, [Next]_vars, TypeInv', ReadingOK', EmptyStore' PROVE QueueGoal
  <1>1. EmptyStore /\ TypeInv /\ ReadingOK /\ (pc = "idle" => wr = NoFile)
    BY DEF WholeStale, StaleOK, EmptyStore
  <1>2. Unread = <<>> BY <1>1, EmptyOrder
  <1>3. (TypeInv /\ ReadingOK /\ EmptyStore
           => Unread = <<>> /\ rd = <<>> /\ OrderOK /\ PartsAreOldest)'
    BY EmptyOrder, PTL
  <1>4. Unread' = <<>> /\ OrderOK' /\ PartsAreOldest' BY <1>3
  <1>5. QueueStep
    <2>1. ASSUME NEW file \in Files, CallWrite(file) PROVE QueueStep
      <3>1. wr = NoFile /\ wr' = [wr EXCEPT !.file = file] /\ result' = result
        BY <1>1, <2>1 DEF CallWrite
      <3>2. wr.file = <<>> /\ wr'.file = file BY <3>1, NoFileNone DEF NoFile
      <3>3. Queue!Offer BY <1>2, <1>4, <3>1, <3>2 DEF Queue!Offer
      <3> QED BY <3>3 DEF QueueStep, Queue!Next
    <2>2. CASE EraseChip
      <3>1. wr' = NoFile /\ result' = result BY <2>2 DEF EraseChip
      <3>2. Queue!Format BY <1>4, <3>1, NoFileNone DEF Queue!Format
      <3> QED BY <3>2 DEF QueueStep, Queue!Next
    <2>3. ~Read
      <3>1. \A k \in SlotNos : slots[k].st = "SPACE"
        BY <1>1 DEF EmptyStore, ErasedSlots, FreeSlot
      <3> QED BY <3>1 DEF Read, FirstUnread, UnreadAt
    <2>4. ~Work
      BY DEF WholeStale, StaleOK, Work, EraseRing, WriteEntry, RetireEntry, WriteHeader,
             MarkUnread, EraseNext, WriteData
    <2>5. CASE ReadNone \/ Crash \/ Restart \/ UNCHANGED vars
      <3>1. UNCHANGED <<wr, result>> BY <2>5 DEF ReadNone, Crash, Restart, vars, host
      <3> QED BY <1>2, <1>4, <3>1 DEF QueueStep
    <2> QED BY <2>1, <2>2, <2>3, <2>4, <2>5 DEF Next, Command
  <1> QED BY <1>4, <1>5 DEF QueueGoal

\* After a power failure the walk finds the entry that is ACTIVE in flash.
LEMMA FoundAgain ==
  ASSUME TypeInv, ~wrapped, NEW f \in 0 .. NMeta - 1, RingAt(f), meta' = meta, current' = 0
  PROVE  Latest' = IF f = 0 THEN None ELSE meta[f].addr
  <1>1. WalkFinds("ACTIVE") = f
    <2>1. f # 0 => WalkFinds("ACTIVE") = f BY FoundIs
    <2>2. f = 0 => current = 0 /\ Found = 0 BY FoundIs DEF RingAt
    <2> QED BY <2>1, <2>2 DEF Found
  <1>2. WalkFinds("ACTIVE")' = WalkFinds("ACTIVE") BY DEF WalkFinds, StopsAt
  <1>3. Found' = f BY <1>1, <1>2 DEF Found
  <1> QED BY <1>3 DEF Latest

LEMMA PowerFailed ==
  ASSUME SafeUse, QueueInv, WholeInv', Crash PROVE QueueGoal
  <1>1. /\ WholeInv /\ RingInv /\ TypeInv /\ UnreadIsLatest(Newest) /\ NextIsFree
        /\ slots \in [SlotNos -> Slot] /\ TypeInv' /\ PlaceOK /\ PartsAreOldest
    BY DEF QueueInv, OrderOK, WholeInv, RingInv, TypeInv, MeasTypeOK
  <1>2. /\ ~wrapped /\ current' = 0 /\ pc' = "down"
        /\ pc \in Pcs \ {"next", "last", "stray", "down"}
        /\ UNCHANGED <<meta, tgt, wr, rd, result>>
    <2>1. HostRepeats BY DEF QueueInv
    <2>2. pc \in Pcs \ {"next", "last", "stray", "down"}
      BY <1>1, <2>1 DEF Crash, SafeUse, TypeInv, MeasTypeOK
    <2>3. UnderErase = {} BY <1>1, <2>1, <2>2 DEF UnderErase, WholeInv, SpareOK
    <2>4. meta' = meta BY <2>3 DEF Crash
    <2> QED BY <2>1, <2>2, <2>4, <1>1 DEF Crash, SafeUse, TypeInv, MeasTypeOK
  <1>3. Newest' = Latest' /\ doubt = {} /\ slots' \in Torn
    <2>1. UnderErase = {} BY <1>1, <1>2 DEF UnderErase, WholeInv, SpareOK, QueueInv
    <2>2. slots' \in Torn BY <2>1 DEF Crash
    <2> QED BY <1>2, <2>2 DEF Newest, QueueInv, WholeInv, HoldsOK
  <1>4. Marked' BY <1>2 DEF Marked, Finishing
  <1>5. /\ \A k \in SlotNos : slots'[k].st = slots[k].st
        /\ \A k \in Pending : slots'[k].data = slots[k].data
    <2>1. CASE pc # "data"
      <3>1. slots' = slots BY <1>2, <1>3, <2>1 DEF Torn
      <3> QED BY <3>1
    <2>2. CASE pc = "data"
      <3>1. Received(tgt) /\ slots[tgt].st = "PARTIAL" BY <1>1, <1>3, <2>2, TargetReceived
      <3>2. PICK m \in 0 .. req.n : slots' = WithPart(m) \/ slots' = slots
        <4>1. 0 \in 0 .. req.n BY <1>1 DEF TypeInv, MeasTypeOK
        <4> QED BY <1>3, <4>1 DEF Torn
      <3>3. tgt \notin Pending BY <3>1 DEF Pending
      <3>4. CASE slots' = slots BY <3>4
      <3>5. CASE slots' = WithPart(m)
        <4>1. /\ \A k \in SlotNos \ {tgt} : slots'[k] = slots[k]
              /\ slots'[tgt].st = slots[tgt].st
          BY <1>1, <2>2, <3>1, <3>5, PartReceived
        <4> QED BY <3>3, <4>1 DEF Pending
      <3> QED BY <3>2, <3>4, <3>5
    <2> QED BY <2>1, <2>2
  <1>6. Pending' = Pending
    <2>1. \A k \in SlotNos : ~Unfinished(k) /\ ~Unfinished(k)' BY <1>2 DEF Unfinished
    <2> QED BY <1>5, <2>1 DEF Pending
  <1>7. ASSUME Unread' = Unread, UnreadIsLatest(Newest)', NextIsFree' PROVE QueueGoal
    <2>1. PartsAreOldest' BY <1>1, <1>2, <1>7 DEF PartsAreOldest
    <2> QED BY <1>2, <1>4, <1>7, <2>1 DEF QueueGoal, QueueStep, OrderOK
  \* The latest that is found is the newest, or there is none.
  <1>8. ASSUME NEW b, Newest = b, Newest' = b,
               b \in SlotNos => Usable(b) \/ slots[NextSlot(b)].st = "SPACE"
        PROVE  QueueGoal
    <2>1. Unread' = Unread BY <1>1, <1>5, <1>6, <1>8, QueueKept
    <2>2. UnreadIsLatest(b)' BY <1>1, <1>5, <1>8, UnreadIsLatestKept
    <2>3. UnreadIsLatest(Newest)' BY <1>8, <2>2 DEF UnreadIsLatest, NoUnread
    <2>4. NextIsFree'
      <3> SUFFICES ASSUME b \in SlotNos PROVE Usable(b)' \/ slots'[NextSlot(b)].st = "SPACE"
        BY <1>2, <1>3, <1>8 DEF NextIsFree, Usable, NextSlot
      <3>1. NextSlot(b) \in SlotNos BY NextRange
      <3> QED BY <1>5, <1>8, <3>1 DEF Usable
    <2> QED BY <1>7, <2>1, <2>3, <2>4
  <1>9. CASE pc = "idle"
    <2>1. PICK f \in 0 .. NMeta - 1 : RingAt(f)
      BY <1>1, <1>9 DEF PlaceOK, Resting, RestOK, Rest
    <2>2. Latest' = Latest
      <3>1. Latest' = IF f = 0 THEN None ELSE meta[f].addr BY <1>1, <1>2, <2>1, FoundAgain
      <3>2. Latest = IF f = 0 THEN None ELSE meta[f].addr BY <1>1, <2>1, FoundIs
      <3> QED BY <3>1, <3>2
    <2>3. Newest = Latest BY <1>1, <1>9, NewestIs
    <2>4. PICK b : b = Latest OBVIOUS
    <2>5. b \in SlotNos => Usable(b) \/ slots[NextSlot(b)].st = "SPACE"
      BY <1>1, <1>9, <2>4 DEF NextIsFree
    <2> QED BY <1>3, <1>8, <2>2, <2>3, <2>4, <2>5
  <1>10. CASE pc \in {"header", "unread", "data"}
    <2>1. Writing /\ slots[tgt].st \in {"SPACE", "PARTIAL"} BY <1>1, <1>10 DEF PlaceOK, New
    <2>2. PICK f \in 0 .. NMeta - 1 : f = current /\ RingAt(f) /\ f # 0 /\ meta[f].addr = tgt
      BY <2>1 DEF Writing, RingAt
    <2>3. Latest' = tgt BY <1>1, <1>2, <2>2, FoundAgain
    <2>4. Newest = tgt BY <1>1, <1>10, NewestIs DEF Busy
    <2> QED BY <1>3, <1>8, <2>1, <2>3, <2>4 DEF Usable
  <1>11. CASE pc \in {"ring", "entry", "retire"}
    <2>1. Rest(current) /\ slots[tgt].st = "SPACE"
      BY <1>1, <1>2, <1>11 DEF PlaceOK, EntryOK, RetireOK, New
    <2>2. PICK f \in 0 .. NMeta - 1 : f = current /\ RingAt(f) BY <2>1 DEF Rest, RingAt
    <2>3. Latest' = IF f = 0 THEN None ELSE meta[f].addr BY <1>1, <1>2, <2>2, FoundAgain
    <2>4. PICK t \in SlotNos : t = tgt /\ Newest = t BY <1>1, <1>11, NewestIs DEF Busy
    <2>5. IF f = 0 THEN NoUnread ELSE t \in {meta[f].addr, NextSlot(meta[f].addr)}
      BY <1>1, <1>2, <1>11, <2>2, <2>4 DEF NextIsFree
    <2>6. CASE f = 0
      <3>1. NoUnread' BY <1>5, <2>5, <2>6 DEF NoUnread
      <3>2. Unread = <<>> BY <1>1, <2>5, <2>6, EmptyQueue
      <3>3. Unread' = <<>>
        <4>1. (TypeInv => (NoUnread => Unread = <<>>))' BY EmptyQueue, PTL
        <4> QED BY <1>1, <3>1, <4>1
      <3>4. UnreadIsLatest(Newest)' BY <3>1 DEF UnreadIsLatest, NoUnread
      <3>5. NextIsFree' BY <1>2, <2>3, <2>6, Distinct DEF NextIsFree
      <3> QED BY <1>7, <3>2, <3>3, <3>4, <3>5
    <2>7. CASE f # 0
      <3>1. PICK a \in SlotNos : a = meta[f].addr BY <2>2, <2>7 DEF RingAt
      <3>2. Newest' = a /\ Latest' = a BY <1>3, <2>3, <2>7, <3>1
      <3>3. CASE t = a BY <1>8, <2>1, <2>4, <3>2, <3>3 DEF Usable
      <3>4. CASE t # a
        <4>1. t = NextSlot(a) BY <2>5, <2>7, <3>1, <3>4
        <4>2. slots[t].st = "SPACE" BY <2>1, <2>4
        <4>3. t \notin Pending BY <4>2 DEF Pending
        <4>4. Unread' = Unread BY <1>1, <1>5, <1>6, <2>4, <3>2, <4>1, <4>3, MovedOn
        <4>5. NextIsFree'
          <5>1. slots'[NextSlot(a)].st = "SPACE" BY <1>5, <4>1, <4>2
          <5> QED BY <1>2, <3>2, <5>1 DEF NextIsFree, NextSlot
        <4>6. UnreadIsLatest(a)
          <5>1. UnreadIsLatest(t) BY <1>1, <2>4
          <5>2. ASSUME NEW j \in SlotNos \ {a}, NEW k \in SlotNos \ {a},
                       slots[j].st = "UNREAD", TurnFrom(a, j) < TurnFrom(a, k)
                PROVE  slots[k].st = "UNREAD"
            <6>1. j # t BY <4>2, <5>2
            <6>2. k # t
              <7> SUFFICES ASSUME k = t PROVE FALSE OBVIOUS
              <7>1. TurnFrom(a, k) < TurnFrom(a, j) BY <4>1, <6>1, FirstAndLast
              <7>2. TurnFrom(a, k) \in Int /\ TurnFrom(a, j) \in Int BY TurnVisits
              <7> QED BY <5>2, <7>1, <7>2
            <6>3. TurnFrom(t, j) < TurnFrom(t, k) BY <4>1, <5>2, <6>1, <6>2, SameOrder
            <6> QED BY <5>1, <5>2, <6>1, <6>2, <6>3 DEF UnreadIsLatest
          <5>3. NoUnread \/ slots[a].st = "UNREAD"
            <6> SUFFICES ASSUME ~NoUnread PROVE slots[a].st = "UNREAD" OBVIOUS
            <6>1. PICK j \in SlotNos : slots[j].st = "UNREAD" BY DEF NoUnread
            <6>2. CASE j = a BY <6>1, <6>2
            <6>3. CASE j # a
              <7>1. TurnFrom(a, j) < TurnFrom(a, a) BY <6>3, FirstAndLast
              <7>2. j # t /\ a # t BY <3>4, <4>2, <6>1
              <7>3. TurnFrom(t, j) < TurnFrom(t, a) BY <4>1, <7>1, <7>2, SameOrder
              <7> QED BY <5>1, <6>1, <7>2, <7>3 DEF UnreadIsLatest
            <6> QED BY <6>2, <6>3
          <5> QED BY <5>2, <5>3 DEF UnreadIsLatest
        <4>7. UnreadIsLatest(a)' BY <1>5, <4>6, UnreadIsLatestKept
        <4>8. UnreadIsLatest(Newest)' BY <3>2, <4>7 DEF UnreadIsLatest, NoUnread
        <4> QED BY <1>7, <4>4, <4>5, <4>8
      <3> QED BY <3>3, <3>4
    <2> QED BY <2>6, <2>7
  <1> QED BY <1>2, <1>9, <1>10, <1>11 DEF Pcs

LEMMA Restarted ==
  ASSUME QueueInv, WholeInv', Restart PROVE QueueGoal
  <1>1. /\ WholeInv /\ RingInv /\ TypeInv /\ UnreadIsLatest(Newest) /\ TypeInv'
        /\ NextIsFree /\ PartsAreOldest /\ key
    BY DEF QueueInv, OrderOK, WholeInv, RingInv, ReadingOK
  <1>2. /\ pc = "down" /\ pc' = "idle"
        /\ UNCHANGED <<slots, meta, current, tgt, wr, rd, result>>
    BY <1>1 DEF Restart, call, host
  <1>3. Latest' = Latest BY <1>2 DEF Latest, Found, WalkFinds, StopsAt
  <1>4. Newest' = Newest BY <1>2, <1>3 DEF Newest
  <1>5. Pending' = Pending BY <1>2 DEF Pending, Unfinished
  <1>6. \A k \in Pending : slots'[k].data = slots[k].data BY <1>2
  <1>7. Unread' = Unread BY <1>1, <1>4, <1>5, <1>6, QueueKept
  <1>8. PICK b : b = Newest OBVIOUS
  <1>9. UnreadIsLatest(b)' BY <1>1, <1>2, <1>8 DEF UnreadIsLatest, NoUnread
  <1>10. UnreadIsLatest(Newest)' BY <1>4, <1>8, <1>9 DEF UnreadIsLatest, NoUnread
  <1>11. NextIsFree' BY <1>1, <1>2, <1>3 DEF NextIsFree, Usable, NextSlot
  <1>12. Marked' BY <1>2 DEF Marked, Finishing
  <1>13. PartsAreOldest' BY <1>1, <1>2, <1>7 DEF PartsAreOldest
  <1> QED BY <1>2, <1>7, <1>10, <1>11, <1>12, <1>13 DEF QueueGoal, QueueStep, OrderOK

LEMMA NothingDone ==
  ASSUME QueueInv, WholeInv', UNCHANGED vars PROVE QueueGoal
  <1>1. UNCHANGED <<slots, meta, current, pc, tgt, wr, rd, result, wrapped>>
    BY DEF vars, call, host
  <1>2. Latest' = Latest BY <1>1 DEF Latest, Found, WalkFinds, StopsAt
  <1>3. Newest' = Newest BY <1>1, <1>2 DEF Newest
  <1>4. Pending' = Pending BY <1>1 DEF Pending, Unfinished
  <1>5. TypeInv /\ TypeInv' BY DEF QueueInv, WholeInv, RingInv
  <1>6. \A k \in Pending : slots'[k].data = slots[k].data BY <1>1
  <1>7. Unread' = Unread BY <1>3, <1>4, <1>5, <1>6, QueueKept
  <1>8. PICK b : b = Newest OBVIOUS
  <1>9. UnreadIsLatest(b)' BY <1>1, <1>8 DEF QueueInv, OrderOK, UnreadIsLatest, NoUnread
  <1>10. UnreadIsLatest(Newest)' BY <1>3, <1>8, <1>9 DEF UnreadIsLatest, NoUnread
  <1>11. NextIsFree' BY <1>1, <1>2 DEF QueueInv, OrderOK, NextIsFree, Usable, NextSlot, NoUnread
  <1>12. Marked' BY <1>1 DEF QueueInv, OrderOK, Marked, Finishing
  <1>13. PartsAreOldest' BY <1>1, <1>7 DEF QueueInv, PartsAreOldest
  <1> QED BY <1>1, <1>7, <1>10, <1>11, <1>12, <1>13 DEF QueueGoal, QueueStep, OrderOK

LEMMA StepQueue ==
  SafeUse /\ HostRepeats /\ (QueueInv \/ WholeStale) /\ [Next]_vars
     => (QueueInv \/ WholeStale)' /\ [Queue!Next]_(Queue!vars)
  <1> SUFFICES ASSUME SafeUse, HostRepeats, QueueInv \/ WholeStale, [Next]_vars
               PROVE  (QueueInv' \/ WholeStale') /\ [Queue!Next]_(Queue!vars)
    OBVIOUS
  <1>1. /\ WholeInv' \/ WholeStale'
        /\ QueueInv => WholeInv' \/ EraseChip
        /\ WholeStale => EmptyStore'
    <2>1. ErasedSlots' = ErasedSlots BY DEF ErasedSlots, FreeSlot
    <2> QED BY <2>1, StepWhole DEF QueueInv, EmptyStore
  <1>2. TypeInv' /\ ReadingOK' BY <1>1 DEF WholeInv, RingInv, WholeStale
  <1>3. QueueGoal
    <2>1. CASE EraseChip BY <1>2, <2>1, ChipErased
    <2>2. CASE WholeStale BY <1>1, <1>2, <2>2, StaleQueue
    <2>3. CASE QueueInv /\ ~EraseChip
      <3>1. WholeInv' BY <1>1, <2>3
      <3>2. ASSUME NEW file \in Files, CallWrite(file) PROVE QueueGoal
        BY <2>3, <3>1, <3>2, WriteCalled
      <3>3. CASE Work BY <2>3, <3>1, <3>3, RingSteps, NextErased, DataWritten DEF Work
      <3>4. CASE Read BY <2>3, <3>1, <3>4, ReadDone
      <3>5. CASE ReadNone BY <2>3, <3>1, <3>5, NothingReadYet
      <3>6. CASE Crash BY <2>3, <3>1, <3>6, PowerFailed
      <3>7. CASE Restart BY <2>3, <3>1, <3>7, Restarted
      <3>8. CASE UNCHANGED vars BY <2>3, <3>1, <3>8, NothingDone
      <3> QED BY <2>3, <3>2, <3>3, <3>4, <3>5, <3>6, <3>7, <3>8 DEF Next, Command
    <2> QED BY <2>1, <2>2, <2>3
  <1> QED BY <1>1, <1>3 DEF QueueGoal, QueueStep, QueueInv, Queue!vars

LEMMA InitQueue == HostRepeats /\ Init => QueueInv /\ Queue!Init
  <1> SUFFICES ASSUME HostRepeats, Init PROVE QueueInv /\ Queue!Init OBVIOUS
  <1>1. WholeInv /\ TypeInv /\ ReadingOK BY InitWhole DEF WholeInv, RingInv
  <1>2. EmptyStore /\ wr = NoFile /\ result = <<>> BY DEF Init, EmptyStore
  <1>3. Unread = <<>> /\ OrderOK /\ PartsAreOldest BY <1>1, <1>2, EmptyOrder
  <1> QED BY <1>1, <1>2, <1>3, NoFileNone DEF QueueInv, Queue!Init

\* For a host that repeats the part a power failure cut short, power that does
\* not fail between the UNREAD mark and the last part, nor once the entries have
\* gone round, and reads that spare the key: the store is a queue of whole
\* measurements.  A step of the calls, of a failure, of a chip erase or of a
\* restart offers, drops, adds or takes a measurement at the right end, or empties
\* the queue, or changes nothing.
THEOREM ImplementsQueueHolds ==
  ASSUME SafeUse, HostRepeats PROVE Spec => ImplementsQueue
  <1>1. (QueueInv \/ WholeStale) /\ [Next]_vars
           => (QueueInv \/ WholeStale)' /\ [Queue!Next]_(Queue!vars)
    BY StepQueue
  <1>2. Init => QueueInv /\ Queue!Init BY InitQueue
  <1> QED BY <1>1, <1>2, PTL DEF Spec, ImplementsQueue, Queue!Spec
=============================================================================
