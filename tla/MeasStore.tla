------------------------------ MODULE MeasStore ------------------------------
(***************************************************************************)
(* large_file_storage.c: measurements in a ring of equal allocations, and  *)
(* a second ring of meta data entries, of which the one that is ACTIVE     *)
(* (kept in RAM too) tells the allocation written last.  One command runs  *)
(* at a time, a step is one flash program or erase, and the power may fail *)
(* between two steps.                                                      *)
(*                                                                         *)
(* Allocations are numbered from 0, entries from 1.  The last entry begins *)
(* in the last byte of the meta data and has its address in the header of  *)
(* the first allocation: 4096 is 819 entries of 5 bytes and one byte.  It  *)
(* is taken when a walk has found all the others INACTIVE.                 *)
(***************************************************************************)
EXTENDS Integers, Sequences, FiniteSets

CONSTANTS
    Files,            \* measurements, sequences of MeasLen cells
    Vals,             \* values of a programmed cell
    Blank,            \* an erased cell, and an erased address (all ones)
    Mixed,            \* two different values programmed into one cell
    None,             \* address 0: there is no file
    NSlots,           \* allocations that fit between the data addresses
    NMeta,            \* entries that begin inside the meta data
    MeasLen,          \* cells of a measurement
    WritePart,        \* cells in one part written, at most
    ReadPart,         \* cells in one part read, at most
    ReadBlind,        \* the host may read when every measurement was read
    HostRepeats,      \* after a power failure the host repeats its part
    CrashPcs,         \* the points at which the power may fail
    CrashLate         \* also when the meta data was erased for a new round

ASSUME MeasAssumption ==
    /\ NSlots \in Nat /\ NSlots >= 2
    /\ NMeta \in Nat /\ NMeta >= 3
    /\ MeasLen \in Nat \ {0} /\ WritePart \in Nat \ {0} /\ ReadPart \in Nat \ {0}
    /\ Files \subseteq [1 .. MeasLen -> Vals]
    /\ ReadBlind \in BOOLEAN /\ HostRepeats \in BOOLEAN /\ CrashLate \in BOOLEAN

VARIABLES
    slots,     \* flash: the allocations
    meta,      \* flash: the meta data entries
    key,       \* flash: the memory key at address 0 is in place
    current,   \* RAM: current_file_address, the entry known to be ACTIVE, or 0
    pc,        \* where the call in progress stands
    req,       \* rem_len and data_len of the call in progress
    tgt,       \* the allocation it writes
    ent,       \* the entry it writes
    wr,        \* the host: the measurement being written, and the cells sent
    rd,        \* the host: the cells of the measurement being read
    result,    \* the host: the last measurement read
    wrapped,   \* history: the meta data was erased since the chip was
    doubt      \* history: allocations a power failure left half written

call == <<req, tgt, ent>>
host == <<wr, rd, result>>
vars == <<slots, meta, key, current, pc, call, host, wrapped, doubt>>

SlotNos == 0 .. NSlots - 1

ASSUME AddressAssumption ==
    /\ None \notin {Blank, Mixed}
    /\ {None, Blank, Mixed} \cap SlotNos = {}

Slot == [st : {"SPACE", "PARTIAL", "UNREAD", "READ", "OBSOLETE"},
         data : Seq(Vals \cup {Blank, Mixed})]

Entry == [st : {"NEW", "ACTIVE", "INACTIVE"}, addr : SlotNos \cup {None, Blank, Mixed}]

Pcs == {"idle", "ring", "entry", "retire", "header", "unread", "next", "data",
        "last", "stray", "down"}

FreeSlot == [st |-> "SPACE", data |-> <<>>]
ErasedSlots == [k \in SlotNos |-> FreeSlot]
ErasedMeta == [e \in 1 .. NMeta |-> [st |-> "NEW", addr |-> Blank]]
NoReq == [rem |-> 0, n |-> 0]
NoFile == [file |-> <<>>, sent |-> 0]

Init ==
    /\ slots = ErasedSlots /\ meta = ErasedMeta /\ key = TRUE
    /\ current = 0 /\ pc = "idle" /\ req = NoReq /\ tgt = 0 /\ ent = 0
    /\ wr = NoFile /\ rd = <<>> /\ result = <<>> /\ wrapped = FALSE
    /\ doubt = {}

-----------------------------------------------------------------------------
(***************************************************************************)
(* The meta data: get_meta_address and get_latest_written_file_address.    *)
(***************************************************************************)
\* Entry e is where the walk over the entries stops: the first not INACTIVE.
StopsAt(e) == meta[e].st # "INACTIVE" /\ \A d \in 1 .. e - 1 : meta[d].st = "INACTIVE"

\* The entry the walk finds to be st, 0 if there is none.
WalkFinds(st) ==
    IF \E e \in 1 .. NMeta : StopsAt(e) /\ meta[e].st = st
    THEN CHOOSE e \in 1 .. NMeta : StopsAt(e)
    ELSE 0

\* Mutant of Found: the walk for a file takes the first NEW entry for one.
FoundAny ==
    CASE current # 0 -> current
      [] current = 0 /\ WalkFinds("ACTIVE") # 0 -> WalkFinds("ACTIVE")
      [] OTHER -> WalkFinds("NEW")

Found == IF current # 0 THEN current ELSE WalkFinds("ACTIVE")

Latest == IF Found = 0 THEN None ELSE meta[Found].addr

\* Mutant of RoomAfter: the entry itself is looked at and not the next one.
RoomAt(e) == e # 0 /\ e <= NMeta

\* The next entry must leave room for one more, else the meta data is erased.
RoomAfter(e) == e # 0 /\ e < NMeta - 1

\* Nothing is ACTIVE and the walk met a NEW entry: that one is taken as it is.
TakesNew == Found = 0 /\ WalkFinds("NEW") # 0

Wraps == ~TakesNew /\ ~RoomAfter(Found)

EntryToWrite ==
    CASE TakesNew -> WalkFinds("NEW") [] Wraps -> 1 [] OTHER -> Found + 1

\* Mutant of Invalidated: the old entry is left ACTIVE.
LeftValid(e) == meta

Invalidated(e) == [meta EXCEPT ![e].st = "INACTIVE"]

-----------------------------------------------------------------------------
(***************************************************************************)
(* Allocations.                                                            *)
(***************************************************************************)
\* The allocation the search for space looks at in turn i: from the latest on,
\* or from the first if the latest address is no allocation's.
Tried(i) == ((IF Latest \in SlotNos THEN Latest ELSE 0) + i - 1) % NSlots

Usable(k) == slots[k].st \in {"SPACE", "PARTIAL"}

Takes(i) == Usable(Tried(i)) /\ \A j \in 1 .. i - 1 : ~Usable(Tried(j))

Occupied == \A k \in SlotNos : ~Usable(k)

\* The walk of first_written_file_address in turn i: behind the latest, then
\* round to it.  It also looks into the space behind the last allocation
\* (number NSlots), which is never written.
VisitedFrom(latest, i) ==
    IF latest \in SlotNos THEN (latest + i) % (NSlots + 1) ELSE i - 1

\* Mutant of Visited: the walk begins with the latest file itself.
VisitedLatestFirst(i) ==
    IF i = 1 /\ Latest \in SlotNos THEN Latest ELSE VisitedFrom(Latest, i - 1)

Visited(i) == VisitedFrom(Latest, i)

UnreadAt(i) == Visited(i) \in SlotNos /\ slots[Visited(i)].st = "UNREAD"

FirstUnread == {Visited(i) : i \in {i \in 1 .. NSlots + 1 :
                                       UnreadAt(i) /\ \A j \in 1 .. i - 1 : ~UnreadAt(j)}}

NextSlot(k) == IF k + 1 < NSlots THEN k + 1 ELSE 0

\* Mutant of Freed: the allocation is left as it is.
NotFreed(k) == slots

Freed(k) == [slots EXCEPT ![k] = FreeSlot]

\* The header of the first allocation is also the last entry's address.  The
\* bytes of a header (identifier 0) are no allocation's address.
LastEntry(addr) == [meta EXCEPT ![NMeta].addr = addr]

AfterErase(k) == IF k = 0 THEN LastEntry(Blank) ELSE meta

\* A status byte programmed: bits are only cleared.
Mark(k, st) == [slots EXCEPT ![k].st = IF @ = "OBSOLETE" THEN @ ELSE st]

ProgramCell(old, new) == CASE old \in {Blank, new} -> new [] OTHER -> Mixed

\* The part of the measurement the call brings, at its distance from the end.
PartStart == Len(slots[tgt].data) - req.rem

WithPart(m) ==
    [slots EXCEPT ![tgt].data =
        [c \in DOMAIN @ |->
            IF c > PartStart /\ c <= PartStart + m
            THEN ProgramCell(@[c], wr.file[wr.sent + c - PartStart])
            ELSE @[c]]]

-----------------------------------------------------------------------------
(***************************************************************************)
(* write_measurement_in_parts.                                             *)
(***************************************************************************)
\* Mutant of AfterHeader: every part is taken for the last one.
AfterHeaderLast(isLast) == "unread"

\* The next thing to write once the allocation has its header.
AfterHeader(isLast) == IF isLast THEN "unread" ELSE "data"

\* The search for a partial or free allocation; when there is none the first
\* one is erased.  An erased address passes for an allocation's: stray.
CallWrite(file) ==
    LET rem == MeasLen - wr.sent
        n   == IF rem < WritePart THEN rem ELSE WritePart
    IN  /\ pc = "idle" /\ rd = <<>>
        /\ wr = NoFile \/ wr.file = file
        /\ wr' = [wr EXCEPT !.file = file]
        /\ req' = [rem |-> rem, n |-> n]
        /\ current' = Found
        /\ \/ /\ Latest \in {Blank, Mixed}
              /\ pc' = "stray"
              /\ UNCHANGED <<slots, meta, tgt, ent, doubt>>
           \/ /\ Latest \notin {Blank, Mixed}
              /\ \/ /\ Occupied
                    /\ tgt' = 0 /\ slots' = Freed(0) /\ meta' = AfterErase(0)
                    /\ doubt' = doubt \ {0}
                 \/ /\ \E i \in 1 .. NSlots : Takes(i) /\ tgt' = Tried(i)
                    /\ UNCHANGED <<slots, meta, doubt>>
              /\ IF slots'[tgt'].st = "SPACE"
                 THEN ent' = EntryToWrite /\ pc' = IF Wraps THEN "ring" ELSE "entry"
                 ELSE ent' = 0 /\ pc' = AfterHeader(n = rem)
        /\ UNCHANGED <<key, rd, result, wrapped>>

\* The meta data is full: it is erased before the new entry is written.
EraseRing ==
    /\ pc = "ring"
    /\ meta' = [ErasedMeta EXCEPT ![NMeta].addr = meta[NMeta].addr]
    /\ wrapped' = TRUE
    /\ pc' = "entry"
    /\ UNCHANGED <<slots, key, current, call, host, doubt>>

\* The new entry.  What is INACTIVE stays so; the last entry runs over the
\* header of the first allocation, whose status becomes 0.
WriteEntry ==
    /\ pc = "entry"
    /\ meta' = [meta EXCEPT ![ent] =
                   [st   |-> IF @.st = "INACTIVE" THEN "INACTIVE" ELSE "ACTIVE",
                    addr |-> IF @.addr = None THEN None ELSE ProgramCell(@.addr, tgt)]]
    /\ slots' = IF ent = NMeta THEN Mark(0, "OBSOLETE") ELSE slots
    /\ IF current # 0
       THEN pc' = "retire" /\ UNCHANGED current
       ELSE pc' = "header" /\ current' = ent
    /\ UNCHANGED <<key, call, host, wrapped, doubt>>

\* The entry before it is made INACTIVE, and the new one the one known.
RetireEntry ==
    /\ pc = "retire"
    /\ meta' = Invalidated(current)
    /\ current' = ent
    /\ pc' = "header"
    /\ UNCHANGED <<slots, key, call, host, wrapped, doubt>>

WriteHeader ==
    /\ pc = "header"
    /\ slots' = [Mark(tgt, "PARTIAL") EXCEPT ![tgt].data =
                    [c \in 1 .. req.rem |-> IF c \in DOMAIN @ THEN @[c] ELSE Blank]]
    /\ meta' = IF tgt = 0 THEN LastEntry(None) ELSE meta
    /\ pc' = AfterHeader(req.n = req.rem)
    /\ UNCHANGED <<key, current, call, host, wrapped, doubt>>

\* The last part: the file is marked UNREAD ...
MarkUnread ==
    /\ pc = "unread"
    /\ slots' = Mark(tgt, "UNREAD")
    /\ pc' = "next"
    /\ UNCHANGED <<meta, key, current, call, host, wrapped, doubt>>

\* ... and the next allocation erased, before the data is written.
EraseNext ==
    /\ pc = "next"
    /\ slots' = Freed(NextSlot(tgt))
    /\ meta' = AfterErase(NextSlot(tgt))
    /\ doubt' = doubt \ {NextSlot(tgt)}
    /\ pc' = "last"
    /\ UNCHANGED <<key, current, call, host, wrapped>>

WriteData ==
    /\ pc \in {"data", "last"}
    /\ IF PartStart < 0
       THEN pc' = "stray" /\ UNCHANGED <<slots, wr, req>>
       ELSE /\ slots' = WithPart(req.n)
            /\ wr' = IF req.n = req.rem THEN NoFile ELSE [wr EXCEPT !.sent = @ + req.n]
            /\ req' = NoReq
            /\ pc' = "idle"
    /\ UNCHANGED <<meta, key, current, tgt, ent, rd, result, wrapped, doubt>>

-----------------------------------------------------------------------------
(***************************************************************************)
(* cmd_meas_read, cmd_ext_mem_chip_erase.                                  *)
(***************************************************************************)
Left == MeasLen - Len(rd)

\* Mutant of LastRead: any part marks the file READ.
AnyRead == TRUE

LastRead == Left <= ReadPart

\* A cell of an allocation, or a byte of its header in front of the data.
CellAt(k, c) == IF c > 0 THEN slots[k].data[c] ELSE Mixed

\* A part of the first unread measurement; the last part marks it READ.
Read ==
    /\ pc = "idle" /\ wr = NoFile
    /\ current' = Found
    /\ \E k \in FirstUnread :
          LET from == Len(slots[k].data) - Left
              got  == rd \o [c \in 1 .. (IF LastRead THEN Left ELSE ReadPart) |->
                                CellAt(k, from + c)]
          IN  IF LastRead
              THEN slots' = Mark(k, "READ") /\ rd' = <<>> /\ result' = got
              ELSE rd' = got /\ UNCHANGED <<slots, result>>
    /\ UNCHANGED <<meta, key, pc, call, wr, wrapped, doubt>>

\* All measurements have been read: the address is 0, where the key is, which
\* the last part marks READ.  The host is given an error or bytes of no file.
ReadNone ==
    /\ ReadBlind
    /\ pc = "idle" /\ wr = NoFile
    /\ FirstUnread = {}
    /\ current' = Found
    /\ key' = (key /\ ~LastRead)
    /\ rd' = <<>>
    /\ UNCHANGED <<slots, meta, pc, call, wr, result, wrapped, doubt>>

\* The chip erase forgets sfs_init's addresses and not current_file_address.
EraseChip ==
    /\ pc \in {"idle", "stray"}
    /\ slots' = ErasedSlots /\ meta' = ErasedMeta /\ key' = TRUE
    /\ pc' = "idle" /\ req' = NoReq
    /\ wr' = NoFile /\ rd' = <<>>
    /\ wrapped' = FALSE
    /\ doubt' = {}
    /\ UNCHANGED <<current, tgt, ent, result>>

-----------------------------------------------------------------------------
(***************************************************************************)
(* Power failure and restart.  The tool never repeats a part: without an    *)
(* answer it waits until it is started again, and then begins another      *)
(* measurement; between two parts it may notice nothing.  The runs of the  *)
(* queue have a host that repeats the part it has no answer to.            *)
(***************************************************************************)
Torn ==
    IF pc \in {"data", "last"} /\ PartStart >= 0
    THEN {WithPart(m) : m \in 0 .. req.n}
    ELSE {slots}

\* An allocation takes several erase commands, the first of which clears its
\* header.  The call that begins erases one too when all are occupied.
UnderErase ==
    {k \in SlotNos :
        \/ pc = "next" /\ k = NextSlot(tgt)
        \/ pc = "idle" /\ rd = <<>> /\ Occupied /\ k = 0}

HalfErased(k, m) ==
    [slots EXCEPT ![k].st = "SPACE",
                  ![k].data = [c \in DOMAIN @ |-> IF c <= m THEN Blank ELSE @[c]]]

\* A file marked UNREAD without its last part, the one whose parts so far the
\* host gives up, and an allocation with leftovers in it.
HalfWritten ==
    {k \in SlotNos :
        \/ k = tgt /\ pc \in {"next", "last"}
        \/ wr' # wr /\ slots[k].st = "PARTIAL"
        \/ k \in UnderErase /\ slots' # slots}

Crash ==
    /\ pc \in CrashPcs \ {"stray", "down"}
    /\ CrashLate \/ ~wrapped
    /\ \/ slots' \in Torn /\ UNCHANGED meta
       \/ \E k \in UnderErase, m \in 0 .. MeasLen :
             slots' = HalfErased(k, m) /\ meta' = AfterErase(k)
    /\ pc' = "down" /\ current' = 0 /\ req' = NoReq
    /\ \/ wr' = wr /\ (HostRepeats \/ pc = "idle")
       \/ wr' = NoFile /\ ~HostRepeats
    /\ doubt' = doubt \cup HalfWritten
    /\ UNCHANGED <<key, tgt, ent, rd, result, wrapped>>

\* ext_mem_init formats a memory without the key.
Restart ==
    /\ pc = "down"
    /\ pc' = "idle"
    /\ slots' = IF key THEN slots ELSE ErasedSlots
    /\ meta' = IF key THEN meta ELSE ErasedMeta
    /\ wrapped' = (wrapped /\ key)
    /\ doubt' = IF key THEN doubt ELSE {}
    /\ key' = TRUE
    /\ UNCHANGED <<current, call, host>>

-----------------------------------------------------------------------------
Command == (\E file \in Files : CallWrite(file)) \/ Read \/ ReadNone \/ EraseChip

Work ==
    \/ EraseRing \/ WriteEntry \/ RetireEntry \/ WriteHeader
    \/ MarkUnread \/ EraseNext \/ WriteData

Next == Command \/ Work \/ Crash \/ Restart

Spec == Init /\ [][Next]_vars
=============================================================================
