--------------------------- MODULE MeasStoreProps ---------------------------
(***************************************************************************)
(* What is checked of MeasStore, and that it implements MeasQueue.         *)
(***************************************************************************)
EXTENDS MeasStore

\* Every variable stays in its type (file_header_t, meta_data_t, the RAM copy
\* of the entry's address, the host's books).
MeasTypeOK ==
    /\ slots \in [SlotNos -> Slot]
    /\ meta \in [1 .. NMeta -> Entry]
    /\ key \in BOOLEAN
    /\ current \in 0 .. NMeta
    /\ pc \in Pcs
    /\ req \in [rem : 0 .. MeasLen, n : 0 .. MeasLen]
    /\ tgt \in SlotNos
    /\ ent \in 0 .. NMeta
    /\ wr \in [file : Files \cup {<<>>}, sent : 0 .. MeasLen]
    /\ rd \in Seq(Vals \cup {Blank, Mixed})
    /\ result \in Seq(Vals \cup {Blank, Mixed})
    /\ wrapped \in BOOLEAN
    /\ doubt \subseteq SlotNos

\* A call never takes an erased entry's address for the latest file's: the
\* writing of a measurement stays inside the allocations, whatever was written,
\* read and erased before ("No current file info is stored. Start searching").
WritesInside == pc # "stray"

\* The RAM address of the ACTIVE entry has outlived an erase of the chip.
Outlived == current # 0 /\ meta = ErasedMeta

\* There is one way only for a write to leave the allocations: it is the first
\* since the chip was erased, and the device was not restarted in between.
StraysOnlyAfterErase ==
    [][ (pc # "stray" /\ pc' = "stray") => (pc = "idle" /\ Outlived) ]_vars

LatestStored ==
    current # 0 /\ ~Outlived =>
        /\ WalkFinds("ACTIVE") # 0
        /\ meta[WalkFinds("ACTIVE")].addr = meta[current].addr

\* The latest file a restart would find in flash is the one known in RAM: the
\* search does not answer "No file exists" when one does.
LatestIsStored == pc = "idle" => LatestStored

\* The same while the meta data has not been erased for another round.
LatestStoredFirstRound == pc = "idle" /\ ~wrapped => LatestStored

\* Between two measurements the allocation behind the latest one is erased, so
\* that the next measurement costs no unread one but the oldest, and at most
\* one file is PARTIAL at any time.
SpaceAhead ==
    /\ pc = "idle" /\ wr = NoFile /\ Latest \in SlotNos
          => slots[NextSlot(Latest)].st = "SPACE"
    /\ Cardinality({k \in SlotNos : slots[k].st = "PARTIAL"}) <= 1

\* Between calls a file marked UNREAD is whole: every part of it was received
\* and programmed before it is marked, except where a power failure came before
\* its last part, or between parts the host did not go on with.
UnreadIsWhole ==
    pc = "idle" =>
        \A k \in SlotNos \ doubt : slots[k].st = "UNREAD" => slots[k].data \in Files

\* Between calls a file marked UNREAD is "A file written, but unread"
\* (large_file_storage.h:20): a measurement the host sent.
UnreadIsWritten ==
    pc = "idle" => \A k \in SlotNos : slots[k].st = "UNREAD" => slots[k].data \in Files

\* A restart keeps every measurement: the memory is formatted only when it does
\* not hold "A key that identify formated memory".
RestartKeepsMeas == [][ (pc = "down" /\ pc' = "idle") => slots' = slots ]_vars

-----------------------------------------------------------------------------
(***************************************************************************)
(* MeasStore implements MeasQueue.                                         *)
(***************************************************************************)
\* The file that is marked UNREAD and has its last part still to come.
Unfinished(k) == k = tgt /\ pc \in {"next", "last"}

\* The latest file, when its entry is written or as good as written.
Newest == IF pc \in {"ring", "entry", "retire"} THEN tgt ELSE Latest

\* The turn in which a walk behind the newest file comes to allocation k.
TurnOf(k) == CHOOSE i \in 1 .. NSlots + 1 : VisitedFrom(Newest, i) = k

\* The finished files that were not read.
Pending == {k \in SlotNos : slots[k].st = "UNREAD" /\ ~Unfinished(k)}

\* How many of them the reader comes to before k.
Earlier(k) == Cardinality({j \in Pending : TurnOf(j) < TurnOf(k)})

Unread ==
    [n \in 1 .. Cardinality(Pending) |->
        slots[CHOOSE k \in Pending : Earlier(k) = n - 1].data]

Queue == INSTANCE MeasQueue WITH
    Cap <- NSlots - 1, queue <- Unread, input <- wr.file, output <- result

\* The store implements the queue: through parts, restarts between the programs
\* that write a new entry or a part, and rounds of both rings, measurements are
\* read whole, once, and oldest first, and none is given up but the oldest of a
\* full store.
ImplementsQueue == Queue!Spec
=============================================================================
