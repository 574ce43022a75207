---------------------------- MODULE FlashMemory ----------------------------
(***************************************************************************)
(* What the flash driver promises: a memory of cells which are programmed, *)
(* read and erased by one call at a time.  A call that succeeds has done   *)
(* all of it, a call that fails or is cut short leaves the cells it was    *)
(* to change in doubt, and no other.  A call made while the memory still   *)
(* works at one that failed is late: it promises nothing of its own cells, *)
(* but it harms no others.  Nothing here knows of SPI transfers, program   *)
(* pages, write enable or busy times.                                      *)
(***************************************************************************)
EXTENDS Naturals, Sequences

CONSTANTS
    Size,     \* cells of the memory
    Values,   \* contents of a cell
    Blank,    \* an erased cell
    Mixed,    \* a cell programmed twice with different values
    Key       \* the memory key

VARIABLES
    mem,     \* the cells
    call,    \* the call in progress
    reply,   \* the answer to the last one
    loose,   \* cells of a failed call the memory may still be working on
    late     \* the call in progress began too early

vars == <<mem, call, reply, loose, late>>

Cells == 0 .. Size - 1

NoCall == [kind |-> "none"]

KeyCall == [kind |-> "key", from |-> 0, data |-> <<Key>>]

NoReply == [result |-> "none", data |-> <<>>]

Success(data) == [result |-> "success", data |-> data]

Successes == [result : {"success"}, data : Seq(Values)]

Errors == [result : {"timeout", "busy", "invalid", "data_size"}, data : {<<>>}]

\* Programming clears bits, erasing sets them all.
Programmed(old, new) == CASE old \in {Blank, new} -> new [] OTHER -> Mixed

InRange(c) == c >= call.from /\ c < call.from + Len(call.data)

Changes == {c \in Cells : call # NoCall /\ call.kind # "read" /\ InRange(c)}

Target(c) ==
    IF call.kind \in {"write", "key"} THEN Programmed(mem[c], call.data[c - call.from + 1])
    ELSE Blank

InDoubt(S) ==
    /\ mem' \in [Cells -> Values]
    /\ \A c \in Cells \ S : mem'[c] = mem[c]

-----------------------------------------------------------------------------
Init ==
    /\ mem = [c \in Cells |-> Blank]
    /\ call = NoCall
    /\ reply = NoReply
    /\ loose = {}
    /\ late = FALSE

\* A call begins: late if the memory is not quiet; an erase of the whole memory
\* may be late also when something else than the memory is not.
Call ==
    /\ call = NoCall
    /\ call' \in [kind : {"write", "read", "erase", "format", "key"},
                   from : Cells, data : Seq(Values)]
    /\ call'.from + Len(call'.data) <= Size
    /\ reply' = NoReply
    /\ loose # {} => late'
    /\ late' => loose # {} \/ call'.kind = "format"
    /\ late' \in BOOLEAN
    /\ UNCHANGED <<mem, loose>>

\* Any part of the work may be done before the rest.
Advance ==
    /\ call # NoCall /\ ~late
    /\ mem' \in [Cells -> Values]
    /\ \A c \in Cells :
          mem'[c] = mem[c] \/ (c \in Changes /\ mem'[c] = Target(c))
    /\ UNCHANGED <<call, reply, loose, late>>

\* Success, when there is nothing left to do.
Done ==
    /\ ~late
    /\ call.kind \in {"write", "erase", "key"}
    /\ \A c \in Changes : mem[c] = Target(c)
    /\ call' = NoCall
    /\ reply' = IF call.kind = "key" THEN reply ELSE Success(<<>>)
    /\ UNCHANGED <<mem, loose, late>>

Read ==
    /\ ~late
    /\ call.kind = "read"
    /\ call' = NoCall
    /\ reply' = Success([i \in DOMAIN call.data |-> mem[call.from + i - 1]])
    /\ UNCHANGED <<mem, loose, late>>

\* A memory erased to be formatted is given its key.
Formatted ==
    /\ ~late
    /\ call.kind = "format"
    /\ \A c \in Cells : mem[c] = Blank
    /\ call' = KeyCall
    /\ UNCHANGED <<mem, reply, loose, late>>

\* An error, with the memory perhaps still at work.
Fail ==
    /\ ~late
    /\ call.kind \in {"write", "erase", "read"}
    /\ InDoubt(Changes)
    /\ call' = NoCall
    /\ reply' \in Errors
    /\ loose' \in SUBSET Changes
    /\ UNCHANGED late

\* A late call: what it does to its own cells, and what it answers, is open.
LateCall ==
    /\ late
    /\ InDoubt(Changes \cup loose)
    /\ loose' \in SUBSET (Changes \cup loose)
    /\ \/ UNCHANGED <<call, reply, late>>
       \/ call.kind = "format" /\ call' = KeyCall /\ UNCHANGED <<reply, late>>
       \/ call.kind = "key" /\ call' = NoCall /\ late' = FALSE /\ UNCHANGED reply
       \/ call.kind \in {"write", "erase", "read"} /\ call' = NoCall /\ late' = FALSE
          /\ reply' \in Errors \cup Successes

\* An error before anything was done.
Refuse ==
    /\ call = NoCall
    /\ reply' \in Errors
    /\ UNCHANGED <<mem, call, loose, late>>

\* Power fails or the processor is reset; the memory may go on after the latter.
Cut ==
    /\ InDoubt(Changes \cup loose)
    /\ call' = NoCall
    /\ reply' = NoReply
    /\ loose' \in SUBSET (Changes \cup loose)
    /\ late' = FALSE

\* The memory comes to the end of what it was doing.
Settle ==
    /\ call = NoCall
    /\ InDoubt(loose)
    /\ loose' = {}
    /\ UNCHANGED <<call, reply, late>>

Next ==
    \/ Call \/ Advance \/ Done \/ Read \/ Formatted \/ Fail \/ LateCall \/ Refuse \/ Cut \/ Settle

Spec == Init /\ [][Next]_vars
=============================================================================
