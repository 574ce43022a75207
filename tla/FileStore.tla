----------------------------- MODULE FileStore -----------------------------
(***************************************************************************)
(* What the file system promises a caller: a store of files in which a     *)
(* call replaces one file whole or not at all.  Nothing here knows of      *)
(* pages, of garbage collection or of the order of flash programs.         *)
(***************************************************************************)
CONSTANTS
    Ids,      \* file identifiers
    Files,    \* contents
    None,     \* there is no such file
    Unknown   \* nothing is promised about this file any more

VARIABLES
    store,   \* the contents of each file
    call,    \* the write call in progress
    reply    \* the answer to the last one

vars == <<store, call, reply>>

NoCall == [op |-> "none"]

\* A part that is not the last one asks for nothing to be stored yet.
Calls == [op : {"write", "part"}, id : Ids, file : Files, last : BOOLEAN]

TypeOK ==
    /\ store \in [Ids -> Files \cup {None, Unknown}]
    /\ call \in Calls \cup {NoCall}
    /\ reply \in {"none", "stored", "refused", "failed"}

Init ==
    /\ store = [id \in Ids |-> None]
    /\ call = NoCall
    /\ reply = "none"

Call ==
    /\ call = NoCall
    /\ call' \in Calls
    /\ reply' = "none"
    /\ UNCHANGED store

\* Once nothing is promised about a file, nothing is until the next format.
Put(id, x) == [store EXCEPT ![id] = IF @ = Unknown THEN Unknown ELSE x]

\* The new file is in place when the caller is told so.
Commit ==
    /\ call # NoCall /\ call.last
    /\ call' = NoCall
    /\ reply' = "stored"
    /\ store' = Put(call.id, call.file)

\* A part before the last is taken without a change to any file.
Accept ==
    /\ call # NoCall /\ ~call.last
    /\ call' = NoCall
    /\ reply' = "stored"
    /\ UNCHANGED store

\* No space.  A file written in parts keeps its old version; one written
\* whole loses it.
Refuse ==
    /\ call # NoCall
    /\ call' = NoCall
    /\ reply' = "refused"
    /\ store' = IF call.op = "write" THEN Put(call.id, None) ELSE store

\* Power or the flash driver fails during a call: its file is not to be
\* relied on, and perhaps others are not.
Cut ==
    /\ call # NoCall
    /\ call' = NoCall
    /\ reply' \in {"none", "failed"}
    /\ \E S \in SUBSET Ids :
          /\ call.id \in S
          /\ store' = [id \in Ids |-> IF id \in S THEN Unknown ELSE store[id]]

\* Power fails between calls.
Restart ==
    /\ call = NoCall
    /\ reply' = "none"
    /\ UNCHANGED <<store, call>>

Format ==
    /\ call = NoCall
    /\ store' = [id \in Ids |-> None]
    /\ reply' = "none"
    /\ UNCHANGED call

Next ==
    \/ Call \/ Commit \/ Accept \/ Refuse \/ Cut \/ Restart \/ Format

Spec == Init /\ [][Next]_vars
=============================================================================
