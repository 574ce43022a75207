---------------------------- MODULE MCMeasStore ----------------------------
(***************************************************************************)
(* Instances of MeasStore for TLC.                                         *)
(***************************************************************************)
EXTENDS MeasStoreProps, TLC

CONSTANTS valA, valB

MCVals == {valA, valB}

\* Two measurements that differ in every cell.
MCFiles == {<<valA, valB>>, <<valB, valA>>}

\* Where a power failure costs nothing: between calls, and in a call until the
\* file is marked UNREAD.
Careful == Pcs \ {"next", "last"}

Idle == {"idle"}

\* The last part: the file is UNREAD and its data not yet there.
Last == {"last"}

Never == {}

Anywhere == Pcs \ {"stray", "down"}
=============================================================================
