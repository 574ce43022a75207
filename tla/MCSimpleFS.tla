----------------------------- MODULE MCSimpleFS -----------------------------
(***************************************************************************)
(* Instances of SimpleFS for TLC.                                          *)
(***************************************************************************)
EXTENDS SimpleFSProps, TLC

CONSTANTS idX, idY, valA, valB

\* A short file and a long one: a page holds two short ones or one of each,
\* two long ones need two pages.
MCFiles == {<<valB>>, <<valA, valB>>}

\* With power failures everywhere one contents is enough to see a file lost,
\* torn or doubled.
OneFile == {<<valA>>}

\* A short file and one a page cannot take, though it is shorter than a page.
MCOversize == {[k \in 1 .. n |-> valA] : n \in 1 .. 4}

MCIds  == {idX, idY}
OnlyX  == {idX}
OnlyY  == {idY}
MCVals == {valA, valB}

Nobody     == {}
Never      == {}
Idle       == {"idle"}
Writing    == {"find", "endmark", "header", "data", "retire", "activate"}
Collection == GcPcs
Everywhere == Pcs \ {"stray", "down", "spoiled"}
=============================================================================
