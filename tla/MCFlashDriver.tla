--------------------------- MODULE MCFlashDriver ---------------------------
(***************************************************************************)
(* Instances of FlashDriver for TLC.                                       *)
(***************************************************************************)
EXTENDS FlashDriverProps, TLC

CONSTANTS valA, valB

MCVals   == {valA, valB}
MCWrites == {<<valA>>, <<valA, valB, valA>>}
MCLens   == {1, 2}

Callers   == {"caller"}
NotFormat == {"caller", "key", "nothing"}
Anything  == NotFormat \cup {"format"}

NotBetween == {"out", "wait", "left"}
AnyTime    == SpiPcs
=============================================================================
