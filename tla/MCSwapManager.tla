--------------------------- MODULE MCSwapManager ---------------------------
(* Small instances of SwapManager.                                         *)
EXTENDS SwapManager
CONSTANTS a1, a2, x, y
OwnAlias == [a \in Adapters |-> IF a = a1 THEN x ELSE y]
=============================================================================
