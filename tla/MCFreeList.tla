------------------------------ MODULE MCFreeList -----------------------------
(* TLC instance of FreeList: two blocks.  Lists of ids reach the second one;   *)
(* lists of values keep to the first one, or do not.                           *)
EXTENDS FreeList
MCSizes == <<2, 1>>
MCLimits == [m \in Modes |-> IF m = "ids" THEN {3} ELSE {2}]
MCAllLimits == [m \in Modes |-> {2, 3}]
==============================================================================
