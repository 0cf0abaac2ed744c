---------------------------- MODULE MCIncOperation ----------------------------
(* Instances of one operation.                                                 *)
EXTENDS IncOperation
==============================================================================
