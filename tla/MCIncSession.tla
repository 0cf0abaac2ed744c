----------------------------- MODULE MCIncSession ----------------------------
(* TLC instance of IncSession. *)
EXTENDS IncSession
==============================================================================
