------------------------------ MODULE MCMemTrap ------------------------------
(* TLC instance of MemTrap. *)
EXTENDS MemTrap
==============================================================================
