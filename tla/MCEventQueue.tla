----------------------------- MODULE MCEventQueue -----------------------------
(* TLC instances of EventQueue. *)
EXTENDS EventQueue
==============================================================================
