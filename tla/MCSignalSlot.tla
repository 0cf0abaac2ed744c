---------------------------- MODULE MCSignalSlot -----------------------------
(* TLC instances of SignalSlot. *)
EXTENDS SignalSlot, TLC
CONSTANTS t1, t2, r1, r2
MCHomeOne == r1 :> t1
MCHome == r1 :> t1 @@ r2 :> t2
==============================================================================
