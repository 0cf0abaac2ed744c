------------------------- MODULE MCThreadLifecycle ---------------------------
(* TLC instance of ThreadLifecycle. *)
EXTENDS ThreadLifecycle
==============================================================================
