---------------------------- MODULE MCIncProtocol ----------------------------
(* Small instances of the protocol layer.                                      *)
EXTENDS IncProtocol
==============================================================================
