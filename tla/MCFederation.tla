---------------------------- MODULE MCFederation ----------------------------
(***************************************************************************)
(* TLC instances of Federation: two gateways that list each other.         *)
(***************************************************************************)
EXTENDS Federation

CONSTANTS a, b, n1

MCPeers == [g \in Gateways |-> IF g = a THEN {b} ELSE {a}]
=============================================================================
