---------------------------- MODULE MCReassembly ----------------------------
(***************************************************************************)
(* TLC instance of Reassembly.  p and q share a sender and a msg_id with   *)
(* the same count, so their chunks can mix; t is a message of one fragment *)
(* under the same sender and msg_id, so it contradicts a pending entry; s, *)
(* of three fragments, is alone at another sender.  The fragments of p and *)
(* s may arrive twice.                                                     *)
(***************************************************************************)
EXTENDS Reassembly

CONSTANTS p, q, s, t

MCFrom == [m \in Messages |-> IF m = s THEN 2 ELSE 1]
MCMsgId == [m \in Messages |-> 7]
MCParts == [m \in Messages |-> CASE m = s -> 3 [] m = t -> 1 [] OTHER -> 2]
MCArrivals == [m \in Messages |-> IF m \in {p, s} THEN 2 ELSE 1]
=============================================================================
