---------------------------- MODULE MCControlPath ----------------------------
(***************************************************************************)
(* TLC instances of ControlPath: three command ids, one granted agent and  *)
(* one that is not, a configured actuator and one outside the allowed set. *)
(* The levels 1, 2, 3 and 4 are safe, safe at the limit, allowed but       *)
(* unsafe, and beyond policy.  The budget is 2 in place of 10.             *)
(***************************************************************************)
EXTENDS ControlPath, TLC

CONSTANTS flood, rogue, gate, other

MCMaxFaults == [crash |-> 2, ioerror |-> 2]

MCGrants == {<<flood, gate>>}

Symmetry == Permutations(Ids)
=============================================================================
