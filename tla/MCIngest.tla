------------------------------ MODULE MCIngest ------------------------------
(***************************************************************************)
(* TLC instance of Ingest.  MaxSeq is the bound on sequence numbers; it is *)
(* more than twice the window, so numbers are shifted to every bit of the  *)
(* bitmap, past it, and over it in one step.                               *)
(***************************************************************************)
EXTENDS Ingest, TLC

Symmetry == Permutations(Keys)
=============================================================================
