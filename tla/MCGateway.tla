------------------------------ MODULE MCGateway ------------------------------
(***************************************************************************)
(* TLC instance of Gateway: one device, because windows and keys of        *)
(* different devices never meet.  Sequence numbers go past the window, so  *)
(* that restarts rebuild windows with bits that are shifted out.           *)
(***************************************************************************)
EXTENDS Gateway

CONSTANT n1

MCMaxFaults == [crash |-> 2, ioerror |-> 2]

MCAlerting == Nodes \X {0, 2}
=============================================================================
