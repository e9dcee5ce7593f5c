------------------------------- MODULE MCNotary -------------------------------
(***************************************************************************)
(* TLC instance of Notary: one observation and one event, batches of up to *)
(* three leaves with duplicates, two batches, a trusted and a rogue key.   *)
(* TreeExact checks the tree itself, up to MaxTree leaves.                 *)
(***************************************************************************)
EXTENDS Notary

MCObservations == {<<"o", 1>>}
MCEvents == {<<"e", 1>>}
MCRootSigners == {[key |-> "gateway", algorithm |-> "ed25519"],
                  [key |-> "archive", algorithm |-> "ml-dsa-44"]}
=============================================================================
