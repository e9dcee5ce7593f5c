--------------------------- MODULE MCFederationBus ---------------------------
(***************************************************************************)
(* TLC instances of FederationBus: two buses, one biome that starts with   *)
(* k1 at epoch 0, and a custodian c.  Two successions may be signed and    *)
(* MaxEpoch is 2, so both can be pending, forked, skipped or replayed.     *)
(***************************************************************************)
EXTENDS FederationBus, TLC

CONSTANTS x, y, b1, k1, k2, c, w, e

Declare(l, t) == [list |-> l, threshold |-> t]

MCGenesis == [b \in Biomes |-> [key |-> k1, epoch |-> 0, custodians |-> Declare(<<c>>, 1)]]
MCDeclarations == {Declare(<<>>, 0), Declare(<<k2>>, 2)}

\* Forward only, and from holder to holder: a custodian takes no biome over.
MCSuccessions == {st \in Statement : st.from < st.to /\ st.key # c
                 /\ (st.custodians = <<Declare(<<k2>>, 2)>> => st.from = 0)}

\* The parties are interchangeable.
Symmetry == Permutations(Buses)
=============================================================================
