-------------------------------- MODULE Notary --------------------------------
(***************************************************************************)
(* rucelium-notary: the gateway's accumulator of accepted observations and *)
(* events, the signed roots of the batches it seals, their chaining into   *)
(* newer roots, and the auditor who holds a bundle and a trusted key.      *)
(* Nothing of a Notary is stored: a restarted one begins at batch 0.       *)
(***************************************************************************)
EXTENDS MerkleTree, FiniteSets

CONSTANTS Observations, Events,   \* tuples, as the data of leaves are
          RootSigners,            \* records of a key and its algorithm
          MaxLeaves, MaxBatches   \* bounds on a batch and on all batches

ASSUME NotaryAssumption == MaxLeaves \in Nat /\ MaxBatches \in Nat

VARIABLES pending,      \* Notary.pending, by the data of its leaves
          nextId,       \* Notary.next_batch_id
          prev,         \* Notary.prev_root_hex: <<>> or <<hash>>
          batches       \* the SealedBatches, the one with each root's tree

notaryVars == <<pending, nextId, prev, batches>>

\* canonical_root_bytes: all but the signature.
Canonical(root) == <<root.batch, root.hash, root.count, root.prev, root.algorithm>>

\* sign_root: the tag is the signer's own.
SignedRoot(root, s) ==
  LET r == [root EXCEPT !.algorithm = s.algorithm]
  IN [r EXCEPT !.signer = <<s.key>>, !.signature = <<s.key, Canonical(r)>>]

Unsigned(batch, data, before) ==
  [batch |-> batch, hash |-> Root(data), count |-> Len(data), prev |-> before,
   algorithm |-> "", signer |-> <<>>, signature |-> <<>>]

Leaves(data) == [i \in DOMAIN data |-> LeafHash(data[i])]

NotaryInit == pending = <<>> /\ nextId = 0 /\ prev = <<>> /\ batches = <<>>

\* accept_observation and accept_event.
Accept(d) ==
  /\ Len(pending) < MaxLeaves /\ Len(batches) < MaxBatches
  /\ pending' = Append(pending, d)
  /\ UNCHANGED <<nextId, prev, batches>>

\* seal: an empty batch is sealed as well.
Seal(s) ==
  LET root == SignedRoot(Unsigned(nextId, Leaves(pending), prev), s) IN
  /\ Len(batches) < MaxBatches
  /\ batches' = Append(batches, [root |-> root, data |-> pending])
  /\ prev' = <<root.hash>> /\ nextId' = nextId + 1
  /\ pending' = <<>>

\* renotarize: the canonical bytes of old roots, in a slice of the caller's
\* choice, are the leaves of a new batch outside the notary's own sequence.
Renotarize(from, to, s) ==
  LET slice == SubSeq(batches, from, to)
      data  == [i \in DOMAIN slice |-> Canonical(slice[i].root)]
      last  == IF slice = <<>> THEN <<>> ELSE <<slice[Len(slice)].root.hash>>
  IN
  /\ Len(batches) < MaxBatches
  /\ batches' = Append(batches, [root |-> SignedRoot(Unsigned(to, Leaves(data), last), s),
                                 data |-> data])
  /\ UNCHANGED <<pending, nextId, prev>>

\* The gateway restarts: Notary::new.
Restart == pending' = <<>> /\ nextId' = 0 /\ prev' = <<>> /\ UNCHANGED batches

NotaryNext ==
  \/ \E d \in Observations \cup Events : Accept(d)
  \/ \E s \in RootSigners : Seal(s)
  \/ \E to \in 0 .. Len(batches), s \in RootSigners :
       \E from \in 1 .. to + 1 : Renotarize(from, to, s)
  \/ Restart

NotarySpec == NotaryInit /\ [][NotaryNext]_notaryVars

-----------------------------------------------------------------------------
(* The auditor                                                             *)

\* bundle_for: the first leaf with the observation's bytes; <<>> if none.
BundleFor(b, o) ==
  LET at == {i \in DOMAIN b.data : b.data[i] = o} IN
  IF at = {} THEN <<>>
  ELSE LET i == CHOOSE i \in at : \A j \in at : i <= j IN
       <<[observation |-> o, leaf |-> LeafHash(o),
          proof |-> Prove(Leaves(b.data), i - 1), root |-> b.root]>>

\* Fault: the size of the batch is the proof's to say.
VerifyBundle_AnyCount(b, algorithm, key) ==
  /\ LeafHash(b.observation) = b.leaf
  /\ VerifyInclusion(b.leaf, b.proof, b.root.hash)
  /\ b.root.algorithm = algorithm /\ b.root.signer = <<key>>
  /\ b.root.signature = <<key, Canonical(b.root)>>

\* verify_bundle, with verify_root.
VerifyBundle(b, algorithm, key) ==
  /\ LeafHash(b.observation) = b.leaf
  /\ b.proof.count = b.root.count /\ VerifyInclusion(b.leaf, b.proof, b.root.hash)
  /\ b.root.algorithm = algorithm /\ b.root.signer = <<key>>
  /\ b.root.signature = <<key, Canonical(b.root)>>

\* What can be put together from sealed batches: a root, perhaps with another
\* leaf count, and a proof of some batch, perhaps for another place or size.
Roots == {[batches[i].root EXCEPT !.count = n] : i \in DOMAIN batches, n \in 0 .. MaxLeaves}

Moved(p, k, n) == [p EXCEPT !.index = k, !.count = n]

Proofs ==
  UNION {{Moved(Prove(Leaves(batches[i].data), j), k, n) :
            j \in 0 .. Len(batches[i].data) - 1, k \in 0 .. MaxLeaves, n \in 1 .. MaxLeaves} :
         i \in DOMAIN batches}

Bundles == {[observation |-> o, leaf |-> LeafHash(o), proof |-> p, root |-> r] :
              o \in Observations \cup Events, p \in Proofs, r \in Roots}

-----------------------------------------------------------------------------

\* A tree proves each of its leaves, and no path of its digests proves anything
\* at an index but the leaf that is there: "a leaf can never be replayed as an
\* interior node and a proof only ever verifies at the exact depth".  It is a
\* fact of the constants, looked at once, before anything is accepted.
TreeExact == pending = <<>> /\ batches = <<>> => TreeProves /\ NothingForged

\* "Provably existed, unaltered, in the signed batch": however roots and proofs
\* are combined, a bundle that verifies shows an observation at its own place in
\* a batch of just that size that the trusted key has sealed.
BundleSound ==
  \A s \in RootSigners : \A b \in Bundles :
    VerifyBundle(b, s.algorithm, s.key) =>
      \E i \in DOMAIN batches :
        /\ batches[i].root = b.root
        /\ Len(batches[i].data) = b.proof.count
        /\ batches[i].data[b.proof.index + 1] = b.observation

\* Every observation a notary has sealed has a bundle that verifies, whatever
\* its place, its duplicates, and the restarts since; and a root that was
\* notarised anew has a proof in the newer root.
BundleComplete ==
  \A i \in DOMAIN batches :
    LET b == batches[i] IN
    /\ \A o \in Observations :
         (\E j \in DOMAIN b.data : b.data[j] = o) =>
           /\ BundleFor(b, o) # <<>>
           /\ VerifyBundle(BundleFor(b, o)[1], b.root.algorithm, b.root.signer[1])
    /\ \A j \in 1 .. i - 1, k \in DOMAIN b.data :
         b.data[k] = Canonical(batches[j].root) =>
           VerifyInclusion(LeafHash(b.data[k]), Prove(Leaves(b.data), k - 1), b.root.hash)
=============================================================================
