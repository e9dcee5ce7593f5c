------------------------------ MODULE MerkleTree ------------------------------
(***************************************************************************)
(* The Merkle tree of rucelium-notary, its inclusion proofs and their      *)
(* stateless verifier, over a hash that is free of collisions: a digest is *)
(* the tuple of the domain and what was hashed.  Data are tuples of their  *)
(* own; the data of a 64-byte leaf can be the preimage of an inner node.   *)
(***************************************************************************)
EXTENDS Naturals, Sequences

CONSTANTS MaxTree, MaxForged    \* bounds: sizes of trees with honest and forged paths

ASSUME TreeAssumption == MaxTree \in Nat /\ MaxForged \in Nat

LeafHash(data) == <<"leaf", data>>

NodeHash(left, right) == <<"node", left, right>>

EmptyRoot == <<"empty">>

\* Fault: an odd tail is hashed with itself.
Parents_Duplicated(level) ==
  [i \in 1 .. (Len(level) + 1) \div 2 |->
     NodeHash(level[2 * i - 1], level[IF 2 * i <= Len(level) THEN 2 * i ELSE 2 * i - 1])]

\* One level up: pairs are hashed, an odd tail is promoted unchanged.
Parents(level) ==
  [i \in 1 .. (Len(level) + 1) \div 2 |->
     IF 2 * i <= Len(level) THEN NodeHash(level[2 * i - 1], level[2 * i])
     ELSE level[2 * i - 1]]

\* MerkleTree::build: level 0 is the leaves; from the root up nothing changes.
Levels(leaves) ==
  LET level[k \in 0 .. Len(leaves)] == IF k = 0 THEN leaves ELSE Parents(level[k - 1])
  IN level

Root(leaves) == IF leaves = <<>> THEN EmptyRoot ELSE Levels(leaves)[Len(leaves)][1]

\* Node idx of a level of this size goes up without a sibling.
Promoted(idx, size) == idx = size - 1 /\ size % 2 = 1

\* One level of prove, from leaf c.idx of level l upwards.
Collect(c, l) ==
  [idx |-> c.idx \div 2,
   path |-> IF Len(l) <= 1 \/ Promoted(c.idx, Len(l)) THEN c.path
            ELSE Append(c.path, IF c.idx % 2 = 0 THEN [hash |-> l[c.idx + 2], right |-> TRUE]
                                ELSE [hash |-> l[c.idx], right |-> FALSE])]

\* prove, for an index of the batch; indices start at 0 as in the code.
Prove(leaves, index) ==
  LET level == Levels(leaves)
      up[k \in 0 .. Len(leaves)] ==
        IF k = 0 THEN [idx |-> index, path |-> <<>>] ELSE Collect(up[k - 1], level[k - 1])
  IN [index |-> index, count |-> Len(leaves), siblings |-> up[Len(leaves)].path]

\* A sibling is hashed on the side that its flag says.
Joined(acc, s) == IF s.right THEN NodeHash(acc, s.hash) ELSE NodeHash(s.hash, acc)

\* Fault: the geometry comes from the path, not from leaf_count.
Climb_FreeShape(w, path) ==
  IF w.used >= Len(path) THEN w
  ELSE [w EXCEPT !.acc = Joined(w.acc, path[w.used + 1]), !.used = @ + 1]

\* One level of verify_inclusion.  The size of the level, which follows from the
\* leaf count, and the index say where a sibling is due and on which side.
Climb(w, path) ==
  LET up == [w EXCEPT !.idx = @ \div 2, !.size = (@ + 1) \div 2]
  IN IF ~w.ok \/ w.size <= 1 THEN w
     ELSE IF Promoted(w.idx, w.size) THEN up
     ELSE IF w.used >= Len(path) THEN [w EXCEPT !.ok = FALSE]
     ELSE IF path[w.used + 1].right # (w.idx % 2 = 0) THEN [w EXCEPT !.ok = FALSE]
     ELSE [up EXCEPT !.acc = Joined(w.acc, path[w.used + 1]), !.used = @ + 1]

\* verify_inclusion: at the end the path is used up.
VerifyInclusion(leaf, proof, root) ==
  LET walk[k \in 0 .. proof.count] ==
        IF k = 0 THEN [ok |-> TRUE, acc |-> leaf, used |-> 0,
                       idx |-> proof.index, size |-> proof.count]
        ELSE Climb(walk[k - 1], proof.siblings)
      end == walk[proof.count]
  IN
  /\ proof.count > 0 /\ proof.index < proof.count
  /\ end.ok /\ end.used = Len(proof.siblings) /\ end.acc = root

-----------------------------------------------------------------------------

Batch(n) == [i \in 1 .. n |-> LeafHash(<<i>>)]

\* The digests of a tree, and what hashes to them, as leaf data.
Digests(n) == UNION {{Levels(Batch(n))[k][i] : i \in DOMAIN Levels(Batch(n))[k]} : k \in 0 .. n}
Preimages(n) == {<<i>> : i \in 1 .. n}
                \cup {<<h[2], h[3]>> : h \in {d \in Digests(n) : d[1] = "node"}}

Paths(n, len) == [1 .. len -> [hash : Digests(n), right : BOOLEAN]]

TreeProves ==
  \A n \in 1 .. MaxTree : \A i \in 1 .. n :
    VerifyInclusion(Batch(n)[i], Prove(Batch(n), i - 1), Root(Batch(n)))

NothingForged ==
  \A n \in 1 .. MaxForged : \A d \in Preimages(n), i \in 0 .. n - 1, len \in 0 .. 3 :
    \A path \in Paths(n, len) :
      VerifyInclusion(LeafHash(d), [index |-> i, count |-> n, siblings |-> path], Root(Batch(n)))
      => d = <<i + 1>>
=============================================================================
