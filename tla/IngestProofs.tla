---------------------------- MODULE IngestProofs ----------------------------
(***************************************************************************)
(* For every set of nodes and keys, every largest sequence number and      *)
(* every window width: the pipeline hands out each (node, sequence) at     *)
(* most once, its windows are exact, and forged traffic burns nothing.     *)
(* Over an outage of the uplink, behind that pipeline, nothing is lost,    *)
(* nothing arrives twice, and nothing arrives that its device has not      *)
(* signed.                                                                 *)
(***************************************************************************)
EXTENDS Outage, ReplayWindowProofs, FiniteSetTheorems, SequenceTheorems,
        WellFoundedInduction

LEMMA SeqsAreNaturals == Seqs \subseteq Nat
  BY IngestAssumption DEF Seqs

LEMMA InitInv == Init => IngestInv
<1> SUFFICES ASSUME Init PROVE IngestInv
  OBVIOUS
<1>1. TypeOK
  BY FreshRemembers DEF Init, TypeOK, Outcomes
<1>2. WindowExact
  BY FreshRemembers DEF Init, WindowExact
<1>3. QED BY <1>1, <1>2 DEF IngestInv, Init

\* Envelopes that fail checks (1) to (6), (7), and administrative calls leave
\* windows, consumed and delivered alone.
LEMMA QuietStep ==
  ASSUME IngestInv, TypeOK', UNCHANGED <<windows, consumed, delivered>>,
         \A n \in Nodes : genuine[n] \subseteq genuine'[n]
  PROVE  IngestInv'
  BY DEF IngestInv, WindowExact

LEMMA VerdictType ==
  ASSUME NEW e \in Envelope
  PROVE  Verify(e) \in Rejections \cup {"Ok"}
  BY DEF Verify, Rejections

LEMMA CheckType ==
  ASSUME NEW w, NEW seq
  PROVE  Check(w, seq) \in {"Ok", "Replay", "TooOld"}
  BY DEF Check

LEMMA PassWindowInv ==
  ASSUME IngestInv, NEW e \in Envelope, PassWindow(e)
  PROVE  IngestInv'
<1> DEFINE n == e.node
           s == e.seq
           w == windows[n]
<1>1. n \in Nodes /\ s \in Seqs /\ s \in Nat
  BY SeqsAreNaturals DEF Envelope
<1>2. w \in Window /\ consumed[n] \in SUBSET Nat /\ Remembers(w, consumed[n])
  BY <1>1, SeqsAreNaturals DEF IngestInv, TypeOK, WindowExact
<1>3. /\ s \notin consumed[n]
      /\ Update(w, s) \in Window
      /\ Remembers(Update(w, s), consumed[n] \cup {s})
  BY <1>1, <1>2, UpdateRemembers DEF PassWindow
<1>4. /\ windows' = [windows EXCEPT ![n] = Update(w, s)]
      /\ consumed' = [consumed EXCEPT ![n] = consumed[n] \cup {s}]
      /\ genuine' = [genuine EXCEPT ![n] = genuine[n] \cup {s}]
      /\ UNCHANGED <<registry, revoked>>
  BY DEF PassWindow
<1>5. \/ outcome' = "Domain" /\ delivered' = delivered
      \/ /\ outcome' = "Accepted"
         /\ delivered' = [delivered EXCEPT ![n][s] = delivered[n][s] + 1]
  BY DEF PassWindow
<1>6. TypeOK'
  <2>1. windows' \in [Nodes -> Window]
    BY <1>1, <1>3, <1>4 DEF IngestInv, TypeOK
  <2>2. /\ consumed' \in [Nodes -> SUBSET Seqs]
        /\ genuine' \in [Nodes -> SUBSET Seqs]
    BY <1>1, <1>4 DEF IngestInv, TypeOK
  <2>3. delivered' \in [Nodes -> [Seqs -> Nat]]
    <3>1. delivered[n] \in [Seqs -> Nat] /\ delivered[n][s] + 1 \in Nat
      BY <1>1 DEF IngestInv, TypeOK
    <3>2. [delivered[n] EXCEPT ![s] = delivered[n][s] + 1] \in [Seqs -> Nat]
      BY <3>1, <1>1
    <3>3. QED BY <3>2, <1>1, <1>5, ZenonT(60) DEF IngestInv, TypeOK
  <2>4. outcome' \in Outcomes
    BY <1>5 DEF Outcomes, Rejections
  <2>5. QED BY <2>1, <2>2, <2>3, <2>4, <1>4 DEF IngestInv, TypeOK
<1>7. WindowExact'
  BY <1>1, <1>3, <1>4 DEF IngestInv, TypeOK, WindowExact
<1>8. ASSUME NEW m \in Nodes
      PROVE  /\ consumed'[m] \subseteq genuine'[m]
             /\ \A t \in Seqs : delivered'[m][t] <= IF t \in consumed'[m] THEN 1 ELSE 0
  <2>1. consumed'[m] \subseteq genuine'[m]
    BY <1>1, <1>4 DEF IngestInv, TypeOK
  <2>2. ASSUME NEW t \in Seqs
        PROVE  delivered'[m][t] <= IF t \in consumed'[m] THEN 1 ELSE 0
    <3>1. delivered[m][t] \in Nat /\ delivered[m][t] <= IF t \in consumed[m] THEN 1 ELSE 0
      BY <2>2 DEF IngestInv, TypeOK
    <3>2. CASE m = n /\ t = s
      <4>1. delivered[m][t] = 0 /\ t \in consumed'[m]
        BY <3>1, <3>2, <1>1, <1>3, <1>4 DEF IngestInv, TypeOK
      <4>2. delivered'[m][t] \in {delivered[m][t], delivered[m][t] + 1}
        BY <3>2, <1>1, <1>5 DEF IngestInv, TypeOK
      <4>3. QED BY <4>1, <4>2
    <3>3. CASE ~(m = n /\ t = s)
      <4>1. delivered'[m][t] = delivered[m][t]
        BY <3>3, <1>1, <1>5 DEF IngestInv, TypeOK
      <4>2. t \in consumed'[m] <=> t \in consumed[m]
        BY <3>3, <1>1, <1>4 DEF IngestInv, TypeOK
      <4>3. QED BY <3>1, <4>1, <4>2
    <3>4. QED BY <3>2, <3>3
  <2>3. QED BY <2>1, <2>2
<1>9. QED BY <1>6, <1>7, <1>8 DEF IngestInv

LEMMA NextInv == IngestInv /\ [Next]_ivars => IngestInv'
<1> SUFFICES ASSUME IngestInv, [Next]_ivars PROVE IngestInv'
  OBVIOUS
<1>1. TypeOK
  BY DEF IngestInv
<1>2. CASE UNCHANGED ivars
  <2>1. TypeOK'
    BY <1>1, <1>2 DEF TypeOK, ivars
  <2>2. QED BY <2>1, <1>2, QuietStep DEF ivars
<1>3. ASSUME NEW n \in Nodes, NEW k \in Keys, Register(n, k)
      PROVE  IngestInv'
  <2>1. TypeOK'
    BY <1>1, <1>3 DEF TypeOK, Register
  <2>2. QED BY <2>1, <1>3, QuietStep DEF Register
<1>4. ASSUME NEW n \in Nodes, Revoke(n)
      PROVE  IngestInv'
  <2>1. TypeOK'
    BY <1>1, <1>4 DEF TypeOK, Revoke
  <2>2. QED BY <2>1, <1>4, QuietStep DEF Revoke
<1>5. ASSUME NEW e \in Envelope, RejectEnvelope(e)
      PROVE  IngestInv'
  <2>1. TypeOK'
    BY <1>1, <1>5, VerdictType DEF TypeOK, RejectEnvelope, Outcomes
  <2>2. QED BY <2>1, <1>5, QuietStep DEF RejectEnvelope
<1>6. ASSUME NEW e \in Envelope, RejectSequence(e)
      PROVE  IngestInv'
  <2>1. e.node \in Nodes /\ e.seq \in Seqs
    BY DEF Envelope
  <2>2. outcome' \in {"Replay", "TooOld"}
    BY <1>6, CheckType DEF RejectSequence
  <2>3. TypeOK'
    BY <1>1, <1>6, <2>1, <2>2 DEF TypeOK, RejectSequence, Outcomes, Rejections
  <2>4. \A n \in Nodes : genuine[n] \subseteq genuine'[n]
    BY <1>1, <1>6, <2>1 DEF TypeOK, RejectSequence
  <2>5. QED BY <2>3, <2>4, <1>6, QuietStep DEF RejectSequence
<1>7. ASSUME NEW e \in Envelope, PassWindow(e)
      PROVE  IngestInv'
  BY <1>7, PassWindowInv
<1>8. ASSUME NEW e \in Envelope, ReverifyStored(e)
      PROVE  IngestInv'
  <2>1. outcome' \in Outcomes
    BY <1>8, VerdictType DEF ReverifyStored, Outcomes, Rejections
  <2>2. TypeOK'
    BY <1>1, <1>8, <2>1 DEF TypeOK, ReverifyStored
  <2>3. QED BY <2>2, <1>8, QuietStep DEF ReverifyStored
<1>9. QED
  BY <1>2, <1>3, <1>4, <1>5, <1>6, <1>7, <1>8 DEF Next, IngestEnvelope

LEMMA InvImplies == IngestInv => TypeOK /\ WindowExact /\ AtMostOnce /\ NothingBurnt
<1> SUFFICES ASSUME IngestInv PROVE AtMostOnce /\ NothingBurnt
  BY DEF IngestInv
<1>1. AtMostOnce
  BY DEF IngestInv, TypeOK, AtMostOnce
<1>2. ASSUME NEW n \in Nodes, NEW s \in Seqs \ genuine[n]
      PROVE  /\ Check(windows[n], s) # "Replay"
             /\ Check(windows[n], s) = "TooOld" => \E t \in genuine[n] : t >= s + W
  <2>1. /\ windows[n] \in Window
        /\ consumed[n] \in SUBSET Nat
        /\ Remembers(windows[n], consumed[n])
        /\ consumed[n] \subseteq genuine[n]
    BY SeqsAreNaturals DEF IngestInv, TypeOK, WindowExact
  <2>2. s \in Nat
    BY SeqsAreNaturals
  <2>3. QED BY <2>1, <2>2, RefusalsJustified
<1>3. QED BY <1>1, <1>2 DEF NothingBurnt

\* Type correctness of the pipeline's state.
THEOREM TypeCorrect == Spec => []TypeOK
  BY InitInv, NextInv, InvImplies, PTL DEF Spec

\* Every device's window stays an exact record of what it let through.
THEOREM WindowsExact == Spec => []WindowExact
  BY InitInv, NextInv, InvImplies, PTL DEF Spec

\* No (node, sequence) is ever handed out twice by IngestPipeline::ingest.
THEOREM ExactlyOnce == Spec => []AtMostOnce
  BY InitInv, NextInv, InvImplies, PTL DEF Spec

\* Traffic that is not authentic never makes a genuine number unusable.
THEOREM ForgeryBurnsNothing == Spec => []NothingBurnt
  BY InitInv, NextInv, InvImplies, PTL DEF Spec

-----------------------------------------------------------------------------
(* What lies in the buffer, and what comes out of it.  The induction over   *)
(* the number of keys is through the least counterexample.                  *)

\* A set of naturals that is not empty has a least element.
LEMMA LeastNatural ==
  ASSUME NEW T, T \subseteq Nat, T # {}
  PROVE  \E x \in T : \A y \in T : x <= y
<1> DEFINE R == {ss \in Nat \X Nat : ss[1] < ss[2]}
<1>1. IsWellFoundedOn(R, Nat)
  BY NatLessThanWellFounded DEF OpToRel
<1>2. PICK x \in T : \A y \in T : ~ (<<y, x>> \in R)
  <2> HIDE DEF R
  <2> QED BY <1>1, WFMin
<1>3. ASSUME NEW y \in T PROVE x <= y
  <2>1. x \in Nat /\ y \in Nat
    OBVIOUS
  <2>2. y < x => <<y, x>> \in R
    BY <2>1
  <2> QED BY <1>2, <2>1, <2>2
<1> QED BY <1>3

\* The dedup keys.
Dedups == Nodes \X Seqs

\* The BTreeMap orders the keys totally.
LEMMA BeforeOrders ==
  ASSUME NEW c \in Dedups, NEW d \in Dedups
  PROVE  /\ ~Before(c, c)
         /\ c = d \/ Before(c, d) \/ Before(d, c)
         /\ Before(c, d) => ~Before(d, c)
         /\ \A k \in Dedups : Before(c, d) /\ Before(d, k) => Before(c, k)
<1>1. \A k \in Dedups : k = <<k[1], k[2]>> /\ k[1] \in Nat /\ k[2] \in Nat
  <2>1. ASSUME NEW k \in Nodes \X Seqs PROVE k = <<k[1], k[2]>> /\ k[1] \in Nodes /\ k[2] \in Seqs
    OBVIOUS
  <2> QED BY <2>1, OutageAssumption, SeqsAreNaturals DEF Dedups
<1>2. c = <<c[1], c[2]>> /\ d = <<d[1], d[2]>> /\ c[1] \in Nat /\ c[2] \in Nat /\ d[1] \in Nat /\ d[2] \in Nat
  BY <1>1
<1>3. ~Before(c, c)
  BY <1>2 DEF Before
<1>4. Before(c, d) => ~Before(d, c)
  BY <1>2 DEF Before
<1>5. c = d \/ Before(c, d) \/ Before(d, c)
  BY <1>2 DEF Before
<1>6. ASSUME NEW k \in Dedups, Before(c, d), Before(d, k) PROVE Before(c, k)
  BY <1>1, <1>2, <1>6 DEF Before
<1> QED BY <1>3, <1>4, <1>5, <1>6

\* Every set of n keys can be listed in order.
Sortable(n) ==
  \A K \in SUBSET Dedups : IsFiniteSet(K) /\ Cardinality(K) = n =>
    \E o \in [1 .. n -> K] : Lists(o, K)

\* A key above all others goes to the end of their list.
LEMMA AppendLists ==
  ASSUME NEW K \in SUBSET Dedups, NEW n \in Nat, NEW m \in K,
         NEW o \in [1 .. n -> K \ {m}], Lists(o, K \ {m}),
         \A k \in K \ {m} : Before(k, m)
  PROVE  \E p \in [1 .. n + 1 -> K] : Lists(p, K)
<1> DEFINE p == [i \in 1 .. n + 1 |-> IF i = n + 1 THEN m ELSE o[i]]
<1>1. ASSUME NEW i \in 1 .. n + 1 PROVE p[i] = (IF i = n + 1 THEN m ELSE o[i]) /\ p[i] \in K
  <2>1. CASE i = n + 1
    BY <2>1
  <2>2. CASE i # n + 1
    BY <2>2
  <2> QED BY <2>1, <2>2
<1>2. p \in [1 .. n + 1 -> K] /\ DOMAIN p = 1 .. n + 1
  BY <1>1
<1> HIDE DEF p
<1>3. ASSUME NEW i \in 1 .. n + 1, NEW j \in 1 .. n + 1, i < j PROVE Before(p[i], p[j])
  <2>1. i \in 1 .. n /\ p[i] = o[i] /\ o[i] \in K \ {m}
    BY <1>1, <1>3
  <2>2. CASE j = n + 1
    BY <2>1, <2>2, <1>1
  <2>3. CASE j # n + 1
    <3>1. j \in 1 .. n /\ p[j] = o[j]
      BY <2>3, <1>1
    <3> QED BY <3>1, <2>1, <1>3 DEF Lists
  <2> QED BY <2>2, <2>3
<1>4. K \subseteq {p[i] : i \in 1 .. n + 1}
  <2>1. ASSUME NEW k \in K PROVE \E i \in 1 .. n + 1 : p[i] = k
    <3>1. CASE k = m
      <4>1. n + 1 \in 1 .. n + 1
        OBVIOUS
      <4> QED BY <3>1, <4>1, <1>1
    <3>2. CASE k # m
      <4>1. PICK i \in 1 .. n : o[i] = k
        BY <3>2 DEF Lists
      <4>2. i \in 1 .. n + 1 /\ i # n + 1
        OBVIOUS
      <4> QED BY <4>1, <4>2, <1>1
    <3> QED BY <3>1, <3>2
  <2> QED BY <2>1
<1>5. Lists(p, K)
  BY <1>1, <1>2, <1>3, <1>4 DEF Lists
<1> QED BY <1>2, <1>5

\* No set of keys is the smallest that cannot be listed in order: without one
\* key it can, so it has a greatest, and without that one it can.
LEMMA AllSortable == \A n \in Nat : Sortable(n)
<1> DEFINE T == {n \in Nat : ~Sortable(n)}
<1>1. SUFFICES ASSUME T # {} PROVE FALSE
  OBVIOUS
<1>2. PICK n \in T : \A y \in T : n <= y
  <2> HIDE DEF T
  <2>1. T \subseteq Nat
    BY DEF T
  <2> QED BY <1>1, <2>1, LeastNatural
<1>3. n \in Nat /\ ~Sortable(n)
  OBVIOUS
<1>4. \A y \in Nat : y < n => Sortable(y)
  BY <1>2
<1> HIDE DEF T
<1>5. PICK K \in SUBSET Dedups : /\ IsFiniteSet(K) /\ Cardinality(K) = n
                                 /\ ~ \E o \in [1 .. n -> K] : Lists(o, K)
  BY <1>3 DEF Sortable
<1>6. CASE n = 0
  <2>1. K = {}
    BY <1>5, <1>6, FS_EmptySet
  <2>2. <<>> \in [1 .. n -> K] /\ Lists(<<>>, K)
    BY <2>1, <1>6 DEF Lists
  <2> QED BY <2>2, <1>5
<1>7. CASE n # 0
  <2>1. n - 1 \in Nat /\ n - 1 < n /\ (n - 1) + 1 = n
    BY <1>3, <1>7
  <2>2. Sortable(n - 1)
    BY <2>1, <1>4
  <2>3. \A x \in K : IsFiniteSet(K \ {x}) /\ Cardinality(K \ {x}) = n - 1
    BY <1>5, FS_RemoveElement
  <2>4. \A x \in K : \E o \in [1 .. n - 1 -> K \ {x}] : Lists(o, K \ {x})
    BY <2>2, <2>3 DEF Sortable
  <2>5. PICK x \in K : TRUE
    BY <1>5, <1>7, FS_EmptySet
  <2>6. PICK o \in [1 .. n - 1 -> K \ {x}] : Lists(o, K \ {x})
    BY <2>4
  <2>7. \E m \in K : \A k \in K \ {m} : Before(k, m)
    <3>1. CASE n = 1
      <4>1. K \ {x} = {}
        <5>1. IsFiniteSet(K \ {x}) /\ Cardinality(K \ {x}) = 0
          BY <2>3, <3>1
        <5> QED BY <5>1, FS_EmptySet
      <4> QED BY <4>1
    <3>2. CASE n # 1
      <4>1. n - 1 \in 1 .. n - 1
        BY <3>2, <2>1, <1>3, <1>7
      <4>2. PICK l \in K \ {x} : l = o[n - 1]
        BY <4>1
      <4>3. ASSUME NEW k \in K \ {x} PROVE k = l \/ Before(k, l)
        <5>1. PICK i \in 1 .. n - 1 : o[i] = k
          BY <2>6 DEF Lists
        <5>2. i = n - 1 \/ i < n - 1
          BY <2>1
        <5> QED BY <5>1, <5>2, <4>1, <4>2, <2>6 DEF Lists
      <4>4. CASE Before(x, l)
        <5>1. ASSUME NEW k \in K \ {l} PROVE Before(k, l)
          BY <4>3, <4>4
        <5> QED BY <5>1
      <4>5. CASE Before(l, x)
        <5>1. ASSUME NEW k \in K \ {x} PROVE Before(k, x)
          BY <4>3, <4>5, BeforeOrders
        <5> QED BY <5>1
      <4>6. Before(x, l) \/ Before(l, x)
        <5>1. x \in Dedups /\ l \in Dedups /\ x # l
          OBVIOUS
        <5> QED BY <5>1, BeforeOrders
      <4> QED BY <4>4, <4>5, <4>6
    <3> QED BY <3>1, <3>2
  <2>8. PICK m \in K : \A k \in K \ {m} : Before(k, m)
    BY <2>7
  <2>9. PICK q \in [1 .. n - 1 -> K \ {m}] : Lists(q, K \ {m})
    BY <2>4
  <2>10. \E p \in [1 .. (n - 1) + 1 -> K] : Lists(p, K)
    BY <2>1, <2>8, <2>9, AppendLists
  <2> QED BY <2>10, <2>1, <1>5
<1> QED BY <1>6, <1>7

\* What InOrder chooses exists.
LEMMA InOrderLists ==
  ASSUME NEW K, K \subseteq Dedups, IsFiniteSet(K)
  PROVE  InOrder(K) \in [1 .. Cardinality(K) -> K] /\ Lists(InOrder(K), K)
<1>1. Cardinality(K) \in Nat
  BY FS_CardinalityType
<1>2. \E o \in [1 .. Cardinality(K) -> K] : Lists(o, K)
  BY <1>1, AllSortable DEF Sortable
<1> QED BY <1>2 DEF InOrder

LEMMA KeyedDomain ==
  ASSUME NEW es, Keyed(es)
  PROVE  DOMAIN es \subseteq Dedups
<1>1. ASSUME NEW k \in DOMAIN es PROVE k \in Dedups
  <2>1. es[k] \in Envelope /\ k = <<es[k].node, es[k].seq>>
    BY DEF Keyed, KeyOf
  <2>2. es[k].node \in Nodes /\ es[k].seq \in Seqs
    BY <2>1 DEF Envelope
  <2> QED BY <2>1, <2>2 DEF Dedups
<1> QED BY <1>1

LEMMA SeqOfEnvelopes ==
  ASSUME NEW n \in Nat, NEW s \in [1 .. n -> Envelope]
  PROVE  s \in Seq(Envelope) /\ DOMAIN s = 1 .. n /\ Len(s) = n
<1>1. s \in Seq(Envelope)
  BY SeqDef
<1>2. DOMAIN s = 1 .. n
  OBVIOUS
<1> QED BY <1>1, <1>2, LenProperties

\* OutageBuffer::drain hands out each entry, and nothing else.
LEMMA DrainFacts ==
  ASSUME NEW b, Keyed(b.entries)
  PROVE  /\ Drain(b) \in Seq(Envelope)
         /\ KeysOf(Drain(b)) = DOMAIN b.entries
         /\ \A i \in DOMAIN Drain(b) :
              /\ KeyOf(Drain(b)[i]) \in DOMAIN b.entries
              /\ Drain(b)[i] = b.entries[KeyOf(Drain(b)[i])]
<1>1. PICK K : K = DOMAIN b.entries
  OBVIOUS
<1>2. PICK n : n = Cardinality(K)
  OBVIOUS
<1>3. PICK o : o = InOrder(K)
  OBVIOUS
<1>4. IsFiniteSet(K) /\ K \subseteq Dedups
  BY <1>1, KeyedDomain DEF Keyed
<1>5. n \in Nat
  BY <1>2, <1>4, FS_CardinalityType
<1>6. o \in [1 .. n -> K] /\ K = {o[i] : i \in 1 .. n}
  <2>1. InOrder(K) \in [1 .. Cardinality(K) -> K] /\ Lists(InOrder(K), K)
    BY <1>4, InOrderLists
  <2>2. o \in [1 .. n -> K] /\ Lists(o, K)
    BY <2>1, <1>2, <1>3
  <2> QED BY <2>2 DEF Lists
<1>7. PICK d : d = Drain(b)
  OBVIOUS
<1>8. d = [i \in 1 .. n |-> b.entries[o[i]]]
  BY <1>1, <1>2, <1>3, <1>7 DEF Drain
<1>9. ASSUME NEW i \in 1 .. n
      PROVE  /\ d[i] = b.entries[o[i]] /\ d[i] \in Envelope
             /\ KeyOf(d[i]) = o[i] /\ o[i] \in DOMAIN b.entries
  <2>1. o[i] \in DOMAIN b.entries
    BY <1>1, <1>6
  <2>2. d[i] = b.entries[o[i]]
    BY <1>8
  <2> QED BY <2>1, <2>2 DEF Keyed
<1>10. d \in [1 .. n -> Envelope]
  BY <1>8, <1>9
<1>11. d \in Seq(Envelope) /\ DOMAIN d = 1 .. n
  BY <1>5, <1>10, SeqOfEnvelopes
<1>12. KeysOf(d) = DOMAIN b.entries
  <2>1. \A k \in KeysOf(d) : k \in K
    BY <1>9, <1>11, <1>1 DEF KeysOf
  <2>2. ASSUME NEW k \in K PROVE k \in KeysOf(d)
    <3>1. PICK i \in 1 .. n : o[i] = k
      BY <1>6
    <3>2. KeyOf(d[i]) = k
      BY <3>1, <1>9
    <3> QED BY <3>2, <1>11 DEF KeysOf
  <2> QED BY <2>1, <2>2, <1>1
<1> QED BY <1>7, <1>9, <1>11, <1>12

LEMMA LastOfFacts ==
  ASSUME NEW list \in Seq(Envelope), NEW k \in KeysOf(list)
  PROVE  LastOf(list, k) \in DOMAIN list /\ KeyOf(list[LastOf(list, k)]) = k
<1>1. PICK l \in Nat : l = Len(list) /\ DOMAIN list = 1 .. l
  BY LenProperties
<1> DEFINE T == {t \in 0 .. l : l - t \in 1 .. l /\ KeyOf(list[l - t]) = k}
<1>2. PICK i \in 1 .. l : KeyOf(list[i]) = k
  BY <1>1 DEF KeysOf
<1>3. l - i \in 0 .. l /\ l - (l - i) = i
  BY <1>1
<1>4. l - i \in T
  BY <1>2, <1>3
<1>5. \A t \in T : t \in 0 .. l
  OBVIOUS
<1> HIDE DEF T
<1>6. T \subseteq Nat /\ T # {}
  BY <1>4, <1>5
<1>7. PICK t \in T : \A u \in T : t <= u
  BY <1>6, LeastNatural
<1>8. l - t \in 1 .. l /\ KeyOf(list[l - t]) = k /\ t \in 0 .. l
  BY DEF T
<1>9. ASSUME NEW j \in 1 .. l, KeyOf(list[j]) = k PROVE j <= l - t
  <2>1. l - j \in 0 .. l /\ l - (l - j) = j
    BY <1>1
  <2>2. l - j \in T
    BY <2>1, <1>9 DEF T
  <2>3. t <= l - j
    BY <2>2, <1>7
  <2> QED BY <2>3, <1>8, <1>1
<1>10. \E m \in DOMAIN list : KeyOf(list[m]) = k /\ \A j \in DOMAIN list : KeyOf(list[j]) = k => j <= m
  BY <1>1, <1>8, <1>9
<1> QED BY <1>10 DEF LastOf

\* OutageBuffer::from_json holds one envelope of the list for each of its keys.
LEMMA FromJsonFacts ==
  ASSUME NEW list \in Seq(Envelope), NEW seen
  PROVE  /\ DOMAIN FromJson(list, seen).entries = KeysOf(list)
         /\ FromJson(list, seen).seen = seen \cup KeysOf(list)
         /\ Keyed(FromJson(list, seen).entries)
         /\ \A k \in KeysOf(list) : \E i \in DOMAIN list :
              KeyOf(list[i]) = k /\ FromJson(list, seen).entries[k] = list[i]
<1>1. PICK es : es = FromJson(list, seen).entries
  OBVIOUS
<1>2. es = [k \in KeysOf(list) |-> list[LastOf(list, k)]]
  BY <1>1 DEF FromJson
<1>3. DOMAIN es = KeysOf(list)
  BY <1>2
<1>4. ASSUME NEW k \in KeysOf(list)
      PROVE  \E i \in DOMAIN list : KeyOf(list[i]) = k /\ es[k] = list[i]
  BY <1>2, LastOfFacts
<1>5. IsFiniteSet(KeysOf(list))
  <2>1. PICK l \in Nat : l = Len(list) /\ DOMAIN list = 1 .. l
    BY LenProperties
  <2>2. PICK K : K = KeysOf(list)
    OBVIOUS
  <2> DEFINE f == [i \in 1 .. l |-> KeyOf(list[i])]
  <2>3. f \in Surjection(1 .. l, K)
    BY <2>1, <2>2 DEF Surjection, KeysOf
  <2>4. IsFiniteSet(1 .. l)
    BY <2>1, FS_Interval
  <2> HIDE DEF f
  <2>5. IsFiniteSet(K)
    BY <2>3, <2>4, FS_Surjection
  <2> QED BY <2>5, <2>2
<1>6. Keyed(es)
  <2>1. \A i \in DOMAIN list : list[i] \in Envelope
    BY LenProperties
  <2>2. ASSUME NEW k \in DOMAIN es PROVE es[k] \in Envelope /\ KeyOf(es[k]) = k
    BY <1>3, <1>4, <2>1
  <2> QED BY <1>3, <1>5, <2>2 DEF Keyed
<1>7. FromJson(list, seen).seen = seen \cup KeysOf(list)
  BY DEF FromJson
<1> QED BY <1>1, <1>3, <1>4, <1>6, <1>7

-----------------------------------------------------------------------------
(* The steps of the gateway, one lemma each                                 *)

\* No signature that a device has made is forgotten.
Grows == signed \subseteq signed'

\* Entries of the buffer that are not doubtful stay as they are.
Stays ==
  \A k \in DOMAIN buffer.entries : k \notin doubtful' =>
    k \in DOMAIN buffer'.entries /\ buffer'.entries[k] = buffer.entries[k]

\* They reverify as before.
Reverifies ==
  \A e \in Envelope :
    KeyOf(e) \in DOMAIN buffer.entries /\ KeyOf(e) \notin doubtful' /\ Restorable(e) =>
      Restorable(e)'

LEMMA OkIsAuthentic ==
  ASSUME NEW e \in Envelope, Verify(e) = "Ok"
  PROVE  Authentic(e) /\ e.node \notin revoked
  BY DEF Verify, Authentic

\* reverify_stored depends on the registry alone.
LEMMA SameVerdicts ==
  ASSUME UNCHANGED <<registry, revoked>>, NEW e, Restorable(e)
  PROVE  Restorable(e)'
  BY DEF Restorable, Verify

LEMMA SignedStays ==
  ASSUME NEW e, Signed(e), Grows, registry' = registry
  PROVE  Signed(e)'
  BY DEF Signed, Authentic, Grows

\* Copies of the buffer stay copies of it.
LEMMA CopiesStay ==
  ASSUME NEW L, Copies(L), Grows, registry' = registry, doubtful \subseteq doubtful', Stays
  PROVE  Copies(L)'
<1>1. L \in Seq(Envelope)
  BY DEF Copies
<1>2. ASSUME NEW i \in DOMAIN L
      PROVE  /\ Signed(L[i])'
             /\ KeyOf(L[i]) \notin doubtful' =>
                  KeyOf(L[i]) \in DOMAIN buffer'.entries /\ L[i] = buffer'.entries[KeyOf(L[i])]
  <2>1. L[i] \in Envelope
    BY <1>1, LenProperties
  <2>2. Signed(L[i])'
    BY <2>1, SignedStays DEF Copies
  <2>3. KeyOf(L[i]) \notin doubtful' =>
          KeyOf(L[i]) \in DOMAIN buffer'.entries /\ L[i] = buffer'.entries[KeyOf(L[i])]
    BY DEF Copies, Stays
  <2> QED BY <2>2, <2>3
<1> QED BY <1>1, <1>2 DEF Copies

LEMMA BufferStays ==
  ASSUME BufferOK, Sound, Grows, doubtful \subseteq doubtful', Reverifies, buffer' = buffer
  PROVE  BufferOK' /\ Sound' /\ Stays
<1>1. BufferOK' /\ Stays
  BY DEF BufferOK, Keyed, Stays
<1>2. ASSUME NEW k \in DOMAIN buffer.entries
      PROVE  /\ Signature(buffer.entries[k]) \in signed'
             /\ k \notin doubtful' => Restorable(buffer.entries[k])'
  <2>1. PICK e \in Envelope : e = buffer.entries[k] /\ e = buffer'.entries[k] /\ KeyOf(e) = k
    BY DEF BufferOK, Keyed
  <2>2. Signature(e) \in signed /\ (k \notin doubtful => Restorable(e))
    BY <2>1 DEF Sound
  <2>3. Signature(buffer.entries[k]) \in signed'
    BY <2>1, <2>2 DEF Grows
  <2>4. k \notin doubtful' => Restorable(e)'
    BY <2>1, <2>2 DEF Reverifies
  <2>5. k \notin doubtful' => Restorable(buffer.entries[k])'
    BY <2>1, <2>4 DEF Restorable, Verify
  <2> QED BY <2>3, <2>5
<1> QED BY <1>1, <1>2 DEF Sound, Signature

BiomeInv == BiomeOK /\ BiomeOnce

LEMMA BiomeStays ==
  ASSUME BiomeInv, biome'.observations = biome.observations,
         DOMAIN biome' = DOMAIN biome, biome'.seen = biome.seen
  PROVE  BiomeInv'
  BY DEF BiomeInv, BiomeOK, BiomeOnce

\* All that a step adds to the biome is authentic.
Authenticated ==
  \A i \in DOMAIN biome'.observations \ DOMAIN biome.observations :
    LET e == biome'.observations[i]
    IN Authentic(e) /\ Signature(e) \in signed' /\ e.node \notin revoked

\* Biome::accept.
LEMMA AdmitOnce ==
  ASSUME BiomeInv, NEW e \in Envelope, biome' = Admit(biome, e)
  PROVE  /\ BiomeInv'
         /\ Authentic(e) /\ Signature(e) \in signed' /\ e.node \notin revoked => Authenticated
         /\ biome.seen \subseteq biome'.seen /\ biome'.revoked = biome.revoked
         /\ Settled(KeyOf(e))'
<1>1. CASE e.node \in biome.revoked \/ KeyOf(e) \in biome.seen
  <2>1. biome' = biome
    BY <1>1 DEF Admit
  <2>2. Settled(KeyOf(e))'
    BY <1>1, <2>1 DEF Settled, KeyOf
  <2>3. Authenticated
    BY <2>1 DEF Authenticated
  <2> QED BY <2>1, <2>2, <2>3, BiomeStays
<1>2. CASE ~(e.node \in biome.revoked \/ KeyOf(e) \in biome.seen)
  <2>1. PICK o \in Seq(Envelope) : o = biome.observations
    BY DEF BiomeInv, BiomeOK
  <2>2. PICK l \in Nat : l = Len(o) /\ DOMAIN o = 1 .. l
    BY LenProperties
  <2>3. PICK p : p = Append(o, e)
    OBVIOUS
  <2>4. /\ p \in Seq(Envelope) /\ DOMAIN p = 1 .. l + 1
        /\ \A i \in 1 .. l : p[i] = o[i]
        /\ p[l + 1] = e
    <3>1. p \in Seq(Envelope) /\ Len(p) = l + 1 /\ (\A i \in 1 .. l : p[i] = o[i]) /\ p[l + 1] = e
      BY <2>2, <2>3, AppendProperties
    <3> QED BY <3>1, LenProperties
  <2>5. /\ biome'.observations = p /\ DOMAIN biome' = DOMAIN biome
        /\ biome'.seen = biome.seen \cup {KeyOf(e)} /\ biome'.revoked = biome.revoked
    <3>1. biome' = [biome EXCEPT !.observations = p, !.seen = biome.seen \cup {KeyOf(e)}]
      BY <1>2, <2>1, <2>3 DEF Admit
    <3>2. DOMAIN biome = {"observations", "seen", "revoked"}
      BY DEF BiomeInv, BiomeOK
    <3> QED BY <3>1, <3>2
  <2>6. \A i \in 1 .. l : KeyOf(o[i]) \in biome.seen
    BY <2>1, <2>2 DEF BiomeInv, BiomeOK, KeysOf
  <2>7. ASSUME NEW i \in 1 .. l + 1
        PROVE  (i \in 1 .. l /\ p[i] = o[i]) \/ (i = l + 1 /\ p[i] = e)
    <3>1. i \in 1 .. l \/ i = l + 1
      OBVIOUS
    <3>2. CASE i \in 1 .. l
      BY <3>2, <2>4
    <3>3. CASE i = l + 1
      BY <3>3, <2>4
    <3> QED BY <3>1, <3>2, <3>3
  <2>8. BiomeOK'
    <3>1. \A i \in 1 .. l + 1 : KeyOf(p[i]) \in biome'.seen
      BY <2>5, <2>6, <2>7
    <3> QED BY <3>1, <2>4, <2>5 DEF BiomeInv, BiomeOK, KeysOf
  <2>9. BiomeOnce'
    <3>1. ASSUME NEW i \in 1 .. l + 1, NEW j \in 1 .. l + 1, KeyOf(p[i]) = KeyOf(p[j])
          PROVE  i = j
      <4>1. CASE i \in 1 .. l /\ p[i] = o[i] /\ j \in 1 .. l /\ p[j] = o[j]
        BY <3>1, <4>1, <2>1, <2>2 DEF BiomeInv, BiomeOnce
      <4>2. CASE i = l + 1 /\ p[i] = e /\ j \in 1 .. l /\ p[j] = o[j]
        BY <3>1, <4>2, <2>6, <1>2
      <4>3. CASE j = l + 1 /\ p[j] = e /\ i \in 1 .. l /\ p[i] = o[i]
        BY <3>1, <4>3, <2>6, <1>2
      <4> QED BY <4>1, <4>2, <4>3, <2>7
    <3> QED BY <3>1, <2>4, <2>5 DEF BiomeOnce
  <2>10. ASSUME Authentic(e), Signature(e) \in signed', e.node \notin revoked
         PROVE  Authenticated
    <3>1. \A i \in DOMAIN biome'.observations \ DOMAIN biome.observations :
            biome'.observations[i] = e
      BY <2>1, <2>2, <2>4, <2>5, <2>7
    <3> QED BY <3>1, <2>10 DEF Authenticated
  <2>11. Settled(KeyOf(e))'
    BY <2>5 DEF Settled, KeyOf
  <2> QED BY <2>5, <2>8, <2>9, <2>10, <2>11 DEF BiomeInv
<1> QED BY <1>1, <1>2

BufferInv == BufferOK /\ Sound

\* The invariant in the parts that the steps disturb together.
LEMMA SplitInv ==
  OutageInv <=> IngestInv /\ phase \in Phases /\ BufferInv /\ BiomeInv /\ ReplayOK /\ Kept
  BY DEF OutageInv, BufferInv, BiomeInv

\* What an envelope from the field does to the pipeline.
LEMMA IngestFacts ==
  ASSUME IngestInv, NEW e \in Envelope, IngestEnvelope(e), Sign(e)
  PROVE  /\ IngestInv' /\ Grows /\ UNCHANGED <<registry, revoked>>
         /\ outcome' = "Accepted" =>
              Restorable(e)' /\ Authentic(e) /\ Signature(e) \in signed' /\ e.node \notin revoked
<1>1. IngestInv'
  BY NextInv DEF Next
<1>2. UNCHANGED <<registry, revoked>>
  BY DEF IngestEnvelope, RejectEnvelope, RejectSequence, PassWindow
<1>3. Grows /\ (Authentic(e) => Signature(e) \in signed')
  BY DEF Sign, Grows
<1>4. CASE RejectEnvelope(e)
  <2>1. outcome' # "Accepted"
    BY <1>4, VerdictType DEF RejectEnvelope, Rejections
  <2> QED BY <2>1, <1>1, <1>2, <1>3
<1>5. CASE RejectSequence(e)
  <2>1. outcome' # "Accepted"
    BY <1>5, CheckType DEF RejectSequence
  <2> QED BY <2>1, <1>1, <1>2, <1>3
<1>6. CASE PassWindow(e)
  <2>1. Verify(e) = "Ok" /\ (outcome' = "Accepted" => ~e.early)
    BY <1>6 DEF PassWindow
  <2>2. outcome' = "Accepted" => Restorable(e)'
    BY <2>1, <1>2, SameVerdicts DEF Restorable
  <2> QED BY <2>1, <2>2, <1>1, <1>2, <1>3, OkIsAuthentic
<1> QED BY <1>4, <1>5, <1>6 DEF IngestEnvelope

\* Nothing lies at rest while the gateway is live.
LEMMA ReplayStays ==
  ASSUME ReplayOK, phase = "live", snapshot' = snapshot, rest' = rest, phase' = "live"
  PROVE  ReplayOK'
<1>1. snapshot' = <<>> /\ rest' = <<>>
  BY DEF ReplayOK
<1>2. <<>> \in Seq(Envelope) /\ DOMAIN <<>> = {}
  BY EmptySeq
<1>3. Copies(snapshot)' /\ Copies(rest)'
  BY <1>1, <1>2 DEF Copies
<1> QED BY <1>1, <1>3 DEF ReplayOK, Replaying

\* OutageBuffer::push of an envelope that ingest has just accepted.
LEMMA PushFacts ==
  ASSUME BufferInv, NEW e \in Envelope, buffer' = Push(buffer, e), Grows,
         UNCHANGED <<registry, revoked, doubtful>>,
         Restorable(e)', Signature(e) \in signed'
  PROVE  /\ BufferInv' /\ Stays
         /\ DOMAIN buffer'.entries = DOMAIN buffer.entries \cup {KeyOf(e)}
<1>1. Reverifies
  BY SameVerdicts DEF Reverifies
<1>2. CASE KeyOf(e) \in buffer.seen
  <2>1. buffer' = buffer
    BY <1>2 DEF Push
  <2>2. BufferOK' /\ Sound' /\ Stays
    BY <2>1, <1>1, BufferStays DEF BufferInv
  <2>3. KeyOf(e) \in DOMAIN buffer.entries
    BY <1>2 DEF BufferInv, BufferOK
  <2> QED BY <2>1, <2>2, <2>3 DEF BufferInv
<1>3. CASE KeyOf(e) \notin buffer.seen
  <2>1. PICK K : K = DOMAIN buffer.entries
    OBVIOUS
  <2>2. PICK k : k = KeyOf(e)
    OBVIOUS
  <2>3. PICK es : es = [j \in K \cup {k} |-> IF j = k THEN e ELSE buffer.entries[j]]
    OBVIOUS
  <2>4. buffer'.entries = es /\ buffer'.seen = buffer.seen \cup {k}
    BY <1>3, <2>1, <2>2, <2>3 DEF Push
  <2>5. DOMAIN es = K \cup {k} /\ es[k] = e /\ k \notin K
    BY <1>3, <2>1, <2>2, <2>3 DEF BufferInv, BufferOK
  <2>6. \A j \in K : es[j] = buffer.entries[j]
    BY <2>3, <2>5
  <2>7. IsFiniteSet(K \cup {k})
    BY <2>1, FS_AddElement DEF BufferInv, BufferOK, Keyed
  <2>8. Keyed(es)
    BY <2>1, <2>2, <2>5, <2>6, <2>7 DEF Keyed, BufferInv, BufferOK
  <2>9. BufferOK'
    BY <2>1, <2>4, <2>5, <2>8 DEF BufferInv, BufferOK, Keyed
  <2>10. Stays
    BY <2>1, <2>4, <2>5, <2>6 DEF Stays
  <2>11. ASSUME NEW j \in K
         PROVE  Signature(es[j]) \in signed' /\ (j \notin doubtful => Restorable(es[j])')
    <3>1. PICK d \in Envelope : d = buffer.entries[j] /\ d = es[j] /\ KeyOf(d) = j
      BY <2>1, <2>6 DEF BufferInv, BufferOK, Keyed
    <3>2. Signature(d) \in signed /\ (j \notin doubtful => Restorable(d))
      BY <2>1, <3>1 DEF BufferInv, Sound
    <3>3. Signature(d) \in signed' /\ (j \notin doubtful => Restorable(d)')
      BY <3>2, SameVerdicts DEF Grows
    <3> QED BY <3>1, <3>3
  <2>12. Signature(es[k]) \in signed' /\ Restorable(es[k])'
    BY <2>5
  <2>13. Sound'
    <3>1. \A j \in DOMAIN es : Signature(es[j]) \in signed' /\ (j \notin doubtful => Restorable(es[j])')
      BY <2>5, <2>11, <2>12
    <3> QED BY <2>4, <3>1, ZenonT(60) DEF Sound, Signature, Restorable, Verify
  <2> QED BY <2>1, <2>2, <2>4, <2>5, <2>9, <2>10, <2>13 DEF BufferInv
<1> QED BY <1>2, <1>3

LEMMA ReceiveInv ==
  ASSUME OutageInv, NEW e \in Envelope, NEW down \in BOOLEAN, Receive(e, down)
  PROVE  OutageInv'
<1>1. IngestInv /\ phase = "live" /\ phase' = "live" /\ BufferInv /\ BiomeInv /\ ReplayOK /\ Kept
  BY SplitInv DEF Receive
<1>2. IngestEnvelope(e) /\ Sign(e) /\ UNCHANGED <<snapshot, rest, doubtful>>
  BY DEF Receive
<1>3. IngestInv' /\ Grows /\ UNCHANGED <<registry, revoked>>
  BY <1>1, <1>2, IngestFacts
<1>4. Reverifies
  BY <1>2, <1>3, SameVerdicts DEF Reverifies
<1>5. /\ BufferInv' /\ Stays /\ BiomeInv' /\ Kept'
  <2>1. CASE outcome' # "Accepted"
    <3>1. UNCHANGED <<taken, buffer, biome>>
      BY <2>1 DEF Receive
    <3>2. BufferInv' /\ Stays
      BY <3>1, <1>1, <1>2, <1>3, <1>4, BufferStays DEF BufferInv
    <3>3. BiomeInv'
      BY <3>1, <1>1, BiomeStays
    <3> QED BY <3>1, <3>2, <3>3, <1>1, <1>2 DEF Kept, Settled
  <2>2. CASE outcome' = "Accepted" /\ down
    <3>1. taken' = taken \cup {KeyOf(e)} /\ buffer' = Push(buffer, e) /\ biome' = biome
      BY <2>2 DEF Receive
    <3>2. Restorable(e)' /\ Signature(e) \in signed'
      BY <2>2, <1>1, <1>2, IngestFacts
    <3>3. BufferInv' /\ Stays /\ DOMAIN buffer'.entries = DOMAIN buffer.entries \cup {KeyOf(e)}
      BY <3>1, <3>2, <1>1, <1>2, <1>3, PushFacts
    <3>4. BiomeInv'
      BY <3>1, <1>1, BiomeStays
    <3> QED BY <3>1, <3>3, <3>4, <1>1, <1>2 DEF Kept, Settled
  <2>3. CASE outcome' = "Accepted" /\ ~down
    <3>1. taken' = taken \cup {KeyOf(e)} /\ buffer' = buffer /\ biome' = Admit(biome, e)
      BY <2>3 DEF Receive
    <3>3. /\ BiomeInv' /\ Settled(KeyOf(e))'
          /\ biome.seen \subseteq biome'.seen /\ biome'.revoked = biome.revoked
      BY <3>1, <1>1, AdmitOnce
    <3>4. BufferInv' /\ Stays
      BY <3>1, <1>1, <1>2, <1>3, <1>4, BufferStays DEF BufferInv
    <3>5. Kept'
      BY <3>1, <3>3, <1>1, <1>2 DEF Kept, Settled
    <3> QED BY <3>3, <3>4, <3>5
  <2> QED BY <2>1, <2>2, <2>3
<1>6. ReplayOK'
  BY <1>1, <1>2, ReplayStays
<1>7. phase' \in Phases
  BY <1>1 DEF Phases
<1> QED BY <1>3, <1>5, <1>6, <1>7 DEF OutageInv, BufferInv, BiomeInv

LEMMA ReconnectInv ==
  ASSUME OutageInv, Reconnect
  PROVE  OutageInv'
<1>1. IngestInv /\ BufferInv /\ BiomeInv /\ ReplayOK /\ Kept /\ phase = "live"
  BY SplitInv DEF Reconnect
<1>2. UNCHANGED <<ivars, rest, buffer, biome, signed, taken, doubtful>> /\ phase' = "restore"
  BY DEF Reconnect
<1>3. IngestInv'
  BY <1>1, <1>2, NextInv
<1>4. Grows /\ UNCHANGED <<registry, revoked>>
  BY <1>2 DEF ivars, Grows
<1>5. Reverifies
  BY <1>2, <1>4, SameVerdicts DEF Reverifies
<1>6. BufferInv' /\ Stays
  BY <1>1, <1>2, <1>4, <1>5, BufferStays DEF BufferInv
<1>7. BiomeInv'
  BY <1>1, <1>2, BiomeStays
<1>8. PICK d : d = Drain(buffer)
  OBVIOUS
<1>9. /\ d \in Seq(Envelope) /\ KeysOf(d) = DOMAIN buffer.entries
      /\ \A i \in DOMAIN d : /\ KeyOf(d[i]) \in DOMAIN buffer.entries
                             /\ d[i] = buffer.entries[KeyOf(d[i])]
  BY <1>1, <1>8, DrainFacts DEF BufferInv, BufferOK
<1>10. Copies(d)
  BY <1>1, <1>9 DEF Copies, BufferInv, Sound, Signed
<1>11. Copies(d)'
  BY <1>2, <1>4, <1>6, <1>10, CopiesStay
<1>12. snapshot' = d
  BY <1>8 DEF Reconnect
<1>13. PICK R : R = rest
  OBVIOUS
<1>14. Copies(R)'
  BY <1>1, <1>2, <1>4, <1>6, <1>13, CopiesStay DEF ReplayOK
<1>15. Copies(snapshot)' /\ Copies(rest)'
  BY <1>2, <1>11, <1>12, <1>13, <1>14 DEF Copies
<1>16. ReplayOK'
  BY <1>2, <1>9, <1>12, <1>15 DEF ReplayOK, Replaying
<1>17. Kept'
  BY <1>1, <1>2 DEF Kept, Settled
<1>18. phase' \in Phases
  BY <1>2 DEF Phases
<1> QED BY <1>3, <1>6, <1>7, <1>16, <1>17, <1>18 DEF OutageInv, BufferInv, BiomeInv

LEMMA TamperInv ==
  ASSUME OutageInv, NEW i \in DOMAIN snapshot, NEW e \in Envelope, Tamper(i, e)
  PROVE  OutageInv'
<1>1. IngestInv /\ BufferInv /\ BiomeInv /\ ReplayOK /\ Kept /\ phase \in {"restore", "restore again"}
  BY SplitInv DEF Tamper
<1>2. UNCHANGED <<ivars, offline, phase, rest, buffer, biome, signed, taken>>
  BY DEF Tamper
<1>3. IngestInv'
  BY <1>1, <1>2, NextInv
<1>4. Grows /\ UNCHANGED <<registry, revoked>>
  BY <1>2 DEF ivars, Grows
<1>5. PICK s \in Seq(Envelope) : s = snapshot /\ Copies(s)
  BY <1>1 DEF ReplayOK, Copies
<1>6. i \in DOMAIN s
  BY <1>5
<1>7. PICK k : k = KeyOf(s[i])
  OBVIOUS
<1>8. doubtful' = doubtful \cup {k, KeyOf(e)} /\ snapshot' = [s EXCEPT ![i] = e]
  BY <1>5, <1>7 DEF Tamper
<1>9. Reverifies
  BY <1>4, SameVerdicts DEF Reverifies
<1>10. BufferInv' /\ Stays
  BY <1>1, <1>2, <1>4, <1>8, <1>9, BufferStays DEF BufferInv
<1>11. BiomeInv'
  BY <1>1, <1>2, BiomeStays
<1>12. Copies(s)'
  BY <1>4, <1>5, <1>8, <1>10, CopiesStay
<1>13. PICK t : t = [s EXCEPT ![i] = e]
  OBVIOUS
<1>14. /\ t \in Seq(Envelope) /\ DOMAIN t = DOMAIN s /\ t[i] = e
       /\ \A j \in DOMAIN s : j # i => t[j] = s[j]
  <2>1. PICK l \in Nat : l = Len(s) /\ DOMAIN s = 1 .. l
    BY LenProperties
  <2>2. t \in Seq(Envelope) /\ Len(t) = l /\ \A j \in 1 .. l : t[j] = IF j = i THEN e ELSE s[j]
    BY <1>6, <1>13, <2>1, ExceptSeq
  <2>3. DOMAIN t = 1 .. l
    BY <2>2, LenProperties
  <2> QED BY <2>1, <2>2, <2>3, <1>6
<1>15. Signed(e)'
  BY <1>2 DEF Tamper, Signed, Authentic, ivars
<1>16. Copies(t)'
  <2>1. ASSUME NEW j \in DOMAIN t
        PROVE  /\ Signed(t[j])'
               /\ KeyOf(t[j]) \notin doubtful' =>
                    KeyOf(t[j]) \in DOMAIN buffer'.entries /\ t[j] = buffer'.entries[KeyOf(t[j])]
    <3>1. CASE j = i
      <4>1. t[j] = e /\ KeyOf(t[j]) \in doubtful'
        BY <3>1, <1>8, <1>14
      <4> QED BY <4>1, <1>15 DEF Signed, Authentic, Signature
    <3>2. CASE j # i
      <4>1. t[j] = s[j] /\ j \in DOMAIN s
        BY <3>2, <1>14
      <4> QED BY <4>1, <1>12 DEF Copies, Signed, Authentic, Signature
    <3> QED BY <3>1, <3>2
  <2> QED BY <2>1, <1>14 DEF Copies
<1>17. PICK R : R = rest
  OBVIOUS
<1>18. Copies(R)'
  BY <1>1, <1>4, <1>8, <1>10, <1>17, CopiesStay DEF ReplayOK
<1>19. Copies(snapshot)' /\ Copies(rest)'
  BY <1>2, <1>8, <1>13, <1>16, <1>17, <1>18 DEF Copies
<1>20. DOMAIN buffer.entries \subseteq KeysOf(t) \cup doubtful'
  <2>1. ASSUME NEW d \in DOMAIN buffer.entries, d \notin doubtful' PROVE d \in KeysOf(t)
    <3>1. PICK j \in DOMAIN s : KeyOf(s[j]) = d
      BY <2>1, <1>1, <1>5, <1>8 DEF ReplayOK, KeysOf
    <3>2. j # i
      BY <3>1, <2>1, <1>7, <1>8
    <3> QED BY <3>1, <3>2, <1>14 DEF KeysOf
  <2> QED BY <2>1
<1>21. ReplayOK'
  BY <1>1, <1>2, <1>8, <1>13, <1>19, <1>20 DEF ReplayOK, Replaying
<1>22. Kept'
  BY <1>1, <1>2, <1>8 DEF Kept, Settled
<1>23. phase' \in Phases
  BY <1>1, <1>2 DEF Phases
<1> QED BY <1>3, <1>10, <1>11, <1>21, <1>22, <1>23 DEF OutageInv, BufferInv, BiomeInv

\* What a restored snapshot drains to copies the buffer wherever the snapshot did.
LEMMA RestoredCopies ==
  ASSUME NEW L, Copies(L), NEW seen, NEW d, d = Drain(FromJson(L, seen))
  PROVE  Copies(d) /\ KeysOf(d) = KeysOf(L)
<1>1. L \in Seq(Envelope)
  BY DEF Copies
<1>2. PICK b : b = FromJson(L, seen)
  OBVIOUS
<1>3. /\ DOMAIN b.entries = KeysOf(L) /\ Keyed(b.entries)
      /\ \A k \in KeysOf(L) : \E i \in DOMAIN L : KeyOf(L[i]) = k /\ b.entries[k] = L[i]
  BY <1>1, <1>2, FromJsonFacts
<1>4. /\ d \in Seq(Envelope) /\ KeysOf(d) = DOMAIN b.entries
      /\ \A i \in DOMAIN d : /\ KeyOf(d[i]) \in DOMAIN b.entries
                             /\ d[i] = b.entries[KeyOf(d[i])]
  BY <1>2, <1>3, DrainFacts
<1>5. ASSUME NEW i \in DOMAIN d PROVE \E j \in DOMAIN L : d[i] = L[j]
  BY <1>3, <1>4
<1>6. Copies(d)
  BY <1>4, <1>5 DEF Copies
<1> QED BY <1>3, <1>4, <1>6

LEMMA RestoreSnapshotInv ==
  ASSUME OutageInv, RestoreSnapshot
  PROVE  OutageInv'
<1>1. /\ IngestInv /\ BufferInv /\ BiomeInv /\ ReplayOK /\ Kept
      /\ phase \in {"restore", "restore again"} /\ phase' \in {"replay", "replay again"}
  BY SplitInv DEF RestoreSnapshot
<1>2. UNCHANGED <<ivars, offline, buffer, snapshot, biome, signed, taken, doubtful>>
  BY DEF RestoreSnapshot
<1>3. IngestInv'
  BY <1>1, <1>2, NextInv
<1>4. Grows /\ UNCHANGED <<registry, revoked>>
  BY <1>2 DEF ivars, Grows
<1>5. Reverifies
  BY <1>2, <1>4, SameVerdicts DEF Reverifies
<1>6. BufferInv' /\ Stays
  BY <1>1, <1>2, <1>4, <1>5, BufferStays DEF BufferInv
<1>7. BiomeInv'
  BY <1>1, <1>2, BiomeStays
<1>8. PICK s : s = snapshot
  OBVIOUS
<1>9. Copies(s)
  BY <1>1, <1>8 DEF ReplayOK
<1>10. PICK seen : seen = buffer.seen
  OBVIOUS
<1>11. PICK d : d = Drain(FromJson(s, seen))
  OBVIOUS
<1>12. Copies(d) /\ KeysOf(d) = KeysOf(s)
  BY <1>9, <1>11, RestoredCopies
<1>13. Copies(d)' /\ Copies(s)'
  BY <1>2, <1>4, <1>6, <1>9, <1>12, CopiesStay
<1>14. rest' = d
  BY <1>8, <1>10, <1>11 DEF RestoreSnapshot
<1>15. Copies(snapshot)' /\ Copies(rest)'
  BY <1>2, <1>8, <1>13, <1>14 DEF Copies
<1>16. DOMAIN buffer.entries \subseteq KeysOf(s) \cup doubtful
  BY <1>1, <1>8 DEF ReplayOK
<1>17. ReplayOK'
  BY <1>1, <1>2, <1>8, <1>12, <1>14, <1>15, <1>16 DEF ReplayOK, Replaying
<1>18. Kept'
  BY <1>1, <1>2 DEF Kept, Settled
<1>19. phase' \in Phases
  BY <1>1 DEF Phases
<1> QED BY <1>3, <1>6, <1>7, <1>17, <1>18, <1>19 DEF OutageInv, BufferInv, BiomeInv

\* What makes from_json refuse a snapshot was put there.
LEMMA RestoreFailsInv ==
  ASSUME OutageInv, RestoreFails
  PROVE  OutageInv'
<1>1. /\ IngestInv /\ BufferInv /\ BiomeInv /\ ReplayOK /\ Kept /\ phase' = "panicked"
  BY SplitInv DEF RestoreFails
<1>2. UNCHANGED <<ivars, offline, rest, buffer, snapshot, biome, signed, taken, doubtful>>
  BY DEF RestoreFails
<1>3. IngestInv'
  BY <1>1, <1>2, NextInv
<1>4. Grows /\ UNCHANGED <<registry, revoked>>
  BY <1>2 DEF ivars, Grows
<1>5. Reverifies
  BY <1>4, SameVerdicts DEF Reverifies
<1>6. BufferInv' /\ Stays
  BY <1>1, <1>2, <1>4, <1>5, BufferStays DEF BufferInv
<1>7. BiomeInv'
  BY <1>1, <1>2, BiomeStays
<1>8. PICK s \in Seq(Envelope) : s = snapshot /\ Copies(s)
  BY <1>1 DEF ReplayOK, Copies
<1>9. PICK i \in DOMAIN s : ~s[i].decodes
  BY <1>8 DEF RestoreFails
<1>10. KeyOf(s[i]) \in doubtful
  <2>1. SUFFICES ASSUME KeyOf(s[i]) \notin doubtful PROVE FALSE
    OBVIOUS
  <2>2. KeyOf(s[i]) \in DOMAIN buffer.entries /\ s[i] = buffer.entries[KeyOf(s[i])]
    BY <2>1, <1>8 DEF Copies
  <2>3. Restorable(s[i])
    BY <2>1, <2>2, <1>1 DEF BufferInv, Sound
  <2> QED BY <2>3, <1>9 DEF Restorable, Verify
<1>11. PICK R : R = rest
  OBVIOUS
<1>12. Copies(s)' /\ Copies(R)'
  BY <1>1, <1>2, <1>4, <1>6, <1>8, <1>11, CopiesStay DEF ReplayOK
<1>13. Copies(snapshot)' /\ Copies(rest)'
  BY <1>2, <1>8, <1>11, <1>12 DEF Copies
<1>14. ReplayOK'
  BY <1>1, <1>2, <1>10, <1>13 DEF ReplayOK, Replaying
<1>15. Kept'
  BY <1>1, <1>2 DEF Kept, Settled
<1>16. phase' \in Phases
  BY <1>1 DEF Phases
<1> QED BY <1>3, <1>6, <1>7, <1>14, <1>15, <1>16 DEF OutageInv, BufferInv, BiomeInv

LEMMA ReplayNextInv ==
  ASSUME OutageInv, ReplayNext
  PROVE  OutageInv'
<1>1. /\ IngestInv /\ BufferInv /\ BiomeInv /\ ReplayOK /\ Kept
      /\ phase \in {"replay", "replay again"} /\ phase' = phase
  BY SplitInv DEF ReplayNext, Replaying
<1>2. UNCHANGED <<registry, revoked, buffer, snapshot, signed, taken, doubtful>>
  BY DEF ReplayNext, ReverifyStored
<1>3. PICK r \in Seq(Envelope) : r = rest /\ Copies(r) /\ r # <<>>
  BY <1>1 DEF ReplayOK, Copies, ReplayNext
<1>4. PICK e \in Envelope : e = Head(r)
  BY <1>3, HeadTailProperties
<1>5. PICK t : t = Tail(r)
  OBVIOUS
<1>6. PICK l \in Nat : l = Len(r) /\ DOMAIN r = 1 .. l /\ l # 0
  BY <1>3, LenProperties, EmptySeq
<1>7. /\ t \in Seq(Envelope) /\ DOMAIN t = 1 .. l - 1
      /\ \A i \in 1 .. l - 1 : t[i] = r[i + 1]
      /\ r[1] = e
  <2>1. t \in Seq(Envelope) /\ Len(t) = l - 1 /\ \A i \in 1 .. l - 1 : t[i] = r[i + 1]
    BY <1>3, <1>5, <1>6, HeadTailProperties
  <2>2. DOMAIN t = 1 .. l - 1
    BY <2>1, LenProperties
  <2>3. r[1] = e
    BY <1>3, <1>4
  <2> QED BY <2>1, <2>2, <2>3
<1>8. /\ Restorable(e) /\ biome' = Admit(biome, e) /\ rest' = t
  BY <1>3, <1>4, <1>5 DEF ReplayNext
<1>9. IngestInv'
  <2>1. ReverifyStored(e)
    BY <1>3, <1>4 DEF ReplayNext
  <2> QED BY <2>1, <1>1, NextInv DEF Next
<1>10. Grows
  BY <1>2 DEF Grows
<1>11. Reverifies
  BY <1>2, SameVerdicts DEF Reverifies
<1>12. BufferInv' /\ Stays
  BY <1>1, <1>2, <1>10, <1>11, BufferStays DEF BufferInv
<1>13. /\ BiomeInv' /\ Settled(KeyOf(e))'
       /\ biome.seen \subseteq biome'.seen /\ biome'.revoked = biome.revoked
  BY <1>1, <1>8, AdmitOnce
<1>14. \A k : Settled(k) => Settled(k)'
  BY <1>13 DEF Settled
<1>15. Copies(t)
  <2>1. ASSUME NEW i \in DOMAIN t PROVE i + 1 \in DOMAIN r /\ t[i] = r[i + 1]
    BY <1>6, <1>7
  <2> QED BY <2>1, <1>3, <1>7 DEF Copies
<1>16. PICK s : s = snapshot
  OBVIOUS
<1>17. Copies(t)' /\ Copies(s)'
  BY <1>1, <1>2, <1>10, <1>12, <1>15, <1>16, CopiesStay DEF ReplayOK
<1>18. Copies(snapshot)' /\ Copies(rest)'
  BY <1>2, <1>8, <1>16, <1>17 DEF Copies
<1>19. KeysOf(r) \subseteq KeysOf(t) \cup {KeyOf(e)}
  <2>1. ASSUME NEW i \in 1 .. l, i # 1 PROVE i - 1 \in 1 .. l - 1 /\ t[i - 1] = r[i]
    <3>1. i - 1 \in 1 .. l - 1 /\ (i - 1) + 1 = i
      BY <2>1
    <3> QED BY <3>1, <1>7
  <2>2. ASSUME NEW i \in 1 .. l PROVE KeyOf(r[i]) \in KeysOf(t) \cup {KeyOf(e)}
    BY <2>1, <1>7 DEF KeysOf
  <2> QED BY <2>2, <1>6 DEF KeysOf
<1>20. ASSUME NEW k \in DOMAIN buffer.entries
       PROVE  k \in KeysOf(t) \cup doubtful \/ Settled(k)'
  <2>1. k \in KeysOf(r) \cup doubtful \/ Settled(k)
    BY <1>1, <1>3 DEF ReplayOK, Replaying
  <2>2. k = KeyOf(e) => Settled(k)'
    BY <1>13 DEF Settled
  <2> QED BY <2>1, <2>2, <1>14, <1>19
<1>21. ReplayOK'
  <2>1. /\ phase' \in {"restore", "replay", "restore again", "replay again"} =>
             DOMAIN buffer'.entries \subseteq KeysOf(snapshot') \cup doubtful'
        /\ phase' \notin {"panicked", "live"}
    BY <1>1, <1>2 DEF ReplayOK
  <2>2. \A k \in DOMAIN buffer'.entries : k \in KeysOf(rest') \cup doubtful' \/ Settled(k)'
    BY <1>2, <1>8, <1>20
  <2> QED BY <2>1, <2>2, <1>18 DEF ReplayOK, Settled
<1>22. Kept'
  BY <1>1, <1>2, <1>14 DEF Kept, Settled
<1>23. phase' \in Phases
  BY <1>1 DEF Phases
<1> QED BY <1>9, <1>12, <1>13, <1>21, <1>22, <1>23 DEF OutageInv, BufferInv, BiomeInv

LEMMA ReplayFailsInv ==
  ASSUME OutageInv, ReplayFails
  PROVE  OutageInv'
<1>1. /\ IngestInv /\ BufferInv /\ BiomeInv /\ ReplayOK /\ Kept /\ phase' = "panicked"
  BY SplitInv DEF ReplayFails
<1>2. /\ UNCHANGED <<registry, revoked, offline, rest, buffer, snapshot, biome, signed, taken,
                     doubtful>>
  BY DEF ReplayFails, ReverifyStored
<1>3. PICK r \in Seq(Envelope) : r = rest /\ Copies(r) /\ r # <<>>
  BY <1>1 DEF ReplayOK, Copies, ReplayFails
<1>4. PICK e \in Envelope : e = Head(r)
  BY <1>3, HeadTailProperties
<1>5. 1 \in DOMAIN r /\ r[1] = e
  BY <1>3, <1>4, LenProperties, EmptySeq
<1>6. ReverifyStored(e) /\ ~Restorable(e)
  BY <1>3, <1>4 DEF ReplayFails
<1>7. IngestInv'
  BY <1>1, <1>6, NextInv DEF Next
<1>8. KeyOf(e) \in doubtful
  <2>1. SUFFICES ASSUME KeyOf(e) \notin doubtful PROVE FALSE
    OBVIOUS
  <2>2. KeyOf(e) \in DOMAIN buffer.entries /\ e = buffer.entries[KeyOf(e)]
    BY <2>1, <1>3, <1>5 DEF Copies
  <2>3. Restorable(buffer.entries[KeyOf(e)])
    BY <2>1, <2>2, <1>1 DEF BufferInv, Sound
  <2> QED BY <2>2, <2>3, <1>6
<1>9. Grows
  BY <1>2 DEF Grows
<1>10. Reverifies
  BY <1>2, SameVerdicts DEF Reverifies
<1>11. BufferInv' /\ Stays
  BY <1>1, <1>2, <1>9, <1>10, BufferStays DEF BufferInv
<1>12. BiomeInv'
  BY <1>1, <1>2, BiomeStays
<1>13. PICK s : s = snapshot
  OBVIOUS
<1>14. Copies(s)' /\ Copies(r)'
  BY <1>1, <1>2, <1>3, <1>9, <1>11, <1>13, CopiesStay DEF ReplayOK
<1>15. Copies(snapshot)' /\ Copies(rest)'
  BY <1>2, <1>3, <1>13, <1>14 DEF Copies
<1>16. ReplayOK'
  BY <1>1, <1>2, <1>8, <1>15 DEF ReplayOK, Replaying
<1>17. Kept'
  BY <1>1, <1>2 DEF Kept, Settled
<1>18. phase' \in Phases
  BY <1>1 DEF Phases
<1> QED BY <1>7, <1>11, <1>12, <1>16, <1>17, <1>18 DEF OutageInv, BufferInv, BiomeInv

LEMMA ReplayEndsInv ==
  ASSUME OutageInv, ReplayEnds
  PROVE  OutageInv'
<1>1. /\ IngestInv /\ BufferInv /\ BiomeInv /\ ReplayOK /\ Kept /\ rest = <<>>
  BY SplitInv DEF ReplayEnds
<1>2. UNCHANGED <<ivars, offline, rest, biome, signed, taken, doubtful>>
  BY DEF ReplayEnds
<1>3. IngestInv'
  BY <1>1, <1>2, NextInv
<1>4. Grows /\ UNCHANGED <<registry, revoked>>
  BY <1>2 DEF ivars, Grows
<1>5. Reverifies
  BY <1>2, <1>4, SameVerdicts DEF Reverifies
<1>6. BiomeInv'
  BY <1>1, <1>2, BiomeStays
<1>7. KeysOf(<<>>) = {} /\ Copies(<<>>)'
  <2>1. <<>> \in Seq(Envelope) /\ DOMAIN <<>> = {}
    BY EmptySeq
  <2> QED BY <2>1 DEF KeysOf, Copies
<1>8. CASE phase = "replay" /\ phase' = "restore again" /\ UNCHANGED <<buffer, snapshot>>
  <2>1. BufferInv' /\ Stays
    BY <1>1, <1>2, <1>4, <1>5, <1>8, BufferStays DEF BufferInv
  <2>2. PICK s : s = snapshot
    OBVIOUS
  <2>3. Copies(s)'
    BY <1>1, <1>2, <1>4, <2>1, <2>2, CopiesStay DEF ReplayOK
  <2>4. Copies(snapshot)' /\ Copies(rest)'
    BY <1>1, <1>2, <1>7, <1>8, <2>2, <2>3 DEF Copies
  <2>5. DOMAIN buffer'.entries \subseteq KeysOf(snapshot') \cup doubtful'
    BY <1>1, <1>2, <1>8 DEF ReplayOK
  <2>6. ReplayOK'
    BY <1>8, <2>4, <2>5 DEF ReplayOK, Replaying
  <2>7. Kept'
    BY <1>1, <1>2, <1>8 DEF Kept, Settled
  <2>8. phase' \in Phases
    BY <1>8 DEF Phases
  <2> QED BY <1>3, <1>6, <2>1, <2>6, <2>7, <2>8 DEF OutageInv, BufferInv, BiomeInv
<1>9. CASE /\ phase = "replay again" /\ phase' = "live"
           /\ buffer' = EmptyBuffer /\ snapshot' = <<>>
  <2>1. buffer'.entries = <<>> /\ buffer'.seen = {} /\ DOMAIN <<>> = {}
    <3>1. buffer'.entries = <<>> /\ buffer'.seen = {}
      BY <1>9 DEF EmptyBuffer
    <3>2. DOMAIN <<>> = {}
      OBVIOUS
    <3> QED BY <3>1, <3>2
  <2>2. BufferInv'
    BY <2>1, FS_EmptySet DEF BufferInv, BufferOK, Keyed, Sound
  <2>3. ReplayOK'
    BY <1>1, <1>2, <1>7, <1>9 DEF ReplayOK, Replaying, Copies
  <2>4. \A k \in DOMAIN buffer.entries : k \in doubtful \/ Settled(k)
    BY <1>1, <1>7, <1>9 DEF ReplayOK, Replaying
  <2>5. Kept'
    BY <1>1, <1>2, <2>4 DEF Kept, Settled
  <2>6. phase' \in Phases
    BY <1>9 DEF Phases
  <2> QED BY <1>3, <1>6, <2>2, <2>3, <2>5, <2>6 DEF OutageInv, BufferInv, BiomeInv
<1> QED BY <1>8, <1>9 DEF ReplayEnds

\* What is left to show of a step that leaves the buffer, what lies at rest
\* and what was taken alone.
LEMMA IdleInv ==
  ASSUME OutageInv, IngestInv', Reverifies, doubtful \subseteq doubtful', phase = "live",
         UNCHANGED <<rest, buffer, snapshot, signed, taken>>, phase' = "live",
         biome'.observations = biome.observations, DOMAIN biome' = DOMAIN biome,
         biome'.seen = biome.seen, biome.revoked \subseteq biome'.revoked
  PROVE  OutageInv'
<1>1. /\ IngestInv /\ BufferInv /\ BiomeInv /\ ReplayOK /\ Kept
  BY SplitInv
<1>2. BufferInv'
  BY <1>1, BufferStays DEF BufferInv, Grows
<1>3. BiomeInv'
  BY <1>1, BiomeStays
<1>4. ReplayOK'
  BY <1>1, ReplayStays
<1>5. Kept'
  BY <1>1 DEF Kept, Settled
<1>6. phase' \in Phases
  BY DEF Phases
<1> QED BY <1>2, <1>3, <1>4, <1>5, <1>6 DEF OutageInv, BufferInv, BiomeInv

LEMMA RevokeDeviceInv ==
  ASSUME OutageInv, NEW n \in Nodes, RevokeDevice(n)
  PROVE  OutageInv'
<1>1. IngestInv /\ BiomeInv
  BY SplitInv
<1>2. /\ Revoke(n) /\ UNCHANGED <<phase, rest, buffer, snapshot, signed, taken>> /\ phase' = "live"
      /\ doubtful' = doubtful \cup {k \in DOMAIN buffer.entries : k[1] = n}
  BY DEF RevokeDevice
<1>3. IngestInv'
  BY <1>1, <1>2, NextInv DEF Next
<1>4. registry' = registry /\ revoked' = revoked \cup {n}
  BY <1>2 DEF Revoke
<1>5. Reverifies
  <2>1. ASSUME NEW e \in Envelope, KeyOf(e) \in DOMAIN buffer.entries,
               KeyOf(e) \notin doubtful', Restorable(e)
        PROVE  Restorable(e)'
    <3>1. e.node # n
      BY <2>1, <1>2 DEF KeyOf
    <3> QED BY <3>1, <2>1, <1>4 DEF Restorable, Verify
  <2> QED BY <2>1 DEF Reverifies
<1>6. /\ biome'.observations = biome.observations /\ DOMAIN biome' = DOMAIN biome
      /\ biome'.seen = biome.seen /\ biome'.revoked = biome.revoked \cup {n}
  <2>1. biome' = [biome EXCEPT !.revoked = biome.revoked \cup {n}]
    BY DEF RevokeDevice
  <2>2. DOMAIN biome = {"observations", "seen", "revoked"}
    BY <1>1 DEF BiomeInv, BiomeOK
  <2> QED BY <2>1, <2>2
<1> QED BY <1>2, <1>3, <1>5, <1>6, IdleInv

LEMMA ProvisionInv ==
  ASSUME OutageInv, NEW n \in Nodes, NEW k \in Keys, Provision(n, k)
  PROVE  OutageInv'
<1>1. IngestInv
  BY SplitInv
<1>2. /\ Register(n, k) /\ UNCHANGED <<phase, rest, buffer, snapshot, biome, signed, taken>>
      /\ phase' = "live" /\ doubtful \subseteq doubtful'
  BY DEF Provision
<1>3. IngestInv'
  BY <1>1, <1>2, NextInv DEF Next
<1>4. /\ registry' = [registry EXCEPT ![n] = k] /\ revoked' = revoked \ {n}
      /\ registry \in [Nodes -> Keys \cup {NoKey}]
  BY <1>1, <1>2 DEF Register, IngestInv, TypeOK
<1>5. Reverifies
  <2>1. ASSUME NEW e \in Envelope, KeyOf(e) \in DOMAIN buffer.entries,
               KeyOf(e) \notin doubtful', Restorable(e)
        PROVE  Restorable(e)'
    <3>1. e.node \in Nodes /\ KeyOf(e)[1] = e.node
      BY DEF Envelope, KeyOf
    <3>2. e.node = n => k = registry[n]
      <4>1. k # registry[n] =>
              doubtful' = doubtful \cup {d \in DOMAIN buffer.entries : d[1] = n}
        BY DEF Provision
      <4> QED BY <4>1, <3>1, <2>1
    <3>3. registry'[e.node] = registry[e.node]
      BY <3>1, <3>2, <1>4
    <3>4. e.node \notin revoked => e.node \notin revoked'
      BY <1>4
    <3> QED BY <3>3, <3>4, <2>1 DEF Restorable, Verify
  <2> QED BY <2>1 DEF Reverifies
<1> QED BY <1>2, <1>3, <1>5, IdleInv

\* A pipeline with fresh windows is as good as one whose windows are full.
LEMMA AfreshInv ==
  ASSUME IngestInv, UNCHANGED <<registry, revoked, genuine>>, outcome' = "None",
         windows' = [n \in Nodes |-> FreshWindow],
         consumed' = [n \in Nodes |-> {}],
         delivered' = [n \in Nodes |-> [s \in Seqs |-> 0]]
  PROVE  IngestInv'
<1>1. TypeOK'
  BY FreshRemembers DEF IngestInv, TypeOK, Outcomes
<1>2. WindowExact'
  BY FreshRemembers DEF WindowExact
<1>3. QED BY <1>1, <1>2 DEF IngestInv

LEMMA RestartInv ==
  ASSUME OutageInv, Restart
  PROVE  OutageInv'
<1>1. IngestInv /\ BufferInv /\ BiomeInv /\ ReplayOK /\ Kept
  BY SplitInv
<1>2. /\ UNCHANGED <<registry, revoked, genuine, rest, snapshot, biome, signed, taken, doubtful>>
      /\ phase = "live" /\ phase' = "live"
  BY DEF Restart
<1>3. IngestInv'
  BY <1>1, AfreshInv DEF Restart
<1>4. PICK d : d = Drain(buffer)
  OBVIOUS
<1>5. PICK K : K = DOMAIN buffer.entries /\ K = buffer.seen
  BY <1>1 DEF BufferInv, BufferOK
<1>6. /\ d \in Seq(Envelope) /\ KeysOf(d) = K
      /\ \A i \in DOMAIN d : d[i] = buffer.entries[KeyOf(d[i])]
  BY <1>1, <1>4, <1>5, DrainFacts DEF BufferInv, BufferOK
<1>7. PICK b : b = FromJson(d, K)
  OBVIOUS
<1>8. /\ DOMAIN b.entries = K /\ b.seen = K /\ Keyed(b.entries)
      /\ \A k \in K : \E i \in DOMAIN d : KeyOf(d[i]) = k /\ b.entries[k] = d[i]
  <2>1. /\ DOMAIN b.entries = KeysOf(d) /\ b.seen = K \cup KeysOf(d) /\ Keyed(b.entries)
        /\ \A k \in KeysOf(d) : \E i \in DOMAIN d : KeyOf(d[i]) = k /\ b.entries[k] = d[i]
    BY <1>6, <1>7, FromJsonFacts
  <2> QED BY <2>1, <1>6
<1>9. \A k \in K : b.entries[k] = buffer.entries[k]
  BY <1>6, <1>8
<1>10. buffer' = b
  BY <1>4, <1>5, <1>7 DEF Restart
<1>11. BufferOK' /\ Stays
  BY <1>5, <1>8, <1>9, <1>10 DEF BufferOK, Keyed, Stays
<1>12. Sound'
  <2>1. ASSUME NEW k \in K
        PROVE  Signature(b.entries[k]) \in signed' /\ (k \notin doubtful => Restorable(b.entries[k])')
    <3>1. PICK e \in Envelope : e = b.entries[k] /\ e = buffer.entries[k]
      BY <1>8, <1>9 DEF Keyed
    <3>2. Signature(e) \in signed /\ (k \notin doubtful => Restorable(e))
      BY <1>1, <1>5, <3>1 DEF BufferInv, Sound
    <3>3. Signature(e) \in signed' /\ (k \notin doubtful => Restorable(e)')
      BY <3>2, <1>2, SameVerdicts
    <3> QED BY <3>1, <3>3
  <2> QED BY <2>1, <1>2, <1>8, <1>10, ZenonT(60) DEF Sound, Signature, Restorable, Verify
<1>13. BiomeInv'
  BY <1>1, <1>2, BiomeStays
<1>14. ReplayOK'
  BY <1>1, <1>2, ReplayStays
<1>15. Kept'
  BY <1>1, <1>2, <1>5, <1>8, <1>10 DEF Kept, Settled
<1>16. phase' \in Phases
  BY <1>2 DEF Phases
<1> QED BY <1>3, <1>11, <1>12, <1>13, <1>14, <1>15, <1>16 DEF OutageInv, BufferInv, BiomeInv

LEMMA OutageInitInv == OutageInit => OutageInv
<1> SUFFICES ASSUME OutageInit PROVE OutageInv
  OBVIOUS
<1>1. IngestInv
  BY InitInv DEF OutageInit
<1>2. <<>> \in Seq(Envelope) /\ DOMAIN <<>> = {}
  BY EmptySeq
<1>3. BufferOK /\ Sound
  BY <1>2, FS_EmptySet DEF OutageInit, EmptyBuffer, BufferOK, Keyed, Sound
<1>4. BiomeOK /\ BiomeOnce
  BY <1>2 DEF OutageInit, BiomeOK, BiomeOnce, KeysOf
<1>5. ReplayOK /\ Kept
  BY <1>2 DEF OutageInit, ReplayOK, Copies, Replaying, Kept
<1>6. phase \in Phases
  BY DEF OutageInit, Phases
<1> QED BY <1>1, <1>3, <1>4, <1>5, <1>6 DEF OutageInv

LEMMA OutageNextInv == OutageInv /\ [OutageNext]_<<ivars, ovars>> => OutageInv'
<1> SUFFICES ASSUME OutageInv, [OutageNext]_<<ivars, ovars>> PROVE OutageInv'
  OBVIOUS
<1>1. CASE UNCHANGED <<ivars, ovars>>
  <2>1. IngestInv'
    BY <1>1, NextInv DEF OutageInv
  <2>2. UNCHANGED <<registry, revoked, phase, rest, buffer, snapshot, biome, signed, taken,
                    doubtful>>
    BY <1>1 DEF ivars, ovars
  <2>3. phase' \in Phases /\ BufferOK' /\ Sound'
    BY <2>2 DEF OutageInv, BufferOK, Sound, Restorable, Verify
  <2>4. BiomeOK' /\ BiomeOnce'
    BY <2>2 DEF OutageInv, BiomeOK, BiomeOnce
  <2>5. ReplayOK' /\ Kept'
    BY <2>2 DEF OutageInv, ReplayOK, Copies, Signed, Authentic, Replaying, Kept, Settled
  <2> QED BY <2>1, <2>3, <2>4, <2>5 DEF OutageInv
<1>2. ASSUME NEW e \in Envelope, NEW down \in BOOLEAN, Receive(e, down) PROVE OutageInv'
  BY <1>2, ReceiveInv
<1>3. ASSUME NEW i \in DOMAIN snapshot, NEW e \in Envelope, Tamper(i, e) PROVE OutageInv'
  BY <1>3, TamperInv
<1>4. ASSUME NEW n \in Nodes, RevokeDevice(n) PROVE OutageInv'
  BY <1>4, RevokeDeviceInv
<1>5. ASSUME NEW n \in Nodes, NEW k \in Keys, Provision(n, k) PROVE OutageInv'
  BY <1>5, ProvisionInv
<1> QED
  BY <1>1, <1>2, <1>3, <1>4, <1>5, ReconnectInv, RestoreSnapshotInv, RestoreFailsInv,
     ReplayNextInv, ReplayFailsInv, ReplayEndsInv, RestartInv DEF OutageNext

LEMMA OutageInvImplies == OutageInv => BiomeOnce /\ NothingLost
<1> SUFFICES ASSUME OutageInv PROVE NothingLost
  BY DEF OutageInv
<1>1. ASSUME NEW k \in taken \ doubtful
      PROVE  k \in biome.seen \/ k[1] \in biome.revoked
               \/ (k \in DOMAIN buffer.entries /\ Restorable(buffer.entries[k]))
  BY DEF OutageInv, Kept, Settled, Sound
<1>2. phase = "panicked" => doubtful # {}
  BY DEF OutageInv, ReplayOK
<1> QED BY <1>1, <1>2 DEF NothingLost

\* The field and the replay are the two ways into the biome.
LEMMA Admission == OutageInv /\ [OutageNext]_<<ivars, ovars>> => Authenticated
<1> SUFFICES ASSUME OutageInv, [OutageNext]_<<ivars, ovars>> PROVE Authenticated
  OBVIOUS
<1>1. IngestInv /\ BiomeInv /\ ReplayOK
  BY SplitInv
<1>2. ASSUME biome'.observations = biome.observations PROVE Authenticated
  BY <1>2 DEF Authenticated
<1>3. ASSUME NEW e \in Envelope, NEW down \in BOOLEAN, Receive(e, down) PROVE Authenticated
  <2>1. CASE outcome' = "Accepted" /\ ~down
    <3>1. biome' = Admit(biome, e) /\ IngestEnvelope(e) /\ Sign(e)
      BY <1>3, <2>1 DEF Receive
    <3>2. Authentic(e) /\ Signature(e) \in signed' /\ e.node \notin revoked
      BY <3>1, <2>1, <1>1, IngestFacts
    <3> QED BY <3>1, <3>2, <1>1, AdmitOnce
  <2>2. CASE ~(outcome' = "Accepted" /\ ~down)
    <3>1. biome' = biome
      BY <1>3, <2>2 DEF Receive
    <3> QED BY <3>1, <1>2
  <2> QED BY <2>1, <2>2
<1>4. ASSUME ReplayNext PROVE Authenticated
  <2>1. PICK r \in Seq(Envelope) : r = rest /\ Copies(r) /\ r # <<>>
    BY <1>1, <1>4 DEF ReplayOK, Copies, ReplayNext
  <2>2. PICK e \in Envelope : e = Head(r) /\ e = r[1]
    BY <2>1, HeadTailProperties
  <2>3. 1 \in DOMAIN r
    BY <2>1, LenProperties, EmptySeq
  <2>4. Signed(e)
    BY <2>1, <2>2, <2>3 DEF Copies
  <2>5. Restorable(e) /\ biome' = Admit(biome, e) /\ signed' = signed
    BY <1>4, <2>1, <2>2 DEF ReplayNext
  <2>6. Authentic(e) /\ e.node \notin revoked
    BY <2>5, OkIsAuthentic DEF Restorable
  <2> QED BY <2>4, <2>5, <2>6, <1>1, AdmitOnce DEF Signed
<1>5. ASSUME NEW n \in Nodes, RevokeDevice(n) PROVE Authenticated
  <2>1. biome' = [biome EXCEPT !.revoked = biome.revoked \cup {n}]
    BY <1>5 DEF RevokeDevice
  <2>2. DOMAIN biome = {"observations", "seen", "revoked"}
    BY <1>1 DEF BiomeInv, BiomeOK
  <2>3. biome'.observations = biome.observations
    BY <2>1, <2>2
  <2> QED BY <2>3, <1>2
<1>6. ASSUME biome' = biome PROVE Authenticated
  BY <1>2, <1>6
<1>7. CASE UNCHANGED <<ivars, ovars>>
  BY <1>6, <1>7 DEF ovars
<1>8. CASE Reconnect \/ RestoreSnapshot \/ RestoreFails \/ ReplayFails \/ ReplayEnds \/ Restart
  BY <1>6, <1>8 DEF Reconnect, RestoreSnapshot, RestoreFails, ReplayFails, ReplayEnds, Restart
<1>9. ASSUME NEW i \in DOMAIN snapshot, NEW e \in Envelope, Tamper(i, e) PROVE Authenticated
  BY <1>6, <1>9 DEF Tamper
<1>10. ASSUME NEW n \in Nodes, NEW k \in Keys, Provision(n, k) PROVE Authenticated
  BY <1>6, <1>10 DEF Provision
<1> QED BY <1>3, <1>4, <1>5, <1>7, <1>8, <1>9, <1>10 DEF OutageNext

\* The buffer's entries reverify, the snapshot and what is left of it copy
\* them, and what has been taken is on its way: in every reachable state.
THEOREM OutageInvariant == OutageSpec => []OutageInv
  BY OutageInitInv, OutageNextInv, PTL DEF OutageSpec

\* An observation is in the biome once, however often it is replayed.
THEOREM BiomeOnceAlways == OutageSpec => []BiomeOnce
  BY OutageInitInv, OutageNextInv, OutageInvImplies, PTL DEF OutageSpec

\* Whatever is put into the snapshot at rest, short of a signature by the key
\* that the device is registered with: what enters the biome carries that key,
\* and a number the device has signed with it.
THEOREM OnlyAuthenticAlways == OutageSpec => OnlyAuthentic
<1>1. OutageInv /\ [OutageNext]_<<ivars, ovars>> => [Authenticated]_<<ivars, ovars>>
  BY Admission
<1>2. OutageSpec => [][Authenticated]_<<ivars, ovars>>
  BY <1>1, OutageInitInv, OutageNextInv, PTL DEF OutageSpec
<1> QED BY <1>2 DEF OnlyAuthentic, Authenticated

\* An outage loses no sample that ingest has handed out.
THEOREM NothingLostAlways == OutageSpec => []NothingLost
  BY OutageInitInv, OutageNextInv, OutageInvImplies, PTL DEF OutageSpec
=============================================================================
