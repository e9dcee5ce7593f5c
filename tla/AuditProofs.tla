----------------------------- MODULE AuditProofs -----------------------------
(***************************************************************************)
(* What can be traced later.  Calibration, for every set of nodes and      *)
(* every ConfirmCount: quarantine is exactly a confirmed streak that no    *)
(* reinstatement has forgiven; for stores of any size, active_for finds    *)
(* the newest record in force, the walk up from a record ends, and         *)
(* corrections are traceable to an anchor.  The notary, for batches of any *)
(* size: every leaf has a proof, and what verifies is in the batch.  The   *)
(* inductions are through the least counterexample.                        *)
(***************************************************************************)
EXTENDS Calibration, Notary, FiniteSetTheorems, SequenceTheorems,
        WellFoundedInduction, TLAPS

LEMMA LeastNatural ==
  ASSUME NEW T, T \subseteq Nat, T # {}
  PROVE  \E x \in T : \A y \in T : x <= y
<1> DEFINE R == {ss \in Nat \X Nat : ss[1] < ss[2]}
<1>1. IsWellFoundedOn(R, Nat)
  BY NatLessThanWellFounded DEF OpToRel
<1>2. PICK x \in T : \A y \in T : ~ (<<y, x>> \in R)
  <2> HIDE DEF R
  <2> QED BY <1>1, WFMin
<1>3. ASSUME NEW y \in T PROVE x <= y
  <2>1. x \in Nat /\ y \in Nat
    OBVIOUS
  <2>2. y < x => <<y, x>> \in R
    BY <2>1
  <2> QED BY <1>2, <2>1, <2>2
<1> QED BY <1>3

\* Induction up to n, and from n down, over a set of levels.
LEMMA Upwards ==
  ASSUME NEW n \in Nat, NEW T, 0 \in T, \A k \in 1 .. n : k - 1 \in T => k \in T
  PROVE  \A k \in 0 .. n : k \in T
<1> DEFINE Missing == {k \in 0 .. n : k \notin T}
<1> SUFFICES ASSUME NEW j \in 0 .. n, j \notin T PROVE FALSE
  OBVIOUS
<1>1. Missing \subseteq Nat /\ Missing # {}
  OBVIOUS
<1>2. PICK k \in Missing : \A y \in Missing : k <= y
  <2> HIDE DEF Missing
  <2> QED BY <1>1, LeastNatural
<1>3. k \in 1 .. n /\ k - 1 \in 0 .. n /\ ~(k <= k - 1)
  OBVIOUS
<1>4. k - 1 \in T
  <2>1. k - 1 \notin Missing
    BY <1>2, <1>3
  <2> QED BY <1>3, <2>1
<1> QED BY <1>3, <1>4

LEMMA Downwards ==
  ASSUME NEW n \in Nat, NEW T, n \in T, \A k \in 1 .. n : k \in T => k - 1 \in T
  PROVE  \A k \in 0 .. n : k \in T
<1> DEFINE U == {k \in 0 .. n : n - k \in T}
<1>1. 0 \in U
  OBVIOUS
<1>2. ASSUME NEW k \in 1 .. n, k - 1 \in U PROVE k \in U
  <2>1. n - (k - 1) \in T /\ n - (k - 1) \in 1 .. n /\ k \in 0 .. n /\ (n - (k - 1)) - 1 = n - k
    BY <1>2
  <2> QED BY <2>1
<1>3. \A k \in 0 .. n : k \in U
  <2> HIDE DEF U
  <2> QED BY <1>1, <1>2, Upwards
<1>4. ASSUME NEW k \in 0 .. n PROVE k \in T
  <2>1. n - k \in 0 .. n /\ n - (n - k) = k
    OBVIOUS
  <2> QED BY <1>3, <2>1
<1> QED BY <1>4

-----------------------------------------------------------------------------
(* The drift monitors                                                      *)

LEMMA InitDrift == Init => DriftInv
  BY CalibrationAssumption DEF Init, DriftInv, QuarantineExact, State

LEMMA ObserveDrift ==
  ASSUME DriftInv, NEW n \in Nodes, NEW over \in BOOLEAN, Observe(n, over)
  PROVE  DriftInv'
<1> DEFINE count == IF n \in DOMAIN drift THEN drift[n].over ELSE 0
<1>1. streak' = [streak EXCEPT ![n] = IF over THEN streak[n] + 1 ELSE 0]
      /\ peak' = [peak EXCEPT ![n] = Longer(peak[n], streak'[n])]
  BY DEF Observe, Witness
<1>2. /\ streak' \in [Nodes -> Nat] /\ peak' \in [Nodes -> Nat]
      /\ \A k \in Nodes \ {n} : streak'[k] = streak[k] /\ peak'[k] = peak[k]
      /\ streak'[n] = (IF over THEN streak[n] + 1 ELSE 0)
      /\ peak'[n] = (IF peak[n] > streak'[n] THEN peak[n] ELSE streak'[n])
  BY <1>1 DEF DriftInv, Longer
<1>3. \A k \in Nodes : streak'[k] <= peak'[k]
  BY <1>2 DEF DriftInv
<1>4. CASE State(n) = "Quarantined"
  <2>1. drift' = drift
    BY <1>4 DEF Observe
  <2>2. \A k \in Nodes : State(k)' = State(k)
    BY <2>1 DEF State
  <2>3. peak[n] >= ConfirmCount /\ peak'[n] >= ConfirmCount
    BY <1>2, <1>4, CalibrationAssumption DEF DriftInv, QuarantineExact
  <2>4. \A k \in Nodes : (State(k)' = "Quarantined") <=> peak'[k] >= ConfirmCount
    BY <1>2, <1>4, <2>2, <2>3 DEF DriftInv, QuarantineExact
  <2>5. \A k \in Nodes : State(k)' # "Quarantined" =>
          streak'[k] = IF k \in DOMAIN drift' THEN drift'[k].over ELSE 0
    BY <1>2, <1>4, <2>1, <2>2 DEF DriftInv
  <2>6. QED BY <1>2, <1>3, <2>1, <2>4, <2>5 DEF DriftInv, QuarantineExact
<1>5. CASE State(n) # "Quarantined"
  <2>1. PICK m : /\ drift' = [k \in DOMAIN drift \cup {n} |-> IF k = n THEN m ELSE drift[k]]
                 /\ m = IF over
                        THEN [over |-> count + 1,
                              state |-> IF count + 1 >= ConfirmCount THEN "Quarantined"
                                        ELSE "Suspect"]
                        ELSE [over |-> 0, state |-> "Healthy"]
    BY <1>5 DEF Observe, Monitored
  <2>2. count \in Nat /\ streak[n] = count /\ ~(peak[n] >= ConfirmCount)
        /\ streak[n] \in Nat /\ peak[n] \in Nat
    BY <1>5 DEF DriftInv, QuarantineExact
  <2>3. m.state \in States /\ m.over \in Nat /\ m.over = streak'[n]
    BY <1>2, <2>1, <2>2 DEF States
  <2>4. /\ \A k \in DOMAIN drift' : drift'[k].state \in States /\ drift'[k].over \in Nat
        /\ DOMAIN drift' \subseteq Nodes
    BY <2>1, <2>3 DEF DriftInv
  <2>5. State(n)' = m.state
    BY <2>1 DEF State
  <2>6. \A k \in Nodes \ {n} : State(k)' = State(k)
    BY <2>1 DEF State
  <2>7. (m.state = "Quarantined") <=> peak'[n] >= ConfirmCount
    BY <1>2, <2>1, <2>2, CalibrationAssumption
  <2>8. \A k \in Nodes : (State(k)' = "Quarantined") <=> peak'[k] >= ConfirmCount
    BY <1>2, <2>5, <2>6, <2>7 DEF DriftInv, QuarantineExact
  <2>9. \A k \in Nodes : State(k)' # "Quarantined" =>
          streak'[k] = IF k \in DOMAIN drift' THEN drift'[k].over ELSE 0
    BY <1>2, <2>1, <2>3, <2>5, <2>6 DEF DriftInv
  <2>10. QED BY <1>2, <1>3, <2>4, <2>8, <2>9 DEF DriftInv, QuarantineExact
<1>6. QED BY <1>4, <1>5

LEMMA ReinstateDrift ==
  ASSUME DriftInv, NEW n \in Nodes, NEW id \in Ids, Reinstate(n, id)
  PROVE  DriftInv'
<1>1. /\ drift' = [k \in DOMAIN drift \ {n} |-> drift[k]]
      /\ streak' = [streak EXCEPT ![n] = 0] /\ peak' = [peak EXCEPT ![n] = 0]
  BY DEF Reinstate
<1>2. State(n)' = "Healthy"
  BY <1>1 DEF State
<1>3. \A k \in Nodes \ {n} : /\ State(k)' = State(k) /\ peak'[k] = peak[k]
                             /\ streak'[k] = streak[k]
                             /\ k \in DOMAIN drift' <=> k \in DOMAIN drift
                             /\ k \in DOMAIN drift => drift'[k] = drift[k]
  BY <1>1 DEF State, DriftInv
<1>4. peak'[n] = 0 /\ streak'[n] = 0 /\ n \notin DOMAIN drift'
  BY <1>1 DEF DriftInv
<1>5. QuarantineExact'
  BY <1>2, <1>3, <1>4, CalibrationAssumption DEF DriftInv, QuarantineExact
<1>6. /\ DOMAIN drift' \subseteq Nodes
      /\ \A k \in DOMAIN drift' : drift'[k].state \in States /\ drift'[k].over \in Nat
      /\ streak' \in [Nodes -> Nat] /\ peak' \in [Nodes -> Nat]
  BY <1>1 DEF DriftInv
<1>7. \A k \in Nodes : streak'[k] <= peak'[k]
  BY <1>3, <1>4 DEF DriftInv
<1>8. \A k \in Nodes : State(k)' # "Quarantined" =>
        streak'[k] = IF k \in DOMAIN drift' THEN drift'[k].over ELSE 0
  BY <1>2, <1>3, <1>4 DEF DriftInv
<1>9. QED BY <1>5, <1>6, <1>7, <1>8 DEF DriftInv

LEMMA StepDrift == DriftInv /\ [Next]_vars => DriftInv'
<1> SUFFICES ASSUME DriftInv, [Next]_vars PROVE DriftInv'
  OBVIOUS
<1>1. CASE UNCHANGED <<drift, streak, peak>>
  BY <1>1 DEF DriftInv, QuarantineExact, State
<1>2. ASSUME NEW n \in Nodes, NEW over \in BOOLEAN, Observe(n, over) PROVE DriftInv'
  BY <1>2, ObserveDrift
<1>3. ASSUME NEW n \in Nodes, NEW id \in Ids, Reinstate(n, id) PROVE DriftInv'
  BY <1>3, ReinstateDrift
<1>4. QED
  BY <1>1, <1>2, <1>3, CalibrationAssumption DEF Next, Tick, Insert, Apply, vars

\* "Sticky" quarantine: DriftDetector::observe quarantines a node exactly when
\* confirm_count observations in a row were over the threshold, and only
\* reinstate ever ends it.
THEOREM QuarantineIsConfirmed == Spec => []QuarantineExact
<1>1. DriftInv => QuarantineExact
  BY DEF DriftInv
<1>2. QED BY <1>1, InitDrift, StepDrift, PTL DEF Spec

LEMMA StepType == DriftInv' /\ TypeOK /\ [Next]_vars => TypeOK'
<1> SUFFICES ASSUME DriftInv', TypeOK, [Next]_vars PROVE TypeOK'
  OBVIOUS
<1>1. /\ \A n \in DOMAIN drift' : drift'[n].state \in States /\ drift'[n].over \in Nat
      /\ streak' \in [Nodes -> Nat] /\ peak' \in [Nodes -> Nat]
  BY DEF DriftInv
<1>2. CASE UNCHANGED vars
  BY <1>2 DEF TypeOK, vars
<1>3. CASE Tick
  BY <1>1, <1>3, CalibrationAssumption DEF TypeOK, Tick, Time
<1>4. ASSUME NEW r \in Offered, Insert(r) PROVE TypeOK'
  <2>1. r \in Record /\ r.id = r.id
    BY CalibrationAssumption
  <2>2. records' = [i \in DOMAIN records \cup {r.id} |-> IF i = r.id THEN r ELSE records[i]]
    BY <1>4 DEF Insert
  <2>3. \A i \in DOMAIN records' : records'[i] \in Record /\ records'[i].id = i
    BY <2>1, <2>2 DEF TypeOK
  <2>4. QED BY <1>1, <1>4, <2>3 DEF TypeOK, Insert
<1>5. ASSUME NEW s \in Sample, Apply(s) PROVE TypeOK'
  BY <1>1, <1>5 DEF TypeOK, Apply
<1>6. CASE UNCHANGED <<now, records, corrected>>
  BY <1>1, <1>6 DEF TypeOK
<1>7. QED
  BY <1>2, <1>3, <1>4, <1>5, <1>6 DEF Next, Observe, Reinstate

\* The store holds well-formed records, each under its own id, and the monitors
\* are in one of the three states.
THEOREM TypeCorrect == Spec => []TypeOK
<1>1. Init => TypeOK
  BY CalibrationAssumption DEF Init, TypeOK, Time
<1>2. QED BY <1>1, InitDrift, StepDrift, StepType, PTL DEF Spec

-----------------------------------------------------------------------------
(* The store and the calibrator                                            *)

\* i is the newest of C, the highest id among equals.
Newest(C, i) == \A j \in C : \/ records[i].created > records[j].created
                             \/ records[i].created = records[j].created /\ i >= j

LEMMA NewestExists ==
  ASSUME NEW C, IsFiniteSet(C), C # {}, C \subseteq Nat,
         \A i \in C : records[i].created \in Nat
  PROVE  \E i \in C : Newest(C, i)
<1>1. PICK n \in Nat : ExistsSurjection(1 .. n, C)
  BY FS_NatSurjection
<1>2. PICK f \in [1 .. n -> C] : \A i \in C : \E k \in 1 .. n : f[k] = i
  BY <1>1 DEF ExistsSurjection, Surjection
<1> DEFINE Tops(k) == \E i \in C : Newest({f[j] : j \in 1 .. k}, i)
           T == {k \in 0 .. n : ~Tops(k)}
<1>3. Tops(n)
  <2> SUFFICES ASSUME ~Tops(n) PROVE FALSE
    OBVIOUS
  <2>1. n \in T /\ T \subseteq Nat
    <3> HIDE DEF Tops
    <3> QED OBVIOUS
  <2>2. PICK k \in T : \A y \in T : k <= y
    <3> HIDE DEF T
    <3> QED BY <2>1, LeastNatural
  <2>3. k \in 0 .. n /\ ~Tops(k)
    OBVIOUS
  <2>4. k # 0
    <3>1. Tops(0)
      BY 1 .. 0 = {} DEF Newest
    <3> QED BY <2>3, <3>1
  <2>5. k - 1 \in 0 .. n /\ k - 1 \notin T /\ k \in 1 .. n
    <3>1. k - 1 \in 0 .. n /\ k \in 1 .. n /\ ~(k <= k - 1)
      BY <2>3, <2>4
    <3> QED BY <2>2, <3>1
  <2>6. Tops(k - 1)
    BY <2>5
  <2>7. PICK i \in C : Newest({f[j] : j \in 1 .. k - 1}, i)
    BY <2>6
  <2>8. \A j \in 1 .. k : j \in 1 .. k - 1 \/ j = k
    BY <2>5
  <2>9. f[k] \in C /\ \A j \in 1 .. k : f[j] \in C
    BY <2>5
  <2> DEFINE t == IF \/ records[f[k]].created > records[i].created
                     \/ records[f[k]].created = records[i].created /\ f[k] >= i
                  THEN f[k] ELSE i
  <2>10. Newest({f[j] : j \in 1 .. k}, t) /\ t \in C
    <3> SUFFICES ASSUME NEW j \in 1 .. k
                 PROVE  \/ records[t].created > records[f[j]].created
                        \/ records[t].created = records[f[j]].created /\ t >= f[j]
      BY <2>9 DEF Newest
    <3>1. /\ f[j] \in Nat /\ f[k] \in Nat /\ i \in Nat
          /\ records[f[j]].created \in Nat /\ records[f[k]].created \in Nat
          /\ records[i].created \in Nat
      BY <2>9
    <3>2. \/ j = k
          \/ records[i].created > records[f[j]].created
          \/ records[i].created = records[f[j]].created /\ i >= f[j]
      BY <2>7, <2>8 DEF Newest
    <3> QED BY <3>1, <3>2
  <2>11. Tops(k)
    BY <2>10
  <2> QED BY <2>3, <2>11
<1>4. C \subseteq {f[j] : j \in 1 .. n}
  BY <1>2
<1> QED BY <1>3, <1>4 DEF Newest

\* What the store holds, as far as the choice among active records asks.
StoreInv ==
  /\ DOMAIN records \subseteq Ids /\ IsFiniteSet(DOMAIN records)
  /\ \A i \in DOMAIN records : records[i].created \in Nat

LEMMA StepStore == StoreInv /\ [Next]_vars => StoreInv'
<1> SUFFICES ASSUME StoreInv, [Next]_vars PROVE StoreInv'
  OBVIOUS
<1>1. CASE UNCHANGED records
  BY <1>1 DEF StoreInv
<1>2. ASSUME NEW r \in Offered, Insert(r) PROVE StoreInv'
  <2>1. r.id \in Ids /\ r.created \in Nat
    BY CalibrationAssumption DEF Record, Time
  <2>2. records' = [i \in DOMAIN records \cup {r.id} |-> IF i = r.id THEN r ELSE records[i]]
    BY <1>2 DEF Insert
  <2>3. IsFiniteSet(DOMAIN records \cup {r.id})
    BY FS_AddElement DEF StoreInv
  <2>4. DOMAIN records' = DOMAIN records \cup {r.id}
    BY <2>2
  <2>5. \A i \in DOMAIN records' : records'[i].created \in Nat
    BY <2>1, <2>2 DEF StoreInv
  <2> QED BY <2>1, <2>3, <2>4, <2>5 DEF StoreInv
<1> QED
  BY <1>1, <1>2 DEF Next, Tick, Apply, Observe, Reinstate, vars

LEMMA ActiveIsCandidate ==
  ASSUME StoreInv, NEW n \in Nodes, NEW m \in Modalities, ActiveFor(n, m) # None
  PROVE  ActiveFor(n, m) \in ActiveCandidates(n, m)
<1> DEFINE C == ActiveCandidates(n, m)
<1>1. C # {} /\ C \subseteq DOMAIN records
  BY DEF ActiveFor, ActiveCandidates
<1>2. IsFiniteSet(C) /\ C \subseteq Nat /\ \A i \in C : records[i].created \in Nat
  BY <1>1, FS_Subset, CalibrationAssumption DEF StoreInv
<1>3. \E i \in C : Newest(C, i)
  <2> HIDE DEF C
  <2> QED BY <1>1, <1>2, NewestExists
<1>4. ActiveFor(n, m) = CHOOSE i \in C : Newest(C, i)
  BY <1>1 DEF ActiveFor, Newest
<1> QED BY <1>3, <1>4

\* CalibrationStore::active_for names the newest record that is in force, and
\* Calibrator::apply accepts what it names, for stores of any size.
THEOREM ActiveRecordsApply == Spec => []ActiveApplies
<1>1. Init => StoreInv
  BY FS_EmptySet DEF Init, StoreInv
<1>2. StoreInv => ActiveApplies
  <2> SUFFICES ASSUME StoreInv, NEW n \in Nodes, NEW m \in Modalities,
                      ActiveFor(n, m) # None
               PROVE  Verdict([node |-> n, modality |-> m, cal |-> ActiveFor(n, m),
                               fits |-> TRUE]) = "Applied"
    BY DEF ActiveApplies
  <2> DEFINE a == ActiveFor(n, m)
  <2>1. /\ a # 0 /\ a \in DOMAIN records /\ records[a].node = n /\ records[a].modality = m
        /\ ~Expired(records[a]) /\ LineageVerifies(a)
    BY ActiveIsCandidate DEF ActiveCandidates, None
  <2> HIDE DEF a
  <2>2. Verdict([node |-> n, modality |-> m, cal |-> a, fits |-> TRUE]) = "Applied"
    BY <2>1 DEF Verdict
  <2> QED BY <2>2 DEF a
<1> QED BY <1>1, <1>2, StepStore, PTL DEF Spec

\* The walk of verify_lineage, as a function: the recursion defines one.
Parent(i) == IF i \in DOMAIN records THEN records[i].parent ELSE None

Walks(g, id, n) == g = [k \in 0 .. n |-> IF k = 0 THEN id ELSE Parent(g[k - 1])]

LEMMA WalkExists ==
  ASSUME NEW id, NEW n \in Nat
  PROVE  \E g : Walks(g, id, n)
<1> DEFINE T == {m \in Nat : ~ \E g : Walks(g, id, m)}
<1> SUFFICES ASSUME n \in T PROVE FALSE
  OBVIOUS
<1>1. PICK m \in T : \A y \in T : m <= y
  <2>1. T \subseteq Nat /\ T # {}
    OBVIOUS
  <2> HIDE DEF T
  <2> QED BY <2>1, LeastNatural
<1>2. m \in Nat /\ ~ \E g : Walks(g, id, m)
  OBVIOUS
<1>3. m # 0
  <2>1. Walks([k \in 0 .. 0 |-> id], id, 0)
    BY DEF Walks
  <2> QED BY <1>2, <2>1
<1>4. PICK g : Walks(g, id, m - 1)
  <2>1. m - 1 \in Nat /\ ~(m <= m - 1)
    BY <1>2, <1>3
  <2> QED BY <1>1, <2>1
<1> DEFINE h == [k \in 0 .. m |-> IF k < m THEN g[k] ELSE Parent(g[m - 1])]
<1>5. \A k \in 0 .. m : h[k] = IF k = 0 THEN id ELSE Parent(h[k - 1])
  <2> SUFFICES ASSUME NEW k \in 0 .. m
               PROVE  h[k] = IF k = 0 THEN id ELSE Parent(h[k - 1])
    OBVIOUS
  <2>1. CASE k < m
    <3>1. k \in 0 .. m - 1 /\ (k # 0 => k - 1 \in 0 .. m /\ k - 1 < m)
      BY <1>2, <2>1
    <3>2. g[k] = IF k = 0 THEN id ELSE Parent(g[k - 1])
      BY <1>4, <3>1 DEF Walks
    <3>3. h[k] = g[k] /\ (k # 0 => h[k - 1] = g[k - 1])
      BY <2>1, <3>1
    <3> QED BY <3>2, <3>3
  <2>2. CASE k = m
    <3>1. h[m] = Parent(g[m - 1]) /\ h[m - 1] = g[m - 1]
      BY <1>2, <1>3
    <3> QED BY <1>3, <2>2, <3>1
  <2> QED BY <1>2, <2>1, <2>2
<1>6. Walks(h, id, m)
  <2>1. DOMAIN h = 0 .. m /\ h = [k \in DOMAIN h |-> h[k]]
    OBVIOUS
  <2> HIDE DEF h
  <2> QED BY <1>5, <2>1 DEF Walks
<1> QED BY <1>2, <1>6

LEMMA LineageWalk ==
  ASSUME NEW id, IsFiniteSet(DOMAIN records), LineageVerifies(id)
  PROVE  LET n == Cardinality(DOMAIN records) IN
         /\ n \in Nat
         /\ \E g : /\ Walks(g, id, n) /\ g[n] = None
                   /\ \A k \in 0 .. n : g[k] # None =>
                        /\ g[k] \in DOMAIN records /\ Authorised(records[g[k]])
                        /\ records[g[k]].parent = None => records[g[k]].anchored
<1> DEFINE n == Cardinality(DOMAIN records)
           up == CHOOSE g : Walks(g, id, n)
<1>1. n \in Nat
  BY FS_CardinalityType
<1>2. Walks(up, id, n)
  BY <1>1, WalkExists
<1>3. /\ up[n] = None
      /\ {up[k] : k \in 0 .. n} \ {None} \subseteq DOMAIN records
      /\ \A i \in {up[k] : k \in 0 .. n} \ {None} :
           Authorised(records[i]) /\ (records[i].parent = None => records[i].anchored)
  BY DEF LineageVerifies, Walks, Parent
<1> QED
  <2> HIDE DEF up
  <2> QED BY <1>1, <1>2, <1>3

LEMMA LineageTraceable ==
  ASSUME NEW id \in Ids, IsFiniteSet(DOMAIN records), LineageVerifies(id)
  PROVE  Traceable(id)
<1> DEFINE n == Cardinality(DOMAIN records)
<1>1. n \in Nat
  BY LineageWalk
<1>2. PICK g : /\ Walks(g, id, n) /\ g[n] = None
               /\ \A k \in 0 .. n : g[k] # None =>
                    /\ g[k] \in DOMAIN records /\ Authorised(records[g[k]])
                    /\ records[g[k]].parent = None => records[g[k]].anchored
  BY LineageWalk
<1> DEFINE T == {k \in 0 .. n : g[k] = None}
<1>3. PICK k \in T : \A y \in T : k <= y
  <2>1. T \subseteq Nat /\ n \in T
    BY <1>1, <1>2
  <2> HIDE DEF T
  <2> QED BY <2>1, LeastNatural
<1>4. k \in 0 .. n /\ g[k] = None /\ \A j \in 0 .. k - 1 : j \in 0 .. n /\ g[j] # None
  <2>1. k \in 0 .. n /\ g[k] = None
    OBVIOUS
  <2>2. ASSUME NEW j \in 0 .. k - 1 PROVE j \in 0 .. n /\ j \notin T
    BY <1>1, <1>3, <2>1
  <2> QED BY <2>1, <2>2
<1>5. g[0] = id /\ \A j \in 1 .. n : g[j] = Parent(g[j - 1])
  BY <1>1, <1>2 DEF Walks
<1>6. k \in 1 .. n
  BY <1>1, <1>4, <1>5, CalibrationAssumption DEF None
<1>7. \A j \in 0 .. k - 1 : /\ g[j] \in DOMAIN records /\ Authorised(records[g[j]])
                            /\ records[g[j]].parent = None => records[g[j]].anchored
                            /\ records[g[j]].parent = g[j + 1]
  BY <1>1, <1>2, <1>4, <1>5, <1>6 DEF Parent
<1> DEFINE path == [j \in 1 .. k |-> g[j - 1]]
<1>8. path \in [1 .. k -> DOMAIN records]
  BY <1>1, <1>6, <1>7
<1>9. /\ path[1] = id
      /\ \A j \in 1 .. k : Entitled(records[path[j]].signer, records[path[j]].modality)
      /\ \A j \in 1 .. k - 1 : records[path[j]].parent = path[j + 1]
      /\ records[path[k]].parent = None /\ records[path[k]].anchored
  <2>1. path[1] = id
    BY <1>1, <1>5, <1>6
  <2>2. ASSUME NEW j \in 1 .. k
        PROVE  Entitled(records[path[j]].signer, records[path[j]].modality)
    BY <1>1, <1>6, <1>7 DEF Authorised, Entitled
  <2>3. ASSUME NEW j \in 1 .. k - 1 PROVE records[path[j]].parent = path[j + 1]
    BY <1>1, <1>6, <1>7
  <2>4. records[path[k]].parent = None /\ records[path[k]].anchored
    BY <1>1, <1>4, <1>6, <1>7
  <2> QED BY <2>1, <2>2, <2>3, <2>4
<1> HIDE DEF path
<1> QED BY <1>6, <1>8, <1>9 DEF Traceable

\* What is traceable stays so: insert adds records and replaces none.
LEMMA TraceableKept ==
  ASSUME StoreInv, NEW r \in Offered, Insert(r), NEW i, Traceable(i)
  PROVE  Traceable(i)'
<1> DEFINE n == Cardinality(DOMAIN records)
<1>1. PICK k \in 1 .. n : \E path \in [1 .. k -> DOMAIN records] :
        /\ path[1] = i
        /\ \A j \in 1 .. k : Entitled(records[path[j]].signer, records[path[j]].modality)
        /\ \A j \in 1 .. k - 1 : records[path[j]].parent = path[j + 1]
        /\ records[path[k]].parent = None /\ records[path[k]].anchored
  BY DEF Traceable
<1>2. PICK path \in [1 .. k -> DOMAIN records] :
        /\ path[1] = i
        /\ \A j \in 1 .. k : Entitled(records[path[j]].signer, records[path[j]].modality)
        /\ \A j \in 1 .. k - 1 : records[path[j]].parent = path[j + 1]
        /\ records[path[k]].parent = None /\ records[path[k]].anchored
  BY <1>1
<1>3. /\ DOMAIN records' = DOMAIN records \cup {r.id}
      /\ \A d \in DOMAIN records : records'[d] = records[d]
  BY DEF Insert
<1>4. /\ IsFiniteSet(DOMAIN records') /\ n <= Cardinality(DOMAIN records')
      /\ n \in Nat /\ Cardinality(DOMAIN records') \in Nat
  BY <1>3, FS_AddElement, FS_Subset, FS_CardinalityType DEF StoreInv
<1>5. k \in 1 .. Cardinality(DOMAIN records') /\ path \in [1 .. k -> DOMAIN records']
  BY <1>3, <1>4
<1>6. \A j \in 1 .. k : records'[path[j]] = records[path[j]]
  BY <1>3
<1>7. k \in 1 .. k /\ \A j \in 1 .. k - 1 : j \in 1 .. k
  BY <1>4
<1> QED
  BY <1>2, <1>5, <1>6, <1>7 DEF Traceable

LEMMA StepTraceable == StoreInv /\ TypeOK /\ CorrectionTraceable /\ [Next]_vars => CorrectionTraceable'
<1> SUFFICES ASSUME StoreInv, TypeOK, CorrectionTraceable, [Next]_vars PROVE CorrectionTraceable'
  OBVIOUS
<1>1. CASE UNCHANGED <<records, corrected>>
  BY <1>1 DEF CorrectionTraceable, Traceable
<1>2. ASSUME NEW r \in Offered, Insert(r) PROVE CorrectionTraceable'
  <2>1. /\ DOMAIN records \subseteq DOMAIN records'
        /\ \A d \in DOMAIN records : records'[d] = records[d]
        /\ corrected' = corrected
    BY <1>2 DEF Insert
  <2>2. \A c \in corrected : Traceable(c.sample.cal)'
    BY <1>2, TraceableKept DEF CorrectionTraceable
  <2> QED BY <2>1, <2>2 DEF CorrectionTraceable
<1>3. ASSUME NEW s \in Sample, Apply(s) PROVE CorrectionTraceable'
  <2>1. CASE Verdict(s) # "Applied"
    BY <1>3, <2>1 DEF Apply, CorrectionTraceable
  <2>2. CASE Verdict(s) = "Applied"
    <3>1. /\ s.cal \in DOMAIN records /\ records[s.cal].node = s.node
          /\ records[s.cal].modality = s.modality /\ ~Expired(records[s.cal])
          /\ LineageVerifies(s.cal)
      BY <2>2 DEF Verdict
    <3>2. Traceable(s.cal)
      BY <3>1, LineageTraceable DEF StoreInv
    <3>3. now < records[s.cal].expires
      <4>1. now \in Nat /\ records[s.cal].expires \in Nat
        BY <3>1, CalibrationAssumption DEF TypeOK, Time, Record
      <4> QED BY <3>1, <4>1 DEF Expired
    <3>4. corrected' = {[sample |-> s, at |-> now]} /\ records' = records
      BY <1>3, <2>2 DEF Apply
    <3>5. Traceable(s.cal)'
      BY <3>2, <3>4 DEF Traceable
    <3> QED BY <3>1, <3>3, <3>4, <3>5 DEF CorrectionTraceable
  <2> QED BY <2>1, <2>2
<1> QED
  BY <1>1, <1>2, <1>3 DEF Next, Tick, Observe, Reinstate, vars

\* Calibrator::apply with CalibrationStore::verify_lineage: whatever a sample
\* was corrected by came from an anchor through entitled signatures only, for
\* chains and stores of any size.
THEOREM CorrectionsTraceable == Spec => []CorrectionTraceable
<1>1. Init => StoreInv /\ TypeOK /\ CorrectionTraceable
  BY FS_EmptySet, CalibrationAssumption DEF Init, StoreInv, TypeOK, Time, CorrectionTraceable
<1>2. QED
  BY <1>1, TypeCorrect, StepStore, StepTraceable, PTL DEF Spec

-----------------------------------------------------------------------------
(* The tree                                                                *)

\* A level of m digests.
Shape(l, m) == m \in Nat \ {0} /\ Len(l) = m /\ DOMAIN l = 1 .. m

\* A function on 1 .. m is a sequence of length m.
LEMMA FunctionLength ==
  ASSUME NEW m \in Nat, NEW f, f = [i \in 1 .. m |-> f[i]]
  PROVE  Len(f) = m /\ DOMAIN f = 1 .. m
<1> DEFINE S == {f[i] : i \in 1 .. m}
<1>1. f \in [1 .. m -> S]
  OBVIOUS
<1>2. f \in Seq(S) /\ DOMAIN f = 1 .. m
  BY <1>1
<1>3. Len(f) \in Nat /\ DOMAIN f = 1 .. Len(f)
  <2> HIDE DEF S
  <2> QED BY <1>2, LenProperties
<1> QED BY <1>2, <1>3

\* Node i of a level goes into node i \div 2 of the next: alone if it is the odd
\* tail, else with the neighbour on its side.
LEMMA ParentsOf ==
  ASSUME NEW l, NEW m, Shape(l, m)
  PROVE  /\ Shape(Parents(l), (m + 1) \div 2)
         /\ \A i \in 0 .. m - 1 :
              /\ i \div 2 \in 0 .. ((m + 1) \div 2) - 1
              /\ Promoted(i, m) => Parents(l)[i \div 2 + 1] = l[i + 1]
              /\ ~Promoted(i, m) /\ i % 2 = 0 =>
                   i + 2 \in 1 .. m /\ Parents(l)[i \div 2 + 1] = NodeHash(l[i + 1], l[i + 2])
              /\ ~Promoted(i, m) /\ i % 2 # 0 =>
                   i \in 1 .. m /\ Parents(l)[i \div 2 + 1] = NodeHash(l[i], l[i + 1])
<1>1. m \in Nat \ {0} /\ Len(l) = m
  BY DEF Shape
<1>2. PICK h : h = (m + 1) \div 2
  OBVIOUS
<1>3. h \in Nat \ {0}
  BY <1>1, <1>2
<1>4. PICK p : p = Parents(l)
  OBVIOUS
<1>5. p = [i \in 1 .. h |-> IF 2 * i <= m THEN NodeHash(l[2 * i - 1], l[2 * i]) ELSE l[2 * i - 1]]
  BY <1>1, <1>2, <1>4 DEF Parents
<1>6. Shape(p, h)
  <2>1. p = [i \in 1 .. h |-> p[i]]
    BY <1>5
  <2> QED BY <1>3, <2>1, FunctionLength DEF Shape
<1>7. ASSUME NEW i \in 0 .. m - 1
      PROVE  /\ i \div 2 \in 0 .. h - 1
             /\ Promoted(i, m) => p[i \div 2 + 1] = l[i + 1]
             /\ ~Promoted(i, m) /\ i % 2 = 0 =>
                  i + 2 \in 1 .. m /\ p[i \div 2 + 1] = NodeHash(l[i + 1], l[i + 2])
             /\ ~Promoted(i, m) /\ i % 2 # 0 =>
                  i \in 1 .. m /\ p[i \div 2 + 1] = NodeHash(l[i], l[i + 1])
  <2>1. PICK q : q = i \div 2
    OBVIOUS
  <2>2. q \in Nat /\ (i = 2 * q \/ i = 2 * q + 1)
        /\ (i % 2 = 0 <=> i = 2 * q)
    BY <1>1, <2>1
  <2>3. q + 1 \in 1 .. h /\ q \in 0 .. h - 1
    BY <1>1, <1>2, <1>3, <2>1, <2>2
  <2>4. p[q + 1] = IF 2 * (q + 1) <= m THEN NodeHash(l[2 * (q + 1) - 1], l[2 * (q + 1)])
                   ELSE l[2 * (q + 1) - 1]
    BY <1>5, <2>3
  <2>5. CASE i = 2 * q
    <3>1. 2 * (q + 1) - 1 = i + 1 /\ 2 * (q + 1) = i + 2 /\ i % 2 = 0
      BY <2>2, <2>5
    <3>2. Promoted(i, m) <=> ~(i + 2 <= m)
      BY <1>1, <2>2, <2>5 DEF Promoted
    <3>3. i + 2 <= m => i + 2 \in 1 .. m
      BY <1>1
    <3> QED BY <2>1, <2>3, <2>4, <3>1, <3>2, <3>3
  <2>6. CASE i = 2 * q + 1
    <3>1. 2 * (q + 1) - 1 = i /\ 2 * (q + 1) = i + 1 /\ i % 2 # 0 /\ i \in 1 .. m
      BY <1>1, <2>2, <2>6
    <3>2. ~Promoted(i, m) /\ i + 1 <= m
      BY <1>1, <2>2, <2>6 DEF Promoted
    <3> QED BY <2>1, <2>3, <2>4, <3>1, <3>2
  <2> QED BY <2>2, <2>5, <2>6
<1> QED BY <1>2, <1>4, <1>6, <1>7

LevelsOf(g, leaves, n) ==
  g = [k \in 0 .. n |-> IF k = 0 THEN leaves ELSE Parents(g[k - 1])]

\* The recursion of Levels defines a function.
LEMMA LevelsExist ==
  ASSUME NEW leaves, NEW n \in Nat
  PROVE  \E g : LevelsOf(g, leaves, n)
<1> DEFINE T == {m \in Nat : \E g : LevelsOf(g, leaves, m)}
<1>1. 0 \in T
  <2>1. LevelsOf([k \in 0 .. 0 |-> leaves], leaves, 0)
    BY DEF LevelsOf
  <2> QED BY <2>1
<1>2. ASSUME NEW m \in 1 .. n, m - 1 \in T PROVE m \in T
  <2>1. PICK g : LevelsOf(g, leaves, m - 1)
    BY <1>2
  <2> DEFINE h == [k \in 0 .. m |-> IF k < m THEN g[k] ELSE Parents(g[m - 1])]
  <2>2. \A k \in 0 .. m : h[k] = IF k = 0 THEN leaves ELSE Parents(h[k - 1])
    <3> SUFFICES ASSUME NEW k \in 0 .. m
                 PROVE  h[k] = IF k = 0 THEN leaves ELSE Parents(h[k - 1])
      OBVIOUS
    <3>1. CASE k < m
      <4>1. k \in 0 .. m - 1 /\ (k # 0 => k - 1 \in 0 .. m /\ k - 1 < m)
        BY <3>1
      <4>2. g[k] = IF k = 0 THEN leaves ELSE Parents(g[k - 1])
        BY <2>1, <4>1 DEF LevelsOf
      <4>3. h[k] = g[k] /\ (k # 0 => h[k - 1] = g[k - 1])
        BY <3>1, <4>1
      <4> QED BY <4>2, <4>3
    <3>2. CASE k = m
      <4>1. h[m] = Parents(g[m - 1]) /\ h[m - 1] = g[m - 1] /\ m # 0
        OBVIOUS
      <4> QED BY <3>2, <4>1
    <3> QED BY <3>1, <3>2
  <2>3. LevelsOf(h, leaves, m)
    <3>1. DOMAIN h = 0 .. m /\ h = [k \in DOMAIN h |-> h[k]]
      OBVIOUS
    <3> HIDE DEF h
    <3> QED BY <2>2, <3>1 DEF LevelsOf
  <2>4. m \in Nat /\ \E f : LevelsOf(f, leaves, m)
    BY <2>3
  <2> QED BY <2>4
<1>3. n \in 0 .. n
  OBVIOUS
<1>4. n \in T
  <2> HIDE DEF T
  <2> QED BY <1>1, <1>2, <1>3, Upwards
<1> QED BY <1>4

\* MerkleTree::build: the levels shrink to one digest.
LEMMA LevelsFacts ==
  ASSUME NEW leaves, NEW n, Shape(leaves, n)
  PROVE  \E L : /\ L = Levels(leaves) /\ L[0] = leaves
                /\ \A k \in 1 .. n : L[k] = Parents(L[k - 1])
                /\ \A k \in 0 .. n : \E m : Shape(L[k], m) /\ (m = 1 \/ m <= n - k)
<1>1. n \in Nat \ {0} /\ Len(leaves) = n
  BY DEF Shape
<1> DEFINE L == CHOOSE g : LevelsOf(g, leaves, n)
<1>2. LevelsOf(L, leaves, n)
  BY <1>1, LevelsExist
<1>3. L = Levels(leaves)
  BY <1>1 DEF Levels, LevelsOf
<1> HIDE DEF L
<1>4. L[0] = leaves /\ \A k \in 1 .. n : L[k] = Parents(L[k - 1])
  <2>1. 0 \in 0 .. n /\ \A k \in 1 .. n : k \in 0 .. n /\ k # 0
    BY <1>1
  <2> QED BY <1>2, <2>1 DEF LevelsOf
<1> DEFINE T == {k \in 0 .. n : \E m : Shape(L[k], m) /\ (m = 1 \/ m <= n - k)}
<1>5. 0 \in T
  <2>1. 0 \in 0 .. n /\ Shape(L[0], n) /\ n <= n - 0
    BY <1>1, <1>4
  <2> QED BY <2>1
<1>6. ASSUME NEW k \in 1 .. n, k - 1 \in T PROVE k \in T
  <2>1. PICK m : Shape(L[k - 1], m) /\ (m = 1 \/ m <= n - (k - 1))
    BY <1>6
  <2>2. m \in Nat \ {0}
    BY <2>1 DEF Shape
  <2>3. Shape(L[k], (m + 1) \div 2)
    BY <1>4, <2>1, ParentsOf
  <2>4. (m + 1) \div 2 = 1 \/ (m + 1) \div 2 <= m - 1
    BY <2>2
  <2>5. (m + 1) \div 2 = 1 \/ (m + 1) \div 2 <= n - k
    BY <1>1, <2>1, <2>2, <2>4
  <2>6. k \in 0 .. n
    OBVIOUS
  <2> QED BY <2>3, <2>5, <2>6
<1>7. \A k \in 0 .. n : k \in T
  <2> HIDE DEF T
  <2> QED BY <1>1, <1>5, <1>6, Upwards
<1> QED BY <1>3, <1>4, <1>7

-----------------------------------------------------------------------------
(* The verifier                                                            *)

\* A state of verify_inclusion, and one in which it has refused the proof.
At(acc, used, idx, size) ==
  [ok |-> TRUE, acc |-> acc, used |-> used, idx |-> idx, size |-> size]

StoppedAt(acc, used, idx, size) ==
  [ok |-> FALSE, acc |-> acc, used |-> used, idx |-> idx, size |-> size]

\* Where verify_inclusion finds no sibling of the side that is due.
Refused(path, used, idx) ==
  used >= Len(path) \/ path[used + 1].right # (idx % 2 = 0)

\* What one level of verify_inclusion does, case by case.
LEMMA ClimbEnded ==
  ASSUME NEW w, NEW acc, NEW used, NEW idx, NEW size, NEW path,
         w = StoppedAt(acc, used, idx, size)
  PROVE  Climb(w, path) = w
  BY DEF Climb, At, StoppedAt

LEMMA ClimbAtTop ==
  ASSUME NEW w, NEW acc, NEW used, NEW idx, NEW size, NEW path,
         w = At(acc, used, idx, size), size <= 1
  PROVE  Climb(w, path) = w
  BY DEF Climb, At, StoppedAt

LEMMA ClimbPromoted ==
  ASSUME NEW w, NEW acc, NEW used, NEW idx, NEW size, NEW path,
         w = At(acc, used, idx, size), ~(size <= 1), Promoted(idx, size)
  PROVE  Climb(w, path) = At(acc, used, idx \div 2, (size + 1) \div 2)
  BY DEF Climb, At, StoppedAt

LEMMA ClimbRefused ==
  ASSUME NEW w, NEW acc, NEW used, NEW idx, NEW size, NEW path,
         w = At(acc, used, idx, size), ~(size <= 1), ~Promoted(idx, size),
         Refused(path, used, idx)
  PROVE  Climb(w, path) = StoppedAt(acc, used, idx, size)
  BY DEF Climb, At, StoppedAt, Refused

LEMMA ClimbJoined ==
  ASSUME NEW w, NEW acc, NEW used, NEW idx, NEW size, NEW path,
         w = At(acc, used, idx, size), ~(size <= 1), ~Promoted(idx, size),
         ~Refused(path, used, idx)
  PROVE  Climb(w, path)
         = At(Joined(acc, path[used + 1]), used + 1, idx \div 2, (size + 1) \div 2)
  BY DEF Climb, At, StoppedAt, Refused

WalkOf(g, start, path, n) ==
  g = [k \in 0 .. n |-> IF k = 0 THEN start ELSE Climb(g[k - 1], path)]

LEMMA ClimbsExist ==
  ASSUME NEW start, NEW path, NEW n \in Nat
  PROVE  \E g : WalkOf(g, start, path, n)
<1> DEFINE T == {m \in Nat : \E g : WalkOf(g, start, path, m)}
<1>1. 0 \in T
  <2>1. WalkOf([k \in 0 .. 0 |-> start], start, path, 0)
    BY DEF WalkOf
  <2> QED BY <2>1
<1>2. ASSUME NEW m \in 1 .. n, m - 1 \in T PROVE m \in T
  <2>1. PICK g : WalkOf(g, start, path, m - 1)
    BY <1>2
  <2> DEFINE h == [k \in 0 .. m |-> IF k < m THEN g[k] ELSE Climb(g[m - 1], path)]
  <2>2. \A k \in 0 .. m : h[k] = IF k = 0 THEN start ELSE Climb(h[k - 1], path)
    <3> SUFFICES ASSUME NEW k \in 0 .. m
                 PROVE  h[k] = IF k = 0 THEN start ELSE Climb(h[k - 1], path)
      OBVIOUS
    <3>1. CASE k < m
      <4>1. k \in 0 .. m - 1 /\ (k # 0 => k - 1 \in 0 .. m /\ k - 1 < m)
        BY <3>1
      <4>2. g[k] = IF k = 0 THEN start ELSE Climb(g[k - 1], path)
        BY <2>1, <4>1 DEF WalkOf
      <4>3. h[k] = g[k] /\ (k # 0 => h[k - 1] = g[k - 1])
        BY <3>1, <4>1
      <4> QED BY <4>2, <4>3
    <3>2. CASE k = m
      <4>1. h[m] = Climb(g[m - 1], path) /\ h[m - 1] = g[m - 1] /\ m # 0
        OBVIOUS
      <4> QED BY <3>2, <4>1
    <3> QED BY <3>1, <3>2
  <2>3. WalkOf(h, start, path, m)
    <3>1. DOMAIN h = 0 .. m /\ h = [k \in DOMAIN h |-> h[k]]
      OBVIOUS
    <3> HIDE DEF h
    <3> QED BY <2>2, <3>1 DEF WalkOf
  <2>4. m \in Nat /\ \E f : WalkOf(f, start, path, m)
    BY <2>3
  <2> QED BY <2>4
<1>3. n \in 0 .. n
  OBVIOUS
<1>4. n \in T
  <2> HIDE DEF T
  <2> QED BY <1>1, <1>2, <1>3, Upwards
<1> QED BY <1>4

\* verify_inclusion, as the walk up that it is.
Walked(W, leaf, proof, n) ==
  /\ W[0] = At(leaf, 0, proof.index, n)
  /\ \A k \in 1 .. n : W[k] = Climb(W[k - 1], proof.siblings)

Ends(w, proof, n, root) ==
  /\ n > 0 /\ proof.index < n
  /\ w.ok /\ w.used = Len(proof.siblings) /\ w.acc = root

\* The recursion of VerifyInclusion defines the walk that it judges.
LEMMA VerifyFacts ==
  ASSUME NEW leaf, NEW proof, NEW root, NEW n \in Nat, proof.count = n
  PROVE  \E W : /\ Walked(W, leaf, proof, n)
                /\ VerifyInclusion(leaf, proof, root) <=> Ends(W[n], proof, n, root)
<1> DEFINE start == At(leaf, 0, proof.index, n)
           W == CHOOSE g : WalkOf(g, start, proof.siblings, n)
<1>1. WalkOf(W, start, proof.siblings, n)
  <2> HIDE DEF start
  <2> QED BY ClimbsExist
<1>2. VerifyInclusion(leaf, proof, root) <=> Ends(W[n], proof, n, root)
  BY DEF VerifyInclusion, WalkOf, At, Ends
<1> HIDE DEF W, start
<1>3. W[0] = start /\ \A k \in 1 .. n : W[k] = Climb(W[k - 1], proof.siblings)
  <2>1. 0 \in 0 .. n /\ \A k \in 1 .. n : k \in 0 .. n /\ k # 0
    OBVIOUS
  <2> QED BY <1>1, <2>1 DEF WalkOf
<1> QED BY <1>2, <1>3 DEF start, Walked

\* As long as nothing was refused, the walk is at a digest of the tree's level.
OnTree(w, l) ==
  \E acc, used, idx, size :
    \/ w = StoppedAt(acc, used, idx, size)
    \/ w = At(acc, used, idx, size) /\ Shape(l, size) /\ idx \in 0 .. size - 1

\* The walk stays on the tree, whatever the path holds.
LEMMA ClimbOnTree ==
  ASSUME NEW w, NEW l, NEW path, OnTree(w, l)
  PROVE  OnTree(Climb(w, path), Parents(l))
<1>1. PICK acc, used, idx, size :
        \/ w = StoppedAt(acc, used, idx, size)
        \/ w = At(acc, used, idx, size) /\ Shape(l, size) /\ idx \in 0 .. size - 1
  BY DEF OnTree
<1>2. CASE w = StoppedAt(acc, used, idx, size)
  <2>1. Climb(w, path) = w
    BY <1>2, ClimbEnded
  <2> QED BY <1>2, <2>1 DEF OnTree
<1>3. CASE w = At(acc, used, idx, size) /\ Shape(l, size) /\ idx \in 0 .. size - 1
  <2>1. Shape(l, size) /\ idx \in 0 .. size - 1 /\ size \in Nat \ {0} /\ w = At(acc, used, idx, size)
    BY <1>3 DEF Shape
  <2>2. Shape(Parents(l), (size + 1) \div 2) /\ idx \div 2 \in 0 .. ((size + 1) \div 2) - 1
    BY <2>1, ParentsOf
  <2>3. CASE size <= 1
    <3>1. size = 1 /\ (size + 1) \div 2 = size
      BY <2>1, <2>3
    <3>2. Climb(w, path) = w
      BY <2>1, <2>3, ClimbAtTop
    <3> QED BY <2>1, <2>2, <3>1, <3>2 DEF OnTree
  <2>4. CASE ~(size <= 1) /\ Promoted(idx, size)
    <3>1. Climb(w, path) = At(acc, used, idx \div 2, (size + 1) \div 2)
      BY <2>1, <2>4, ClimbPromoted
    <3> QED BY <2>2, <3>1 DEF OnTree
  <2>5. CASE ~(size <= 1) /\ ~Promoted(idx, size) /\ Refused(path, used, idx)
    <3>1. Climb(w, path) = StoppedAt(acc, used, idx, size)
      BY <2>1, <2>5, ClimbRefused
    <3> QED BY <3>1 DEF OnTree
  <2>6. CASE ~(size <= 1) /\ ~Promoted(idx, size) /\ ~Refused(path, used, idx)
    <3>1. Climb(w, path)
          = At(Joined(acc, path[used + 1]), used + 1, idx \div 2, (size + 1) \div 2)
      BY <2>1, <2>6, ClimbJoined
    <3> QED BY <2>2, <3>1 DEF OnTree
  <2> QED BY <2>3, <2>4, <2>5, <2>6
<1> QED BY <1>1, <1>2, <1>3

\* What the walk has come to is what the tree has there.
Agrees(w, l) == w.ok /\ w.acc = l[w.idx + 1]

\* Backwards: hashes are free of collisions, so a walk that agrees with a level
\* of the tree agreed with the one below it.
LEMMA ClimbBack ==
  ASSUME NEW w, NEW l, NEW path, OnTree(w, l), Agrees(Climb(w, path), Parents(l))
  PROVE  Agrees(w, l)
<1>1. PICK acc, used, idx, size :
        \/ w = StoppedAt(acc, used, idx, size)
        \/ w = At(acc, used, idx, size) /\ Shape(l, size) /\ idx \in 0 .. size - 1
  BY DEF OnTree
<1>2. PICK p : p = Parents(l)
  OBVIOUS
<1>3. w # StoppedAt(acc, used, idx, size)
  <2> SUFFICES ASSUME w = StoppedAt(acc, used, idx, size) PROVE FALSE
    OBVIOUS
  <2>1. Climb(w, path) = StoppedAt(acc, used, idx, size)
    BY ClimbEnded
  <2>2. ~ Climb(w, path).ok
    BY <2>1 DEF StoppedAt
  <2> QED BY <2>2 DEF Agrees
<1>4. Shape(l, size) /\ idx \in 0 .. size - 1 /\ size \in Nat \ {0} /\ w = At(acc, used, idx, size)
  BY <1>1, <1>3 DEF Shape
<1>5. /\ Promoted(idx, size) => p[idx \div 2 + 1] = l[idx + 1]
      /\ ~Promoted(idx, size) /\ idx % 2 = 0 => p[idx \div 2 + 1] = NodeHash(l[idx + 1], l[idx + 2])
      /\ ~Promoted(idx, size) /\ idx % 2 # 0 => p[idx \div 2 + 1] = NodeHash(l[idx], l[idx + 1])
  BY <1>2, <1>4, ParentsOf
<1>6. acc = l[idx + 1]
  <2>1. CASE size <= 1
    <3>1. Climb(w, path) = At(acc, used, idx, size)
      BY <1>4, <2>1, ClimbAtTop
    <3>2. acc = p[idx + 1]
      BY <1>2, <3>1 DEF Agrees, At
    <3>3. idx = 0 /\ size = 1 /\ idx \div 2 = idx /\ Promoted(idx, size)
      BY <1>4, <2>1 DEF Promoted
    <3> QED BY <1>5, <3>2, <3>3
  <2>2. CASE ~(size <= 1) /\ Promoted(idx, size)
    <3>1. Climb(w, path) = At(acc, used, idx \div 2, (size + 1) \div 2)
      BY <1>4, <2>2, ClimbPromoted
    <3>2. acc = p[idx \div 2 + 1]
      BY <1>2, <3>1 DEF Agrees, At
    <3> QED BY <1>5, <2>2, <3>2
  <2>3. CASE ~(size <= 1) /\ ~Promoted(idx, size) /\ Refused(path, used, idx)
    <3>1. Climb(w, path) = StoppedAt(acc, used, idx, size)
      BY <1>4, <2>3, ClimbRefused
    <3>2. ~ Climb(w, path).ok
      BY <3>1 DEF StoppedAt
    <3> QED BY <3>2 DEF Agrees
  <2>4. CASE ~(size <= 1) /\ ~Promoted(idx, size) /\ ~Refused(path, used, idx)
    <3>1. PICK s : s = path[used + 1]
      OBVIOUS
    <3>2. Climb(w, path) = At(Joined(acc, s), used + 1, idx \div 2, (size + 1) \div 2)
      BY <1>4, <2>4, <3>1, ClimbJoined
    <3>3. Joined(acc, s) = p[idx \div 2 + 1]
      BY <1>2, <3>2 DEF Agrees, At
    <3>4. s.right = (idx % 2 = 0)
      BY <2>4, <3>1 DEF Refused
    <3>5. CASE idx % 2 = 0
      <4>1. s.right
        BY <3>4, <3>5
      <4>2. NodeHash(acc, s.hash) = NodeHash(l[idx + 1], l[idx + 2])
        BY <1>5, <2>4, <3>3, <3>5, <4>1 DEF Joined
      <4> QED BY <4>2 DEF NodeHash
    <3>6. CASE idx % 2 # 0
      <4>1. ~s.right
        BY <3>4, <3>6
      <4>2. NodeHash(s.hash, acc) = NodeHash(l[idx], l[idx + 1])
        BY <1>5, <2>4, <3>3, <3>6, <4>1 DEF Joined
      <4> QED BY <4>2 DEF NodeHash
    <3> QED BY <3>5, <3>6
  <2> QED BY <2>1, <2>2, <2>3, <2>4
<1> QED BY <1>4, <1>6 DEF Agrees, At

\* Whatever its path, a proof that verifies against the root of a tree of its
\* own size shows the leaf that is at its index.
LEMMA ProofIsSound ==
  ASSUME NEW leaves, NEW n, Shape(leaves, n), NEW leaf, NEW proof,
         proof.count = n, proof.index \in Nat,
         VerifyInclusion(leaf, proof, Root(leaves))
  PROVE  proof.index < n /\ leaf = leaves[proof.index + 1]
<1>1. n \in Nat \ {0} /\ Len(leaves) = n /\ DOMAIN leaves = 1 .. n
  BY DEF Shape
<1>2. PICK L : /\ L = Levels(leaves) /\ L[0] = leaves
               /\ \A k \in 1 .. n : L[k] = Parents(L[k - 1])
               /\ \A k \in 0 .. n : \E m : Shape(L[k], m) /\ (m = 1 \/ m <= n - k)
  BY LevelsFacts
<1>3. Root(leaves) = L[n][1]
  <2>1. leaves # <<>>
    BY <1>1
  <2> QED BY <1>1, <1>2, <2>1 DEF Root
<1>4. PICK W : /\ Walked(W, leaf, proof, n)
               /\ VerifyInclusion(leaf, proof, Root(leaves))
                  <=> Ends(W[n], proof, n, Root(leaves))
  BY <1>1, VerifyFacts
<1>5. proof.index < n /\ W[n].ok /\ W[n].acc = L[n][1]
  BY <1>3, <1>4 DEF Ends
<1> DEFINE T == {k \in 0 .. n : OnTree(W[k], L[k])}
<1>6. \A k \in 0 .. n : OnTree(W[k], L[k])
  <2>1. 0 \in T
    <3>1. proof.index \in 0 .. n - 1 /\ 0 \in 0 .. n
      BY <1>1, <1>5
    <3>2. OnTree(W[0], L[0])
      BY <1>2, <1>4, <3>1 DEF OnTree, Walked
    <3> QED BY <3>1, <3>2
  <2>2. ASSUME NEW k \in 1 .. n, k - 1 \in T PROVE k \in T
    <3>1. OnTree(Climb(W[k - 1], proof.siblings), Parents(L[k - 1]))
      BY <2>2, ClimbOnTree
    <3>2. OnTree(W[k], L[k]) /\ k \in 0 .. n
      BY <1>2, <1>4, <3>1 DEF Walked
    <3> QED BY <3>2
  <2>3. \A k \in 0 .. n : k \in T
    <3> HIDE DEF T
    <3> QED BY <1>1, <2>1, <2>2, Upwards
  <2> QED BY <2>3
<1> DEFINE U == {k \in 0 .. n : Agrees(W[k], L[k])}
<1>7. n \in U
  <2>1. n \in 0 .. n
    BY <1>1
  <2>2. PICK acc, used, idx, size :
          \/ W[n] = StoppedAt(acc, used, idx, size)
          \/ W[n] = At(acc, used, idx, size) /\ Shape(L[n], size) /\ idx \in 0 .. size - 1
    BY <1>6, <2>1 DEF OnTree
  <2>3. /\ Shape(L[n], size) /\ idx \in 0 .. size - 1
        /\ W[n].idx = idx
    BY <1>5, <2>2 DEF At, StoppedAt
  <2>4. PICK m : Shape(L[n], m) /\ (m = 1 \/ m <= n - n)
    BY <1>2, <2>1
  <2>5. m = 1 /\ size = 1 /\ idx = 0
    BY <1>1, <2>2, <2>3, <2>4 DEF Shape
  <2>6. Agrees(W[n], L[n])
    BY <1>5, <2>3, <2>5 DEF Agrees
  <2> QED BY <2>1, <2>6
<1>8. ASSUME NEW k \in 1 .. n, k \in U PROVE k - 1 \in U
  <2>1. k - 1 \in 0 .. n
    BY <1>1
  <2>2. OnTree(W[k - 1], L[k - 1]) /\ W[k] = Climb(W[k - 1], proof.siblings)
        /\ L[k] = Parents(L[k - 1])
    BY <1>2, <1>4, <1>6, <2>1 DEF Walked
  <2>3. Agrees(Climb(W[k - 1], proof.siblings), Parents(L[k - 1]))
    BY <1>8, <2>2
  <2>4. Agrees(W[k - 1], L[k - 1])
    BY <2>2, <2>3, ClimbBack
  <2> QED BY <2>1, <2>4
<1>9. \A k \in 0 .. n : k \in U
  <2> HIDE DEF U
  <2> QED BY <1>1, <1>7, <1>8, Downwards
<1>10. Agrees(W[0], L[0])
  <2>1. 0 \in 0 .. n
    BY <1>1
  <2> QED BY <1>9, <2>1
<1> QED BY <1>2, <1>4, <1>5, <1>10 DEF Agrees, At, Walked

-----------------------------------------------------------------------------
(* The proofs that the tree gives                                          *)

UpsOf(g, start, L, n) ==
  g = [k \in 0 .. n |-> IF k = 0 THEN start ELSE Collect(g[k - 1], L[k - 1])]

LEMMA UpsExist ==
  ASSUME NEW start, NEW L, NEW n \in Nat
  PROVE  \E g : UpsOf(g, start, L, n)
<1> DEFINE T == {m \in Nat : \E g : UpsOf(g, start, L, m)}
<1>1. 0 \in T
  <2>1. UpsOf([k \in 0 .. 0 |-> start], start, L, 0)
    BY DEF UpsOf
  <2> QED BY <2>1
<1>2. ASSUME NEW m \in 1 .. n, m - 1 \in T PROVE m \in T
  <2>1. PICK g : UpsOf(g, start, L, m - 1)
    BY <1>2
  <2> DEFINE h == [k \in 0 .. m |-> IF k < m THEN g[k] ELSE Collect(g[m - 1], L[m - 1])]
  <2>2. \A k \in 0 .. m : h[k] = IF k = 0 THEN start ELSE Collect(h[k - 1], L[k - 1])
    <3> SUFFICES ASSUME NEW k \in 0 .. m
                 PROVE  h[k] = IF k = 0 THEN start ELSE Collect(h[k - 1], L[k - 1])
      OBVIOUS
    <3>1. CASE k < m
      <4>1. k \in 0 .. m - 1 /\ (k # 0 => k - 1 \in 0 .. m /\ k - 1 < m)
        BY <3>1
      <4>2. g[k] = IF k = 0 THEN start ELSE Collect(g[k - 1], L[k - 1])
        BY <2>1, <4>1 DEF UpsOf
      <4>3. h[k] = g[k] /\ (k # 0 => h[k - 1] = g[k - 1])
        BY <3>1, <4>1
      <4> QED BY <4>2, <4>3
    <3>2. CASE k = m
      <4>1. h[m] = Collect(g[m - 1], L[m - 1]) /\ h[m - 1] = g[m - 1] /\ m # 0
        OBVIOUS
      <4> QED BY <3>2, <4>1
    <3> QED BY <3>1, <3>2
  <2>3. UpsOf(h, start, L, m)
    <3>1. DOMAIN h = 0 .. m /\ h = [k \in DOMAIN h |-> h[k]]
      OBVIOUS
    <3> HIDE DEF h
    <3> QED BY <2>2, <3>1 DEF UpsOf
  <2>4. m \in Nat /\ \E f : UpsOf(f, start, L, m)
    BY <2>3
  <2> QED BY <2>4
<1>3. n \in 0 .. n
  OBVIOUS
<1>4. n \in T
  <2> HIDE DEF T
  <2> QED BY <1>1, <1>2, <1>3, Upwards
<1> QED BY <1>4

\* MerkleTree::prove, as the walk up that it is.
Collected(C, L, index, n) ==
  /\ C[0] = [idx |-> index, path |-> <<>>]
  /\ \A k \in 1 .. n : C[k] = Collect(C[k - 1], L[k - 1])

\* The recursion of Prove defines the walk that collects the siblings.
LEMMA ProveFacts ==
  ASSUME NEW leaves, NEW n, Shape(leaves, n), NEW index, NEW L, L = Levels(leaves)
  PROVE  \E C : /\ Collected(C, L, index, n)
                /\ Prove(leaves, index) = [index |-> index, count |-> n, siblings |-> C[n].path]
<1>1. n \in Nat /\ Len(leaves) = n
  BY DEF Shape
<1> DEFINE start == [idx |-> index, path |-> <<>>]
           C == CHOOSE g : UpsOf(g, start, L, n)
<1>2. UpsOf(C, start, L, n)
  <2> HIDE DEF start
  <2> QED BY <1>1, UpsExist
<1>3. Prove(leaves, index) = [index |-> index, count |-> n, siblings |-> C[n].path]
  BY <1>1 DEF Prove, UpsOf
<1> HIDE DEF C, start
<1>4. C[0] = start /\ \A k \in 1 .. n : C[k] = Collect(C[k - 1], L[k - 1])
  <2>1. 0 \in 0 .. n /\ \A k \in 1 .. n : k \in 0 .. n /\ k # 0
    BY <1>1
  <2> QED BY <1>2, <2>1 DEF UpsOf
<1> QED BY <1>3, <1>4 DEF start, Collected

\* The first Len(q) entries of p are those of q.
Continues(p, q) == Len(q) <= Len(p) /\ \A i \in 1 .. Len(q) : p[i] = q[i]

\* The siblings that a level can give.
Gives(l, S) == \A i \in DOMAIN l : \A b \in BOOLEAN : [hash |-> l[i], right |-> b] \in S

\* One level of prove: a sibling is due where verify_inclusion wants one.
LEMMA CollectFacts ==
  ASSUME NEW c, NEW l, NEW m, NEW S, Shape(l, m), Gives(l, S),
         c.idx \in 0 .. m - 1, c.path \in Seq(S)
  PROVE  /\ Collect(c, l).idx = c.idx \div 2 /\ Collect(c, l).path \in Seq(S)
         /\ Continues(Collect(c, l).path, c.path)
         /\ m <= 1 \/ Promoted(c.idx, m) => Collect(c, l).path = c.path
         /\ ~(m <= 1) /\ ~Promoted(c.idx, m) =>
              \E s \in S : /\ Collect(c, l).path = Append(c.path, s)
                           /\ s.right = (c.idx % 2 = 0)
                           /\ \A acc : acc = l[c.idx + 1] =>
                                Joined(acc, s) = Parents(l)[c.idx \div 2 + 1]
<1>1. m \in Nat \ {0} /\ Len(l) = m /\ DOMAIN l = 1 .. m
  BY DEF Shape
<1>2. Len(c.path) \in Nat /\ DOMAIN c.path = 1 .. Len(c.path)
  BY LenProperties
<1>3. Collect(c, l).idx = c.idx \div 2
  BY DEF Collect
<1>4. CASE m <= 1 \/ Promoted(c.idx, m)
  <2>1. Collect(c, l).path = c.path
    BY <1>1, <1>4 DEF Collect
  <2> QED BY <1>2, <1>3, <1>4, <2>1 DEF Continues
<1>5. CASE ~(m <= 1) /\ ~Promoted(c.idx, m)
  <2>1. CASE c.idx % 2 = 0
    <3> DEFINE s == [hash |-> l[c.idx + 2], right |-> TRUE]
    <3>1. c.idx + 2 \in 1 .. m /\ Parents(l)[c.idx \div 2 + 1] = NodeHash(l[c.idx + 1], l[c.idx + 2])
      BY <1>5, <2>1, ParentsOf
    <3>2. s \in S
      BY <1>1, <3>1 DEF Gives
    <3>3. Collect(c, l).path = Append(c.path, s)
      BY <1>1, <1>5, <2>1 DEF Collect
    <3>4. \A acc : Joined(acc, s) = NodeHash(acc, l[c.idx + 2])
      BY DEF Joined
    <3>5. s.right = (c.idx % 2 = 0)
      BY <2>1
    <3> HIDE DEF s
    <3>6. Append(c.path, s) \in Seq(S) /\ Continues(Append(c.path, s), c.path)
      BY <1>2, <3>2, AppendProperties DEF Continues
    <3> QED BY <1>3, <1>5, <3>1, <3>2, <3>3, <3>4, <3>5, <3>6
  <2>2. CASE c.idx % 2 # 0
    <3> DEFINE s == [hash |-> l[c.idx], right |-> FALSE]
    <3>1. c.idx \in 1 .. m /\ Parents(l)[c.idx \div 2 + 1] = NodeHash(l[c.idx], l[c.idx + 1])
      BY <1>5, <2>2, ParentsOf
    <3>2. s \in S
      BY <1>1, <3>1 DEF Gives
    <3>3. Collect(c, l).path = Append(c.path, s)
      BY <1>1, <1>5, <2>2 DEF Collect
    <3>4. \A acc : Joined(acc, s) = NodeHash(l[c.idx], acc)
      BY DEF Joined
    <3>5. s.right = (c.idx % 2 = 0)
      BY <2>2
    <3> HIDE DEF s
    <3>6. Append(c.path, s) \in Seq(S) /\ Continues(Append(c.path, s), c.path)
      BY <1>2, <3>2, AppendProperties DEF Continues
    <3> QED BY <1>3, <1>5, <3>1, <3>2, <3>3, <3>4, <3>5, <3>6
  <2> QED BY <2>1, <2>2
<1> QED BY <1>4, <1>5

\* Prove and verify_inclusion are at the same digest of the tree.
Abreast(w, c, l, S) ==
  \E m : /\ Shape(l, m) /\ c.idx \in 0 .. m - 1 /\ c.path \in Seq(S)
         /\ w = At(l[c.idx + 1], Len(c.path), c.idx, m)

\* Given the siblings that prove collects, verify_inclusion stays beside it.
LEMMA ClimbAbreast ==
  ASSUME NEW w, NEW c, NEW l, NEW S, NEW path, Abreast(w, c, l, S), Gives(l, S),
         Continues(path, Collect(c, l).path)
  PROVE  Abreast(Climb(w, path), Collect(c, l), Parents(l), S)
<1>1. PICK m : /\ Shape(l, m) /\ c.idx \in 0 .. m - 1 /\ c.path \in Seq(S)
               /\ w = At(l[c.idx + 1], Len(c.path), c.idx, m)
  BY DEF Abreast
<1>2. m \in Nat \ {0}
  BY <1>1 DEF Shape
<1>3. PICK d : d = Collect(c, l)
  OBVIOUS
<1>4. /\ d.idx = c.idx \div 2 /\ d.path \in Seq(S)
      /\ m <= 1 \/ Promoted(c.idx, m) => d.path = c.path
      /\ ~(m <= 1) /\ ~Promoted(c.idx, m) =>
           \E s \in S : /\ d.path = Append(c.path, s)
                        /\ s.right = (c.idx % 2 = 0)
                        /\ \A acc : acc = l[c.idx + 1] =>
                             Joined(acc, s) = Parents(l)[c.idx \div 2 + 1]
  BY <1>1, <1>3, CollectFacts
<1>5. PICK p : p = Parents(l)
  OBVIOUS
<1>6. /\ Shape(p, (m + 1) \div 2) /\ c.idx \div 2 \in 0 .. ((m + 1) \div 2) - 1
      /\ Promoted(c.idx, m) => p[c.idx \div 2 + 1] = l[c.idx + 1]
  BY <1>1, <1>5, ParentsOf
<1>7. Climb(w, path) = At(p[d.idx + 1], Len(d.path), d.idx, (m + 1) \div 2)
  <2>1. CASE m <= 1
    <3>1. Climb(w, path) = w
      BY <1>1, <2>1, ClimbAtTop
    <3>2. m = 1 /\ c.idx = 0 /\ c.idx \div 2 = 0 /\ (m + 1) \div 2 = 1 /\ Promoted(c.idx, m)
      BY <1>1, <1>2, <2>1 DEF Promoted
    <3> QED BY <1>1, <1>4, <1>6, <2>1, <3>1, <3>2
  <2>2. CASE ~(m <= 1) /\ Promoted(c.idx, m)
    <3>1. Climb(w, path) = At(l[c.idx + 1], Len(c.path), c.idx \div 2, (m + 1) \div 2)
      BY <1>1, <2>2, ClimbPromoted
    <3> QED BY <1>4, <1>6, <2>2, <3>1
  <2>3. CASE ~(m <= 1) /\ ~Promoted(c.idx, m)
    <3>1. PICK s \in S : /\ d.path = Append(c.path, s)
                         /\ s.right = (c.idx % 2 = 0)
                         /\ Joined(l[c.idx + 1], s) = p[c.idx \div 2 + 1]
      BY <1>4, <1>5, <2>3
    <3>2. /\ Len(c.path) \in Nat /\ Len(d.path) = Len(c.path) + 1
          /\ d.path[Len(c.path) + 1] = s
      BY <1>1, <3>1, AppendProperties, LenProperties
    <3>3. Len(c.path) + 1 <= Len(path) /\ path[Len(c.path) + 1] = s
      BY <1>3, <3>2 DEF Continues
    <3>4. ~Refused(path, Len(c.path), c.idx)
      BY <3>1, <3>2, <3>3 DEF Refused
    <3>5. Climb(w, path) = At(Joined(l[c.idx + 1], path[Len(c.path) + 1]), Len(c.path) + 1,
                              c.idx \div 2, (m + 1) \div 2)
      BY <1>1, <2>3, <3>4, ClimbJoined
    <3> QED BY <1>4, <3>1, <3>2, <3>3, <3>5
  <2> QED BY <2>1, <2>2, <2>3
<1> QED BY <1>3, <1>4, <1>5, <1>6, <1>7 DEF Abreast

LEMMA ContinuesOn ==
  ASSUME NEW p, NEW q, NEW r, Len(p) \in Nat, Len(q) \in Nat, Len(r) \in Nat,
         Continues(p, q), Continues(q, r)
  PROVE  Continues(p, r)
<1>1. Len(r) <= Len(p)
  BY DEF Continues
<1>2. ASSUME NEW i \in 1 .. Len(r) PROVE p[i] = r[i]
  <2>1. i \in 1 .. Len(q)
    BY DEF Continues
  <2> QED BY <2>1 DEF Continues
<1> QED BY <1>1, <1>2 DEF Continues

\* prove for a leaf of the batch gives what verify_inclusion accepts.
LEMMA ProofIsComplete ==
  ASSUME NEW leaves, NEW n, Shape(leaves, n), NEW index \in 0 .. n - 1
  PROVE  /\ Prove(leaves, index).index = index /\ Prove(leaves, index).count = n
         /\ VerifyInclusion(leaves[index + 1], Prove(leaves, index), Root(leaves))
<1>1. n \in Nat \ {0} /\ Len(leaves) = n /\ DOMAIN leaves = 1 .. n
  BY DEF Shape
<1>2. PICK L : /\ L = Levels(leaves) /\ L[0] = leaves
               /\ \A k \in 1 .. n : L[k] = Parents(L[k - 1])
               /\ \A k \in 0 .. n : \E m : Shape(L[k], m) /\ (m = 1 \/ m <= n - k)
  BY LevelsFacts
<1>3. Root(leaves) = L[n][1]
  <2>1. leaves # <<>>
    BY <1>1
  <2> QED BY <1>1, <1>2, <2>1 DEF Root
<1>4. PICK C : /\ Collected(C, L, index, n)
               /\ Prove(leaves, index) = [index |-> index, count |-> n, siblings |-> C[n].path]
  BY <1>2, ProveFacts
<1>5. PICK proof : proof = Prove(leaves, index)
  OBVIOUS
<1>6. proof.index = index /\ proof.count = n /\ proof.siblings = C[n].path
  BY <1>4, <1>5
<1> DEFINE S == {[hash |-> L[k][i], right |-> b] : k \in 0 .. n, i \in 1 .. n, b \in BOOLEAN}
<1>7. ASSUME NEW k \in 0 .. n PROVE Gives(L[k], S)
  <2>1. PICK m : Shape(L[k], m) /\ (m = 1 \/ m <= n - k)
    BY <1>2
  <2>2. \A i \in DOMAIN L[k] : i \in 1 .. n
    BY <1>1, <2>1 DEF Shape
  <2> QED BY <2>2 DEF Gives
<1> HIDE DEF S
<1> DEFINE Climbs(k) == \E m : Shape(L[k], m) /\ C[k].idx \in 0 .. m - 1 /\ C[k].path \in Seq(S)
           T == {k \in 0 .. n : Climbs(k)}
<1>8. \A k \in 0 .. n : Climbs(k)
  <2>1. 0 \in T
    <3>1. C[0].idx = index /\ C[0].path = <<>>
      BY <1>4 DEF Collected
    <3>2. <<>> \in Seq(S)
      BY EmptySeq
    <3>3. Shape(L[0], n) /\ C[0].idx \in 0 .. n - 1 /\ C[0].path \in Seq(S)
      BY <1>2, <3>1, <3>2
    <3>4. Climbs(0)
      BY <3>3
    <3>5. 0 \in 0 .. n
      BY <1>1
    <3> QED BY <3>4, <3>5
  <2>2. ASSUME NEW k \in 1 .. n, k - 1 \in T PROVE k \in T
    <3>1. k - 1 \in 0 .. n /\ k \in 0 .. n
      BY <1>1
    <3>2. PICK m : Shape(L[k - 1], m) /\ C[k - 1].idx \in 0 .. m - 1 /\ C[k - 1].path \in Seq(S)
      BY <2>2
    <3>3. Collect(C[k - 1], L[k - 1]).idx = C[k - 1].idx \div 2
          /\ Collect(C[k - 1], L[k - 1]).path \in Seq(S)
      BY <1>7, <3>1, <3>2, CollectFacts
    <3>4. /\ Shape(Parents(L[k - 1]), (m + 1) \div 2)
          /\ C[k - 1].idx \div 2 \in 0 .. ((m + 1) \div 2) - 1
      BY <3>2, ParentsOf
    <3>5. C[k] = Collect(C[k - 1], L[k - 1]) /\ L[k] = Parents(L[k - 1])
      BY <1>2, <1>4 DEF Collected
    <3>6. Climbs(k)
      BY <3>3, <3>4, <3>5
    <3> QED BY <3>1, <3>6
  <2>3. \A k \in 0 .. n : k \in T
    <3> HIDE DEF T
    <3> QED BY <1>1, <2>1, <2>2, Upwards
  <2> QED BY <2>3
<1> DEFINE U == {k \in 0 .. n : Continues(C[n].path, C[k].path)}
<1>9. \A k \in 0 .. n : Continues(C[n].path, C[k].path)
  <2>1. n \in U
    <3>1. n \in 0 .. n
      BY <1>1
    <3>2. Len(C[n].path) \in Nat
      BY <1>8, <3>1, LenProperties
    <3> QED BY <3>1, <3>2 DEF Continues
  <2>2. ASSUME NEW k \in 1 .. n, k \in U PROVE k - 1 \in U
    <3>1. k - 1 \in 0 .. n /\ k \in 0 .. n
      BY <1>1
    <3>2. PICK m : Shape(L[k - 1], m) /\ C[k - 1].idx \in 0 .. m - 1 /\ C[k - 1].path \in Seq(S)
      BY <1>8, <3>1
    <3>3. Continues(Collect(C[k - 1], L[k - 1]).path, C[k - 1].path)
      BY <1>7, <3>1, <3>2, CollectFacts
    <3>4. Continues(C[k].path, C[k - 1].path)
      BY <1>4, <3>3 DEF Collected
    <3>5. Continues(C[n].path, C[k].path)
      BY <2>2
    <3>6. Len(C[k].path) \in Nat /\ Len(C[k - 1].path) \in Nat /\ Len(C[n].path) \in Nat
      BY <1>1, <1>8, <3>1, LenProperties
    <3>7. Continues(C[n].path, C[k - 1].path)
      BY <3>4, <3>5, <3>6, ContinuesOn
    <3> QED BY <3>1, <3>7
  <2>3. \A k \in 0 .. n : k \in U
    <3> HIDE DEF U
    <3> QED BY <1>1, <2>1, <2>2, Downwards
  <2> QED BY <2>3
<1>10. PICK W : /\ Walked(W, leaves[index + 1], proof, n)
                /\ VerifyInclusion(leaves[index + 1], proof, Root(leaves))
                   <=> Ends(W[n], proof, n, Root(leaves))
  BY <1>1, <1>6, VerifyFacts
<1> DEFINE V == {k \in 0 .. n : Abreast(W[k], C[k], L[k], S)}
<1>11. \A k \in 0 .. n : Abreast(W[k], C[k], L[k], S)
  <2>1. 0 \in V
    <3>1. C[0].idx = index /\ C[0].path = <<>>
      BY <1>4 DEF Collected
    <3>2. <<>> \in Seq(S) /\ Len(<<>>) = 0
      BY EmptySeq
    <3>3. W[0] = At(leaves[index + 1], 0, index, n)
      BY <1>6, <1>10 DEF Walked
    <3>4. Abreast(W[0], C[0], L[0], S)
      BY <1>2, <3>1, <3>2, <3>3 DEF Abreast
    <3>5. 0 \in 0 .. n
      BY <1>1
    <3> QED BY <3>4, <3>5
  <2>2. ASSUME NEW k \in 1 .. n, k - 1 \in V PROVE k \in V
    <3>1. k - 1 \in 0 .. n /\ k \in 0 .. n
      BY <1>1
    <3>2. C[k] = Collect(C[k - 1], L[k - 1]) /\ L[k] = Parents(L[k - 1])
          /\ W[k] = Climb(W[k - 1], proof.siblings)
      BY <1>2, <1>4, <1>10 DEF Collected, Walked
    <3>3. Continues(proof.siblings, Collect(C[k - 1], L[k - 1]).path)
      BY <1>6, <1>9, <3>1, <3>2
    <3>4. Abreast(W[k - 1], C[k - 1], L[k - 1], S) /\ Gives(L[k - 1], S)
      BY <1>7, <2>2, <3>1
    <3>5. Abreast(Climb(W[k - 1], proof.siblings), Collect(C[k - 1], L[k - 1]),
                  Parents(L[k - 1]), S)
      BY <3>3, <3>4, ClimbAbreast
    <3> QED BY <3>1, <3>2, <3>5
  <2>3. \A k \in 0 .. n : k \in V
    <3> HIDE DEF V
    <3> QED BY <1>1, <2>1, <2>2, Upwards
  <2> QED BY <2>3
<1>12. Ends(W[n], proof, n, Root(leaves))
  <2>1. n \in 0 .. n
    BY <1>1
  <2>2. PICK m : /\ Shape(L[n], m) /\ C[n].idx \in 0 .. m - 1 /\ C[n].path \in Seq(S)
                 /\ W[n] = At(L[n][C[n].idx + 1], Len(C[n].path), C[n].idx, m)
    BY <1>11, <2>1 DEF Abreast
  <2>3. PICK j : Shape(L[n], j) /\ (j = 1 \/ j <= n - n)
    BY <1>2, <2>1
  <2>4. C[n].idx = 0
    BY <1>1, <2>2, <2>3 DEF Shape
  <2>5. W[n].ok /\ W[n].acc = L[n][1] /\ W[n].used = Len(C[n].path)
    BY <2>2, <2>4 DEF At
  <2>6. n > 0 /\ index < n
    BY <1>1
  <2> QED BY <1>3, <1>6, <2>5, <2>6 DEF Ends
<1> QED BY <1>5, <1>6, <1>10, <1>12

\* The leaves of TreeExact.
LEMMA BatchShape ==
  ASSUME NEW n \in Nat \ {0}
  PROVE  Shape(Batch(n), n) /\ \A i \in 1 .. n : Batch(n)[i] = <<"leaf", <<i>>>>
<1>1. Batch(n) = [i \in 1 .. n |-> Batch(n)[i]]
  BY DEF Batch
<1>2. Shape(Batch(n), n)
  BY <1>1, FunctionLength DEF Shape
<1> QED BY <1>2 DEF Batch, LeafHash

LEMMA EveryLeafProved == TreeProves
<1> SUFFICES ASSUME NEW n \in 1 .. MaxTree, NEW i \in 1 .. n
             PROVE  VerifyInclusion(Batch(n)[i], Prove(Batch(n), i - 1), Root(Batch(n)))
  BY DEF TreeProves
<1>1. n \in Nat \ {0} /\ i - 1 \in 0 .. n - 1 /\ (i - 1) + 1 = i
  BY TreeAssumption
<1>2. Shape(Batch(n), n)
  BY <1>1, BatchShape
<1> QED BY <1>1, <1>2, ProofIsComplete

LEMMA NoForgery == NothingForged
<1> SUFFICES ASSUME NEW n \in 1 .. MaxForged, NEW d \in Preimages(n), NEW i \in 0 .. n - 1,
                    NEW len \in 0 .. 3, NEW path \in Paths(n, len),
                    VerifyInclusion(LeafHash(d), [index |-> i, count |-> n, siblings |-> path],
                                    Root(Batch(n)))
             PROVE  d = <<i + 1>>
  BY DEF NothingForged
<1>1. PICK proof : proof = [index |-> i, count |-> n, siblings |-> path]
  OBVIOUS
<1>2. n \in Nat \ {0} /\ i \in Nat /\ i + 1 \in 1 .. n /\ proof.count = n /\ proof.index = i
  BY <1>1, TreeAssumption
<1>3. Shape(Batch(n), n) /\ Batch(n)[i + 1] = <<"leaf", <<i + 1>>>>
  BY <1>2, BatchShape
<1>4. VerifyInclusion(LeafHash(d), proof, Root(Batch(n)))
  BY <1>1
<1>5. proof.index \in Nat
  BY <1>2
<1>6. LeafHash(d) = Batch(n)[proof.index + 1]
  BY <1>2, <1>3, <1>4, <1>5, ProofIsSound
<1> QED BY <1>2, <1>3, <1>6 DEF LeafHash

\* "A leaf can never be replayed as an interior node and a proof only ever
\* verifies at the exact depth": TreeProves and NothingForged, for trees and
\* paths of every size that MaxTree and MaxForged allow.
THEOREM TreeExactAlways == NotarySpec => []TreeExact
<1>1. TreeProves /\ NothingForged
  BY EveryLeafProved, NoForgery
<1>2. TreeExact
  BY <1>1 DEF TreeExact
<1> QED BY <1>2, PTL

-----------------------------------------------------------------------------
(* The notary                                                              *)

\* A root as sign_root leaves it.
RootOf(batch, data, before, s) ==
  [batch |-> batch, hash |-> Root(Leaves(data)), count |-> Len(data), prev |-> before,
   algorithm |-> s.algorithm, signer |-> <<s.key>>,
   signature |-> <<s.key, <<batch, Root(Leaves(data)), Len(data), before, s.algorithm>>>>]

Sealed(b) ==
  /\ Len(b.data) \in Nat /\ DOMAIN b.data = 1 .. Len(b.data)
  /\ \E batch, before : \E s \in RootSigners : b.root = RootOf(batch, b.data, before, s)

NotaryInv ==
  /\ pending \in Seq(Observations \cup Events)
  /\ \E S : batches \in Seq(S)
  /\ \A i \in DOMAIN batches : Sealed(batches[i])

LEMMA LeavesFacts ==
  ASSUME NEW data, Len(data) \in Nat, DOMAIN data = 1 .. Len(data)
  PROVE  /\ Len(Leaves(data)) = Len(data)
         /\ Len(data) # 0 => Shape(Leaves(data), Len(data))
         /\ \A i \in 1 .. Len(data) : Leaves(data)[i] = LeafHash(data[i])
<1>1. Leaves(data) = [i \in 1 .. Len(data) |-> Leaves(data)[i]]
  BY DEF Leaves
<1>2. Len(Leaves(data)) = Len(data) /\ DOMAIN Leaves(data) = 1 .. Len(data)
  BY <1>1, FunctionLength
<1> QED BY <1>2 DEF Shape, Leaves

\* sign_root signs what canonical_root_bytes makes of all but the signature.
LEMMA SignedRootIs ==
  ASSUME NEW data, Len(data) \in Nat, DOMAIN data = 1 .. Len(data),
         NEW batch, NEW before, NEW s
  PROVE  SignedRoot(Unsigned(batch, Leaves(data), before), s) = RootOf(batch, data, before, s)
<1>1. Len(Leaves(data)) = Len(data)
  BY LeavesFacts
<1>2. PICK h : h = Root(Leaves(data))
  OBVIOUS
<1>3. Unsigned(batch, Leaves(data), before)
      = [batch |-> batch, hash |-> h, count |-> Len(data), prev |-> before,
         algorithm |-> "", signer |-> <<>>, signature |-> <<>>]
  BY <1>1, <1>2 DEF Unsigned
<1>4. PICK u : u = Unsigned(batch, Leaves(data), before)
  OBVIOUS
<1>5. PICK r : r = [u EXCEPT !.algorithm = s.algorithm]
  OBVIOUS
<1>6. r = [batch |-> batch, hash |-> h, count |-> Len(data), prev |-> before,
           algorithm |-> s.algorithm, signer |-> <<>>, signature |-> <<>>]
  <2>1. PICK a, n : a = s.algorithm /\ n = Len(data)
    OBVIOUS
  <2>2. u = [batch |-> batch, hash |-> h, count |-> n, prev |-> before,
             algorithm |-> "", signer |-> <<>>, signature |-> <<>>]
    BY <1>3, <1>4, <2>1
  <2>3. [u EXCEPT !.algorithm = a]
        = [batch |-> batch, hash |-> h, count |-> n, prev |-> before,
           algorithm |-> a, signer |-> <<>>, signature |-> <<>>]
    <3>1. PICK x, e : x = "" /\ e = <<>>
      OBVIOUS
    <3>2. u = [batch |-> batch, hash |-> h, count |-> n, prev |-> before,
               algorithm |-> x, signer |-> e, signature |-> e]
      BY <2>2, <3>1
    <3>3. [u EXCEPT !.algorithm = a]
          = [batch |-> batch, hash |-> h, count |-> n, prev |-> before,
             algorithm |-> a, signer |-> e, signature |-> e]
      BY <3>2
    <3> QED BY <3>1, <3>3
  <2> QED BY <1>5, <2>1, <2>3
<1>7. Canonical(r) = <<batch, h, Len(data), before, s.algorithm>>
  BY <1>6 DEF Canonical
<1>8. SignedRoot(u, s) = [r EXCEPT !.signer = <<s.key>>, !.signature = <<s.key, Canonical(r)>>]
  BY <1>5 DEF SignedRoot
<1> QED BY <1>2, <1>4, <1>6, <1>7, <1>8 DEF RootOf

\* seal and renotarize alike append a batch whose root is signed over its data.
LEMMA AppendSealed ==
  ASSUME NotaryInv, NEW data, Len(data) \in Nat, DOMAIN data = 1 .. Len(data),
         NEW batch, NEW before, NEW s \in RootSigners,
         batches' = Append(batches, [root |-> SignedRoot(Unsigned(batch, Leaves(data), before), s),
                                     data |-> data]),
         pending' \in Seq(Observations \cup Events)
  PROVE  NotaryInv'
<1>1. PICK S : batches \in Seq(S)
  BY DEF NotaryInv
<1>2. PICK x : x = [root |-> RootOf(batch, data, before, s), data |-> data]
  OBVIOUS
<1>3. Sealed(x)
  BY <1>2 DEF Sealed
<1>4. batches' = Append(batches, x)
  BY <1>2, SignedRootIs
<1>5. PICK T : T = S \cup {x}
  OBVIOUS
<1>6. batches \in Seq(T) /\ x \in T
  BY <1>1, <1>5
<1>7. PICK old : old = batches
  OBVIOUS
<1>8. /\ Append(old, x) \in Seq(T) /\ Len(old) \in Nat /\ DOMAIN old = 1 .. Len(old)
      /\ DOMAIN Append(old, x) = 1 .. Len(old) + 1
      /\ \A i \in 1 .. Len(old) : Append(old, x)[i] = old[i]
      /\ Append(old, x)[Len(old) + 1] = x
  BY <1>6, <1>7, AppendProperties, LenProperties
<1>9. \A i \in DOMAIN old : Sealed(old[i])
  BY <1>7 DEF NotaryInv
<1>10. \A i \in DOMAIN Append(old, x) : Sealed(Append(old, x)[i])
  <2> SUFFICES ASSUME NEW i \in DOMAIN Append(old, x) PROVE Sealed(Append(old, x)[i])
    OBVIOUS
  <2>1. i \in DOMAIN old \/ i = Len(old) + 1
    BY <1>8
  <2> QED BY <1>3, <1>8, <1>9, <2>1
<1>11. batches' = Append(old, x)
  BY <1>4, <1>7
<1> QED BY <1>8, <1>10, <1>11 DEF NotaryInv

LEMMA NotaryStep == NotaryInv /\ [NotaryNext]_notaryVars => NotaryInv'
<1> SUFFICES ASSUME NotaryInv, [NotaryNext]_notaryVars PROVE NotaryInv'
  OBVIOUS
<1>0. pending \in Seq(Observations \cup Events)
  BY DEF NotaryInv
<1>1. CASE pending' \in Seq(Observations \cup Events) /\ batches' = batches
  BY <1>1 DEF NotaryInv
<1>2. ASSUME NEW d \in Observations \cup Events, Accept(d) PROVE NotaryInv'
  <2>1. Append(pending, d) \in Seq(Observations \cup Events)
    BY <1>0, AppendProperties
  <2> QED BY <1>1, <1>2, <2>1 DEF Accept
<1>3. ASSUME NEW s \in RootSigners, Seal(s) PROVE NotaryInv'
  <2>1. PICK data : data = pending
    OBVIOUS
  <2>2. Len(data) \in Nat /\ DOMAIN data = 1 .. Len(data)
    BY <1>0, <2>1, LenProperties
  <2>3. PICK batch, before : batch = nextId /\ before = prev
    OBVIOUS
  <2>4. batches' = Append(batches, [root |-> SignedRoot(Unsigned(batch, Leaves(data), before), s),
                                    data |-> data])
    BY <1>3, <2>1, <2>3 DEF Seal
  <2>5. pending' \in Seq(Observations \cup Events)
    BY <1>3, EmptySeq DEF Seal
  <2> QED BY <2>2, <2>4, <2>5, AppendSealed
<1>4. ASSUME NEW to \in 0 .. Len(batches), NEW s \in RootSigners, NEW from \in 1 .. to + 1,
             Renotarize(from, to, s)
      PROVE  NotaryInv'
  <2>1. PICK slice : slice = SubSeq(batches, from, to)
    OBVIOUS
  <2>2. PICK S : batches \in Seq(S)
    BY DEF NotaryInv
  <2>3. slice \in Seq(S)
    <3>1. PICK bs \in Seq(S) : bs = batches
      BY <2>2
    <3>2. Len(bs) \in Nat /\ to \in 0 .. Len(bs) /\ from \in 1 .. Len(bs) + 1 /\ from \in 1 .. to + 1
      BY <3>1, LenProperties
    <3> QED BY <2>1, <3>1, <3>2, SubSeqProperties
  <2>4. Len(slice) \in Nat /\ DOMAIN slice = 1 .. Len(slice)
    BY <2>3, LenProperties
  <2>5. PICK data : data = [i \in DOMAIN slice |-> Canonical(slice[i].root)]
    OBVIOUS
  <2>6. Len(data) = Len(slice) /\ DOMAIN data = 1 .. Len(slice)
    <3>1. data = [i \in 1 .. Len(slice) |-> data[i]]
      BY <2>4, <2>5
    <3> QED BY <2>4, <3>1, FunctionLength
  <2>7. PICK before : before = IF slice = <<>> THEN <<>> ELSE <<slice[Len(slice)].root.hash>>
    OBVIOUS
  <2>8. batches' = Append(batches, [root |-> SignedRoot(Unsigned(to, Leaves(data), before), s),
                                    data |-> data])
        /\ pending' = pending
    BY <1>4, <2>1, <2>5, <2>7 DEF Renotarize
  <2> QED BY <1>0, <2>4, <2>6, <2>8, AppendSealed
<1>5. ASSUME Restart PROVE NotaryInv'
  BY <1>1, <1>5, EmptySeq DEF Restart
<1>6. CASE UNCHANGED notaryVars
  BY <1>0, <1>1, <1>6 DEF notaryVars
<1> QED BY <1>2, <1>3, <1>4, <1>5, <1>6 DEF NotaryNext

\* The invariant holds in every reachable state of the notary.
THEOREM NotaryInvariant == NotarySpec => []NotaryInv
<1>1. NotaryInit => NotaryInv
  <2> SUFFICES ASSUME NotaryInit PROVE NotaryInv
    OBVIOUS
  <2>1. pending = <<>> /\ batches = <<>>
    BY DEF NotaryInit
  <2>2. <<>> \in Seq(Observations \cup Events) /\ <<>> \in Seq({}) /\ DOMAIN <<>> = {}
    BY EmptySeq
  <2> QED BY <2>1, <2>2 DEF NotaryInv
<1> QED BY <1>1, NotaryStep, PTL DEF NotarySpec

LEMMA ProofParts ==
  ASSUME NEW p \in Proofs
  PROVE  p.index \in Nat /\ p.count \in Nat \ {0}
<1>1. PICK i \in DOMAIN batches :
        p \in {Moved(Prove(Leaves(batches[i].data), j), k, n) :
                 j \in 0 .. Len(batches[i].data) - 1, k \in 0 .. MaxLeaves, n \in 1 .. MaxLeaves}
  BY DEF Proofs
<1>2. PICK data : data = batches[i].data
  OBVIOUS
<1>3. PICK j \in 0 .. Len(data) - 1, k \in 0 .. MaxLeaves, n \in 1 .. MaxLeaves :
        p = Moved(Prove(Leaves(data), j), k, n)
  BY <1>1, <1>2
<1>4. {"index", "count"} \subseteq DOMAIN Prove(Leaves(data), j)
  BY DEF Prove
<1>5. p.index = k /\ p.count = n
  BY <1>3, <1>4 DEF Moved
<1> QED BY <1>5, NotaryAssumption

\* However roots and proofs are combined: the signature fixes the leaf count, the
\* count fixes the shape of the tree, and hashes do the rest.
LEMMA SoundFromInv ==
  ASSUME NotaryInv
  PROVE  BundleSound
<1> SUFFICES ASSUME NEW s \in RootSigners, NEW b \in Bundles, VerifyBundle(b, s.algorithm, s.key)
             PROVE  \E i \in DOMAIN batches :
                      /\ batches[i].root = b.root
                      /\ Len(batches[i].data) = b.proof.count
                      /\ batches[i].data[b.proof.index + 1] = b.observation
  BY DEF BundleSound
<1>1. PICK o \in Observations \cup Events, p \in Proofs, r \in Roots :
        b = [observation |-> o, leaf |-> LeafHash(o), proof |-> p, root |-> r]
  BY DEF Bundles
<1>2. PICK i \in DOMAIN batches, n \in 0 .. MaxLeaves :
        r = [batches[i].root EXCEPT !.count = n]
  BY DEF Roots
<1>3. PICK data, q : data = batches[i].data /\ q = batches[i].root
  OBVIOUS
<1>4. Sealed(batches[i])
  BY DEF NotaryInv
<1>5. Len(data) \in Nat /\ DOMAIN data = 1 .. Len(data)
  BY <1>3, <1>4 DEF Sealed
<1>6. PICK batch, before, t : q = RootOf(batch, data, before, t)
  BY <1>3, <1>4 DEF Sealed
<1>7. PICK h : h = Root(Leaves(data))
  OBVIOUS
<1>8. q = [batch |-> batch, hash |-> h, count |-> Len(data), prev |-> before,
           algorithm |-> t.algorithm, signer |-> <<t.key>>,
           signature |-> <<t.key, <<batch, h, Len(data), before, t.algorithm>>>>]
  BY <1>6, <1>7 DEF RootOf
<1>9. r = [q EXCEPT !.count = n]
  BY <1>2, <1>3
<1>10. r = [batch |-> batch, hash |-> h, count |-> n, prev |-> before,
            algorithm |-> t.algorithm, signer |-> <<t.key>>,
            signature |-> <<t.key, <<batch, h, Len(data), before, t.algorithm>>>>]
  BY <1>8, <1>9
<1>11. /\ p.count = r.count /\ VerifyInclusion(LeafHash(o), p, r.hash)
       /\ r.signature = <<s.key, Canonical(r)>>
  BY <1>1 DEF VerifyBundle
<1>12. Canonical(r) = <<batch, h, n, before, t.algorithm>>
  BY <1>10 DEF Canonical
<1>13. n = Len(data)
  <2>1. <<t.key, <<batch, h, Len(data), before, t.algorithm>>>>
        = <<s.key, <<batch, h, n, before, t.algorithm>>>>
    BY <1>10, <1>11, <1>12
  <2> QED BY <2>1
<1>14. r = q /\ r.count = Len(data) /\ r.hash = Root(Leaves(data))
  BY <1>7, <1>8, <1>10, <1>13
<1>15. p.index \in Nat /\ p.count = Len(data) /\ Len(data) # 0
  BY <1>11, <1>14, ProofParts
<1>16. Shape(Leaves(data), Len(data))
  BY <1>5, <1>15, LeavesFacts
<1>17. p.index < Len(data) /\ LeafHash(o) = Leaves(data)[p.index + 1]
  <2>1. VerifyInclusion(LeafHash(o), p, Root(Leaves(data)))
    BY <1>11, <1>14
  <2> QED BY <1>15, <1>16, <2>1, ProofIsSound
<1>18. p.index + 1 \in 1 .. Len(data)
  BY <1>5, <1>15, <1>17
<1>19. LeafHash(o) = LeafHash(data[p.index + 1])
  BY <1>5, <1>17, <1>18, LeavesFacts
<1>20. data[p.index + 1] = o
  BY <1>19 DEF LeafHash
<1> QED BY <1>1, <1>3, <1>14, <1>15, <1>20

\* "Provably existed, unaltered, in the signed batch": for batches of any size, any
\* number of them, and any bundle put together from their parts.
THEOREM BundleSoundAlways == NotarySpec => []BundleSound
<1>1. NotaryInv => BundleSound
  BY SoundFromInv
<1> QED BY <1>1, NotaryInvariant, PTL

\* bundle_for finds the first leaf of an observation, and prove does the rest.
LEMMA CompleteFromInv ==
  ASSUME NotaryInv, NEW i \in DOMAIN batches
  PROVE  /\ \A o \in Observations :
              (\E j \in DOMAIN batches[i].data : batches[i].data[j] = o) =>
                /\ BundleFor(batches[i], o) # <<>>
                /\ VerifyBundle(BundleFor(batches[i], o)[1], batches[i].root.algorithm,
                                batches[i].root.signer[1])
         /\ \A k \in DOMAIN batches[i].data :
              VerifyInclusion(LeafHash(batches[i].data[k]),
                              Prove(Leaves(batches[i].data), k - 1), batches[i].root.hash)
<1>1. PICK b : b = batches[i]
  OBVIOUS
<1>2. PICK data, r : data = b.data /\ r = b.root
  OBVIOUS
<1>3. Sealed(b)
  BY <1>1 DEF NotaryInv
<1>4. Len(data) \in Nat /\ DOMAIN data = 1 .. Len(data)
  BY <1>2, <1>3 DEF Sealed
<1>5. PICK batch, before, t : r = RootOf(batch, data, before, t)
  BY <1>2, <1>3 DEF Sealed
<1>6. /\ r.hash = Root(Leaves(data)) /\ r.count = Len(data) /\ r.algorithm = t.algorithm
      /\ r.signer = <<t.key>> /\ r.signer[1] = t.key /\ r.signature = <<t.key, Canonical(r)>>
  BY <1>5 DEF RootOf, Canonical
<1>7. ASSUME NEW k \in 1 .. Len(data)
      PROVE  /\ Prove(Leaves(data), k - 1).count = Len(data)
             /\ VerifyInclusion(LeafHash(data[k]), Prove(Leaves(data), k - 1), r.hash)
  <2>1. Shape(Leaves(data), Len(data)) /\ Leaves(data)[k] = LeafHash(data[k])
    BY <1>4, LeavesFacts
  <2>2. k - 1 \in 0 .. Len(data) - 1 /\ (k - 1) + 1 = k
    BY <1>4
  <2>3. /\ Prove(Leaves(data), k - 1).count = Len(data)
        /\ VerifyInclusion(Leaves(data)[(k - 1) + 1], Prove(Leaves(data), k - 1), Root(Leaves(data)))
    BY <2>1, <2>2, ProofIsComplete
  <2> QED BY <1>6, <2>1, <2>2, <2>3
<1>8. ASSUME NEW o \in Observations, \E j \in DOMAIN data : data[j] = o
      PROVE  BundleFor(b, o) # <<>> /\ VerifyBundle(BundleFor(b, o)[1], r.algorithm, r.signer[1])
  <2> DEFINE at == {j \in DOMAIN data : data[j] = o}
             first == CHOOSE j \in at : \A m \in at : j <= m
  <2>1. at # {} /\ at \subseteq Nat
    BY <1>4, <1>8
  <2>2. first \in at
    <3> HIDE DEF at
    <3> QED BY <2>1, LeastNatural
  <2>3. PICK x : x = [observation |-> o, leaf |-> LeafHash(o),
                      proof |-> Prove(Leaves(data), first - 1), root |-> r]
    OBVIOUS
  <2>4. BundleFor(b, o) = <<x>>
    BY <1>2, <2>1, <2>3 DEF BundleFor
  <2>5. first \in 1 .. Len(data) /\ data[first] = o
    <3> HIDE DEF first
    <3> QED BY <1>4, <2>2
  <2>6. /\ Prove(Leaves(data), first - 1).count = Len(data)
        /\ VerifyInclusion(LeafHash(o), Prove(Leaves(data), first - 1), r.hash)
    <3> HIDE DEF first
    <3> QED BY <1>7, <2>5
  <2>7. VerifyBundle(x, r.algorithm, r.signer[1])
    <3> HIDE DEF first
    <3> QED BY <1>6, <2>3, <2>6 DEF VerifyBundle
  <2>8. <<x>> # <<>> /\ <<x>>[1] = x
    OBVIOUS
  <2> HIDE DEF at, first
  <2> QED BY <2>4, <2>7, <2>8
<1> QED BY <1>1, <1>2, <1>4, <1>7, <1>8

\* Every sealed observation has a bundle that verifies, whatever its place and the
\* restarts since, and every renotarised root a proof in the newer root.
THEOREM BundleCompleteAlways == NotarySpec => []BundleComplete
<1>1. NotaryInv => BundleComplete
  <2> SUFFICES ASSUME NotaryInv, NEW i \in DOMAIN batches
               PROVE  LET b == batches[i] IN
                      /\ \A o \in Observations :
                           (\E j \in DOMAIN b.data : b.data[j] = o) =>
                             /\ BundleFor(b, o) # <<>>
                             /\ VerifyBundle(BundleFor(b, o)[1], b.root.algorithm, b.root.signer[1])
                      /\ \A j \in 1 .. i - 1, k \in DOMAIN b.data :
                           b.data[k] = Canonical(batches[j].root) =>
                             VerifyInclusion(LeafHash(b.data[k]), Prove(Leaves(b.data), k - 1),
                                             b.root.hash)
    BY DEF BundleComplete
  <2>1. PICK b : b = batches[i]
    OBVIOUS
  <2>2. /\ \A o \in Observations :
             (\E j \in DOMAIN b.data : b.data[j] = o) =>
               /\ BundleFor(b, o) # <<>>
               /\ VerifyBundle(BundleFor(b, o)[1], b.root.algorithm, b.root.signer[1])
        /\ \A k \in DOMAIN b.data :
             VerifyInclusion(LeafHash(b.data[k]), Prove(Leaves(b.data), k - 1), b.root.hash)
    BY <2>1, CompleteFromInv
  <2> QED BY <2>1, <2>2
<1> QED BY <1>1, NotaryInvariant, PTL
=============================================================================
