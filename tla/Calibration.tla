----------------------------- MODULE Calibration -----------------------------
(***************************************************************************)
(* rucelium-calibration: the strict store of signed calibration records,   *)
(* whose lineages end at a factory or at a reference anchor, the           *)
(* calibrator that applies a record to a sample or refuses to, and the     *)
(* drift detector with its sticky quarantine.                              *)
(*                                                                         *)
(* Coefficients, hashes and values are left out.  A record's signer is the *)
(* key whose signature verifies over it, or NoSigner.  An EWMA is over the *)
(* threshold or it is not.                                                 *)
(***************************************************************************)
EXTENDS Naturals, FiniteSets

CONSTANTS Nodes, Modalities,
          Ids,              \* calibration ids; 0 is "uncalibrated"
          Signers,          \* ed25519 keys
          Trusted,          \* AuthorityRegistry: key -> modalities, {} for all
          NoSigner,         \* no signature, or one that does not verify
          ConfirmCount,     \* DriftConfig.confirm_count
          Colocated,        \* the nodes that have an anchor to be compared with
          MaxTime,          \* bound on the clock
          Offered           \* bound: the records anybody presents

None == 0       \* Option::None of a parent id

Time == 0 .. MaxTime

Record == [id : Ids, node : Nodes, modality : Modalities, anchored : BOOLEAN,
           parent : Ids \cup {None}, created : Time, expires : Time,
           signer : Signers \cup {NoSigner}]

\* A sample, as far as the calibrator looks: `fits` says that the corrected
\* sample passes its validation.
Sample == [node : Nodes, modality : Modalities, cal : Ids \cup {0}, fits : BOOLEAN]

ASSUME CalibrationAssumption ==
  /\ Ids \subseteq Nat \ {0}
  /\ DOMAIN Trusted \subseteq Signers /\ NoSigner \notin Signers
  /\ ConfirmCount \in Nat \ {0} /\ MaxTime \in Nat
  /\ Colocated \subseteq Nodes /\ Offered \subseteq Record

VARIABLES now,          \* the caller's clock
          records,      \* CalibrationStore.records: id -> record
          corrected,    \* the last samples that apply has returned, if any
          drift,        \* DriftDetector.nodes: node -> its monitor, if observed
          streak,       \* history: node -> observations in a row over the threshold
          peak          \* history: node -> the longest streak since reinstatement

vars == <<now, records, corrected, drift, streak, peak>>

States == {"Healthy", "Suspect", "Quarantined"}

TypeOK ==
  /\ now \in Time
  /\ \A i \in DOMAIN records : records[i] \in Record /\ records[i].id = i
  /\ \A c \in corrected : c.sample \in Sample /\ c.at \in Time
  /\ \A n \in DOMAIN drift : drift[n].state \in States /\ drift[n].over \in Nat
  /\ streak \in [Nodes -> Nat] /\ peak \in [Nodes -> Nat]

Init ==
  /\ now = 0
  /\ records = [i \in {} |-> 0] /\ corrected = {}
  /\ drift = [n \in {} |-> 0]
  /\ streak = [n \in Nodes |-> 0] /\ peak = [n \in Nodes |-> 0]

Tick == now < MaxTime /\ now' = now + 1 /\ UNCHANGED <<records, corrected, drift, streak, peak>>

-----------------------------------------------------------------------------
(* The store                                                               *)

\* Fault: a registered authority is trusted for every modality.
Authorised_AnyModality(r) == r.signer \in DOMAIN Trusted

\* check_authority in strict mode
Authorised(r) ==
  /\ r.signer \in DOMAIN Trusted
  /\ Trusted[r.signer] = {} \/ r.modality \in Trusted[r.signer]

\* insert: what is refused changes nothing.
Insert(r) ==
  /\ r.created < r.expires
  /\ Authorised(r)
  /\ r.id \notin DOMAIN records
  /\ IF r.parent = None THEN r.anchored ELSE r.parent \in DOMAIN records
  /\ records' = [i \in DOMAIN records \cup {r.id} |-> IF i = r.id THEN r ELSE records[i]]
  /\ UNCHANGED <<now, corrected, drift, streak, peak>>

Expired(r) == now >= r.expires

\* verify_lineage: the walk from id to its root.
LineageVerifies(id) ==
  LET n == Cardinality(DOMAIN records)
      up[k \in 0 .. n] == IF k = 0 THEN id
                          ELSE IF up[k - 1] \in DOMAIN records THEN records[up[k - 1]].parent
                          ELSE None
      chain == {up[k] : k \in 0 .. n} \ {None}
  IN
  /\ up[n] = None
  /\ chain \subseteq DOMAIN records
  /\ \A i \in chain : Authorised(records[i]) /\ (records[i].parent = None => records[i].anchored)

\* Fault: a record is still active at the instant it expires.
ActiveCandidates_Late(n, m) ==
  {i \in DOMAIN records : /\ records[i].node = n /\ records[i].modality = m
                          /\ now <= records[i].expires /\ LineageVerifies(i)}

ActiveCandidates(n, m) ==
  {i \in DOMAIN records : /\ records[i].node = n /\ records[i].modality = m
                          /\ ~Expired(records[i]) /\ LineageVerifies(i)}

\* active_for: the newest candidate, the highest id among equals; None if none.
ActiveFor(n, m) ==
  LET C == ActiveCandidates(n, m)
      Newer(i, j) == \/ records[i].created > records[j].created
                     \/ records[i].created = records[j].created /\ i >= j
  IN IF C = {} THEN None ELSE CHOOSE i \in C : \A j \in C : Newer(i, j)

-----------------------------------------------------------------------------
(* The calibrator                                                          *)

\* The verdict of Calibrator::apply, its checks in their order.
Verdict(s) ==
  IF s.cal = 0 THEN "Uncalibrated"
  ELSE IF s.cal \notin DOMAIN records THEN "UnknownRecord"
  ELSE LET r == records[s.cal] IN
       CASE r.node # s.node -> "WrongDevice"
         [] r.node = s.node /\ r.modality # s.modality -> "WrongModality"
         [] OTHER -> IF Expired(r) THEN "Expired"
                     ELSE IF ~LineageVerifies(s.cal) THEN "Lineage"
                     ELSE IF ~s.fits THEN "Invalid" ELSE "Applied"

\* apply: the sample comes back corrected, or as it was.
Apply(s) ==
  /\ corrected' = IF Verdict(s) = "Applied" THEN {[sample |-> s, at |-> now]} ELSE {}
  /\ UNCHANGED <<now, records, drift, streak, peak>>

-----------------------------------------------------------------------------
(* The drift detector                                                      *)

State(n) == IF n \in DOMAIN drift THEN drift[n].state ELSE "Healthy"

Monitored(n, m) ==
  drift' = [k \in DOMAIN drift \cup {n} |-> IF k = n THEN m ELSE drift[k]]

Longer(a, b) == IF a > b THEN a ELSE b

\* The histories of the residual stream.
Witness(n, over) ==
  /\ streak' = [streak EXCEPT ![n] = IF over THEN @ + 1 ELSE 0]
  /\ peak' = [peak EXCEPT ![n] = Longer(@, streak'[n])]

\* Fault: falling below the threshold does not end a streak.
Observe_Cumulative(n, over) ==
  LET count == IF n \in DOMAIN drift THEN drift[n].over ELSE 0 IN
  /\ streak[n] < ConfirmCount + 1
  /\ IF State(n) = "Quarantined" THEN UNCHANGED drift
     ELSE IF over
     THEN Monitored(n, [over |-> count + 1,
                        state |-> IF count + 1 >= ConfirmCount THEN "Quarantined" ELSE "Suspect"])
     ELSE Monitored(n, [over |-> count, state |-> "Healthy"])
  /\ Witness(n, over)
  /\ UNCHANGED <<now, records, corrected>>

\* observe, where `over` says that the new EWMA exceeds the threshold.
Observe(n, over) ==
  LET count == IF n \in DOMAIN drift THEN drift[n].over ELSE 0 IN
  /\ over => streak[n] < ConfirmCount + 1       \* bound
  /\ IF State(n) = "Quarantined" THEN UNCHANGED drift
     ELSE IF over
     THEN Monitored(n, [over |-> count + 1,
                        state |-> IF count + 1 >= ConfirmCount THEN "Quarantined" ELSE "Suspect"])
     ELSE Monitored(n, [over |-> 0, state |-> "Healthy"])
  /\ Witness(n, over)
  /\ UNCHANGED <<now, records, corrected>>

\* reinstate: the id must not be 0, and nothing looks it up in the store.
Reinstate(n, id) ==
  /\ id # 0 /\ State(n) = "Quarantined"
  /\ drift' = [k \in DOMAIN drift \ {n} |-> drift[k]]
  /\ streak' = [streak EXCEPT ![n] = 0] /\ peak' = [peak EXCEPT ![n] = 0]
  /\ UNCHANGED <<now, records, corrected>>

-----------------------------------------------------------------------------

Next ==
  \/ Tick
  \/ \E r \in Offered : Insert(r)
  \/ \E s \in Sample : Apply(s)
  \/ \E n \in Colocated, over \in BOOLEAN : Observe(n, over)
  \/ \E n \in Nodes, id \in Ids : Reinstate(n, id)

Spec == Init /\ [][Next]_vars

-----------------------------------------------------------------------------

\* Who may sign for a modality, by the operator's word.
Entitled(k, m) == k \in DOMAIN Trusted /\ (Trusted[k] = {} \/ m \in Trusted[k])

\* From record i a chain of records leads to an anchor, each signed by a key
\* entitled to its modality.
Traceable(i) ==
  \E k \in 1 .. Cardinality(DOMAIN records) : \E path \in [1 .. k -> DOMAIN records] :
    /\ path[1] = i
    /\ \A j \in 1 .. k : Entitled(records[path[j]].signer, records[path[j]].modality)
    /\ \A j \in 1 .. k - 1 : records[path[j]].parent = path[j + 1]
    /\ records[path[k]].parent = None /\ records[path[k]].anchored

\* "Anchor-rooted lineage": a sample is only ever corrected by a record made
\* for its device and modality that had not expired and is traceable.
CorrectionTraceable ==
  \A c \in corrected :
    LET i == c.sample.cal IN
    /\ i \in DOMAIN records
    /\ records[i].node = c.sample.node /\ records[i].modality = c.sample.modality
    /\ c.at < records[i].expires
    /\ Traceable(i)

\* active_for and apply agree: the record that one names for a device, the
\* other applies to a sample of that device that refers to it.
ActiveApplies ==
  \A n \in Nodes, m \in Modalities :
    ActiveFor(n, m) # None =>
      Verdict([node |-> n, modality |-> m, cal |-> ActiveFor(n, m), fits |-> TRUE]) = "Applied"

\* "Sticky": a node is quarantined exactly if, since it was first seen or
\* last reinstated, ConfirmCount observations in a row were over the threshold.
QuarantineExact ==
  \A n \in Nodes : State(n) = "Quarantined" <=> peak[n] >= ConfirmCount

\* The inductive strengthening of QuarantineExact: while a node is not
\* quarantined, its counter is the streak, which is too short to confirm.
DriftInv ==
  /\ DOMAIN drift \subseteq Nodes
  /\ \A n \in DOMAIN drift : drift[n].state \in States /\ drift[n].over \in Nat
  /\ streak \in [Nodes -> Nat] /\ peak \in [Nodes -> Nat]
  /\ \A n \in Nodes : streak[n] <= peak[n]
  /\ \A n \in Nodes : State(n) # "Quarantined" =>
       streak[n] = IF n \in DOMAIN drift THEN drift[n].over ELSE 0
  /\ QuarantineExact
=============================================================================
