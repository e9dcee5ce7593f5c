------------------------------- MODULE Gateway -------------------------------
(***************************************************************************)
(* The per-datagram pipeline of rucelium-gateway over its two durable      *)
(* stores: anti-replay windows, observation store, alert rule, biome       *)
(* admission, and what a restart rebuilds from disk.  Handlers run under   *)
(* the one lock and do not interleave, but the process may die between     *)
(* any two of their steps and an append may fail.                          *)
(*                                                                         *)
(* The stores are taken as DurableLog describes them: a set of keys that   *)
(* only grows.  Verification (Ingest), reassembly (Reassembly) and the     *)
(* peers (Federation) have modules of their own; calibration, drift, the   *)
(* WorldGraph and the counters do not decide what happens to a sample and  *)
(* are left out.                                                           *)
(***************************************************************************)
EXTENDS ReplayWindow, FiniteSets

CONSTANTS Nodes,        \* device identities
          MaxSeq,       \* bound: largest sequence number
          Alerting,     \* the samples that trip the local alert rule
          MaxFaults     \* bound: kind of failure -> how many in one behaviour

Seqs == 0 .. MaxSeq

Samples == Nodes \X Seqs

Fault == {"crash",      \* the process dies inside a handler
          "ioerror"}    \* an append returns Err

ASSUME GatewayAssumption ==
  /\ MaxSeq \in Nat
  /\ Alerting \subseteq Samples
  /\ MaxFaults \in [Fault -> Nat]

VARIABLES up,           \* the daemon runs
          registered,   \* memory: nodes in the DeviceRegistry
          revoked,      \* memory: the registered nodes whose record is revoked
          windows,      \* memory: node -> its anti-replay window
          todo,         \* memory: node -> keys prime_from_dedup has yet to insert
          biomeRevoked, \* memory: nodes in Biome.revoked
          admitted,     \* memory: samples in Biome.seen
          pc,           \* the step the current handler performs next
          current,      \* the sample, or <<node>> of a revocation, it works on
          known,        \* disk: dedup keys of the observation store
          alerts,       \* disk: samples that alert events cite
          revocations,  \* disk: nodes named by DeviceRevoked events
          passed,       \* history: node -> sequences let through in this life
          accepted,     \* history: sample -> how often it was Accepted
          faults        \* history: kind -> failures so far

memory == <<up, registered, revoked, windows, todo, biomeRevoked, admitted, pc, current>>
disk   == <<known, alerts, revocations>>
gvars  == <<memory, disk, passed, accepted, faults>>

Nothing == <<>>

Known(n) == {s \in Seqs : <<n, s>> \in known}

TypeOK ==
  /\ up \in BOOLEAN
  /\ registered \in SUBSET Nodes /\ revoked \in SUBSET registered
  /\ windows \in [Nodes -> Window]
  /\ todo \in [Nodes -> SUBSET Seqs]
  /\ biomeRevoked \in SUBSET Nodes
  /\ admitted \in SUBSET Samples
  /\ pc \in {"idle", "prime", "append", "alert", "admit", "revoke"}
  /\ current \in Samples \cup {<<n>> : n \in Nodes} \cup {Nothing}
  /\ known \in SUBSET Samples /\ alerts \in SUBSET Samples /\ revocations \in SUBSET Nodes
  /\ passed \in [Nodes -> SUBSET Seqs]
  /\ accepted \in [Samples -> Nat]
  /\ faults \in [Fault -> Nat] /\ \A k \in Fault : faults[k] <= MaxFaults[k]

\* A first start over empty directories.
Init ==
  /\ up = TRUE
  /\ registered = {} /\ revoked = {}
  /\ windows = [n \in Nodes |-> FreshWindow]
  /\ todo = [n \in Nodes |-> {}]
  /\ biomeRevoked = {} /\ admitted = {}
  /\ pc = "idle" /\ current = Nothing
  /\ known = {} /\ alerts = {} /\ revocations = {}
  /\ passed = [n \in Nodes |-> {}]
  /\ accepted = [k \in Samples |-> 0]
  /\ faults = [k \in Fault |-> 0]

Fail(kind) ==
  /\ faults[kind] < MaxFaults[kind]
  /\ faults' = [faults EXCEPT ![kind] = @ + 1]

-----------------------------------------------------------------------------
(* Administration                                                          *)

\* DeviceRegistry::register; the biome's own revocation list is not touched.
Register(n) ==
  /\ up /\ pc = "idle"
  /\ registered' = registered \cup {n}
  /\ revoked' = revoked \ {n}
  /\ UNCHANGED <<up, windows, todo, biomeRevoked, admitted, pc, current, disk,
                 passed, accepted, faults>>

\* admin_revoke: registry and biome at once ...
AdminRevoke(n) ==
  /\ up /\ pc = "idle"
  /\ revoked' = revoked \cup ({n} \cap registered)
  /\ biomeRevoked' = biomeRevoked \cup {n}
  /\ pc' = "revoke" /\ current' = <<n>>
  /\ UNCHANGED <<up, registered, windows, todo, admitted, disk, passed, accepted, faults>>

\* Fault: the event is announced but not stored.
AppendRevocation_Unstored ==
  /\ pc = "revoke"
  /\ pc' = "idle" /\ current' = Nothing
  /\ UNCHANGED <<up, registered, revoked, windows, todo, biomeRevoked, admitted,
                 disk, passed, accepted, faults>>

\* ... and the signed event, which the peers pick up, to the event store.
AppendRevocation ==
  /\ pc = "revoke"
  /\ revocations' = revocations \cup {current[1]}
  /\ pc' = "idle" /\ current' = Nothing
  /\ UNCHANGED <<up, registered, revoked, windows, todo, biomeRevoked, admitted,
                 known, alerts, passed, accepted, faults>>

\* events.append returns Err: the revocation stands at home, is not pushed, and
\* no backfill finds it.
AppendRevocationFails ==
  /\ pc = "revoke"
  /\ Fail("ioerror")
  /\ revocations' \in {revocations, revocations \cup {current[1]}}
  /\ pc' = "idle" /\ current' = Nothing
  /\ UNCHANGED <<up, registered, revoked, windows, todo, biomeRevoked, admitted,
                 known, alerts, passed, accepted>>

-----------------------------------------------------------------------------
(* ingest_v1                                                               *)

\* The checks before the window.
Verified(n, authentic) == n \in registered /\ n \notin revoked /\ authentic

\* A refused datagram changes nothing but counters.
RejectDatagram(n, s, authentic) ==
  /\ up /\ pc = "idle"
  /\ ~Verified(n, authentic) \/ Check(windows[n], s) # "Ok"
  /\ UNCHANGED gvars

PassWindow(n, s) ==
  /\ up /\ pc = "idle"
  /\ Verified(n, TRUE) /\ Check(windows[n], s) = "Ok"
  /\ windows' = [windows EXCEPT ![n] = Update(@, s)]
  /\ passed' = [passed EXCEPT ![n] = @ \cup {s}]
  /\ UNCHANGED <<up, registered, revoked, todo, biomeRevoked, admitted, disk,
                 accepted, faults>>

\* The device's clock is ahead: the sample fails EnvSample::validate after the
\* window has let it through.
RejectDomain(n, s) ==
  /\ PassWindow(n, s)
  /\ UNCHANGED <<pc, current>>

\* The sample goes on to the store.
Accept(n, s) ==
  /\ PassWindow(n, s)
  /\ pc' = "append" /\ current' = <<n, s>>

\* obs.append
AppendSample ==
  /\ pc = "append"
  /\ known' = known \cup {current}
  /\ pc' = "alert"
  /\ UNCHANGED <<up, registered, revoked, windows, todo, biomeRevoked, admitted,
                 current, alerts, revocations, passed, accepted, faults>>

\* Fault: a failed append is treated as a success.
AppendFails_Ignored ==
  /\ pc = "append"
  /\ Fail("ioerror")
  /\ pc' = "alert"
  /\ UNCHANGED <<up, registered, revoked, windows, todo, biomeRevoked, admitted,
                 current, disk, passed, accepted>>

\* obs.append returns Err, with the record on disk or not; Rejected.
AppendFails ==
  /\ pc = "append"
  /\ Fail("ioerror")
  /\ known' \in {known, known \cup {current}}
  /\ pc' = "idle" /\ current' = Nothing
  /\ UNCHANGED <<up, registered, revoked, windows, todo, biomeRevoked, admitted,
                 alerts, revocations, passed, accepted>>

\* Fault: the alert rule looks at samples of the biome's own devices only.
RaiseAlert_NotRevoked ==
  /\ pc = "alert"
  /\ alerts' = IF current[1] \in biomeRevoked THEN alerts
               ELSE alerts \cup ({current} \cap Alerting)
  /\ pc' = "admit"
  /\ UNCHANGED <<up, registered, revoked, windows, todo, biomeRevoked, admitted,
                 current, known, revocations, passed, accepted, faults>>

\* maybe_alert
RaiseAlert ==
  /\ pc = "alert"
  /\ alerts' = alerts \cup ({current} \cap Alerting)
  /\ pc' = "admit"
  /\ UNCHANGED <<up, registered, revoked, windows, todo, biomeRevoked, admitted,
                 current, known, revocations, passed, accepted, faults>>

\* events.append returns Err, which maybe_alert prints and ignores.
AlertFails ==
  /\ pc = "alert" /\ current \in Alerting
  /\ Fail("ioerror")
  /\ alerts' \in {alerts, alerts \cup {current}}
  /\ pc' = "admit"
  /\ UNCHANGED <<up, registered, revoked, windows, todo, biomeRevoked, admitted,
                 current, known, revocations, passed, accepted>>

\* biome.accept; the datagram counts as Accepted whatever the biome says.
Admit ==
  /\ pc = "admit"
  /\ admitted' = IF current[1] \in biomeRevoked THEN admitted ELSE admitted \cup {current}
  /\ accepted' = [accepted EXCEPT ![current] = @ + 1]
  /\ pc' = "idle" /\ current' = Nothing
  /\ UNCHANGED <<up, registered, revoked, windows, todo, biomeRevoked, disk, passed, faults>>

-----------------------------------------------------------------------------
(* Failure and restart                                                     *)

LoseMemory ==
  /\ up' = FALSE
  /\ registered' = {} /\ revoked' = {} /\ biomeRevoked' = {} /\ admitted' = {}
  /\ windows' = [n \in Nodes |-> FreshWindow]
  /\ todo' = [n \in Nodes |-> {}]
  /\ pc' = "idle" /\ current' = Nothing

\* The process dies before or after the disk write of the current step.
Crash ==
  /\ up /\ pc # "idle"
  /\ Fail("crash")
  /\ known' \in {known, known \cup (IF pc = "append" THEN {current} ELSE {})}
  /\ alerts' \in {alerts, alerts \cup (IF pc = "alert" THEN {current} \cap Alerting ELSE {})}
  /\ revocations' \in {revocations,
                       revocations \cup (IF pc = "revoke" THEN {current[1]} ELSE {})}
  /\ LoseMemory
  /\ UNCHANGED <<passed, accepted>>

\* The daemon ends between two handlers.
Stop ==
  /\ up /\ pc = "idle"
  /\ LoseMemory
  /\ UNCHANGED <<disk, passed, accepted, faults>>

\* Inner::open: the stores are open and their dedup keys are to be replayed
\* into fresh windows.  Registry, biome and revocations start empty.
Restart ==
  /\ ~up
  /\ up' = TRUE
  /\ pc' = "prime"
  /\ todo' = [n \in Nodes |-> Known(n)]
  /\ passed' = [n \in Nodes |-> {}]
  /\ UNCHANGED <<registered, revoked, windows, biomeRevoked, admitted, current, disk,
                 accepted, faults>>

\* Fault: the keys are replayed in any order.
Prime_Unsorted(n) ==
  /\ pc = "prime"
  /\ \E s \in todo[n] :
       /\ windows' = [windows EXCEPT ![n] = Update(@, s)]
       /\ todo' = [todo EXCEPT ![n] = @ \ {s}]
  /\ UNCHANGED <<up, registered, revoked, biomeRevoked, admitted, pc, current, disk,
                 passed, accepted, faults>>

\* prime_from_dedup inserts the keys of a node in ascending order.
Prime(n) ==
  /\ pc = "prime"
  /\ \E s \in todo[n] :
       /\ \A t \in todo[n] : s <= t
       /\ windows' = [windows EXCEPT ![n] = Update(@, s)]
       /\ todo' = [todo EXCEPT ![n] = @ \ {s}]
  /\ UNCHANGED <<up, registered, revoked, biomeRevoked, admitted, pc, current, disk,
                 passed, accepted, faults>>

\* The daemon starts to serve.
Primed ==
  /\ pc = "prime"
  /\ \A n \in Nodes : todo[n] = {}
  /\ pc' = "idle"
  /\ UNCHANGED <<up, registered, revoked, windows, todo, biomeRevoked, admitted, current,
                 disk, passed, accepted, faults>>

Next ==
  \/ \E n \in Nodes : Register(n) \/ AdminRevoke(n)
  \/ AppendRevocation \/ AppendRevocationFails
  \/ \E n \in Nodes, s \in Seqs, a \in BOOLEAN : RejectDatagram(n, s, a)
  \/ \E n \in Nodes, s \in Seqs : RejectDomain(n, s) \/ Accept(n, s)
  \/ AppendSample \/ AppendFails \/ RaiseAlert \/ AlertFails \/ Admit
  \/ Crash \/ Stop \/ Restart \/ Primed
  \/ \E n \in Nodes : Prime(n)

Spec == Init /\ [][Next]_gvars

-----------------------------------------------------------------------------

\* "Replay protection must survive restart": whatever the running gateway
\* serves, its windows are an exact memory of the durable dedup index and of
\* what they let through in this life.
WindowIsMemory ==
  up /\ pc # "prime" =>
    \A n \in Nodes : Remembers(windows[n], Known(n) \cup passed[n])

\* A signed packet is Accepted once, over any number of restarts, crashes and
\* re-provisionings ("a signed packet already ingested before a restart is
\* still rejected as a replay afterwards").
AcceptedOnce == \A k \in Samples : accepted[k] <= 1

\* The windows screen the store: append is never handed a key it knows, so
\* its Duplicate answer never turns into a second alert.
StoreSeesNewKeys == pc = "append" => current \notin known

\* An alert never cites a sample the store does not have, and a sample that
\* was reported Accepted or counted by the biome is in the store.
EvidenceStored ==
  /\ alerts \subseteq known
  /\ admitted \subseteq known
  /\ \A k \in Samples : accepted[k] > 0 => k \in known

\* As long as no append fails: a sample that trips the rule has its alert in
\* the event store by the time the datagram is Accepted.
AcceptedFloodsAlerted ==
  faults["ioerror"] = 0 => \A k \in Alerting : accepted[k] > 0 => k \in alerts

\* As long as no append fails: what the biome refuses on its own authority
\* is in the event store, where peers and their backfills find it.
RevocationPublished ==
  up /\ pc = "idle" /\ faults["ioerror"] = 0 => biomeRevoked \subseteq revocations

\* The inductive strengthening of WindowIsMemory, AcceptedOnce and
\* EvidenceStored.
GatewayInv ==
  /\ TypeOK
  /\ WindowIsMemory
  /\ ~up => pc = "idle" /\ windows = [n \in Nodes |-> FreshWindow]
  /\ up /\ pc = "prime" => \A n \in Nodes :
       /\ passed[n] = {} /\ todo[n] \subseteq Known(n)
       /\ Remembers(windows[n], Known(n) \ todo[n])
       /\ \A s \in Known(n) \ todo[n], t \in todo[n] : s < t
  /\ pc \in {"append", "alert", "admit"} =>
       /\ up
       /\ current \in Samples
       /\ current[2] \in passed[current[1]]
       /\ accepted[current] = 0
  /\ StoreSeesNewKeys
  /\ pc \in {"alert", "admit"} => current \in known
  /\ pc = "revoke" => current \in {<<n>> : n \in Nodes}
  /\ AcceptedOnce
  /\ EvidenceStored

\* The inductive strengthening of AcceptedFloodsAlerted and of
\* RevocationPublished, which hold on the way as well: up to the step that
\* stores it, only the current alert or revocation is missing.
PublishInv ==
  faults["ioerror"] = 0 =>
    /\ \A k \in Alerting : accepted[k] > 0 \/ (pc = "admit" /\ k = current) => k \in alerts
    /\ \A n \in biomeRevoked : n \in revocations \/ (pc = "revoke" /\ current = <<n>>)
    /\ ~up => biomeRevoked = {}
=============================================================================
