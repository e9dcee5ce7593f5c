----------------------------- MODULE Federation -----------------------------
(***************************************************************************)
(* Revocation federation between the gateways of several biomes: an        *)
(* administrator revokes a device, the signed event is pushed to every     *)
(* peer, and the mandatory backfill converges whoever missed the push.     *)
(* HTTP handlers take a gateway's lock once each; the one federation task  *)
(* of a gateway awaits the network between its steps, so everything else   *)
(* interleaves with it.  A push is a message that may be late or lost.     *)
(*                                                                         *)
(* A gateway loses its registry, its applied ids and the identities it has *)
(* learned when it dies; only its event store is durable.  Signatures are  *)
(* abstracted to who signed and whether the bytes are intact; summaries,   *)
(* which change nothing but the stored summary, are left out.              *)
(***************************************************************************)
EXTENDS Naturals, Sequences, FiniteSets

CONSTANTS Gateways,     \* biomes, each with one gateway and one key
          Peers,        \* gateway -> the peers it is configured with
          Nodes,        \* device identities
          QueueDepth,   \* PUSH_QUEUE_DEPTH
          UsesCursor,   \* sync_since honours since_ns (QUIC) or not (HTTP)
          Revokers,     \* bound: gateways whose administrators revoke
          MaxMints,     \* bound: admin revocations in one behaviour
          MaxFaults     \* bound: crashes and lost messages in one behaviour

ASSUME FederationAssumption ==
  /\ Peers \in [Gateways -> SUBSET Gateways]
  /\ \A g \in Gateways : g \notin Peers[g]
  /\ QueueDepth \in Nat \ {0}
  /\ UsesCursor \in BOOLEAN /\ Revokers \subseteq Gateways
  /\ MaxMints \in Nat /\ MaxFaults \in Nat

VARIABLES up,           \* the gateways that run
          registered,   \* gateway -> nodes in its registry
          revoked,      \* gateway -> registered nodes whose record is revoked
          applied,      \* gateway -> peer events it has applied
          known,        \* gateway -> peers whose identity it has learned
          queue,        \* gateway -> minted events its task has yet to push
          task,         \* gateway -> what its federation task is doing
          lastSync,     \* gateway -> peer -> cursor of the last backfill
          log,          \* disk: gateway -> its own DeviceRevoked events
          msgs,         \* pushes in flight: <<receiver, event>>
          clock,        \* now_ns: the number of events minted so far
          faults        \* history: failures so far

memory == <<up, registered, revoked, applied, known, queue, task, lastSync>>
fvars  == <<memory, log, msgs, clock, faults>>

Times == 0 .. MaxMints
Event == [biome : Gateways, node : Nodes, at : Times, signer : Gateways, intact : BOOLEAN]

\* The event that biome b signs when it revokes n at time t.
Minted(b, n, t) == [biome |-> b, node |-> n, at |-> t, signer |-> b, intact |-> TRUE]

Idle == [doing |-> "idle"]

NoSync(g) == [p \in Peers[g] |-> 0]

Init ==
  /\ up = Gateways
  /\ registered = [g \in Gateways |-> {}] /\ revoked = [g \in Gateways |-> {}]
  /\ applied = [g \in Gateways |-> {}]
  /\ known = [g \in Gateways |-> {}]
  /\ queue = [g \in Gateways |-> <<>>]
  /\ task = [g \in Gateways |-> Idle]
  /\ lastSync = [g \in Gateways |-> NoSync(g)]
  /\ log = [g \in Gateways |-> {}]
  /\ msgs = {} /\ clock = 0 /\ faults = 0

Fail == faults < MaxFaults /\ faults' = faults + 1

-----------------------------------------------------------------------------
(* Administration                                                          *)

\* DeviceRegistry::register
Provision(g, n) ==
  /\ g \in up
  /\ registered' = [registered EXCEPT ![g] = @ \cup {n}]
  /\ revoked' = [revoked EXCEPT ![g] = @ \ {n}]
  /\ UNCHANGED <<up, applied, known, queue, task, lastSync, log, msgs, clock, faults>>

\* The broadcast channel: an overrun drops the oldest event.
Enqueue(q, e) ==
  IF Len(q) < QueueDepth THEN Append(q, e) ELSE Append(Tail(q), e)

\* admin_revoke: revoked at home, stored, queued for every peer.
AdminRevoke(g, n) ==
  LET e == Minted(g, n, clock)
  IN /\ g \in up /\ g \in Revokers
     /\ clock < MaxMints /\ clock' = clock + 1
     /\ revoked' = [revoked EXCEPT ![g] = @ \cup ({n} \cap registered[g])]
     /\ log' = [log EXCEPT ![g] = @ \cup {e}]
     /\ queue' = IF Peers[g] = {} THEN queue
                 ELSE [queue EXCEPT ![g] = Enqueue(@, e)]
     /\ UNCHANGED <<up, registered, applied, known, task, lastSync, msgs, faults>>

-----------------------------------------------------------------------------
(* accept_artifact                                                         *)

\* Fault: any intact signature will do.
Verifies_AnySigner(g, e) == e.biome \in known[g] /\ e.intact

\* The gate: a known biome, its own key, a signature that verifies.
Verifies(g, e) == e.biome \in known[g] /\ e.signer = e.biome /\ e.intact

\* Fault: event ids are not remembered.
NewlyApplied_Again(g, es) == {e \in es : Verifies(g, e) /\ e.node \in registered[g]}

\* Those of the artifacts es that apply_peer_revocation applies.
NewlyApplied(g, es) ==
  {e \in es : Verifies(g, e) /\ e \notin applied[g] /\ e.node \in registered[g]}

Accept(g, es) ==
  /\ revoked' = [revoked EXCEPT ![g] = @ \cup {e.node : e \in NewlyApplied(g, es)}]
  /\ applied' = [applied EXCEPT ![g] = @ \cup NewlyApplied(g, es)]

\* POST /api/federation/announce receives a push.
ReceivePush(g, e) ==
  /\ g \in up /\ <<g, e>> \in msgs
  /\ msgs' = msgs \ {<<g, e>>}
  /\ Accept(g, {e})
  /\ UNCHANGED <<up, registered, known, queue, task, lastSync, log, clock, faults>>

\* Events that are not what their biome signed.
Forgeries ==
  {e \in [biome : Gateways, node : Nodes, at : {MaxMints}, signer : Gateways,
          intact : BOOLEAN] : e.signer # e.biome \/ ~e.intact}

\* It receives such an event.
ReceiveForged(g, e) ==
  /\ g \in up
  /\ Accept(g, {e})
  /\ UNCHANGED <<up, registered, known, queue, task, lastSync, log, msgs, clock, faults>>

-----------------------------------------------------------------------------
(* The federation task                                                     *)

Set(g, t) == task' = [task EXCEPT ![g] = t]

\* push_rx.recv
TakePush(g) ==
  /\ g \in up /\ task[g] = Idle /\ queue[g] # <<>>
  /\ Set(g, [doing |-> "announce", event |-> Head(queue[g]), left |-> Peers[g]])
  /\ queue' = [queue EXCEPT ![g] = Tail(@)]
  /\ UNCHANGED <<up, registered, revoked, applied, known, lastSync, log, msgs, clock, faults>>

\* announce_to_peer, once; nothing depends on whether the peer got it.
Announce(g) ==
  /\ g \in up /\ task[g].doing = "announce"
  /\ \E p \in task[g].left :
       /\ msgs' = msgs \cup {<<p, task[g].event>>}
       /\ Set(g, IF task[g].left = {p} THEN Idle ELSE [task[g] EXCEPT !.left = @ \ {p}])
  /\ UNCHANGED <<up, registered, revoked, applied, known, queue, lastSync, log, clock, faults>>

\* backfill_tick: a pass over all peers begins.
StartBackfill(g) ==
  /\ g \in up /\ task[g] = Idle /\ Peers[g] # {}
  /\ Set(g, [doing |-> "identity", left |-> Peers[g], start |-> clock])
  /\ UNCHANGED <<up, registered, revoked, applied, known, queue, lastSync, log, msgs, clock,
                 faults>>

\* What is left of the pass after peer p; the next peer's pass starts now.
AfterPeer(left, p) ==
  IF left = {p} THEN Idle
  ELSE [doing |-> "identity", left |-> left \ {p}, start |-> clock]

\* transport.identity answers and the identity is registered.
LearnIdentity(g, p) ==
  /\ g \in up /\ task[g].doing = "identity" /\ p \in task[g].left
  /\ p \in up
  /\ known' = [known EXCEPT ![g] = @ \cup {p}]
  /\ Set(g, [doing |-> "sync", left |-> task[g].left, peer |-> p,
            start |-> task[g].start])
  /\ UNCHANGED <<up, registered, revoked, applied, queue, lastSync, log, msgs, clock, faults>>

\* transport.sync_since answers with a snapshot of the peer's event store.
SyncSince(g) ==
  /\ g \in up /\ task[g].doing = "sync"
  /\ task[g].peer \in up
  /\ Set(g, [doing |-> "accept", left |-> task[g].left, peer |-> task[g].peer,
             start |-> task[g].start,
             artifacts |-> {e \in log[task[g].peer] :
                              UsesCursor => e.at >= lastSync[g][task[g].peer]}])
  /\ UNCHANGED <<up, registered, revoked, applied, known, queue, lastSync, log, msgs, clock,
                 faults>>

\* Fault: what a backfill returns is not applied.
AcceptBackfill_Ignored(g) ==
  /\ g \in up /\ task[g].doing = "accept"
  /\ lastSync' = [lastSync EXCEPT ![g][task[g].peer] = task[g].start]
  /\ Set(g, AfterPeer(task[g].left, task[g].peer))
  /\ UNCHANGED <<up, registered, revoked, applied, known, queue, log, msgs, clock, faults>>

\* The snapshot is verified and applied under the lock; the cursor advances
\* whatever became of the artifacts.
AcceptBackfill(g) ==
  /\ g \in up /\ task[g].doing = "accept"
  /\ Accept(g, task[g].artifacts)
  /\ lastSync' = [lastSync EXCEPT ![g][task[g].peer] = task[g].start]
  /\ Set(g, AfterPeer(task[g].left, task[g].peer))
  /\ UNCHANGED <<up, registered, known, queue, log, msgs, clock, faults>>

\* The peer is down, or a request to it fails: on to the next peer.
BackfillFails(g, p) ==
  /\ g \in up
  /\ \/ task[g].doing = "identity" /\ p \in task[g].left
     \/ task[g].doing = "sync" /\ p = task[g].peer
  /\ IF p \in up THEN Fail ELSE UNCHANGED faults
  /\ Set(g, AfterPeer(task[g].left, p))
  /\ UNCHANGED <<up, registered, revoked, applied, known, queue, lastSync, log, msgs, clock>>

-----------------------------------------------------------------------------
(* Failures                                                                *)

\* A push does not arrive.
LosePush(m) ==
  /\ m \in msgs
  /\ IF m[1] \in up THEN Fail ELSE UNCHANGED faults
  /\ msgs' = msgs \ {m}
  /\ UNCHANGED <<memory, log, clock>>

Crash(g) ==
  /\ g \in up
  /\ Fail
  /\ up' = up \ {g}
  /\ registered' = [registered EXCEPT ![g] = {}]
  /\ revoked' = [revoked EXCEPT ![g] = {}]
  /\ applied' = [applied EXCEPT ![g] = {}]
  /\ known' = [known EXCEPT ![g] = {}]
  /\ queue' = [queue EXCEPT ![g] = <<>>]
  /\ Set(g, Idle)
  /\ lastSync' = [lastSync EXCEPT ![g] = NoSync(g)]
  /\ UNCHANGED <<log, msgs, clock>>

\* Inner::open: only the event store comes back.
Restart(g) ==
  /\ g \notin up
  /\ up' = up \cup {g}
  /\ UNCHANGED <<registered, revoked, applied, known, queue, task, lastSync, log, msgs,
                 clock, faults>>

Next ==
  \/ \E g \in Gateways :
       \/ \E n \in Nodes : Provision(g, n) \/ AdminRevoke(g, n)
       \/ \E m \in msgs : ReceivePush(g, m[2])
       \/ \E e \in Forgeries : ReceiveForged(g, e)
       \/ TakePush(g) \/ Announce(g) \/ StartBackfill(g) \/ SyncSince(g) \/ AcceptBackfill(g)
       \/ \E p \in Gateways : LearnIdentity(g, p) \/ BackfillFails(g, p)
       \/ Crash(g) \/ Restart(g)
  \/ \E m \in msgs : LosePush(m)

Spec == Init /\ [][Next]_fvars

(***************************************************************************)
(* The federation task is scheduled, its timers fire (tokio's select!      *)
(* picks among the ready branches at random, so none starves), every       *)
(* request is answered or fails within its timeout, and a dead gateway is  *)
(* started again.  Nothing is assumed of pushes or of administrators.      *)
(***************************************************************************)
Fairness ==
  \A g \in Gateways :
    /\ WF_fvars(Restart(g))
    /\ WF_fvars(TakePush(g)) /\ WF_fvars(Announce(g))
    /\ WF_fvars(StartBackfill(g))
    /\ \A p \in Peers[g] : WF_fvars(LearnIdentity(g, p) \/ BackfillFails(g, p))
    /\ WF_fvars(SyncSince(g) \/ \E p \in Peers[g] : BackfillFails(g, p))
    /\ WF_fvars(AcceptBackfill(g))

FairSpec == Spec /\ Fairness

-----------------------------------------------------------------------------

\* "Peers may only revoke on their own authority": a device is revoked at a
\* gateway only on an event that the gateway or a configured peer signed for
\* that device and has in its event store.
RevokedByOwner ==
  \A g \in Gateways : \A n \in revoked[g] :
    \E b \in {g} \cup Peers[g] : \E e \in log[b] : e.node = n

\* Idempotence by event id: a device that was provisioned anew after a
\* revocation is revoked again only by an event the gateway has not applied
\* yet, never by a late push or a later backfill of the old one.
RevokedByNewEvent ==
  [][\A g \in Gateways : \A n \in revoked'[g] \ revoked[g] :
       \/ \E e \in applied'[g] \ applied[g] : e.node = n
       \/ \E e \in log'[g] \ log[g] : e.node = n]_fvars

\* "A peer that missed a push still converges": an event in the store of a
\* configured peer is eventually applied wherever its device is registered,
\* also after lost pushes, an overrun queue, failed passes and restarts.
Converges ==
  \A g \in Gateways, n \in Nodes, t \in Times : \A p \in Peers[g] :
    LET e == Minted(p, n, t)
    IN e \in log[p] /\ n \in registered[g] ~> e \in applied[g] \/ n \notin registered[g]

\* Every event that some biome has signed and stored.
Stored == UNION {log[b] : b \in Gateways}

Doing == {"idle", "announce", "identity", "sync", "accept"}

\* The inductive strengthening of RevokedByOwner: whatever is on its way, in a
\* queue, a task or a message, was stored before it left; and a gateway knows
\* and asks only the peers it is configured with.
OwnerInv ==
  /\ DOMAIN revoked = Gateways /\ DOMAIN known = Gateways /\ DOMAIN task = Gateways
  /\ DOMAIN log = Gateways /\ DOMAIN queue = Gateways
  /\ \A g \in Gateways : known[g] \subseteq Peers[g]
  /\ \A g \in Gateways : \A e \in log[g] : e.biome = g
  /\ \A m \in msgs : m[2] \in Stored
  /\ \A g \in Gateways : queue[g] \in Seq(Stored)
  /\ \A g \in Gateways :
       /\ task[g].doing \in Doing
       /\ task[g].doing = "announce" => task[g].event \in Stored
       /\ task[g].doing \in {"identity", "sync", "accept"} => task[g].left \subseteq Peers[g]
       /\ task[g].doing \in {"sync", "accept"} => task[g].peer \in Peers[g]
       /\ task[g].doing = "accept" => task[g].artifacts \subseteq Stored
  /\ RevokedByOwner
=============================================================================
