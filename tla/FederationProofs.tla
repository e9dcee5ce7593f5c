--------------------------- MODULE FederationProofs ---------------------------
(***************************************************************************)
(* For any number of gateways, whatever their peers, with pushes late,     *)
(* lost and forged, and gateways that die: a device is revoked only on an  *)
(* event that its own gateway or a configured peer has signed and stored.  *)
(*                                                                         *)
(* For any number of buses, biomes, keys and successions: a key that is    *)
(* out of use never speaks for a biome again, a biome's bindings are one   *)
(* line unless two successions of one epoch were authorised, and along     *)
(* that line who is behind can catch up.                                   *)
(***************************************************************************)
EXTENDS Federation, FederationBus, FiniteSetTheorems, TLAPS

-----------------------------------------------------------------------------
(* The gateway federation                                                  *)

\* What a task may hold.
TaskInv(t, g) ==
  /\ t.doing \in Doing
  /\ t.doing = "announce" => t.event \in Stored
  /\ t.doing \in {"identity", "sync", "accept"} => t.left \subseteq Peers[g]
  /\ t.doing \in {"sync", "accept"} => t.peer \in Peers[g]
  /\ t.doing = "accept" => t.artifacts \subseteq Stored

\* What a queue, a task or a message holds is stored.
TransitInv ==
  /\ \A m \in msgs : m[2] \in Stored
  /\ \A g \in Gateways : queue[g] \in Seq(Stored)
  /\ \A g \in Gateways : TaskInv(task[g], g)

\* Who is trusted, and what the stores hold.
StoreInv ==
  /\ DOMAIN revoked = Gateways /\ DOMAIN known = Gateways /\ DOMAIN task = Gateways
  /\ DOMAIN log = Gateways /\ DOMAIN queue = Gateways
  /\ \A g \in Gateways : known[g] \subseteq Peers[g]
  /\ \A g \in Gateways : \A e \in log[g] : e.biome = g

LEMMA Parts == OwnerInv <=> StoreInv /\ TransitInv /\ RevokedByOwner
  BY DEF OwnerInv, StoreInv, TransitInv, TaskInv

LEMMA PeersAreGateways == \A g \in Gateways : Peers[g] \subseteq Gateways
  BY FederationAssumption

LEMMA StoredAtItsBiome ==
  ASSUME StoreInv, NEW e \in Stored
  PROVE  e.biome \in Gateways /\ e \in log[e.biome]
  BY DEF StoreInv, Stored

LEMMA EnqueueKeeps ==
  ASSUME NEW S, NEW q \in Seq(S), NEW e \in S
  PROVE  Enqueue(q, e) \in Seq(S)
<1>1. CASE Len(q) < QueueDepth
  BY <1>1 DEF Enqueue
<1>2. CASE ~(Len(q) < QueueDepth)
  <2>1. q # <<>>
    BY <1>2, FederationAssumption
  <2>2. QED BY <1>2, <2>1 DEF Enqueue
<1>3. QED BY <1>1, <1>2

LEMMA SeqGrows ==
  ASSUME NEW S, NEW T, S \subseteq T, NEW q \in Seq(S)
  PROVE  q \in Seq(T)
<1>1. Len(q) \in Nat /\ q \in [1 .. Len(q) -> S]
  OBVIOUS
<1>2. q \in [1 .. Len(q) -> T]
  BY <1>1
<1>3. QED BY <1>1, <1>2

LEMMA InitOwner == Init => OwnerInv
<1> SUFFICES ASSUME Init PROVE OwnerInv
  OBVIOUS
<1>1. StoreInv
  BY FederationAssumption DEF Init, StoreInv
<1>2. TransitInv
  BY DEF Init, TransitInv, TaskInv, Idle, Doing
<1>3. RevokedByOwner
  BY DEF Init, RevokedByOwner
<1>4. QED BY <1>1, <1>2, <1>3, Parts

\* Events that are stored, or are not what a biome signed, revoke only on the
\* authority of a configured peer.
LEMMA AcceptOwner ==
  ASSUME OwnerInv, NEW g \in Gateways, NEW es, Accept(g, es), UNCHANGED log,
         \A e \in es : e \in Stored \/ e.signer # e.biome \/ ~e.intact
  PROVE  RevokedByOwner' /\ DOMAIN revoked' = Gateways
<1>1. revoked' = [revoked EXCEPT ![g] = revoked[g] \cup {e.node : e \in NewlyApplied(g, es)}]
  BY DEF Accept
<1>2. ASSUME NEW e \in NewlyApplied(g, es)
      PROVE  e.biome \in Peers[g] /\ e \in log[e.biome]
  BY Parts, StoredAtItsBiome DEF NewlyApplied, Verifies, OwnerInv
<1>3. ASSUME NEW h \in Gateways, NEW n \in revoked'[h]
      PROVE  \E b \in {h} \cup Peers[h] : \E e \in log[b] : e.node = n
  <2>1. CASE n \in revoked[h]
    BY <2>1 DEF OwnerInv, RevokedByOwner
  <2>2. CASE n \notin revoked[h]
    <3>1. h = g /\ \E e \in NewlyApplied(g, es) : n = e.node
      BY <2>2, <1>1, <1>3 DEF OwnerInv
    <3>2. QED BY <3>1, <1>2
  <2>3. QED BY <2>1, <2>2
<1>4. QED BY <1>1, <1>3, ZenonT(60) DEF RevokedByOwner, OwnerInv

\* A step that leaves the stores and the queues alone, learns no stranger,
\* revokes nothing without authority and gives one task something it may hold.
LEMMA TaskStep ==
  ASSUME OwnerInv, NEW g \in Gateways, NEW t, TaskInv(t, g), RevokedByOwner',
         DOMAIN revoked' = Gateways,
         task' = [task EXCEPT ![g] = t], UNCHANGED <<log, known, queue, msgs>>
  PROVE  OwnerInv'
<1>1. StoreInv'
  BY DEF OwnerInv, StoreInv
<1>2. Stored' = Stored
  BY DEF Stored
<1>3. \A h \in Gateways : TaskInv(task'[h], h)
  BY Parts DEF TransitInv, StoreInv
<1>4. TransitInv'
  BY <1>2, <1>3, Parts DEF TransitInv, TaskInv
<1>5. QED BY <1>1, <1>4, Parts, PTL

LEMMA KeptOwner ==
  ASSUME OwnerInv, UNCHANGED <<revoked, log>>
  PROVE  RevokedByOwner' /\ DOMAIN revoked' = Gateways /\ Stored' = Stored
  BY DEF OwnerInv, RevokedByOwner, Stored

LEMMA ProvisionOwner ==
  ASSUME OwnerInv, NEW g \in Gateways, NEW n \in Nodes, Provision(g, n)
  PROVE  OwnerInv'
<1>1. RevokedByOwner'
  BY DEF Provision, OwnerInv, RevokedByOwner
<1>2. Stored' = Stored
  BY DEF Provision, Stored
<1>3. TransitInv' /\ StoreInv'
  BY <1>2, Parts DEF Provision, TransitInv, TaskInv, StoreInv
<1>4. QED BY <1>1, <1>3, Parts, PTL

LEMMA AdminRevokeOwner ==
  ASSUME OwnerInv, NEW g \in Gateways, NEW n \in Nodes, AdminRevoke(g, n)
  PROVE  OwnerInv'
<1>1. PICK e : e = Minted(g, n, clock)
  OBVIOUS
<1>2. e.biome = g /\ e.node = n
  BY <1>1 DEF Minted
<1>3. /\ log' = [log EXCEPT ![g] = log[g] \cup {e}]
      /\ revoked' = [revoked EXCEPT ![g] = revoked[g] \cup ({n} \cap registered[g])]
      /\ queue' = queue \/ queue' = [queue EXCEPT ![g] = Enqueue(queue[g], e)]
      /\ UNCHANGED <<known, task, msgs>>
  BY <1>1 DEF AdminRevoke
<1>4. Stored \subseteq Stored' /\ e \in Stored'
  BY <1>3 DEF Stored, OwnerInv
<1>5. StoreInv'
  BY <1>2, <1>3 DEF StoreInv, OwnerInv
<1>6. \A h \in Gateways : queue[h] \in Seq(Stored')
  BY <1>4, SeqGrows DEF OwnerInv
<1>7. \A h \in Gateways : queue'[h] \in Seq(Stored')
  <2>1. Enqueue(queue[g], e) \in Seq(Stored')
    BY <1>4, <1>6, EnqueueKeeps
  <2>2. QED BY <1>3, <1>6, <2>1 DEF OwnerInv
<1>8. TransitInv'
  BY <1>3, <1>4, <1>7, Parts DEF TransitInv, TaskInv
<1>9. RevokedByOwner'
  <2>1. ASSUME NEW h \in Gateways, NEW k \in revoked'[h]
        PROVE  \E b \in {h} \cup Peers[h] : \E d \in log'[b] : d.node = k
    <3>1. CASE k \in revoked[h]
      BY <3>1, <1>3, PeersAreGateways DEF OwnerInv, RevokedByOwner
    <3>2. CASE k \notin revoked[h]
      <4>1. h = g /\ k = n
        BY <3>2, <2>1, <1>3 DEF OwnerInv
      <4>2. e \in log'[g]
        BY <1>3 DEF OwnerInv
      <4>3. QED BY <4>1, <4>2, <1>2
    <3>3. QED BY <3>1, <3>2
  <2>2. QED BY <2>1 DEF RevokedByOwner
<1>10. QED BY <1>5, <1>8, <1>9, Parts, PTL

\* A push, or an event that is not what its biome signed, arrives.
LEMMA ReceiveOwner ==
  ASSUME OwnerInv, NEW g \in Gateways, NEW e, Accept(g, {e}),
         e \in Stored \/ e.signer # e.biome \/ ~e.intact,
         msgs' \subseteq msgs, UNCHANGED <<log, known, queue, task>>
  PROVE  OwnerInv'
<1>1. RevokedByOwner' /\ DOMAIN revoked' = Gateways
  BY AcceptOwner
<1>2. Stored' = Stored
  BY DEF Stored
<1>3. StoreInv' /\ TransitInv'
  BY <1>1, <1>2, Parts DEF StoreInv, TransitInv, TaskInv
<1>4. QED BY <1>1, <1>3, Parts, PTL

LEMMA ReceivePushOwner ==
  ASSUME OwnerInv, NEW g \in Gateways, NEW e, ReceivePush(g, e)
  PROVE  OwnerInv'
<1>1. e \in Stored
  BY DEF ReceivePush, OwnerInv
<1>2. QED BY <1>1, ReceiveOwner DEF ReceivePush

LEMMA ReceiveForgedOwner ==
  ASSUME OwnerInv, NEW g \in Gateways, NEW e \in Forgeries, ReceiveForged(g, e)
  PROVE  OwnerInv'
<1>1. e.signer # e.biome \/ ~e.intact
  BY DEF Forgeries
<1>2. QED BY <1>1, ReceiveOwner DEF ReceiveForged

LEMMA TakePushOwner ==
  ASSUME OwnerInv, NEW g \in Gateways, TakePush(g)
  PROVE  OwnerInv'
<1>1. Head(queue[g]) \in Stored /\ Tail(queue[g]) \in Seq(Stored)
  BY DEF TakePush, OwnerInv
<1>2. RevokedByOwner' /\ DOMAIN revoked' = Gateways /\ Stored' = Stored
  BY KeptOwner DEF TakePush
<1>3. StoreInv'
  BY Parts DEF StoreInv, TakePush, Set
<1>4. \A h \in Gateways : queue'[h] \in Seq(Stored)
  BY <1>1, Parts DEF TakePush, TransitInv, StoreInv
<1>5. \A h \in Gateways : TaskInv(task'[h], h)
  BY <1>1, Parts DEF TakePush, Set, TransitInv, TaskInv, StoreInv, Doing
<1>6. TransitInv'
  BY <1>2, <1>4, <1>5, Parts DEF TransitInv, TaskInv, TakePush
<1>7. QED BY <1>2, <1>3, <1>6, Parts, PTL

LEMMA AnnounceOwner ==
  ASSUME OwnerInv, NEW g \in Gateways, Announce(g)
  PROVE  OwnerInv'
<1>1. RevokedByOwner' /\ DOMAIN revoked' = Gateways /\ Stored' = Stored
  BY KeptOwner DEF Announce
<1>2. PICK p \in task[g].left :
        /\ msgs' = msgs \cup {<<p, task[g].event>>}
        /\ Set(g, IF task[g].left = {p} THEN Idle ELSE [task[g] EXCEPT !.left = @ \ {p}])
  BY DEF Announce
<1>3. task[g].event \in Stored
  BY DEF Announce, OwnerInv
<1>4. \A m \in msgs' : m[2] \in Stored
  BY <1>2, <1>3 DEF OwnerInv
<1>5. PICK t : /\ t = (IF task[g].left = {p} THEN Idle
                      ELSE [task[g] EXCEPT !.left = task[g].left \ {p}])
               /\ task' = [task EXCEPT ![g] = t]
  BY <1>2 DEF Set
<1>6. TaskInv(t, g)
  <2>1. CASE t = Idle
    BY <2>1 DEF Idle, TaskInv, Doing
  <2>2. CASE t = [task[g] EXCEPT !.left = task[g].left \ {p}]
    <3>1. TaskInv(task[g], g) /\ task[g].doing = "announce"
      BY Parts DEF TransitInv, Announce
    <3>2. t.doing = "announce" /\ t.event = task[g].event
      BY <2>2, <3>1
    <3>3. QED BY <3>1, <3>2 DEF TaskInv
  <2>3. QED BY <1>5, <2>1, <2>2
<1>7. StoreInv'
  BY <1>5, Parts DEF StoreInv, Announce
<1>8. \A h \in Gateways : TaskInv(task'[h], h)
  BY <1>5, <1>6, Parts DEF TransitInv, StoreInv
<1>9. TransitInv'
  BY <1>1, <1>4, <1>8, Parts DEF TransitInv, TaskInv, Announce
<1>10. QED BY <1>1, <1>7, <1>9, Parts, PTL

LEMMA StartBackfillOwner ==
  ASSUME OwnerInv, NEW g \in Gateways, StartBackfill(g)
  PROVE  OwnerInv'
<1>1. RevokedByOwner' /\ DOMAIN revoked' = Gateways
  BY KeptOwner DEF StartBackfill
<1>2. TaskInv([doing |-> "identity", left |-> Peers[g], start |-> clock], g)
  BY DEF TaskInv, Doing
<1>3. QED BY <1>1, <1>2, TaskStep DEF StartBackfill, Set

LEMMA AfterPeerTask ==
  ASSUME NEW g \in Gateways, NEW left \in SUBSET Peers[g], NEW p
  PROVE  TaskInv(AfterPeer(left, p), g)
  BY DEF TaskInv, AfterPeer, Idle, Doing

\* What a task that runs a backfill pass holds.
LEMMA PassTask ==
  ASSUME OwnerInv, NEW g \in Gateways, task[g].doing \in {"identity", "sync", "accept"}
  PROVE  /\ task[g].left \in SUBSET Peers[g]
         /\ task[g].doing # "identity" => task[g].peer \in Peers[g] /\ task[g].peer \in Gateways
         /\ task[g].doing = "accept" => task[g].artifacts \subseteq Stored
  BY PeersAreGateways DEF OwnerInv

LEMMA LearnIdentityOwner ==
  ASSUME OwnerInv, NEW g \in Gateways, NEW p \in Gateways, LearnIdentity(g, p)
  PROVE  OwnerInv'
<1>1. RevokedByOwner' /\ DOMAIN revoked' = Gateways /\ Stored' = Stored
  BY KeptOwner DEF LearnIdentity
<1>2. task[g].left \in SUBSET Peers[g] /\ p \in Peers[g]
  BY PassTask DEF LearnIdentity
<1>3. PICK t : /\ t = [doing |-> "sync", left |-> task[g].left, peer |-> p,
                       start |-> task[g].start]
               /\ task' = [task EXCEPT ![g] = t]
  BY DEF LearnIdentity, Set
<1>4. TaskInv(t, g)
  BY <1>2, <1>3 DEF TaskInv, Doing
<1>5. StoreInv'
  BY <1>2, <1>3, Parts DEF StoreInv, LearnIdentity
<1>6. \A h \in Gateways : TaskInv(task'[h], h)
  BY <1>3, <1>4, Parts DEF TransitInv, StoreInv
<1>7. TransitInv'
  BY <1>1, <1>6, Parts DEF TransitInv, TaskInv, LearnIdentity
<1>8. QED BY <1>1, <1>5, <1>7, Parts, PTL

LEMMA SyncSinceOwner ==
  ASSUME OwnerInv, NEW g \in Gateways, SyncSince(g)
  PROVE  OwnerInv'
<1>1. RevokedByOwner' /\ DOMAIN revoked' = Gateways
  BY KeptOwner DEF SyncSince
<1>2. PICK t : /\ t = [doing |-> "accept", left |-> task[g].left, peer |-> task[g].peer,
                       start |-> task[g].start,
                       artifacts |-> {e \in log[task[g].peer] :
                                        UsesCursor => e.at >= lastSync[g][task[g].peer]}]
               /\ task' = [task EXCEPT ![g] = t]
  BY DEF SyncSince, Set
<1>3. log[task[g].peer] \subseteq Stored
  BY PassTask DEF SyncSince, Stored
<1>4. TaskInv(t, g)
  BY <1>2, <1>3, PassTask DEF TaskInv, Doing, SyncSince
<1>5. QED BY <1>1, <1>2, <1>4, TaskStep DEF SyncSince

LEMMA AcceptBackfillOwner ==
  ASSUME OwnerInv, NEW g \in Gateways, AcceptBackfill(g)
  PROVE  OwnerInv'
<1>1. task[g].left \in SUBSET Peers[g] /\ task[g].artifacts \subseteq Stored
  BY PassTask DEF AcceptBackfill
<1>2. RevokedByOwner' /\ DOMAIN revoked' = Gateways
  BY <1>1, AcceptOwner DEF AcceptBackfill
<1>3. TaskInv(AfterPeer(task[g].left, task[g].peer), g)
  BY <1>1, AfterPeerTask
<1>4. QED BY <1>2, <1>3, TaskStep DEF AcceptBackfill, Set

LEMMA BackfillFailsOwner ==
  ASSUME OwnerInv, NEW g \in Gateways, NEW p \in Gateways, BackfillFails(g, p)
  PROVE  OwnerInv'
<1>1. RevokedByOwner' /\ DOMAIN revoked' = Gateways
  BY KeptOwner DEF BackfillFails
<1>2. task[g].left \in SUBSET Peers[g]
  BY PassTask DEF BackfillFails
<1>3. TaskInv(AfterPeer(task[g].left, p), g)
  BY <1>2, AfterPeerTask
<1>4. QED BY <1>1, <1>3, TaskStep DEF BackfillFails, Set

LEMMA CrashOwner ==
  ASSUME OwnerInv, NEW g \in Gateways, Crash(g)
  PROVE  OwnerInv'
<1>1. RevokedByOwner'
  BY DEF Crash, OwnerInv, RevokedByOwner
<1>2. Stored' = Stored
  BY DEF Crash, Stored
<1>3. StoreInv'
  BY Parts DEF StoreInv, Crash, Set
<1>4. TaskInv(Idle, g) /\ <<>> \in Seq(Stored)
  BY DEF TaskInv, Idle, Doing
<1>5. \A h \in Gateways : TaskInv(task'[h], h) /\ queue'[h] \in Seq(Stored)
  BY <1>4, Parts DEF TransitInv, StoreInv, Crash, Set
<1>6. TransitInv'
  BY <1>2, <1>5, Parts DEF TransitInv, TaskInv, Crash
<1>7. QED BY <1>1, <1>3, <1>6, Parts, PTL

\* Steps that touch nothing but messages that vanish and gateways that start.
LEMMA QuietOwner ==
  ASSUME OwnerInv, msgs' \subseteq msgs, UNCHANGED <<revoked, known, queue, task, log>>
  PROVE  OwnerInv'
<1>1. RevokedByOwner' /\ DOMAIN revoked' = Gateways /\ Stored' = Stored
  BY KeptOwner
<1>2. StoreInv' /\ TransitInv'
  BY <1>1, Parts DEF StoreInv, TransitInv, TaskInv
<1>3. QED BY <1>1, <1>2, Parts, PTL

LEMMA StepOwner == OwnerInv /\ [Next]_fvars => OwnerInv'
<1> SUFFICES ASSUME OwnerInv, [Next]_fvars PROVE OwnerInv'
  OBVIOUS
<1>1. ASSUME NEW g \in Gateways, NEW n \in Nodes, Provision(g, n) PROVE OwnerInv'
  BY <1>1, ProvisionOwner
<1>2. ASSUME NEW g \in Gateways, NEW n \in Nodes, AdminRevoke(g, n) PROVE OwnerInv'
  BY <1>2, AdminRevokeOwner
<1>3. ASSUME NEW g \in Gateways, NEW m \in msgs, ReceivePush(g, m[2]) PROVE OwnerInv'
  BY <1>3, ReceivePushOwner
<1>4. ASSUME NEW g \in Gateways, NEW e \in Forgeries, ReceiveForged(g, e) PROVE OwnerInv'
  BY <1>4, ReceiveForgedOwner
<1>5. ASSUME NEW g \in Gateways,
             \/ TakePush(g) \/ Announce(g) \/ StartBackfill(g) \/ SyncSince(g)
             \/ AcceptBackfill(g)
      PROVE OwnerInv'
  BY <1>5, TakePushOwner, AnnounceOwner, StartBackfillOwner, SyncSinceOwner,
     AcceptBackfillOwner
<1>6. ASSUME NEW g \in Gateways, NEW p \in Gateways, LearnIdentity(g, p) \/ BackfillFails(g, p)
      PROVE OwnerInv'
  BY <1>6, LearnIdentityOwner, BackfillFailsOwner
<1>7. ASSUME NEW g \in Gateways, Crash(g) PROVE OwnerInv'
  BY <1>7, CrashOwner
<1>8. ASSUME NEW g \in Gateways, Restart(g) PROVE OwnerInv'
  BY <1>8, QuietOwner DEF Restart
<1>9. ASSUME NEW m \in msgs, LosePush(m) PROVE OwnerInv'
  BY <1>9, QuietOwner DEF LosePush, memory
<1>10. CASE UNCHANGED fvars
  BY <1>10, QuietOwner DEF fvars, memory
<1>11. QED
  BY <1>1, <1>2, <1>3, <1>4, <1>5, <1>6, <1>7, <1>8, <1>9, <1>10 DEF Next

\* RevokedByOwner: "peers may only revoke on their own authority", for any
\* number of gateways and devices and whatever is lost, late or forged.
THEOREM OwnAuthority == Spec => []RevokedByOwner
<1>1. OwnerInv => RevokedByOwner
  BY DEF OwnerInv
<1>2. QED BY <1>1, InitOwner, StepOwner, PTL DEF Spec

\* Every stored event is older than the clock, so the next one is new.
EventInv ==
  /\ DOMAIN revoked = Gateways /\ DOMAIN applied = Gateways /\ DOMAIN log = Gateways
  /\ clock \in Nat
  /\ \A g \in Gateways : \A e \in log[g] : e.at \in Nat /\ e.at < clock

\* What one step of gateway g may do to the revocations.
NewEvent(g) ==
  \A n \in revoked'[g] \ revoked[g] :
    \/ \E e \in applied'[g] \ applied[g] : e.node = n
    \/ \E e \in log'[g] \ log[g] : e.node = n

LEMMA InitEvent == Init => EventInv
  BY DEF Init, EventInv

\* Every step is of one of four kinds, as far as revocations are concerned.
LEMMA StepKinds ==
  ASSUME Next
  PROVE  \/ \E g \in Gateways, n \in Nodes : AdminRevoke(g, n)
         \/ /\ \E g \in Gateways : \E es : Accept(g, es)
            /\ UNCHANGED <<log, clock>>
         \/ /\ \E g \in Gateways, n \in Nodes :
                 revoked' = [revoked EXCEPT ![g] = revoked[g] \ {n}]
            /\ UNCHANGED <<applied, log, clock>>
         \/ /\ \E g \in Gateways : /\ revoked' = [revoked EXCEPT ![g] = {}]
                                    /\ applied' = [applied EXCEPT ![g] = {}]
            /\ UNCHANGED <<log, clock>>
         \/ UNCHANGED <<revoked, applied, log, clock>>
<1>1. ASSUME NEW g \in Gateways, NEW n \in Nodes, Provision(g, n)
      PROVE  revoked' = [revoked EXCEPT ![g] = revoked[g] \ {n}] /\ UNCHANGED <<applied, log, clock>>
  BY <1>1 DEF Provision
<1>2. ASSUME NEW g \in Gateways, NEW e, ReceivePush(g, e) \/ ReceiveForged(g, e)
      PROVE  Accept(g, {e}) /\ UNCHANGED <<log, clock>>
  BY <1>2 DEF ReceivePush, ReceiveForged
<1>3. ASSUME NEW g \in Gateways, AcceptBackfill(g)
      PROVE  Accept(g, task[g].artifacts) /\ UNCHANGED <<log, clock>>
  BY <1>3 DEF AcceptBackfill
<1>4. ASSUME NEW g \in Gateways, TakePush(g) \/ Announce(g) \/ StartBackfill(g) \/ SyncSince(g)
      PROVE  UNCHANGED <<revoked, applied, log, clock>>
  BY <1>4 DEF TakePush, Announce, StartBackfill, SyncSince
<1>5. ASSUME NEW g \in Gateways, NEW p \in Gateways, LearnIdentity(g, p) \/ BackfillFails(g, p)
      PROVE  UNCHANGED <<revoked, applied, log, clock>>
  BY <1>5 DEF LearnIdentity, BackfillFails
<1>6. ASSUME NEW g \in Gateways, Crash(g)
      PROVE  /\ revoked' = [revoked EXCEPT ![g] = {}] /\ applied' = [applied EXCEPT ![g] = {}]
             /\ UNCHANGED <<log, clock>>
  BY <1>6 DEF Crash
<1>7. ASSUME NEW g \in Gateways, Restart(g) PROVE UNCHANGED <<revoked, applied, log, clock>>
  BY <1>7 DEF Restart
<1>8. ASSUME NEW m \in msgs, LosePush(m) PROVE UNCHANGED <<revoked, applied, log, clock>>
  BY <1>8 DEF LosePush, memory
<1>9. QED BY <1>1, <1>2, <1>3, <1>4, <1>5, <1>6, <1>7, <1>8 DEF Next

LEMMA AcceptEvent ==
  ASSUME EventInv, NEW g \in Gateways, NEW es, Accept(g, es)
  PROVE  /\ \A h \in Gateways : NewEvent(h)
         /\ DOMAIN revoked' = Gateways /\ DOMAIN applied' = Gateways
<1>1. ASSUME NEW h \in Gateways, NEW n \in revoked'[h] \ revoked[h]
      PROVE  \E e \in applied'[h] \ applied[h] : e.node = n
  <2>1. h = g /\ n \in {e.node : e \in NewlyApplied(g, es)}
    BY <1>1 DEF Accept, EventInv
  <2>2. PICK e \in NewlyApplied(g, es) : e.node = n
    BY <2>1
  <2>3. e \in applied'[g] \ applied[g]
    BY DEF NewlyApplied, Accept, EventInv
  <2>4. QED BY <2>1, <2>2, <2>3
<1>2. QED BY <1>1 DEF NewEvent, Accept, EventInv

LEMMA AdminRevokeEvent ==
  ASSUME EventInv, NEW g \in Gateways, NEW n \in Nodes, AdminRevoke(g, n)
  PROVE  (\A h \in Gateways : NewEvent(h)) /\ EventInv'
<1>1. PICK e : e = Minted(g, n, clock)
  OBVIOUS
<1>2. e.node = n /\ e.at = clock
  BY <1>1 DEF Minted
<1>3. /\ log' = [log EXCEPT ![g] = log[g] \cup {e}]
      /\ revoked' = [revoked EXCEPT ![g] = revoked[g] \cup ({n} \cap registered[g])]
      /\ clock' = clock + 1 /\ UNCHANGED applied
  BY <1>1 DEF AdminRevoke
<1>4. e \in log'[g] \ log[g]
  BY <1>2, <1>3 DEF EventInv
<1>5. ASSUME NEW h \in Gateways, NEW k \in revoked'[h] \ revoked[h] PROVE h = g /\ k = n
  BY <1>3, <1>5 DEF EventInv
<1>6. \A h \in Gateways : NewEvent(h)
  BY <1>2, <1>4, <1>5 DEF NewEvent
<1>7. EventInv'
  BY <1>2, <1>3 DEF EventInv
<1>8. QED BY <1>6, <1>7

LEMMA StepEvent ==
  ASSUME EventInv, [Next]_fvars
  PROVE  (\A h \in Gateways : NewEvent(h)) /\ EventInv'
<1>1. ASSUME NEW g \in Gateways, NEW n \in Nodes, AdminRevoke(g, n)
      PROVE  (\A h \in Gateways : NewEvent(h)) /\ EventInv'
  BY <1>1, AdminRevokeEvent
<1>2. ASSUME NEW g \in Gateways, NEW es, Accept(g, es), UNCHANGED <<log, clock>>
      PROVE  (\A h \in Gateways : NewEvent(h)) /\ EventInv'
  <2>1. (\A h \in Gateways : NewEvent(h)) /\ DOMAIN revoked' = Gateways /\ DOMAIN applied' = Gateways
    BY <1>2, AcceptEvent
  <2>2. QED BY <1>2, <2>1 DEF EventInv
<1>3. ASSUME NEW g \in Gateways, NEW n \in Nodes,
             revoked' = [revoked EXCEPT ![g] = revoked[g] \ {n}],
             UNCHANGED <<applied, log, clock>>
      PROVE  (\A h \in Gateways : NewEvent(h)) /\ EventInv'
  BY <1>3 DEF EventInv, NewEvent
<1>4. ASSUME NEW g \in Gateways, revoked' = [revoked EXCEPT ![g] = {}],
             applied' = [applied EXCEPT ![g] = {}], UNCHANGED <<log, clock>>
      PROVE  (\A h \in Gateways : NewEvent(h)) /\ EventInv'
  BY <1>4 DEF EventInv, NewEvent
<1>5. CASE UNCHANGED <<revoked, applied, log, clock>>
  BY <1>5 DEF EventInv, NewEvent
<1>6. CASE UNCHANGED fvars
  BY <1>5, <1>6 DEF fvars, memory
<1>7. QED BY <1>1, <1>2, <1>3, <1>4, <1>5, <1>6, StepKinds

\* RevokedByNewEvent: a device that was provisioned anew is revoked again only
\* by an event its gateway has not applied, never by the old one coming late.
THEOREM OncePerEvent == Spec => RevokedByNewEvent
<1>1. EventInv /\ [Next]_fvars => EventInv'
  BY StepEvent
<1>2. EventInv /\ [Next]_fvars => [\A g \in Gateways : NewEvent(g)]_fvars
  BY StepEvent
<1>3. Spec => [][\A g \in Gateways : NewEvent(g)]_fvars
  BY <1>1, <1>2, InitEvent, PTL DEF Spec
<1>4. QED BY <1>3 DEF RevokedByNewEvent, NewEvent

-----------------------------------------------------------------------------
(* The federation bus                                                      *)

\* The keys a list names are finitely many.
LEMMA ListedKeys ==
  ASSUME NEW list \in Seq(Keys)
  PROVE  ToSet(list) \subseteq Keys /\ IsFiniteSet(ToSet(list))
<1>1. ToSet(list) = {list[i] : i \in 1 .. Len(list)} /\ ToSet(list) \subseteq Keys
  BY DEF ToSet
<1>2. IsFiniteSet(1 .. Len(list))
  BY FS_Interval
<1>3. list \in Surjection(1 .. Len(list), ToSet(list))
  BY <1>1 DEF Surjection
<1>4. IsFiniteSet(ToSet(list))
  BY <1>2, <1>3, FS_Surjection
<1>5. QED BY <1>1, <1>4

LEMMA InitBus == BusInit => BusInv
  BY BusAssumption DEF BusInit, BusInv, TypeOK

LEMMA RegisterBus ==
  ASSUME BusInv, NEW x \in Buses, NEW b \in Biomes, Register(x, b)
  PROVE  BusInv'
<1> DEFINE g   == Genesis[b]
           new == GenesisKey(b)
<1>1. lost = {}
  BY DEF BusInv, Register
<1>2. /\ g.key \in Keys /\ g.epoch \in Epochs
      /\ g.custodians.list \in Seq(Keys) /\ g.custodians.threshold \in Nat
  BY BusAssumption DEF Declaration
<1>3. new \in BiomeKey
  BY <1>2, ListedKeys DEF BiomeKey, GenesisKey
<1>4. bound' = [bound EXCEPT ![x] = [c \in DOMAIN bound[x] \cup {b} |->
                                      IF c = b THEN new ELSE bound[x][c]]]
  BY DEF Register
<1>5. /\ DOMAIN bound' = Buses
      /\ \A y \in Buses \ {x} : bound'[y] = bound[y]
      /\ DOMAIN bound'[x] = DOMAIN bound[x] \cup {b}
      /\ bound'[x][b] = new
      /\ \A c \in DOMAIN bound[x] : bound'[x][c] = bound[x][c]
  BY <1>4 DEF BusInv, TypeOK, Register
<1>6. TypeOK'
  BY <1>3, <1>5 DEF BusInv, TypeOK, Register
<1>7. QED BY <1>1, <1>6 DEF BusInv, Register

LEMMA SignedStatements ==
  ASSUME TypeOK, NEW st \in Signed
  PROVE  /\ st \in Statement
         /\ st.biome \in Biomes /\ st.from \in Nat /\ st.to \in Epochs /\ st.key \in Keys
         /\ st.custodians = <<>> \/
              \E d \in Declarations : /\ st.custodians = <<d>>
                                      /\ d.list \in Seq(Keys) /\ d.threshold \in Nat
<1>1. st \in Statement
  BY DEF TypeOK, Signed
<1>2. st.custodians \in Option(Declarations)
  BY <1>1 DEF Statement
<1>3. QED BY <1>1, <1>2, BusAssumption DEF Statement, Option, Epochs, Declaration

\* A succession that a bus applies favours no lost key.
LEMMA AppliedIsAlive ==
  ASSUME BusInv, NEW x \in Buses, NEW st \in Signed, Rotate(x, st), NEW k \in lost
  PROVE  ~Names(st, k)
<1> DEFINE cur == bound[x][st.biome]
<1>1. st.biome \in Biomes /\ st.from = cur.epoch /\ st.from \in Nat
  BY SignedStatements DEF BusInv, Rotate, Current
<1>2. cur.key \notin lost /\ cur.custodians \cap lost = {}
  BY <1>1 DEF BusInv
<1>3. cur.threshold \in Nat
  BY <1>1 DEF BusInv, TypeOK, BiomeKey, Rotate
<1>4. ~(Signers(st) \subseteq lost)
  <2>1. CASE Continuity(cur, st)
    BY <2>1, <1>2 DEF Continuity
  <2>2. CASE Recovered(cur, st)
    <3>1. SUFFICES ASSUME Signers(st) \subseteq lost PROVE FALSE
      OBVIOUS
    <3>2. Signers(st) \cap cur.custodians = {}
      BY <3>1, <1>2
    <3>3. Cardinality(Signers(st) \cap cur.custodians) = 0
      BY <3>2, FS_EmptySet
    <3>4. QED BY <2>2, <3>3, <1>3 DEF Recovered
  <2>3. QED BY <2>1, <2>2 DEF Rotate, Authorised
<1>5. ~Dead(st)
  BY <1>1, <1>4 DEF Dead
<1>6. QED BY <1>5 DEF BusInv

LEMMA RotateBus ==
  ASSUME BusInv, NEW x \in Buses, NEW st \in Signed, Rotate(x, st)
  PROVE  BusInv'
<1> DEFINE b   == st.biome
           cur == bound[x][b]
           new == Succeeded(cur, st)
<1>1. /\ st \in Statement /\ b \in Biomes /\ b \in DOMAIN bound[x]
      /\ st.from \in Nat /\ st.to \in Epochs /\ st.to > st.from /\ st.from = cur.epoch
  BY SignedStatements DEF BusInv, Rotate, Current
<1>2. cur \in BiomeKey
  BY <1>1 DEF BusInv, TypeOK
<1>3. /\ st.key \in Keys
      /\ st.custodians = <<>> \/ \E d \in Declarations :
           st.custodians = <<d>> /\ d.list \in Seq(Keys) /\ d.threshold \in Nat
  BY SignedStatements DEF BusInv
<1>4. /\ new \in BiomeKey
      /\ new.epoch = st.to /\ new.key = st.key
      /\ \A k \in new.custodians : k \in cur.custodians \/ Names(st, k)
  <2>1. CASE st.custodians = <<>>
    BY <2>1, <1>1, <1>2, <1>3 DEF Succeeded, BiomeKey
  <2>2. CASE st.custodians # <<>>
    <3>1. PICK d \in Declarations : st.custodians = <<d>> /\ d.list \in Seq(Keys)
                                    /\ d.threshold \in Nat
      BY <2>2, <1>3
    <3>2. new = [key |-> st.key, epoch |-> st.to, custodians |-> ToSet(d.list),
                 threshold |-> d.threshold]
      BY <3>1 DEF Succeeded
    <3>3. DOMAIN st.custodians = {1} /\ st.custodians[1] = d
      BY <3>1
    <3>4. new \in BiomeKey
      BY <3>1, <3>2, <1>1, <1>3, ListedKeys DEF BiomeKey
    <3>5. \A k \in ToSet(d.list) : Names(st, k)
      BY <3>3 DEF Names
    <3>6. QED BY <3>2, <3>4, <3>5
  <2>3. QED BY <2>1, <2>2
<1>5. /\ bound' = [bound EXCEPT ![x][b] = new]
      /\ rotated' = rotated \cup {st} /\ UNCHANGED <<seen, signed, lost, strays>>
  BY DEF Rotate
<1>6. /\ DOMAIN bound' = Buses
      /\ \A y \in Buses : DOMAIN bound'[y] = DOMAIN bound[y]
      /\ bound'[x][b] = new
      /\ \A y \in Buses : \A c \in DOMAIN bound[y] :
           y # x \/ c # b => bound'[y][c] = bound[y][c]
  BY <1>1, <1>5 DEF BusInv, TypeOK
<1>7. TypeOK'
  BY <1>1, <1>4, <1>5, <1>6 DEF BusInv, TypeOK
<1>8. strays' = {}
  BY <1>5 DEF BusInv
<1>9. ASSUME NEW k \in lost, NEW y \in Buses, NEW c \in Biomes
       PROVE  /\ c \in DOMAIN bound'[y]
              /\ k # bound'[y][c].key /\ k \notin bound'[y][c].custodians
  <2>1. /\ c \in DOMAIN bound[y]
        /\ k # bound[y][c].key /\ k \notin bound[y][c].custodians
    BY DEF BusInv
  <2>2. ~Names(st, k)
    BY AppliedIsAlive
  <2>3. k # new.key /\ (y = x /\ c = b => k \notin new.custodians)
    BY <2>1, <2>2, <1>4 DEF Names
  <2>4. QED BY <2>1, <2>3, <1>6
<1>10. ASSUME NEW k \in lost, NEW s \in Signed, Names(s, k)
       PROVE  Dead(s)'
  <2>1. Dead(s)
    BY <1>10 DEF BusInv
  <2>2. s.biome \in Biomes /\ s.from \in Nat
    BY SignedStatements DEF BusInv
  <2>3. \A y \in Buses : s.biome \in DOMAIN bound[y]
    BY <2>2 DEF BusInv
  <2>4. \A y \in Buses : s.from < bound[y][s.biome].epoch => s.from < bound'[y][s.biome].epoch
    BY <2>2, <2>3, <1>1, <1>4, <1>6 DEF Epochs
  <2>5. Signers(s)' = Signers(s)
    BY <1>5 DEF Signers
  <2>6. QED BY <2>1, <2>4, <2>5, <1>5 DEF Dead
<1>11. QED
  BY <1>5, <1>7, <1>8, <1>9, <1>10 DEF BusInv, Signed

LEMMA PublishBus ==
  ASSUME BusInv, NEW x \in Buses, NEW p \in Publication, Publish(x, p)
  PROVE  BusInv'
<1>1. /\ seen' = [seen EXCEPT ![x] = seen[x] \cup {Identity(p)}]
      /\ UNCHANGED <<bound, signed, lost, rotated>>
      /\ p.biome \in DOMAIN bound[x] /\ bound[x][p.biome].key = p.signer
  BY DEF Publish
<1>2. PICK I : I = {Identity(q) : q \in Publication}
  OBVIOUS
<1>3. Identity(p) \in I /\ seen \in [Buses -> SUBSET I]
  BY <1>2 DEF BusInv, TypeOK
<1>4. seen' \in [Buses -> SUBSET I]
  BY <1>1, <1>3
<1>5. p.signer \notin lost
  BY <1>1 DEF BusInv, TypeOK
<1>6. strays' = {}
  BY <1>5 DEF Publish, BusInv
<1>7. TypeOK'
  BY <1>1, <1>2, <1>4, <1>6 DEF BusInv, TypeOK
<1>8. QED BY <1>1, <1>6, <1>7 DEF BusInv, Signed, Dead, Signers

LEMMA SignBus ==
  ASSUME BusInv, NEW k \in Keys, NEW st \in Successions, Sign(k, st)
  PROVE  BusInv'
<1>1. /\ signed' = signed \cup {<<k, st>>} /\ UNCHANGED <<bound, seen, lost, rotated, strays>>
  BY DEF Sign
<1>2. TypeOK'
  BY <1>1, BusAssumption DEF BusInv, TypeOK
<1>3. ASSUME NEW l \in lost, NEW s \in Signed', Names(s, l)
      PROVE  Dead(s)'
  <2>1. CASE s # st
    <3>1. s \in Signed /\ Signers(s)' = Signers(s)
      BY <2>1, <1>1 DEF Signed, Signers
    <3>2. QED BY <3>1, <1>1, <1>3 DEF BusInv, Dead
  <2>2. CASE s = st
    <3>1. k \in lost
      BY <2>2, <1>3 DEF Sign
    <3>2. Signers(s)' = Signers(s) \cup {k}
      BY <2>2, <1>1 DEF Signers
    <3>3. s \notin Signed => Signers(s) = {}
      BY DEF Signed, Signers
    <3>4. s \in Signed => Dead(s)
      BY <1>3 DEF BusInv
    <3>5. QED BY <3>1, <3>2, <3>3, <3>4, <1>1 DEF Dead
  <2>3. QED BY <2>1, <2>2
<1>4. QED BY <1>1, <1>2, <1>3 DEF BusInv

LEMMA LoseBus ==
  ASSUME BusInv, NEW k \in Keys, Lose(k)
  PROVE  BusInv'
<1>1. /\ lost' = lost \cup {k} /\ UNCHANGED <<bound, seen, signed, rotated, strays>>
      /\ Retired(k)
  BY DEF Lose
<1>2. TypeOK'
  BY <1>1 DEF BusInv, TypeOK
<1>3. ASSUME NEW l \in lost', NEW st \in Signed, Names(st, l)
      PROVE  Dead(st)'
  <2>1. Signers(st)' = Signers(st)
    BY <1>1 DEF Signers
  <2>2. CASE l \in lost
    BY <2>1, <2>2, <1>1, <1>3 DEF BusInv, Dead
  <2>3. CASE l = k
    <3>1. st.biome \in Biomes
      BY SignedStatements DEF BusInv
    <3>2. \A x \in Buses : st.from < bound[x][st.biome].epoch
      BY <2>3, <3>1, <1>1, <1>3 DEF Retired
    <3>3. QED BY <3>2, <1>1 DEF Dead
  <2>4. QED BY <2>2, <2>3, <1>1
<1>4. \A l \in lost', x \in Buses, b \in Biomes :
        /\ b \in DOMAIN bound[x]
        /\ l # bound[x][b].key /\ l \notin bound[x][b].custodians
  BY <1>1 DEF BusInv, Retired
<1>5. Signed' = Signed
  BY <1>1 DEF Signed
<1>6. QED BY <1>1, <1>2, <1>3, <1>4, <1>5 DEF BusInv

LEMMA StepBus == BusInv /\ [BusNext]_vars => BusInv'
<1> SUFFICES ASSUME BusInv, [BusNext]_vars PROVE BusInv'
  OBVIOUS
<1>1. CASE UNCHANGED vars
  BY <1>1 DEF vars, BusInv, TypeOK, Signed, Dead, Signers
<1>2. CASE BusNext
  BY <1>1, <1>2, RegisterBus, RotateBus, PublishBus, SignBus, LoseBus DEF BusNext, RegisterAgain
<1>3. QED BY <1>1, <1>2

LEMMA BusInvariant == BusSpec => []BusInv
  BY InitBus, StepBus, PTL DEF BusSpec

\* register_biome, rotate_biome, publish and publish_event: a key out of use
\* that falls into other hands is bound to no biome again and speaks for none,
\* for any number of buses, biomes, keys, custodians and epochs.
THEOREM TakeoversEnd == BusSpec => []RetiredKeysPowerless
<1>1. BusInv => RetiredKeysPowerless
  BY DEF BusInv, RetiredKeysPowerless, TypeOK
<1>2. QED BY <1>1, BusInvariant, PTL

-----------------------------------------------------------------------------
(* One line of bindings                                                    *)

\* What a biome's line is made of.
LEMMA GenesisIsBinding ==
  ASSUME NEW b \in Biomes
  PROVE  /\ GenesisKey(b) \in BiomeKey /\ Genesis[b].epoch \in Epochs
         /\ GenesisKey(b).epoch = Genesis[b].epoch
         /\ IsFiniteSet(GenesisKey(b).custodians)
<1>1. /\ Genesis[b].key \in Keys /\ Genesis[b].epoch \in Epochs
      /\ Genesis[b].custodians.list \in Seq(Keys) /\ Genesis[b].custodians.threshold \in Nat
  BY BusAssumption DEF Declaration
<1> QED
  BY <1>1, ListedKeys DEF BiomeKey, GenesisKey

\* A succession leaves finitely many custodians.
LEMMA SucceededFinite ==
  ASSUME TypeOK, NEW st \in Signed, NEW cur, IsFiniteSet(cur.custodians)
  PROVE  IsFiniteSet(Succeeded(cur, st).custodians)
<1>1. CASE st.custodians = <<>>
  BY <1>1 DEF Succeeded
<1>2. CASE st.custodians # <<>>
  <2>1. PICK d \in Declarations : st.custodians = <<d>> /\ d.list \in Seq(Keys)
    BY <1>2, SignedStatements
  <2>2. Succeeded(cur, st).custodians = ToSet(d.list)
    BY <2>1 DEF Succeeded
  <2> QED
    BY <2>1, <2>2, ListedKeys
<1> QED
  BY <1>1, <1>2

\* An authorisation is never lost: signatures only come to it.
LEMMA LeadsStays ==
  ASSUME NEW cur, NEW st, Leads(cur, st), IsFiniteSet(cur.custodians), cur.threshold \in Nat,
         signed \subseteq signed'
  PROVE  Leads(cur, st)'
<1>1. Signers(st) \subseteq Signers(st)'
  BY DEF Signers
<1>2. PICK S : S = Signers(st) \cap cur.custodians
  OBVIOUS
<1>3. PICK T : T = Signers(st)' \cap cur.custodians
  OBVIOUS
<1>4. S \subseteq T /\ IsFiniteSet(T)
  BY <1>1, <1>2, <1>3, FS_Subset
<1>5. Cardinality(S) <= Cardinality(T) /\ Cardinality(S) \in Nat /\ Cardinality(T) \in Nat
  BY <1>4, FS_Subset, FS_CardinalityType
<1>6. Continuity(cur, st) => Continuity(cur, st)'
  BY <1>1 DEF Continuity
<1>7. Recovered(cur, st) => Recovered(cur, st)'
  BY <1>2, <1>3, <1>5 DEF Recovered
<1>8. Authorised(cur, st)'
  BY <1>6, <1>7 DEF Leads, Authorised
<1> QED
  BY <1>8 DEF Leads

\* Every epoch on a line is an epoch, the ends of an applied succession's too.
LEMMA ReachedEpochs ==
  ASSUME TypeOK, NEW b \in Biomes
  PROVE  /\ \A e \in Reached(b) : e \in Epochs /\ e \in Nat
         /\ \A s \in rotated : s.biome = b => s.to \in Reached(b)
<1>1. \A s \in rotated : s.to \in Epochs
  BY DEF TypeOK, Statement
<1>2. \A e \in Reached(b) : e \in Epochs
  BY <1>1, GenesisIsBinding DEF Reached
<1>3. \A s \in rotated : s.biome = b => s.to \in Reached(b)
  BY DEF Reached
<1> QED
  BY <1>2, <1>3 DEF Epochs

LEMMA InitLine == BusInit => LineInv
<1> SUFFICES ASSUME BusInit, NEW b \in Biomes PROVE \E H \in [Epochs -> BiomeKey] : Line(b, H)
  BY DEF LineInv
<1> DEFINE H == [e \in Epochs |-> GenesisKey(b)]
<1>1. H \in [Epochs -> BiomeKey] /\ H[Genesis[b].epoch] = GenesisKey(b)
  BY GenesisIsBinding
<1>2. rotated = {} /\ \A x \in Buses : DOMAIN bound[x] = {}
  BY DEF BusInit
<1>3. Reached(b) = {Genesis[b].epoch} /\ Genesis[b].epoch \in Nat
  BY <1>2, GenesisIsBinding DEF Reached, Epochs
<1>4. Line(b, H)
  <2> HIDE DEF H
  <2>1. \A d \in Reached(b) : IsFiniteSet(H[d].custodians)
    BY <1>1, <1>3, GenesisIsBinding
  <2> QED
    BY <1>1, <1>2, <1>3, <2>1 DEF Line
<1> QED
  BY <1>1, <1>4

LEMMA SameLeads ==
  ASSUME signed' = signed, NEW cur, NEW st
  PROVE  Leads(cur, st)' <=> Leads(cur, st)
  BY DEF Leads, Authorised, Continuity, Recovered, Signers

LEMMA RegisterLine ==
  ASSUME BusInv, LineInv, NEW x \in Buses, NEW c \in Biomes, Register(x, c)
  PROVE  LineInv'
<1>1. /\ DOMAIN bound' = Buses /\ UNCHANGED <<rotated, signed>>
      /\ \A y \in Buses, b \in Biomes :
           \/ y = x /\ b = c /\ b \in DOMAIN bound'[y] /\ bound'[y][b] = GenesisKey(b)
           \/ (b \in DOMAIN bound'[y] <=> b \in DOMAIN bound[y]) /\ bound'[y][b] = bound[y][b]
           \/ b \notin DOMAIN bound'[y]
  BY DEF Register, BusInv, TypeOK
<1>2. ASSUME NEW b \in Biomes, NEW H \in [Epochs -> BiomeKey], Line(b, H)
      PROVE  Line(b, H)'
  <2>1. Reached(b)' = Reached(b)
    BY <1>1 DEF Reached
  <2>2. ASSUME NEW y \in Buses, b \in DOMAIN bound'[y]
        PROVE  bound'[y][b].epoch \in Reached(b) /\ bound'[y][b] = H[bound'[y][b].epoch]
    <3>1. CASE bound'[y][b] = GenesisKey(b)
      BY <1>2, <3>1, GenesisIsBinding DEF Line, Reached
    <3>2. CASE b \in DOMAIN bound[y] /\ bound'[y][b] = bound[y][b]
      BY <1>2, <3>2 DEF Line
    <3> QED
      BY <1>1, <2>2, <3>1, <3>2
  <2>3. \A cur, st : Leads(cur, st)' <=> Leads(cur, st)
    BY <1>1, SameLeads
  <2> QED
    BY <1>1, <1>2, <2>1, <2>2, <2>3 DEF Line
<1> QED
  BY <1>1, <1>2 DEF LineInv, Forked

\* A succession that another bus has applied before: the bus catches up.  A new
\* one leads on from the last epoch of a line, or it is the second of its epoch.
LEMMA RotateLine ==
  ASSUME BusInv, LineInv, NEW x \in Buses, NEW st \in Signed, Rotate(x, st)
  PROVE  LineInv'
<1> DEFINE c   == st.biome
           cur == bound[x][c]
           new == Succeeded(cur, st)
<1>1. /\ st \in Statement /\ c \in Biomes /\ c \in DOMAIN bound[x]
      /\ st.from \in Nat /\ st.to \in Epochs /\ st.to \in Nat
      /\ st.to > st.from /\ st.from = cur.epoch
  BY SignedStatements DEF BusInv, Rotate, Current, Epochs
<1>2. /\ bound' = [bound EXCEPT ![x][c] = new] /\ rotated' = rotated \cup {st}
      /\ rotated \subseteq Statement /\ signed' = signed /\ Leads(cur, st)
  BY <1>1 DEF Rotate, BusInv, TypeOK, Leads
<1>3. /\ \A y \in Buses : DOMAIN bound'[y] = DOMAIN bound[y]
      /\ bound'[x][c] = new /\ new.epoch = st.to
      /\ \A y \in Buses : \A b \in DOMAIN bound[y] :
           y # x \/ b # c => bound'[y][b] = bound[y][b]
  BY <1>1, <1>2 DEF BusInv, TypeOK, Succeeded
<1>4. new \in BiomeKey
  <2>1. TypeOK'
    BY RotateBus DEF BusInv
  <2> QED
    BY <1>1, <1>3, <2>1 DEF TypeOK
<1> HIDE DEF new
<1>5. \A d, s : Leads(d, s)' <=> Leads(d, s)
  BY <1>2, SameLeads
<1>6. \A b \in Biomes : Forked(b) => Forked(b)'
  BY <1>2 DEF Forked
<1>7. ASSUME NEW b \in Biomes, b # c, NEW H \in [Epochs -> BiomeKey], Line(b, H)
      PROVE  Line(b, H)'
  <2>1. {s \in rotated' : s.biome = b} = {s \in rotated : s.biome = b}
    BY <1>2, <1>7
  <2>2. Reached(b)' = Reached(b)
    BY <2>1 DEF Reached
  <2>3. /\ \A s \in rotated' : s.biome = b => s \in rotated
        /\ \A s \in rotated : s \in rotated'
    BY <1>2, <1>7
  <2>4. \A y \in Buses : b \in DOMAIN bound'[y] =>
          b \in DOMAIN bound[y] /\ bound'[y][b] = bound[y][b]
    BY <1>3, <1>7
  <2> QED
    BY <1>5, <1>7, <2>2, <2>3, <2>4 DEF Line
<1>8. ASSUME NEW H \in [Epochs -> BiomeKey], Line(c, H)
      PROVE  Forked(c)' \/ \E G \in [Epochs -> BiomeKey] : Line(c, G)'
  <2>1. cur = H[st.from] /\ st.from \in Reached(c)
    BY <1>1, <1>8 DEF Line
  <2>2. CASE st \in rotated
    <3>1. rotated' = rotated /\ Reached(c)' = Reached(c)
      BY <1>2, <2>2 DEF Reached
    <3>2. new = H[st.to] /\ st.to \in Reached(c)
      BY <1>8, <2>1, <2>2 DEF Line, Reached, new
    <3>3. ASSUME NEW y \in Buses, c \in DOMAIN bound'[y]
          PROVE  bound'[y][c].epoch \in Reached(c)' /\ bound'[y][c] = H[bound'[y][c].epoch]
      <4>1. CASE y = x
        BY <1>3, <3>1, <3>2, <4>1
      <4>2. CASE y # x
        BY <1>1, <1>3, <1>8, <3>1, <3>3, <4>2 DEF Line
      <4> QED
        BY <4>1, <4>2
    <3>4. Line(c, H)'
      BY <1>5, <1>8, <3>1, <3>3 DEF Line
    <3> QED
      BY <1>8, <3>4
  <2>3. CASE st \notin rotated /\ ~Forked(c)'
    <3> PICK G \in [Epochs -> BiomeKey] : G = [H EXCEPT ![st.to] = new]
      BY <1>1, <1>4
    <3>1. \A s \in rotated : s.biome = c => s.from # st.from
      BY <1>2, <2>3 DEF Forked
    <3>2. \A e \in Reached(c) : e \in Nat /\ e <= st.from
      <4>1. SUFFICES ASSUME NEW e \in Reached(c), e > st.from PROVE FALSE
        BY <1>1, ReachedEpochs DEF BusInv
      <4>2. \E s \in rotated : s.biome = c /\ s.from = st.from
        BY <1>1, <1>8, <2>1, <4>1, ReachedEpochs DEF BusInv, Line
      <4> QED
        BY <3>1, <4>2
    <3>3. st.to \notin Reached(c)
      BY <1>1, <3>2
    <3>4. Reached(c)' = Reached(c) \cup {st.to}
      BY <1>2 DEF Reached
    <3>5. /\ G \in [Epochs -> BiomeKey] /\ G[st.to] = new
          /\ \A e \in Reached(c) : G[e] = H[e]
      <4>1. Reached(c) \subseteq Epochs
        BY <1>1, ReachedEpochs DEF BusInv
      <4> QED
        BY <1>1, <1>4, <3>3, <4>1
    <3>6. G[Genesis[c].epoch] = GenesisKey(c)
      BY <1>8, <3>5 DEF Line, Reached
    <3>7. ASSUME NEW s \in rotated', s.biome = c
          PROVE  /\ s.from \in Reached(c)' /\ G[s.to] = Succeeded(G[s.from], s)
                 /\ Leads(G[s.from], s)'
      <4>1. CASE s \in rotated
        <5>1. s.from \in Reached(c) /\ s.to \in Reached(c)
              /\ H[s.to] = Succeeded(H[s.from], s) /\ Leads(H[s.from], s)
          BY <1>8, <3>7, <4>1 DEF Line, Reached
        <5> QED
          BY <1>5, <3>4, <3>5, <5>1
      <4>2. CASE s = st
        BY <1>5, <1>2, <2>1, <3>4, <3>5, <4>2 DEF new
      <4> QED
        BY <1>2, <4>1, <4>2
    <3>8. ASSUME NEW d \in Reached(c)', NEW e \in Reached(c)', d < e
          PROVE  \E s \in rotated' : s.biome = c /\ s.from = d
      <4>1. d \in Reached(c)
        BY <1>1, <3>2, <3>4, <3>8
      <4>2. CASE d = st.from
        BY <1>2, <4>2
      <4>3. CASE d < st.from
        BY <1>2, <1>8, <2>1, <4>1, <4>3 DEF Line
      <4> QED
        BY <1>1, <3>2, <4>1, <4>2, <4>3
    <3>9. ASSUME NEW y \in Buses, c \in DOMAIN bound'[y]
          PROVE  bound'[y][c].epoch \in Reached(c)' /\ bound'[y][c] = G[bound'[y][c].epoch]
      <4>1. CASE y = x
        BY <1>3, <3>4, <3>5, <4>1
      <4>2. CASE y # x
        BY <1>1, <1>3, <1>8, <3>4, <3>5, <3>9, <4>2 DEF Line
      <4> QED
        BY <4>1, <4>2
    <3>10. \A d \in Reached(c)' : IsFiniteSet(G[d].custodians)
      <4>1. IsFiniteSet(cur.custodians)
        BY <1>8, <2>1 DEF Line
      <4>2. IsFiniteSet(new.custodians)
        BY <4>1, SucceededFinite DEF BusInv, new
      <4> QED
        BY <1>8, <3>4, <3>5, <4>2 DEF Line
    <3>11. Line(c, G)'
      BY <3>6, <3>7, <3>8, <3>9, <3>10 DEF Line
    <3> QED
      BY <3>5, <3>11
  <2>4. CASE Forked(c)'
    BY <2>4
  <2> QED
    BY <2>2, <2>3, <2>4
<1> QED
  BY <1>6, <1>7, <1>8 DEF LineInv

\* A step that moves no binding.
LEMMA QuietLine ==
  ASSUME BusInv, LineInv, UNCHANGED <<bound, rotated>>, signed \subseteq signed'
  PROVE  LineInv'
<1>1. ASSUME NEW b \in Biomes, NEW H \in [Epochs -> BiomeKey], Line(b, H)
      PROVE  Line(b, H)'
  <2>1. Reached(b)' = Reached(b)
    BY DEF Reached
  <2>2. ASSUME NEW st \in rotated, st.biome = b PROVE Leads(H[st.from], st)'
    <3>1. /\ st.from \in Reached(b) /\ Leads(H[st.from], st)
          /\ IsFiniteSet(H[st.from].custodians)
      BY <1>1, <2>2 DEF Line
    <3>2. H[st.from] \in BiomeKey
      BY <1>1, <3>1, ReachedEpochs DEF BusInv
    <3> QED
      BY <3>1, <3>2, LeadsStays DEF BiomeKey
  <2> QED
    BY <1>1, <2>1, <2>2 DEF Line
<1> QED
  BY <1>1 DEF LineInv, Forked

LEMMA StepLine == BusInv /\ LineInv /\ [BusNext]_vars => LineInv'
<1> SUFFICES ASSUME BusInv, LineInv, [BusNext]_vars PROVE LineInv'
  OBVIOUS
<1>1. CASE UNCHANGED <<bound, rotated>> /\ signed \subseteq signed'
  BY <1>1, QuietLine
<1>2. CASE UNCHANGED vars
  BY <1>1, <1>2 DEF vars
<1>3. CASE BusNext
  BY <1>1, <1>2, <1>3, RegisterLine, RotateLine DEF BusNext, RegisterAgain, Publish, Sign, Lose
<1> QED
  BY <1>2, <1>3

LEMMA LineInvariant == BusSpec => []LineInv
  BY InitLine, BusInvariant, StepLine, PTL DEF BusSpec

\* rotate_biome's epochs: buses that are at one epoch of a biome are bound
\* alike, whatever was lost, late or repeated, as long as its holders have not
\* authorised two successions of one epoch.
THEOREM OneLinePerBiome == BusSpec => []ForksNeedTwoSuccessions
<1>1. BusInv /\ LineInv => ForksNeedTwoSuccessions
  BY DEF BusInv, TypeOK, LineInv, Line, ForksNeedTwoSuccessions
<1> QED
  BY <1>1, LineInvariant, BusInvariant, PTL

\* A bus that was cut off for any number of rotations can take them over one
\* after the other: what another bus has applied, the bus behind it accepts
\* in its turn, by the keys that it has bound itself.
THEOREM LaggardsCatchUp == BusSpec => []CatchUp
<1>1. BusInv /\ LineInv => CatchUp
  <2> SUFFICES ASSUME BusInv, LineInv,
                      NEW x \in Buses, NEW y \in Buses,
                      NEW b \in DOMAIN bound[x] \cap DOMAIN bound[y],
                      bound[x][b].epoch < bound[y][b].epoch, ~Forked(b)
               PROVE  \E st \in rotated :
                        /\ st.biome = b /\ st.from = bound[x][b].epoch /\ st.to > st.from
                        /\ Authorised(bound[x][b], st)
                        /\ \A i \in DOMAIN st.custodians : Declarable(st.custodians[i])
    BY DEF CatchUp
  <2>1. b \in Biomes
    BY DEF BusInv, TypeOK
  <2>2. PICK H \in [Epochs -> BiomeKey] : Line(b, H)
    BY <2>1 DEF LineInv
  <2>3. /\ bound[x][b].epoch \in Reached(b) /\ bound[x][b] = H[bound[x][b].epoch]
        /\ bound[y][b].epoch \in Reached(b)
    BY <2>2 DEF Line
  <2>4. PICK st \in rotated : st.biome = b /\ st.from = bound[x][b].epoch
    BY <2>2, <2>3 DEF Line
  <2>5. Leads(bound[x][b], st)
    BY <2>2, <2>3, <2>4 DEF Line
  <2> QED
    BY <2>4, <2>5 DEF Leads
<1> QED
  BY <1>1, LineInvariant, BusInvariant, PTL
=============================================================================
