----------------------------- MODULE Reassembly -----------------------------
(***************************************************************************)
(* The fragment reassembler of rucelium-transport between a link that      *)
(* loses, duplicates and reorders datagrams and the gateway's dispatch.    *)
(* A chunk is identified by the message it was cut from; its position in   *)
(* the chunk vector is its index (from 1).  Unparseable datagrams change   *)
(* nothing and are left out.                                               *)
(*                                                                         *)
(* The pending entries are a sequence in order of insertion, which is the  *)
(* order of (first_seen_ns, seq) as long as the clock is not set back; the *)
(* clock itself is abstracted to the age of each entry in ticks.           *)
(***************************************************************************)
EXTENDS Naturals, Sequences, FiniteSets

CONSTANTS Messages,     \* the messages that devices fragment and send
          From,         \* message -> link-layer sender hint (0 in the daemon)
          MsgId,        \* message -> msg_id its sender chose
          Parts,        \* message -> frag_count
          MaxPending,   \* capacity of the reassembler
          Timeout,      \* FRAG_TIMEOUT_NS, in ticks
          MaxArrivals   \* bound: message -> how often each of its fragments arrives

NoChunk == "missing"

ASSUME ReassemblyAssumption ==
  /\ NoChunk \notin Messages
  /\ Parts \in [Messages -> Nat \ {0}]
  /\ MaxPending \in Nat \ {0}
  /\ Timeout \in Nat
  /\ MaxArrivals \in [Messages -> Nat]

VARIABLES pending,      \* Reassembler.pending, oldest entry first
          outputs,      \* history: the chunk vectors offer has returned
          arrived,      \* history: message -> index -> arrivals
          emitted,      \* history: message -> index -> times it was in an output
          dropped       \* history: keys an entry was ever dropped for

rvars == <<pending, outputs, arrived, emitted, dropped>>

\* The key a fragment is filed under.
LinkKey(m) == <<From[m], MsgId[m]>>

Indices(m) == 1 .. Parts[m]

NoChunks(count) == [i \in 1 .. count |-> NoChunk]

Entry == UNION {[key : {LinkKey(m) : m \in Messages}, count : {n}, received : 0 .. n,
                 chunks : [1 .. n -> Messages \cup {NoChunk}],
                 age : 0 .. Timeout + 1] : n \in {Parts[m] : m \in Messages}}

Held(key) == \E j \in DOMAIN pending : pending[j].key = key

Place(key) == CHOOSE j \in DOMAIN pending : pending[j].key = key

Without(s, j) == [k \in 1 .. Len(s) - 1 |-> IF k < j THEN s[k] ELSE s[k + 1]]
ReassemblyInit ==
  /\ pending = <<>>
  /\ outputs = {}
  /\ arrived = [m \in Messages |-> [i \in Indices(m) |-> 0]]
  /\ emitted = [m \in Messages |-> [i \in Indices(m) |-> 0]]
  /\ dropped = {}

-----------------------------------------------------------------------------
(* offer                                                                   *)

Arrive(m, i) ==
  /\ arrived[m][i] < MaxArrivals[m]
  /\ arrived' = [arrived EXCEPT ![m][i] = @ + 1]

\* Return the assembled chunk vector v.
Emit(v) ==
  /\ outputs' = outputs \cup {v}
  /\ emitted' = [m \in Messages |-> [i \in Indices(m) |->
                   emitted[m][i] + IF i \in DOMAIN v /\ v[i] = m THEN 1 ELSE 0]]

\* The count contradicts the pending entry: Err(Inconsistent), entry dropped.
OfferInconsistent(m, i) ==
  /\ Arrive(m, i)
  /\ Held(LinkKey(m)) /\ pending[Place(LinkKey(m))].count # Parts[m]
  /\ pending' = Without(pending, Place(LinkKey(m)))
  /\ dropped' = dropped \cup {LinkKey(m)}
  /\ UNCHANGED <<outputs, emitted>>

\* Fault: a fragment that is already held starts the message again.
OfferDuplicate_Restarts(m, i) ==
  LET j == Place(LinkKey(m))
  IN /\ Arrive(m, i)
     /\ Held(LinkKey(m)) /\ pending[j].count = Parts[m]
     /\ pending[j].chunks[i] # NoChunk
     /\ pending' = [pending EXCEPT ![j].chunks = [NoChunks(Parts[m]) EXCEPT ![i] = m],
                                   ![j].received = 1]
     /\ UNCHANGED <<outputs, emitted, dropped>>

\* Fault: a duplicate counts as received.
OfferDuplicate_Counted(m, i) ==
  LET j == Place(LinkKey(m))
  IN /\ Arrive(m, i)
     /\ Held(LinkKey(m)) /\ pending[j].count = Parts[m]
     /\ pending[j].chunks[i] # NoChunk
     /\ IF pending[j].received + 1 = Parts[m]
        THEN /\ Emit(pending[j].chunks)
             /\ pending' = Without(pending, j)
        ELSE /\ pending' = [pending EXCEPT ![j].received = @ + 1]
             /\ UNCHANGED <<outputs, emitted>>
     /\ UNCHANGED dropped

\* The index is already held: ignored.
OfferDuplicate(m, i) ==
  LET j == Place(LinkKey(m))
  IN /\ Arrive(m, i)
     /\ Held(LinkKey(m)) /\ pending[j].count = Parts[m]
     /\ pending[j].chunks[i] # NoChunk
     /\ UNCHANGED <<pending, outputs, emitted, dropped>>

\* Fault: the completed entry stays, still without its last chunk.
OfferNext_Kept(m, i) ==
  LET j == Place(LinkKey(m))
      chunks == [pending[j].chunks EXCEPT ![i] = m]
  IN /\ Arrive(m, i)
     /\ Held(LinkKey(m)) /\ pending[j].count = Parts[m]
     /\ pending[j].chunks[i] = NoChunk
     /\ IF pending[j].received + 1 = Parts[m]
        THEN Emit(chunks) /\ UNCHANGED pending
        ELSE /\ pending' = [pending EXCEPT ![j].chunks = chunks, ![j].received = @ + 1]
             /\ UNCHANGED <<outputs, emitted>>
     /\ UNCHANGED dropped

\* One more chunk of a pending message; the last one completes it.
OfferNext(m, i) ==
  LET j == Place(LinkKey(m))
      chunks == [pending[j].chunks EXCEPT ![i] = m]
  IN /\ Arrive(m, i)
     /\ Held(LinkKey(m)) /\ pending[j].count = Parts[m]
     /\ pending[j].chunks[i] = NoChunk
     /\ IF pending[j].received + 1 = Parts[m]
        THEN /\ Emit(chunks)
             /\ pending' = Without(pending, j)
        ELSE /\ pending' = [pending EXCEPT ![j].chunks = chunks, ![j].received = @ + 1]
             /\ UNCHANGED <<outputs, emitted>>
     /\ UNCHANGED dropped

\* A message of one fragment is never stored.
OfferSingle(m, i) ==
  /\ Arrive(m, i)
  /\ ~Held(LinkKey(m)) /\ Parts[m] = 1
  /\ Emit(<<m>>)
  /\ UNCHANGED <<pending, dropped>>

FirstEntry(m, i) == [key |-> LinkKey(m), count |-> Parts[m], received |-> 1,
                     chunks |-> [NoChunks(Parts[m]) EXCEPT ![i] = m], age |-> 0]

\* The first fragment of a message; a full reassembler evicts its oldest entry.
OfferFirst(m, i) ==
  /\ Arrive(m, i)
  /\ ~Held(LinkKey(m)) /\ Parts[m] > 1
  /\ IF Len(pending) >= MaxPending
     THEN /\ pending' = Append(Tail(pending), FirstEntry(m, i))
          /\ dropped' = dropped \cup {Head(pending).key}
     ELSE /\ pending' = Append(pending, FirstEntry(m, i))
          /\ UNCHANGED dropped
  /\ UNCHANGED <<outputs, emitted>>

Offer(m, i) ==
  \/ OfferInconsistent(m, i) \/ OfferDuplicate(m, i) \/ OfferNext(m, i)
  \/ OfferSingle(m, i) \/ OfferFirst(m, i)

-----------------------------------------------------------------------------
(* Time                                                                    *)

\* Time passes; ages beyond the timeout need not be told apart.
Tick ==
  /\ \E j \in DOMAIN pending : pending[j].age <= Timeout
  /\ pending' = [j \in DOMAIN pending |->
                   [pending[j] EXCEPT !.age = IF @ <= Timeout THEN @ + 1 ELSE @]]
  /\ UNCHANGED <<outputs, arrived, emitted, dropped>>

Stale(e) == e.age > Timeout

\* Fault: the comparison of evict_older_than is the wrong way round.
EvictOlder_Inverted ==
  /\ \E j \in DOMAIN pending : ~Stale(pending[j])
  /\ pending' = SelectSeq(pending, Stale)
  /\ dropped' = dropped \cup {pending[j].key : j \in {k \in DOMAIN pending : ~Stale(pending[k])}}
  /\ UNCHANGED <<outputs, arrived, emitted>>

\* The retention timer's evict_older_than(now - FRAG_TIMEOUT_NS): what it
\* evicts was seen before what stays.
EvictOlder ==
  \E n \in DOMAIN pending :
    /\ \A j \in DOMAIN pending : Stale(pending[j]) <=> j <= n
    /\ pending' = SubSeq(pending, n + 1, Len(pending))
    /\ dropped' = dropped \cup {pending[j].key : j \in 1 .. n}
    /\ UNCHANGED <<outputs, arrived, emitted>>

ReassemblyNext ==
  \/ \E m \in Messages : \E i \in Indices(m) : Offer(m, i)
  \/ Tick \/ EvictOlder

ReassemblySpec == ReassemblyInit /\ [][ReassemblyNext]_rvars

\* Time passes and the retention timer keeps firing; no datagram need arrive.
FairReassemblySpec == ReassemblySpec /\ WF_rvars(Tick) /\ WF_rvars(EvictOlder)

-----------------------------------------------------------------------------

\* An output is a complete vector of chunks that one sender sent under one
\* msg_id and one count: no expect("all fragments received") ever fires, and
\* "msg_id collisions across senders never merge".
Framed ==
  \A v \in outputs : \A i \in DOMAIN v :
    /\ v[i] \in Messages
    /\ From[v[i]] = From[v[1]] /\ MsgId[v[i]] = MsgId[v[1]]
    /\ Parts[v[i]] = Len(v)

\* No message comes out more often than each of its fragments came in:
\* "exactly once", except for a message that really arrived twice; and what
\* waits is one entry for a message, within max_pending_messages.
Conserved ==
  /\ Len(pending) <= MaxPending
  /\ \A j, k \in DOMAIN pending : pending[j].key = pending[k].key => j = k
  /\ \A m \in Messages : \A i \in Indices(m) : emitted[m][i] <= arrived[m][i]

Alone(m) == \A n \in Messages : n # m => LinkKey(n) # LinkKey(m)

\* Order and duplication alone lose nothing: a message whose fragments have
\* all arrived has come out, unless its entry was dropped (capacity, timeout)
\* or its sender reused the msg_id.
NoneLost ==
  \A m \in Messages :
    Alone(m) /\ LinkKey(m) \notin dropped /\ (\A i \in Indices(m) : arrived[m][i] > 0)
      => [i \in Indices(m) |-> m] \in outputs

\* "A lost-fragment message can never leak memory forever".
NoLeak == \A m \in Messages : Held(LinkKey(m)) ~> ~Held(LinkKey(m))

-----------------------------------------------------------------------------
(* The inductive invariant.                                                *)

\* The fragments an entry holds.
Got(e) == {i \in 1 .. e.count : e.chunks[i] # NoChunk}

\* An entry counts the fragments it holds, never all of them, and they are
\* fragments of messages with its key and its count.
EntryOK(e) ==
  /\ e \in Entry
  /\ e.received = Cardinality(Got(e)) /\ e.received < e.count
  /\ \A i \in Got(e) : LinkKey(e.chunks[i]) = e.key /\ Parts[e.chunks[i]] = e.count

\* One entry for a key, the oldest first.
PendingOK(p) ==
  /\ p \in Seq(Entry)
  /\ \A j \in DOMAIN p : EntryOK(p[j])
  /\ \A j, k \in DOMAIN p : p[j].key = p[k].key => j = k
  /\ \A j, k \in DOMAIN p : j < k => p[k].age <= p[j].age

\* Fragment i of m is in an entry of p.
Waits(p, m, i) == \E j \in DOMAIN p : i \in 1 .. p[j].count /\ p[j].chunks[i] = m

HistoryOK ==
  /\ arrived \in [Messages -> Seq(Nat)]
  /\ emitted \in [Messages -> Seq(Nat)]
  /\ \A m \in Messages : arrived[m] \in [Indices(m) -> Nat] /\ emitted[m] \in [Indices(m) -> Nat]
  /\ outputs \subseteq Seq(Messages)

Whole(m) == [i \in Indices(m) |-> m]

\* A fragment has come out and waits no more often than it has arrived.
Counted ==
  \A m \in Messages : \A i \in Indices(m) :
    emitted[m][i] + (IF Waits(pending, m, i) THEN 1 ELSE 0) <= arrived[m][i]

\* What arrived of a message alone under its key has come out or waits.
Accounted ==
  \A m \in Messages : Alone(m) /\ LinkKey(m) \notin dropped =>
    \/ Whole(m) \in outputs
    \/ \A i \in Indices(m) : arrived[m][i] > 0 => Waits(pending, m, i)

ReassemblyInv ==
  /\ HistoryOK
  /\ PendingOK(pending) /\ Len(pending) <= MaxPending
  /\ Framed
  /\ Counted
  /\ Accounted
=============================================================================
