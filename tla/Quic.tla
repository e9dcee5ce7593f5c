--------------------------------- MODULE Quic ---------------------------------
(***************************************************************************)
(* QuicTransport: concurrent calls of announce and sync_since over one map *)
(* of live connections, one stream and one lock per artifact class, and    *)
(* the tasks that read the streams at the other end.  Hosts restart, move  *)
(* and are replaced; a dial may time out and a connection close any time.  *)
(* Handshakes and the QUIC streams themselves are external: they refuse or *)
(* connect, and deliver what is written in order while a connection lives. *)
(***************************************************************************)
EXTENDS Naturals, Sequences, FiniteSets, SequencesExt

CONSTANTS Urls, Keys, Tasks,
          Refs,                  \* the PeerRefs in use: [url |-> ., key |-> .]
          Classes,               \* StreamClass
          MaxCalls, MaxMoves     \* bounds: calls of one task, changes of hosts

ASSUME QuicAssumption ==
  /\ Refs \subseteq [url : Urls, key : Keys]
  /\ "summary" \in Classes /\ "sync" \notin Classes
  /\ MaxCalls \in Nat /\ MaxMoves \in Nat

VARIABLES host,    \* who answers at a URL: <<>> or <<key>>
          map,     \* who holds the lock of QuicTransport.peers: a set of tasks
          peers,   \* QuicTransport.peers: <<>> or <<index of a connection>>
          conns,   \* every connection dialled so far
          call,    \* the call each task is in
          inbound, \* what the host of a key has queued: <<task, number, class>>
          moves

vars == <<host, map, peers, conns, call, inbound, moves>>

Option(S) == {<<>>} \cup {<<x>> : x \in S}
Kinds == Classes \cup {"sync"}

Artifact == Tasks \X Nat \X Kinds
Frame == [of : Artifact, part : {"head", "body"}]

Connection == [url : Urls, key : Keys, open : BOOLEAN, opened : SUBSET Kinds,
               wire : [Classes -> Seq(Frame)], lock : [Classes -> SUBSET Tasks]]

Call == [pc : {"idle", "map", "dial", "open", "lock", "head", "body", "backfill"},
         ref : Option(Refs), kind : Kinds \cup {""}, conn : Nat, n : Nat,
         last : {"", "ok", "refused", "unreachable"}]

TypeOK ==
  /\ host \in [Urls -> Option(Keys)]
  /\ map \in SUBSET Tasks
  /\ conns \in Seq(Connection)
  /\ peers \in [Urls -> Option(DOMAIN conns)]
  /\ call \in [Tasks -> Call]
  /\ inbound \in [Keys -> Seq(Artifact)]
  /\ moves \in Nat

Idle == [pc |-> "idle", ref |-> <<>>, kind |-> "", conn |-> 0, n |-> 0, last |-> ""]

Init ==
  /\ host \in [Urls -> {<<k>> : k \in Keys}]
  /\ map = {} /\ peers = [u \in Urls |-> <<>>] /\ conns = <<>>
  /\ call = [t \in Tasks |-> Idle]
  /\ inbound = [k \in Keys |-> <<>>] /\ moves = 0

Ref(t) == call[t].ref[1]
Conn(t) == conns[call[t].conn]
At(t, pc) == call[t].pc = pc
Goto(t, pc) == call' = [call EXCEPT ![t].pc = pc]
Return(t, result) == call' = [call EXCEPT ![t].pc = "idle", ![t].last = result]

\* announce and sync_since are called.
Begin(t, ref, kind) ==
  /\ At(t, "idle") /\ call[t].n < MaxCalls
  /\ call' = [call EXCEPT ![t] = [pc |-> "map", ref |-> <<ref>>, kind |-> kind, conn |-> 0,
                                  n |-> call[t].n + 1, last |-> ""]]
  /\ UNCHANGED <<host, map, peers, conns, inbound, moves>>

\* A connection the peer has closed is dropped from the map.
Live(u) == IF peers[u] # <<>> /\ ~conns[peers[u][1]].open THEN <<>> ELSE peers[u]

\* Fault: all artifacts travel on one stream.
Stream_Shared(t) == "summary"

\* artifact.stream_class().
Stream(t) == call[t].kind

\* With a connection in hand: sync_since drops the lock and opens a stream of
\* its own, announce keeps it to open the stream of its class on first use.
Proceed(t, c, all) ==
  LET open == call[t].kind # "sync" /\ Stream(t) \notin all[c].opened
      pc   == IF call[t].kind = "sync" THEN "backfill" ELSE IF open THEN "open" ELSE "lock"
  IN
  /\ call' = [call EXCEPT ![t].conn = c, ![t].pc = pc]
  /\ map' = IF open THEN {t} ELSE {}

\* Fault: the lock is not held while the peer is dialled.
TakeMap_Unlocked(t) ==
  /\ At(t, "map") /\ map = {}
  /\ peers' = [peers EXCEPT ![Ref(t).url] = Live(Ref(t).url)]
  /\ IF Live(Ref(t).url) = <<>> THEN Goto(t, "dial") /\ UNCHANGED map
     ELSE Proceed(t, Live(Ref(t).url)[1], conns)
  /\ UNCHANGED <<host, conns, inbound, moves>>

\* peers.lock().await, and all that follows it without a suspension.
TakeMap(t) ==
  /\ At(t, "map") /\ map = {}
  /\ peers' = [peers EXCEPT ![Ref(t).url] = Live(Ref(t).url)]
  /\ IF Live(Ref(t).url) = <<>> THEN Goto(t, "dial") /\ map' = {t}
     ELSE Proceed(t, Live(Ref(t).url)[1], conns)
  /\ UNCHANGED <<host, conns, inbound, moves>>

\* PinnedBiomeKeyVerifier.
Accepts(presented, pinned) == presented = pinned

\* dial: refused, timed out (or lost), or connected and entered in the map.
Dial(t) ==
  LET u == Ref(t).url IN
  /\ At(t, "dial")
  /\ \/ /\ host[u] # <<>> /\ Accepts(host[u][1], Ref(t).key)
        /\ conns' = Append(conns, [url |-> u, key |-> host[u][1], open |-> TRUE, opened |-> {},
                                   wire |-> [s \in Classes |-> <<>>],
                                   lock |-> [s \in Classes |-> {}]])
        /\ peers' = [peers EXCEPT ![u] = <<Len(conns')>>]
        /\ Proceed(t, Len(conns'), conns')
     \/ /\ host[u] # <<>> /\ ~Accepts(host[u][1], Ref(t).key)
        /\ Return(t, "refused") /\ map' = {} /\ UNCHANGED <<conns, peers>>
     \/ /\ Return(t, "unreachable") /\ map' = {} /\ UNCHANGED <<conns, peers>>
  /\ UNCHANGED <<host, inbound, moves>>

\* open_uni and the tag, then the stream is kept and the map unlocked.
Open(t) ==
  /\ At(t, "open") /\ map' = {}
  /\ IF Conn(t).open
     THEN /\ conns' = [conns EXCEPT ![call[t].conn].opened = @ \cup {Stream(t)}]
          /\ Goto(t, "lock")
     ELSE Return(t, "unreachable") /\ UNCHANGED conns
  /\ UNCHANGED <<host, peers, inbound, moves>>

\* Fault: the stream is written without its lock.
Free_Always(t) == TRUE

Free(t) == Conn(t).lock[Stream(t)] = {}

\* stream.lock().await.
Lock(t) ==
  /\ At(t, "lock") /\ Free(t)
  /\ conns' = [conns EXCEPT ![call[t].conn].lock[Stream(t)] = {t}]
  /\ Goto(t, "head")
  /\ UNCHANGED <<host, map, peers, inbound, moves>>

Part(t, part) == [of |-> <<t, call[t].n, call[t].kind>>, part |-> part]

\* write_all takes what the peer's flow control lets it; in two parts here.
Write(t) ==
  LET c == call[t].conn IN
  /\ call[t].pc \in {"head", "body"}
  /\ IF ~Conn(t).open
     THEN /\ conns' = [conns EXCEPT ![c].lock[Stream(t)] = {}]
          /\ Return(t, "unreachable")
     ELSE IF At(t, "head")
     THEN /\ conns' = [conns EXCEPT ![c].wire[Stream(t)] = Append(@, Part(t, "head"))]
          /\ Goto(t, "body")
     ELSE /\ conns' = [conns EXCEPT ![c].wire[Stream(t)] = Append(@, Part(t, "body")),
                                    ![c].lock[Stream(t)] = {}]
          /\ Return(t, "ok")
  /\ UNCHANGED <<host, map, peers, inbound, moves>>

\* open_bi, the cursor, and the peer's answer (or a lost connection).
Backfill(t) ==
  /\ At(t, "backfill")
  /\ Return(t, IF Conn(t).open THEN "ok" ELSE "unreachable")
  /\ UNCHANGED <<host, map, peers, conns, inbound, moves>>

-----------------------------------------------------------------------------
(* The other end                                                           *)

\* read_class_stream: a length and that many bytes; what does not decode is
\* left out, and the stream is read on.
Read(c, s) ==
  LET w == conns[c].wire[s] IN
  /\ conns[c].open /\ Len(w) >= 2
  /\ conns' = [conns EXCEPT ![c].wire[s] = SubSeq(w, 3, Len(w))]
  /\ inbound' = IF w[1].part = "head" /\ w[2] = [w[1] EXCEPT !.part = "body"]
                THEN [inbound EXCEPT ![conns[c].key] = Append(@, w[1].of)]
                ELSE inbound
  /\ UNCHANGED <<host, map, peers, call, moves>>

\* A host goes, or another one answers at its address: its connections close
\* with what they carried, and the tasks that read them end.
Move(u, h) ==
  /\ moves < MaxMoves /\ moves' = moves + 1
  /\ host' = [host EXCEPT ![u] = h]
  /\ conns' = [i \in DOMAIN conns |->
                 IF conns[i].url = u
                 THEN [conns[i] EXCEPT !.open = FALSE, !.wire = [s \in Classes |-> <<>>]]
                 ELSE conns[i]]
  /\ UNCHANGED <<map, peers, call, inbound>>

Step(t) == TakeMap(t) \/ Dial(t) \/ Open(t) \/ Lock(t) \/ Write(t) \/ Backfill(t)

Next ==
  \/ \E t \in Tasks :
       \/ \E ref \in Refs, kind \in Kinds : Begin(t, ref, kind)
       \/ Step(t)
  \/ \E c \in DOMAIN conns, s \in Classes : Read(c, s)
  \/ \E u \in Urls, h \in Option(Keys) : Move(u, h)

Spec == Init /\ [][Next]_vars

\* Tasks are scheduled, tokio's locks are granted and a handshake ends; so do
\* the writing of an event, the opening of a stream and the answer to a backfill,
\* with only quinn's idle timeout behind them.  But nothing is said of the
\* writing of summaries, which flow control may stall.
FairSpec ==
  /\ Spec
  /\ \A t \in Tasks : WF_vars(Step(t) /\ ~(call[t].pc \in {"head", "body"} /\ call[t].kind = "summary"))

-----------------------------------------------------------------------------

\* However calls to one peer race, they share one connection: none is dialled
\* beside a live one, where the map would lose it with the streams it carries.
OneConnection == \A i \in DOMAIN conns : conns[i].open => peers[conns[i].url] = <<i>>

\* An artifact whose announce answered Ok arrived whole and once, or is on its
\* way whole, for as long as the connection lives: frames of concurrent calls
\* never mix on a stream.  It goes to a host with a key that a PeerRef pins at
\* the address; a live connection is used whatever key the call's own one pins.
AnnouncedArrives ==
  \A t \in Tasks :
    At(t, "idle") /\ call[t].last = "ok" /\ call[t].kind # "sync" /\ Conn(t).open =>
      LET w  == Conn(t).wire[Stream(t)]
          in == inbound[Conn(t).key]
          of == Part(t, "head").of
      IN /\ [url |-> Conn(t).url, key |-> Conn(t).key] \in Refs
         /\ Cardinality({i \in DOMAIN in : in[i] = of})
            + Cardinality({i \in DOMAIN w : /\ i % 2 = 1 /\ i < Len(w) /\ w[i].of = of
                                            /\ w[i + 1].of = of}) = 1

\* "A large summary in flight neither occupies the revocation stream nor holds
\* a lock a revocation needs": events and backfills end, whatever fails, even
\* when the summaries under way are stalled for ever.
RevocationsPass ==
  \A t \in Tasks : (call[t].pc # "idle" /\ call[t].kind # "summary") ~> (call[t].pc = "idle")

\* The inductive strengthening of OneConnection: who dials or opens a stream
\* holds the lock of the map alone, and dials where the map has nothing.
MapInv ==
  /\ TypeOK
  /\ OneConnection
  /\ \A t \in Tasks :
       /\ call[t].pc # "idle" => call[t].ref # <<>> /\ call[t].kind \in Kinds
       /\ call[t].pc \in {"lock", "head", "body", "open"} => call[t].kind \in Classes
       /\ call[t].pc \in {"dial", "open"} => map = {t}
       /\ At(t, "dial") => peers[Ref(t).url] = <<>>

\* The inductive strengthening of AnnouncedArrives, in three parts.  A stream
\* is locked by the call that writes to it.
Writing(t) == call[t].pc \in {"head", "body"}

LockInv ==
  /\ \A t \in Tasks :
       /\ call[t].pc \in {"open", "lock", "backfill"} => call[t].conn \in DOMAIN conns
       /\ At(t, "backfill") => call[t].kind = "sync"
       /\ Writing(t) => call[t].conn \in DOMAIN conns /\ Conn(t).lock[Stream(t)] = {t}
  /\ \A c \in DOMAIN conns, s \in Classes : \A t \in conns[c].lock[s] :
       Writing(t) /\ call[t].conn = c /\ Stream(t) = s

\* What a stream holds is heads followed by their bodies, and at its end maybe
\* the head of the call that is writing.
Paired(w) ==
  \A i \in DOMAIN w : i % 2 = 1 =>
    /\ w[i].part = "head"
    /\ i + 1 \in DOMAIN w => w[i + 1] = [w[i] EXCEPT !.part = "body"]

StreamInv ==
  /\ \A c \in DOMAIN conns, s \in Classes :
       LET w == conns[c].wire[s] IN
       /\ Paired(w)
       /\ ~conns[c].open => w = <<>>
       /\ Len(w) % 2 = 1 => \E t \in Tasks : At(t, "body") /\ call[t].conn = c /\ Stream(t) = s
  /\ \A t \in Tasks : At(t, "body") /\ Conn(t).open =>
       LET w == Conn(t).wire[Stream(t)] IN Len(w) % 2 = 1 /\ w[Len(w)] = Part(t, "head")

\* The artifact of a task's current or last call.
Current(t) == <<t, call[t].n, call[t].kind>>

\* Where it is not: in no queue, and on no stream but at the places of P.
Nowhere(t) == \A k \in Keys : \A i \in DOMAIN inbound[k] : inbound[k][i] # Current(t)

OnlyAt(t, P) ==
  \A c \in DOMAIN conns, s \in Classes : \A i \in DOMAIN conns[c].wire[s] :
    conns[c].wire[s][i].of = Current(t) => c = call[t].conn /\ s = call[t].kind /\ i \in P

\* It has been announced, and is in the queue of its connection's peer or on
\* its stream as a frame.
Queued(t) ==
  LET in == inbound[Conn(t).key] IN
  \E i \in DOMAIN in : in[i] = Current(t) /\ \A j \in DOMAIN in : in[j] = Current(t) => j = i

OnStream(t) ==
  LET w == Conn(t).wire[Stream(t)] IN
  \E i \in DOMAIN w : /\ i % 2 = 1 /\ i + 1 \in DOMAIN w
                      /\ w[i].of = Current(t) /\ w[i + 1].of = Current(t)
                      /\ OnlyAt(t, {i, i + 1})

Announced(t) ==
  At(t, "idle") /\ call[t].last = "ok" /\ call[t].kind # "sync"

ArtifactInv ==
  /\ \A c \in DOMAIN conns : [url |-> conns[c].url, key |-> conns[c].key] \in Refs
  /\ \A k \in Keys : \A i \in DOMAIN inbound[k] : inbound[k][i][2] <= call[inbound[k][i][1]].n
  /\ \A c \in DOMAIN conns, s \in Classes : \A i \in DOMAIN conns[c].wire[s] :
       LET of == conns[c].wire[s][i].of IN of[2] <= call[of[1]].n
  /\ \A t \in Tasks : ~At(t, "idle") =>
       /\ Nowhere(t)
       /\ OnlyAt(t, IF At(t, "body") THEN {Len(Conn(t).wire[Stream(t)])} ELSE {})
  /\ \A t \in Tasks : Announced(t) =>
       /\ call[t].conn \in DOMAIN conns /\ call[t].kind \in Classes
       /\ Conn(t).open => (Queued(t) /\ OnlyAt(t, {})) \/ (Nowhere(t) /\ OnStream(t))

ArrivalInv == MapInv /\ LockInv /\ StreamInv /\ ArtifactInv
=============================================================================
