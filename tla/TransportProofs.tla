---------------------------- MODULE TransportProofs ----------------------------
(***************************************************************************)
(* What carries messages to a gateway, and from one gateway to another.    *)
(* Reassembly, for any messages, senders, counts, capacity and timeout,    *)
(* and for any order, loss and repetition of fragments: what comes out is  *)
(* whole and of one sender and msg_id, no more of it than came in, and     *)
(* nothing is lost but by eviction or a reused msg_id.  QuicTransport, for *)
(* any number of tasks, peers, classes, calls and moves of hosts: the lock *)
(* that is held across a dial keeps one connection to a peer, and the lock *)
(* of each stream keeps what is announced on it whole, so that it arrives  *)
(* once.                                                                   *)
(***************************************************************************)
EXTENDS Reassembly, Quic, SequenceTheorems, FiniteSetTheorems, TLAPS

-----------------------------------------------------------------------------
(* Reassembly                                                              *)

\* What the fields of an entry are.
LEMMA EntryFields ==
  ASSUME NEW e \in Entry
  PROVE  /\ e.count \in Nat /\ e.received \in Nat /\ e.age \in 0 .. Timeout + 1
         /\ e.chunks \in [1 .. e.count -> Messages \cup {NoChunk}]
         /\ \E m \in Messages : e.count = Parts[m]
         /\ e = [key |-> e.key, count |-> e.count, received |-> e.received,
                 chunks |-> e.chunks, age |-> e.age]
         /\ e.key \in {LinkKey(m) : m \in Messages} /\ e.received <= e.count
<1>1. PICK n \in {Parts[m] : m \in Messages} :
        e \in [key : {LinkKey(m) : m \in Messages}, count : {n}, received : 0 .. n,
               chunks : [1 .. n -> Messages \cup {NoChunk}], age : 0 .. Timeout + 1]
  BY DEF Entry
<1>2. PICK m \in Messages : n = Parts[m]
  BY <1>1
<1>3. n \in Nat
  BY <1>2, ReassemblyAssumption
<1> QED
  BY <1>1, <1>2, <1>3

\* What it takes to be an entry.
LEMMA EntryMade ==
  ASSUME NEW key \in {LinkKey(m) : m \in Messages}, NEW m \in Messages,
         NEW received \in 0 .. Parts[m],
         NEW chunks \in [1 .. Parts[m] -> Messages \cup {NoChunk}],
         NEW age \in 0 .. Timeout + 1
  PROVE  [key |-> key, count |-> Parts[m], received |-> received, chunks |-> chunks,
          age |-> age] \in Entry
<1> DEFINE n == Parts[m]
<1>1. n \in {Parts[k] : k \in Messages}
  OBVIOUS
<1>2. [key |-> key, count |-> Parts[m], received |-> received, chunks |-> chunks,
       age |-> age]
      \in [key : {LinkKey(k) : k \in Messages}, count : {n}, received : 0 .. n,
           chunks : [1 .. n -> Messages \cup {NoChunk}], age : 0 .. Timeout + 1]
  OBVIOUS
<1> QED
  BY <1>1, <1>2 DEF Entry

\* A fragment that waits is in the entry of its message's key.
LEMMA WaitsHeld ==
  ASSUME NEW p, PendingOK(p), NEW m \in Messages, NEW i, Waits(p, m, i)
  PROVE  \E j \in DOMAIN p : /\ i \in 1 .. p[j].count /\ p[j].chunks[i] = m
                             /\ p[j].key = LinkKey(m)
<1>1. PICK j \in DOMAIN p : i \in 1 .. p[j].count /\ p[j].chunks[i] = m
  BY DEF Waits
<1>2. i \in Got(p[j])
  BY <1>1, ReassemblyAssumption DEF Got
<1>3. LinkKey(p[j].chunks[i]) = p[j].key
  BY <1>1, <1>2 DEF PendingOK, EntryOK
<1> QED
  BY <1>1, <1>3

\* Entry x holds fragment i of m.
Holds(x, m, i) == i \in 1 .. x.count /\ x.chunks[i] = m

\* Leaving out entries keeps what is left sound and in order.
LEMMA Picked ==
  ASSUME NEW p, PendingOK(p), NEW n \in Nat, NEW e \in [1 .. n -> DOMAIN p],
         \A j, k \in 1 .. n : j < k => e[j] < e[k],
         NEW s \in Seq(Entry), Len(s) = n, \A k \in 1 .. n : s[k] = p[e[k]]
  PROVE  /\ PendingOK(s)
         /\ \A m, i : Waits(s, m, i) => Waits(p, m, i)
         /\ \A m, i : Waits(s, m, i) <=>
              \E k \in 1 .. n : Holds(p[e[k]], m, i)
<1>1. p \in Seq(Entry) /\ \A j \in DOMAIN p : p[j] \in Entry
  BY DEF PendingOK
<1>2. \A k \in 1 .. n : s[k] = p[e[k]] /\ e[k] \in DOMAIN p
  OBVIOUS
<1>3. DOMAIN s = 1 .. n /\ DOMAIN p \subseteq Nat
  BY <1>1
<1>4. \A j \in DOMAIN s : EntryOK(s[j])
  BY <1>2, <1>3 DEF PendingOK
<1>5. \A j, k \in 1 .. n : e[j] = e[k] => j = k
  BY <1>2, <1>3
<1>6. \A j, k \in DOMAIN s : s[j].key = s[k].key => j = k
  BY <1>2, <1>3, <1>5 DEF PendingOK
<1>7. \A j, k \in DOMAIN s : j < k => s[k].age <= s[j].age
  BY <1>2, <1>3 DEF PendingOK
<1>8. PendingOK(s)
  BY <1>3, <1>4, <1>6, <1>7 DEF PendingOK
<1>9. \A m, i : Waits(s, m, i) <=>
        \E k \in 1 .. n : Holds(p[e[k]], m, i)
  BY <1>2, <1>3 DEF Waits, Holds
<1>10. \A m, i : Waits(s, m, i) => Waits(p, m, i)
  BY <1>2, <1>9 DEF Waits, Holds
<1> QED
  BY <1>2, <1>3, <1>8, <1>9, <1>10

\* Removing one entry.
LEMMA WithoutOne ==
  ASSUME NEW p, PendingOK(p), NEW j \in DOMAIN p
  PROVE  /\ PendingOK(Without(p, j))
         /\ Len(Without(p, j)) = Len(p) - 1
         /\ \A m \in Messages : \A i :
              Waits(Without(p, j), m, i) => Waits(p, m, i) /\ LinkKey(m) # p[j].key
         /\ \A m \in Messages : \A i :
              Waits(p, m, i) /\ LinkKey(m) # p[j].key => Waits(Without(p, j), m, i)
<1> DEFINE n == Len(p) - 1
           e == [k \in 1 .. n |-> IF k < j THEN k ELSE k + 1]
           s == Without(p, j)
<1>1. Len(p) \in Nat /\ DOMAIN p = 1 .. Len(p) /\ j \in 1 .. Len(p) /\ n \in Nat
  BY LenProperties DEF PendingOK
<1>2. e \in [1 .. n -> DOMAIN p] /\ \A k \in 1 .. n : e[k] # j
  BY <1>1
<1>3. \A k, l \in 1 .. n : k < l => e[k] < e[l]
  BY <1>1
<1>4. s \in Seq(Entry) /\ Len(s) = n /\ \A k \in 1 .. n : s[k] = p[e[k]]
  <2>1. s = [k \in 1 .. n |-> p[e[k]]]
    BY <1>1, <1>2 DEF Without
  <2>2. s \in [1 .. n -> Entry]
    BY <1>2, <2>1, ElementOfSeq DEF PendingOK
  <2>3. s \in Seq(Entry)
    BY <1>1, <2>2, IsASeq
  <2>4. DOMAIN s = 1 .. n /\ \A k \in 1 .. n : s[k] = p[e[k]]
    BY <2>1
  <2>5. Len(s) = n
    BY <1>1, <2>1
  <2> QED
    BY <2>3, <2>4, <2>5
<1> HIDE DEF e, n, s
<1>5. PICK f \in [1 .. n -> DOMAIN p], q \in Seq(Entry) : f = e /\ q = s
  BY <1>2, <1>4
<1>6. Len(q) = n /\ \A k \in 1 .. n : q[k] = p[f[k]]
  BY <1>4, <1>5
<1>7. \A k, l \in 1 .. n : k < l => f[k] < f[l]
  BY <1>3, <1>5
<1>8. PendingOK(p) /\ n \in Nat
  BY <1>1
<1>9. f \in [1 .. n -> DOMAIN p] /\ q \in Seq(Entry)
  OBVIOUS
<1>10. /\ PendingOK(q)
       /\ \A m, i : Waits(q, m, i) => Waits(p, m, i)
       /\ \A m, i : Waits(q, m, i) <=>
               \E k \in 1 .. n : Holds(p[f[k]], m, i)
  BY <1>8, <1>9, <1>6, <1>7, Picked
<1>11. /\ PendingOK(s)
       /\ \A m, i : Waits(s, m, i) => Waits(p, m, i)
       /\ \A m, i : Waits(s, m, i) <=>
               \E k \in 1 .. n : Holds(p[e[k]], m, i)
  BY <1>5, <1>10
<1>12. ASSUME NEW m \in Messages, NEW i, Waits(s, m, i)
      PROVE  LinkKey(m) # p[j].key
  <2>1. PICK k \in 1 .. n : Holds(p[e[k]], m, i)
    BY <1>11, <1>12
  <2>2. e[k] \in DOMAIN p /\ e[k] # j
    BY <1>2
  <2>3. i \in Got(p[e[k]]) /\ EntryOK(p[e[k]])
    BY <2>1, <2>2, ReassemblyAssumption DEF Got, PendingOK, Holds
  <2>4. LinkKey(m) = p[e[k]].key
    BY <2>1, <2>3 DEF EntryOK, Holds
  <2> QED
    BY <2>2, <2>4 DEF PendingOK
<1>13. ASSUME NEW m \in Messages, NEW i, Waits(p, m, i), LinkKey(m) # p[j].key
      PROVE  Waits(s, m, i)
  <2>1. PICK l \in DOMAIN p : /\ i \in 1 .. p[l].count /\ p[l].chunks[i] = m
                              /\ p[l].key = LinkKey(m)
    BY <1>13, WaitsHeld
  <2>2. l # j
    BY <1>13, <2>1
  <2>3. PICK k \in 1 .. n : e[k] = l
    <3>1. CASE l < j
      BY <1>1, <3>1 DEF e, n
    <3>2. CASE l > j
      <4>1. l - 1 \in 1 .. n /\ e[l - 1] = l
        BY <1>1, <3>2 DEF e, n
      <4> QED
        BY <4>1
    <3> QED
      BY <1>1, <2>2, <3>1, <3>2
  <2>4. k \in 1 .. n /\ Holds(p[e[k]], m, i)
    BY <2>1, <2>3 DEF Holds
  <2> QED
    BY <1>11, <2>4
<1> QED
  BY <1>4, <1>11, <1>12, <1>13 DEF s, n

\* s is p without its first d entries.
Rest(p, d, s) ==
  s \in Seq(Entry) /\ Len(s) = Len(p) - d /\ \A k \in 1 .. Len(p) - d : s[k] = p[k + d]

\* Removing the oldest entries.
LEMMA WithoutOldest ==
  ASSUME NEW p, PendingOK(p), NEW d \in DOMAIN p,
         NEW s, Rest(p, d, s)
  PROVE  /\ PendingOK(s)
         /\ \A m \in Messages : \A i : Waits(s, m, i) => Waits(p, m, i)
         /\ \A m \in Messages : \A i :
              Waits(p, m, i) /\ (\A j \in 1 .. d : p[j].key # LinkKey(m)) => Waits(s, m, i)
<1> DEFINE n == Len(p) - d
           e == [k \in 1 .. n |-> k + d]
<1>1. Len(p) \in Nat /\ DOMAIN p = 1 .. Len(p) /\ d \in 1 .. Len(p) /\ n \in Nat
  BY LenProperties DEF PendingOK
<1>2. e \in [1 .. n -> DOMAIN p]
  BY <1>1
<1>3. \A k, l \in 1 .. n : k < l => e[k] < e[l]
  BY <1>1
<1>4. s \in Seq(Entry) /\ Len(s) = n /\ \A k \in 1 .. n : s[k] = p[e[k]]
  BY <1>1, <1>2 DEF Rest
<1> HIDE DEF e, n
<1>5. PICK f \in [1 .. n -> DOMAIN p], q \in Seq(Entry) : f = e /\ q = s
  BY <1>2, <1>4
<1>6. Len(q) = n /\ \A k \in 1 .. n : q[k] = p[f[k]]
  BY <1>4, <1>5
<1>7. \A k, l \in 1 .. n : k < l => f[k] < f[l]
  BY <1>3, <1>5
<1>8. PendingOK(p) /\ n \in Nat
  BY <1>1
<1>9. f \in [1 .. n -> DOMAIN p] /\ q \in Seq(Entry)
  OBVIOUS
<1>10. /\ PendingOK(q)
       /\ \A m, i : Waits(q, m, i) => Waits(p, m, i)
       /\ \A m, i : Waits(q, m, i) <=>
               \E k \in 1 .. n : Holds(p[f[k]], m, i)
  BY <1>8, <1>9, <1>6, <1>7, Picked
<1>11. /\ PendingOK(s)
       /\ \A m, i : Waits(s, m, i) => Waits(p, m, i)
       /\ \A m, i : Waits(s, m, i) <=>
               \E k \in 1 .. n : Holds(p[e[k]], m, i)
  BY <1>5, <1>10
<1>12. ASSUME NEW m \in Messages, NEW i, Waits(p, m, i),
             \A j \in 1 .. d : p[j].key # LinkKey(m)
      PROVE  Waits(s, m, i)
  <2>1. PICK l \in DOMAIN p : /\ i \in 1 .. p[l].count /\ p[l].chunks[i] = m
                              /\ p[l].key = LinkKey(m)
    BY <1>12, WaitsHeld
  <2>2. l \notin 1 .. d
    BY <1>12, <2>1
  <2>3. PICK k \in 1 .. n : e[k] = l
    <3>1. l - d \in 1 .. n /\ e[l - d] = l
      BY <1>1, <2>2 DEF e, n
    <3> QED
      BY <3>1
  <2>4. k \in 1 .. n /\ Holds(p[e[k]], m, i)
    BY <2>1, <2>3 DEF Holds
  <2> QED
    BY <1>11, <2>4
<1> QED
  BY <1>4, <1>11, <1>12 DEF n

\* One arrival counts for one fragment.
LEMMA ArriveFacts ==
  ASSUME HistoryOK, NEW m \in Messages, NEW i \in Indices(m), Arrive(m, i)
  PROVE  /\ arrived' \in [Messages -> Seq(Nat)]
         /\ \A k \in Messages : arrived'[k] \in [Indices(k) -> Nat]
         /\ \A k \in Messages : \A l \in Indices(k) :
              /\ arrived[k][l] \in Nat
              /\ arrived'[k][l] = arrived[k][l] + IF k = m /\ l = i THEN 1 ELSE 0
<1>1. arrived \in [Messages -> Seq(Nat)] /\ arrived[m] \in Seq(Nat)
      /\ \A k \in Messages : arrived[k] \in [Indices(k) -> Nat]
  BY DEF HistoryOK
<1>2. arrived[m][i] + 1 \in Nat
  BY <1>1
<1> DEFINE a == [arrived[m] EXCEPT ![i] = arrived[m][i] + 1]
<1>3. a \in Seq(Nat) /\ a \in [Indices(m) -> Nat]
  <2>1. a \in [Indices(m) -> Nat]
    BY <1>1, <1>2
  <2>2. i \in 1 .. Len(arrived[m])
    BY <1>1, LenProperties
  <2> QED
    BY <1>1, <1>2, <2>1, <2>2, ExceptSeq
<1>4. arrived' = [arrived EXCEPT ![m] = a]
  BY DEF Arrive
<1>5. \A l \in Indices(m) : a[l] = arrived[m][l] + IF l = i THEN 1 ELSE 0
  BY <1>1
<1> HIDE DEF a
<1>6. arrived' \in [Messages -> Seq(Nat)]
  BY <1>1, <1>3, <1>4
<1>7. arrived'[m] = a /\ \A k \in Messages : k # m => arrived'[k] = arrived[k]
  BY <1>1, <1>4
<1>8. \A k \in Messages : arrived'[k] \in [Indices(k) -> Nat]
  BY <1>1, <1>3, <1>7
<1>9. ASSUME NEW k \in Messages, NEW l \in Indices(k)
      PROVE  /\ arrived[k][l] \in Nat
             /\ arrived'[k][l] = arrived[k][l] + IF k = m /\ l = i THEN 1 ELSE 0
  <2>1. arrived[k][l] \in Nat
    BY <1>1
  <2>2. CASE k = m
    BY <1>5, <1>7, <2>1, <2>2
  <2>3. CASE k # m
    BY <1>7, <2>1, <2>3
  <2> QED
    BY <2>1, <2>2, <2>3
<1> QED
  BY <1>6, <1>8, <1>9

\* A vector that comes out counts for each of its chunks.
LEMMA EmitFacts ==
  ASSUME HistoryOK, NEW v \in Seq(Messages), Emit(v)
  PROVE  /\ outputs' = outputs \cup {v} /\ outputs' \subseteq Seq(Messages)
         /\ emitted' \in [Messages -> Seq(Nat)]
         /\ \A k \in Messages : emitted'[k] \in [Indices(k) -> Nat]
         /\ \A k \in Messages : \A l \in Indices(k) :
              /\ emitted[k][l] \in Nat
              /\ emitted'[k][l] = emitted[k][l] + IF l \in DOMAIN v /\ v[l] = k THEN 1 ELSE 0
<1>1. outputs' = outputs \cup {v} /\ outputs' \subseteq Seq(Messages)
  BY DEF Emit, HistoryOK
<1>2. \A k \in Messages : emitted[k] \in [Indices(k) -> Nat]
  BY DEF HistoryOK
<1> DEFINE more(k) == [l \in Indices(k) |->
                         emitted[k][l] + IF l \in DOMAIN v /\ v[l] = k THEN 1 ELSE 0]
<1>3. emitted' = [k \in Messages |-> more(k)]
  BY DEF Emit
<1>4. \A k \in Messages : \A l \in Indices(k) :
         /\ emitted[k][l] \in Nat
         /\ more(k)[l] = emitted[k][l] + IF l \in DOMAIN v /\ v[l] = k THEN 1 ELSE 0
  BY <1>2
<1>5. \A k \in Messages : more(k) \in [Indices(k) -> Nat]
  BY <1>2
<1>6. \A k \in Messages : more(k) \in Seq(Nat)
  <2> TAKE k \in Messages
  <2>1. Parts[k] \in Nat /\ \A l \in 1 .. Parts[k] : more(k)[l] \in Nat
    BY <1>5, ReassemblyAssumption DEF Indices
  <2>2. more(k) \in [1 .. Parts[k] -> Nat]
    BY <1>5 DEF Indices
  <2> HIDE DEF more
  <2> QED
    BY <2>1, <2>2, SeqDef
<1> HIDE DEF more
<1>7. \A k \in Messages : emitted'[k] = more(k)
  BY <1>3
<1>8. emitted' \in [Messages -> Seq(Nat)]
  BY <1>3, <1>6
<1> QED
  BY <1>1, <1>4, <1>5, <1>7, <1>8

\* A fragment that is stored, or that is no news, or whose key is given up.
LEMMA StoreStep ==
  ASSUME ReassemblyInv, NEW m \in Messages, NEW i \in Indices(m), Arrive(m, i),
         UNCHANGED <<outputs, emitted>>, dropped \subseteq dropped',
         PendingOK(pending'), Len(pending') <= MaxPending,
         \A k \in Messages : \A l \in Indices(k) :
           Waits(pending', k, l) => Waits(pending, k, l) \/ (k = m /\ l = i),
         \A k \in Messages : \A l \in Indices(k) :
           Waits(pending, k, l) /\ LinkKey(k) \notin dropped' => Waits(pending', k, l),
         Alone(m) /\ LinkKey(m) \notin dropped' => Waits(pending', m, i)
  PROVE  ReassemblyInv'
<1>1. HistoryOK
  BY DEF ReassemblyInv
<1>2. /\ arrived' \in [Messages -> Seq(Nat)]
      /\ \A k \in Messages : arrived'[k] \in [Indices(k) -> Nat]
      /\ \A k \in Messages : \A l \in Indices(k) :
           /\ arrived[k][l] \in Nat
           /\ arrived'[k][l] = arrived[k][l] + IF k = m /\ l = i THEN 1 ELSE 0
  BY <1>1, ArriveFacts
<1>3. HistoryOK'
  BY <1>1, <1>2 DEF HistoryOK
<1>4. Framed'
  BY DEF ReassemblyInv, Framed
<1>5. Counted'
  <2> SUFFICES ASSUME NEW k \in Messages, NEW l \in Indices(k)
               PROVE  emitted[k][l] + (IF Waits(pending', k, l) THEN 1 ELSE 0) <= arrived'[k][l]
    BY DEF Counted
  <2>1. emitted[k][l] \in Nat /\ arrived[k][l] \in Nat
    BY <1>1, <1>2 DEF HistoryOK
  <2>2. emitted[k][l] + (IF Waits(pending, k, l) THEN 1 ELSE 0) <= arrived[k][l]
    BY DEF ReassemblyInv, Counted
  <2>3. CASE k = m /\ l = i
    BY <1>2, <2>1, <2>2, <2>3
  <2>4. CASE ~(k = m /\ l = i)
    <3>1. Waits(pending', k, l) => Waits(pending, k, l)
      BY <2>4
    <3>2. arrived'[k][l] = arrived[k][l]
      BY <1>2, <2>1, <2>4
    <3> QED
      BY <2>1, <2>2, <3>1, <3>2
  <2> QED
    BY <2>3, <2>4
<1>6. Accounted'
  <2> SUFFICES ASSUME NEW k \in Messages, Alone(k), LinkKey(k) \notin dropped',
                      Whole(k) \notin outputs,
                      NEW l \in Indices(k), arrived'[k][l] > 0
               PROVE  Waits(pending', k, l)
    BY DEF Accounted, Alone, LinkKey, Whole, Indices
  <2>1. arrived[k][l] > 0 => Waits(pending, k, l)
    BY DEF ReassemblyInv, Accounted
  <2>2. CASE k = m /\ l = i
    BY <2>2
  <2>3. CASE ~(k = m /\ l = i)
    BY <1>2, <2>1, <2>3
  <2> QED
    BY <2>2, <2>3
<1> QED
  BY <1>3, <1>4, <1>5, <1>6 DEF ReassemblyInv

\* A chunk vector that comes out, of a key whose entry, if any, is gone.
LEMMA EmitStep ==
  ASSUME ReassemblyInv, NEW m \in Messages, NEW i \in Indices(m), Arrive(m, i),
         NEW v \in Seq(Messages), Emit(v), UNCHANGED dropped, Len(v) = Parts[m],
         PendingOK(pending'), Len(pending') <= MaxPending,
         \A l \in DOMAIN v : LinkKey(v[l]) = LinkKey(m) /\ Parts[v[l]] = Parts[m],
         \A l \in DOMAIN v : (v[l] = m /\ l = i) \/ Waits(pending, v[l], l),
         \A k \in Messages : \A l \in Indices(k) :
           Waits(pending', k, l) => Waits(pending, k, l) /\ LinkKey(k) # LinkKey(m),
         \A k \in Messages : \A l \in Indices(k) :
           Waits(pending, k, l) /\ LinkKey(k) # LinkKey(m) => Waits(pending', k, l)
  PROVE  ReassemblyInv'
<1>1. HistoryOK /\ Parts[m] \in Nat \ {0}
  BY ReassemblyAssumption DEF ReassemblyInv
<1>2. /\ arrived' \in [Messages -> Seq(Nat)]
      /\ \A k \in Messages : arrived'[k] \in [Indices(k) -> Nat]
      /\ \A k \in Messages : \A l \in Indices(k) :
           /\ arrived[k][l] \in Nat
           /\ arrived'[k][l] = arrived[k][l] + IF k = m /\ l = i THEN 1 ELSE 0
  BY <1>1, ArriveFacts
<1>3. /\ outputs' = outputs \cup {v} /\ outputs' \subseteq Seq(Messages)
      /\ emitted' \in [Messages -> Seq(Nat)]
      /\ \A k \in Messages : emitted'[k] \in [Indices(k) -> Nat]
      /\ \A k \in Messages : \A l \in Indices(k) :
           /\ emitted[k][l] \in Nat
           /\ emitted'[k][l] = emitted[k][l] + IF l \in DOMAIN v /\ v[l] = k THEN 1 ELSE 0
  BY <1>1, EmitFacts
<1>4. HistoryOK'
  BY <1>2, <1>3 DEF HistoryOK
<1>5. DOMAIN v = 1 .. Len(v) /\ 1 \in DOMAIN v /\ \A l \in DOMAIN v : v[l] \in Messages
  BY <1>1, LenProperties, ElementOfSeq
<1>6. Framed'
  <2>1. \A l \in DOMAIN v : /\ v[l] \in Messages
                           /\ From[v[l]] = From[v[1]] /\ MsgId[v[l]] = MsgId[v[1]]
                           /\ Parts[v[l]] = Len(v)
    BY <1>5 DEF LinkKey
  <2> QED
    BY <1>3, <2>1 DEF ReassemblyInv, Framed
<1>7. Counted'
  <2> SUFFICES ASSUME NEW k \in Messages, NEW l \in Indices(k)
               PROVE  emitted'[k][l] + (IF Waits(pending', k, l) THEN 1 ELSE 0) <= arrived'[k][l]
    BY DEF Counted
  <2>1. emitted[k][l] + (IF Waits(pending, k, l) THEN 1 ELSE 0) <= arrived[k][l]
    BY DEF ReassemblyInv, Counted
  <2>2. emitted[k][l] \in Nat /\ arrived[k][l] \in Nat
    BY <1>2, <1>3
  <2>3. arrived'[k][l] = arrived[k][l] + IF k = m /\ l = i THEN 1 ELSE 0
    BY <1>2
  <2>4. CASE l \in DOMAIN v /\ v[l] = k
    <3>1. ~Waits(pending', k, l)
      BY <2>4
    <3>2. emitted'[k][l] = emitted[k][l] + 1
      BY <1>3, <2>4
    <3>3. (k = m /\ l = i) \/ Waits(pending, k, l)
      BY <2>4
    <3>4. CASE k = m /\ l = i
      <4>1. arrived'[k][l] = arrived[k][l] + 1
        BY <1>2, <3>4
      <4> QED
        BY <2>1, <2>2, <3>1, <3>2, <4>1
    <3>5. CASE ~(k = m /\ l = i)
      <4>1. Waits(pending, k, l)
        BY <3>3, <3>5
      <4>2. arrived'[k][l] = arrived[k][l]
        BY <2>2, <2>3, <3>5
      <4> QED
        BY <2>1, <2>2, <3>1, <3>2, <4>1, <4>2
    <3> QED
      BY <3>4, <3>5
  <2>5. CASE ~(l \in DOMAIN v /\ v[l] = k)
    <3>1. emitted'[k][l] = emitted[k][l]
      BY <1>3, <2>2, <2>5, SMTT(60)
    <3>2. Waits(pending', k, l) => Waits(pending, k, l)
      OBVIOUS
    <3>3. arrived'[k][l] \in {arrived[k][l], arrived[k][l] + 1}
      BY <2>2, <2>3
    <3> QED
      BY <2>1, <2>2, <3>1, <3>2, <3>3, SMTT(60)
  <2> QED
    BY <2>4, <2>5
<1>8. Accounted'
  <2> SUFFICES ASSUME NEW k \in Messages, Alone(k), LinkKey(k) \notin dropped,
                      Whole(k) \notin outputs',
                      NEW l \in Indices(k), arrived'[k][l] > 0
               PROVE  Waits(pending', k, l)
    BY DEF Accounted, Alone, LinkKey, Whole, Indices
  <2>1. CASE LinkKey(k) = LinkKey(m)
    <3>1. k = m
      BY <2>1 DEF Alone
    <3>2. \A j \in DOMAIN v : v[j] = m
      BY <1>5, <3>1 DEF Alone
    <3>3. v = Whole(m)
      <4>1. v = [j \in 1 .. Parts[m] |-> v[j]]
        BY <1>5, LenProperties
      <4> QED
        BY <1>5, <3>2, <4>1 DEF Whole, Indices
    <3> QED
      BY <1>3, <3>1, <3>3
  <2>2. CASE LinkKey(k) # LinkKey(m)
    <3>0. k # m
      BY <2>2
    <3>1. arrived[k][l] > 0
      BY <1>2, <3>0
    <3>2. Waits(pending, k, l)
      BY <1>3, <3>1 DEF ReassemblyInv, Accounted
    <3> QED
      BY <2>2, <3>2
  <2> QED
    BY <2>1, <2>2
<1> QED
  BY <1>4, <1>6, <1>7, <1>8 DEF ReassemblyInv

\* The entry of a key.
LEMMA PlaceFacts ==
  ASSUME PendingOK(pending), NEW m \in Messages, Held(LinkKey(m))
  PROVE  /\ Place(LinkKey(m)) \in DOMAIN pending
         /\ pending[Place(LinkKey(m))].key = LinkKey(m)
         /\ pending[Place(LinkKey(m))] \in Entry /\ EntryOK(pending[Place(LinkKey(m))])
<1>1. \E j \in DOMAIN pending : pending[j].key = LinkKey(m)
  BY DEF Held
<1>2. /\ Place(LinkKey(m)) \in DOMAIN pending
      /\ pending[Place(LinkKey(m))].key = LinkKey(m)
  BY <1>1 DEF Place
<1> QED
  BY <1>2 DEF PendingOK, EntryOK

\* Of a message without an entry nothing waits.
LEMMA NotHeld ==
  ASSUME PendingOK(pending), NEW m \in Messages, ~Held(LinkKey(m)), NEW i
  PROVE  ~Waits(pending, m, i)
<1> SUFFICES ASSUME Waits(pending, m, i) PROVE FALSE
  OBVIOUS
<1> QED
  BY WaitsHeld DEF Held

\* The entry whose count is contradicted goes, and its key is given up.
LEMMA InconsistentStep ==
  ASSUME ReassemblyInv, NEW m \in Messages, NEW i \in Indices(m), OfferInconsistent(m, i)
  PROVE  ReassemblyInv'
<1>1. PICK j \in DOMAIN pending : /\ pending' = Without(pending, j)
                                 /\ pending[j].key = LinkKey(m)
  BY PlaceFacts DEF OfferInconsistent, ReassemblyInv
<1>2. PendingOK(pending) /\ Len(pending) \in Nat /\ Len(pending) <= MaxPending
  BY LenProperties DEF ReassemblyInv, PendingOK
<1>3. /\ PendingOK(pending') /\ Len(pending') = Len(pending) - 1
      /\ \A k \in Messages : \A l :
           Waits(pending', k, l) => Waits(pending, k, l) /\ LinkKey(k) # pending[j].key
      /\ \A k \in Messages : \A l :
           Waits(pending, k, l) /\ LinkKey(k) # pending[j].key => Waits(pending', k, l)
  BY <1>1, <1>2, WithoutOne
<1>4. Arrive(m, i) /\ UNCHANGED <<outputs, emitted>> /\ dropped' = dropped \cup {LinkKey(m)}
  BY DEF OfferInconsistent
<1>5. Len(pending') <= MaxPending
  BY <1>2, <1>3, ReassemblyAssumption
<1>6. \A k \in Messages : \A l \in Indices(k) :
        Waits(pending, k, l) /\ LinkKey(k) \notin dropped' => Waits(pending', k, l)
  BY <1>1, <1>3, <1>4
<1>7. \A k \in Messages : \A l \in Indices(k) :
        Waits(pending', k, l) => Waits(pending, k, l) \/ (k = m /\ l = i)
  BY <1>3
<1>8. dropped \subseteq dropped' /\ LinkKey(m) \in dropped'
  BY <1>4
<1> QED
  BY <1>3, <1>4, <1>5, <1>6, <1>7, <1>8, StoreStep

\* A fragment that is held already waits already.
LEMMA DuplicateStep ==
  ASSUME ReassemblyInv, NEW m \in Messages, NEW i \in Indices(m), OfferDuplicate(m, i)
  PROVE  ReassemblyInv'
<1>1. /\ Arrive(m, i) /\ UNCHANGED <<outputs, emitted>> /\ dropped \subseteq dropped'
      /\ pending' = pending
  BY DEF OfferDuplicate
<1>2. PendingOK(pending) /\ Len(pending) <= MaxPending
  BY DEF ReassemblyInv
<1>3. PICK j \in DOMAIN pending : /\ pending[j].count = Parts[m]
                                 /\ pending[j].chunks[i] # NoChunk
                                 /\ pending[j].key = LinkKey(m) /\ EntryOK(pending[j])
  BY <1>2, PlaceFacts DEF OfferDuplicate
<1>4. ASSUME Alone(m) PROVE Waits(pending, m, i)
  <2>1. i \in Got(pending[j])
    BY <1>3 DEF Got, Indices
  <2>2. LinkKey(pending[j].chunks[i]) = LinkKey(m)
    BY <1>3, <2>1 DEF EntryOK
  <2>3. pending[j].chunks[i] \in Messages
    <3>1. pending[j].chunks \in [1 .. pending[j].count -> Messages \cup {NoChunk}]
      BY <1>3, EntryFields DEF EntryOK
    <3> QED
      BY <1>3, <2>1, <3>1 DEF Got
  <2>4. pending[j].chunks[i] = m
    BY <1>4, <2>2, <2>3 DEF Alone
  <2> QED
    BY <1>3, <2>4 DEF Waits, Indices
<1>5. PendingOK(pending') /\ Len(pending') <= MaxPending
  BY <1>1, <1>2
<1>6. \A k, l : Waits(pending', k, l) <=> Waits(pending, k, l)
  BY <1>1
<1> QED
  BY <1>1, <1>4, <1>5, <1>6, StoreStep

\* A message of one fragment comes out at once.
LEMMA SingleStep ==
  ASSUME ReassemblyInv, NEW m \in Messages, NEW i \in Indices(m), OfferSingle(m, i)
  PROVE  ReassemblyInv'
<1>1. Arrive(m, i) /\ Emit(<<m>>) /\ UNCHANGED <<pending, dropped>> /\ Parts[m] = 1
  BY DEF OfferSingle
<1>2. PendingOK(pending) /\ Len(pending) <= MaxPending
  BY DEF ReassemblyInv
<1>3. PICK v \in Seq(Messages) : v = <<m>>
  <2>1. <<m>> \in Seq(Messages)
    OBVIOUS
  <2> QED
    BY <2>1
<1>4. DOMAIN v = {1} /\ v[1] = m /\ Len(v) = 1 /\ i = 1
  BY <1>1, <1>3 DEF Indices
<1>5. \A k \in Messages : LinkKey(k) = LinkKey(m) => \A l : ~Waits(pending, k, l)
  <2> SUFFICES ASSUME NEW k \in Messages, LinkKey(k) = LinkKey(m), NEW l
               PROVE  ~Waits(pending, k, l)
    OBVIOUS
  <2>1. ~Held(LinkKey(k))
    BY DEF OfferSingle
  <2> QED
    BY <1>2, <2>1, NotHeld
<1>6. /\ PendingOK(pending') /\ Len(pending') <= MaxPending
      /\ \A k, l : Waits(pending', k, l) <=> Waits(pending, k, l)
  BY <1>1, <1>2
<1>7. /\ \A l \in DOMAIN v : LinkKey(v[l]) = LinkKey(m) /\ Parts[v[l]] = Parts[m]
      /\ \A l \in DOMAIN v : (v[l] = m /\ l = i) \/ Waits(pending, v[l], l)
  BY <1>4
<1>8. Emit(v) /\ UNCHANGED dropped /\ Len(v) = Parts[m]
  BY <1>1, <1>3, <1>4
<1>9. \A k \in Messages : \A l \in Indices(k) :
        Waits(pending', k, l) => Waits(pending, k, l) /\ LinkKey(k) # LinkKey(m)
  BY <1>5, <1>6
<1>10. \A k \in Messages : \A l \in Indices(k) :
        Waits(pending, k, l) /\ LinkKey(k) # LinkKey(m) => Waits(pending', k, l)
  BY <1>6
<1> QED
  BY <1>1, <1>6, <1>7, <1>8, <1>9, <1>10, EmitStep

\* What an entry holds are fragments with its key and count.
LEMMA GotFacts ==
  ASSUME NEW e, EntryOK(e)
  PROVE  /\ e \in Entry /\ e.count \in Nat
         /\ e.chunks \in [1 .. e.count -> Messages \cup {NoChunk}]
         /\ Got(e) \in SUBSET (1 .. e.count) /\ IsFiniteSet(Got(e))
         /\ Cardinality(Got(e)) = e.received
         /\ \A l \in Got(e) : /\ e.chunks[l] \in Messages
                             /\ LinkKey(e.chunks[l]) = e.key /\ Parts[e.chunks[l]] = e.count
<1>1. e \in Entry
  BY DEF EntryOK
<1>2. e.count \in Nat /\ e.chunks \in [1 .. e.count -> Messages \cup {NoChunk}]
  BY <1>1, EntryFields
<1>3. Got(e) \in SUBSET (1 .. e.count)
  BY DEF Got
<1>4. IsFiniteSet(Got(e))
  <2>1. IsFiniteSet(1 .. e.count)
    BY <1>2, FS_Interval
  <2> QED
    BY <1>3, <2>1, FS_Subset
<1>5. \A l \in Got(e) : /\ e.chunks[l] \in Messages
                        /\ LinkKey(e.chunks[l]) = e.key /\ Parts[e.chunks[l]] = e.count
  BY <1>2 DEF Got, EntryOK
<1>6. Cardinality(Got(e)) = e.received
  BY DEF EntryOK
<1> QED
  BY <1>1, <1>2, <1>3, <1>4, <1>5, <1>6

\* The vector that the last missing chunk completes.
LEMMA CompleteStep ==
  ASSUME ReassemblyInv, NEW m \in Messages, NEW i \in Indices(m), Arrive(m, i),
         NEW j \in DOMAIN pending, pending[j].key = LinkKey(m),
         pending[j].count = Parts[m], pending[j].chunks[i] = NoChunk,
         pending[j].received + 1 = Parts[m],
         Emit([pending[j].chunks EXCEPT ![i] = m]),
         pending' = Without(pending, j), UNCHANGED dropped
  PROVE  ReassemblyInv'
<1>1. PendingOK(pending) /\ Len(pending) \in Nat /\ Len(pending) <= MaxPending
  BY LenProperties DEF ReassemblyInv, PendingOK
<1>2. PICK e : e = pending[j]
  OBVIOUS
<1>3. PICK v : v = [e.chunks EXCEPT ![i] = m]
  OBVIOUS
<1>4. PICK g : g = Got(e) \cup {i}
  OBVIOUS
<1>5. /\ v \in [1 .. Parts[m] -> Messages \cup {NoChunk}]
      /\ v[i] = m /\ \A l \in 1 .. Parts[m] : l # i => v[l] = pending[j].chunks[l]
      /\ g \in SUBSET (1 .. Parts[m])
      /\ Cardinality(g) = Parts[m]
      /\ \A l \in g : /\ v[l] \in Messages
                      /\ LinkKey(v[l]) = LinkKey(m) /\ Parts[v[l]] = Parts[m]
  <2>1. /\ e.key = LinkKey(m) /\ e.count = Parts[m] /\ e.chunks[i] = NoChunk
        /\ e.received + 1 = Parts[m]
    BY <1>2
  <2>2. m \in Messages /\ i \in Indices(m) /\ j \in DOMAIN pending /\ PendingOK(pending)
    BY <1>1
  <2>3. v \in [1 .. Parts[m] -> Messages \cup {NoChunk}] /\ v[i] = m
    <3>1. e \in Entry
      BY <1>2, <2>2 DEF PendingOK, EntryOK
    <3>2. e.chunks \in [1 .. Parts[m] -> Messages \cup {NoChunk}] /\ i \in 1 .. Parts[m]
      BY <2>1, <2>2, <3>1, EntryFields DEF Indices
    <3> QED
      BY <1>3, <3>2
  <2>4. \A l \in 1 .. Parts[m] : l # i => v[l] = e.chunks[l]
    <3>1. e \in Entry
      BY <1>2, <2>2 DEF PendingOK, EntryOK
    <3>2. e.chunks \in [1 .. Parts[m] -> Messages \cup {NoChunk}]
      BY <2>1, <3>1, EntryFields
    <3> QED
      BY <1>3, <3>2
  <2>5. EntryOK(e)
    BY <1>2, <2>2 DEF PendingOK
  <2>6. PICK h : h = Got(e)
    OBVIOUS
  <2>7. /\ h \in SUBSET (1 .. Parts[m]) /\ IsFiniteSet(h) /\ Cardinality(h) = e.received
        /\ \A l \in h : /\ e.chunks[l] \in Messages
                        /\ LinkKey(e.chunks[l]) = LinkKey(m) /\ Parts[e.chunks[l]] = Parts[m]
    BY <2>1, <2>5, <2>6, GotFacts
  <2>8. g = h \cup {i} /\ i \notin h /\ i \in 1 .. Parts[m]
    BY <1>4, <2>1, <2>2, <2>6 DEF Got, Indices
  <2>9. Cardinality(g) = e.received + 1
    BY <2>7, <2>8, FS_AddElement, ZenonT(60)
  <2>10. g \in SUBSET (1 .. Parts[m])
    BY <2>7, <2>8
  <2>11. \A l \in g : /\ v[l] \in Messages
                      /\ LinkKey(v[l]) = LinkKey(m) /\ Parts[v[l]] = Parts[m]
    BY <2>3, <2>4, <2>7, <2>8
  <2> QED
    BY <1>2, <2>1, <2>3, <2>4, <2>9, <2>10, <2>11
<1>6. Parts[m] \in Nat
  BY ReassemblyAssumption
<1>7. g = 1 .. Parts[m]
  <2>1. IsFiniteSet(1 .. Parts[m]) /\ Cardinality(1 .. Parts[m]) = Parts[m]
    BY <1>6, FS_Interval
  <2>2. g \in SUBSET (1 .. Parts[m])
    BY <1>5
  <2> QED
    BY <1>5, <2>1, <2>2, FS_Subset
<1>8. v \in [1 .. Parts[m] -> Messages]
  BY <1>5, <1>7
<1>9. v \in Seq(Messages) /\ DOMAIN v = 1 .. Parts[m]
  BY <1>6, <1>8, SeqDef
<1>10. Len(v) = Parts[m]
  BY <1>6, <1>8
<1>11. /\ PendingOK(pending') /\ Len(pending') = Len(pending) - 1
       /\ \A k \in Messages : \A l :
            Waits(pending', k, l) => Waits(pending, k, l) /\ LinkKey(k) # LinkKey(m)
       /\ \A k \in Messages : \A l :
            Waits(pending, k, l) /\ LinkKey(k) # LinkKey(m) => Waits(pending', k, l)
  BY <1>1, WithoutOne
<1>12. Len(pending') <= MaxPending
  BY <1>1, <1>11, ReassemblyAssumption
<1>13. \A l \in DOMAIN v : LinkKey(v[l]) = LinkKey(m) /\ Parts[v[l]] = Parts[m]
  BY <1>5, <1>7, <1>9
<1>14. ASSUME NEW l \in DOMAIN v PROVE (v[l] = m /\ l = i) \/ Waits(pending, v[l], l)
  <2>1. CASE l = i
    BY <1>5, <2>1
  <2>2. CASE l # i
    <3>1. v[l] = pending[j].chunks[l] /\ l \in 1 .. pending[j].count
      BY <1>5, <1>9, <2>2
    <3> QED
      BY <3>1 DEF Waits
  <2> QED
    BY <2>1, <2>2
<1>15. Emit(v)
  BY <1>2, <1>3
<1> QED
  BY <1>9, <1>10, <1>11, <1>12, <1>13, <1>14, <1>15, EmitStep, SMTT(60)

\* An entry replaced by another of the same key and age.
LEMMA Replaced ==
  ASSUME NEW p, PendingOK(p), NEW j \in DOMAIN p, NEW e, EntryOK(e), e.key = p[j].key,
         e.age = p[j].age, NEW s \in Seq(Entry), Len(s) = Len(p), s[j] = e,
         \A k \in DOMAIN p : k # j => s[k] = p[k]
  PROVE  PendingOK(s)
<1>1. p \in Seq(Entry) /\ Len(p) \in Nat /\ DOMAIN p = 1 .. Len(p) /\ e \in Entry
  BY LenProperties DEF PendingOK, EntryOK
<1>2. DOMAIN s = DOMAIN p
  BY <1>1, LenProperties
<1>3. \A k \in DOMAIN p : s[k].key = p[k].key /\ s[k].age = p[k].age
  BY <1>2
<1>4. \A k \in DOMAIN s : EntryOK(s[k])
  BY <1>2 DEF PendingOK
<1>5. \A k, l \in DOMAIN s : s[k].key = s[l].key => k = l
  BY <1>2, <1>3 DEF PendingOK
<1>6. \A k, l \in DOMAIN s : k < l => s[l].age <= s[k].age
  BY <1>2, <1>3 DEF PendingOK
<1>7. PendingOK(s)
  BY <1>4, <1>5, <1>6 DEF PendingOK
<1> QED
  BY <1>7

\* One more chunk in an entry that it does not complete.
LEMMA GrowStep ==
  ASSUME ReassemblyInv, NEW m \in Messages, NEW i \in Indices(m), Arrive(m, i),
         NEW j \in DOMAIN pending, pending[j].key = LinkKey(m),
         pending[j].count = Parts[m], pending[j].chunks[i] = NoChunk,
         pending[j].received + 1 # Parts[m],
         pending' = [pending EXCEPT ![j].chunks = [pending[j].chunks EXCEPT ![i] = m],
                                    ![j].received = @ + 1],
         UNCHANGED <<outputs, emitted, dropped>>
  PROVE  ReassemblyInv'
<1>1. PendingOK(pending) /\ Len(pending) <= MaxPending
  BY DEF ReassemblyInv
<1>2. PICK e : e = pending[j]
  OBVIOUS
<1>3. /\ EntryOK(e) /\ e.key = LinkKey(m) /\ e.count = Parts[m] /\ e.chunks[i] = NoChunk
      /\ i \in 1 .. e.count
  BY <1>2, <1>1 DEF PendingOK, Indices
<1>4. PICK h : h = Got(e)
  OBVIOUS
<1>5. /\ e \in Entry /\ e.count \in Nat
      /\ e.chunks \in [1 .. e.count -> Messages \cup {NoChunk}]
      /\ h \in SUBSET (1 .. e.count) /\ IsFiniteSet(h)
      /\ Cardinality(h) = e.received
      /\ \A l \in h : /\ e.chunks[l] \in Messages
                      /\ LinkKey(e.chunks[l]) = e.key /\ Parts[e.chunks[l]] = e.count
  BY <1>3, <1>4, GotFacts
<1>6. PICK c : c = [e.chunks EXCEPT ![i] = m]
  OBVIOUS
<1>7. /\ c \in [1 .. e.count -> Messages \cup {NoChunk}] /\ c[i] = m
      /\ \A l \in 1 .. e.count : l # i => c[l] = e.chunks[l]
  BY <1>3, <1>5, <1>6
<1>8. PICK f : f = [[e EXCEPT !.chunks = c] EXCEPT !.received = @ + 1]
  OBVIOUS
<1>9. PICK n \in {Parts[k] : k \in Messages} :
        e \in [key : {LinkKey(k) : k \in Messages}, count : {n}, received : 0 .. n,
               chunks : [1 .. n -> Messages \cup {NoChunk}], age : 0 .. Timeout + 1]
  BY <1>5 DEF Entry
<1>10. /\ f.key = e.key /\ f.count = e.count /\ f.received = e.received + 1
       /\ f.chunks = c /\ f.age = e.age
  BY <1>8, <1>9
<1>11. Got(f) = h \cup {i} /\ i \notin h
  BY <1>3, <1>4, <1>5, <1>7, <1>10, ReassemblyAssumption DEF Got
<1>12. Cardinality(Got(f)) = f.received
  <2>1. Cardinality(h \cup {i}) = Cardinality(h) + 1
    BY <1>5, <1>11, FS_AddElement
  <2> QED
    BY <1>5, <1>10, <1>11, <2>1
<1>13. f.received <= f.count /\ f.received \in Nat
  <2>1. Got(f) \in SUBSET (1 .. e.count)
    BY <1>3, <1>5, <1>11
  <2>2. IsFiniteSet(1 .. e.count) /\ Cardinality(1 .. e.count) = e.count
    BY <1>5, FS_Interval
  <2>3. Cardinality(Got(f)) <= e.count
    BY <2>1, <2>2, FS_Subset
  <2>4. e.received \in Nat
    BY <1>5, EntryFields
  <2> QED
    BY <1>10, <1>12, <2>3, <2>4
<1>14. f \in Entry
  <2>1. e.count = n /\ c \in [1 .. n -> Messages \cup {NoChunk}] /\ e.received + 1 \in 0 .. n
    BY <1>7, <1>10, <1>13, <1>9
  <2>2. f \in [key : {LinkKey(k) : k \in Messages}, count : {n}, received : 0 .. n,
               chunks : [1 .. n -> Messages \cup {NoChunk}], age : 0 .. Timeout + 1]
    BY <1>8, <1>9, <2>1
  <2> QED
    BY <1>9, <2>2 DEF Entry
<1>15. \A l \in Got(f) : LinkKey(f.chunks[l]) = f.key /\ Parts[f.chunks[l]] = f.count
  BY <1>3, <1>5, <1>7, <1>10, <1>11
<1>16. EntryOK(f)
  <2>1. f.received # f.count
    BY <1>2, <1>3, <1>10
  <2>2. f.received < f.count
    BY <1>5, <1>10, <1>13, <2>1
  <2> QED
    BY <1>12, <1>14, <1>15, <2>2 DEF EntryOK
<1>17. PICK s : s = [pending EXCEPT ![j] = f]
  OBVIOUS
<1>18. pending' = s
  <2>1. pending' = [pending EXCEPT ![j] =
                      [[e EXCEPT !.chunks = c] EXCEPT !.received = @ + 1]]
    BY <1>2, <1>6
  <2> QED
    BY <1>8, <1>17, <2>1
<1>19. /\ PendingOK(s) /\ Len(s) = Len(pending) /\ DOMAIN s = DOMAIN pending
       /\ s[j] = f /\ \A k \in DOMAIN pending : k # j => s[k] = pending[k]
  <2>1. f.key = pending[j].key /\ f.age = pending[j].age /\ j \in DOMAIN pending
    BY <1>2, <1>10
  <2>2. pending \in Seq(Entry) /\ DOMAIN pending = 1 .. Len(pending)
    BY <1>1, LenProperties DEF PendingOK
  <2>3. s \in Seq(Entry) /\ Len(s) = Len(pending)
    BY <1>14, <1>17, <2>1, <2>2, ExceptSeq
  <2>4. /\ DOMAIN s = DOMAIN pending /\ s[j] = f
        /\ \A k \in DOMAIN pending : k # j => s[k] = pending[k]
    BY <1>17, <2>1, <2>2
  <2>5. PendingOK(s)
    BY <1>1, <1>16, <2>1, <2>3, <2>4, Replaced
  <2> QED
    BY <2>3, <2>4, <2>5
<1>20. PendingOK(pending') /\ Len(pending') <= MaxPending
  BY <1>1, <1>18, <1>19
<1>21. Waits(s, m, i)
  BY <1>3, <1>7, <1>10, <1>19 DEF Waits
<1>22. \A k \in Messages : \A l : Waits(s, k, l) => Waits(pending, k, l) \/ (k = m /\ l = i)
  <2> SUFFICES ASSUME NEW k \in Messages, NEW l, Waits(s, k, l), ~(k = m /\ l = i)
               PROVE  Waits(pending, k, l)
    OBVIOUS
  <2>1. PICK a \in DOMAIN s : l \in 1 .. s[a].count /\ s[a].chunks[l] = k
    BY DEF Waits
  <2>2. CASE a = j
    <3>1. l \in 1 .. e.count /\ l # i /\ e.chunks[l] = k
      BY <1>7, <1>10, <1>19, <2>1, <2>2
    <3> QED
      BY <1>2, <3>1 DEF Waits
  <2>3. CASE a # j
    BY <1>19, <2>1, <2>3 DEF Waits
  <2> QED
    BY <2>2, <2>3
<1>23. \A k \in Messages : \A l : Waits(pending, k, l) => Waits(s, k, l)
  <2> SUFFICES ASSUME NEW k \in Messages, NEW l, Waits(pending, k, l)
               PROVE  Waits(s, k, l)
    OBVIOUS
  <2>1. PICK a \in DOMAIN pending : l \in 1 .. pending[a].count /\ pending[a].chunks[l] = k
    BY DEF Waits
  <2>2. CASE a = j
    <3>1. l \in 1 .. e.count /\ l # i /\ e.chunks[l] = k
      BY <1>2, <1>3, <2>1, <2>2, ReassemblyAssumption
    <3> QED
      BY <1>7, <1>10, <1>19, <3>1, ZenonT(60) DEF Waits
  <2>3. CASE a # j
    BY <1>19, <2>1, <2>3 DEF Waits
  <2> QED
    BY <2>2, <2>3
<1>24. UNCHANGED <<outputs, emitted>> /\ dropped \subseteq dropped'
  OBVIOUS
<1> QED
  <2>1. \A k \in Messages : \A l \in Indices(k) :
          Waits(pending', k, l) => Waits(pending, k, l) \/ (k = m /\ l = i)
    BY <1>18, <1>22
  <2>2. \A k \in Messages : \A l \in Indices(k) :
          Waits(pending, k, l) => Waits(pending', k, l)
    <3> SUFFICES ASSUME NEW k \in Messages, NEW l \in Indices(k), Waits(pending, k, l)
                 PROVE  Waits(pending', k, l)
      OBVIOUS
    <3>1. Waits(s, k, l)
      BY <1>23
    <3> QED
      BY <1>18, <3>1
  <2>3. Waits(pending', m, i)
    BY <1>18, <1>21
  <2> QED
    BY <1>20, <1>24, <2>1, <2>2, <2>3, StoreStep

\* One more chunk completes the entry or grows it.
LEMMA NextChunkStep ==
  ASSUME ReassemblyInv, NEW m \in Messages, NEW i \in Indices(m), OfferNext(m, i)
  PROVE  ReassemblyInv'
<1>1. PICK j \in DOMAIN pending : j = Place(LinkKey(m)) /\ pending[j].key = LinkKey(m)
  BY PlaceFacts DEF OfferNext, ReassemblyInv
<1>2. /\ Arrive(m, i) /\ pending[j].count = Parts[m] /\ pending[j].chunks[i] = NoChunk
      /\ UNCHANGED dropped
  BY <1>1 DEF OfferNext
<1>3. CASE pending[j].received + 1 = Parts[m]
  <2>1. /\ Emit([pending[j].chunks EXCEPT ![i] = m])
        /\ pending' = Without(pending, j)
    BY <1>1, <1>3 DEF OfferNext
  <2> QED
    BY <1>1, <1>2, <1>3, <2>1, CompleteStep
<1>4. CASE pending[j].received + 1 # Parts[m]
  <2>1. /\ pending' = [pending EXCEPT ![j].chunks = [pending[j].chunks EXCEPT ![i] = m],
                                    ![j].received = @ + 1]
        /\ UNCHANGED <<outputs, emitted>>
    BY <1>1, <1>4 DEF OfferNext
  <2> QED
    BY <1>1, <1>2, <1>4, <2>1, GrowStep
<1> QED
  BY <1>3, <1>4

\* A new entry behind the others.
LEMMA Appended ==
  ASSUME NEW p, PendingOK(p), NEW e, EntryOK(e), e.age = 0,
         \A j \in DOMAIN p : p[j].key # e.key
  PROVE  /\ PendingOK(Append(p, e)) /\ Len(Append(p, e)) = Len(p) + 1
         /\ \A m, i : Waits(Append(p, e), m, i) <=>
                        Waits(p, m, i) \/ (i \in 1 .. e.count /\ e.chunks[i] = m)
<1>1. /\ p \in Seq(Entry) /\ Len(p) \in Nat /\ DOMAIN p = 1 .. Len(p) /\ e \in Entry
      /\ \A j \in DOMAIN p : p[j] \in Entry
  BY LenProperties DEF PendingOK, EntryOK
<1>2. PICK s : s = Append(p, e)
  OBVIOUS
<1>3. /\ s \in Seq(Entry) /\ Len(s) = Len(p) + 1 /\ DOMAIN s = 1 .. Len(p) + 1
      /\ s[Len(p) + 1] = e /\ \A j \in 1 .. Len(p) : s[j] = p[j]
  BY <1>1, <1>2, AppendProperties, LenProperties
<1>4. \A j \in DOMAIN s : EntryOK(s[j])
  BY <1>1, <1>3 DEF PendingOK
<1>5. \A j, k \in DOMAIN s : s[j].key = s[k].key => j = k
  BY <1>1, <1>3 DEF PendingOK
<1>6. \A j, k \in DOMAIN s : j < k => s[k].age <= s[j].age
  <2> SUFFICES ASSUME NEW j \in DOMAIN s, NEW k \in DOMAIN s, j < k
               PROVE  s[k].age <= s[j].age
    OBVIOUS
  <2>1. j \in 1 .. Len(p) /\ s[j] = p[j]
    BY <1>1, <1>3
  <2>2. p[j].age \in Nat
    BY <1>1, <2>1, EntryFields, ReassemblyAssumption
  <2>3. CASE k = Len(p) + 1
    BY <1>3, <2>1, <2>2, <2>3
  <2>4. CASE k # Len(p) + 1
    <3>1. k \in 1 .. Len(p) /\ s[k] = p[k]
      BY <1>1, <1>3, <2>4
    <3> QED
      BY <1>1, <2>1, <3>1 DEF PendingOK
  <2> QED
    BY <2>3, <2>4
<1>7. PendingOK(s)
  BY <1>3, <1>4, <1>5, <1>6 DEF PendingOK
<1>8. ASSUME NEW m, NEW i
      PROVE  Waits(s, m, i) <=> Waits(p, m, i) \/ (i \in 1 .. e.count /\ e.chunks[i] = m)
  <2>1. ASSUME Waits(s, m, i)
        PROVE  Waits(p, m, i) \/ (i \in 1 .. e.count /\ e.chunks[i] = m)
    <3>1. PICK j \in DOMAIN s : i \in 1 .. s[j].count /\ s[j].chunks[i] = m
      BY <2>1 DEF Waits
    <3> QED
      BY <1>1, <1>3, <3>1 DEF Waits
  <2>2. ASSUME Waits(p, m, i) PROVE Waits(s, m, i)
    <3>1. PICK j \in DOMAIN p : i \in 1 .. p[j].count /\ p[j].chunks[i] = m
      BY <2>2 DEF Waits
    <3> QED
      BY <1>1, <1>3, <3>1 DEF Waits
  <2>3. ASSUME i \in 1 .. e.count, e.chunks[i] = m PROVE Waits(s, m, i)
    BY <1>1, <1>3, <2>3 DEF Waits
  <2> QED
    BY <2>1, <2>2, <2>3
<1> QED
  BY <1>2, <1>3, <1>7, <1>8

\* The entry of a first fragment holds that fragment alone.
LEMMA FirstEntryOK ==
  ASSUME NEW m \in Messages, NEW i \in Indices(m), Parts[m] > 1
  PROVE  /\ EntryOK(FirstEntry(m, i)) /\ FirstEntry(m, i).age = 0
         /\ FirstEntry(m, i).key = LinkKey(m) /\ FirstEntry(m, i).count = Parts[m]
         /\ FirstEntry(m, i).chunks[i] = m
         /\ \A l \in Indices(m) : l # i => FirstEntry(m, i).chunks[l] = NoChunk
<1>1. PICK c : c = [NoChunks(Parts[m]) EXCEPT ![i] = m]
  OBVIOUS
<1>2. /\ c \in [1 .. Parts[m] -> Messages \cup {NoChunk}] /\ c[i] = m
      /\ \A l \in 1 .. Parts[m] : l # i => c[l] = NoChunk
      /\ i \in 1 .. Parts[m] /\ Parts[m] \in Nat \ {0}
  BY <1>1, ReassemblyAssumption DEF NoChunks, Indices
<1>3. PICK e : e = [key |-> LinkKey(m), count |-> Parts[m], received |-> 1,
                    chunks |-> c, age |-> 0]
  OBVIOUS
<1>4. e.key = LinkKey(m) /\ e.count = Parts[m] /\ e.received = 1 /\ e.chunks = c /\ e.age = 0
  BY <1>3
<1>5. e \in Entry
  <2>1. 1 \in 0 .. Parts[m] /\ 0 \in 0 .. Timeout + 1
        /\ LinkKey(m) \in {LinkKey(k) : k \in Messages}
    BY <1>2, ReassemblyAssumption
  <2> QED
    BY <1>2, <1>3, <2>1, EntryMade
<1>6. Got(e) = {i}
  BY <1>2, <1>4, ReassemblyAssumption DEF Got
<1>7. Cardinality(Got(e)) = 1
  BY <1>6, FS_Singleton
<1>8. \A l \in Got(e) : LinkKey(e.chunks[l]) = e.key /\ Parts[e.chunks[l]] = e.count
  BY <1>2, <1>4, <1>6
<1>9. EntryOK(e)
  BY <1>2, <1>4, <1>5, <1>7, <1>8 DEF EntryOK
<1>10. FirstEntry(m, i) = e
  BY <1>1, <1>3 DEF FirstEntry
<1> QED
  BY <1>2, <1>4, <1>9, <1>10 DEF Indices

\* A first fragment, with or without an eviction before it.
LEMMA FirstStep ==
  ASSUME ReassemblyInv, NEW m \in Messages, NEW i \in Indices(m), OfferFirst(m, i)
  PROVE  ReassemblyInv'
<1>1. PendingOK(pending) /\ Len(pending) <= MaxPending /\ pending \in Seq(Entry)
  BY DEF ReassemblyInv, PendingOK
<1>2. PICK e : /\ e = FirstEntry(m, i) /\ EntryOK(e) /\ e.age = 0 /\ e.key = LinkKey(m)
               /\ e.count = Parts[m] /\ e.chunks[i] = m
               /\ \A l \in Indices(m) : l # i => e.chunks[l] = NoChunk
  BY FirstEntryOK DEF OfferFirst
<1>3. Arrive(m, i) /\ UNCHANGED <<outputs, emitted>> /\ ~Held(LinkKey(m))
  BY DEF OfferFirst
<1>4. Len(pending) \in Nat /\ DOMAIN pending = 1 .. Len(pending) /\ MaxPending \in Nat \ {0}
  BY <1>1, LenProperties, ReassemblyAssumption
<1>5. PICK s : /\ pending' = Append(s, e) /\ PendingOK(s) /\ Len(s) < MaxPending
               /\ dropped \subseteq dropped'
               /\ \A k \in Messages : \A l : Waits(s, k, l) => Waits(pending, k, l)
               /\ \A k \in Messages : \A l :
                    Waits(pending, k, l) /\ LinkKey(k) \notin dropped' => Waits(s, k, l)
               /\ \A j \in DOMAIN s : s[j].key # LinkKey(m)
  <2>1. \A j \in DOMAIN pending : pending[j].key # LinkKey(m)
    BY <1>3 DEF Held
  <2>2. CASE Len(pending) >= MaxPending
    <3>1. PICK s : s = SubSeq(pending, 2, Len(pending))
      OBVIOUS
    <3>2. 1 \in DOMAIN pending
      BY <1>4, <2>2
    <3>3. s = Tail(pending)
      BY <1>1, <3>1, <3>2, TailIsSubSeq
    <3>4. /\ PendingOK(s) /\ Len(s) = Len(pending) - 1
          /\ \A k \in Messages : \A l : Waits(s, k, l) => Waits(pending, k, l)
          /\ \A k \in Messages : \A l :
               Waits(pending, k, l) /\ pending[1].key # LinkKey(k) => Waits(s, k, l)
      <4>1. PICK d \in DOMAIN pending : d = 1
        BY <3>2
      <4>2. /\ s \in Seq(Entry) /\ d \in DOMAIN pending /\ Len(s) = Len(pending) - d
            /\ \A k \in 1 .. Len(pending) - d : s[k] = pending[k + d]
        BY <1>1, <1>4, <3>1, <4>1, SubSeqProperties
      <4>3. /\ PendingOK(s)
            /\ \A k \in Messages : \A l : Waits(s, k, l) => Waits(pending, k, l)
            /\ \A k \in Messages : \A l :
                 Waits(pending, k, l) /\ (\A j \in 1 .. d : pending[j].key # LinkKey(k))
                 => Waits(s, k, l)
        BY <1>1, <4>2, WithoutOldest DEF Rest
      <4> QED
        BY <4>1, <4>2, <4>3
    <3>5. pending' = Append(s, e) /\ dropped' = dropped \cup {pending[1].key}
      BY <1>1, <1>2, <2>2, <3>2, <3>3 DEF OfferFirst
    <3>6. \A j \in DOMAIN s : s[j].key # LinkKey(m)
      <4>1. \A j \in 1 .. Len(pending) - 1 : s[j] = pending[j + 1]
        BY <1>1, <1>4, <3>1, SubSeqProperties
      <4>2. DOMAIN s = 1 .. Len(pending) - 1
        BY <3>4, LenProperties DEF PendingOK
      <4> QED
        BY <1>4, <2>1, <4>1, <4>2
    <3>7. Len(s) < MaxPending
      BY <1>1, <1>4, <3>4
    <3>8. \A k \in Messages : \A l :
            Waits(pending, k, l) /\ LinkKey(k) \notin dropped' => Waits(s, k, l)
      BY <3>4, <3>5
    <3> QED
      BY <3>4, <3>5, <3>6, <3>7, <3>8
  <2>3. CASE ~(Len(pending) >= MaxPending)
    <3>1. pending' = Append(pending, e) /\ dropped' = dropped /\ Len(pending) < MaxPending
      BY <1>2, <1>4, <2>3 DEF OfferFirst
    <3> QED
      BY <1>1, <2>1, <3>1
  <2> QED
    BY <2>2, <2>3
<1>6. \A j \in DOMAIN s : s[j].key # e.key
  BY <1>2, <1>5
<1>7. /\ PendingOK(pending') /\ Len(pending') = Len(s) + 1
      /\ \A k, l : Waits(pending', k, l) <=>
                     Waits(s, k, l) \/ (l \in 1 .. e.count /\ e.chunks[l] = k)
  BY <1>2, <1>5, <1>6, Appended
<1>8. Len(pending') <= MaxPending
  <2>1. Len(s) \in Nat
    BY <1>5, LenProperties DEF PendingOK
  <2> QED
    BY <1>4, <1>5, <1>7, <2>1
<1>9. Waits(pending', m, i)
  BY <1>2, <1>7 DEF Indices
<1>10. \A k \in Messages : \A l \in Indices(k) :
         Waits(pending', k, l) => Waits(pending, k, l) \/ (k = m /\ l = i)
  <2> SUFFICES ASSUME NEW k \in Messages, NEW l \in Indices(k), Waits(pending', k, l),
                      ~Waits(s, k, l)
               PROVE  k = m /\ l = i
    BY <1>5
  <2>1. l \in Indices(m) /\ e.chunks[l] = k
    BY <1>2, <1>7 DEF Indices
  <2> QED
    BY <1>2, <2>1, ReassemblyAssumption
<1>11. \A k \in Messages : \A l \in Indices(k) :
         Waits(pending, k, l) /\ LinkKey(k) \notin dropped' => Waits(pending', k, l)
  BY <1>5, <1>7
<1> QED
  BY <1>3, <1>5, <1>7, <1>8, <1>9, <1>10, <1>11, StoreStep

\* Time moves the ages together, and takes out what is too old.
LEMMA TimeStep ==
  ASSUME ReassemblyInv, UNCHANGED <<outputs, arrived, emitted>>, dropped \subseteq dropped',
         PendingOK(pending'), Len(pending') <= MaxPending,
         \A k \in Messages : \A l \in Indices(k) :
           Waits(pending', k, l) => Waits(pending, k, l),
         \A k \in Messages : \A l \in Indices(k) :
           Waits(pending, k, l) /\ LinkKey(k) \notin dropped' => Waits(pending', k, l)
  PROVE  ReassemblyInv'
<1>1. HistoryOK' /\ Framed'
  BY DEF ReassemblyInv, HistoryOK, Framed
<1>2. Counted'
  <2> SUFFICES ASSUME NEW k \in Messages, NEW l \in Indices(k)
               PROVE  emitted[k][l] + (IF Waits(pending', k, l) THEN 1 ELSE 0) <= arrived[k][l]
    BY DEF Counted
  <2>1. emitted[k][l] \in Nat /\ arrived[k][l] \in Nat
    BY DEF ReassemblyInv, HistoryOK
  <2>2. emitted[k][l] + (IF Waits(pending, k, l) THEN 1 ELSE 0) <= arrived[k][l]
    BY DEF ReassemblyInv, Counted
  <2> QED
    BY <2>1, <2>2
<1>3. Accounted'
  <2> SUFFICES ASSUME NEW k \in Messages, Alone(k), LinkKey(k) \notin dropped',
                      Whole(k) \notin outputs,
                      NEW l \in Indices(k), arrived[k][l] > 0
               PROVE  Waits(pending', k, l)
    BY DEF Accounted, Alone, LinkKey, Whole, Indices
  <2> QED
    BY DEF ReassemblyInv, Accounted
<1> QED
  BY <1>1, <1>2, <1>3 DEF ReassemblyInv

\* Ages grow together and stop at the bound, so they stay in order.
LEMMA TickStep ==
  ASSUME ReassemblyInv, Tick
  PROVE  ReassemblyInv'
<1>1. PendingOK(pending) /\ Len(pending) <= MaxPending
  BY DEF ReassemblyInv
<1>2. /\ pending \in Seq(Entry) /\ Len(pending) \in Nat /\ DOMAIN pending = 1 .. Len(pending)
      /\ \A j \in DOMAIN pending : pending[j] \in Entry /\ EntryOK(pending[j])
      /\ Timeout \in Nat
  BY <1>1, LenProperties, ReassemblyAssumption DEF PendingOK
<1> DEFINE older(e) == [e EXCEPT !.age = IF @ <= Timeout THEN @ + 1 ELSE @]
<1>3. ASSUME NEW e \in Entry, EntryOK(e)
      PROVE  /\ older(e) \in Entry /\ EntryOK(older(e))
             /\ older(e).key = e.key /\ older(e).count = e.count /\ older(e).chunks = e.chunks
             /\ older(e).age = IF e.age <= Timeout THEN e.age + 1 ELSE e.age
  <2>1. PICK n \in {Parts[k] : k \in Messages} :
          e \in [key : {LinkKey(k) : k \in Messages}, count : {n}, received : 0 .. n,
                 chunks : [1 .. n -> Messages \cup {NoChunk}], age : 0 .. Timeout + 1]
    BY DEF Entry
  <2>2. PICK f : f = older(e)
    OBVIOUS
  <2>3. /\ f.key = e.key /\ f.count = e.count /\ f.chunks = e.chunks
        /\ f.received = e.received /\ f.age = IF e.age <= Timeout THEN e.age + 1 ELSE e.age
    BY <2>1, <2>2
  <2>4. f.age \in 0 .. Timeout + 1
    BY <1>2, <2>1, <2>3
  <2>5. f \in [key : {LinkKey(k) : k \in Messages}, count : {n}, received : 0 .. n,
               chunks : [1 .. n -> Messages \cup {NoChunk}], age : 0 .. Timeout + 1]
    <3>1. (IF e.age <= Timeout THEN e.age + 1 ELSE e.age) \in 0 .. Timeout + 1
      BY <2>3, <2>4
    <3> QED
      BY <2>1, <2>2, <3>1
  <2>6. f \in Entry
    BY <2>1, <2>5 DEF Entry
  <2>7. Got(f) = Got(e)
    BY <2>3 DEF Got
  <2>8. EntryOK(f)
    BY <1>3, <2>3, <2>6, <2>7 DEF EntryOK
  <2> QED
    BY <2>2, <2>3, <2>6, <2>8
<1>4. PICK s : s = pending'
  OBVIOUS
<1>5. s = [j \in DOMAIN pending |-> older(pending[j])]
  BY <1>4 DEF Tick
<1> HIDE DEF older
<1>6. /\ DOMAIN s = DOMAIN pending /\ \A j \in DOMAIN pending : s[j] = older(pending[j])
      /\ s \in [1 .. Len(pending) -> Entry]
  BY <1>2, <1>3, <1>5
<1>7. s \in Seq(Entry) /\ Len(s) = Len(pending)
  <2>1. s \in Seq(Entry)
    BY <1>2, <1>6, SeqDef
  <2> QED
    BY <1>2, <1>6, <2>1, LenProperties
<1>8. \A j \in DOMAIN pending :
        /\ EntryOK(s[j]) /\ s[j].key = pending[j].key /\ s[j].count = pending[j].count
        /\ s[j].chunks = pending[j].chunks /\ pending[j].age \in Nat
        /\ s[j].age = IF pending[j].age <= Timeout THEN pending[j].age + 1 ELSE pending[j].age
  BY <1>2, <1>3, <1>6, EntryFields
<1>9. \A j, k \in DOMAIN s : s[j].key = s[k].key => j = k
  BY <1>1, <1>6, <1>8 DEF PendingOK
<1>10. \A j, k \in DOMAIN s : j < k => s[k].age <= s[j].age
  <2> SUFFICES ASSUME NEW j \in DOMAIN pending, NEW k \in DOMAIN pending, j < k
               PROVE  s[k].age <= s[j].age
    BY <1>6
  <2>1. pending[k].age <= pending[j].age
    BY <1>1 DEF PendingOK
  <2> QED
    BY <1>2, <1>8, <2>1
<1>11. PendingOK(s)
  BY <1>6, <1>7, <1>8, <1>9, <1>10 DEF PendingOK
<1>12. \A k \in Messages : \A l : Waits(s, k, l) <=> Waits(pending, k, l)
  BY <1>6, <1>8 DEF Waits
<1>13. UNCHANGED <<outputs, arrived, emitted, dropped>>
  BY DEF Tick
<1> QED
  BY <1>1, <1>4, <1>7, <1>11, <1>12, <1>13, TimeStep

\* What the timer evicts is an initial part of the entries.
LEMMA EvictOlderStep ==
  ASSUME ReassemblyInv, EvictOlder
  PROVE  ReassemblyInv'
<1>1. PendingOK(pending) /\ Len(pending) <= MaxPending
  BY DEF ReassemblyInv
<1>2. PICK n \in DOMAIN pending :
        /\ pending' = SubSeq(pending, n + 1, Len(pending))
        /\ dropped' = dropped \cup {pending[j].key : j \in 1 .. n}
        /\ UNCHANGED <<outputs, arrived, emitted>>
  BY DEF EvictOlder
<1>3. PICK s : s = SubSeq(pending, n + 1, Len(pending))
  OBVIOUS
<1>4. /\ n \in DOMAIN pending /\ s \in Seq(Entry) /\ Len(s) = Len(pending) - n
      /\ \A k \in 1 .. Len(pending) - n : s[k] = pending[k + n]
  <2>1. /\ pending \in Seq(Entry) /\ Len(pending) \in Nat /\ DOMAIN pending = 1 .. Len(pending)
        /\ n \in 1 .. Len(pending)
    BY <1>1, LenProperties DEF PendingOK
  <2> QED
    BY <1>3, <2>1, SubSeqProperties
<1>5. /\ PendingOK(s)
      /\ \A m \in Messages : \A i : Waits(s, m, i) => Waits(pending, m, i)
      /\ \A m \in Messages : \A i :
           Waits(pending, m, i) /\ (\A j \in 1 .. n : pending[j].key # LinkKey(m))
           => Waits(s, m, i)
  BY <1>1, <1>4, WithoutOldest DEF Rest
<1>6. Len(s) <= MaxPending
  BY <1>1, <1>4, <1>5, LenProperties, ReassemblyAssumption DEF PendingOK
<1> QED
  BY <1>2, <1>3, <1>5, <1>6, TimeStep

\* A new reassembler.
LEMMA InitInv ==
  ASSUME ReassemblyInit
  PROVE  ReassemblyInv
<1>1. \A m \in Messages : Parts[m] \in Nat \ {0}
  BY ReassemblyAssumption
<1> DEFINE zero(m) == [i \in Indices(m) |-> 0]
<1>2. \A m \in Messages : /\ zero(m) \in [Indices(m) -> Nat]
                          /\ zero(m) \in Seq(Nat) /\ \A i \in Indices(m) : zero(m)[i] = 0
  <2> TAKE m \in Messages
  <2>1. zero(m) \in [1 .. Parts[m] -> Nat]
    BY DEF Indices
  <2>2. zero(m) \in Seq(Nat)
    BY <1>1, <2>1, SeqDef
  <2> QED
    BY <2>1, <2>2 DEF Indices
<1>3. arrived = [m \in Messages |-> zero(m)] /\ emitted = [m \in Messages |-> zero(m)]
  BY DEF ReassemblyInit
<1> HIDE DEF zero
<1>4. HistoryOK
  BY <1>2, <1>3 DEF HistoryOK, ReassemblyInit
<1>5. PendingOK(pending) /\ Len(pending) <= MaxPending
  <2>1. pending = <<>> /\ pending \in Seq(Entry) /\ DOMAIN pending = {} /\ Len(pending) = 0
    BY DEF ReassemblyInit
  <2> QED
    BY <2>1, ReassemblyAssumption DEF PendingOK
<1>6. \A m, i : ~Waits(pending, m, i)
  BY DEF Waits, ReassemblyInit
<1>7. Framed
  BY DEF Framed, ReassemblyInit
<1>8. Counted
  BY <1>2, <1>3, <1>6 DEF Counted
<1>9. Accounted
  BY <1>2, <1>3 DEF Accounted
<1> QED
  BY <1>4, <1>5, <1>7, <1>8, <1>9 DEF ReassemblyInv

\* Every step preserves the invariant.
LEMMA NextInv ==
  ASSUME ReassemblyInv, [ReassemblyNext]_rvars
  PROVE  ReassemblyInv'
<1>1. ASSUME NEW m \in Messages, NEW i \in Indices(m), Offer(m, i)
      PROVE  ReassemblyInv'
  BY <1>1, InconsistentStep, DuplicateStep, NextChunkStep, SingleStep, FirstStep DEF Offer
<1>2. CASE Tick
  BY <1>2, TickStep
<1>3. CASE EvictOlder
  BY <1>3, EvictOlderStep
<1>4. CASE UNCHANGED rvars
  BY <1>4 DEF rvars, ReassemblyInv, HistoryOK, PendingOK, Framed, Counted, Accounted, Alone,
             LinkKey, Whole, Indices, Waits
<1> QED
  BY <1>1, <1>2, <1>3, <1>4 DEF ReassemblyNext

\* An entry that held all its fragments would have come out: NoneLost.
LEMMA InvImplies ==
  ASSUME ReassemblyInv
  PROVE  Framed /\ Conserved /\ NoneLost
<1>1. Framed
  BY DEF ReassemblyInv
<1>2. Conserved
  <2>1. ASSUME NEW m \in Messages, NEW i \in Indices(m)
        PROVE  emitted[m][i] <= arrived[m][i]
    <3>1. emitted[m][i] \in Nat /\ arrived[m][i] \in Nat
      BY DEF ReassemblyInv, HistoryOK
    <3>2. emitted[m][i] + (IF Waits(pending, m, i) THEN 1 ELSE 0) <= arrived[m][i]
      BY DEF ReassemblyInv, Counted
    <3> QED
      BY <3>1, <3>2
  <2> QED
    BY <2>1 DEF Conserved, ReassemblyInv, PendingOK
<1>3. NoneLost
  <2> SUFFICES ASSUME NEW m \in Messages, Alone(m), LinkKey(m) \notin dropped,
                      \A i \in Indices(m) : arrived[m][i] > 0, Whole(m) \notin outputs
               PROVE  FALSE
    BY DEF NoneLost, Whole
  <2>1. \A i \in Indices(m) : Waits(pending, m, i)
    BY DEF ReassemblyInv, Accounted
  <2>2. PendingOK(pending) /\ Parts[m] \in Nat \ {0} /\ 1 \in Indices(m)
    BY ReassemblyAssumption DEF ReassemblyInv, Indices
  <2>3. PICK j \in DOMAIN pending : 1 \in 1 .. pending[j].count /\ pending[j].chunks[1] = m
                                    /\ pending[j].key = LinkKey(m)
    BY <2>1, <2>2, WaitsHeld
  <2>4. PICK e : e = pending[j]
    OBVIOUS
  <2>5. EntryOK(e)
    BY <2>2, <2>4 DEF PendingOK
  <2>6. \A i \in Indices(m) : i \in 1 .. e.count /\ e.chunks[i] = m
    <3> TAKE i \in Indices(m)
    <3>1. Waits(pending, m, i)
      BY <2>1
    <3>2. PICK k \in DOMAIN pending : i \in 1 .. pending[k].count /\ pending[k].chunks[i] = m
                                      /\ pending[k].key = LinkKey(m)
      BY <2>2, <3>1, WaitsHeld
    <3>3. k = j
      BY <2>2, <2>3, <3>2 DEF PendingOK
    <3> QED
      BY <2>4, <3>2, <3>3
  <2>7. 1 \in Got(e)
    BY <2>2, <2>6, ReassemblyAssumption DEF Got
  <2>8. e.count = Parts[m]
    BY <2>2, <2>5, <2>6, <2>7 DEF EntryOK
  <2>9. Got(e) = 1 .. Parts[m]
    BY <2>6, <2>8, ReassemblyAssumption DEF Got, Indices
  <2>10. Cardinality(Got(e)) = Parts[m]
    BY <2>2, <2>9, FS_Interval
  <2> QED
    BY <2>2, <2>5, <2>8, <2>10 DEF EntryOK
<1> QED
  BY <1>1, <1>2, <1>3

\* The invariant holds in every reachable state of the reassembler.
THEOREM ReassemblyInvariant == ReassemblySpec => []ReassemblyInv
<1> QED
  BY InitInv, NextInv, PTL DEF ReassemblySpec

\* Reassembler::offer hands out complete vectors of chunks only, all of one sender,
\* one msg_id and one count.
THEOREM FramedAlways == ReassemblySpec => []Framed
<1> QED
  BY ReassemblyInvariant, InvImplies, PTL

\* No message comes out more often than each of its fragments arrived, and the
\* entries stay within max_pending_messages, one for a message.
THEOREM ConservedAlways == ReassemblySpec => []Conserved
<1> QED
  BY ReassemblyInvariant, InvImplies, PTL

\* A message alone under its key whose fragments have all arrived, in any order and
\* any number of times, has come out unless its entry was evicted.
THEOREM NoneLostAlways == ReassemblySpec => []NoneLost
<1> QED
  BY ReassemblyInvariant, InvImplies, PTL

-----------------------------------------------------------------------------
(* QuicTransport                                                           *)

\* The kinds of a call's states, by what they are part of.
LEMMA Kinded ==
  ASSUME NEW t \in Tasks, TypeOK
  PROVE  /\ call[t] \in Call /\ Classes \subseteq Kinds
         /\ \A r \in Refs : r.url \in Urls
         /\ call[t].ref # <<>> => Ref(t) \in Refs
<1>1. call[t] \in Call /\ Classes \subseteq Kinds
  BY DEF TypeOK, Kinds
<1>2. \A r \in Refs : r.url \in Urls
  BY QuicAssumption
<1>3. call[t].ref \in Option(Refs)
  BY <1>1 DEF Call
<1>4. ASSUME call[t].ref # <<>> PROVE Ref(t) \in Refs
  <2>1. PICK r \in Refs : call[t].ref = <<r>>
    BY <1>3, <1>4 DEF Option
  <2> QED
    BY <2>1 DEF Ref
<1> QED
  BY <1>1, <1>2, <1>4

LEMMA InitMap == Init => MapInv
<1> SUFFICES ASSUME Init PROVE MapInv
  OBVIOUS
<1>1. Idle \in Call
  BY DEF Idle, Call, Option, Kinds
<1>2. TypeOK
  BY <1>1 DEF Init, TypeOK, Option
<1>3. OneConnection
  BY DEF Init, OneConnection
<1>4. \A t \in Tasks : call[t].pc = "idle"
  BY DEF Init, Idle
<1> QED
  BY <1>2, <1>3, <1>4 DEF MapInv, At

LEMMA BeginMap ==
  ASSUME MapInv, NEW t \in Tasks, NEW ref \in Refs, NEW kind \in Kinds, Begin(t, ref, kind)
  PROVE  MapInv'
<1>1. call \in [Tasks -> Call] /\ call[t].n + 1 \in Nat
  <2>1. call[t] \in Call
    BY DEF MapInv, TypeOK
  <2>2. call[t].n \in Nat
    BY <2>1 DEF Call
  <2> QED
    BY <2>2 DEF MapInv, TypeOK
<1>2. PICK c \in Call : /\ call' = [call EXCEPT ![t] = c]
                        /\ c.pc = "map" /\ c.ref = <<ref>> /\ c.kind = kind
  <2> DEFINE m == call[t].n + 1
             c == [pc |-> "map", ref |-> <<ref>>, kind |-> kind, conn |-> 0, n |-> m,
                   last |-> ""]
  <2>1. call' = [call EXCEPT ![t] = c]
    BY DEF Begin
  <2>3. <<ref>> \in Option(Refs)
    BY DEF Option
  <2>4. c \in Call
    BY <1>1, <2>3 DEF Call
  <2> QED
    BY <2>1, <2>4
<1>3. UNCHANGED <<host, map, peers, conns, inbound, moves>>
  BY DEF Begin
<1>4. TypeOK'
  BY <1>1, <1>2, <1>3 DEF MapInv, TypeOK
<1>5. \A s \in Tasks : call'[s] = IF s = t THEN c ELSE call[s]
  BY <1>1, <1>2
<1> QED
  BY <1>2, <1>3, <1>4, <1>5 DEF MapInv, OneConnection, At, Ref

\* What a task does next with a connection in hand.
LEMMA ProceedCall ==
  ASSUME MapInv, NEW t \in Tasks, NEW c \in Nat, NEW all, Proceed(t, c, all),
         call[t].pc # "idle"
  PROVE  /\ map' = {t} \/ map' = {}
         /\ call' \in [Tasks -> Call]
         /\ \A s \in Tasks : s # t => call'[s] = call[s]
         /\ call'[t].pc \in {"open", "lock", "backfill"}
         /\ call'[t].pc = "open" => map' = {t}
         /\ call'[t].pc \in {"open", "lock"} => call[t].kind \in Classes
         /\ call'[t].kind = call[t].kind /\ call'[t].ref = call[t].ref
         /\ call'[t].conn = c /\ call'[t].n = call[t].n
         /\ call'[t].pc = "backfill" => call[t].kind = "sync"
<1>1. call[t] \in Call /\ call \in [Tasks -> Call] /\ call[t].kind \in Kinds
  BY DEF MapInv, TypeOK
<1>2. PICK pc \in {"open", "lock", "backfill"} :
        /\ call' = [call EXCEPT ![t].conn = c, ![t].pc = pc]
        /\ map' = {t} \/ (map' = {} /\ pc # "open")
        /\ pc \in {"open", "lock"} => call[t].kind # "sync"
        /\ pc = "backfill" => call[t].kind = "sync"
  BY DEF Proceed
<1>3. [call[t] EXCEPT !.conn = c, !.pc = pc] \in Call
  BY <1>1 DEF Call
<1>4. call' = [call EXCEPT ![t] = [call[t] EXCEPT !.conn = c, !.pc = pc]]
  BY <1>1, <1>2
<1>5. call'[t] = [call[t] EXCEPT !.conn = c, !.pc = pc] /\ call' \in [Tasks -> Call]
  BY <1>1, <1>3, <1>4
<1>6. \A s \in Tasks : s # t => call'[s] = call[s]
  BY <1>1, <1>4
<1>7. /\ call'[t].pc = pc /\ call'[t].kind = call[t].kind /\ call'[t].ref = call[t].ref
      /\ call'[t].conn = c /\ call'[t].n = call[t].n
  BY <1>1, <1>5 DEF Call
<1>8. pc \in {"open", "lock"} => call[t].kind \in Classes
  BY <1>1, <1>2 DEF Kinds
<1> QED
  BY <1>2, <1>5, <1>6, <1>7, <1>8

LEMMA TakeMapMap ==
  ASSUME MapInv, NEW t \in Tasks, TakeMap(t)
  PROVE  MapInv'
<1> DEFINE u == Ref(t).url
<1>1. /\ call[t].pc = "map" /\ map = {} /\ u \in Urls /\ call[t] \in Call
      /\ call[t].kind \in Kinds
  BY Kinded DEF MapInv, TakeMap, At
<1>2. /\ peers' = [peers EXCEPT ![u] = Live(u)]
      /\ UNCHANGED <<host, conns, inbound, moves>>
  BY DEF TakeMap
<1>3. Live(u) \in Option(DOMAIN conns) /\ peers' \in [Urls -> Option(DOMAIN conns)]
  BY <1>1, <1>2 DEF Live, MapInv, TypeOK, Option
<1>4. OneConnection'
  <2> SUFFICES ASSUME NEW i \in DOMAIN conns, conns[i].open
               PROVE  peers'[conns[i].url] = <<i>>
    BY <1>2 DEF OneConnection
  <2>1. peers[conns[i].url] = <<i>> /\ conns[i].url \in Urls
    <3>1. conns[i] \in Connection
      BY DEF MapInv, TypeOK
    <3> QED
      BY <3>1 DEF MapInv, OneConnection, Connection
  <2>2. CASE conns[i].url = u
    BY <1>1, <1>2, <2>1, <2>2 DEF Live, MapInv, TypeOK
  <2>3. CASE conns[i].url # u
    BY <1>1, <1>2, <2>1, <2>3 DEF MapInv, TypeOK
  <2> QED
    BY <2>2, <2>3
<1>5. \A s \in Tasks : s # t => call[s].pc \notin {"dial", "open"}
  BY <1>1 DEF MapInv
<1>6. CASE Live(u) = <<>>
  <2>1. map' = {t} /\ call' = [call EXCEPT ![t].pc = "dial"]
    BY <1>6 DEF TakeMap, Goto
  <2>2. /\ call' \in [Tasks -> Call]
        /\ \A s \in Tasks : s # t => call'[s] = call[s]
        /\ call'[t].pc = "dial" /\ call'[t].kind = call[t].kind /\ call'[t].ref = call[t].ref
    BY <2>1, <1>1 DEF MapInv, TypeOK, Call
  <2>3. TypeOK'
    BY <1>2, <1>3, <2>1, <2>2 DEF MapInv, TypeOK
  <2>4. peers'[Ref(t)'.url] = <<>>
    BY <1>1, <1>2, <1>6, <2>2 DEF Ref, MapInv, TypeOK
  <2> QED
    BY <1>1, <1>4, <1>5, <2>1, <2>2, <2>3, <2>4 DEF MapInv, At
<1>7. CASE Live(u) # <<>>
  <2>1. Proceed(t, Live(u)[1], conns) /\ Live(u)[1] \in Nat
    BY <1>3, <1>7 DEF TakeMap, Option, MapInv, TypeOK
  <2>2. /\ map' = {t} \/ map' = {}
        /\ call' \in [Tasks -> Call]
        /\ \A s \in Tasks : s # t => call'[s] = call[s]
        /\ call'[t].pc \in {"open", "lock", "backfill"}
        /\ call'[t].pc = "open" => map' = {t}
        /\ call'[t].pc \in {"open", "lock"} => call[t].kind \in Classes
        /\ call'[t].kind = call[t].kind /\ call'[t].ref = call[t].ref
    BY <1>1, <2>1, ProceedCall
  <2>3. TypeOK'
    BY <1>2, <1>3, <2>2 DEF MapInv, TypeOK
  <2> QED
    BY <1>1, <1>4, <1>5, <2>2, <2>3 DEF MapInv, At
<1> QED
  BY <1>6, <1>7

\* A step that dials nothing and opens nothing beside another task.
LEMMA QuietMap ==
  ASSUME MapInv, TypeOK', UNCHANGED peers, NEW t \in Tasks,
         DOMAIN conns' = DOMAIN conns,
         \A i \in DOMAIN conns : /\ conns'[i].url = conns[i].url
                                 /\ conns'[i].open => conns[i].open,
         \A s \in Tasks : s # t => call'[s] = call[s],
         call'[t].kind = call[t].kind /\ call'[t].ref = call[t].ref,
         call'[t].pc \in {"lock", "head", "body"} => call[t].kind \in Classes,
         call[t].pc # "idle",
         call'[t].pc \notin {"dial", "open"},
         map' = map \/ call[t].pc = "open"
  PROVE  MapInv'
<1>1. OneConnection'
  BY DEF MapInv, OneConnection
<1>2. \A s \in Tasks : s # t /\ call[s].pc \in {"dial", "open"} => map' = {s}
  BY DEF MapInv
<1>3. \A s \in Tasks : s # t => Ref(s)' = Ref(s)
  BY DEF Ref
<1> QED
  BY <1>1, <1>2, <1>3 DEF MapInv, At

LEMMA DialMap ==
  ASSUME MapInv, NEW t \in Tasks, Dial(t)
  PROVE  MapInv'
<1> DEFINE u   == Ref(t).url
           made == [url |-> u, key |-> host[u][1], open |-> TRUE, opened |-> {},
                    wire |-> [s \in Classes |-> <<>>], lock |-> [s \in Classes |-> {}]]
<1>1. /\ call[t].pc = "dial" /\ map = {t} /\ u \in Urls /\ call[t] \in Call
      /\ peers[u] = <<>> /\ UNCHANGED <<host, inbound, moves>>
  BY Kinded DEF MapInv, Dial, At
<1>2. \A s \in Tasks : s # t => call[s].pc \notin {"dial", "open"}
  BY <1>1 DEF MapInv
<1>3. CASE /\ host[u] # <<>>
           /\ conns' = Append(conns, made)
           /\ peers' = [peers EXCEPT ![u] = <<Len(conns')>>]
           /\ Proceed(t, Len(conns'), conns')
  <2> DEFINE n == Len(conns) + 1
  <2>1. PICK new \in Connection :
          /\ new.url = u /\ conns' = Append(conns, new)
          /\ peers' = [peers EXCEPT ![u] = <<Len(conns')>>]
          /\ Proceed(t, Len(conns'), conns')
    <3>2. host[u][1] \in Keys
      <4>1. host[u] \in Option(Keys)
        BY <1>1 DEF MapInv, TypeOK
      <4> QED
        BY <1>3, <4>1 DEF Option
    <3>3. made \in Connection
      BY <1>1, <3>2 DEF Connection
    <3> QED
      BY <1>3, <3>3
  <2>2. /\ conns \in Seq(Connection) /\ Len(conns') = n /\ n \in Nat
        /\ conns' \in Seq(Connection) /\ DOMAIN conns' = DOMAIN conns \cup {n}
        /\ n \notin DOMAIN conns /\ conns'[n] = new
        /\ \A i \in DOMAIN conns : conns'[i] = conns[i]
    BY <2>1 DEF MapInv, TypeOK
  <2>3. peers' \in [Urls -> Option(DOMAIN conns')]
    BY <1>1, <2>1, <2>2 DEF MapInv, TypeOK, Option
  <2>4. /\ map' = {t} \/ map' = {}
        /\ call' \in [Tasks -> Call]
        /\ \A s \in Tasks : s # t => call'[s] = call[s]
        /\ call'[t].pc \in {"open", "lock", "backfill"}
        /\ call'[t].pc = "open" => map' = {t}
        /\ call'[t].pc \in {"open", "lock"} => call[t].kind \in Classes
        /\ call'[t].kind = call[t].kind /\ call'[t].ref = call[t].ref
    BY <1>1, <2>1, <2>2, ProceedCall
  <2>5. TypeOK'
    BY <1>1, <2>2, <2>3, <2>4 DEF MapInv, TypeOK
  <2>6. OneConnection'
    <3> SUFFICES ASSUME NEW i \in DOMAIN conns', conns'[i].open
                 PROVE  peers'[conns'[i].url] = <<i>>
      BY DEF OneConnection
    <3>1. CASE i = n
      BY <1>1, <2>1, <2>2, <3>1 DEF MapInv, TypeOK
    <3>2. CASE i \in DOMAIN conns
      <4>1. conns[i] \in Connection /\ peers[conns[i].url] = <<i>> /\ conns[i].url \in Urls
        <5>1. conns[i] \in Connection
          BY <2>2, <3>2
        <5> QED
          BY <2>2, <3>2, <5>1 DEF MapInv, OneConnection, Connection
      <4>2. conns[i].url # u
        <5>1. <<i>> # <<>>
          OBVIOUS
        <5> QED
          BY <1>1, <4>1, <5>1
      <4>3. peers'[conns[i].url] = peers[conns[i].url]
        BY <2>1, <4>1, <4>2 DEF MapInv, TypeOK
      <4> QED
        BY <2>2, <3>2, <4>1, <4>3
    <3> QED
      BY <2>2, <3>1, <3>2
  <2> QED
    BY <1>1, <1>2, <2>4, <2>5, <2>6 DEF MapInv, At
<1>4. ASSUME UNCHANGED <<conns, peers>>, map' = {}, NEW r \in {"refused", "unreachable"}, Return(t, r)
      PROVE  MapInv'
  <2>1. /\ call' \in [Tasks -> Call]
        /\ \A s \in Tasks : s # t => call'[s] = call[s]
        /\ call'[t].pc = "idle" /\ call'[t].kind = call[t].kind /\ call'[t].ref = call[t].ref
    BY <1>1, <1>4 DEF MapInv, TypeOK, Call, Return
  <2>2. TypeOK'
    BY <1>1, <1>4, <2>1 DEF MapInv, TypeOK
  <2> QED
    BY <1>2, <1>4, <2>1, <2>2 DEF MapInv, OneConnection, At
<1> QED
  BY <1>1, <1>3, <1>4 DEF Dial

\* A step that changes one connection, but neither its peer nor its life.
LEMMA SameEnds ==
  ASSUME conns \in Seq(Connection), NEW c, NEW k, conns' = [conns EXCEPT ![c] = k],
         c \in DOMAIN conns =>
           k \in Connection /\ k.url = conns[c].url /\ k.open = conns[c].open
  PROVE  /\ conns' \in Seq(Connection) /\ DOMAIN conns' = DOMAIN conns
         /\ \A i \in DOMAIN conns : /\ conns'[i].url = conns[i].url
                                    /\ conns'[i].open = conns[i].open
<1>1. CASE c \notin DOMAIN conns
  <2>1. conns' = conns
    BY <1>1
  <2> QED
    BY <2>1
<1>2. CASE c \in DOMAIN conns
  <2>1. c \in 1 .. Len(conns)
    BY <1>2
  <2> QED
    BY <1>2, <2>1, ExceptSeq
<1> QED
  BY <1>1, <1>2

\* A call that goes on to another point, or returns.
LEMMA Goes ==
  ASSUME MapInv, NEW t \in Tasks,
         NEW pc \in {"idle", "lock", "head", "body"}, NEW last \in {"ok", "unreachable"},
         Goto(t, pc) \/ (Return(t, last) /\ pc = "idle")
  PROVE  /\ \A s \in Tasks : s # t => call'[s] = call[s]
         /\ call' \in [Tasks -> Call] /\ call'[t].pc = pc
         /\ call'[t].kind = call[t].kind /\ call'[t].ref = call[t].ref
         /\ call'[t].conn = call[t].conn /\ call'[t].n = call[t].n
         /\ Return(t, last) => call'[t].last = last
<1>1. call[t] \in Call /\ call \in [Tasks -> Call]
  BY DEF MapInv, TypeOK
<1>2. ASSUME Goto(t, pc)
      PROVE  /\ \A s \in Tasks : s # t => call'[s] = call[s]
             /\ call' \in [Tasks -> Call] /\ call'[t].pc = pc
             /\ call'[t].kind = call[t].kind /\ call'[t].ref = call[t].ref
             /\ call'[t].conn = call[t].conn /\ call'[t].n = call[t].n
  BY <1>1, <1>2 DEF Goto, Call
<1>3. CASE Return(t, last) /\ pc = "idle"
  BY <1>1, <1>3 DEF Return, Call
<1>4. Return(t, last) => call'[t].last = last
  BY <1>1, ZenonT(60) DEF Return, Call
<1> QED
  BY <1>2, <1>3, <1>4

LEMMA OpenMap ==
  ASSUME MapInv, NEW t \in Tasks, Open(t)
  PROVE  MapInv'
<1>1. /\ call[t].pc = "open" /\ call[t] \in Call /\ call[t].kind \in Classes
      /\ map' = {} /\ UNCHANGED <<host, peers, inbound, moves>>
  BY Kinded DEF MapInv, Open, At
<1>2. PICK pc \in {"lock", "idle"} :
        /\ \A s \in Tasks : s # t => call'[s] = call[s]
        /\ call' \in [Tasks -> Call] /\ call'[t].pc = pc
        /\ call'[t].kind = call[t].kind /\ call'[t].ref = call[t].ref
  <2>1. Goto(t, "lock") \/ Return(t, "unreachable")
    BY DEF Open
  <2> QED
    BY <2>1, Goes
<1>3. /\ conns' \in Seq(Connection) /\ DOMAIN conns' = DOMAIN conns
      /\ \A i \in DOMAIN conns : /\ conns'[i].url = conns[i].url
                                 /\ conns'[i].open = conns[i].open
  <2>1. CASE UNCHANGED conns
    BY <2>1 DEF MapInv, TypeOK
  <2>2. CASE conns' = [conns EXCEPT ![call[t].conn].opened = @ \cup {Stream(t)}]
    <3> DEFINE c == call[t].conn
               k == [conns[c] EXCEPT !.opened = conns[c].opened \cup {Stream(t)}]
    <3>1. conns' = [conns EXCEPT ![c] = k]
      BY <2>2
    <3>2. Stream(t) \in Kinds
      BY <1>1 DEF Stream, Kinds
    <3>3. c \in DOMAIN conns => conns[c] \in Connection
      BY DEF MapInv, TypeOK
    <3>4. c \in DOMAIN conns =>
            k \in Connection /\ k.url = conns[c].url /\ k.open = conns[c].open
      BY <3>2, <3>3 DEF Connection
    <3> HIDE DEF k
    <3> QED
      BY <3>1, <3>4, SameEnds DEF MapInv, TypeOK
  <2> QED
    BY <2>1, <2>2 DEF Open
<1>4. TypeOK'
  BY <1>1, <1>2, <1>3 DEF MapInv, TypeOK
<1> QED
  BY <1>1, <1>2, <1>3, <1>4, QuietMap

LEMMA BackfillMap ==
  ASSUME MapInv, NEW t \in Tasks, Backfill(t)
  PROVE  MapInv'
<1>1. /\ call[t].pc = "backfill" /\ call[t] \in Call
      /\ UNCHANGED <<host, map, peers, conns, inbound, moves>>
  BY Kinded DEF MapInv, Backfill, At
<1>2. /\ \A s \in Tasks : s # t => call'[s] = call[s]
      /\ call' \in [Tasks -> Call] /\ call'[t].pc = "idle"
      /\ call'[t].kind = call[t].kind /\ call'[t].ref = call[t].ref
  BY Goes DEF Backfill
<1>3. TypeOK'
  BY <1>1, <1>2 DEF MapInv, TypeOK
<1> QED
  BY <1>1, <1>2, <1>3, QuietMap

\* Taking the lock of a stream, and writing to it, touch the stream alone.
LEMMA LockMap ==
  ASSUME MapInv, NEW t \in Tasks, Lock(t)
  PROVE  MapInv'
<1>1. /\ call[t].pc = "lock" /\ call[t] \in Call /\ call[t].kind \in Classes
      /\ UNCHANGED <<host, map, peers, inbound, moves>>
  BY Kinded DEF MapInv, Lock, At
<1>2. /\ \A s \in Tasks : s # t => call'[s] = call[s]
      /\ call' \in [Tasks -> Call] /\ call'[t].pc = "head"
      /\ call'[t].kind = call[t].kind /\ call'[t].ref = call[t].ref
  BY Goes DEF Lock
<1>3. /\ conns' \in Seq(Connection) /\ DOMAIN conns' = DOMAIN conns
      /\ \A i \in DOMAIN conns : /\ conns'[i].url = conns[i].url
                                 /\ conns'[i].open = conns[i].open
  <2> DEFINE c == call[t].conn
             k == [conns[c] EXCEPT !.lock = [conns[c].lock EXCEPT ![Stream(t)] = {t}]]
  <2>1. conns' = [conns EXCEPT ![c] = k]
    BY DEF Lock
  <2>2. c \in DOMAIN conns => conns[c] \in Connection
    BY DEF MapInv, TypeOK
  <2>3. c \in DOMAIN conns =>
          k \in Connection /\ k.url = conns[c].url /\ k.open = conns[c].open
    BY <2>2 DEF Connection
  <2> HIDE DEF k
  <2> QED
    BY <2>1, <2>3, SameEnds DEF MapInv, TypeOK
<1>4. TypeOK'
  BY <1>1, <1>2, <1>3 DEF MapInv, TypeOK
<1> QED
  BY <1>1, <1>2, <1>3, <1>4, QuietMap

LEMMA WriteMap ==
  ASSUME MapInv, NEW t \in Tasks, Write(t)
  PROVE  MapInv'
<1> DEFINE c == call[t].conn
           s == Stream(t)
<1>1. /\ call[t].pc \in {"head", "body"} /\ call[t] \in Call /\ call[t].kind \in Classes
      /\ UNCHANGED <<host, map, peers, inbound, moves>>
  BY Kinded DEF MapInv, Write
<1>2. PICK pc \in {"body", "idle"} :
        /\ \A r \in Tasks : r # t => call'[r] = call[r]
        /\ call' \in [Tasks -> Call] /\ call'[t].pc = pc
        /\ call'[t].kind = call[t].kind /\ call'[t].ref = call[t].ref
  <2>1. Goto(t, "body") \/ Return(t, "unreachable") \/ Return(t, "ok")
    BY DEF Write
  <2> QED
    BY <2>1, Goes
<1>3. /\ conns' \in Seq(Connection) /\ DOMAIN conns' = DOMAIN conns
      /\ \A i \in DOMAIN conns : /\ conns'[i].url = conns[i].url
                                 /\ conns'[i].open = conns[i].open
  <2>1. c \in DOMAIN conns => conns[c] \in Connection
    BY DEF MapInv, TypeOK
  <2>2. \A part \in {"head", "body"} : Part(t, part) \in Frame
    BY <1>1 DEF Part, Frame, Artifact, Call, Kinds
  <2>3. c \in DOMAIN conns => \A part \in {"head", "body"} :
          [conns[c].wire EXCEPT ![s] = Append(conns[c].wire[s], Part(t, part))]
            \in [Classes -> Seq(Frame)]
    <3> SUFFICES ASSUME c \in DOMAIN conns, NEW part \in {"head", "body"}
                 PROVE  [conns[c].wire EXCEPT ![s] = Append(conns[c].wire[s], Part(t, part))]
                          \in [Classes -> Seq(Frame)]
      OBVIOUS
    <3>1. conns[c].wire \in [Classes -> Seq(Frame)]
      BY <2>1 DEF Connection
    <3>2. Part(t, part) \in Frame
      BY <2>2
    <3>3. s \in Classes
      BY <1>1 DEF Stream
    <3>4. Append(conns[c].wire[s], Part(t, part)) \in Seq(Frame)
      BY <3>1, <3>2, <3>3
    <3> QED
      BY <3>1, <3>4
  <2> DEFINE free   == [conns[c].lock EXCEPT ![s] = {}]
             longer(part) == [conns[c].wire EXCEPT ![s] = Append(conns[c].wire[s], Part(t, part))]
  <2>4. CASE conns' = [conns EXCEPT ![c].lock[s] = {}]
    <3> DEFINE k == [conns[c] EXCEPT !.lock = free]
    <3>1. conns' = [conns EXCEPT ![c] = k]
      BY <2>4
    <3>2. c \in DOMAIN conns =>
            k \in Connection /\ k.url = conns[c].url /\ k.open = conns[c].open
      BY <2>1 DEF Connection
    <3> HIDE DEF k
    <3> QED
      BY <3>1, <3>2, SameEnds DEF MapInv, TypeOK
  <2>5. CASE conns' = [conns EXCEPT ![c].wire[s] = Append(@, Part(t, "head"))]
    <3> DEFINE k == [conns[c] EXCEPT !.wire = longer("head")]
    <3>1. conns' = [conns EXCEPT ![c] = k]
      BY <2>5
    <3>2. c \in DOMAIN conns =>
            k \in Connection /\ k.url = conns[c].url /\ k.open = conns[c].open
      BY <2>1, <2>3 DEF Connection
    <3> HIDE DEF k
    <3> QED
      BY <3>1, <3>2, SameEnds DEF MapInv, TypeOK
  <2>6. CASE conns' = [conns EXCEPT ![c].wire[s] = Append(@, Part(t, "body")),
                                    ![c].lock[s] = {}]
    <3> DEFINE k == [conns[c] EXCEPT !.wire = longer("body"), !.lock = free]
    <3>1. conns' = [conns EXCEPT ![c] = k]
      BY <2>6
    <3>2. c \in DOMAIN conns =>
            k \in Connection /\ k.url = conns[c].url /\ k.open = conns[c].open
      BY <2>1, <2>3 DEF Connection
    <3> HIDE DEF k
    <3> QED
      BY <3>1, <3>2, SameEnds DEF MapInv, TypeOK
  <2> QED
    BY <2>4, <2>5, <2>6 DEF Write
<1>4. TypeOK'
  BY <1>1, <1>2, <1>3 DEF MapInv, TypeOK
<1> QED
  BY <1>1, <1>2, <1>3, <1>4, QuietMap

LEMMA ReadMap ==
  ASSUME MapInv, NEW c \in DOMAIN conns, NEW s \in Classes, Read(c, s)
  PROVE  MapInv'
<1> DEFINE w == conns[c].wire[s]
           k == [conns[c] EXCEPT !.wire = [conns[c].wire EXCEPT ![s] = SubSeq(w, 3, Len(w))]]
<1>1. conns[c] \in Connection /\ w \in Seq(Frame) /\ Len(w) >= 2
  <2>1. conns[c] \in Connection
    BY DEF MapInv, TypeOK
  <2>2. conns[c].wire \in [Classes -> Seq(Frame)]
    BY <2>1 DEF Connection
  <2> QED
    BY <2>1, <2>2 DEF Read
<1>2. SubSeq(w, 3, Len(w)) \in Seq(Frame) /\ w[1] \in Frame
  BY <1>1
<1>3. conns' = [conns EXCEPT ![c] = k] /\ UNCHANGED <<host, map, peers, call, moves>>
  BY DEF Read
<1>4. k \in Connection /\ k.url = conns[c].url /\ k.open = conns[c].open
  BY <1>1, <1>2 DEF Connection
<1>5. inbound' \in [Keys -> Seq(Artifact)]
  <2>1. w[1].of \in Artifact /\ conns[c].key \in Keys
    BY <1>1, <1>2 DEF Frame, Connection
  <2>2. inbound' = inbound \/ inbound' = [inbound EXCEPT ![conns[c].key] = Append(@, w[1].of)]
    BY DEF Read
  <2>3. inbound \in [Keys -> Seq(Artifact)]
    BY DEF MapInv, TypeOK
  <2>4. Append(inbound[conns[c].key], w[1].of) \in Seq(Artifact)
    BY <2>1, <2>3
  <2> QED
    BY <2>2, <2>3, <2>4
<1> HIDE DEF k
<1>6. /\ conns' \in Seq(Connection) /\ DOMAIN conns' = DOMAIN conns
      /\ \A i \in DOMAIN conns : /\ conns'[i].url = conns[i].url
                                 /\ conns'[i].open = conns[i].open
  BY <1>3, <1>4, SameEnds DEF MapInv, TypeOK
<1>7. TypeOK'
  BY <1>3, <1>5, <1>6 DEF MapInv, TypeOK
<1> QED
  BY <1>3, <1>6, <1>7 DEF MapInv, OneConnection, At, Ref

LEMMA MoveMap ==
  ASSUME MapInv, NEW u \in Urls, NEW h \in Option(Keys), Move(u, h)
  PROVE  MapInv'
<1>1. /\ host' = [host EXCEPT ![u] = h] /\ moves' = moves + 1
      /\ UNCHANGED <<map, peers, call, inbound>>
  BY DEF Move
<1>2. \A i \in DOMAIN conns : conns[i] \in Connection
  BY DEF MapInv, TypeOK
<1>3. ASSUME NEW i \in DOMAIN conns
      PROVE  /\ conns'[i] \in Connection /\ conns'[i].url = conns[i].url
             /\ conns'[i].open => conns[i].open
  <2> DEFINE silent == [q \in Classes |-> <<>>]
             closed == [conns[i] EXCEPT !.open = FALSE, !.wire = silent]
  <2>1. conns'[i] = IF conns[i].url = u THEN closed ELSE conns[i]
    BY DEF Move
  <2>2. conns[i] \in Connection
    BY <1>2
  <2>3. silent \in [Classes -> Seq(Frame)]
    OBVIOUS
  <2>4. closed \in Connection /\ closed.url = conns[i].url /\ ~closed.open
    <3> HIDE DEF silent
    <3> QED
      BY <2>2, <2>3 DEF Connection
  <2> HIDE DEF closed
  <2> QED
    BY <2>1, <2>2, <2>4
<1>4. DOMAIN conns' = DOMAIN conns /\ conns' \in Seq(Connection)
  <2>1. DOMAIN conns' = DOMAIN conns /\ DOMAIN conns = 1 .. Len(conns) /\ Len(conns) \in Nat
    <3>1. DOMAIN conns' = DOMAIN conns
      BY DEF Move
    <3>2. conns \in Seq(Connection)
      BY DEF MapInv, TypeOK
    <3> QED
      BY <3>1, <3>2
  <2>2. conns' = [i \in 1 .. Len(conns) |-> conns'[i]]
    BY <2>1 DEF Move
  <2> QED
    BY <1>3, <2>1, <2>2
<1>5. TypeOK'
  BY <1>1, <1>4 DEF MapInv, TypeOK
<1> QED
  BY <1>1, <1>3, <1>4, <1>5 DEF MapInv, OneConnection, At, Ref

LEMMA StepMap == MapInv /\ [Next]_vars => MapInv'
<1> SUFFICES ASSUME MapInv, [Next]_vars PROVE MapInv'
  OBVIOUS
<1>1. CASE UNCHANGED vars
  BY <1>1 DEF vars, MapInv, TypeOK, OneConnection, At, Ref
<1>2. CASE Next
  BY <1>2, BeginMap, TakeMapMap, DialMap, OpenMap, LockMap, WriteMap, BackfillMap,
     ReadMap, MoveMap DEF Next, Step
<1> QED
  BY <1>1, <1>2

\* QuicTransport.connection: however many tasks announce and fetch at once, and
\* whatever hosts and streams do, a live connection is the one the map has.
THEOREM OnePerPeer == Spec => []OneConnection
<1>1. MapInv => OneConnection
  BY DEF MapInv
<1> QED
  BY <1>1, InitMap, StepMap, PTL DEF Spec
-----------------------------------------------------------------------------
(* The streams: what was announced arrives                                 *)

\* The types of a connection's parts and of a call's.
LEMMA Typed ==
  ASSUME TypeOK
  PROVE  /\ \A c \in DOMAIN conns :
              /\ conns[c].url \in Urls /\ conns[c].key \in Keys /\ conns[c].open \in BOOLEAN
              /\ conns[c].wire \in [Classes -> Seq(Frame)]
              /\ conns[c].lock \in [Classes -> SUBSET Tasks]
              /\ \A s \in Classes : conns[c].wire[s] \in Seq(Frame) /\ conns[c].lock[s] \subseteq Tasks
         /\ \A t \in Tasks : call[t].n \in Nat /\ call[t].kind \in Kinds \cup {""}
<1>1. \A c \in DOMAIN conns : conns[c] \in Connection
  BY DEF TypeOK
<1>2. \A t \in Tasks : call[t] \in Call
  BY DEF TypeOK
<1>3. \A c \in DOMAIN conns :
        /\ conns[c].url \in Urls /\ conns[c].key \in Keys /\ conns[c].open \in BOOLEAN
        /\ conns[c].wire \in [Classes -> Seq(Frame)]
        /\ conns[c].lock \in [Classes -> SUBSET Tasks]
  BY <1>1 DEF Connection
<1>4. \A t \in Tasks : call[t].n \in Nat /\ call[t].kind \in Kinds \cup {""}
  BY <1>2 DEF Call
<1> QED
  BY <1>3, <1>4

\* A part of an artifact, read from a stream or in a queue.
LEMMA TypedParts ==
  ASSUME TypeOK
  PROVE  /\ \A c \in DOMAIN conns, s \in Classes : \A i \in DOMAIN conns[c].wire[s] :
              /\ conns[c].wire[s][i] \in Frame /\ conns[c].wire[s][i].of \in Artifact
              /\ conns[c].wire[s][i].of[1] \in Tasks /\ conns[c].wire[s][i].of[2] \in Nat
         /\ \A k \in Keys : \A i \in DOMAIN inbound[k] :
              inbound[k][i][1] \in Tasks /\ inbound[k][i][2] \in Nat
<1>1. \A c \in DOMAIN conns, s \in Classes : \A i \in DOMAIN conns[c].wire[s] :
        conns[c].wire[s][i] \in Frame
  <2> SUFFICES ASSUME NEW c \in DOMAIN conns, NEW s \in Classes
               PROVE  \A i \in DOMAIN conns[c].wire[s] : conns[c].wire[s][i] \in Frame
    OBVIOUS
  <2>1. conns[c].wire[s] \in Seq(Frame)
    BY Typed
  <2> QED
    BY <2>1
<1>2. \A f \in Frame : f.of \in Artifact /\ f.of[1] \in Tasks /\ f.of[2] \in Nat
  BY DEF Frame, Artifact
<1>3. \A k \in Keys : \A i \in DOMAIN inbound[k] : inbound[k][i] \in Artifact
  BY DEF TypeOK
<1>4. \A a \in Artifact : a[1] \in Tasks /\ a[2] \in Nat
  BY DEF Artifact
<1> QED
  BY <1>1, <1>2, <1>3, <1>4

\* A step of a task that writes to no stream, before or after.
Quiet(t) ==
  /\ DOMAIN conns \subseteq DOMAIN conns'
  /\ \A c \in DOMAIN conns :
       /\ conns'[c].wire = conns[c].wire /\ conns'[c].lock = conns[c].lock
       /\ conns'[c].url = conns[c].url /\ conns'[c].key = conns[c].key
       /\ conns'[c].open = conns[c].open
  /\ \A c \in DOMAIN conns' \ DOMAIN conns :
       /\ \A s \in Classes : conns'[c].wire[s] = <<>> /\ conns'[c].lock[s] = {}
       /\ [url |-> conns'[c].url, key |-> conns'[c].key] \in Refs
  /\ inbound' = inbound
  /\ \A s \in Tasks : s # t => call'[s] = call[s]
  /\ ~Writing(t) /\ ~Writing(t)' /\ ~Announced(t)'
  /\ call'[t].pc \in {"open", "lock", "backfill"} => call'[t].conn \in DOMAIN conns'
  /\ call'[t].pc = "backfill" => call'[t].kind = "sync"
  /\ \/ call'[t].n = call[t].n /\ call'[t].kind = call[t].kind /\ call[t].pc # "idle"
     \/ call'[t].n = call[t].n + 1

LEMMA QuietArrives ==
  ASSUME MapInv, LockInv, StreamInv, ArtifactInv, NEW t \in Tasks, Quiet(t)
  PROVE  LockInv' /\ StreamInv' /\ ArtifactInv'
<1>1. /\ TypeOK
      /\ \A s \in Tasks \ {t} : call'[s] = call[s]
      /\ \A c \in DOMAIN conns' : c \in DOMAIN conns \/ c \in DOMAIN conns' \ DOMAIN conns
  BY DEF Quiet, MapInv
<1>2. \A s \in Tasks \ {t} : \A pc : At(s, pc)' = At(s, pc)
  BY <1>1 DEF At
<1>3. \A s \in Tasks \ {t} : /\ Writing(s)' = Writing(s) /\ Announced(s)' = Announced(s)
                             /\ Stream(s)' = Stream(s) /\ Current(s)' = Current(s)
  BY <1>1, <1>2 DEF Writing, Announced, Stream, Current
<1>4. \A s \in Tasks \ {t} : call[s].conn \in DOMAIN conns =>
        /\ Conn(s)'.wire = Conn(s).wire /\ Conn(s)'.lock = Conn(s).lock
        /\ Conn(s)'.key = Conn(s).key /\ Conn(s)'.open = Conn(s).open
        /\ call'[s].conn \in DOMAIN conns'
  BY <1>1 DEF Conn, Quiet
<1>5. ASSUME NEW c \in DOMAIN conns', NEW s \in Classes
      PROVE  \/ /\ c \in DOMAIN conns /\ conns'[c].wire[s] = conns[c].wire[s]
                /\ conns'[c].lock[s] = conns[c].lock[s] /\ conns'[c].open = conns[c].open
             \/ conns'[c].wire[s] = <<>> /\ conns'[c].lock[s] = {} /\ c \notin DOMAIN conns
  BY <1>1 DEF Quiet
<1>6. LockInv'
  <2>1. ASSUME NEW s \in Tasks
        PROVE  /\ call'[s].pc \in {"open", "lock", "backfill"} => call'[s].conn \in DOMAIN conns'
               /\ At(s, "backfill")' => call'[s].kind = "sync"
               /\ Writing(s)' => call'[s].conn \in DOMAIN conns' /\ Conn(s)'.lock[Stream(s)'] = {s}
    <3>1. CASE s = t
      BY <3>1 DEF Quiet, At
    <3>2. CASE s # t
      BY <1>1, <1>2, <1>3, <1>4, <3>2 DEF LockInv
    <3> QED
      BY <3>1, <3>2
  <2>2. ASSUME NEW c \in DOMAIN conns', NEW s \in Classes, NEW r \in conns'[c].lock[s]
        PROVE  Writing(r)' /\ call'[r].conn = c /\ Stream(r)' = s
    <3>1. c \in DOMAIN conns /\ r \in conns[c].lock[s]
      BY <1>5, <2>2
    <3>2. r \in Tasks /\ Writing(r) /\ call[r].conn = c /\ Stream(r) = s
      <4>1. conns[c].lock[s] \subseteq Tasks
        BY <1>1, <3>1, Typed
      <4> QED
        BY <3>1, <4>1 DEF LockInv
    <3>3. r # t
      BY <3>2 DEF Quiet
    <3> QED
      BY <1>1, <1>3, <3>2, <3>3
  <2> QED
    BY <2>1, <2>2 DEF LockInv
<1>7. StreamInv'
  <2>1. ASSUME NEW c \in DOMAIN conns', NEW s \in Classes
        PROVE  LET w == conns'[c].wire[s] IN
               /\ Paired(w)
               /\ ~conns'[c].open => w = <<>>
               /\ Len(w) % 2 = 1 =>
                    \E r \in Tasks : At(r, "body")' /\ call'[r].conn = c /\ Stream(r)' = s
    <3>1. CASE conns'[c].wire[s] = <<>>
      BY <3>1 DEF Paired
    <3>2. CASE /\ c \in DOMAIN conns /\ conns'[c].wire[s] = conns[c].wire[s]
               /\ conns'[c].open = conns[c].open
      <4>1. ASSUME NEW r \in Tasks, At(r, "body"), call[r].conn = c, Stream(r) = s
            PROVE  At(r, "body")' /\ call'[r].conn = c /\ Stream(r)' = s
        <5>1. r # t
          BY <4>1 DEF Quiet, Writing, At
        <5> QED
          BY <1>1, <1>2, <1>3, <4>1, <5>1
      <4> DEFINE w == conns[c].wire[s]
      <4>2. /\ Paired(w)
            /\ ~conns[c].open => w = <<>>
            /\ Len(w) % 2 = 1 =>
                 \E r \in Tasks : At(r, "body") /\ call[r].conn = c /\ Stream(r) = s
        BY <3>2 DEF StreamInv
      <4> HIDE DEF w
      <4>3. conns'[c].wire[s] = w /\ conns'[c].open = conns[c].open
        BY <3>2 DEF w
      <4> QED
        BY <4>1, <4>2, <4>3
    <3> QED
      BY <1>5, <3>1, <3>2
  <2>2. ASSUME NEW r \in Tasks, At(r, "body")', Conn(r)'.open
        PROVE  LET w == Conn(r)'.wire[Stream(r)'] IN Len(w) % 2 = 1 /\ w[Len(w)] = Part(r, "head")'
    <3>1. r # t
      BY <2>2 DEF Quiet, Writing, At
    <3>2. At(r, "body") /\ Stream(r)' = Stream(r) /\ Part(r, "head")' = Part(r, "head")
      BY <1>1, <1>2, <1>3, <2>2, <3>1 DEF Part
    <3>3. Conn(r)'.wire = Conn(r).wire /\ Conn(r).open
      BY <1>4, <2>2, <3>1, <3>2 DEF LockInv, Writing, At
    <3>4. /\ Len(Conn(r).wire[Stream(r)]) % 2 = 1
          /\ Conn(r).wire[Stream(r)][Len(Conn(r).wire[Stream(r)])] = Part(r, "head")
      BY <3>2, <3>3 DEF StreamInv
    <3> QED
      BY <3>2, <3>3, <3>4
  <2> QED
    BY <2>1, <2>2 DEF StreamInv
<1>8. ASSUME NEW s \in Tasks, NEW P, Current(s)' = Current(s),
             OnlyAt(s, P), P = {} \/ s # t
      PROVE  OnlyAt(s, P)'
  <2> SUFFICES ASSUME NEW c \in DOMAIN conns', NEW q \in Classes,
                      NEW i \in DOMAIN conns'[c].wire[q], conns'[c].wire[q][i].of = Current(s)
               PROVE  c = call'[s].conn /\ q = call'[s].kind /\ i \in P
    BY <1>8 DEF OnlyAt
  <2>1. c \in DOMAIN conns /\ conns'[c].wire[q] = conns[c].wire[q]
    BY <1>5
  <2>2. c = call[s].conn /\ q = call[s].kind /\ i \in P
    BY <1>8, <2>1 DEF OnlyAt
  <2> QED
    BY <1>1, <1>8, <2>2
<1>9. /\ \A c \in DOMAIN conns' : [url |-> conns'[c].url, key |-> conns'[c].key] \in Refs
      /\ \A k \in Keys : \A i \in DOMAIN inbound'[k] :
           inbound'[k][i][2] <= call'[inbound'[k][i][1]].n
      /\ \A c \in DOMAIN conns', s \in Classes : \A i \in DOMAIN conns'[c].wire[s] :
           LET of == conns'[c].wire[s][i].of IN of[2] <= call'[of[1]].n
  <2>1. \A r \in Tasks : \A m \in Nat : m <= call[r].n => m <= call'[r].n
    <3> SUFFICES ASSUME NEW r \in Tasks, NEW m \in Nat, m <= call[r].n PROVE m <= call'[r].n
      OBVIOUS
    <3>1. call[r].n \in Nat
      BY <1>1, Typed
    <3>2. call'[r].n = call[r].n \/ call'[r].n = call[r].n + 1
      <4>1. call'[t].n = call[t].n \/ call'[t].n = call[t].n + 1
        BY DEF Quiet
      <4> QED
        BY <1>1, <4>1
    <3> QED
      BY <3>1, <3>2
  <2>2. \A c \in DOMAIN conns' : [url |-> conns'[c].url, key |-> conns'[c].key] \in Refs
    BY <1>1 DEF Quiet, ArtifactInv
  <2>3. \A k \in Keys : \A i \in DOMAIN inbound'[k] :
          inbound'[k][i][2] <= call'[inbound'[k][i][1]].n
    BY <1>1, <2>1, TypedParts DEF Quiet, ArtifactInv
  <2>4. ASSUME NEW c \in DOMAIN conns', NEW s \in Classes, NEW i \in DOMAIN conns'[c].wire[s]
        PROVE  LET of == conns'[c].wire[s][i].of IN of[2] <= call'[of[1]].n
    <3>1. c \in DOMAIN conns /\ conns'[c].wire[s] = conns[c].wire[s]
      BY <1>5
    <3> QED
      BY <1>1, <2>1, <3>1, TypedParts DEF ArtifactInv
  <2> QED
    BY <2>2, <2>3, <2>4
<1>10. ASSUME NEW s \in Tasks, ~At(s, "idle")'
       PROVE  /\ Nowhere(s)'
              /\ OnlyAt(s, IF At(s, "body") THEN {Len(Conn(s).wire[Stream(s)])} ELSE {})'
  <2>1. CASE s # t
    <3>1. ~At(s, "idle") /\ Current(s)' = Current(s)
      BY <1>2, <1>3, <1>10, <2>1
    <3>2. PICK p : p = IF At(s, "body") THEN {Len(Conn(s).wire[Stream(s)])} ELSE {}
      OBVIOUS
    <3>3. p = IF At(s, "body")' THEN {Len(Conn(s)'.wire[Stream(s)'])} ELSE {}
      BY <1>2, <1>3, <1>4, <2>1, <3>2, ZenonT(60) DEF LockInv, Writing, At
    <3>4. Nowhere(s) /\ OnlyAt(s, p)
      BY <3>1, <3>2 DEF ArtifactInv
    <3>5. Nowhere(s)'
      BY <3>1, <3>4 DEF Nowhere, Quiet
    <3>6. OnlyAt(s, p)'
      BY <1>8, <2>1, <3>1, <3>4
    <3> QED
      BY <3>3, <3>5, <3>6 DEF OnlyAt
  <2>2. CASE s = t /\ call'[t].n = call[t].n /\ call'[t].kind = call[t].kind /\ call[t].pc # "idle"
    <3>1. ~At(t, "body") /\ ~At(t, "body")' /\ ~At(t, "idle") /\ Current(t)' = Current(t)
      BY <2>2 DEF Quiet, Writing, At, Current
    <3>2. Nowhere(t) /\ OnlyAt(t, {})
      BY <3>1 DEF ArtifactInv
    <3>3. Nowhere(t)' /\ OnlyAt(t, {})'
      BY <1>8, <3>1, <3>2 DEF Nowhere, Quiet
    <3> QED
      BY <2>2, <3>1, <3>3
  <2>3. CASE s = t /\ call'[t].n = call[t].n + 1
    <3>1. Current(t)'[1] = t /\ Current(t)'[2] = call[t].n + 1 /\ call[t].n \in Nat
      BY <1>1, <2>3, Typed DEF Current
    <3>2. Nowhere(t)'
      <4>1. ASSUME NEW k \in Keys, NEW i \in DOMAIN inbound[k], inbound[k][i] = Current(t)'
            PROVE  FALSE
        BY <3>1, <4>1 DEF ArtifactInv
      <4> QED
        BY <4>1 DEF Nowhere, Quiet
    <3>3. OnlyAt(t, {})'
      <4> SUFFICES ASSUME NEW c \in DOMAIN conns', NEW q \in Classes,
                          NEW i \in DOMAIN conns'[c].wire[q], conns'[c].wire[q][i].of = Current(t)'
                   PROVE  FALSE
        BY DEF OnlyAt
      <4>1. c \in DOMAIN conns /\ conns'[c].wire[q] = conns[c].wire[q]
        BY <1>5
      <4> QED
        BY <3>1, <4>1, SMTT(60) DEF ArtifactInv
    <3>4. ~At(t, "body")'
      BY DEF Quiet, Writing, At
    <3> QED
      BY <2>3, <3>2, <3>3, <3>4
  <2> QED
    BY <2>1, <2>2, <2>3 DEF Quiet
<1>11. ASSUME NEW s \in Tasks, Announced(s)'
       PROVE  /\ call'[s].conn \in DOMAIN conns' /\ call'[s].kind \in Classes
              /\ Conn(s)'.open => (Queued(s)' /\ OnlyAt(s, {})') \/ (Nowhere(s)' /\ OnStream(s)')
  <2>1. s # t /\ Announced(s)
    BY <1>3, <1>11 DEF Quiet
  <2>2. /\ call[s].conn \in DOMAIN conns /\ call[s].kind \in Classes
        /\ Conn(s).open => (Queued(s) /\ OnlyAt(s, {})) \/ (Nowhere(s) /\ OnStream(s))
    BY <2>1 DEF ArtifactInv
  <2>3. /\ Current(s)' = Current(s) /\ Stream(s)' = Stream(s) /\ call'[s] = call[s]
        /\ Conn(s)'.wire = Conn(s).wire /\ Conn(s)'.key = Conn(s).key
        /\ Conn(s)'.open = Conn(s).open /\ call'[s].conn \in DOMAIN conns'
        /\ inbound' = inbound
    BY <1>1, <1>3, <1>4, <2>1, <2>2 DEF Quiet
  <2>4. Queued(s) => Queued(s)'
    BY <2>3 DEF Queued
  <2>5. Nowhere(s) => Nowhere(s)'
    BY <2>3 DEF Nowhere
  <2>6. OnlyAt(s, {}) => OnlyAt(s, {})'
    BY <1>8, <2>3
  <2>7. OnStream(s) => OnStream(s)'
    <3> SUFFICES ASSUME OnStream(s) PROVE OnStream(s)'
      OBVIOUS
    <3>1. PICK i \in DOMAIN Conn(s).wire[Stream(s)] :
            /\ i % 2 = 1 /\ i + 1 \in DOMAIN Conn(s).wire[Stream(s)]
            /\ Conn(s).wire[Stream(s)][i].of = Current(s)
            /\ Conn(s).wire[Stream(s)][i + 1].of = Current(s)
            /\ OnlyAt(s, {i, i + 1})
      BY DEF OnStream
    <3>2. OnlyAt(s, {i, i + 1})'
      BY <1>8, <2>1, <2>3, <3>1
    <3> QED
      BY <2>3, <3>1, <3>2 DEF OnStream
  <2> QED
    BY <2>2, <2>3, <2>4, <2>5, <2>6, <2>7
<1> QED
  BY <1>6, <1>7, <1>9, <1>10, <1>11 DEF ArtifactInv

\* The steps that write nothing.  Nobody but t changes, and no stream does.
LEMMA BeginQuiet ==
  ASSUME MapInv, NEW t \in Tasks, NEW ref \in Refs, NEW kind \in Kinds, Begin(t, ref, kind)
  PROVE  Quiet(t)
<1>1. /\ UNCHANGED <<conns, inbound>> /\ call[t].pc = "idle"
      /\ call \in [Tasks -> Call]
  BY DEF Begin, At, MapInv, TypeOK
<1>2. /\ \A s \in Tasks : s # t => call'[s] = call[s]
      /\ call'[t].pc = "map" /\ call'[t].n = call[t].n + 1
  BY <1>1 DEF Begin
<1> QED
  BY <1>1, <1>2 DEF Quiet, Writing, Announced, At

LEMMA TakeMapQuiet ==
  ASSUME MapInv, NEW t \in Tasks, TakeMap(t)
  PROVE  Quiet(t)
<1> DEFINE u == Ref(t).url
<1>1. /\ UNCHANGED <<conns, inbound>> /\ call[t].pc = "map" /\ call[t] \in Call
      /\ u \in Urls /\ call \in [Tasks -> Call]
  BY Kinded DEF TakeMap, At, MapInv, TypeOK
<1>2. CASE Live(u) = <<>>
  <2>1. call' = [call EXCEPT ![t].pc = "dial"]
    BY <1>2 DEF TakeMap, Goto
  <2>2. /\ \A s \in Tasks : s # t => call'[s] = call[s]
        /\ call'[t].pc = "dial" /\ call'[t].n = call[t].n /\ call'[t].kind = call[t].kind
    BY <1>1, <2>1 DEF Call
  <2> QED
    BY <1>1, <2>2 DEF Quiet, Writing, Announced, At
<1>3. CASE Live(u) # <<>>
  <2>1. Live(u) \in Option(DOMAIN conns) /\ conns \in Seq(Connection)
    BY <1>1 DEF Live, MapInv, TypeOK, Option
  <2>2. Proceed(t, Live(u)[1], conns) /\ Live(u)[1] \in Nat /\ Live(u)[1] \in DOMAIN conns
    BY <1>3, <2>1 DEF TakeMap, Option
  <2>3. /\ \A s \in Tasks : s # t => call'[s] = call[s]
        /\ call'[t].pc \in {"open", "lock", "backfill"} /\ call'[t].conn = Live(u)[1]
        /\ call'[t].n = call[t].n /\ call'[t].kind = call[t].kind
        /\ call'[t].pc = "backfill" => call[t].kind = "sync"
    BY <1>1, <2>2, ProceedCall
  <2> QED
    BY <1>1, <2>2, <2>3 DEF Quiet, Writing, Announced, At
<1> QED
  BY <1>2, <1>3

LEMMA DialQuiet ==
  ASSUME MapInv, NEW t \in Tasks, Dial(t)
  PROVE  Quiet(t)
<1> DEFINE u   == Ref(t).url
           made == [url |-> u, key |-> host[u][1], open |-> TRUE, opened |-> {},
                    wire |-> [s \in Classes |-> <<>>], lock |-> [s \in Classes |-> {}]]
<1>1. /\ inbound' = inbound /\ call[t].pc = "dial" /\ call[t] \in Call
      /\ call \in [Tasks -> Call] /\ conns \in Seq(Connection)
  BY DEF Dial, At, MapInv, TypeOK
<1>2. CASE /\ Accepts(host[u][1], Ref(t).key)
           /\ conns' = Append(conns, made)
           /\ Proceed(t, Len(conns'), conns')
  <2> DEFINE n == Len(conns) + 1
  <2>1. /\ Len(conns') = n /\ n \in Nat /\ conns'[n] = made
        /\ DOMAIN conns' = DOMAIN conns \cup {n}
        /\ \A c \in DOMAIN conns : conns'[c] = conns[c]
    <3>1. PICK x : x = made
      OBVIOUS
    <3>2. conns' = Append(conns, x)
      BY <1>2, <3>1
    <3>3. /\ Len(conns') = n /\ n \in Nat /\ conns'[n] = x
          /\ DOMAIN conns' = DOMAIN conns \cup {n}
          /\ \A c \in DOMAIN conns : conns'[c] = conns[c]
      BY <1>1, <3>2
    <3> QED
      BY <3>1, <3>3
  <2>2. /\ \A s \in Tasks : s # t => call'[s] = call[s]
        /\ call'[t].pc \in {"open", "lock", "backfill"} /\ call'[t].conn = n
        /\ call'[t].n = call[t].n /\ call'[t].kind = call[t].kind
        /\ call'[t].pc = "backfill" => call[t].kind = "sync"
    BY <1>1, <1>2, <2>1, ProceedCall
  <2>3. [url |-> conns'[n].url, key |-> conns'[n].key] \in Refs
    <3>1. Ref(t) \in Refs /\ Ref(t) \in [url : Urls, key : Keys]
      BY <1>1, Kinded, QuicAssumption DEF MapInv
    <3>2. conns'[n].url = Ref(t).url /\ conns'[n].key = Ref(t).key
      BY <1>2, <2>1 DEF Accepts
    <3>3. Ref(t) = [url |-> Ref(t).url, key |-> Ref(t).key]
      BY <3>1
    <3> QED
      BY <3>1, <3>2, <3>3
  <2>4. \A s \in Classes : conns'[n].wire[s] = <<>> /\ conns'[n].lock[s] = {}
    BY <2>1
  <2> QED
    BY <1>1, <2>1, <2>2, <2>3, <2>4 DEF Quiet, Writing, Announced, At
<1>3. ASSUME UNCHANGED conns, NEW r \in {"refused", "unreachable"}, Return(t, r)
      PROVE  Quiet(t)
  <2>1. /\ \A s \in Tasks : s # t => call'[s] = call[s]
        /\ call'[t].pc = "idle" /\ call'[t].kind = call[t].kind /\ call'[t].n = call[t].n
        /\ call'[t].last = r
    BY <1>1, <1>3 DEF Call, Return
  <2> QED
    BY <1>1, <1>3, <2>1 DEF Quiet, Writing, Announced, At
<1> QED
  BY <1>2, <1>3 DEF Dial

LEMMA OpenQuiet ==
  ASSUME MapInv, LockInv, NEW t \in Tasks, Open(t)
  PROVE  Quiet(t)
<1>1. /\ inbound' = inbound /\ call[t].pc = "open" /\ conns \in Seq(Connection)
      /\ call[t].conn \in DOMAIN conns
  BY DEF Open, At, MapInv, TypeOK, LockInv
<1>2. /\ \A s \in Tasks : s # t => call'[s] = call[s]
      /\ \/ call'[t].pc = "lock"
         \/ call'[t].pc = "idle" /\ call'[t].last = "unreachable"
      /\ call'[t].kind = call[t].kind /\ call'[t].n = call[t].n
      /\ call'[t].conn = call[t].conn
  <2>1. CASE Goto(t, "lock")
    BY <2>1, Goes
  <2>2. CASE Return(t, "unreachable")
    BY <2>2, Goes
  <2> QED
    BY <2>1, <2>2 DEF Open
<1>3. /\ DOMAIN conns' = DOMAIN conns
      /\ \A c \in DOMAIN conns :
           /\ conns'[c].wire = conns[c].wire /\ conns'[c].lock = conns[c].lock
           /\ conns'[c].url = conns[c].url /\ conns'[c].key = conns[c].key
           /\ conns'[c].open = conns[c].open
  <2>1. \A c \in DOMAIN conns : conns[c] \in Connection
    BY <1>1
  <2>2. CASE conns' = [conns EXCEPT ![call[t].conn].opened = @ \cup {Stream(t)}]
    BY <1>1, <2>1, <2>2 DEF Connection
  <2>3. CASE UNCHANGED conns
    BY <2>3
  <2> QED
    BY <2>2, <2>3 DEF Open
<1> QED
  BY <1>1, <1>2, <1>3 DEF Quiet, Writing, Announced, At

LEMMA BackfillQuiet ==
  ASSUME MapInv, LockInv, NEW t \in Tasks, Backfill(t)
  PROVE  Quiet(t)
<1>1. /\ UNCHANGED <<conns, inbound>> /\ call[t].pc = "backfill"
      /\ call[t].kind = "sync"
  BY DEF Backfill, At, LockInv
<1>2. /\ \A s \in Tasks : s # t => call'[s] = call[s]
      /\ call'[t].pc = "idle" /\ call'[t].kind = call[t].kind /\ call'[t].n = call[t].n
  BY Goes DEF Backfill
<1> QED
  BY <1>1, <1>2 DEF Quiet, Writing, Announced, At

\* One stream of one connection changes to w, its lock to l, and nothing else.
Sets(c, s, w, l) ==
  /\ DOMAIN conns' = DOMAIN conns
  /\ \A d \in DOMAIN conns :
       /\ conns'[d].url = conns[d].url /\ conns'[d].key = conns[d].key
       /\ conns'[d].open = conns[d].open
  /\ \A d \in DOMAIN conns, q \in Classes :
       IF d = c /\ q = s
       THEN conns'[d].wire[q] = w /\ conns'[d].lock[q] = l
       ELSE conns'[d].wire[q] = conns[d].wire[q] /\ conns'[d].lock[q] = conns[d].lock[q]

\* A step of the call that writes to a stream, or is about to: it leaves w
\* there, which extends what was, and l as the holder of the stream's lock.
Writes(t, w, l) ==
  /\ call[t].conn \in DOMAIN conns /\ Stream(t) \in Classes
  /\ Conn(t).lock[Stream(t)] \subseteq {t} /\ l = IF Writing(t)' THEN {t} ELSE {}
  /\ w \in Seq(Frame) /\ DOMAIN Conn(t).wire[Stream(t)] \subseteq DOMAIN w
  /\ \A i \in DOMAIN w :
       \/ i \in DOMAIN Conn(t).wire[Stream(t)] /\ w[i] = Conn(t).wire[Stream(t)][i]
       \/ i \notin DOMAIN Conn(t).wire[Stream(t)] /\ w[i].of = Current(t)
  /\ Sets(call[t].conn, Stream(t), w, l)
  /\ inbound' = inbound
  /\ \A s \in Tasks : s # t => call'[s] = call[s]
  /\ call'[t].conn = call[t].conn /\ call'[t].n = call[t].n /\ call'[t].kind = call[t].kind
  /\ call[t].pc \in {"lock", "head", "body"} /\ call'[t].pc \in {"head", "body", "idle"}

LEMMA OthersKept ==
  ASSUME NEW t \in Tasks, NEW w, NEW l, Writes(t, w, l), NEW r \in Tasks, r # t
  PROVE  /\ call'[r] = call[r] /\ \A pc : At(r, pc)' = At(r, pc)
         /\ Writing(r)' = Writing(r) /\ Announced(r)' = Announced(r)
         /\ Stream(r)' = Stream(r) /\ Current(r)' = Current(r)
<1>1. call'[r] = call[r]
  BY DEF Writes, Sets
<1>2. \A pc : At(r, pc)' = At(r, pc)
  BY <1>1 DEF At
<1> QED
  BY <1>1, <1>2 DEF Writing, Announced, Stream, Current

\* Two calls never write to one stream.
LEMMA OwnStream ==
  ASSUME MapInv, LockInv, NEW t \in Tasks, NEW w, NEW l, Writes(t, w, l),
         NEW r \in Tasks, r # t, Writing(r)
  PROVE  /\ call[r].conn \in DOMAIN conns /\ Stream(r) \in Classes
         /\ ~(call[r].conn = call[t].conn /\ Stream(r) = Stream(t))
         /\ call'[r].conn = call[r].conn /\ Stream(r)' = Stream(r)
         /\ Conn(r)'.wire[Stream(r)] = Conn(r).wire[Stream(r)]
         /\ Conn(r)'.lock[Stream(r)] = {r} /\ Conn(r)'.open = Conn(r).open
<1>1. /\ call[r].conn \in DOMAIN conns /\ Conn(r).lock[Stream(r)] = {r}
      /\ Stream(r) \in Classes
  BY DEF LockInv, Writing, MapInv, Stream
<1>2. ~(call[r].conn = call[t].conn /\ Stream(r) = Stream(t))
  <2> SUFFICES ASSUME call[r].conn = call[t].conn, Stream(r) = Stream(t) PROVE FALSE
    OBVIOUS
  <2>1. Conn(t).lock[Stream(t)] = {r} /\ Conn(t).lock[Stream(t)] \subseteq {t}
    BY <1>1 DEF Conn, Writes, Sets
  <2> QED
    BY <2>1
<1>3. call'[r] = call[r] /\ Stream(r)' = Stream(r)
  BY OthersKept
<1> QED
  BY <1>1, <1>2, <1>3 DEF Writes, Sets, Conn

LEMMA WritesLock ==
  ASSUME MapInv, LockInv, NEW t \in Tasks, NEW w, NEW l, Writes(t, w, l)
  PROVE  LockInv'
<1>1. ASSUME NEW r \in Tasks
      PROVE  /\ call'[r].pc \in {"open", "lock", "backfill"} => call'[r].conn \in DOMAIN conns'
             /\ At(r, "backfill")' => call'[r].kind = "sync"
             /\ Writing(r)' => call'[r].conn \in DOMAIN conns' /\ Conn(r)'.lock[Stream(r)'] = {r}
  <2>1. CASE r = t
    BY <2>1 DEF Writes, Sets, At, Conn, Stream
  <2>2. CASE r # t
    <3>1. /\ call'[r] = call[r] /\ \A pc : At(r, pc)' = At(r, pc)
          /\ Writing(r)' = Writing(r) /\ Stream(r)' = Stream(r)
      BY <2>2, OthersKept
    <3>2. /\ call[r].pc \in {"open", "lock", "backfill"} => call[r].conn \in DOMAIN conns
          /\ At(r, "backfill") => call[r].kind = "sync"
      BY DEF LockInv
    <3>3. Writing(r) => call[r].conn \in DOMAIN conns /\ Conn(r)'.lock[Stream(r)] = {r}
      BY <2>2, OwnStream
    <3> QED
      BY <3>1, <3>2, <3>3 DEF Writes, Sets
  <2> QED
    BY <2>1, <2>2
<1>2. ASSUME NEW c \in DOMAIN conns', NEW s \in Classes, NEW r \in conns'[c].lock[s]
      PROVE  Writing(r)' /\ call'[r].conn = c /\ Stream(r)' = s
  <2>1. c \in DOMAIN conns
    BY DEF Writes, Sets
  <2>2. CASE c = call[t].conn /\ s = Stream(t)
    BY <1>2, <2>1, <2>2 DEF Writes, Sets, Stream
  <2>3. CASE ~(c = call[t].conn /\ s = Stream(t))
    <3>1. r \in conns[c].lock[s] /\ conns[c].lock[s] \subseteq Tasks
      BY <1>2, <2>1, <2>3, Typed, ZenonT(60) DEF Writes, Sets, MapInv
    <3>2. r \in Tasks /\ Writing(r) /\ call[r].conn = c /\ Stream(r) = s
      BY <2>1, <3>1 DEF LockInv
    <3>3. r # t
      BY <2>3, <3>2
    <3> QED
      BY <3>2, <3>3, OthersKept
  <2> QED
    BY <2>2, <2>3
<1> QED
  BY <1>1, <1>2 DEF LockInv

\* What a stream must look like, and who is writing the rest.
LEMMA WritesStream ==
  ASSUME MapInv, LockInv, StreamInv, NEW t \in Tasks, NEW w, NEW l, Writes(t, w, l),
         Paired(w),
         ~Conn(t).open => w = <<>>,
         Len(w) % 2 = 1 => At(t, "body")',
         At(t, "body")' => Len(w) % 2 = 1 /\ w[Len(w)] = Part(t, "head")
  PROVE  StreamInv'
<1>1. ASSUME NEW c \in DOMAIN conns', NEW s \in Classes
      PROVE  LET v == conns'[c].wire[s] IN
             /\ Paired(v)
             /\ ~conns'[c].open => v = <<>>
             /\ Len(v) % 2 = 1 =>
                  \E r \in Tasks : At(r, "body")' /\ call'[r].conn = c /\ Stream(r)' = s
  <2>1. c \in DOMAIN conns /\ conns'[c].open = conns[c].open
    BY DEF Writes, Sets
  <2>2. CASE c = call[t].conn /\ s = Stream(t)
    <3>1. /\ conns'[c].wire[s] = w /\ Conn(t) = conns[c]
          /\ call'[t].conn = c /\ Stream(t)' = s
      BY <2>1, <2>2 DEF Writes, Sets, Conn, Stream
    <3> QED
      BY <2>1, <3>1
  <2>3. CASE ~(c = call[t].conn /\ s = Stream(t))
    <3> DEFINE v == conns[c].wire[s]
    <3>1. conns'[c].wire[s] = v
      BY <2>1, <2>3 DEF Writes, Sets
    <3>2. /\ Paired(v)
          /\ ~conns[c].open => v = <<>>
          /\ Len(v) % 2 = 1 =>
               \E r \in Tasks : At(r, "body") /\ call[r].conn = c /\ Stream(r) = s
      BY <2>1 DEF StreamInv
    <3>3. ASSUME NEW r \in Tasks, At(r, "body"), call[r].conn = c, Stream(r) = s
          PROVE  At(r, "body")' /\ call'[r].conn = c /\ Stream(r)' = s
      BY <2>3, <3>3, OthersKept
    <3> HIDE DEF v
    <3> QED
      BY <2>1, <3>1, <3>2, <3>3
  <2> QED
    BY <2>2, <2>3
<1>2. ASSUME NEW r \in Tasks, At(r, "body")', Conn(r)'.open
      PROVE  /\ Len(Conn(r)'.wire[Stream(r)']) % 2 = 1
             /\ Conn(r)'.wire[Stream(r)'][Len(Conn(r)'.wire[Stream(r)'])] = Part(r, "head")'
  <2>1. CASE r = t
    <3>1. Conn(t)'.wire[Stream(t)'] = w /\ Part(t, "head")' = Part(t, "head")
      BY DEF Writes, Sets, Conn, Stream, Part
    <3> QED
      BY <1>2, <2>1, <3>1
  <2>2. CASE r # t
    <3>1. At(r, "body") /\ Writing(r) /\ call'[r] = call[r]
      BY <1>2, <2>2, OthersKept DEF At, Writing
    <3>2. /\ Conn(r)'.wire[Stream(r)'] = Conn(r).wire[Stream(r)]
          /\ Conn(r).open /\ Part(r, "head")' = Part(r, "head")
      BY <1>2, <2>2, <3>1, OwnStream DEF Part
    <3>3. /\ Len(Conn(r).wire[Stream(r)]) % 2 = 1
          /\ Conn(r).wire[Stream(r)][Len(Conn(r).wire[Stream(r)])] = Part(r, "head")
      BY <3>1, <3>2 DEF StreamInv
    <3> QED
      BY <3>2, <3>3
  <2> QED
    BY <2>1, <2>2
<1> QED
  BY <1>1, <1>2 DEF StreamInv

LEMMA OthersOnlyAt ==
  ASSUME NEW t \in Tasks, NEW w, NEW l, Writes(t, w, l),
         NEW r \in Tasks, r # t, NEW P, OnlyAt(r, P)
  PROVE  OnlyAt(r, P)'
<1>1. Current(r)' = Current(r) /\ call'[r] = call[r] /\ Current(r) # Current(t)
  BY OthersKept DEF Current
<1> SUFFICES ASSUME NEW c \in DOMAIN conns, NEW s \in Classes, NEW i \in DOMAIN conns'[c].wire[s],
                    conns'[c].wire[s][i].of = Current(r)
             PROVE  c = call[r].conn /\ s = call[r].kind /\ i \in P
  BY <1>1 DEF OnlyAt, Writes, Sets
<1>2. i \in DOMAIN conns[c].wire[s] /\ conns[c].wire[s][i].of = Current(r)
  <2>1. CASE c = call[t].conn /\ s = Stream(t)
    <3>1. conns'[c].wire[s] = w /\ conns[c].wire[s] = Conn(t).wire[Stream(t)]
      BY <2>1 DEF Writes, Sets, Conn
    <3> QED
      BY <1>1, <3>1 DEF Writes, Sets
  <2>2. CASE ~(c = call[t].conn /\ s = Stream(t))
    BY <2>2 DEF Writes, Sets
  <2> QED
    BY <2>1, <2>2
<1> QED
  BY <1>2 DEF OnlyAt

LEMMA WritesArtifact ==
  ASSUME MapInv, LockInv, ArtifactInv, NEW t \in Tasks, NEW w, NEW l, Writes(t, w, l),
         ~At(t, "idle")' =>
           OnlyAt(t, IF At(t, "body") THEN {Len(Conn(t).wire[Stream(t)])} ELSE {})',
         Announced(t)' => OnStream(t)'
  PROVE  ArtifactInv'
<1>1. /\ \A c \in DOMAIN conns' : [url |-> conns'[c].url, key |-> conns'[c].key] \in Refs
      /\ \A k \in Keys : \A i \in DOMAIN inbound'[k] :
           inbound'[k][i][2] <= call'[inbound'[k][i][1]].n
      /\ \A c \in DOMAIN conns', s \in Classes : \A i \in DOMAIN conns'[c].wire[s] :
           LET of == conns'[c].wire[s][i].of IN of[2] <= call'[of[1]].n
  <2>1. \A r \in Tasks : call'[r].n = call[r].n
    BY DEF Writes, Sets
  <2>2. \A c \in DOMAIN conns' : [url |-> conns'[c].url, key |-> conns'[c].key] \in Refs
    BY DEF Writes, Sets, ArtifactInv
  <2>3. \A k \in Keys : \A i \in DOMAIN inbound'[k] :
          inbound'[k][i][2] <= call'[inbound'[k][i][1]].n
    BY <2>1, TypedParts, SMTT(60) DEF Writes, Sets, ArtifactInv, MapInv
  <2>4. ASSUME NEW c \in DOMAIN conns', NEW s \in Classes, NEW i \in DOMAIN conns'[c].wire[s]
        PROVE  LET of == conns'[c].wire[s][i].of IN of[2] <= call'[of[1]].n
    <3>1. c \in DOMAIN conns
      BY DEF Writes, Sets
    <3>2. \/ i \in DOMAIN conns[c].wire[s] /\ conns'[c].wire[s][i] = conns[c].wire[s][i]
          \/ conns'[c].wire[s][i].of = Current(t)
      <4>1. CASE c = call[t].conn /\ s = Stream(t)
        BY <3>1, <4>1 DEF Writes, Sets, Conn
      <4>2. CASE ~(c = call[t].conn /\ s = Stream(t))
        BY <3>1, <4>2 DEF Writes, Sets
      <4> QED
        BY <4>1, <4>2
    <3>3. CASE i \in DOMAIN conns[c].wire[s] /\ conns'[c].wire[s][i] = conns[c].wire[s][i]
      BY <2>1, <3>1, <3>3, TypedParts DEF ArtifactInv, MapInv
    <3>4. CASE conns'[c].wire[s][i].of = Current(t)
      <4>1. call[t].n \in Nat
        BY Typed DEF MapInv
      <4> QED
        BY <2>1, <3>4, <4>1 DEF Current
    <3> QED
      BY <3>2, <3>3, <3>4
  <2> QED
    BY <2>2, <2>3, <2>4
<1>2. \A r \in Tasks : Current(r)' = Current(r) /\ (Nowhere(r) => Nowhere(r)')
  <2>1. \A r \in Tasks : Current(r)' = Current(r)
    BY DEF Writes, Sets, Current
  <2> QED
    BY <2>1 DEF Nowhere, Writes, Sets
<1>3. Nowhere(t)' /\ ~At(t, "idle")
  <2>1. ~At(t, "idle")
    BY DEF Writes, Sets, At
  <2> QED
    BY <1>2, <2>1 DEF ArtifactInv
<1>4. ASSUME NEW r \in Tasks, ~At(r, "idle")'
      PROVE  /\ Nowhere(r)'
             /\ OnlyAt(r, IF At(r, "body") THEN {Len(Conn(r).wire[Stream(r)])} ELSE {})'
  <2>1. CASE r = t
    BY <1>3, <1>4, <2>1
  <2>2. CASE r # t
    <3>1. /\ ~At(r, "idle") /\ At(r, "body")' = At(r, "body")
          /\ Stream(r)' = Stream(r)
      BY <1>4, <2>2, OthersKept
    <3>2. PICK p : p = IF At(r, "body") THEN {Len(Conn(r).wire[Stream(r)])} ELSE {}
      OBVIOUS
    <3>3. p = IF At(r, "body")' THEN {Len(Conn(r)'.wire[Stream(r)'])} ELSE {}
      <4>1. CASE ~At(r, "body")
        BY <3>1, <3>2, <4>1
      <4>2. CASE At(r, "body")
        <5>1. Writing(r)
          BY <4>2 DEF Writing, At
        <5>2. Conn(r)'.wire[Stream(r)] = Conn(r).wire[Stream(r)]
          BY <2>2, <5>1, OwnStream
        <5> QED
          BY <3>1, <3>2, <4>2, <5>2
      <4> QED
        BY <4>1, <4>2
    <3>4. Nowhere(r) /\ OnlyAt(r, p)
      BY <3>1, <3>2 DEF ArtifactInv
    <3>5. OnlyAt(r, p)'
      BY <2>2, <3>4, OthersOnlyAt
    <3> QED
      BY <1>2, <3>3, <3>4, <3>5 DEF OnlyAt
  <2> QED
    BY <2>1, <2>2
<1>5. ASSUME NEW r \in Tasks, Announced(r)'
      PROVE  /\ call'[r].conn \in DOMAIN conns' /\ call'[r].kind \in Classes
             /\ Conn(r)'.open => (Queued(r)' /\ OnlyAt(r, {})') \/ (Nowhere(r)' /\ OnStream(r)')
  <2>1. CASE r = t
    BY <1>3, <1>5, <2>1 DEF Writes, Sets, Stream
  <2>2. CASE r # t
    <3>1. /\ Announced(r) /\ call'[r] = call[r] /\ Stream(r)' = Stream(r)
          /\ Current(r)' = Current(r)
      BY <1>5, <2>2, OthersKept
    <3>2. /\ call[r].conn \in DOMAIN conns /\ call[r].kind \in Classes
          /\ Conn(r).open => (Queued(r) /\ OnlyAt(r, {})) \/ (Nowhere(r) /\ OnStream(r))
      BY <3>1 DEF ArtifactInv
    <3>3. /\ Conn(r)'.key = Conn(r).key /\ Conn(r)'.open = Conn(r).open
          /\ call'[r].conn \in DOMAIN conns'
      BY <3>1, <3>2 DEF Conn, Writes, Sets
    <3>4. Queued(r) => Queued(r)'
      BY <3>1, <3>3 DEF Queued, Writes, Sets
    <3>5. OnlyAt(r, {}) => OnlyAt(r, {})'
      BY <2>2, OthersOnlyAt
    <3>6. ASSUME OnStream(r) PROVE OnStream(r)'
      <4> DEFINE v == Conn(r).wire[Stream(r)]
      <4>1. PICK i \in DOMAIN v : /\ i % 2 = 1 /\ i + 1 \in DOMAIN v
                                  /\ v[i].of = Current(r) /\ v[i + 1].of = Current(r)
                                  /\ OnlyAt(r, {i, i + 1})
        BY <3>6 DEF OnStream
      <4>2. OnlyAt(r, {i, i + 1})'
        BY <2>2, <4>1, OthersOnlyAt
      <4>3. DOMAIN v \subseteq DOMAIN Conn(r)'.wire[Stream(r)]
            /\ \A j \in DOMAIN v : Conn(r)'.wire[Stream(r)][j] = v[j]
        <5>1. Stream(r) \in Classes
          BY <3>2 DEF Stream
        <5>2. CASE call[r].conn = call[t].conn /\ Stream(r) = Stream(t)
          <6>1. Conn(r)'.wire[Stream(r)] = w /\ v = Conn(t).wire[Stream(t)]
            BY <3>1, <3>2, <5>1, <5>2 DEF Writes, Sets, Conn
          <6> QED
            BY <6>1 DEF Writes, Sets
        <5>3. CASE ~(call[r].conn = call[t].conn /\ Stream(r) = Stream(t))
          BY <3>1, <3>2, <5>1, <5>3 DEF Writes, Sets, Conn
        <5> QED
          BY <5>2, <5>3
      <4> QED
        BY <3>1, <4>1, <4>2, <4>3 DEF OnStream
    <3> QED
      BY <1>2, <3>1, <3>2, <3>3, <3>4, <3>5, <3>6
  <2> QED
    BY <2>1, <2>2
<1> QED
  BY <1>1, <1>4, <1>5 DEF ArtifactInv

\* conns with one stream of one connection and its lock changed.
LEMMA OneStream ==
  ASSUME TypeOK, NEW c \in DOMAIN conns, NEW s \in Classes, NEW w, NEW l,
         \/ conns' = [conns EXCEPT ![c].wire[s] = w, ![c].lock[s] = l]
         \/ conns' = [conns EXCEPT ![c].wire[s] = w] /\ l = conns[c].lock[s]
         \/ conns' = [conns EXCEPT ![c].lock[s] = l] /\ w = conns[c].wire[s]
  PROVE  Sets(c, s, w, l)
<1>1. \A d \in DOMAIN conns : conns[d] \in Connection
  BY DEF TypeOK
<1>2. /\ conns[c] \in Connection
      /\ conns[c].wire \in [Classes -> Seq(Frame)] /\ conns[c].lock \in [Classes -> SUBSET Tasks]
  BY <1>1 DEF Connection
<1>3. /\ DOMAIN conns' = DOMAIN conns
      /\ \A d \in DOMAIN conns : d # c => conns'[d] = conns[d]
      /\ conns'[c].url = conns[c].url /\ conns'[c].key = conns[c].key
      /\ conns'[c].open = conns[c].open
      /\ conns'[c].wire = [conns[c].wire EXCEPT ![s] = w]
      /\ conns'[c].lock = [conns[c].lock EXCEPT ![s] = l]
  <2>1. CASE conns' = [conns EXCEPT ![c].wire[s] = w, ![c].lock[s] = l]
    BY <1>2, <2>1 DEF Connection
  <2>2. CASE conns' = [conns EXCEPT ![c].wire[s] = w] /\ l = conns[c].lock[s]
    BY <1>2, <2>2 DEF Connection
  <2>3. CASE conns' = [conns EXCEPT ![c].lock[s] = l] /\ w = conns[c].wire[s]
    BY <1>2, <2>3 DEF Connection
  <2> QED
    BY <2>1, <2>2, <2>3
<1> QED
  BY <1>2, <1>3 DEF Sets

LEMMA LockArrives ==
  ASSUME MapInv, LockInv, StreamInv, ArtifactInv, NEW t \in Tasks, Lock(t)
  PROVE  LockInv' /\ StreamInv' /\ ArtifactInv'
<1>0. PICK c, s, w, l : /\ c = call[t].conn /\ s = Stream(t)
                        /\ w = Conn(t).wire[s] /\ l = {t}
  OBVIOUS
<1>1. /\ call[t].pc = "lock" /\ c \in DOMAIN conns /\ s \in Classes
      /\ Conn(t) = conns[c] /\ conns[c].lock[s] = {} /\ inbound' = inbound
      /\ conns' = [conns EXCEPT ![c].lock[s] = l]
      /\ w \in Seq(Frame)
  <2>1. call[t].pc = "lock" /\ c \in DOMAIN conns /\ s \in Classes
    BY <1>0 DEF Lock, At, LockInv, MapInv, Stream
  <2>2. w \in Seq(Frame)
    BY <1>0, <2>1, Typed DEF Conn, MapInv
  <2> QED
    BY <1>0, <2>1, <2>2 DEF Lock, Free, Conn
<1>2. /\ \A r \in Tasks : r # t => call'[r] = call[r]
      /\ call'[t].pc = "head" /\ call'[t].conn = c /\ call'[t].n = call[t].n
      /\ call'[t].kind = call[t].kind
  BY <1>0, Goes DEF Lock
<1>3. Writes(t, w, l)
  <2>1. Sets(c, s, w, l)
    <3>1. TypeOK /\ conns' = [conns EXCEPT ![c].lock[s] = l] /\ w = conns[c].wire[s]
      BY <1>0, <1>1 DEF MapInv
    <3> QED
      BY <1>1, <3>1, OneStream
  <2>2. Writing(t)'
    BY <1>2 DEF Writing
  <2> QED
    BY <1>0, <1>1, <1>2, <2>1, <2>2 DEF Writes
<1>4. ~At(t, "body")' /\ ~At(t, "body") /\ ~At(t, "idle")
  BY <1>1, <1>2 DEF At
<1>5. StreamInv'
  <2>1. /\ Paired(w)
        /\ ~Conn(t).open => w = <<>>
        /\ Len(w) % 2 = 1 =>
             \E r \in Tasks : At(r, "body") /\ call[r].conn = c /\ Stream(r) = s
    <3>1. w = conns[c].wire[s]
      BY <1>0, <1>1
    <3> QED
      BY <1>1, <3>1, ZenonT(60) DEF StreamInv
  <2>2. ASSUME NEW r \in Tasks, At(r, "body"), call[r].conn = c, Stream(r) = s PROVE FALSE
    <3>1. Conn(r).lock[Stream(r)] = {r}
      BY <2>2 DEF LockInv, Writing, At
    <3> QED
      BY <1>1, <2>2, <3>1 DEF Conn
  <2> QED
    BY <1>3, <1>4, <2>1, <2>2, WritesStream
<1>6. ArtifactInv'
  <2>1. OnlyAt(t, {})
    BY <1>4 DEF ArtifactInv
  <2>2. OnlyAt(t, {})'
    <3>1. Current(t)' = Current(t)
      BY <1>2 DEF Current
    <3>2. \A d \in DOMAIN conns, q \in Classes : conns'[d].wire[q] = conns[d].wire[q]
      BY <1>0, <1>1, <1>3 DEF Writes, Sets
    <3> QED
      BY <1>0, <2>1, <3>1, <3>2, <1>2, <1>3 DEF OnlyAt, Writes, Sets
  <2>3. ~Announced(t)'
    BY <1>2 DEF Announced, At
  <2> QED
    BY <1>3, <1>4, <2>2, <2>3, WritesArtifact
<1> QED
  BY <1>3, <1>5, <1>6, WritesLock

LEMMA WriteArrives ==
  ASSUME MapInv, LockInv, StreamInv, ArtifactInv, NEW t \in Tasks, Write(t)
  PROVE  LockInv' /\ StreamInv' /\ ArtifactInv'
<1>0. PICK c, s, v, n : /\ c = call[t].conn /\ s = Stream(t)
                        /\ v = Conn(t).wire[s] /\ n = Len(v)
  OBVIOUS
<1>1. /\ call[t].pc \in {"head", "body"} /\ c \in DOMAIN conns /\ s \in Classes
      /\ s = call[t].kind /\ Conn(t) = conns[c] /\ conns[c].lock[s] = {t}
      /\ v = conns[c].wire[s] /\ inbound' = inbound
  BY <1>0 DEF Write, Writing, LockInv, MapInv, Stream, Conn
<1>2. TypeOK /\ v \in Seq(Frame) /\ n \in Nat /\ DOMAIN v = 1 .. n /\ ~At(t, "idle")
  <2>1. TypeOK /\ v \in Seq(Frame)
    BY <1>1, Typed DEF MapInv
  <2>2. n \in Nat /\ DOMAIN v = 1 .. n
    BY <1>0, <2>1
  <2>3. ~At(t, "idle")
    BY <1>1 DEF At
  <2> QED
    BY <2>1, <2>2, <2>3
<1>3. /\ Paired(v) /\ (~conns[c].open => v = <<>>)
      /\ n % 2 = 1 => At(t, "body")
      /\ At(t, "body") /\ conns[c].open => n % 2 = 1 /\ v[n] = Part(t, "head")
  <2>1. /\ Paired(v) /\ (~conns[c].open => v = <<>>)
        /\ n % 2 = 1 => \E r \in Tasks : At(r, "body") /\ call[r].conn = c /\ Stream(r) = s
    <3>1. /\ Paired(conns[c].wire[s]) /\ (~conns[c].open => conns[c].wire[s] = <<>>)
          /\ Len(conns[c].wire[s]) % 2 = 1 =>
               \E r \in Tasks : At(r, "body") /\ call[r].conn = c /\ Stream(r) = s
      BY <1>1, ZenonT(60) DEF StreamInv
    <3> QED
      BY <1>0, <1>1, <3>1
  <2>2. ASSUME NEW r \in Tasks, At(r, "body"), call[r].conn = c, Stream(r) = s PROVE r = t
    <3>1. Conn(r).lock[Stream(r)] = {r}
      BY <2>2 DEF LockInv, Writing, At
    <3> QED
      BY <1>1, <2>2, <3>1 DEF Conn
  <2>3. At(t, "body") /\ conns[c].open => n % 2 = 1 /\ v[n] = Part(t, "head")
    <3>1. At(t, "body") /\ Conn(t).open =>
            /\ Len(Conn(t).wire[Stream(t)]) % 2 = 1
            /\ Conn(t).wire[Stream(t)][Len(Conn(t).wire[Stream(t)])] = Part(t, "head")
      BY DEF StreamInv
    <3>2. Conn(t).wire[Stream(t)] = v /\ Len(v) = n /\ Conn(t).open = conns[c].open
      BY <1>0, <1>1
    <3> QED
      BY <3>1, <3>2
  <2> QED
    BY <2>1, <2>2, <2>3
<1>4. OnlyAt(t, IF At(t, "body") THEN {n} ELSE {})
  BY <1>0, <1>2 DEF ArtifactInv
<1>5. \A part \in {"head", "body"} :
        /\ Part(t, part) \in Frame /\ Part(t, part).of = Current(t)
        /\ Part(t, part).part = part
        /\ Part(t, "body") = [Part(t, "head") EXCEPT !.part = "body"]
  <2>1. Current(t) \in Artifact
    BY <1>1, <1>2, Typed DEF Current, Artifact, Kinds
  <2> QED
    BY <2>1 DEF Part, Current, Frame
\* Frames at the places p alone, and what is appended: no other place.
<1>6. ASSUME NEW w, NEW l, NEW p, NEW P, Writes(t, w, l), OnlyAt(t, p),
             p \cup (DOMAIN w \ DOMAIN v) \subseteq P
      PROVE  OnlyAt(t, P)'
  <2> SUFFICES ASSUME NEW d \in DOMAIN conns, NEW q \in Classes, NEW i \in DOMAIN conns'[d].wire[q],
                      conns'[d].wire[q][i].of = Current(t)
               PROVE  d = c /\ q = s /\ i \in P
    BY <1>0, <1>1, <1>6, SMTT(60) DEF OnlyAt, Writes, Sets, Current
  <2>1. CASE d = c /\ q = s
    <3>1. conns'[d].wire[q] = w
      BY <1>0, <1>6, <2>1 DEF Writes, Sets
    <3>2. (i \in DOMAIN v /\ w[i] = v[i]) \/ i \in DOMAIN w \ DOMAIN v
      BY <1>0, <1>6, <3>1 DEF Writes
    <3>3. i \in DOMAIN v /\ w[i] = v[i] => i \in p
      BY <1>1, <1>6, <2>1, <3>1 DEF OnlyAt
    <3> QED
      BY <1>6, <2>1, <3>2, <3>3
  <2>2. CASE ~(d = c /\ q = s)
    <3>1. conns'[d].wire[q] = conns[d].wire[q]
      BY <1>0, <1>6, <2>2 DEF Writes, Sets
    <3> QED
      BY <1>0, <1>1, <1>6, <2>2, <3>1 DEF OnlyAt
  <2> QED
    BY <2>1, <2>2
<1>7. CASE ~conns[c].open
  <2>1. PICK l : l = {}
    OBVIOUS
  <2>2. conns' = [conns EXCEPT ![c].lock[s] = l] /\ Return(t, "unreachable")
    BY <1>0, <1>1, <1>7, <2>1 DEF Write
  <2>3. Sets(c, s, v, l)
    BY <1>1, <1>2, <2>2, OneStream
  <2>4. /\ \A r \in Tasks : r # t => call'[r] = call[r]
        /\ call'[t].pc = "idle" /\ call'[t].conn = c /\ call'[t].n = call[t].n
        /\ call'[t].kind = call[t].kind /\ call'[t].last = "unreachable"
    BY <1>0, <2>2, Goes
  <2>5. ~Writing(t)' /\ ~At(t, "body")' /\ At(t, "idle")' /\ ~Announced(t)'
    BY <2>4 DEF Writing, At, Announced
  <2>6. Writes(t, v, l)
    BY <1>0, <1>1, <1>2, <2>1, <2>3, <2>4, <2>5 DEF Writes
  <2>7. v = <<>> /\ Len(v) = 0 /\ Paired(v)
    BY <1>3, <1>7
  <2>8. StreamInv'
    BY <2>5, <2>6, <2>7, WritesStream
  <2>9. ArtifactInv'
    BY <2>5, <2>6, WritesArtifact
  <2> QED
    BY <2>6, <2>8, <2>9, WritesLock
<1>8. CASE conns[c].open /\ At(t, "head")
  <2>1. PICK l, w : l = {t} /\ w = Append(v, Part(t, "head"))
    OBVIOUS
  <2>2. conns' = [conns EXCEPT ![c].wire[s] = w] /\ Goto(t, "body") /\ l = conns[c].lock[s]
    BY <1>0, <1>1, <1>8, <2>1 DEF Write
  <2>3. Sets(c, s, w, l)
    BY <1>1, <1>2, <2>2, OneStream
  <2>4. /\ \A r \in Tasks : r # t => call'[r] = call[r]
        /\ call'[t].pc = "body" /\ call'[t].conn = c /\ call'[t].n = call[t].n
        /\ call'[t].kind = call[t].kind
    BY <1>0, <2>2, Goes
  <2>5. Writing(t)' /\ At(t, "body")' /\ ~At(t, "idle")' /\ ~Announced(t)' /\ ~At(t, "body")
    BY <1>8, <2>4 DEF Writing, At, Announced
  <2>6. /\ w \in Seq(Frame) /\ Len(w) = n + 1 /\ DOMAIN w = 1 .. n + 1
        /\ \A i \in 1 .. n : w[i] = v[i]
        /\ w[n + 1] = Part(t, "head")
    BY <1>0, <1>2, <1>5, <2>1
  <2>7. Writes(t, w, l)
    <3>1. /\ DOMAIN v \subseteq DOMAIN w
          /\ \A i \in DOMAIN w :
               \/ i \in DOMAIN v /\ w[i] = v[i]
               \/ i \notin DOMAIN v /\ w[i].of = Current(t)
      <4>1. n + 1 \notin 1 .. n /\ \A i \in 1 .. n + 1 : i \in 1 .. n \/ i = n + 1
        BY <1>2
      <4>2. w[n + 1].of = Current(t)
        BY <1>5, <2>6
      <4> QED
        BY <1>2, <2>6, <4>1, <4>2
    <3>2. w \in Seq(Frame)
      BY <2>6
    <3> QED
      BY <1>0, <1>1, <2>1, <2>3, <2>4, <2>5, <3>1, <3>2, ZenonT(60) DEF Writes
  <2>8. n % 2 = 0
    BY <1>2, <1>3, <2>5
  <2>9. Len(w) % 2 = 1 /\ Paired(w)
    <3>1. (n + 1) % 2 = 1
      BY <1>2, <2>8
    <3>2. ASSUME NEW i \in 1 .. n + 1, i % 2 = 1
          PROVE  /\ w[i].part = "head"
                 /\ i + 1 \in DOMAIN w => w[i + 1] = [w[i] EXCEPT !.part = "body"]
      <4>1. CASE i = n + 1
        BY <1>2, <1>5, <2>6, <4>1
      <4>2. CASE i \in 1 .. n
        <5>1. i + 1 \in 1 .. n
          BY <1>2, <2>8, <3>2, <4>2
        <5> QED
          BY <1>2, <1>3, <2>6, <3>2, <4>2, <5>1 DEF Paired
      <4> QED
        BY <1>2, <4>1, <4>2
    <3> QED
      BY <2>6, <3>1, <3>2 DEF Paired
  <2>10. StreamInv'
    BY <1>1, <1>8, <2>5, <2>6, <2>7, <2>9, WritesStream
  <2>11. OnlyAt(t, IF At(t, "body") THEN {Len(Conn(t).wire[Stream(t)])} ELSE {})'
    <3>1. OnlyAt(t, {})
      BY <1>4, <2>5
    <3>2. DOMAIN w \ DOMAIN v \subseteq {n + 1}
      BY <1>2, <2>6
    <3>3. OnlyAt(t, {n + 1})'
      BY <1>6, <2>7, <3>1, <3>2
    <3>4. Conn(t)'.wire[Stream(t)'] = w
      BY <1>0, <1>1, <2>3, <2>4 DEF Sets, Conn, Stream
    <3> QED
      BY <2>5, <2>6, <3>3, <3>4 DEF OnlyAt
  <2>12. ArtifactInv'
    BY <2>5, <2>7, <2>11, WritesArtifact
  <2> QED
    BY <2>7, <2>10, <2>12, WritesLock
<1>9. CASE conns[c].open /\ At(t, "body")
  <2>1. PICK l, w : l = {} /\ w = Append(v, Part(t, "body"))
    OBVIOUS
  <2>2. /\ conns' = [conns EXCEPT ![c].wire[s] = w, ![c].lock[s] = l]
        /\ Return(t, "ok")
    <3>1. ~At(t, "head")
      BY <1>9 DEF At
    <3>2. /\ conns' = [conns EXCEPT ![call[t].conn].wire[Stream(t)] = Append(@, Part(t, "body")),
                                  ![call[t].conn].lock[Stream(t)] = {}]
          /\ Return(t, "ok")
      BY <1>1, <1>9, <3>1 DEF Write
    <3>3. conns' = [conns EXCEPT ![c].wire[s] = Append(conns[c].wire[s], Part(t, "body")),
                                 ![c].lock[s] = {}]
      BY <1>0, <3>2
    <3> QED
      BY <1>1, <2>1, <3>2, <3>3
  <2>3. Sets(c, s, w, l)
    BY <1>1, <1>2, <2>2, OneStream
  <2>4. /\ \A r \in Tasks : r # t => call'[r] = call[r]
        /\ call'[t].pc = "idle" /\ call'[t].conn = c /\ call'[t].n = call[t].n
        /\ call'[t].kind = call[t].kind
    BY <1>0, <2>2, Goes
  <2>5. ~Writing(t)' /\ ~At(t, "body")' /\ At(t, "idle")'
    BY <2>4 DEF Writing, At
  <2>6. /\ w \in Seq(Frame) /\ Len(w) = n + 1 /\ DOMAIN w = 1 .. n + 1
        /\ \A i \in 1 .. n : w[i] = v[i]
        /\ w[n + 1] = Part(t, "body") /\ n % 2 = 1 /\ v[n] = Part(t, "head") /\ n \in 1 .. n
    <3>1. n % 2 = 1 /\ v[n] = Part(t, "head")
      BY <1>3, <1>9
    <3>2. n \in 1 .. n
      BY <1>2, <3>1
    <3>3. /\ w \in Seq(Frame) /\ Len(w) = n + 1 /\ DOMAIN w = 1 .. n + 1
          /\ \A i \in 1 .. n : w[i] = v[i]
          /\ w[n + 1] = Part(t, "body")
      BY <1>0, <1>2, <1>5, <2>1
    <3> QED
      BY <3>1, <3>2, <3>3
  <2>7. Writes(t, w, l)
    <3>1. /\ DOMAIN v \subseteq DOMAIN w
          /\ \A i \in DOMAIN w :
               \/ i \in DOMAIN v /\ w[i] = v[i]
               \/ i \notin DOMAIN v /\ w[i].of = Current(t)
      <4>1. n + 1 \notin 1 .. n /\ \A i \in 1 .. n + 1 : i \in 1 .. n \/ i = n + 1
        BY <1>2
      <4>2. w[n + 1].of = Current(t)
        BY <1>5, <2>6
      <4> QED
        BY <1>2, <2>6, <4>1, <4>2
    <3>2. w \in Seq(Frame)
      BY <2>6
    <3> QED
      BY <1>0, <1>1, <2>1, <2>3, <2>4, <2>5, <3>1, <3>2, ZenonT(60) DEF Writes
  <2>8. Len(w) % 2 = 0 /\ Paired(w)
    <3>1. (n + 1) % 2 = 0
      BY <1>2, <2>6
    <3>2. ASSUME NEW i \in 1 .. n + 1, i % 2 = 1
          PROVE  /\ w[i].part = "head"
                 /\ i + 1 \in DOMAIN w => w[i + 1] = [w[i] EXCEPT !.part = "body"]
      <4>1. i \in 1 .. n
        BY <1>2, <3>1, <3>2
      <4>2. CASE i = n
        BY <1>2, <1>5, <2>6, <4>2
      <4>3. CASE i # n
        BY <1>2, <1>3, <2>6, <3>2, <4>1, <4>3 DEF Paired
      <4> QED
        BY <4>2, <4>3
    <3> QED
      BY <2>6, <3>1, <3>2 DEF Paired
  <2>9. StreamInv'
    BY <1>1, <1>9, <2>5, <2>6, <2>7, <2>8, WritesStream
  <2>10. OnStream(t)'
    <3>1. DOMAIN w \ DOMAIN v \subseteq {n + 1} /\ OnlyAt(t, {n})
      BY <1>2, <1>4, <1>9, <2>6
    <3>2. OnlyAt(t, {n, n + 1})'
      BY <1>6, <2>7, <3>1
    <3>3. Conn(t)'.wire[Stream(t)'] = w /\ Current(t)' = Current(t)
      BY <1>0, <1>1, <2>3, <2>4 DEF Sets, Conn, Stream, Current
    <3>4. n \in DOMAIN w /\ n + 1 \in DOMAIN w /\ w[n].of = Current(t) /\ w[n + 1].of = Current(t)
      BY <1>2, <1>5, <2>6
    <3> QED
      BY <2>6, <3>2, <3>3, <3>4 DEF OnStream
  <2>11. ArtifactInv'
    BY <2>5, <2>7, <2>10, WritesArtifact
  <2> QED
    BY <2>7, <2>9, <2>11, WritesLock
<1> QED
  BY <1>1, <1>7, <1>8, <1>9 DEF At

LEMMA ReadArrives ==
  ASSUME MapInv, LockInv, StreamInv, ArtifactInv,
         NEW c \in DOMAIN conns, NEW s \in Classes, Read(c, s)
  PROVE  LockInv' /\ StreamInv' /\ ArtifactInv'
<1>0. PICK w, v, n, l, k, a :
        /\ w = conns[c].wire[s] /\ n = Len(w) /\ v = SubSeq(w, 3, n)
        /\ l = conns[c].lock[s] /\ k = conns[c].key /\ a = w[1].of
  OBVIOUS
<1>1. /\ TypeOK /\ conns[c].open /\ w \in Seq(Frame) /\ k \in Keys
      /\ n \in Nat /\ n >= 2 /\ DOMAIN w = 1 .. n
      /\ UNCHANGED call
  <2>1. w \in Seq(Frame) /\ k \in Keys /\ TypeOK
    BY <1>0, Typed DEF MapInv
  <2>2. conns[c].open /\ n >= 2 /\ UNCHANGED call
    BY <1>0 DEF Read
  <2> QED
    BY <1>0, <2>1, <2>2
<1>2. /\ Len(v) = n - 2 /\ DOMAIN v = 1 .. n - 2
      /\ \A i \in 1 .. n - 2 : i + 2 \in 1 .. n /\ v[i] = w[i + 2]
  <2>1. v \in Seq(Frame) /\ Len(v) = n - 2
    BY <1>0, <1>1
  <2>2. \A i \in 1 .. n - 2 : v[i] = w[i + 2]
    BY <1>0, <1>1
  <2> QED
    BY <1>1, <2>1, <2>2
<1>3. Paired(w) /\ (n % 2 = 1 => \E t \in Tasks : At(t, "body") /\ call[t].conn = c /\ Stream(t) = s)
  BY <1>0 DEF StreamInv
<1>4. Sets(c, s, v, l)
  <2>1. conns' = [conns EXCEPT ![c].wire[s] = v] /\ l = conns[c].lock[s]
    BY <1>0 DEF Read
  <2> QED
    BY <1>1, <2>1, OneStream
<1>5. /\ inbound \in [Keys -> Seq(Artifact)]
      /\ inbound' = [inbound EXCEPT ![k] = Append(inbound[k], a)]
      /\ w[1] \in Frame /\ a \in Artifact
  <2>1. 1 \in DOMAIN w /\ 1 + 1 \in DOMAIN w /\ 1 % 2 = 1 /\ w[1] \in Frame
    BY <1>1
  <2>2. w[1].part = "head" /\ w[2] = [w[1] EXCEPT !.part = "body"]
    <3>1. w[1].part = "head" /\ w[1 + 1] = [w[1] EXCEPT !.part = "body"]
      BY <1>3, <2>1 DEF Paired
    <3> QED
      BY <3>1
  <2>3. inbound' = [inbound EXCEPT ![k] = Append(inbound[k], a)]
    BY <1>0, <2>2 DEF Read
  <2>4. a \in Artifact
    BY <1>0, <2>1 DEF Frame
  <2> QED
    BY <1>1, <2>1, <2>3, <2>4 DEF TypeOK
<1>6. /\ \A q \in Keys : q # k => inbound'[q] = inbound[q]
      /\ DOMAIN inbound'[k] = 1 .. Len(inbound[k]) + 1
      /\ DOMAIN inbound[k] = 1 .. Len(inbound[k]) /\ Len(inbound[k]) \in Nat
      /\ \A i \in 1 .. Len(inbound[k]) : inbound'[k][i] = inbound[k][i]
      /\ inbound'[k][Len(inbound[k]) + 1] = a
  <2>1. inbound[k] \in Seq(Artifact) /\ inbound'[k] = Append(inbound[k], a)
    BY <1>1, <1>5
  <2> QED
    BY <1>1, <1>5, <2>1
<1>7. \A t \in Tasks : /\ Stream(t)' = Stream(t) /\ Current(t)' = Current(t)
                       /\ Writing(t)' = Writing(t) /\ Announced(t)' = Announced(t)
                       /\ \A pc : At(t, pc)' = At(t, pc)
  BY <1>1 DEF Stream, Current, Writing, Announced, At
<1>8. \A t \in Tasks : call[t].conn \in DOMAIN conns =>
        /\ Conn(t)'.open = Conn(t).open /\ Conn(t)'.key = Conn(t).key
        /\ \A q \in Classes : Conn(t)'.lock[q] = Conn(t).lock[q]
        /\ \A q \in Classes :
             Conn(t)'.wire[q] = IF call[t].conn = c /\ q = s THEN v ELSE Conn(t).wire[q]
  BY <1>0, <1>1, <1>4, ZenonT(60) DEF Sets, Conn
<1>9. LockInv'
  <2>1. ASSUME NEW t \in Tasks
        PROVE  /\ call'[t].pc \in {"open", "lock", "backfill"} => call'[t].conn \in DOMAIN conns'
               /\ At(t, "backfill")' => call'[t].kind = "sync"
               /\ Writing(t)' => call'[t].conn \in DOMAIN conns' /\ Conn(t)'.lock[Stream(t)'] = {t}
    <3>1. Writing(t) => Stream(t) \in Classes
      BY DEF Writing, Stream, MapInv
    <3> QED
      BY <1>1, <1>4, <1>7, <1>8, <3>1 DEF LockInv, Sets
  <2>2. ASSUME NEW d \in DOMAIN conns', NEW q \in Classes, NEW t \in conns'[d].lock[q]
        PROVE  Writing(t)' /\ call'[t].conn = d /\ Stream(t)' = q
    <3>1. d \in DOMAIN conns /\ t \in conns[d].lock[q]
      BY <1>0, <1>4, <2>2 DEF Sets
    <3>2. conns[d].lock[q] \subseteq Tasks
      BY <1>1, <3>1, Typed
    <3> QED
      BY <1>1, <1>7, <3>1, <3>2 DEF LockInv
  <2> QED
    BY <2>1, <2>2 DEF LockInv
<1>10. StreamInv'
  <2>1. Paired(v)
    <3> SUFFICES ASSUME NEW i \in 1 .. n - 2, i % 2 = 1
                 PROVE  /\ v[i].part = "head"
                        /\ i + 1 \in 1 .. n - 2 => v[i + 1] = [v[i] EXCEPT !.part = "body"]
      BY <1>2 DEF Paired
    <3>1. i + 2 \in 1 .. n /\ (i + 2) % 2 = 1 /\ (i + 2) + 1 = (i + 1) + 2
      BY <1>1
    <3>2. /\ w[i + 2].part = "head"
          /\ i + 1 \in 1 .. n - 2 => w[(i + 1) + 2] = [w[i + 2] EXCEPT !.part = "body"]
      BY <1>1, <1>2, <1>3, <3>1 DEF Paired
    <3> QED
      BY <1>2, <3>2
  <2>2. ASSUME NEW d \in DOMAIN conns', NEW q \in Classes
        PROVE  LET x == conns'[d].wire[q] IN
               /\ Paired(x)
               /\ ~conns'[d].open => x = <<>>
               /\ Len(x) % 2 = 1 =>
                    \E t \in Tasks : At(t, "body")' /\ call'[t].conn = d /\ Stream(t)' = q
    <3>1. CASE d = c /\ q = s
      <4>1. conns'[d].wire[q] = v /\ conns'[d].open
        BY <1>1, <1>4, <3>1 DEF Sets
      <4>2. Len(v) % 2 = 1 => n % 2 = 1
        BY <1>1, <1>2
      <4> QED
        BY <1>1, <1>3, <1>7, <2>1, <3>1, <4>1, <4>2
    <3>2. CASE ~(d = c /\ q = s)
      <4>1. d \in DOMAIN conns /\ conns'[d].wire[q] = conns[d].wire[q] /\ conns'[d].open = conns[d].open
        BY <1>4, <3>2 DEF Sets
      <4>2. /\ Paired(conns[d].wire[q])
            /\ ~conns[d].open => conns[d].wire[q] = <<>>
            /\ Len(conns[d].wire[q]) % 2 = 1 =>
                 \E t \in Tasks : At(t, "body") /\ call[t].conn = d /\ Stream(t) = q
        BY <4>1 DEF StreamInv
      <4> QED
        BY <1>1, <1>7, <4>1, <4>2
    <3> QED
      BY <3>1, <3>2
  <2>3. ASSUME NEW t \in Tasks, At(t, "body")', Conn(t)'.open
        PROVE  /\ Len(Conn(t)'.wire[Stream(t)']) % 2 = 1
               /\ Conn(t)'.wire[Stream(t)'][Len(Conn(t)'.wire[Stream(t)'])] = Part(t, "head")'
    <3>1. /\ At(t, "body") /\ call[t].conn \in DOMAIN conns /\ Stream(t) \in Classes
          /\ Conn(t) = conns[call[t].conn]
      BY <1>7, <2>3 DEF LockInv, Writing, At, MapInv, Stream, Conn
    <3>2. /\ Conn(t).open /\ Part(t, "head")' = Part(t, "head")
      BY <1>1, <1>8, <2>3, <3>1 DEF Part
    <3>3. /\ Len(Conn(t).wire[Stream(t)]) % 2 = 1
          /\ Conn(t).wire[Stream(t)][Len(Conn(t).wire[Stream(t)])] = Part(t, "head")
      BY <3>1, <3>2 DEF StreamInv
    <3>4. CASE ~(call[t].conn = c /\ Stream(t) = s)
      <4>1. Conn(t)'.wire[Stream(t)'] = Conn(t).wire[Stream(t)]
        <5>1. Stream(t)' = Stream(t)
          BY <1>7
        <5> QED
          BY <1>8, <3>1, <3>4, <5>1
      <4> QED
        BY <3>2, <3>3, <4>1
    <3>5. CASE call[t].conn = c /\ Stream(t) = s
      <4>1. Conn(t)'.wire[Stream(t)'] = v /\ Conn(t).wire[Stream(t)] = w
        BY <1>0, <1>7, <1>8, <3>1, <3>5
      <4>2. n % 2 = 1 /\ w[n] = Part(t, "head")
        BY <1>0, <3>3, <4>1
      <4>3. (n - 2) % 2 = 1 /\ n - 2 \in 1 .. n - 2 /\ (n - 2) + 2 = n
        BY <1>1, <4>2
      <4> QED
        BY <1>2, <3>2, <4>1, <4>2, <4>3
    <3> QED
      BY <3>4, <3>5
  <2> QED
    BY <2>2, <2>3 DEF StreamInv
\* The places of an artifact, before and after the first frame is taken.
<1>11. ASSUME NEW t \in Tasks, NEW P, OnlyAt(t, P), NEW Q,
              IF call[t].conn = c /\ call[t].kind = s
              THEN \A i \in 1 .. n - 2 : i + 2 \in P => i \in Q ELSE P \subseteq Q
       PROVE  OnlyAt(t, Q)'
  <2> SUFFICES ASSUME NEW d \in DOMAIN conns, NEW q \in Classes, NEW i \in DOMAIN conns'[d].wire[q],
                      conns'[d].wire[q][i].of = Current(t)
               PROVE  d = call[t].conn /\ q = call[t].kind /\ i \in Q
    BY <1>1, <1>4, <1>7 DEF OnlyAt, Sets
  <2>1. CASE d = c /\ q = s
    <3>1. conns'[d].wire[q] = v /\ i \in 1 .. n - 2
      BY <1>2, <1>4, <2>1 DEF Sets
    <3>2. i + 2 \in DOMAIN conns[c].wire[s] /\ conns[c].wire[s][i + 2].of = Current(t)
      BY <1>0, <1>1, <1>2, <2>1, <3>1
    <3>3. c = call[t].conn /\ s = call[t].kind /\ i + 2 \in P
      BY <1>11, <3>2 DEF OnlyAt
    <3> QED
      BY <1>11, <2>1, <3>1, <3>3
  <2>2. CASE ~(d = c /\ q = s)
    <3>1. conns'[d].wire[q] = conns[d].wire[q]
      BY <1>4, <2>2 DEF Sets
    <3>2. d = call[t].conn /\ q = call[t].kind /\ i \in P
      BY <1>11, <3>1 DEF OnlyAt
    <3> QED
      BY <1>11, <2>2, <3>2
  <2> QED
    BY <2>1, <2>2
<1>12. ASSUME NEW t \in Tasks, NEW P, OnlyAt(t, P),
              call[t].conn = c /\ call[t].kind = s => 1 \notin P
       PROVE  a # Current(t) /\ (Nowhere(t) => Nowhere(t)')
  <2>1. a # Current(t)
    <3>1. 1 \in DOMAIN conns[c].wire[s] /\ conns[c].wire[s][1].of = a
      BY <1>0, <1>1
    <3> QED
      BY <1>12, <3>1 DEF OnlyAt
  <2>2. ASSUME Nowhere(t), NEW q \in Keys, NEW i \in DOMAIN inbound'[q]
        PROVE  inbound'[q][i] # Current(t)
    <3>1. CASE q # k
      BY <1>6, <2>2, <3>1 DEF Nowhere
    <3>2. CASE q = k
      <4>1. i \in 1 .. Len(inbound[k]) \/ i = Len(inbound[k]) + 1
        BY <1>6, <2>2, <3>2
      <4>2. CASE i \in 1 .. Len(inbound[k])
        BY <1>1, <1>6, <2>2, <3>2, <4>2 DEF Nowhere
      <4>3. CASE i = Len(inbound[k]) + 1
        BY <1>6, <2>1, <3>2, <4>3
      <4> QED
        BY <4>1, <4>2, <4>3
    <3> QED
      BY <3>1, <3>2
  <2> QED
    BY <1>7, <2>1, <2>2 DEF Nowhere
<1>13. /\ \A d \in DOMAIN conns' : [url |-> conns'[d].url, key |-> conns'[d].key] \in Refs
       /\ \A q \in Keys : \A i \in DOMAIN inbound'[q] :
            inbound'[q][i][2] <= call'[inbound'[q][i][1]].n
       /\ \A d \in DOMAIN conns', q \in Classes : \A i \in DOMAIN conns'[d].wire[q] :
            LET of == conns'[d].wire[q][i].of IN of[2] <= call'[of[1]].n
  <2>1. \A d \in DOMAIN conns' : [url |-> conns'[d].url, key |-> conns'[d].key] \in Refs
    BY <1>4 DEF Sets, ArtifactInv
  <2>2. a[2] <= call[a[1]].n
    <3>1. 1 \in DOMAIN conns[c].wire[s] /\ conns[c].wire[s][1].of = a
      BY <1>0, <1>1
    <3> QED
      BY <3>1 DEF ArtifactInv
  <2>3. ASSUME NEW q \in Keys, NEW i \in DOMAIN inbound'[q]
        PROVE  inbound'[q][i][2] <= call'[inbound'[q][i][1]].n
    <3>1. (i \in DOMAIN inbound[q] /\ inbound'[q][i] = inbound[q][i]) \/ inbound'[q][i] = a
      <4>1. CASE q # k
        BY <1>6, <2>3, <4>1
      <4>2. CASE q = k
        <5>1. i \in 1 .. Len(inbound[k]) \/ i = Len(inbound[k]) + 1
          BY <1>6, <2>3, <4>2
        <5> QED
          BY <1>6, <4>2, <5>1
      <4> QED
        BY <4>1, <4>2
    <3> QED
      BY <1>1, <2>2, <2>3, <3>1 DEF ArtifactInv
  <2>4. ASSUME NEW d \in DOMAIN conns', NEW q \in Classes, NEW i \in DOMAIN conns'[d].wire[q]
        PROVE  LET of == conns'[d].wire[q][i].of IN of[2] <= call'[of[1]].n
    <3>1. d \in DOMAIN conns
      BY <1>4 DEF Sets
    <3>2. \E j \in DOMAIN conns[d].wire[q] : conns'[d].wire[q][i] = conns[d].wire[q][j]
      <4>1. CASE d = c /\ q = s
        <5>1. conns'[d].wire[q] = v /\ i \in 1 .. n - 2
          BY <1>2, <1>4, <4>1 DEF Sets
        <5>2. i + 2 \in DOMAIN conns[d].wire[q] /\ conns'[d].wire[q][i] = conns[d].wire[q][i + 2]
          BY <1>0, <1>1, <1>2, <4>1, <5>1
        <5> QED
          BY <5>2
      <4>2. CASE ~(d = c /\ q = s)
        BY <1>4, <3>1, <4>2 DEF Sets
      <4> QED
        BY <4>1, <4>2
    <3> QED
      BY <1>1, <3>1, <3>2 DEF ArtifactInv
  <2> QED
    BY <2>1, <2>3, <2>4
<1>14. ASSUME NEW t \in Tasks, ~At(t, "idle")'
       PROVE  /\ Nowhere(t)'
              /\ OnlyAt(t, IF At(t, "body") THEN {Len(Conn(t).wire[Stream(t)])} ELSE {})'
  <2>1. Nowhere(t) /\ OnlyAt(t, IF At(t, "body") THEN {Len(Conn(t).wire[Stream(t)])} ELSE {})
    BY <1>7, <1>14 DEF ArtifactInv
  <2>2. CASE ~At(t, "body")
    <3>1. OnlyAt(t, {}) /\ ~At(t, "body")'
      BY <1>7, <2>1, <2>2
    <3>2. Nowhere(t)' /\ OnlyAt(t, {})'
      BY <1>11, <1>12, <2>1, <3>1
    <3> QED
      BY <3>1, <3>2
  <2>3. CASE At(t, "body")
    <3>0. PICK x, y : x = Len(Conn(t).wire[Stream(t)]) /\ y = Len(Conn(t)'.wire[Stream(t)'])
      OBVIOUS
    <3>1. /\ OnlyAt(t, {x}) /\ At(t, "body")' /\ call[t].conn \in DOMAIN conns
          /\ Stream(t) \in Classes /\ Stream(t) = call[t].kind
      BY <1>7, <2>1, <2>3, <3>0 DEF LockInv, Writing, At, MapInv, Stream
    <3>2. CASE call[t].conn = c /\ call[t].kind = s
      <4>1. x = n /\ y = n - 2
        <5>1. Conn(t).wire[Stream(t)] = w /\ Stream(t)' = Stream(t)
          BY <1>0, <1>7, <3>1, <3>2 DEF Conn
        <5>2. Conn(t)'.wire[Stream(t)'] = v
          BY <1>8, <3>1, <3>2, <5>1
        <5> QED
          BY <1>0, <1>2, <3>0, <5>1, <5>2
      <4>2. \A i \in 1 .. n - 2 : i + 2 \in {x} => i \in {y}
        BY <1>1, <4>1
      <4>3. OnlyAt(t, {y})'
        BY <1>11, <3>1, <3>2, <4>2
      <4>4. 1 \notin {x}
        BY <1>1, <4>1
      <4>5. Nowhere(t)'
        BY <1>12, <2>1, <3>1, <4>4
      <4> QED
        BY <3>0, <3>1, <4>3, <4>5 DEF OnlyAt
    <3>3. CASE ~(call[t].conn = c /\ call[t].kind = s)
      <4>1. x = y
        BY <1>7, <1>8, <3>0, <3>1, <3>3
      <4>2. OnlyAt(t, {x})' /\ Nowhere(t)'
        BY <1>11, <1>12, <2>1, <3>1, <3>3
      <4> QED
        BY <3>0, <3>1, <4>1, <4>2 DEF OnlyAt
    <3> QED
      BY <3>2, <3>3
  <2> QED
    BY <2>2, <2>3
<1>15. ASSUME NEW t \in Tasks, Announced(t)'
       PROVE  /\ call'[t].conn \in DOMAIN conns' /\ call'[t].kind \in Classes
              /\ Conn(t)'.open => (Queued(t)' /\ OnlyAt(t, {})') \/ (Nowhere(t)' /\ OnStream(t)')
  <2>1. /\ call[t].conn \in DOMAIN conns /\ call[t].kind \in Classes
        /\ Conn(t).open => (Queued(t) /\ OnlyAt(t, {})) \/ (Nowhere(t) /\ OnStream(t))
        /\ Stream(t) = call[t].kind
    BY <1>7, <1>15 DEF ArtifactInv, Stream
  <2>2. call'[t].conn \in DOMAIN conns' /\ call'[t].kind \in Classes
    BY <1>1, <1>4, <2>1 DEF Sets
  <2>3. ASSUME Queued(t), OnlyAt(t, {}) PROVE Queued(t)' /\ OnlyAt(t, {})'
    <3>1. OnlyAt(t, {})' /\ a # Current(t)
      BY <1>11, <1>12, <2>3
    <3>2. PICK q : q = Conn(t).key
      OBVIOUS
    <3>3. Conn(t)'.key = q /\ q \in Keys
      BY <1>1, <1>8, <2>1, <3>2, Typed DEF Conn
    <3>4. PICK i \in DOMAIN inbound[q] : /\ inbound[q][i] = Current(t)
                                         /\ \A j \in DOMAIN inbound[q] :
                                              inbound[q][j] = Current(t) => j = i
      BY <2>3, <3>2 DEF Queued
    <3>5. /\ i \in DOMAIN inbound'[q] /\ inbound'[q][i] = Current(t)
          /\ \A j \in DOMAIN inbound'[q] : inbound'[q][j] = Current(t) => j = i
      <4>1. CASE q # k
        BY <1>6, <3>3, <3>4, <4>1
      <4>2. CASE q = k
        <5>1. i \in DOMAIN inbound'[q] /\ inbound'[q][i] = Current(t)
          BY <1>6, <3>4, <4>2
        <5>2. ASSUME NEW j \in DOMAIN inbound'[q], inbound'[q][j] = Current(t) PROVE j = i
          <6>1. j \in 1 .. Len(inbound[k]) \/ j = Len(inbound[k]) + 1
            BY <1>6, <4>2, <5>2
          <6> QED
            BY <1>6, <3>1, <3>4, <4>2, <5>2, <6>1
        <5> QED
          BY <5>1, <5>2
      <4> QED
        BY <4>1, <4>2
    <3> QED
      BY <1>7, <3>1, <3>3, <3>5 DEF Queued
  <2>4. ASSUME Nowhere(t), OnStream(t)
        PROVE  (Queued(t)' /\ OnlyAt(t, {})') \/ (Nowhere(t)' /\ OnStream(t)')
    <3>0. PICK x, y : x = Conn(t).wire[Stream(t)] /\ y = Conn(t)'.wire[Stream(t)']
      OBVIOUS
    <3>1. PICK i \in DOMAIN x : /\ i % 2 = 1 /\ i + 1 \in DOMAIN x
                                /\ x[i].of = Current(t) /\ x[i + 1].of = Current(t)
                                /\ OnlyAt(t, {i, i + 1})
      BY <2>4, <3>0 DEF OnStream
    <3>2. CASE ~(call[t].conn = c /\ call[t].kind = s)
      <4>1. x = y
        BY <1>7, <1>8, <2>1, <3>0, <3>2
      <4>2. OnlyAt(t, {i, i + 1})' /\ Nowhere(t)'
        BY <1>11, <1>12, <2>4, <3>1, <3>2
      <4> QED
        BY <1>7, <3>0, <3>1, <4>1, <4>2 DEF OnStream
    <3>3. CASE call[t].conn = c /\ call[t].kind = s
      <4>1. x = w /\ y = v /\ Conn(t)'.key = k
        <5>1. Conn(t).wire[Stream(t)] = w /\ Stream(t)' = Stream(t) /\ Conn(t).key = k
          BY <1>0, <1>7, <2>1, <3>3 DEF Conn
        <5>2. Conn(t)'.wire[Stream(t)'] = v /\ Conn(t)'.key = Conn(t).key
          BY <1>8, <2>1, <3>3, <5>1
        <5> QED
          BY <3>0, <5>1, <5>2
      <4>2. CASE i = 1
        <5>1. \A j \in 1 .. n - 2 : j + 2 \in {i, i + 1} => j \in {}
          BY <1>1, <4>2
        <5>2. OnlyAt(t, {})'
          BY <1>11, <3>1, <3>3, <5>1
        <5>3. a = Current(t)
          BY <1>0, <3>1, <4>1, <4>2
        <5>4. \A j \in 1 .. Len(inbound[k]) : inbound'[k][j] # Current(t)
          BY <1>1, <1>6, <2>4 DEF Nowhere
        <5>5. Len(inbound[k]) + 1 \in DOMAIN inbound'[k]
          BY <1>6
        <5>6. \A j \in DOMAIN inbound'[k] : inbound'[k][j] = Current(t) => j = Len(inbound[k]) + 1
          <6> SUFFICES ASSUME NEW j \in DOMAIN inbound'[k], inbound'[k][j] = Current(t)
                       PROVE  j = Len(inbound[k]) + 1
            OBVIOUS
          <6>1. j \in 1 .. Len(inbound[k]) \/ j = Len(inbound[k]) + 1
            BY <1>6
          <6> QED
            BY <5>4, <6>1
        <5>7. Queued(t)'
          <6>1. inbound'[k][Len(inbound[k]) + 1] = Current(t) /\ Current(t)' = Current(t)
            BY <1>6, <1>7, <5>3
          <6> QED
            BY <4>1, <5>5, <5>6, <6>1 DEF Queued
        <5> QED
          BY <5>2, <5>7
      <4>3. CASE i # 1
        <5>1. i \in 1 .. n /\ i + 1 \in 1 .. n /\ i % 2 = 1
          BY <1>1, <3>1, <4>1
        <5>2. PICK m \in 1 .. n - 2 : m + 2 = i /\ m + 1 \in 1 .. n - 2 /\ m % 2 = 1
          <6>1. i >= 3
            BY <1>1, <4>3, <5>1
          <6>2. i - 2 \in 1 .. n - 2 /\ (i - 2) + 1 \in 1 .. n - 2 /\ (i - 2) % 2 = 1 /\ (i - 2) + 2 = i
            BY <1>1, <5>1, <6>1
          <6> QED
            BY <6>2
        <5>3. \A j \in 1 .. n - 2 : j + 2 \in {i, i + 1} => j \in {m, m + 1}
          BY <1>1, <5>2
        <5>4. OnlyAt(t, {m, m + 1})'
          BY <1>11, <3>1, <3>3, <5>3
        <5>5. 1 \notin {i, i + 1}
          BY <4>3, <5>1
        <5>6. Nowhere(t)'
          BY <1>12, <2>4, <3>1, <5>5
        <5>7. v[m].of = Current(t) /\ v[m + 1].of = Current(t)
          <6>1. v[m] = w[i] /\ v[m + 1] = w[i + 1]
            <7>1. (m + 1) + 2 = i + 1
              BY <5>2
            <7> QED
              BY <1>2, <5>2, <7>1
          <6> QED
            BY <3>1, <4>1, <6>1
        <5>8. m \in DOMAIN v /\ m + 1 \in DOMAIN v
          BY <1>2, <5>2
        <5>9. OnStream(t)'
          BY <1>7, <3>0, <4>1, <5>2, <5>4, <5>7, <5>8 DEF OnStream
        <5> QED
          BY <5>6, <5>9
      <4> QED
        BY <4>2, <4>3
    <3> QED
      BY <3>2, <3>3
  <2> QED
    BY <1>8, <2>1, <2>2, <2>3, <2>4
<1> QED
  BY <1>9, <1>10, <1>13, <1>14, <1>15 DEF ArtifactInv

LEMMA MoveArrives ==
  ASSUME MapInv, LockInv, StreamInv, ArtifactInv, NEW u \in Urls, NEW h \in Option(Keys), Move(u, h)
  PROVE  LockInv' /\ StreamInv' /\ ArtifactInv'
<1>1. TypeOK /\ UNCHANGED <<call, inbound>> /\ DOMAIN conns' = DOMAIN conns
  BY DEF Move, MapInv
<1>2. ASSUME NEW c \in DOMAIN conns
      PROVE  /\ conns'[c].url = conns[c].url /\ conns'[c].key = conns[c].key
             /\ conns'[c].lock = conns[c].lock
             /\ \/ conns'[c].open = conns[c].open /\ conns'[c].wire = conns[c].wire
                \/ ~conns'[c].open /\ \A s \in Classes : conns'[c].wire[s] = <<>>
  <2> DEFINE silent == [q \in Classes |-> <<>>]
             closed == [conns[c] EXCEPT !.open = FALSE, !.wire = silent]
  <2>1. conns'[c] = IF conns[c].url = u THEN closed ELSE conns[c]
    BY DEF Move
  <2>2. conns[c] \in Connection
    BY <1>1 DEF TypeOK
  <2>3. \A s \in Classes : silent[s] = <<>>
    OBVIOUS
  <2>4. /\ closed.url = conns[c].url /\ closed.key = conns[c].key
        /\ closed.lock = conns[c].lock /\ ~closed.open /\ closed.wire = silent
    <3> HIDE DEF silent
    <3> QED
      BY <2>2 DEF Connection
  <2> HIDE DEF closed, silent
  <2> QED
    BY <2>1, <2>3, <2>4
<1>3. \A t \in Tasks : /\ Stream(t)' = Stream(t) /\ Current(t)' = Current(t)
                       /\ Writing(t)' = Writing(t) /\ Announced(t)' = Announced(t)
                       /\ \A pc : At(t, pc)' = At(t, pc)
  BY <1>1 DEF Stream, Current, Writing, Announced, At
<1>4. \A t \in Tasks : call[t].conn \in DOMAIN conns =>
        /\ Conn(t)'.key = Conn(t).key /\ Conn(t)'.lock = Conn(t).lock
        /\ \/ Conn(t)'.open = Conn(t).open /\ Conn(t)'.wire = Conn(t).wire
           \/ ~Conn(t)'.open /\ \A s \in Classes : Conn(t)'.wire[s] = <<>>
  BY <1>1, <1>2 DEF Conn
<1>5. LockInv'
  <2>1. \A t \in Tasks :
          /\ call'[t].pc \in {"open", "lock", "backfill"} => call'[t].conn \in DOMAIN conns'
          /\ At(t, "backfill")' => call'[t].kind = "sync"
          /\ Writing(t)' => call'[t].conn \in DOMAIN conns' /\ Conn(t)'.lock[Stream(t)'] = {t}
    BY <1>1, <1>3, <1>4 DEF LockInv
  <2>2. ASSUME NEW c \in DOMAIN conns', NEW s \in Classes, NEW t \in conns'[c].lock[s]
        PROVE  Writing(t)' /\ call'[t].conn = c /\ Stream(t)' = s
    <3>1. c \in DOMAIN conns /\ t \in conns[c].lock[s]
      BY <1>1, <1>2, <2>2
    <3>2. conns[c].lock[s] \subseteq Tasks
      BY <1>1, <3>1, Typed
    <3> QED
      BY <1>1, <1>3, <3>1, <3>2 DEF LockInv
  <2> QED
    BY <2>1, <2>2 DEF LockInv
<1>6. StreamInv'
  <2>1. ASSUME NEW c \in DOMAIN conns', NEW s \in Classes
        PROVE  LET w == conns'[c].wire[s] IN
               /\ Paired(w)
               /\ ~conns'[c].open => w = <<>>
               /\ Len(w) % 2 = 1 =>
                    \E t \in Tasks : At(t, "body")' /\ call'[t].conn = c /\ Stream(t)' = s
    <3>1. \/ conns'[c].open = conns[c].open /\ conns'[c].wire = conns[c].wire
          \/ conns'[c].wire[s] = <<>>
      BY <1>1, <1>2
    <3>2. CASE conns'[c].wire[s] = <<>>
      BY <3>2 DEF Paired
    <3>3. CASE conns'[c].open = conns[c].open /\ conns'[c].wire = conns[c].wire
      <4>1. /\ Paired(conns[c].wire[s])
            /\ ~conns[c].open => conns[c].wire[s] = <<>>
            /\ Len(conns[c].wire[s]) % 2 = 1 =>
                 \E t \in Tasks : At(t, "body") /\ call[t].conn = c /\ Stream(t) = s
        BY <1>1 DEF StreamInv
      <4> QED
        BY <1>1, <1>3, <3>3, <4>1
    <3> QED
      BY <3>1, <3>2, <3>3
  <2>2. ASSUME NEW t \in Tasks, At(t, "body")', Conn(t)'.open
        PROVE  /\ Len(Conn(t)'.wire[Stream(t)']) % 2 = 1
               /\ Conn(t)'.wire[Stream(t)'][Len(Conn(t)'.wire[Stream(t)'])] = Part(t, "head")'
    <3>1. /\ At(t, "body") /\ call[t].conn \in DOMAIN conns /\ Part(t, "head")' = Part(t, "head")
          /\ Stream(t)' = Stream(t)
      BY <1>1, <1>3, <2>2 DEF LockInv, Writing, At, Part
    <3>2. Conn(t).open /\ Conn(t)'.wire = Conn(t).wire
      BY <1>4, <2>2, <3>1
    <3>3. /\ Len(Conn(t).wire[Stream(t)]) % 2 = 1
          /\ Conn(t).wire[Stream(t)][Len(Conn(t).wire[Stream(t)])] = Part(t, "head")
      BY <3>1, <3>2 DEF StreamInv
    <3> QED
      BY <3>1, <3>2, <3>3
  <2> QED
    BY <2>1, <2>2 DEF StreamInv
<1>7. ASSUME NEW c \in DOMAIN conns, NEW s \in Classes, NEW i \in DOMAIN conns'[c].wire[s]
      PROVE  conns'[c].wire = conns[c].wire /\ conns'[c].open = conns[c].open
  BY <1>2, <1>7
<1>8. ASSUME NEW t \in Tasks, NEW P, OnlyAt(t, P)
      PROVE  OnlyAt(t, P)'
  BY <1>1, <1>3, <1>7, <1>8 DEF OnlyAt
<1>9. /\ \A c \in DOMAIN conns' : [url |-> conns'[c].url, key |-> conns'[c].key] \in Refs
      /\ \A k \in Keys : \A i \in DOMAIN inbound'[k] :
           inbound'[k][i][2] <= call'[inbound'[k][i][1]].n
      /\ \A c \in DOMAIN conns', s \in Classes : \A i \in DOMAIN conns'[c].wire[s] :
           LET of == conns'[c].wire[s][i].of IN of[2] <= call'[of[1]].n
  <2>1. \A c \in DOMAIN conns' : [url |-> conns'[c].url, key |-> conns'[c].key] \in Refs
    BY <1>1, <1>2 DEF ArtifactInv
  <2>2. \A k \in Keys : \A i \in DOMAIN inbound'[k] :
          inbound'[k][i][2] <= call'[inbound'[k][i][1]].n
    BY <1>1 DEF ArtifactInv
  <2>3. ASSUME NEW c \in DOMAIN conns', NEW s \in Classes, NEW i \in DOMAIN conns'[c].wire[s]
        PROVE  LET of == conns'[c].wire[s][i].of IN of[2] <= call'[of[1]].n
    <3>1. conns'[c].wire = conns[c].wire /\ c \in DOMAIN conns
      BY <1>1, <1>7
    <3> QED
      BY <1>1, <3>1 DEF ArtifactInv
  <2> QED
    BY <2>1, <2>2, <2>3
<1>10. ASSUME NEW t \in Tasks, ~At(t, "idle")'
       PROVE  /\ Nowhere(t)'
              /\ OnlyAt(t, IF At(t, "body") THEN {Len(Conn(t).wire[Stream(t)])} ELSE {})'
  <2>0. PICK p, q : /\ p = IF At(t, "body") THEN {Len(Conn(t).wire[Stream(t)])} ELSE {}
                    /\ q = IF At(t, "body")' THEN {Len(Conn(t)'.wire[Stream(t)'])} ELSE {}
    OBVIOUS
  <2>1. Nowhere(t) /\ OnlyAt(t, p)
    BY <1>3, <1>10, <2>0 DEF ArtifactInv
  <2>2. Nowhere(t)' /\ OnlyAt(t, p)'
    BY <1>1, <1>3, <1>8, <2>1 DEF Nowhere
  <2>3. OnlyAt(t, q)'
    <3>1. CASE p = q
      BY <2>2, <3>1
    <3>2. CASE p # q
      <4>1. /\ At(t, "body") /\ call[t].conn \in DOMAIN conns /\ call[t].kind \in Classes
            /\ Conn(t)'.wire # Conn(t).wire
        BY <1>3, <2>0, <3>2 DEF LockInv, Writing, At, MapInv
      <4>2. \A s \in Classes : Conn(t)'.wire[s] = <<>>
        BY <1>4, <4>1
      <4>3. \A s \in Classes : conns'[call[t].conn].wire[s] = <<>>
        BY <1>1, <4>2 DEF Conn
      <4> QED
        BY <1>1, <1>3, <2>2, <4>3 DEF OnlyAt
    <3> QED
      BY <3>1, <3>2
  <2> QED
    BY <2>0, <2>2, <2>3 DEF OnlyAt
<1>11. ASSUME NEW t \in Tasks, Announced(t)'
       PROVE  /\ call'[t].conn \in DOMAIN conns' /\ call'[t].kind \in Classes
              /\ Conn(t)'.open => (Queued(t)' /\ OnlyAt(t, {})') \/ (Nowhere(t)' /\ OnStream(t)')
  <2>1. /\ call[t].conn \in DOMAIN conns /\ call[t].kind \in Classes
        /\ Conn(t).open => (Queued(t) /\ OnlyAt(t, {})) \/ (Nowhere(t) /\ OnStream(t))
        /\ call'[t].conn \in DOMAIN conns' /\ call'[t].kind \in Classes
    BY <1>1, <1>3, <1>11 DEF ArtifactInv
  <2>2. ASSUME Conn(t)'.open
        PROVE  (Queued(t)' /\ OnlyAt(t, {})') \/ (Nowhere(t)' /\ OnStream(t)')
    <3>1. /\ Conn(t).open /\ Conn(t)'.wire = Conn(t).wire /\ Conn(t)'.key = Conn(t).key
          /\ Stream(t)' = Stream(t) /\ Current(t)' = Current(t) /\ inbound' = inbound
      BY <1>1, <1>3, <1>4, <2>1, <2>2
    <3>2. Queued(t) => Queued(t)'
      BY <3>1 DEF Queued
    <3>3. Nowhere(t) => Nowhere(t)'
      BY <3>1 DEF Nowhere
    <3>4. OnlyAt(t, {}) => OnlyAt(t, {})'
      BY <1>8
    <3>5. ASSUME OnStream(t) PROVE OnStream(t)'
      <4>1. PICK i \in DOMAIN Conn(t).wire[Stream(t)] :
              /\ i % 2 = 1 /\ i + 1 \in DOMAIN Conn(t).wire[Stream(t)]
              /\ Conn(t).wire[Stream(t)][i].of = Current(t)
              /\ Conn(t).wire[Stream(t)][i + 1].of = Current(t)
              /\ OnlyAt(t, {i, i + 1})
        BY <3>5 DEF OnStream
      <4>2. OnlyAt(t, {i, i + 1})'
        BY <1>8, <4>1
      <4> QED
        BY <3>1, <4>1, <4>2 DEF OnStream
    <3> QED
      BY <2>1, <3>1, <3>2, <3>3, <3>4, <3>5
  <2> QED
    BY <2>1, <2>2
<1> QED
  BY <1>5, <1>6, <1>9, <1>10, <1>11 DEF ArtifactInv

LEMMA InitArrives == Init => LockInv /\ StreamInv /\ ArtifactInv
<1> SUFFICES ASSUME Init PROVE LockInv /\ StreamInv /\ ArtifactInv
  OBVIOUS
<1>1. /\ DOMAIN conns = {} /\ \A t \in Tasks : call[t].pc = "idle" /\ call[t].last = ""
      /\ \A k \in Keys : DOMAIN inbound[k] = {}
  <2>1. conns = <<>> /\ \A k \in Keys : inbound[k] = <<>>
    BY DEF Init
  <2>2. \A t \in Tasks : call[t] = Idle
    BY DEF Init
  <2>3. DOMAIN conns = {}
    BY <2>1
  <2>4. \A k \in Keys : DOMAIN inbound[k] = {}
    BY <2>1
  <2>5. \A t \in Tasks : call[t].pc = "idle" /\ call[t].last = ""
    <3>1. Idle.pc = "idle" /\ Idle.last = ""
      BY DEF Idle
    <3> QED
      BY <2>2, <3>1
  <2> QED
    BY <2>3, <2>4, <2>5
<1>2. \A t \in Tasks : ~Writing(t) /\ ~Announced(t) /\ At(t, "idle") /\ ~At(t, "body")
                       /\ ~At(t, "backfill")
  BY <1>1 DEF Writing, Announced, At
<1> QED
  BY <1>1, <1>2 DEF LockInv, StreamInv, ArtifactInv

LEMMA StepArrives == ArrivalInv /\ [Next]_vars => ArrivalInv'
<1> SUFFICES ASSUME ArrivalInv, [Next]_vars PROVE LockInv' /\ StreamInv' /\ ArtifactInv'
  BY StepMap DEF ArrivalInv
<1>0. MapInv /\ LockInv /\ StreamInv /\ ArtifactInv
  BY DEF ArrivalInv
<1>1. CASE UNCHANGED vars
  <2>1. /\ UNCHANGED <<conns, call, inbound>>
        /\ \A t \in Tasks : Conn(t)' = Conn(t) /\ Stream(t)' = Stream(t) /\ Current(t)' = Current(t)
        /\ \A t \in Tasks : \A pc : At(t, pc)' = At(t, pc) /\ Part(t, pc)' = Part(t, pc)
    BY <1>1 DEF vars, Conn, Stream, Current, At, Part
  <2>2. /\ \A t \in Tasks : Writing(t)' = Writing(t) /\ Announced(t)' = Announced(t)
        /\ \A t \in Tasks : Nowhere(t)' = Nowhere(t) /\ Queued(t)' = Queued(t)
        /\ \A t \in Tasks : \A P : OnlyAt(t, P)' = OnlyAt(t, P)
    BY <2>1 DEF Writing, Announced, Nowhere, Queued, OnlyAt
  <2>3. \A t \in Tasks : OnStream(t)' = OnStream(t)
    BY <2>1, <2>2 DEF OnStream
  <2>4. LockInv'
    BY <1>0, <1>1 DEF vars, LockInv, Writing, At, Conn, Stream
  <2>5. StreamInv'
    <3>1. ASSUME NEW c \in DOMAIN conns', NEW s \in Classes
          PROVE  LET w == conns'[c].wire[s] IN
                 /\ Paired(w)
                 /\ ~conns'[c].open => w = <<>>
                 /\ Len(w) % 2 = 1 =>
                      \E t \in Tasks : At(t, "body")' /\ call'[t].conn = c /\ Stream(t)' = s
      <4>1. /\ Paired(conns[c].wire[s])
            /\ ~conns[c].open => conns[c].wire[s] = <<>>
            /\ Len(conns[c].wire[s]) % 2 = 1 =>
                 \E t \in Tasks : At(t, "body") /\ call[t].conn = c /\ Stream(t) = s
        BY <1>0, <2>1 DEF StreamInv
      <4> QED
        BY <2>1, <4>1
    <3>2. ASSUME NEW t \in Tasks, At(t, "body")', Conn(t)'.open
          PROVE  /\ Len(Conn(t)'.wire[Stream(t)']) % 2 = 1
                 /\ Conn(t)'.wire[Stream(t)'][Len(Conn(t)'.wire[Stream(t)'])] = Part(t, "head")'
      <4>1. At(t, "body") /\ Conn(t).open
        BY <2>1, <3>2
      <4>2. /\ Len(Conn(t).wire[Stream(t)]) % 2 = 1
            /\ Conn(t).wire[Stream(t)][Len(Conn(t).wire[Stream(t)])] = Part(t, "head")
        BY <1>0, <4>1 DEF StreamInv
      <4> QED
        BY <2>1, <4>2
    <3> QED
      BY <3>1, <3>2 DEF StreamInv
  <2>6. ArtifactInv'
    BY <1>0, <2>1, <2>2, <2>3 DEF ArtifactInv
  <2> QED
    BY <2>4, <2>5, <2>6
<1>2. ASSUME NEW t \in Tasks, NEW ref \in Refs, NEW kind \in Kinds, Begin(t, ref, kind)
      PROVE  LockInv' /\ StreamInv' /\ ArtifactInv'
  BY <1>0, <1>2, BeginQuiet, QuietArrives
<1>3. ASSUME NEW t \in Tasks, Step(t)
      PROVE  LockInv' /\ StreamInv' /\ ArtifactInv'
  BY <1>0, <1>3, TakeMapQuiet, DialQuiet, OpenQuiet, BackfillQuiet, QuietArrives,
     LockArrives, WriteArrives DEF Step
<1> QED
  BY <1>0, <1>1, <1>2, <1>3, ReadArrives, MoveArrives DEF Next

\* What the invariant says of an announced artifact, in numbers.
LEMMA ArrivesOnce == ArrivalInv => AnnouncedArrives
<1> SUFFICES ASSUME ArrivalInv, NEW t \in Tasks, At(t, "idle"), call[t].last = "ok",
                    call[t].kind # "sync", Conn(t).open
             PROVE  LET w  == Conn(t).wire[Stream(t)]
                        in == inbound[Conn(t).key]
                        of == Part(t, "head").of
                    IN /\ [url |-> Conn(t).url, key |-> Conn(t).key] \in Refs
                       /\ Cardinality({i \in DOMAIN in : in[i] = of})
                          + Cardinality({i \in DOMAIN w : /\ i % 2 = 1 /\ i < Len(w) /\ w[i].of = of
                                                          /\ w[i + 1].of = of}) = 1
  BY DEF AnnouncedArrives
<1>0. PICK c, w, k, in, of : /\ c = call[t].conn /\ w = Conn(t).wire[Stream(t)] /\ k = Conn(t).key
                             /\ in = inbound[k] /\ of = Current(t)
  OBVIOUS
<1>1. /\ c \in DOMAIN conns /\ Stream(t) \in Classes /\ Stream(t) = call[t].kind
      /\ (Queued(t) /\ OnlyAt(t, {})) \/ (Nowhere(t) /\ OnStream(t))
      /\ Conn(t) = conns[c]
  BY <1>0 DEF ArrivalInv, ArtifactInv, Announced, Stream, Conn
<1>2. [url |-> Conn(t).url, key |-> Conn(t).key] \in Refs
  BY <1>1 DEF ArrivalInv, ArtifactInv
<1>3. Part(t, "head").of = of
  BY <1>0 DEF Part, Current
<1>4. w \in Seq(Frame) /\ k \in Keys /\ Len(w) \in Nat /\ DOMAIN w = 1 .. Len(w)
  <2>1. w \in Seq(Frame) /\ k \in Keys
    BY <1>0, <1>1, Typed DEF ArrivalInv, MapInv
  <2> QED
    BY <2>1
<1> DEFINE I == {i \in DOMAIN in : in[i] = of}
           W == {i \in DOMAIN w : /\ i % 2 = 1 /\ i < Len(w) /\ w[i].of = of
                                  /\ w[i + 1].of = of}
<1>5. CASE Queued(t) /\ OnlyAt(t, {})
  <2>1. \E i : I = {i}
    <3>1. PICK i \in DOMAIN in : in[i] = of /\ \A j \in DOMAIN in : in[j] = of => j = i
      BY <1>0, <1>5 DEF Queued
    <3>2. I = {i}
      BY <3>1
    <3> QED
      BY <3>2
  <2>2. W = {}
    <3>1. \A i \in DOMAIN w : w[i].of # of
      BY <1>0, <1>1, <1>5 DEF OnlyAt
    <3> QED
      BY <3>1
  <2>3. Cardinality(I) = 1 /\ Cardinality(W) = 0
    <3> HIDE DEF I, W
    <3> QED
      BY <2>1, <2>2, FS_Singleton, FS_EmptySet
  <2> HIDE DEF I, W
  <2>4. Cardinality(I) + Cardinality(W) = 1
    BY <2>3
  <2> QED
    BY <1>0, <1>2, <1>3, <2>4 DEF I, W
<1>6. CASE Nowhere(t) /\ OnStream(t)
  <2>1. I = {}
    BY <1>0, <1>4, <1>6 DEF Nowhere
  <2>2. \E i : W = {i}
    <3>1. PICK i \in DOMAIN w : /\ i % 2 = 1 /\ i + 1 \in DOMAIN w
                                /\ w[i].of = of /\ w[i + 1].of = of /\ OnlyAt(t, {i, i + 1})
      BY <1>0, <1>6 DEF OnStream
    <3>2. i \in W
      BY <1>4, <3>1
    <3>3. ASSUME NEW j \in W PROVE j = i
      <4>1. j \in {i, i + 1}
        <5>1. j \in DOMAIN conns[c].wire[Stream(t)] /\ conns[c].wire[Stream(t)][j].of = Current(t)
          BY <1>0, <1>1
        <5> QED
          BY <1>1, <3>1, <5>1 DEF OnlyAt
      <4>2. j % 2 = 1 /\ j \in Nat /\ i \in Nat
        BY <1>4
      <4> QED
        BY <3>1, <4>1, <4>2
    <3> HIDE DEF W
    <3>4. W = {i}
      BY <3>2, <3>3
    <3> QED
      BY <3>4
  <2>3. Cardinality(I) = 0 /\ Cardinality(W) = 1
    <3> HIDE DEF I, W
    <3> QED
      BY <2>1, <2>2, FS_Singleton, FS_EmptySet
  <2> HIDE DEF I, W
  <2>4. Cardinality(I) + Cardinality(W) = 1
    BY <2>3
  <2> QED
    BY <1>0, <1>2, <1>3, <2>4 DEF I, W
<1> QED
  BY <1>1, <1>5, <1>6

\* announce: for any number of concurrent calls, peers and moves of hosts, what
\* answered Ok is with the peer once, or whole on its stream, while they are
\* connected.
THEOREM AnnouncedOnce == Spec => []AnnouncedArrives
<1>1. Init => ArrivalInv
  BY InitMap, InitArrives DEF ArrivalInv
<1> QED
  BY <1>1, StepArrives, ArrivesOnce, PTL DEF Spec
=============================================================================
