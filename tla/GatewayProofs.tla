---------------------------- MODULE GatewayProofs ----------------------------
(***************************************************************************)
(* For every set of nodes, every largest sequence number, every window     *)
(* width and any number of failures and restarts: the windows of a serving *)
(* gateway are an exact memory of its disk and its life, and no sample is  *)
(* Accepted twice.                                                         *)
(***************************************************************************)
EXTENDS Gateway, ReplayWindowProofs

LEMMA SeqsAreNaturals == Seqs \subseteq Nat
  BY GatewayAssumption DEF Seqs

LEMMA KnownSeqs == \A n \in Nodes : Known(n) \in SUBSET Seqs
  BY DEF Known

\* A sequence number that passes a window is in neither of the sets the
\* window remembers, and the window then remembers it as well.
LEMMA PassRemembers ==
  ASSUME GatewayInv, up, pc = "idle",
         NEW n \in Nodes, NEW s \in Seqs, PassWindow(n, s)
  PROVE  /\ s \notin Known(n) /\ s \notin passed[n]
         /\ windows' \in [Nodes -> Window]
         /\ passed' \in [Nodes -> SUBSET Seqs]
         /\ s \in passed'[n]
         /\ \A m \in Nodes : passed[m] \subseteq passed'[m]
         /\ \A m \in Nodes : Remembers(windows'[m], Known(m) \cup passed'[m])
<1> DEFINE w == windows[n]
           S == Known(n) \cup passed[n]
<1>1. /\ w \in Window /\ windows \in [Nodes -> Window]
      /\ passed \in [Nodes -> SUBSET Seqs] /\ passed[n] \in SUBSET Seqs
  BY DEF GatewayInv, TypeOK
<1>2. S \in SUBSET Nat /\ s \in Nat
  BY <1>1, KnownSeqs, SeqsAreNaturals
<1>3. \A m \in Nodes : Remembers(windows[m], Known(m) \cup passed[m])
  BY DEF GatewayInv, WindowIsMemory
<1>4. Check(w, s) = "Ok"
  BY DEF PassWindow
<1>5. /\ s \notin S
      /\ Update(w, s) \in Window
      /\ Remembers(Update(w, s), S \cup {s})
  BY <1>1, <1>2, <1>3, <1>4, UpdateRemembers
<1>6. /\ windows' = [windows EXCEPT ![n] = Update(w, s)]
      /\ passed' = [passed EXCEPT ![n] = passed[n] \cup {s}]
  BY DEF PassWindow
<1>7. /\ windows' \in [Nodes -> Window]
      /\ passed' \in [Nodes -> SUBSET Seqs]
      /\ s \in passed'[n]
      /\ \A m \in Nodes : passed[m] \subseteq passed'[m]
  BY <1>1, <1>5, <1>6
<1>8. ASSUME NEW m \in Nodes
      PROVE  Remembers(windows'[m], Known(m) \cup passed'[m])
  <2>1. CASE m = n
    <3>1. windows'[m] = Update(w, s) /\ Known(m) \cup passed'[m] = S \cup {s}
      BY <1>1, <1>6, <2>1
    <3>2. QED BY <3>1, <1>5
  <2>2. CASE m # n
    <3>1. windows'[m] = windows[m] /\ passed'[m] = passed[m]
      BY <1>1, <1>6, <2>2
    <3>2. QED BY <3>1, <1>3
  <2>3. QED BY <2>1, <2>2
<1>9. QED BY <1>5, <1>7, <1>8

\* Inserting the smallest key that is left extends what a window remembers.
LEMMA PrimeRemembers ==
  ASSUME NEW w \in Window, NEW S \in SUBSET Nat, NEW s \in Nat,
         Remembers(w, S), \A t \in S : t < s
  PROVE  Update(w, s) \in Window /\ Remembers(Update(w, s), S \cup {s})
<1>1. Check(w, s) = "Ok"
  <2>1. w.highest = NoSeq \/ w.highest \in S
    BY DEF Remembers
  <2>2. QED BY <2>1 DEF Check
<1>2. QED BY <1>1, UpdateRemembers

-----------------------------------------------------------------------------

LEMMA InitInv == Init => GatewayInv
<1> SUFFICES ASSUME Init PROVE GatewayInv
  OBVIOUS
<1> USE GatewayAssumption
<1>1. TypeOK
  BY FreshRemembers DEF Init, TypeOK, Nothing
<1>2. WindowIsMemory
  <2>1. \A n \in Nodes : Known(n) \cup passed[n] = {}
    BY DEF Init, Known
  <2>2. QED BY <2>1, FreshRemembers DEF Init, WindowIsMemory
<1>3. StoreSeesNewKeys /\ AcceptedOnce /\ EvidenceStored
  BY DEF Init, StoreSeesNewKeys, AcceptedOnce, EvidenceStored
<1>4. QED BY <1>1, <1>2, <1>3 DEF GatewayInv, Init

\* Handlers on a serving gateway that let nothing through a window.
LEMMA QuietStep ==
  ASSUME GatewayInv, TypeOK',
         UNCHANGED <<up, windows, passed, accepted, known>>,
         alerts' \subseteq known, admitted' \subseteq known,
         ~up => pc' = "idle",
         \/ pc' = pc /\ UNCHANGED <<current, todo>>
         \/ pc # "prime" /\ pc' = "idle"
         \/ pc # "prime" /\ pc' = "revoke" /\ current' \in {<<n>> : n \in Nodes}
         \/ pc = "alert" /\ pc' = "admit" /\ current' = current
  PROVE  GatewayInv'
<1>1. WindowIsMemory'
  <2>1. \A n \in Nodes : Known(n)' = Known(n)
    BY DEF Known
  <2>2. QED BY <2>1 DEF GatewayInv, WindowIsMemory
<1>2. StoreSeesNewKeys' /\ AcceptedOnce' /\ EvidenceStored'
  BY DEF GatewayInv, StoreSeesNewKeys, AcceptedOnce, EvidenceStored
<1>3. up' /\ pc' = "prime" => \A n \in Nodes :
        /\ passed'[n] = {} /\ todo'[n] \subseteq Known(n)'
        /\ Remembers(windows'[n], Known(n)' \ todo'[n])
        /\ \A s \in Known(n)' \ todo'[n], t \in todo'[n] : s < t
  <2>1. \A n \in Nodes : Known(n)' = Known(n)
    BY DEF Known
  <2>2. QED BY <2>1 DEF GatewayInv
<1>4. QED BY <1>1, <1>2, <1>3 DEF GatewayInv

LEMMA AcceptInv ==
  ASSUME GatewayInv, NEW n \in Nodes, NEW s \in Seqs, RejectDomain(n, s) \/ Accept(n, s)
  PROVE  GatewayInv'
<1>1. /\ PassWindow(n, s) /\ up /\ pc = "idle" /\ up' = up
      /\ \/ pc' = "idle" /\ current' = current
         \/ pc' = "append" /\ current' = <<n, s>>
      /\ UNCHANGED <<registered, revoked, todo, biomeRevoked, admitted, disk, accepted, faults>>
  BY DEF RejectDomain, Accept, PassWindow
<1>2. /\ s \notin Known(n) /\ s \notin passed[n]
      /\ windows' \in [Nodes -> Window]
      /\ passed' \in [Nodes -> SUBSET Seqs]
      /\ s \in passed'[n]
      /\ \A m \in Nodes : Remembers(windows'[m], Known(m) \cup passed'[m])
  BY <1>1, PassRemembers
<1>3. <<n, s>> \in Samples /\ <<n, s>> \notin known
  BY <1>2 DEF Samples, Known
<1>4. TypeOK'
  BY <1>1, <1>2, <1>3 DEF GatewayInv, TypeOK, disk
<1>5. \A m \in Nodes : Known(m)' = Known(m)
  BY <1>1 DEF Known, disk
<1>6. WindowIsMemory'
  BY <1>2, <1>5 DEF WindowIsMemory
<1>7. AcceptedOnce' /\ EvidenceStored'
  BY <1>1 DEF GatewayInv, AcceptedOnce, EvidenceStored, disk
<1>8. StoreSeesNewKeys'
  BY <1>1, <1>3 DEF StoreSeesNewKeys, disk
<1>9. pc' = "append" => /\ current' \in Samples
                        /\ current'[2] \in passed'[current'[1]]
                        /\ accepted'[current'] = 0
  <2>1. accepted[<<n, s>>] \in Nat /\ ~(accepted[<<n, s>>] > 0)
    BY <1>3 DEF GatewayInv, TypeOK, EvidenceStored
  <2>2. QED BY <2>1, <1>1, <1>2, <1>3
<1>10. QED BY <1>1, <1>4, <1>6, <1>7, <1>8, <1>9 DEF GatewayInv

\* The key reaches the disk: its window already remembers it.
LEMMA StoreInv ==
  ASSUME GatewayInv, pc = "append", TypeOK',
         known' = known \cup {current},
         UNCHANGED <<up, windows, passed, accepted, alerts, admitted>>,
         (pc' = "alert" /\ current' = current) \/ pc' = "idle"
  PROVE  GatewayInv'
<1>1. /\ up /\ current \in Samples /\ current[2] \in passed[current[1]]
      /\ accepted[current] = 0
  BY DEF GatewayInv
<1>2. current = <<current[1], current[2]>> /\ current[1] \in Nodes /\ current[2] \in Seqs
  BY <1>1 DEF Samples
<1>3. \A n \in Nodes : Known(n)' \cup passed[n] = Known(n) \cup passed[n]
  BY <1>1, <1>2 DEF Known
<1>4. WindowIsMemory'
  BY <1>3 DEF GatewayInv, WindowIsMemory
<1>5. AcceptedOnce' /\ EvidenceStored' /\ StoreSeesNewKeys'
  BY DEF GatewayInv, AcceptedOnce, EvidenceStored, StoreSeesNewKeys
<1>6. QED BY <1>1, <1>4, <1>5 DEF GatewayInv

\* Dying leaves the disk, with or without the write in progress.
LEMMA DownInv ==
  ASSUME GatewayInv, TypeOK', ~up', pc' = "idle",
         windows' = [n \in Nodes |-> FreshWindow],
         known \subseteq known', alerts' \subseteq known', admitted' = {},
         UNCHANGED accepted
  PROVE  GatewayInv'
<1>1. EvidenceStored' /\ AcceptedOnce'
  BY DEF GatewayInv, EvidenceStored, AcceptedOnce
<1>2. WindowIsMemory' /\ StoreSeesNewKeys'
  BY DEF WindowIsMemory, StoreSeesNewKeys
<1>3. QED BY <1>1, <1>2 DEF GatewayInv

LEMMA RestartInv ==
  ASSUME GatewayInv, Restart
  PROVE  GatewayInv'
<1>1. /\ ~up /\ up' /\ pc' = "prime"
      /\ todo' = [n \in Nodes |-> Known(n)]
      /\ passed' = [n \in Nodes |-> {}]
      /\ windows' = windows /\ windows = [n \in Nodes |-> FreshWindow]
      /\ UNCHANGED <<registered, revoked, biomeRevoked, admitted, current, disk, accepted,
                     faults>>
  BY DEF Restart, GatewayInv
<1>2. TypeOK'
  BY <1>1, KnownSeqs DEF GatewayInv, TypeOK, disk
<1>3. \A n \in Nodes : Known(n)' = Known(n)
  BY <1>1 DEF Known, disk
<1>4. ASSUME NEW n \in Nodes
      PROVE  /\ passed'[n] = {} /\ todo'[n] = Known(n)' /\ Known(n)' \ todo'[n] = {}
             /\ Remembers(windows'[n], Known(n)' \ todo'[n])
  BY <1>1, <1>3, FreshRemembers
<1>5. EvidenceStored' /\ AcceptedOnce' /\ WindowIsMemory' /\ StoreSeesNewKeys'
  BY <1>1 DEF GatewayInv, EvidenceStored, AcceptedOnce, WindowIsMemory, StoreSeesNewKeys, disk
<1>6. QED BY <1>1, <1>2, <1>4, <1>5 DEF GatewayInv

LEMMA PrimeInv ==
  ASSUME GatewayInv, NEW n \in Nodes, Prime(n)
  PROVE  GatewayInv'
<1>1. up /\ pc = "prime"
  BY DEF Prime, GatewayInv
<1>2. PICK s \in todo[n] :
        /\ \A t \in todo[n] : s <= t
        /\ windows' = [windows EXCEPT ![n] = Update(windows[n], s)]
        /\ todo' = [todo EXCEPT ![n] = todo[n] \ {s}]
  BY DEF Prime
<1>3. UNCHANGED <<up, registered, revoked, biomeRevoked, admitted, pc, current, disk,
                  passed, accepted, faults>>
  BY DEF Prime
<1>4. /\ windows \in [Nodes -> Window] /\ windows[n] \in Window
      /\ todo \in [Nodes -> SUBSET Seqs] /\ todo[n] \subseteq Nat /\ s \in Nat
      /\ Known(n) \ todo[n] \in SUBSET Nat
      /\ todo[n] \subseteq Known(n)
  BY <1>1, SeqsAreNaturals, KnownSeqs DEF GatewayInv, TypeOK
<1>5. /\ Remembers(windows[n], Known(n) \ todo[n])
      /\ \A r \in Known(n) \ todo[n], t \in todo[n] : r < t
  BY <1>1 DEF GatewayInv
<1>51. \A m \in Nodes : passed[m] = {} /\ passed'[m] = {}
  BY <1>1, <1>3 DEF GatewayInv
<1>6. /\ Update(windows[n], s) \in Window
      /\ Remembers(Update(windows[n], s), (Known(n) \ todo[n]) \cup {s})
  BY <1>4, <1>5, PrimeRemembers
<1>7. \A m \in Nodes : Known(m)' = Known(m)
  BY <1>3 DEF Known, disk
<1>8. TypeOK'
  BY <1>2, <1>3, <1>4, <1>6 DEF GatewayInv, TypeOK, disk
<1>9. ASSUME NEW m \in Nodes
      PROVE  /\ passed'[m] = {} /\ todo'[m] \subseteq Known(m)'
             /\ Remembers(windows'[m], Known(m)' \ todo'[m])
             /\ \A r \in Known(m)' \ todo'[m], t \in todo'[m] : r < t
  <2>1. CASE m = n
    <3>1. todo'[m] = todo[n] \ {s} /\ windows'[m] = Update(windows[n], s)
      BY <1>2, <1>4, <2>1
    <3>2. Known(m)' \ todo'[m] = (Known(n) \ todo[n]) \cup {s}
      BY <3>1, <1>4, <1>7, <2>1
    <3>3. \A t \in todo'[m] : t \in Nat /\ s < t
      BY <3>1, <1>2, <1>4
    <3>4. \A r \in Known(m)' \ todo'[m], t \in todo'[m] : r < t
      BY <3>1, <3>2, <3>3, <1>5
    <3>5. passed'[m] = {} /\ todo'[m] \subseteq Known(m)'
      BY <3>1, <1>51, <1>4, <1>7, <2>1
    <3>6. QED BY <3>1, <3>2, <3>4, <3>5, <1>6
  <2>2. CASE m # n
    <3>1. todo'[m] = todo[m] /\ windows'[m] = windows[m]
      BY <1>2, <1>4, <2>2
    <3>2. QED BY <3>1, <1>1, <1>3, <1>7, SMTT(60) DEF GatewayInv
  <2>3. QED BY <2>1, <2>2
<1>10. EvidenceStored' /\ AcceptedOnce' /\ WindowIsMemory' /\ StoreSeesNewKeys'
  BY <1>1, <1>3 DEF GatewayInv, EvidenceStored, AcceptedOnce, WindowIsMemory,
                    StoreSeesNewKeys, disk
<1>11. QED BY <1>1, <1>3, <1>8, <1>9, <1>10 DEF GatewayInv

LEMMA PrimedInv ==
  ASSUME GatewayInv, Primed
  PROVE  GatewayInv'
<1>1. /\ up /\ pc = "prime" /\ pc' = "idle"
      /\ \A n \in Nodes : todo[n] = {}
      /\ UNCHANGED <<up, registered, revoked, windows, todo, biomeRevoked, admitted, current,
                     disk, passed, accepted, faults>>
  BY DEF Primed, GatewayInv
<1>2. TypeOK'
  BY <1>1 DEF GatewayInv, TypeOK, disk
<1>3. ASSUME NEW n \in Nodes
      PROVE  Remembers(windows'[n], Known(n)' \cup passed'[n])
  <2>1. passed[n] = {} /\ Remembers(windows[n], Known(n) \ todo[n]) /\ todo[n] = {}
    BY <1>1 DEF GatewayInv
  <2>2. Known(n)' \cup passed'[n] = Known(n) \ todo[n]
    BY <2>1, <1>1 DEF Known, disk
  <2>3. QED BY <2>1, <2>2, <1>1
<1>4. EvidenceStored' /\ AcceptedOnce' /\ StoreSeesNewKeys'
  BY <1>1 DEF GatewayInv, EvidenceStored, AcceptedOnce, StoreSeesNewKeys, disk
<1>5. WindowIsMemory'
  BY <1>3 DEF WindowIsMemory
<1>6. QED BY <1>1, <1>2, <1>4, <1>5 DEF GatewayInv

LEMMA AdmitInv ==
  ASSUME GatewayInv, Admit
  PROVE  GatewayInv'
<1>1. /\ up /\ current \in Samples /\ accepted[current] = 0 /\ current \in known
      /\ pc = "admit" /\ pc' = "idle" /\ current' = Nothing
      /\ admitted' \subseteq admitted \cup {current}
      /\ accepted' = [accepted EXCEPT ![current] = accepted[current] + 1]
      /\ UNCHANGED <<up, registered, revoked, windows, todo, biomeRevoked, disk, passed, faults>>
  BY DEF Admit, GatewayInv
<1>2. TypeOK'
  BY <1>1 DEF GatewayInv, TypeOK, disk
<1>3. \A k \in Samples : accepted'[k] = IF k = current THEN 1 ELSE accepted[k]
  BY <1>1 DEF GatewayInv, TypeOK
<1>4. AcceptedOnce' /\ EvidenceStored'
  BY <1>1, <1>3 DEF GatewayInv, AcceptedOnce, EvidenceStored, disk
<1>5. \A n \in Nodes : Known(n)' = Known(n)
  BY <1>1 DEF Known, disk
<1>6. WindowIsMemory' /\ StoreSeesNewKeys'
  BY <1>1, <1>5 DEF GatewayInv, WindowIsMemory, StoreSeesNewKeys
<1>7. QED BY <1>1, <1>2, <1>4, <1>6 DEF GatewayInv

\* A failure stays within the bound of its kind.
LEMMA FailBounded ==
  ASSUME TypeOK, NEW kind \in Fault, Fail(kind)
  PROVE  faults' \in [Fault -> Nat] /\ \A k \in Fault : faults'[k] <= MaxFaults[k]
<1>1. faults \in [Fault -> Nat] /\ faults' = [faults EXCEPT ![kind] = @ + 1]
  BY DEF TypeOK, Fail
<1>2. MaxFaults \in [Fault -> Nat] /\ \A k \in Fault : faults[k] <= MaxFaults[k]
  BY GatewayAssumption DEF TypeOK
<1>3. faults[kind] < MaxFaults[kind]
  BY DEF Fail
<1>4. faults[kind] \in Nat /\ MaxFaults[kind] \in Nat
  BY <1>1, <1>2
<1>5. faults' \in [Fault -> Nat]
  BY <1>1, <1>4
<1>6. ASSUME NEW k \in Fault PROVE faults'[k] <= MaxFaults[k]
  <2>1. CASE k = kind
    BY <2>1, <1>1, <1>3, <1>4
  <2>2. CASE k # kind
    BY <2>2, <1>1, <1>2
  <2> QED
    BY <2>1, <2>2
<1> QED
  BY <1>5, <1>6

-----------------------------------------------------------------------------

LEMMA NextInv == GatewayInv /\ [Next]_gvars => GatewayInv'
<1> SUFFICES ASSUME GatewayInv, [Next]_gvars PROVE GatewayInv'
  OBVIOUS
<1> USE GatewayAssumption
<1>0. TypeOK /\ EvidenceStored /\ (~up => pc = "idle")
  BY DEF GatewayInv
<1>1. CASE UNCHANGED gvars
  <2>1. TypeOK'
    BY <1>0, <1>1 DEF TypeOK, gvars, memory, disk
  <2>2. QED BY <2>1, <1>0, <1>1, QuietStep DEF EvidenceStored, gvars, memory, disk
<1>2. ASSUME NEW n \in Nodes, Register(n) PROVE GatewayInv'
  <2>1. TypeOK'
    BY <1>0, <1>2 DEF TypeOK, Register, disk
  <2>2. QED BY <2>1, <1>0, <1>2, QuietStep DEF EvidenceStored, Register, disk
<1>3. ASSUME NEW n \in Nodes, AdminRevoke(n) PROVE GatewayInv'
  <2>1. TypeOK'
    BY <1>0, <1>3 DEF TypeOK, AdminRevoke, disk
  <2>2. QED BY <2>1, <1>0, <1>3, QuietStep DEF EvidenceStored, AdminRevoke, disk
<1>4. ASSUME AppendRevocation \/ AppendRevocationFails PROVE GatewayInv'
  <2>1. pc = "revoke" /\ current[1] \in Nodes
    BY <1>4 DEF AppendRevocation, AppendRevocationFails, GatewayInv
  <2>2. /\ revocations' \subseteq Nodes
        /\ faults' \in [Fault -> Nat] /\ \A k \in Fault : faults'[k] <= MaxFaults[k]
        /\ pc' = "idle" /\ current' = Nothing
        /\ UNCHANGED <<up, registered, revoked, windows, todo, biomeRevoked, admitted,
                       known, alerts, passed, accepted>>
    BY <1>0, <1>4, <2>1 DEF AppendRevocation, AppendRevocationFails, Fail, TypeOK
  <2>3. TypeOK'
    BY <1>0, <2>2 DEF TypeOK
  <2>4. QED BY <2>1, <2>2, <2>3, <1>0, QuietStep DEF EvidenceStored
<1>5. ASSUME NEW n \in Nodes, NEW s \in Seqs, RejectDomain(n, s) \/ Accept(n, s)
      PROVE  GatewayInv'
  BY <1>5, AcceptInv
<1>6. ASSUME AppendSample PROVE GatewayInv'
  <2>1. current \in Samples
    BY <1>6 DEF AppendSample, GatewayInv
  <2>2. TypeOK'
    BY <1>0, <1>6, <2>1 DEF TypeOK, AppendSample
  <2>3. QED BY <2>2, <1>6, StoreInv DEF AppendSample
<1>7. ASSUME AppendFails PROVE GatewayInv'
  <2>1. current \in Samples
    BY <1>7 DEF AppendFails, GatewayInv
  <2>2. TypeOK'
    BY <1>0, <1>7, <2>1, FailBounded DEF TypeOK, AppendFails, Fault
  <2>3. CASE known' = known
    BY <2>2, <2>3, <1>0, <1>7, QuietStep DEF EvidenceStored, AppendFails
  <2>4. CASE known' = known \cup {current}
    BY <2>2, <2>4, <1>7, StoreInv DEF AppendFails
  <2>5. QED BY <2>3, <2>4, <1>7 DEF AppendFails
<1>8. ASSUME RaiseAlert \/ AlertFails PROVE GatewayInv'
  <2>1. pc = "alert" /\ current \in Samples /\ current \in known
    BY <1>8 DEF RaiseAlert, AlertFails, GatewayInv
  <2>2. /\ alerts' \subseteq known /\ pc' = "admit" /\ alerts' \subseteq Samples
        /\ faults' \in [Fault -> Nat] /\ \A k \in Fault : faults'[k] <= MaxFaults[k]
        /\ UNCHANGED <<up, registered, revoked, windows, todo, biomeRevoked, admitted,
                       current, known, revocations, passed, accepted>>
    BY <1>0, <1>8, <2>1 DEF RaiseAlert, AlertFails, EvidenceStored, Fail, TypeOK
  <2>3. TypeOK'
    BY <1>0, <2>2 DEF TypeOK
  <2>4. QED BY <2>1, <2>2, <2>3, <1>0, QuietStep DEF EvidenceStored
<1>9. ASSUME Admit PROVE GatewayInv'
  BY <1>9, AdmitInv
<1>10. ASSUME Crash PROVE GatewayInv'
  <2>1. pc \in {"append", "alert"} => current \in Samples
    BY DEF GatewayInv
  <2>2. pc = "alert" => current \in known
    BY DEF GatewayInv
  <2>3. pc = "revoke" => current[1] \in Nodes
    BY DEF GatewayInv
  <2>4. /\ known \subseteq known' /\ known' \subseteq Samples
        /\ alerts' \subseteq known' /\ alerts' \subseteq Samples
        /\ revocations' \subseteq Nodes
    BY <1>0, <1>10, <2>1, <2>2, <2>3 DEF Crash, EvidenceStored, TypeOK
  <2>5. faults' \in [Fault -> Nat] /\ \A k \in Fault : faults'[k] <= MaxFaults[k]
    BY <1>0, <1>10, FailBounded DEF Crash, Fault
  <2>6. TypeOK'
    BY <1>0, <1>10, <2>4, <2>5, FreshRemembers DEF TypeOK, Crash, LoseMemory, Nothing
  <2>7. QED BY <2>4, <2>6, <1>10, DownInv DEF Crash, LoseMemory
<1>11. ASSUME Stop PROVE GatewayInv'
  <2>1. TypeOK'
    BY <1>0, <1>11, FreshRemembers DEF TypeOK, Stop, LoseMemory, Nothing, disk
  <2>2. QED BY <2>1, <1>0, <1>11, DownInv DEF Stop, LoseMemory, EvidenceStored, disk
<1>12. ASSUME Restart PROVE GatewayInv'
  BY <1>12, RestartInv
<1>13. ASSUME Primed PROVE GatewayInv'
  BY <1>13, PrimedInv
<1>14. ASSUME NEW n \in Nodes, Prime(n) PROVE GatewayInv'
  BY <1>14, PrimeInv
<1>15. ASSUME NEW n \in Nodes, NEW s \in Seqs, NEW a \in BOOLEAN, RejectDatagram(n, s, a)
       PROVE  GatewayInv'
  BY <1>15, <1>1 DEF RejectDatagram
<1>16. QED
  BY <1>1, <1>2, <1>3, <1>4, <1>5, <1>6, <1>7, <1>8, <1>9, <1>10, <1>11, <1>12, <1>13,
     <1>14, <1>15 DEF Next

-----------------------------------------------------------------------------

\* The invariant holds in every reachable state of the gateway.
THEOREM InvHolds == Spec => []GatewayInv
<1>1. QED BY InitInv, NextInv, PTL DEF Spec

\* The type invariant of the gateway.
THEOREM TypeCorrect == Spec => []TypeOK
<1>1. GatewayInv => TypeOK
  BY DEF GatewayInv
<1>2. QED BY <1>1, InvHolds, PTL

\* Replay memory: the windows a serving gateway consults are an exact record
\* of its durable dedup index and of this life, whatever failed before.
THEOREM WindowsSurviveRestart == Spec => []WindowIsMemory
<1>1. GatewayInv => WindowIsMemory
  BY DEF GatewayInv
<1>2. QED BY <1>1, InvHolds, PTL

\* No signed sample is Accepted twice over any number of restarts, crashes,
\* failed appends and re-provisionings.
THEOREM ReplaySafety == Spec => []AcceptedOnce
<1>1. GatewayInv => AcceptedOnce
  BY DEF GatewayInv
<1>2. QED BY <1>1, InvHolds, PTL

\* Alerts, biome admissions and acceptances all rest on stored samples, and
\* the store is never handed a key it knows.
THEOREM EvidenceFirst == Spec => [](EvidenceStored /\ StoreSeesNewKeys)
<1>1. GatewayInv => EvidenceStored /\ StoreSeesNewKeys
  BY DEF GatewayInv
<1>2. QED BY <1>1, InvHolds, PTL

-----------------------------------------------------------------------------
(* What is stored before a handler ends                                    *)

\* A step in which no append fails, and that neither stores, admits nor
\* revokes, takes nothing that PublishInv speaks of away.
LEMMA QuietPublish ==
  ASSUME PublishInv, faults'["ioerror"] = 0 => faults["ioerror"] = 0,
         UNCHANGED <<accepted, biomeRevoked>>, alerts \subseteq alerts',
         revocations \subseteq revocations',
         pc # "revoke", pc' # "admit", up' = up \/ up'
  PROVE  PublishInv'
  BY DEF PublishInv

LEMMA StepPublish == GatewayInv /\ PublishInv /\ [Next]_gvars => PublishInv'
<1> SUFFICES ASSUME GatewayInv, PublishInv, [Next]_gvars PROVE PublishInv'
  OBVIOUS
<1>0. /\ faults \in [Fault -> Nat] /\ accepted \in [Samples -> Nat]
      /\ "ioerror" \in Fault /\ "crash" \in Fault
  BY DEF GatewayInv, TypeOK, Fault
<1>1. CASE UNCHANGED gvars
  BY <1>1 DEF PublishInv, gvars, memory, disk
<1>2. CASE AppendRevocationFails \/ AppendFails \/ AlertFails
  <2>1. faults'["ioerror"] = faults["ioerror"] + 1 /\ faults["ioerror"] \in Nat
    BY <1>0, <1>2 DEF AppendRevocationFails, AppendFails, AlertFails, Fail
  <2> QED
    BY <2>1 DEF PublishInv
<1>3. ASSUME NEW n \in Nodes, NEW s \in Seqs, NEW a \in BOOLEAN, RejectDatagram(n, s, a)
      PROVE  PublishInv'
  BY <1>1, <1>3 DEF RejectDatagram
<1>4. ASSUME NEW n \in Nodes, NEW s \in Seqs, RejectDomain(n, s) \/ Accept(n, s)
      PROVE  PublishInv'
  BY <1>4, QuietPublish DEF RejectDomain, Accept, PassWindow, disk
<1>11. ASSUME NEW n \in Nodes, Register(n) \/ Prime(n) PROVE PublishInv'
  BY <1>11, QuietPublish DEF Register, Prime, disk
<1>5. CASE AppendSample \/ Restart \/ Primed
  BY <1>5, QuietPublish DEF AppendSample, Restart, Primed, GatewayInv, disk
<1>6. ASSUME NEW n \in Nodes, AdminRevoke(n) PROVE PublishInv'
  BY <1>6 DEF AdminRevoke, PublishInv, disk
<1>7. CASE AppendRevocation
  BY <1>7 DEF AppendRevocation, PublishInv, GatewayInv
<1>8. CASE RaiseAlert
  BY <1>8 DEF RaiseAlert, PublishInv, GatewayInv
<1>9. CASE Admit
  <2>1. /\ pc = "admit" /\ pc' = "idle" /\ current \in Samples
        /\ \A k \in Samples : accepted'[k] = IF k = current THEN accepted[k] + 1 ELSE accepted[k]
        /\ UNCHANGED <<up, biomeRevoked, alerts, revocations, faults>>
    BY <1>0, <1>9 DEF Admit, GatewayInv, disk
  <2> QED
    BY <2>1, GatewayAssumption DEF PublishInv
<1>10. CASE Crash \/ Stop
  <2>1. /\ biomeRevoked' = {} /\ pc' = "idle" /\ accepted' = accepted
        /\ alerts \subseteq alerts'
        /\ faults'["ioerror"] = faults["ioerror"]
    BY <1>0, <1>10 DEF Crash, Stop, LoseMemory, Fail, disk
  <2> QED
    BY <2>1 DEF PublishInv
<1> QED
  BY <1>1, <1>2, <1>3, <1>4, <1>5, <1>6, <1>7, <1>8, <1>9, <1>10, <1>11
  DEF Next

LEMMA PublishHolds == Spec => []PublishInv
<1>1. Init => PublishInv
  BY GatewayAssumption DEF Init, PublishInv
<1>2. QED BY <1>1, InvHolds, StepPublish, PTL DEF Spec

\* Without failing appends no flood is Accepted before its alert is stored,
\* whatever the biome thinks of the device.
THEOREM AlertBeforeAnswer == Spec => []AcceptedFloodsAlerted
<1>1. PublishInv => AcceptedFloodsAlerted
  BY DEF PublishInv, AcceptedFloodsAlerted
<1>2. QED BY <1>1, PublishHolds, PTL

\* Without failing appends every revocation that the biome acts on is where
\* peers and their backfills find it.
THEOREM RevocationsReachDisk == Spec => []RevocationPublished
<1>1. PublishInv => RevocationPublished
  BY DEF PublishInv, RevocationPublished
<1>2. QED BY <1>1, PublishHolds, PTL
=============================================================================
