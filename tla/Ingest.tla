------------------------------- MODULE Ingest -------------------------------
(***************************************************************************)
(* The ingest pipeline of rucelium-ingest: a registry of provisioned       *)
(* devices, one anti-replay window per device, and the eight checks every  *)
(* signed envelope passes in order.  Firmware hashes and the reading       *)
(* itself are abstracted; the counters of IngestStats are abstracted to    *)
(* the last outcome, which is the counter the call increments.             *)
(***************************************************************************)
EXTENDS ReplayWindow, FiniteSets

CONSTANTS Nodes,        \* device identities
          Keys,         \* ed25519 key pairs
          MaxSeq        \* largest sequence number (u32::MAX in the code)

ASSUME IngestAssumption == MaxSeq \in Nat

VARIABLES registry,     \* node -> the key it was provisioned with, if any
          revoked,      \* the registered nodes whose record is revoked
          windows,      \* node -> its anti-replay window
          outcome,      \* result of the last ingest or reverify_stored call
          genuine,      \* history: node -> sequences seen in authentic envelopes
          consumed,     \* history: node -> sequences a window has let through
          delivered     \* history: node -> sequence -> times ingest returned it

ivars == <<registry, revoked, windows, outcome, genuine, consumed, delivered>>

NoKey == "no key"

Seqs == 0 .. MaxSeq

Rejections == {"BadEnvelope", "BadPayload", "UnknownDevice", "RevokedDevice",
               "KeyMismatch", "BadSignature", "Replay", "TooOld", "Domain"}

Outcomes == Rejections \cup {"None", "Accepted", "Restored"}

(***************************************************************************)
(* An envelope as the checks see it.  `signer` is the key that made the    *)
(* signature, so the signature verifies iff it is the embedded key.        *)
(* `early` says the device's clock is ahead of the gateway's, the only way *)
(* a payload that parse_validated accepts fails EnvSample::validate.       *)
(***************************************************************************)
Envelope == [decodes : BOOLEAN, valid : BOOLEAN, node : Nodes, seq : Seqs,
             key : Keys, signer : Keys, early : BOOLEAN]

\* IngestPipeline::verify_envelope, checks (1) to (6).
Verify(e) ==
  CASE ~e.decodes                  -> "BadEnvelope"
    [] e.decodes /\ ~e.valid       -> "BadPayload"
    [] OTHER ->
         IF registry[e.node] = NoKey THEN "UnknownDevice"
         ELSE IF e.node \in revoked THEN "RevokedDevice"
         ELSE IF e.key # registry[e.node] THEN "KeyMismatch"
         ELSE IF e.signer # e.key THEN "BadSignature"
         ELSE "Ok"

TypeOK ==
  /\ registry \in [Nodes -> Keys \cup {NoKey}]
  /\ revoked \in SUBSET Nodes
  /\ windows \in [Nodes -> Window]
  /\ outcome \in Outcomes
  /\ genuine \in [Nodes -> SUBSET Seqs]
  /\ consumed \in [Nodes -> SUBSET Seqs]
  /\ delivered \in [Nodes -> [Seqs -> Nat]]

Init ==
  /\ registry = [n \in Nodes |-> NoKey]
  /\ revoked = {}
  /\ windows = [n \in Nodes |-> FreshWindow]
  /\ outcome = "None"
  /\ genuine = [n \in Nodes |-> {}]
  /\ consumed = [n \in Nodes |-> {}]
  /\ delivered = [n \in Nodes |-> [s \in Seqs |-> 0]]

\* DeviceRegistry::register: a new ceremony replaces the record and clears a
\* revocation; the device's window is not reset.
Register(n, k) ==
  /\ registry' = [registry EXCEPT ![n] = k]
  /\ revoked' = revoked \ {n}
  /\ UNCHANGED <<windows, outcome, genuine, consumed, delivered>>

\* DeviceRegistry::revoke: only a registered device has a record to mark.
Revoke(n) ==
  /\ registry[n] # NoKey
  /\ revoked' = revoked \cup {n}
  /\ UNCHANGED <<registry, windows, outcome, genuine, consumed, delivered>>

\* Fault: the window is consulted before the signature, so a forged envelope
\* that names the right key moves it.
RejectEnvelope_WindowFirst(e) ==
  /\ Verify(e) # "Ok"
  /\ outcome' = Verify(e)
  /\ windows' = IF Verify(e) = "BadSignature"
                THEN [windows EXCEPT ![e.node] = Update(@, e.seq)] ELSE windows
  /\ UNCHANGED <<registry, revoked, genuine, consumed, delivered>>

\* Checks (1) to (6) fail: nothing but the counter changes.
RejectEnvelope(e) ==
  /\ Verify(e) # "Ok"
  /\ outcome' = Verify(e)
  /\ UNCHANGED <<registry, revoked, windows, genuine, consumed, delivered>>

\* Check (7) fails on an authentic envelope.
RejectSequence(e) ==
  /\ Verify(e) = "Ok"
  /\ Check(windows[e.node], e.seq) # "Ok"
  /\ outcome' = Check(windows[e.node], e.seq)
  /\ genuine' = [genuine EXCEPT ![e.node] = @ \cup {e.seq}]
  /\ UNCHANGED <<registry, revoked, windows, consumed, delivered>>

\* Check (7) passes and the window has consumed the sequence number; check
\* (8) then decides whether a sample comes out.
PassWindow(e) ==
  /\ Verify(e) = "Ok"
  /\ Check(windows[e.node], e.seq) = "Ok"
  /\ windows' = [windows EXCEPT ![e.node] = Update(@, e.seq)]
  /\ genuine' = [genuine EXCEPT ![e.node] = @ \cup {e.seq}]
  /\ consumed' = [consumed EXCEPT ![e.node] = @ \cup {e.seq}]
  /\ \/ /\ e.early
        /\ outcome' = "Domain"
        /\ UNCHANGED delivered
     \/ /\ ~e.early
        /\ outcome' = "Accepted"
        /\ delivered' = [delivered EXCEPT ![e.node][e.seq] = @ + 1]
  /\ UNCHANGED <<registry, revoked>>

\* IngestPipeline::ingest
IngestEnvelope(e) == RejectEnvelope(e) \/ RejectSequence(e) \/ PassWindow(e)

\* IngestPipeline::reverify_stored: every check but the window's.
ReverifyStored(e) ==
  /\ outcome' = IF Verify(e) # "Ok" THEN Verify(e)
                ELSE IF e.early THEN "Domain" ELSE "Restored"
  /\ UNCHANGED <<registry, revoked, windows, genuine, consumed, delivered>>

Next ==
  \/ \E n \in Nodes, k \in Keys : Register(n, k)
  \/ \E n \in Nodes : Revoke(n)
  \/ \E e \in Envelope : IngestEnvelope(e)
  \/ \E e \in Envelope : ReverifyStored(e)

Spec == Init /\ [][Next]_ivars

-----------------------------------------------------------------------------

\* Each window is an exact record of the sequence numbers it let through, at
\* every width and after any order of arrival (ReplayWindow::check_and_update
\* shifts and sets bits; one off-by-one and a number is forgotten or invented).
WindowExact == \A n \in Nodes : Remembers(windows[n], consumed[n])

\* "Accepts each sequence exactly once": ingest never hands out two samples
\* with the same (node, sequence), whatever the order of arrival and however
\* often the device is revoked or provisioned anew in between.
AtMostOnce == \A n \in Nodes, s \in Seqs : delivered[n][s] <= 1

\* "Forged packets cannot burn sequence numbers for a genuine device": a
\* number that no authentic envelope ever carried is never refused as a
\* replay, and is too old only if the device itself has moved W or more on.
NothingBurnt ==
  \A n \in Nodes : \A s \in Seqs \ genuine[n] :
    /\ Check(windows[n], s) # "Replay"
    /\ Check(windows[n], s) = "TooOld" => \E t \in genuine[n] : t >= s + W

\* The inductive strengthening of the three: a sample is handed out only for
\* a number its window has just let through, and a window lets through only
\* numbers that authentic envelopes carried.
IngestInv ==
  /\ TypeOK
  /\ WindowExact
  /\ \A n \in Nodes :
       /\ consumed[n] \subseteq genuine[n]
       /\ \A s \in Seqs : delivered[n][s] <= IF s \in consumed[n] THEN 1 ELSE 0
=============================================================================
