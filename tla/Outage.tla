-------------------------------- MODULE Outage --------------------------------
(***************************************************************************)
(* Store-and-forward over an outage of the uplink: rucelium-federation's   *)
(* OutageBuffer and Biome behind the ingest pipeline, in the order the     *)
(* biome benchmark's gateway calls them.  A verified envelope goes to the  *)
(* biome while the uplink is up and, as signed bytes, into the buffer      *)
(* while it is down.  With the uplink back the buffer is serialised,       *)
(* restored and replayed through reverify_stored, twice from the same      *)
(* snapshot.  The snapshot lies at rest in between, where its envelopes    *)
(* may be altered.                                                         *)
(***************************************************************************)
EXTENDS Ingest, Sequences

ASSUME OutageAssumption == Nodes \subseteq Nat

VARIABLES offline,      \* was_offline: the last envelope came with the uplink down
          phase,        \* where the single-threaded loop stands
          rest,         \* what it has drained and not replayed yet
          buffer,       \* the OutageBuffer
          snapshot,     \* its JSON form while it lies at rest: a list of envelopes
          biome,        \* the Biome
          signed,       \* history: signatures of the devices, by the key each had then
          taken,        \* history: the keys ingest has handed out, in every life
          doubtful      \* history: buffered keys altered at rest or whose device changed

ovars == <<offline, phase, rest, buffer, snapshot, biome, signed, taken, doubtful>>

\* An envelope's dedup key.
KeyOf(e) == <<e.node, e.seq>>

\* e verifies under the key that its device is registered with now, which
\* nobody but that device holds.
Authentic(e) == e.signer = e.key /\ e.key = registry[e.node]

\* What such a signature stands for.
Signature(e) == <<e.node, e.key, e.seq>>

EmptyBuffer == [entries |-> <<>>, seen |-> {}]

OutageInit ==
  /\ Init
  /\ offline = FALSE /\ phase = "live" /\ rest = <<>>
  /\ buffer = EmptyBuffer /\ snapshot = <<>>
  /\ biome = [observations |-> <<>>, seen |-> {}, revoked |-> {}]
  /\ signed = {} /\ taken = {} /\ doubtful = {}

-----------------------------------------------------------------------------
(* The buffer and the biome                                                *)

\* OutageBuffer::push, of bytes that decode.
Push(b, e) ==
  IF KeyOf(e) \in b.seen THEN b
  ELSE [entries |-> [k \in DOMAIN b.entries \cup {KeyOf(e)} |->
                       IF k = KeyOf(e) THEN e ELSE b.entries[k]],
        seen    |-> b.seen \cup {KeyOf(e)}]

Before(c, d) == c[1] < d[1] \/ (c[1] = d[1] /\ c[2] < d[2])

\* o lists the keys in K in the order of the BTreeMap.
Lists(o, K) ==
  /\ \A i, j \in DOMAIN o : i < j => Before(o[i], o[j])
  /\ K = {o[i] : i \in DOMAIN o}

InOrder(K) == CHOOSE o \in [1 .. Cardinality(K) -> K] : Lists(o, K)

\* The entries in the order of their keys: drain, and the list of to_json.
Drain(b) ==
  LET keys == InOrder(DOMAIN b.entries)
  IN [i \in 1 .. Cardinality(DOMAIN b.entries) |-> b.entries[keys[i]]]

KeysOf(list) == {KeyOf(list[i]) : i \in DOMAIN list}

\* The last envelope of a key in a list.
LastOf(list, k) ==
  CHOOSE i \in DOMAIN list :
    KeyOf(list[i]) = k /\ \A j \in DOMAIN list : KeyOf(list[j]) = k => j <= i

\* from_json: the keys come from the envelopes, the last of a key wins.
FromJson(list, seen) ==
  [entries |-> [k \in KeysOf(list) |-> list[LastOf(list, k)]],
   seen    |-> seen \cup KeysOf(list)]

\* Fault: the index over live and replayed samples is not consulted.
Admit_Unindexed(b, e) ==
  IF e.node \in b.revoked THEN b
  ELSE [b EXCEPT !.observations = Append(@, e), !.seen = @ \cup {KeyOf(e)}]

\* Biome::accept
Admit(b, e) ==
  IF e.node \in b.revoked \/ KeyOf(e) \in b.seen THEN b
  ELSE [b EXCEPT !.observations = Append(@, e), !.seen = @ \cup {KeyOf(e)}]

-----------------------------------------------------------------------------
(* The gateway's loop                                                      *)

\* The device has made the signature that arrives.
Sign(e) == signed' = IF Authentic(e) THEN signed \cup {Signature(e)} ELSE signed

\* Fault: the envelope is buffered before it is verified.
Receive_PushFirst(e, down) ==
  /\ phase = "live" /\ (down \/ ~offline)
  /\ offline' = down
  /\ Sign(e)
  /\ IngestEnvelope(e)
  /\ buffer' = IF down /\ e.decodes THEN Push(buffer, e) ELSE buffer
  /\ biome' = IF ~down /\ outcome' = "Accepted" THEN Admit(biome, e) ELSE biome
  /\ taken' = IF outcome' = "Accepted" THEN taken \cup {KeyOf(e)} ELSE taken
  /\ UNCHANGED <<phase, rest, snapshot, doubtful>>

\* One envelope from the field.  With the uplink back after an outage the
\* replay comes first.
Receive(e, down) ==
  /\ phase = "live" /\ (down \/ ~offline)
  /\ offline' = down
  /\ Sign(e)
  /\ IngestEnvelope(e)
  /\ IF outcome' = "Accepted"
     THEN /\ taken' = taken \cup {KeyOf(e)}
          /\ buffer' = IF down THEN Push(buffer, e) ELSE buffer
          /\ biome' = IF down THEN biome ELSE Admit(biome, e)
     ELSE UNCHANGED <<taken, buffer, biome>>
  /\ UNCHANGED <<phase, rest, snapshot, doubtful>>

\* The uplink is back: to_json of the buffer.
Reconnect ==
  /\ phase = "live" /\ offline
  /\ offline' = FALSE /\ phase' = "restore"
  /\ snapshot' = Drain(buffer)
  /\ UNCHANGED <<ivars, rest, buffer, biome, signed, taken, doubtful>>

\* An envelope of the snapshot is altered at rest, or another put in its
\* place: bytes that do not decode, an invalid payload, somebody else's own
\* signature over any number, a signature that belongs to other bytes, another
\* envelope of the device, and any time of receipt.  The only thing that
\* cannot be made up is a signature by the key the device is registered with.
\* Bound: one of each snapshot.
Tamper(i, e) ==
  /\ phase \in {"restore", "restore again"}
  /\ snapshot = Drain(buffer)
  /\ i \in DOMAIN snapshot /\ e # snapshot[i]
  /\ Authentic(e) => Signature(e) \in signed
  /\ snapshot' = [snapshot EXCEPT ![i] = e]
  /\ doubtful' = doubtful \cup {KeyOf(snapshot[i]), KeyOf(e)}
  /\ UNCHANGED <<ivars, offline, phase, rest, buffer, biome, signed, taken>>

\* Fault: the embedded key is not compared with the registered one.
Restorable_AnyKey(e) ==
  /\ e.decodes /\ e.valid /\ ~e.early /\ e.signer = e.key
  /\ registry[e.node] # NoKey /\ e.node \notin revoked

\* reverify_stored lets it through.
Restorable(e) == Verify(e) = "Ok" /\ ~e.early

\* from_json of the snapshot, then drain.
RestoreSnapshot ==
  /\ \A i \in DOMAIN snapshot : snapshot[i].decodes
  /\ \/ phase = "restore" /\ phase' = "replay"
     \/ phase = "restore again" /\ phase' = "replay again"
  /\ rest' = Drain(FromJson(snapshot, buffer.seen))
  /\ UNCHANGED <<ivars, offline, buffer, snapshot, biome, signed, taken, doubtful>>

\* One envelope whose bytes do not decode, and the snapshot is not read.
RestoreFails ==
  /\ phase \in {"restore", "restore again"}
  /\ \E i \in DOMAIN snapshot : ~snapshot[i].decodes
  /\ phase' = "panicked"
  /\ UNCHANGED <<ivars, offline, rest, buffer, snapshot, biome, signed, taken, doubtful>>

Replaying == phase \in {"replay", "replay again"}

\* One of the drained envelopes is verified anew and admitted.
ReplayNext ==
  /\ Replaying /\ rest # <<>> /\ Restorable(Head(rest))
  /\ ReverifyStored(Head(rest))
  /\ biome' = Admit(biome, Head(rest))
  /\ rest' = Tail(rest)
  /\ UNCHANGED <<offline, phase, buffer, snapshot, signed, taken, doubtful>>

\* The first envelope that does not reverify ends the program.
ReplayFails ==
  /\ Replaying /\ rest # <<>> /\ ~Restorable(Head(rest))
  /\ ReverifyStored(Head(rest))
  /\ phase' = "panicked"
  /\ UNCHANGED <<offline, rest, buffer, snapshot, biome, signed, taken, doubtful>>

\* The first replay is followed by a second one of the same snapshot, the
\* second by an empty buffer and the envelope that brought the uplink back.
ReplayEnds ==
  /\ rest = <<>>
  /\ \/ /\ phase = "replay"
        /\ phase' = "restore again" /\ UNCHANGED <<buffer, snapshot>>
     \/ /\ phase = "replay again"
        /\ phase' = "live" /\ buffer' = EmptyBuffer /\ snapshot' = <<>>
  /\ UNCHANGED <<ivars, offline, rest, biome, signed, taken, doubtful>>

\* DeviceRegistry::revoke and Biome::revoke_device, between two envelopes.
RevokeDevice(n) ==
  /\ phase = "live"
  /\ Revoke(n)
  /\ biome' = [biome EXCEPT !.revoked = @ \cup {n}]
  /\ doubtful' = doubtful \cup {k \in DOMAIN buffer.entries : k[1] = n}
  /\ UNCHANGED <<offline, phase, rest, buffer, snapshot, signed, taken>>

\* A device is provisioned, or provisioned anew with another key.
Provision(n, k) ==
  /\ phase = "live"
  /\ Register(n, k)
  /\ doubtful' = IF k = registry[n] THEN doubtful
                 ELSE doubtful \cup {d \in DOMAIN buffer.entries : d[1] = n}
  /\ UNCHANGED <<offline, phase, rest, buffer, snapshot, biome, signed, taken>>

\* The gateway restarts and provisions its devices as before: the buffer is
\* serialised and restored, the pipeline's windows begin afresh.  The biome
\* lies behind the uplink and stays.
Restart ==
  /\ phase = "live"
  /\ windows' = [n \in Nodes |-> FreshWindow]
  /\ consumed' = [n \in Nodes |-> {}]
  /\ delivered' = [n \in Nodes |-> [s \in Seqs |-> 0]]
  /\ buffer' = FromJson(Drain(buffer), buffer.seen)
  /\ outcome' = "None"
  /\ UNCHANGED <<registry, revoked, genuine, offline, phase, rest, snapshot, biome, signed,
                 taken, doubtful>>

OutageNext ==
  \/ \E e \in Envelope, down \in BOOLEAN : Receive(e, down)
  \/ Reconnect
  \/ \E i \in DOMAIN snapshot, e \in Envelope : Tamper(i, e)
  \/ RestoreSnapshot \/ RestoreFails \/ ReplayNext \/ ReplayFails \/ ReplayEnds
  \/ \E n \in Nodes : RevokeDevice(n)
  \/ \E n \in Nodes, k \in Keys : Provision(n, k)
  \/ Restart

OutageSpec == OutageInit /\ [][OutageNext]_<<ivars, ovars>>

-----------------------------------------------------------------------------

\* "Post-outage restore duplicate-free": an observation is in the biome once,
\* however often it came live, replayed, replayed again from the same
\* snapshot, and received anew by a restarted gateway.
BiomeOnce ==
  \A i, j \in DOMAIN biome.observations :
    KeyOf(biome.observations[i]) = KeyOf(biome.observations[j]) => i = j

\* "An envelope tampered with while at rest fails reverify_stored and never
\* reaches the biome": what enters the biome, live or replayed, carries a
\* signature by the key its device is registered with at that moment, over a
\* number that the device has signed with that key, and the device is not
\* revoked.
OnlyAuthentic ==
  [][\A i \in DOMAIN biome'.observations \ DOMAIN biome.observations :
       LET e == biome'.observations[i]
       IN Authentic(e) /\ Signature(e) \in signed' /\ e.node \notin revoked]_<<ivars, ovars>>

\* The outage loses nothing: a sample that ingest has handed out is in the
\* biome, or its genuine envelope is in the buffer, and the replay goes
\* through, unless the device was revoked or given another key meanwhile or
\* the snapshot was altered.
NothingLost ==
  /\ \A k \in taken \ doubtful :
       \/ k \in biome.seen
       \/ k[1] \in biome.revoked
       \/ k \in DOMAIN buffer.entries /\ Restorable(buffer.entries[k])
  /\ phase = "panicked" => doubtful # {}

-----------------------------------------------------------------------------
(* The inductive invariant.                                                *)

Phases == {"live", "restore", "replay", "restore again", "replay again", "panicked"}

\* What verifies under the registered key, the device has signed.
Signed(e) == Authentic(e) => Signature(e) \in signed

\* Each entry lies under its own key.
Keyed(entries) ==
  /\ IsFiniteSet(DOMAIN entries)
  /\ \A k \in DOMAIN entries : entries[k] \in Envelope /\ KeyOf(entries[k]) = k

\* The buffer holds one envelope for each key it has seen.
BufferOK == buffer.seen = DOMAIN buffer.entries /\ Keyed(buffer.entries)

\* The devices have signed every entry, and all but the doubtful reverify.
Sound ==
  /\ \A k \in DOMAIN buffer.entries : Signature(buffer.entries[k]) \in signed
  /\ \A k \in DOMAIN buffer.entries \ doubtful : Restorable(buffer.entries[k])

BiomeOK ==
  /\ DOMAIN biome = {"observations", "seen", "revoked"}
  /\ biome.observations \in Seq(Envelope)
  /\ KeysOf(biome.observations) \subseteq biome.seen

\* Of a key that is not doubtful, list has what the buffer has.
Copies(list) ==
  /\ list \in Seq(Envelope)
  /\ \A i \in DOMAIN list : Signed(list[i])
  /\ \A i \in DOMAIN list : KeyOf(list[i]) \notin doubtful =>
       KeyOf(list[i]) \in DOMAIN buffer.entries /\ list[i] = buffer.entries[KeyOf(list[i])]

\* The biome has it, or wants nothing of its device.
Settled(k) == k \in biome.seen \/ k[1] \in biome.revoked

ReplayOK ==
  /\ Copies(snapshot) /\ Copies(rest)
  /\ phase = "live" => snapshot = <<>> /\ rest = <<>>
  /\ phase \in {"restore", "replay", "restore again", "replay again"} =>
       DOMAIN buffer.entries \subseteq KeysOf(snapshot) \cup doubtful
  /\ Replaying =>
       \A k \in DOMAIN buffer.entries : k \in KeysOf(rest) \cup doubtful \/ Settled(k)
  /\ phase = "panicked" => doubtful # {}

Kept == \A k \in taken \ doubtful : Settled(k) \/ k \in DOMAIN buffer.entries

OutageInv ==
  /\ IngestInv /\ phase \in Phases
  /\ BufferOK /\ Sound
  /\ BiomeOK /\ BiomeOnce
  /\ ReplayOK
  /\ Kept
=============================================================================
