# Formal models of RuCelium

TLA+ modules, TLC configurations and TLAPS proofs about the Rust workspace in
`src/`.  The repository holds two stacks: **RuCelium**, an environmental-sensing
fabric of edge gateways that federate (crates `rucelium-*`), and **RuField**, a
smaller simulated-sensing library with a viewer (crates `rufield-*`).  The
models are about RuCelium: what a gateway accepts, what it keeps over crashes
and power loss, what it executes and what it tells its peers; and the libraries
its federation rests on: keys and their succession, the buffer for outages,
calibration, notarised evidence, the QUIC transport.

Contents: [1 The system](#1-the-system) · [2 The modules](#2-the-modules) ·
[3 The runs](#3-the-runs) · [4 The proofs](#4-the-proofs) ·
[5 Where the code and its words differ](#5-where-the-code-and-its-words-differ) ·
[6 Plan](#6-plan) · [7 What is not modelled](#7-what-is-not-modelled)

## 1 The system

A **gateway** daemon (`rucelium-gateway`) runs one *biome*.  Devices send it
signed envelopes by UDP, some cut into fragments.  All its state is one `Inner`
value behind one `tokio::sync::Mutex`: the UDP loop, each HTTP handler, the
retention timer and the federation task take the lock for the length of one
handler, so handlers never interleave with each other.  What does interleave is
everything around them: the network, the peers, the federation task between its
`await`s, and the end of the process between any two writes to the disk.

```
 UDP ──► Reassembler ──► IngestPipeline ──► calibrate, drift, graph ──► ObservationStore ─► alert rule ─► Biome
         (fragments)      8 checks, replay                              segments + dedup     EventStore    admission
                          windows                                         index
 HTTP /admin/revoke ──► registry, Biome ──► EventStore ──► push queue ──► federation task ──► peers
 HTTP /federation/announce, backfill answers ──► accept_artifact ──► registry
 HTTP /admin/command ──► policy ► safety ► authority ► signer ► validator ► effect ──► command journal
```

| component | state | operations | what is hard | what makes it correct |
|---|---|---|---|---|
| **Replay window** (`rucelium-ingest`) | highest sequence, 64-bit bitmap | `check_and_update` | shifts at the width of the word | it is an exact memory of what it let through |
| **Ingest pipeline** (`rucelium-ingest`) | device registry, a window per device | `register`, `revoke`, `ingest`, `reverify_stored`, `prime_from_dedup` | order of the checks; late, duplicated and forged packets | each sequence once; forgeries consume nothing |
| **Observation store** (`rucelium-store`) | segment files, `dedup.idx`; in memory the keys and segment metadata | `open`, `append`, `enforce_retention`, `iter` | crash inside each of several writes, power loss, failing writes, recovery that itself dies | acknowledged records survive, one record per key, keys for ever, the store can be opened |
| **Event store** (`rucelium-store`) | the same files without retention | `open`, `append`, `iter` | as above | as above |
| **Reassembler** (`rucelium-transport`) | up to 256 partial messages | `offer`, `evict_older_than` | loss, duplication, reordering, reuse of ids, capacity | never mixes senders, never emits more than arrived, loses only what it dropped, drops what stays incomplete |
| **Pipeline and restart** (`rucelium-gateway`) | `Inner` over both stores | `process_datagram`, `Inner::open`, admin handlers | crash between sample, alert and answer; windows rebuilt from disk | a packet is accepted once over all restarts; alerts cite stored samples |
| **Control path** (`rucelium-policy`, `rucelium-gateway`) | phase table, budgets, receipts; on disk `commands.jsonl` | `run_proposal`, `validate_and_execute`, `journal::store`, `journal::load` | crash between effect and journal, failing journal writes, repeated proposals | no command id takes effect twice; budget and receipts account for every effect |
| **Federation** (`rucelium-gateway`) | applied ids, learned identities, push queue, cursors; own events on disk | `admin_revoke`, `fed_announce`, `run_federation_with_receiver` | lost, late and forged pushes; overrun queue; answers used after an await; restarts | peers revoke only on their own authority, an event acts once, everybody converges |
| **QUIC transport** (`rucelium-gateway`, feature `quic`) | a connection per peer, a stream and a lock per artifact class | `announce`, `sync_since`, the reading tasks | a lock held across dialling, writes that suspend inside a frame, hosts that move | one connection per peer, frames whole, a stalled summary holds up no revocation |
| **Biome** (`rucelium-federation`) | accepted samples, revoked devices, key | `accept`, `revoke_device`, `summarize`, `disclose` | its revocations are not the registry's | admits no revoked device; discloses no more than policy allows |
| **Federation bus, key succession** (`rucelium-federation`) | key, epoch and custodians per biome; seen windows and events | `register_biome*`, `rotate_biome`, `publish*` | replayed, missed and competing successions | a key changes only by its holder or its custodians; a retired key is powerless; two buses agree; who missed a succession can catch up |
| **Outage buffer** (`rucelium-federation`) | buffered envelopes, seen keys | `push`, `drain`, `to_json`, `from_json` | a snapshot replayed twice, altered at rest, restarts, unverified keys | no genuine envelope is lost or duplicated, no forged one arrives |
| **Calibration and drift** (`rucelium-calibration`) | records by id, authorities; EWMA and state per node | `insert`, `verify_lineage`, `active_for`, `observe`, `reinstate` | lineage of expired or foreign records, sticky quarantine | corrections come only from trusted chains |
| **Notary** (`rucelium-notary`) | the open batch, Merkle tree, signed roots, bundles | `accept_*`, `seal`, `renotarize`, `bundle_for`, `verify_bundle` | odd leaf counts, forged proofs, parts of two bundles put together | a bundle verifies only for what was sealed, and always for that |
| **World graph** (`rucelium-worldgraph`) | nodes, edges, a counter of contradictions | `add_node`, `add_edge`, `register_observation`, `record_contradiction`, `fuse_rf_context` | what a refused call leaves behind | nothing registered is replaced; RF context never dominates |
| **Core and wire** (`rucelium-core`, `rucelium-abi`) | none | codecs, validation, signatures | — | round trips |
| **RuField** (`rufield-*`) | event windows, rules, a live viewer | simulate, fuse, guard, serve | numeric | — |
| `rucelium-bench`, `examples`, `harness` | — | acceptance runs, demonstrations | — | — |

`PROJECT.json` lists every component with its status, and every hazard with the
line where it bites and the properties that would catch it.

## 2 The modules

```
ReplayWindow ─► Ingest ─► Outage          DurableLog ◄── ObservationStore
      └───────► Gateway                   ControlStages ─► ControlPath
MerkleTree ───► Notary                    Reassembly   Federation   FederationBus   Calibration   Quic
```
(`─►` reads "is extended by"; `ObservationStore` instantiates `DurableLog`.)
`XProofs` extends `X` and holds its theorems, for `ReplayWindow`, `Ingest` (with
`Outage`), `ControlPath`, `Gateway`, `ObservationStore`, `Federation` (with
`FederationBus`); `TransportProofs` has those of `Reassembly` and `Quic`,
`AuditProofs` those of `Calibration` and of `Notary` with `MerkleTree`.
`MCX` gives the constants of the TLC instance of `X`, with the symmetry or the
view it is checked under; nothing else is in it.  Definitions marked *Fault* are
mutations of a definition nearby; no specification uses them.  They document what
each property is able to detect.

**`ReplayWindow`** — pure operators.  A window is `[highest, bitmap]`, the bitmap
a set of bit positions below `W` (64 in the code).  `Update` is
`check_and_update`, `Advanced` its shift with the three cases of the code (less
than, equal to, beyond the width), `Check` its verdict.  `Remembers(w, S)` says
that `w` is an exact record of the set `S`.

**`Ingest`** — one `IngestPipeline`.  An envelope is a record of what the checks
ask of it: does it decode, is its payload valid, node, sequence, embedded key,
signing key, is its time ahead of the gateway's.  `Verify` is `verify_envelope`
(checks 1 to 6), `RejectEnvelope`, `RejectSequence` and `PassWindow` are the
three ways through `ingest`; `PassWindow` contains check 8, after the window has
moved, as in the code.  `Register` replaces a record and clears a revocation
without touching the window.

**`Outage`** — an `OutageBuffer` and a `Biome` behind an `Ingest` pipeline, in the
order in which the biome benchmark's gateway calls them (`rucelium-bench`'s
`runner.rs`).  `Receive` takes an envelope with the uplink up or down;
`Reconnect` serialises the buffer; the snapshot lies at rest, where `Tamper` may
put anything in an envelope's place: bytes that do not decode, an invalid payload,
somebody's own signature with his own key embedded over any number, another
envelope of the device.  What it cannot make up is a signature by the key that the
device is registered with, so what the devices have signed is recorded (`signed`).
`RestoreSnapshot` restores and drains it, `ReplayNext` reverifies and
admits one envelope, twice from the same snapshot; `RestoreFails` ends the program
at a snapshot that is not read and `ReplayFails` at the first envelope that does
not reverify (`expect` in the benchmark).  What a
`BTreeMap` iterates over is `InOrder` of its keys, chosen rather than folded, so that
it can be proved about.  Devices are revoked and provisioned anew and the
gateway restarts between two envelopes.

**`ObservationStore`** — the store as files.  A file is a sequence of tokens: an
entry (record or key), a newline, a torn fragment, or the first digits of an index
line (`Digits`).  A fragment spoils the line it is on, digits do not: the next index
line is then the well-formed line of another key, of some other key given to the store
or of none (`LineRead`), and `misread` records whose line it was.  Open, each write and each
sync of `append`, and its final update of the memory are actions of their own,
because a crash may fall between them; `pc` is the write that comes next.
`Open` is index repair, segment scan, torn-tail repair of the last segment, merge
of missing keys and their write-back.  The records of a file are the positions of its
lines that decode (`RecordLines`), its keys a set, and what the code lists is a listing
that `CHOOSE` picks (`IndexLines`, `InOrder`), so that all of it can be proved about.
A behaviour begins with a `mode` from the
constant `Modes`: the options `sync` and `segment_max_records` of the store, the
keys it is given to store, and the kinds of failure that surround it:

- `crash` — the process dies; the current write is complete, partial or absent;
  also in `open` (`OpenCut`) and inside a retention pass;
- `linecut` — the same exactly between a record line and its newline;
- `power` — each file loses any suffix of its unsynced bytes;
- `ioerror` — a write fails after part of it reached the file, and the process
  goes on.

`linecut` is separate because the code does not survive it (section 5) and the
rest can be shown without it.  `Tolerated` names the modes a promise is made
for; a property that the code promises under any failure does not mention it.

**`DurableLog`** — the store's promise without files: keys are known before they
are promised, a promised key stays known, its record leaves only by retention,
and a failure takes back only what was never promised.  `ObservationStore`
implements it with `known` = the keys of either file, `present` = the records of
the segments, `promised` = the keys `append` has answered with `Ok`.

**`ControlStages`**, **`ControlPath`** — the verdicts of policy, safety, authority
and validator as functions of a proposal, the charged budget and the phase table;
and `run_proposal` as the steps between which a crash matters: refusal or intent
(`Begin`), the effect (`Execute`), the promotion with receipt and budget
(`RecordExecuted`), the temporary file, the rename, the answer.  `effects` and
`here` count the executions of all lives and of this one.  `faults` counts
failures by kind, here and in `Gateway`, bounded by `MaxFaults`; a property that
the code promises only while writes succeed says `faults["ioerror"] = 0`.

**`Reassembly`** — `offer` branch by branch (contradicting count, duplicate, next
chunk, single fragment, first fragment with eviction), the clock as an age per
entry, and the timer's `evict_older_than`.  Chunks are named by the message they
were cut from, so a mixed output can be seen.

**`Gateway`** — `process_datagram` over the two stores, which it takes as
`DurableLog` describes them, and `Inner::open`.  `Accept`, `AppendSample`,
`RaiseAlert`, `Admit` are the steps of `ingest_v1` between which a crash or an
error can fall.  `Restart` keeps what is on disk and forgets registry, biome and
windows; `Prime` feeds the stored keys of a node to a fresh window in ascending
order.

**`Federation`** — several gateways.  `AdminRevoke` is the handler (registry,
event, store, queue).  The federation task is a small state machine (`task`):
announce one event to each peer, or fetch identity, then artifacts, then apply
them, for each peer; only what the code does under the lock is one step.  A push
is a message that may be late or lost; `ReceiveForged` offers events with a wrong
signer, wrong biome or broken bytes.  `Crash` keeps only the event store.
`UsesCursor` tells a transport that honours the backfill cursor from the HTTP
one, which ignores it.

**`FederationBus`** — a bus at every party: which key, epoch and custodians speak
for which biome.  The first registration is trust on first use; every later
binding needs a `KeySuccession` of the bound epoch, signed by the bound key
(continuity) or by enough of the bound custodians (recovery).  Successions are
statements that reach each bus late, twice or never.  A signature is the pair of
key and statement; keys that are out of use come into other hands (`lost`).
`Publish` is `publish_summary` and `publish_event` with their replay guard (`seen`),
which the model has but no property repeats.

**`Calibration`** — the strict store (`Insert` with authority and parent checks,
`LineageVerifies`, `ActiveFor`), the calibrator's checks in their order (`Verdict`,
`Apply`) under a clock, and the drift detector (`Observe`, `Reinstate`).

**`MerkleTree`**, **`Notary`** — the tree by levels with promotion of odd nodes,
proofs, and the verifier's walk, over a hash that is free (a digest is the tuple of
its domain and its preimage, so equal digests have equal preimages); and above it
the batches of observations and events, signed roots, renotarisation under another
key, bundles and `verify_bundle` for every combination of their parts.  `Collect` is
the body of the loop of `prove`, `Climb` that of `verify_inclusion`; both take
as many levels as there are leaves, since above the root neither changes anything.

**`Quic`** — several tasks in `announce` and `sync_since` over one map of
connections.  A call is its suspension points: the lock of the map, the dial, the
opening of a stream, the lock of the stream, the two parts of a frame.  What the
code does between two of them is one step.  Reading tasks deliver what is whole.
`Move` lets a host go, move or be replaced; handshakes and QUIC itself are
external: a dial connects, is refused or times out, and a connection may close any
time.

## 3 The runs

| run | shows | bounds and why they suffice |
|---|---|---|
| `ingest` | windows exact, each sequence delivered at most once, forgeries burn nothing | `W` = 3, sequences 0..5: a number can reach every bit, be shifted out by steps, and be jumped over at exactly and beyond the width; two keys so that an envelope can name the wrong one; one device, since windows are independent |
| `outage` | the biome holds each observation once, nothing enters it that the registered key has not signed, and nothing handed out is lost | one device, two keys, two sequences: a replay can fail at either of two envelopes, an old key's envelope can lie in the buffer, and a stranger has a key of his own; one alteration of each snapshot, of any kind; the window's arithmetic is left to `ingest`; the view reduces a stored envelope that will not reverify to its key, since no more of it is read |
| `store` | crash safety with `sync = false`, power-loss safety with `sync = true`, dedup keys and the time a record is kept through failures of every kind but power loss, refinement of `DurableLog` | up to four keys, measured out of order, and two records per segment, so that segments fill, roll, expire and are resumed part-filled, or one, so that a pass has several to delete; two failures: one can hit the recovery of another, and a misread line can meet a second fragment (about a million states) |
| `control` | budget, receipts and effects agree; no repetition in one life; a repetition needs a failure; the journal is final | three ids against a budget of 2, so that the limit is met; magnitudes at and above the safe limit and above policy; a granted and a foreign agent; crashes and failing journal writes |
| `reassembly` | framing, conservation, nothing lost without cause, every partial message goes away | capacity 1 so that eviction happens; two messages that share sender, id and count, one that contradicts them, one of three fragments elsewhere; fragments arrive up to twice, then no more |
| `gateway` | windows after restarts, accepted once, evidence stored, alerts and revocations stored | one device (devices share no window, key or alert), sequences 0..4 over `W` = 2, so primed windows shift numbers out; crashes and failing appends |
| `federation` | revocation authority, idempotence, convergence | two gateways that list each other, queue of 1 so that it overruns, two revocations of one device by one of them, one failure: a lost push, a failed request or a restart at every point |
| `bus` | retired keys are powerless, buses fork only on two authorised successions, who missed one can catch up | two buses, one biome, two successions by either route, retired keys in other hands: enough for a race between continuity and recovery and for a replay after it |
| `calibration` | corrections come from an anchor, `active_for` and `apply` agree, quarantine is exact | up to three records, so a chain has an inner link; two devices and modalities, one key not entitled to both; a clock that expires records between insertion and use |
| `notary` | trees, bundles | honest trees up to nine leaves (every pattern of odd levels up to height four), every path of digests for trees up to five; two batches, sealed, renotarised, restarted |
| `quic` | one connection per peer, frames whole, revocations pass | one address, two keys, three concurrent calls, one move: a dial can race a dial, a write a write, a replacement either |
| `store_poison` | counterexample, section 5 | the one failure that produces it |

Bounds are constants of the modules (`MaxSeq`, `MaxFaults`, `MaxMints`,
`MaxArrivals`, `MaxEpoch`, `MaxStatements`, `MaxTime`, `MaxLeaves`, `MaxBatches`,
`MaxTree`, `MaxForged`, `MaxCalls`, `MaxMoves`).  `u32` sequence numbers do not wrap
in the code: a number below the window is too old for ever, which the bound keeps.

Deadlock is checked but where the modelled program may stop: `outage` (a replay
that fails ends the program), `store` (a refused directory), and `reassembly`,
`notary` and `quic`, whose inputs are bounded and then used up.

**Fairness.**  `Reassembly!FairReassemblySpec` assumes that time passes and that the
retention timer fires (`run_retention` loops on a `tokio` interval); it assumes
nothing of datagrams.  `Federation!FairSpec` assumes that a dead gateway is
started again, that the federation task is scheduled and takes each branch of its
`select!` in time (tokio polls ready branches in random order), and that a request
is answered or fails (both transports have timeouts).  It assumes nothing of
pushes, of administrators, or of the order in which anything happens.
`Quic!FairSpec` assumes that tasks are scheduled, that a lock that is free is
granted, and that a dial ends (it has a timeout); and that the opening of a stream,
the writing of an event's frame and the answer to a backfill end, which only quinn's
idle timeout guarantees: a peer that keeps the connection alive and never reads its
revocation stream would break it.  Of the writing of a summary's
frame it assumes nothing, since a peer that stops reading stalls it, which is the
case `RevocationsPass` is about.  The property is about the transport: the daemon's
own federation task announces one artifact after another, so there a stalled push of
a summary would still delay the revocation that is queued behind it.  Failures are
finitely many in a behaviour.

## 4 The proofs

TLAPS checks the proofs in the eight `*Proofs` modules for every value of the
constants that satisfies the assumptions named in the modules (`WidthAssumption`:
`W` is a positive natural; the others give the constants their types).  Each theorem
follows from an inductive invariant, tried by TLC on the instance first where it
quantifies over nothing unbounded:
the initial states satisfy it, each action preserves it (a step per action), and it
implies the property.

- **`ReplayWindowProofs`**: a fresh window remembers the empty set; `Advanced`
  keeps every bit that stays in the word and sets the old highest number's
  (`AdvancedBits`); from this, `UpdateRemembers` — if `w` remembers `S` and
  accepts `s`, the updated window remembers `S ∪ {s}` — and `RefusalsJustified` —
  a replay verdict is about a member of `S`, a too-old verdict about a number `W`
  or more below the highest.  These two carry `IngestProofs` and `GatewayProofs`.
- **`IngestProofs`** (`TypeCorrect`, `WindowsExact`, `ExactlyOnce`,
  `ForgeryBurnsNothing`): `IngestInv` adds that a delivered sequence was let
  through, and that what was let through was authentic.  Neither `AtMostOnce` nor
  `NothingBurnt` is inductive alone: without the window's meaning a state may
  refuse the wrong numbers.  For `Outage`, `OutageInv` says that the buffer holds each
  envelope under its own key and reverifies it but for a device that changed since,
  that the snapshot and what is left of it to replay copy the buffer until something
  alters them (`Settled`, `Kept`), that whatever lies in either and verifies under the
  registered key the device has signed (`Signed`, `Sound`), and that the biome has
  what was replayed and no more (`BiomeOnceAlways`, `NothingLostAlways`, and the action
  property `OnlyAuthenticAlways`).
- **`ControlPathProofs`**: `PathInv` says that what is on disk is final and known
  to a running daemon, that at most the current command is `executing`, and that
  every effect of this life has a phase; it gives `EffectsOncePerLife`,
  `JournalIsFinal` and `JournaledIsDone`.  `AccountInv` says by how much budget
  and receipts lag the effects at each `pc` (`AccountsAgree`); `RerunInv` says that
  an id which could still take effect has done so no more often than there were
  failures (`FailuresBoundReruns`).
- **`GatewayProofs`**: `GatewayInv` adds the state of a restart in progress (each
  window remembers the keys inserted so far, all below those to come) and of a
  sample on its way (it has passed its window and was never accepted):
  `WindowsSurviveRestart`, `ReplaySafety`, `EvidenceFirst`.  `PublishInv` says
  that, up to the step that stores it, only the current alert or revocation is
  missing: `AlertBeforeAnswer`, `RevocationsReachDisk`.
- **`FederationProofs`**: `OwnerInv` says that every event in a queue, a message, a
  task, an answer or an applied set is in its biome's log (`OwnAuthority`);
  `EventInv` that a new event is later than every stored one, so its id is new; with
  the check of the applied ids this makes each event act once, pushed or fetched
  (`OncePerEvent`, an action property).
  For the bus, `BusInv` says that a lost key is bound nowhere, as
  key or custodian, and that every succession signed in its favour is dead, which is
  why replaying one changes nothing (`TakeoversEnd`).  `LineInv` says that a biome that has not forked has one
  line of bindings, from the genesis through each applied succession, on which
  every bus stands (`OneLinePerBiome`) and along which one that is behind finds its
  next step (`LaggardsCatchUp`); the history is an existential witness that a
  step which applies a succession either extends or proves forked.
- **`AuditProofs`**.  Of `Calibration`: `DriftInv` ties the detector's counter to the
  streak, for every residual stream (`QuarantineIsConfirmed`).  For the store,
  `NewestExists` shows that a set of candidates has a newest record, so that
  `active_for` names one that `apply` accepts (`ActiveRecordsApply`); `WalkExists`
  turns the parents that `verify_lineage` follows into a path and `StepTraceable` shows
  that no later insert or tick of the clock breaks one (`CorrectionsTraceable`).
  Of `MerkleTree`: `ParentsOf` says where a node goes in the next level.
  `ProofIsSound` goes up the tree and back: while nothing is refused the walk of
  `verify_inclusion` is at a place of the tree (`ClimbOnTree`), at the root it has the
  tree's digest, and a level at which it agrees with the tree has one below it at which
  it did too, because hashes are free of collisions (`ClimbBack`); at the leaves that
  is the claim.  Nothing is asked of the path but that it verifies, so it holds for
  any siblings, not only for digests of the tree.  `ProofIsComplete` has `prove` and
  `verify_inclusion` climb side by side (`ClimbAbreast`).  Of `Notary`: `NotaryInv`
  says that every batch carries a root signed over its own data; with the two lemmas
  it gives `TreeExactAlways`, `BundleSoundAlways` and `BundleCompleteAlways`.  The
  recursive functions are shown to exist, and the walks are followed, through the
  least level at which a claim fails (`LeastNatural`, `Upwards`, `Downwards`).
- **`ObservationStoreProofs`**.  What makes the store hard to reason about is the shape
  of its files between two writes, so the first half are lemmas about files: where a
  line starts, what a prefix, one more token or a repair does to the lines, and what
  `Leftovers` can be.  `DedupInv` is about the index alone and needs no tolerated mode:
  as much of it as no failure takes (`Safe`) either holds a whole line for every
  acknowledged key or is spoilt by a line that makes `open` refuse: after a write that
  failed halfway the keys may well be unreadable, but then no store is running that
  could forget them.  The keys of `misread` are excepted, and `FailedWrite`,
  `LineReadFacts` and `StillRead` show that they are the only ones: digits that a
  failed write leaves change the reading of the one line behind them and of no other
  (`DedupForeverAlways`).  `Intact`
  adds what tolerated failures leave: whole lines but for the end of the last segment
  and of the index (`Whole`), files within `segment_max_records` (`Filled`), in sync
  mode exactly the tokens of the current call unsynced (`Synced`), one record per key,
  and a memory that agrees with the files up to the writes of the current call
  (`Remembered`).  `SegmentsReadBack` and `IndexReadBack` show that `open` gets all
  records and keys out of such files; there is one lemma per action, `WriteLineIntact`
  to `PowerLossIntact`.  From this come `NeverCorruptAlways`, `UniqueRecordsAlways` and
  `MemoryMatchesDiskAlways`, and the refinement `StoreImplementsLog`: the record line is
  `Put`, `Commit` and a duplicate are `Promise`, retention is `Expire`, recoveries and
  power loss are `Lose`, and the rest, the crashes included, stutters.  A
  power loss may `Lose` only what was not promised, because a record that it takes is
  the one between its write and its sync, whose key the index does not have yet
  (`PowerLossKeys`).
- **`TransportProofs`**.  Of `Reassembly`: `ReassemblyInv` says that an entry's counter is
  the number of fragments it holds, never all of them, each in its place and of the
  entry's sender and msg_id, that there is one entry to a key, oldest first, and where
  each fragment that arrived is: in its entry, or come out, or dropped with it
  (`FramedAlways`, `ConservedAlways`, `NoneLostAlways`).  Of `Quic`: `MapInv` says that
  who dials or opens a stream holds the map's lock alone, and dials only where the map
  has nothing (`OnePerPeer`).  `ArrivalInv` adds three parts: `LockInv` (a stream's lock
  is held by the call that writes to it), `StreamInv` (a stream holds heads followed by
  their bodies and at most the head of that call) and `ArtifactInv` (the parts of an
  artifact are in one place, in a queue or at two neighbouring places of one stream).
  `QuietArrives` covers the steps that write nothing, `WritesLock`, `WritesStream` and
  `WritesArtifact` those of a writing call, `ReadArrives` the shift of a stream by one
  frame; `ArrivesOnce` turns the invariant into the sum of `AnnouncedArrives`
  (`AnnouncedOnce`).

Only model-checked: the liveness properties `NoLeak`, `Converges` and
`RevocationsPass`, since TLAPS does not prove liveness under fairness here, and
`KeptItsTime`.

## 5 Where the code and its words differ

**`store_poison`** ends with a counterexample.  `append` writes the record and its
newline separately (`observations.rs:199`).  A process crash in between leaves a
line the next append runs into, and the directory cannot be opened again.  One
`write_all` of line and newline would close it (a torn write is then always
undecodable or complete).  After the same cut, a second crash inside the next
append makes the repair drop the acknowledged record together with the torn one,
and the store opens without it.

The models also show these, smaller or a matter of reading.

*Store and gateway*

- "Dedup keys are kept forever" (`rucelium-store/src/lib.rs:46`), but not past an
  index write that fails after the first digits: "1" and then "1 6" of the next append
  are the line "11 6", which `open` accepts as a key of node 11
  (`observations.rs:81`).  While the record of (1, 6) is on disk, `open` finds it and
  writes its key anew; once retention has deleted it and the store is restarted,
  (1, 6) is forgotten and can be stored again, and a sample (11, 6) that was never
  stored is answered as a duplicate.  `DedupForever` and its theorem except exactly
  these keys (`misread`); without the exception TLC shows the behaviour.  The event
  store takes any nonempty line for an id, so there every fragment joins the next id;
  its records stay, and `open` merges the id again.
- A record write that fails halfway leaves a fragment in the middle of the segment;
  the next append goes behind it, and the next `open` refuses the directory.
- With `sync = true` the reopening after a crash syncs a merged key into the index
  (`observations.rs:147`) but not the segment that holds its record, which `append`
  does (`:204`); a power loss then leaves a key without its record.
- With `sync = false` power loss can keep an index key whose record is gone, so a
  caller cannot replay it (`rucelium-store/src/lib.rs:25` says it must be able to).
- A sample whose clock is ahead is refused after its number was consumed; sent
  again, it is refused as a replay, "already accepted" by the doc of
  `RejectReason::Replay`.
- A crash between a sample's append and its alert loses the alert for good: the
  stored sample's retransmission is a replay.
- A revocation whose event cannot be stored (`api.rs:330`) has changed registry and
  biome already; the peers never hear of it.
- All UDP senders share one sender hint; its comment (`pipeline.rs:22`) asks them to
  choose distinct msg_ids.  If two choose the same, with the same count, their
  fragments mix, what comes out fails its signature, and both messages are lost.
- A device revoked and provisioned anew is accepted and stored by the gateway but
  refused by its biome, whose own list has no way back before a restart.

*Control*

- The phase `executing` reaches the disk only after the effect, together with
  `executed` (`control.rs:71`); a crash in between forgets the command, and it runs
  again when proposed again, where `state.rs:197` says that a command id "mid-execution
  when the process died" is never executed a second time, and the policy library
  (`pipeline.rs:855`) that its intent is journaled before any side effect.  A
  failing journal write, which `run_proposal` prints and ignores, does the same over
  a clean stop.
- The budget is charged (`control.rs:115`) before the journal is written, the
  module's doc says after; and it starts at zero in every life.

*Federation*

- The backfill cursor (`federation.rs:300`) moves past events that were left
  unapplied (`:121`); a transport that honours it does not offer them again.  The
  HTTP transport returns all revocations whatever the cursor says, and converges.
- A gateway that restarts applies old peer revocations again to a device provisioned
  since, as its memory of applied ids is gone (`RevokedByNewEvent` speaks of one
  life).
- `register_biome_with_custodians` compares the threshold with the length of the
  custodian list (`summary.rs:394`), duplicates included, while a recovery counts
  distinct signers: a list with duplicates can name a quorum that nobody can meet,
  which the comment on the error rules out (line 194, and the table of ADR-270).
- A live QUIC connection is used whatever key the call's `PeerRef` pins: the map is
  keyed by address, and the pin is compared only in a dial (ADR-269 §4 pins each
  connection to the peer's registered key).  `AnnouncedArrives` states what does
  hold: the receiver has a key that some `PeerRef` pinned at the address.
- The map's lock is held over a dial (`transport_quic.rs:602`), so a peer that does
  not answer delays a revocation to another one by up to the dial's timeout.

*Calibration and outage*

- Of a record's lineage only the record itself must be unexpired, ancestors may be
  expired and made for another device; a record created in the future applies;
  `reinstate` asks only for an id other than 0 and does not look it up
  (`drift.rs:138`), where its doc speaks of "a real calibration id".
- The benchmark's replay ends the program at an envelope that does not reverify
  (`runner.rs:378`), also when the cause is a device revoked during the outage.

*World graph* (read, without a module)

- "Hard cap on the weight of any RF-derived evidence edge" (`rf.rs:18`, 0.3): the
  contradicted branch of `fuse_rf_context` goes through `record_contradiction`,
  whose edge weighs 1.0.  The same function registers its RF node before
  an edge that may be refused.

## 6 Plan

Done, in the order of what a loss would cost: `ReplayWindow`, `Ingest`,
`ObservationStore` with `DurableLog`, `ControlStages` and `ControlPath`,
`Reassembly`, `Gateway`, `Federation`, `FederationBus`, `Outage`, `Calibration`,
`MerkleTree` and `Notary`, `Quic`; proofs of every safety property and action
property that a run checks, and of the refinement of `DurableLog`.

Left, in this order:

1. `GovernedPath` — the policy library under any caller: several signers, several
   commands between approval and execution against one budget, expiry, executor
   caps, failing closures, `export_phases` and `restore_phases`; refined by
   `ControlPath`.
2. Summaries and disclosure: `summarize` and `disclose` of the biome, and their
   publication on the bus.
3. `WorldGraph` with its RF bridge.
4. RuField's fusion window and privacy guard.

Each of them with the proofs of its safety properties.

## 7 What is not modelled

Within the modelled parts: counters and logs; the audit trail; firmware hashes;
byte layouts and signatures (abstracted to what verifies); calibration, drift and
graph inside the gateway's pipeline, which decide nothing there; summaries in the
daemon's federation; HTTP endpoints that only read; `subscribe`, which empties a
queue; the event store's files, which are the observation store's without
retention; the link profiles; the phase `failed`, which the daemon's effect never
produces; loss of a directory entry after a crash (files that were created are
assumed to be found again); the key that a torn last line of the index would read as,
since `open` cuts it; the list `seen` inside an altered snapshot, since the buffer
restored from it is drained once and dropped; clocks set back, which would disturb the reassembler's order of
eviction; calibration records that name the identifier 0 as their parent.

Whole parts, and why:

- the policy library's own surface (several signers, expiry, executor caps, failing
  closures, restored phases): the daemon uses none of it; first in the plan;
- how a biome computes and discloses a summary: floating-point aggregation under a
  policy, in the plan;
- the world graph: a sequential library whose calls the gateway makes only to
  register what it has accepted; in the plan;
- RuField (core, privacy, provenance, fusion, adapters, viewer): a second,
  independent stack, simulated, sequential and numeric but for the viewer, whose
  frames are computed per batch;
- the byte codecs and units (`rucelium-abi`, most of `rucelium-core`) and the
  SensorThings projection: stateless functions on bytes, text and floats;
- simulators, benchmarks (but for the loop that `Outage` follows), examples and the
  harness: they exercise the parts above and decide nothing themselves.  The
  examples alone are about a third of the repository's lines.

What is numeric (EWMA, calibration arithmetic, RF projection, fusion scores) is
beyond TLC and the provers; where a model needs its outcome it is a choice
(an EWMA is over the threshold or it is not).
