---------------------------- MODULE FederationBus ----------------------------
(***************************************************************************)
(* The federation bus of rucelium-federation: which key speaks for which   *)
(* biome, and what it has published.  Every party keeps a bus of its own,  *)
(* and the signed successions that move an identity from key to key reach  *)
(* each bus late, twice, out of order or never.  The first binding is      *)
(* trust on first use; every later one needs a succession signed by the    *)
(* bound key (continuity) or by enough custodians (recovery).              *)
(*                                                                         *)
(* A signature is the pair of the key and the statement it covers: it      *)
(* verifies iff that key has signed exactly that statement.  Summaries and *)
(* events are told apart by their replay identity alone, the window of a   *)
(* summary or the event_id.  A refused call changes nothing, so only the   *)
(* calls that succeed are steps.                                           *)
(***************************************************************************)
EXTENDS Naturals, Sequences, FiniteSets, SequencesExt

CONSTANTS Buses,            \* the parties, each with its own FederationBus
          Biomes,           \* biome identities
          Keys,             \* ed25519 keys, of holders and custodians
          Genesis,          \* biome -> the genesis declaration its owner made
          Declarations,     \* the custodian declarations successions carry
          Windows,          \* summary windows
          EventIds,         \* event_ids
          MaxEpoch,         \* bound on epochs
          Successions,      \* bound: the successions anybody signs
          MaxStatements     \* bound: different successions ever signed

\* The custodians as they are listed, duplicates and all, and the threshold.
Declaration == [list : Seq(Keys), threshold : Nat]

\* new_custodians of a succession: None, or a declaration that replaces them.
Option(S) == {<<>>} \cup {<<d>> : d \in S}

Epochs == 0 .. MaxEpoch

Statement == [biome : Biomes, from : Epochs, to : Epochs, key : Keys,
              custodians : Option(Declarations)]

ASSUME BusAssumption ==
  /\ Declarations \subseteq Declaration
  /\ Genesis \in [Biomes -> [key : Keys, epoch : Epochs, custodians : Declaration]]
  /\ Successions \subseteq Statement
  /\ Windows \cap EventIds = {}
  /\ MaxStatements \in Nat

VARIABLES bound,        \* bus -> registered biome -> its BiomeKey
          seen,         \* bus -> seen_windows and seen_events, its replay guard
          signed,       \* the signatures made so far: pairs of key and statement
          lost,         \* the keys that have come into other hands
          rotated,      \* history: the successions some bus has applied
          strays        \* history: publications accepted from a lost key

vars == <<bound, seen, signed, lost, rotated, strays>>

BiomeKey == [key : Keys, epoch : Epochs, custodians : SUBSET Keys, threshold : Nat]

Publication == [biome : Biomes, id : Windows \cup EventIds, signer : Keys]

\* A summary is known by its biome and window, an event by its event_id.
Identity(p) == IF p.id \in EventIds THEN <<p.id>> ELSE <<p.biome, p.id>>

TypeOK ==
  /\ DOMAIN bound = Buses
  /\ \A x \in Buses : /\ DOMAIN bound[x] \subseteq Biomes
                      /\ \A b \in DOMAIN bound[x] : bound[x][b] \in BiomeKey
  /\ seen \in [Buses -> SUBSET {Identity(p) : p \in Publication}]
  /\ signed \in SUBSET (Keys \X Statement)
  /\ lost \in SUBSET Keys
  /\ rotated \in SUBSET Statement
  /\ strays \in SUBSET Publication

BusInit ==
  /\ bound = [x \in Buses |-> <<>>]
  /\ seen = [x \in Buses |-> {}]
  /\ signed = {} /\ lost = {} /\ rotated = {} /\ strays = {}

-----------------------------------------------------------------------------
(* Registration                                                            *)

\* A threshold must not exceed the length of the list it comes with.
Declarable(d) == d.threshold <= Len(d.list)

\* The binding that the owner's genesis declaration asks for.
GenesisKey(b) ==
  [key |-> Genesis[b].key, epoch |-> Genesis[b].epoch,
   custodians |-> ToSet(Genesis[b].custodians.list),
   threshold |-> Genesis[b].custodians.threshold]

\* register_biome_with_custodians, first contact.  What a bus is told first
\* is the owner's genesis declaration.
Register(x, b) ==
  /\ b \notin DOMAIN bound[x]
  /\ Declarable(Genesis[b].custodians)
  /\ bound' = [bound EXCEPT ![x] = [c \in DOMAIN @ \cup {b} |->
                                      IF c = b THEN GenesisKey(b) ELSE @[c]]]
  /\ UNCHANGED <<seen, signed, lost, rotated, strays>>

\* A later registration by anyone: accepted only for the bound key at no
\* higher epoch, and then nothing changes.  Any other is SuccessionRequired.
RegisterAgain(x, b, k, e) ==
  /\ b \in DOMAIN bound[x]
  /\ k = bound[x][b].key /\ e <= bound[x][b].epoch
  /\ UNCHANGED vars

-----------------------------------------------------------------------------
(* Successions                                                             *)

Signers(st) == {k \in Keys : <<k, st>> \in signed}

Signed == {s[2] : s \in signed}

Continuity(cur, st) == cur.key \in Signers(st)

\* Fault: the quorum is counted over signatures of any custodian of any time.
Recovered_AnyCustodian(cur, st) ==
  /\ cur.threshold > 0
  /\ Cardinality(Signers(st) \ {cur.key}) >= cur.threshold

Recovered(cur, st) ==
  /\ cur.threshold > 0
  /\ Cardinality(Signers(st) \cap cur.custodians) >= cur.threshold

\* "Two authorisation paths, and no third."
Authorised(cur, st) == Continuity(cur, st) \/ Recovered(cur, st)

\* The binding that a succession puts in the place of cur.
Succeeded(cur, st) ==
  [key |-> st.key, epoch |-> st.to,
   custodians |-> IF st.custodians = <<>> THEN cur.custodians
                 ELSE ToSet(st.custodians[1].list),
   threshold |-> IF st.custodians = <<>> THEN cur.threshold
                 ELSE st.custodians[1].threshold]

\* Fault: an older succession may be applied again.
Current_Stale(cur, st) == st.to > st.from /\ st.to > cur.epoch

\* Fault: a succession from a later epoch is taken by a bus that is behind.
Current_Ahead(cur, st) == st.to > st.from /\ st.from >= cur.epoch

Current(cur, st) == st.to > st.from /\ st.from = cur.epoch

\* rotate_biome: a bus receives a succession, for the first time or again.
Rotate(x, st) ==
  LET cur == bound[x][st.biome] IN
  /\ st.biome \in DOMAIN bound[x]
  /\ Current(cur, st)
  /\ Signers(st) # {}
  /\ Authorised(cur, st)
  /\ \A i \in DOMAIN st.custodians : Declarable(st.custodians[i])
  /\ bound' = [bound EXCEPT ![x][st.biome] = Succeeded(cur, st)]
  /\ rotated' = rotated \cup {st}
  /\ UNCHANGED <<seen, signed, lost, strays>>

-----------------------------------------------------------------------------
(* Publication                                                             *)

\* publish and publish_event: the biome is registered, the signer is the key
\* bound to it now, and the window or event_id is new to this bus.
Publish(x, p) ==
  /\ p.biome \in DOMAIN bound[x]
  /\ bound[x][p.biome].key = p.signer
  /\ Identity(p) \notin seen[x]
  /\ seen' = [seen EXCEPT ![x] = @ \cup {Identity(p)}]
  /\ strays' = IF p.signer \in lost THEN strays \cup {p} ELSE strays
  /\ UNCHANGED <<bound, signed, lost, rotated>>

-----------------------------------------------------------------------------
(* The key holders                                                         *)

Names(st, k) == k = st.key \/ \E i \in DOMAIN st.custodians : k \in ToSet(st.custodians[i].list)

\* sign_succession.  Holders hand over to keys that are in good hands; a key
\* in other hands signs anything.
Sign(k, st) ==
  /\ <<k, st>> \notin signed
  /\ k \in lost \/ \A l \in lost : ~Names(st, l)
  /\ st \in Signed \/ Cardinality(Signed) < MaxStatements
  /\ signed' = signed \cup {<<k, st>>}
  /\ UNCHANGED <<bound, seen, lost, rotated, strays>>

\* A key that no bus binds, or will bind by a genesis or by a succession
\* already signed, is out of use, whoever may hold it.
Retired(k) ==
  \A x \in Buses, b \in Biomes :
    /\ b \in DOMAIN bound[x]
    /\ k # bound[x][b].key /\ k \notin bound[x][b].custodians
    /\ \A st \in Signed : st.biome = b /\ Names(st, k) => st.from < bound[x][b].epoch

\* A key out of use comes into other hands.
Lose(k) ==
  /\ k \notin lost
  /\ Retired(k)
  /\ lost' = lost \cup {k}
  /\ UNCHANGED <<bound, seen, signed, rotated, strays>>

-----------------------------------------------------------------------------

BusNext ==
  \/ \E x \in Buses, b \in Biomes : Register(x, b)
  \/ \E x \in Buses, b \in Biomes, k \in Keys, e \in Epochs : RegisterAgain(x, b, k, e)
  \/ \E x \in Buses : \E st \in Signed : Rotate(x, st)
  \/ \E x \in Buses : \E p \in Publication : Publish(x, p)
  \/ \E k \in Keys : \E st \in Successions : Sign(k, st)
  \/ \E k \in Keys : Lose(k)

BusSpec == BusInit /\ [][BusNext]_vars

-----------------------------------------------------------------------------

\* "Rotation or takeover": a key that every bus has rotated away from speaks
\* for nobody again, whatever old or new successions it and its holders have
\* signed and in whatever order they arrive, and nothing it signs is published.
RetiredKeysPowerless ==
  /\ \A x \in Buses : \A b \in DOMAIN bound[x] :
       ({bound[x][b].key} \cup bound[x][b].custodians) \cap lost = {}
  /\ strays = {}

\* Two different successions of one epoch of b have been authorised.
Forked(b) ==
  \E s, t \in rotated : s # t /\ s.biome = b /\ t.biome = b /\ s.from = t.from

\* "Which is what stops a captured succession being replayed": buses that are
\* at the same epoch of a biome are bound alike, in spite of loss, delay and
\* replay, unless two different successions of one epoch were authorised.
ForksNeedTwoSuccessions ==
  \A x, y \in Buses : \A b \in DOMAIN bound[x] \cap DOMAIN bound[y] :
    bound[x][b].epoch = bound[y][b].epoch /\ bound[x][b] # bound[y][b] => Forked(b)

\* A bus that missed successions can catch up: as long as the biome has not
\* forked, a bus behind another one finds among the successions applied
\* elsewhere one that leads on from its own epoch and that the keys it has
\* bound itself have authorised, however the others came by theirs.
CatchUp ==
  \A x, y \in Buses : \A b \in DOMAIN bound[x] \cap DOMAIN bound[y] :
    bound[x][b].epoch < bound[y][b].epoch /\ ~Forked(b) =>
      \E st \in rotated :
        /\ st.biome = b /\ st.from = bound[x][b].epoch /\ st.to > st.from
        /\ Authorised(bound[x][b], st)
        /\ \A i \in DOMAIN st.custodians : Declarable(st.custodians[i])

\* A succession that will never be applied: nobody bound has signed it, or its
\* epoch is over at every bus.
Dead(st) ==
  \/ Signers(st) \subseteq lost
  \/ \A x \in Buses : st.from < bound[x][st.biome].epoch

\* The inductive strengthening of RetiredKeysPowerless: a lost key is bound
\* nowhere, and all that was signed in its favour is dead.
BusInv ==
  /\ TypeOK
  /\ \A k \in lost, x \in Buses, b \in Biomes :
       /\ b \in DOMAIN bound[x]
       /\ k # bound[x][b].key /\ k \notin bound[x][b].custodians
  /\ \A k \in lost, st \in Signed : Names(st, k) => Dead(st)
  /\ strays = {}

\* The epochs that some bus has been at.
Reached(b) == {Genesis[b].epoch} \cup {st.to : st \in {s \in rotated : s.biome = b}}

\* What a bus has asked of a succession that it took cur over with.
Leads(cur, st) ==
  /\ st.to > st.from
  /\ Authorised(cur, st)
  /\ \A i \in DOMAIN st.custodians : Declarable(st.custodians[i])

\* H is the history of b's bindings: it begins with the genesis, each applied
\* succession leads on from one reached epoch to another, all but the last have
\* one that does, and the buses are on it.
Line(b, H) ==
  /\ H[Genesis[b].epoch] = GenesisKey(b)
  /\ \A d \in Reached(b) : IsFiniteSet(H[d].custodians)
  /\ \A st \in rotated : st.biome = b =>
       /\ st.from \in Reached(b) /\ H[st.to] = Succeeded(H[st.from], st)
       /\ Leads(H[st.from], st)
  /\ \A d, e \in Reached(b) : d < e => \E st \in rotated : st.biome = b /\ st.from = d
  /\ \A x \in Buses : b \in DOMAIN bound[x] =>
       bound[x][b].epoch \in Reached(b) /\ bound[x][b] = H[bound[x][b].epoch]

\* The inductive strengthening of ForksNeedTwoSuccessions and CatchUp: a biome
\* that has not forked has one line of bindings.
LineInv == \A b \in Biomes : Forked(b) \/ \E H \in [Epochs -> BiomeKey] : Line(b, H)
=============================================================================
