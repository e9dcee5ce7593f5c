----------------------------- MODULE DurableLog -----------------------------
(***************************************************************************)
(* What the stores of rucelium-store promise their callers, with no files: *)
(* a set of known keys that are never stored twice, the records that are   *)
(* present, and the keys that a caller was told are stored.  A failure may *)
(* take back a record only before that answer was given; afterwards the    *)
(* key is known for ever and the record leaves only by retention.          *)
(***************************************************************************)
EXTENDS Naturals

CONSTANTS RecordKeys,   \* dedup keys
          Measured      \* key -> measured_ns of its sample

VARIABLES known,        \* keys whose append is refused as a duplicate
          present,      \* keys whose record can be read
          promised,     \* keys whose append has been answered with Ok
          horizon       \* the newest expiry a retention pass has applied

lvars == <<known, present, promised, horizon>>

Init == known = {} /\ present = {} /\ promised = {} /\ horizon = 0

\* A record is stored and its key known in the same step.
Put(k) ==
  /\ k \notin known
  /\ known' = known \cup {k} /\ present' = present \cup {k}
  /\ UNCHANGED <<promised, horizon>>

\* append answers Ok(Appended) or Ok(Duplicate).
Promise(k) ==
  /\ k \in known
  /\ promised' = promised \cup {k}
  /\ UNCHANGED <<known, present, horizon>>

\* A retention pass deletes some records measured at or before its cutoff.
Expire(cutoff) ==
  /\ present' \in SUBSET present
  /\ \A k \in present \ present' : Measured[k] <= cutoff
  /\ horizon' = IF horizon >= cutoff THEN horizon ELSE cutoff
  /\ UNCHANGED <<known, promised>>

\* A failure takes back appends that were never answered.
Lose ==
  /\ known' \in SUBSET known
  /\ promised \subseteq known'
  /\ present' = present \cap known'
  /\ UNCHANGED <<promised, horizon>>

Next ==
  \/ \E k \in RecordKeys : Put(k) \/ Promise(k)
  \/ \E k \in RecordKeys : Expire(Measured[k])
  \/ Lose

Spec == Init /\ [][Next]_lvars
=============================================================================
