------------------------------- MODULE MCOutage -------------------------------
(***************************************************************************)
(* TLC instance of Outage: one device, two keys and two sequence numbers,  *)
(* so that a replay can fail at either, an old key's envelope can lie in   *)
(* the buffer and a stranger's in the snapshot.  The windows and their     *)
(* histories are checked in full by MCIngest.                              *)
(***************************************************************************)
EXTENDS Outage, TLC

\* While a list is replayed the registry stays as it is, so of an envelope
\* that will not reverify nothing but its key, or that it does not decode, is
\* ever read again.
Outline(list) ==
  [i \in DOMAIN list |->
     IF ~list[i].decodes THEN <<"undecodable">>
     ELSE IF Restorable(list[i]) THEN <<"restorable", list[i]>>
     ELSE <<"refused", KeyOf(list[i])>>]

\* All that a guard, an effect or a property reads.
View == <<registry, revoked, windows, offline, phase, Outline(rest), buffer, Outline(snapshot),
          biome, signed, taken, doubtful>>

Symmetry == Permutations(Keys)
=============================================================================
