------------------------- MODULE MCObservationStore -------------------------
(***************************************************************************)
(* TLC instances of ObservationStore: three or four keys, appended in      *)
(* every order, so also out of measurement order.  With two records to a   *)
(* segment, recoveries resume a segment that is part-filled; with one,     *)
(* a retention pass has several segments to delete and may stop halfway.   *)
(* The configurations differ in the failures.                              *)
(***************************************************************************)
EXTENDS ObservationStore

CONSTANTS k1, k2, k3, k4

Opened(sync, max, keys, faultset) ==
  [sync |-> sync, max |-> max, keys |-> keys, faults |-> faultset]

\* The modes in which the store must lose nothing that it acknowledged, and a
\* daemon whose writes may also fail, or stop before a newline.
AllModes ==
  {Opened(FALSE, 2, RecordKeys, {"crash"}), Opened(TRUE, 2, RecordKeys, {"power"}),
   Opened(FALSE, 1, RecordKeys, {"crash"})}
  \cup {Opened(TRUE, max, {k1, k2, k3}, {"crash", "linecut", "ioerror"}) : max \in {1, 2}}

\* A crash anywhere.
CrashOnly == {Opened(FALSE, 2, RecordKeys, {"crash", "linecut"})}

MCMeasured == [k \in RecordKeys |-> CASE k = k1 -> 1 [] k = k3 -> 2 [] OTHER -> 3]
=============================================================================
