---------------------------- MODULE MCCalibration ----------------------------
(***************************************************************************)
(* TLC instance of Calibration: two devices and two modalities; an         *)
(* authority for everything and one for soil alone; up to three records.   *)
(***************************************************************************)
EXTENDS Calibration, TLC

CONSTANTS n1, n2, soil, air, lab, farm

MCTrusted == lab :> {} @@ farm :> {soil}

\* Record 1 is of the first device and short-lived, record 3 is younger than
\* the others.  Any of them may be a root or name any other as its parent.
MCOffered ==
  {r \in Record : /\ r.created = IF r.id = 3 THEN 1 ELSE 0
                  /\ r.expires = IF r.id = 1 THEN 1 ELSE 2
                  /\ r.id = 1 => r.node = n1
                  /\ r.id = 2 => r.node = n1
                  /\ r.anchored => r.parent = None
                  /\ r.signer = NoSigner => r.parent = None}
=============================================================================
