---------------------------- MODULE ReplayWindow ----------------------------
(***************************************************************************)
(* The per-device anti-replay window of rucelium-ingest: the highest       *)
(* sequence number accepted so far and a bitmap of the W numbers below it. *)
(* The bitmap is the set of the positions of its one bits; bit i stands    *)
(* for sequence number highest - 1 - i.  The code has W = 64.              *)
(***************************************************************************)
EXTENDS Integers

CONSTANT W      \* width of the bitmap

ASSUME WidthAssumption == W \in Nat \ {0}

\* `None` of the Option<u32> that holds the highest sequence number.
NoSeq == -1

Bits == 0 .. W - 1

Window == [highest : Nat \cup {NoSeq}, bitmap : SUBSET Bits]

\* ReplayWindow::new
FreshWindow == [highest |-> NoSeq, bitmap |-> {}]

\* bitmap << shift in a word of W bits: bits shifted past the top are lost.
ShiftLeft(bitmap, shift) == {b \in shift .. W - 1 : b - shift \in bitmap}

\* Fault: the old highest number lands one bit too far.
Advanced_OffByOne(bitmap, shift) ==
  IF shift < W THEN ShiftLeft(bitmap, shift) \cup {shift}
  ELSE IF shift = W THEN {W - 1}
  ELSE {}

\* The bitmap after the window advances by shift >= 1: the old highest
\* number becomes bit shift - 1.
Advanced(bitmap, shift) ==
  IF shift < W THEN ShiftLeft(bitmap, shift) \cup {shift - 1}
  ELSE IF shift = W THEN {W - 1}
  ELSE {}

\* The verdict of check_and_update on a sequence number.
Check(w, seq) ==
  IF w.highest = NoSeq \/ seq > w.highest THEN "Ok"
  ELSE IF seq = w.highest THEN "Replay"
  ELSE IF w.highest - seq > W - 1 THEN "TooOld"
  ELSE IF w.highest - seq - 1 \in w.bitmap THEN "Replay"
  ELSE "Ok"

\* Fault: a number accepted below the highest one is not recorded.
Update_Forgetful(w, seq) ==
  IF Check(w, seq) # "Ok" THEN w
  ELSE IF w.highest = NoSeq THEN [highest |-> seq, bitmap |-> {}]
  ELSE IF seq > w.highest
       THEN [highest |-> seq, bitmap |-> Advanced(w.bitmap, seq - w.highest)]
  ELSE w

\* The window after check_and_update: unchanged unless the verdict is Ok.
Update(w, seq) ==
  IF Check(w, seq) # "Ok" THEN w
  ELSE IF w.highest = NoSeq THEN [highest |-> seq, bitmap |-> {}]
  ELSE IF seq > w.highest
       THEN [highest |-> seq, bitmap |-> Advanced(w.bitmap, seq - w.highest)]
  ELSE [w EXCEPT !.bitmap = @ \cup {w.highest - seq - 1}]

\* What a window means: it is an exact record of the set S of accepted
\* numbers, as far down as the bitmap reaches.
Remembers(w, S) ==
  /\ w.highest = NoSeq <=> S = {}
  /\ w.highest = NoSeq => w.bitmap = {}
  /\ w.highest # NoSeq =>
       /\ w.highest \in S
       /\ \A s \in S : s <= w.highest
       /\ \A i \in Bits : i \in w.bitmap <=> w.highest - 1 - i \in S
=============================================================================
