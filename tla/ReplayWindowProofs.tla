------------------------- MODULE ReplayWindowProofs -------------------------
(***************************************************************************)
(* What check_and_update guarantees for a bitmap of any width: the window  *)
(* remains an exact record of what it accepted, and never accepts a number *)
(* twice.                                                                  *)
(***************************************************************************)
EXTENDS ReplayWindow, TLAPS

\* A fresh window (ReplayWindow::new) remembers the empty set.
LEMMA FreshRemembers == FreshWindow \in Window /\ Remembers(FreshWindow, {})
  BY DEF FreshWindow, Window, Remembers, NoSeq, Bits

\* Advancing keeps the bitmap inside its width and moves every bit it keeps
\* by exactly shift, with the old highest number at shift - 1.
LEMMA AdvancedBits ==
  ASSUME NEW bitmap \in SUBSET Bits, NEW shift \in Nat \ {0}
  PROVE  /\ Advanced(bitmap, shift) \in SUBSET Bits
         /\ \A i \in Bits : i \in Advanced(bitmap, shift) <=>
               \/ i = shift - 1
               \/ i >= shift /\ i - shift \in bitmap
<1> USE WidthAssumption DEF Bits
<1>1. CASE shift < W
  BY <1>1 DEF Advanced, ShiftLeft
<1>2. CASE shift = W
  <2>1. Advanced(bitmap, shift) = {W - 1}
    BY <1>2 DEF Advanced
  <2>2. QED BY <2>1, <1>2
<1>3. CASE shift > W
  <2>1. Advanced(bitmap, shift) = {}
    BY <1>3 DEF Advanced
  <2>2. QED BY <2>1, <1>3
<1>4. QED BY <1>1, <1>2, <1>3

\* The heart of the anti-replay window: a number it accepts is new, and the
\* updated window is an exact record of the enlarged set.
LEMMA UpdateRemembers ==
  ASSUME NEW w \in Window, NEW S \in SUBSET Nat, NEW seq \in Nat,
         Remembers(w, S), Check(w, seq) = "Ok"
  PROVE  /\ seq \notin S
         /\ Update(w, seq) \in Window
         /\ Remembers(Update(w, seq), S \cup {seq})
<1> DEFINE w2 == Update(w, seq)
<1> USE WidthAssumption
<1>0. w.highest \in Nat \cup {NoSeq} /\ w.bitmap \in SUBSET Bits
  BY DEF Window
<1>1. CASE w.highest = NoSeq
  <2>1. w2 = [highest |-> seq, bitmap |-> {}] /\ S = {}
    BY <1>1 DEF Update, Remembers
  <2>2. w2 \in Window
    BY <2>1 DEF Window
  <2>3. Remembers(w2, {seq})
    BY <2>1 DEF Remembers, NoSeq, Bits
  <2>4. QED BY <2>1, <2>2, <2>3
<1>2. CASE w.highest # NoSeq /\ seq > w.highest
  <2> DEFINE shift == seq - w.highest
  <2>1. w.highest \in Nat /\ shift \in Nat \ {0}
    BY <1>0, <1>2
  <2>2. w2 = [highest |-> seq, bitmap |-> Advanced(w.bitmap, shift)]
    BY <1>2 DEF Update
  <2>3. Advanced(w.bitmap, shift) \in SUBSET Bits
    BY <1>0, <2>1, AdvancedBits
  <2>4. w2 \in Window
    BY <2>2, <2>3 DEF Window
  <2>5. seq \notin S
    BY <1>2, <2>1 DEF Remembers
  <2>6. \A i \in Bits : i \in w2.bitmap <=> seq - 1 - i \in S \cup {seq}
    <3> SUFFICES ASSUME NEW i \in Bits
                 PROVE  i \in Advanced(w.bitmap, shift) <=> seq - 1 - i \in S
      BY <2>2 DEF Bits
    <3>1. i \in Int /\ i >= 0 /\ i < W
      BY DEF Bits
    <3>2. i \in Advanced(w.bitmap, shift) <=>
            (i = shift - 1 \/ (i >= shift /\ i - shift \in w.bitmap))
      BY <1>0, <2>1, AdvancedBits
    <3>3. CASE i >= shift
      <4>1. i - shift \in Bits /\ w.highest - 1 - (i - shift) = seq - 1 - i
        BY <3>1, <3>3, <2>1 DEF Bits
      <4>2. i - shift \in w.bitmap <=> seq - 1 - i \in S
        BY <4>1, <1>2 DEF Remembers
      <4>3. QED BY <3>1, <3>2, <3>3, <4>2, <2>1
    <3>4. CASE i = shift - 1
      <4>1. seq - 1 - i = w.highest
        BY <3>4, <2>1
      <4>2. QED BY <4>1, <3>2, <3>4, <1>2 DEF Remembers
    <3>5. CASE i < shift - 1
      <4>1. seq - 1 - i > w.highest
        BY <3>5, <3>1, <2>1
      <4>2. seq - 1 - i \notin S
        BY <4>1, <2>1, <3>1, <1>2 DEF Remembers
      <4>3. QED BY <4>2, <3>2, <3>5, <3>1, <2>1
    <3>6. QED BY <3>1, <3>3, <3>4, <3>5, <2>1
  <2>7. \A s \in S \cup {seq} : s <= seq
    BY <1>2, <2>1 DEF Remembers
  <2>8. Remembers(w2, S \cup {seq})
    BY <2>2, <2>6, <2>7 DEF Remembers, NoSeq
  <2>9. QED BY <2>4, <2>5, <2>8
<1>3. CASE w.highest # NoSeq /\ seq <= w.highest
  <2> DEFINE bit == w.highest - seq - 1
  <2>1. w.highest \in Nat
    BY <1>0, <1>3
  <2>2. bit \in Bits /\ bit \notin w.bitmap /\ seq < w.highest
    BY <1>3, <2>1 DEF Check, Bits
  <2>3. w2 = [w EXCEPT !.bitmap = @ \cup {bit}]
    BY <1>3, <2>1 DEF Update
  <2>4. w2.highest = w.highest /\ w2.bitmap = w.bitmap \cup {bit} /\ w2 \in Window
    BY <2>3, <2>2 DEF Window
  <2>5. seq \notin S
    BY <2>2, <2>1, <1>3 DEF Remembers
  <2>6. \A i \in Bits : i \in w2.bitmap <=> w.highest - 1 - i \in S \cup {seq}
    <3> SUFFICES ASSUME NEW i \in Bits
                 PROVE  i \in w.bitmap \cup {bit} <=> w.highest - 1 - i \in S \cup {seq}
      BY <2>4
    <3>1. i \in w.bitmap <=> w.highest - 1 - i \in S
      BY <1>3 DEF Remembers
    <3>2. i = bit <=> w.highest - 1 - i = seq
      BY <2>1 DEF Bits
    <3>3. QED BY <3>1, <3>2
  <2>7. \A s \in S \cup {seq} : s <= w.highest
    BY <1>3, <2>2 DEF Remembers
  <2>8. w.highest \in S
    BY <1>3 DEF Remembers
  <2>9. Remembers(w2, S \cup {seq})
    BY <2>4, <2>6, <2>7, <2>8, <1>3 DEF Remembers
  <2>10. QED BY <2>4, <2>5, <2>9
<1>4. QED BY <1>0, <1>1, <1>2, <1>3 DEF NoSeq

\* A number the window refuses as a replay was accepted before, and one it
\* refuses as too old lies W or more below a number that was.
LEMMA RefusalsJustified ==
  ASSUME NEW w \in Window, NEW S \in SUBSET Nat, NEW seq \in Nat, Remembers(w, S)
  PROVE  /\ Check(w, seq) = "Replay" => seq \in S
         /\ Check(w, seq) = "TooOld" => \E t \in S : t >= seq + W
<1> USE WidthAssumption
<1>1. CASE w.highest = NoSeq
  BY <1>1 DEF Check
<1>2. CASE w.highest # NoSeq
  <2>1. w.highest \in Nat /\ w.highest \in S
    BY <1>2 DEF Window, Remembers
  <2>2. ASSUME Check(w, seq) = "Replay", seq # w.highest
        PROVE  seq \in S
    <3>1. w.highest - seq - 1 \in Bits /\ w.highest - seq - 1 \in w.bitmap
      BY <2>1, <2>2 DEF Check, Window, Bits
    <3>2. w.highest - 1 - (w.highest - seq - 1) = seq
      BY <2>1
    <3>3. QED BY <1>2, <3>1, <3>2 DEF Remembers
  <2>3. ASSUME Check(w, seq) = "TooOld"
        PROVE  w.highest >= seq + W
    BY <2>1, <2>3 DEF Check
  <2>4. QED BY <2>1, <2>2, <2>3
<1>3. QED BY <1>1, <1>2
=============================================================================
