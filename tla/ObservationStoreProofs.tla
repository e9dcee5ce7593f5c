------------------------ MODULE ObservationStoreProofs ------------------------
(***************************************************************************)
(* For any keys, measurements, options and number of failures: what the    *)
(* index keeps, which is all that DedupForever needs; then what tolerated  *)
(* failures leave of the files, from which come one record per key, an     *)
(* open that never refuses, a memory that a restart would rebuild, and the *)
(* implementation of DurableLog.                                           *)
(***************************************************************************)
EXTENDS ObservationStore, FiniteSetTheorems, SequenceTheorems, WellFoundedInduction, TLAPS

-----------------------------------------------------------------------------
(* Files, their lines, and what a listing of lines looks like.             *)

LEMMA LeastNatural ==
  ASSUME NEW T, T \subseteq Nat, T # {}
  PROVE  \E x \in T : \A y \in T : x <= y
<1> DEFINE R == {ss \in Nat \X Nat : ss[1] < ss[2]}
<1>1. IsWellFoundedOn(R, Nat)
  BY NatLessThanWellFounded DEF OpToRel
<1>2. PICK x \in T : \A y \in T : ~ (<<y, x>> \in R)
  <2> HIDE DEF R
  <2> QED BY <1>1, WFMin
<1>3. ASSUME NEW y \in T PROVE x <= y
  <2>1. x \in Nat /\ y \in Nat
    OBVIOUS
  <2>2. y < x => <<y, x>> \in R
    BY <2>1
  <2> QED BY <1>2, <2>1, <2>2
<1> QED BY <1>3

LEMMA Tokens ==
  ASSUME NEW k
  PROVE  /\ Entry(k) # Newline /\ Entry(k) # Torn /\ Newline # Torn
         /\ Entry(k)[2] = k
         /\ \A j : Entry(j) = Entry(k) => j = k
         /\ k \in RecordKeys => Entry(k) \in Token
         /\ Newline \in Token /\ Torn \in Token /\ Digits \in Token /\ Digits # Newline
<1>1. Entry(k)[1] = "entry" /\ Entry(k)[2] = k /\ Newline[1] = "newline" /\ Torn[1] = "torn"
  BY DEF Entry, Newline, Torn
<1>2. Entry(k) # Newline /\ Entry(k) # Torn /\ Newline # Torn
  BY <1>1
<1>3. \A j : Entry(j)[2] = j
  BY DEF Entry
<1>4. \A j : Entry(j) = Entry(k) => j = k
  BY <1>1, <1>3
<1>5. Digits # Newline
  BY DEF Digits, Newline
<1> QED BY <1>1, <1>2, <1>4, <1>5 DEF Token

\* A file as a function.
LEMMA FileFacts ==
  ASSUME NEW f \in File
  PROVE  /\ Len(f) \in Nat /\ DOMAIN f = 1 .. Len(f)
         /\ \A i \in 1 .. Len(f) : f[i] \in Token
  BY LenProperties DEF File

\* Agreement on the first n tokens.
Agree(f, g, n) == n <= Len(f) /\ n <= Len(g) /\ \A i \in 1 .. n : f[i] = g[i]

LEMMA AgreeStarts ==
  ASSUME NEW f \in File, NEW g \in File, NEW n \in Nat, Agree(f, g, n), NEW i \in 1 .. n
  PROVE  i \in LineStarts(f) => i \in LineStarts(g)
<1>1. i \in DOMAIN g
  BY FileFacts DEF Agree
<1>2. i # 1 => i - 1 \in 1 .. n
  OBVIOUS
<1> QED BY <1>1, <1>2 DEF LineStarts, Agree

LEMMA KeepsLonger ==
  ASSUME NEW f \in File, NEW g \in File, NEW n \in Nat, NEW m \in Nat, Agree(f, g, n),
         n <= m, m <= Len(g), NEW K, Keeps(f, n, K)
  PROVE  Keeps(g, m, K)
<1>0. Len(f) \in Nat /\ Len(g) \in Nat /\ DOMAIN f = 1 .. Len(f) /\ DOMAIN g = 1 .. Len(g)
  BY FileFacts
<1>1. CASE Spoilt(f, n)
  <2>1. PICK i \in BadLines(f), j \in 1 .. n : i <= j /\ f[j] = Newline
    BY <1>1 DEF Spoilt
  <2>2. i \in 1 .. n /\ i \in LineStarts(f) /\ ~Decodes(f, i)
    BY <2>1, <1>0 DEF BadLines, LineStarts
  <2>3. i \in LineStarts(g)
    BY <2>2, AgreeStarts
  <2>4. ~Decodes(g, i)
    <3>1. SUFFICES ASSUME Decodes(g, i) PROVE FALSE
      OBVIOUS
    <3>2. g[i] = f[i] /\ g[j] = f[j]
      BY <2>1, <2>2 DEF Agree
    <3>3. EntryAt(f, i) /\ EntryAt(g, i)
      BY <3>1, <3>2 DEF Decodes, EntryAt
    <3>4. f[i] # Newline
      BY <3>3, Tokens DEF EntryAt
    <3>5. i < j /\ i + 1 \in 1 .. n /\ j <= Len(g)
      BY <3>4, <2>1, <2>2, <1>0 DEF Agree
    <3>6. f[i + 1] = g[i + 1] /\ i # Len(g)
      BY <3>5, <1>0 DEF Agree
    <3> QED BY <3>1, <3>3, <3>6, <2>2 DEF Decodes
  <2>5. j \in 1 .. m /\ g[j] = Newline
    BY <2>1 DEF Agree
  <2> QED BY <2>1, <2>3, <2>4, <2>5 DEF Keeps, Spoilt, BadLines
<1>2. CASE \A k \in K : HasLine(f, n, k)
  <2>1. ASSUME NEW k \in K PROVE HasLine(g, m, k)
    <3>1. PICK i \in LineStarts(f) : i < n /\ f[i] = Entry(k) /\ f[i + 1] = Newline
      BY <1>2 DEF HasLine
    <3>2. i \in 1 .. n /\ i + 1 \in 1 .. n
      BY <3>1, <1>0 DEF LineStarts
    <3>3. i \in LineStarts(g)
      BY <3>2, AgreeStarts
    <3> QED BY <3>1, <3>2, <3>3 DEF HasLine, Agree
  <2> QED BY <2>1 DEF Keeps
<1> QED BY <1>1, <1>2 DEF Keeps

\* The line that position n lies on.
LEMMA StartOfLine ==
  ASSUME NEW f \in File, NEW n \in 1 .. Len(f)
  PROVE  \E i \in LineStarts(f) : i <= n /\ \A j \in i .. n - 1 : f[j] # Newline
<1>0. Len(f) \in Nat /\ DOMAIN f = 1 .. Len(f) /\ n \in Nat
  BY FileFacts
<1> DEFINE T == {t \in 0 .. n : n - t \in LineStarts(f)}
<1>1. T # {} /\ T \subseteq Nat
  <2>1. 1 \in LineStarts(f)
    BY <1>0 DEF LineStarts
  <2>2. n - 1 \in 0 .. n /\ n - (n - 1) = 1
    BY <1>0
  <2>3. n - 1 \in T
    BY <2>1, <2>2
  <2>4. \A t \in T : t \in Nat
    BY <1>0
  <2> HIDE DEF T
  <2> QED BY <2>3, <2>4
<1>2. PICK t \in T : \A u \in T : t <= u
  <2> HIDE DEF T
  <2> QED BY <1>1, LeastNatural
<1>3. PICK i : i = n - t
  OBVIOUS
<1>4. i \in LineStarts(f) /\ i <= n /\ i \in 1 .. n
  BY <1>0, <1>3 DEF LineStarts
<1>5. ASSUME NEW j \in i .. n - 1, f[j] = Newline PROVE FALSE
  <2>1. j + 1 \in 1 .. Len(f) /\ (j + 1) - 1 = j
    BY <1>0, <1>4
  <2>2. j + 1 \in LineStarts(f)
    BY <2>1, <1>0, <1>5 DEF LineStarts
  <2>3. n - (j + 1) \in 0 .. n /\ n - (n - (j + 1)) = j + 1
    BY <1>0, <1>4
  <2>4. n - (j + 1) \in T
    BY <2>2, <2>3
  <2>5. t <= n - (j + 1)
    BY <2>4, <1>2
  <2> QED BY <2>5, <1>3, <1>4, <1>0
<1> QED BY <1>4, <1>5

\* append_dedup_lines behind whatever the file ends in.
LEMMA LineAppended ==
  ASSUME NEW f \in File, NEW k \in RecordKeys, NEW g, g = f \o <<Entry(k), Newline>>
  PROVE  /\ g \in File /\ Len(g) = Len(f) + 2 /\ Agree(f, g, Len(f))
         /\ g[Len(f) + 1] = Entry(k) /\ g[Len(f) + 2] = Newline
         /\ Keeps(g, Len(g), {k})
<1>0. Len(f) \in Nat /\ DOMAIN f = 1 .. Len(f) /\ \A i \in 1 .. Len(f) : f[i] \in Token
  BY FileFacts
<1>1. PICK l \in Nat : l = Len(f)
  BY <1>0
<1>2. PICK s \in File : s = <<Entry(k), Newline>> /\ Len(s) = 2 /\ s[1] = Entry(k) /\ s[2] = Newline
  <2>1. PICK a \in Token : a = Entry(k)
    BY Tokens
  <2>2. PICK b \in Token : b = Newline
    BY Tokens
  <2>3. <<a, b>> \in Seq(Token) /\ Len(<<a, b>>) = 2 /\ <<a, b>>[1] = a /\ <<a, b>>[2] = b
    OBVIOUS
  <2> QED BY <2>1, <2>2, <2>3 DEF File
<1>3. /\ g \in File /\ Len(g) = l + 2
      /\ \A i \in 1 .. l + 2 : g[i] = IF i <= l THEN f[i] ELSE s[i - l]
  BY <1>1, <1>2, ConcatProperties DEF File
<1>4. g[l + 1] = Entry(k) /\ g[l + 2] = Newline /\ \A i \in 1 .. l : g[i] = f[i]
  <2>1. l + 1 \in 1 .. l + 2 /\ l + 2 \in 1 .. l + 2 /\ (l + 1) - l = 1 /\ (l + 2) - l = 2
    OBVIOUS
  <2>2. g[l + 1] = s[1] /\ g[l + 2] = s[2]
    <3>1. \A i \in 1 .. l + 2 : ~(i <= l) => g[i] = s[i - l]
      BY <1>3
    <3>2. ~(l + 1 <= l) /\ ~(l + 2 <= l)
      OBVIOUS
    <3>3. g[l + 1] = s[(l + 1) - l]
      BY <2>1, <3>1, <3>2
    <3>4. g[l + 2] = s[(l + 2) - l]
      BY <2>1, <3>1, <3>2
    <3> QED BY <2>1, <3>3, <3>4
  <2>3. \A i \in 1 .. l : g[i] = f[i]
    BY <1>3
  <2> QED BY <2>2, <2>3, <1>2
<1>5. DOMAIN g = 1 .. l + 2
  BY <1>3, FileFacts
<1>6. Agree(f, g, l)
  BY <1>1, <1>3, <1>4 DEF Agree
<1>7. Keeps(g, l + 2, {k})
  <2>1. CASE l + 1 \in LineStarts(g)
    <3>1. HasLine(g, l + 2, k)
      <4>1. l + 1 < l + 2 /\ (l + 1) + 1 = l + 2
        OBVIOUS
      <4> QED BY <4>1, <2>1, <1>4 DEF HasLine
    <3> QED BY <3>1 DEF Keeps
  <2>2. CASE l + 1 \notin LineStarts(g)
    <3>1. l \in 1 .. Len(g) /\ l \in 1 .. l /\ g[l] # Newline
      <4>1. l + 1 # 1 /\ g[(l + 1) - 1] # Newline
        BY <2>2, <1>5 DEF LineStarts
      <4> QED BY <4>1, <1>3
    <3>2. PICK i \in LineStarts(g) : i <= l /\ \A j \in i .. l - 1 : g[j] # Newline
      BY <3>1, <1>3, StartOfLine
    <3>3. i \in 1 .. l
      BY <3>2, <1>5 DEF LineStarts
    <3>4. g[i + 1] # Newline
      <4>1. i = l \/ i + 1 = l \/ i + 1 \in i .. l - 1
        BY <3>3
      <4>2. i = l => g[i + 1] = Entry(k)
        BY <1>4
      <4> QED BY <4>1, <4>2, <3>1, <3>2, Tokens
    <3>5. ~Decodes(g, i)
      BY <3>3, <3>4, <1>3 DEF Decodes
    <3>6. l + 2 \in 1 .. l + 2 /\ i <= l + 2
      BY <3>3
    <3> QED BY <3>2, <3>5, <3>6, <1>4 DEF Keeps, Spoilt, BadLines
  <2> QED BY <2>1, <2>2
<1> QED BY <1>1, <1>3, <1>4, <1>6, <1>7

LEMMA PrefixFacts ==
  ASSUME NEW f \in File, NEW m \in 0 .. Len(f)
  PROVE  SubSeq(f, 1, m) \in File /\ Len(SubSeq(f, 1, m)) = m /\ Agree(f, SubSeq(f, 1, m), m)
<1>0. Len(f) \in Nat /\ \A i \in 1 .. Len(f) : f[i] \in Token
  BY FileFacts
<1>1. m \in Nat /\ m - 1 + 1 = m /\ \A i \in 1 .. m : f[i] \in Token
  BY <1>0
<1>2. PICK g : g = SubSeq(f, 1, m)
  OBVIOUS
<1>3. g \in Seq(Token) /\ Len(g) = (IF 1 <= m THEN m - 1 + 1 ELSE 0)
      /\ \A i \in 1 .. m - 1 + 1 : g[i] = f[1 + i - 1]
  BY <1>1, <1>2, SubSeqProperties
<1>4. Len(g) = m /\ \A i \in 1 .. m : g[i] = f[i]
  BY <1>1, <1>3
<1> QED BY <1>0, <1>1, <1>2, <1>3, <1>4 DEF File, Agree

LEMMA RepairedIndexFacts ==
  ASSUME NEW f \in File
  PROVE  \E m \in 0 .. Len(f) :
           /\ RepairedIndex(f) = SubSeq(f, 1, m)
           /\ m = 0 \/ f[m] = Newline
           /\ \A j \in m + 1 .. Len(f) : f[j] # Newline
<1>0. Len(f) \in Nat /\ DOMAIN f = 1 .. Len(f)
  BY FileFacts
<1>1. CASE \E i \in LineStarts(f) : ~Terminated(f, i)
  <2>1. PICK i : i = CHOOSE j \in LineStarts(f) : ~Terminated(f, j)
    OBVIOUS
  <2>2. i \in LineStarts(f) /\ ~Terminated(f, i)
    BY <1>1, <2>1
  <2>3. RepairedIndex(f) = SubSeq(f, 1, i - 1)
    BY <1>1, <2>1 DEF RepairedIndex
  <2>4. i \in 1 .. Len(f) /\ (i = 1 \/ f[i - 1] = Newline)
    BY <2>2, <1>0 DEF LineStarts
  <2>5. \A j \in i .. Len(f) : f[j] # Newline
    BY <2>2 DEF Terminated
  <2>6. i - 1 \in 0 .. Len(f) /\ (i - 1) + 1 = i /\ (i = 1 => i - 1 = 0)
    BY <2>4, <1>0
  <2> QED BY <2>3, <2>4, <2>5, <2>6
<1>2. CASE ~\E i \in LineStarts(f) : ~Terminated(f, i)
  <2>1. RepairedIndex(f) = SubSeq(f, 1, Len(f))
    <3>1. SubSeq(f, 1, Len(f)) = f
      BY SubSeqFull DEF File
    <3> QED BY <3>1, <1>2 DEF RepairedIndex
  <2>2. Len(f) = 0 \/ f[Len(f)] = Newline
    <3>1. SUFFICES ASSUME Len(f) # 0 PROVE f[Len(f)] = Newline
      OBVIOUS
    <3>2. Len(f) \in 1 .. Len(f)
      BY <1>0, <3>1
    <3>3. PICK i \in LineStarts(f) : i <= Len(f) /\ \A j \in i .. Len(f) - 1 : f[j] # Newline
      BY <3>2, StartOfLine
    <3>4. PICK j \in i .. Len(f) : f[j] = Newline
      BY <1>2 DEF Terminated
    <3>5. i \in 1 .. Len(f)
      BY <1>0 DEF LineStarts
    <3>6. j = Len(f) \/ j \in i .. Len(f) - 1
      <4>1. PICK l \in Nat : l = Len(f)
        BY <1>0
      <4>2. i \in 1 .. l /\ j \in i .. l
        BY <4>1, <3>5
      <4>3. j = l \/ j \in i .. l - 1
        BY <4>2
      <4> QED BY <4>1, <4>3
    <3> QED BY <3>3, <3>4, <3>6
  <2>3. Len(f) \in 0 .. Len(f) /\ \A j \in Len(f) + 1 .. Len(f) : f[j] # Newline
    BY <1>0
  <2> QED BY <2>1, <2>2, <2>3
<1> QED BY <1>1, <1>2

LEMMA RepairedIndexKeeps ==
  ASSUME NEW f \in File, NEW g, g = RepairedIndex(f)
  PROVE  /\ g \in File /\ Len(g) <= Len(f) /\ Agree(f, g, Len(g)) /\ Ended(g)
         /\ \A K : Keeps(f, Len(f), K) => Keeps(g, Len(g), K)
<1>0. Len(f) \in Nat /\ DOMAIN f = 1 .. Len(f)
  BY FileFacts
<1>1. PICK m \in 0 .. Len(f) : /\ g = SubSeq(f, 1, m)
                               /\ m = 0 \/ f[m] = Newline
                               /\ \A j \in m + 1 .. Len(f) : f[j] # Newline
  BY RepairedIndexFacts
<1>2. g \in File /\ Len(g) = m /\ Agree(f, g, m) /\ m \in Nat /\ m <= Len(f)
  BY <1>0, <1>1, PrefixFacts
<1>3. Ended(g)
  BY <1>1, <1>2 DEF Ended, Agree
<1>4. ASSUME NEW K, Keeps(f, Len(f), K) PROVE Keeps(f, m, K)
  <2>1. \A j \in 1 .. Len(f) : f[j] = Newline => j \in 1 .. m
    <3>1. \A j \in 1 .. Len(f) : j \in 1 .. m \/ j \in m + 1 .. Len(f)
      BY <1>0, <1>1
    <3> QED BY <3>1, <1>1
  <2>2. CASE Spoilt(f, Len(f))
    BY <2>1, <2>2 DEF Keeps, Spoilt
  <2>3. CASE \A k \in K : HasLine(f, Len(f), k)
    <3>1. ASSUME NEW k \in K PROVE HasLine(f, m, k)
      <4>1. PICK i \in LineStarts(f) : i < Len(f) /\ f[i] = Entry(k) /\ f[i + 1] = Newline
        BY <2>3 DEF HasLine
      <4>2. i \in 1 .. Len(f) /\ i + 1 \in 1 .. Len(f)
        BY <4>1, <1>0 DEF LineStarts
      <4>3. i + 1 \in 1 .. m
        BY <4>1, <4>2, <2>1
      <4>4. i < m
        BY <4>2, <4>3
      <4> QED BY <4>1, <4>4 DEF HasLine
    <3> QED BY <3>1 DEF Keeps
  <2> QED BY <1>4, <2>2, <2>3 DEF Keeps
<1>5. ASSUME NEW K, Keeps(f, Len(f), K) PROVE Keeps(g, m, K)
  <2>1. Keeps(f, m, K) /\ m <= m
    BY <1>2, <1>4, <1>5
  <2> QED BY <2>1, <1>2, KeepsLonger
<1> QED BY <1>2, <1>3, <1>5

LEMMA KeySetType ==
  ASSUME NEW f \in File
  PROVE  /\ KeySet(f) \subseteq RecordKeys /\ IsFiniteSet(KeySet(f))
         /\ RecordLines(f) \subseteq 1 .. Len(f) /\ IsFiniteSet(RecordLines(f))
         /\ \A i \in RecordLines(f) : f[i] = Entry(f[i][2]) /\ f[i][2] \in RecordKeys
<1>0. Len(f) \in Nat /\ DOMAIN f = 1 .. Len(f)
  BY FileFacts
<1>1. PICK R : R = RecordLines(f)
  OBVIOUS
<1>2. R \subseteq 1 .. Len(f)
  BY <1>0, <1>1 DEF RecordLines, LineStarts
<1>3. IsFiniteSet(R)
  <2>1. IsFiniteSet(1 .. Len(f)) /\ R \in SUBSET (1 .. Len(f))
    BY <1>0, <1>2, FS_Interval
  <2> QED BY <2>1, FS_Subset
<1>4. ASSUME NEW i \in R PROVE f[i] = Entry(f[i][2]) /\ f[i][2] \in RecordKeys
  <2>1. PICK k \in RecordKeys : f[i] = Entry(k)
    BY <1>1 DEF RecordLines, Decodes, EntryAt
  <2> QED BY <2>1, Tokens
<1>5. PICK K : K = KeySet(f)
  OBVIOUS
<1>6. K \subseteq RecordKeys
  BY <1>1, <1>4, <1>5 DEF KeySet
<1>7. IsFiniteSet(K)
  <2> DEFINE h == [i \in R |-> f[i][2]]
  <2>1. h \in Surjection(R, K)
    BY <1>1, <1>5 DEF Surjection, KeySet
  <2> HIDE DEF h
  <2> QED BY <2>1, <1>3, FS_Surjection
<1> QED BY <1>1, <1>2, <1>3, <1>4, <1>5, <1>6, <1>7

\* What open reads back from an index that it does not refuse.
LEMMA ReadBack ==
  ASSUME NEW f \in File, Ended(f), BadLines(f) = {}
  PROVE  /\ \A K : Keeps(f, Len(f), K) => K \subseteq KeySet(f)
         /\ \A k \in KeySet(f) : HasLine(f, Len(f), k)
<1>0. Len(f) \in Nat /\ DOMAIN f = 1 .. Len(f)
  BY FileFacts
<1>1. ASSUME NEW K, Keeps(f, Len(f), K), NEW k \in K PROVE k \in KeySet(f)
  <2>1. HasLine(f, Len(f), k)
    BY <1>1 DEF Keeps, Spoilt
  <2>2. PICK i \in LineStarts(f) : i < Len(f) /\ f[i] = Entry(k) /\ f[i + 1] = Newline
    BY <2>1 DEF HasLine
  <2>3. i \in RecordLines(f)
    BY <2>2 DEF BadLines, RecordLines
  <2>4. f[i][2] = k
    BY <2>2, Tokens
  <2> QED BY <2>3, <2>4 DEF KeySet
<1>2. ASSUME NEW k \in KeySet(f) PROVE HasLine(f, Len(f), k)
  <2>1. PICK i \in RecordLines(f) : f[i][2] = k
    BY DEF KeySet
  <2>2. f[i] = Entry(k) /\ i \in 1 .. Len(f)
    BY <2>1, KeySetType
  <2>3. i \in LineStarts(f) /\ (i = Len(f) \/ f[i + 1] = Newline)
    BY <2>1 DEF RecordLines, Decodes
  <2>4. i # Len(f)
    <3>1. f[i] # Newline /\ Len(f) # 0
      BY <2>2, <1>0, Tokens
    <3> QED BY <3>1 DEF Ended
  <2>5. i < Len(f)
    <3>1. PICK l \in Nat : l = Len(f)
      BY <1>0
    <3>2. i \in 1 .. l /\ i # l
      BY <3>1, <2>2, <2>4
    <3>3. i < l
      BY <3>2
    <3> QED BY <3>1, <3>3
  <2> QED BY <2>2, <2>3, <2>4, <2>5 DEF HasLine
<1> QED BY <1>1, <1>2

\* K as a list, for append_dedup_lines.
LEMMA ListExists ==
  ASSUME NEW K, IsFiniteSet(K), NEW n, n = Cardinality(K)
  PROVE  n \in Nat /\ \E o \in [1 .. n -> K] : K = {o[i] : i \in DOMAIN o}
<1>1. n \in Nat /\ ExistsBijection(1 .. n, K)
  BY FS_CardinalityType
<1>2. PICK o \in [1 .. n -> K] : \A k \in K : \E i \in 1 .. n : o[i] = k
  BY <1>1 DEF ExistsBijection, Bijection, Surjection
<1>3. K = {o[i] : i \in DOMAIN o}
  BY <1>2
<1> QED BY <1>1, <1>2, <1>3

\* Positions 2t - 1 and 2t of a list of pairs.
LEMMA Halves ==
  ASSUME NEW n \in Nat, NEW t \in 1 .. n
  PROVE  /\ 2 * t - 1 \in 1 .. 2 * n /\ 2 * t \in 1 .. 2 * n
         /\ (2 * t - 1) % 2 = 1 /\ ((2 * t - 1) + 1) \div 2 = t /\ (2 * t) % 2 # 1
         /\ (2 * t - 1) + 1 = 2 * t /\ 2 * t - 1 < 2 * n /\ 2 * t # 1
<1>1. t \in Nat /\ 1 <= t /\ t <= n
  OBVIOUS
<1>2. PICK u \in Nat : u = 2 * t /\ 2 <= u /\ u <= 2 * n
  BY <1>1
<1>3. u % 2 = 0 /\ (u - 1) % 2 = 1 /\ ((u - 1) + 1) \div 2 = t
  BY <1>1, <1>2
<1> QED BY <1>1, <1>2, <1>3

LEMMA HalfOf ==
  ASSUME NEW n \in Nat, NEW i \in 1 .. 2 * n
  PROVE  \E t \in 1 .. n : i = 2 * t - 1 \/ i = 2 * t
<1>1. i \in Nat /\ 1 <= i /\ i <= 2 * n
  OBVIOUS
<1>2. PICK t \in Nat : i = 2 * t - 1 \/ i = 2 * t
  <2>1. (i + 1) \div 2 \in Nat /\ (i + 1 = 2 * ((i + 1) \div 2) \/ i + 1 = 2 * ((i + 1) \div 2) + 1)
    BY <1>1
  <2>2. PICK t \in Nat : i + 1 = 2 * t \/ i + 1 = 2 * t + 1
    BY <2>1
  <2>3. i = 2 * t - 1 \/ i = 2 * t
    BY <2>2, <1>1
  <2> QED BY <2>3
<1>3. 1 <= t /\ t <= n
  BY <1>1, <1>2
<1> QED BY <1>2, <1>3

LEMMA PairBefore ==
  ASSUME NEW n \in Nat, NEW t \in 1 .. n, 2 * t - 1 # 1
  PROVE  t - 1 \in 1 .. n /\ (2 * t - 1) - 1 = 2 * (t - 1)
OBVIOUS

\* A list of whole lines, one for each key of K.
Lines(s, K) ==
  /\ \A i \in 1 .. Len(s) :
       \/ s[i] = Newline /\ i # 1 /\ \E k \in K : s[i - 1] = Entry(k)
       \/ i < Len(s) /\ s[i + 1] = Newline /\ \E k \in K : s[i] = Entry(k)
  /\ \A k \in K : \E i \in 1 .. Len(s) :
       i < Len(s) /\ s[i] = Entry(k) /\ s[i + 1] = Newline /\ (i # 1 => s[i - 1] = Newline)

LEMMA IndexLinesFacts ==
  ASSUME NEW K, K \subseteq RecordKeys, IsFiniteSet(K), NEW s, s = IndexLines(K)
  PROVE  /\ s \in File /\ Ended(s) /\ Lines(s, K)
<1>1. PICK n : n = Cardinality(K)
  OBVIOUS
<1>2. PICK ks : ks = CHOOSE o \in [1 .. n -> K] : K = {o[i] : i \in DOMAIN o}
  OBVIOUS
<1>3. n \in Nat /\ ks \in [1 .. n -> K] /\ K = {ks[i] : i \in 1 .. n}
  <2>1. n \in Nat /\ \E o \in [1 .. n -> K] : K = {o[i] : i \in DOMAIN o}
    BY <1>1, ListExists
  <2>2. ks \in [1 .. n -> K] /\ K = {ks[i] : i \in DOMAIN ks}
    BY <2>1, <1>2
  <2> QED BY <2>1, <2>2
<1>4. s = [i \in 1 .. 2 * n |-> IF i % 2 = 1 THEN Entry(ks[(i + 1) \div 2]) ELSE Newline]
  BY <1>1, <1>2 DEF IndexLines
<1>5. 2 * n \in Nat
  BY <1>3
<1>6. ASSUME NEW t \in 1 .. n
      PROVE  /\ 2 * t - 1 \in 1 .. 2 * n /\ 2 * t \in 1 .. 2 * n
             /\ s[2 * t - 1] = Entry(ks[t]) /\ s[2 * t] = Newline /\ ks[t] \in K
  <2>1. 2 * t - 1 \in 1 .. 2 * n /\ 2 * t \in 1 .. 2 * n
    BY <1>3
  <2>2. (2 * t - 1) % 2 = 1 /\ ((2 * t - 1) + 1) \div 2 = t /\ (2 * t) % 2 # 1
    BY <1>3, Halves
  <2>3. s[2 * t - 1] = Entry(ks[t]) /\ s[2 * t] = Newline
    BY <2>1, <2>2, <1>4
  <2> QED BY <2>1, <2>3, <1>3
<1>7. ASSUME NEW i \in 1 .. 2 * n
      PROVE  \E t \in 1 .. n : i = 2 * t - 1 \/ i = 2 * t
  BY <1>3, HalfOf
<1>8. ASSUME NEW i \in 1 .. 2 * n PROVE s[i] \in Token
  <2>1. PICK t \in 1 .. n : i = 2 * t - 1 \/ i = 2 * t
    BY <1>7
  <2>2. Entry(ks[t]) \in Token /\ Newline \in Token
    BY <1>6, Tokens
  <2> QED BY <2>1, <2>2, <1>6
<1>9. s \in [1 .. 2 * n -> Token]
  BY <1>4, <1>8
<1>10. s \in File /\ Len(s) = 2 * n
  BY <1>5, <1>9, SeqDef, LenProperties DEF File
<1>11. Ended(s)
  <2>1. CASE n = 0
    BY <2>1, <1>10 DEF Ended
  <2>2. CASE n # 0
    <3>1. n \in 1 .. n
      BY <2>2, <1>3
    <3> QED BY <3>1, <1>6, <1>10 DEF Ended
  <2> QED BY <2>1, <2>2
<1>12. ASSUME NEW i \in 1 .. 2 * n
       PROVE  \/ s[i] = Newline /\ i # 1 /\ \E k \in K : s[i - 1] = Entry(k)
              \/ i < 2 * n /\ s[i + 1] = Newline /\ \E k \in K : s[i] = Entry(k)
  <2>1. PICK t \in 1 .. n : i = 2 * t - 1 \/ i = 2 * t
    BY <1>7
  <2>2. CASE i = 2 * t - 1
    <3>1. i + 1 = 2 * t /\ i < 2 * n
      <4>1. (2 * t - 1) + 1 = 2 * t /\ 2 * t - 1 < 2 * n
        BY <1>3, Halves
      <4> QED BY <4>1, <2>2
    <3> QED BY <3>1, <2>2, <1>6
  <2>3. CASE i = 2 * t
    <3>1. i - 1 = 2 * t - 1 /\ i # 1
      <4>1. 2 * t # 1
        BY <1>3, Halves
      <4> QED BY <4>1, <2>3
    <3> QED BY <3>1, <2>3, <1>6
  <2> QED BY <2>1, <2>2, <2>3
<1>13. ASSUME NEW k \in K
       PROVE  \E i \in 1 .. 2 * n :
                /\ i < 2 * n /\ s[i] = Entry(k) /\ s[i + 1] = Newline
                /\ i # 1 => s[i - 1] = Newline
  <2>1. PICK t \in 1 .. n : ks[t] = k
    BY <1>3
  <2>2. PICK i \in 1 .. 2 * n : i = 2 * t - 1
    BY <1>6
  <2>3. i + 1 = 2 * t /\ i < 2 * n
    <3>1. (2 * t - 1) + 1 = 2 * t /\ 2 * t - 1 < 2 * n
      BY <1>3, Halves
    <3> QED BY <3>1, <2>2
  <2>4. i # 1 => s[i - 1] = Newline
    <3>1. SUFFICES ASSUME i # 1 PROVE s[i - 1] = Newline
      OBVIOUS
    <3>2. t - 1 \in 1 .. n /\ i - 1 = 2 * (t - 1)
      <4>1. 2 * t - 1 # 1
        BY <3>1, <2>2
      <4>2. t - 1 \in 1 .. n /\ (2 * t - 1) - 1 = 2 * (t - 1)
        BY <4>1, <1>3, PairBefore
      <4> QED BY <4>2, <2>2
    <3> QED BY <3>2, <1>6
  <2> QED BY <2>1, <2>2, <2>3, <2>4, <1>6
<1>14. Lines(s, K)
  BY <1>10, <1>12, <1>13 DEF Lines
<1> QED BY <1>10, <1>11, <1>14

\* append_dedup_lines behind an index that ends in a newline.
LEMMA IndexExtended ==
  ASSUME NEW f \in File, Ended(f), NEW K, K \subseteq RecordKeys, IsFiniteSet(K),
         NEW g, g = f \o IndexLines(K)
  PROVE  /\ g \in File /\ Len(f) <= Len(g) /\ Agree(f, g, Len(f)) /\ Ended(g)
         /\ \A k \in K : HasLine(g, Len(g), k)
         /\ BadLines(f) = {} => BadLines(g) = {}
         /\ BadLines(f) = {} => KeySet(g) \subseteq KeySet(f) \cup K
         /\ K = {} => Len(g) = Len(f)
<1>1. PICK s \in File : s = IndexLines(K) /\ Ended(s)
  BY IndexLinesFacts
<1>2. PICK l \in Nat : l = Len(f) /\ DOMAIN f = 1 .. l
  BY FileFacts
<1>3. PICK m \in Nat : m = Len(s) /\ DOMAIN s = 1 .. m
  BY FileFacts
<1>4. /\ g \in File /\ Len(g) = l + m
      /\ \A i \in 1 .. l + m : g[i] = IF i <= l THEN f[i] ELSE s[i - l]
  BY <1>1, <1>2, <1>3, ConcatProperties DEF File
<1>5. DOMAIN g = 1 .. l + m
  BY <1>4, FileFacts
<1>6. \A i \in 1 .. l : i \in 1 .. l + m /\ g[i] = f[i]
  BY <1>4
<1>7. ASSUME NEW i \in 1 .. m PROVE l + i \in 1 .. l + m /\ g[l + i] = s[i]
  <2>1. PICK j \in 1 .. l + m : j = l + i
    OBVIOUS
  <2>2. ~(j <= l) /\ j - l = i
    BY <2>1
  <2>3. g[j] = s[j - l]
    BY <2>2, <1>4
  <2> QED BY <2>1, <2>2, <2>3
<1>8. Agree(f, g, l) /\ l <= l + m
  BY <1>2, <1>4, <1>6 DEF Agree
<1>9. Ended(g)
  <2>1. CASE m = 0
    <3>1. l # 0 => l \in 1 .. l
      OBVIOUS
    <3> QED BY <2>1, <3>1, <1>2, <1>4, <1>6 DEF Ended
  <2>2. CASE m # 0
    <3>1. m \in 1 .. m
      BY <2>2
    <3> QED BY <3>1, <2>2, <1>1, <1>3, <1>4, <1>7 DEF Ended
  <2> QED BY <2>1, <2>2
<1>10. /\ \A i \in 1 .. m :
            \/ s[i] = Newline /\ i # 1 /\ \E k \in K : s[i - 1] = Entry(k)
            \/ i < m /\ s[i + 1] = Newline /\ \E k \in K : s[i] = Entry(k)
       /\ \A k \in K : \E i \in 1 .. m :
            i < m /\ s[i] = Entry(k) /\ s[i + 1] = Newline /\ (i # 1 => s[i - 1] = Newline)
  <2>1. Lines(s, K)
    BY <1>1, IndexLinesFacts
  <2> QED BY <2>1, <1>3 DEF Lines
<1>11. ASSUME NEW k \in K PROVE HasLine(g, l + m, k)
  <2>1. PICK i \in 1 .. m : i < m /\ s[i] = Entry(k) /\ s[i + 1] = Newline /\ (i # 1 => s[i - 1] = Newline)
    BY <1>10
  <2>2. PICK j \in 1 .. l + m : j = l + i /\ g[j] = Entry(k)
    BY <2>1, <1>7
  <2>3. g[j + 1] = Newline
    <3>1. i + 1 \in 1 .. m /\ l + (i + 1) = j + 1
      BY <2>1, <2>2
    <3> QED BY <3>1, <2>1, <1>7
  <2>4. j \in LineStarts(g)
    <3>1. CASE i = 1
      <4>1. j = l + 1 /\ j - 1 = l
        BY <3>1, <2>2
      <4>2. CASE l = 0
        BY <4>1, <4>2, <1>5 DEF LineStarts
      <4>3. CASE l # 0
        <5>1. l \in 1 .. l
          BY <4>3
        <5>2. g[l] = Newline
          BY <5>1, <4>3, <1>2, <1>6 DEF Ended
        <5> QED BY <5>2, <4>1, <1>5 DEF LineStarts
      <4> QED BY <4>2, <4>3
    <3>2. CASE i # 1
      <4>1. i - 1 \in 1 .. m /\ l + (i - 1) = j - 1
        BY <3>2, <2>2
      <4>2. g[j - 1] = Newline
        BY <4>1, <3>2, <2>1, <1>7
      <4> QED BY <4>2, <1>5 DEF LineStarts
    <3> QED BY <3>1, <3>2
  <2>5. j < l + m
    BY <2>1, <2>2
  <2> QED BY <2>2, <2>3, <2>4, <2>5 DEF HasLine
<1>12. ASSUME BadLines(f) = {}, NEW i \in LineStarts(g)
       PROVE  Decodes(g, i) /\ g[i][2] \in KeySet(f) \cup K
  <2>1. i \in 1 .. l + m /\ (i = 1 \/ g[i - 1] = Newline)
    BY <1>5 DEF LineStarts
  <2>2. CASE i \in 1 .. l
    <3>1. i \in LineStarts(f)
      <4>1. i # 1 => i - 1 \in 1 .. l
        BY <2>2
      <4> QED BY <4>1, <2>1, <2>2, <1>2, <1>6 DEF LineStarts
    <3>2. Decodes(f, i)
      BY <3>1, <1>12 DEF BadLines
    <3>3. EntryAt(g, i) /\ g[i][2] \in KeySet(f)
      BY <3>1, <3>2, <2>2, <1>6 DEF Decodes, EntryAt, KeySet, RecordLines
    <3>4. i # l
      BY <3>2, <2>2, <1>2, Tokens DEF Ended, Decodes, EntryAt
    <3>5. i + 1 \in 1 .. l
      BY <3>4, <2>2
    <3>6. g[i + 1] = Newline
      BY <3>2, <3>4, <3>5, <1>2, <1>6 DEF Decodes
    <3> QED BY <3>3, <3>6 DEF Decodes
  <2>3. CASE i \notin 1 .. l
    <3>1. PICK j \in 1 .. m : l + j = i
      <4>1. i - l \in 1 .. m /\ l + (i - l) = i
        BY <2>1, <2>3
      <4> QED BY <4>1
    <3>2. CASE j # 1 /\ \E k \in K : s[j - 1] = Entry(k)
      <4>1. j - 1 \in 1 .. m /\ l + (j - 1) = i - 1 /\ i # 1
        BY <3>1, <3>2
      <4>2. PICK k \in K : g[i - 1] = Entry(k)
        BY <4>1, <3>2, <1>7
      <4> QED BY <4>1, <4>2, <2>1, Tokens
    <3>3. CASE j < m /\ s[j + 1] = Newline /\ \E k \in K : s[j] = Entry(k)
      <4>1. j + 1 \in 1 .. m /\ l + (j + 1) = i + 1
        BY <3>1, <3>3
      <4>2. g[i + 1] = Newline
        BY <4>1, <3>3, <1>7
      <4>3. PICK k \in K : g[i] = Entry(k)
        BY <3>1, <3>3, <1>7
      <4>4. EntryAt(g, i) /\ g[i][2] = k
        BY <4>3, Tokens DEF EntryAt
      <4> QED BY <4>2, <4>4 DEF Decodes
    <3> QED BY <3>2, <3>3, <1>10
  <2> QED BY <2>2, <2>3
<1>13. BadLines(f) = {} => BadLines(g) = {}
  BY <1>12 DEF BadLines
<1>14. BadLines(f) = {} => KeySet(g) \subseteq KeySet(f) \cup K
  BY <1>12 DEF KeySet, RecordLines
<1>15. K = {} => Len(g) = Len(f)
  <2>1. K = {} => m \notin 1 .. m
    BY <1>10
  <2> QED BY <2>1, <1>2, <1>4
<1> QED BY <1>2, <1>4, <1>8, <1>9, <1>11, <1>13, <1>14, <1>15

\* What a power loss or a cut leaves of a file.
LEMMA LeftoverFacts ==
  ASSUME NEW f \in File, NEW n \in 0 .. Len(f), NEW g \in Leftovers(f, n)
  PROVE  g \in File /\ n <= Len(g) /\ Len(g) <= Len(f) /\ Agree(f, g, n)
<1>0. PICK l \in Nat : l = Len(f)
  BY FileFacts
<1>1. ASSUME NEW m \in n .. l
      PROVE  /\ SubSeq(f, 1, m) \in File /\ Len(SubSeq(f, 1, m)) = m
             /\ \A i \in 1 .. n : i \in 1 .. m /\ SubSeq(f, 1, m)[i] = f[i]
  <2>1. m \in 0 .. Len(f)
    BY <1>0
  <2>2. SubSeq(f, 1, m) \in File /\ Len(SubSeq(f, 1, m)) = m /\ Agree(f, SubSeq(f, 1, m), m)
    BY <2>1, PrefixFacts
  <2> QED BY <2>2, <1>0 DEF Agree
<1>2. CASE \E m \in n .. l : g = SubSeq(f, 1, m)
  <2>1. PICK m \in n .. l : g = SubSeq(f, 1, m)
    BY <1>2
  <2>2. n <= m /\ m <= l
    BY <1>0
  <2> QED BY <2>1, <2>2, <1>0, <1>1 DEF Agree
<1>3. CASE \E m \in n .. l - 1 : g = Append(SubSeq(f, 1, m), Torn)
  <2>1. PICK m \in n .. l - 1 : g = Append(SubSeq(f, 1, m), Torn)
    BY <1>3
  <2>2. m \in n .. l /\ n <= m + 1 /\ m + 1 <= l
    BY <1>0
  <2>3. PICK h \in File : h = SubSeq(f, 1, m) /\ Len(h) = m /\ \A i \in 1 .. n : i \in 1 .. m /\ h[i] = f[i]
    BY <2>2, <1>1
  <2>4. g \in File /\ Len(g) = m + 1 /\ \A i \in 1 .. m : g[i] = h[i]
    BY <2>1, <2>3, Tokens, AppendProperties DEF File
  <2>5. \A i \in 1 .. n : g[i] = f[i]
    BY <2>3, <2>4
  <2>6. n <= l /\ n <= m + 1
    BY <2>2
  <2> QED BY <2>2, <2>4, <2>5, <2>6, <1>0 DEF Agree
<1> QED BY <1>0, <1>2, <1>3 DEF Leftovers

-----------------------------------------------------------------------------
(* Listings in order, and what retention and the repairs of open return.   *)

LEMMA EmptyListing ==
  ASSUME NEW K, K = {}
  PROVE  \E o \in [1 .. Cardinality(K) -> K] :
           K = {o[i] : i \in DOMAIN o} /\ \A i, j \in DOMAIN o : i < j => o[i] < o[j]
<1>1. Cardinality(K) = 0 /\ 1 .. 0 = {}
  BY FS_EmptySet
<1>2. PICK o : o = [i \in {} |-> 0]
  OBVIOUS
<1>3. o \in [1 .. Cardinality(K) -> K] /\ DOMAIN o = {}
  BY <1>1, <1>2
<1> QED BY <1>3

\* o lists K in increasing order.
Increasing(o, K) ==
  /\ o \in [1 .. Cardinality(K) -> K]
  /\ K = {o[i] : i \in DOMAIN o} /\ \A i, j \in DOMAIN o : i < j => o[i] < o[j]

LEMMA ListingExtended ==
  ASSUME NEW n \in Nat, NEW J \in SUBSET (1 .. n), NEW o, Increasing(o, J)
  PROVE  \E p : Increasing(p, J \cup {n + 1})
<1>1. IsFiniteSet(J) /\ n + 1 \notin J /\ \A j \in J : j \in Nat /\ j < n + 1
  <2>1. IsFiniteSet(1 .. n)
    BY FS_Interval
  <2>2. IsFiniteSet(J)
    BY <2>1, FS_Subset
  <2>3. \A j \in J : j \in Nat /\ j < n + 1
    OBVIOUS
  <2> QED BY <2>2, <2>3
<1>2. PICK c \in Nat : c = Cardinality(J)
  BY <1>1, FS_CardinalityType
<1>3. Cardinality(J \cup {n + 1}) = c + 1
  BY <1>1, <1>2, FS_AddElement
<1>4. /\ DOMAIN o = 1 .. c /\ \A i \in 1 .. c : o[i] \in J
      /\ \A j \in J : \E i \in 1 .. c : o[i] = j
      /\ \A i, j \in 1 .. c : i < j => o[i] < o[j]
  BY <1>2 DEF Increasing
<1>5. PICK p : p = [i \in 1 .. c + 1 |-> IF i <= c THEN o[i] ELSE n + 1]
  OBVIOUS
<1>6. DOMAIN p = 1 .. c + 1 /\ p[c + 1] = n + 1 /\ \A i \in 1 .. c : i \in 1 .. c + 1 /\ p[i] = o[i]
  BY <1>5
<1>7. ASSUME NEW i \in 1 .. c + 1 PROVE i \in 1 .. c \/ i = c + 1
  OBVIOUS
<1>8. p \in [1 .. c + 1 -> J \cup {n + 1}]
  BY <1>4, <1>5, <1>6, <1>7
<1>9. ASSUME NEW i \in 1 .. c + 1, NEW j \in 1 .. c + 1, i < j PROVE p[i] < p[j]
  <2>1. i \in 1 .. c
    BY <1>9
  <2>2. p[i] = o[i] /\ o[i] < n + 1
    BY <2>1, <1>1, <1>4, <1>6
  <2> QED BY <2>1, <2>2, <1>4, <1>6, <1>7, <1>9
<1>10. J \cup {n + 1} = {p[i] : i \in 1 .. c + 1}
  <2>1. ASSUME NEW j \in J \cup {n + 1} PROVE \E i \in 1 .. c + 1 : p[i] = j
    BY <1>4, <1>6
  <2> QED BY <2>1, <1>8
<1> QED BY <1>3, <1>6, <1>8, <1>9, <1>10 DEF Increasing

LEMMA ListingExists ==
  ASSUME NEW n \in Nat, NEW K \in SUBSET (1 .. n)
  PROVE  \E o : Increasing(o, K)
<1> DEFINE T == {m \in Nat : \E J \in SUBSET (1 .. m) : ~\E o : Increasing(o, J)}
<1>1. T \subseteq Nat /\ (T # {} => \E m \in T : \A x \in T : m <= x)
  <2>1. T \subseteq Nat
    OBVIOUS
  <2> HIDE DEF T
  <2> QED BY <2>1, LeastNatural
<1>2. ASSUME NEW m \in T, \A x \in T : m <= x PROVE FALSE
  <2>1. m \in Nat /\ \E J \in SUBSET (1 .. m) : ~\E o : Increasing(o, J)
    OBVIOUS
  <2>2. PICK J \in SUBSET (1 .. m) : ~\E o : Increasing(o, J)
    BY <2>1
  <2>3. J # {}
    BY <2>2, EmptyListing DEF Increasing
  <2>4. m # 0
    <3>1. PICK j \in J : j \in 1 .. m
      BY <2>2, <2>3
    <3> HIDE DEF T
    <3> QED BY <2>1, <3>1
  <2>5. PICK l \in Nat : m = l + 1
    <3>1. m - 1 \in Nat /\ m = (m - 1) + 1
      BY <2>1, <2>4
    <3> QED BY <3>1
  <2>6. l \notin T
    <3> HIDE DEF T
    <3> QED BY <1>2, <2>1, <2>5
  <2>7. \A I \in SUBSET (1 .. l) : \E o : Increasing(o, I)
    BY <2>5, <2>6
  <2>8. CASE m \in J
    <3>1. J \ {m} \in SUBSET (1 .. l) /\ J = (J \ {m}) \cup {l + 1}
      BY <2>5, <2>8
    <3>2. \E o : Increasing(o, J \ {m})
      BY <3>1, <2>7
    <3>3. \E o : Increasing(o, (J \ {m}) \cup {l + 1})
      BY <3>1, <3>2, ListingExtended
    <3> QED BY <3>1, <3>3, <2>2
  <2>9. CASE m \notin J
    <3>1. J \in SUBSET (1 .. l)
      BY <2>5, <2>9
    <3> QED BY <3>1, <2>2, <2>7
  <2> QED BY <2>8, <2>9
<1>3. n \notin T
  <2> HIDE DEF T
  <2> QED BY <1>1, <1>2
<1> QED BY <1>3

LEMMA InOrderLists ==
  ASSUME NEW n \in Nat, NEW K \in SUBSET (1 .. n)
  PROVE  Increasing(InOrder(K), K) /\ Cardinality(K) \in Nat /\ Cardinality(K) <= n
<1>1. \E o \in [1 .. Cardinality(K) -> K] :
         K = {o[i] : i \in DOMAIN o} /\ \A i, j \in DOMAIN o : i < j => o[i] < o[j]
  BY ListingExists DEF Increasing
<1>2. IsFiniteSet(1 .. n) /\ Cardinality(1 .. n) = n
  BY FS_Interval
<1>3. IsFiniteSet(K) /\ Cardinality(K) <= n
  BY <1>2, FS_Subset
<1> QED BY <1>1, <1>3, FS_CardinalityType DEF InOrder, Increasing

\* What is left of a sequence is a sequence again.
LEMMA WithoutFacts ==
  ASSUME NEW S, NEW s \in Seq(S), NEW drop, NEW r, r = Without(s, drop),
         NEW K, K = DOMAIN s \ drop, NEW o, o = InOrder(K), NEW c, c = Cardinality(K)
  PROVE  /\ r \in Seq(S) /\ c \in Nat /\ c <= Len(s) /\ Len(r) = c /\ Increasing(o, K)
         /\ \A i \in 1 .. c : r[i] = s[o[i]] /\ o[i] \in 1 .. Len(s) /\ o[i] \notin drop
<1>1. Len(s) \in Nat /\ DOMAIN s = 1 .. Len(s) /\ \A i \in 1 .. Len(s) : s[i] \in S
  BY LenProperties
<1>2. K \in SUBSET (1 .. Len(s))
  BY <1>1
<1>3. Increasing(o, K) /\ c \in Nat /\ c <= Len(s)
  BY <1>1, <1>2, InOrderLists
<1>4. \A i \in 1 .. c : o[i] \in K
  BY <1>3 DEF Increasing
<1>5. r = [i \in 1 .. c |-> s[o[i]]]
  BY DEF Without
<1>6. r \in [1 .. c -> S]
  BY <1>1, <1>2, <1>4, <1>5
<1>7. r \in Seq(S) /\ Len(r) = c
  <2>1. PICK d \in Nat : d = c
    BY <1>3
  <2>2. r \in [1 .. d -> S]
    BY <1>6, <2>1
  <2>3. r \in Seq(S)
    BY <2>2, SeqDef
  <2>4. Len(r) = d
    BY <2>2, <2>3, LenProperties
  <2> QED BY <2>1, <2>3, <2>4
<1> QED BY <1>2, <1>3, <1>4, <1>5, <1>7

LEMMA NewestExists ==
  ASSUME NEW K, K \subseteq RecordKeys, IsFiniteSet(K), K # {}
  PROVE  \E k \in K : \A j \in K : Measured[j] <= Measured[k]
<1> DEFINE Has(J) == \E k \in J : \A j \in J : Measured[j] <= Measured[k]
<1> DEFINE T == {m \in Nat : \E J \in SUBSET RecordKeys :
                   IsFiniteSet(J) /\ J # {} /\ Cardinality(J) = m /\ ~Has(J)}
<1>1. \A k \in RecordKeys : Measured[k] \in Nat
  BY StoreAssumption
<1>2. T \subseteq Nat /\ (T # {} => \E m \in T : \A x \in T : m <= x)
  <2>1. T \subseteq Nat
    OBVIOUS
  <2> HIDE DEF T
  <2> QED BY <2>1, LeastNatural
<1>3. ASSUME NEW m \in T, \A x \in T : m <= x PROVE FALSE
  <2>1. PICK J \in SUBSET RecordKeys : IsFiniteSet(J) /\ J # {} /\ Cardinality(J) = m /\ ~Has(J)
    <3> HIDE DEF Has
    <3> QED OBVIOUS
  <2>2. PICK x \in J : TRUE
    BY <2>1
  <2>3. PICK I \in SUBSET RecordKeys : I = J \ {x}
    BY <2>1
  <2>4. IsFiniteSet(I) /\ Cardinality(I) = m - 1 /\ m - 1 \in Nat /\ m \in Nat
    <3>1. IsFiniteSet(I) /\ Cardinality(I) = m - 1
      BY <2>1, <2>2, <2>3, FS_RemoveElement
    <3> QED BY <3>1, FS_CardinalityType
  <2>5. m - 1 \notin T
    <3> HIDE DEF T
    <3>1. ~(m <= m - 1)
      BY <2>4
    <3> QED BY <3>1, <1>3
  <2>6. I = {} \/ Has(I)
    <3> HIDE DEF Has
    <3> QED BY <2>4, <2>5
  <2>7. CASE I = {}
    <3>1. J = {x}
      BY <2>2, <2>3, <2>7
    <3>2. Has(J)
      BY <3>1, <2>1, <1>1
    <3> QED BY <3>2, <2>1
  <2>8. CASE Has(I)
    <3>1. PICK k \in I : \A j \in I : Measured[j] <= Measured[k]
      BY <2>8
    <3>2. Measured[k] \in Nat /\ Measured[x] \in Nat /\ \A j \in I : Measured[j] \in Nat
      BY <1>1, <2>1, <2>2, <2>3
    <3>3. CASE Measured[x] <= Measured[k]
      <4>1. Has(J)
        BY <3>1, <3>3, <2>2, <2>3
      <4> QED BY <4>1, <2>1
    <3>4. CASE ~(Measured[x] <= Measured[k])
      <4>1. \A j \in I : Measured[j] <= Measured[x]
        BY <3>1, <3>2, <3>4
      <4>2. Has(J)
        BY <4>1, <3>2, <2>2, <2>3
      <4> QED BY <4>2, <2>1
    <3> QED BY <3>3, <3>4, <3>2
  <2> QED BY <2>6, <2>7, <2>8
<1>4. Cardinality(K) \notin T
  <2> HIDE DEF T
  <2> QED BY <1>2, <1>3
<1> QED BY <1>4, FS_CardinalityType

LEMMA NewestFacts ==
  ASSUME NEW K, K \subseteq RecordKeys, IsFiniteSet(K), NEW m, m = Newest(K)
  PROVE  /\ m \in Nat
         /\ K = {} => m = 0
         /\ K # {} => (\E k \in K : m = Measured[k]) /\ \A k \in K : Measured[k] <= m
<1>1. CASE K = {}
  BY <1>1 DEF Newest
<1>2. CASE K # {}
  <2>1. \E x \in {Measured[k] : k \in K} : \A k \in K : Measured[k] <= x
    BY <1>2, NewestExists
  <2>2. m \in {Measured[k] : k \in K} /\ \A k \in K : Measured[k] <= m
    BY <1>2, <2>1 DEF Newest
  <2>3. \A k \in K : Measured[k] \in Nat
    BY StoreAssumption
  <2> QED BY <1>2, <2>2, <2>3
<1> QED BY <1>1, <1>2

Info == [records : Nat, newest : Nat]

LEMMA SegmentInfoType ==
  ASSUME NEW f \in File
  PROVE  SegmentInfo(f) \in Info
<1>1. Cardinality(RecordLines(f)) \in Nat
  BY KeySetType, FS_CardinalityType
<1>2. Newest(KeySet(f)) \in Nat
  BY KeySetType, NewestFacts
<1> QED BY <1>1, <1>2 DEF SegmentInfo, Info

LEMMA RepairedType ==
  ASSUME NEW f \in File
  PROVE  Repaired(f) \in File /\ Len(Repaired(f)) <= Len(f)
<1>0. Len(f) \in Nat /\ DOMAIN f = 1 .. Len(f)
  BY FileFacts
<1>1. CASE \E i \in BadLines(f) : ~Terminated(f, i)
  <2>1. PICK i : i = CHOOSE j \in BadLines(f) : ~Terminated(f, j)
    OBVIOUS
  <2>2. i \in BadLines(f) /\ Repaired(f) = SubSeq(f, 1, i - 1)
    BY <1>1, <2>1 DEF Repaired
  <2>3. i \in 1 .. Len(f)
    BY <2>2, <1>0 DEF BadLines, LineStarts
  <2>4. i - 1 \in 0 .. Len(f) /\ i - 1 <= Len(f)
    BY <2>3, <1>0
  <2> QED BY <2>2, <2>4, PrefixFacts
<1>2. CASE ~\E i \in BadLines(f) : ~Terminated(f, i)
  BY <1>0, <1>2 DEF Repaired
<1> QED BY <1>1, <1>2

\* The segments after the repairs of open, as one set of keys.
LEMMA RepairedSegsType ==
  ASSUME segFiles \in Seq(File)
  PROVE  /\ RepairedSegs \in Seq(File) /\ Len(RepairedSegs) = Len(segFiles)
         /\ \A i \in DOMAIN segFiles : RepairedSegs[i] \in File /\ Len(RepairedSegs[i]) <= Len(segFiles[i])
<1>1. PICK S \in Seq(File) : S = segFiles
  OBVIOUS
<1>2. PICK n \in Nat : n = Len(S) /\ DOMAIN S = 1 .. n /\ \A i \in 1 .. n : S[i] \in File
  BY LenProperties
<1>3. PICK R : R = RepairedSegs
  OBVIOUS
<1>4. R = [i \in 1 .. n |-> IF i = n THEN Repaired(S[i]) ELSE S[i]]
  BY <1>1, <1>2, <1>3 DEF RepairedSegs
<1>5. ASSUME NEW i \in 1 .. n PROVE R[i] \in File /\ Len(R[i]) <= Len(S[i])
  <2>1. S[i] \in File /\ Repaired(S[i]) \in File /\ Len(Repaired(S[i])) <= Len(S[i]) /\ Len(S[i]) \in Nat
    BY <1>2, RepairedType, FileFacts
  <2> QED BY <2>1, <1>4
<1>6. R \in [1 .. n -> File]
  BY <1>4, <1>5
<1>7. R \in Seq(File) /\ Len(R) = n
  BY <1>6, SeqDef, LenProperties
<1> QED BY <1>1, <1>2, <1>3, <1>5, <1>7

LEMMA MissingType ==
  ASSUME segFiles \in Seq(File)
  PROVE  Missing \subseteq RecordKeys /\ IsFiniteSet(Missing)
<1>1. PICK R \in Seq(File) : R = RepairedSegs /\ Len(R) = Len(segFiles)
  BY RepairedSegsType
<1>2. PICK n \in Nat : n = Len(R) /\ DOMAIN R = 1 .. n /\ \A i \in 1 .. n : R[i] \in File
  BY LenProperties
<1>3. DOMAIN segFiles = 1 .. n
  BY <1>1, <1>2, LenProperties
<1>4. PICK U : U = UNION {KeySet(R[i]) : i \in 1 .. n}
  OBVIOUS
<1>5. \A i \in 1 .. n : KeySet(R[i]) \subseteq RecordKeys /\ IsFiniteSet(KeySet(R[i]))
  BY <1>2, KeySetType
<1>6. IsFiniteSet(U)
  <2>1. PICK Q : Q = {KeySet(R[i]) : i \in 1 .. n}
    OBVIOUS
  <2>2. IsFiniteSet(Q)
    <3> DEFINE h == [i \in 1 .. n |-> KeySet(R[i])]
    <3>1. h \in Surjection(1 .. n, Q)
      BY <2>1 DEF Surjection
    <3>2. IsFiniteSet(1 .. n)
      BY FS_Interval
    <3> HIDE DEF h
    <3> QED BY <3>1, <3>2, FS_Surjection
  <2>3. \A q \in Q : IsFiniteSet(q)
    BY <2>1, <1>5
  <2> QED BY <2>1, <2>2, <2>3, <1>4, FS_UNION
<1>7. U \subseteq RecordKeys
  BY <1>4, <1>5
<1>8. PICK M : M = Missing
  OBVIOUS
<1>9. M \in SUBSET U
  <2>1. ASSUME NEW k \in M PROVE \E i \in 1 .. n : k \in KeySet(R[i])
    BY <1>1, <1>3, <1>8 DEF Missing
  <2> QED BY <2>1, <1>4
<1> QED BY <1>6, <1>7, <1>8, <1>9, FS_Subset

-----------------------------------------------------------------------------
(* Sequences of files with what is synced of each.                         *)

LEMMA FunSeq ==
  ASSUME NEW n \in Nat, NEW T, NEW s \in [1 .. n -> T]
  PROVE  s \in Seq(T) /\ Len(s) = n
<1>1. s \in Seq(T)
  BY SeqDef
<1> QED BY <1>1, LenProperties

\* Segment files and how much of each is synced.
SegsOK(S, Y) ==
  /\ S \in Seq(File) /\ Y \in Seq(Nat) /\ Len(Y) = Len(S)
  /\ \A i \in DOMAIN S : Y[i] <= Len(S[i])

LEMMA SegsFacts ==
  ASSUME NEW S, NEW Y, SegsOK(S, Y)
  PROVE  /\ Len(S) \in Nat /\ DOMAIN S = 1 .. Len(S) /\ DOMAIN Y = 1 .. Len(S) /\ Len(Y) = Len(S)
         /\ S \in Seq(File) /\ Y \in Seq(Nat)
         /\ \A i \in 1 .. Len(S) : S[i] \in File /\ Y[i] \in Nat /\ Y[i] <= Len(S[i])
BY LenProperties DEF SegsOK

LEMMA SegmentCreated ==
  ASSUME NEW S, NEW Y, SegsOK(S, Y), NEW t \in File
  PROVE  SegsOK(Append(S, t), Append(Y, 0)) /\ Len(Append(S, t)) = Len(S) + 1
<1>1. PICK n \in Nat : n = Len(S) /\ n = Len(Y) /\ DOMAIN S = 1 .. n
  BY SegsFacts
<1>2. PICK R : R = Append(S, t)
  OBVIOUS
<1>3. PICK Z : Z = Append(Y, 0)
  OBVIOUS
<1>4. S \in Seq(File) /\ Y \in Seq(Nat) /\ \A i \in 1 .. n : Y[i] <= Len(S[i])
  BY <1>1, SegsFacts
<1>5. R \in Seq(File) /\ Len(R) = n + 1 /\ R[n + 1] = t /\ \A i \in 1 .. n : R[i] = S[i]
  BY <1>1, <1>2, <1>4, AppendProperties
<1>6. Z \in Seq(Nat) /\ Len(Z) = n + 1 /\ Z[n + 1] = 0 /\ \A i \in 1 .. n : Z[i] = Y[i]
  BY <1>1, <1>3, <1>4, AppendProperties
<1>7. ASSUME NEW i \in 1 .. n + 1 PROVE Z[i] <= Len(R[i])
  <2>1. i \in 1 .. n \/ i = n + 1
    OBVIOUS
  <2>2. 0 <= Len(t)
    BY FileFacts
  <2> QED BY <2>1, <2>2, <1>4, <1>5, <1>6
<1>8. DOMAIN R = 1 .. n + 1
  BY <1>5, LenProperties
<1> QED BY <1>1, <1>2, <1>3, <1>5, <1>6, <1>7, <1>8 DEF SegsOK

LEMMA ConcatFile ==
  ASSUME NEW f \in File, NEW t \in File, NEW g, g = f \o t
  PROVE  /\ g \in File /\ Len(g) = Len(f) + Len(t) /\ Len(f) <= Len(g) /\ Agree(f, g, Len(f))
         /\ \A i \in 1 .. Len(t) : g[Len(f) + i] = t[i]
<1>1. PICK l \in Nat : l = Len(f)
  BY FileFacts
<1>2. PICK m \in Nat : m = Len(t)
  BY FileFacts
<1>3. /\ g \in File /\ Len(g) = l + m
      /\ \A i \in 1 .. l + m : g[i] = IF i <= l THEN f[i] ELSE t[i - l]
  BY <1>1, <1>2, ConcatProperties DEF File
<1>4. \A i \in 1 .. l : g[i] = f[i]
  BY <1>3
<1>5. ASSUME NEW i \in 1 .. m PROVE g[l + i] = t[i]
  <2>1. PICK j \in 1 .. l + m : j = l + i /\ ~(j <= l) /\ j - l = i
    OBVIOUS
  <2>2. g[j] = t[j - l]
    BY <2>1, <1>3
  <2> QED BY <2>1, <2>2
<1> QED BY <1>1, <1>2, <1>3, <1>4, <1>5 DEF Agree

LEMMA SegmentExtended ==
  ASSUME NEW S, NEW Y, SegsOK(S, Y), Len(S) # 0, NEW t \in File,
         NEW R, R = [S EXCEPT ![Len(S)] = @ \o t]
  PROVE  /\ SegsOK(R, Y) /\ Len(R) = Len(S) /\ R[Len(S)] = S[Len(S)] \o t
         /\ \A i \in 1 .. Len(S) : i # Len(S) => R[i] = S[i]
<1>1. PICK n \in Nat : n = Len(S) /\ n # 0 /\ n \in 1 .. n
  BY SegsFacts
<1>2. DOMAIN S = 1 .. n /\ \A i \in 1 .. n : S[i] \in File /\ Y[i] \in Nat /\ Y[i] <= Len(S[i])
  BY <1>1, SegsFacts
<1>3. PICK g \in File : g = S[n] \o t /\ Len(S[n]) <= Len(g)
  BY <1>1, <1>2, ConcatFile
<1>4. S \in [1 .. n -> File]
  BY <1>1, <1>2, SeqDef, LenProperties DEF SegsOK
<1>5. R = [i \in 1 .. n |-> IF i = n THEN g ELSE S[i]]
  BY <1>1, <1>2, <1>3, <1>4
<1>6. R \in [1 .. n -> File]
  BY <1>2, <1>5
<1>7. R \in Seq(File) /\ Len(R) = n
  BY <1>6, FunSeq
<1>8. ASSUME NEW i \in 1 .. n PROVE Y[i] <= Len(R[i])
  <2>1. Len(S[i]) \in Nat /\ Len(R[i]) \in Nat
    BY <1>2, <1>6, FileFacts
  <2>2. Len(S[i]) <= Len(R[i])
    BY <2>1, <1>3, <1>5
  <2> QED BY <2>1, <2>2, <1>2
<1>9. SegsOK(R, Y)
  BY <1>1, <1>6, <1>7, <1>8 DEF SegsOK
<1> QED BY <1>1, <1>3, <1>5, <1>7, <1>9

LEMMA SegmentSynced ==
  ASSUME NEW S, NEW Y, SegsOK(S, Y), Len(S) # 0, NEW Z, Z = [Y EXCEPT ![Len(Y)] = Len(S[Len(S)])]
  PROVE  SegsOK(S, Z)
<1>1. PICK n \in Nat : n = Len(S) /\ n # 0 /\ n \in 1 .. n /\ n = Len(Y)
  BY SegsFacts
<1>2. DOMAIN S = 1 .. n /\ DOMAIN Y = 1 .. n /\ \A i \in 1 .. n : S[i] \in File /\ Y[i] \in Nat /\ Y[i] <= Len(S[i])
  BY <1>1, SegsFacts
<1>3. PICK l \in Nat : l = Len(S[n])
  BY <1>1, <1>2, FileFacts
<1>4. Y \in [1 .. n -> Nat]
  BY <1>1, <1>2, SeqDef, LenProperties DEF SegsOK
<1>5. Z = [i \in 1 .. n |-> IF i = n THEN l ELSE Y[i]]
  BY <1>1, <1>3, <1>4
<1>6. Z \in [1 .. n -> Nat]
  BY <1>2, <1>5
<1>7. Z \in Seq(Nat) /\ Len(Z) = n
  <2>1. PICK T : T = Nat
    OBVIOUS
  <2>2. Z \in [1 .. n -> T]
    BY <2>1, <1>6
  <2>3. Z \in Seq(T) /\ Len(Z) = n
    BY <2>2, FunSeq, ZenonT(60)
  <2> QED BY <2>1, <2>3
<1>8. \A i \in 1 .. n : Z[i] <= Len(S[i])
  BY <1>2, <1>3, <1>5
<1> QED BY <1>1, <1>2, <1>7, <1>8 DEF SegsOK

LEMMA SegmentsDropped ==
  ASSUME NEW S, NEW Y, SegsOK(S, Y), NEW drop
  PROVE  SegsOK(Without(S, drop), Without(Y, drop))
<1>1. PICK n \in Nat : n = Len(S) /\ DOMAIN S = 1 .. n /\ DOMAIN Y = 1 .. n
  BY SegsFacts
<1>2. PICK K : K = (1 .. n) \ drop
  OBVIOUS
<1>3. PICK o : o = InOrder(K)
  OBVIOUS
<1>4. PICK c : c = Cardinality(K)
  OBVIOUS
<1>5. PICK R : R = Without(S, drop)
  OBVIOUS
<1>6. PICK Z : Z = Without(Y, drop)
  OBVIOUS
<1>7. K = DOMAIN S \ drop /\ K = DOMAIN Y \ drop /\ S \in Seq(File) /\ Y \in Seq(Nat)
  BY <1>1, <1>2, SegsFacts
<1>8. R \in Seq(File) /\ c \in Nat /\ Len(R) = c /\ \A i \in 1 .. c : R[i] = S[o[i]] /\ o[i] \in 1 .. n
  BY <1>1, <1>3, <1>4, <1>5, <1>7, WithoutFacts
<1>9. Z \in Seq(Nat) /\ Len(Z) = c /\ \A i \in 1 .. c : Z[i] = Y[o[i]]
  <2>1. PICK T : T = Nat
    OBVIOUS
  <2>2. Y \in Seq(T) /\ K = DOMAIN Y \ drop
    BY <2>1, <1>7
  <2>3. Z \in Seq(T) /\ Len(Z) = c /\ \A i \in 1 .. c : Z[i] = Y[o[i]]
    BY <2>2, <1>3, <1>4, <1>6, WithoutFacts
  <2> QED BY <2>1, <2>3
<1>10. \A i \in 1 .. n : Y[i] <= Len(S[i])
  BY <1>1, SegsFacts
<1>11. DOMAIN R = 1 .. c
  BY <1>8, LenProperties
<1> QED BY <1>5, <1>6, <1>8, <1>9, <1>10, <1>11 DEF SegsOK

\* open leaves every file repaired, and what was synced of it synced.
LEMMA SegmentsRepaired ==
  ASSUME SegsOK(segFiles, segSynced),
         NEW Z, Z = [i \in DOMAIN segFiles |-> LeastOf(segSynced[i], Len(RepairedSegs[i]))]
  PROVE  SegsOK(RepairedSegs, Z) /\ Len(RepairedSegs) = Len(segFiles)
<1>1. PICK S : S = segFiles
  OBVIOUS
<1>2. PICK Y : Y = segSynced
  OBVIOUS
<1>3. PICK n \in Nat : n = Len(S) /\ DOMAIN S = 1 .. n /\ \A i \in 1 .. n : Y[i] \in Nat
  BY <1>1, <1>2, SegsFacts
<1>4. PICK R \in Seq(File) : R = RepairedSegs /\ Len(R) = n /\ \A i \in 1 .. n : R[i] \in File
  BY <1>1, <1>2, <1>3, RepairedSegsType, SegsFacts
<1>5. Z = [i \in 1 .. n |-> LeastOf(Y[i], Len(R[i]))]
  BY <1>1, <1>2, <1>3, <1>4
<1>6. ASSUME NEW i \in 1 .. n PROVE Z[i] \in Nat /\ Z[i] <= Len(R[i])
  <2>1. Y[i] \in Nat /\ Len(R[i]) \in Nat
    BY <1>3, <1>4, FileFacts
  <2>2. Z[i] = LeastOf(Y[i], Len(R[i]))
    BY <1>5
  <2>3. LeastOf(Y[i], Len(R[i])) \in Nat /\ LeastOf(Y[i], Len(R[i])) <= Len(R[i])
    BY <2>1 DEF LeastOf
  <2> QED BY <2>2, <2>3
<1>7. Z \in [1 .. n -> Nat]
  BY <1>5, <1>6
<1>8. Z \in Seq(Nat) /\ Len(Z) = n
  BY <1>7, FunSeq
<1>9. DOMAIN R = 1 .. n
  BY <1>4, LenProperties
<1>10. SegsOK(R, Z)
  BY <1>4, <1>6, <1>8, <1>9 DEF SegsOK
<1> QED BY <1>1, <1>3, <1>4, <1>10

LEMMA InfosRepaired ==
  ASSUME SegsOK(segFiles, segSynced)
  PROVE  /\ [i \in DOMAIN segFiles |-> SegmentInfo(RepairedSegs[i])] \in Seq(Info)
         /\ Len([i \in DOMAIN segFiles |-> SegmentInfo(RepairedSegs[i])]) = Len(segFiles)
<1>1. PICK n \in Nat : n = Len(segFiles) /\ DOMAIN segFiles = 1 .. n
  BY SegsFacts
<1>2. PICK R \in Seq(File) : R = RepairedSegs /\ \A i \in 1 .. n : R[i] \in File
  BY <1>1, RepairedSegsType, SegsFacts
<1>3. [i \in 1 .. n |-> SegmentInfo(R[i])] \in [1 .. n -> Info]
  BY <1>2, SegmentInfoType
<1>4. [i \in 1 .. n |-> SegmentInfo(R[i])] \in Seq(Info) /\ Len([i \in 1 .. n |-> SegmentInfo(R[i])]) = n
  BY <1>3, FunSeq
<1> QED BY <1>1, <1>2, <1>4

-----------------------------------------------------------------------------
(* Every step keeps the types and where append stands.                     *)

LEMMA ModeFacts ==
  ASSUME NEW m \in Modes
  PROVE  m.sync \in BOOLEAN /\ m.max \in Nat /\ m.max # 0 /\ m.keys \in SUBSET RecordKeys
         /\ m.faults \in SUBSET Fault
BY StoreAssumption

LEMMA CutoffType ==
  ASSUME mode \in Modes, NEW c \in Cutoffs
  PROVE  c \in Nat
<1>1. \A k \in mode.keys : Measured[k] \in Nat
  BY ModeFacts, StoreAssumption
<1> QED BY <1>1 DEF Cutoffs

LEMMA ToSegmentType ==
  ASSUME SegsOK(segFiles, segSynced), NEW n, n = Len(segments), n # 0,
         n \in {Len(segFiles), Len(segFiles) + 1}, NEW t \in File, ToSegment(t)
  PROVE  SegsOK(segFiles', segSynced') /\ Len(segFiles') = n
<1>1. PICK S : S = segFiles
  OBVIOUS
<1>2. PICK Y : Y = segSynced
  OBVIOUS
<1>3. SegsOK(S, Y) /\ Len(S) \in Nat /\ n \in {Len(S), Len(S) + 1}
  BY <1>1, <1>2, SegsFacts
<1>4. CASE Len(S) < n
  <2>1. segFiles' = Append(S, t) /\ segSynced' = Append(Y, 0) /\ n = Len(S) + 1
    BY <1>1, <1>2, <1>3, <1>4 DEF ToSegment
  <2> QED BY <2>1, <1>3, SegmentCreated
<1>5. CASE ~(Len(S) < n)
  <2>1. segFiles' = [S EXCEPT ![Len(S)] = @ \o t] /\ segSynced' = Y /\ Len(S) = n
    BY <1>1, <1>2, <1>3, <1>5 DEF ToSegment
  <2>2. PICK R : R = [S EXCEPT ![Len(S)] = @ \o t]
    OBVIOUS
  <2>3. SegsOK(R, Y) /\ Len(R) = Len(S)
    BY <2>1, <2>2, <1>3, SegmentExtended, ZenonT(60)
  <2>4. segFiles' = R
    BY <2>1, <2>2
  <2> QED BY <2>1, <2>3, <2>4
<1> QED BY <1>4, <1>5

\* The files and the variables of a call, and the rest.
Files == SegsOK(segFiles, segSynced) /\ idxFile \in File /\ idxSynced \in 0 .. Len(idxFile)

LEMMA TypeFacts ==
  ASSUME TypeOK
  PROVE  /\ Files /\ mode \in Modes /\ status \in {"up", "down", "corrupt"}
         /\ seen \in SUBSET RecordKeys /\ {acked, misread} \subseteq SUBSET RecordKeys
         /\ segments \in Seq(Info) /\ Len(segments) \in Nat
         /\ pc \in Steps /\ current \in RecordKeys \cup {NoKey}
         /\ horizon \in Nat /\ faults \in Nat
         /\ Len(segFiles) \in Nat /\ Len(idxFile) \in Nat /\ DOMAIN segFiles = 1 .. Len(segFiles)
<1>1. Files /\ segments \in Seq(Info)
  BY DEF TypeOK, SegsOK, Files, Info
<1>2. Len(segments) \in Nat
  BY <1>1, LenProperties
<1>3. Len(segFiles) \in Nat /\ DOMAIN segFiles = 1 .. Len(segFiles)
  BY <1>1, SegsFacts DEF Files
<1>4. Len(idxFile) \in Nat
  BY <1>1, FileFacts DEF Files
<1> QED BY <1>1, <1>2, <1>3, <1>4 DEF TypeOK

LEMMA TypeNext ==
  ASSUME SegsOK(segFiles', segSynced'), idxFile' \in File, idxSynced' \in 0 .. Len(idxFile'),
         mode' \in Modes, status' \in {"up", "down", "corrupt"},
         seen' \in SUBSET RecordKeys, {acked', misread'} \subseteq SUBSET RecordKeys, segments' \in Seq(Info),
         pc' \in Steps, current' \in RecordKeys \cup {NoKey}, horizon' \in Nat, faults' \in Nat
  PROVE  TypeOK'
BY DEF TypeOK, SegsOK, Info

LEMMA InfosDropped ==
  ASSUME NEW S, NEW Y, SegsOK(S, Y), NEW G \in Seq(Info), Len(G) \in {Len(S), Len(S) + 1},
         NEW drop, drop \subseteq 1 .. Len(G) - 1
  PROVE  /\ Without(G, drop) \in Seq(Info)
         /\ Len(Without(G, drop)) \in {Len(Without(S, drop)), Len(Without(S, drop)) + 1}
         /\ Len(G) # 0 => Without(G, drop)[Len(Without(G, drop))] = G[Len(G)]
         /\ Len(Without(G, drop)) # Len(Without(S, drop)) => Len(G) # Len(S)
<1>1. PICK n \in Nat : n = Len(S) /\ DOMAIN S = 1 .. n
  BY SegsFacts
<1>2. PICK m \in Nat : m = Len(G) /\ DOMAIN G = 1 .. m /\ m \in {n, n + 1}
  BY <1>1, LenProperties
<1>3. PICK K : K = (1 .. n) \ drop
  OBVIOUS
<1>4. PICK J : J = (1 .. m) \ drop
  OBVIOUS
<1>5. IsFiniteSet(K) /\ Cardinality(K) \in Nat
  <2>1. IsFiniteSet(1 .. n) /\ K \in SUBSET (1 .. n)
    BY <1>3, FS_Interval, SMTT(60)
  <2> QED BY <2>1, FS_Subset, FS_CardinalityType
<1>6. /\ m = n => J = K
      /\ m = n + 1 => Cardinality(J) = Cardinality(K) + 1
  <2>1. ASSUME m = n + 1 PROVE Cardinality(J) = Cardinality(K) + 1
    <3>1. n + 1 \notin drop
      BY <2>1, <1>2
    <3>2. J = K \cup {n + 1} /\ n + 1 \notin K
      BY <3>1, <2>1, <1>3, <1>4
    <3> QED BY <3>2, <1>5, FS_AddElement
  <2> QED BY <2>1, <1>3, <1>4
<1>7. Len(Without(S, drop)) = Cardinality(K)
  <2>1. S \in Seq(File) /\ K = DOMAIN S \ drop
    BY <1>1, <1>3, SegsFacts
  <2> QED BY <2>1, WithoutFacts
<1>8. PICK o : o = InOrder(J)
  OBVIOUS
<1>9. PICK c : c = Cardinality(J)
  OBVIOUS
<1>10. PICK r : r = Without(G, drop)
  OBVIOUS
<1>11. /\ r \in Seq(Info) /\ c \in Nat /\ Len(r) = c /\ Increasing(o, J)
       /\ \A i \in 1 .. c : r[i] = G[o[i]] /\ o[i] \in 1 .. m
  <2>1. J = DOMAIN G \ drop /\ G \in Seq(Info)
    BY <1>2, <1>4
  <2>2. /\ r \in Seq(Info) /\ c \in Nat /\ Len(r) = c /\ Increasing(o, J)
        /\ \A i \in 1 .. c : r[i] = G[o[i]] /\ o[i] \in 1 .. Len(G)
    BY <2>1, <1>8, <1>9, <1>10, WithoutFacts
  <2> QED BY <2>2, <1>2
<1>12. ASSUME m # 0 PROVE r[c] = G[m]
  <2>1. m \in J
    <3>1. m \in 1 .. m /\ m \notin 1 .. m - 1
      BY <1>2, <1>12
    <3> QED BY <3>1, <1>2, <1>4
  <2>2. /\ \A j \in J : \E i \in 1 .. c : o[i] = j
        /\ \A i, j \in 1 .. c : i < j => o[i] < o[j]
    BY <1>9, <1>11 DEF Increasing
  <2>3. PICK i \in 1 .. c : o[i] = m
    BY <2>1, <2>2
  <2>4. c \in 1 .. c /\ (i < c \/ i = c)
    BY <1>11
  <2>5. ~(i < c)
    <3>1. o[c] \in 1 .. m
      BY <2>4, <1>11
    <3>2. i < c => m < o[c]
      BY <2>2, <2>3, <2>4
    <3> QED BY <3>1, <3>2
  <2> QED BY <2>3, <2>4, <2>5, <1>11
<1>13. Cardinality(J) \in {Cardinality(K), Cardinality(K) + 1}
  BY <1>2, <1>6
<1>14. c # Cardinality(K) => m # n
  BY <1>6, <1>9
<1> QED BY <1>1, <1>2, <1>7, <1>9, <1>10, <1>11, <1>12, <1>13, <1>14

\* What open leaves of the index, with the lines that it merges in.
LEMMA IndexRepaired ==
  ASSUME segFiles \in Seq(File), idxFile \in File, NEW f, f = RepairedIndex(idxFile),
         NEW g, g = f \o IndexLines(Missing)
  PROVE  /\ f \in File /\ Len(f) <= Len(idxFile) /\ Agree(idxFile, f, Len(f)) /\ Ended(f)
         /\ g \in File /\ Len(f) <= Len(g) /\ Agree(f, g, Len(f)) /\ Ended(g)
         /\ Len(f) \in Nat /\ Len(g) \in Nat /\ Len(idxFile) \in Nat
         /\ Missing \subseteq RecordKeys /\ IsFiniteSet(Missing)
<1>1. PICK h \in File : h = idxFile
  OBVIOUS
<1>2. f \in File /\ Len(f) <= Len(h) /\ Agree(h, f, Len(f)) /\ Ended(f)
  BY <1>1, RepairedIndexKeeps
<1>3. PICK M : M = Missing
  OBVIOUS
<1>4. M \subseteq RecordKeys /\ IsFiniteSet(M)
  BY <1>3, MissingType
<1>5. g \in File /\ Len(f) <= Len(g) /\ Agree(f, g, Len(f)) /\ Ended(g)
  BY <1>2, <1>3, <1>4, IndexExtended
<1> QED BY <1>1, <1>2, <1>3, <1>4, <1>5, FileFacts

LEMMA OpenType ==
  ASSUME TypeOK, InCall, Open
  PROVE  TypeOK' /\ InCall'
<1>1. Files /\ mode \in Modes
  BY TypeFacts
<1>2. segFiles \in Seq(File) /\ idxFile \in File /\ idxSynced \in Nat
  BY <1>1, SegsFacts DEF Files
<1>3. PICK f : f = RepairedIndex(idxFile)
  OBVIOUS
<1>4. idxFile' = f \o IndexLines(Missing)
  BY <1>3 DEF Open
<1>5. f \in File /\ idxFile' \in File /\ Len(f) <= Len(idxFile') /\ Len(f) \in Nat /\ Len(idxFile') \in Nat
      /\ Missing \subseteq RecordKeys
  BY <1>2, <1>3, <1>4, IndexRepaired
<1>6. idxSynced' \in 0 .. Len(idxFile')
  <2>1. idxSynced' = Len(idxFile') \/ idxSynced' = LeastOf(idxSynced, Len(f))
    BY <1>3 DEF Open
  <2>2. LeastOf(idxSynced, Len(f)) \in 0 .. Len(f)
    BY <1>2, <1>5 DEF LeastOf
  <2> QED BY <2>1, <2>2, <1>5
<1>7. SegsOK(segFiles', segSynced') /\ Len(segFiles') = Len(segFiles)
  <2>1. segSynced' = [i \in DOMAIN segFiles |-> LeastOf(segSynced[i], Len(RepairedSegs[i]))]
        /\ segFiles' = RepairedSegs
    BY DEF Open
  <2> QED BY <2>1, <1>1, SegmentsRepaired DEF Files
<1>8. segments' \in Seq(Info) /\ Len(segments') = Len(segFiles)
  <2>1. segments' = [i \in DOMAIN segFiles |-> SegmentInfo(RepairedSegs[i])]
    BY DEF Open
  <2> QED BY <2>1, <1>1, InfosRepaired DEF Files
<1>9. seen' \in SUBSET RecordKeys
  <2>1. KeySet(f) \subseteq RecordKeys
    BY <1>5, KeySetType
  <2>2. seen' = KeySet(f) \cup Missing
    BY <1>3 DEF Open
  <2> QED BY <2>1, <2>2, <1>5
<1>10. TypeOK'
  <2>1. mode' \in Modes /\ status' \in {"up", "down", "corrupt"} /\ {acked', misread'} \subseteq SUBSET RecordKeys
        /\ pc' \in Steps /\ current' \in RecordKeys \cup {NoKey} /\ horizon' \in Nat /\ faults' \in Nat
    BY TypeFacts DEF Open, Steps
  <2> QED BY <2>1, <1>5, <1>6, <1>7, <1>8, <1>9, TypeNext
<1>11. InCall'
  BY <1>7, <1>8 DEF InCall, Open
<1> QED BY <1>10, <1>11

\* Tokens that a write may leave in a file.
LEMMA TokenFiles ==
  ASSUME NEW k \in RecordKeys
  PROVE  /\ <<Entry(k)>> \in File /\ <<Newline>> \in File /\ <<Torn>> \in File /\ <<>> \in File
         /\ <<Entry(k), Newline>> \in File /\ <<Digits>> \in File
BY Tokens DEF File

LEMMA IndexAppended ==
  ASSUME NEW f \in File, NEW t \in Token, NEW g, g = Append(f, t)
  PROVE  g \in File /\ Len(g) = Len(f) + 1 /\ Agree(f, g, Len(f)) /\ Len(f) \in Nat
<1>1. PICK n \in Nat : n = Len(f)
  BY FileFacts
<1>2. g \in Seq(Token) /\ Len(g) = n + 1 /\ \A i \in 1 .. n : g[i] = f[i]
  BY <1>1, AppendProperties DEF File
<1> QED BY <1>1, <1>2 DEF Agree, File

LEMMA OpenCorruptType ==
  ASSUME TypeOK, InCall, OpenCorrupt
  PROVE  TypeOK' /\ InCall'
<1>1. PICK f \in File : f = idxFile
  BY TypeFacts DEF Files
<1>2. RepairedIndex(f) \in File
  BY RepairedIndexKeeps
<1>3. idxFile' \in File /\ idxSynced' = LeastOf(idxSynced, Len(idxFile'))
  BY <1>1, <1>2 DEF OpenCorrupt
<1>4. idxSynced' \in 0 .. Len(idxFile')
  <2>1. Len(idxFile') \in Nat /\ idxSynced \in Nat
    BY <1>3, FileFacts, TypeFacts DEF Files
  <2> QED BY <2>1, <1>3 DEF LeastOf
<1>5. SegsOK(segFiles', segSynced')
  BY TypeFacts DEF OpenCorrupt, Files
<1>6. /\ mode' \in Modes /\ status' \in {"up", "down", "corrupt"} /\ {acked', misread'} \subseteq SUBSET RecordKeys
      /\ seen' \in SUBSET RecordKeys /\ segments' \in Seq(Info)
      /\ pc' \in Steps /\ current' \in RecordKeys \cup {NoKey} /\ horizon' \in Nat /\ faults' \in Nat
  BY TypeFacts DEF OpenCorrupt, memory
<1>7. TypeOK'
  BY <1>3, <1>4, <1>5, <1>6, TypeNext
<1> QED BY <1>7 DEF InCall, OpenCorrupt, memory

LEMMA AppendDuplicateType ==
  ASSUME TypeOK, InCall, NEW k \in mode.keys, AppendDuplicate(k)
  PROVE  TypeOK' /\ InCall'
<1>1. k \in RecordKeys
  BY TypeFacts, ModeFacts
<1>2. {acked', misread'} \subseteq SUBSET RecordKeys
  BY <1>1, TypeFacts DEF AppendDuplicate
<1>3. SegsOK(segFiles', segSynced') /\ idxFile' \in File /\ idxSynced' \in 0 .. Len(idxFile')
  BY TypeFacts DEF AppendDuplicate, disk, Files
<1>4. /\ mode' \in Modes /\ status' \in {"up", "down", "corrupt"}
      /\ seen' \in SUBSET RecordKeys /\ segments' \in Seq(Info)
      /\ pc' \in Steps /\ current' \in RecordKeys \cup {NoKey} /\ horizon' \in Nat /\ faults' \in Nat
  BY TypeFacts DEF AppendDuplicate, memory
<1>5. TypeOK'
  BY <1>2, <1>3, <1>4, TypeNext
<1> QED BY <1>5 DEF InCall, AppendDuplicate, memory, disk

LEMMA AppendBeginType ==
  ASSUME TypeOK, InCall, NEW k \in mode.keys, AppendBegin(k)
  PROVE  TypeOK' /\ InCall'
<1>1. k \in RecordKeys
  BY TypeFacts, ModeFacts
<1>2. PICK G \in Seq(Info) : G = segments
  BY TypeFacts
<1>3. PICK n \in Nat : n = Len(segFiles)
  BY TypeFacts
<1>4. Len(G) \in Nat /\ (G = <<>> <=> Len(G) = 0)
  BY EmptySeq, LenProperties
<1>5. PICK i : i = [records |-> 0, newest |-> 0]
  OBVIOUS
<1>6. i \in Info
  BY <1>5 DEF Info
<1>7. Append(G, i) \in Seq(Info) /\ Len(Append(G, i)) = Len(G) + 1
  BY <1>6, AppendProperties
<1>8. segments' \in Seq(Info)
  BY <1>2, <1>5, <1>7 DEF AppendBegin
<1>9. SegsOK(segFiles', segSynced') /\ idxFile' \in File /\ idxSynced' \in 0 .. Len(idxFile')
  BY TypeFacts DEF AppendBegin, disk, Files
<1>10. /\ mode' \in Modes /\ status' \in {"up", "down", "corrupt"}
       /\ seen' \in SUBSET RecordKeys /\ {acked', misread'} \subseteq SUBSET RecordKeys
       /\ pc' \in Steps /\ current' \in RecordKeys \cup {NoKey} /\ horizon' \in Nat /\ faults' \in Nat
  BY <1>1, TypeFacts DEF AppendBegin, Steps
<1>11. TypeOK'
  BY <1>8, <1>9, <1>10, TypeNext
<1>12. /\ Len(G) \in {n, n + 1} /\ (Len(G) # n => G[Len(G)].records = 0)
  BY <1>2, <1>3 DEF AppendBegin, InCall
<1>13. PICK g : g = segments'
  OBVIOUS
<1>14. /\ Len(g) \in {n, n + 1} /\ (Len(g) # n => g[Len(g)].records = 0)
       /\ g # <<>>
  <2>1. CASE g = G /\ G # <<>>
    BY <2>1, <1>12
  <2>2. CASE g = Append(G, i) /\ (G = <<>> \/ G[Len(G)].records >= mode.max)
    <3>1. Len(G) = n
      <4>1. CASE G = <<>>
        BY <4>1, <1>4, <1>12
      <4>2. CASE G[Len(G)].records >= mode.max
        <5>1. mode.max \in Nat /\ mode.max # 0
          BY TypeFacts, ModeFacts
        <5> QED BY <5>1, <4>2, <1>12
      <4> QED BY <4>1, <4>2, <2>2
    <3>2. g[n + 1].records = 0
      BY <3>1, <2>2, <1>5, <1>6, AppendProperties
    <3>3. g # <<>>
      BY <2>2, <1>6, AppendProperties
    <3> QED BY <3>1, <3>2, <3>3, <2>2, <1>7
  <2> QED BY <2>1, <2>2, <1>2, <1>5, <1>13 DEF AppendBegin
<1>15. InCall'
  BY <1>3, <1>13, <1>14 DEF InCall, AppendBegin, disk
<1> QED BY <1>11, <1>15

LEMMA WriteLineType ==
  ASSUME TypeOK, InCall, WriteLine
  PROVE  TypeOK' /\ InCall'
<1>1. /\ pc = "line" /\ status = "up" /\ current \in RecordKeys
      /\ segments # <<>> /\ Len(segments) \in {Len(segFiles), Len(segFiles) + 1}
  BY TypeFacts, ModeFacts DEF WriteLine, InCall
<1>2. Len(segments) # 0
  BY <1>1, TypeFacts, EmptySeq
<1>3. SegsOK(segFiles', segSynced') /\ Len(segFiles') = Len(segments)
  BY <1>1, <1>2, TypeFacts, TokenFiles, ToSegmentType DEF WriteLine, Files
<1>4. /\ mode' \in Modes /\ status' \in {"up", "down", "corrupt"} /\ {acked', misread'} \subseteq SUBSET RecordKeys
      /\ seen' \in SUBSET RecordKeys /\ segments' \in Seq(Info)
      /\ pc' \in Steps /\ current' \in RecordKeys \cup {NoKey} /\ horizon' \in Nat /\ faults' \in Nat
      /\ idxFile' \in File /\ idxSynced' \in 0 .. Len(idxFile')
  BY TypeFacts DEF WriteLine, Steps, Files
<1>5. TypeOK'
  BY <1>3, <1>4, TypeNext
<1> QED BY <1>1, <1>3, <1>5 DEF InCall, WriteLine

LEMMA WriteNewlineType ==
  ASSUME TypeOK, InCall, WriteNewline
  PROVE  TypeOK' /\ InCall'
<1>1. /\ pc = "newline" /\ status = "up" /\ current \in RecordKeys
      /\ segments # <<>> /\ Len(segments) = Len(segFiles)
  BY TypeFacts, ModeFacts DEF WriteNewline, InCall
<1>2. Len(segments) # 0
  BY <1>1, TypeFacts, EmptySeq
<1>3. SegsOK(segFiles', segSynced') /\ Len(segFiles') = Len(segments)
  BY <1>1, <1>2, TypeFacts, TokenFiles, ToSegmentType DEF WriteNewline, Files
<1>4. /\ mode' \in Modes /\ status' \in {"up", "down", "corrupt"} /\ {acked', misread'} \subseteq SUBSET RecordKeys
      /\ seen' \in SUBSET RecordKeys /\ segments' \in Seq(Info)
      /\ pc' \in Steps /\ current' \in RecordKeys \cup {NoKey} /\ horizon' \in Nat /\ faults' \in Nat
      /\ idxFile' \in File /\ idxSynced' \in 0 .. Len(idxFile')
  BY TypeFacts DEF WriteNewline, Steps, Files
<1>5. TypeOK'
  BY <1>3, <1>4, TypeNext
<1> QED BY <1>1, <1>3, <1>5 DEF InCall, WriteNewline

LEMMA SyncSegmentType ==
  ASSUME TypeOK, InCall, SyncSegment
  PROVE  TypeOK' /\ InCall'
<1>1. pc = "sync" /\ status = "up" /\ segments # <<>> /\ Len(segments) = Len(segFiles)
  BY DEF SyncSegment, InCall
<1>2. Len(segFiles) # 0
  BY <1>1, TypeFacts, EmptySeq
<1>3. PICK Z : Z = [segSynced EXCEPT ![Len(segSynced)] = Len(segFiles[Len(segFiles)])]
  OBVIOUS
<1>4. SegsOK(segFiles, Z)
  BY <1>2, <1>3, TypeFacts, SegmentSynced DEF Files
<1>5. SegsOK(segFiles', segSynced')
  BY <1>3, <1>4 DEF SyncSegment
<1>6. /\ mode' \in Modes /\ status' \in {"up", "down", "corrupt"} /\ {acked', misread'} \subseteq SUBSET RecordKeys
      /\ seen' \in SUBSET RecordKeys /\ segments' \in Seq(Info)
      /\ pc' \in Steps /\ current' \in RecordKeys \cup {NoKey} /\ horizon' \in Nat /\ faults' \in Nat
      /\ idxFile' \in File /\ idxSynced' \in 0 .. Len(idxFile')
  BY TypeFacts DEF SyncSegment, Steps, Files
<1>7. TypeOK'
  BY <1>5, <1>6, TypeNext
<1> QED BY <1>1, <1>7 DEF InCall, SyncSegment

\* Digits at the end of the index are on no line that it holds.
LEMMA DigitsIgnored ==
  ASSUME NEW f \in File, NEW n \in Nat, Len(f) = n + 1, f[n + 1] = Digits, NEW K, Keeps(f, n + 1, K)
  PROVE  Keeps(f, n, K)
<1>1. f[n + 1] # Newline /\ DOMAIN f = 1 .. n + 1
  BY FileFacts, Tokens
<1>2. CASE Spoilt(f, n + 1)
  <2>1. PICK i \in BadLines(f), j \in 1 .. n + 1 : i <= j /\ f[j] = Newline
    BY <1>2 DEF Spoilt
  <2>2. j \in 1 .. n
    BY <2>1, <1>1
  <2> QED BY <2>1, <2>2 DEF Keeps, Spoilt
<1>3. CASE \A k \in K : HasLine(f, n + 1, k)
  <2>1. ASSUME NEW k \in K PROVE HasLine(f, n, k)
    <3>1. PICK i \in LineStarts(f) : i < n + 1 /\ f[i] = Entry(k) /\ f[i + 1] = Newline
      BY <1>3 DEF HasLine
    <3>2. i \in 1 .. n + 1 /\ i + 1 # n + 1
      BY <3>1, <1>1 DEF LineStarts
    <3>3. i < n
      BY <3>1, <3>2
    <3> QED BY <3>1, <3>3 DEF HasLine
  <2> QED BY <2>1 DEF Keeps
<1> QED BY <1>2, <1>3 DEF Keeps

\* The line that append_dedup_lines adds takes in the digits before it and
\* nothing else.
LEMMA LineReadFacts ==
  ASSUME NEW f \in File, NEW k \in RecordKeys, NEW r \in RecordKeys, ~EndsInDigits(f) => r = k,
         NEW g, g = LineRead(f, k, r)
  PROVE  /\ g \in File /\ Len(f) < Len(g) /\ Keeps(g, Len(g), {r})
         /\ \A K : Keeps(f, Len(f), K) => Keeps(g, Len(f), K) /\ Keeps(g, Len(g), K)
<1>1. PICK n \in Nat : n = Len(f)
  BY FileFacts
<1>2. ASSUME NEW p \in File, Len(p) <= n, n <= Len(p) + 1, g = p \o <<Entry(r), Newline>>,
             \A K : Keeps(f, n, K) => Keeps(p, Len(p), K)
      PROVE  /\ g \in File /\ n < Len(g) /\ Keeps(g, Len(g), {r})
             /\ \A K : Keeps(f, n, K) => Keeps(g, n, K) /\ Keeps(g, Len(g), K)
  <2>1. g \in File /\ Len(g) = Len(p) + 2 /\ Agree(p, g, Len(p)) /\ Keeps(g, Len(g), {r})
    BY <1>2, LineAppended
  <2>2. Len(p) \in Nat /\ Len(g) \in Nat /\ n < Len(g)
    BY <1>2, <2>1, FileFacts
  <2>3. ASSUME NEW K, Keeps(f, n, K) PROVE Keeps(g, n, K) /\ Keeps(g, Len(g), K)
    <3>1. Keeps(p, Len(p), K)
      BY <1>2, <2>3
    <3>2. Len(p) <= Len(g) /\ n <= Len(g) /\ Len(g) <= Len(g)
      BY <1>2, <2>1, <2>2
    <3> QED BY <3>1, <3>2, <2>1, <2>2, <1>2, KeepsLonger
  <2> QED BY <2>1, <2>2, <2>3
<1>3. CASE EndsInDigits(f)
  <2>1. f # <<>> /\ f[n] = Digits
    BY <1>1, <1>3 DEF EndsInDigits
  <2>2. n # 0
    BY <2>1, <1>1, EmptySeq DEF File
  <2>3. PICK m \in Nat : m + 1 = n
    BY <2>2
  <2>4. PICK p : p = SubSeq(f, 1, m)
    OBVIOUS
  <2>5. n - 1 = m /\ m \in 0 .. Len(f)
    BY <2>3, <1>1
  <2>6. p \in File /\ Len(p) = m /\ Agree(f, p, m)
    BY <2>4, <2>5, PrefixFacts
  <2>7. ASSUME NEW K, Keeps(f, n, K) PROVE Keeps(p, m, K)
    <3>1. Keeps(f, m, K)
      BY <2>1, <2>3, <2>7, <1>1, DigitsIgnored
    <3> QED BY <3>1, <2>6, KeepsLonger
  <2>8. g = p \o <<Entry(r), Newline>>
    BY <2>4, <2>5, <1>1, <1>3 DEF LineRead
  <2>9. Len(p) <= n /\ n <= Len(p) + 1
    BY <2>3, <2>6
  <2> QED BY <2>6, <2>7, <2>8, <2>9, <1>1, <1>2
<1>4. CASE ~EndsInDigits(f)
  <2>1. g = f \o <<Entry(r), Newline>>
    BY <1>4 DEF LineRead
  <2>2. Len(f) <= n /\ n <= Len(f) + 1
    BY <1>1
  <2> QED BY <2>1, <2>2, <1>1, <1>2
<1> QED BY <1>3, <1>4

LEMMA WriteIndexType ==
  ASSUME TypeOK, InCall, WriteIndex
  PROVE  TypeOK' /\ InCall'
<1>1. pc = "index" /\ status = "up" /\ current \in RecordKeys
  BY TypeFacts, ModeFacts DEF WriteIndex, InCall
<1>2. PICK f \in File : f = idxFile
  BY TypeFacts DEF Files
<1>3. idxFile' \in File /\ Len(f) < Len(idxFile') /\ Len(f) \in Nat /\ Len(idxFile') \in Nat
  <2>1. PICK r \in RecordKeys : (~EndsInDigits(f) => r = current) /\ idxFile' = LineRead(f, current, r)
    BY <1>2 DEF WriteIndex
  <2>2. PICK k \in RecordKeys : k = current
    BY <1>1
  <2>3. PICK g : g = LineRead(f, k, r)
    OBVIOUS
  <2>4. g \in File /\ Len(f) < Len(g)
    BY <2>1, <2>2, <2>3, LineReadFacts
  <2> QED BY <2>1, <2>2, <2>3, <2>4, FileFacts
<1>4. idxSynced' \in 0 .. Len(idxFile')
  <2>1. idxSynced' \in 0 .. Len(f)
    BY <1>2, TypeFacts DEF WriteIndex, Files
  <2> QED BY <2>1, <1>3
<1>5. /\ mode' \in Modes /\ status' \in {"up", "down", "corrupt"} /\ {acked', misread'} \subseteq SUBSET RecordKeys
      /\ seen' \in SUBSET RecordKeys /\ segments' \in Seq(Info)
      /\ pc' \in Steps /\ current' \in RecordKeys \cup {NoKey} /\ horizon' \in Nat /\ faults' \in Nat
      /\ SegsOK(segFiles', segSynced')
  BY <1>1, TypeFacts DEF WriteIndex, Steps, Files
<1>6. TypeOK'
  BY <1>3, <1>4, <1>5, TypeNext
<1> QED BY <1>1, <1>6 DEF InCall, WriteIndex

LEMMA SyncIndexType ==
  ASSUME TypeOK, InCall, SyncIndex
  PROVE  TypeOK' /\ InCall'
<1>1. idxFile' \in File /\ idxSynced' \in 0 .. Len(idxFile')
  BY TypeFacts, FileFacts DEF SyncIndex, Files
<1>2. /\ mode' \in Modes /\ status' \in {"up", "down", "corrupt"} /\ {acked', misread'} \subseteq SUBSET RecordKeys
      /\ seen' \in SUBSET RecordKeys /\ segments' \in Seq(Info)
      /\ pc' \in Steps /\ current' \in RecordKeys \cup {NoKey} /\ horizon' \in Nat /\ faults' \in Nat
      /\ SegsOK(segFiles', segSynced')
  BY TypeFacts DEF SyncIndex, Steps, Files
<1>3. TypeOK'
  BY <1>1, <1>2, TypeNext
<1> QED BY <1>3 DEF InCall, SyncIndex

LEMMA CommitType ==
  ASSUME TypeOK, InCall, Commit
  PROVE  TypeOK' /\ InCall'
<1>1. pc = "commit" /\ status = "up" /\ current \in RecordKeys /\ segments # <<>>
      /\ Len(segments) = Len(segFiles)
  BY TypeFacts, ModeFacts DEF Commit, InCall
<1>2. PICK n \in Nat : n = Len(segments) /\ n # 0 /\ n \in 1 .. n
  BY <1>1, TypeFacts, EmptySeq
<1>3. PICK G : G = segments
  OBVIOUS
<1>4. G \in [1 .. n -> Info] /\ Measured[current] \in Nat
  BY <1>1, <1>2, <1>3, TypeFacts, SeqDef, LenProperties, StoreAssumption
<1>5. PICK i : i = [records |-> G[n].records + 1,
                    newest |-> IF G[n].newest >= Measured[current] THEN G[n].newest
                               ELSE Measured[current]]
  OBVIOUS
<1>6. i \in Info
  BY <1>2, <1>4, <1>5 DEF Info
<1>7. segments' = [G EXCEPT ![n] = i]
  BY <1>2, <1>3, <1>5 DEF Commit
<1>8. segments' \in [1 .. n -> Info]
  BY <1>4, <1>6, <1>7
<1>9. segments' \in Seq(Info) /\ Len(segments') = n
  BY <1>8, FunSeq
<1>10. /\ mode' \in Modes /\ status' \in {"up", "down", "corrupt"} /\ {acked', misread'} \subseteq SUBSET RecordKeys
       /\ seen' \in SUBSET RecordKeys
       /\ pc' \in Steps /\ current' \in RecordKeys \cup {NoKey} /\ horizon' \in Nat /\ faults' \in Nat
       /\ SegsOK(segFiles', segSynced') /\ idxFile' \in File /\ idxSynced' \in 0 .. Len(idxFile')
  BY <1>1, TypeFacts DEF Commit, Steps, Files, disk
<1>11. TypeOK'
  BY <1>9, <1>10, TypeNext
<1> QED BY <1>1, <1>2, <1>9, <1>11 DEF InCall, Commit, disk

\* Segments removed at a time of no call.
LEMMA DropSegmentsType ==
  ASSUME TypeOK, InCall, status = "up", NEW cutoff, NEW drop \in SUBSET Expired(cutoff)
  PROVE  /\ SegsOK(Without(segFiles, drop), Without(segSynced, drop))
         /\ Without(segments, drop) \in Seq(Info)
         /\ Len(Without(segments, drop)) \in
              {Len(Without(segFiles, drop)), Len(Without(segFiles, drop)) + 1}
         /\ Len(Without(segments, drop)) # Len(Without(segFiles, drop)) =>
              Without(segments, drop)[Len(Without(segments, drop))].records = 0
<1>1. PICK S : S = segFiles
  OBVIOUS
<1>2. PICK Y : Y = segSynced
  OBVIOUS
<1>3. PICK G \in Seq(Info) : G = segments
  BY TypeFacts
<1>4. SegsOK(S, Y) /\ Len(S) \in Nat /\ Len(G) \in Nat
  BY <1>1, <1>2, <1>3, TypeFacts DEF Files
<1>5. Len(G) \in {Len(S), Len(S) + 1} /\ (Len(G) # Len(S) => G[Len(G)].records = 0)
  BY <1>1, <1>3 DEF InCall
<1>6. drop \subseteq 1 .. Len(G) - 1
  BY <1>3 DEF Expired
<1>7. SegsOK(Without(S, drop), Without(Y, drop))
  BY <1>4, SegmentsDropped
<1>8. /\ Without(G, drop) \in Seq(Info)
      /\ Len(Without(G, drop)) \in {Len(Without(S, drop)), Len(Without(S, drop)) + 1}
      /\ Len(G) # 0 => Without(G, drop)[Len(Without(G, drop))] = G[Len(G)]
      /\ Len(Without(G, drop)) # Len(Without(S, drop)) => Len(G) # Len(S)
  BY <1>3, <1>4, <1>5, <1>6, InfosDropped
<1>9. Len(G) # Len(S) => Len(G) # 0
  BY <1>4, <1>5
<1> QED BY <1>1, <1>2, <1>3, <1>5, <1>7, <1>8, <1>9

LEMMA EnforceRetentionType ==
  ASSUME TypeOK, InCall, NEW c \in Cutoffs, EnforceRetention(c)
  PROVE  TypeOK' /\ InCall'
<1>1. status = "up" /\ pc = "idle" /\ DropSegments(Expired(c))
  BY DEF EnforceRetention
<1>2. PICK drop \in SUBSET Expired(c) : drop = Expired(c)
  OBVIOUS
<1>3. /\ segFiles' = Without(segFiles, drop) /\ segSynced' = Without(segSynced, drop)
      /\ segments' = Without(segments, drop)
  BY <1>1, <1>2 DEF DropSegments
<1>4. /\ SegsOK(segFiles', segSynced') /\ segments' \in Seq(Info)
      /\ Len(segments') \in {Len(segFiles'), Len(segFiles') + 1}
      /\ Len(segments') # Len(segFiles') => segments'[Len(segments')].records = 0
  BY <1>1, <1>2, <1>3, DropSegmentsType
<1>5. horizon' \in Nat
  BY CutoffType, TypeFacts DEF EnforceRetention
<1>6. /\ mode' \in Modes /\ status' \in {"up", "down", "corrupt"} /\ {acked', misread'} \subseteq SUBSET RecordKeys
      /\ seen' \in SUBSET RecordKeys
      /\ pc' \in Steps /\ current' \in RecordKeys \cup {NoKey} /\ faults' \in Nat
      /\ idxFile' \in File /\ idxSynced' \in 0 .. Len(idxFile')
  BY TypeFacts DEF EnforceRetention, Files
<1>7. TypeOK'
  BY <1>4, <1>5, <1>6, TypeNext
<1> QED BY <1>1, <1>4, <1>7 DEF InCall, EnforceRetention

LEMMA Fails ==
  ASSUME TypeOK, NEW kind, Fail(kind)
  PROVE  faults' \in Nat /\ kind \in mode.faults
BY TypeFacts DEF Fail

LEMMA MemoryLost ==
  ASSUME LoseMemory, TypeOK
  PROVE  /\ status' = "down" /\ pc' = "idle" /\ seen' = {} /\ current' = NoKey
         /\ status' \in {"up", "down", "corrupt"} /\ seen' \in SUBSET RecordKeys
         /\ segments' \in Seq(Info) /\ pc' \in Steps /\ current' \in RecordKeys \cup {NoKey}
         /\ InCall'
<1>1. segments' \in Seq(Info)
  BY EmptySeq DEF LoseMemory
<1> QED BY <1>1 DEF LoseMemory, InCall, Steps

LEMMA StopType ==
  ASSUME TypeOK, InCall, Stop
  PROVE  TypeOK' /\ InCall'
<1>1. /\ mode' \in Modes /\ {acked', misread'} \subseteq SUBSET RecordKeys /\ horizon' \in Nat /\ faults' \in Nat
      /\ SegsOK(segFiles', segSynced') /\ idxFile' \in File /\ idxSynced' \in 0 .. Len(idxFile')
  BY TypeFacts DEF Stop, Files, disk
<1>2. LoseMemory
  BY DEF Stop
<1> QED BY <1>1, <1>2, MemoryLost, TypeNext

\* A call that ends with t in the segment instead of its line.
LEMMA LineCut ==
  ASSUME TypeOK, InCall, pc = "line", NEW t \in {<<>>, <<Torn>>}, ToSegment(t)
  PROVE  SegsOK(segFiles', segSynced') /\ Len(segFiles') = Len(segments)
<1>1. /\ status = "up" /\ current \in RecordKeys
      /\ segments # <<>> /\ Len(segments) \in {Len(segFiles), Len(segFiles) + 1}
  BY TypeFacts, ModeFacts DEF InCall
<1>2. Len(segments) # 0
  BY <1>1, TypeFacts, EmptySeq
<1>3. t \in File
  BY <1>1, TokenFiles
<1> QED BY <1>1, <1>2, <1>3, TypeFacts, ToSegmentType DEF Files

LEMMA CrashType ==
  ASSUME TypeOK, InCall, Crash
  PROVE  TypeOK' /\ InCall'
<1>1. current \in RecordKeys
  BY TypeFacts, ModeFacts DEF Crash, InCall
<1>2. faults' \in Nat
  BY Fails DEF Crash
<1>3. SegsOK(segFiles', segSynced')
  <2>1. CASE segFiles' = segFiles /\ segSynced' = segSynced
    BY <2>1, TypeFacts DEF Files
  <2>2. CASE pc = "line" /\ \E t \in {<<>>, <<Torn>>} : ToSegment(t)
    BY <2>2, LineCut
  <2> QED BY <2>1, <2>2 DEF Crash
<1>4. idxFile' \in File /\ idxSynced' \in 0 .. Len(idxFile')
  <2>1. CASE idxFile' = idxFile /\ idxSynced' = idxSynced
    BY <2>1, TypeFacts DEF Files
  <2>2. CASE idxSynced' = idxSynced /\ \E t \in {Torn, Entry(current)} : idxFile' = Append(idxFile, t)
    <3>1. PICK t \in Token : idxFile' = Append(idxFile, t)
      BY <2>2, <1>1, Tokens
    <3>2. PICK f \in File : f = idxFile
      BY TypeFacts DEF Files
    <3>3. idxFile' \in File /\ Len(idxFile') = Len(f) + 1 /\ Len(f) \in Nat
      BY <3>1, <3>2, IndexAppended
    <3>4. idxSynced \in 0 .. Len(f)
      BY <3>2, TypeFacts DEF Files
    <3> QED BY <2>2, <3>3, <3>4
  <2> QED BY <2>1, <2>2 DEF Crash
<1>5. mode' \in Modes /\ {acked', misread'} \subseteq SUBSET RecordKeys /\ horizon' \in Nat
  BY TypeFacts DEF Crash
<1>6. LoseMemory
  BY DEF Crash
<1> QED BY <1>2, <1>3, <1>4, <1>5, <1>6, MemoryLost, TypeNext

LEMMA OpenCutType ==
  ASSUME TypeOK, InCall, OpenCut
  PROVE  TypeOK' /\ InCall'
<1>1. segFiles \in Seq(File) /\ idxFile \in File /\ idxSynced \in Nat
  BY TypeFacts, SegsFacts DEF Files
<1>2. PICK f : f = RepairedIndex(idxFile)
  OBVIOUS
<1>3. PICK g : g = f \o IndexLines(Missing)
  OBVIOUS
<1>4. f \in File /\ g \in File /\ Len(f) <= Len(g) /\ Len(f) \in Nat /\ Len(g) \in Nat
  BY <1>1, <1>2, <1>3, IndexRepaired
<1>5. idxFile' \in Leftovers(g, Len(f)) /\ idxSynced' = LeastOf(idxSynced, Len(f))
  BY <1>2, <1>3 DEF OpenCut
<1>6. idxFile' \in File /\ Len(f) <= Len(idxFile') /\ Len(idxFile') \in Nat
  <2>1. PICK h : h = idxFile'
    OBVIOUS
  <2>2. h \in Leftovers(g, Len(f)) /\ Len(f) \in 0 .. Len(g)
    BY <2>1, <1>4, <1>5
  <2>3. h \in File /\ Len(f) <= Len(h)
    BY <2>2, <1>4, LeftoverFacts
  <2> QED BY <2>1, <2>3, FileFacts
<1>7. idxSynced' \in 0 .. Len(idxFile')
  <2>1. LeastOf(idxSynced, Len(f)) \in 0 .. Len(f)
    BY <1>1, <1>4 DEF LeastOf
  <2> QED BY <2>1, <1>4, <1>5, <1>6
<1>8. SegsOK(segFiles', segSynced') /\ Len(segFiles') = Len(segFiles)
  <2>1. segSynced' = [i \in DOMAIN segFiles |-> LeastOf(segSynced[i], Len(RepairedSegs[i]))]
        /\ segFiles' = RepairedSegs
    BY DEF OpenCut
  <2> QED BY <2>1, TypeFacts, SegmentsRepaired DEF Files
<1>9. faults' \in Nat
  BY Fails DEF OpenCut
<1>10. /\ mode' \in Modes /\ status' \in {"up", "down", "corrupt"} /\ {acked', misread'} \subseteq SUBSET RecordKeys
       /\ seen' \in SUBSET RecordKeys /\ segments' \in Seq(Info)
       /\ pc' \in Steps /\ current' \in RecordKeys \cup {NoKey} /\ horizon' \in Nat
  BY TypeFacts DEF OpenCut, memory
<1>11. TypeOK'
  BY <1>6, <1>7, <1>8, <1>9, <1>10, TypeNext
<1> QED BY <1>11 DEF InCall, OpenCut, memory

LEMMA PowerLossType ==
  ASSUME TypeOK, InCall, PowerLoss
  PROVE  TypeOK' /\ InCall'
<1>1. PICK S : S = segFiles
  OBVIOUS
<1>2. PICK Y : Y = segSynced
  OBVIOUS
<1>3. SegsOK(S, Y)
  BY <1>1, <1>2, TypeFacts DEF Files
<1>4. PICK n \in Nat : n = Len(S) /\ DOMAIN S = 1 .. n
                       /\ \A i \in 1 .. n : S[i] \in File /\ Y[i] \in Nat /\ Y[i] <= Len(S[i])
  BY <1>3, SegsFacts
<1>5. PICK left : /\ DOMAIN left = 1 .. n /\ left = [i \in 1 .. n |-> left[i]]
                  /\ \A i \in 1 .. n : left[i] \in Leftovers(S[i], Y[i])
                  /\ segFiles' = left
                  /\ segSynced' = [i \in 1 .. n |-> Len(left[i])]
  <2>1. PICK left \in [DOMAIN segFiles -> UNION {Leftovers(segFiles[i], segSynced[i]) : i \in DOMAIN segFiles}] :
            /\ \A i \in DOMAIN segFiles : left[i] \in Leftovers(segFiles[i], segSynced[i])
            /\ segFiles' = left
            /\ segSynced' = [i \in DOMAIN left |-> Len(left[i])]
    BY DEF PowerLoss
  <2>2. DOMAIN left = 1 .. n /\ left = [i \in 1 .. n |-> left[i]]
    BY <2>1, <1>1, <1>4
  <2> QED BY <2>1, <2>2, <1>1, <1>2, <1>4
<1>6. ASSUME NEW i \in 1 .. n PROVE left[i] \in File /\ Len(left[i]) \in Nat
  <2>1. Len(S[i]) \in Nat /\ Y[i] \in 0 .. Len(S[i])
    BY <1>4, FileFacts
  <2> QED BY <2>1, <1>4, <1>5, LeftoverFacts, FileFacts
<1>7. left \in Seq(File) /\ Len(left) = n
  <2>1. left \in [1 .. n -> File]
    BY <1>5, <1>6
  <2> QED BY <2>1, FunSeq
<1>8. PICK Z : Z = [i \in 1 .. n |-> Len(left[i])]
  OBVIOUS
<1>9. Z \in Seq(Nat) /\ Len(Z) = n
  <2>1. PICK T : T = Nat
    OBVIOUS
  <2>2. Z \in [1 .. n -> T]
    BY <2>1, <1>6, <1>8
  <2>3. Z \in Seq(T) /\ Len(Z) = n
    BY <2>2, FunSeq
  <2> QED BY <2>1, <2>3
<1>10. SegsOK(left, Z)
  BY <1>5, <1>6, <1>7, <1>8, <1>9 DEF SegsOK
<1>11. SegsOK(segFiles', segSynced')
  BY <1>5, <1>8, <1>10
<1>12. idxFile' \in File /\ idxSynced' \in 0 .. Len(idxFile')
  <2>1. PICK f \in File : f = idxFile
    BY TypeFacts DEF Files
  <2>2. PICK h : h = idxFile'
    OBVIOUS
  <2>3. idxSynced \in 0 .. Len(f) /\ h \in Leftovers(f, idxSynced)
    BY <2>1, <2>2, TypeFacts DEF Files, PowerLoss
  <2>4. h \in File /\ Len(h) \in Nat
    BY <2>3, LeftoverFacts, FileFacts
  <2>5. idxSynced' = Len(h)
    BY <2>2 DEF PowerLoss
  <2> QED BY <2>2, <2>4, <2>5
<1>13. mode' \in Modes /\ {acked', misread'} \subseteq SUBSET RecordKeys /\ horizon' \in Nat /\ faults' \in Nat /\ LoseMemory
  BY TypeFacts, Fails DEF PowerLoss
<1> QED BY <1>11, <1>12, <1>13, MemoryLost, TypeNext

\* What a failing write leaves of the index.
LEMMA FailedWrite ==
  ASSUME WriteFails
  PROVE  /\ idxSynced' = idxSynced
         /\ \/ idxFile' = idxFile
            \/ /\ pc = "index"
               /\ \E t \in {<<>>, <<Torn>>, <<Digits>>, <<Entry(current)>>} : idxFile' = idxFile \o t
BY DEF WriteFails, disk

LEMMA WriteFailsType ==
  ASSUME TypeOK, InCall, WriteFails
  PROVE  TypeOK' /\ InCall'
<1>1. pc # "idle" /\ status = "up" /\ current \in RecordKeys
  BY TypeFacts, ModeFacts DEF WriteFails, InCall
<1>2. SegsOK(segFiles', segSynced') /\ Len(segFiles') \in {Len(segFiles), Len(segments)}
  <2>1. CASE segFiles' = segFiles /\ segSynced' = segSynced
    BY <2>1, TypeFacts DEF Files
  <2>2. CASE pc = "line" /\ \E t \in {<<>>, <<Torn>>} : ToSegment(t)
    BY <2>2, LineCut
  <2> QED BY <2>1, <2>2 DEF WriteFails, disk
<1>3. idxFile' \in File /\ idxSynced' \in 0 .. Len(idxFile')
  <2>1. CASE idxFile' = idxFile /\ idxSynced' = idxSynced
    BY <2>1, TypeFacts DEF Files
  <2>2. CASE idxSynced' = idxSynced
             /\ \E t \in {<<>>, <<Torn>>, <<Digits>>, <<Entry(current)>>} : idxFile' = idxFile \o t
    <3>1. PICK t \in File : idxFile' = idxFile \o t
      BY <2>2, <1>1, TokenFiles
    <3>2. PICK f \in File : f = idxFile
      BY TypeFacts DEF Files
    <3>3. PICK h : h = f \o t
      OBVIOUS
    <3>4. h \in File /\ Len(f) <= Len(h) /\ Len(f) \in Nat /\ Len(h) \in Nat
      BY <3>3, ConcatFile, FileFacts
    <3>5. idxSynced \in 0 .. Len(f)
      BY <3>2, TypeFacts DEF Files
    <3> QED BY <2>2, <3>1, <3>2, <3>3, <3>4, <3>5
  <2> QED BY <2>1, <2>2, FailedWrite DEF WriteFails, disk
<1>4. /\ mode' \in Modes /\ status' \in {"up", "down", "corrupt"} /\ {acked', misread'} \subseteq SUBSET RecordKeys
      /\ seen' \in SUBSET RecordKeys /\ segments' \in Seq(Info)
      /\ pc' \in Steps /\ current' \in RecordKeys \cup {NoKey} /\ horizon' \in Nat /\ faults' \in Nat
  BY TypeFacts, Fails DEF WriteFails, Steps
<1>5. TypeOK'
  BY <1>2, <1>3, <1>4, TypeNext
<1>6. /\ Len(segments) \in {Len(segFiles'), Len(segFiles') + 1}
      /\ Len(segments) # Len(segFiles') => segments[Len(segments)].records = 0
  BY <1>1, <1>2 DEF InCall
<1> QED BY <1>1, <1>5, <1>6 DEF InCall, WriteFails

LEMMA RetentionStopsType ==
  ASSUME TypeOK, InCall, NEW c \in Cutoffs, NEW drop, RetentionStops(c, drop)
  PROVE  TypeOK' /\ InCall'
<1>1. status = "up" /\ pc = "idle" /\ drop \in SUBSET Expired(c)
  BY DEF RetentionStops
<1>2. SegsOK(segFiles', segSynced')
  <2>1. segFiles' = Without(segFiles, drop) /\ segSynced' = Without(segSynced, drop)
    BY DEF RetentionStops, DropSegments
  <2> QED BY <2>1, <1>1, DropSegmentsType
<1>3. horizon' \in Nat
  BY CutoffType, TypeFacts DEF RetentionStops
<1>4. mode' \in Modes /\ {acked', misread'} \subseteq SUBSET RecordKeys /\ faults' \in Nat
      /\ idxFile' \in File /\ idxSynced' \in 0 .. Len(idxFile')
  BY TypeFacts, Fails DEF RetentionStops, Files
<1>5. CASE LoseMemory
  BY <1>2, <1>3, <1>4, <1>5, MemoryLost, TypeNext
<1>6. CASE DropSegments(drop) /\ UNCHANGED <<status, seen, pc, current>>
  <2>1. /\ segFiles' = Without(segFiles, drop) /\ segSynced' = Without(segSynced, drop)
        /\ segments' = Without(segments, drop)
    BY <1>6 DEF DropSegments
  <2>2. /\ segments' \in Seq(Info)
        /\ Len(segments') \in {Len(segFiles'), Len(segFiles') + 1}
        /\ Len(segments') # Len(segFiles') => segments'[Len(segments')].records = 0
    BY <2>1, <1>1, DropSegmentsType
  <2>3. /\ status' \in {"up", "down", "corrupt"} /\ seen' \in SUBSET RecordKeys
        /\ pc' \in Steps /\ current' \in RecordKeys \cup {NoKey}
    BY <1>6, TypeFacts
  <2>4. TypeOK'
    BY <2>2, <2>3, <1>2, <1>3, <1>4, TypeNext
  <2> QED BY <2>2, <2>4, <1>1, <1>6 DEF InCall
<1> QED BY <1>5, <1>6 DEF RetentionStops

LEMMA TypeStep ==
  ASSUME TypeOK, InCall, [Next]_vars
  PROVE  TypeOK' /\ InCall'
<1>1. CASE \E k \in mode.keys : AppendDuplicate(k) \/ AppendBegin(k)
  BY <1>1, AppendDuplicateType, AppendBeginType
<1>2. CASE \E c \in Cutoffs : EnforceRetention(c)
  BY <1>2, EnforceRetentionType
<1>3. CASE \E c \in Cutoffs, drop \in SUBSET DOMAIN segments : RetentionStops(c, drop)
  BY <1>3, RetentionStopsType
<1>4. CASE UNCHANGED vars
  BY <1>4 DEF vars, disk, memory, TypeOK, InCall
<1> QED
  BY <1>1, <1>2, <1>3, <1>4, OpenType, OpenCorruptType, WriteLineType, WriteNewlineType,
     SyncSegmentType, WriteIndexType, SyncIndexType, CommitType, StopType, CrashType, OpenCutType,
     PowerLossType, WriteFailsType
  DEF Next

LEMMA InitType ==
  ASSUME Init
  PROVE  TypeOK /\ InCall
<1>1. <<>> \in File /\ <<>> \in Seq(File) /\ <<>> \in Seq(Nat) /\ <<>> \in Seq(Info) /\ Len(<<>>) = 0
      /\ DOMAIN <<>> = {}
  BY EmptySeq DEF File
<1>2. SegsOK(<<>>, <<>>)
  BY <1>1 DEF SegsOK
<1>3. TypeOK
  BY <1>1, <1>2 DEF Init, TypeOK, Steps, Info
<1> QED BY <1>3 DEF Init, InCall

-----------------------------------------------------------------------------
(* Every step keeps the keys that the index holds.                         *)

LEMMA KeepsParts ==
  ASSUME NEW f, NEW n, NEW K, NEW J
  PROVE  /\ Keeps(f, n, K) /\ Keeps(f, n, J) => Keeps(f, n, K \cup J)
         /\ Keeps(f, n, K) /\ J \subseteq K => Keeps(f, n, J)
BY DEF Keeps

LEMMA SafeFacts ==
  ASSUME TypeOK
  PROVE  /\ Safe \in Nat /\ Safe <= Len(idxFile) /\ idxFile \in File /\ Len(idxFile) \in Nat
         /\ idxSynced \in Nat /\ idxSynced <= Len(idxFile)
<1>1. idxFile \in File /\ Len(idxFile) \in Nat /\ idxSynced \in 0 .. Len(idxFile)
  BY TypeFacts DEF Files
<1> QED BY <1>1 DEF Safe

LEMMA SafeNext ==
  ASSUME TypeOK'
  PROVE  /\ Safe' \in Nat /\ Safe' <= Len(idxFile') /\ idxFile' \in File /\ Len(idxFile') \in Nat
         /\ idxSynced' \in Nat /\ idxSynced' <= Len(idxFile')
<1>1. idxFile' \in File /\ idxSynced' \in 0 .. Len(idxFile')
  BY DEF TypeOK
<1>2. Len(idxFile') \in Nat
  BY <1>1, FileFacts
<1> QED BY <1>1, <1>2 DEF Safe

\* What the index keeps, it keeps when what is safe of it stays.
LEMMA StillKeeps ==
  ASSUME TypeOK, TypeOK', NEW K, Keeps(idxFile, Safe, K), Agree(idxFile, idxFile', Safe), Safe <= Safe'
  PROVE  Keeps(idxFile', Safe', K)
<1>1. PICK f \in File : f = idxFile
  BY SafeFacts
<1>2. PICK g \in File : g = idxFile'
  BY SafeNext
<1>3. PICK n \in Nat : n = Safe
  BY SafeFacts
<1>4. PICK m \in Nat : m = Safe' /\ m <= Len(g)
  BY <1>2, SafeNext
<1>5. Keeps(g, m, K)
  BY <1>1, <1>2, <1>3, <1>4, KeepsLonger
<1> QED BY <1>2, <1>4, <1>5

LEMMA SameIndex ==
  ASSUME mode' = mode, idxFile' = idxFile, idxSynced' = idxSynced
  PROVE  Safe' = Safe /\ Lasting' = Lasting
BY DEF Safe, Lasting

\* Steps of a call, and of no call, that leave the index alone.
LEMMA IndexUntouched ==
  ASSUME TypeOK, InCall, IndexLasts,
         mode' = mode, idxFile' = idxFile, idxSynced' = idxSynced, misread' = misread,
         pc # "indexsync", pc' \notin {"indexsync", "commit"},
         \/ status' = "up" /\ status = "up" /\ seen' = seen /\ acked' \subseteq acked \cup seen
         \/ status' # "up" /\ acked' = acked
  PROVE  IndexLasts'
<1>1. Safe' = Safe /\ Lasting' = Lasting
  BY SameIndex
<1>2. SUFFICES ASSUME Lasting PROVE
        /\ "power" \in mode.faults => idxSynced = Len(idxFile)
        /\ Keeps(idxFile, Safe, acked' \ misread)
        /\ status' = "up" => acked' \ misread \subseteq seen' /\ Keeps(idxFile, Safe, seen' \ misread)
  BY <1>1 DEF IndexLasts
<1>3. /\ "power" \in mode.faults => idxSynced = Len(idxFile)
      /\ Keeps(idxFile, Safe, acked \ misread)
      /\ status = "up" => acked \ misread \subseteq seen /\ Keeps(idxFile, Safe, seen \ misread)
  BY <1>2 DEF IndexLasts
<1>4. CASE status' = "up" /\ status = "up" /\ seen' = seen /\ acked' \subseteq acked \cup seen
  <2>1. acked' \ misread \subseteq seen /\ acked' \ misread \subseteq (acked \ misread) \cup (seen \ misread)
    BY <1>3, <1>4
  <2> QED BY <2>1, <1>3, <1>4, KeepsParts
<1>5. CASE status' # "up" /\ acked' = acked
  BY <1>3, <1>5
<1> QED BY <1>4, <1>5

LEMMA WriteIndexKeeps ==
  ASSUME DedupInv, TypeOK', WriteIndex
  PROVE  IndexLasts'
<1>1. TypeOK /\ InCall /\ IndexLasts
  BY DEF DedupInv
<1>2. pc = "index" /\ status = "up" /\ current \in RecordKeys
  BY <1>1, TypeFacts, ModeFacts DEF WriteIndex, InCall
<1>3. Lasting' = Lasting /\ status' = status /\ seen' = seen /\ acked' = acked /\ current' = current
      /\ mode' = mode /\ idxSynced' = idxSynced
  BY DEF WriteIndex, Lasting
<1>4. SUFFICES ASSUME Lasting PROVE
        /\ "power" \in mode.faults => pc' = "indexsync"
        /\ Keeps(idxFile', Safe', acked \ misread')
        /\ Keeps(idxFile', Safe', seen \ misread') /\ acked \ misread' \subseteq seen
        /\ Keeps(idxFile', Len(idxFile'), {current} \ misread')
        /\ pc' = "commit" => Safe' = Len(idxFile')
  BY <1>3 DEF IndexLasts
<1>5. PICK f \in File : f = idxFile
  BY <1>1, SafeFacts
<1>6. PICK r \in RecordKeys : /\ ~EndsInDigits(f) => r = current
                             /\ idxFile' = LineRead(f, current, r)
                             /\ misread' = IF r = current THEN misread ELSE misread \cup {current}
  BY <1>5 DEF WriteIndex
<1>7. PICK g : g = LineRead(f, current, r)
  OBVIOUS
<1>8. /\ g \in File /\ Len(f) < Len(g) /\ Keeps(g, Len(g), {r})
      /\ \A K : Keeps(f, Len(f), K) => Keeps(g, Len(f), K) /\ Keeps(g, Len(g), K)
  <2>1. PICK k \in RecordKeys : k = current
    BY <1>2
  <2> QED BY <2>1, <1>6, <1>7, LineReadFacts
<1>9. Safe = Len(f) /\ Safe' \in {Len(f), Len(g)}
  <2>1. "power" \in mode.faults => idxSynced = Len(f)
    BY <1>1, <1>2, <1>4, <1>5 DEF IndexLasts
  <2> QED BY <2>1, <1>3, <1>5, <1>6, <1>7 DEF Safe
<1>10. Keeps(f, Len(f), acked \ misread) /\ Keeps(f, Len(f), seen \ misread) /\ acked \ misread \subseteq seen
  BY <1>1, <1>2, <1>4, <1>5, <1>9 DEF IndexLasts
<1>11. Keeps(g, Safe', acked \ misread) /\ Keeps(g, Safe', seen \ misread)
  BY <1>8, <1>9, <1>10
<1>12. /\ acked \ misread' \subseteq acked \ misread /\ seen \ misread' \subseteq seen \ misread
       /\ {current} \ misread' \subseteq {r}
  BY <1>6
<1>13. Keeps(g, Safe', acked \ misread') /\ Keeps(g, Safe', seen \ misread')
       /\ Keeps(g, Len(g), {current} \ misread')
  BY <1>8, <1>11, <1>12, KeepsParts
<1>14. "power" \in mode.faults => mode.sync
  BY <1>4 DEF Lasting
<1>15. pc' = (IF mode.sync THEN "indexsync" ELSE "commit")
  BY DEF WriteIndex
<1>16. "power" \notin mode.faults => Safe' = Len(idxFile')
  BY <1>3 DEF Safe
<1> QED BY <1>6, <1>7, <1>10, <1>12, <1>13, <1>14, <1>15, <1>16

LEMMA SyncIndexKeeps ==
  ASSUME DedupInv, TypeOK', SyncIndex
  PROVE  IndexLasts'
<1>1. TypeOK /\ InCall /\ IndexLasts
  BY DEF DedupInv
<1>2. pc = "indexsync" /\ status = "up"
  BY <1>1 DEF SyncIndex, InCall
<1>3. /\ status' = status /\ seen' = seen /\ acked' = acked /\ current' = current /\ pc' = "commit"
      /\ mode' = mode /\ idxSynced' = Len(idxFile) /\ idxFile' = idxFile /\ misread' = misread
  BY DEF SyncIndex
<1>4. Lasting' = Lasting /\ Safe' = Len(idxFile) /\ Safe <= Safe' /\ Agree(idxFile, idxFile', Safe)
  <2>1. Safe' = Len(idxFile) /\ Lasting' = Lasting
    BY <1>3 DEF Safe, Lasting
  <2> QED BY <2>1, <1>1, <1>3, SafeFacts DEF Agree
<1>5. SUFFICES ASSUME Lasting PROVE
        /\ Keeps(idxFile', Safe', acked \ misread)
        /\ Keeps(idxFile', Safe', seen \ misread) /\ acked \ misread \subseteq seen
        /\ Keeps(idxFile, Len(idxFile), {current} \ misread)
  BY <1>3, <1>4 DEF IndexLasts
<1>6. Keeps(idxFile, Safe, acked \ misread) /\ Keeps(idxFile, Safe, seen \ misread) /\ acked \ misread \subseteq seen
      /\ Keeps(idxFile, Len(idxFile), {current} \ misread)
  BY <1>1, <1>2, <1>5 DEF IndexLasts
<1>7. Keeps(idxFile', Safe', acked \ misread) /\ Keeps(idxFile', Safe', seen \ misread)
  BY <1>1, <1>4, <1>6, StillKeeps
<1> QED BY <1>6, <1>7

LEMMA CommitKeeps ==
  ASSUME DedupInv, TypeOK', Commit
  PROVE  IndexLasts'
<1>1. TypeOK /\ InCall /\ IndexLasts
  BY DEF DedupInv
<1>2. pc = "commit" /\ status = "up"
  BY <1>1 DEF Commit, InCall
<1>3. /\ status' = status /\ seen' = seen \cup {current} /\ acked' = acked \cup {current}
      /\ pc' = "idle" /\ mode' = mode /\ idxSynced' = idxSynced /\ idxFile' = idxFile /\ misread' = misread
  BY DEF Commit, disk
<1>4. Lasting' = Lasting /\ Safe' = Safe
  BY <1>3, SameIndex
<1>5. SUFFICES ASSUME Lasting PROVE
        /\ "power" \in mode.faults => idxSynced = Len(idxFile)
        /\ Keeps(idxFile, Safe, (acked \cup {current}) \ misread)
        /\ Keeps(idxFile, Safe, (seen \cup {current}) \ misread) /\ acked \ misread \subseteq seen
  BY <1>3, <1>4 DEF IndexLasts
<1>6. /\ "power" \in mode.faults => idxSynced = Len(idxFile)
      /\ Keeps(idxFile, Safe, acked \ misread) /\ Keeps(idxFile, Safe, seen \ misread) /\ acked \ misread \subseteq seen
      /\ Keeps(idxFile, Safe, {current} \ misread)
  BY <1>1, <1>2, <1>5 DEF IndexLasts
<1>7. \A K : (K \cup {current}) \ misread = (K \ misread) \cup ({current} \ misread)
  OBVIOUS
<1> QED BY <1>6, <1>7, KeepsParts

\* The index of a store that is closed is as safe as it is long.
LEMMA ClosedSafe ==
  ASSUME DedupInv, Lasting, pc = "idle"
  PROVE  Safe = Len(idxFile) /\ ("power" \in mode.faults => idxSynced = Len(idxFile))
<1>1. IndexLasts
  BY DEF DedupInv
<1> QED BY <1>1 DEF IndexLasts, Safe

LEMMA OpenKeeps ==
  ASSUME DedupInv, TypeOK', Open
  PROVE  IndexLasts'
<1>1. TypeOK /\ InCall /\ IndexLasts
  BY DEF DedupInv
<1>2. pc = "idle" /\ status = "down"
  BY <1>1 DEF Open, InCall
<1>3. status' = "up" /\ acked' = acked /\ pc' = "idle" /\ mode' = mode /\ misread' = misread \ seen'
  BY DEF Open
<1>4. SUFFICES ASSUME Lasting PROVE
        /\ "power" \in mode.faults => idxSynced' = Len(idxFile')
        /\ Safe' = Len(idxFile')
        /\ Keeps(idxFile', Len(idxFile'), seen') /\ acked \ misread \subseteq seen'
  <2>1. Lasting' = Lasting
    BY <1>3 DEF Lasting
  <2>2. seen' \ misread' = seen' /\ acked \ misread' \subseteq (acked \ misread) \cup seen'
    BY <1>3
  <2>3. acked \ misread \subseteq seen' => acked \ misread' \subseteq seen'
    BY <2>2
  <2> QED BY <2>1, <2>2, <2>3, <1>3, KeepsParts DEF IndexLasts
<1>5. PICK h \in File : h = idxFile
  BY <1>1, SafeFacts
<1>6. PICK f : f = RepairedIndex(h)
  OBVIOUS
<1>7. PICK M : M = Missing
  OBVIOUS
<1>8. PICK g : g = f \o IndexLines(M)
  OBVIOUS
<1>9. segFiles \in Seq(File)
  BY <1>1, TypeFacts, SegsFacts DEF Files
<1>10. M \subseteq RecordKeys /\ IsFiniteSet(M)
  BY <1>7, <1>9, MissingType
<1>11. /\ f \in File /\ Len(f) <= Len(h) /\ Ended(f)
       /\ \A K : Keeps(h, Len(h), K) => Keeps(f, Len(f), K)
  BY <1>6, RepairedIndexKeeps
<1>12. BadLines(f) = {}
  BY <1>5, <1>6 DEF Open, Readable
<1>13. /\ g \in File /\ Len(f) <= Len(g) /\ Agree(f, g, Len(f)) /\ Ended(g)
       /\ \A k \in M : HasLine(g, Len(g), k)
       /\ M = {} => Len(g) = Len(f)
  BY <1>8, <1>10, <1>11, IndexExtended
<1>14. BadLines(g) = {} /\ KeySet(g) \subseteq KeySet(f) \cup M
  BY <1>8, <1>10, <1>11, <1>12, IndexExtended
<1>15. idxFile' = g /\ seen' = KeySet(f) \cup M
  BY <1>5, <1>6, <1>7, <1>8 DEF Open
<1>16. Len(f) \in Nat /\ Len(g) \in Nat /\ Len(h) \in Nat
  BY <1>5, <1>11, <1>13, FileFacts
<1>17. \A K : Keeps(f, Len(f), K) => Keeps(g, Len(g), K)
  BY <1>11, <1>13, <1>16, KeepsLonger
<1>18. Keeps(h, Len(h), acked \ misread)
  BY <1>1, <1>2, <1>4, <1>5, ClosedSafe DEF IndexLasts
<1>19. Keeps(g, Len(g), acked \ misread)
  BY <1>11, <1>17, <1>18
<1>20. acked \ misread \subseteq KeySet(g)
  BY <1>13, <1>14, <1>19, ReadBack
<1>21. Keeps(g, Len(g), KeySet(f) \cup M)
  <2>1. Keeps(f, Len(f), KeySet(f))
    BY <1>11, <1>12, ReadBack DEF Keeps
  <2>2. Keeps(g, Len(g), M)
    BY <1>13 DEF Keeps
  <2> QED BY <2>1, <2>2, <1>17, KeepsParts
<1>22. "power" \in mode.faults => idxSynced' = Len(g)
  <2>1. SUFFICES ASSUME "power" \in mode.faults PROVE idxSynced' = Len(g)
    OBVIOUS
  <2>2. mode.sync /\ idxSynced = Len(h)
    BY <2>1, <1>2, <1>4, <1>5, ClosedSafe DEF Lasting
  <2>3. idxSynced' = (IF M # {} THEN Len(g) ELSE LeastOf(Len(h), Len(f)))
    BY <2>2, <1>5, <1>6, <1>7, <1>15 DEF Open
  <2>4. LeastOf(Len(h), Len(f)) = Len(f)
    BY <1>11, <1>16 DEF LeastOf
  <2> QED BY <2>3, <2>4, <1>13
<1>23. Safe' = Len(g)
  BY <1>3, <1>15, <1>22 DEF Safe
<1> QED BY <1>14, <1>15, <1>20, <1>21, <1>22, <1>23

LEMMA OpenCorruptKeeps ==
  ASSUME DedupInv, TypeOK', OpenCorrupt
  PROVE  IndexLasts'
<1>1. TypeOK /\ InCall /\ IndexLasts
  BY DEF DedupInv
<1>2. pc = "idle" /\ status = "down"
  BY <1>1 DEF OpenCorrupt, InCall
<1>3. status' = "corrupt" /\ acked' = acked /\ pc' = "idle" /\ mode' = mode /\ misread' = misread
      /\ idxSynced' = LeastOf(idxSynced, Len(idxFile'))
  BY <1>2 DEF OpenCorrupt, memory
<1>4. SUFFICES ASSUME Lasting PROVE
        /\ "power" \in mode.faults => idxSynced' = Len(idxFile')
        /\ Keeps(idxFile', Safe', acked \ misread)
  <2>1. Lasting' = Lasting
    BY <1>3 DEF Lasting
  <2> QED BY <2>1, <1>3 DEF IndexLasts
<1>5. PICK h \in File : h = idxFile
  BY <1>1, SafeFacts
<1>6. PICK g : g = idxFile'
  OBVIOUS
<1>7. g \in File /\ Len(g) <= Len(h) /\ \A K : Keeps(h, Len(h), K) => Keeps(g, Len(g), K)
  <2>1. CASE g = h
    BY <2>1, FileFacts
  <2>2. CASE g = RepairedIndex(h)
    BY <2>2, RepairedIndexKeeps
  <2> QED BY <2>1, <2>2, <1>5, <1>6 DEF OpenCorrupt
<1>8. Keeps(h, Len(h), acked \ misread)
  BY <1>1, <1>2, <1>4, <1>5, ClosedSafe DEF IndexLasts
<1>9. "power" \in mode.faults => idxSynced' = Len(g)
  <2>1. Len(g) \in Nat /\ Len(h) \in Nat
    BY <1>7, FileFacts
  <2>2. LeastOf(Len(h), Len(g)) = Len(g)
    BY <2>1, <1>7 DEF LeastOf
  <2> QED BY <2>2, <1>2, <1>3, <1>4, <1>5, <1>6, ClosedSafe
<1>10. Safe' = Len(g)
  BY <1>3, <1>6, <1>9 DEF Safe
<1> QED BY <1>6, <1>7, <1>8, <1>9, <1>10

LEMMA OpenCutKeeps ==
  ASSUME DedupInv, TypeOK', OpenCut
  PROVE  IndexLasts'
<1>1. TypeOK /\ InCall /\ IndexLasts
  BY DEF DedupInv
<1>2. pc = "idle" /\ status = "down" /\ "crash" \in mode.faults
  BY <1>1 DEF OpenCut, InCall, Fail
<1>3. status' = "down" /\ acked' = acked /\ pc' = "idle" /\ mode' = mode /\ misread' = misread
  BY <1>2 DEF OpenCut, memory
<1>4. SUFFICES ASSUME Lasting PROVE
        /\ "power" \notin mode.faults
        /\ Keeps(idxFile', Safe', acked \ misread)
  <2>1. Lasting' = Lasting
    BY <1>3 DEF Lasting
  <2> QED BY <2>1, <1>3 DEF IndexLasts
<1>5. "power" \notin mode.faults
  BY <1>2, <1>4 DEF Lasting
<1>6. PICK h \in File : h = idxFile
  BY <1>1, SafeFacts
<1>7. PICK f : f = RepairedIndex(h)
  OBVIOUS
<1>8. PICK M : M = Missing
  OBVIOUS
<1>9. PICK g : g = f \o IndexLines(M)
  OBVIOUS
<1>10. segFiles \in Seq(File)
  BY <1>1, TypeFacts, SegsFacts DEF Files
<1>11. M \subseteq RecordKeys /\ IsFiniteSet(M)
  BY <1>8, <1>10, MissingType
<1>12. f \in File /\ Ended(f) /\ \A K : Keeps(h, Len(h), K) => Keeps(f, Len(f), K)
  BY <1>7, RepairedIndexKeeps
<1>13. g \in File /\ Len(f) <= Len(g) /\ Agree(f, g, Len(f))
  BY <1>9, <1>11, <1>12, IndexExtended
<1>14. Len(f) \in Nat /\ Len(g) \in Nat /\ Len(f) <= Len(f)
  BY <1>12, <1>13, FileFacts
<1>15. Keeps(h, Len(h), acked \ misread)
  BY <1>1, <1>2, <1>4, <1>6, ClosedSafe DEF IndexLasts
<1>16. Keeps(g, Len(f), acked \ misread)
  BY <1>12, <1>13, <1>14, <1>15, KeepsLonger
<1>17. PICK r : r = idxFile'
  OBVIOUS
<1>18. r \in Leftovers(g, Len(f)) /\ Len(f) \in 0 .. Len(g)
  BY <1>6, <1>7, <1>8, <1>9, <1>13, <1>14, <1>17 DEF OpenCut
<1>19. r \in File /\ Len(f) <= Len(r) /\ Agree(g, r, Len(f))
  BY <1>13, <1>18, LeftoverFacts
<1>20. Len(r) \in Nat /\ Len(r) <= Len(r)
  BY <1>19, FileFacts
<1>21. Keeps(r, Len(r), acked \ misread)
  BY <1>13, <1>14, <1>16, <1>19, <1>20, KeepsLonger
<1>22. Safe' = Len(r)
  BY <1>3, <1>5, <1>17 DEF Safe
<1> QED BY <1>5, <1>17, <1>21, <1>22

LEMMA PowerLossKeeps ==
  ASSUME DedupInv, TypeOK', PowerLoss
  PROVE  IndexLasts'
<1>1. TypeOK /\ InCall /\ IndexLasts
  BY DEF DedupInv
<1>2. /\ status' = "down" /\ acked' = acked /\ pc' = "idle" /\ mode' = mode /\ misread' = misread
      /\ "power" \in mode.faults /\ idxSynced' = Len(idxFile')
  BY DEF PowerLoss, LoseMemory, Fail
<1>3. SUFFICES ASSUME Lasting PROVE Keeps(idxFile', Safe', acked \ misread)
  <2>1. Lasting' = Lasting
    BY <1>2 DEF Lasting
  <2> QED BY <2>1, <1>2 DEF IndexLasts
<1>4. PICK f \in File : f = idxFile
  BY <1>1, SafeFacts
<1>5. PICK r : r = idxFile'
  OBVIOUS
<1>6. PICK n \in Nat : n = idxSynced /\ n <= Len(f) /\ n \in 0 .. Len(f)
  BY <1>1, <1>4, SafeFacts
<1>7. r \in Leftovers(f, n)
  BY <1>4, <1>5, <1>6 DEF PowerLoss
<1>8. r \in File /\ n <= Len(r) /\ Agree(f, r, n)
  BY <1>6, <1>7, LeftoverFacts
<1>9. Len(r) \in Nat /\ Len(r) <= Len(r)
  BY <1>8, FileFacts
<1>10. Keeps(f, n, acked \ misread)
  BY <1>1, <1>2, <1>3, <1>4, <1>6 DEF IndexLasts, Safe
<1>11. Keeps(r, Len(r), acked \ misread)
  BY <1>8, <1>9, <1>10, KeepsLonger
<1>12. Safe' = Len(r)
  BY <1>2, <1>5 DEF Safe
<1> QED BY <1>5, <1>11, <1>12

\* A write to the index that ends with a part of it, or with all of it, and no answer.
LEMMA IndexCut ==
  ASSUME DedupInv, TypeOK', NEW g \in File, idxFile' = g, Len(idxFile) <= Len(g),
         Agree(idxFile, g, Len(idxFile)), idxSynced' = idxSynced, mode' = mode, acked' = acked, misread' = misread,
         mode.faults \cap {"crash", "ioerror"} # {}, pc' = "idle",
         status' # "up" \/ (status' = status /\ seen' = seen)
  PROVE  IndexLasts'
<1>1. TypeOK /\ InCall /\ IndexLasts
  BY DEF DedupInv
<1>2. SUFFICES ASSUME Lasting PROVE
        /\ "power" \notin mode.faults
        /\ Keeps(idxFile', Safe', acked \ misread)
        /\ status' = "up" => acked \ misread \subseteq seen' /\ Keeps(idxFile', Safe', seen' \ misread)
  <2>1. Lasting' = Lasting
    BY DEF Lasting
  <2> QED BY <2>1 DEF IndexLasts
<1>3. "power" \notin mode.faults
  BY <1>2 DEF Lasting
<1>4. Safe = Len(idxFile) /\ Safe' = Len(g)
  BY <1>3 DEF Safe
<1>5. Safe <= Safe' /\ Agree(idxFile, idxFile', Safe)
  BY <1>4
<1>6. Keeps(idxFile, Safe, acked \ misread) /\ (status = "up" => acked \ misread \subseteq seen /\ Keeps(idxFile, Safe, seen \ misread))
  BY <1>1, <1>2 DEF IndexLasts
<1>7. \A K : Keeps(idxFile, Safe, K) => Keeps(idxFile', Safe', K)
  BY <1>1, <1>5, StillKeeps
<1> QED BY <1>3, <1>6, <1>7

LEMMA CrashKeeps ==
  ASSUME DedupInv, TypeOK', Crash
  PROVE  IndexLasts'
<1>1. TypeOK /\ InCall /\ IndexLasts
  BY DEF DedupInv
<1>2. /\ status' = "down" /\ acked' = acked /\ pc' = "idle" /\ mode' = mode /\ idxSynced' = idxSynced
      /\ misread' = misread
      /\ IF pc = "newline" THEN "linecut" \in mode.faults ELSE "crash" \in mode.faults
  BY DEF Crash, LoseMemory, Fail
<1>3. PICK f \in File : f = idxFile
  BY <1>1, SafeFacts
<1>4. Len(f) \in Nat
  BY FileFacts
<1>5. CASE idxFile' = idxFile /\ pc = "newline"
  BY <1>1, <1>2, <1>5, IndexUntouched
<1>6. CASE idxFile' = idxFile /\ pc # "newline"
  <2>1. Len(f) <= Len(f) /\ Agree(f, f, Len(f))
    BY <1>4 DEF Agree
  <2> QED BY <2>1, <1>2, <1>3, <1>6, IndexCut
<1>7. CASE pc = "index" /\ \E t \in {Torn, Entry(current)} : idxFile' = Append(idxFile, t)
  <2>1. current \in RecordKeys
    BY <1>1, <1>7, TypeFacts, ModeFacts DEF InCall
  <2>2. PICK t \in Token : idxFile' = Append(f, t)
    BY <2>1, <1>3, <1>7, Tokens
  <2>3. PICK g : g = Append(f, t)
    OBVIOUS
  <2>4. g \in File /\ Len(g) = Len(f) + 1 /\ Agree(f, g, Len(f))
    BY <2>3, IndexAppended
  <2>5. Len(f) <= Len(g)
    BY <2>4, <1>4
  <2> QED BY <2>2, <2>3, <2>4, <2>5, <1>2, <1>3, <1>7, IndexCut
<1> QED BY <1>5, <1>6, <1>7 DEF Crash

LEMMA WriteFailsKeeps ==
  ASSUME DedupInv, TypeOK', WriteFails
  PROVE  IndexLasts'
<1>1. TypeOK /\ InCall /\ IndexLasts
  BY DEF DedupInv
<1>2. /\ status' = status /\ seen' = seen /\ acked' = acked /\ pc' = "idle" /\ mode' = mode
      /\ idxSynced' = idxSynced /\ misread' = misread /\ "ioerror" \in mode.faults
  BY DEF WriteFails, Fail, disk
<1>3. PICK f \in File : f = idxFile
  BY <1>1, SafeFacts
<1>4. Len(f) \in Nat
  BY FileFacts
<1>5. CASE idxFile' = idxFile
  <2>1. Len(f) <= Len(f) /\ Agree(f, f, Len(f))
    BY <1>4 DEF Agree
  <2> QED BY <2>1, <1>2, <1>3, <1>5, IndexCut
<1>6. CASE pc = "index" /\ \E t \in {<<>>, <<Torn>>, <<Digits>>, <<Entry(current)>>} : idxFile' = idxFile \o t
  <2>1. current \in RecordKeys
    BY <1>1, <1>6, TypeFacts, ModeFacts DEF InCall
  <2>2. PICK t \in File : idxFile' = f \o t
    BY <2>1, <1>3, <1>6, TokenFiles
  <2>3. PICK g : g = f \o t
    OBVIOUS
  <2>4. g \in File /\ Len(f) <= Len(g) /\ Agree(f, g, Len(f))
    BY <2>3, ConcatFile
  <2> QED BY <2>2, <2>3, <2>4, <1>2, <1>3, IndexCut
<1> QED BY <1>5, <1>6, FailedWrite

LEMMA DedupStep ==
  ASSUME DedupInv, [Next]_vars
  PROVE  DedupInv'
<1>1. TypeOK /\ InCall /\ IndexLasts
  BY DEF DedupInv
<1>2. TypeOK' /\ InCall'
  BY <1>1, TypeStep
<1>3. SUFFICES IndexLasts'
  BY <1>2 DEF DedupInv
<1>4. CASE \E k \in mode.keys : AppendDuplicate(k) \/ AppendBegin(k)
  <2>1. PICK k \in mode.keys : AppendDuplicate(k) \/ AppendBegin(k)
    BY <1>4
  <2>2. CASE AppendDuplicate(k)
    BY <2>2, <1>1, IndexUntouched DEF AppendDuplicate, disk, memory
  <2>3. CASE AppendBegin(k)
    BY <2>3, <1>1, IndexUntouched DEF AppendBegin, disk
  <2> QED BY <2>1, <2>2, <2>3
<1>5. CASE WriteLine
  BY <1>5, <1>1, IndexUntouched DEF WriteLine, InCall
<1>6. CASE WriteNewline
  BY <1>6, <1>1, IndexUntouched DEF WriteNewline, InCall
<1>7. CASE SyncSegment
  BY <1>7, <1>1, IndexUntouched DEF SyncSegment, InCall
<1>8. CASE \E c \in Cutoffs : EnforceRetention(c)
  BY <1>8, <1>1, IndexUntouched DEF EnforceRetention
<1>9. CASE Stop
  BY <1>9, <1>1, IndexUntouched DEF Stop, LoseMemory, disk
<1>10. CASE \E c \in Cutoffs, drop \in SUBSET DOMAIN segments : RetentionStops(c, drop)
  <2>1. PICK c \in Cutoffs, drop \in SUBSET DOMAIN segments : RetentionStops(c, drop)
    BY <1>10
  <2>2. /\ status = "up" /\ pc = "idle" /\ mode' = mode /\ idxFile' = idxFile /\ idxSynced' = idxSynced
        /\ acked' = acked /\ misread' = misread /\ pc' = "idle" /\ (status' = "up" => seen' = seen)
    BY <2>1 DEF RetentionStops, LoseMemory
  <2> QED BY <2>2, <1>1, IndexUntouched
<1>11. CASE UNCHANGED vars
  BY <1>11, <1>1 DEF vars, disk, memory, IndexLasts, Lasting, Safe
<1> QED
  BY <1>2, <1>4, <1>5, <1>6, <1>7, <1>8, <1>9, <1>10, <1>11, OpenKeeps, OpenCorruptKeeps,
     WriteIndexKeeps, SyncIndexKeeps, CommitKeeps, CrashKeeps, OpenCutKeeps, PowerLossKeeps,
     WriteFailsKeeps
  DEF Next

LEMMA DedupInit ==
  ASSUME Init
  PROVE  DedupInv
<1>1. Len(<<>>) = 0 /\ idxFile = <<>>
  BY EmptySeq DEF Init
<1>2. IndexLasts
  BY <1>1 DEF Init, IndexLasts, Keeps
<1> QED BY <1>2, InitType DEF DedupInv

\* The keys of every append that may be relied on stay in the index, whatever is
\* retained away, cut off by a crash or repaired by open.
THEOREM DedupInvariant == Spec => []DedupInv
<1>1. Init => DedupInv
  BY DedupInit
<1>2. DedupInv /\ [Next]_vars => DedupInv'
  BY DedupStep
<1> QED BY <1>1, <1>2, PTL DEF Spec

\* While failures are ones that the index outlives, a running store knows the key
\* of every append that was answered Ok, after retention has dropped its segment
\* and after writes that failed: every key but those whose index line stands
\* behind digits that a failed write left, until an open finds their record.
THEOREM DedupForeverAlways == Spec => []DedupForever
<1>1. DedupInv => DedupForever
  BY DEF DedupInv, IndexLasts, DedupForever
<1> QED BY <1>1, DedupInvariant, PTL

-----------------------------------------------------------------------------
(* Lines of files that one more token, or the loss of the last ones, leaves.*)

\* A file that a repair would leave alone is entries and newlines in turn.
LEMMA Shape ==
  ASSUME NEW f \in File, NEW i \in 1 .. Len(f), \A j \in LineStarts(f) : j < i => Decodes(f, j)
  PROVE  i \in LineStarts(f) \/ (f[i] = Newline /\ i # 1 /\ i - 1 \in LineStarts(f))
<1>0. PICK l \in Nat : l = Len(f)
  BY FileFacts
<1>1. PICK s \in LineStarts(f) : s <= i /\ \A j \in s .. i - 1 : f[j] # Newline
  BY StartOfLine
<1>2. s \in 1 .. l /\ i \in 1 .. l
  BY <1>0, FileFacts DEF LineStarts
<1>3. CASE s = i
  BY <1>1, <1>3
<1>4. CASE s # i
  <2>1. s < i /\ s # l
    BY <1>1, <1>2, <1>4
  <2>2. f[s + 1] = Newline
    BY <2>1, <1>0 DEF Decodes
  <2>3. s + 1 \notin s .. i - 1
    BY <2>2, <1>1
  <2>4. i = s + 1 /\ i - 1 = s /\ i # 1
    BY <2>1, <2>3, <1>2
  <2> QED BY <2>2, <2>4
<1> QED BY <1>3, <1>4

\* A line is where it was in a file that goes on as before.
LEMMA SameLine ==
  ASSUME NEW f \in File, NEW g \in File, NEW n \in Nat, Agree(f, g, n), NEW i \in 1 .. n
  PROVE  /\ i \in LineStarts(f) <=> i \in LineStarts(g)
         /\ i < n => (Decodes(f, i) <=> Decodes(g, i))
         /\ EntryAt(f, i) <=> EntryAt(g, i)
<1>1. Agree(g, f, n)
  BY DEF Agree
<1>2. i \in LineStarts(f) <=> i \in LineStarts(g)
  BY <1>1, AgreeStarts
<1>3. f[i] = g[i]
  BY DEF Agree
<1>4. EntryAt(f, i) <=> EntryAt(g, i)
  BY <1>3 DEF EntryAt
<1>5. ASSUME i < n PROVE Decodes(f, i) <=> Decodes(g, i)
  <2>1. i + 1 \in 1 .. n /\ Len(f) \in Nat /\ Len(g) \in Nat
    BY <1>5, FileFacts
  <2>2. f[i + 1] = g[i + 1]
    BY <2>1 DEF Agree
  <2>3. i # Len(f) /\ i # Len(g)
    BY <2>1, <1>5 DEF Agree
  <2> QED BY <2>2, <2>3, <1>4 DEF Decodes
<1> QED BY <1>2, <1>4, <1>5

\* The lines of a prefix.
LEMMA PrefixLines ==
  ASSUME NEW f \in File, NEW m \in 0 .. Len(f), NEW p, p = SubSeq(f, 1, m)
  PROVE  /\ p \in File /\ Len(p) = m
         /\ \A i \in LineStarts(p) : i \in LineStarts(f) /\ p[i] = f[i] /\ (Decodes(f, i) => Decodes(p, i))
         /\ \A i \in LineStarts(f) : i <= m => i \in LineStarts(p)
<1>1. p \in File /\ Len(p) = m /\ Agree(f, p, m) /\ m \in Nat
  BY PrefixFacts
<1>2. LineStarts(p) \subseteq 1 .. m /\ LineStarts(f) \subseteq 1 .. Len(f) /\ Len(f) \in Nat
  BY <1>1, FileFacts DEF LineStarts
<1>3. ASSUME NEW i \in LineStarts(p)
      PROVE  i \in LineStarts(f) /\ p[i] = f[i] /\ (Decodes(f, i) => Decodes(p, i))
  <2>1. i \in 1 .. m
    BY <1>2
  <2>2. i \in LineStarts(f) /\ p[i] = f[i]
    BY <2>1, <1>1, SameLine DEF Agree
  <2>3. i < m => (Decodes(f, i) => Decodes(p, i))
    BY <2>1, <1>1, SameLine
  <2>4. i = m => (Decodes(f, i) => Decodes(p, i))
    BY <2>1, <1>1, SameLine DEF Decodes
  <2>5. i < m \/ i = m
    BY <2>1
  <2> QED BY <2>2, <2>3, <2>4, <2>5
<1>4. ASSUME NEW i \in LineStarts(f), i <= m PROVE i \in LineStarts(p)
  <2>1. i \in 1 .. m
    BY <1>1, <1>2, <1>4
  <2> QED BY <2>1, <1>1, SameLine
<1> QED BY <1>1, <1>3, <1>4

\* The records of g are records of f, in the same places.
Fewer(g, f) == \A i \in RecordLines(g) : i \in RecordLines(f) /\ g[i] = f[i]

LEMMA GoodPrefix ==
  ASSUME NEW f \in File, Good(f), NEW m \in 0 .. Len(f), NEW p, p = SubSeq(f, 1, m)
  PROVE  /\ p \in File /\ Len(p) = m /\ Good(p) /\ Fewer(p, f)
         /\ m < Len(f) /\ f[m + 1] # Newline => Ended(p)
         /\ m # 0 /\ p[m] = Newline => Ended(p)
<1>1. /\ p \in File /\ Len(p) = m
      /\ \A i \in LineStarts(p) : i \in LineStarts(f) /\ p[i] = f[i] /\ (Decodes(f, i) => Decodes(p, i))
  BY PrefixLines, ZenonT(60)
<1>2. \A i \in LineStarts(f) : Decodes(f, i)
  BY DEF Good, BadLines
<1>3. Good(p)
  BY <1>1, <1>2 DEF Good, BadLines
<1>4. Fewer(p, f)
  BY <1>1, <1>2 DEF Fewer, RecordLines
<1>5. ASSUME m < Len(f), f[m + 1] # Newline PROVE Ended(p)
  <2>1. m + 1 \in 1 .. Len(f) /\ (m + 1) - 1 = m
    BY <1>5, FileFacts
  <2>2. m + 1 \in LineStarts(f)
    BY <2>1, <1>2, <1>5, Shape
  <2>3. m = 0 \/ f[m] = Newline
    BY <2>1, <2>2 DEF LineStarts
  <2>4. m # 0 => p[m] = f[m]
    <3>1. m # 0 => m \in 1 .. m
      BY <2>1
    <3> QED BY <3>1, PrefixFacts DEF Agree
  <2> QED BY <2>3, <2>4, <1>1 DEF Ended
<1> QED BY <1>1, <1>3, <1>4, <1>5 DEF Ended

\* One more token behind whole lines.
LEMMA TokenAppended ==
  ASSUME NEW f \in File, NEW t \in Token, NEW g, g = Append(f, t)
  PROVE  /\ g \in File /\ Len(g) = Len(f) + 1 /\ g[Len(f) + 1] = t /\ Agree(f, g, Len(f))
         /\ Len(f) + 1 \in LineStarts(g) <=> Ended(f)
         /\ \A i \in LineStarts(g) : i \in LineStarts(f) \/ i = Len(f) + 1
         /\ LineStarts(f) \subseteq LineStarts(g)
<1>1. PICK n \in Nat : n = Len(f)
  BY FileFacts
<1>2. g \in File /\ Len(g) = n + 1 /\ g[n + 1] = t /\ Agree(f, g, n)
  <2>1. g \in Seq(Token) /\ Len(g) = n + 1 /\ g[n + 1] = t
    BY <1>1, AppendProperties DEF File
  <2> QED BY <2>1, <1>1, IndexAppended DEF File
<1>3. DOMAIN g = 1 .. n + 1
  BY <1>2, FileFacts
<1>4. n + 1 \in LineStarts(g) <=> Ended(f)
  <2>1. n # 0 => g[n] = f[n]
    <3>1. n # 0 => n \in 1 .. n
      OBVIOUS
    <3> QED BY <3>1, <1>2 DEF Agree
  <2>2. n + 1 \in DOMAIN g /\ (n + 1) - 1 = n /\ (n + 1 = 1 <=> n = 0)
    BY <1>3
  <2> QED BY <2>1, <2>2, <1>1 DEF LineStarts, Ended
<1>5. ASSUME NEW i \in LineStarts(g) PROVE i \in LineStarts(f) \/ i = n + 1
  <2>1. i \in 1 .. n + 1
    BY <1>3 DEF LineStarts
  <2>2. i \in 1 .. n \/ i = n + 1
    BY <2>1
  <2> QED BY <2>2, <1>2, SameLine
<1>6. ASSUME NEW i \in LineStarts(f) PROVE i \in LineStarts(g)
  <2>1. i \in 1 .. n
    BY <1>1, FileFacts DEF LineStarts
  <2> QED BY <2>1, <1>2, SameLine
<1> QED BY <1>1, <1>2, <1>4, <1>5, <1>6

\* The last line of a file that ends in a newline is not touched by more tokens.
LEMMA EndedLines ==
  ASSUME NEW f \in File, Ended(f), NEW t \in Token, NEW g, g = Append(f, t), NEW i \in LineStarts(f),
         Decodes(f, i)
  PROVE  Decodes(g, i)
<1>1. PICK n \in Nat : n = Len(f)
  BY FileFacts
<1>2. g \in File /\ Agree(f, g, n) /\ i \in 1 .. n
  BY <1>1, TokenAppended, FileFacts DEF LineStarts
<1>3. i # n
  <2>1. i = n => EntryAt(f, n) /\ f[n] = Newline /\ n # 0
    BY <1>1, <1>2 DEF Decodes, Ended
  <2> QED BY <2>1, Tokens DEF EntryAt
<1>4. i < n
  BY <1>2, <1>3
<1> QED BY <1>2, <1>4, SameLine

LEMMA EntryAppended ==
  ASSUME NEW f \in File, Clean(f), NEW k \in RecordKeys, NEW g, g = Append(f, Entry(k))
  PROVE  /\ g \in File /\ Len(g) = Len(f) + 1 /\ Good(g) /\ g[Len(g)] = Entry(k)
         /\ RecordLines(g) = RecordLines(f) \cup {Len(f) + 1} /\ Len(f) + 1 \notin RecordLines(f)
         /\ \A i \in RecordLines(f) : g[i] = f[i]
<1>1. PICK n \in Nat : n = Len(f)
  BY FileFacts
<1>2. Good(f) /\ Ended(f) /\ Entry(k) \in Token
  BY Tokens DEF Clean
<1>3. /\ g \in File /\ Len(g) = n + 1 /\ g[n + 1] = Entry(k) /\ Agree(f, g, n)
      /\ n + 1 \in LineStarts(g)
      /\ \A i \in LineStarts(g) : i \in LineStarts(f) \/ i = n + 1
      /\ LineStarts(f) \subseteq LineStarts(g)
  BY <1>1, <1>2, TokenAppended
<1>4. \A i \in LineStarts(f) : Decodes(f, i) /\ Decodes(g, i)
  BY <1>2, EndedLines DEF Good, BadLines
<1>5. Decodes(g, n + 1)
  BY <1>3 DEF Decodes, EntryAt
<1>6. \A i \in LineStarts(g) : Decodes(g, i)
  BY <1>3, <1>4, <1>5
<1>7. Good(g)
  BY <1>6 DEF Good, BadLines
<1>8. RecordLines(g) = RecordLines(f) \cup {n + 1}
  BY <1>3, <1>4, <1>5 DEF RecordLines
<1>9. RecordLines(f) \subseteq 1 .. n
  BY <1>1, KeySetType
<1>10. n + 1 \notin 1 .. n
  OBVIOUS
<1>11. \A i \in RecordLines(f) : g[i] = f[i]
  BY <1>3, <1>9 DEF Agree
<1> QED BY <1>1, <1>3, <1>7, <1>8, <1>9, <1>10, <1>11

LEMMA NewlineAppended ==
  ASSUME NEW f \in File, Good(f), Len(f) # 0, NEW k \in RecordKeys, f[Len(f)] = Entry(k),
         NEW g, g = Append(f, Newline)
  PROVE  /\ g \in File /\ Len(g) = Len(f) + 1 /\ Clean(g)
         /\ RecordLines(g) = RecordLines(f)
         /\ \A i \in RecordLines(f) : g[i] = f[i]
<1>1. PICK n \in Nat : n = Len(f) /\ n # 0
  BY FileFacts
<1>2. Newline \in Token /\ ~Ended(f)
  BY Tokens DEF Ended
<1>3. /\ g \in File /\ Len(g) = n + 1 /\ g[n + 1] = Newline /\ Agree(f, g, n)
      /\ n + 1 \notin LineStarts(g)
      /\ \A i \in LineStarts(g) : i \in LineStarts(f) \/ i = n + 1
      /\ LineStarts(f) \subseteq LineStarts(g)
  BY <1>1, <1>2, TokenAppended
<1>4. ASSUME NEW i \in LineStarts(f) PROVE Decodes(f, i) /\ Decodes(g, i)
  <2>1. Decodes(f, i)
    BY DEF Good, BadLines
  <2>2. i \in 1 .. n
    BY <1>1, FileFacts DEF LineStarts
  <2>3. CASE i < n
    BY <2>1, <2>2, <2>3, <1>3, SameLine
  <2>4. CASE i = n
    BY <2>1, <2>2, <2>4, <1>3, SameLine DEF Decodes
  <2> QED BY <2>1, <2>2, <2>3, <2>4
<1>5. LineStarts(g) = LineStarts(f)
  BY <1>3
<1>6. Clean(g)
  <2>1. Good(g)
    BY <1>4, <1>5 DEF Good, BadLines
  <2> QED BY <2>1, <1>3 DEF Clean, Ended
<1>7. RecordLines(g) = RecordLines(f)
  BY <1>4, <1>5 DEF RecordLines
<1>8. \A i \in RecordLines(f) : g[i] = f[i]
  BY <1>1, <1>3, KeySetType DEF Agree
<1> QED BY <1>1, <1>3, <1>6, <1>7, <1>8

LEMMA TornAppended ==
  ASSUME NEW f \in File, Clean(f), NEW g, g = Append(f, Torn)
  PROVE  /\ g \in File /\ Len(g) = Len(f) + 1 /\ TornLast(g)
         /\ RecordLines(g) = RecordLines(f)
         /\ \A i \in RecordLines(f) : g[i] = f[i]
<1>1. PICK n \in Nat : n = Len(f)
  BY FileFacts
<1>2. Good(f) /\ Ended(f) /\ Torn \in Token
  BY Tokens DEF Clean
<1>3. /\ g \in File /\ Len(g) = n + 1 /\ g[n + 1] = Torn /\ Agree(f, g, n)
      /\ n + 1 \in LineStarts(g)
      /\ \A i \in LineStarts(g) : i \in LineStarts(f) \/ i = n + 1
      /\ LineStarts(f) \subseteq LineStarts(g)
  BY <1>1, <1>2, TokenAppended
<1>4. \A i \in LineStarts(f) : Decodes(f, i) /\ Decodes(g, i)
  BY <1>2, EndedLines DEF Good, BadLines
<1>5. ~Decodes(g, n + 1)
  BY <1>3, Tokens DEF Decodes, EntryAt
<1>6. TornLast(g)
  BY <1>3, <1>4, <1>5 DEF TornLast, BadLines
<1>7. RecordLines(g) = RecordLines(f)
  BY <1>3, <1>4, <1>5 DEF RecordLines
<1>8. \A i \in RecordLines(f) : g[i] = f[i]
  BY <1>1, <1>3, KeySetType DEF Agree
<1> QED BY <1>1, <1>3, <1>6, <1>7, <1>8

\* The repair of a torn tail.
LEMMA TornPrefix ==
  ASSUME NEW f \in File, TornLast(f), NEW p, p = SubSeq(f, 1, Len(f) - 1)
  PROVE  /\ p \in File /\ Len(p) = Len(f) - 1 /\ Clean(p) /\ RecordLines(p) = RecordLines(f)
         /\ \A i \in RecordLines(p) : p[i] = f[i]
         /\ Len(f) \in 1 .. Len(f) /\ Len(f) \in LineStarts(f)
<1>1. PICK n \in Nat : n = Len(f)
  BY FileFacts
<1>2. n \in LineStarts(f) /\ f[n] = Torn /\ \A i \in LineStarts(f) : i # n => Decodes(f, i)
  BY <1>1 DEF TornLast, BadLines
<1>3. n \in 1 .. n /\ LineStarts(f) \subseteq 1 .. n /\ n - 1 \in 0 .. n
  BY <1>1, <1>2, FileFacts DEF LineStarts
<1>4. /\ p \in File /\ Len(p) = n - 1
      /\ \A i \in LineStarts(p) : i \in LineStarts(f) /\ p[i] = f[i] /\ (Decodes(f, i) => Decodes(p, i))
      /\ \A i \in LineStarts(f) : i <= n - 1 => i \in LineStarts(p)
  <2>1. PICK m \in 0 .. Len(f) : m = n - 1
    BY <1>1, <1>3
  <2>2. p = SubSeq(f, 1, m)
    BY <2>1, <1>1
  <2> QED BY <2>1, <2>2, PrefixLines
<1>5. LineStarts(p) \subseteq 1 .. n - 1
  BY <1>4, FileFacts DEF LineStarts
<1>6. n \notin LineStarts(p)
  BY <1>3, <1>5
<1>7. \A i \in LineStarts(p) : Decodes(p, i) /\ Decodes(f, i)
  BY <1>2, <1>4, <1>6
<1>8. Ended(p)
  <2>1. n = 1 \/ f[n - 1] = Newline
    BY <1>2 DEF LineStarts
  <2>2. n # 1 => p[n - 1] = f[n - 1]
    <3>1. n # 1 => n - 1 \in 1 .. n - 1
      BY <1>3
    <3>2. Agree(f, p, n - 1)
      BY <1>1, <1>3, PrefixFacts
    <3> QED BY <3>1, <3>2 DEF Agree
  <2> QED BY <2>1, <2>2, <1>4 DEF Ended
<1>9. Clean(p)
  BY <1>7, <1>8 DEF Clean, Good, BadLines
<1>10. ~Decodes(f, n)
  BY <1>1 DEF TornLast, BadLines
<1>11. \A i \in LineStarts(f) : i # n => i <= n - 1
  BY <1>3
<1>12. RecordLines(p) = RecordLines(f)
  BY <1>4, <1>7, <1>10, <1>11 DEF RecordLines
<1>13. \A i \in RecordLines(p) : p[i] = f[i]
  BY <1>4 DEF RecordLines
<1> QED BY <1>1, <1>2, <1>3, <1>4, <1>9, <1>12, <1>13

-----------------------------------------------------------------------------
(* Repairs, leftovers, and the records and metadata of a file.             *)

\* read_segment leaves whole lines alone and cuts a torn tail off.
LEMMA RepairedFacts ==
  ASSUME NEW f \in File, Clean(f) \/ TornLast(f), NEW p, p = Repaired(f)
  PROVE  /\ p \in File /\ Len(p) <= Len(f) /\ Clean(p) /\ RecordLines(p) = RecordLines(f)
         /\ \A i \in RecordLines(p) : p[i] = f[i]
         /\ Clean(f) => p = f
<1>1. PICK n \in Nat : n = Len(f)
  BY FileFacts
<1>2. CASE Clean(f)
  <2>1. p = f
    BY <1>2 DEF Clean, Good, Repaired
  <2> QED BY <2>1, <1>1, <1>2
<1>3. CASE TornLast(f)
  <2>1. BadLines(f) = {n} /\ f[n] = Torn /\ n \in 1 .. n
    BY <1>1, <1>3, TornPrefix DEF TornLast
  <2>2. ~Terminated(f, n)
    <3>1. n .. n = {n}
      OBVIOUS
    <3> QED BY <3>1, <2>1, <1>1, Tokens DEF Terminated
  <2>3. p = SubSeq(f, 1, n - 1)
    BY <2>1, <2>2 DEF Repaired
  <2>4. ~Clean(f)
    BY <2>1 DEF Clean, Good
  <2>5. Len(p) = n - 1 /\ p \in File /\ Clean(p) /\ RecordLines(p) = RecordLines(f)
        /\ \A i \in RecordLines(p) : p[i] = f[i]
    BY <2>3, <1>1, <1>3, TornPrefix
  <2> QED BY <2>4, <2>5, <1>1
<1> QED BY <1>2, <1>3

LEMMA RepairedIndexClean ==
  ASSUME NEW f \in File, Good(f) \/ TornLast(f), NEW p, p = RepairedIndex(f)
  PROVE  p \in File /\ Clean(p) /\ Fewer(p, f) /\ (Clean(f) => p = f)
<1>1. PICK n \in Nat : n = Len(f)
  BY FileFacts
<1>2. PICK m \in 0 .. n : /\ p = SubSeq(f, 1, m)
                          /\ m = 0 \/ f[m] = Newline
                          /\ \A j \in m + 1 .. n : f[j] # Newline
  BY <1>1, RepairedIndexFacts
<1>3. p \in File /\ Ended(p)
  BY RepairedIndexKeeps
<1>4. CASE Good(f)
  <2>1. Good(p) /\ Fewer(p, f)
    BY <1>1, <1>2, <1>4, GoodPrefix
  <2>2. Clean(f) => p = f
    <3>1. SUFFICES ASSUME Clean(f) PROVE p = f
      OBVIOUS
    <3>2. m = n
      <4>1. n = 0 \/ f[n] = Newline
        BY <1>1, <3>1 DEF Clean, Ended
      <4>2. m # n => n \in m + 1 .. n /\ n # 0
        OBVIOUS
      <4> QED BY <4>1, <4>2, <1>2
    <3>3. SubSeq(f, 1, n) = f
      BY <1>1, SubSeqFull DEF File
    <3> QED BY <3>2, <3>3, <1>2
  <2> QED BY <2>1, <2>2, <1>3 DEF Clean
<1>5. CASE TornLast(f)
  <2>1. BadLines(f) = {n} /\ f[n] = Torn /\ n \in 1 .. n
    BY <1>1, <1>5, TornPrefix DEF TornLast
  <2>2. m # n
    BY <2>1, <1>2, Tokens
  <2>3. /\ Len(p) = m
        /\ \A i \in LineStarts(p) : i \in LineStarts(f) /\ p[i] = f[i] /\ (Decodes(f, i) => Decodes(p, i))
    BY <1>1, <1>2, PrefixLines, ZenonT(60)
  <2>4. n \notin LineStarts(p)
    <3>1. LineStarts(p) \subseteq 1 .. m
      BY <2>3, <1>3, FileFacts DEF LineStarts
    <3>2. n \notin 1 .. m
      BY <2>2
    <3> QED BY <3>1, <3>2
  <2>5. \A i \in LineStarts(p) : Decodes(f, i)
    BY <2>1, <2>3, <2>4 DEF BadLines
  <2>6. Good(p) /\ Fewer(p, f)
    BY <2>3, <2>5 DEF Good, BadLines, Fewer, RecordLines
  <2>7. ~Clean(f)
    BY <2>1 DEF Clean, Good
  <2> QED BY <2>6, <2>7, <1>3 DEF Clean
<1> QED BY <1>4, <1>5

\* What a power loss, or a cut of its repairs, leaves of whole lines.
LEMMA GoodLeftovers ==
  ASSUME NEW f \in File, Good(f), NEW n \in 0 .. Len(f), NEW r \in Leftovers(f, n)
  PROVE  /\ r \in File /\ Fewer(r, f) /\ (Good(r) \/ TornLast(r))
         /\ Good(r) /\ Len(r) # 0 /\ r[Len(r)] \in {Newline, Torn} => Clean(r)
         /\ n = Len(f) => r = f
         /\ \A i \in RecordLines(f) : i < n => i \in RecordLines(r) /\ r[i] = f[i]
<1>1. PICK l \in Nat : l = Len(f)
  BY FileFacts
<1>2. r \in File /\ n <= Len(r) /\ Agree(f, r, n)
  BY LeftoverFacts
<1>3. ASSUME \E m \in n .. l : r = SubSeq(f, 1, m)
      PROVE  (Good(r) \/ TornLast(r)) /\ Fewer(r, f) /\ (n = l => r = f)
  <2>1. PICK m \in 0 .. l : r = SubSeq(f, 1, m) /\ (n = l => m = l)
    BY <1>1, <1>3
  <2>2. Good(r) /\ Fewer(r, f)
    BY <2>1, <1>1, GoodPrefix
  <2>3. n = l => r = f
    BY <2>1, <1>1, SubSeqFull DEF File
  <2> QED BY <2>2, <2>3, <1>1
<1>4. ASSUME \E m \in n .. l - 1 : f[m + 1] # Newline /\ r = Append(SubSeq(f, 1, m), Torn)
      PROVE  (Good(r) \/ TornLast(r)) /\ Fewer(r, f) /\ (n = l => r = f)
  <2>1. PICK m \in 0 .. l : m < l /\ f[m + 1] # Newline /\ r = Append(SubSeq(f, 1, m), Torn) /\ n # l
    BY <1>1, <1>4
  <2>2. PICK p \in File : p = SubSeq(f, 1, m) /\ Good(p) /\ Ended(p) /\ Fewer(p, f)
    BY <2>1, <1>1, GoodPrefix
  <2>3. TornLast(r) /\ RecordLines(r) = RecordLines(p) /\ \A i \in RecordLines(p) : r[i] = p[i]
    BY <2>1, <2>2, TornAppended DEF Clean
  <2>4. Fewer(r, f)
    BY <2>2, <2>3 DEF Fewer
  <2> QED BY <2>1, <2>3, <2>4, <1>1
<1>5. (Good(r) \/ TornLast(r)) /\ Fewer(r, f) /\ (n = l => r = f)
  BY <1>1, <1>3, <1>4 DEF Leftovers
<1>6. ASSUME Good(r), Len(r) # 0, r[Len(r)] \in {Newline, Torn} PROVE Clean(r)
  <2>1. Len(r) \in 1 .. Len(r)
    BY <1>2, <1>6, FileFacts
  <2>2. \A j \in LineStarts(r) : Decodes(r, j)
    BY <1>6 DEF Good, BadLines
  <2>3. Len(r) \in LineStarts(r) \/ r[Len(r)] = Newline
    BY <2>1, <2>2, <1>2, Shape
  <2>4. r[Len(r)] = Newline
    BY <2>2, <2>3, <1>6, Tokens DEF Decodes, EntryAt
  <2> QED BY <2>4, <1>6 DEF Clean, Ended
<1>7. ASSUME NEW i \in RecordLines(f), i < n PROVE i \in RecordLines(r) /\ r[i] = f[i]
  <2>1. i \in 1 .. n
    BY <1>1, <1>7, KeySetType
  <2>2. i \in LineStarts(f) /\ Decodes(f, i)
    BY DEF RecordLines
  <2>3. i \in LineStarts(r) /\ Decodes(r, i)
    BY <2>1, <2>2, <1>2, <1>7, SameLine
  <2> QED BY <2>1, <2>3, <1>2 DEF RecordLines, Agree
<1> QED BY <1>1, <1>2, <1>5, <1>6, <1>7

LEMMA FewerKeys ==
  ASSUME NEW f, NEW g
  PROVE  /\ Fewer(g, f) => KeySet(g) \subseteq KeySet(f)
         /\ RecordLines(g) = RecordLines(f) /\ (\A i \in RecordLines(f) : g[i] = f[i]) =>
              Fewer(g, f) /\ Fewer(f, g) /\ KeySet(g) = KeySet(f) /\ SegmentInfo(g) = SegmentInfo(f)
<1>1. ASSUME NEW h, NEW e, Fewer(h, e) PROVE KeySet(h) \subseteq KeySet(e)
  BY <1>1 DEF Fewer, KeySet
<1>2. ASSUME RecordLines(g) = RecordLines(f), \A i \in RecordLines(f) : g[i] = f[i]
      PROVE  Fewer(g, f) /\ Fewer(f, g) /\ KeySet(g) = KeySet(f) /\ SegmentInfo(g) = SegmentInfo(f)
  <2>1. Fewer(g, f) /\ Fewer(f, g)
    BY <1>2 DEF Fewer
  <2>2. KeySet(g) = KeySet(f)
    BY <2>1, <1>1
  <2> QED BY <2>1, <2>2, <1>2 DEF SegmentInfo
<1> QED BY <1>1, <1>2

\* A record of k more.
\* g has the records of f, and one of k at a.
Adds(g, f, a, k) ==
  /\ a \notin RecordLines(f) /\ RecordLines(g) = RecordLines(f) \cup {a} /\ g[a] = Entry(k)
  /\ \A i \in RecordLines(f) : g[i] = f[i]

LEMMA OneMore ==
  ASSUME NEW f \in File, NEW g \in File, NEW k \in RecordKeys, NEW a, Adds(g, f, a, k)
  PROVE  /\ KeySet(g) = KeySet(f) \cup {k}
         /\ Cardinality(RecordLines(f)) \in Nat
         /\ Cardinality(RecordLines(g)) = Cardinality(RecordLines(f)) + 1
         /\ k \notin KeySet(f) => InfoBefore(g, k) = SegmentInfo(f)
<1>1. /\ a \notin RecordLines(f) /\ RecordLines(g) = RecordLines(f) \cup {a} /\ g[a] = Entry(k)
      /\ \A i \in RecordLines(f) : g[i] = f[i]
  BY DEF Adds
<1>2. KeySet(g) = KeySet(f) \cup {k}
  <2>1. g[a][2] = k
    BY <1>1, Tokens
  <2>2. ASSUME NEW j \in KeySet(g) PROVE j \in KeySet(f) \cup {k}
    BY <1>1, <2>1 DEF KeySet
  <2>3. ASSUME NEW j \in KeySet(f) PROVE j \in KeySet(g)
    BY <1>1 DEF KeySet
  <2>4. k \in KeySet(g)
    BY <1>1, <2>1 DEF KeySet
  <2> QED BY <2>2, <2>3, <2>4
<1>3. PICK A : A = RecordLines(f)
  OBVIOUS
<1>4. IsFiniteSet(A)
  BY <1>3, KeySetType
<1>5. Cardinality(A) \in Nat /\ Cardinality(A \cup {a}) = Cardinality(A) + 1
  BY <1>1, <1>3, <1>4, FS_AddElement, FS_CardinalityType
<1>6. ASSUME k \notin KeySet(f) PROVE InfoBefore(g, k) = SegmentInfo(f)
  <2>1. KeySet(g) \ {k} = KeySet(f)
    BY <1>2, <1>6
  <2>2. Cardinality(RecordLines(g)) - 1 = Cardinality(RecordLines(f))
    BY <1>1, <1>3, <1>5
  <2> QED BY <2>1, <2>2 DEF InfoBefore, SegmentInfo
<1> QED BY <1>1, <1>2, <1>3, <1>5, <1>6

\* What Commit makes of the metadata is what the file says.
LEMMA InfoAfter ==
  ASSUME NEW g \in File, NEW k \in KeySet(g), NEW i, i = InfoBefore(g, k)
  PROVE  [records |-> i.records + 1,
          newest |-> IF i.newest >= Measured[k] THEN i.newest ELSE Measured[k]] = SegmentInfo(g)
<1>1. PICK K : K = KeySet(g)
  OBVIOUS
<1>2. K \subseteq RecordKeys /\ IsFiniteSet(K) /\ k \in K
  BY <1>1, KeySetType
<1>3. PICK J : J = K \ {k}
  OBVIOUS
<1>4. IsFiniteSet(J) /\ J \subseteq RecordKeys
  BY <1>2, <1>3, FS_RemoveElement
<1>5. PICK m \in Nat : m = Newest(K) /\ (\E j \in K : m = Measured[j]) /\ \A j \in K : Measured[j] <= m
  BY <1>2, NewestFacts
<1>6. PICK u \in Nat : /\ u = Newest(J) /\ (J = {} => u = 0)
                       /\ J # {} => (\E j \in J : u = Measured[j]) /\ \A j \in J : Measured[j] <= u
  BY <1>4, NewestFacts
<1>7. \A j \in K : Measured[j] \in Nat
  BY <1>2, StoreAssumption
<1>8. (IF u >= Measured[k] THEN u ELSE Measured[k]) = m
  <2>1. Measured[k] <= m /\ Measured[k] \in Nat
    BY <1>2, <1>5, <1>7
  <2>2. u <= m
    <3>1. CASE J = {}
      BY <3>1, <1>6
    <3>2. CASE J # {}
      BY <3>2, <1>3, <1>5, <1>6
    <3> QED BY <3>1, <3>2
  <2>3. m = Measured[k] \/ m <= u
    <3>1. PICK j \in K : m = Measured[j]
      BY <1>5
    <3>2. CASE j = k
      BY <3>1, <3>2
    <3>3. CASE j # k
      <4>1. j \in J /\ J # {}
        BY <3>3, <1>3
      <4> QED BY <4>1, <3>1, <1>6
    <3> QED BY <3>2, <3>3
  <2> QED BY <2>1, <2>2, <2>3
<1>9. i.records = Cardinality(RecordLines(g)) - 1 /\ i.newest = u
  BY <1>1, <1>3, <1>6 DEF InfoBefore
<1>10. Cardinality(RecordLines(g)) \in Nat
  BY KeySetType, FS_CardinalityType
<1>11. i.records + 1 = Cardinality(RecordLines(g))
  BY <1>9, <1>10
<1> QED BY <1>1, <1>5, <1>8, <1>9, <1>11 DEF SegmentInfo

LEMMA EmptyFile ==
  /\ <<>> \in File /\ Clean(<<>>) /\ RecordLines(<<>>) = {} /\ KeySet(<<>>) = {} /\ Len(<<>>) = 0
  /\ SegmentInfo(<<>>) = [records |-> 0, newest |-> 0]
<1>1. <<>> \in File /\ Len(<<>>) = 0 /\ DOMAIN <<>> = {}
  BY EmptySeq DEF File
<1>2. LineStarts(<<>>) = {}
  BY <1>1 DEF LineStarts
<1>3. RecordLines(<<>>) = {} /\ BadLines(<<>>) = {}
  BY <1>2 DEF RecordLines, BadLines
<1>4. KeySet(<<>>) = {}
  BY <1>3 DEF KeySet
<1>5. SegmentInfo(<<>>) = [records |-> 0, newest |-> 0]
  BY <1>3, <1>4, FS_EmptySet DEF SegmentInfo, Newest
<1> QED BY <1>1, <1>3, <1>4, <1>5 DEF Clean, Good, Ended

LEMMA UniqueFewer ==
  ASSUME NEW S, NEW R, Unique(S),
         \A i \in DOMAIN R : (i \in DOMAIN S /\ Fewer(R[i], S[i])) \/ RecordLines(R[i]) = {}
  PROVE  Unique(R)
BY DEF Unique, Fewer

\* The records of R are those of S, none of them of k, and one of k.
OneNew(R, S, n, a, k) ==
  \A i \in DOMAIN R : \A b \in RecordLines(R[i]) :
    \/ i = n /\ b = a /\ R[i][b] = Entry(k)
    \/ i \in DOMAIN S /\ b \in RecordLines(S[i]) /\ R[i][b] = S[i][b] /\ S[i][b] # Entry(k)

LEMMA UniqueMore ==
  ASSUME NEW S, NEW R, Unique(S), NEW n, NEW a, NEW k, OneNew(R, S, n, a, k)
  PROVE  Unique(R)
BY DEF Unique, OneNew

LEMMA UniqueWithout ==
  ASSUME NEW S \in Seq(File), Unique(S), NEW drop
  PROVE  Unique(Without(S, drop))
<1>1. PICK K : K = DOMAIN S \ drop
  OBVIOUS
<1>2. PICK o : o = InOrder(K)
  OBVIOUS
<1>3. PICK c : c = Cardinality(K)
  OBVIOUS
<1>4. PICK R : R = Without(S, drop)
  OBVIOUS
<1>5. /\ R \in Seq(File) /\ c \in Nat /\ Len(R) = c /\ Increasing(o, K)
      /\ \A i \in 1 .. c : R[i] = S[o[i]] /\ o[i] \in 1 .. Len(S)
  BY <1>1, <1>2, <1>3, <1>4, WithoutFacts
<1>6. DOMAIN R = 1 .. c /\ DOMAIN S = 1 .. Len(S)
  BY <1>5, LenProperties
<1>7. ASSUME NEW i \in 1 .. c, NEW j \in 1 .. c, o[i] = o[j] PROVE i = j
  <2>1. i < j => o[i] < o[j]
    BY <1>3, <1>5 DEF Increasing
  <2>2. j < i => o[j] < o[i]
    BY <1>3, <1>5 DEF Increasing
  <2>3. o[i] \in Nat /\ o[j] \in Nat
    BY <1>5
  <2> QED BY <2>1, <2>2, <2>3, <1>7
<1>8. Unique(R)
  BY <1>5, <1>6, <1>7 DEF Unique
<1> QED BY <1>4, <1>8

-----------------------------------------------------------------------------
(* The files and the index as open reads them.                             *)

\* Keys that the files of S hold.
Held(S) == {k \in RecordKeys : \E i \in DOMAIN S : k \in KeySet(S[i])}

LEMMA HeldFacts ==
  ASSUME NEW S \in Seq(File)
  PROVE  /\ UNION {KeySet(S[i]) : i \in DOMAIN S} = Held(S)
         /\ \A k : k \in Held(S) <=> \E i \in DOMAIN S : k \in KeySet(S[i])
<1>1. \A i \in DOMAIN S : KeySet(S[i]) \subseteq RecordKeys
  BY KeySetType, LenProperties
<1>2. \A k : k \in Held(S) <=> \E i \in DOMAIN S : k \in KeySet(S[i])
  BY <1>1 DEF Held
<1> QED BY <1>2

LEMMA StoredIs ==
  ASSUME segFiles \in Seq(File)
  PROVE  Stored = Held(segFiles)
BY HeldFacts DEF Stored

LEMMA StoredNext ==
  ASSUME segFiles' \in Seq(File)
  PROVE  Stored' = Held(segFiles')
BY HeldFacts DEF Stored

\* The file that the next write of a call goes to.
LastFile(S, n) == IF Len(S) < n THEN <<>> ELSE S[n]

LEMMA ToSegmentFacts ==
  ASSUME SegsOK(segFiles, segSynced), NEW n, n = Len(segments), n # 0,
         n \in {Len(segFiles), Len(segFiles) + 1}, NEW t \in File, ToSegment(t)
  PROVE  /\ SegsOK(segFiles', segSynced') /\ Len(segFiles') = n
         /\ LastFile(segFiles, n) \in File
         /\ segFiles'[n] = LastFile(segFiles, n) \o t
         /\ segSynced'[n] = IF Len(segFiles) < n THEN 0 ELSE segSynced[n]
         /\ \A i \in 1 .. n : i # n => i \in DOMAIN segFiles /\ i # Len(segFiles) + 1
                                      /\ segFiles'[i] = segFiles[i] /\ segSynced'[i] = segSynced[i]
<1>1. PICK S : S = segFiles
  OBVIOUS
<1>2. PICK Y : Y = segSynced
  OBVIOUS
<1>3. PICK l \in Nat : l = Len(S)
  BY <1>1, SegsFacts
<1>4. /\ SegsOK(S, Y) /\ n \in {l, l + 1} /\ n \in Nat /\ S \in Seq(File) /\ Y \in Seq(Nat)
      /\ DOMAIN S = 1 .. l /\ Len(Y) = l /\ \A i \in 1 .. l : S[i] \in File
  BY <1>1, <1>2, <1>3, SegsFacts
<1>5. SegsOK(segFiles', segSynced') /\ Len(segFiles') = n
  BY ToSegmentType
<1>6. CASE l < n
  <2>1. segFiles' = Append(S, t) /\ segSynced' = Append(Y, 0) /\ n = l + 1
    BY <1>1, <1>2, <1>3, <1>4, <1>6 DEF ToSegment
  <2>2. segFiles'[n] = t /\ \A i \in 1 .. l : segFiles'[i] = S[i]
    BY <2>1, <1>3, <1>4, AppendProperties
  <2>3. segSynced'[n] = 0 /\ \A i \in 1 .. l : segSynced'[i] = Y[i]
    <3>1. PICK T : T = Nat
      OBVIOUS
    <3>2. Y \in Seq(T) /\ 0 \in T
      BY <3>1, <1>4
    <3>3. segSynced'[Len(Y) + 1] = 0 /\ \A i \in 1 .. Len(Y) : segSynced'[i] = Y[i]
      BY <2>1, <3>2, AppendProperties
    <3> QED BY <3>3, <2>1, <1>4
  <2>4. LastFile(S, n) = <<>> /\ <<>> \in File /\ <<>> \o t = t
    BY <1>3, <1>6, EmptyFile, ConcatEmptySeq DEF LastFile, File
  <2>5. \A i \in 1 .. n : i # n => i \in 1 .. l /\ i # l + 1
    BY <2>1
  <2> QED BY <2>2, <2>3, <2>4, <2>5, <1>1, <1>2, <1>3, <1>4, <1>5, <1>6
<1>7. CASE ~(l < n)
  <2>1. n = l /\ l \in 1 .. l
    BY <1>4, <1>7
  <2>2. PICK R : R = [S EXCEPT ![l] = @ \o t]
    OBVIOUS
  <2>3. segFiles' = R /\ segSynced' = Y
    BY <2>2, <1>1, <1>2, <1>3, <1>7 DEF ToSegment
  <2>4. R[l] = S[l] \o t /\ \A i \in 1 .. l : i # l => R[i] = S[i]
    <3>1. Len(S) # 0 /\ R = [S EXCEPT ![Len(S)] = @ \o t]
      BY <2>1, <2>2, <1>3, <1>4
    <3>2. R[Len(S)] = S[Len(S)] \o t /\ \A i \in 1 .. Len(S) : i # Len(S) => R[i] = S[i]
      BY <3>1, <1>4, SegmentExtended
    <3> QED BY <3>2, <1>3
  <2>5. LastFile(S, n) = S[n] /\ S[n] \in File
    BY <2>1, <1>3, <1>4, <1>7 DEF LastFile
  <2>6. \A i \in 1 .. n : i # l + 1
    BY <2>1
  <2> QED BY <2>1, <2>3, <2>4, <2>5, <2>6, <1>1, <1>2, <1>3, <1>4, <1>5, <1>7
<1> QED BY <1>6, <1>7

\* One token at the end.
LEMMA OneToken ==
  ASSUME NEW f \in File, NEW t \in Token
  PROVE  f \o <<t>> = Append(f, t) /\ <<t>> \in File
BY AppendIsConcat DEF File

\* In terms of the state.
LEMMA StoreFacts ==
  ASSUME StoreInv
  PROVE  /\ DedupInv /\ TypeOK /\ InCall /\ IndexLasts
         /\ Tolerated => Intact
         /\ SegsOK(segFiles, segSynced) /\ segFiles \in Seq(File) /\ idxFile \in File
         /\ Len(segFiles) \in Nat /\ DOMAIN segFiles = 1 .. Len(segFiles) /\ mode \in Modes
         /\ \A i \in 1 .. Len(segFiles) : segFiles[i] \in File /\ segSynced[i] \in Nat
                                           /\ segSynced[i] <= Len(segFiles[i]) /\ Len(segFiles[i]) \in Nat
         /\ Stored = Held(segFiles)
<1>1. DedupInv /\ TypeOK /\ InCall /\ IndexLasts /\ (Tolerated => Intact)
  BY DEF StoreInv, DedupInv
<1>2. SegsOK(segFiles, segSynced) /\ idxFile \in File /\ mode \in Modes
  BY <1>1, TypeFacts DEF Files
<1>3. segFiles \in Seq(File) /\ Len(segFiles) \in Nat /\ DOMAIN segFiles = 1 .. Len(segFiles)
      /\ \A i \in 1 .. Len(segFiles) : segFiles[i] \in File /\ segSynced[i] \in Nat
                                        /\ segSynced[i] <= Len(segFiles[i])
  BY <1>2, SegsFacts
<1>4. \A i \in 1 .. Len(segFiles) : Len(segFiles[i]) \in Nat
  BY <1>3, FileFacts
<1> QED BY <1>1, <1>2, <1>3, <1>4, StoredIs

\* The segments that open reads back: the records that were there, whole.
LEMMA SegmentsReadBack ==
  ASSUME StoreInv, Tolerated, status # "up", NEW R, R = RepairedSegs
  PROVE  /\ R \in Seq(File) /\ Len(R) = Len(segFiles) /\ DOMAIN R = 1 .. Len(segFiles)
         /\ \A i \in 1 .. Len(segFiles) :
              /\ R[i] \in File /\ Clean(R[i]) /\ Len(R[i]) <= Len(segFiles[i])
              /\ RecordLines(R[i]) = RecordLines(segFiles[i])
              /\ \A a \in RecordLines(R[i]) : R[i][a] = segFiles[i][a]
              /\ KeySet(R[i]) = KeySet(segFiles[i])
         /\ Held(R) = Stored /\ Unique(R)
<1>1. PICK S \in Seq(File) : S = segFiles
  BY StoreFacts
<1>2. PICK n \in Nat : n = Len(S) /\ DOMAIN S = 1 .. n /\ \A i \in 1 .. n : S[i] \in File
  BY LenProperties
<1>3. R \in Seq(File) /\ Len(R) = n /\ R = [i \in 1 .. n |-> IF i = n THEN Repaired(S[i]) ELSE S[i]]
  BY <1>1, <1>2, RepairedSegsType DEF RepairedSegs
<1>4. DOMAIN R = 1 .. n
  BY <1>3
<1>5. pc = "idle"
  BY StoreFacts DEF InCall
<1>6. ASSUME NEW i \in 1 .. n
      PROVE  /\ R[i] \in File /\ Clean(R[i]) /\ Len(R[i]) <= Len(S[i])
             /\ RecordLines(R[i]) = RecordLines(S[i])
             /\ \A a \in RecordLines(R[i]) : R[i][a] = S[i][a]
             /\ KeySet(R[i]) = KeySet(S[i])
  <2>1. Clean(S[i]) \/ (i = n /\ TornLast(S[i]))
    BY <1>1, <1>2, <1>5, StoreFacts DEF Intact, Whole
  <2>2. CASE i = n
    <3>1. R[i] = Repaired(S[i]) /\ S[i] \in File
      BY <2>2, <1>2, <1>3
    <3>2. /\ R[i] \in File /\ Clean(R[i]) /\ Len(R[i]) <= Len(S[i])
          /\ RecordLines(R[i]) = RecordLines(S[i])
          /\ \A a \in RecordLines(R[i]) : R[i][a] = S[i][a]
      BY <2>1, <3>1, RepairedFacts
    <3> QED BY <3>2, FewerKeys
  <2>3. CASE i # n
    <3>1. R[i] = S[i] /\ S[i] \in File
      BY <2>3, <1>2, <1>3
    <3>2. Len(S[i]) <= Len(S[i])
      BY <3>1, FileFacts
    <3> QED BY <3>1, <3>2, <2>1, <2>3
  <2> QED BY <2>2, <2>3
<1>7. Held(R) = Stored
  BY <1>1, <1>2, <1>4, <1>6, StoredIs DEF Held
<1>8. Unique(R)
  <2>1. Unique(S)
    BY <1>1, StoreFacts DEF Intact
  <2>2. \A i \in DOMAIN R : i \in DOMAIN S /\ Fewer(R[i], S[i])
    BY <1>2, <1>4, <1>6, FewerKeys
  <2> QED BY <2>1, <2>2, UniqueFewer
<1> QED BY <1>1, <1>2, <1>3, <1>4, <1>6, <1>7, <1>8

LEMMA IndexReadBack ==
  ASSUME StoreInv, Tolerated, status # "up", NEW f, f = RepairedIndex(idxFile),
         NEW g, g = f \o IndexLines(Missing)
  PROVE  /\ f \in File /\ Clean(f) /\ Fewer(f, idxFile)
         /\ g \in File /\ Clean(g) /\ KeySet(g) = KeySet(f) \cup Missing
         /\ Missing = Stored \ KeySet(f) /\ Len(f) \in 0 .. Len(g)
<1>1. PICK h \in File : h = idxFile
  BY StoreFacts
<1>2. PICK M : M = Missing
  OBVIOUS
<1>3. Good(h) \/ TornLast(h)
  BY <1>1, StoreFacts DEF Intact, Whole, Clean
<1>4. f \in File /\ Clean(f) /\ Fewer(f, h)
  BY <1>1, <1>3, RepairedIndexClean
<1>5. M \subseteq RecordKeys /\ IsFiniteSet(M)
  BY <1>2, StoreFacts, MissingType
<1>6. BadLines(f) = {} /\ Ended(f)
  BY <1>4 DEF Clean, Good
<1>7. g = f \o IndexLines(M)
  BY <1>2
<1>8. /\ g \in File /\ Len(f) <= Len(g) /\ Agree(f, g, Len(f)) /\ Ended(g)
      /\ \A k \in M : HasLine(g, Len(g), k)
      /\ BadLines(g) = {} /\ KeySet(g) \subseteq KeySet(f) \cup M
  <2>1. /\ g \in File /\ Len(f) <= Len(g) /\ Agree(f, g, Len(f)) /\ Ended(g)
        /\ \A k \in M : HasLine(g, Len(g), k)
    BY <1>4, <1>5, <1>6, <1>7, IndexExtended
  <2>2. BadLines(g) = {} /\ KeySet(g) \subseteq KeySet(f) \cup M
    BY <1>4, <1>5, <1>6, <1>7, IndexExtended
  <2> QED BY <2>1, <2>2
<1>9. Len(f) \in Nat /\ Len(g) \in Nat /\ Len(g) <= Len(g)
  BY <1>4, <1>8, FileFacts
<1>10. KeySet(f) \cup M \subseteq KeySet(g)
  <2>1. Keeps(f, Len(f), KeySet(f))
    BY <1>4, <1>6, ReadBack DEF Keeps
  <2>2. Keeps(g, Len(g), KeySet(f))
    BY <2>1, <1>4, <1>8, <1>9, KeepsLonger
  <2>3. Keeps(g, Len(g), M)
    BY <1>8 DEF Keeps
  <2>4. KeySet(f) \subseteq KeySet(g) /\ M \subseteq KeySet(g)
    BY <2>2, <2>3, <1>8, ReadBack
  <2> QED BY <2>4
<1>11. M = Stored \ KeySet(f)
  <2>1. PICK R : R = RepairedSegs
    OBVIOUS
  <2>2. R \in Seq(File) /\ Held(R) = Stored /\ DOMAIN R = DOMAIN segFiles
    BY <2>1, StoreFacts, SegmentsReadBack
  <2>3. \A k : k \in Held(R) <=> \E i \in DOMAIN R : k \in KeySet(R[i])
    BY <2>2, HeldFacts
  <2>4. \A k : k \in M <=> (\E i \in DOMAIN R : k \in KeySet(R[i])) /\ k \notin KeySet(f)
    <3>1. PICK D : D = DOMAIN segFiles
      OBVIOUS
    <3>2. M = (UNION {KeySet(R[i]) : i \in D}) \ KeySet(f)
      BY <2>1, <1>2, <3>1 DEF Missing
    <3>3. \A k : k \in M <=> (\E i \in D : k \in KeySet(R[i])) /\ k \notin KeySet(f)
      BY <3>2
    <3> QED BY <3>1, <3>3, <2>2
  <2> QED BY <2>2, <2>3, <2>4
<1>12. Clean(g)
  BY <1>8 DEF Clean, Good
<1>13. KeySet(g) = KeySet(f) \cup M /\ Len(f) \in 0 .. Len(g)
  BY <1>8, <1>9, <1>10
<1> QED BY <1>1, <1>2, <1>4, <1>8, <1>11, <1>12, <1>13

\* open never refuses.
LEMMA AlwaysReadable ==
  ASSUME StoreInv, Tolerated, status # "up"
  PROVE  Readable
<1>1. BadLines(RepairedIndex(idxFile)) = {}
  BY IndexReadBack DEF Clean, Good
<1>2. \A i \in DOMAIN segFiles : BadLines(RepairedSegs[i]) = {}
  BY StoreFacts, SegmentsReadBack DEF Clean, Good
<1> QED BY <1>1, <1>2 DEF Readable

-----------------------------------------------------------------------------
(* Each step of a call keeps what tolerated failures leave.                *)

LEMMA ToleratedFacts ==
  ASSUME Tolerated
  PROVE  /\ Lasting /\ "linecut" \notin mode.faults /\ "ioerror" \notin mode.faults
         /\ "power" \in mode.faults => mode.sync /\ "crash" \notin mode.faults
         /\ "crash" \in mode.faults => "power" \notin mode.faults
<1>1. mode.faults = {"crash"} \/ (mode.sync /\ mode.faults = {"power"})
  BY DEF Tolerated
<1> QED BY <1>1 DEF Lasting

\* In a running store every file is whole, but for a line just begun.
LEMMA WholeUp ==
  ASSUME StoreInv, Tolerated, status = "up"
  PROVE  /\ Intact /\ Whole /\ Remembered /\ Clean(idxFile)
         /\ \A i \in 1 .. Len(segFiles) : Good(segFiles[i])
         /\ \A i \in 1 .. Len(segFiles) : i # Len(segFiles) \/ pc # "newline" => Clean(segFiles[i])
<1>1. Intact /\ Whole /\ Remembered
  BY StoreFacts DEF Intact
<1>2. Clean(idxFile)
  BY <1>1 DEF Whole
<1>3. ASSUME NEW i \in 1 .. Len(segFiles)
      PROVE  Good(segFiles[i]) /\ (i # Len(segFiles) \/ pc # "newline" => Clean(segFiles[i]))
  <2>1. Clean(segFiles[i]) \/ (i = Len(segFiles) /\ pc = "newline" /\ Good(segFiles[i]))
    BY <1>1, StoreFacts DEF Whole
  <2> QED BY <2>1 DEF Clean
<1> QED BY <1>1, <1>2, <1>3

LEMMA WholeSame ==
  ASSUME StoreInv, Tolerated, status = "up", pc # "newline", segFiles' = segFiles, idxFile' = idxFile
  PROVE  Whole'
BY WholeUp, StoreFacts DEF Whole

\* Steps that leave every file as it is.
LEMMA FilesSame ==
  ASSUME StoreInv, Tolerated, status = "up", pc # "newline", UNCHANGED disk, mode' = mode,
         pc' \notin {"newline", "sync"}, pc \notin {"newline", "sync"}
  PROVE  Whole' /\ Filled' /\ Synced' /\ Unique(segFiles')
<1>1. segFiles' = segFiles /\ idxFile' = idxFile /\ segSynced' = segSynced
  BY DEF disk
<1>2. Whole' /\ Intact
  BY <1>1, WholeSame, WholeUp
<1>3. Unsynced' = Unsynced
  BY DEF Unsynced
<1> QED BY <1>1, <1>2, <1>3 DEF Intact, Filled, Synced

LEMMA AppendDuplicateIntact ==
  ASSUME StoreInv, Tolerated, NEW k, AppendDuplicate(k)
  PROVE  Intact'
<1>1. status = "up" /\ pc = "idle" /\ UNCHANGED <<mode, disk, status, memory>>
  BY DEF AppendDuplicate
<1>2. UNCHANGED <<disk, mode, status, seen, segments, pc, current, segFiles, idxFile>>
  BY <1>1 DEF memory, disk
<1>3. Whole' /\ Filled' /\ Synced' /\ Unique(segFiles')
  BY <1>1, <1>2, FilesSame
<1>4. Remembered'
  BY <1>1, <1>2, WholeUp DEF Remembered, Stored, Written
<1> QED BY <1>1, <1>2, <1>3, <1>4 DEF Intact

LEMMA AppendBeginIntact ==
  ASSUME StoreInv, Tolerated, NEW k, AppendBegin(k)
  PROVE  Intact'
<1>1. status = "up" /\ pc = "idle" /\ pc' = "line" /\ UNCHANGED <<mode, disk, status, seen>>
  BY DEF AppendBegin
<1>2. UNCHANGED <<segFiles, idxFile>>
  BY <1>1 DEF disk
<1>3. Whole' /\ Filled' /\ Synced' /\ Unique(segFiles')
  BY <1>1, <1>2, FilesSame
<1>4. PICK n \in Nat : n = Len(segFiles) /\ DOMAIN segFiles = 1 .. n
  BY StoreFacts
<1>5. PICK G \in Seq(Info) : G = segments /\ Len(G) = n /\ \A i \in 1 .. n : G[i] = SegmentInfo(segFiles[i])
  BY <1>1, <1>4, WholeUp, StoreFacts, TypeFacts DEF Remembered, Written
<1>6. KeySet(idxFile) = seen /\ Stored \subseteq seen
  BY <1>1, WholeUp DEF Remembered, Written
<1>7. PICK z \in Info : z = [records |-> 0, newest |-> 0]
  BY DEF Info
<1>8. PICK H : H = segments'
  OBVIOUS
<1>9. mode.max \in Nat /\ mode.max # 0
  BY StoreFacts, ModeFacts
<1>10. /\ \A i \in 1 .. n : H[i] = SegmentInfo(segFiles[i])
       /\ Len(H) # n => H[Len(H)] = z
       /\ H[Len(H)].records < mode.max
  <2>1. CASE H = G /\ G # <<>> /\ ~(G[Len(G)].records >= mode.max)
    <3>1. n # 0
      BY <2>1, <1>5, EmptySeq
    <3>2. n \in 1 .. n
      BY <3>1
    <3>3. G[n] \in Info
      BY <3>2, <1>5, LenProperties
    <3>4. G[n].records \in Nat
      BY <3>3 DEF Info
    <3> QED BY <3>4, <2>1, <1>5, <1>9
  <2>2. CASE H = Append(G, z)
    <3>1. Len(H) = n + 1 /\ H[n + 1] = z /\ \A i \in 1 .. n : H[i] = G[i]
      BY <2>2, <1>5, AppendProperties
    <3>2. z.records < mode.max
      BY <1>7, <1>9
    <3> QED BY <3>1, <3>2, <1>5
  <2> QED BY <2>1, <2>2, <1>5, <1>7, <1>8 DEF AppendBegin
<1>11. Stored' = Stored
  BY <1>2 DEF Stored
<1>12. Remembered'
  BY <1>1, <1>2, <1>4, <1>6, <1>7, <1>8, <1>10, <1>11 DEF Remembered, Written
<1> QED BY <1>1, <1>3, <1>12 DEF Intact

LEMMA WriteLineIntact ==
  ASSUME StoreInv, Tolerated, WriteLine
  PROVE  Intact' /\ Stored' = Stored \cup {current}
<1>1. /\ pc = "line" /\ pc' = "newline" /\ status = "up" /\ current \notin seen /\ current \in RecordKeys
      /\ Len(segments) \in {Len(segFiles), Len(segFiles) + 1} /\ Len(segments) # 0
  <2>1. segments # <<>> /\ pc = "line" /\ status = "up"
    BY StoreFacts DEF WriteLine, InCall
  <2>2. Len(segments) # 0
    BY <2>1, StoreFacts, TypeFacts, EmptySeq
  <2>3. current \in RecordKeys
    BY <2>1, StoreFacts, ModeFacts DEF InCall
  <2> QED BY <2>1, <2>2, <2>3, StoreFacts DEF WriteLine, InCall
<1>2. PICK k \in RecordKeys : k = current
  BY <1>1
<1>3. PICK S \in Seq(File) : S = segFiles
  BY StoreFacts
<1>4. PICK l \in Nat : l = Len(S) /\ DOMAIN S = 1 .. l
  BY <1>3, StoreFacts
<1>5. PICK n \in Nat : n = Len(segments) /\ n # 0 /\ n \in {l, l + 1} /\ n \in 1 .. n
  BY <1>1, <1>3, <1>4, StoreFacts, TypeFacts
<1>6. PICK L \in File : L = LastFile(S, n) /\ (l < n => L = <<>>) /\ (~(l < n) => L = S[n] /\ n = l)
  BY <1>3, <1>4, <1>5, EmptyFile, StoreFacts DEF LastFile
<1>7. Entry(k) \in Token /\ <<Entry(k)>> \in File
  BY Tokens, TokenFiles
<1>8. PICK R : R = segFiles'
  OBVIOUS
<1>9. /\ Len(R) = n /\ DOMAIN R = 1 .. n /\ R[n] = Append(L, Entry(k)) /\ R \in Seq(File)
      /\ segSynced'[n] = (IF l < n THEN 0 ELSE segSynced[n])
      /\ \A i \in 1 .. n : i # n => i \in 1 .. l /\ R[i] = S[i] /\ segSynced'[i] = segSynced[i]
  <2>1. ToSegment(<<Entry(k)>>)
    BY <1>2 DEF WriteLine
  <2>2. /\ SegsOK(segFiles', segSynced') /\ Len(segFiles') = n
        /\ segFiles'[n] = LastFile(segFiles, n) \o <<Entry(k)>>
        /\ segSynced'[n] = IF Len(segFiles) < n THEN 0 ELSE segSynced[n]
        /\ \A i \in 1 .. n : i # n => i \in DOMAIN segFiles
                                      /\ segFiles'[i] = segFiles[i] /\ segSynced'[i] = segSynced[i]
    BY <2>1, <1>1, <1>5, <1>7, StoreFacts, ToSegmentFacts
  <2>3. L \o <<Entry(k)>> = Append(L, Entry(k))
    BY <1>7, OneToken
  <2>4. R \in Seq(File) /\ DOMAIN R = 1 .. n
    BY <2>2, <1>8, SegsFacts
  <2> QED BY <2>2, <2>3, <2>4, <1>3, <1>4, <1>6, <1>8
<1>10. Clean(L) /\ Remembered /\ Intact
  <2>1. ~(l < n) => Clean(S[n])
    BY <1>1, <1>3, <1>4, <1>5, <1>6, WholeUp
  <2> QED BY <2>1, <1>1, <1>6, EmptyFile, WholeUp
<1>11. segments[n] = SegmentInfo(L)
  <2>1. CASE l < n
    BY <2>1, <1>3, <1>4, <1>5, <1>6, <1>10, EmptyFile DEF Remembered
  <2>2. CASE ~(l < n)
    BY <2>2, <1>1, <1>3, <1>4, <1>5, <1>6, <1>10 DEF Remembered, Written
  <2> QED BY <2>1, <2>2
<1>12. PICK g : g = R[n]
  OBVIOUS
<1>13. /\ g \in File /\ Len(g) = Len(L) + 1 /\ Good(g) /\ g[Len(g)] = Entry(k)
       /\ RecordLines(g) = RecordLines(L) \cup {Len(L) + 1} /\ Len(L) + 1 \notin RecordLines(L)
       /\ \A i \in RecordLines(L) : g[i] = L[i]
  <2>1. g = Append(L, Entry(k)) /\ Clean(L)
    BY <1>9, <1>10, <1>12, <1>5
  <2> QED BY <2>1, EntryAppended, ZenonT(60)
<1>14. PICK a \in Nat : a = Len(L) + 1
  BY FileFacts
<1>15. \A i \in 1 .. l : KeySet(S[i]) \subseteq seen
  <2>1. Stored \subseteq seen
    BY <1>1, <1>10 DEF Remembered, Written
  <2>2. Stored = Held(S)
    BY <1>3, StoredIs
  <2> QED BY <2>1, <2>2, <1>4, HeldFacts
<1>16. KeySet(L) \subseteq seen
  BY <1>5, <1>6, <1>15, EmptyFile
<1>17. /\ KeySet(g) = KeySet(L) \cup {k} /\ Cardinality(RecordLines(L)) \in Nat
       /\ Cardinality(RecordLines(g)) = Cardinality(RecordLines(L)) + 1
       /\ InfoBefore(g, k) = SegmentInfo(L)
  <2>1. k \notin KeySet(L) /\ g \in File /\ Adds(g, L, a, k)
    BY <1>1, <1>2, <1>13, <1>16, <1>14 DEF Adds
  <2>2. L \in File /\ k \in RecordKeys
    OBVIOUS
  <2> QED BY <2>1, <2>2, OneMore
<1>18. Whole'
  <2>1. \A i \in 1 .. n : i # n => Clean(R[i])
    BY <1>1, <1>3, <1>4, <1>9, WholeUp
  <2>2. Clean(idxFile') /\ status' = "up"
    BY <1>1, WholeUp DEF WriteLine
  <2> QED BY <2>1, <2>2, <1>1, <1>8, <1>9, <1>12, <1>13 DEF Whole
<1>19. Filled'
  <2>1. Cardinality(RecordLines(g)) <= mode.max
    <3>1. segments[n].records < mode.max /\ mode.max \in Nat
      BY <1>1, <1>5, <1>10, StoreFacts, ModeFacts DEF Remembered
    <3>2. segments[n].records = Cardinality(RecordLines(L))
      BY <1>11 DEF SegmentInfo
    <3> QED BY <3>1, <3>2, <1>17
  <2>2. \A i \in 1 .. l : Cardinality(RecordLines(S[i])) <= mode.max
    BY <1>3, <1>4, <1>10 DEF Intact, Filled
  <2>3. mode' = mode
    BY DEF WriteLine
  <2> QED BY <2>1, <2>2, <2>3, <1>8, <1>9, <1>12 DEF Filled
<1>20. Synced'
  <2>1. SUFFICES ASSUME "power" \in mode.faults
                 PROVE  \A i \in 1 .. n : segSynced'[i] + (IF i = n THEN 1 ELSE 0) = Len(R[i])
    BY <1>1, <1>8, <1>9 DEF Synced, Unsynced, WriteLine
  <2>2. \A i \in 1 .. l : segSynced[i] + 0 = Len(S[i]) /\ segSynced[i] \in Nat
    BY <2>1, <1>1, <1>3, <1>4, <1>10, StoreFacts DEF Intact, Synced, Unsynced
  <2>3. segSynced'[n] = Len(L) /\ Len(L) \in Nat
    <3>1. Len(L) \in Nat
      BY FileFacts
    <3> QED BY <3>1, <2>2, <1>4, <1>5, <1>6, <1>9, EmptyFile
  <2>4. ASSUME NEW i \in 1 .. n, i # n PROVE segSynced'[i] + 0 = Len(R[i])
    BY <2>2, <2>4, <1>9
  <2> QED BY <2>3, <2>4, <1>12, <1>13
<1>21. Unique(segFiles')
  <2>1. Unique(S)
    BY <1>3, <1>10 DEF Intact
  <2>2. ASSUME NEW i \in 1 .. l, NEW b \in RecordLines(S[i]) PROVE S[i][b] # Entry(k)
    <3>1. S[i][b][2] \in KeySet(S[i])
      BY DEF KeySet
    <3> QED BY <3>1, <1>1, <1>2, <1>15, Tokens
  <2>3. ASSUME NEW i \in 1 .. n, NEW b \in RecordLines(R[i])
        PROVE  \/ i = n /\ b = Len(L) + 1 /\ R[i][b] = Entry(k)
               \/ i \in 1 .. l /\ b \in RecordLines(S[i]) /\ R[i][b] = S[i][b] /\ S[i][b] # Entry(k)
    <3>1. CASE i # n
      BY <3>1, <2>2, <1>9
    <3>2. CASE i = n /\ b = Len(L) + 1
      BY <3>2, <1>12, <1>13
    <3>3. CASE i = n /\ b # Len(L) + 1
      <4>1. b \in RecordLines(L)
        BY <3>3, <1>12, <1>13
      <4>2. L = S[n] /\ n \in 1 .. l
        BY <4>1, <1>5, <1>6, EmptyFile
      <4> QED BY <4>1, <4>2, <3>3, <2>2, <1>12, <1>13
    <3> QED BY <3>1, <3>2, <3>3
  <2>4. Unique(R)
    <3>1. OneNew(R, S, n, a, k)
      BY <2>3, <1>4, <1>9, <1>14 DEF OneNew
    <3> QED BY <2>1, <3>1, UniqueMore
  <2> QED BY <2>4, <1>8
<1>22. Remembered'
  <2>1. UNCHANGED <<seen, segments, current, idxFile, mode>>
    BY DEF WriteLine
  <2>2. KeySet(idxFile) = seen /\ \A i \in 1 .. l : i # n => segments[i] = SegmentInfo(S[i])
    BY <1>1, <1>3, <1>4, <1>10 DEF Remembered, Written
  <2>3. \A i \in 1 .. n : i # n => segments[i] = SegmentInfo(R[i])
    BY <2>2, <1>9
  <2>4. segments[n] = InfoBefore(R[n], current)
    BY <1>2, <1>11, <1>12, <1>17
  <2>5. Stored' \subseteq seen \cup {current}
    <3>1. ASSUME NEW i \in 1 .. n PROVE KeySet(R[i]) \subseteq seen \cup {k}
      BY <1>9, <1>12, <1>15, <1>16, <1>17
    <3>2. Stored' = Held(R)
      BY <1>8, <1>9, StoredNext
    <3> QED BY <3>1, <3>2, <1>2, <1>9 DEF Held
  <2>6. segments[n].records < mode.max
    BY <1>1, <1>5, <1>10 DEF Remembered
  <2>7. current \in KeySet(R[n])
    BY <1>2, <1>12, <1>17
  <2>8. Len(R[n]) # 0 /\ R[n][Len(R[n])] = Entry(current)
    <3>1. Len(L) \in Nat
      BY FileFacts
    <3> QED BY <3>1, <1>2, <1>12, <1>13
  <2>9. Written'
    BY <1>1 DEF Written
  <2> QED BY <2>1, <2>2, <2>3, <2>4, <2>5, <2>6, <2>7, <2>8, <2>9, <1>1, <1>5, <1>8, <1>9 DEF Remembered
<1>23. Stored' = Stored \cup {current}
  <2>1. Stored = Held(S) /\ Stored' = Held(R)
    BY <1>3, <1>8, <1>9, StoredIs, StoredNext
  <2>2. ASSUME NEW j \in Held(R) PROVE j \in Held(S) \cup {k}
    <3>1. PICK i \in 1 .. n : j \in KeySet(R[i])
      BY <1>9 DEF Held
    <3>2. CASE i # n
      BY <3>1, <3>2, <1>4, <1>9, HeldFacts
    <3>3. CASE i = n /\ j # k
      <4>1. j \in KeySet(L)
        BY <3>1, <3>3, <1>12, <1>17
      <4>2. L = S[n] /\ n \in 1 .. l
        BY <4>1, <1>5, <1>6, EmptyFile
      <4> QED BY <4>1, <4>2, <1>4, HeldFacts
    <3> QED BY <3>2, <3>3
  <2>3. ASSUME NEW j \in Held(S) \cup {k} PROVE j \in Held(R)
    <3>1. CASE j = k
      BY <3>1, <1>5, <1>9, <1>12, <1>17, HeldFacts
    <3>2. CASE j \in Held(S)
      <4>1. PICK i \in 1 .. l : j \in KeySet(S[i])
        BY <3>2, <1>4 DEF Held
      <4>2. i \in 1 .. n /\ (i = n => L = S[i])
        BY <1>5, <1>6
      <4>3. j \in KeySet(R[i])
        BY <4>1, <4>2, <1>9, <1>12, <1>17
      <4> QED BY <4>2, <4>3, <1>9, HeldFacts
    <3> QED BY <3>1, <3>2
  <2> QED BY <2>1, <2>2, <2>3, <1>2
<1> QED BY <1>1, <1>23, <1>18, <1>19, <1>20, <1>21, <1>22 DEF Intact, WriteLine

LEMMA HeldSame ==
  ASSUME NEW S \in Seq(File), NEW R \in Seq(File), Len(S) = Len(R),
         \A i \in 1 .. Len(S) : KeySet(R[i]) = KeySet(S[i])
  PROVE  Held(R) = Held(S)
<1>1. DOMAIN S = 1 .. Len(S) /\ DOMAIN R = 1 .. Len(S)
  BY LenProperties
<1> QED BY <1>1 DEF Held

\* A call that has written its record.
LEMMA WrittenFacts ==
  ASSUME StoreInv, Tolerated, pc \notin {"idle", "line"}
  PROVE  /\ status = "up" /\ Written /\ Intact /\ Remembered /\ current \in RecordKeys /\ current \notin seen
         /\ Len(segments) = Len(segFiles) /\ Len(segFiles) \in Nat /\ Len(segFiles) # 0
         /\ Len(segFiles) \in 1 .. Len(segFiles) /\ segFiles[Len(segFiles)] \in File
<1>1. status = "up" /\ current \in mode.keys /\ current \notin seen /\ Len(segments) = Len(segFiles)
      /\ segments # <<>>
  BY StoreFacts DEF InCall
<1>2. Len(segments) # 0
  BY <1>1, StoreFacts, TypeFacts, EmptySeq
<1>3. Len(segFiles) \in 1 .. Len(segFiles)
  BY <1>1, <1>2, StoreFacts
<1> QED BY <1>1, <1>2, <1>3, StoreFacts, ModeFacts, WholeUp DEF Written

LEMMA WriteNewlineIntact ==
  ASSUME StoreInv, Tolerated, WriteNewline
  PROVE  Intact' /\ Stored' = Stored
<1>1. /\ pc = "newline" /\ pc' \in {"sync", "index"} /\ (mode.sync => pc' = "sync") /\ status' = "up"
      /\ UNCHANGED <<mode, idxFile, idxSynced, seen, segments, current>>
  BY WrittenFacts DEF WriteNewline
<1>2. PICK k \in RecordKeys : k = current
  BY <1>1, WrittenFacts
<1>3. PICK S \in Seq(File) : S = segFiles
  BY StoreFacts
<1>4. PICK n \in Nat : n = Len(S) /\ n # 0 /\ n \in 1 .. n /\ DOMAIN S = 1 .. n
  BY <1>1, <1>3, WrittenFacts, StoreFacts
<1>5. PICK L \in File : L = S[n]
  BY <1>3, <1>4, StoreFacts
<1>6. /\ Len(segments) = n /\ Written /\ Intact /\ Remembered /\ Good(L)
      /\ Len(L) # 0 /\ L[Len(L)] = Entry(k)
  BY <1>1, <1>2, <1>3, <1>4, <1>5, WrittenFacts, WholeUp DEF Remembered
<1>7. Newline \in Token /\ <<Newline>> \in File
  BY Tokens, TokenFiles
<1>8. PICK R : R = segFiles'
  OBVIOUS
<1>9. /\ Len(R) = n /\ DOMAIN R = 1 .. n /\ R[n] = Append(L, Newline) /\ R \in Seq(File)
      /\ segSynced'[n] = segSynced[n]
      /\ \A i \in 1 .. n : i # n => R[i] = S[i] /\ segSynced'[i] = segSynced[i]
  <2>1. ToSegment(<<Newline>>)
    BY DEF WriteNewline
  <2>2. n = Len(segments) /\ n # 0 /\ n \in {Len(segFiles), Len(segFiles) + 1} /\ ~(Len(segFiles) < n)
        /\ SegsOK(segFiles, segSynced)
    BY <1>3, <1>4, <1>6, StoreFacts
  <2>3. /\ SegsOK(segFiles', segSynced') /\ Len(segFiles') = n
        /\ segFiles'[n] = LastFile(segFiles, n) \o <<Newline>>
        /\ segSynced'[n] = IF Len(segFiles) < n THEN 0 ELSE segSynced[n]
        /\ \A i \in 1 .. n : i # n => i \in DOMAIN segFiles
                                      /\ segFiles'[i] = segFiles[i] /\ segSynced'[i] = segSynced[i]
    BY <2>1, <2>2, <1>7, ToSegmentFacts
  <2>4. LastFile(segFiles, n) = L
    BY <2>2, <1>3, <1>5 DEF LastFile
  <2>5. L \o <<Newline>> = Append(L, Newline)
    BY <1>7, OneToken
  <2>6. R \in Seq(File) /\ DOMAIN R = 1 .. n
    BY <2>3, <1>8, SegsFacts
  <2> QED BY <2>2, <2>3, <2>4, <2>5, <2>6, <1>3, <1>8
<1>10. PICK g : g = R[n]
  OBVIOUS
<1>11. /\ g \in File /\ Len(g) = Len(L) + 1 /\ Clean(g) /\ RecordLines(g) = RecordLines(L)
       /\ \A i \in RecordLines(L) : g[i] = L[i]
  <2>1. g = Append(L, Newline) /\ Good(L) /\ Len(L) # 0 /\ L[Len(L)] = Entry(k) /\ L \in File /\ k \in RecordKeys
    BY <1>6, <1>9, <1>10
  <2> QED BY <2>1, NewlineAppended
<1>12. Fewer(g, L) /\ KeySet(g) = KeySet(L) /\ InfoBefore(g, k) = InfoBefore(L, k)
  <2>1. Fewer(g, L) /\ KeySet(g) = KeySet(L)
    BY <1>11, FewerKeys
  <2> QED BY <2>1, <1>11 DEF InfoBefore
<1>13. /\ \A i \in 1 .. n : KeySet(R[i]) = KeySet(S[i])
       /\ \A i \in 1 .. n : RecordLines(R[i]) = RecordLines(S[i])
       /\ \A i \in 1 .. n : Fewer(R[i], S[i])
  <2>1. \A i \in 1 .. n : i # n => Fewer(R[i], S[i])
    BY <1>9 DEF Fewer
  <2> QED BY <2>1, <1>5, <1>9, <1>10, <1>11, <1>12
<1>14. Whole'
  <2>1. \A i \in 1 .. n : i # n => Clean(R[i])
    BY <1>1, <1>3, <1>4, <1>9, WrittenFacts, WholeUp
  <2>2. Clean(idxFile')
    BY <1>1, WrittenFacts, WholeUp
  <2> QED BY <2>1, <2>2, <1>8, <1>9, <1>10, <1>11 DEF Whole
<1>15. Filled'
  <2>1. \A i \in 1 .. n : Cardinality(RecordLines(S[i])) <= mode.max
    BY <1>3, <1>4, <1>6 DEF Intact, Filled
  <2> QED BY <2>1, <1>1, <1>8, <1>9, <1>13 DEF Filled
<1>16. Synced'
  <2>1. SUFFICES ASSUME "power" \in mode.faults
                 PROVE  \A i \in 1 .. n : segSynced'[i] + (IF i = n THEN 2 ELSE 0) = Len(R[i])
    <3>1. "power" \in mode.faults => pc' = "sync"
      BY <1>1, ToleratedFacts
    <3> QED BY <3>1, <1>1, <1>8, <1>9 DEF Synced, Unsynced
  <2>2. \A i \in 1 .. n : segSynced[i] + (IF i = n THEN 1 ELSE 0) = Len(S[i]) /\ segSynced[i] \in Nat
    BY <2>1, <1>1, <1>3, <1>4, <1>6, StoreFacts DEF Intact, Synced, Unsynced
  <2>3. segSynced'[n] + 2 = Len(g)
    BY <2>2, <1>4, <1>5, <1>9, <1>11
  <2> QED BY <2>2, <2>3, <1>9, <1>10
<1>17. Unique(segFiles')
  <2>1. Unique(S)
    BY <1>3, <1>6 DEF Intact
  <2>2. \A i \in DOMAIN R : (i \in DOMAIN S /\ Fewer(R[i], S[i])) \/ RecordLines(R[i]) = {}
    BY <1>4, <1>9, <1>13
  <2> QED BY <2>1, <2>2, <1>8, UniqueFewer
<1>18. Stored' = Stored
  <2>1. Stored' = Held(R) /\ Stored = Held(S)
    BY <1>3, <1>8, <1>9, StoredIs, StoredNext
  <2> QED BY <2>1, <1>4, <1>9, <1>13, HeldSame
<1>19. Remembered'
  <2>1. Written'
    BY <1>1 DEF Written
  <2>2. Stored' = Stored
    BY <1>18
  <2>3. \A i \in 1 .. n : segments[i] = IF i = n THEN InfoBefore(R[i], current) ELSE SegmentInfo(R[i])
    BY <1>2, <1>3, <1>4, <1>5, <1>6, <1>9, <1>10, <1>12 DEF Remembered
  <2>4. Len(R[n]) > 1 /\ R[n][Len(R[n]) - 1] = Entry(current)
    <3>1. Len(L) \in Nat
      BY FileFacts
    <3>2. Len(L) \in 1 .. Len(L) /\ g = Append(L, Newline) /\ L \in File /\ Newline \in Token
      BY <3>1, <1>6, <1>7, <1>9, <1>10
    <3>3. g[Len(L)] = L[Len(L)]
      BY <3>2, AppendProperties
    <3> QED BY <3>1, <3>3, <1>2, <1>6, <1>10, <1>11
  <2>5. current \in KeySet(R[n])
    BY <1>3, <1>4, <1>6, <1>13 DEF Remembered
  <2>6. segments[n].records < mode.max /\ KeySet(idxFile) = seen /\ Stored \subseteq seen \cup {current}
    BY <1>1, <1>6 DEF Remembered
  <2> QED BY <2>1, <2>2, <2>3, <2>4, <2>5, <2>6, <1>1, <1>6, <1>8, <1>9 DEF Remembered
<1> QED BY <1>1, <1>14, <1>15, <1>16, <1>17, <1>19, <1>18 DEF Intact

LEMMA SyncSegmentIntact ==
  ASSUME StoreInv, Tolerated, SyncSegment
  PROVE  Intact'
<1>1. /\ pc = "sync" /\ pc' = "index" /\ status' = "up"
      /\ UNCHANGED <<mode, segFiles, idxFile, seen, segments, current>>
  BY WrittenFacts DEF SyncSegment
<1>2. Whole' /\ Written /\ Written' /\ Intact /\ Remembered
  BY <1>1, WrittenFacts, WholeSame DEF Written
<1>3. Filled' /\ Unique(segFiles')
  BY <1>1, <1>2 DEF Intact, Filled
<1>4. PICK n \in Nat : n = Len(segFiles) /\ n \in 1 .. n /\ DOMAIN segFiles = 1 .. n
  BY <1>1, WrittenFacts, StoreFacts
<1>5. PICK Y : Y = segSynced
  OBVIOUS
<1>6. DOMAIN Y = 1 .. n /\ Len(Y) = n
  BY <1>4, <1>5, StoreFacts, SegsFacts
<1>7. /\ segSynced'[n] = Len(segFiles[n])
      /\ \A i \in 1 .. n : i # n => segSynced'[i] = Y[i]
  BY <1>4, <1>5, <1>6 DEF SyncSegment
<1>8. Synced'
  <2>1. SUFFICES ASSUME "power" \in mode.faults
                 PROVE  \A i \in 1 .. n : segSynced'[i] + 0 = Len(segFiles[i])
    BY <1>1, <1>4 DEF Synced, Unsynced
  <2>2. \A i \in 1 .. n : i # n => Y[i] + 0 = Len(segFiles[i])
    BY <2>1, <1>2, <1>4, <1>5 DEF Intact, Synced
  <2>3. Len(segFiles[n]) \in Nat
    BY <1>4, StoreFacts
  <2> QED BY <2>2, <2>3, <1>7
<1>9. Stored' = Stored
  BY <1>1 DEF Stored
<1>10. Remembered'
  BY <1>1, <1>2, <1>9, WrittenFacts DEF Remembered
<1> QED BY <1>1, <1>2, <1>3, <1>8, <1>10 DEF Intact

LEMMA TwoTokens ==
  ASSUME NEW f \in File, NEW s \in Token, NEW t \in Token
  PROVE  f \o <<s, t>> = Append(Append(f, s), t)
<1>1. f \in Seq(Token)
  BY DEF File
<1> QED BY <1>1

\* Steps that write only the index.
LEMMA IndexWritten ==
  ASSUME StoreInv, Tolerated, pc \in {"index", "indexsync"}, Clean(idxFile'), pc' \in {"indexsync", "commit"},
         KeySet(idxFile') = seen \cup {current},
         UNCHANGED <<mode, segFiles, segSynced, status, seen, segments, current>>
  PROVE  Intact'
<1>1. /\ status' = "up" /\ status = "up" /\ Written /\ Written' /\ Intact /\ Remembered
      /\ pc \notin {"idle", "newline", "sync"}
  BY WrittenFacts DEF Written
<1>2. \A i \in 1 .. Len(segFiles) : Clean(segFiles[i])
  BY <1>1, WholeUp
<1>3. Whole'
  BY <1>2, StoreFacts DEF Whole
<1>4. Filled' /\ Unique(segFiles') /\ Synced'
  BY <1>1 DEF Intact, Filled, Synced, Unsynced
<1>5. Stored' = Stored
  BY DEF Stored
<1>6. Remembered'
  BY <1>1, <1>5, WrittenFacts DEF Remembered
<1> QED BY <1>1, <1>3, <1>4, <1>6 DEF Intact

LEMMA WriteIndexIntact ==
  ASSUME StoreInv, Tolerated, WriteIndex
  PROVE  Intact' /\ misread' = misread
<1>1. /\ pc = "index" /\ pc' \in {"indexsync", "commit"}
      /\ UNCHANGED <<mode, segFiles, segSynced, status, seen, segments, current>>
  BY DEF WriteIndex
<1>2. PICK k \in RecordKeys : k = current
  BY <1>1, WrittenFacts
<1>3. PICK f \in File : f = idxFile
  BY StoreFacts
<1>4. Clean(f) /\ KeySet(f) = seen /\ Entry(k) \in Token /\ Newline \in Token
  BY <1>1, <1>3, WrittenFacts, WholeUp, Tokens DEF Remembered
<1>5. PICK h : h = Append(f, Entry(k))
  OBVIOUS
<1>6. PICK a \in Nat : a = Len(f) + 1
  BY FileFacts
<1>7. /\ h \in File /\ Len(h) = a /\ Good(h) /\ h[Len(h)] = Entry(k) /\ Adds(h, f, a, k)
  <2>1. h = Append(f, Entry(k)) /\ Clean(f) /\ f \in File /\ k \in RecordKeys
    BY <1>4, <1>5
  <2>2. /\ h \in File /\ Len(h) = Len(f) + 1 /\ Good(h) /\ h[Len(h)] = Entry(k)
        /\ RecordLines(h) = RecordLines(f) \cup {Len(f) + 1} /\ Len(f) + 1 \notin RecordLines(f)
        /\ \A i \in RecordLines(f) : h[i] = f[i]
    BY <2>1, EntryAppended, ZenonT(60)
  <2> QED BY <2>2, <1>6 DEF Adds
<1>8. KeySet(h) = seen \cup {k}
  BY <1>7, <1>4, OneMore
<1>9. PICK g : g = Append(h, Newline)
  OBVIOUS
<1>10. Clean(g) /\ RecordLines(g) = RecordLines(h) /\ \A i \in RecordLines(h) : g[i] = h[i]
  <2>1. h \in File /\ Good(h) /\ Len(h) # 0 /\ h[Len(h)] = Entry(k)
    <3>1. Len(f) \in Nat
      BY FileFacts
    <3> QED BY <3>1, <1>6, <1>7
  <2> QED BY <2>1, <1>9, NewlineAppended
<1>11. KeySet(g) = seen \cup {k}
  BY <1>8, <1>10, FewerKeys
<1>12. ~EndsInDigits(f)
  BY <1>4, Tokens, EmptySeq DEF Clean, Ended, EndsInDigits
<1>13. idxFile' = g /\ misread' = misread
  <2>1. idxFile' = f \o <<Entry(k), Newline>> /\ misread' = misread
    BY <1>2, <1>3, <1>12 DEF WriteIndex, LineRead
  <2> QED BY <2>1, <1>4, <1>5, <1>9, TwoTokens
<1> QED BY <1>1, <1>2, <1>10, <1>11, <1>13, IndexWritten

LEMMA SyncIndexIntact ==
  ASSUME StoreInv, Tolerated, SyncIndex
  PROVE  Intact'
<1>1. /\ pc = "indexsync" /\ pc' = "commit" /\ idxFile' = idxFile
      /\ UNCHANGED <<mode, segFiles, segSynced, status, seen, segments, current>>
  BY DEF SyncIndex
<1>2. KeySet(idxFile') = seen \cup {current} /\ Clean(idxFile')
  BY <1>1, WrittenFacts, WholeUp DEF Remembered
<1> QED BY <1>1, <1>2, IndexWritten

LEMMA CommitIntact ==
  ASSUME StoreInv, Tolerated, Commit
  PROVE  Intact'
<1>1. /\ pc = "commit" /\ pc' = "idle" /\ status = "up" /\ status' = "up" /\ UNCHANGED <<mode, disk>>
      /\ seen' = seen \cup {current}
  BY WrittenFacts DEF Commit
<1>2. UNCHANGED <<segFiles, idxFile>>
  BY <1>1 DEF disk
<1>3. Whole' /\ Filled' /\ Synced' /\ Unique(segFiles')
  BY <1>1, FilesSame
<1>4. PICK k \in RecordKeys : k = current
  BY <1>1, WrittenFacts
<1>5. PICK n \in Nat : n = Len(segFiles) /\ n \in 1 .. n /\ DOMAIN segFiles = 1 .. n /\ Len(segments) = n
  BY <1>1, WrittenFacts, StoreFacts
<1>6. PICK g \in File : g = segFiles[n]
  BY <1>5, StoreFacts
<1>7. PICK G \in Seq(Info) : G = segments /\ Len(G) = n /\ DOMAIN G = 1 .. n
  BY <1>5, StoreFacts, TypeFacts, LenProperties
<1>8. /\ \A i \in 1 .. n : i # n => G[i] = SegmentInfo(segFiles[i])
      /\ G[n] = InfoBefore(g, k) /\ k \in KeySet(g)
      /\ KeySet(idxFile) = seen \cup {current} /\ Stored \subseteq seen \cup {current}
  BY <1>1, <1>4, <1>5, <1>6, <1>7, WrittenFacts DEF Remembered
<1>9. segments'[n] = SegmentInfo(g)
  <2>1. PICK b : b = G[n]
    OBVIOUS
  <2>2. segments'[n] = [records |-> b.records + 1,
                        newest |-> IF b.newest >= Measured[k] THEN b.newest ELSE Measured[k]]
    BY <2>1, <1>4, <1>5, <1>7 DEF Commit
  <2>3. b = InfoBefore(g, k) /\ k \in KeySet(g) /\ g \in File
    BY <2>1, <1>8
  <2> QED BY <2>2, <2>3, InfoAfter
<1>10. Len(segments') = n /\ \A i \in 1 .. n : i # n => segments'[i] = G[i]
  BY <1>5, <1>7 DEF Commit
<1>11. Stored' = Stored /\ ~Written'
  BY <1>1, <1>2 DEF Stored, Written
<1>12. Remembered'
  BY <1>1, <1>2, <1>5, <1>6, <1>8, <1>9, <1>10, <1>11 DEF Remembered
<1> QED BY <1>1, <1>3, <1>12 DEF Intact

-----------------------------------------------------------------------------
(* So does retention.                                                      *)

LEMMA DownIntact ==
  ASSUME status' = "down", Whole', Filled', Synced', Unique(segFiles')
  PROVE  Intact'
BY DEF Intact

LEMMA StopIntact ==
  ASSUME StoreInv, Tolerated, Stop
  PROVE  Intact'
<1>1. status = "up" /\ pc = "idle" /\ pc' = "idle" /\ status' = "down" /\ UNCHANGED <<mode, disk>>
  BY DEF Stop, LoseMemory
<1>2. Whole' /\ Filled' /\ Synced' /\ Unique(segFiles')
  BY <1>1, FilesSame
<1> QED BY <1>1, <1>2, DownIntact

\* Retention leaves some of the files, as they are and in their order.
LEMMA SegmentsKept ==
  ASSUME StoreInv, Tolerated, status = "up", pc = "idle", pc' = "idle", NEW drop,
         segFiles' = Without(segFiles, drop), segSynced' = Without(segSynced, drop),
         UNCHANGED <<mode, idxFile>>
  PROVE  /\ Whole' /\ Filled' /\ Synced' /\ Unique(segFiles')
         /\ segments' = Without(segments, drop) /\ UNCHANGED <<status, seen>> => Remembered'
<1>1. PICK S \in Seq(File) : S = segFiles
  BY StoreFacts
<1>2. PICK n \in Nat : n = Len(S) /\ DOMAIN S = 1 .. n
  BY <1>1, StoreFacts
<1>3. PICK Y : Y = segSynced
  OBVIOUS
<1>4. Y \in Seq(Nat) /\ DOMAIN Y = 1 .. n /\ SegsOK(S, Y)
  BY <1>1, <1>2, <1>3, StoreFacts, SegsFacts
<1>5. Intact /\ Remembered
  BY WholeUp
<1>6. PICK G \in Seq(Info) : G = segments /\ DOMAIN G = 1 .. n
  BY <1>1, <1>2, <1>5, StoreFacts, TypeFacts, LenProperties DEF Remembered
<1>7. PICK K : K = (1 .. n) \ drop
  OBVIOUS
<1>8. PICK o : o = InOrder(K)
  OBVIOUS
<1>9. PICK c : c = Cardinality(K)
  OBVIOUS
<1>10. PICK R : R = Without(S, drop)
  OBVIOUS
<1>11. PICK Z : Z = Without(Y, drop)
  OBVIOUS
<1>12. PICK H : H = Without(G, drop)
  OBVIOUS
<1>13. R \in Seq(File) /\ c \in Nat /\ Len(R) = c /\ \A i \in 1 .. c : R[i] = S[o[i]] /\ o[i] \in 1 .. n
  <2>1. K = DOMAIN S \ drop
    BY <1>2, <1>7
  <2> QED BY <2>1, <1>2, <1>8, <1>9, <1>10, WithoutFacts
<1>14. \A i \in 1 .. c : Z[i] = Y[o[i]]
  <2>1. PICK T : T = Nat
    OBVIOUS
  <2>2. Y \in Seq(T) /\ K = DOMAIN Y \ drop
    BY <2>1, <1>4, <1>7
  <2> QED BY <2>2, <1>8, <1>9, <1>11, WithoutFacts
<1>15. Len(H) = c /\ \A i \in 1 .. c : H[i] = G[o[i]]
  <2>1. G \in Seq(Info) /\ K = DOMAIN G \ drop
    BY <1>6, <1>7
  <2> QED BY <2>1, <1>8, <1>9, <1>12, WithoutFacts
<1>16. segFiles' = R /\ segSynced' = Z /\ DOMAIN R = 1 .. c
  BY <1>1, <1>3, <1>10, <1>11, <1>13, LenProperties
<1>17. Whole'
  <2>1. \A i \in 1 .. n : Clean(S[i])
    BY <1>1, <1>2, WholeUp
  <2>2. \A i \in 1 .. c : Clean(R[i])
    BY <2>1, <1>13
  <2>3. Clean(idxFile')
    BY WholeUp
  <2> QED BY <2>2, <2>3, <1>16 DEF Whole
<1>18. Filled'
  <2>1. \A i \in 1 .. n : Cardinality(RecordLines(S[i])) <= mode.max
    BY <1>1, <1>2, <1>5 DEF Intact, Filled
  <2> QED BY <2>1, <1>13, <1>16 DEF Filled
<1>19. Synced'
  <2>1. SUFFICES ASSUME "power" \in mode.faults PROVE \A i \in 1 .. c : Z[i] + 0 = Len(R[i])
    BY <1>13, <1>16 DEF Synced, Unsynced
  <2>2. \A i \in 1 .. n : Y[i] + 0 = Len(S[i])
    BY <2>1, <1>1, <1>2, <1>3, <1>5 DEF Intact, Synced, Unsynced
  <2> QED BY <2>2, <1>13, <1>14
<1>20. Unique(segFiles')
  <2>1. Unique(S)
    BY <1>1, <1>5 DEF Intact
  <2> QED BY <2>1, <1>10, <1>16, UniqueWithout
<1>21. ASSUME segments' = Without(segments, drop), UNCHANGED <<status, seen>> PROVE Remembered'
  <2>1. \A i \in 1 .. n : G[i] = SegmentInfo(S[i])
    BY <1>1, <1>2, <1>5, <1>6 DEF Remembered, Written
  <2>2. \A i \in 1 .. c : H[i] = SegmentInfo(R[i])
    BY <2>1, <1>13, <1>15
  <2>3. segments' = H /\ ~Written'
    BY <1>6, <1>12, <1>21 DEF Written
  <2>4. KeySet(idxFile) = seen /\ Held(S) \subseteq seen
    BY <1>1, <1>5, StoredIs DEF Remembered, Written
  <2>5. Held(R) \subseteq seen
    BY <2>4, <1>2, <1>13, <1>16 DEF Held
  <2>6. Stored' = Held(R)
    BY <1>13, <1>16, StoredNext
  <2> QED BY <2>2, <2>3, <2>4, <2>5, <2>6, <1>13, <1>15, <1>16, <1>21 DEF Remembered
<1> QED BY <1>17, <1>18, <1>19, <1>20, <1>21

LEMMA RetentionIntact ==
  ASSUME StoreInv, Tolerated, NEW c, EnforceRetention(c)
  PROVE  Intact'
<1>1. PICK d : d = Expired(c)
  OBVIOUS
<1>2. /\ status = "up" /\ pc = "idle" /\ pc' = "idle" /\ status' = "up"
      /\ segFiles' = Without(segFiles, d) /\ segSynced' = Without(segSynced, d)
      /\ segments' = Without(segments, d) /\ UNCHANGED <<mode, idxFile, status, seen>>
  BY <1>1 DEF EnforceRetention, DropSegments
<1>3. Whole' /\ Filled' /\ Synced' /\ Unique(segFiles') /\ Remembered'
  BY <1>2, SegmentsKept
<1> QED BY <1>2, <1>3 DEF Intact

LEMMA RetentionStopsIntact ==
  ASSUME StoreInv, Tolerated, NEW c, NEW drop, RetentionStops(c, drop)
  PROVE  Intact'
<1>1. "ioerror" \notin mode.faults
  BY ToleratedFacts
<1>2. /\ status = "up" /\ pc = "idle" /\ pc' = "idle" /\ status' = "down"
      /\ segFiles' = Without(segFiles, drop) /\ segSynced' = Without(segSynced, drop)
      /\ UNCHANGED <<mode, idxFile>>
  BY <1>1 DEF RetentionStops, Fail, LoseMemory
<1>3. Whole' /\ Filled' /\ Synced' /\ Unique(segFiles')
  BY <1>2, SegmentsKept
<1> QED BY <1>2, <1>3, DownIntact

LEMMA WriteFailsIntact ==
  ASSUME Tolerated, WriteFails
  PROVE  Intact'
BY ToleratedFacts DEF WriteFails, Fail

LEMMA OpenCorruptIntact ==
  ASSUME StoreInv, Tolerated, OpenCorrupt
  PROVE  Intact'
BY AlwaysReadable DEF OpenCorrupt

-----------------------------------------------------------------------------
(* So does a crash.                                                        *)

\* The process is gone and only the index may have changed.
LEMMA IndexLeft ==
  ASSUME StoreInv, Tolerated, status = "up", pc # "newline", status' = "down", "power" \notin mode.faults,
         UNCHANGED <<mode, segFiles>>, Good(idxFile') \/ TornLast(idxFile')
  PROVE  Intact'
<1>1. \A i \in 1 .. Len(segFiles) : Clean(segFiles[i])
  BY WholeUp
<1>2. Whole'
  BY <1>1, StoreFacts DEF Whole
<1>3. Filled' /\ Unique(segFiles')
  BY StoreFacts DEF Intact, Filled
<1>4. Synced'
  BY DEF Synced
<1> QED BY <1>2, <1>3, <1>4, DownIntact

\* A record line was cut short.
LEMMA LineLeft ==
  ASSUME StoreInv, Tolerated, status = "up", pc = "line", status' = "down", "power" \notin mode.faults,
         UNCHANGED <<mode, idxFile>>, NEW t \in {<<>>, <<Torn>>}, ToSegment(t)
  PROVE  Intact' /\ Stored' = Stored
<1>1. Len(segments) \in {Len(segFiles), Len(segFiles) + 1} /\ Len(segments) # 0
  <2>1. segments # <<>>
    BY StoreFacts DEF InCall
  <2> QED BY <2>1, StoreFacts, TypeFacts, EmptySeq DEF InCall
<1>2. PICK S \in Seq(File) : S = segFiles
  BY StoreFacts
<1>3. PICK l \in Nat : l = Len(S) /\ DOMAIN S = 1 .. l
  BY <1>2, StoreFacts
<1>4. PICK n \in Nat : n = Len(segments) /\ n # 0 /\ n \in {l, l + 1} /\ n \in 1 .. n
  BY <1>1, <1>2, <1>3, StoreFacts, TypeFacts
<1>5. PICK L \in File : L = LastFile(S, n) /\ (l < n => L = <<>>) /\ (~(l < n) => L = S[n] /\ n = l)
  BY <1>2, <1>3, <1>4, EmptyFile, StoreFacts DEF LastFile
<1>6. Torn \in Token /\ t \in File /\ Intact
  BY Tokens, OneToken, EmptyFile, StoreFacts
<1>7. PICK R : R = segFiles'
  OBVIOUS
<1>8. /\ Len(R) = n /\ DOMAIN R = 1 .. n /\ R[n] = L \o t /\ R \in Seq(File)
      /\ \A i \in 1 .. n : i # n => i \in 1 .. l /\ R[i] = S[i]
  <2>1. n \in {Len(segFiles), Len(segFiles) + 1} /\ SegsOK(segFiles, segSynced)
    BY <1>2, <1>3, <1>4, StoreFacts
  <2>2. /\ SegsOK(segFiles', segSynced') /\ Len(segFiles') = n
        /\ segFiles'[n] = LastFile(segFiles, n) \o t
        /\ \A i \in 1 .. n : i # n => i \in DOMAIN segFiles /\ segFiles'[i] = segFiles[i]
    BY <2>1, <1>4, <1>6, ToSegmentFacts
  <2>3. R \in Seq(File) /\ DOMAIN R = 1 .. n
    BY <2>2, <1>7, SegsFacts
  <2> QED BY <2>2, <2>3, <1>2, <1>3, <1>5, <1>7
<1>9. \A i \in 1 .. l : Clean(S[i]) /\ Cardinality(RecordLines(S[i])) <= mode.max
  BY <1>2, <1>3, <1>6, WholeUp DEF Intact, Filled
<1>10. Clean(L) /\ Cardinality(RecordLines(L)) <= mode.max
  <2>1. CASE l < n
    <3>1. RecordLines(L) = {} /\ Clean(L)
      BY <2>1, <1>5, EmptyFile
    <3> QED BY <3>1, FS_EmptySet, StoreFacts, ModeFacts
  <2>2. CASE ~(l < n)
    BY <2>2, <1>3, <1>4, <1>5, <1>9
  <2> QED BY <2>1, <2>2
<1>11. PICK g : g = R[n]
  OBVIOUS
<1>12. (Clean(g) \/ TornLast(g)) /\ RecordLines(g) = RecordLines(L) /\ \A i \in RecordLines(L) : g[i] = L[i]
  <2>1. CASE t = <<>>
    <3>1. L \in Seq(Token)
      BY DEF File
    <3>2. g = L
      BY <3>1, <2>1, <1>8, <1>11
    <3> QED BY <3>2, <1>10
  <2>2. CASE t = <<Torn>>
    <3>1. g = Append(L, Torn) /\ L \in File /\ Clean(L)
      BY <2>2, <1>6, <1>8, <1>10, <1>11, OneToken
    <3> QED BY <3>1, TornAppended
  <2> QED BY <2>1, <2>2
<1>13. Whole'
  <2>1. \A i \in 1 .. n : i # n => Clean(R[i])
    BY <1>8, <1>9
  <2>2. Clean(idxFile')
    BY WholeUp
  <2> QED BY <2>1, <2>2, <1>7, <1>8, <1>11, <1>12 DEF Whole
<1>14. Filled'
  BY <1>7, <1>8, <1>9, <1>10, <1>11, <1>12 DEF Filled
<1>15. Unique(segFiles')
  <2>1. Unique(S)
    BY <1>2, <1>6 DEF Intact
  <2>2. (n \in 1 .. l /\ Fewer(R[n], S[n])) \/ RecordLines(R[n]) = {}
    <3>1. CASE l < n
      BY <3>1, <1>5, <1>11, <1>12, EmptyFile
    <3>2. CASE ~(l < n)
      BY <3>2, <1>4, <1>5, <1>11, <1>12 DEF Fewer
    <3> QED BY <3>1, <3>2
  <2>3. ASSUME NEW i \in DOMAIN R PROVE (i \in DOMAIN S /\ Fewer(R[i], S[i])) \/ RecordLines(R[i]) = {}
    <3>1. CASE i = n
      BY <3>1, <2>2, <1>3
    <3>2. CASE i # n
      BY <3>2, <1>3, <1>8 DEF Fewer
    <3> QED BY <3>1, <3>2
  <2> QED BY <2>1, <2>3, <1>7, UniqueFewer
<1>16. Synced'
  BY DEF Synced
<1>17. Stored' = Stored
  <2>1. Stored = Held(S) /\ Stored' = Held(R)
    BY <1>2, <1>7, <1>8, StoredIs, StoredNext
  <2>2. KeySet(g) = KeySet(L)
    BY <1>12, FewerKeys
  <2>3. ASSUME NEW j \in Held(R) PROVE j \in Held(S)
    <3>1. PICK i \in 1 .. n : j \in KeySet(R[i])
      BY <1>8 DEF Held
    <3>2. CASE i # n
      BY <3>1, <3>2, <1>3, <1>8, HeldFacts
    <3>3. CASE i = n
      <4>1. j \in KeySet(L)
        BY <2>2, <3>1, <3>3, <1>11
      <4>2. L = S[n] /\ n \in 1 .. l
        BY <4>1, <1>4, <1>5, EmptyFile
      <4> QED BY <4>1, <4>2, <1>3, HeldFacts
    <3> QED BY <3>2, <3>3
  <2>4. ASSUME NEW j \in Held(S) PROVE j \in Held(R)
    <3>1. PICK i \in 1 .. l : j \in KeySet(S[i])
      BY <1>3 DEF Held
    <3>2. i \in 1 .. n /\ (i = n => L = S[i])
      BY <1>4, <1>5
    <3>3. j \in KeySet(R[i])
      BY <2>2, <3>1, <3>2, <1>8, <1>11
    <3> QED BY <3>2, <3>3, <1>8, HeldFacts
  <2> QED BY <2>1, <2>3, <2>4
<1> QED BY <1>17, <1>13, <1>14, <1>15, <1>16, DownIntact

LEMMA CrashIntact ==
  ASSUME StoreInv, Tolerated, Crash
  PROVE  Intact' /\ Stored' = Stored /\ KeySet(idxFile) \subseteq KeySet(idxFile')
         /\ KeySet(idxFile') \subseteq KeySet(idxFile) \cup Stored
<1>1. /\ pc # "newline" /\ "crash" \in mode.faults /\ "power" \notin mode.faults
      /\ status = "up" /\ pc # "idle" /\ status' = "down" /\ mode' = mode
  <2>1. Fail(IF pc = "newline" THEN "linecut" ELSE "crash") /\ status = "up" /\ pc # "idle"
        /\ status' = "down" /\ mode' = mode
    BY DEF Crash, LoseMemory
  <2> QED BY <2>1, ToleratedFacts DEF Fail
<1>2. Clean(idxFile) /\ idxFile \in File /\ current \in RecordKeys
  BY <1>1, WholeUp, StoreFacts, ModeFacts DEF InCall
<1>3. CASE UNCHANGED <<segFiles, segSynced, idxFile, idxSynced>>
  BY <1>1, <1>2, <1>3, IndexLeft DEF Clean, Stored
<1>4. CASE pc = "line" /\ (\E t \in {<<>>, <<Torn>>} : ToSegment(t)) /\ UNCHANGED <<idxFile, idxSynced>>
  BY <1>1, <1>4, LineLeft
<1>5. CASE /\ pc = "index"
           /\ \E t \in {Torn, Entry(current)} : idxFile' = Append(idxFile, t)
           /\ UNCHANGED <<segFiles, segSynced, idxSynced>>
  <2>1. PICK g : g = idxFile'
    OBVIOUS
  <2>2. PICK f \in File : f = idxFile /\ Clean(f)
    BY <1>2
  <2>3. PICK k \in RecordKeys : k = current
    BY <1>2
  <2>4. g = Append(f, Torn) \/ g = Append(f, Entry(k))
    BY <2>1, <2>2, <2>3, <1>5
  <2>5. ASSUME g = Append(f, Torn) PROVE TornLast(g) /\ KeySet(g) = KeySet(f)
    <3>1. TornLast(g) /\ RecordLines(g) = RecordLines(f) /\ \A i \in RecordLines(f) : g[i] = f[i]
      BY <2>2, <2>5, TornAppended
    <3> QED BY <3>1, FewerKeys
  <2>6. ASSUME g = Append(f, Entry(k)) PROVE Good(g) /\ KeySet(g) = KeySet(f) \cup {k}
    <3>1. PICK a \in Nat : a = Len(f) + 1
      BY FileFacts
    <3>2. /\ g \in File /\ Good(g) /\ Len(g) = Len(f) + 1 /\ g[Len(g)] = Entry(k)
          /\ RecordLines(g) = RecordLines(f) \cup {Len(f) + 1} /\ Len(f) + 1 \notin RecordLines(f)
          /\ \A i \in RecordLines(f) : g[i] = f[i]
      <4>1. f \in File /\ Clean(f) /\ k \in RecordKeys /\ g = Append(f, Entry(k))
        BY <2>2, <2>6
      <4> QED BY <4>1, EntryAppended, ZenonT(60)
    <3>3. g \in File /\ f \in File /\ k \in RecordKeys /\ Adds(g, f, a, k)
      BY <3>1, <3>2 DEF Adds
    <3> QED BY <3>2, <3>3, OneMore
  <2>7. k \in Stored
    BY <2>3, <1>5, WrittenFacts DEF Remembered, Stored
  <2>8. Stored' = Stored
    BY <1>5 DEF Stored
  <2> QED BY <2>1, <2>2, <2>4, <2>5, <2>6, <2>7, <2>8, <1>1, <1>5, IndexLeft
<1> QED BY <1>3, <1>4, <1>5 DEF Crash

-----------------------------------------------------------------------------
(* So do open and the loss of power.                                       *)

LEMMA ClosedFacts ==
  ASSUME StoreInv, Tolerated, status = "down"
  PROVE  /\ pc = "idle" /\ status # "up" /\ Intact
         /\ \A i \in 1 .. Len(segFiles) : Cardinality(RecordLines(segFiles[i])) <= mode.max
         /\ "power" \in mode.faults => \A i \in 1 .. Len(segFiles) : segSynced[i] = Len(segFiles[i])
<1>1. pc = "idle" /\ Intact
  BY StoreFacts DEF InCall
<1>2. "power" \in mode.faults => \A i \in 1 .. Len(segFiles) : segSynced[i] + 0 = Len(segFiles[i])
  BY <1>1, StoreFacts DEF Intact, Synced, Unsynced
<1> QED BY <1>1, <1>2, StoreFacts DEF Intact, Filled

\* The segments after open has repaired them.
LEMMA SegmentsOpened ==
  ASSUME StoreInv, Tolerated, status = "down", NEW R, R = RepairedSegs, segFiles' = R, mode' = mode,
         segSynced' = [i \in DOMAIN segFiles |-> LeastOf(segSynced[i], Len(R[i]))],
         pc' = "idle", Clean(idxFile') \/ (status' # "up" /\ (Good(idxFile') \/ TornLast(idxFile')))
  PROVE  Whole' /\ Filled' /\ Synced' /\ Unique(segFiles')
<1>1. PICK n \in Nat : n = Len(segFiles) /\ DOMAIN segFiles = 1 .. n
  BY StoreFacts
<1>2. /\ Len(R) = n /\ DOMAIN R = 1 .. n /\ Unique(R)
      /\ \A i \in 1 .. n : /\ Clean(R[i]) /\ Len(R[i]) <= Len(segFiles[i]) /\ R[i] \in File
                           /\ RecordLines(R[i]) = RecordLines(segFiles[i])
  BY <1>1, SegmentsReadBack
<1>3. Whole'
  BY <1>2 DEF Whole
<1>4. Filled'
  BY <1>1, <1>2, ClosedFacts DEF Filled
<1>5. Synced'
  <2>1. SUFFICES ASSUME "power" \in mode.faults, NEW i \in 1 .. n
                 PROVE  segSynced'[i] + 0 = Len(R[i])
    BY <1>2 DEF Synced, Unsynced
  <2>2. segSynced[i] = Len(segFiles[i]) /\ Len(R[i]) <= Len(segFiles[i]) /\ Len(R[i]) \in Nat
    BY <2>1, <1>1, <1>2, ClosedFacts, FileFacts
  <2>3. segSynced'[i] = LeastOf(segSynced[i], Len(R[i])) /\ Len(segFiles[i]) \in Nat
    BY <1>1, StoreFacts
  <2> QED BY <2>2, <2>3 DEF LeastOf
<1> QED BY <1>2, <1>3, <1>4, <1>5

LEMMA OpenIntact ==
  ASSUME StoreInv, Tolerated, Open
  PROVE  Intact'
<1>1. PICK R : R = RepairedSegs
  OBVIOUS
<1>2. /\ status = "down" /\ status' = "up" /\ pc' = "idle" /\ segFiles' = R /\ mode' = mode
      /\ segSynced' = [i \in DOMAIN segFiles |-> LeastOf(segSynced[i], Len(R[i]))]
      /\ segments' = [i \in DOMAIN segFiles |-> SegmentInfo(R[i])]
  BY <1>1 DEF Open
<1>3. PICK f : f = RepairedIndex(idxFile)
  OBVIOUS
<1>4. PICK g : g = f \o IndexLines(Missing)
  OBVIOUS
<1>5. idxFile' = g /\ seen' = KeySet(f) \cup Missing
  BY <1>3, <1>4 DEF Open
<1>6. Clean(g) /\ KeySet(g) = KeySet(f) \cup Missing /\ Missing = Stored \ KeySet(f)
  BY <1>2, <1>3, <1>4, IndexReadBack
<1>7. Whole' /\ Filled' /\ Synced' /\ Unique(segFiles')
  BY <1>1, <1>2, <1>5, <1>6, SegmentsOpened
<1>8. PICK n \in Nat : n = Len(segFiles) /\ DOMAIN segFiles = 1 .. n
  BY StoreFacts
<1>9. R \in Seq(File) /\ Len(R) = n /\ DOMAIN R = 1 .. n /\ Held(R) = Stored
      /\ \A i \in 1 .. n : SegmentInfo(R[i]) \in Info
  <2>1. R \in Seq(File) /\ Len(R) = n /\ DOMAIN R = 1 .. n /\ Held(R) = Stored
        /\ \A i \in 1 .. n : R[i] \in File
    BY <1>1, <1>2, <1>8, SegmentsReadBack
  <2> QED BY <2>1, SegmentInfoType
<1>10. Remembered'
  <2>1. Stored' = Held(R)
    BY <1>2, <1>9, StoredNext
  <2>2. PICK G : G = segments'
    OBVIOUS
  <2>3. G \in [1 .. n -> Info] /\ \A i \in 1 .. n : G[i] = SegmentInfo(R[i])
    BY <2>2, <1>2, <1>8, <1>9
  <2>4. Len(G) = n
    BY <2>3, FunSeq
  <2>5. ~Written'
    BY <1>2 DEF Written
  <2> QED BY <2>1, <2>2, <2>3, <2>4, <2>5, <1>2, <1>5, <1>6, <1>9 DEF Remembered
<1> QED BY <1>2, <1>7, <1>10 DEF Intact

LEMMA OpenCutIntact ==
  ASSUME StoreInv, Tolerated, OpenCut
  PROVE  Intact'
<1>1. PICK R : R = RepairedSegs
  OBVIOUS
<1>2. /\ status = "down" /\ status' = "down" /\ pc' = pc /\ segFiles' = R /\ mode' = mode
      /\ segSynced' = [i \in DOMAIN segFiles |-> LeastOf(segSynced[i], Len(R[i]))]
  BY <1>1 DEF OpenCut, memory
<1>3. PICK f : f = RepairedIndex(idxFile)
  OBVIOUS
<1>4. PICK g : g = f \o IndexLines(Missing)
  OBVIOUS
<1>5. PICK n : n = Len(f)
  OBVIOUS
<1>6. PICK r : r = idxFile'
  OBVIOUS
<1>7. r \in Leftovers(g, n) /\ g \in File /\ Clean(g) /\ n \in 0 .. Len(g)
  BY <1>2, <1>3, <1>4, <1>5, <1>6, IndexReadBack DEF OpenCut
<1>8. Good(r) \/ TornLast(r)
  <2>1. Good(g)
    BY <1>7 DEF Clean
  <2> QED BY <2>1, <1>7, GoodLeftovers
<1>9. Whole' /\ Filled' /\ Synced' /\ Unique(segFiles')
  BY <1>1, <1>2, <1>6, <1>8, ClosedFacts, SegmentsOpened
<1> QED BY <1>2, <1>9, DownIntact

LEMMA PowerLossIntact ==
  ASSUME StoreInv, Tolerated, PowerLoss
  PROVE  Intact'
<1>1. status = "up" /\ status' = "down" /\ pc' = "idle" /\ mode' = mode /\ "power" \in mode.faults
      /\ "linecut" \notin mode.faults /\ Intact
  BY ToleratedFacts, StoreFacts DEF PowerLoss, LoseMemory, Fail
<1>2. PICK S \in Seq(File) : S = segFiles
  BY StoreFacts
<1>3. PICK n \in Nat : n = Len(S) /\ DOMAIN S = 1 .. n
  BY <1>2, StoreFacts
<1>4. PICK Y : Y = segSynced
  OBVIOUS
<1>5. PICK R : R = segFiles'
  OBVIOUS
<1>6. /\ DOMAIN R = 1 .. n
      /\ R \in [1 .. n -> UNION {Leftovers(S[i], Y[i]) : i \in 1 .. n}]
      /\ \A i \in 1 .. n : /\ R[i] \in Leftovers(S[i], Y[i])
                           /\ R[i] # <<>> => R[i][Len(R[i])] \in {Newline, Torn}
      /\ segSynced' = [i \in 1 .. n |-> Len(R[i])]
  BY <1>1, <1>2, <1>3, <1>4, <1>5 DEF PowerLoss
<1>7. ASSUME NEW i \in 1 .. n
      PROVE  /\ S[i] \in File /\ Good(S[i]) /\ Y[i] \in 0 .. Len(S[i]) /\ R[i] \in File
             /\ Fewer(R[i], S[i])
             /\ i # n => R[i] = S[i] /\ Clean(S[i])
             /\ Clean(R[i]) \/ TornLast(R[i])
  <2>1. S[i] \in File /\ Good(S[i]) /\ Y[i] \in Nat /\ Y[i] <= Len(S[i]) /\ Len(S[i]) \in Nat
    BY <1>1, <1>2, <1>3, <1>4, StoreFacts, WholeUp
  <2>2. Y[i] \in 0 .. Len(S[i])
    BY <2>1
  <2>3. PICK r : r = R[i]
    OBVIOUS
  <2>4. /\ r \in File /\ Fewer(r, S[i]) /\ (Good(r) \/ TornLast(r))
        /\ Good(r) /\ Len(r) # 0 /\ r[Len(r)] \in {Newline, Torn} => Clean(r)
        /\ Y[i] = Len(S[i]) => r = S[i]
    BY <2>1, <2>2, <2>3, <1>6, GoodLeftovers
  <2>5. i # n => Y[i] = Len(S[i]) /\ Clean(S[i])
    <3>1. i # n => Y[i] + 0 = Len(S[i])
      BY <1>1, <1>2, <1>3, <1>4 DEF Intact, Synced
    <3> QED BY <3>1, <2>1, <1>1, <1>2, <1>3, WholeUp
  <2>6. Clean(r) \/ TornLast(r)
    <3>1. CASE TornLast(r)
      BY <3>1
    <3>2. CASE Good(r) /\ Len(r) = 0
      BY <3>2 DEF Clean, Ended
    <3>3. CASE Good(r) /\ Len(r) # 0
      <4>1. r # <<>>
        BY <3>3, EmptyFile
      <4> QED BY <4>1, <3>3, <2>3, <2>4, <1>6
    <3> QED BY <3>1, <3>2, <3>3, <2>4
  <2> QED BY <2>1, <2>2, <2>3, <2>4, <2>5, <2>6
<1>8. Len(R) = n
  <2>1. R \in [1 .. n -> File]
    BY <1>6, <1>7
  <2> QED BY <2>1, FunSeq
<1>9. Whole'
  <2>1. PICK x : x = idxFile'
    OBVIOUS
  <2>2. PICK f \in File : f = idxFile /\ Good(f)
    BY <1>1, StoreFacts, WholeUp DEF Clean
  <2>3. PICK m : m = idxSynced
    OBVIOUS
  <2>4. m \in 0 .. Len(f) /\ x \in Leftovers(f, m)
    BY <2>1, <2>2, <2>3, StoreFacts DEF PowerLoss, TypeOK
  <2>5. Good(x) \/ TornLast(x)
    BY <2>2, <2>4, GoodLeftovers
  <2>6. \A i \in 1 .. n : i # n => Clean(R[i])
    BY <1>7
  <2> QED BY <2>1, <2>5, <2>6, <1>1, <1>5, <1>6, <1>7, <1>8 DEF Whole
<1>10. Filled'
  <2>1. ASSUME NEW i \in 1 .. n PROVE Cardinality(RecordLines(R[i])) <= mode.max
    <3>1. PICK A : A = RecordLines(R[i])
      OBVIOUS
    <3>2. PICK B : B = RecordLines(S[i])
      OBVIOUS
    <3>3. A \in SUBSET B /\ IsFiniteSet(B)
      BY <3>1, <3>2, <1>7, KeySetType DEF Fewer
    <3>4. Cardinality(A) <= Cardinality(B) /\ Cardinality(A) \in Nat /\ Cardinality(B) \in Nat
      BY <3>3, FS_Subset, FS_CardinalityType
    <3>5. Cardinality(B) <= mode.max /\ mode.max \in Nat
      BY <3>2, <1>1, <1>2, <1>3, StoreFacts, ModeFacts DEF Intact, Filled
    <3> QED BY <3>1, <3>4, <3>5
  <2> QED BY <2>1, <1>1, <1>5, <1>6 DEF Filled
<1>11. Synced'
  <2>1. ASSUME NEW i \in 1 .. n PROVE segSynced'[i] + 0 = Len(R[i])
    <3>1. Len(R[i]) \in Nat
      BY <1>7, FileFacts
    <3> QED BY <3>1, <1>6
  <2> QED BY <2>1, <1>1, <1>5, <1>6 DEF Synced, Unsynced
<1>12. Unique(segFiles')
  <2>1. Unique(S)
    BY <1>1, <1>2 DEF Intact
  <2>2. \A i \in DOMAIN R : (i \in DOMAIN S /\ Fewer(R[i], S[i])) \/ RecordLines(R[i]) = {}
    BY <1>3, <1>6, <1>7
  <2> QED BY <2>1, <2>2, <1>5, UniqueFewer
<1> QED BY <1>1, <1>9, <1>10, <1>11, <1>12, DownIntact

-----------------------------------------------------------------------------
(* The invariant and what it says.                                         *)

LEMMA StoreInit ==
  ASSUME Init
  PROVE  StoreInv
<1>1. DedupInv
  BY DedupInit
<1>2. segFiles = <<>> /\ idxFile = <<>> /\ status = "down" /\ pc = "idle" /\ misread = {}
  BY DEF Init
<1>3. DOMAIN segFiles = {}
  BY <1>2
<1>4. Whole /\ Filled /\ Synced /\ Unique(segFiles)
  BY <1>2, <1>3, EmptyFile DEF Whole, Filled, Synced, Unique
<1> QED BY <1>1, <1>2, <1>4 DEF StoreInv, Intact

LEMMA IntactStep ==
  ASSUME StoreInv, Tolerated, Next
  PROVE  Intact'
<1>1. CASE Open
  BY <1>1, OpenIntact
<1>2. CASE OpenCorrupt
  BY <1>2, OpenCorruptIntact
<1>3. CASE \E k \in mode.keys : AppendDuplicate(k) \/ AppendBegin(k)
  BY <1>3, AppendDuplicateIntact, AppendBeginIntact
<1>4. CASE WriteLine
  BY <1>4, WriteLineIntact
<1>5. CASE WriteNewline
  BY <1>5, WriteNewlineIntact
<1>6. CASE SyncSegment
  BY <1>6, SyncSegmentIntact
<1>7. CASE WriteIndex
  BY <1>7, WriteIndexIntact
<1>8. CASE SyncIndex
  BY <1>8, SyncIndexIntact
<1>9. CASE Commit
  BY <1>9, CommitIntact
<1>10. CASE \E c \in Cutoffs : EnforceRetention(c)
  BY <1>10, RetentionIntact
<1>11. CASE Stop
  BY <1>11, StopIntact
<1>12. CASE Crash
  BY <1>12, CrashIntact
<1>13. CASE OpenCut
  BY <1>13, OpenCutIntact
<1>14. CASE PowerLoss
  BY <1>14, PowerLossIntact
<1>15. CASE WriteFails
  BY <1>15, WriteFailsIntact
<1>16. CASE \E c \in Cutoffs, drop \in SUBSET DOMAIN segments : RetentionStops(c, drop)
  BY <1>16, RetentionStopsIntact
<1> QED BY <1>1, <1>2, <1>3, <1>4, <1>5, <1>6, <1>7, <1>8, <1>9, <1>10, <1>11, <1>12, <1>13, <1>14,
           <1>15, <1>16 DEF Next

LEMMA ModeFixed ==
  ASSUME [Next]_vars
  PROVE  mode' = mode /\ Tolerated' = Tolerated
<1>1. mode' = mode
  BY DEF Next, vars, Open, OpenCorrupt, AppendDuplicate, AppendBegin, WriteLine, WriteNewline, SyncSegment,
         WriteIndex, SyncIndex, Commit, EnforceRetention, Stop, Crash, OpenCut, PowerLoss, WriteFails,
         RetentionStops
<1> QED BY <1>1 DEF Tolerated

LEMMA StillRead ==
  ASSUME Next, ~WriteIndex
  PROVE  misread' \subseteq misread
BY DEF Next, Open, OpenCorrupt, AppendDuplicate, AppendBegin, WriteLine, WriteNewline, SyncSegment,
       SyncIndex, Commit, EnforceRetention, Stop, Crash, OpenCut, PowerLoss, WriteFails, RetentionStops

LEMMA StoreStep ==
  ASSUME StoreInv, [Next]_vars
  PROVE  StoreInv'
<1>1. DedupInv'
  BY DedupStep DEF StoreInv
<1>2. ASSUME Tolerated PROVE Intact' /\ misread' = {}
  <2>1. CASE Next
    <3>1. misread = {}
      BY <1>2 DEF StoreInv
    <3>2. misread' \subseteq misread
      BY <1>2, <2>1, WriteIndexIntact, StillRead DEF Next
    <3> QED BY <3>1, <3>2, <1>2, <2>1, IntactStep
  <2>2. CASE UNCHANGED vars
    <3>1. Intact /\ misread = {}
      BY <1>2 DEF StoreInv
    <3>2. UNCHANGED <<mode, segFiles, idxFile, segSynced, idxSynced, status, seen, segments, pc, current,
                     misread>>
      BY <2>2 DEF vars, disk, memory
    <3> QED BY <3>1, <3>2 DEF Intact, Whole, Filled, Synced, Unsynced, Remembered, Stored, Written
  <2> QED BY <2>1, <2>2
<1>3. Tolerated' = Tolerated
  BY ModeFixed
<1> QED BY <1>1, <1>2, <1>3 DEF StoreInv

\* The inductive invariant: tolerated failures leave whole lines everywhere but
\* at the very end of the last segment and of the index, one record per key,
\* and a memory that a restart would rebuild.
THEOREM StoreInvariant == Spec => []StoreInv
<1>1. Init => StoreInv
  BY StoreInit
<1>2. StoreInv /\ [Next]_vars => StoreInv'
  BY StoreStep
<1> QED BY <1>1, <1>2, PTL DEF Spec

\* After crashes inside its writes, and in sync mode after power losses, open
\* never returns StoreError::Corrupt.
THEOREM NeverCorruptAlways == Spec => []NeverCorrupt
<1>1. StoreInv => NeverCorrupt
  BY DEF StoreInv, Intact, NeverCorrupt
<1> QED BY <1>1, StoreInvariant, PTL

\* No retry and no restart stores a sample twice: append dedups by what open
\* rebuilt from both files.
THEOREM UniqueRecordsAlways == Spec => []UniqueRecords
<1>1. StoreInv => UniqueRecords
  BY DEF StoreInv, Intact, UniqueRecords
<1> QED BY <1>1, StoreInvariant, PTL

\* Between calls the dedup set and the segment metadata of a running store are
\* those that open would rebuild, and no segment outgrows its bound.
THEOREM MemoryMatchesDiskAlways == Spec => []MemoryMatchesDisk
<1>1. ASSUME StoreInv PROVE MemoryMatchesDisk
  <2>1. SUFFICES ASSUME Tolerated, status = "up", pc = "idle"
                 PROVE  /\ seen = KeySet(idxFile) /\ Len(segments) = Len(segFiles)
                        /\ \A i \in DOMAIN segFiles :
                             segments[i] = SegmentInfo(segFiles[i]) /\ segments[i].records <= mode.max
    BY DEF MemoryMatchesDisk
  <2>2. Intact /\ Remembered /\ ~Written
    BY <1>1, <2>1 DEF StoreInv, Intact, Written
  <2>3. seen = KeySet(idxFile) /\ Len(segments) = Len(segFiles)
    BY <2>1, <2>2 DEF Remembered
  <2>4. ASSUME NEW i \in DOMAIN segFiles
        PROVE  segments[i] = SegmentInfo(segFiles[i]) /\ segments[i].records <= mode.max
    <3>1. segments[i] = SegmentInfo(segFiles[i])
      BY <2>1, <2>2 DEF Remembered
    <3>2. Cardinality(RecordLines(segFiles[i])) <= mode.max
      BY <2>2 DEF Intact, Filled
    <3>3. SegmentInfo(segFiles[i]).records = Cardinality(RecordLines(segFiles[i]))
      BY DEF SegmentInfo
    <3> QED BY <3>1, <3>2, <3>3
  <2> QED BY <2>3, <2>4
<1> QED BY <1>1, StoreInvariant, PTL

-----------------------------------------------------------------------------
(* The refinement: each step is one of DurableLog, or none.                *)

LEMMA KeptKeys ==
  ASSUME NEW f \in File, Good(f) \/ TornLast(f), NEW K, Keeps(f, Len(f), K)
  PROVE  K \subseteq KeySet(f)
<1>1. PICK p : p = RepairedIndex(f)
  OBVIOUS
<1>2. p \in File /\ Clean(p) /\ Fewer(p, f)
  BY <1>1, RepairedIndexClean
<1>3. Keeps(p, Len(p), K)
  BY <1>1, RepairedIndexKeeps
<1>4. K \subseteq KeySet(p)
  BY <1>2, <1>3, ReadBack DEF Clean, Good
<1> QED BY <1>2, <1>4, FewerKeys

\* Between lives, and after every failure, the index holds what was acknowledged.
LEMMA AckedKnown ==
  ASSUME StoreInv, Tolerated
  PROVE  /\ status = "up" => acked \subseteq seen
         /\ status # "up" => acked \subseteq KeySet(idxFile)
<1>1. Lasting /\ IndexLasts /\ Intact /\ acked \ misread = acked
  BY ToleratedFacts, StoreFacts DEF StoreInv
<1>2. ASSUME status # "up" PROVE acked \subseteq KeySet(idxFile)
  <2>1. pc = "idle"
    BY <1>2, StoreFacts DEF InCall
  <2>2. Safe = Len(idxFile)
    BY <2>1, <1>1, StoreFacts, ClosedSafe
  <2>3. Keeps(idxFile, Len(idxFile), acked)
    BY <2>2, <1>1 DEF IndexLasts
  <2>4. idxFile \in File /\ (Good(idxFile) \/ TornLast(idxFile))
    BY <1>1, StoreFacts DEF Intact, Whole, Clean
  <2> QED BY <2>3, <2>4, KeptKeys
<1> QED BY <1>1, <1>2 DEF IndexLasts

Known == KeySet(idxFile) \cup Stored

\* A power loss takes no record but the one that a call has not yet synced.
LEMMA PowerLossKeys ==
  ASSUME StoreInv, Tolerated, PowerLoss
  PROVE  /\ Stored' \subseteq Stored /\ KeySet(idxFile') \subseteq KeySet(idxFile)
         /\ \A k \in Stored : k \notin Stored' => k \notin KeySet(idxFile)
<1>1. status = "up" /\ "power" \in mode.faults /\ Intact /\ Remembered
  BY WholeUp DEF PowerLoss, Fail
<1>2. PICK S \in Seq(File) : S = segFiles
  BY StoreFacts
<1>3. PICK n \in Nat : n = Len(S) /\ DOMAIN S = 1 .. n
  BY <1>2, StoreFacts
<1>4. PICK Y : Y = segSynced
  OBVIOUS
<1>5. PICK R : R = segFiles'
  OBVIOUS
<1>6. /\ DOMAIN R = 1 .. n
      /\ R \in [1 .. n -> UNION {Leftovers(S[i], Y[i]) : i \in 1 .. n}]
      /\ \A i \in 1 .. n : R[i] \in Leftovers(S[i], Y[i])
  BY <1>1, <1>2, <1>3, <1>4, <1>5 DEF PowerLoss
<1>7. ASSUME NEW i \in 1 .. n
      PROVE  /\ S[i] \in File /\ Good(S[i]) /\ Y[i] \in Nat /\ Len(S[i]) \in Nat /\ R[i] \in File
             /\ Fewer(R[i], S[i])
             /\ Y[i] = Len(S[i]) => R[i] = S[i]
             /\ \A a \in RecordLines(S[i]) : a < Y[i] => a \in RecordLines(R[i]) /\ R[i][a] = S[i][a]
  <2>1. S[i] \in File /\ Good(S[i]) /\ Y[i] \in Nat /\ Y[i] <= Len(S[i]) /\ Len(S[i]) \in Nat
    BY <1>1, <1>2, <1>3, <1>4, StoreFacts, WholeUp
  <2>2. Y[i] \in 0 .. Len(S[i])
    BY <2>1
  <2>3. PICK r : r = R[i]
    OBVIOUS
  <2>4. PICK f \in File : f = S[i] /\ Good(f)
    BY <2>1
  <2>5. PICK y : y = Y[i]
    OBVIOUS
  <2>6. r \in Leftovers(f, y) /\ y \in 0 .. Len(f)
    BY <2>2, <2>3, <2>4, <2>5, <1>6
  <2>7. /\ r \in File /\ Fewer(r, f) /\ (y = Len(f) => r = f)
        /\ \A a \in RecordLines(f) : a < y => a \in RecordLines(r) /\ r[a] = f[a]
    BY <2>4, <2>6, GoodLeftovers
  <2> QED BY <2>1, <2>3, <2>4, <2>5, <2>7
<1>8. R \in Seq(File)
  <2>1. R \in [1 .. n -> File]
    BY <1>6, <1>7
  <2> QED BY <2>1, FunSeq
<1>9. Stored = Held(S) /\ Stored' = Held(R)
  BY <1>2, <1>5, <1>8, StoredIs, StoredNext
<1>10. Stored' \subseteq Stored
  <2>1. ASSUME NEW j \in Held(R) PROVE j \in Held(S)
    <3>1. PICK i \in 1 .. n : j \in KeySet(R[i])
      BY <1>6 DEF Held
    <3>2. j \in KeySet(S[i])
      BY <3>1, <1>7, FewerKeys
    <3> QED BY <3>2, <1>3, HeldFacts
  <2> QED BY <2>1, <1>9
<1>11. KeySet(idxFile') \subseteq KeySet(idxFile)
  <2>1. PICK x : x = idxFile'
    OBVIOUS
  <2>2. PICK f \in File : f = idxFile /\ Good(f)
    BY <1>1, StoreFacts, WholeUp DEF Clean
  <2>3. PICK m : m = idxSynced
    OBVIOUS
  <2>4. m \in 0 .. Len(f) /\ x \in Leftovers(f, m)
    BY <2>1, <2>2, <2>3, StoreFacts DEF PowerLoss, TypeOK
  <2>5. Fewer(x, f)
    BY <2>2, <2>4, GoodLeftovers
  <2> QED BY <2>1, <2>2, <2>5, FewerKeys
<1>12. ASSUME NEW k \in Stored, k \notin Stored' PROVE k \notin KeySet(idxFile)
  <2>1. PICK i \in 1 .. n : k \in KeySet(S[i]) /\ k \notin KeySet(R[i])
    BY <1>12, <1>3, <1>6, <1>8, <1>9, HeldFacts
  <2>2. PICK a \in RecordLines(S[i]) : k = S[i][a][2] /\ ~(a < Y[i]) /\ Y[i] # Len(S[i])
    <3>1. PICK a \in RecordLines(S[i]) : k = S[i][a][2]
      BY <2>1 DEF KeySet
    <3>2. a < Y[i] => a \in RecordLines(R[i]) /\ R[i][a] = S[i][a]
      BY <3>1, <1>7
    <3>3. a < Y[i] => k \in KeySet(R[i])
      BY <3>1, <3>2 DEF KeySet
    <3>4. Y[i] = Len(S[i]) => R[i] = S[i]
      BY <1>7
    <3> QED BY <3>1, <3>3, <3>4, <2>1
  <2>3. i = n /\ pc \in {"newline", "sync"} /\ Y[n] + (IF pc = "newline" THEN 1 ELSE 2) = Len(S[n])
    <3>1. Y[i] + (IF i = n THEN Unsynced ELSE 0) = Len(S[i])
      BY <1>1, <1>2, <1>3, <1>4 DEF Intact, Synced
    <3>2. i = n /\ Unsynced # 0
      BY <3>1, <2>2, <1>7
    <3> QED BY <3>1, <3>2 DEF Unsynced
  <2>4. PICK f \in File : f = S[n]
    BY <2>3, <1>7
  <2>5. Len(f) \in Nat /\ Y[n] \in Nat /\ a \in 1 .. Len(f) /\ EntryAt(f, a) /\ (a = Len(f) \/ f[a + 1] = Newline)
    BY <2>2, <2>3, <2>4, <1>7, KeySetType DEF RecordLines, Decodes
  <2>6. PICK c : c = current
    OBVIOUS
  <2>7. f[a] = Entry(c)
    <3>1. CASE pc = "newline"
      <4>1. f[Len(f)] = Entry(c)
        BY <3>1, <1>1, <1>2, <1>3, <2>4, <2>6 DEF Remembered
      <4>2. a = Len(f) \/ a + 1 = Len(f)
        <5>1. ~(a < Y[n]) /\ Y[n] + 1 = Len(f)
          BY <3>1, <2>2, <2>3, <2>4
        <5>2. PICK y \in Nat : ~(a < y) /\ y + 1 = Len(f)
          BY <5>1, <2>5
        <5> QED BY <5>2, <2>5
      <4> QED BY <4>1, <4>2, <2>5, Tokens
    <3>2. CASE pc = "sync"
      <4>1. Len(f) > 1 /\ f[Len(f) - 1] = Entry(c) /\ Written
        BY <3>2, <1>1, <1>2, <1>3, <2>4, <2>6 DEF Remembered, Written
      <4>2. Clean(f)
        BY <3>2, <1>1, <1>2, <1>3, <2>3, <2>4, WholeUp
      <4>3. f[Len(f)] = Newline
        BY <4>1, <4>2 DEF Clean, Ended
      <4>4. a # Len(f)
        BY <4>3, <2>5, Tokens DEF EntryAt
      <4>5. a = Len(f) - 1 \/ a + 1 = Len(f) - 1
        <5>1. ~(a < Y[n]) /\ Y[n] + 2 = Len(f)
          BY <3>2, <2>2, <2>3, <2>4
        <5>2. PICK y \in Nat : ~(a < y) /\ y + 2 = Len(f)
          BY <5>1, <2>5
        <5> QED BY <5>2, <4>4, <2>5
      <4>6. a + 1 # Len(f) - 1
        BY <4>1, <4>4, <2>5, Tokens
      <4> QED BY <4>1, <4>5, <4>6
    <3> QED BY <3>1, <3>2, <2>3
  <2>8. k = current
    BY <2>2, <2>3, <2>4, <2>6, <2>7, Tokens
  <2>9. KeySet(idxFile) = seen /\ current \notin seen
    BY <2>3, <1>1, WrittenFacts DEF Remembered
  <2> QED BY <2>8, <2>9
<1> QED BY <1>10, <1>11, <1>12

LEMMA LogStutter ==
  ASSUME Known' = Known, Stored' = Stored, acked' = acked, horizon' = horizon
  PROVE  UNCHANGED Log!lvars
BY DEF Known, Log!lvars

LEMMA LogPut ==
  ASSUME NEW k \in RecordKeys, k \notin Known, Known' = Known \cup {k}, Stored' = Stored \cup {k},
         acked' = acked, horizon' = horizon
  PROVE  Log!Next
<1>1. Log!Put(k)
  BY DEF Known, Log!Put
<1> QED BY <1>1 DEF Log!Next

LEMMA LogPromise ==
  ASSUME NEW k \in RecordKeys, k \in Known, Known' = Known, Stored' = Stored,
         acked' = acked \cup {k}, horizon' = horizon
  PROVE  Log!Next
<1>1. Log!Promise(k)
  BY DEF Known, Log!Promise
<1> QED BY <1>1 DEF Log!Next

LEMMA LogExpire ==
  ASSUME NEW k \in RecordKeys, Known' = Known, Stored' \subseteq Stored, acked' = acked,
         \A j \in Stored \ Stored' : Measured[j] <= Measured[k],
         horizon' = IF horizon >= Measured[k] THEN horizon ELSE Measured[k]
  PROVE  Log!Next
<1>1. Log!Expire(Measured[k])
  BY DEF Known, Log!Expire
<1> QED BY <1>1 DEF Log!Next

LEMMA LogLose ==
  ASSUME Known' \subseteq Known, acked \subseteq Known', Stored' = Stored \cap Known',
         acked' = acked, horizon' = horizon
  PROVE  Log!Next
<1>1. Log!Lose
  BY DEF Known, Log!Lose
<1> QED BY <1>1 DEF Log!Next

\* Retention: what is deleted was measured by the cutoff.
LEMMA ExpiredKeys ==
  ASSUME StoreInv, Tolerated, status = "up", pc = "idle", NEW c \in Nat, NEW drop, drop \subseteq Expired(c),
         segFiles' = Without(segFiles, drop), StoreInv'
  PROVE  /\ Stored' \subseteq Stored /\ Stored \subseteq KeySet(idxFile)
         /\ \A j \in Stored \ Stored' : Measured[j] <= c
<1>1. PICK S \in Seq(File) : S = segFiles
  BY StoreFacts
<1>2. PICK n \in Nat : n = Len(S) /\ DOMAIN S = 1 .. n
  BY <1>1, StoreFacts
<1>3. Intact /\ Remembered /\ ~Written
  BY WholeUp DEF Written
<1>4. PICK K : K = DOMAIN S \ drop
  OBVIOUS
<1>5. PICK o : o = InOrder(K)
  OBVIOUS
<1>6. PICK m : m = Cardinality(K)
  OBVIOUS
<1>7. PICK R : R = Without(S, drop)
  OBVIOUS
<1>8. /\ R \in Seq(File) /\ m \in Nat /\ Len(R) = m /\ Increasing(o, K)
      /\ \A i \in 1 .. m : R[i] = S[o[i]] /\ o[i] \in 1 .. n
  BY <1>2, <1>4, <1>5, <1>6, <1>7, WithoutFacts
<1>9. DOMAIN R = 1 .. m /\ K = {o[i] : i \in 1 .. m}
  BY <1>6, <1>8, LenProperties DEF Increasing
<1>10. Stored = Held(S) /\ Stored' = Held(R)
  BY <1>1, <1>7, <1>8, StoredIs, StoredNext
<1>11. Stored' \subseteq Stored
  BY <1>2, <1>8, <1>9, <1>10 DEF Held
<1>12. ASSUME NEW j \in Stored, j \notin Stored' PROVE Measured[j] <= c
  <2>1. PICK i \in 1 .. n : j \in KeySet(S[i])
    BY <1>2, <1>10 DEF Held
  <2>2. i \in drop
    <3>1. SUFFICES ASSUME i \in K PROVE FALSE
      BY <1>2, <1>4
    <3>2. PICK t \in 1 .. m : o[t] = i
      BY <3>1, <1>9
    <3>3. j \in KeySet(R[t])
      BY <3>2, <2>1, <1>8
    <3> QED BY <3>3, <1>8, <1>9, <1>10, <1>12, HeldFacts
  <2>3. segments[i].newest <= c
    BY <2>2 DEF Expired
  <2>4. segments[i].newest = Newest(KeySet(S[i]))
    <3>1. segments[i] = SegmentInfo(S[i])
      BY <1>1, <1>2, <1>3 DEF Remembered
    <3> QED BY <3>1 DEF SegmentInfo
  <2>5. PICK J : J = KeySet(S[i])
    OBVIOUS
  <2>6. PICK x : x = Newest(J)
    OBVIOUS
  <2>7. J \subseteq RecordKeys /\ IsFiniteSet(J) /\ j \in J
    BY <2>1, <2>5, <1>1, <1>2, KeySetType, StoreFacts
  <2>8. x \in Nat /\ Measured[j] <= x
    BY <2>6, <2>7, NewestFacts
  <2>9. Measured[j] \in Nat /\ x <= c
    BY <2>3, <2>4, <2>5, <2>6, <2>7, StoreAssumption
  <2> QED BY <2>8, <2>9
<1>13. Stored \subseteq KeySet(idxFile)
  BY <1>3 DEF Remembered
<1> QED BY <1>11, <1>12, <1>13

LEMMA CutoffKey ==
  ASSUME TypeOK, NEW c \in Cutoffs
  PROVE  c \in Nat /\ \E k \in RecordKeys : c = Measured[k]
BY ModeFacts, StoreAssumption DEF Cutoffs, TypeOK

LEMMA RetentionImplements ==
  ASSUME StoreInv, Tolerated, StoreInv', NEW c \in Cutoffs, NEW drop, drop \subseteq Expired(c),
         status = "up", pc = "idle", segFiles' = Without(segFiles, drop), idxFile' = idxFile, acked' = acked,
         horizon' = IF horizon >= c THEN horizon ELSE c
  PROVE  Log!Next
<1>1. c \in Nat /\ \E k \in RecordKeys : c = Measured[k]
  BY StoreFacts, CutoffKey
<1>2. PICK k \in RecordKeys : c = Measured[k]
  BY <1>1
<1>3. /\ Stored' \subseteq Stored /\ Stored \subseteq KeySet(idxFile)
      /\ \A j \in Stored \ Stored' : Measured[j] <= c
  BY <1>1, ExpiredKeys
<1>4. Known' = Known
  BY <1>3 DEF Known
<1> QED BY <1>2, <1>3, <1>4, LogExpire

LEMMA OpenImplements ==
  ASSUME StoreInv, Tolerated, StoreInv', Tolerated', Open
  PROVE  Log!Next
<1>1. PICK R : R = RepairedSegs
  OBVIOUS
<1>2. PICK f : f = RepairedIndex(idxFile)
  OBVIOUS
<1>3. PICK g : g = f \o IndexLines(Missing)
  OBVIOUS
<1>4. status = "down" /\ status' = "up" /\ segFiles' = R /\ idxFile' = g /\ acked' = acked
      /\ seen' = KeySet(f) \cup Missing /\ horizon' = horizon
  BY <1>1, <1>2, <1>3 DEF Open
<1>5. KeySet(g) = KeySet(f) \cup Missing /\ Missing = Stored \ KeySet(f) /\ KeySet(f) \subseteq KeySet(idxFile)
  BY <1>2, <1>3, <1>4, IndexReadBack, FewerKeys
<1>6. Stored' = Stored
  BY <1>1, <1>4, SegmentsReadBack, StoredNext
<1>7. acked' \ misread' = acked'
  BY DEF StoreInv
<1>8. acked \subseteq seen'
  BY <1>4, <1>7, ToleratedFacts, StoreFacts DEF StoreInv, DedupInv, IndexLasts, Tolerated, Lasting
<1> QED BY <1>4, <1>5, <1>6, <1>8, LogLose DEF Known

LEMMA AckedKnownNext ==
  ASSUME StoreInv', Tolerated', status' # "up"
  PROVE  acked' \subseteq KeySet(idxFile')
<1>1. TypeOK' /\ InCall' /\ IndexLasts' /\ Intact' /\ acked' \ misread' = acked'
  BY DEF StoreInv, DedupInv
<1>2. Lasting'
  BY DEF Tolerated, Lasting
<1>3. pc' = "idle"
  BY <1>1 DEF InCall
<1>4. Safe' = Len(idxFile') /\ Keeps(idxFile', Safe', acked')
  BY <1>1, <1>2, <1>3 DEF IndexLasts, Safe
<1>5. PICK f : f = idxFile'
  OBVIOUS
<1>6. f \in File /\ (Good(f) \/ TornLast(f)) /\ Keeps(f, Len(f), acked')
  BY <1>1, <1>4, <1>5 DEF TypeOK, Intact, Whole, Clean
<1>7. PICK K : K = acked'
  OBVIOUS
<1>8. K \subseteq KeySet(f)
  BY <1>6, <1>7, KeptKeys
<1> QED BY <1>5, <1>7, <1>8

LEMMA LostImplements ==
  ASSUME StoreInv', Tolerated', status' # "up", Stored' \subseteq Stored,
         KeySet(idxFile') \subseteq Known, \A k \in Stored : k \notin Stored' => k \notin KeySet(idxFile'),
         acked' = acked, horizon' = horizon
  PROVE  Log!Next
<1>1. acked \subseteq KeySet(idxFile')
  BY AckedKnownNext
<1>2. Stored' = Stored \cap Known' /\ Known' \subseteq Known
  BY DEF Known
<1> QED BY <1>1, <1>2, LogLose DEF Known

LEMMA OpenCutImplements ==
  ASSUME StoreInv, Tolerated, StoreInv', Tolerated', OpenCut
  PROVE  Log!Next
<1>1. PICK R : R = RepairedSegs
  OBVIOUS
<1>2. PICK f : f = RepairedIndex(idxFile)
  OBVIOUS
<1>3. PICK g : g = f \o IndexLines(Missing)
  OBVIOUS
<1>4. PICK r : r = idxFile'
  OBVIOUS
<1>5. PICK n : n = Len(f)
  OBVIOUS
<1>6. status = "down" /\ status' = "down" /\ segFiles' = R /\ acked' = acked /\ horizon' = horizon
      /\ r \in Leftovers(g, n)
  BY <1>1, <1>2, <1>3, <1>4, <1>5 DEF OpenCut
<1>7. /\ KeySet(g) = KeySet(f) \cup Missing /\ Missing = Stored \ KeySet(f)
      /\ KeySet(f) \subseteq KeySet(idxFile) /\ g \in File /\ Good(g) /\ n \in 0 .. Len(g)
  BY <1>2, <1>3, <1>5, <1>6, IndexReadBack, FewerKeys DEF Clean
<1>8. Stored' = Stored
  BY <1>1, <1>6, SegmentsReadBack, StoredNext
<1>9. KeySet(r) \subseteq KeySet(g)
  BY <1>6, <1>7, GoodLeftovers, FewerKeys
<1> QED BY <1>4, <1>6, <1>7, <1>8, <1>9, LostImplements DEF Known

LEMMA PowerLossImplements ==
  ASSUME StoreInv, Tolerated, StoreInv', Tolerated', PowerLoss
  PROVE  Log!Next
<1>1. status' = "down" /\ acked' = acked /\ horizon' = horizon
  BY DEF PowerLoss, LoseMemory
<1> QED BY <1>1, PowerLossKeys, LostImplements DEF Known

\* The steps inside append.
LEMMA AppendImplements ==
  ASSUME StoreInv, Tolerated, StoreInv',
         \/ \E k \in mode.keys : AppendDuplicate(k) \/ AppendBegin(k)
         \/ WriteLine \/ WriteNewline \/ SyncSegment \/ WriteIndex \/ SyncIndex \/ Commit
  PROVE  [Log!Next]_Log!lvars
<1>1. ASSUME NEW k \in mode.keys, AppendDuplicate(k) PROVE Log!Next
  <2>1. status = "up" /\ pc = "idle" /\ k \in seen /\ acked' = acked \cup {k} /\ horizon' = horizon
        /\ UNCHANGED <<segFiles, idxFile>>
    BY <1>1 DEF AppendDuplicate, disk
  <2>2. k \in Known
    BY <2>1, WholeUp DEF Known, Remembered
  <2>3. Known' = Known /\ Stored' = Stored /\ k \in RecordKeys
    BY <2>1, StoreFacts, ModeFacts DEF Known, Stored
  <2> QED BY <2>1, <2>2, <2>3, LogPromise
<1>2. ASSUME NEW k \in mode.keys, AppendBegin(k) PROVE UNCHANGED Log!lvars
  <2>1. UNCHANGED <<segFiles, idxFile, acked, horizon>>
    BY <1>2 DEF AppendBegin, disk
  <2>2. Known' = Known /\ Stored' = Stored
    BY <2>1 DEF Known, Stored
  <2> QED BY <2>1, <2>2, LogStutter
<1>3. ASSUME WriteLine PROVE Log!Next
  <2>1. pc = "line" /\ status = "up" /\ current \in RecordKeys /\ current \notin seen
        /\ UNCHANGED <<idxFile, acked, horizon>>
    BY <1>3, StoreFacts, ModeFacts DEF WriteLine, InCall
  <2>2. Stored' = Stored \cup {current}
    BY <1>3, WriteLineIntact
  <2>3. Known' = Known \cup {current}
    BY <2>1, <2>2 DEF Known
  <2>4. current \notin Known
    BY <2>1, WholeUp DEF Known, Remembered, Written
  <2> QED BY <2>1, <2>2, <2>3, <2>4, LogPut
<1>4. ASSUME WriteNewline PROVE UNCHANGED Log!lvars
  <2>1. UNCHANGED <<idxFile, acked, horizon>> /\ Stored' = Stored
    BY <1>4, WriteNewlineIntact DEF WriteNewline
  <2>2. Known' = Known
    BY <2>1 DEF Known
  <2> QED BY <2>1, <2>2, LogStutter
<1>5. ASSUME SyncSegment \/ SyncIndex PROVE UNCHANGED Log!lvars
  <2>1. UNCHANGED <<segFiles, idxFile, acked, horizon>>
    BY <1>5 DEF SyncSegment, SyncIndex
  <2>2. Known' = Known /\ Stored' = Stored
    BY <2>1 DEF Known, Stored
  <2> QED BY <2>1, <2>2, LogStutter
<1>6. ASSUME WriteIndex PROVE UNCHANGED Log!lvars
  <2>1. /\ pc = "index" /\ pc' \in {"indexsync", "commit"} /\ status' = "up" /\ status = "up"
        /\ UNCHANGED <<segFiles, seen, current, acked, horizon>>
    BY <1>6, WrittenFacts DEF WriteIndex
  <2>2. Intact' /\ Remembered /\ Written /\ Stored' = Stored
    BY <1>6, <2>1, WrittenFacts, WriteIndexIntact DEF Stored
  <2>3. KeySet(idxFile') = seen \cup {current}
    BY <2>1, <2>2 DEF Intact, Remembered
  <2>4. KeySet(idxFile) = seen /\ current \in Stored
    BY <2>1, <2>2, WrittenFacts DEF Remembered, Stored
  <2>5. Known' = Known
    BY <2>2, <2>3, <2>4 DEF Known
  <2> QED BY <2>1, <2>2, <2>5, LogStutter
<1>7. ASSUME Commit PROVE Log!Next
  <2>1. pc = "commit" /\ acked' = acked \cup {current} /\ UNCHANGED <<segFiles, idxFile, horizon>>
    BY <1>7 DEF Commit, disk
  <2>2. current \in RecordKeys /\ current \in Known
    BY <2>1, WrittenFacts DEF Remembered, Known
  <2>3. Known' = Known /\ Stored' = Stored
    BY <2>1 DEF Known, Stored
  <2> QED BY <2>1, <2>2, <2>3, LogPromise
<1> QED BY <1>1, <1>2, <1>3, <1>4, <1>5, <1>6, <1>7

LEMMA StepImplements ==
  ASSUME StoreInv, Tolerated, [Next]_vars
  PROVE  [Log!Next]_Log!lvars
<1>1. StoreInv' /\ Tolerated'
  BY StoreStep, ModeFixed
<1>2. CASE Open
  BY <1>1, <1>2, OpenImplements
<1>3. CASE OpenCorrupt
  BY <1>3, AlwaysReadable DEF OpenCorrupt
<1>4. CASE \/ \E k \in mode.keys : AppendDuplicate(k) \/ AppendBegin(k)
           \/ WriteLine \/ WriteNewline \/ SyncSegment \/ WriteIndex \/ SyncIndex \/ Commit
  BY <1>1, <1>4, AppendImplements
<1>5. CASE \E c \in Cutoffs : EnforceRetention(c)
  <2>1. PICK c \in Cutoffs : EnforceRetention(c)
    BY <1>5
  <2>2. PICK d : d = Expired(c)
    OBVIOUS
  <2>3. /\ status = "up" /\ pc = "idle" /\ segFiles' = Without(segFiles, d) /\ idxFile' = idxFile
        /\ acked' = acked /\ horizon' = IF horizon >= c THEN horizon ELSE c
    BY <2>1, <2>2 DEF EnforceRetention, DropSegments
  <2> QED BY <2>2, <2>3, <1>1, RetentionImplements
<1>6. CASE Stop \/ UNCHANGED vars
  <2>1. UNCHANGED <<segFiles, idxFile, acked, horizon>>
    BY <1>6 DEF Stop, disk, vars
  <2>2. Known' = Known /\ Stored' = Stored
    BY <2>1 DEF Known, Stored
  <2> QED BY <2>1, <2>2, LogStutter
<1>7. CASE Crash
  <2>1. acked' = acked /\ horizon' = horizon
    BY <1>7 DEF Crash
  <2>2. Known' = Known /\ Stored' = Stored
    BY <1>7, CrashIntact DEF Known
  <2> QED BY <2>1, <2>2, LogStutter
<1>8. CASE OpenCut
  BY <1>1, <1>8, OpenCutImplements
<1>9. CASE PowerLoss
  BY <1>1, <1>9, PowerLossImplements
<1>10. CASE WriteFails
  BY <1>10, ToleratedFacts DEF WriteFails, Fail
<1>11. CASE \E c \in Cutoffs, drop \in SUBSET DOMAIN segments : RetentionStops(c, drop)
  <2>1. PICK c \in Cutoffs, drop \in SUBSET DOMAIN segments : RetentionStops(c, drop)
    BY <1>11
  <2>2. /\ status = "up" /\ pc = "idle" /\ drop \subseteq Expired(c)
        /\ segFiles' = Without(segFiles, drop) /\ idxFile' = idxFile
        /\ acked' = acked /\ horizon' = IF horizon >= c THEN horizon ELSE c
    BY <2>1 DEF RetentionStops, DropSegments
  <2> QED BY <2>2, <1>1, RetentionImplements
<1> QED BY <1>2, <1>3, <1>4, <1>5, <1>6, <1>7, <1>8, <1>9, <1>10, <1>11 DEF Next

\* The store implements DurableLog under every failure it tolerates: each step
\* of append, of open, of retention and of a failure is a step of the abstract
\* log or changes nothing that it says.
THEOREM StoreImplementsLog == Spec => ImplementsLog
<1>1. Init => Log!Init
  <2>1. SUFFICES ASSUME Init PROVE Log!Init
    OBVIOUS
  <2>2. KeySet(idxFile) = {} /\ Stored = {}
    <3>1. segFiles = <<>> /\ idxFile = <<>>
      BY <2>1 DEF Init
    <3>2. DOMAIN segFiles = {}
      BY <3>1
    <3>3. KeySet(idxFile) = {}
      BY <3>1, EmptyFile
    <3> QED BY <3>2, <3>3 DEF Stored
  <2>3. acked = {} /\ horizon = 0
    BY <2>1 DEF Init
  <2> QED BY <2>2, <2>3 DEF Log!Init
<1>2. StoreInv /\ [Next]_vars => [Tolerated => Log!Next]_Log!lvars
  BY StepImplements
<1> QED BY <1>1, <1>2, StoreInvariant, PTL DEF Spec, ImplementsLog

=============================================================================
