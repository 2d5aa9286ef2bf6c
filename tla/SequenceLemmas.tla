----------------------------- MODULE SequenceLemmas -----------------------------
(***************************************************************************)
(* Least and greatest numbers, parts of sequences, and sequences joined by *)
(* a recursive function: facts that the proofs about texts and records     *)
(* share.                                                                  *)
(***************************************************************************)
EXTENDS Integers, SequencesExt, SequenceTheorems, WellFoundedInduction, TLAPS

(* A smallest counterexample is what a proof by induction needs of the numbers.
   *)
LEMMA LeastNumber ==
  ASSUME NEW T, T \subseteq Nat, T # {}
  PROVE  \E m \in T : \A k \in T : m <= k
<1> DEFINE Less == OpToRel(<, Nat)
<1>1. IsWellFoundedOn(Less, Nat)
  BY NatLessThanWellFounded
<1>2. \A m \in Nat, k \in Nat : <<k, m>> \in Less <=> k < m
  BY DEF OpToRel
<1> HIDE DEF Less
<1>3. PICK m \in T : \A k \in T : ~(<<k, m>> \in Less)
  BY <1>1, WFMin
<1>4. ASSUME NEW k \in T PROVE m <= k
  <2>1. ~(<<k, m>> \in Less) /\ k \in Nat /\ m \in Nat
    BY <1>3
  <2>2. ~(k < m)
    BY <1>2, <2>1
  <2> QED
    BY <2>1, <2>2
<1> QED
  BY <1>4

LEMMA MinIs ==
  ASSUME NEW T \in SUBSET Nat, T # {}
  PROVE  Min(T) \in T /\ \A k \in T : Min(T) <= k
<1>1. \E m \in T : \A k \in T : m <= k
  BY LeastNumber
<1> QED
  BY <1>1 DEF Min

(* Parts of sequences, from a position that is counted from 0.             *)
LEMMA SubSeqIs ==
  ASSUME NEW W, NEW text \in Seq(W), NEW from \in Nat, NEW to \in 0..Len(text)
  PROVE  /\ SubSeq(text, from + 1, to) \in Seq(W)
         /\ Len(SubSeq(text, from + 1, to)) = IF from <= to THEN to - from ELSE 0
         /\ to <= from => SubSeq(text, from + 1, to) = <<>>
<1>1. \A i \in (from + 1)..to : text[i] \in W
  OBVIOUS
<1>2. from + 1 \in Int /\ to \in Int
  OBVIOUS
<1>3. /\ SubSeq(text, from + 1, to) \in Seq(W)
      /\ Len(SubSeq(text, from + 1, to)) = IF from + 1 <= to THEN to - (from + 1) + 1 ELSE 0
  BY <1>1, <1>2, SubSeqProperties
<1>4. (IF from + 1 <= to THEN to - (from + 1) + 1 ELSE 0) = (IF from <= to THEN to - from ELSE 0)
  BY <1>2
<1>5. ASSUME to <= from PROVE SubSeq(text, from + 1, to) = <<>>
  <2>1. to < from + 1
    BY <1>2, <1>5
  <2> QED
    BY <1>2, <2>1, SubSeqEmpty
<1> QED
  BY <1>3, <1>4, <1>5

(* The greatest of a set of numbers below a bound.                         *)
LEMMA MaxIs ==
  ASSUME NEW n \in Nat, NEW T, T \subseteq 0..n, T # {}
  PROVE  Max(T) \in T /\ \A k \in T : k <= Max(T)
<1> DEFINE Lacks == {n - k : k \in T}
<1>1. Lacks \subseteq Nat /\ Lacks # {}
  <2>1. \A k \in T : n - k \in Nat
    OBVIOUS
  <2>2. \A l \in Lacks : l \in Nat
    BY <2>1
  <2>3. PICK k \in T : TRUE
    OBVIOUS
  <2>4. n - k \in Lacks
    OBVIOUS
  <2> HIDE DEF Lacks
  <2> QED
    BY <2>2, <2>4
<1>2. PICK m \in Lacks : \A k \in Lacks : m <= k
  <2> HIDE DEF Lacks
  <2> QED
    BY <1>1, LeastNumber
<1>3. PICK k \in T : m = n - k
  OBVIOUS
<1>4. \A j \in T : j <= k
  <2> TAKE j \in T
  <2>1. n - j \in Lacks
    OBVIOUS
  <2>2. m <= n - j
    BY <1>2, <2>1
  <2>3. j \in 0..n /\ k \in 0..n
    OBVIOUS
  <2> HIDE DEF Lacks
  <2> QED
    BY <1>3, <2>2, <2>3
<1> HIDE DEF Lacks
<1> QED
  BY <1>4 DEF Max

(* What is left of a sequence from a position on, and what is in front of it. *)
Suffix(text, k) == SubSeq(text, k, Len(text))

LEMMA SuffixIs ==
  ASSUME NEW W, NEW text \in Seq(W), NEW k \in 1..(Len(text) + 1)
  PROVE  /\ Suffix(text, k) \in Seq(W) /\ Len(Suffix(text, k)) = Len(text) - k + 1
         /\ \A i \in 1..(Len(text) - k + 1) : Suffix(text, k)[i] = text[k + i - 1]
<1>1. k \in Int /\ Len(text) \in Int
  OBVIOUS
<1>2. \A i \in k..Len(text) : text[i] \in W
  OBVIOUS
<1>3. /\ SubSeq(text, k, Len(text)) \in Seq(W)
      /\ Len(SubSeq(text, k, Len(text))) = IF k <= Len(text) THEN Len(text) - k + 1 ELSE 0
      /\ \A i \in 1..(Len(text) - k + 1) : SubSeq(text, k, Len(text))[i] = text[k + i - 1]
  BY <1>1, <1>2, SubSeqProperties
<1>4. (IF k <= Len(text) THEN Len(text) - k + 1 ELSE 0) = Len(text) - k + 1
  BY <1>1
<1> QED
  BY <1>3, <1>4 DEF Suffix

LEMMA SuffixOfSuffix ==
  ASSUME NEW W, NEW text \in Seq(W), NEW k \in 1..(Len(text) + 1),
         NEW j \in 1..(Len(text) - k + 2)
  PROVE  Suffix(Suffix(text, k), j) = Suffix(text, k + j - 1)
<1>1. PICK s : s = Suffix(text, k)
  OBVIOUS
<1>2. /\ s \in Seq(W) /\ Len(s) = Len(text) - k + 1
      /\ \A i \in 1..Len(s) : s[i] = text[k + i - 1]
  BY <1>1, SuffixIs
<1>3. j \in 1..(Len(s) + 1) /\ k + j - 1 \in 1..(Len(text) + 1) /\ Len(text) \in Nat
  BY <1>2
<1>4. /\ Suffix(s, j) \in Seq(W) /\ Len(Suffix(s, j)) = Len(s) - j + 1
      /\ \A i \in 1..(Len(s) - j + 1) : Suffix(s, j)[i] = s[j + i - 1]
  BY ZenonT(30), <1>2, <1>3, SuffixIs
<1>5. PICK m \in 1..(Len(text) + 1) : m = k + j - 1
  BY <1>3
<1>6. /\ Suffix(text, m) \in Seq(W) /\ Len(Suffix(text, m)) = Len(text) - m + 1
      /\ \A i \in 1..(Len(text) - m + 1) : Suffix(text, m)[i] = text[m + i - 1]
  BY SuffixIs
<1>7. Len(Suffix(s, j)) = Len(Suffix(text, m))
  BY <1>2, <1>3, <1>4, <1>5, <1>6
<1>8. ASSUME NEW i \in 1..Len(Suffix(s, j)) PROVE Suffix(s, j)[i] = Suffix(text, m)[i]
  <2>1. i \in 1..(Len(s) - j + 1) /\ j + i - 1 \in 1..Len(s) /\ i \in 1..(Len(text) - m + 1)
    BY SMTT(30), <1>2, <1>3, <1>4, <1>6, <1>7, <1>8
  <2>2. s[j + i - 1] = text[k + (j + i - 1) - 1]
    BY <1>2, <2>1
  <2>3. k + (j + i - 1) - 1 = m + i - 1
    BY <1>3, <1>5, <2>1
  <2> QED
    BY <1>4, <1>6, <2>1, <2>2, <2>3
<1>9. Suffix(s, j) = Suffix(text, m)
  BY <1>4, <1>6, <1>7, <1>8, SeqEqual
<1> QED
  BY <1>1, <1>5, <1>9

LEMMA WholeSuffix ==
  ASSUME NEW W, NEW text \in Seq(W)
  PROVE  Suffix(text, 1) = text
<1>1. 1 \in 1..(Len(text) + 1) /\ Len(text) \in Nat
  OBVIOUS
<1>2. /\ Suffix(text, 1) \in Seq(W) /\ Len(Suffix(text, 1)) = Len(text) - 1 + 1
      /\ \A i \in 1..(Len(text) - 1 + 1) : Suffix(text, 1)[i] = text[1 + i - 1]
  BY <1>1, SuffixIs
<1>3. Len(Suffix(text, 1)) = Len(text) /\ \A i \in 1..Len(text) : Suffix(text, 1)[i] = text[i]
  <2>1. Len(text) - 1 + 1 = Len(text) /\ \A i \in 1..Len(text) : 1 + i - 1 = i
    BY <1>1
  <2> QED
    BY <1>2, <2>1
<1> QED
  BY <1>2, <1>3, SeqEqual

(* The letters at the front of a text.                                     *)
LEMMA PrefixIs ==
  ASSUME NEW W, NEW text \in Seq(W), NEW k \in 0..Len(text)
  PROVE  /\ SubSeq(text, 1, k) \in Seq(W) /\ Len(SubSeq(text, 1, k)) = k
         /\ \A i \in 1..k : SubSeq(text, 1, k)[i] = text[i]
<1>1. 1 \in Int /\ k \in Int /\ k >= 0 /\ \A i \in 1..k : text[i] \in W
  OBVIOUS
<1>2. /\ SubSeq(text, 1, k) \in Seq(W)
      /\ Len(SubSeq(text, 1, k)) = IF 1 <= k THEN k - 1 + 1 ELSE 0
      /\ \A i \in 1..(k - 1 + 1) : SubSeq(text, 1, k)[i] = text[1 + i - 1]
  BY <1>1, SubSeqProperties
<1>3. (IF 1 <= k THEN k - 1 + 1 ELSE 0) = k /\ k - 1 + 1 = k /\ \A i \in 1..k : 1 + i - 1 = i
  BY <1>1
<1> QED
  BY <1>2, <1>3

LEMMA Split ==
  ASSUME NEW W, NEW text \in Seq(W), NEW k \in 1..(Len(text) + 1)
  PROVE  /\ SubSeq(text, 1, k - 1) \in Seq(W)
         /\ text = SubSeq(text, 1, k - 1) \o Suffix(text, k)
<1>1. k - 1 \in 0..Len(text)
  OBVIOUS
<1>2. PICK n \in 0..Len(text) : n = k - 1
  BY <1>1
<1>3. 1 \in Int /\ n \in Int /\ \A i \in 1..n : text[i] \in W
  OBVIOUS
<1>4. PICK a : a = SubSeq(text, 1, n)
  OBVIOUS
<1>5. a \in Seq(W) /\ Len(a) = n /\ \A i \in 1..n : a[i] = text[i]
  <2>1. /\ a \in Seq(W) /\ Len(a) = IF 1 <= n THEN n - 1 + 1 ELSE 0
        /\ \A i \in 1..(n - 1 + 1) : a[i] = text[1 + i - 1]
    BY <1>3, <1>4, SubSeqProperties
  <2>2. (IF 1 <= n THEN n - 1 + 1 ELSE 0) = n /\ n - 1 + 1 = n /\ \A i \in 1..n : 1 + i - 1 = i
    OBVIOUS
  <2> QED
    BY <2>1, <2>2
<1>6. PICK b : b = Suffix(text, k)
  OBVIOUS
<1>7. /\ b \in Seq(W) /\ Len(b) = Len(text) - k + 1
      /\ \A i \in 1..(Len(text) - k + 1) : b[i] = text[k + i - 1]
  BY <1>6, SuffixIs
<1>8. PICK c : c = a \o b
  OBVIOUS
<1>9. /\ c \in Seq(W) /\ Len(c) = Len(a) + Len(b)
      /\ \A i \in 1..(Len(a) + Len(b)) : c[i] = IF i <= Len(a) THEN a[i] ELSE b[i - Len(a)]
  BY <1>5, <1>7, <1>8, ConcatProperties
<1>10. Len(c) = Len(text) /\ k = n + 1
  BY <1>2, <1>5, <1>7, <1>9
<1>11. ASSUME NEW i \in 1..Len(text) PROVE c[i] = text[i]
  <2>1. CASE i <= n
    <3>1. i \in 1..n /\ i <= Len(a) /\ i \in 1..(Len(a) + Len(b))
      BY <1>5, <1>9, <1>10, <2>1
    <3> QED
      BY <1>5, <1>9, <3>1
  <2>2. CASE ~(i <= n)
    <3>1. i - n \in 1..(Len(text) - k + 1) /\ k + (i - n) - 1 = i
      BY <1>2, <1>10, <2>2
    <3>2. c[i] = b[i - n]
      BY <1>5, <1>7, <1>9, <1>10, <2>2
    <3> QED
      BY <1>7, <3>1, <3>2
  <2> QED
    BY <2>1, <2>2
<1>12. c = text
  BY <1>9, <1>10, <1>11, SeqEqual
<1> QED
  BY <1>2, <1>4, <1>5, <1>6, <1>8, <1>12

LEMMA JoinHasSuffix ==
  ASSUME NEW W, NEW a \in Seq(W), NEW b \in Seq(W), NEW k \in 1..(Len(a) + 1)
  PROVE  /\ Suffix(a \o b, Len(a) + 1) = b
         /\ Suffix(a \o b, k) = Suffix(a, k) \o b
<1>1. PICK c : c = a \o b
  OBVIOUS
<1>2. /\ c \in Seq(W) /\ Len(c) = Len(a) + Len(b)
      /\ \A i \in 1..(Len(a) + Len(b)) : c[i] = IF i <= Len(a) THEN a[i] ELSE b[i - Len(a)]
  BY <1>1, ConcatProperties
<1>3. Len(a) \in Nat /\ Len(b) \in Nat /\ k \in Nat /\ k >= 1 /\ k <= Len(a) + 1
  OBVIOUS
<1>4. Suffix(c, Len(a) + 1) = b
  <2>1. PICK m \in 1..(Len(c) + 1) : m = Len(a) + 1
    BY <1>2, <1>3
  <2>2. /\ Suffix(c, m) \in Seq(W) /\ Len(Suffix(c, m)) = Len(c) - m + 1
        /\ \A i \in 1..(Len(c) - m + 1) : Suffix(c, m)[i] = c[m + i - 1]
    BY <1>2, SuffixIs
  <2>3. Len(c) - m + 1 = Len(b)
    BY <1>2, <1>3, <2>1
  <2>4. ASSUME NEW i \in 1..Len(b) PROVE Suffix(c, m)[i] = b[i]
    <3>1. /\ m + i - 1 \in 1..(Len(a) + Len(b)) /\ ~(m + i - 1 <= Len(a))
          /\ (m + i - 1) - Len(a) = i
      BY <1>3, <2>1
    <3> QED
      BY <1>2, <2>2, <2>3, <3>1
  <2> QED
    BY <2>1, <2>2, <2>3, <2>4, SeqEqual
<1>5. Suffix(c, k) = Suffix(a, k) \o b
  <2>1. /\ Suffix(a, k) \in Seq(W) /\ Len(Suffix(a, k)) = Len(a) - k + 1
        /\ \A i \in 1..(Len(a) - k + 1) : Suffix(a, k)[i] = a[k + i - 1]
    BY SuffixIs
  <2>2. PICK s : s = Suffix(a, k)
    OBVIOUS
  <2>3. PICK d : d = s \o b
    OBVIOUS
  <2>4. /\ d \in Seq(W) /\ Len(d) = Len(s) + Len(b)
        /\ \A i \in 1..(Len(s) + Len(b)) : d[i] = IF i <= Len(s) THEN s[i] ELSE b[i - Len(s)]
    BY <2>1, <2>2, <2>3, ConcatProperties
  <2>5. k \in 1..(Len(c) + 1)
    BY <1>2, <1>3
  <2>6. /\ Suffix(c, k) \in Seq(W) /\ Len(Suffix(c, k)) = Len(c) - k + 1
        /\ \A i \in 1..(Len(c) - k + 1) : Suffix(c, k)[i] = c[k + i - 1]
    BY <1>2, <2>5, SuffixIs
  <2>7. Len(s) = Len(a) - k + 1 /\ Len(d) = Len(c) - k + 1
    BY <1>2, <1>3, <2>1, <2>2, <2>4
  <2>8. ASSUME NEW i \in 1..Len(d) PROVE d[i] = c[k + i - 1]
    <3>1. i \in 1..(Len(s) + Len(b)) /\ k + i - 1 \in 1..(Len(a) + Len(b))
      BY <1>2, <1>3, <2>4, <2>7
    <3>2. CASE i <= Len(s)
      <4>1. d[i] = s[i]
        BY <2>4, <3>1, <3>2
      <4>2. i \in 1..(Len(a) - k + 1)
        BY <1>3, <2>7, <3>1, <3>2
      <4>3. k + i - 1 <= Len(a)
        BY <1>3, <4>2
      <4> QED
        BY <1>2, <2>1, <2>2, <3>1, <4>1, <4>2, <4>3
    <3>3. CASE ~(i <= Len(s))
      <4>1. d[i] = b[i - Len(s)] /\ ~(k + i - 1 <= Len(a)) /\ (k + i - 1) - Len(a) = i - Len(s)
        BY <1>3, <2>4, <2>7, <3>1, <3>3
      <4> QED
        BY <1>2, <3>1, <4>1
    <3> QED
      BY <3>2, <3>3
  <2>9. d = Suffix(c, k)
    <3>1. PICK e : e = Suffix(c, k)
      OBVIOUS
    <3>2. e \in Seq(W) /\ Len(e) = Len(d) /\ \A i \in 1..Len(d) : e[i] = d[i]
      BY <2>6, <2>7, <2>8, <3>1
    <3>3. d = e
      BY <2>4, <3>2, SeqEqual
    <3> QED
      BY <3>1, <3>3
  <2> QED
    BY <2>2, <2>3, <2>9
<1> QED
  BY <1>1, <1>4, <1>5

(* What joining a sequence of texts by a recursive function is.            *)
IsJoin(f, s, n) == f = [i \in 1..n |-> IF i = 1 THEN s[i] ELSE f[i - 1] \o s[i]]

LEMMA JoinExists ==
  ASSUME NEW s, NEW n \in Nat
  PROVE  \E f : IsJoin(f, s, n)
<1> DEFINE Bad == {m \in Nat : ~ \E f : IsJoin(f, s, m)}
<1>1. 0 \notin Bad
  <2>1. IsJoin([i \in 1..0 |-> s[i]], s, 0)
    BY DEF IsJoin
  <2> QED
    BY <2>1
<1>2. ASSUME NEW m \in Nat, NEW f, IsJoin(f, s, m) PROVE m + 1 \notin Bad
  <2> DEFINE g == [i \in 1..(m + 1) |-> IF i = 1 THEN s[i] ELSE f[i - 1] \o s[i]]
  <2>1. \A i \in 1..m : f[i] = IF i = 1 THEN s[i] ELSE f[i - 1] \o s[i]
    BY <1>2 DEF IsJoin
  <2>2. \A i \in 1..m : g[i] = f[i]
    BY <2>1
  <2>3. ASSUME NEW i \in 1..(m + 1)
        PROVE  g[i] = IF i = 1 THEN s[i] ELSE g[i - 1] \o s[i]
    <3>1. CASE i = 1
      BY <3>1
    <3>2. CASE i # 1
      <4>1. i - 1 \in 1..m
        BY <3>2
      <4>2. g[i - 1] = f[i - 1]
        BY <2>2, <4>1
      <4> QED
        BY <3>2, <4>2
    <3> QED
      BY <3>1, <3>2
  <2>4. g = [i \in 1..(m + 1) |-> g[i]]
    OBVIOUS
  <2> HIDE DEF g
  <2>5. IsJoin(g, s, m + 1)
    BY <2>3, <2>4 DEF IsJoin
  <2> QED
    BY <2>5
<1>3. CASE Bad # {}
  <2>1. PICK m \in Bad : \A k \in Bad : m <= k
    <3>1. Bad \subseteq Nat
      OBVIOUS
    <3> HIDE DEF Bad
    <3> QED
      BY <1>3, <3>1, LeastNumber
  <2>2. m - 1 \in Nat /\ m - 1 \notin Bad /\ m = (m - 1) + 1
    BY <1>1, <2>1
  <2> QED
    BY <1>2, <2>1, <2>2
<1> QED
  BY <1>3

LEMMA JoinType ==
  ASSUME NEW W, NEW n \in Nat, NEW s, \A i \in 1..n : s[i] \in Seq(W),
         NEW f, IsJoin(f, s, n), NEW k \in 1..n
  PROVE  f[k] \in Seq(W)
<1> DEFINE Bad == {i \in 1..n : f[i] \notin Seq(W)}
<1>1. \A i \in 1..n : f[i] = IF i = 1 THEN s[i] ELSE f[i - 1] \o s[i]
  BY DEF IsJoin
<1>2. CASE Bad # {}
  <2>1. PICK m \in Bad : \A i \in Bad : m <= i
    <3>1. Bad \subseteq Nat
      OBVIOUS
    <3> HIDE DEF Bad
    <3> QED
      BY <1>2, <3>1, LeastNumber
  <2>2. m # 1
    BY <1>1, <2>1
  <2>3. m - 1 \in 1..n /\ m - 1 \notin Bad
    BY <2>1, <2>2
  <2>4. f[m - 1] \in Seq(W) /\ s[m] \in Seq(W)
    BY <2>1, <2>3
  <2>5. f[m] = f[m - 1] \o s[m]
    BY <1>1, <2>1, <2>2
  <2>6. f[m] \in Seq(W)
    BY <2>4, <2>5, ConcatProperties
  <2> QED
    BY <2>1, <2>6
<1> QED
  BY <1>2

LEMMA FlattenType ==
  ASSUME NEW W, NEW s \in Seq(Seq(W))
  PROVE  FlattenSeq(s) \in Seq(W)
<1> DEFINE flatten[i \in 1..Len(s)] == IF i = 1 THEN s[i] ELSE flatten[i - 1] \o s[i]
<1>1. FlattenSeq(s) = IF Len(s) = 0 THEN s ELSE flatten[Len(s)]
  BY Zenon DEF FlattenSeq
<1>2. IsJoin(flatten, s, Len(s))
  <2>1. \E f : IsJoin(f, s, Len(s))
    <3>1. Len(s) \in Nat
      OBVIOUS
    <3> HIDE DEF flatten
    <3> QED
      BY <3>1, JoinExists
  <2>2. flatten = CHOOSE f : IsJoin(f, s, Len(s))
    BY DEF IsJoin
  <2> HIDE DEF flatten
  <2> QED
    BY <2>1, <2>2
<1> HIDE DEF flatten
<1>3. CASE Len(s) = 0
  BY <1>1, <1>3
<1>4. CASE Len(s) # 0
  BY <1>1, <1>2, <1>4, JoinType
<1> QED
  BY <1>3, <1>4

(* Where the elements of a flattened sequence come from: the b[j]-th sequence, its
   c[j]-th element.                                                          *)
ComeFrom(flat, s, m, b, c) ==
  /\ \A j \in 1..Len(flat) : /\ b[j] \in 1..m /\ c[j] \in 1..Len(s[b[j]])
                             /\ flat[j] = s[b[j]][c[j]]
  /\ \A i, j \in 1..Len(flat) : i < j => b[i] < b[j] \/ (b[i] = b[j] /\ c[i] < c[j])
  /\ \A k \in 1..m : \A l \in 1..Len(s[k]) : \E j \in 1..Len(flat) : b[j] = k /\ c[j] = l

LEMMA OneMoreSequence ==
  ASSUME NEW W, NEW s, NEW m \in Nat, s[m + 1] \in Seq(W), NEW flat \in Seq(W),
         NEW b, NEW c, ComeFrom(flat, s, m, b, c)
  PROVE  \E d, e : ComeFrom(flat \o s[m + 1], s, m + 1, d, e)
<1>1. PICK more, n, o : more = s[m + 1] /\ n = Len(flat) /\ o = Len(more)
  OBVIOUS
<1>2. n \in Nat /\ o \in Nat /\ more \in Seq(W)
  BY <1>1
<1>3. PICK out : out = flat \o more
  OBVIOUS
<1>4. /\ Len(out) = n + o
      /\ \A j \in 1..n : out[j] = flat[j]
      /\ \A j \in (n + 1)..(n + o) : out[j] = more[j - n]
  BY <1>1, <1>2, <1>3, ConcatProperties
<1>5. PICK d : d = [j \in 1..(n + o) |-> IF j <= n THEN b[j] ELSE m + 1]
  OBVIOUS
<1>6. PICK e : e = [j \in 1..(n + o) |-> IF j <= n THEN c[j] ELSE j - n]
  OBVIOUS
<1>7. \A j \in 1..n : j \in 1..(n + o) /\ d[j] = b[j] /\ e[j] = c[j]
  BY <1>2, <1>5, <1>6
<1>8. \A j \in (n + 1)..(n + o) : j \in 1..(n + o) /\ d[j] = m + 1 /\ e[j] = j - n
  BY <1>2, <1>5, <1>6
<1>9. \A j \in 1..(n + o) : j \in 1..n \/ j \in (n + 1)..(n + o)
  BY <1>2
<1>10. /\ \A j \in 1..n : b[j] \in 1..m /\ c[j] \in 1..Len(s[b[j]]) /\ flat[j] = s[b[j]][c[j]]
       /\ \A i, j \in 1..n : i < j => b[i] < b[j] \/ (b[i] = b[j] /\ c[i] < c[j])
       /\ \A k \in 1..m : \A l \in 1..Len(s[k]) : \E j \in 1..n : b[j] = k /\ c[j] = l
  BY <1>1 DEF ComeFrom
<1>11. ASSUME NEW j \in 1..(n + o)
       PROVE  d[j] \in 1..(m + 1) /\ e[j] \in 1..Len(s[d[j]]) /\ out[j] = s[d[j]][e[j]]
  <2>1. CASE j \in 1..n
    <3>1. b[j] \in 1..(m + 1)
      BY <1>10, <2>1
    <3>2. d[j] = b[j] /\ e[j] = c[j] /\ out[j] = flat[j]
      BY <1>4, <1>7, <2>1
    <3>3. c[j] \in 1..Len(s[b[j]]) /\ flat[j] = s[b[j]][c[j]]
      BY <1>10, <2>1
    <3> QED
      BY <3>1, <3>2, <3>3
  <2>2. CASE j \in (n + 1)..(n + o)
    <3>1. d[j] = m + 1 /\ e[j] = j - n /\ out[j] = more[j - n]
      BY <1>4, <1>8, <2>2
    <3>2. j - n \in 1..o
      BY <1>2, <2>2
    <3> QED
      BY <1>1, <3>1, <3>2
  <2> QED
    BY <1>9, <2>1, <2>2
<1>12. ASSUME NEW i \in 1..(n + o), NEW j \in 1..(n + o), i < j
       PROVE  d[i] < d[j] \/ (d[i] = d[j] /\ e[i] < e[j])
  <2>1. CASE i \in 1..n /\ j \in 1..n
    BY <1>7, <1>10, <1>12, <2>1
  <2>2. CASE i \in 1..n /\ j \in (n + 1)..(n + o)
    <3>1. d[i] = b[i] /\ d[j] = m + 1 /\ b[i] \in 1..m
      BY <1>7, <1>8, <1>10, <2>2
    <3> QED
      BY <3>1
  <2>3. CASE i \in (n + 1)..(n + o) /\ j \in (n + 1)..(n + o)
    BY <1>2, <1>8, <1>12, <2>3
  <2>4. CASE i \in (n + 1)..(n + o) /\ j \in 1..n
    BY <1>2, <1>12, <2>4
  <2> QED
    BY <1>9, <2>1, <2>2, <2>3, <2>4
<1>13. ASSUME NEW k \in 1..(m + 1), NEW l \in 1..Len(s[k])
       PROVE  \E j \in 1..(n + o) : d[j] = k /\ e[j] = l
  <2>1. CASE k \in 1..m
    <3>1. PICK j \in 1..n : b[j] = k /\ c[j] = l
      BY <1>10, <2>1
    <3> QED
      BY <1>7, <3>1
  <2>2. CASE k = m + 1
    <3>1. l \in 1..o
      BY <1>1, <2>2
    <3>2. n + l \in (n + 1)..(n + o) /\ (n + l) - n = l
      BY <1>2, <3>1
    <3> QED
      BY <1>8, <2>2, <3>2
  <2> QED
    BY <2>1, <2>2
<1>14. ComeFrom(out, s, m + 1, d, e)
  BY <1>4, <1>11, <1>12, <1>13 DEF ComeFrom
<1> QED
  BY <1>1, <1>3, <1>14

LEMMA FlattenOrder ==
  ASSUME NEW W, NEW s \in Seq(Seq(W))
  PROVE  \E b, c : ComeFrom(FlattenSeq(s), s, Len(s), b, c)
<1> DEFINE flatten[i \in 1..Len(s)] == IF i = 1 THEN s[i] ELSE flatten[i - 1] \o s[i]
<1>1. FlattenSeq(s) = IF Len(s) = 0 THEN s ELSE flatten[Len(s)]
  BY Zenon DEF FlattenSeq
<1>2. IsJoin(flatten, s, Len(s))
  <2>1. \E f : IsJoin(f, s, Len(s))
    <3>1. Len(s) \in Nat
      OBVIOUS
    <3> HIDE DEF flatten
    <3> QED
      BY <3>1, JoinExists
  <2>2. flatten = CHOOSE f : IsJoin(f, s, Len(s))
    BY DEF IsJoin
  <2> HIDE DEF flatten
  <2> QED
    BY <2>1, <2>2
<1>3. PICK f : f = flatten
  OBVIOUS
<1>4. PICK n \in Nat : n = Len(s)
  OBVIOUS
<1> HIDE DEF flatten
<1>5. IsJoin(f, s, n)
  BY <1>2, <1>3, <1>4
<1>6. \A i \in 1..n : f[i] = IF i = 1 THEN s[i] ELSE f[i - 1] \o s[i]
  BY <1>5 DEF IsJoin
<1>7. \A i \in 1..n : s[i] \in Seq(W)
  BY <1>4
<1>8. \A i \in 1..n : f[i] \in Seq(W)
  BY <1>5, <1>7, JoinType
<1>9. ASSUME 1 \in 1..n PROVE \E b, c : ComeFrom(f[1], s, 1, b, c)
  <2>1. PICK o, b, c : /\ o = Len(s[1]) /\ b = [j \in 1..o |-> 1] /\ c = [j \in 1..o |-> j]
    OBVIOUS
  <2>2. f[1] = s[1]
    BY <1>6, <1>9
  <2>3. \A j \in 1..o : b[j] = 1 /\ c[j] = j
    BY <2>1
  <2>4. \A j \in 1..o : b[j] \in 1..1
    BY <2>3
  <2>5. \A k \in 1..1 : k = 1
    OBVIOUS
  <2>6. ComeFrom(f[1], s, 1, b, c)
    BY <2>1, <2>2, <2>3, <2>4, <2>5 DEF ComeFrom
  <2> QED
    BY <2>6
<1> DEFINE Bad == {i \in 1..n : ~ \E b, c : ComeFrom(f[i], s, i, b, c)}
<1>10. CASE Bad # {}
  <2>1. PICK i \in Bad : \A k \in Bad : i <= k
    <3>1. Bad \subseteq Nat
      OBVIOUS
    <3> HIDE DEF Bad
    <3> QED
      BY <1>10, <3>1, LeastNumber
  <2>2. i \in 1..n /\ i # 1
    BY <1>9, <2>1
  <2>3. PICK m \in Nat : i = m + 1 /\ m \in 1..n /\ m = i - 1
    BY <2>2
  <2>4. m \notin Bad
    BY <2>1, <2>3
  <2>5. PICK b, c : ComeFrom(f[m], s, m, b, c)
    BY <2>3, <2>4
  <2>6. f[m] \in Seq(W) /\ s[m + 1] \in Seq(W)
    BY <1>7, <1>8, <2>2, <2>3
  <2>7. \E d, e : ComeFrom(f[m] \o s[m + 1], s, m + 1, d, e)
    <3> HIDE DEF Bad
    <3> QED
      BY <2>5, <2>6, OneMoreSequence
  <2>8. f[i] = f[m] \o s[m + 1]
    BY <1>6, <2>2, <2>3
  <2> QED
    BY <2>1, <2>3, <2>7, <2>8
<1>11. CASE n = 0
  <2>1. FlattenSeq(s) = s /\ Len(s) = 0
    BY <1>1, <1>4, <1>11
  <2>2. ComeFrom(s, s, 0, s, s)
    BY <2>1 DEF ComeFrom
  <2> QED
    BY <2>1, <2>2
<1>12. CASE n # 0 /\ Bad = {}
  <2>1. n \in 1..n /\ FlattenSeq(s) = f[n]
    BY <1>1, <1>3, <1>4, <1>12
  <2>2. \E b, c : ComeFrom(f[n], s, n, b, c)
    BY <1>12, <2>1
  <2> QED
    BY <1>4, <2>1, <2>2
<1> QED
  BY <1>10, <1>11, <1>12

=============================================================================
