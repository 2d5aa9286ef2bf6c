--------------------------- MODULE Algorithms_proofs ---------------------------
(***************************************************************************)
(* Theorems about the sequential algorithms, whatever their inputs are: a  *)
(* read asked again, the slicer, the status pass, the comparison with the  *)
(* legacy layout, the tools of a session in any order, the token bucket    *)
(* with any timing, and the notes that runs take.  MCAlgorithms checks the *)
(* same properties on small inputs.                                        *)
(***************************************************************************)
EXTENDS PlannedReads, Slicing, StatusSplit, Toolbox, TokenBucket, Notes, Comparison,
        SequenceLemmas, FiniteSetTheorems

-----------------------------------------------------------------------------
(* Sets in an order.                                                       *)
IsOrder(S, before) ==
  /\ IsFiniteSet(S)
  /\ \A x \in S : before[x] \subseteq S \ {x}
  /\ \A x, y \in S : x = y \/ x \in before[y] \/ y \in before[x]
  /\ \A x, y \in S : x \in before[y] => before[x] \subseteq before[y]

LEMMA InOrderLists ==
  ASSUME NEW S, NEW before, IsOrder(S, before)
  PROVE  /\ Cardinality(S) \in Nat
         /\ InOrder(S, before) \in [1..Cardinality(S) -> S]
         /\ \A i, j \in 1..Cardinality(S) :
              i < j => InOrder(S, before)[i] \in before[InOrder(S, before)[j]]
<1> DEFINE n == Cardinality(S)
           rank == [x \in S |-> Cardinality(before[x]) + 1]
<1>1. n \in Nat
  BY FS_CardinalityType DEF IsOrder
<1>2. ASSUME NEW x \in S PROVE IsFiniteSet(before[x]) /\ rank[x] \in 1..n
  <2>1. before[x] \subseteq S \ {x} /\ IsFiniteSet(S)
    BY DEF IsOrder
  <2>2. IsFiniteSet(S \ {x}) /\ Cardinality(S \ {x}) = n - 1
    BY <2>1, FS_RemoveElement
  <2>3. IsFiniteSet(before[x]) /\ Cardinality(before[x]) <= n - 1
    BY <2>1, <2>2, FS_Subset
  <2>4. Cardinality(before[x]) \in Nat
    BY <2>3, FS_CardinalityType
  <2> HIDE DEF n
  <2> QED
    BY <1>1, <2>3, <2>4
<1>3. ASSUME NEW x \in S, NEW y \in S, x \in before[y] PROVE rank[x] < rank[y]
  <2>1. before[x] \subseteq before[y] /\ before[x] # before[y]
    BY <1>3 DEF IsOrder
  <2>2. IsFiniteSet(before[y]) /\ IsFiniteSet(before[x])
    BY <1>2
  <2>3. Cardinality(before[x]) <= Cardinality(before[y]) /\ Cardinality(before[x]) # Cardinality(before[y])
    BY <2>1, <2>2, FS_Subset
  <2>4. Cardinality(before[x]) \in Nat /\ Cardinality(before[y]) \in Nat
    BY <2>2, FS_CardinalityType
  <2> QED
    BY <2>3, <2>4
<1>4. ASSUME NEW x \in S, NEW y \in S, rank[x] <= rank[y] PROVE x = y \/ x \in before[y]
  <2>1. ~(rank[y] < rank[x])
    <3>1. rank[x] \in 1..n /\ rank[y] \in 1..n
      BY <1>2
    <3> HIDE DEF rank, n
    <3> QED
      BY <1>1, <1>4, <3>1
  <2> QED
    BY <1>3, <2>1 DEF IsOrder
<1>5. \A k \in 1..n : \E x \in S : rank[x] = k
  <2>1. rank \in Injection(S, 1..n)
    <3>1. rank \in [S -> 1..n]
      BY <1>2
    <3>2. \A x, y \in S : rank[x] = rank[y] => x = y
      <4> TAKE x, y \in S
      <4> HAVE rank[x] = rank[y]
      <4>1. rank[x] \in 1..n /\ rank[y] \in 1..n
        BY <1>2
      <4>2. rank[x] <= rank[y] /\ rank[y] <= rank[x]
        <5> HIDE DEF rank, n
        <5> QED
          BY <1>1, <4>1
      <4>3. (x = y \/ x \in before[y]) /\ (x = y \/ y \in before[x])
        BY <1>4, <4>2
      <4> QED
        BY <4>3 DEF IsOrder
    <3> HIDE DEF rank
    <3> QED
      BY <3>1, <3>2 DEF Injection, IsInjective
  <2>2. IsFiniteSet(1..n) /\ Cardinality(1..n) = n
    <3> HIDE DEF n
    <3> QED
      BY <1>1, FS_Interval
  <2>3. rank \in Surjection(S, 1..n)
    <3> HIDE DEF rank
    <3> QED
      BY <2>1, <2>2, FS_Injection
  <2> HIDE DEF rank, n
  <2> QED
    BY <2>3 DEF Surjection
<1>6. ASSUME NEW k \in 1..n
      PROVE  InOrder(S, before)[k] \in S /\ rank[InOrder(S, before)[k]] = k
  <2>1. PICK x \in S : rank[x] = k
    BY <1>5
  <2>2. Cardinality(before[x]) = k - 1
    <3>1. Cardinality(before[x]) + 1 = k /\ Cardinality(before[x]) \in Nat
      BY <1>2, <2>1, FS_CardinalityType
    <3> QED
      BY <3>1
  <2>3. InOrder(S, before)[k] = CHOOSE y \in S : Cardinality(before[y]) = k - 1
    BY DEF InOrder
  <2>4. InOrder(S, before)[k] \in S /\ Cardinality(before[InOrder(S, before)[k]]) = k - 1
    BY <2>2, <2>3
  <2> QED
    BY <1>1, <2>4
<1>7. InOrder(S, before) \in [1..n -> S]
  BY <1>6 DEF InOrder
<1>8. ASSUME NEW i \in 1..n, NEW j \in 1..n, i < j
      PROVE  InOrder(S, before)[i] \in before[InOrder(S, before)[j]]
  <2> DEFINE x == InOrder(S, before)[i]
             y == InOrder(S, before)[j]
  <2>1. x \in S /\ y \in S /\ rank[x] = i /\ rank[y] = j
    BY <1>6
  <2> HIDE DEF rank, x, y, n
  <2>2. x # y /\ rank[x] <= rank[y]
    BY <1>1, <1>8, <2>1
  <2>3. x \in before[y]
    BY <1>4, <2>1, <2>2
  <2> QED
    BY <2>3 DEF x, y
<1> QED
  BY <1>1, <1>7, <1>8

LEMMA InOrderOnto ==
  ASSUME NEW S, NEW before, IsOrder(S, before),
         NEW n, n = Cardinality(S), NEW f, f = InOrder(S, before)
  PROVE  /\ \A x \in S : \E k \in 1..n : f[k] = x
         /\ \A i, j \in 1..n : i # j => f[i] # f[j]
<1>1. /\ n \in Nat /\ f \in [1..n -> S]
      /\ \A i, j \in 1..n : i < j => f[i] \in before[f[j]]
  BY InOrderLists
<1>2. \A i, j \in 1..n : i < j => f[i] # f[j]
  BY <1>1 DEF IsOrder
<1>3. \A i, j \in 1..n : i # j => f[i] # f[j]
  <2> TAKE i, j \in 1..n
  <2>1. i = j \/ i < j \/ j < i
    BY <1>1
  <2> QED
    BY <1>2, <2>1
<1>4. f \in Injection(1..n, S)
  BY <1>1, <1>3 DEF Injection, IsInjective
<1>5. Cardinality(1..n) = n
  <2>1. 1 \in Int /\ n \in Int
    BY <1>1
  <2>2. Cardinality(1..n) = IF 1 > n THEN 0 ELSE n - 1 + 1
    BY <2>1, FS_Interval
  <2> QED
    BY <1>1, <2>2
<1>6. f \in Surjection(1..n, S)
  <2>1. IsFiniteSet(S) /\ Cardinality(1..n) = Cardinality(S)
    BY <1>5 DEF IsOrder
  <2> QED
    BY <1>4, <2>1, FS_Injection
<1>7. \A x \in S : \E k \in 1..n : f[k] = x
  BY <1>6 DEF Surjection
<1> QED
  BY <1>3, <1>7

-----------------------------------------------------------------------------
(* Parts of texts.                                                         *)
LEMMA PartIs ==
  ASSUME NEW W, NEW text \in Seq(W), NEW from \in Nat, NEW to \in Nat
  PROVE  /\ Part(text, from, to) \in Seq(W)
         /\ to <= Len(text) => Part(text, from, to) = SubSeq(text, from + 1, to)
         /\ Len(text) < to => Part(text, from, to) = SubSeq(text, from + 1, Len(text))
<1>1. /\ Min({to, Len(text)}) \in {to, Len(text)}
      /\ Min({to, Len(text)}) <= to /\ Min({to, Len(text)}) <= Len(text)
  BY SMTT(30), MinIs
<1>2. PICK m \in 0..Len(text) : m = Min({to, Len(text)})
  BY <1>1
<1>3. Part(text, from, to) = SubSeq(text, from + 1, m)
  BY <1>2 DEF Part
<1>4. SubSeq(text, from + 1, m) \in Seq(W)
  BY SubSeqIs
<1>5. (to <= Len(text) => m = to) /\ (Len(text) < to => m = Len(text))
  BY <1>1, <1>2
<1> QED
  BY <1>3, <1>4, <1>5

LEMMA PartOfPart ==
  ASSUME NEW W, NEW text \in Seq(W), NEW from \in Nat, NEW to \in 0..Len(text), from <= to,
         NEW x \in Nat, NEW y \in 0..(to - from), x <= y
  PROVE  Part(Part(text, from, to), x, y) = Part(text, from + x, from + y)
<1>1. PICK p : p = Part(text, from, to)
  OBVIOUS
<1>2. p = SubSeq(text, from + 1, to) /\ p \in Seq(W) /\ Len(p) = to - from
  <2>1. from \in Nat /\ to \in Nat /\ to <= Len(text)
    OBVIOUS
  <2>2. Part(text, from, to) = SubSeq(text, from + 1, to)
    BY <2>1, PartIs
  <2>3. /\ SubSeq(text, from + 1, to) \in Seq(W)
        /\ Len(SubSeq(text, from + 1, to)) = IF from <= to THEN to - from ELSE 0
    BY SubSeqIs
  <2> QED
    BY <1>1, <2>2, <2>3
<1>3. Part(p, x, y) = SubSeq(p, x + 1, y)
  <2>1. p \in Seq(W) /\ y \in Nat /\ y <= Len(p)
    BY <1>2
  <2> QED
    BY <2>1, PartIs
<1>4. from + x \in Nat /\ from + y \in Nat /\ from + y <= Len(text)
  OBVIOUS
<1>5. Part(text, from + x, from + y) = SubSeq(text, (from + x) + 1, from + y)
  <2>1. PICK u \in Nat, v \in Nat : u = from + x /\ v = from + y /\ v <= Len(text)
    BY <1>4
  <2>2. Part(text, u, v) = SubSeq(text, u + 1, v)
    BY ZenonT(30), <2>1, PartIs
  <2> QED
    BY <2>1, <2>2
<1>6. CASE x < y
  <2>1. /\ from + 1 \in 1..Len(text) /\ to \in 1..Len(text)
        /\ x + 1 \in 1..(to - (from + 1) + 1) /\ y \in 1..(to - (from + 1) + 1)
    BY <1>6
  <2>2. SubSeq(p, x + 1, y) = SubSeq(text, (from + 1) + (x + 1) - 1, (from + 1) + y - 1)
    BY <1>2, <2>1, SubSeqOfSubSeq
  <2>3. (from + 1) + (x + 1) - 1 = (from + x) + 1 /\ (from + 1) + y - 1 = from + y
    OBVIOUS
  <2> QED
    BY <1>1, <1>3, <1>5, <2>2, <2>3
<1>7. CASE x = y
  <2>1. SubSeq(p, x + 1, y) = <<>>
    BY <1>2, <1>7, SubSeqIs
  <2>2. SubSeq(text, (from + x) + 1, from + y) = <<>>
    BY <1>4, <1>7, SubSeqIs
  <2> QED
    BY <1>1, <1>3, <1>5, <2>1, <2>2
<1> QED
  BY <1>6, <1>7

-----------------------------------------------------------------------------
(* Headings: where the match of one starts and ends.                       *)
LEMMA NextIsInside ==
  ASSUME NEW W, NEW text \in Seq(W), NEW p \in Nat, p <= Len(text)
  PROVE  /\ NextNewline(text, p) \in p..Len(text)
         /\ NextInk(text, p) \in p..Len(text)
<1>1. ASSUME NEW T, T \subseteq {q \in Positions(text) : q >= p}
      PROVE  Min(T \cup {Len(text)}) \in p..Len(text)
  <2> DEFINE n == Len(text)
  <2>1. n \in Nat /\ p <= n
    OBVIOUS
  <2>2. T \cup {n} \subseteq p..n /\ p..n \subseteq Nat
    <3>1. T \subseteq {q \in 0..(n - 1) : q >= p}
      BY <1>1 DEF Positions
    <3> HIDE DEF n
    <3> QED
      BY <2>1, <3>1
  <2>3. Min(T \cup {Len(text)}) \in T \cup {Len(text)}
    BY <2>2, MinIs
  <2> QED
    BY <2>2, <2>3
<1>2. NextNewline(text, p) \in p..Len(text)
  <2>1. {q \in Positions(text) : q >= p /\ Char(text, q) = "n"} \subseteq {q \in Positions(text) : q >= p}
    OBVIOUS
  <2> QED
    BY <1>1, <2>1 DEF NextNewline
<1>3. NextInk(text, p) \in p..Len(text)
  <2>1. {q \in Positions(text) : q >= p /\ Char(text, q) # "n"} \subseteq {q \in Positions(text) : q >= p}
    OBVIOUS
  <2> QED
    BY <1>1, <2>1 DEF NextInk
<1> QED
  BY <1>2, <1>3

LEMMA BlankIs ==
  ASSUME NEW text, NEW p \in Nat
  PROVE  /\ BlankBefore(text, p) \in 0..p
         /\ \A r \in BlankBefore(text, p)..(p - 1) : Char(text, r) = "n"
         /\ p > 0 /\ Char(text, p - 1) = "n" => BlankBefore(text, p) < p
<1> DEFINE T == {q \in 0..p : \A r \in q..(p - 1) : Char(text, r) = "n"}
<1>1. p \in T /\ T \subseteq Nat
  OBVIOUS
<1>2. BlankBefore(text, p) = Min(T)
  BY DEF BlankBefore
<1>3. Min(T) \in T /\ \A k \in T : Min(T) <= k
  <2> HIDE DEF T
  <2> QED
    BY <1>1, MinIs
<1>4. ASSUME p > 0, Char(text, p - 1) = "n" PROVE p - 1 \in T
  BY <1>4
<1> QED
  BY <1>2, <1>3, <1>4

LEMMA HeadingStarts ==
  ASSUME NEW text, NEW p \in Nat, IsHeading(text, p)
  PROVE  MatchStart(text, p) \in 0..p
<1>1. p > 0 => BlankBefore(text, p) < p
  BY BlankIs DEF IsHeading
<1> QED
  BY <1>1, BlankIs DEF MatchStart

LEMMA StartsDiffer ==
  ASSUME NEW text, NEW p \in Nat, NEW q \in Nat, p < q, IsHeading(text, p), IsHeading(text, q)
  PROVE  MatchStart(text, p) < MatchStart(text, q)
<1>1. Char(text, p) # "n"
  BY RecordsAssumption DEF IsHeading
<1>2. p < BlankBefore(text, q)
  <2>1. p \notin BlankBefore(text, q)..(q - 1)
    BY <1>1, BlankIs
  <2> QED
    BY <2>1, BlankIs
<1> QED
  BY <1>2, HeadingStarts, BlankIs DEF MatchStart

(* What the tools and the slicer rely on in a set of anchors of a text.    *)
AreAnchors(anchs, length) ==
  /\ IsFiniteSet(ItemsOf(anchs))
  /\ \A a \in anchs : a.start \in Nat /\ a.end \in 0..length
  /\ \A a, b \in anchs : a.start = b.start => a.item = b.item

LEMMA FoundAreAnchors ==
  ASSUME NEW W, NEW text \in Seq(W), NEW anchs, anchs \subseteq FindAnchors(text)
  PROVE  AreAnchors(anchs, Len(text))
<1> DEFINE At(a, p) == /\ p \in Positions(text) /\ IsHeading(text, p)
                       /\ a.item = Char(text, p) /\ a.start = MatchStart(text, p)
                       /\ a.end = MatchEnd(text, p)
<1>1. ASSUME NEW a \in anchs PROVE \E p : At(a, p)
  <2>1. PICK p \in Positions(text) :
          /\ IsHeading(text, p)
          /\ a = [item |-> Char(text, p), start |-> MatchStart(text, p), end |-> MatchEnd(text, p)]
    BY Zenon DEF FindAnchors
  <2>2. a.item = Char(text, p) /\ a.start = MatchStart(text, p) /\ a.end = MatchEnd(text, p)
    BY <2>1
  <2> QED
    BY <2>1, <2>2
<1>2. ASSUME NEW a, NEW p, At(a, p) PROVE p \in Nat /\ a.start \in Nat /\ a.end \in 0..Len(text)
  <2>1. p \in Nat /\ p + 1 \in Nat /\ p + 1 <= Len(text)
    BY <1>2 DEF Positions
  <2>2. MatchStart(text, p) \in 0..p
    BY <1>2, <2>1, HeadingStarts
  <2>3. NextInk(text, p + 1) \in (p + 1)..Len(text)
    BY <2>1, NextIsInside
  <2>4. NextNewline(text, NextInk(text, p + 1)) \in NextInk(text, p + 1)..Len(text)
    BY <2>1, <2>3, NextIsInside
  <2> QED
    BY <1>2, <2>1, <2>2, <2>3, <2>4 DEF MatchEnd
<1>3. ASSUME NEW a \in anchs, NEW b \in anchs, a.start = b.start PROVE a.item = b.item
  <2>1. PICK p, q : At(a, p) /\ At(b, q)
    BY <1>1
  <2>2. p \in Nat /\ q \in Nat
    BY <1>2, <2>1
  <2>3. MatchStart(text, p) \in Nat /\ MatchStart(text, q) \in Nat
    BY <1>2, <2>1
  <2>4. MatchStart(text, p) = MatchStart(text, q) /\ IsHeading(text, p) /\ IsHeading(text, q)
    BY <1>3, <2>1
  <2>5. ~(p < q) /\ ~(q < p)
    <3> HIDE DEF At
    <3> QED
      BY <2>2, <2>3, <2>4, StartsDiffer
  <2>6. p = q
    BY <2>2, <2>5
  <2> QED
    BY <2>1, <2>6
<1>4. IsFiniteSet(ItemsOf(anchs))
  <2> DEFINE P == {p \in Positions(text) : \E a \in anchs : a.item = Char(text, p)}
             f == [p \in P |-> Char(text, p)]
  <2>1. IsFiniteSet(P)
    <3>1. Len(text) - 1 \in Int /\ 0 \in Int
      OBVIOUS
    <3>2. IsFiniteSet(0..(Len(text) - 1))
      BY <3>1, FS_Interval
    <3>3. P \subseteq 0..(Len(text) - 1)
      BY DEF Positions
    <3> HIDE DEF P
    <3> QED
      BY <3>2, <3>3, FS_Subset
  <2>2. \A i \in ItemsOf(anchs) : \E p \in P : f[p] = i
    BY <1>1 DEF ItemsOf
  <2>3. f \in [P -> ItemsOf(anchs)]
    BY DEF ItemsOf
  <2> HIDE DEF f, P
  <2>4. f \in Surjection(P, ItemsOf(anchs))
    BY <2>2, <2>3 DEF Surjection
  <2> QED
    BY <2>1, <2>4, FS_Surjection
<1> QED
  BY <1>1, <1>2, <1>3, <1>4 DEF AreAnchors

-----------------------------------------------------------------------------
(* A record as a slice makes it: a range of a text, and what the text has there. *)
Fields == {"item", "at", "from", "to", "content", "status"}
Held(r, text) ==
  /\ DOMAIN r = Fields
  /\ r.from \in 0..Len(text) /\ r.to \in r.from..Len(text)
  /\ r.content = Part(text, r.from, r.to)

(* A sequence of n elements, of whatever kind.                             *)
IsList(s, n) == DOMAIN s = 1..n /\ s = [i \in 1..n |-> s[i]]

LEMMA LongestIs ==
  ASSUME NEW group, group # {}, NEW length, NEW bound \in Nat,
         \A a \in group : a.start \in Nat /\ length[a] \in Int /\ length[a] <= bound
  PROVE  /\ Longest(group, length) \in group
         /\ \A b \in group :
              \/ length[Longest(group, length)] > length[b]
              \/ length[Longest(group, length)] = length[b] /\ Longest(group, length).start <= b.start
<1> DEFINE Lacks == {bound - length[a] : a \in group}
<1>1. Lacks \subseteq Nat /\ Lacks # {}
  OBVIOUS
<1>2. PICK m \in Lacks : \A k \in Lacks : m <= k
  <2> HIDE DEF Lacks
  <2> QED
    BY <1>1, LeastNumber
<1>3. PICK best \in group : m = bound - length[best]
  OBVIOUS
<1>4. \A b \in group : length[best] >= length[b]
  <2> TAKE b \in group
  <2>1. bound - length[b] \in Lacks
    OBVIOUS
  <2>2. m <= bound - length[b]
    BY <1>2, <2>1
  <2> QED
    BY <1>3, <2>2
<1> DEFINE Starts == {a.start : a \in {b \in group : length[b] = length[best]}}
<1>5. Starts \subseteq Nat /\ Starts # {}
  OBVIOUS
<1>6. PICK s \in Starts : \A k \in Starts : s <= k
  <2> HIDE DEF Starts
  <2> QED
    BY <1>5, LeastNumber
<1>7. PICK first \in group : length[first] = length[best] /\ first.start = s
  OBVIOUS
<1>8. \A b \in group :
        length[first] > length[b] \/ (length[first] = length[b] /\ first.start <= b.start)
  <2> TAKE b \in group
  <2>1. CASE length[b] = length[best]
    <3>1. b.start \in Starts
      BY <2>1
    <3> QED
      BY <1>6, <1>7, <2>1, <3>1
  <2>2. CASE length[b] # length[best]
    BY <1>4, <1>7, <2>2
  <2> QED
    BY <2>1, <2>2
<1> QED
  BY <1>8 DEF Longest

LEMMA NextStartIs ==
  ASSUME NEW text, NEW length \in Nat, Len(text) = length, NEW anchs, NEW a,
         AreAnchors(anchs, length)
  PROVE  NextStart(text, anchs, a) \in 0..length
<1> DEFINE T == {b.start : b \in {c \in anchs : c.start > a.start}} \cup {length}
<1>1. T \subseteq Nat /\ length \in T
  BY DEF AreAnchors
<1>2. Min(T) \in T /\ \A k \in T : Min(T) <= k
  <2> HIDE DEF T
  <2> QED
    BY <1>1, MinIs
<1>3. Min(T) \in Nat /\ Min(T) <= length
  <2> HIDE DEF T
  <2> QED
    BY <1>1, <1>2
<1> QED
  BY <1>3 DEF NextStart

LEMMA BodyStartIs ==
  ASSUME NEW W, NEW text \in Seq(W), NEW a, a.end \in 0..Len(text), NEW next \in Nat
  PROVE  BodyStart(text, a, next) \in 0..Len(text)
<1>1. a.end \in Nat /\ a.end <= Len(text)
  OBVIOUS
<1>2. NextNewline(text, a.end) \in a.end..Len(text)
  BY <1>1, NextIsInside
<1> QED
  BY <1>1, <1>2 DEF BodyStart

LEMMA TrimmedIs ==
  ASSUME NEW W, NEW body \in Seq(W)
  PROVE  \E m \in 0..Len(body) : Trimmed(body) = Part(body, 0, m)
<1> DEFINE ink == BlankBefore(body, Len(body))
           T == {q \in 0..ink : \A r \in q..(ink - 1) : Char(body, r) = "9"}
           digits == Min(T)
           numbered == /\ 0 < digits /\ digits < ink /\ ink - digits <= 4
                       /\ Char(body, digits - 1) = "n"
           m == IF numbered THEN BlankBefore(body, digits) ELSE ink
<1>1. Trimmed(body) = Part(body, 0, m)
  BY DEF Trimmed
<1>2. Len(body) \in Nat /\ ink \in 0..Len(body)
  <2>1. Len(body) \in Nat
    OBVIOUS
  <2> QED
    BY <2>1, BlankIs
<1>3. digits \in 0..ink
  <2>1. ink \in T /\ T \subseteq 0..ink
    BY <1>2
  <2>2. T \subseteq Nat
    BY <1>2, <2>1
  <2>3. Min(T) \in T
    <3> HIDE DEF T, ink
    <3> QED
      BY <2>1, <2>2, MinIs
  <2> QED
    BY <2>1, <2>3
<1>4. digits \in Nat
  <2> HIDE DEF digits, ink
  <2> QED
    BY <1>2, <1>3
<1>5. BlankBefore(body, digits) \in 0..digits
  BY <1>4, BlankIs
<1>6. m \in 0..Len(body)
  <2> HIDE DEF digits, ink
  <2> QED
    BY <1>2, <1>3, <1>4, <1>5
<1> HIDE DEF m
<1> QED
  BY <1>1, <1>6

LEMMA SliceHeld ==
  ASSUME NEW W, NEW text \in Seq(W), NEW anchs, AreAnchors(anchs, Len(text)),
         NEW item \in ItemsOf(anchs)
  PROVE  Held(SliceOf(text, anchs, item), text)
<1> DEFINE next == [a \in anchs |-> NextStart(text, anchs, a)]
           from == [a \in anchs |-> BodyStart(text, a, next[a])]
           length == [b \in anchs |-> next[b] - from[b]]
<1>1. ASSUME NEW a \in anchs PROVE next[a] \in 0..Len(text) /\ from[a] \in 0..Len(text)
  <2>1. Len(text) \in Nat
    OBVIOUS
  <2>2. next[a] \in 0..Len(text)
    BY <2>1, NextStartIs
  <2>3. a.end \in 0..Len(text)
    BY DEF AreAnchors
  <2>4. next[a] \in Nat
    BY <2>1, <2>2
  <2>5. BodyStart(text, a, next[a]) \in 0..Len(text)
    <3> HIDE DEF next
    <3> QED
      BY <2>3, <2>4, BodyStartIs
  <2> QED
    BY <2>2, <2>5
<1>2. PICK best \in anchs : best = Longest(GroupOf(anchs, item), length)
  <2>1. GroupOf(anchs, item) # {} /\ GroupOf(anchs, item) \subseteq anchs
    BY DEF GroupOf, ItemsOf
  <2>2. \A a \in anchs : a.start \in Nat /\ length[a] \in Int /\ length[a] <= Len(text)
    <3> TAKE a \in anchs
    <3>1. length[a] = next[a] - from[a]
      OBVIOUS
    <3>2. a.start \in Nat
      BY DEF AreAnchors
    <3>3. next[a] \in 0..Len(text) /\ from[a] \in 0..Len(text) /\ Len(text) \in Nat
      BY <1>1
    <3> HIDE DEF next, from, length
    <3> QED
      BY <3>1, <3>2, <3>3
  <2>3. Len(text) \in Nat
    OBVIOUS
  <2>4. Longest(GroupOf(anchs, item), length) \in GroupOf(anchs, item)
    <3> HIDE DEF length
    <3> QED
      BY <2>1, <2>2, <2>3, LongestIs
  <2> QED
    BY <2>1, <2>4
<1>3. PICK f \in 0..Len(text), n \in 0..Len(text) : f = from[best] /\ n = next[best]
  BY <1>1
<1>4. PICK body : body = Part(text, f, n)
  OBVIOUS
<1> DEFINE short == Len(body) < ShortBody
           content == IF short THEN Trimmed(body) ELSE body
           r == SliceOf(text, anchs, item)
<1>5. r = [item |-> item, at |-> best.start, from |-> f,
           to |-> IF short THEN f + Len(content) ELSE n,
           content |-> content, status |-> DefaultStatus(content)]
  BY <1>2, <1>3, <1>4 DEF SliceOf
<1> SUFFICES Held(r, text)
  OBVIOUS
<1>6. /\ DOMAIN r = Fields /\ r.from = f /\ r.content = content
      /\ r.to = IF short THEN f + Len(content) ELSE n
  BY <1>5 DEF Fields
<1> HIDE DEF next, from, length, r
<1>7. f \in Nat /\ n \in Nat /\ n <= Len(text) /\ ShortBody \in Nat /\ ShortBody > 0
  BY <1>3, RecordsAssumption
<1>8. body = SubSeq(text, f + 1, n) /\ body \in Seq(W)
  BY <1>7, <1>4, PartIs
<1>9. Len(body) = IF f <= n THEN n - f ELSE 0
  BY SMTT(30), <1>3, <1>7, <1>8, SubSeqIs
<1>10. CASE short
  <2>1. PICK m \in 0..Len(body) : Trimmed(body) = Part(body, 0, m)
    BY <1>8, TrimmedIs
  <2>2. content = Part(body, 0, m) /\ m \in Nat /\ m <= Len(body)
    BY <1>10, <2>1, <1>9, <1>7
  <2>3. Len(Part(body, 0, m)) = m
    <3>1. Part(body, 0, m) = SubSeq(body, 0 + 1, m)
      <4>1. 0 \in Nat /\ body \in Seq(W)
        BY <1>8
      <4>2. m <= Len(body) => Part(body, 0, m) = SubSeq(body, 0 + 1, m)
        BY <2>2, <4>1, PartIs
      <4> QED
        BY <2>2, <4>2
    <3>2. Len(SubSeq(body, 0 + 1, m)) = IF 0 <= m THEN m - 0 ELSE 0
      <4>1. 0 \in Nat /\ m \in 0..Len(body)
        BY <2>1
      <4> QED
        BY <1>8, <4>1, SubSeqIs
    <3> QED
      BY <2>2, <3>1, <3>2
  <2>4. r.to = f + m
    BY <1>6, <1>10, <2>2, <2>3
  <2>5. content = Part(text, f, f + m)
    <3>1. CASE f <= n
      <4>1. m \in 0..(n - f) /\ 0 \in Nat /\ 0 <= m /\ n \in 0..Len(text)
        BY <1>3, <1>9, <2>1, <3>1
      <4>2. Part(body, 0, m) = Part(text, f + 0, f + m)
        BY <1>7, <1>4, <3>1, <4>1, PartOfPart
      <4> QED
        BY <1>7, <2>2, <4>2
    <3>2. CASE ~(f <= n)
      <4>1. m = 0 /\ body = <<>>
        BY <1>3, <1>7, <1>8, <1>9, <2>1, <3>2, SubSeqIs
      <4>2. Part(body, 0, m) = <<>>
        BY <1>8, <2>2, <2>3, <4>1, PartIs
      <4>3. f <= Len(text)
        BY <1>3, <1>7
      <4>4. Part(text, f, f) = SubSeq(text, f + 1, f)
        BY <1>7, <4>3, PartIs
      <4>5. SubSeq(text, f + 1, f) = <<>>
        BY <1>3, <1>7, SubSeqIs
      <4>6. f + m = f
        BY <1>7, <4>1
      <4> QED
        BY <2>2, <4>2, <4>4, <4>5, <4>6
    <3> QED
      BY <3>1, <3>2
  <2>6. f + m \in f..Len(text)
    BY <1>3, <1>7, <1>9, <2>1
  <2> QED
    BY <1>3, <1>6, <2>4, <2>5, <2>6 DEF Held
<1>11. CASE ~short
  <2>1. r.to = n /\ content = Part(text, f, n)
    BY <1>6, <1>11, <1>4
  <2>2. n \in f..Len(text)
    BY <1>3, <1>7, <1>9, <1>11
  <2> QED
    BY <1>3, <1>6, <2>1, <2>2 DEF Held
<1> QED
  BY <1>10, <1>11 DEF r

(* Records in the order of their ranges are the same records.              *)
IsRangeOrder(order, recs, n) ==
  /\ ByRange(recs) = [k \in 1..n |-> recs[order[k]]]
  /\ \A i \in 1..n : \E k \in 1..n : order[k] = i
  /\ \A i, j \in 1..n : i # j => order[i] # order[j]
  /\ \A i, j \in 1..n : i < j => recs[order[i]].from <= recs[order[j]].from

LEMMA RangeOrder ==
  ASSUME NEW recs, NEW n \in Nat, Len(recs) = n, DOMAIN recs = 1..n,
         \A i \in 1..n : recs[i].from \in Int
  PROVE  \E order \in [1..n -> 1..n] : IsRangeOrder(order, recs, n)
<1>1. PICK before : before = [i \in DOMAIN recs |-> {j \in DOMAIN recs :
                      recs[j].from < recs[i].from \/ (recs[j].from = recs[i].from /\ j < i)}]
  OBVIOUS
<1>2. \A x, y \in 1..n : x \in before[y] <=>
        recs[x].from < recs[y].from \/ (recs[x].from = recs[y].from /\ x < y)
  BY <1>1
<1>3. IsOrder(1..n, before)
  <2>1. IsFiniteSet(1..n)
    <3>1. 1 \in Int /\ n \in Int
      OBVIOUS
    <3> QED
      BY <3>1, FS_Interval
  <2>2. \A x \in 1..n : before[x] \subseteq 1..n
    BY <1>1
  <2>3. \A x \in 1..n : x \notin before[x]
    BY <1>2
  <2>4. \A x, y \in 1..n : x = y \/ x \in before[y] \/ y \in before[x]
    BY <1>2
  <2>5. \A x, y \in 1..n : x \in before[y] => before[x] \subseteq before[y]
    <3> SUFFICES ASSUME NEW x \in 1..n, NEW y \in 1..n, x \in before[y], NEW z \in before[x]
                 PROVE  z \in before[y]
      OBVIOUS
    <3>1. z \in 1..n
      BY <2>2
    <3> QED
      BY <1>2, <3>1
  <2> QED
    BY <2>1, <2>2, <2>3, <2>4, <2>5 DEF IsOrder
<1>4. Cardinality(1..n) = n
  BY FS_Interval
<1>5. PICK order : order = InOrder(1..n, before)
  OBVIOUS
<1>6. /\ order \in [1..n -> 1..n]
      /\ \A i, j \in 1..n : i < j => order[i] \in before[order[j]]
  BY <1>3, <1>4, <1>5, InOrderLists
<1>7. /\ \A x \in 1..n : \E k \in 1..n : order[k] = x
      /\ \A i, j \in 1..n : i # j => order[i] # order[j]
  <2>1. PICK places : places = 1..n
    OBVIOUS
  <2>2. IsOrder(places, before) /\ n = Cardinality(places) /\ order = InOrder(places, before)
    BY <1>3, <1>4, <1>5, <2>1
  <2>3. /\ \A x \in places : \E k \in 1..n : order[k] = x
        /\ \A i, j \in 1..n : i # j => order[i] # order[j]
    BY <2>2, InOrderOnto
  <2> QED
    BY <2>1, <2>3
<1>8. ByRange(recs) = [k \in 1..n |-> recs[order[k]]]
  BY <1>1, <1>5 DEF ByRange
<1>9. \A i, j \in 1..n : i < j => recs[order[i]].from <= recs[order[j]].from
  <2> SUFFICES ASSUME NEW i \in 1..n, NEW j \in 1..n, i < j
               PROVE  recs[order[i]].from <= recs[order[j]].from
    OBVIOUS
  <2>1. order[i] \in 1..n /\ order[j] \in 1..n /\ order[i] \in before[order[j]]
    BY <1>6
  <2>2. PICK x, y : x = order[i] /\ y = order[j]
    OBVIOUS
  <2>3. x \in 1..n /\ y \in 1..n /\ x \in before[y]
    BY <2>1, <2>2
  <2>4. recs[x].from < recs[y].from \/ (recs[x].from = recs[y].from /\ x < y)
    BY <1>2, <2>3
  <2>5. recs[x].from <= recs[y].from
    BY <2>3, <2>4
  <2> QED
    BY <2>2, <2>5
<1> QED
  BY <1>6, <1>7, <1>8, <1>9 DEF IsRangeOrder

LEMMA ByRangeIs ==
  ASSUME NEW recs, NEW n \in Nat, Len(recs) = n, DOMAIN recs = 1..n,
         \A i \in 1..n : recs[i].from \in Int
  PROVE  /\ IsList(ByRange(recs), n)
         /\ \A k \in 1..n : \E i \in 1..n : ByRange(recs)[k] = recs[i]
<1>1. PICK order \in [1..n -> 1..n] : IsRangeOrder(order, recs, n)
  BY RangeOrder
<1>2. ByRange(recs) = [k \in 1..n |-> recs[order[k]]]
  BY <1>1 DEF IsRangeOrder
<1>3. PICK out : out = ByRange(recs)
  OBVIOUS
<1>4. IsList(out, n) /\ \A k \in 1..n : out[k] = recs[order[k]]
  BY <1>2, <1>3 DEF IsList
<1> QED
  BY <1>3, <1>4

(* Records that are in order stay where they are.                          *)
LEMMA SortedStay ==
  ASSUME NEW recs, NEW n \in Nat, Len(recs) = n, IsList(recs, n),
         \A i \in 1..n : recs[i].from \in Int,
         \A i, j \in 1..n : i < j => recs[i].from <= recs[j].from
  PROVE  ByRange(recs) = recs
<1>1. DOMAIN recs = 1..n /\ recs = [i \in 1..n |-> recs[i]]
  BY DEF IsList
<1>2. PICK before : before = [i \in DOMAIN recs |-> {j \in DOMAIN recs :
                      recs[j].from < recs[i].from \/ (recs[j].from = recs[i].from /\ j < i)}]
  OBVIOUS
<1>3. \A i \in 1..n : before[i] = 1..(i - 1)
  <2> TAKE i \in 1..n
  <2>1. before[i] = {j \in 1..n :
          recs[j].from < recs[i].from \/ (recs[j].from = recs[i].from /\ j < i)}
    BY <1>1, <1>2
  <2>2. ASSUME NEW j \in 1..n, j < i
        PROVE  recs[j].from < recs[i].from \/ (recs[j].from = recs[i].from /\ j < i)
    <3>1. recs[j].from <= recs[i].from /\ recs[j].from \in Int /\ recs[i].from \in Int
      BY <2>2
    <3> QED
      BY <2>2, <3>1
  <2>3. ASSUME NEW j \in 1..n,
               recs[j].from < recs[i].from \/ (recs[j].from = recs[i].from /\ j < i)
        PROVE  j < i
    <3>1. CASE i < j
      <4>1. recs[i].from <= recs[j].from /\ recs[j].from \in Int /\ recs[i].from \in Int
        BY <3>1
      <4> QED
        BY <2>3, <3>1, <4>1
    <3>2. CASE i = j
      <4>1. recs[j].from \in Int
        OBVIOUS
      <4> QED
        BY <2>3, <3>2, <4>1
    <3> QED
      BY <3>1, <3>2
  <2>4. \A j : j \in 1..(i - 1) <=> j \in 1..n /\ j < i
    OBVIOUS
  <2> QED
    BY <2>1, <2>2, <2>3, <2>4
<1>4. \A i \in 1..n : Cardinality(before[i]) = i - 1
  <2> TAKE i \in 1..n
  <2>1. 1 \in Int /\ i - 1 \in Int
    OBVIOUS
  <2>2. Cardinality(1..(i - 1)) = IF 1 > i - 1 THEN 0 ELSE i - 1 - 1 + 1
    BY <2>1, FS_Interval
  <2> QED
    BY <1>3, <2>1, <2>2
<1>5. Cardinality(1..n) = n
  BY FS_Interval
<1>6. ASSUME NEW k \in 1..n
      PROVE  (CHOOSE x \in 1..n : Cardinality(before[x]) = k - 1) = k
  <2>1. \A x \in 1..n : Cardinality(before[x]) = k - 1 <=> x = k
    BY <1>4
  <2> QED
    BY <2>1
<1>7. InOrder(1..n, before) = [k \in 1..n |-> k]
  BY <1>5, <1>6 DEF InOrder
<1>8. ByRange(recs) = [k \in 1..n |-> recs[[i \in 1..n |-> i][k]]]
  BY <1>1, <1>2, <1>7 DEF ByRange
<1> QED
  BY <1>1, <1>8

AreItems(items, text, anchs, n) ==
  /\ SliceItems(text, anchs) = ByRange([k \in 1..n |-> SliceOf(text, anchs, items[k])])
  /\ \A i \in ItemsOf(anchs) : \E k \in 1..n : items[k] = i
  /\ \A i, j \in 1..n : i # j => items[i] # items[j]

LEMMA ItemsInOrder ==
  ASSUME NEW text, NEW length, NEW anchs, AreAnchors(anchs, length)
  PROVE  \E n \in Nat : \E items \in [1..n -> ItemsOf(anchs)] : AreItems(items, text, anchs, n)
<1> DEFINE S == ItemsOf(anchs)
           first == [i \in S |-> Min({a.start : a \in GroupOf(anchs, i)})]
           before == [i \in S |-> {j \in S : first[j] < first[i]}]
           items == InOrder(S, before)
<1>1. ASSUME NEW i \in S PROVE \E a \in anchs : a.item = i /\ first[i] = a.start /\ a.start \in Nat
  <2> DEFINE T == {a.start : a \in GroupOf(anchs, i)}
  <2>1. T \subseteq Nat /\ T # {}
    BY DEF GroupOf, ItemsOf, AreAnchors
  <2>2. Min(T) \in T
    <3> HIDE DEF T
    <3> QED
      BY <2>1, MinIs
  <2>3. PICK a \in GroupOf(anchs, i) : first[i] = a.start
    BY <2>2
  <2> QED
    BY <2>3 DEF GroupOf, AreAnchors
<1>2. \A i \in S : first[i] \in Nat
  BY <1>1
<1>3. \A i, j \in S : first[i] = first[j] => i = j
  BY <1>1 DEF AreAnchors
<1>4. IsOrder(S, before)
  <2>1. IsFiniteSet(S)
    BY DEF AreAnchors
  <2>2. \A x, y \in S : x \in before[y] <=> first[x] < first[y]
    OBVIOUS
  <2>3. \A x \in S : before[x] \subseteq S
    OBVIOUS
  <2> HIDE DEF before, S, first
  <2>4. \A x \in S : x \notin before[x]
    BY <1>2, <2>2
  <2>5. \A x, y \in S : x = y \/ x \in before[y] \/ y \in before[x]
    <3> TAKE x, y \in S
    <3>1. first[x] \in Nat /\ first[y] \in Nat /\ (first[x] = first[y] => x = y)
      BY <1>2, <1>3
    <3>2. first[x] = first[y] \/ first[x] < first[y] \/ first[y] < first[x]
      BY <3>1
    <3> QED
      BY <2>2, <3>1, <3>2
  <2>6. \A x, y \in S : x \in before[y] => before[x] \subseteq before[y]
    <3> SUFFICES ASSUME NEW x \in S, NEW y \in S, x \in before[y], NEW z \in before[x]
                 PROVE  z \in before[y]
      OBVIOUS
    <3>1. z \in S
      BY <2>3
    <3>2. first[z] < first[x] /\ first[x] < first[y]
      BY <2>2, <3>1
    <3>3. first[x] \in Nat /\ first[y] \in Nat /\ first[z] \in Nat
      BY <1>2, <3>1
    <3> QED
      BY <2>2, <3>1, <3>2, <3>3
  <2> QED
    BY <2>1, <2>3, <2>4, <2>5, <2>6 DEF IsOrder
<1>5. PICK n \in Nat : n = Cardinality(S) /\ items \in [1..n -> S]
  <2> HIDE DEF before, S
  <2> QED
    BY <1>4, InOrderLists
<1>6. /\ \A i \in S : \E k \in 1..n : items[k] = i
      /\ \A i, j \in 1..n : i # j => items[i] # items[j]
  <2> HIDE DEF before, S
  <2> QED
    BY <1>4, <1>5, InOrderOnto
<1>7. SliceItems(text, anchs) = ByRange([k \in DOMAIN items |-> SliceOf(text, anchs, items[k])])
  BY DEF SliceItems
<1> HIDE DEF items
<1>8. DOMAIN items = 1..n
  BY <1>5
<1>9. AreItems(items, text, anchs, n)
  BY <1>5, <1>6, <1>7, <1>8 DEF AreItems
<1> QED
  BY <1>5, <1>9

LEMMA SliceItemsHeld ==
  ASSUME NEW W, NEW text \in Seq(W), NEW anchs, AreAnchors(anchs, Len(text))
  PROVE  \E n \in Nat : /\ IsList(SliceItems(text, anchs), n)
                        /\ \A i \in 1..n : Held(SliceItems(text, anchs)[i], text)
<1>1. PICK n \in Nat : \E items \in [1..n -> ItemsOf(anchs)] : AreItems(items, text, anchs, n)
  BY ItemsInOrder
<1>2. PICK items \in [1..n -> ItemsOf(anchs)] :
        SliceItems(text, anchs) = ByRange([k \in 1..n |-> SliceOf(text, anchs, items[k])])
  BY <1>1 DEF AreItems
<1>3. PICK cut : cut = [k \in 1..n |-> SliceOf(text, anchs, items[k])]
  OBVIOUS
<1>4. /\ DOMAIN cut = 1..n
      /\ \A k \in 1..n : cut[k] = SliceOf(text, anchs, items[k]) /\ items[k] \in ItemsOf(anchs)
  BY <1>2, <1>3
<1>5. \A k \in 1..n : Held(cut[k], text)
  BY <1>4, SliceHeld
<1>6. SliceItems(text, anchs) = ByRange(cut)
  BY <1>2, <1>3
<1>7. Len(cut) = n
  BY <1>4, <1>3
<1>8. \A k \in 1..n : cut[k].from \in Int
  <2> TAKE k \in 1..n
  <2>1. cut[k].from \in 0..Len(text) /\ Len(text) \in Nat
    BY <1>5 DEF Held
  <2> QED
    BY <2>1
<1>9. /\ IsList(ByRange(cut), n)
       /\ \A k \in 1..n : \E i \in 1..n : ByRange(cut)[k] = cut[i]
  BY ZenonT(30), <1>4, <1>7, <1>8, ByRangeIs
<1>10. \A k \in 1..n : Held(ByRange(cut)[k], text)
  BY <1>5, <1>9
<1> QED
  BY <1>6, <1>9, <1>10

-----------------------------------------------------------------------------
(* Segments of a body: where they begin, in order.                         *)
AreCuts(spans, length) ==
  \E n \in Nat :
    /\ DOMAIN spans = 1..n /\ Len(spans) = n
    /\ \A i \in 1..n : spans[i].at \in 0..length
    /\ \A i, j \in 1..n : i < j => spans[i].at < spans[j].at

LEMMA CutsInOrder ==
  ASSUME NEW spans, NEW n \in Nat, DOMAIN spans = 1..n, Len(spans) = n,
         NEW length \in Nat, \A i \in 1..n : spans[i].at \in 0..length, Increasing(spans)
  PROVE  AreCuts(spans, length)
<1>1. \A i \in 2..n : spans[i].at > spans[i - 1].at
  BY DEF Increasing
<1>2. ASSUME NEW i \in 1..n, NEW j \in 1..n, i < j PROVE spans[i].at < spans[j].at
  <2> DEFINE Bad == {k \in (i + 1)..n : ~(spans[i].at < spans[k].at)}
  <2>1. CASE Bad # {}
    <3>1. PICK k \in Bad : \A l \in Bad : k <= l
      <4>1. Bad \subseteq Nat
        OBVIOUS
      <4> HIDE DEF Bad
      <4> QED
        BY <2>1, <4>1, LeastNumber
    <3>2. k \in 2..n /\ k - 1 \in 1..n /\ k - 1 >= i
      OBVIOUS
    <3>3. spans[k].at > spans[k - 1].at
      BY <1>1, <3>2
    <3>4. spans[i].at \in 0..length /\ spans[k].at \in 0..length /\ spans[k - 1].at \in 0..length
      BY <3>2
    <3>5. CASE k - 1 = i
      BY <3>3, <3>4, <3>5
    <3>6. CASE k - 1 > i
      <4>1. k - 1 \notin Bad /\ k - 1 \in (i + 1)..n
        BY <3>1, <3>2, <3>6
      <4>2. spans[i].at < spans[k - 1].at
        BY <4>1
      <4> QED
        BY <3>3, <3>4, <4>2
    <3> QED
      BY <3>2, <3>5, <3>6
  <2>2. CASE Bad = {}
    <3>1. j \in (i + 1)..n
      BY <1>2
    <3> QED
      BY <2>2, <3>1
  <2> QED
    BY <2>1, <2>2
<1> QED
  BY <1>2 DEF AreCuts

LEMMA SpansAreInside ==
  ASSUME NEW W, NEW body \in Seq(W), NEW segs,
         \A i \in DOMAIN segs : IsSequence(segs[i].starts), Accepted(body, segs)
  PROVE  \A i \in DOMAIN segs : SpansOf(body, segs)[i].at \in 0..Len(body)
<1> SUFFICES ASSUME NEW i \in DOMAIN segs PROVE SpansOf(body, segs)[i].at \in 0..Len(body)
  OBVIOUS
<1>1. PICK snippet : snippet = segs[i].starts
  OBVIOUS
<1>2. Len(snippet) \in Nat
  BY <1>1 DEF IsSequence
<1>3. CountOf(body, snippet) = 1
  BY <1>1 DEF Accepted, Located
<1>4. FoundAt(body, snippet) # {}
  <2> SUFFICES ASSUME FoundAt(body, snippet) = {} PROVE FALSE
    OBVIOUS
  <2> DEFINE counted[p \in FoundAt(body, snippet)] ==
        \A q \in FoundAt(body, snippet) : q < p /\ p < q + Len(snippet) => ~counted[q]
  <2>1. CountOf(body, snippet) = Cardinality({p \in FoundAt(body, snippet) : counted[p]})
    BY Zenon DEF CountOf
  <2> HIDE DEF counted
  <2>2. {p \in FoundAt(body, snippet) : counted[p]} = {}
    OBVIOUS
  <2>3. Cardinality({}) = 0
    BY FS_EmptySet
  <2> QED
    BY <1>3, <2>1, <2>2, <2>3
<1>5. FoundAt(body, snippet) \subseteq 0..Len(body)
  BY <1>2 DEF FoundAt
<1>6. Min(FoundAt(body, snippet)) \in FoundAt(body, snippet)
  <2>1. FoundAt(body, snippet) \subseteq Nat
    BY <1>5
  <2> QED
    BY <1>4, <2>1, MinIs
<1>7. SpansOf(body, segs)[i].at = Min(FoundAt(body, snippet))
  BY <1>1 DEF SpansOf
<1> QED
  BY <1>5, <1>6, <1>7

(* The head fix: nothing, a new first segment, or one more before it.      *)
IsFixed(fixed, spans, n) ==
  \/ spans[1].at = 0 /\ fixed = spans
  \/ /\ spans[1].status = "extracted" /\ DOMAIN fixed = 1..n /\ Len(fixed) = n
     /\ fixed[1].at = 0 /\ fixed[1].status = "extracted"
     /\ \A i \in 2..n : fixed[i] = spans[i]
  \/ /\ DOMAIN fixed = 1..(n + 1) /\ Len(fixed) = n + 1
     /\ fixed[1].at = 0 /\ fixed[1].status = "extracted"
     /\ \A i \in 2..(n + 1) : fixed[i] = spans[i - 1]

LEMMA HeadFixedShape ==
  ASSUME NEW spans, NEW n \in Nat, n > 0, IsList(spans, n), Len(spans) = n,
         DOMAIN spans[1] = {"at", "status"}
  PROVE  IsFixed(HeadFixed(spans), spans, n)
<1>1. PICK fixed : fixed = HeadFixed(spans)
  OBVIOUS
<1>2. DOMAIN spans = 1..n /\ spans = [i \in 1..n |-> spans[i]]
  BY DEF IsList
<1>3. CASE spans[1].at = 0
  BY <1>3 DEF HeadFixed, IsFixed
<1>4. CASE spans[1].at # 0 /\ spans[1].status = "extracted"
  <2>1. fixed = [spans EXCEPT ![1].at = 0]
    BY <1>1, <1>4 DEF HeadFixed
  <2>2. PICK s : s = [spans[1] EXCEPT !.at = 0]
    OBVIOUS
  <2>3. s.at = 0 /\ s.status = "extracted"
    BY <1>4, <2>2
  <2>4. DOMAIN fixed = 1..n /\ fixed[1] = s /\ \A i \in 2..n : fixed[i] = spans[i]
    <3>1. fixed = [spans EXCEPT ![1] = s]
      BY <2>1, <2>2
    <3>2. 1 \in 1..n /\ \A i \in 2..n : i \in 1..n /\ i # 1
      OBVIOUS
    <3> QED
      BY <1>2, <3>1, <3>2
  <2>5. Len(fixed) = n
    BY <2>4
  <2>6. IsFixed(fixed, spans, n)
    BY <1>4, <2>3, <2>4, <2>5 DEF IsFixed
  <2> QED
    BY <1>1, <2>6
<1>5. CASE spans[1].at # 0 /\ spans[1].status # "extracted"
  <2>1. PICK head : head = [at |-> 0, status |-> "extracted"]
    OBVIOUS
  <2>2. fixed = <<head>> \o spans
    BY <1>1, <1>5, <2>1 DEF HeadFixed
  <2> DEFINE X == {spans[i] : i \in 1..n} \cup {head}
  <2>3. <<head>> \in Seq(X) /\ Len(<<head>>) = 1 /\ <<head>>[1] = head
    OBVIOUS
  <2>4. spans \in Seq(X)
    <3>1. \A i \in 1..n : spans[i] \in X
      OBVIOUS
    <3> HIDE DEF X
    <3>2. [i \in 1..n |-> spans[i]] \in Seq(X)
      BY <3>1
    <3> QED
      BY <1>2, <3>2
  <2>5. /\ fixed \in Seq(X) /\ Len(fixed) = 1 + n
        /\ fixed[1] = head /\ \A i \in 2..(n + 1) : fixed[i] = spans[i - 1]
    <3> HIDE DEF X
    <3> QED
      BY <2>2, <2>3, <2>4, ConcatProperties
  <2>6. DOMAIN fixed = 1..(n + 1) /\ Len(fixed) = n + 1
    <3> HIDE DEF X
    <3> QED
      BY <2>5
  <2>7. fixed[1].at = 0 /\ fixed[1].status = "extracted"
    BY <2>1, <2>5
  <2>8. IsFixed(fixed, spans, n)
    BY <2>5, <2>6, <2>7 DEF IsFixed
  <2> QED
    BY <1>1, <2>8
<1> QED
  BY <1>3, <1>4, <1>5

LEMMA HeadFixedIs ==
  ASSUME NEW W, NEW body \in Seq(W), NEW segs, IsSequence(segs),
         \A i \in DOMAIN segs : IsSequence(segs[i].starts), Accepted(body, segs)
  PROVE  AreCuts(HeadFixed(SpansOf(body, segs)), Len(body))
<1>1. PICK n \in Nat : n = Len(segs) /\ DOMAIN segs = 1..n /\ n > 0
  BY DEF IsSequence, Accepted
<1>2. PICK spans : spans = SpansOf(body, segs)
  OBVIOUS
<1>3. /\ DOMAIN spans = 1..n /\ Len(spans) = n /\ IsList(spans, n)
      /\ DOMAIN spans[1] = {"at", "status"}
  BY <1>1, <1>2 DEF SpansOf, IsList
<1>4. \A i \in 1..n : spans[i].at \in 0..Len(body)
  BY <1>1, <1>2, SpansAreInside
<1>5. PICK fixed : fixed = HeadFixed(spans)
  OBVIOUS
<1>6. Increasing(fixed) /\ Len(body) \in Nat
  BY <1>2, <1>5 DEF Accepted
<1>7. IsFixed(fixed, spans, n)
  BY <1>1, <1>3, <1>5, HeadFixedShape
<1>8. CASE spans[1].at = 0 /\ fixed = spans
  BY <1>2, <1>3, <1>4, <1>5, <1>6, <1>8, CutsInOrder
<1>9. CASE /\ DOMAIN fixed = 1..n /\ Len(fixed) = n /\ fixed[1].at = 0
           /\ \A i \in 2..n : fixed[i] = spans[i]
  <2>1. \A i \in 1..n : fixed[i].at \in 0..Len(body)
    BY <1>1, <1>4, <1>6, <1>9
  <2> QED
    BY <1>2, <1>5, <1>6, <1>9, <2>1, CutsInOrder
<1>10. CASE /\ DOMAIN fixed = 1..(n + 1) /\ Len(fixed) = n + 1 /\ fixed[1].at = 0
            /\ \A i \in 2..(n + 1) : fixed[i] = spans[i - 1]
  <2>1. \A i \in 1..(n + 1) : fixed[i].at \in 0..Len(body)
    <3> TAKE i \in 1..(n + 1)
    <3>1. CASE i = 1
      BY <1>6, <1>10, <3>1
    <3>2. CASE i # 1
      <4>1. i \in 2..(n + 1) /\ i - 1 \in 1..n
        BY <3>2
      <4> QED
        BY <1>4, <1>10, <4>1
    <3> QED
      BY <3>1, <3>2
  <2>2. n + 1 \in Nat
    OBVIOUS
  <2> QED
    BY <1>2, <1>5, <1>6, <1>10, <2>1, <2>2, CutsInOrder
<1> QED
  BY <1>7, <1>8, <1>9, <1>10 DEF IsFixed

(* Segments of one status become one: those kept are the first of each run. *)
IsCollapse(kept, m, spans, n) ==
  /\ Collapsed(spans) = [k \in 1..m |-> spans[kept[k]]]
  /\ \A i, j \in 1..m : i < j => kept[i] < kept[j]
  /\ \A i \in 1..n : (\E k \in 1..m : kept[k] = i) <=>
       (i = 1 \/ spans[i].status # spans[i - 1].status)

LEMMA CollapsedLists ==
  ASSUME NEW spans, NEW n \in Nat, DOMAIN spans = 1..n
  PROVE  \E m \in Nat : \E kept \in [1..m -> 1..n] : IsCollapse(kept, m, spans, n)
<1>1. PICK first : first = {i \in DOMAIN spans : i = 1 \/ spans[i].status # spans[i - 1].status}
  OBVIOUS
<1>2. PICK before : before = [i \in first |-> {j \in first : j < i}]
  OBVIOUS
<1>3. first \subseteq 1..n /\ first \subseteq Nat
  BY <1>1
<1>4. \A x, y \in first : x \in before[y] <=> x < y
  BY <1>2
<1>5. IsOrder(first, before)
  <2>1. IsFiniteSet(first)
    <3>1. 1 \in Int /\ n \in Int
      OBVIOUS
    <3>2. IsFiniteSet(1..n)
      BY <3>1, FS_Interval
    <3> QED
      BY <1>3, <3>2, FS_Subset
  <2>2. \A x \in first : before[x] \subseteq first
    BY <1>2
  <2>3. \A x \in first : x \notin before[x]
    BY <1>3, <1>4
  <2>4. \A x, y \in first : x = y \/ x \in before[y] \/ y \in before[x]
    <3> TAKE x, y \in first
    <3>1. x \in Nat /\ y \in Nat
      BY <1>3
    <3>2. x = y \/ x < y \/ y < x
      BY <3>1
    <3> QED
      BY <1>4, <3>2
  <2>5. \A x, y \in first : x \in before[y] => before[x] \subseteq before[y]
    <3> SUFFICES ASSUME NEW x \in first, NEW y \in first, x \in before[y], NEW z \in before[x]
                 PROVE  z \in before[y]
      OBVIOUS
    <3>1. z \in first /\ x < y
      BY <1>4, <2>2
    <3>2. z < x /\ x \in Nat /\ y \in Nat /\ z \in Nat
      BY <1>3, <1>4, <3>1
    <3> QED
      BY <1>4, <3>1, <3>2
  <2> QED
    BY <2>1, <2>2, <2>3, <2>4, <2>5 DEF IsOrder
<1>6. PICK m, kept : m = Cardinality(first) /\ kept = InOrder(first, before)
  OBVIOUS
<1>7. /\ m \in Nat /\ kept \in [1..m -> first]
      /\ \A i, j \in 1..m : i < j => kept[i] \in before[kept[j]]
  BY <1>5, <1>6, InOrderLists
<1>8. \A x \in first : \E k \in 1..m : kept[k] = x
  BY <1>5, <1>6, InOrderOnto
<1>9. Collapsed(spans) = [k \in 1..m |-> spans[kept[k]]]
  BY <1>1, <1>2, <1>6, <1>7 DEF Collapsed
<1>10. \A i, j \in 1..m : i < j => kept[i] < kept[j]
  BY <1>4, <1>7
<1>11. \A i \in 1..n : (\E k \in 1..m : kept[k] = i) <=>
         (i = 1 \/ spans[i].status # spans[i - 1].status)
  <2>1. \A i \in 1..n : i \in first <=> (i = 1 \/ spans[i].status # spans[i - 1].status)
    BY <1>1
  <2> QED
    BY <1>7, <1>8, <2>1
<1>12. kept \in [1..m -> 1..n]
  BY <1>3, <1>7
<1> QED
  BY <1>7, <1>9, <1>10, <1>11, <1>12 DEF IsCollapse

(* Between the segments that are kept the status is that of the one before. *)
LEMMA OneStatus ==
  ASSUME NEW spans, NEW n \in Nat, NEW m \in Nat, NEW kept \in [1..m -> 1..n],
         IsCollapse(kept, m, spans, n), NEW k \in 1..m, NEW i \in 1..n, kept[k] <= i,
         k < m => i < kept[k + 1]
  PROVE  spans[i].status = spans[kept[k]].status
<1>1. PICK a \in 1..n : a = kept[k]
  OBVIOUS
<1> DEFINE Bad == {j \in a..i : spans[j].status # spans[a].status}
<1>2. CASE Bad # {}
  <2>1. PICK j \in Bad : \A l \in Bad : j <= l
    <3>1. Bad \subseteq Nat
      OBVIOUS
    <3> HIDE DEF Bad
    <3> QED
      BY <1>2, <3>1, LeastNumber
  <2>2. j \in (a + 1)..i /\ j \in 1..n /\ j - 1 \in a..i
    BY <2>1
  <2>3. spans[j].status # spans[a].status
    BY <2>1
  <2>4. spans[j - 1].status = spans[a].status
    <3>1. j - 1 \notin Bad
      BY <2>1, <2>2
    <3> QED
      BY <2>2, <3>1
  <2>5. PICK l \in 1..m : kept[l] = j
    BY <2>2, <2>3, <2>4 DEF IsCollapse
  <2>6. k < l
    <3>1. CASE l < k
      <4>1. kept[l] < kept[k]
        BY <3>1 DEF IsCollapse
      <4> QED
        BY <1>1, <2>2, <2>5, <4>1
    <3>2. CASE l = k
      BY <1>1, <2>2, <2>5, <3>2
    <3> QED
      BY <3>1, <3>2
  <2>7. k < m /\ k + 1 \in 1..m
    BY <2>6
  <2>8. kept[k + 1] <= j
    <3>1. CASE k + 1 < l
      <4>1. kept[k + 1] < kept[l] /\ kept[k + 1] \in 1..n
        BY <2>7, <3>1 DEF IsCollapse
      <4> QED
        BY <2>5, <4>1
    <3>2. CASE k + 1 = l
      BY <2>5, <2>7, <3>2
    <3> QED
      BY <2>6, <3>1, <3>2
  <2>9. i < kept[k + 1] /\ kept[k + 1] \in 1..n
    BY <2>7
  <2> QED
    BY <2>2, <2>8, <2>9
<1>3. CASE Bad = {}
  <2>1. i \in a..i
    BY <1>1
  <2> QED
    BY <1>1, <1>3, <2>1
<1> QED
  BY <1>2, <1>3

LEMMA CollapsedIs ==
  ASSUME NEW spans, NEW length \in Nat, AreCuts(spans, length)
  PROVE  AreCuts(Collapsed(spans), length)
<1>1. PICK n \in Nat :
        /\ DOMAIN spans = 1..n /\ Len(spans) = n
        /\ \A i \in 1..n : spans[i].at \in 0..length
        /\ \A i, j \in 1..n : i < j => spans[i].at < spans[j].at
  BY DEF AreCuts
<1>2. PICK m \in Nat : \E kept \in [1..m -> 1..n] : IsCollapse(kept, m, spans, n)
  BY <1>1, CollapsedLists
<1>3. PICK kept \in [1..m -> 1..n] : IsCollapse(kept, m, spans, n)
  BY <1>2
<1>4. PICK out : out = Collapsed(spans)
  OBVIOUS
<1>5. /\ out = [k \in 1..m |-> spans[kept[k]]]
      /\ \A i, j \in 1..m : i < j => kept[i] < kept[j]
  BY <1>3, <1>4 DEF IsCollapse
<1>6. DOMAIN out = 1..m /\ Len(out) = m /\ \A k \in 1..m : out[k] = spans[kept[k]]
  BY <1>5
<1>7. \A k \in 1..m : out[k].at \in 0..length
  BY <1>1, <1>6
<1>8. \A i, j \in 1..m : i < j => out[i].at < out[j].at
  BY <1>1, <1>5, <1>6
<1>9. AreCuts(out, length)
  BY <1>6, <1>7, <1>8 DEF AreCuts
<1> QED
  BY <1>4, <1>9

(* The pieces of a record hold the content of their ranges.                *)
LEMMA MergeHeld ==
  ASSUME NEW text, IsSequence(text), NEW record, Held(record, text), NEW segs, IsSequence(segs),
         \A i \in DOMAIN segs : IsSequence(segs[i].starts)
  PROVE  \E n \in Nat : /\ IsList(MergeSegments(record, segs), n)
                        /\ \A k \in 1..n : Held(MergeSegments(record, segs)[k], text)
<1> DEFINE out == MergeSegments(record, segs)
<1>1. PICK body : body = record.content
  OBVIOUS
<1>2. CASE ~Accepted(body, segs)
  <2>1. out = <<record>>
    BY <1>1, <1>2 DEF MergeSegments
  <2>2. IsList(<<record>>, 1) /\ <<record>>[1] = record
    BY DEF IsList
  <2>3. IsList(out, 1) /\ \A k \in 1..1 : Held(out[k], text)
    BY <2>1, <2>2
  <2> HIDE DEF out
  <2>4. 1 \in Nat
    OBVIOUS
  <2>5. \E n \in Nat : IsList(out, n) /\ \A k \in 1..n : Held(out[k], text)
    BY <2>3, <2>4
  <2> QED
    BY <2>5 DEF out
<1>3. CASE Accepted(body, segs)
  <2>1. PICK W : text \in Seq(W)
    BY DEF IsSequence
  <2>2. PICK from \in Nat, to \in Nat :
          /\ from = record.from /\ to = record.to /\ body = Part(text, from, to)
          /\ from <= to /\ to <= Len(text)
    <3>1. Len(text) \in Nat
      BY <2>1
    <3>2. /\ record.from \in 0..Len(text) /\ record.to \in record.from..Len(text)
          /\ body = Part(text, record.from, record.to)
      BY <1>1 DEF Held
    <3>3. record.from \in Nat /\ record.to \in Nat /\ record.from <= record.to /\ record.to <= Len(text)
      BY <3>1, <3>2
    <3> QED
      BY Zenon, <3>2, <3>3
  <2>3. Len(text) \in Nat
    BY <2>1
  <2>4. body = SubSeq(text, from + 1, to) /\ body \in Seq(W)
    BY <2>1, <2>2, PartIs
  <2>5. Len(body) = to - from
    <3>1. to \in 0..Len(text)
      BY <2>2, <2>3
    <3>2. Len(SubSeq(text, from + 1, to)) = IF from <= to THEN to - from ELSE 0
      BY <2>1, <3>1, SubSeqIs
    <3> QED
      BY <2>2, <2>4, <3>2
  <2>6. PICK spans : spans = Collapsed(HeadFixed(SpansOf(body, segs)))
    OBVIOUS
  <2>7. AreCuts(spans, to - from)
    <3>1. AreCuts(HeadFixed(SpansOf(body, segs)), Len(body))
      BY <1>3, <2>4, HeadFixedIs
    <3>2. AreCuts(spans, Len(body))
      BY <2>4, <2>6, <3>1, CollapsedIs
    <3> QED
      BY <2>5, <3>2
  <2>8. PICK n \in Nat :
          /\ DOMAIN spans = 1..n /\ Len(spans) = n
          /\ \A i \in 1..n : spans[i].at \in 0..(to - from)
          /\ \A i, j \in 1..n : i < j => spans[i].at < spans[j].at
    BY <2>7 DEF AreCuts
  <2> DEFINE EndOf(k) == IF k < Len(spans) THEN spans[k + 1].at ELSE Len(body)
             piece(k) == [record EXCEPT !.from = record.from + spans[k].at,
                                        !.to = record.from + EndOf(k),
                                        !.content = Part(body, spans[k].at, EndOf(k)),
                                        !.status = spans[k].status]
  <2>9. out = [k \in 1..n |-> piece(k)]
    BY <1>1, <1>3, <2>6, <2>8 DEF MergeSegments
  <2>10. ASSUME NEW k \in 1..n PROVE Held(piece(k), text)
    <3>1. PICK x \in Nat, y \in Nat : /\ x = spans[k].at /\ y = EndOf(k)
                                      /\ x <= y /\ y <= to - from
      <4>1. spans[k].at \in 0..(to - from)
        BY <2>8
      <4>2. CASE k < n
        <5>1. k + 1 \in 1..n /\ k < k + 1
          BY <4>2
        <5>2. spans[k + 1].at \in 0..(to - from) /\ spans[k].at < spans[k + 1].at
          BY <2>8, <5>1
        <5> QED
          BY <2>2, <2>8, <4>1, <4>2, <5>2
      <4>3. CASE ~(k < n)
        BY <2>2, <2>5, <2>8, <4>1, <4>3
      <4> QED
        BY <4>2, <4>3
    <3>2. PICK r : r = piece(k)
      OBVIOUS
    <3>3. /\ DOMAIN r = Fields /\ r.from = from + x /\ r.to = from + y
          /\ r.content = Part(body, x, y)
      BY <2>2, <3>1, <3>2 DEF Held, Fields
    <3>4. Part(body, x, y) = Part(text, from + x, from + y)
      <4>1. to \in 0..Len(text) /\ y \in 0..(to - from) /\ x <= y /\ from <= to
        BY <2>2, <2>3, <3>1
      <4> HIDE DEF EndOf, piece
      <4>2. Part(Part(text, from, to), x, y) = Part(text, from + x, from + y)
        BY <2>1, <4>1, PartOfPart
      <4> QED
        BY <2>2, <4>2
    <3>5. from + x \in 0..Len(text) /\ from + y \in (from + x)..Len(text)
      <4>1. x <= y /\ y <= to - from
        BY <3>1
      <4>2. from <= to /\ to <= Len(text) /\ Len(text) \in Nat
        BY <2>2, <2>3
      <4>3. from + x <= from + y /\ from + y <= to
        BY <4>1
      <4> QED
        BY <4>2, <4>3
    <3>6. Held(r, text)
      BY <3>3, <3>4, <3>5 DEF Held
    <3> QED
      BY <3>2, <3>6
  <2> HIDE DEF piece, out
  <2>11. IsList(out, n) /\ \A k \in 1..n : Held(out[k], text)
    BY <2>9, <2>10 DEF IsList
  <2>12. \E m \in Nat : IsList(out, m) /\ \A k \in 1..m : Held(out[k], text)
    BY <2>8, <2>11
  <2> QED
    BY <2>12 DEF out
<1> QED
  BY <1>2, <1>3

(* Records, each of which holds what one of these texts has.               *)
AllHeld(recs, source) ==
  \E n \in Nat : /\ IsList(recs, n)
                 /\ \A i \in 1..n : \E text \in source : Held(recs[i], text)

LEMMA MergeRecordsHeld ==
  ASSUME NEW recs, NEW results, NEW source, AllHeld(recs, source),
         \A text \in source : IsSequence(text),
         \A i \in DOMAIN results : /\ IsSequence(results[i])
                                   /\ \A j \in DOMAIN results[i] : IsSequence(results[i][j].starts)
  PROVE  AllHeld(MergeRecords(recs, results), source)
<1>1. PICK n \in Nat : /\ DOMAIN recs = 1..n
                       /\ \A i \in 1..n : \E text \in source : Held(recs[i], text)
  BY DEF AllHeld, IsList
<1>2. PICK parts : parts = [i \in DOMAIN recs |->
        IF i \in DOMAIN results THEN MergeSegments(recs[i], results[i]) ELSE <<recs[i]>>]
  OBVIOUS
<1> DEFINE Good == UNION {{parts[i][k] : k \in DOMAIN parts[i]} : i \in 1..n}
<1>3. ASSUME NEW i \in 1..n
      PROVE  \E m \in Nat, text \in source :
               /\ IsList(parts[i], m)
               /\ \A k \in 1..m : Held(parts[i][k], text)
  <2>1. PICK text \in source : Held(recs[i], text)
    BY <1>1
  <2>2. CASE i \in DOMAIN results
    <3>1. parts[i] = MergeSegments(recs[i], results[i])
      BY <1>1, <1>2, <2>2
    <3> QED
      BY <2>1, <2>2, <3>1, MergeHeld
  <2>3. CASE i \notin DOMAIN results
    <3>1. parts[i] = <<recs[i]>>
      BY <1>1, <1>2, <2>3
    <3>2. PICK r : r = recs[i]
      OBVIOUS
    <3>3. IsList(<<r>>, 1) /\ <<r>>[1] = r
      BY DEF IsList
    <3>4. 1 \in Nat /\ \A k \in 1..1 : k = 1
      OBVIOUS
    <3> QED
      BY <2>1, <3>1, <3>2, <3>3, <3>4
  <2> QED
    BY <2>2, <2>3
<1>4. parts \in Seq(Seq(Good))
  <2>1. \A i \in 1..n : parts[i] \in Seq(Good)
    <3> TAKE i \in 1..n
    <3>1. PICK m \in Nat : DOMAIN parts[i] = 1..m /\ parts[i] = [k \in 1..m |-> parts[i][k]]
      BY <1>3 DEF IsList
    <3>2. \A k \in 1..m : parts[i][k] \in Good
      BY <3>1
    <3> HIDE DEF Good
    <3>3. [k \in 1..m |-> parts[i][k]] \in Seq(Good)
      BY <3>2
    <3> QED
      BY <3>1, <3>3
  <2> HIDE DEF Good
  <2>2. parts = [i \in 1..n |-> parts[i]]
    BY <1>1, <1>2
  <2>3. [i \in 1..n |-> parts[i]] \in Seq(Seq(Good))
    BY <2>1
  <2> QED
    BY <2>2, <2>3
<1>5. ASSUME NEW r \in Good PROVE \E text \in source : Held(r, text)
  <2>1. PICK i \in 1..n : \E k \in DOMAIN parts[i] : r = parts[i][k]
    OBVIOUS
  <2> QED
    BY <1>3, <2>1 DEF IsList
<1>6. PICK flat : flat = FlattenSeq(parts)
  OBVIOUS
<1>7. flat \in Seq(Good)
  <2> HIDE DEF Good
  <2> QED
    BY <1>4, <1>6, FlattenType
<1>8. PICK m \in Nat : /\ Len(flat) = m /\ DOMAIN flat = 1..m
                       /\ \A k \in 1..m : flat[k] \in Good
  <2> HIDE DEF Good
  <2> QED
    BY <1>7
<1> HIDE DEF Good
<1>9. \A k \in 1..m : flat[k].from \in Int
  <2> TAKE k \in 1..m
  <2>1. PICK text \in source : Held(flat[k], text)
    BY <1>5, <1>8
  <2>2. flat[k].from \in 0..Len(text)
    BY <2>1 DEF Held
  <2> QED
    BY <2>2
<1>10. PICK out : out = ByRange(flat)
  OBVIOUS
<1>11. /\ IsList(out, m)
       /\ \A k \in 1..m : \E i \in 1..m : out[k] = flat[i]
  BY <1>8, <1>9, <1>10, ByRangeIs
<1>12. \A k \in 1..m : \E text \in source : Held(out[k], text)
  BY <1>5, <1>8, <1>11
<1>13. MergeRecords(recs, results) = out
  BY <1>2, <1>6, <1>10 DEF MergeRecords
<1> QED
  BY <1>11, <1>12, <1>13 DEF AllHeld

LEMMA SlicesAreHeld ==
  ASSUME NEW text, IsSequence(text), NEW anchs, AreAnchors(anchs, Len(text))
  PROVE  AllHeld(SliceItems(text, anchs), {text})
<1>1. PICK n \in Nat : /\ IsList(SliceItems(text, anchs), n)
                       /\ \A i \in 1..n : Held(SliceItems(text, anchs)[i], text)
  BY SliceItemsHeld DEF IsSequence
<1> QED
  BY <1>1 DEF AllHeld

LEMMA ClassifiedAreHeld ==
  ASSUME NEW recs, NEW i, NEW segs \in Replied, NEW source, AllHeld(recs, source),
         \A text \in source : IsSequence(text)
  PROVE  AllHeld(ClassifyRecords(recs, [j \in {i} |-> segs]), source)
<1>1. PICK results : results = [j \in {k \in {i} : Eligible(recs[k])} |-> [l \in {i} |-> segs][j]]
  OBVIOUS
<1>2. \A j \in DOMAIN results : results[j] = segs
  BY <1>1
<1>3. IsSequence(segs) /\ \A j \in DOMAIN segs : IsSequence(segs[j].starts)
  BY ToolboxAssumption
<1>4. AllHeld(MergeRecords(recs, results), source)
  BY <1>2, <1>3, MergeRecordsHeld
<1>5. ClassifyRecords(recs, [j \in {i} |-> segs]) = MergeRecords(recs, results)
  BY <1>1 DEF ClassifyRecords
<1> QED
  BY <1>4, <1>5

-----------------------------------------------------------------------------
(* Anchors are of the text that they were found in, and as long as no call
   slips the records are of texts in the store.                              *)
Stored == {texts[id] : id \in Ids}

ToolInv ==
  /\ texts \in Seq(Cleaned)
  /\ anchors # {} => anchored \in Ids /\ anchors \subseteq FindAnchors(texts[anchored])
  /\ slips = {} => AllHeld(records, Stored)

LEMMA StoredAreSequences ==
  ASSUME texts \in Seq(Cleaned)
  PROVE  /\ \A id \in Ids : texts[id] \in Cleaned /\ IsSequence(texts[id])
         /\ \A text \in Stored : IsSequence(text)
BY ToolboxAssumption DEF Ids, Stored

LEMMA HeldByMore ==
  ASSUME NEW recs, NEW source, NEW more, AllHeld(recs, source), source \subseteq more
  PROVE  AllHeld(recs, more)
BY DEF AllHeld

(* A change of one record of a list of records that are held.              *)
LEMMA OneChanged ==
  ASSUME NEW recs, NEW source, AllHeld(recs, source), NEW i \in DOMAIN recs, NEW r,
         \E text \in source : Held(r, text)
  PROVE  AllHeld([recs EXCEPT ![i] = r], source)
<1>1. PICK n \in Nat : /\ DOMAIN recs = 1..n /\ recs = [k \in 1..n |-> recs[k]]
                       /\ \A k \in 1..n : \E text \in source : Held(recs[k], text)
  BY DEF AllHeld, IsList
<1>2. PICK out : out = [recs EXCEPT ![i] = r]
  OBVIOUS
<1>3. out = [k \in 1..n |-> IF k = i THEN r ELSE recs[k]]
  BY <1>1, <1>2
<1>4. IsList(out, n) /\ \A k \in 1..n : \E text \in source : Held(out[k], text)
  BY <1>1, <1>3 DEF IsList
<1> QED
  BY <1>2, <1>4 DEF AllHeld

LEMMA ToolStep == ToolInv /\ [ToolboxNext]_toolVars => ToolInv'
<1> SUFFICES ASSUME ToolInv, [ToolboxNext]_toolVars PROVE ToolInv'
  OBVIOUS
<1>1. /\ texts \in Seq(Cleaned)
      /\ anchors # {} => anchored \in Ids /\ anchors \subseteq FindAnchors(texts[anchored])
      /\ slips = {} => AllHeld(records, Stored)
  BY DEF ToolInv
<1>2. /\ \A id \in Ids : texts[id] \in Cleaned /\ IsSequence(texts[id])
      /\ \A text \in Stored : IsSequence(text)
  BY <1>1, StoredAreSequences
<1>3. ASSUME UNCHANGED texts PROVE Ids' = Ids /\ Stored' = Stored
  BY <1>3 DEF Ids, Stored
<1>4. CASE CleanAndLoad
  <2>1. PICK text \in Cleaned : texts' = Append(texts, text)
    BY <1>4 DEF CleanAndLoad
  <2>2. /\ texts' \in Seq(Cleaned) /\ Len(texts') = Len(texts) + 1
        /\ \A id \in 1..Len(texts) : texts'[id] = texts[id]
    BY <1>1, <2>1, AppendProperties
  <2>3. Ids = 1..Len(texts) /\ Ids' = 1..(Len(texts) + 1) /\ Len(texts) \in Nat
    BY <1>1, <2>2 DEF Ids
  <2>4. Ids \subseteq Ids' /\ Stored \subseteq Stored' /\ \A id \in Ids : texts'[id] = texts[id]
    BY <2>2, <2>3 DEF Stored
  <2>5. UNCHANGED <<anchors, records, anchored, slips>>
    BY <1>4 DEF CleanAndLoad
  <2>6. slips' = {} => AllHeld(records', Stored')
    BY <1>1, <2>4, <2>5, HeldByMore
  <2>7. anchors' # {} => anchored' \in Ids' /\ anchors' \subseteq FindAnchors(texts'[anchored'])
    BY <1>1, <2>4, <2>5
  <2> QED
    BY <2>2, <2>6, <2>7 DEF ToolInv
<1>5. CASE FindAnchorsTool
  <2>1. PICK id \in Ids, toc \in Thresholds :
          anchors' = DedupeAnchors(FindAnchors(texts[id]), toc) /\ anchored' = id
    BY <1>5 DEF FindAnchorsTool
  <2>2. UNCHANGED <<texts, records, slips>>
    BY <1>5 DEF FindAnchorsTool
  <2>3. anchors' \subseteq FindAnchors(texts[id])
    BY <2>1 DEF DedupeAnchors
  <2> QED
    BY <1>1, <1>3, <2>1, <2>2, <2>3 DEF ToolInv
<1>6. CASE SliceItemsTool
  <2>1. PICK id \in Ids : /\ records' = SliceItems(texts[id], anchors)
                          /\ slips' = IF texts[id] = texts[anchored] THEN {} ELSE {"other text"}
    BY <1>6 DEF SliceItemsTool
  <2>2. UNCHANGED <<texts, anchors, anchored>> /\ anchors # {}
    BY <1>6 DEF SliceItemsTool
  <2>3. ASSUME slips' = {} PROVE AllHeld(records', Stored')
    <3>1. anchors \subseteq FindAnchors(texts[id]) /\ IsSequence(texts[id])
      BY <1>1, <1>2, <2>1, <2>2, <2>3
    <3>2. AreAnchors(anchors, Len(texts[id]))
      BY <3>1, FoundAreAnchors DEF IsSequence
    <3>3. AllHeld(records', {texts[id]})
      BY <2>1, <3>1, <3>2, SlicesAreHeld
    <3>4. {texts[id]} \subseteq Stored'
      BY <1>3, <2>2 DEF Stored
    <3> QED
      BY <3>3, <3>4, HeldByMore
  <2> QED
    BY <1>1, <1>3, <2>2, <2>3 DEF ToolInv
<1>7. CASE ClassifyStatuses
  <2>1. PICK i \in DOMAIN records, segs \in Replied :
          records' = ClassifyRecords(records, [j \in {i} |-> segs])
    BY <1>7 DEF ClassifyStatuses
  <2>2. UNCHANGED <<texts, anchors, anchored, slips>>
    BY <1>7 DEF ClassifyStatuses
  <2>3. ASSUME slips' = {} PROVE AllHeld(records', Stored')
    <3>1. AllHeld(records, Stored)
      BY <1>1, <2>2, <2>3
    <3>2. AllHeld(records', Stored)
      BY <1>2, <2>1, <3>1, ClassifiedAreHeld
    <3> QED
      BY <1>3, <2>2, <3>2
  <2> QED
    BY <1>1, <1>3, <2>2, <2>3 DEF ToolInv
<1>8. CASE PatchRange
  <2>1. PICK i \in DOMAIN records, range \in Ranges, id \in Ids \cup {0} :
          /\ records' = [records EXCEPT ![i] =
               Recomputed([records[i] EXCEPT !.from = range[1], !.to = range[2]], id)]
          /\ slips' = slips \cup
               IF id \notin Ids THEN {"no text"}
               ELSE IF 0 <= range[1] /\ range[1] <= range[2] /\ range[2] <= Len(texts[id]) THEN {}
               ELSE {"no range"}
    BY <1>8 DEF PatchRange
  <2>2. UNCHANGED <<texts, anchors, anchored>>
    BY <1>8 DEF PatchRange
  <2>3. ASSUME slips' = {} PROVE AllHeld(records', Stored')
    <3>1. id \in Ids /\ slips = {}
      BY <2>1, <2>3
    <3>2. 0 <= range[1] /\ range[1] <= range[2] /\ range[2] <= Len(texts[id])
      BY <2>1, <2>3, <3>1
    <3>3. PICK from \in Int, to \in Int : from = range[1] /\ to = range[2]
      BY ToolboxAssumption
    <3>4. PICK r : r = Recomputed([records[i] EXCEPT !.from = from, !.to = to], id)
      OBVIOUS
    <3>5. DOMAIN records[i] = Fields
      BY <1>1, <3>1 DEF AllHeld, IsList, Held
    <3>6. FromEnd(texts[id], from) = from /\ FromEnd(texts[id], to) = to
      BY <3>2, <3>3 DEF FromEnd
    <3>7. /\ DOMAIN r = Fields /\ r.from = from /\ r.to = to
          /\ r.content = Part(texts[id], from, to)
      BY <3>1, <3>4, <3>5, <3>6 DEF Recomputed, Fields
    <3>8. Len(texts[id]) \in Nat
      BY <1>2, <3>1 DEF IsSequence
    <3>9. Held(r, texts[id])
      BY <3>2, <3>3, <3>7, <3>8 DEF Held
    <3>10. texts[id] \in Stored
      BY <3>1 DEF Stored
    <3>11. AllHeld([records EXCEPT ![i] = r], Stored)
      BY <1>1, <3>1, <3>9, <3>10, OneChanged
    <3> QED
      BY <1>3, <2>1, <2>2, <3>3, <3>4, <3>11
  <2> QED
    BY <1>1, <1>3, <2>2, <2>3 DEF ToolInv
<1>9. CASE PatchContent
  BY <1>1, <1>3, <1>9 DEF PatchContent, ToolInv
<1>10. CASE PatchStatus
  <2>1. PICK i \in DOMAIN records, status \in {"extracted", "reserved"} :
          records' = [records EXCEPT ![i] = [records[i] EXCEPT !.status = status]]
    BY <1>10 DEF PatchStatus
  <2>2. UNCHANGED <<texts, anchors, anchored, slips>>
    BY <1>10 DEF PatchStatus
  <2>3. ASSUME slips' = {} PROVE AllHeld(records', Stored')
    <3>1. AllHeld(records, Stored)
      BY <1>1, <2>2, <2>3
    <3>2. PICK text \in Stored : Held(records[i], text)
      BY <3>1 DEF AllHeld, IsList
    <3>3. PICK r : r = [records[i] EXCEPT !.status = status]
      OBVIOUS
    <3>4. /\ DOMAIN r = DOMAIN records[i] /\ r.from = records[i].from /\ r.to = records[i].to
          /\ r.content = records[i].content
      BY <3>2, <3>3 DEF Held, Fields
    <3>5. Held(r, text)
      BY <3>2, <3>4 DEF Held
    <3>6. AllHeld([records EXCEPT ![i] = r], Stored)
      BY <3>1, <3>5, OneChanged
    <3> QED
      BY <1>3, <2>1, <2>2, <3>3, <3>6
  <2> QED
    BY <1>1, <1>3, <2>2, <2>3 DEF ToolInv
<1>11. CASE UNCHANGED toolVars
  BY <1>1, <1>3, <1>11 DEF toolVars, ToolInv
<1> QED
  BY <1>4, <1>5, <1>6, <1>7, <1>8, <1>9, <1>10, <1>11 DEF ToolboxNext

(* Whatever the order of the tools, a record holds what a text has in its range,
   unless a call slipped (slice_items, classify_statuses, update_record).    *)
THEOREM RangesAreHeld == ToolboxSpec => []RangesHoldContent
<1>1. ToolboxInit => ToolInv
  <2> SUFFICES ASSUME ToolboxInit PROVE ToolInv
    OBVIOUS
  <2>1. texts \in Seq(Cleaned) /\ anchors = {} /\ records = <<>>
    BY DEF ToolboxInit
  <2>2. IsList(<<>>, 0) /\ 0 \in Nat /\ 1..0 = {}
    BY DEF IsList
  <2>3. AllHeld(<<>>, Stored)
    BY <2>2 DEF AllHeld
  <2> QED
    BY <2>1, <2>3 DEF ToolInv
<1>2. ToolInv => RangesHoldContent
  <2> SUFFICES ASSUME ToolInv, slips = {}, NEW i \in DOMAIN records
               PROVE  \E id \in Ids :
                        /\ 0 <= records[i].from /\ records[i].from <= records[i].to
                        /\ records[i].to <= Len(texts[id])
                        /\ records[i].content = Part(texts[id], records[i].from, records[i].to)
    BY DEF RangesHoldContent
  <2>1. PICK text \in Stored : Held(records[i], text)
    BY DEF ToolInv, AllHeld, IsList
  <2>2. PICK id \in Ids : text = texts[id]
    BY DEF Stored
  <2>3. Len(texts[id]) \in Nat
    BY StoredAreSequences DEF ToolInv, IsSequence
  <2>4. /\ records[i].from \in 0..Len(texts[id]) /\ records[i].to \in records[i].from..Len(texts[id])
        /\ records[i].content = Part(texts[id], records[i].from, records[i].to)
    BY <2>1, <2>2 DEF Held
  <2>5. 0 <= records[i].from /\ records[i].from <= records[i].to /\ records[i].to <= Len(texts[id])
    BY <2>3, <2>4
  <2> QED
    BY Zenon, <2>4, <2>5
<1> QED
  BY <1>1, <1>2, ToolStep, PTL DEF ToolboxSpec

-----------------------------------------------------------------------------
(* The rate of the bucket.  The induction carries, for each request, what the
   bucket owes since then: the requests from it on and the tokens at hand come
   from a full bucket and from the ticks between the request and the last refill.
   A sleep lasts long enough for the tokens that were missing.             *)
SleepCovers == wake >= 0 => tokens < Cost /\ wake >= last + (Cost - tokens)

Since(i) == Len(sends) - i + 1

Owed ==
  \A i \in DOMAIN sends :
    /\ sends[i] <= last
    /\ Since(i) * Cost + tokens <= Capacity + (last - sends[i])

BucketInv == BucketTyped /\ last <= now /\ SleepCovers /\ Owed /\ RateHolds

-----------------------------------------------------------------------------
LEMMA OneMore == \A n, c \in Int : (n + 1) * c = n * c + c
  BY SMT

(* A bucket that is refilled holds no more than before and what time brings. *)
LEMMA RefillBounded ==
  ASSUME BucketTyped, last <= now
  PROVE  /\ Refilled(tokens) \in 0..Capacity
         /\ Refilled(tokens) <= tokens + (now - last)
         /\ Refilled(tokens) = Capacity \/ Refilled(tokens) = tokens + (now - last)
  BY BucketAssumption DEF BucketTyped, Refilled

(* What one request does to the account of an earlier one, made at "moment":
   "paid" is the cost of the requests from that one on.  The solver adds and
   compares integers by name better than values of variables, hence the PICKs. *)
LEMMA Account ==
  ASSUME NEW paid \in Int, NEW moment \in Int,
         Cost \in Int, Capacity \in Int, tokens \in Int, tokens' \in Int,
         last \in Int, now \in Int, last <= now,
         tokens' + Cost <= tokens + (now - last),
         moment <= last, paid + tokens <= Capacity + (last - moment)
  PROVE  moment <= now /\ (paid + Cost) + tokens' <= Capacity + (now - moment)
<1>1. PICK c \in Int : c = Cost
  OBVIOUS
<1>2. PICK cap \in Int : cap = Capacity
  OBVIOUS
<1>3. PICK t \in Int : t = tokens
  OBVIOUS
<1>4. PICK left \in Int : left = tokens'
  OBVIOUS
<1>5. PICK la \in Int : la = last
  OBVIOUS
<1>6. PICK clock \in Int : clock = now
  OBVIOUS
<1>7. /\ la <= clock /\ left + c <= t + (clock - la)
      /\ moment <= la /\ paid + t <= cap + (la - moment)
  BY <1>1, <1>2, <1>3, <1>4, <1>5, <1>6, Zenon
<1>8. moment <= clock /\ (paid + c) + left <= cap + (clock - moment)
  BY <1>7
<1>9. QED
  BY <1>1, <1>2, <1>3, <1>4, <1>5, <1>6, <1>8, Zenon

LEMMA NothingBorrowed ==
  ASSUME NEW paid \in Int, NEW left \in Nat, NEW room \in Int, paid + left <= room
  PROVE  paid <= room
  BY SMT

(* A request that is let through, at once or after a sleep, keeps the account
   in order, given that its tokens are there.                                *)
LEMMA SendKeepsRate ==
  ASSUME BucketInv, Refilled(tokens) >= Cost,
         tokens' = Refilled(tokens) - Cost,
         last' = now,
         sends' = Append(sends, now)
  PROVE  Owed' /\ RateHolds'
<1> DEFINE n == Len(sends)
<1>1. /\ Cost \in Nat /\ Capacity \in Nat /\ tokens \in Int /\ last \in Nat /\ now \in Nat
      /\ last <= now /\ n \in Nat /\ sends \in Seq(Nat)
  BY BucketAssumption DEF BucketInv, BucketTyped
<1>2. /\ tokens' \in Nat
      /\ tokens' + Cost <= tokens + (now - last)
      /\ tokens' + Cost <= Capacity
  BY <1>1, RefillBounded, BucketAssumption DEF BucketInv
<1>3. /\ Len(sends') = n + 1 /\ DOMAIN sends' = 1..(n + 1)
      /\ sends'[n + 1] = now
      /\ \A i \in 1..n : sends'[i] = sends[i] /\ sends[i] \in Nat
  BY <1>1
<1>4. \A i \in 1..n : /\ sends[i] <= last
                      /\ (n - i + 1) * Cost + tokens <= Capacity + (last - sends[i])
  <2>1. Owed
    BY DEF BucketInv
  <2>2. DOMAIN sends = 1..n
    BY <1>1
  <2>3. QED
    BY <2>1, <2>2, Zenon DEF Owed, Since
<1>5. \A i \in 1..(n + 1) :
        /\ sends'[i] <= now
        /\ (n + 1 - i + 1) * Cost + tokens' <= Capacity + (now - sends'[i])
  <2> SUFFICES ASSUME NEW i \in 1..(n + 1)
               PROVE  /\ sends'[i] <= now
                      /\ (n + 1 - i + 1) * Cost + tokens' <= Capacity + (now - sends'[i])
    OBVIOUS
  <2>1. CASE i = n + 1
    <3>1. (n + 1 - i + 1) * Cost = Cost
      BY <1>1, <2>1
    <3>2. QED
      BY <1>1, <1>2, <1>3, <2>1, <3>1
  <2>2. CASE i \in 1..n
    <3> DEFINE before == (n - i + 1) * Cost
               after == (n + 1 - i + 1) * Cost
    <3>1. after = before + Cost
      <4>1. n - i + 1 \in Int /\ n + 1 - i + 1 = (n - i + 1) + 1
        BY <1>1, <2>2
      <4>2. QED
        BY <1>1, <4>1, OneMore
    <3>2. before \in Int
      BY <1>1, <2>2
    <3>3. sends[i] <= last /\ before + tokens <= Capacity + (last - sends[i])
      BY <1>4, <2>2
    <3>4. sends'[i] = sends[i] /\ sends[i] \in Nat
      BY <1>3, <2>2
    <3> HIDE DEF before, after
    <3>5. sends'[i] <= now /\ after + tokens' <= Capacity + (now - sends'[i])
      <4>1. /\ sends[i] <= now
            /\ (before + Cost) + tokens' <= Capacity + (now - sends[i])
        <5>1. sends[i] \in Int /\ tokens' \in Int /\ now \in Int /\ last \in Int
              /\ Cost \in Int /\ Capacity \in Int
          BY <1>1, <1>2, <3>4
        <5>2. QED
          BY <1>1, <1>2, <3>2, <3>3, <5>1, Account, Zenon
      <4>2. QED
        BY <3>1, <3>4, <4>1, Zenon
    <3>6. QED
      BY <3>5 DEF after
  <2>3. QED
    BY <1>1, <2>1, <2>2
<1>6. Owed'
  BY <1>3, <1>5 DEF Owed, Since
<1>7. RateHolds'
  <2> SUFFICES ASSUME NEW i \in 1..(n + 1), NEW j \in 1..(n + 1), i <= j
               PROVE  (j - i + 1) * Cost <= Capacity + (sends'[j] - sends'[i])
    BY <1>3 DEF RateHolds
  <2>1. CASE j = n + 1
    <3> DEFINE cost == (n + 1 - i + 1) * Cost
    <3>1. cost \in Int
      BY <1>1
    <3>2. cost + tokens' <= Capacity + (now - sends'[i])
      BY <1>5
    <3>3. sends'[i] \in Nat /\ sends'[j] = now
      BY <1>1, <1>3, <2>1
    <3> HIDE DEF cost
    <3>4. cost <= Capacity + (sends'[j] - sends'[i])
      <4>1. Capacity + (now - sends'[i]) \in Int
        BY SMTT(30), <1>1, <3>3
      <4>2. QED
        BY <1>2, <3>1, <3>2, <3>3, <4>1, NothingBorrowed, Zenon
    <3>5. QED
      BY <2>1, <3>4 DEF cost
  <2>2. CASE j \in 1..n
    <3>1. i \in 1..n
      BY <1>1, <2>2
    <3>2. RateHolds /\ DOMAIN sends = 1..n
      BY <1>1 DEF BucketInv
    <3>3. (j - i + 1) * Cost <= Capacity + (sends[j] - sends[i])
      BY <2>2, <3>1, <3>2, Zenon DEF RateHolds
    <3>4. sends'[i] = sends[i] /\ sends'[j] = sends[j]
      BY <1>3, <2>2, <3>1
    <3>5. QED
      BY <3>3, <3>4, Zenon
  <2>3. QED
    BY <1>1, <2>1, <2>2
<1>8. QED
  BY <1>6, <1>7

-----------------------------------------------------------------------------
LEMMA BucketStart == BucketInit => BucketInv
  BY BucketAssumption DEF BucketInit, BucketInv, BucketTyped, SleepCovers, Owed, RateHolds

LEMMA BucketStep == BucketInv /\ [BucketNext]_bucket => BucketInv'
<1> SUFFICES ASSUME BucketInv, [BucketNext]_bucket PROVE BucketInv'
  OBVIOUS
<1> USE BucketAssumption
<1>1. BucketTyped /\ last <= now
  BY DEF BucketInv
<1>2. CASE Tick
  <2>1. BucketTyped' /\ last' <= now'
    BY <1>1, <1>2 DEF Tick, BucketTyped
  <2>2. SleepCovers'
    BY <1>2 DEF BucketInv, Tick, SleepCovers
  <2>3. Owed' /\ RateHolds'
    BY <1>2 DEF BucketInv, Tick, Owed, RateHolds, Since
  <2>4. QED
    BY <2>1, <2>2, <2>3 DEF BucketInv
<1>3. CASE Acquire
  <2>1. BucketTyped' /\ last' <= now'
    BY <1>1, <1>3, RefillBounded DEF Acquire, BucketTyped
  <2>2. SleepCovers'
    BY <1>3 DEF Acquire, SleepCovers
  <2>3. Owed' /\ RateHolds'
    BY <1>3, SendKeepsRate DEF Acquire
  <2>4. QED
    BY <2>1, <2>2, <2>3 DEF BucketInv
<1>4. CASE Sleep
  <2>1. BucketTyped' /\ last' <= now'
    BY SMTT(30), <1>1, <1>4, RefillBounded DEF Sleep, BucketTyped
  <2>2. SleepCovers'
    BY <1>1, <1>4, RefillBounded DEF Sleep, SleepCovers, BucketTyped
  <2>3. Owed'
    <3> SUFFICES ASSUME NEW i \in DOMAIN sends
                 PROVE  /\ sends[i] <= now
                        /\ Since(i) * Cost + tokens' <= Capacity + (now - sends[i])
      BY <1>4 DEF Sleep, Owed, Since
    <3> DEFINE owed == Since(i) * Cost
    <3>1. sends[i] <= last /\ owed + tokens <= Capacity + (last - sends[i])
      BY DEF BucketInv, Owed
    <3>2. /\ sends[i] \in Int /\ owed \in Int /\ Capacity \in Int /\ tokens \in Int
          /\ tokens' \in Int /\ last \in Int /\ now \in Int
      BY SMTT(30), <1>1, <2>1 DEF BucketTyped, Since
    <3>3. tokens' <= tokens + (now - last)
      BY <1>1, <1>4, RefillBounded DEF Sleep
    <3> HIDE DEF owed
    <3>4. sends[i] <= now /\ owed + tokens' <= Capacity + (now - sends[i])
      BY <1>1, <3>1, <3>2, <3>3
    <3>5. QED
      BY <3>4 DEF owed
  <2>4. RateHolds'
    BY <1>4 DEF BucketInv, Sleep, RateHolds
  <2>5. QED
    BY <2>1, <2>2, <2>3, <2>4 DEF BucketInv
<1>5. CASE Awake
  <2>1. Refilled(tokens) >= Cost
    BY SMTT(30), <1>1, <1>5, RefillBounded DEF BucketInv, Awake, SleepCovers, BucketTyped
  <2>2. BucketTyped' /\ last' <= now'
    <3>1. last' = now /\ now' = now /\ wake' = -1 /\ sends' \in Seq(Nat)
      BY <1>1, <1>5 DEF Awake, BucketTyped
    <3>2. Refilled(tokens) \in 0..Capacity /\ tokens' = Refilled(tokens) - Cost
      BY <1>1, <1>5, RefillBounded DEF Awake
    <3>3. tokens' \in 0..Capacity
      BY <2>1, <3>2
    <3> QED
      BY <1>1, <3>1, <3>3 DEF BucketTyped
  <2>3. SleepCovers'
    BY <1>5 DEF Awake, SleepCovers
  <2>4. Owed' /\ RateHolds'
    BY <1>5, <2>1, SendKeepsRate DEF Awake
  <2>5. QED
    BY <2>2, <2>3, <2>4 DEF BucketInv
<1>6. CASE UNCHANGED bucket
  BY <1>6 DEF bucket, BucketInv, BucketTyped, SleepCovers, Owed, RateHolds, Since
<1>7. QED
  BY <1>2, <1>3, <1>4, <1>5, <1>6 DEF BucketNext

(* For every cost, capacity and timing, no window of requests is larger than a
   full bucket and what its time refills (acquire in throttle.py).           *)
THEOREM RateIsKept == BucketSpec => []RateHolds
<1>1. BucketInv => RateHolds
  BY DEF BucketInv
<1>2. QED
  BY <1>1, BucketStart, BucketStep, PTL DEF BucketSpec

-----------------------------------------------------------------------------
(* What a text weighs.                                                     *)
Wide(text) == {i \in DOMAIN text : text[i] = "w"}

LEMMA BytesType ==
  ASSUME NEW W, NEW text \in Seq(W)
  PROVE  /\ IsFiniteSet(Wide(text)) /\ Cardinality(Wide(text)) \in Nat
         /\ Bytes(text) \in Nat /\ Bytes(text) = Len(text) + Cardinality(Wide(text))
<1>1. DOMAIN text = 1..Len(text) /\ Len(text) \in Nat
  OBVIOUS
<1>2. IsFiniteSet(1..Len(text))
  <2>1. 1 \in Int /\ Len(text) \in Int
    OBVIOUS
  <2> QED
    BY <2>1, FS_Interval
<1>3. Wide(text) \subseteq 1..Len(text)
  BY <1>1 DEF Wide
<1>4. IsFiniteSet(Wide(text))
  BY <1>2, <1>3, FS_Subset
<1>5. Cardinality(Wide(text)) \in Nat
  BY <1>4, FS_CardinalityType
<1>6. Bytes(text) = Len(text) + Cardinality(Wide(text))
  BY DEF Bytes, Wide
<1> QED
  BY <1>1, <1>4, <1>5, <1>6

LEMMA BytesAdd ==
  ASSUME NEW W, NEW a \in Seq(W), NEW b \in Seq(W)
  PROVE  Bytes(a \o b) = Bytes(a) + Bytes(b)
<1>1. PICK c : c = a \o b
  OBVIOUS
<1>2. /\ c \in Seq(W) /\ Len(c) = Len(a) + Len(b)
      /\ \A i \in 1..(Len(a) + Len(b)) : c[i] = IF i <= Len(a) THEN a[i] ELSE b[i - Len(a)]
  BY <1>1, ConcatProperties
<1>3. Len(a) \in Nat /\ Len(b) \in Nat
  OBVIOUS
<1> DEFINE B == {i + Len(a) : i \in Wide(b)}
           f == [i \in Wide(b) |-> i + Len(a)]
<1>4. Wide(a) \subseteq 1..Len(a) /\ Wide(b) \subseteq 1..Len(b)
  BY DEF Wide
<1>5. IsFiniteSet(Wide(a)) /\ IsFiniteSet(Wide(b))
  BY BytesType
<1>6. IsFiniteSet(B) /\ Cardinality(B) = Cardinality(Wide(b))
  <2>1. f \in [Wide(b) -> B] /\ \A y \in B : \E x \in Wide(b) : f[x] = y
    OBVIOUS
  <2>2. \A x, y \in Wide(b) : f[x] = f[y] => x = y
    BY <1>3, <1>4
  <2> HIDE DEF f, B
  <2>3. f \in Surjection(Wide(b), B) /\ f \in Injection(Wide(b), B)
    BY <2>1, <2>2 DEF Surjection, Injection, IsInjective
  <2> QED
    BY <1>5, <2>3, FS_Surjection
<1>7. Wide(c) = Wide(a) \cup B
  <2>1. ASSUME NEW i \in Wide(c) PROVE i \in Wide(a) \cup B
    <3>1. i \in 1..(Len(a) + Len(b)) /\ c[i] = "w"
      BY <1>2 DEF Wide
    <3>2. CASE i <= Len(a)
      BY <1>2, <3>1, <3>2 DEF Wide
    <3>3. CASE ~(i <= Len(a))
      <4>1. i - Len(a) \in 1..Len(b) /\ b[i - Len(a)] = "w" /\ i = (i - Len(a)) + Len(a)
        BY <1>2, <1>3, <3>1, <3>3
      <4>2. i - Len(a) \in Wide(b)
        BY <4>1 DEF Wide
      <4> QED
        BY <4>1, <4>2
    <3> QED
      BY <3>2, <3>3
  <2>2. ASSUME NEW i \in Wide(a) PROVE i \in Wide(c)
    BY <1>2, <1>3, <1>4 DEF Wide
  <2>3. ASSUME NEW j \in Wide(b) PROVE j + Len(a) \in Wide(c)
    <3>1. j \in 1..Len(b) /\ b[j] = "w"
      BY DEF Wide
    <3>2. /\ j + Len(a) \in 1..(Len(a) + Len(b)) /\ ~(j + Len(a) <= Len(a))
          /\ (j + Len(a)) - Len(a) = j
      BY <1>3, <3>1
    <3> QED
      BY <1>2, <3>1, <3>2 DEF Wide
  <2> QED
    BY <2>1, <2>2, <2>3
<1>8. Wide(a) \cap B = {}
  BY <1>3, <1>4
<1> HIDE DEF f, B
<1>9. Cardinality(Wide(c)) = Cardinality(Wide(a)) + Cardinality(Wide(b))
  <2>1. Cardinality(Wide(a) \cup B) = Cardinality(Wide(a)) + Cardinality(B) - Cardinality(Wide(a) \cap B)
    BY <1>5, <1>6, FS_Union
  <2>2. Cardinality({}) = 0
    BY FS_EmptySet
  <2>3. Cardinality(Wide(a)) \in Nat /\ Cardinality(Wide(b)) \in Nat
    BY BytesType
  <2>4. Cardinality(Wide(c)) = Cardinality(Wide(a)) + Cardinality(B) - Cardinality({})
    BY Zenon, <1>7, <1>8, <2>1
  <2> QED
    BY <1>6, <2>2, <2>3, <2>4
<1>10. /\ Bytes(c) = Len(c) + Cardinality(Wide(c)) /\ Bytes(a) = Len(a) + Cardinality(Wide(a))
       /\ Bytes(b) = Len(b) + Cardinality(Wide(b))
  BY <1>2, BytesType
<1>11. Cardinality(Wide(a)) \in Nat /\ Cardinality(Wide(b)) \in Nat
  BY BytesType
<1> QED
  BY <1>1, <1>2, <1>3, <1>9, <1>10, <1>11

LEMMA SuffixFits ==
  ASSUME NEW W, NEW text \in Seq(W), NEW k \in 1..(Len(text) + 1), Fits(text)
  PROVE  Fits(Suffix(text, k))
<1>1. PICK a \in Seq(W), b \in Seq(W) : text = a \o b /\ b = Suffix(text, k)
  BY Split, SuffixIs
<1>2. Bytes(text) = Bytes(a) + Bytes(b) /\ Bytes(a) \in Nat /\ Bytes(b) \in Nat
  BY <1>1, BytesAdd, BytesType
<1> QED
  BY <1>1, <1>2, NotesAssumption DEF Fits

(* The lines of a text start after its newlines.                           *)
Starts(text) == {1} \cup {i + 1 : i \in Newlines(text)}
Fitting(text) == {k \in Starts(text) : Fits(Suffix(text, k))}

LEMMA StartsInside ==
  ASSUME NEW W, NEW text \in Seq(W)
  PROVE  /\ 1 \in Starts(text) /\ Starts(text) \subseteq 1..(Len(text) + 1)
         /\ Max(Starts(text)) \in Starts(text)
         /\ \A k \in Starts(text) : k <= Max(Starts(text))
<1>1. Len(text) + 1 \in Nat /\ Len(text) \in Nat /\ DOMAIN text = 1..Len(text)
  OBVIOUS
<1>2. Starts(text) \subseteq 1..(Len(text) + 1) /\ 1 \in Starts(text)
  BY <1>1 DEF Starts, Newlines
<1>3. Starts(text) \subseteq 0..(Len(text) + 1) /\ Starts(text) # {}
  BY <1>1, <1>2
<1> QED
  BY <1>1, <1>2, <1>3, MaxIs

LEMMA NewestIs ==
  ASSUME NEW text
  PROVE  NewestOf(text) = IF Fitting(text) # {} THEN Suffix(text, Min(Fitting(text)))
                          ELSE Clipped(Suffix(text, Max(Starts(text))))
BY DEF NewestOf, Fitting, Starts, Suffix

LEMMA StartsOfSuffix ==
  ASSUME NEW W, NEW text \in Seq(W), NEW p \in Starts(text), NEW j \in Nat
  PROVE  j \in Starts(Suffix(text, p)) <=>
           j \in 1..(Len(text) - p + 2) /\ p + j - 1 \in Starts(text)
<1>1. p \in 1..(Len(text) + 1) /\ Len(text) \in Nat
  BY StartsInside
<1>2. PICK s : s = Suffix(text, p)
  OBVIOUS
<1>3. /\ s \in Seq(W) /\ Len(s) = Len(text) - p + 1
      /\ \A i \in 1..(Len(text) - p + 1) : s[i] = text[p + i - 1]
  BY <1>1, <1>2, SuffixIs
<1>4. CASE j = 1
  BY <1>1, <1>2, <1>4, <1>3, StartsInside
<1>5. CASE j = 0
  BY <1>1, <1>2, <1>5, <1>3, StartsInside
<1>6. CASE j > 1
  <2>1. PICK i \in Nat : i = j - 1 /\ i >= 1
    BY <1>6
  <2>2. PICK q \in Nat : q = p + i - 1
    BY <1>1, <2>1
  <2>3. j \in Starts(s) <=> i \in Newlines(s)
    BY <2>1, <1>6 DEF Starts, Newlines
  <2>4. p + j - 1 \in Starts(text) <=> q \in Newlines(text)
    <3>1. p + j - 1 = q + 1 /\ q >= 1 /\ p + j - 1 # 1
      BY <1>1, <2>1, <2>2
    <3> QED
      BY <3>1 DEF Starts, Newlines
  <2>5. i \in Newlines(s) <=> i \in 1..(Len(text) - p + 1) /\ s[i] = "n"
    BY <1>3 DEF Newlines
  <2>6. q \in Newlines(text) <=> q \in 1..Len(text) /\ text[q] = "n"
    BY DEF Newlines
  <2>7. (i \in 1..(Len(text) - p + 1) <=> q \in 1..Len(text))
        /\ (j \in 1..(Len(text) - p + 2) <=> i \in 1..(Len(text) - p + 1))
    BY <1>1, <2>1, <2>2
  <2>8. i \in 1..(Len(text) - p + 1) => s[i] = text[q]
    BY <1>3, <2>2
  <2> QED
    BY <1>2, <2>3, <2>4, <2>5, <2>6, <2>7, <2>8
<1> QED
  BY <1>4, <1>5, <1>6

LEMMA StartsShift ==
  ASSUME NEW W, NEW text \in Seq(W), NEW p \in Starts(text)
  PROVE  /\ \A j \in Starts(Suffix(text, p)) :
              /\ p + j - 1 \in Starts(text)
              /\ Suffix(Suffix(text, p), j) = Suffix(text, p + j - 1)
         /\ \A k \in Starts(text) : k >= p =>
              /\ k - p + 1 \in Starts(Suffix(text, p))
              /\ Suffix(Suffix(text, p), k - p + 1) = Suffix(text, k)
<1>1. p \in 1..(Len(text) + 1) /\ Len(text) \in Nat
  BY StartsInside
<1>2. Suffix(text, p) \in Seq(W)
  BY <1>1, SuffixIs
<1>3. ASSUME NEW j \in Starts(Suffix(text, p))
      PROVE  /\ p + j - 1 \in Starts(text)
             /\ Suffix(Suffix(text, p), j) = Suffix(text, p + j - 1)
  <2>1. j \in 1..(Len(Suffix(text, p)) + 1)
    BY <1>2, StartsInside
  <2>2. j \in Nat
    BY <1>2, <2>1
  <2>3. j \in 1..(Len(text) - p + 2) /\ p + j - 1 \in Starts(text)
    BY <2>2, StartsOfSuffix
  <2>4. Suffix(Suffix(text, p), j) = Suffix(text, p + j - 1)
    BY <1>1, <2>3, SuffixOfSuffix
  <2> QED
    BY <2>3, <2>4
<1>4. ASSUME NEW k \in Starts(text), k >= p
      PROVE  /\ k - p + 1 \in Starts(Suffix(text, p))
             /\ Suffix(Suffix(text, p), k - p + 1) = Suffix(text, k)
  <2>1. k \in 1..(Len(text) + 1)
    BY StartsInside
  <2>2. PICK j \in Nat : j = k - p + 1 /\ j \in 1..(Len(text) - p + 2) /\ p + j - 1 = k
    BY <1>1, <1>4, <2>1
  <2>3. j \in Starts(Suffix(text, p))
    BY <2>2, StartsOfSuffix
  <2>4. Suffix(Suffix(text, p), j) = Suffix(text, p + j - 1)
    BY <1>1, <2>2, SuffixOfSuffix
  <2> QED
    BY <2>2, <2>3, <2>4
<1> QED
  BY <1>3, <1>4

(* Lines in front that do not fit do not matter.                           *)
LEMMA FrontFalls ==
  ASSUME NEW W, NEW text \in Seq(W), NEW p \in Starts(text),
         \A j \in Starts(text) : j < p => ~Fits(Suffix(text, j))
  PROVE  NewestOf(Suffix(text, p)) = NewestOf(text)
<1>1. PICK s : s = Suffix(text, p)
  OBVIOUS
<1>2. p \in Nat /\ p >= 1 /\ Starts(text) \subseteq Nat
  BY StartsInside
<1>3. s \in Seq(W)
  <2>1. p \in 1..(Len(text) + 1)
    BY StartsInside
  <2> QED
    BY <1>1, <2>1, SuffixIs
<1>4. /\ \A j \in Starts(s) : p + j - 1 \in Starts(text) /\ Suffix(s, j) = Suffix(text, p + j - 1)
      /\ \A k \in Starts(text) : k >= p =>
           k - p + 1 \in Starts(s) /\ Suffix(s, k - p + 1) = Suffix(text, k)
  BY <1>1, StartsShift
<1>5. Starts(s) \subseteq Nat
  BY <1>3, StartsInside
<1>6. \A k \in Fitting(text) : k >= p /\ k - p + 1 \in Fitting(s)
  <2> TAKE k \in Fitting(text)
  <2>1. k \in Starts(text) /\ Fits(Suffix(text, k)) /\ k \in Nat
    BY <1>2 DEF Fitting
  <2>2. k >= p
    BY <1>2, <2>1
  <2> QED
    BY <1>4, <2>1, <2>2 DEF Fitting
<1>7. \A j \in Fitting(s) : p + j - 1 \in Fitting(text)
  BY <1>4 DEF Fitting
<1>8. Fitting(s) \subseteq Nat /\ Fitting(text) \subseteq Nat
  BY <1>2, <1>5 DEF Fitting
<1>9. CASE Fitting(text) # {}
  <2>1. PICK m \in Nat : m = Min(Fitting(text)) /\ m \in Fitting(text) /\ \A k \in Fitting(text) : m <= k
    BY <1>8, <1>9, MinIs
  <2>2. Fitting(s) # {}
    BY <1>6, <1>9
  <2>3. PICK l \in Nat : l = Min(Fitting(s)) /\ l \in Fitting(s) /\ \A k \in Fitting(s) : l <= k
    BY <1>8, <2>2, MinIs
  <2>4. m >= p /\ l <= m - p + 1 /\ m <= p + l - 1
    BY <1>6, <1>7, <2>1, <2>3
  <2>5. m = p + l - 1
    BY <1>2, <2>4
  <2>6. Suffix(s, l) = Suffix(text, m)
    <3>1. l \in Starts(s)
      BY <2>3 DEF Fitting
    <3> QED
      BY <1>4, <2>5, <3>1
  <2>7. NewestOf(s) = Suffix(s, l) /\ NewestOf(text) = Suffix(text, m)
    BY <1>9, <2>1, <2>2, <2>3, NewestIs
  <2> QED
    BY <1>1, <2>6, <2>7
<1>10. CASE Fitting(text) = {}
  <2>1. Fitting(s) = {}
    BY <1>7, <1>10
  <2>2. PICK m \in Nat : m = Max(Starts(text)) /\ m \in Starts(text) /\ \A k \in Starts(text) : k <= m
    BY <1>2, StartsInside
  <2>3. PICK l \in Nat : l = Max(Starts(s)) /\ l \in Starts(s) /\ \A k \in Starts(s) : k <= l
    BY <1>3, <1>5, StartsInside
  <2>4. m >= p
    BY <2>2
  <2>5. p + l - 1 <= m /\ m - p + 1 <= l
    BY <1>4, <2>2, <2>3, <2>4
  <2>6. m = p + l - 1
    BY <1>2, <2>5
  <2>7. Suffix(s, l) = Suffix(text, m)
    BY <1>4, <2>3, <2>6
  <2>8. NewestOf(s) = Clipped(Suffix(s, l)) /\ NewestOf(text) = Clipped(Suffix(text, m))
    BY <1>10, <2>1, <2>2, <2>3, NewestIs
  <2> QED
    BY <1>1, <2>7, <2>8
<1> QED
  BY <1>9, <1>10

(* What a text weighs: nothing, a letter, more.                            *)
LEMMA BytesOfFew ==
  ASSUME NEW W, NEW text \in Seq(W)
  PROVE  /\ text = <<>> => Bytes(text) = 0
         /\ text # <<>> => Bytes(text) >= 1
         /\ Len(text) = 1 => Bytes(text) <= 2
<1>1. /\ Bytes(text) = Len(text) + Cardinality(Wide(text)) /\ Cardinality(Wide(text)) \in Nat
      /\ Len(text) \in Nat
  BY BytesType
<1>2. ASSUME text = <<>> PROVE Bytes(text) = 0
  <2>1. Wide(text) = {} /\ Len(text) = 0
    BY <1>2 DEF Wide
  <2>2. Cardinality(Wide(text)) = 0
    BY <2>1, FS_EmptySet
  <2> QED
    BY <1>1, <2>1, <2>2
<1>3. ASSUME text # <<>> PROVE Bytes(text) >= 1
  <2>1. Len(text) # 0
    BY <1>3
  <2> QED
    BY <1>1, <2>1
<1>4. ASSUME Len(text) = 1 PROVE Bytes(text) <= 2
  <2>1. Wide(text) \subseteq {1}
    BY <1>4 DEF Wide
  <2>2. IsFiniteSet({1}) /\ Cardinality({1}) = 1
    BY FS_Singleton
  <2>3. Cardinality(Wide(text)) <= 1
    BY <2>1, <2>2, FS_Subset
  <2> QED
    BY <1>1, <1>4, <2>3
<1> QED
  BY <1>2, <1>3, <1>4

LEMMA PrefixGrows ==
  ASSUME NEW W, NEW text \in Seq(W), NEW k \in 0..(Len(text) - 1)
  PROVE  Bytes(SubSeq(text, 1, k + 1)) <= Bytes(SubSeq(text, 1, k)) + 2
<1>1. k \in 0..Len(text) /\ k + 1 \in 0..Len(text) /\ k \in Nat
  OBVIOUS
<1>2. PICK a : a = SubSeq(text, 1, k)
  OBVIOUS
<1>3. PICK l \in 0..Len(text) : l = k + 1
  BY <1>1
<1>4. PICK b : b = SubSeq(text, 1, l)
  OBVIOUS
<1>5. a \in Seq(W) /\ Len(a) = k /\ \A i \in 1..k : a[i] = text[i]
  BY <1>1, <1>2, PrefixIs
<1>6. b \in Seq(W) /\ Len(b) = l /\ \A i \in 1..l : b[i] = text[i]
  BY <1>4, PrefixIs
<1>7. PICK c \in Seq(W) : c = <<text[l]>> /\ Len(c) = 1 /\ c[1] = text[l]
  <2>1. PICK w \in W : w = text[l]
    BY <1>1, <1>3
  <2>2. <<w>> \in Seq(W) /\ Len(<<w>>) = 1 /\ <<w>>[1] = w
    OBVIOUS
  <2> QED
    BY <2>1, <2>2
<1>8. PICK d : d = a \o c
  OBVIOUS
<1>9. /\ d \in Seq(W) /\ Len(d) = Len(a) + Len(c)
      /\ \A i \in 1..(Len(a) + Len(c)) : d[i] = IF i <= Len(a) THEN a[i] ELSE c[i - Len(a)]
  BY <1>5, <1>7, <1>8, ConcatProperties
<1>10. ASSUME NEW i \in 1..l PROVE d[i] = b[i]
  <2>1. CASE i <= k
    <3>1. i \in 1..k /\ i <= Len(a) /\ i \in 1..(Len(a) + Len(c))
      BY <1>1, <1>3, <1>5, <1>7, <2>1
    <3> QED
      BY <1>5, <1>6, <1>9, <3>1
  <2>2. CASE ~(i <= k)
    <3>1. i = l /\ i - Len(a) = 1 /\ i \in 1..(Len(a) + Len(c)) /\ ~(i <= Len(a))
      BY <1>1, <1>3, <1>5, <1>7, <2>2
    <3> QED
      BY <1>6, <1>7, <1>9, <3>1
  <2> QED
    BY <2>1, <2>2
<1>11. d = b
  <2>1. Len(d) = l /\ Len(b) = l
    BY <1>1, <1>3, <1>5, <1>6, <1>7, <1>9
  <2> QED
    BY <1>6, <1>9, <1>10, <2>1, SeqEqual
<1>12. /\ Bytes(b) = Bytes(a) + Bytes(c) /\ Bytes(a) \in Nat /\ Bytes(c) \in Nat
       /\ Bytes(c) <= 2
  BY <1>5, <1>7, <1>8, <1>11, BytesAdd, BytesType, BytesOfFew
<1> QED
  BY <1>2, <1>3, <1>4, <1>12

(* What is clipped is at most one byte short of the limit.                 *)
LEMMA ClippedIs ==
  ASSUME NEW W, NEW text \in Seq(W)
  PROVE  /\ Clipped(text) \in Seq(W) /\ Len(Clipped(text)) <= Len(text)
         /\ \A i \in 1..Len(Clipped(text)) : Clipped(text)[i] = text[i]
         /\ Fits(text) => Clipped(text) = text
         /\ ~Fits(text) => Bytes(Clipped(text)) >= MaxBytes - 1
<1> DEFINE K == {k \in 0..Len(text) : Fits(SubSeq(text, 1, k))}
<1>1. Len(text) \in Nat /\ MaxBytes \in Nat
  BY NotesAssumption
<1>2. 0 \in K
  <2>1. 0 \in 0..Len(text)
    BY <1>1
  <2>2. SubSeq(text, 1, 0) \in Seq(W) /\ Len(SubSeq(text, 1, 0)) = 0
    BY <2>1, PrefixIs
  <2>3. SubSeq(text, 1, 0) = <<>>
    BY <2>2
  <2>4. Bytes(SubSeq(text, 1, 0)) = 0
    BY <2>2, <2>3, BytesOfFew
  <2> QED
    BY <1>1, <2>1, <2>4 DEF Fits
<1>3. PICK c \in K : c = Max(K) /\ \A k \in K : k <= c
  <2>1. K \subseteq 0..Len(text) /\ K # {}
    BY <1>2
  <2> HIDE DEF K
  <2> QED
    BY <1>1, <2>1, MaxIs
<1>4. Clipped(text) = SubSeq(text, 1, c)
  BY <1>3 DEF Clipped
<1>5. c \in 0..Len(text) /\ Fits(SubSeq(text, 1, c))
  OBVIOUS
<1>6. /\ SubSeq(text, 1, c) \in Seq(W) /\ Len(SubSeq(text, 1, c)) = c
      /\ \A i \in 1..c : SubSeq(text, 1, c)[i] = text[i]
  BY <1>5, PrefixIs
<1>7. SubSeq(text, 1, Len(text)) = text
  BY WholeSuffix DEF Suffix
<1>8. ASSUME Fits(text) PROVE c = Len(text)
  <2>1. Len(text) \in K
    <3>1. Len(text) \in 0..Len(text)
      BY <1>1
    <3>2. Fits(SubSeq(text, 1, Len(text)))
      BY Zenon, <1>7, <1>8
    <3> QED
      BY <3>1, <3>2
  <2> HIDE DEF K
  <2> QED
    BY <1>1, <1>3, <1>5, <2>1
<1>9. ASSUME ~Fits(text) PROVE Bytes(SubSeq(text, 1, c)) >= MaxBytes - 1
  <2>1. c # Len(text)
    BY <1>5, <1>7, <1>9
  <2>2. c \in 0..(Len(text) - 1) /\ c + 1 \in 0..Len(text) /\ c + 1 > c
    BY <1>1, <1>5, <2>1
  <2>3. ~Fits(SubSeq(text, 1, c + 1))
    <3>1. c + 1 \notin K
      <4> HIDE DEF K
      <4> QED
        BY <1>3, <1>5, <2>2
    <3> QED
      BY <2>2, <3>1
  <2>4. /\ Bytes(SubSeq(text, 1, c + 1)) <= Bytes(SubSeq(text, 1, c)) + 2
        /\ Bytes(SubSeq(text, 1, c + 1)) \in Nat /\ Bytes(SubSeq(text, 1, c)) \in Nat
    <3>1. SubSeq(text, 1, c + 1) \in Seq(W)
      BY <2>2, PrefixIs
    <3> QED
      BY <1>6, <2>2, <3>1, PrefixGrows, BytesType
  <2> HIDE DEF K
  <2> QED
    BY <1>1, <2>3, <2>4 DEF Fits
<1>10. Fits(text) => Clipped(text) = text
  BY Zenon, <1>4, <1>7, <1>8
<1>11. ~Fits(text) => Bytes(Clipped(text)) >= MaxBytes - 1
  BY Zenon, <1>4, <1>9
<1>12. PICK d : d = SubSeq(text, 1, c)
  OBVIOUS
<1>13. d \in Seq(W) /\ Len(d) <= Len(text) /\ \A i \in 1..Len(d) : d[i] = text[i]
  <2> HIDE DEF K
  <2> QED
    BY <1>1, <1>5, <1>6, <1>12
<1>14. Clipped(text) = d
  BY <1>4, <1>12
<1> QED
  BY Zenon, <1>10, <1>11, <1>13, <1>14

LEMMA WholeFits ==
  ASSUME NEW W, NEW text \in Seq(W), Fits(text)
  PROVE  NewestOf(text) = text
<1>1. 1 \in Fitting(text)
  BY StartsInside, WholeSuffix DEF Fitting
<1>2. Fitting(text) \subseteq 1..(Len(text) + 1)
  BY StartsInside DEF Fitting
<1>3. Fitting(text) \in SUBSET Nat /\ Fitting(text) # {}
  BY <1>1, <1>2
<1>4. Min(Fitting(text)) \in Fitting(text) /\ Min(Fitting(text)) <= 1
  BY <1>1, <1>3, MinIs
<1>5. Min(Fitting(text)) = 1
  BY <1>2, <1>4
<1> QED
  BY <1>3, <1>5, NewestIs, WholeSuffix

LEMMA NoLines ==
  ASSUME NEW W, NEW text \in Seq(W), Newlines(text) = {}
  PROVE  NewestOf(text) = Clipped(text)
<1>1. CASE Fits(text)
  BY <1>1, WholeFits, ClippedIs
<1>2. CASE ~Fits(text)
  <2>1. Starts(text) = {1}
    BY DEF Starts
  <2>2. Max(Starts(text)) = 1
    BY <2>1, StartsInside
  <2>3. Fitting(text) = {}
    BY <1>2, <2>1, WholeSuffix DEF Fitting
  <2> QED
    BY <2>2, <2>3, NewestIs, WholeSuffix
<1> QED
  BY <1>1, <1>2

LEMMA NewestType ==
  ASSUME NEW W, NEW text \in Seq(W)
  PROVE  NewestOf(text) \in Seq(W)
<1>1. Starts(text) \subseteq 1..(Len(text) + 1) /\ Max(Starts(text)) \in 1..(Len(text) + 1)
  BY StartsInside
<1>2. CASE Fitting(text) # {}
  <2>1. Fitting(text) \in SUBSET Nat /\ Fitting(text) \subseteq 1..(Len(text) + 1)
    BY <1>1 DEF Fitting
  <2>2. Min(Fitting(text)) \in 1..(Len(text) + 1)
    BY <1>2, <2>1, MinIs
  <2> QED
    BY <1>2, <2>2, NewestIs, SuffixIs
<1>3. CASE Fitting(text) = {}
  <2>1. Suffix(text, Max(Starts(text))) \in Seq(W)
    BY <1>1, SuffixIs
  <2> QED
    BY <1>3, <2>1, NewestIs, ClippedIs
<1> QED
  BY <1>2, <1>3

LEMMA NewlinesFinite ==
  ASSUME NEW W, NEW text \in Seq(W)
  PROVE  /\ Newlines(text) \subseteq 1..Len(text) /\ IsFiniteSet(Newlines(text))
         /\ Cardinality(Newlines(text)) \in Nat
<1>1. Newlines(text) \subseteq 1..Len(text)
  BY DEF Newlines
<1>2. 1 \in Int /\ Len(text) \in Int
  OBVIOUS
<1>3. IsFiniteSet(Newlines(text))
  BY <1>1, <1>2, FS_Interval, FS_Subset
<1> QED
  BY <1>1, <1>3, FS_CardinalityType

(* Taking the first line off a text that does not fit.                     *)
LEMMA FirstLineFalls ==
  ASSUME NEW W, NEW text \in Seq(W), ~Fits(text), Newlines(text) # {}
  PROVE  /\ WithoutFirstLine(text) \in Seq(W)
         /\ Cardinality(Newlines(WithoutFirstLine(text))) = Cardinality(Newlines(text)) - 1
         /\ NewestOf(WithoutFirstLine(text)) = NewestOf(text)
<1>1. Newlines(text) \subseteq 1..Len(text) /\ Newlines(text) \in SUBSET Nat /\ Len(text) \in Nat
  BY NewlinesFinite
<1>2. PICK m \in Newlines(text) : m = Min(Newlines(text)) /\ \A i \in Newlines(text) : m <= i
  BY <1>1, MinIs
<1>3. PICK p \in 1..(Len(text) + 1) : p = m + 1
  BY <1>1
<1>4. PICK s : s = Suffix(text, p)
  OBVIOUS
<1>5. WithoutFirstLine(text) = s
  BY <1>2, <1>3, <1>4 DEF WithoutFirstLine, Suffix
<1>6. /\ s \in Seq(W) /\ Len(s) = Len(text) - p + 1
      /\ \A i \in 1..(Len(text) - p + 1) : s[i] = text[p + i - 1]
  BY <1>4, SuffixIs
<1>7. NewestOf(s) = NewestOf(text)
  <2>1. p \in Starts(text)
    BY <1>3 DEF Starts
  <2>2. ASSUME NEW j \in Starts(text), j < p PROVE ~Fits(Suffix(text, j))
    <3>1. CASE j = 1
      BY <3>1, WholeSuffix
    <3>2. CASE j # 1
      <4>1. PICK i \in Newlines(text) : j = i + 1
        BY <3>2 DEF Starts
      <4>2. m <= i /\ i \in Nat /\ m \in Nat
        BY <1>1, <1>2
      <4> QED
        BY <1>3, <2>2, <4>1, <4>2
    <3> QED
      BY <3>1, <3>2
  <2> QED
    BY <1>4, <2>1, <2>2, FrontFalls
<1>8. Cardinality(Newlines(s)) = Cardinality(Newlines(text)) - 1
  <2> DEFINE B == Newlines(text) \ {m}
             f == [i \in Newlines(s) |-> i + m]
  <2>1. Newlines(s) \subseteq 1..Len(s) /\ IsFiniteSet(Newlines(s))
    BY <1>6, NewlinesFinite
  <2>2. m \in Nat /\ m >= 1
    BY <1>1
  <2>3. ASSUME NEW i \in Newlines(s) PROVE i + m \in B
    <3>1. i \in 1..(Len(text) - p + 1) /\ s[i] = "n" /\ i \in Nat /\ i >= 1
      BY <1>6, <2>1 DEF Newlines
    <3>2. p + i - 1 = i + m /\ i + m \in 1..Len(text) /\ i + m # m
      BY <1>1, <1>3, <2>2, <3>1
    <3>3. text[i + m] = "n"
      BY <1>6, <3>1, <3>2
    <3> QED
      BY <3>2, <3>3 DEF Newlines
  <2>4. ASSUME NEW k \in B PROVE k - m \in Newlines(s) /\ (k - m) + m = k
    <3>1. k \in 1..Len(text) /\ text[k] = "n" /\ k # m /\ m <= k
      BY <1>1, <1>2 DEF Newlines
    <3>2. k - m \in 1..(Len(text) - p + 1) /\ p + (k - m) - 1 = k /\ (k - m) + m = k
      BY <1>1, <1>3, <2>2, <3>1
    <3>3. s[k - m] = "n"
      BY <1>6, <3>1, <3>2
    <3> QED
      BY <1>6, <3>2, <3>3 DEF Newlines
  <2>5. f \in [Newlines(s) -> B]
    BY <2>3
  <2>6. \A k \in B : \E i \in Newlines(s) : f[i] = k
    <3> TAKE k \in B
    <3>1. k - m \in Newlines(s) /\ f[k - m] = k
      BY <2>4
    <3> QED
      BY <3>1
  <2>7. \A i, k \in Newlines(s) : f[i] = f[k] => i = k
    BY <2>1, <2>2
  <2> HIDE DEF f, B
  <2>8. f \in Surjection(Newlines(s), B) /\ f \in Injection(Newlines(s), B)
    BY <2>5, <2>6, <2>7 DEF Surjection, Injection, IsInjective
  <2>9. Cardinality(B) = Cardinality(Newlines(s))
    BY <2>1, <2>8, FS_Surjection
  <2>10. Cardinality(B) = Cardinality(Newlines(text)) - 1
    BY NewlinesFinite, FS_RemoveElement DEF B
  <2> QED
    BY <2>9, <2>10
<1> QED
  BY <1>5, <1>6, <1>7, <1>8

(* The recursive function of TrimmedNote.                                  *)
Shorter(text) == IF Fits(text) THEN text ELSE WithoutFirstLine(text)
IsKept(f, text, n) ==
  f = [k \in 0..n |-> IF k = 0 THEN text
                      ELSE IF Fits(f[k - 1]) THEN f[k - 1] ELSE WithoutFirstLine(f[k - 1])]

LEMMA KeptExists ==
  ASSUME NEW text, NEW n \in Nat
  PROVE  \E f : IsKept(f, text, n)
<1> DEFINE Bad == {m \in Nat : ~ \E f : IsKept(f, text, m)}
<1>1. 0 \notin Bad
  <2>1. IsKept([k \in 0..0 |-> text], text, 0)
    BY DEF IsKept
  <2> QED
    BY <2>1
<1>2. ASSUME NEW m \in Nat, NEW f, IsKept(f, text, m) PROVE m + 1 \notin Bad
  <2> DEFINE g == [k \in 0..(m + 1) |-> IF k = 0 THEN text ELSE Shorter(f[k - 1])]
  <2>1. \A k \in 0..m : f[k] = IF k = 0 THEN text ELSE Shorter(f[k - 1])
    BY <1>2 DEF IsKept, Shorter
  <2>2. \A k \in 0..m : g[k] = f[k]
    BY <2>1
  <2>3. ASSUME NEW k \in 0..(m + 1)
        PROVE  g[k] = IF k = 0 THEN text ELSE Shorter(g[k - 1])
    <3>1. CASE k = 0
      BY <3>1
    <3>2. CASE k # 0
      <4>1. k - 1 \in 0..m
        BY <3>2
      <4>2. g[k - 1] = f[k - 1]
        BY <2>2, <4>1
      <4> QED
        BY <3>2, <4>2
    <3> QED
      BY <3>1, <3>2
  <2>4. g = [k \in 0..(m + 1) |-> g[k]]
    OBVIOUS
  <2> HIDE DEF g
  <2>5. IsKept(g, text, m + 1)
    BY <2>3, <2>4 DEF IsKept, Shorter
  <2> QED
    BY <2>5
<1>3. CASE Bad # {}
  <2>1. PICK m \in Bad : \A k \in Bad : m <= k
    <3>1. Bad \subseteq Nat
      OBVIOUS
    <3> HIDE DEF Bad
    <3> QED
      BY <1>3, <3>1, LeastNumber
  <2>2. m - 1 \in Nat /\ m - 1 \notin Bad /\ m = (m - 1) + 1
    BY <1>1, <2>1
  <2> QED
    BY <1>2, <2>1, <2>2
<1> QED
  BY <1>3

(* As lines go, what is newest stays, until the text fits or is one line.  *)
KeptWell(s, W, text, lines) ==
  /\ s \in Seq(W) /\ NewestOf(s) = NewestOf(text)
  /\ Fits(s) \/ Cardinality(Newlines(s)) = lines

LEMMA KeptIs ==
  ASSUME NEW W, NEW text \in Seq(W), NEW n \in Nat, n = Cardinality(Newlines(text)),
         NEW f, IsKept(f, text, n), NEW i \in 0..n
  PROVE  KeptWell(f[i], W, text, n - i)
<1> DEFINE Bad == {k \in 0..n : ~KeptWell(f[k], W, text, n - k)}
<1>1. \A k \in 0..n : f[k] = IF k = 0 THEN text ELSE Shorter(f[k - 1])
  BY DEF IsKept, Shorter
<1>2. CASE Bad # {}
  <2>1. PICK m \in Bad : \A k \in Bad : m <= k
    <3>1. Bad \subseteq Nat
      OBVIOUS
    <3> HIDE DEF Bad
    <3> QED
      BY <1>2, <3>1, LeastNumber
  <2>2. m # 0
    BY <1>1, <2>1 DEF KeptWell
  <2>3. PICK l \in 0..n : l = m - 1 /\ l \notin Bad
    BY <2>1, <2>2
  <2>4. PICK s : s = f[l]
    OBVIOUS
  <2>5. KeptWell(s, W, text, n - l)
    BY <2>3, <2>4
  <2>6. f[m] = Shorter(s)
    BY <1>1, <2>1, <2>2, <2>3, <2>4
  <2>7. CASE Fits(s)
    BY <2>1, <2>5, <2>6, <2>7 DEF KeptWell, Shorter
  <2>8. CASE ~Fits(s)
    <3>1. Cardinality(Newlines(s)) = n - l /\ n - l # 0 /\ (n - l) - 1 = n - m
      BY <2>1, <2>3, <2>5, <2>8 DEF KeptWell
    <3>2. Newlines(s) # {}
      BY <3>1, FS_EmptySet
    <3>3. KeptWell(WithoutFirstLine(s), W, text, n - m)
      BY <2>5, <2>8, <3>1, <3>2, FirstLineFalls DEF KeptWell
    <3> QED
      BY <2>1, <2>6, <2>8, <3>3 DEF Shorter
  <2> QED
    BY <2>7, <2>8
<1> QED
  BY <1>2

LEMMA NoteTrimmedIs ==
  ASSUME NEW W, NEW text \in Seq(W)
  PROVE  TrimmedNote(text) = NewestOf(text)
<1> DEFINE lines == Cardinality(Newlines(text))
           kept[k \in 0..lines] ==
             IF k = 0 THEN text
             ELSE IF Fits(kept[k - 1]) THEN kept[k - 1] ELSE WithoutFirstLine(kept[k - 1])
<1>1. TrimmedNote(text) = Clipped(kept[lines])
  BY Zenon DEF TrimmedNote
<1>2. lines \in Nat
  BY NewlinesFinite
<1>3. IsKept(kept, text, lines)
  <2>1. \E f : IsKept(f, text, lines)
    <3> HIDE DEF kept, lines
    <3> QED
      BY <1>2, KeptExists
  <2>2. kept = CHOOSE f : IsKept(f, text, lines)
    BY DEF IsKept
  <2> HIDE DEF kept
  <2> QED
    BY <2>1, <2>2
<1> HIDE DEF kept
<1>4. PICK n \in Nat : n = lines
  BY <1>2
<1>5. KeptWell(kept[n], W, text, n - n)
  <2>1. n \in 0..n /\ IsKept(kept, text, n) /\ n = Cardinality(Newlines(text))
    BY <1>3, <1>4
  <2> QED
    BY <2>1, KeptIs
<1>6. PICK s : s = kept[n]
  OBVIOUS
<1>7. s \in Seq(W) /\ NewestOf(s) = NewestOf(text) /\ (Fits(s) \/ Cardinality(Newlines(s)) = 0)
  BY <1>5, <1>6 DEF KeptWell
<1>8. NewestOf(s) = Clipped(s)
  <2>1. CASE Fits(s)
    BY <1>7, <2>1, WholeFits, ClippedIs
  <2>2. CASE Cardinality(Newlines(s)) = 0
    <3>1. Newlines(s) = {}
      BY <1>7, <2>2, NewlinesFinite, FS_EmptySet
    <3> QED
      BY <1>7, <3>1, NoLines
  <2> QED
    BY <1>7, <2>1, <2>2
<1> QED
  BY <1>1, <1>4, <1>6, <1>7, <1>8

(* The lines of two texts joined.                                          *)
JoinOf(c, W, a, b) ==
  /\ c \in Seq(W) /\ Len(a) + 2 \in Starts(c) /\ Suffix(c, Len(a) + 2) = b
  /\ \A k \in Starts(a) : k \in Starts(c) /\ Suffix(c, k) = Suffix(a, k) \o <<"n">> \o b
  /\ \A k \in Starts(c) : k < Len(a) + 2 => k \in Starts(a)

LEMMA JoinedStarts ==
  ASSUME NEW W, "n" \in W, NEW a \in Seq(W), NEW b \in Seq(W)
  PROVE  JoinOf(a \o <<"n">> \o b, W, a, b)
<1> DEFINE c == a \o <<"n">> \o b
<1>1. PICK l \in Seq(W) : l = <<"n">> /\ Len(l) = 1 /\ l[1] = "n"
  <2>1. PICK w \in W : w = "n"
    OBVIOUS
  <2>2. <<w>> \in Seq(W) /\ Len(<<w>>) = 1 /\ <<w>>[1] = w
    OBVIOUS
  <2> QED
    BY <2>1, <2>2
<1>2. PICK d : d = a \o l
  OBVIOUS
<1>3. /\ d \in Seq(W) /\ Len(d) = Len(a) + 1
      /\ \A i \in 1..(Len(a) + 1) : d[i] = IF i <= Len(a) THEN a[i] ELSE l[i - Len(a)]
  BY <1>1, <1>2, ConcatProperties
<1>4. Len(a) \in Nat /\ Len(b) \in Nat /\ Len(d) \in Nat
  BY <1>3
<1>5. \A i \in 1..Len(a) : d[i] = a[i]
  BY <1>3, <1>4
<1>6. d[Len(a) + 1] = "n"
  <2>1. Len(a) + 1 \in 1..(Len(a) + 1) /\ ~(Len(a) + 1 <= Len(a)) /\ (Len(a) + 1) - Len(a) = 1
    BY <1>4
  <2> QED
    BY <1>1, <1>3, <2>1
<1>7. c = d \o b
  BY <1>1, <1>2
<1> HIDE DEF c
<1>8. /\ c \in Seq(W) /\ Len(c) = Len(d) + Len(b)
      /\ \A i \in 1..(Len(d) + Len(b)) : c[i] = IF i <= Len(d) THEN d[i] ELSE b[i - Len(d)]
  BY <1>3, <1>7, ConcatProperties
<1>9. \A i \in 1..Len(d) : i \in 1..Len(c) /\ c[i] = d[i]
  BY <1>4, <1>8
<1>10. Newlines(c) \subseteq 1..Len(c) /\ Newlines(a) \subseteq 1..Len(a)
  BY <1>8, NewlinesFinite
<1>11. \A i \in 1..Len(a) : i \in Newlines(c) <=> i \in Newlines(a)
  <2> TAKE i \in 1..Len(a)
  <2>1. i \in 1..Len(d) /\ i \in 1..Len(c) /\ c[i] = a[i]
    BY <1>3, <1>4, <1>5, <1>9
  <2> QED
    BY <1>8, <2>1 DEF Newlines
<1>12. Len(a) + 1 \in Newlines(c)
  <2>1. Len(a) + 1 \in 1..Len(d)
    BY <1>3, <1>4
  <2>2. Len(a) + 1 \in 1..Len(c) /\ c[Len(a) + 1] = "n"
    BY <1>6, <1>9, <2>1
  <2> QED
    BY <1>8, <2>2 DEF Newlines
<1>13. Len(a) + 2 \in Starts(c)
  <2>1. Len(a) + 2 = (Len(a) + 1) + 1
    BY <1>4
  <2> QED
    BY <1>12, <2>1 DEF Starts
<1>14. Suffix(c, Len(a) + 2) = b
  <2>1. 1 \in 1..(Len(d) + 1) /\ Len(d) + 1 = Len(a) + 2 /\ Len(d) \in Nat
    BY <1>3, <1>4
  <2>2. Suffix(d \o b, Len(d) + 1) = b
    BY ZenonT(30), <1>3, <2>1, JoinHasSuffix
  <2> QED
    BY Zenon, <1>7, <2>1, <2>2
<1>15. ASSUME NEW k \in Starts(a)
       PROVE  k \in Starts(c) /\ Suffix(c, k) = Suffix(a, k) \o <<"n">> \o b
  <2>1. k \in 1..(Len(a) + 1) /\ k \in 1..(Len(d) + 1)
    BY <1>3, <1>4, StartsInside
  <2>2. k \in Starts(c)
    BY <1>10, <1>11 DEF Starts
  <2>3. Suffix(c, k) = Suffix(d, k) \o b
    <3>1. Suffix(d \o b, k) = Suffix(d, k) \o b
      BY <1>3, <2>1, JoinHasSuffix
    <3> QED
      BY Zenon, <1>7, <3>1
  <2>4. Suffix(d, k) = Suffix(a, k) \o l
    BY <1>1, <1>2, <2>1, JoinHasSuffix
  <2> QED
    BY Zenon, <1>1, <2>2, <2>3, <2>4
<1>16. ASSUME NEW k \in Starts(c), k < Len(a) + 2 PROVE k \in Starts(a)
  <2>1. CASE k = 1
    BY <2>1 DEF Starts
  <2>2. CASE k # 1
    <3>1. PICK i \in Newlines(c) : k = i + 1
      BY <2>2 DEF Starts
    <3>2. i \in 1..Len(a)
      BY <1>4, <1>8, <1>10, <1>16, <3>1
    <3> QED
      BY <1>11, <3>1, <3>2 DEF Starts
  <2> QED
    BY <2>1, <2>2
<1>17. JoinOf(c, W, a, b)
  BY <1>8, <1>13, <1>14, <1>15, <1>16 DEF JoinOf
<1> QED
  BY <1>17 DEF c

(* What joins a text weighs at least two bytes.                            *)
LEMMA JoinedWeighs ==
  ASSUME NEW W, "n" \in W, NEW a \in Seq(W), NEW b \in Seq(W), b # <<>>
  PROVE  Bytes(a \o <<"n">> \o b) >= Bytes(a) + 2 /\ Bytes(a) \in Nat
         /\ Bytes(a \o <<"n">> \o b) \in Nat
<1>1. PICK l \in Seq(W) : l = <<"n">> /\ l # <<>>
  <2>1. PICK w \in W : w = "n"
    OBVIOUS
  <2>2. <<w>> \in Seq(W) /\ <<w>> # <<>>
    OBVIOUS
  <2> QED
    BY <2>1, <2>2
<1>2. PICK d : d = a \o l
  OBVIOUS
<1>3. d \in Seq(W)
  BY <1>1, <1>2, ConcatProperties
<1>4. /\ Bytes(d) = Bytes(a) + Bytes(l) /\ Bytes(d \o b) = Bytes(d) + Bytes(b)
      /\ Bytes(a) \in Nat /\ Bytes(l) \in Nat /\ Bytes(b) \in Nat
      /\ Bytes(l) >= 1 /\ Bytes(b) >= 1
  BY <1>1, <1>2, <1>3, BytesAdd, BytesType, BytesOfFew
<1> QED
  BY <1>1, <1>2, <1>4

(* Trimming what was trimmed and a line more is trimming both at once.     *)
LEMMA TrimAgain ==
  ASSUME NEW W, "n" \in W, NEW text \in Seq(W), text = <<>> \/ text[Len(text)] # "n",
         NEW more \in Seq(W), more # <<>>
  PROVE  NewestOf(Joined(NewestOf(text), more)) = NewestOf(Joined(text, more))
<1>1. CASE text = <<>>
  <2>1. Bytes(text) = 0
    BY <1>1, BytesOfFew
  <2>2. Fits(text)
    BY <2>1, NotesAssumption DEF Fits
  <2>3. NewestOf(text) = text
    BY <2>2, WholeFits
  <2> QED
    BY <2>3
<1>2. CASE text # <<>>
  <2>1. PICK c : c = text \o <<"n">> \o more
    OBVIOUS
  <2>2. /\ c \in Seq(W) /\ Len(text) + 2 \in Starts(c) /\ Suffix(c, Len(text) + 2) = more
        /\ \A k \in Starts(text) :
             k \in Starts(c) /\ Suffix(c, k) = Suffix(text, k) \o <<"n">> \o more
        /\ \A k \in Starts(c) : k < Len(text) + 2 => k \in Starts(text)
    <3>1. JoinOf(text \o <<"n">> \o more, W, text, more)
      BY JoinedStarts
    <3>2. JoinOf(c, W, text, more)
      BY Zenon, <2>1, <3>1
    <3> QED
      BY <3>2 DEF JoinOf
  <2>3. Joined(text, more) = c
    BY <1>2, <2>1 DEF Joined
  <2>4. Starts(text) \subseteq 1..Len(text)
    <3>1. ASSUME NEW k \in Starts(text) PROVE k # Len(text) + 1
      <4>1. CASE k = 1
        BY <1>2, <4>1
      <4>2. CASE k # 1
        <5>1. PICK i \in Newlines(text) : k = i + 1
          BY <4>2 DEF Starts
        <5>2. i # Len(text) /\ i \in Nat /\ Len(text) \in Nat
          BY <1>2 DEF Newlines
        <5> QED
          BY <5>1, <5>2
      <4> QED
        BY <4>1, <4>2
    <3>2. Starts(text) \subseteq 1..(Len(text) + 1) /\ Len(text) \in Nat
      BY StartsInside
    <3> QED
      BY <3>1, <3>2
  <2>5. ASSUME NEW j \in Starts(text), ~Fits(Suffix(text, j))
        PROVE  j \in Starts(c) /\ ~Fits(Suffix(c, j))
    <3>1. Suffix(text, j) \in Seq(W)
      BY StartsInside, SuffixIs
    <3>2. /\ Bytes(Suffix(text, j) \o <<"n">> \o more) >= Bytes(Suffix(text, j)) + 2
          /\ Bytes(Suffix(text, j)) \in Nat
          /\ Bytes(Suffix(text, j) \o <<"n">> \o more) \in Nat
      BY <3>1, JoinedWeighs
    <3>3. ~Fits(Suffix(text, j) \o <<"n">> \o more)
      <4>1. PICK x \in Nat, y \in Nat : /\ x = Bytes(Suffix(text, j) \o <<"n">> \o more)
                                       /\ y = Bytes(Suffix(text, j)) /\ x >= y + 2
        BY <3>2
      <4>2. ~(y <= MaxBytes)
        BY <2>5, <4>1 DEF Fits
      <4>3. ~(x <= MaxBytes)
        BY <4>1, <4>2, NotesAssumption
      <4> QED
        BY Zenon, <4>1, <4>3 DEF Fits
    <3> QED
      BY Zenon, <2>2, <2>5, <3>3
  <2>6. CASE Fitting(text) # {}
    <3>1. Fitting(text) \in SUBSET Nat
      BY <2>4 DEF Fitting
    <3>2. PICK m \in Fitting(text) : m = Min(Fitting(text)) /\ \A k \in Fitting(text) : m <= k
      BY <2>6, <3>1, MinIs
    <3>3. m \in Starts(text) /\ m \in 1..Len(text) /\ m \in 1..(Len(text) + 1)
      BY <2>4, <3>2 DEF Fitting
    <3>4. PICK s : s = Suffix(text, m)
      OBVIOUS
    <3>5. NewestOf(text) = s
      BY <2>6, <3>2, <3>4, NewestIs
    <3>6. Len(s) # 0
      BY <3>3, <3>4, SuffixIs
    <3>7. Joined(s, more) = Suffix(c, m)
      <4>1. s # <<>>
        BY <3>6
      <4> QED
        BY <2>2, <3>3, <3>4, <4>1 DEF Joined
    <3>8. ASSUME NEW j \in Starts(c), j < m PROVE ~Fits(Suffix(c, j))
      <4>1. j \in Starts(text)
        BY <2>2, <3>3, <3>8, StartsInside
      <4>2. j \notin Fitting(text)
        BY <2>4, <3>2, <3>3, <3>8, <4>1
      <4> QED
        BY <2>5, <4>1, <4>2 DEF Fitting
    <3>9. m \in Starts(c)
      BY <2>2, <3>3
    <3>10. NewestOf(Suffix(c, m)) = NewestOf(c)
      BY <2>2, <3>8, <3>9, FrontFalls
    <3> QED
      BY <2>3, <3>5, <3>7, <3>10
  <2>7. CASE Fitting(text) = {}
    <3>1. NewestOf(c) = NewestOf(more)
      <4>1. ASSUME NEW j \in Starts(c), j < Len(text) + 2 PROVE ~Fits(Suffix(c, j))
        BY <2>2, <2>5, <2>7, <4>1 DEF Fitting
      <4>2. PICK p : p = Len(text) + 2
        OBVIOUS
      <4>3. NewestOf(Suffix(c, p)) = NewestOf(c)
        BY <2>2, <4>1, <4>2, FrontFalls
      <4> QED
        BY <2>2, <4>2, <4>3
    <3>2. PICK m \in Starts(text) : m = Max(Starts(text)) /\ \A k \in Starts(text) : k <= m
      BY StartsInside
    <3>3. PICK t : t = Suffix(text, m)
      OBVIOUS
    <3>4. t \in Seq(W) /\ ~Fits(t)
      <4>1. m \in 1..(Len(text) + 1)
        BY StartsInside
      <4> QED
        BY <2>7, <3>3, <4>1, SuffixIs DEF Fitting
    <3>5. Newlines(t) = {}
      <4>1. ASSUME NEW i \in Newlines(t) PROVE FALSE
        <5>1. i \in Nat /\ i >= 1 /\ i + 1 \in Starts(t)
          BY <3>4, NewlinesFinite DEF Starts
        <5>2. m + (i + 1) - 1 \in Starts(text)
          BY <3>3, <5>1, StartsShift
        <5>3. m \in Nat /\ m + (i + 1) - 1 <= m
          BY <2>4, <3>2, <5>2
        <5> QED
          BY <5>1, <5>3
      <4> QED
        BY <4>1
    <3>6. PICK n : n = Clipped(t)
      OBVIOUS
    <3>7. /\ n \in Seq(W) /\ Len(n) <= Len(t) /\ \A i \in 1..Len(n) : n[i] = t[i]
          /\ Bytes(n) >= MaxBytes - 1
      BY <3>4, <3>6, ClippedIs
    <3>8. NewestOf(text) = n
      BY <2>7, <3>2, <3>3, <3>6, NewestIs
    <3>9. CASE n = <<>>
      BY <2>3, <3>1, <3>8, <3>9 DEF Joined
    <3>10. CASE n # <<>>
      <4>1. PICK e : e = n \o <<"n">> \o more
        OBVIOUS
      <4>2. /\ e \in Seq(W) /\ Len(n) + 2 \in Starts(e) /\ Suffix(e, Len(n) + 2) = more
            /\ \A k \in Starts(e) : k < Len(n) + 2 => k \in Starts(n)
        <5>1. JoinOf(n \o <<"n">> \o more, W, n, more)
          BY <3>7, JoinedStarts
        <5>2. JoinOf(e, W, n, more)
          BY Zenon, <4>1, <5>1
        <5> QED
          BY <5>2 DEF JoinOf
      <4>3. Joined(n, more) = e
        BY <3>10, <4>1 DEF Joined
      <4>4. Newlines(n) = {}
        <5>1. ASSUME NEW i \in Newlines(n) PROVE i \in Newlines(t)
          <6>1. i \in 1..Len(n) /\ n[i] = "n" /\ Len(n) \in Nat /\ Len(t) \in Nat
            BY <3>4, <3>7 DEF Newlines
          <6>2. i \in 1..Len(t) /\ t[i] = "n"
            BY <3>7, <6>1
          <6> QED
            BY <3>4, <6>2 DEF Newlines
        <5> QED
          BY <3>5, <5>1
      <4>5. Starts(n) = {1}
        BY <4>4 DEF Starts
      <4>6. ~Fits(e)
        <5>1. Bytes(e) >= Bytes(n) + 2 /\ Bytes(n) \in Nat /\ Bytes(e) \in Nat
          BY <3>7, <4>1, JoinedWeighs
        <5> QED
          BY <3>7, <5>1, NotesAssumption DEF Fits
      <4>7. ASSUME NEW j \in Starts(e), j < Len(n) + 2 PROVE ~Fits(Suffix(e, j))
        <5>1. j = 1
          BY <4>2, <4>5, <4>7
        <5> QED
          BY <4>2, <4>6, <5>1, WholeSuffix
      <4>8. PICK p : p = Len(n) + 2
        OBVIOUS
      <4>9. NewestOf(Suffix(e, p)) = NewestOf(e)
        BY <4>2, <4>7, <4>8, FrontFalls
      <4>10. NewestOf(e) = NewestOf(more)
        BY <4>2, <4>8, <4>9
      <4> QED
        BY <2>3, <3>1, <3>8, <4>3, <4>10
    <3> QED
      BY <3>9, <3>10
  <2> QED
    BY <2>6, <2>7
<1> QED
  BY <1>1, <1>2

-----------------------------------------------------------------------------
Letters == {"n"} \cup UNION {{text[i] : i \in DOMAIN text} : text \in Learned}
Urls == {RootUrl(p) : p \in Pages}
NotesInv ==
  /\ notes \in [Urls -> Seq(Letters)] /\ prior \in [Writers -> Seq(Letters)]
  /\ at = [r \in Writers |-> at[r]] /\ stage = [r \in Writers |-> stage[r]]
  /\ \A r \in Writers : stage[r] = "asking" => at[r] \in Pages
  /\ told \in [Sites -> Seq(Letters)]
  /\ \A s \in Sites : told[s] = <<>> \/ told[s][Len(told[s])] # "n"
  /\ NewestIsKept

LEMMA LearnedIs ==
  ASSUME NEW text \in Learned
  PROVE  text \in Seq(Letters) /\ text # <<>> /\ text[Len(text)] # "n"
<1>1. /\ text \in Seq({text[i] : i \in DOMAIN text})
      /\ text # <<>> /\ text[Len(text)] # "n"
  BY NotesAssumption
<1>2. {text[i] : i \in DOMAIN text} \subseteq Letters
  BY Zenon DEF Letters
<1>3. text \in Seq(Letters)
  BY Zenon, <1>1, <1>2, SeqMonotonic
<1> QED
  BY <1>1, <1>3

LEMMA JoinedIs ==
  ASSUME NEW text \in Seq(Letters), NEW more \in Learned
  PROVE  /\ Joined(text, more) \in Seq(Letters) /\ Joined(text, more) # <<>>
         /\ Joined(text, more)[Len(Joined(text, more))] # "n"
<1>1. more \in Seq(Letters) /\ more # <<>> /\ more[Len(more)] # "n" /\ Len(more) \in Nat \ {0}
  BY LearnedIs
<1>2. CASE text = <<>>
  BY <1>1, <1>2 DEF Joined
<1>3. CASE text # <<>>
  <2>1. PICK l \in Seq(Letters) : l = <<"n">>
    <3>1. PICK w \in Letters : w = "n"
      BY DEF Letters
    <3>2. <<w>> \in Seq(Letters)
      OBVIOUS
    <3> QED
      BY <3>1, <3>2
  <2>2. PICK d : d = text \o l
    OBVIOUS
  <2>3. d \in Seq(Letters) /\ Len(d) \in Nat
    BY <2>1, <2>2, ConcatProperties
  <2>4. PICK c : c = d \o more
    OBVIOUS
  <2>5. /\ c \in Seq(Letters) /\ Len(c) = Len(d) + Len(more)
        /\ \A i \in 1..(Len(d) + Len(more)) :
             c[i] = IF i <= Len(d) THEN d[i] ELSE more[i - Len(d)]
    BY <1>1, <2>3, <2>4, ConcatProperties
  <2>6. c[Len(c)] = more[Len(more)] /\ Len(c) # 0
    <3>1. /\ Len(c) \in 1..(Len(d) + Len(more)) /\ ~(Len(c) <= Len(d))
          /\ Len(c) - Len(d) = Len(more)
      BY <1>1, <2>3, <2>5
    <3> QED
      BY <2>5, <3>1
  <2>7. Joined(text, more) = c
    BY <1>3, <2>1, <2>2, <2>4 DEF Joined
  <2>8. c # <<>>
    BY <2>6
  <2> QED
    BY <1>1, <2>5, <2>6, <2>7, <2>8
<1> QED
  BY <1>2, <1>3

LEMMA RootIs ==
  ASSUME NEW p, NEW q
  PROVE  RootUrl(p) = RootUrl(q) <=> p.site = q.site
<1>1. RootUrl(p).site = p.site /\ RootUrl(q).site = q.site
  BY DEF RootUrl
<1>2. p.site = q.site => RootUrl(p) = RootUrl(q)
  BY Zenon DEF RootUrl
<1> QED
  BY <1>1, <1>2

LEMMA NotesInitHolds == NotesInit => NotesInv
<1> SUFFICES ASSUME NotesInit PROVE NotesInv
  OBVIOUS
<1>1. <<>> \in Seq(Letters)
  OBVIOUS
<1>2. notes \in [Urls -> Seq(Letters)] /\ \A p \in Pages : notes[RootUrl(p)] = <<>>
  BY <1>1 DEF NotesInit, Urls
<1>3. /\ told \in [Sites -> Seq(Letters)] /\ prior \in [Writers -> Seq(Letters)]
      /\ \A s \in Sites : told[s] = <<>>
  BY <1>1 DEF NotesInit
<1>4. /\ at = [r \in Writers |-> at[r]] /\ stage = [r \in Writers |-> stage[r]]
      /\ \A r \in Writers : stage[r] = "idle"
  BY DEF NotesInit
<1>5. NewestOf(<<>>) = <<>>
  <2>1. Fits(<<>>)
    <3>1. Bytes(<<>>) = 0
      BY <1>1, BytesOfFew
    <3> QED
      BY <3>1, NotesAssumption DEF Fits
  <2> QED
    BY <1>1, <2>1, WholeFits
<1>6. NewestIsKept
  <2>1. \A p \in Pages : p.site \in Sites
    BY DEF Sites
  <2> QED
    BY <1>2, <1>3, <1>5, <2>1 DEF NewestIsKept
<1> QED
  BY <1>2, <1>3, <1>4, <1>6 DEF NotesInv

(* A note is replaced: what the site was told changes with it.             *)
LEMMA NoteReplaced ==
  ASSUME NotesInv, NEW r \in Writers, stage[r] = "asking",
         NEW text \in Seq(Letters), Replaces(r, text, at[r].site),
         NEW all \in Seq(Letters), all # <<>>, all[Len(all)] # "n",
         told' = [told EXCEPT ![at[r].site] = all],
         (at[r].site \notin tainted /\ notes[RootUrl(at[r])] = prior[r])
           => NewestOf(text) = NewestOf(all)
  PROVE  NotesInv'
<1> DEFINE q == at[r]
<1>1. q \in Pages /\ q.site \in Sites /\ RootUrl(q) \in Urls
  BY DEF NotesInv, Sites, Urls
<1>2. /\ notes \in [Urls -> Seq(Letters)] /\ told \in [Sites -> Seq(Letters)]
      /\ prior \in [Writers -> Seq(Letters)] /\ NewestIsKept
      /\ \A s \in Sites : told[s] = <<>> \/ told[s][Len(told[s])] # "n"
      /\ at = [w \in Writers |-> at[w]] /\ stage = [w \in Writers |-> stage[w]]
      /\ \A w \in Writers : stage[w] = "asking" => at[w] \in Pages
  BY DEF NotesInv
<1>3. /\ notes' = [notes EXCEPT ![RootUrl(q)] = TrimmedNote(text)]
      /\ tainted' = IF notes[RootUrl(q)] = prior[r] THEN tainted ELSE tainted \cup {q.site}
      /\ stage' = [stage EXCEPT ![r] = "over"] /\ at' = at /\ prior' = prior
      /\ told' = [told EXCEPT ![q.site] = all]
  BY DEF Replaces
<1> HIDE DEF q
<1>4. TrimmedNote(text) = NewestOf(text) /\ NewestOf(text) \in Seq(Letters)
  BY NoteTrimmedIs, NewestType
<1>5. notes' \in [Urls -> Seq(Letters)] /\ told' \in [Sites -> Seq(Letters)]
  BY <1>1, <1>2, <1>3, <1>4
<1>6. \A s \in Sites : told'[s] = <<>> \/ told'[s][Len(told'[s])] # "n"
  <2> TAKE s \in Sites
  <2>1. told'[s] = IF s = q.site THEN all ELSE told[s]
    BY <1>2, <1>3
  <2>2. CASE s = q.site
    BY <2>1, <2>2
  <2>3. CASE s # q.site
    BY <1>2, <2>1, <2>3
  <2> QED
    BY <2>2, <2>3
<1>7. /\ at' = [w \in Writers |-> at'[w]] /\ stage' = [w \in Writers |-> stage'[w]]
      /\ \A w \in Writers : stage'[w] = "asking" => at'[w] \in Pages
  <2>1. stage' = [w \in Writers |-> IF w = r THEN "over" ELSE stage[w]]
    BY <1>2, <1>3
  <2> QED
    BY <1>2, <1>3, <2>1
<1>8. NewestIsKept'
  <2> SUFFICES ASSUME NEW p \in Pages, p.site \notin tainted'
               PROVE  notes'[RootUrl(p)] = NewestOf(told'[p.site])
    BY DEF NewestIsKept
  <2>1. p.site \in Sites /\ RootUrl(p) \in Urls
    BY DEF Sites, Urls
  <2>2. p.site \notin tainted /\ (p.site = q.site => notes[RootUrl(q)] = prior[r])
    BY <1>3
  <2>3. CASE p.site = q.site
    <3>1. notes'[RootUrl(p)] = NewestOf(text)
      <4>1. RootUrl(p) = RootUrl(q)
        BY <2>3, RootIs
      <4>2. notes'[RootUrl(q)] = TrimmedNote(text)
        BY <1>1, <1>2, <1>3
      <4> QED
        BY <1>4, <4>1, <4>2
    <3>2. told'[p.site] = all
      BY <1>1, <1>2, <1>3, <2>3
    <3>3. NewestOf(text) = NewestOf(all)
      BY <2>2, <2>3 DEF q
    <3> QED
      BY <3>1, <3>2, <3>3
  <2>4. CASE p.site # q.site
    <3>1. RootUrl(p) # RootUrl(q)
      BY <2>4, RootIs
    <3>2. notes'[RootUrl(p)] = notes[RootUrl(p)] /\ told'[p.site] = told[p.site]
      BY <1>2, <1>3, <2>1, <2>4, <3>1
    <3>3. notes[RootUrl(p)] = NewestOf(told[p.site])
      BY <1>2, <2>2 DEF NewestIsKept
    <3> QED
      BY <3>2, <3>3
  <2> QED
    BY <2>3, <2>4
<1> QED
  BY <1>2, <1>3, <1>5, <1>6, <1>7, <1>8 DEF NotesInv

LEMMA NotesStep == NotesInv /\ [NotesNext]_noteVars => NotesInv'
<1> SUFFICES ASSUME NotesInv, [NotesNext]_noteVars PROVE NotesInv'
  OBVIOUS
<1>1. ASSUME NEW r \in Writers, Distil(r) PROVE NotesInv'
  <2>1. PICK p \in Pages :
          at' = [at EXCEPT ![r] = p] /\ prior' = [prior EXCEPT ![r] = notes[RootUrl(p)]]
    BY <1>1 DEF Distil
  <2>2. stage' = [stage EXCEPT ![r] = "asking"] /\ UNCHANGED <<notes, told, tainted>>
    BY <1>1 DEF Distil
  <2>3. notes[RootUrl(p)] \in Seq(Letters)
    BY DEF NotesInv, Urls
  <2>4. prior' \in [Writers -> Seq(Letters)]
    BY <2>1, <2>3 DEF NotesInv
  <2>5. /\ at' = [w \in Writers |-> IF w = r THEN p ELSE at[w]]
        /\ stage' = [w \in Writers |-> IF w = r THEN "asking" ELSE stage[w]]
    BY <2>1, <2>2 DEF NotesInv
  <2>6. /\ at' = [w \in Writers |-> at'[w]] /\ stage' = [w \in Writers |-> stage'[w]]
        /\ \A w \in Writers : stage'[w] = "asking" => at'[w] \in Pages
    BY <2>5 DEF NotesInv
  <2>7. NewestIsKept'
    BY <2>2 DEF NotesInv, NewestIsKept
  <2> QED
    BY <2>2, <2>4, <2>6, <2>7 DEF NotesInv
<1>2. ASSUME NEW r \in Writers, FoldsIn(r) PROVE NotesInv'
  <2>1. PICK more \in Learned :
          /\ Replaces(r, Joined(prior[r], more), at[r].site)
          /\ told' = [told EXCEPT ![at[r].site] = Joined(@, more)]
    BY <1>2 DEF FoldsIn
  <2>2. stage[r] = "asking" /\ at[r] \in Pages /\ at[r].site \in Sites /\ prior[r] \in Seq(Letters)
    BY <1>2 DEF FoldsIn, NotesInv, Sites
  <2>3. PICK old \in Seq(Letters) : old = told[at[r].site] /\ (old = <<>> \/ old[Len(old)] # "n")
    BY <2>2 DEF NotesInv
  <2>4. PICK all : all = Joined(old, more)
    OBVIOUS
  <2>5. all \in Seq(Letters) /\ all # <<>> /\ all[Len(all)] # "n"
    BY <2>3, <2>4, JoinedIs
  <2>6. PICK text \in Seq(Letters) : text = Joined(prior[r], more)
    BY <2>2, JoinedIs
  <2>7. told' = [told EXCEPT ![at[r].site] = all] /\ Replaces(r, text, at[r].site)
    BY <2>1, <2>3, <2>4, <2>6
  <2>8. (at[r].site \notin tainted /\ notes[RootUrl(at[r])] = prior[r])
          => NewestOf(text) = NewestOf(all)
    <3> SUFFICES ASSUME at[r].site \notin tainted, notes[RootUrl(at[r])] = prior[r]
                 PROVE  NewestOf(text) = NewestOf(all)
      OBVIOUS
    <3>1. prior[r] = NewestOf(old)
      BY <2>2, <2>3 DEF NotesInv, NewestIsKept
    <3>2. "n" \in Letters /\ more \in Seq(Letters) /\ more # <<>>
      BY LearnedIs DEF Letters
    <3>3. NewestOf(Joined(NewestOf(old), more)) = NewestOf(Joined(old, more))
      BY <2>3, <3>2, TrimAgain
    <3> QED
      BY <2>4, <2>6, <3>1, <3>3
  <2> QED
    BY <2>2, <2>5, <2>7, <2>8, NoteReplaced
<1>3. ASSUME NEW r \in Writers, StartsOver(r) PROVE NotesInv'
  <2>1. PICK text \in Learned :
          /\ Replaces(r, text, at[r].site)
          /\ told' = [told EXCEPT ![at[r].site] = text]
    BY <1>3 DEF StartsOver
  <2>2. stage[r] = "asking"
    BY <1>3 DEF StartsOver
  <2>3. text \in Seq(Letters) /\ text # <<>> /\ text[Len(text)] # "n"
    BY LearnedIs
  <2> QED
    BY <2>1, <2>2, <2>3, NoteReplaced
<1>4. ASSUME NEW r \in Writers, SaysNothing(r) PROVE NotesInv'
  <2>1. stage' = [stage EXCEPT ![r] = "over"] /\ UNCHANGED <<notes, at, prior, told, tainted>>
    BY <1>4 DEF SaysNothing
  <2>2. stage' = [w \in Writers |-> IF w = r THEN "over" ELSE stage[w]]
    BY <2>1 DEF NotesInv
  <2>3. NewestIsKept'
    BY <2>1 DEF NotesInv, NewestIsKept
  <2> QED
    BY <2>1, <2>2, <2>3 DEF NotesInv
<1>5. CASE UNCHANGED noteVars
  BY <1>5 DEF noteVars, NotesInv, NewestIsKept
<1> QED
  BY <1>1, <1>2, <1>3, <1>4, <1>5 DEF NotesNext

(* Whatever page of a site a run starts on, it is shown the newest whole lines
   of all that runs have told of the site: however the distillations of any
   number of runs overlap, over any number of pages and for every limit, trimming
   the note each time (NotesStore.set) keeps what trimming once would have kept. *)
THEOREM NewestStays == NotesSpec => []NewestIsKept
<1>1. NotesInv => NewestIsKept
  BY DEF NotesInv
<1> QED
  BY <1>1, NotesInitHolds, NotesStep, PTL DEF NotesSpec

-----------------------------------------------------------------------------
(* Repeated reads.                                                         *)
(* A function that looks for the first member of T and takes the value there. *)
IsSearch(f, T, g, n) == f = [k \in 0..n |-> IF k \in T THEN g[k] ELSE f[k + 1]]

LEMMA SearchExists ==
  ASSUME NEW n \in Nat, NEW T, T \subseteq 0..n, n \in T, NEW g
  PROVE  \E f : IsSearch(f, T, g, n)
<1> DEFINE Above(k) == {m \in T : k <= m}
           IsFirst(k, m) == m \in Above(k) /\ \A l \in Above(k) : m <= l
           First(k) == CHOOSE m \in T : IsFirst(k, m)
           f == [k \in 0..n |-> g[First(k)]]
<1>1. ASSUME NEW k \in 0..n PROVE First(k) \in T /\ IsFirst(k, First(k))
  <2>1. Above(k) \subseteq Nat /\ Above(k) # {}
    <3>1. n \in Above(k)
      OBVIOUS
    <3>2. T \subseteq Nat
      OBVIOUS
    <3>3. Above(k) \subseteq Nat
      BY <3>2
    <3> HIDE DEF Above
    <3> QED
      BY <3>1, <3>3
  <2>2. \E m \in Above(k) : \A l \in Above(k) : m <= l
    BY <2>1, LeastNumber
  <2> QED
    BY <2>2
<1>2. ASSUME NEW k \in 0..n, NEW a \in T, NEW b \in T, IsFirst(k, a), IsFirst(k, b) PROVE a = b
  BY <1>2
<1>3. ASSUME NEW k \in 0..n, k \in T PROVE First(k) = k
  <2>1. IsFirst(k, k)
    BY <1>3
  <2> HIDE DEF IsFirst, First
  <2> QED
    BY <1>1, <1>2, <1>3, <2>1
<1>4. ASSUME NEW k \in 0..n, k \notin T PROVE k + 1 \in 0..n /\ First(k + 1) = First(k)
  <2>1. k + 1 \in 0..n
    BY <1>4
  <2>2. Above(k) = Above(k + 1)
    <3>1. ASSUME NEW m \in T PROVE k <= m <=> k + 1 <= m
      <4>1. m # k /\ m \in Nat
        BY <1>4
      <4> QED
        BY <4>1
    <3> QED
      BY <3>1
  <2> QED
    BY <2>1, <2>2
<1>5. \A k \in 0..n : f[k] = IF k \in T THEN g[k] ELSE f[k + 1]
  <2> TAKE k \in 0..n
  <2> HIDE DEF First
  <2> QED
    BY <1>3, <1>4
<1>6. f = [k \in 0..n |-> f[k]]
  OBVIOUS
<1> HIDE DEF f
<1>7. IsSearch(f, T, g, n)
  BY <1>5, <1>6 DEF IsSearch
<1> QED
  BY <1>7

LEMMA SearchIs ==
  ASSUME NEW n \in Nat, NEW T, T \subseteq 0..n, NEW g, NEW f, IsSearch(f, T, g, n),
         NEW m \in T, \A j \in 0..(m - 1) : j \notin T
  PROVE  f[0] = g[m]
<1>1. \A k \in 0..n : f[k] = IF k \in T THEN g[k] ELSE f[k + 1]
  BY DEF IsSearch
<1> DEFINE Bad == {k \in 0..m : f[k] # f[0]}
<1>2. CASE Bad # {}
  <2>1. PICK l \in Bad : \A k \in Bad : l <= k
    <3>1. Bad \subseteq Nat
      OBVIOUS
    <3> HIDE DEF Bad
    <3> QED
      BY <1>2, <3>1, LeastNumber
  <2>2. l # 0 /\ l \in 0..m
    BY <2>1
  <2>3. PICK k \in 0..(m - 1) : l = k + 1
    BY <2>2
  <2>4. k \notin Bad /\ k \notin T /\ k \in 0..n
    BY <2>1, <2>3
  <2>5. f[k] = f[l] /\ f[k] = f[0]
    BY <1>1, <2>3, <2>4
  <2> QED
    BY <2>1, <2>5
<1>3. CASE Bad = {}
  <2>1. m \in 0..m /\ m \in 0..n
    OBVIOUS
  <2>2. f[m] = f[0]
    BY <1>3, <2>1
  <2> QED
    BY <1>1, <2>1, <2>2
<1> QED
  BY <1>2, <1>3

LEMMA Strides ==
  ASSUME NEW limit \in Nat \ {0}, NEW j \in Nat, NEW k \in Nat
  PROVE  /\ k * limit \in Nat /\ (k * limit = 0 <=> k = 0)
         /\ j < k => j * limit < k * limit
<1>1. \A n, c \in Int : (n + 1) * c = n * c + c
  OBVIOUS
<1>2. k * limit \in Nat /\ j * limit \in Nat
  OBVIOUS
<1>3. ASSUME j < k PROVE j * limit < k * limit
  <2>1. PICK d \in Nat : k = j + 1 + d
    <3>1. k - j - 1 \in Nat /\ k = j + 1 + (k - j - 1)
      BY <1>3
    <3> QED
      BY <3>1
  <2>2. k * limit = j * limit + limit + d * limit /\ d * limit \in Nat
    BY <2>1
  <2> QED
    BY <1>2, <2>2
<1>4. 0 * limit = 0
  OBVIOUS
<1>5. k # 0 => k * limit # 0
  OBVIOUS
<1> QED
  BY <1>2, <1>3, <1>4, <1>5

(* Where plan_read stops, and what it plans there.                         *)
Stops(text, cache0, first, limit, cap) ==
  {k \in 0..cap : \/ PastEnd(text, first + k * limit)
                  \/ ~Hit(text, cache0, first + k * limit, limit)
                  \/ Cap(k, cap)}
Exhausted(text, cache0, offset, limit) == PastEnd(text, offset) \/ Hit(text, cache0, offset, limit)
PlanAt(text, cache0, first, limit, k) ==
  LET offset == first + k * limit
      over == Exhausted(text, cache0, offset, limit)
  IN  [offset |-> offset,
       served |-> IF over THEN <<>> ELSE Window(text, offset, limit),
       advanced |-> offset # first,
       exhausted |-> over]

LEMMA PlanAtIs ==
  ASSUME NEW text, NEW memo, NEW first, NEW limit, NEW k, NEW here, here = first + k * limit,
         NEW a, a = PlanAt(text, memo, first, limit, k)
  PROVE  /\ a.offset = here
         /\ a.exhausted <=> PastEnd(text, here) \/ Hit(text, memo, here, limit)
         /\ ~a.exhausted => a.served = Window(text, here, limit)
<1>1. PICK over \in BOOLEAN : over = (PastEnd(text, here) \/ Hit(text, memo, here, limit))
  OBVIOUS
<1>2. PICK served : served = IF over THEN <<>> ELSE Window(text, here, limit)
  OBVIOUS
<1>3. a = [offset |-> here, served |-> served, advanced |-> here # first, exhausted |-> over]
  BY <1>1, <1>2, Zenon DEF PlanAt, Exhausted
<1>4. a.offset = here /\ a.exhausted = over /\ a.served = served
  BY <1>3
<1> QED
  BY <1>1, <1>2, <1>4

LEMMA PlanIs ==
  ASSUME NEW text, NEW memo, NEW first \in Int, NEW limit \in Nat \ {0}, NEW cap \in Nat
  PROVE  \E m \in Stops(text, memo, first, limit, cap) :
           /\ \A j \in 0..(m - 1) : j \notin Stops(text, memo, first, limit, cap)
           /\ PlanRead(text, first, memo, limit, cap) = PlanAt(text, memo, first, limit, m)
<1>1. PICK T : T = Stops(text, memo, first, limit, cap)
  OBVIOUS
<1>2. T \subseteq 0..cap /\ cap \in T
  BY <1>1 DEF Stops, Cap
<1> DEFINE At(k) == first + k * limit
           Stop(k) == PastEnd(text, At(k)) \/ ~Hit(text, memo, At(k), limit) \/ Cap(k, cap)
           stop == CHOOSE k \in 0..cap : Stop(k) /\ \A j \in 0..(k - 1) : ~Stop(j)
<1>3. \A k \in 0..cap : k \in T <=> Stop(k)
  BY <1>1 DEF Stops
<1>4. \E m \in T : \A j \in T : m <= j
  <2>1. T \subseteq Nat /\ T # {}
    BY <1>2
  <2> QED
    BY <2>1, LeastNumber
<1>5. \E k \in 0..cap : Stop(k) /\ \A j \in 0..(k - 1) : ~Stop(j)
  <2>1. PICK m \in T : \A j \in T : m <= j
    BY <1>4
  <2>2. \A j \in 0..(m - 1) : j \in 0..cap /\ j \notin T
    BY <1>2, <2>1
  <2> HIDE DEF Stop
  <2> QED
    BY <1>2, <1>3, <2>1, <2>2
<1>6. stop \in 0..cap /\ Stop(stop) /\ \A j \in 0..(stop - 1) : ~Stop(j)
  <2> HIDE DEF Stop
  <2> QED
    BY <1>5
<1>7. PICK m : m = stop
  OBVIOUS
<1>8. m \in T /\ \A j \in 0..(m - 1) : j \notin T
  <2>1. m \in 0..cap /\ Stop(m) /\ \A j \in 0..(m - 1) : ~Stop(j)
    BY <1>6, <1>7
  <2>2. \A j \in 0..(m - 1) : j \in 0..cap
    BY <2>1
  <2> HIDE DEF Stop, stop
  <2> QED
    BY <1>3, <2>1, <2>2
<1>9. (m > 0) = (At(m) # first)
  <2>1. m \in Nat
    BY <1>2, <1>8
  <2>2. m * limit \in Nat /\ (m * limit = 0 <=> m = 0)
    BY <2>1, Strides
  <2> QED
    BY <2>1, <2>2
<1> DEFINE over == PastEnd(text, At(m)) \/ Hit(text, memo, At(m), limit)
<1>10. PlanRead(text, first, memo, limit, cap) =
         [offset |-> At(m), served |-> IF over THEN <<>> ELSE Window(text, At(m), limit),
          advanced |-> m > 0, exhausted |-> over]
  BY <1>7 DEF PlanRead
<1>11. PlanRead(text, first, memo, limit, cap) = PlanAt(text, memo, first, limit, m)
  <2>1. PlanRead(text, first, memo, limit, cap) =
         [offset |-> At(m), served |-> IF over THEN <<>> ELSE Window(text, At(m), limit),
          advanced |-> At(m) # first, exhausted |-> over]
    BY <1>9, <1>10
  <2> QED
    BY <2>1 DEF PlanAt, Exhausted
<1> HIDE DEF At, Stop, stop, over
<1> QED
  BY <1>1, <1>8, <1>11

LEMMA LoopIs ==
  ASSUME NEW text, NEW memo, NEW first \in Int, NEW limit \in Nat \ {0}, NEW cap \in Nat,
         NEW m \in Stops(text, memo, first, limit, cap),
         \A j \in 0..(m - 1) : j \notin Stops(text, memo, first, limit, cap)
  PROVE  PlanByLoop(text, first, memo, limit, cap) = PlanAt(text, memo, first, limit, m)
<1>1. PICK T : T = Stops(text, memo, first, limit, cap)
  OBVIOUS
<1>2. T \subseteq 0..cap /\ cap \in T
  BY <1>1 DEF Stops, Cap
<1> DEFINE Ends(k) == PastEnd(text, first + k * limit)
           Seen(k) == Hit(text, memo, first + k * limit, limit)
           Body(f, k) ==
             IF Ends(k)
             THEN [offset |-> first + k * limit, served |-> <<>>, advanced |-> first + k * limit # first, exhausted |-> TRUE]
             ELSE IF ~Seen(k)
             THEN [offset |-> first + k * limit, served |-> Window(text, first + k * limit, limit),
                   advanced |-> first + k * limit # first, exhausted |-> FALSE]
             ELSE IF k + 1 >= cap
             THEN [offset |-> first + k * limit, served |-> <<>>, advanced |-> first + k * limit # first, exhausted |-> TRUE]
             ELSE f[k + 1]
           g == [k \in 0..cap |-> PlanAt(text, memo, first, limit, k)]
<1>3. ASSUME NEW f, NEW k \in 0..cap PROVE Body(f, k) = IF k \in T THEN g[k] ELSE f[k + 1]
  <2>1. k \in T <=> Ends(k) \/ ~Seen(k) \/ k + 1 >= cap
    BY <1>1 DEF Stops, Cap
  <2>2. PICK offset : offset = first + k * limit
    OBVIOUS
  <2>3. g[k] = LET over == Ends(k) \/ Seen(k)
               IN  [offset |-> offset, served |-> IF over THEN <<>> ELSE Window(text, offset, limit),
                    advanced |-> offset # first, exhausted |-> over]
    BY <2>2 DEF PlanAt, Exhausted
  <2>4. Body(f, k) =
             IF Ends(k)
             THEN [offset |-> offset, served |-> <<>>, advanced |-> offset # first, exhausted |-> TRUE]
             ELSE IF ~Seen(k)
             THEN [offset |-> offset, served |-> Window(text, offset, limit),
                   advanced |-> offset # first, exhausted |-> FALSE]
             ELSE IF k + 1 >= cap
             THEN [offset |-> offset, served |-> <<>>, advanced |-> offset # first, exhausted |-> TRUE]
             ELSE f[k + 1]
    BY <2>2
  <2> HIDE DEF Ends, Seen, Body, g
  <2>5. CASE Ends(k)
    BY <2>1, <2>3, <2>4, <2>5
  <2>6. CASE ~Ends(k) /\ ~Seen(k)
    BY <2>1, <2>3, <2>4, <2>6
  <2>7. CASE ~Ends(k) /\ Seen(k)
    BY <2>1, <2>3, <2>4, <2>7
  <2> QED
    BY <2>5, <2>6, <2>7
<1> DEFINE loop == CHOOSE f : f = [k \in 0..cap |-> Body(f, k)]
<1>4. PlanByLoop(text, first, memo, limit, cap) = loop[0]
  BY Zenon DEF PlanByLoop
<1> HIDE DEF Body, g
<1>5. \A f : [k \in 0..cap |-> Body(f, k)] = [k \in 0..cap |-> IF k \in T THEN g[k] ELSE f[k + 1]]
  BY <1>3
<1>6. \E f : IsSearch(f, T, g, cap)
  BY <1>2, SearchExists
<1>7. IsSearch(loop, T, g, cap)
  <2>1. \E f : f = [k \in 0..cap |-> Body(f, k)]
    BY <1>5, <1>6 DEF IsSearch
  <2>2. loop = [k \in 0..cap |-> Body(loop, k)]
    BY <2>1
  <2> HIDE DEF loop
  <2> QED
    BY <1>5, <2>2 DEF IsSearch
<1> HIDE DEF loop
<1>8. loop[0] = g[m]
  BY <1>1, <1>2, <1>7, SearchIs
<1>9. g[m] = PlanAt(text, memo, first, limit, m)
  BY <1>1, <1>2 DEF g
<1> QED
  BY <1>4, <1>8, <1>9

LEMMA PlanLoops ==
  ASSUME NEW text, NEW memo, NEW first \in Int, NEW limit \in Nat \ {0}, NEW cap \in Nat
  PROVE  PlanRead(text, first, memo, limit, cap) = PlanByLoop(text, first, memo, limit, cap)
<1>1. PICK m \in Stops(text, memo, first, limit, cap) :
        /\ \A j \in 0..(m - 1) : j \notin Stops(text, memo, first, limit, cap)
        /\ PlanRead(text, first, memo, limit, cap) = PlanAt(text, memo, first, limit, m)
  BY PlanIs
<1>2. PlanByLoop(text, first, memo, limit, cap) = PlanAt(text, memo, first, limit, m)
  BY <1>1, LoopIs
<1> QED
  BY <1>1, <1>2

PlanInv ==
  /\ requested \in Int /\ maxHops \in Nat
  /\ plan = PlanRead(page, requested, cache, Limit, maxHops)

LEMMA PlanStart == PlanInit => PlanInv
BY PlannedReadsAssumption DEF PlanInit, PlanInv

LEMMA PlanStep == PlanInv /\ [AskAgain]_planVars => PlanInv'
BY DEF PlanInv, AskAgain, planVars

LEMMA PlanInvLoops == PlanInv => PlanIsTheLoop
BY PlanLoops, PlannedReadsAssumption DEF PlanInv, PlanIsTheLoop

(* Up to its stop, a plan depends on the memo of the windows it passes.    *)
LEMMA RecordedMovesOn ==
  ASSUME NEW text, NEW memo, NEW first \in Int, NEW limit \in Nat \ {0}, NEW cap \in Nat,
         NEW old, old = PlanRead(text, first, memo, limit, cap), ~old.exhausted,
         NEW new, new = PlanRead(text, first, Record(memo, old.offset, old.served), limit, cap)
  PROVE  new.exhausted \/ new.offset > old.offset
<1>1. PICK m \in Stops(text, memo, first, limit, cap) :
        /\ \A j \in 0..(m - 1) : j \notin Stops(text, memo, first, limit, cap)
        /\ old = PlanAt(text, memo, first, limit, m)
  BY PlanIs
<1>2. PICK here : here = first + m * limit
  OBVIOUS
<1>3. m \in 0..cap
  BY <1>1 DEF Stops
<1>4. /\ old.offset = here /\ old.served = Window(text, here, limit)
      /\ ~PastEnd(text, here) /\ ~Hit(text, memo, here, limit)
  BY <1>1, <1>2, PlanAtIs
<1>5. PICK fresh : fresh = Record(memo, here, Window(text, here, limit))
  OBVIOUS
<1>6. new = PlanRead(text, first, fresh, limit, cap)
  BY <1>4, <1>5
<1>7. PICK l \in Stops(text, fresh, first, limit, cap) :
        /\ \A j \in 0..(l - 1) : j \notin Stops(text, fresh, first, limit, cap)
        /\ new = PlanAt(text, fresh, first, limit, l)
  BY <1>6, PlanIs
<1>8. l \in 0..cap /\ new.offset = first + l * limit
  BY <1>7 DEF Stops, PlanAt
<1>9. CASE l < m
  <2>1. l \notin Stops(text, memo, first, limit, cap)
    BY <1>1, <1>3, <1>8, <1>9
  <2>2. l * limit < m * limit /\ l * limit \in Nat /\ m * limit \in Nat
    BY <1>3, <1>8, <1>9, Strides
  <2>3. PICK there : there = first + l * limit
    OBVIOUS
  <2>4. there # here
    BY <1>2, <2>2, <2>3
  <2>5. Hit(text, fresh, there, limit) <=> Hit(text, memo, there, limit)
    BY <1>5, <2>4 DEF Hit, WasServed, Record
  <2>6. l \in Stops(text, memo, first, limit, cap)
    BY <1>7, <1>8, <2>3, <2>5 DEF Stops
  <2> QED
    BY <2>1, <2>6
<1>10. CASE l = m
  <2>1. Hit(text, fresh, here, limit)
    BY <1>5 DEF Hit, WasServed, Record
  <2> QED
    BY <1>2, <1>7, <1>10, <2>1, PlanAtIs
<1>11. CASE l > m
  <2>1. m * limit < l * limit /\ l * limit \in Nat /\ m * limit \in Nat
    BY <1>3, <1>8, <1>11, Strides
  <2> QED
    BY <1>2, <1>4, <1>8, <2>1
<1> QED
  BY <1>3, <1>8, <1>9, <1>10, <1>11

LEMMA PlanMoves ==
  PlanInv /\ [AskAgain]_planVars => [plan'.exhausted \/ plan'.offset > plan.offset]_planVars
<1> SUFFICES ASSUME PlanInv, AskAgain PROVE plan'.exhausted \/ plan'.offset > plan.offset
  OBVIOUS
<1>1. /\ requested \in Int /\ maxHops \in Nat /\ Limit \in Nat \ {0}
      /\ plan = PlanRead(page, requested, cache, Limit, maxHops) /\ ~plan.exhausted
      /\ plan' = PlanRead(page, requested, Record(cache, plan.offset, plan.served), Limit, maxHops)
  BY PlannedReadsAssumption DEF PlanInv, AskAgain
<1> QED
  BY <1>1, RecordedMovesOn

(* plan_read, for every page, memo, request and cap: the plan is the one its loop
   computes.                                                                 *)
THEOREM PlansAreTheLoop == PlanSpec => []PlanIsTheLoop
BY PlanStart, PlanStep, PlanInvLoops, PTL DEF PlanSpec

(* Each repetition of a read is served a later window, or told the end, however
   many windows, of this page or of others, the memo holds.                  *)
THEOREM ReadsMoveOn == PlanSpec => NextPlanMovesOn
BY PlanStart, PlanStep, PlanMoves, PTL DEF PlanSpec, NextPlanMovesOn

-----------------------------------------------------------------------------
(* The diff with a legacy layout.                                          *)
(* Where an item has one record, that record is the one of the index.      *)
LEMMA PlacesAre ==
  ASSUME NEW W, NEW layout \in Seq(W), NEW i
  PROVE  /\ IsFiniteSet(PlacesOf(layout, i)) /\ PlacesOf(layout, i) \subseteq 1..Len(layout)
         /\ i # NoItem => (i \in ItemsIn(layout) <=> PlacesOf(layout, i) # {})
<1>1. 1 \in Int /\ Len(layout) \in Int /\ DOMAIN layout = 1..Len(layout)
  OBVIOUS
<1>2. IsFiniteSet(1..Len(layout))
  BY <1>1, FS_Interval
<1>3. PlacesOf(layout, i) \subseteq 1..Len(layout)
  BY <1>1 DEF PlacesOf
<1>4. Range(layout) = {layout[k] : k \in DOMAIN layout}
  BY DEF Range
<1>5. ASSUME i # NoItem PROVE i \in ItemsIn(layout) <=> PlacesOf(layout, i) # {}
  BY <1>4, <1>5 DEF ItemsIn, PlacesOf
<1> QED
  BY <1>2, <1>3, <1>5, FS_Subset

LEMMA ItemsFinite ==
  ASSUME NEW W, NEW layout \in Seq(W)
  PROVE  IsFiniteSet(ItemsIn(layout))
<1>1. 1 \in Int /\ Len(layout) \in Int /\ DOMAIN layout = 1..Len(layout)
  OBVIOUS
<1>2. IsFiniteSet(1..Len(layout))
  BY <1>1, FS_Interval
<1> DEFINE f == [k \in 1..Len(layout) |-> layout[k].item]
           B == {layout[k].item : k \in 1..Len(layout)}
<1>3. f \in Surjection(1..Len(layout), B)
  BY DEF Surjection
<1> HIDE DEF f
<1>4. IsFiniteSet(B)
  BY <1>2, <1>3, FS_Surjection
<1>5. ItemsIn(layout) \subseteq B
  BY <1>1 DEF ItemsIn, Range
<1> HIDE DEF B
<1> QED
  BY <1>4, <1>5, FS_Subset

LEMMA OnePlace ==
  ASSUME NEW W, NEW layout \in Seq(W), NEW i \in ItemsIn(layout), Cardinality(PlacesOf(layout, i)) <= 1
  PROVE  StatusesIn(layout, i) = {IndexByItem(layout)[i].status}
<1> DEFINE places == PlacesOf(layout, i)
<1>1. IsFiniteSet(places) /\ places \subseteq 1..Len(layout) /\ places # {}
  BY PlacesAre DEF ItemsIn
<1>2. PICK k : k \in places
  BY <1>1
<1>3. places = {k}
  <2>1. IsFiniteSet(places \ {k}) /\ Cardinality(places \ {k}) = Cardinality(places) - 1
    BY <1>1, <1>2, FS_RemoveElement
  <2>2. Cardinality(places \ {k}) \in Nat /\ Cardinality(places) \in Nat
    BY <1>1, <2>1, FS_CardinalityType
  <2>3. Cardinality(places \ {k}) = 0
    BY <2>1, <2>2
  <2>4. places \ {k} = {}
    BY <2>1, <2>3, FS_EmptySet
  <2> QED
    BY <1>2, <2>4
<1>4. Max({k}) = k
  BY <1>1, <1>2 DEF Max
<1>5. IndexByItem(layout)[i] = layout[k]
  BY <1>3, <1>4 DEF IndexByItem, PlacesOf
<1>6. \A l \in DOMAIN layout : layout[l].item = i <=> l = k
  BY <1>3 DEF PlacesOf
<1>7. k \in DOMAIN layout
  BY <1>2 DEF PlacesOf
<1>8. Range(layout) = {layout[l] : l \in DOMAIN layout}
  BY DEF Range
<1>9. {x \in Range(layout) : x.item = i} = {layout[k]}
  BY <1>6, <1>7, <1>8
<1> QED
  BY <1>5, <1>9 DEF StatusesIn

LEMMA NoPlace ==
  ASSUME NEW W, NEW layout \in Seq(W), NEW i, i # NoItem, i \notin ItemsIn(layout)
  PROVE  StatusesIn(layout, i) = {}
<1>1. {x \in Range(layout) : x.item = i} = {}
  BY DEF ItemsIn
<1> QED
  BY <1>1 DEF StatusesIn


(* A comparison that is ok: no difference, soft ones included.             *)
LEMMA FoundOk ==
  ASSUME NEW l, NEW c, NEW o,
         NEW diff, diff = DiffFiling(l, c, o), Verdict(diff) = "ok",
         IsFiniteSet(ItemsIn(l))
  PROVE  /\ ItemsIn(l) = ItemsIn(c) /\ Len(l) = Len(c)
         /\ \A i \in ItemsIn(l) : IndexByItem(l)[i].status = IndexByItem(c)[i].status
         /\ diff.strict = diff.total /\ diff.allowed = diff.total /\ diff.within = diff.total
<1>1. PICK old, new : old = IndexByItem(l) /\ new = IndexByItem(c)
  OBVIOUS
<1>2. PICK both : both = DOMAIN old \cap DOMAIN new
  OBVIOUS
<1>3. PICK flipped : flipped = {i \in both : old[i].status # new[i].status}
  OBVIOUS
<1>4. PICK differences : differences =
        {<<"missing", i>> : i \in DOMAIN old \ DOMAIN new}
          \cup {<<"extra", i>> : i \in DOMAIN new \ DOMAIN old}
          \cup {<<"status_flip", i>> : i \in flipped}
  OBVIOUS
<1>5. PICK tolerated : tolerated = {d \in differences : Tolerated(o, d[2], d[1])}
  OBVIOUS
<1>6. PICK drifted : drifted = {i \in both : Drifts(old[i], new[i])}
  OBVIOUS
<1>7. PICK moved : moved = {i \in both \ drifted : Moved(old[i], new[i])}
  OBVIOUS
<1>8. PICK count : count = IF Len(l) = Len(c) THEN {} ELSE {<<"count_drift", NoItem>>}
  OBVIOUS
<1>9. PICK failed, spared :
        /\ failed = IF \E i \in DOMAIN o : "count_drift" \in o[i] THEN {} ELSE count
        /\ spared = IF \E i \in DOMAIN o : "count_drift" \in o[i] THEN count ELSE {}
  OBVIOUS
<1>10. /\ diff.hard = (differences \ tolerated) \cup failed
       /\ diff.expected = tolerated \cup spared
       /\ diff.soft = {<<"length", i>> : i \in drifted \ flipped} \cup {<<"range", i>> : i \in moved \ flipped}
       /\ diff.total = Cardinality(DOMAIN old)
       /\ diff.strict = Cardinality(both \ flipped)
       /\ diff.allowed = Cardinality(both \ flipped) + Cardinality({d \in tolerated : d[1] = "status_flip"})
       /\ diff.within = Cardinality(both \ drifted)
  <2>1. diff.hard = (differences \ tolerated) \cup failed
    BY <1>1, <1>2, <1>3, <1>4, <1>5, <1>6, <1>7, <1>8, <1>9 DEF DiffFiling
  <2>2. diff.expected = tolerated \cup spared
    BY <1>1, <1>2, <1>3, <1>4, <1>5, <1>6, <1>7, <1>8, <1>9 DEF DiffFiling
  <2>3. diff.soft = {<<"length", i>> : i \in drifted \ flipped} \cup {<<"range", i>> : i \in moved \ flipped}
    BY <1>1, <1>2, <1>3, <1>4, <1>5, <1>6, <1>7, <1>8, <1>9 DEF DiffFiling
  <2>4. diff.total = Cardinality(DOMAIN old)
    BY <1>1, <1>2, <1>3, <1>4, <1>5, <1>6, <1>7, <1>8, <1>9 DEF DiffFiling
  <2>5. diff.strict = Cardinality(both \ flipped)
    BY <1>1, <1>2, <1>3, <1>4, <1>5, <1>6, <1>7, <1>8, <1>9 DEF DiffFiling
  <2>6. diff.allowed = Cardinality(both \ flipped) + Cardinality({d \in tolerated : d[1] = "status_flip"})
    BY <1>1, <1>2, <1>3, <1>4, <1>5, <1>6, <1>7, <1>8, <1>9 DEF DiffFiling
  <2>7. diff.within = Cardinality(both \ drifted)
    BY <1>1, <1>2, <1>3, <1>4, <1>5, <1>6, <1>7, <1>8, <1>9 DEF DiffFiling
  <2> QED
    BY <2>1, <2>2, <2>3, <2>4, <2>5, <2>6, <2>7
<1>11. diff.hard = {} /\ diff.soft = {} /\ diff.expected = {}
  BY DEF Verdict
<1>12. tolerated = {} /\ differences = {} /\ count = {}
  BY <1>9, <1>10, <1>11
<1>13. {<<"missing", i>> : i \in DOMAIN old \ DOMAIN new} = {} /\ {<<"extra", i>> : i \in DOMAIN new \ DOMAIN old} = {}
       /\ {<<"status_flip", i>> : i \in flipped} = {} /\ {<<"length", i>> : i \in drifted \ flipped} = {}
  BY <1>4, <1>10, <1>11, <1>12
<1>14. DOMAIN old = DOMAIN new /\ flipped = {} /\ drifted = {}
  BY <1>13
<1>15. DOMAIN old = ItemsIn(l) /\ DOMAIN new = ItemsIn(c)
  BY <1>1 DEF IndexByItem
<1>16. Len(l) = Len(c)
  BY <1>8, <1>12
<1>17. \A i \in ItemsIn(l) : old[i].status = new[i].status
  BY <1>2, <1>3, <1>14, <1>15
<1>18. both \ flipped = DOMAIN old /\ both \ drifted = DOMAIN old
  BY <1>2, <1>14
<1>19. {d \in tolerated : d[1] = "status_flip"} = {}
  BY <1>12
<1>20. Cardinality(DOMAIN old) \in Nat
  BY <1>15, FS_CardinalityType
<1>21. Cardinality({d \in tolerated : d[1] = "status_flip"}) = 0
  BY <1>19, FS_EmptySet
<1>22. diff.strict = diff.total /\ diff.allowed = diff.total /\ diff.within = diff.total
  BY <1>10, <1>18, <1>20, <1>21
<1> QED
  BY <1>1, <1>14, <1>15, <1>16, <1>17, <1>22

(* A difference that is not tolerated is a hard failure.                   *)
LEMMA FoundHard ==
  ASSUME NEW l, NEW c, NEW o, NEW i, NEW kind,
         \/ kind = "missing" /\ i \in ItemsIn(l) \ ItemsIn(c)
         \/ kind = "extra" /\ i \in ItemsIn(c) \ ItemsIn(l)
         \/ /\ kind = "status_flip" /\ i \in ItemsIn(l) \cap ItemsIn(c)
            /\ IndexByItem(l)[i].status # IndexByItem(c)[i].status,
         ~Tolerated(o, i, kind)
  PROVE  Verdict(DiffFiling(l, c, o)) = "hard"
<1>1. PICK old, new : old = IndexByItem(l) /\ new = IndexByItem(c)
  OBVIOUS
<1>2. PICK flipped : flipped = {j \in DOMAIN old \cap DOMAIN new : old[j].status # new[j].status}
  OBVIOUS
<1>3. PICK differences : differences =
        {<<"missing", j>> : j \in DOMAIN old \ DOMAIN new}
          \cup {<<"extra", j>> : j \in DOMAIN new \ DOMAIN old}
          \cup {<<"status_flip", j>> : j \in flipped}
  OBVIOUS
<1>4. PICK tolerated : tolerated = {d \in differences : Tolerated(o, d[2], d[1])}
  OBVIOUS
<1>5. PICK counted : counted = IF \E j \in DOMAIN o : "count_drift" \in o[j] THEN {}
                             ELSE IF Len(l) = Len(c) THEN {} ELSE {<<"count_drift", NoItem>>}
  OBVIOUS
<1>6. DiffFiling(l, c, o).hard = (differences \ tolerated) \cup counted
  BY <1>1, <1>2, <1>3, <1>4, <1>5 DEF DiffFiling
<1>7. DOMAIN old = ItemsIn(l) /\ DOMAIN new = ItemsIn(c)
  BY <1>1 DEF IndexByItem
<1>8. <<kind, i>> \in differences
  BY <1>1, <1>2, <1>3, <1>7
<1>9. <<kind, i>> \notin tolerated
  BY <1>4
<1>10. DiffFiling(l, c, o).hard # {}
  BY <1>8, <1>9, <1>6
<1> QED
  BY <1>10 DEF Verdict

LEMMA DriftFound == DiffInit => DriftIsReported
<1> SUFFICES ASSUME DiffInit PROVE DriftIsReported
  OBVIOUS
<1>1. PICK W, V : legacy \in Seq(W) /\ current \in Seq(V)
  BY RegressionAssumption DEF DiffInit
<1>2. PICK diff : diff = DiffFiling(legacy, current, override)
  OBVIOUS
<1> DEFINE Once(i) == Cardinality(PlacesOf(legacy, i)) <= 1 /\ Cardinality(PlacesOf(current, i)) <= 1
           items == {i \in ItemsIn(legacy) \cup ItemsIn(current) : Once(i)}
           Kind(i) == IF StatusesIn(current, i) = {} THEN "missing"
                      ELSE IF StatusesIn(legacy, i) = {} THEN "extra" ELSE "status_flip"
<1>3. ASSUME NEW i \in items
      PROVE  /\ i \in ItemsIn(legacy) => StatusesIn(legacy, i) = {IndexByItem(legacy)[i].status}
             /\ i \in ItemsIn(current) => StatusesIn(current, i) = {IndexByItem(current)[i].status}
             /\ i \notin ItemsIn(legacy) => StatusesIn(legacy, i) = {}
             /\ i \notin ItemsIn(current) => StatusesIn(current, i) = {}
  <2>1. i # NoItem
    BY DEF ItemsIn
  <2> QED
    BY <1>1, <2>1, OnePlace, NoPlace
<1>4. ASSUME NEW i \in items, StatusesIn(legacy, i) # StatusesIn(current, i)
      PROVE  Verdict(diff) = "hard" \/ Tolerated(override, i, Kind(i))
  <2>1. \/ Kind(i) = "missing" /\ i \in ItemsIn(legacy) \ ItemsIn(current)
        \/ Kind(i) = "extra" /\ i \in ItemsIn(current) \ ItemsIn(legacy)
        \/ /\ Kind(i) = "status_flip" /\ i \in ItemsIn(legacy) \cap ItemsIn(current)
           /\ IndexByItem(legacy)[i].status # IndexByItem(current)[i].status
    BY <1>3, <1>4
  <2> HIDE DEF Kind
  <2> QED
    BY <1>2, <2>1, FoundHard
<1>5. ASSUME Verdict(diff) = "ok"
      PROVE  /\ \A i \in items : StatusesIn(legacy, i) = StatusesIn(current, i)
             /\ Len(legacy) = Len(current)
             /\ diff.strict = diff.total /\ diff.allowed = diff.total /\ diff.within = diff.total
  <2>1. IsFiniteSet(ItemsIn(legacy))
    BY <1>1, ItemsFinite
  <2>2. /\ ItemsIn(legacy) = ItemsIn(current) /\ Len(legacy) = Len(current)
        /\ \A i \in ItemsIn(legacy) : IndexByItem(legacy)[i].status = IndexByItem(current)[i].status
        /\ diff.strict = diff.total /\ diff.allowed = diff.total /\ diff.within = diff.total
    BY <1>2, <1>5, <2>1, FoundOk
  <2>3. \A i \in items : StatusesIn(legacy, i) = StatusesIn(current, i)
    BY <1>3, <2>2
  <2> QED
    BY <2>2, <2>3
<1> QED
  BY <1>2, <1>4, <1>5, Zenon DEF DriftIsReported, Tolerated

(* task3/README.md:45-52: whatever the layouts and the overrides of a filing, no
   difference in an item of one record passes unseen, and an ok filing matches in
   every count.                                                              *)
THEOREM DriftNeverPasses == DiffSpec => []DriftIsReported
<1>1. DriftIsReported /\ [FALSE]_diffVars => DriftIsReported'
  BY DEF diffVars, DriftIsReported
<1> QED
  BY <1>1, DriftFound, PTL DEF DiffSpec

-----------------------------------------------------------------------------
(* Headings and slices lie apart.                                          *)
(* Of numbers below n, the ones that no earlier one of them reaches past.  *)
LEMMA GreedyExists ==
  ASSUME NEW n \in Nat, NEW H, H \subseteq 0..(n - 1), NEW reach
  PROVE  \E M \in SUBSET H : \A p \in H : p \in M <=> \A q \in M : ~(q < p /\ p < reach[q])
<1> DEFINE Below(m) == {h \in H : h < m}
           Good(M, m) == /\ M \subseteq Below(m)
                         /\ \A p \in Below(m) : p \in M <=> \A q \in M : ~(q < p /\ p < reach[q])
           Bad == {m \in Nat : ~ \E M : Good(M, m)}
<1>1. \A h \in H : h \in Nat
  OBVIOUS
<1>2. 0 \notin Bad
  <2>1. Below(0) = {}
    <3>1. \A h \in H : ~(h < 0)
      BY <1>1
    <3> QED
      BY <3>1
  <2>2. Good({}, 0)
    BY <2>1
  <2> QED
    BY <2>2
<1>3. ASSUME NEW m \in Nat, NEW M, Good(M, m) PROVE m + 1 \notin Bad
  <2>1. PICK N : N = {p \in Below(m + 1) : p \in M \/ (p = m /\ \A q \in M : ~(q < p /\ p < reach[q]))}
    OBVIOUS
  <2>2. \A p \in Below(m + 1) : p \in Below(m) \/ p = m
    BY <1>1
  <2>3. \A p \in Below(m) : p \in Below(m + 1) /\ p # m /\ p < m
    BY <1>1
  <2>4. \A p \in Below(m) : p \in N <=> p \in M
    BY <2>1, <2>3
  <2>5. M \subseteq Below(m)
    BY <1>3
  <2>6. \A q \in N : q \in M \/ q = m
    BY <2>1
  <2>7. ASSUME NEW p \in Below(m + 1)
        PROVE  p \in N <=> \A q \in N : ~(q < p /\ p < reach[q])
    <3>1. (\A q \in N : ~(q < p /\ p < reach[q])) <=> (\A q \in M : ~(q < p /\ p < reach[q]))
      <4>1. \A q \in M : q \in N
        BY <2>4, <2>5
      <4>2. \A q \in N : q < p => q \in M
        <5>1. p <= m /\ p \in Nat
          BY <1>1
        <5> QED
          BY <2>6, <5>1
      <4> HIDE DEF Below, Good
      <4> QED
        BY <4>1, <4>2
    <3>2. CASE p \in Below(m)
      <4>1. p \in M <=> \A q \in M : ~(q < p /\ p < reach[q])
        BY <1>3, <3>2
      <4> HIDE DEF Below, Good
      <4> QED
        BY <2>4, <3>1, <3>2, <4>1
    <3>3. CASE p \notin Below(m)
      <4>1. p = m /\ p \notin M
        BY <2>2, <2>5, <3>3
      <4> HIDE DEF Below, Good
      <4> QED
        BY <2>1, <3>1, <4>1
    <3> QED
      BY <3>2, <3>3
  <2>8. Good(N, m + 1)
    <3>1. N \subseteq Below(m + 1)
      BY <2>1
    <3> HIDE DEF Below
    <3> QED
      BY <2>7, <3>1
  <2> HIDE DEF Good
  <2> QED
    BY <2>8
<1>4. Bad = {}
  <2> SUFFICES ASSUME Bad # {} PROVE FALSE
    OBVIOUS
  <2>1. Bad \subseteq Nat
    OBVIOUS
  <2>2. PICK m \in Bad : \A k \in Bad : m <= k
    <3> HIDE DEF Bad
    <3> QED
      BY <2>1, LeastNumber
  <2>3. m - 1 \in Nat /\ m - 1 \notin Bad /\ m = (m - 1) + 1
    <3>1. m # 0 /\ m \in Nat
      BY <1>2, <2>1, <2>2
    <3>2. m - 1 \in Nat /\ ~(m <= m - 1) /\ m = (m - 1) + 1
      BY <3>1
    <3> HIDE DEF Bad
    <3> QED
      BY <2>2, <3>2
  <2>4. PICK M : Good(M, m - 1)
    BY <2>3
  <2>5. m \notin Bad
    <3> HIDE DEF Bad, Good
    <3> QED
      BY <1>3, <2>3, <2>4
  <2> HIDE DEF Bad
  <2> QED
    BY <2>2, <2>5
<1>5. PICK M : Good(M, n)
  BY <1>4
<1>6. Below(n) = H
  <2>1. \A h \in H : h < n
    OBVIOUS
  <2> QED
    BY <2>1
<1> QED
  BY <1>5, <1>6

(* Where lines end: the first newline, and the first letter that is none.  *)
LEMMA NextAre ==
  ASSUME NEW W, NEW text \in Seq(W), NEW p \in Nat, p <= Len(text)
  PROVE  /\ NextNewline(text, p) = Len(text) \/ Char(text, NextNewline(text, p)) = "n"
         /\ \A q \in p..(NextNewline(text, p) - 1) : Char(text, q) # "n"
         /\ NextInk(text, p) = Len(text) \/ Char(text, NextInk(text, p)) # "n"
<1>1. PICK n \in Nat : n = Len(text) /\ p <= n
  OBVIOUS
<1> DEFINE T == {q \in Positions(text) : q >= p /\ Char(text, q) = "n"} \cup {n}
           V == {q \in Positions(text) : q >= p /\ Char(text, q) # "n"} \cup {n}
<1>2. T \subseteq Nat /\ V \subseteq Nat /\ T # {} /\ V # {}
  BY <1>1 DEF Positions
<1>3. Min(T) \in T /\ (\A k \in T : Min(T) <= k) /\ Min(V) \in V
  <2> HIDE DEF T, V
  <2> QED
    BY <1>2, MinIs
<1>4. NextNewline(text, p) = Min(T) /\ NextInk(text, p) = Min(V)
  BY <1>1 DEF NextNewline, NextInk
<1>5. Min(T) = n \/ Char(text, Min(T)) = "n"
  BY <1>3
<1>6. Min(V) = n \/ Char(text, Min(V)) # "n"
  BY <1>3
<1>7. ASSUME NEW q \in p..(Min(T) - 1) PROVE Char(text, q) # "n"
  <2>1. Min(T) \in Nat /\ Min(T) <= n
    <3>1. n \in T
      OBVIOUS
    <3> HIDE DEF T
    <3> QED
      BY <1>2, <1>3, <3>1
  <2>2. q \in Positions(text) /\ q >= p /\ q < Min(T)
    <3> HIDE DEF T
    <3> QED
      BY <1>1, <2>1 DEF Positions
  <2>3. q \notin T
    <3>1. ~(Min(T) <= q)
      <4> HIDE DEF T
      <4> QED
        BY <2>1, <2>2
    <3> HIDE DEF T
    <3> QED
      BY <1>3, <3>1
  <2> QED
    BY <2>2, <2>3
<1> QED
  BY <1>1, <1>4, <1>5, <1>6, <1>7

(* Two headings where the second begins past the match of the first.       *)
LEMMA MatchesApart ==
  ASSUME NEW W, NEW text \in Seq(W), NEW p \in Positions(text), NEW q \in Positions(text),
         IsHeading(text, q), p < q, MatchEnd(text, p) <= q
  PROVE  MatchEnd(text, p) < MatchStart(text, q)
<1>1. PICK n \in Nat : n = Len(text)
  OBVIOUS
<1>2. p \in Nat /\ q \in Nat /\ q < n /\ p + 1 \in Nat /\ p + 1 <= n
  BY <1>1 DEF Positions
<1>3. PICK ink : ink = NextInk(text, p + 1)
  OBVIOUS
<1>4. ink \in (p + 1)..n /\ (ink = n \/ Char(text, ink) # "n")
  BY <1>1, <1>2, <1>3, NextIsInside, NextAre
<1>5. PICK e : e = NextNewline(text, ink)
  OBVIOUS
<1>6. ink \in Nat /\ ink <= n
  BY <1>2, <1>4
<1>7. /\ e \in ink..n /\ (e = n \/ Char(text, e) = "n")
      /\ \A r \in ink..(e - 1) : Char(text, r) # "n"
  BY <1>1, <1>5, <1>6, NextIsInside, NextAre
<1>8. e = MatchEnd(text, p) /\ e <= q
  BY <1>3, <1>5 DEF MatchEnd
<1>9. Char(text, e) = "n" /\ e < q
  <2>1. Char(text, q) # "n"
    BY RecordsAssumption DEF IsHeading
  <2> QED
    BY <1>2, <1>6, <1>7, <1>8, <2>1
<1>10. ink < e /\ Char(text, e - 1) # "n"
  <2>1. ink < e
    BY <1>2, <1>4, <1>6, <1>7, <1>8, <1>9
  <2> QED
    BY <1>6, <1>7, <2>1
<1>11. PICK b : b = BlankBefore(text, q)
  OBVIOUS
<1>12. b \in 0..q /\ \A r \in b..(q - 1) : Char(text, r) = "n"
  BY <1>2, <1>11, BlankIs
<1>13. e - 1 \notin b..(q - 1)
  BY <1>10, <1>12
<1>14. b >= e /\ e > 0
  BY <1>2, <1>6, <1>7, <1>9, <1>10, <1>12, <1>13
<1> QED
  BY <1>2, <1>7, <1>8, <1>11, <1>12, <1>14 DEF MatchStart

(* Anchors in the order of their text, each behind the end of the one before. *)
AreApart(anchs, text) ==
  /\ \A a \in anchs : /\ a.start \in Nat /\ a.end \in Nat
                      /\ a.start < a.end /\ a.end <= Len(text)
                      /\ a.end = Len(text) \/ Char(text, a.end) = "n"
  /\ \A a, b \in anchs : a.start < b.start => a.end < b.start
  /\ \A a, b \in anchs : a.start = b.start => a.end = b.end

LEMMA FoundAreApart ==
  ASSUME NEW W, NEW text \in Seq(W), NEW anchs, anchs \subseteq FindAnchors(text)
  PROVE  AreApart(anchs, text)
<1> DEFINE H == {p \in Positions(text) : IsHeading(text, p)}
<1>1. PICK n \in Nat : n = Len(text)
  OBVIOUS
<1>2. H \subseteq 0..(n - 1) /\ H \subseteq Nat
  BY <1>1 DEF Positions
<1> DEFINE Clear(f, p) == \A q \in H : q < p /\ p < MatchEnd(text, q) => ~f[q]
           matched == CHOOSE f : f = [p \in H |-> Clear(f, p)]
<1>3. \E f : f = [p \in H |-> Clear(f, p)]
  <2> HIDE DEF H
  <2>1. PICK reach : reach = [q \in H |-> MatchEnd(text, q)]
    OBVIOUS
  <2>2. PICK M \in SUBSET H : \A p \in H : p \in M <=> \A q \in M : ~(q < p /\ p < reach[q])
    BY <1>2, GreedyExists
  <2>3. PICK f : f = [p \in H |-> IF p \in M THEN TRUE ELSE FALSE]
    OBVIOUS
  <2>4. ASSUME NEW p \in H PROVE Clear(f, p) <=> p \in M
    BY <2>1, <2>2, <2>3
  <2>5. PICK g : g = [p \in H |-> Clear(f, p)]
    OBVIOUS
  <2>6. ASSUME NEW p \in H PROVE g[p] = f[p]
    <3>1. CASE p \in M
      <4>1. f[p] = TRUE
        BY <2>3, <3>1
      <4>2. g[p] = TRUE
        BY <2>4, <2>5, <3>1
      <4> QED
        BY <4>1, <4>2
    <3>2. CASE p \notin M
      <4>1. f[p] = FALSE
        BY <2>3, <3>2
      <4>2. g[p] = FALSE
        BY <2>4, <2>5, <3>2
      <4> QED
        BY <4>1, <4>2
    <3> QED
      BY <3>1, <3>2
  <2>7. g = [p \in H |-> g[p]] /\ f = [p \in H |-> f[p]]
    BY <2>3, <2>5, Zenon
  <2>8. f = g
    <3> HIDE DEF Clear
    <3> QED
      BY <2>6, <2>7
  <2> HIDE DEF Clear
  <2> QED
    BY <2>8, <2>5
<1>4. matched = [p \in H |-> Clear(matched, p)]
  <2> HIDE DEF Clear
  <2> QED
    BY <1>3
<1>5. FindAnchors(text) =
        {[item |-> Char(text, p), start |-> MatchStart(text, p), end |-> MatchEnd(text, p)] :
           p \in {q \in H : matched[q]}}
  BY Zenon DEF FindAnchors
<1>6. \A p \in H : p \in Positions(text) /\ IsHeading(text, p)
  OBVIOUS
<1> HIDE DEF H
<1>7. ASSUME NEW p \in H, matched[p] PROVE Clear(matched, p)
  <2> HIDE DEF Clear, matched
  <2> QED
    BY <1>4, <1>7
<1> HIDE DEF matched
<1>8. ASSUME NEW p \in H, NEW q \in H, matched[p], matched[q], p < q
      PROVE  MatchEnd(text, p) < MatchStart(text, q)
  <2>1. ~(q < MatchEnd(text, p))
    BY <1>7, <1>8
  <2>2. p + 1 \in Nat /\ p + 1 <= n
    BY <1>2
  <2>3. NextInk(text, p + 1) \in (p + 1)..n
    BY <1>1, <2>2, NextIsInside
  <2>4. NextNewline(text, NextInk(text, p + 1)) \in NextInk(text, p + 1)..n
    BY <1>1, <2>2, <2>3, NextIsInside
  <2>5. MatchEnd(text, p) <= q
    BY <1>2, <2>1, <2>2, <2>3, <2>4 DEF MatchEnd
  <2> QED
    BY <1>6, <1>8, <2>5, MatchesApart
<1> DEFINE At(a, p) == /\ p \in H /\ matched[p] /\ a.start = MatchStart(text, p)
                       /\ a.end = MatchEnd(text, p)
<1>9. ASSUME NEW a \in anchs PROVE \E p : At(a, p)
  <2>1. PICK p \in {q \in H : matched[q]} :
          a = [item |-> Char(text, p), start |-> MatchStart(text, p), end |-> MatchEnd(text, p)]
    BY <1>5
  <2>2. a.start = MatchStart(text, p) /\ a.end = MatchEnd(text, p)
    BY <2>1
  <2> QED
    BY <2>1, <2>2
<1>10. ASSUME NEW p \in H
       PROVE  /\ MatchStart(text, p) \in 0..p /\ MatchEnd(text, p) \in (p + 1)..n /\ p \in Nat
              /\ MatchEnd(text, p) = n \/ Char(text, MatchEnd(text, p)) = "n"
  <2>1. p \in Nat /\ p + 1 \in Nat /\ p + 1 <= n /\ IsHeading(text, p)
    BY <1>6, <1>2
  <2>2. MatchStart(text, p) \in 0..p
    BY <2>1, HeadingStarts
  <2>3. PICK ink : ink = NextInk(text, p + 1)
    OBVIOUS
  <2>4. ink \in (p + 1)..n
    BY <1>1, <2>1, <2>3, NextIsInside
  <2>5. ink \in Nat /\ ink <= n
    BY <2>1, <2>4
  <2>6. /\ NextNewline(text, ink) \in ink..n
        /\ NextNewline(text, ink) = n \/ Char(text, NextNewline(text, ink)) = "n"
    BY <1>1, <2>5, NextIsInside, NextAre
  <2> QED
    BY <2>1, <2>2, <2>3, <2>4, <2>6 DEF MatchEnd
<1>11. ASSUME NEW a \in anchs
       PROVE  /\ a.start \in Nat /\ a.end \in Nat /\ a.start < a.end /\ a.end <= n
              /\ a.end = n \/ Char(text, a.end) = "n"
  BY <1>9, <1>10
<1>12. ASSUME NEW a \in anchs, NEW b \in anchs
       PROVE  /\ a.start < b.start => a.end < b.start
              /\ a.start = b.start => a.end = b.end
  <2>1. PICK p, q : At(a, p) /\ At(b, q)
    BY <1>9
  <2>2. /\ p \in H /\ q \in H /\ p \in Nat /\ q \in Nat /\ IsHeading(text, p) /\ IsHeading(text, q)
        /\ matched[p] /\ matched[q]
        /\ a.start = MatchStart(text, p) /\ a.end = MatchEnd(text, p)
        /\ b.start = MatchStart(text, q) /\ b.end = MatchEnd(text, q)
        /\ a.start \in Nat /\ b.start \in Nat
    BY <1>6, <1>2, <1>11, <2>1
  <2> HIDE DEF At
  <2>3. CASE p < q
    BY <1>8, <2>2, <2>3, StartsDiffer
  <2>4. CASE q < p
    <3>1. b.start < a.start
      BY <2>2, <2>4, StartsDiffer
    <3> QED
      BY <2>2, <3>1
  <2>5. CASE p = q
    BY <2>2, <2>5
  <2> QED
    BY <2>2, <2>3, <2>4, <2>5
<1> QED
  BY <1>1, <1>11, <1>12 DEF AreApart

LEMMA NextIs ==
  ASSUME NEW text, NEW n \in Nat, Len(text) = n, NEW anchs, AreApart(anchs, text), NEW a \in anchs,
         NEW next, next = NextStart(text, anchs, a)
  PROVE  /\ next \in a.end..n /\ (a.end < n => next > a.end)
         /\ \A b \in anchs : b.start > a.start => next <= b.start
         /\ a.end = n => \A b \in anchs : b.start <= a.start
<1> DEFINE T == {b.start : b \in {c \in anchs : c.start > a.start}} \cup {n}
<1>1. \A b \in anchs : b.start \in Nat /\ b.end \in Nat /\ b.start < b.end /\ b.end <= n
  BY DEF AreApart
<1>2. T \subseteq Nat /\ n \in T
  BY <1>1
<1>3. Min(T) \in T /\ \A k \in T : Min(T) <= k
  <2> HIDE DEF T
  <2> QED
    BY <1>2, MinIs
<1>4. next = Min(T)
  BY DEF NextStart
<1>5. \A b \in anchs : b.start > a.start => next <= b.start
  BY <1>3, <1>4
<1>6. \A b \in anchs : b.start > a.start => a.end < b.start
  BY <1>1 DEF AreApart
<1>7. next = n \/ \E b \in anchs : b.start > a.start /\ next = b.start
  BY <1>3, <1>4
<1>8. next \in a.end..n /\ (a.end < n => next > a.end)
  BY <1>1, <1>6, <1>7
<1>9. ASSUME a.end = n, NEW b \in anchs PROVE b.start <= a.start
  BY <1>1, <1>6, <1>9
<1> QED
  BY <1>5, <1>8, <1>9

LEMMA BodyBegins ==
  ASSUME NEW W, NEW text \in Seq(W), NEW anchs, AreApart(anchs, text), NEW a \in anchs,
         NEW next, next = NextStart(text, anchs, a)
  PROVE  BodyStart(text, a, next) = IF a.end = Len(text) THEN a.end ELSE a.end + 1
<1>1. PICK n \in Nat : n = Len(text)
  OBVIOUS
<1>2. a.end \in Nat /\ a.end <= n /\ (a.end = n \/ Char(text, a.end) = "n")
  BY <1>1 DEF AreApart
<1>3. PICK nl : nl = NextNewline(text, a.end)
  OBVIOUS
<1>4. nl \in a.end..n /\ \A q \in (a.end)..(nl - 1) : Char(text, q) # "n"
  BY <1>1, <1>2, <1>3, NextIsInside, NextAre
<1>5. next \in a.end..n /\ (a.end < n => next > a.end)
  BY <1>1, NextIs
<1>6. CASE a.end = n
  BY <1>1, <1>2, <1>3, <1>4, <1>6 DEF BodyStart
<1>7. CASE a.end # n
  <2>1. a.end \notin (a.end)..(nl - 1)
    BY <1>2, <1>4, <1>7
  <2>2. nl = a.end
    BY <1>2, <1>4, <2>1
  <2> QED
    BY <1>1, <1>2, <1>3, <1>5, <1>7, <2>2 DEF BodyStart
<1> QED
  BY <1>6, <1>7

(* The rule of find_anchors measures from the end of the heading, that of the
   slicer from the line after it: they choose alike.                         *)
LEMMA ChoicesAgree ==
  ASSUME NEW W, NEW text \in Seq(W), NEW anchs, AreApart(anchs, text),
         NEW group, group # {}, group \subseteq anchs,
         NEW long, \A a \in anchs : long[a] = NextStart(text, anchs, a) - a.end,
         NEW body, \A a \in anchs : body[a] = NextStart(text, anchs, a)
                                              - BodyStart(text, a, NextStart(text, anchs, a))
  PROVE  /\ Longest(group, long) \in group /\ Longest(group, body) \in group
         /\ Longest(group, long).start = Longest(group, body).start
<1>1. PICK n \in Nat : n = Len(text)
  OBVIOUS
<1>2. ASSUME NEW a \in anchs
      PROVE  /\ a.start \in Nat /\ a.end \in Nat /\ a.end <= n
             /\ long[a] \in 0..n /\ body[a] \in 0..n
             /\ a.end = n => long[a] = 0 /\ body[a] = 0 /\ \A b \in anchs : b.start <= a.start
             /\ a.end # n => long[a] = body[a] + 1
  <2>1. PICK next : next = NextStart(text, anchs, a)
    OBVIOUS
  <2>2. /\ next \in a.end..n /\ (a.end < n => next > a.end)
        /\ a.end = n => \A b \in anchs : b.start <= a.start
    BY <1>1, <2>1, NextIs
  <2>3. BodyStart(text, a, next) = IF a.end = n THEN a.end ELSE a.end + 1
    BY <1>1, <2>1, BodyBegins
  <2>4. a.start \in Nat /\ a.end \in Nat /\ a.end <= n
    BY <1>1 DEF AreApart
  <2>5. long[a] = next - a.end /\ body[a] = next - BodyStart(text, a, next)
    BY <2>1
  <2> QED
    BY <2>2, <2>3, <2>4, <2>5
<1>3. PICK x, y : x = Longest(group, long) /\ y = Longest(group, body)
  OBVIOUS
<1>4. /\ x \in group
      /\ \A b \in group : long[x] > long[b] \/ (long[x] = long[b] /\ x.start <= b.start)
  <2>1. \A a \in group : a.start \in Nat /\ long[a] \in Int /\ long[a] <= n
    BY <1>2
  <2> QED
    BY ZenonT(30), <1>3, <2>1, LongestIs
<1>5. /\ y \in group
      /\ \A b \in group : body[y] > body[b] \/ (body[y] = body[b] /\ y.start <= b.start)
  <2>1. \A a \in group : a.start \in Nat /\ body[a] \in Int /\ body[a] <= n
    BY <1>2
  <2> QED
    BY ZenonT(30), <1>3, <2>1, LongestIs
<1>6. x \in anchs /\ y \in anchs
  BY <1>4, <1>5
<1>7. /\ long[x] > long[y] \/ (long[x] = long[y] /\ x.start <= y.start)
      /\ body[y] > body[x] \/ (body[y] = body[x] /\ y.start <= x.start)
  BY <1>4, <1>5
<1>8. x.start = y.start
  <2>1. /\ x.start \in Nat /\ y.start \in Nat /\ long[x] \in Int /\ long[y] \in Int /\ body[x] \in Int /\ body[y] \in Int
        /\ body[x] >= 0 /\ body[y] >= 0
    BY <1>2, <1>6
  <2>2. CASE x.end = n /\ y.end = n
    BY <1>2, <1>6, <2>1, <2>2
  <2>3. CASE x.end = n /\ y.end # n
    BY <1>2, <1>6, <1>7, <2>1, <2>3
  <2>4. CASE x.end # n /\ y.end = n
    BY <1>2, <1>6, <1>7, <2>1, <2>4
  <2>5. CASE x.end # n /\ y.end # n
    BY <1>2, <1>6, <1>7, <2>1, <2>5
  <2> QED
    BY <2>2, <2>3, <2>4, <2>5
<1> QED
  BY <1>3, <1>4, <1>5, <1>8

(* A slice lies between its heading and the next one.                      *)
LEMMA SliceIs ==
  ASSUME NEW W, NEW text \in Seq(W), NEW anchs, AreApart(anchs, text),
         NEW item \in ItemsOf(anchs), NEW r, r = SliceOf(text, anchs, item)
  PROVE  /\ r.item = item /\ r.at = ByItem(text, anchs)[item]
         /\ \E a \in anchs : /\ a.item = item /\ a.end <= r.from /\ r.from <= r.to
                             /\ r.from \in Nat /\ r.to \in Nat
                             /\ r.to <= NextStart(text, anchs, a)
<1>1. PICK n \in Nat : n = Len(text)
  OBVIOUS
<1>2. PICK next : next = [a \in anchs |-> NextStart(text, anchs, a)]
  OBVIOUS
<1>3. PICK from : from = [a \in anchs |-> BodyStart(text, a, next[a])]
  OBVIOUS
<1>4. PICK length : length = [b \in anchs |-> next[b] - from[b]]
  OBVIOUS
<1>5. PICK long : long = [a \in anchs |-> NextStart(text, anchs, a) - a.end]
  OBVIOUS
<1>6. PICK group : group = GroupOf(anchs, item)
  OBVIOUS
<1>7. group # {} /\ group \subseteq anchs /\ \A a \in group : a.item = item
  BY <1>6 DEF GroupOf, ItemsOf
<1>8. PICK best : best = Longest(group, length)
  OBVIOUS
<1>9. best \in group /\ Longest(group, long).start = best.start
  <2>1. \A a \in anchs : long[a] = NextStart(text, anchs, a) - a.end
    BY <1>5
  <2>2. \A a \in anchs : length[a] = NextStart(text, anchs, a)
                                     - BodyStart(text, a, NextStart(text, anchs, a))
    BY <1>2, <1>3, <1>4
  <2> QED
    BY <1>7, <1>8, <2>1, <2>2, ChoicesAgree
<1>10. ByItem(text, anchs)[item] = best.start
  BY <1>5, <1>6, <1>9 DEF ByItem
<1>11. PICK f, to : f = from[best] /\ to = next[best]
  OBVIOUS
<1>12. best \in anchs /\ best.item = item
  BY <1>7, <1>9
<1>13. to = NextStart(text, anchs, best) /\ f = BodyStart(text, best, to)
  BY <1>2, <1>3, <1>11, <1>12
<1>14. f \in Nat /\ to \in Nat /\ best.end <= f /\ f <= to /\ to <= n
  <2>1. to \in (best.end)..n /\ (best.end < n => to > best.end)
    BY <1>1, <1>12, <1>13, NextIs
  <2>2. f = IF best.end = n THEN best.end ELSE best.end + 1
    BY <1>1, <1>12, <1>13, BodyBegins
  <2>3. best.end \in Nat /\ best.end <= n
    BY <1>1, <1>12 DEF AreApart
  <2> QED
    BY <2>1, <2>2, <2>3
<1>15. PICK body : body = Part(text, f, to)
  OBVIOUS
<1>16. PICK content : content = IF Len(body) < ShortBody THEN Trimmed(body) ELSE body
  OBVIOUS
<1>17. r = [item |-> item, at |-> best.start, from |-> f,
            to |-> IF Len(body) < ShortBody THEN f + Len(content) ELSE to,
            content |-> content, status |-> DefaultStatus(content)]
  BY <1>2, <1>3, <1>4, <1>6, <1>8, <1>11, <1>15, <1>16 DEF SliceOf
<1>18. /\ r.item = item /\ r.at = best.start /\ r.from = f
       /\ r.to = IF Len(body) < ShortBody THEN f + Len(content) ELSE to
  BY <1>17
<1>19. body \in Seq(W) /\ Len(body) = to - f
  <2>1. body = SubSeq(text, f + 1, to) /\ body \in Seq(W)
    BY <1>1, <1>14, <1>15, PartIs
  <2>2. to \in 0..Len(text)
    BY <1>1, <1>14
  <2>3. Len(SubSeq(text, f + 1, to)) = IF f <= to THEN to - f ELSE 0
    BY <1>14, <2>2, SubSeqIs
  <2> QED
    BY <1>14, <2>1, <2>3
<1>20. Len(Trimmed(body)) \in 0..Len(body)
  <2>1. PICK m \in 0..Len(body) : Trimmed(body) = Part(body, 0, m)
    BY <1>19, TrimmedIs
  <2>2. 0 \in Nat /\ m \in Nat /\ m <= Len(body)
    BY <1>14, <1>19
  <2>3. Part(body, 0, m) = SubSeq(body, 0 + 1, m)
    BY <1>19, <2>2, PartIs
  <2>4. Len(SubSeq(body, 0 + 1, m)) = IF 0 <= m THEN m - 0 ELSE 0
    BY <1>19, <2>2, SubSeqIs
  <2> QED
    BY <2>1, <2>2, <2>3, <2>4
<1>21. r.to \in Nat /\ r.from <= r.to /\ r.to <= to
  BY <1>14, <1>16, <1>18, <1>19, <1>20
<1> QED
  BY <1>10, <1>12, <1>13, <1>14, <1>18, <1>21

AreSlices(slices, text, anchs, n, item) ==
  /\ Len(slices) = n /\ DOMAIN slices = 1..n
  /\ \A k \in 1..n : slices[k] = SliceOf(text, anchs, item[k])
  /\ \A i \in ItemsOf(anchs) : \E k \in 1..n : item[k] = i
  /\ \A i, j \in 1..n : i # j => item[i] # item[j]
  /\ \A i, j \in 1..n : i < j => slices[i].from <= slices[j].from

(* The slices of a filing: one for each item, in the order of their ranges. *)
LEMMA SlicesAre ==
  ASSUME NEW W, NEW text \in Seq(W), NEW anchs, AreAnchors(anchs, Len(text)), AreApart(anchs, text),
         NEW slices, slices = SliceItems(text, anchs)
  PROVE  \E n \in Nat : \E item \in [1..n -> ItemsOf(anchs)] : AreSlices(slices, text, anchs, n, item)
<1>1. PICK n \in Nat : \E items \in [1..n -> ItemsOf(anchs)] : AreItems(items, text, anchs, n)
  BY ItemsInOrder
<1>2. PICK items \in [1..n -> ItemsOf(anchs)] :
           /\ SliceItems(text, anchs) = ByRange([k \in 1..n |-> SliceOf(text, anchs, items[k])])
           /\ \A i \in ItemsOf(anchs) : \E k \in 1..n : items[k] = i
           /\ \A i, j \in 1..n : i # j => items[i] # items[j]
  BY <1>1 DEF AreItems
<1>3. PICK cut : cut = [k \in 1..n |-> SliceOf(text, anchs, items[k])]
  OBVIOUS
<1>4. /\ DOMAIN cut = 1..n /\ Len(cut) = n
      /\ \A k \in 1..n : cut[k] = SliceOf(text, anchs, items[k]) /\ items[k] \in ItemsOf(anchs)
  BY <1>2, <1>3
<1>5. \A k \in 1..n : cut[k].from \in Int
  BY <1>4, SliceIs
<1>6. PICK order \in [1..n -> 1..n] : IsRangeOrder(order, cut, n)
  BY <1>4, <1>5, RangeOrder
<1>7. /\ ByRange(cut) = [k \in 1..n |-> cut[order[k]]]
      /\ \A i \in 1..n : \E k \in 1..n : order[k] = i
      /\ \A i, j \in 1..n : i # j => order[i] # order[j]
      /\ \A i, j \in 1..n : i < j => cut[order[i]].from <= cut[order[j]].from
  BY <1>6 DEF IsRangeOrder
<1>8. PICK item : item = [k \in 1..n |-> items[order[k]]]
  OBVIOUS
<1>9. slices = [k \in 1..n |-> cut[order[k]]]
  BY <1>2, <1>3, <1>7
<1>10. item \in [1..n -> ItemsOf(anchs)] /\ Len(slices) = n /\ DOMAIN slices = 1..n
  BY <1>2, <1>7, <1>8, <1>9
<1>11. \A k \in 1..n : slices[k] = SliceOf(text, anchs, item[k])
  BY <1>4, <1>7, <1>8, <1>9
<1>12. \A i \in ItemsOf(anchs) : \E k \in 1..n : item[k] = i
  BY <1>2, <1>7, <1>8
<1>13. \A i, j \in 1..n : i # j => item[i] # item[j]
  BY <1>2, <1>7, <1>8
<1>14. \A i, j \in 1..n : i < j => slices[i].from <= slices[j].from
  BY <1>7, <1>9
<1>15. AreSlices(slices, text, anchs, n, item)
  BY <1>10, <1>11, <1>12, <1>13, <1>14 DEF AreSlices
<1> QED
  BY <1>10, <1>15

(* A slice ends before any heading but those up to its own.                *)
LEMMA SliceIsClear ==
  ASSUME NEW W, NEW text \in Seq(W), NEW anchs, AreApart(anchs, text),
         NEW item \in ItemsOf(anchs), NEW r, r = SliceOf(text, anchs, item)
  PROVE  \E a \in anchs : /\ a.item = item /\ a.end <= r.from
                          /\ \A b \in anchs : b.start > a.start => r.to <= b.start
<1>1. PICK a \in anchs : /\ a.item = item /\ a.end <= r.from /\ r.from \in Nat /\ r.to \in Nat
                         /\ r.to <= NextStart(text, anchs, a)
  BY SliceIs
<1>2. PICK n \in Nat : Len(text) = n
  OBVIOUS
<1>3. PICK next : next = NextStart(text, anchs, a)
  OBVIOUS
<1>4. next \in a.end..n /\ \A b \in anchs : b.start > a.start => next <= b.start
  BY <1>2, <1>3, NextIs
<1>5. \A b \in anchs : b.start \in Nat
  BY DEF AreApart
<1>6. next \in Int
  BY <1>4
<1>7. \A b \in anchs : b.start > a.start => r.to <= b.start
  BY <1>1, <1>3, <1>4, <1>5, <1>6
<1> QED
  BY <1>1, <1>7

LEMMA SlicesBehave ==
  ASSUME NEW W, NEW text \in Seq(W), NEW anchs, AreAnchors(anchs, Len(text)), AreApart(anchs, text),
         NEW slices, slices = SliceItems(text, anchs)
  PROVE  /\ RangeFindings(slices) = {}
         /\ \A r \in Range(slices), a \in anchs : r.from >= a.end \/ r.to <= a.start
         /\ ByItem(text, anchs) = [i \in ItemsOf(anchs) |-> (CHOOSE r \in Range(slices) : r.item = i).at]
<1>1. PICK n \in Nat : \E item \in [1..n -> ItemsOf(anchs)] : AreSlices(slices, text, anchs, n, item)
  BY SlicesAre
<1>2. PICK item \in [1..n -> ItemsOf(anchs)] : AreSlices(slices, text, anchs, n, item)
  BY <1>1
<1>3. /\ Len(slices) = n /\ DOMAIN slices = 1..n
      /\ \A k \in 1..n : slices[k] = SliceOf(text, anchs, item[k])
      /\ \A i \in ItemsOf(anchs) : \E k \in 1..n : item[k] = i
      /\ \A i, j \in 1..n : i # j => item[i] # item[j]
      /\ \A i, j \in 1..n : i < j => slices[i].from <= slices[j].from
  BY <1>2 DEF AreSlices
<1>4. Range(slices) = {slices[k] : k \in 1..n}
  BY <1>3 DEF Range
<1>5. \A a \in anchs : a.start \in Nat /\ a.end \in Nat /\ a.start < a.end
  BY DEF AreApart
<1>6. /\ \A a, b \in anchs : a.start < b.start => a.end < b.start
      /\ \A a, b \in anchs : a.start = b.start => a.end = b.end /\ a.item = b.item
  BY DEF AreApart, AreAnchors
<1>7. ASSUME NEW k \in 1..n
      PROVE  /\ slices[k].item = item[k] /\ slices[k].at = ByItem(text, anchs)[item[k]]
             /\ slices[k].from \in Nat /\ slices[k].to \in Nat /\ slices[k].from <= slices[k].to
             /\ \E a \in anchs : /\ a.item = item[k] /\ a.end <= slices[k].from
                                 /\ \A b \in anchs : b.start > a.start => slices[k].to <= b.start
  <2>1. item[k] \in ItemsOf(anchs) /\ slices[k] = SliceOf(text, anchs, item[k])
    BY <1>3
  <2>2. /\ slices[k].item = item[k] /\ slices[k].at = ByItem(text, anchs)[item[k]]
        /\ slices[k].from \in Nat /\ slices[k].to \in Nat /\ slices[k].from <= slices[k].to
    BY <2>1, SliceIs
  <2>3. \E a \in anchs : /\ a.item = item[k] /\ a.end <= slices[k].from
                         /\ \A b \in anchs : b.start > a.start => slices[k].to <= b.start
    BY <2>1, SliceIsClear
  <2> QED
    BY <2>2, <2>3
<1>8. ASSUME NEW i \in 1..n, NEW j \in 1..n, j < i PROVE slices[i].from >= slices[j].to
  <2>1. PICK a \in anchs : /\ a.item = item[i] /\ a.end <= slices[i].from
                           /\ \A b \in anchs : b.start > a.start => slices[i].to <= b.start
    BY <1>7
  <2>2. PICK c \in anchs : /\ c.item = item[j] /\ c.end <= slices[j].from
                           /\ \A b \in anchs : b.start > c.start => slices[j].to <= b.start
    BY <1>7
  <2>3. item[i] # item[j] /\ slices[j].from <= slices[i].from
    BY <1>3, <1>8
  <2>4. a.start # c.start
    BY <1>6, <2>1, <2>2, <2>3
  <2>5. CASE c.start < a.start
    <3>1. slices[j].to <= a.start
      BY <2>2, <2>5
    <3> QED
      BY <1>5, <1>7, <2>1, <3>1
  <2>6. CASE a.start < c.start
    <3>1. slices[i].to <= c.start
      BY <2>1, <2>6
    <3>2. /\ slices[i].from \in Nat /\ slices[i].to \in Nat /\ slices[i].from <= slices[i].to
          /\ slices[j].from \in Nat /\ c.start \in Nat /\ c.end \in Nat /\ c.start < c.end
      BY <1>5, <1>7
    <3> QED
      BY <2>2, <2>3, <3>1, <3>2
  <2> QED
    BY <1>5, <2>4, <2>5, <2>6
<1>9. RangeFindings(slices) = {}
  <2>1. \A i \in 1..n, j \in 1..n : j < i => ~(slices[i].from < slices[j].to)
    BY <1>7, <1>8
  <2>2. \A i \in 1..n : \A j \in 1..(i - 1) : j \in 1..n /\ j < i
    OBVIOUS
  <2> QED
    BY <1>3, <2>1, <2>2 DEF RangeFindings
<1>10. ASSUME NEW r \in Range(slices), NEW b \in anchs PROVE r.from >= b.end \/ r.to <= b.start
  <2>1. PICK k \in 1..n : r = slices[k]
    BY <1>4
  <2>2. PICK a \in anchs : /\ a.item = item[k] /\ a.end <= r.from
                           /\ \A c \in anchs : c.start > a.start => r.to <= c.start
    BY <1>7, <2>1
  <2>3. r.from \in Nat
    BY <1>7, <2>1
  <2>4. CASE b.start > a.start
    BY <2>2, <2>4
  <2>5. CASE b.start = a.start
    BY <1>5, <1>6, <2>2, <2>3, <2>5
  <2>6. CASE b.start < a.start
    <3>1. b.end < a.start
      BY <1>6, <2>6
    <3> QED
      BY <1>5, <2>2, <2>3, <3>1
  <2> QED
    BY <1>5, <2>4, <2>5, <2>6
<1>11. ASSUME NEW i \in ItemsOf(anchs)
       PROVE  ByItem(text, anchs)[i] = (CHOOSE r \in Range(slices) : r.item = i).at
  <2>1. PICK r : r = CHOOSE x \in Range(slices) : x.item = i
    OBVIOUS
  <2>2. \E x \in Range(slices) : x.item = i
    <3>1. PICK k \in 1..n : item[k] = i
      BY <1>3
    <3>2. slices[k] \in Range(slices) /\ slices[k].item = i
      BY <1>4, <1>7, <3>1
    <3> QED
      BY <3>2
  <2>3. r \in Range(slices) /\ r.item = i
    BY <2>1, <2>2
  <2>4. PICK k \in 1..n : r = slices[k]
    BY <1>4, <2>3
  <2>5. item[k] = i /\ r.at = ByItem(text, anchs)[i]
    BY <1>7, <2>3, <2>4
  <2> QED
    BY <2>1, <2>5, Zenon
<1>12. ByItem(text, anchs) = [i \in ItemsOf(anchs) |-> ByItem(text, anchs)[i]]
  BY DEF ByItem
<1> QED
  BY <1>9, <1>10, <1>11, <1>12

LEMMA SlicingHolds == SliceInit => ReportedIsSliced /\ SlicesAreBodies
<1> SUFFICES ASSUME SliceInit PROVE ReportedIsSliced /\ SlicesAreBodies
  OBVIOUS
<1>1. PICK W : filing \in Seq(W)
  BY SlicingAssumption DEF SliceInit, IsSequence
<1>2. PICK anchs, slices : anchs = Headings /\ slices = SliceItems(filing, anchs)
  OBVIOUS
<1>3. anchs \subseteq FindAnchors(filing)
  BY <1>2 DEF Headings, DedupeAnchors
<1>4. AreAnchors(anchs, Len(filing)) /\ AreApart(anchs, filing)
  BY <1>1, <1>3, FoundAreAnchors, FoundAreApart
<1>5. /\ RangeFindings(slices) = {}
      /\ \A r \in Range(slices), a \in anchs : r.from >= a.end \/ r.to <= a.start
      /\ ByItem(filing, anchs) = [i \in ItemsOf(anchs) |-> (CHOOSE r \in Range(slices) : r.item = i).at]
  BY <1>1, <1>2, <1>4, SlicesBehave
<1>6. slices = Slices
  BY <1>2 DEF Slices
<1> QED
  BY <1>2, <1>5, <1>6 DEF ReportedIsSliced, SlicesAreBodies

LEMMA SliceStays ==
  ReportedIsSliced /\ SlicesAreBodies /\ [FALSE]_sliceVars => (ReportedIsSliced /\ SlicesAreBodies)'
BY DEF sliceVars, ReportedIsSliced, SlicesAreBodies, Headings, Slices

(* For every filing and every table of contents: the headings that find_anchors
   reports as those with the longest bodies are those that slice_items cuts at. *)
THEOREM ReportsAreSliced == SliceSpec => []ReportedIsSliced
BY SlicingHolds, SliceStays, PTL DEF SliceSpec

(* For every filing: its slices do not overlap, and hold no part of a heading. *)
THEOREM SlicesNeverOverlap == SliceSpec => []SlicesAreBodies
BY SlicingHolds, SliceStays, PTL DEF SliceSpec

(* A part is as long as its range, and so is the content of a record.      *)
LEMMA PartIsLong ==
  ASSUME NEW W, NEW text \in Seq(W), NEW from \in Nat, NEW to \in Nat,
         from <= to, to <= Len(text)
  PROVE  IsSequence(Part(text, from, to)) /\ Len(Part(text, from, to)) = to - from
<1>1. to \in 0..Len(text)
  OBVIOUS
<1>2. PICK c : c = Part(text, from, to)
  OBVIOUS
<1>3. c = SubSeq(text, from + 1, to)
  BY <1>2, PartIs
<1>4. /\ SubSeq(text, from + 1, to) \in Seq(W)
      /\ Len(SubSeq(text, from + 1, to)) = IF from <= to THEN to - from ELSE 0
  BY <1>1, SubSeqIs
<1>5. c \in Seq(W) /\ Len(c) = to - from
  BY <1>3, <1>4
<1>6. c \in Seq({c[i] : i \in DOMAIN c})
  BY <1>5
<1> QED
  BY <1>2, <1>5, <1>6 DEF IsSequence

LEMMA HeldIsLong ==
  ASSUME NEW W, NEW text \in Seq(W), NEW r, Held(r, text)
  PROVE  /\ DOMAIN r = Fields /\ IsSequence(r.content) /\ r.from \in Nat
         /\ r.to = r.from + Len(r.content) /\ r.to \in Nat
<1>1. PICK f, t : f = r.from /\ t = r.to
  OBVIOUS
<1>2. f \in 0..Len(text) /\ t \in f..Len(text) /\ r.content = Part(text, f, t)
  BY <1>1 DEF Held
<1>3. f \in Nat /\ t \in Nat /\ f <= t /\ t <= Len(text)
  BY <1>2
<1>4. IsSequence(Part(text, f, t)) /\ Len(Part(text, f, t)) = t - f
  BY <1>3, PartIsLong
<1> QED
  BY <1>1, <1>2, <1>3, <1>4 DEF Held

LEMMA SlicesAreRecords == SliceInit => AreRecords(Slices)
<1> SUFFICES ASSUME SliceInit PROVE AreRecords(Slices)
  OBVIOUS
<1>1. PICK W : filing \in Seq(W)
  BY SlicingAssumption DEF SliceInit, IsSequence
<1>2. PICK anchs, slices : anchs = Headings /\ slices = Slices
  OBVIOUS
<1>3. AreAnchors(anchs, Len(filing))
  BY <1>1, <1>2, FoundAreAnchors DEF Headings, DedupeAnchors
<1>4. PICK n \in Nat : IsList(slices, n) /\ \A i \in 1..n : Held(slices[i], filing)
  BY <1>1, <1>2, <1>3, SliceItemsHeld DEF Slices
<1>5. RangeFindings(slices) = {}
  BY <1>2, SlicingHolds DEF SlicesAreBodies
<1>6. DOMAIN slices = 1..n /\ slices = [i \in 1..n |-> slices[i]]
  BY <1>4 DEF IsList
<1>7. \A i \in 1..n : /\ DOMAIN slices[i] = Fields /\ IsSequence(slices[i].content)
                      /\ slices[i].from \in Nat /\ slices[i].to \in Nat
                      /\ slices[i].to = slices[i].from + Len(slices[i].content)
  BY <1>1, <1>4, HeldIsLong
<1>8. \A i \in 1..n : \A j \in 1..(i - 1) : ~(slices[i].from < slices[j].to)
  BY <1>5, <1>6 DEF RangeFindings
<1>9. \A j, i \in 1..n : j < i => slices[j].to <= slices[i].from
  <2> TAKE j, i \in 1..n
  <2> HAVE j < i
  <2>1. j \in 1..(i - 1)
    OBVIOUS
  <2>2. ~(slices[i].from < slices[j].to)
    BY <1>8, <2>1
  <2> QED
    BY <1>7, <2>2
<1>10. IsSequence(slices)
  <2> DEFINE S == {slices[i] : i \in DOMAIN slices}
  <2>1. \A i \in 1..n : slices[i] \in S
    BY <1>6
  <2> HIDE DEF S
  <2>2. [i \in 1..n |-> slices[i]] \in Seq(S)
    BY <2>1
  <2> USE DEF S
  <2> QED
    BY <1>6, <2>2 DEF IsSequence
<1>11. AreRecords(slices)
  BY <1>6, <1>7, <1>9, <1>10 DEF AreRecords, Fields
<1> QED
  BY <1>2, <1>11

LEMMA SlicesStay == AreRecords(Slices) /\ [FALSE]_sliceVars => AreRecords(Slices)'
BY DEF sliceVars, Slices, Headings, AreRecords

(* The slices of any filing are records as the status pass takes them: what
   StatusSplitAssumption asks of the records it is given holds of those it gets. *)
THEOREM SlicesCanBeSplit == SliceSpec => []AreRecords(Slices)
BY SlicesAreRecords, SlicesStay, PTL DEF SliceSpec

-----------------------------------------------------------------------------
(* The status of each letter of a body.                                    *)
IsLastAt(l, spans, n, p) ==
  l \in 1..n /\ spans[l].at <= p /\ \A i \in (l + 1)..n : ~(spans[i].at <= p)

LEMMA LabelFrom ==
  ASSUME NEW body, NEW segs, NEW n \in Nat, NEW spans, spans = SpansOf(body, segs),
         DOMAIN spans = 1..n, NEW p, NEW l, IsLastAt(l, spans, n, p)
  PROVE  LabelAt(body, segs, p) = spans[l].status
<1>1. PICK before : before = {i \in DOMAIN spans : spans[i].at <= p}
  OBVIOUS
<1>2. LabelAt(body, segs, p) = IF before = {} THEN "extracted" ELSE spans[Max(before)].status
  BY <1>1 DEF LabelAt
<1>3. l \in 1..n /\ spans[l].at <= p /\ \A i \in (l + 1)..n : ~(spans[i].at <= p)
  BY DEF IsLastAt
<1>4. before \subseteq 0..n /\ l \in before
  BY <1>1, <1>3
<1>5. Max(before) \in before /\ \A k \in before : k <= Max(before)
  BY <1>4, MaxIs
<1>6. PICK m : m = Max(before)
  OBVIOUS
<1>7. m \in 1..n /\ spans[m].at <= p /\ l <= m
  BY <1>1, <1>4, <1>5, <1>6
<1>8. m = l
  BY <1>3, <1>7
<1> QED
  BY <1>2, <1>4, <1>6, <1>8

LEMMA LabelOfHead ==
  ASSUME NEW body, NEW segs, NEW n \in Nat, NEW spans, spans = SpansOf(body, segs),
         DOMAIN spans = 1..n, NEW p, \A i \in 1..n : ~(spans[i].at <= p)
  PROVE  LabelAt(body, segs, p) = "extracted"
<1>1. {i \in DOMAIN spans : spans[i].at <= p} = {}
  OBVIOUS
<1> QED
  BY <1>1 DEF LabelAt

(* The head fix leaves every letter its label.                             *)
LEMMA FixedLabels ==
  ASSUME NEW body, NEW segs, NEW n \in Nat, n > 0, NEW spans, spans = SpansOf(body, segs),
         DOMAIN spans = 1..n,
         NEW fixed, IsFixed(fixed, spans, n), NEW m \in Nat, DOMAIN fixed = 1..m,
         NEW p, NEW l, IsLastAt(l, fixed, m, p)
  PROVE  LabelAt(body, segs, p) = fixed[l].status
<1>1. l \in 1..m /\ fixed[l].at <= p /\ \A i \in (l + 1)..m : ~(fixed[i].at <= p)
  BY DEF IsLastAt
<1>2. CASE spans[1].at = 0 /\ fixed = spans
  <2>1. m = n
    BY <1>2
  <2>2. IsLastAt(l, spans, n, p)
    BY <1>2, <2>1
  <2> QED
    BY <1>2, <2>2, LabelFrom
<1>3. CASE /\ spans[1].status = "extracted" /\ DOMAIN fixed = 1..n
           /\ fixed[1].at = 0 /\ fixed[1].status = "extracted"
           /\ \A i \in 2..n : fixed[i] = spans[i]
  <2>1. m = n
    BY <1>3
  <2>2. \A i \in (l + 1)..n : ~(spans[i].at <= p)
    BY <1>1, <1>3, <2>1
  <2>3. CASE l = 1
    <3>1. CASE spans[1].at <= p
      <4>1. IsLastAt(1, spans, n, p)
        BY <2>2, <2>3, <3>1 DEF IsLastAt
      <4>2. LabelAt(body, segs, p) = spans[1].status
        BY <4>1, LabelFrom
      <4> QED
        BY <1>3, <2>3, <4>2
    <3>2. CASE ~(spans[1].at <= p)
      <4>1. \A i \in 1..n : i = 1 \/ i \in (l + 1)..n
        BY <2>3
      <4>2. \A i \in 1..n : ~(spans[i].at <= p)
        BY <2>2, <3>2, <4>1
      <4> QED
        BY <1>3, <2>3, <4>2, LabelOfHead
    <3> QED
      BY <3>1, <3>2
  <2>4. CASE l # 1
    <3>1. l \in 1..n /\ fixed[l] = spans[l]
      BY <1>1, <1>3, <2>1, <2>4
    <3>2. IsLastAt(l, spans, n, p)
      BY <1>1, <2>2, <3>1 DEF IsLastAt
    <3>3. LabelAt(body, segs, p) = spans[l].status
      BY <3>2, LabelFrom
    <3> QED
      BY <3>1, <3>3
  <2> QED
    BY <2>3, <2>4
<1>4. CASE /\ DOMAIN fixed = 1..(n + 1)
           /\ fixed[1].at = 0 /\ fixed[1].status = "extracted"
           /\ \A i \in 2..(n + 1) : fixed[i] = spans[i - 1]
  <2>1. m = n + 1
    BY <1>4
  <2>2. ASSUME NEW i \in l..n PROVE ~(spans[i].at <= p)
    <3>1. i + 1 \in (l + 1)..m /\ i + 1 \in 2..(n + 1) /\ (i + 1) - 1 = i
      BY <1>1, <2>1
    <3>2. fixed[i + 1] = spans[i]
      BY <1>4, <3>1
    <3> QED
      BY <1>1, <3>1, <3>2
  <2>3. CASE l = 1
    <3>1. \A i \in 1..n : ~(spans[i].at <= p)
      BY <2>2, <2>3
    <3> QED
      BY <1>4, <2>3, <3>1, LabelOfHead
  <2>4. CASE l # 1
    <3>1. PICK k \in 1..n : k = l - 1 /\ k + 1 = l
      BY <1>1, <2>1, <2>4
    <3>2. fixed[l] = spans[k]
      BY <1>1, <1>4, <2>1, <2>4, <3>1
    <3>3. IsLastAt(k, spans, n, p)
      BY <1>1, <2>2, <3>1, <3>2 DEF IsLastAt
    <3>4. LabelAt(body, segs, p) = spans[k].status
      BY <3>3, LabelFrom
    <3> QED
      BY <3>2, <3>4
  <2> QED
    BY <2>3, <2>4
<1> QED
  BY <1>2, <1>3, <1>4 DEF IsFixed

(* The segments that are applied: from the head of the body on, in order, each up
   to the next one with the label of its letters.                            *)
IsSplit(spans, m, body, segs) ==
  /\ spans = Collapsed(HeadFixed(SpansOf(body, segs)))
  /\ m > 0 /\ DOMAIN spans = 1..m /\ Len(spans) = m /\ spans[1].at = 0
  /\ \A i \in 1..m : spans[i].at \in 0..Len(body)
  /\ \A i, j \in 1..m : i < j => spans[i].at < spans[j].at
  /\ \A i \in 1..m : \A q \in Nat :
       spans[i].at <= q /\ (i < m => q < spans[i + 1].at) =>
         LabelAt(body, segs, q) = spans[i].status

LEMMA SplitIs ==
  ASSUME NEW W, NEW body \in Seq(W), NEW segs, AreSegments(segs), Accepted(body, segs)
  PROVE  \E m \in Nat : \E spans : IsSplit(spans, m, body, segs)
<1>1. PICK o \in Nat : o = Len(segs) /\ DOMAIN segs = 1..o /\ o > 0
  BY DEF IsSequence, AreSegments, Accepted
<1>2. PICK raw : raw = SpansOf(body, segs)
  OBVIOUS
<1>3. /\ DOMAIN raw = 1..o /\ Len(raw) = o /\ IsList(raw, o)
      /\ DOMAIN raw[1] = {"at", "status"}
  BY <1>1, <1>2 DEF SpansOf, IsList
<1>4. PICK fixed : fixed = HeadFixed(raw)
  OBVIOUS
<1>5. IsFixed(fixed, raw, o)
  BY <1>1, <1>3, <1>4, HeadFixedShape
<1>6. AreCuts(fixed, Len(body))
  BY <1>2, <1>4, HeadFixedIs DEF AreSegments
<1>7. PICK n \in Nat :
        /\ DOMAIN fixed = 1..n /\ Len(fixed) = n
        /\ \A i \in 1..n : fixed[i].at \in 0..Len(body)
        /\ \A i, j \in 1..n : i < j => fixed[i].at < fixed[j].at
  BY <1>6 DEF AreCuts
<1>8. n > 0 /\ fixed[1].at = 0
  BY <1>1, <1>3, <1>5, <1>7 DEF IsFixed
<1>9. PICK m \in Nat : \E kept \in [1..m -> 1..n] : IsCollapse(kept, m, fixed, n)
  BY <1>7, CollapsedLists
<1>10. PICK kept \in [1..m -> 1..n] : IsCollapse(kept, m, fixed, n)
  BY <1>9
<1>11. PICK spans : spans = Collapsed(fixed)
  OBVIOUS
<1>12. /\ spans = [k \in 1..m |-> fixed[kept[k]]]
       /\ \A i, j \in 1..m : i < j => kept[i] < kept[j]
       /\ \E k \in 1..m : kept[k] = 1
  BY <1>8, <1>10, <1>11 DEF IsCollapse
<1>13. m > 0 /\ kept[1] = 1
  <2>1. PICK k \in 1..m : kept[k] = 1
    BY <1>12
  <2>2. CASE k = 1
    BY <2>1, <2>2
  <2>3. CASE k # 1
    <3>1. 1 \in 1..m /\ 1 < k
      BY <2>3
    <3>2. kept[1] < kept[k] /\ kept[1] \in 1..n
      BY <1>12, <3>1
    <3> QED
      BY <2>1, <3>2
  <2> QED
    BY <2>2, <2>3
<1>14. DOMAIN spans = 1..m /\ Len(spans) = m /\ \A k \in 1..m : spans[k] = fixed[kept[k]]
  BY <1>12
<1>15. spans[1].at = 0
  BY <1>8, <1>13, <1>14
<1>16. \A i \in 1..m : spans[i].at \in 0..Len(body)
  BY <1>7, <1>14
<1>17. \A i, j \in 1..m : i < j => spans[i].at < spans[j].at
  BY <1>7, <1>12, <1>14
<1>18. ASSUME NEW i \in 1..m, NEW q \in Nat, spans[i].at <= q, i < m => q < spans[i + 1].at
       PROVE  LabelAt(body, segs, q) = spans[i].status
  <2>1. PICK k \in 1..n : k = kept[i] /\ spans[i] = fixed[k]
    BY <1>14
  <2>2. PICK before : before = {j \in 1..n : fixed[j].at <= q}
    OBVIOUS
  <2>3. before \subseteq 0..n /\ k \in before
    BY <1>18, <2>1, <2>2
  <2>4. Max(before) \in before /\ \A j \in before : j <= Max(before)
    BY <2>3, MaxIs
  <2>5. PICK l \in 1..n : l = Max(before) /\ fixed[l].at <= q
    BY <2>2, <2>4
  <2>6. k <= l /\ \A j \in (l + 1)..n : ~(fixed[j].at <= q)
    <3>1. \A j \in before : j <= l
      BY <2>4, <2>5
    <3>2. \A j \in (l + 1)..n : j \in 1..n /\ ~(j <= l)
      OBVIOUS
    <3>3. \A j \in (l + 1)..n : j \notin before
      BY <3>1, <3>2
    <3> QED
      BY <2>2, <2>3, <3>1, <3>2, <3>3
  <2>7. IsLastAt(l, fixed, n, q)
    BY <2>5, <2>6 DEF IsLastAt
  <2>8. LabelAt(body, segs, q) = fixed[l].status
    BY <1>1, <1>2, <1>3, <1>5, <1>7, <2>7, FixedLabels
  <2>9. ASSUME i < m PROVE l < kept[i + 1]
    <3>1. i + 1 \in 1..m
      BY <2>9
    <3>2. PICK h \in 1..n : h = kept[i + 1] /\ spans[i + 1] = fixed[h]
      BY <1>14, <3>1
    <3>3. q < fixed[h].at
      BY <1>18, <2>9, <3>2
    <3>4. fixed[h].at \in 0..Len(body) /\ fixed[l].at \in 0..Len(body) /\ Len(body) \in Nat
      BY <1>7
    <3>5. ~(h < l) /\ h # l
      BY <1>7, <2>5, <3>3, <3>4
    <3> QED
      BY <3>2, <3>5
  <2>10. fixed[l].status = fixed[kept[i]].status
    BY <1>10, <2>1, <2>6, <2>9, OneStatus
  <2> QED
    BY <2>1, <2>8, <2>10
<1>19. IsSplit(spans, m, body, segs)
  BY <1>2, <1>4, <1>11, <1>13, <1>14, <1>15, <1>16, <1>17, <1>18 DEF IsSplit
<1> QED
  BY <1>19

LEMMA CutsCover ==
  ASSUME NEW spans, NEW m \in Nat, m > 0, NEW length \in Nat, spans[1].at = 0,
         \A i \in 1..m : spans[i].at \in 0..length, NEW q \in Nat
  PROVE  \E i \in 1..m : spans[i].at <= q /\ (i < m => q < spans[i + 1].at)
<1>1. PICK before : before = {i \in 1..m : spans[i].at <= q}
  OBVIOUS
<1>2. before \subseteq 0..m /\ 1 \in before
  BY <1>1
<1>3. Max(before) \in before /\ \A j \in before : j <= Max(before)
  BY <1>2, MaxIs
<1>4. PICK i \in 1..m : spans[i].at <= q /\ \A j \in before : j <= i
  BY <1>1, <1>3
<1>5. ASSUME i < m PROVE q < spans[i + 1].at
  <2>1. i + 1 \in 1..m /\ ~(i + 1 <= i)
    BY <1>5
  <2>2. i + 1 \notin before
    BY <1>4, <2>1
  <2>3. ~(spans[i + 1].at <= q) /\ spans[i + 1].at \in 0..length
    BY <1>1, <2>1, <2>2
  <2> QED
    BY <2>3
<1> QED
  BY <1>4, <1>5

IsRecord(r) ==
  /\ DOMAIN r = Fields /\ IsSequence(r.content)
  /\ r.from \in Nat /\ r.to = r.from + Len(r.content) /\ r.to \in Nat

(* What becomes of one record: pieces of it, end to end.                   *)
IsBlock(block, n, k) ==
  /\ IsList(block, n)
  /\ \A i \in 1..n : IsPieceOf(block[i], k) /\ IsRecord(block[i])
  /\ \A i, j \in 1..n : i < j => block[i].to <= block[j].from
  /\ \A p \in parents[k].from..(parents[k].to - 1) :
       \E i \in 1..n : p \in block[i].from..(block[i].to - 1)

LEMMA UnsplitIs ==
  ASSUME AreRecords(parents), NEW k \in DOMAIN parents, ~Counts(k)
  PROVE  IsBlock(<<parents[k]>>, 1, k)
<1>1. PICK r : r = parents[k]
  OBVIOUS
<1>2. PICK W : r.content \in Seq(W)
  BY <1>1 DEF AreRecords, IsSequence
<1>3. PICK f \in Nat, l \in Nat : f = r.from /\ l = Len(r.content) /\ r.to = f + l
  BY <1>1, <1>2 DEF AreRecords
<1>4. Part(r.content, f - f, (f + l) - f) = r.content
  <2>1. f - f = 0 /\ (f + l) - f = l
    OBVIOUS
  <2>2. Part(r.content, 0, l) = SubSeq(r.content, 1, l)
    <3>1. PICK c : c = r.content
      OBVIOUS
    <3>2. c \in Seq(W) /\ l <= Len(c) /\ 0 \in Nat /\ 0 + 1 = 1
      BY <1>2, <1>3, <3>1
    <3>3. Part(c, 0, l) = SubSeq(c, 0 + 1, l)
      BY <3>2, PartIs
    <3> QED
      BY <3>1, <3>2, <3>3
  <2>3. SubSeq(r.content, 1, l) = r.content
    BY <1>2, <1>3
  <2> QED
    BY <2>1, <2>2, <2>3
<1>5. \A q : StatusAt(k, q) = r.status
  BY <1>1 DEF StatusAt
<1>6. r.from <= r.from /\ r.from <= r.to /\ r.to <= r.to /\ IsRecord(r)
  BY <1>1, <1>3 DEF AreRecords, IsRecord, Fields
<1>7. IsPieceOf(r, k)
  BY <1>1, <1>3, <1>4, <1>5, <1>6 DEF IsPieceOf
<1>8. IsList(<<r>>, 1) /\ <<r>>[1] = r /\ \A i \in 1..1 : i = 1
  BY DEF IsList
<1> QED
  BY <1>1, <1>6, <1>7, <1>8 DEF IsBlock

LEMMA SplitBlock ==
  ASSUME AreRecords(parents), NEW k \in DOMAIN parents, Counts(k), AreSegments(reply[k])
  PROVE  \E n \in Nat : IsBlock(MergeSegments(parents[k], reply[k]), n, k)
<1>1. PICK r, segs, body : r = parents[k] /\ segs = reply[k] /\ body = r.content
  OBVIOUS
<1>2. PICK W : body \in Seq(W)
  BY <1>1 DEF AreRecords, IsSequence
<1>3. PICK f \in Nat, length \in Nat : f = r.from /\ length = Len(body) /\ r.to = f + length
  BY <1>1, <1>2 DEF AreRecords
<1>4. AreSegments(segs) /\ Accepted(body, segs)
  BY <1>1 DEF Counts
<1>5. PICK m \in Nat : \E spans : IsSplit(spans, m, body, segs)
  BY <1>2, <1>4, SplitIs
<1>6. PICK spans : IsSplit(spans, m, body, segs)
  BY <1>5
<1>7. /\ m > 0 /\ DOMAIN spans = 1..m /\ Len(spans) = m /\ spans[1].at = 0
      /\ \A i \in 1..m : spans[i].at \in 0..length
      /\ \A i, j \in 1..m : i < j => spans[i].at < spans[j].at
  BY <1>3, <1>6 DEF IsSplit
<1> DEFINE EndOf(i) == IF i < Len(spans) THEN spans[i + 1].at ELSE Len(body)
           piece(i) == [r EXCEPT !.from = r.from + spans[i].at,
                                 !.to = r.from + EndOf(i),
                                 !.content = Part(body, spans[i].at, EndOf(i)),
                                 !.status = spans[i].status]
<1>8. PICK block : block = MergeSegments(r, segs)
  OBVIOUS
<1>9. block = [i \in 1..m |-> piece(i)]
  <2>1. spans = Collapsed(HeadFixed(SpansOf(body, segs)))
    BY <1>6 DEF IsSplit
  <2> QED
    BY <1>1, <1>4, <1>7, <1>8, <2>1 DEF MergeSegments
<1>10. ASSUME NEW i \in 1..m
      PROVE  \E x \in Nat, y \in Nat :
               /\ x = spans[i].at /\ x <= y /\ y <= length
               /\ y = IF i < m THEN spans[i + 1].at ELSE length
               /\ block[i].item = r.item /\ block[i].from = f + x /\ block[i].to = f + y
               /\ block[i].content = Part(body, x, y) /\ block[i].status = spans[i].status
               /\ DOMAIN block[i] = Fields
  <2>1. PICK x \in Nat, y \in Nat :
          /\ x = spans[i].at /\ y = EndOf(i) /\ x <= y /\ y <= length
          /\ y = IF i < m THEN spans[i + 1].at ELSE length
    <3>1. spans[i].at \in 0..length
      BY <1>7
    <3>2. CASE i < m
      <4>1. i + 1 \in 1..m /\ i < i + 1
        BY <3>2
      <4>2. spans[i + 1].at \in 0..length /\ spans[i].at < spans[i + 1].at
        BY <1>7, <4>1
      <4> QED
        BY <1>7, <3>1, <3>2, <4>2
    <3>3. CASE ~(i < m)
      BY <1>3, <1>7, <3>1, <3>3
    <3> QED
      BY <3>2, <3>3
  <2>2. DOMAIN r = {"item", "at", "from", "to", "content", "status"}
    BY <1>1 DEF AreRecords
  <2>3. block[i] = piece(i)
    BY <1>9
  <2>4. PICK e, c, s : e = f + y /\ c = Part(body, x, y) /\ s = spans[i].status
    OBVIOUS
  <2>5. block[i] = [r EXCEPT !.from = f + x, !.to = e, !.content = c, !.status = s]
    BY <1>3, <2>1, <2>3, <2>4
  <2> HIDE DEF piece, EndOf
  <2>6. /\ block[i].item = r.item /\ block[i].from = f + x /\ block[i].to = e
        /\ block[i].content = c /\ block[i].status = s /\ DOMAIN block[i] = Fields
    BY <2>2, <2>5 DEF Fields
  <2> QED
    BY <2>1, <2>4, <2>6
<1> HIDE DEF piece, EndOf
<1>11. ASSUME NEW i \in 1..m
       PROVE  IsPieceOf(block[i], k) /\ IsRecord(block[i])
  <2>1. PICK x \in Nat, y \in Nat :
          /\ x = spans[i].at /\ x <= y /\ y <= length
          /\ y = IF i < m THEN spans[i + 1].at ELSE length
          /\ block[i].item = r.item /\ block[i].from = f + x /\ block[i].to = f + y
          /\ block[i].content = Part(body, x, y) /\ block[i].status = spans[i].status
          /\ DOMAIN block[i] = Fields
    BY <1>10
  <2>2. (f + x) - f = x /\ (f + y) - f = y /\ f <= f + x /\ f + x <= f + y /\ f + y <= f + length
    BY <2>1
  <2>3. ASSUME NEW p \in (f + x)..(f + y - 1) PROVE block[i].status = StatusAt(k, p - f)
    <3>1. PICK q \in Nat : q = p - f /\ x <= q /\ q < y
      OBVIOUS
    <3>2. LabelAt(body, segs, q) = spans[i].status
      BY <1>6, <2>1, <3>1 DEF IsSplit
    <3> QED
      BY <1>1, <2>1, <3>1, <3>2 DEF StatusAt
  <2>4. PICK b : b = block[i]
    OBVIOUS
  <2>5. /\ b.item = r.item /\ r.from <= b.from /\ b.from <= b.to /\ b.to <= r.to
        /\ b.content = Part(r.content, b.from - r.from, b.to - r.from)
    BY <1>1, <1>3, <2>1, <2>2, <2>4
  <2>6. \A p \in b.from..(b.to - 1) : b.status = StatusAt(k, p - r.from)
    <3>1. b.from = f + x /\ b.to = f + y /\ b.status = block[i].status /\ r.from = f
      BY <1>3, <2>1, <2>4
    <3>2. \A p \in (f + x)..(f + y - 1) : b.status = StatusAt(k, p - f)
      BY <2>3, <3>1
    <3> QED
      BY <3>1, <3>2
  <2>7. IsPieceOf(b, k)
    BY <1>1, <2>5, <2>6 DEF IsPieceOf
  <2>8. IsSequence(b.content) /\ Len(b.content) = y - x
    <3>1. x <= y /\ y <= Len(body) /\ b.content = Part(body, x, y)
      BY <1>3, <2>1, <2>4
    <3>2. IsSequence(Part(body, x, y)) /\ Len(Part(body, x, y)) = y - x
      BY <1>2, <3>1, PartIsLong
    <3> QED
      BY <3>1, <3>2
  <2>9. IsRecord(b)
    <3>1. f + x \in Nat /\ f + y \in Nat /\ f + y = (f + x) + (y - x)
      OBVIOUS
    <3> QED
      BY <2>1, <2>4, <2>8, <3>1 DEF IsRecord
  <2> QED
    BY <2>4, <2>7, <2>9
<1>12. ASSUME NEW i \in 1..m, NEW j \in 1..m, i < j PROVE block[i].to <= block[j].from
  <2>1. i + 1 \in 1..m /\ i < m
    BY <1>12
  <2>2. block[i].to = f + spans[i + 1].at
    BY <1>10, <2>1
  <2>3. block[j].from = f + spans[j].at
    BY <1>10
  <2>4. spans[i + 1].at \in 0..length /\ spans[j].at \in 0..length
    BY <1>7, <2>1
  <2>5. spans[i + 1].at <= spans[j].at
    <3>1. CASE i + 1 = j
      BY <2>4, <3>1
    <3>2. CASE i + 1 < j
      BY <1>7, <2>1, <2>4, <3>2
    <3> QED
      BY <1>12, <3>1, <3>2
  <2> QED
    BY <2>2, <2>3, <2>4, <2>5
<1>13. ASSUME NEW p \in r.from..(r.to - 1)
       PROVE  \E i \in 1..m : p \in block[i].from..(block[i].to - 1)
  <2>1. PICK q \in Nat : p = f + q /\ q < length
    <3>1. p - f \in Nat /\ p = f + (p - f) /\ p - f < length
      BY <1>3
    <3> QED
      BY <3>1
  <2>2. PICK i \in 1..m : spans[i].at <= q /\ (i < m => q < spans[i + 1].at)
    BY <1>7, CutsCover
  <2>3. PICK x \in Nat, y \in Nat :
          /\ x = spans[i].at /\ y = IF i < m THEN spans[i + 1].at ELSE length
          /\ block[i].from = f + x /\ block[i].to = f + y
    BY <1>10
  <2>4. x <= q /\ q < y
    BY <2>1, <2>2, <2>3
  <2>5. p \in (f + x)..(f + y - 1)
    BY <2>1, <2>4
  <2> QED
    BY <2>3, <2>5
<1>14. block = [i \in 1..m |-> block[i]] /\ DOMAIN block = 1..m
  BY <1>9
<1>15. IsBlock(block, m, k)
  BY <1>1, <1>11, <1>12, <1>13, <1>14 DEF IsBlock, IsList
<1> QED
  BY <1>1, <1>8, <1>15

LEMMA BlockIs ==
  ASSUME AreRecords(parents), \A k \in DOMAIN reply : AreSegments(reply[k]),
         NEW results, results = [i \in {j \in DOMAIN reply : Eligible(parents[j])} |-> reply[i]],
         NEW k \in DOMAIN parents
  PROVE  \E n \in Nat :
           IsBlock(IF k \in DOMAIN results THEN MergeSegments(parents[k], results[k])
                   ELSE <<parents[k]>>, n, k)
<1>1. CASE k \notin DOMAIN results
  <2>1. ~Counts(k)
    BY <1>1 DEF Counts
  <2>2. IsBlock(<<parents[k]>>, 1, k) /\ 1 \in Nat
    BY <2>1, UnsplitIs
  <2> QED
    BY <1>1, <2>2
<1>2. CASE k \in DOMAIN results
  <2>1. k \in DOMAIN reply /\ Eligible(parents[k]) /\ results[k] = reply[k]
    BY <1>2
  <2>2. CASE Accepted(parents[k].content, reply[k])
    <3>1. Counts(k) /\ AreSegments(reply[k])
      BY <2>1, <2>2 DEF Counts
    <3>2. \E n \in Nat : IsBlock(MergeSegments(parents[k], reply[k]), n, k)
      BY <3>1, SplitBlock
    <3> QED
      BY <1>2, <2>1, <3>2
  <2>3. CASE ~Accepted(parents[k].content, reply[k])
    <3>1. MergeSegments(parents[k], reply[k]) = <<parents[k]>> /\ ~Counts(k)
      BY <2>3 DEF MergeSegments, Counts
    <3>2. IsBlock(<<parents[k]>>, 1, k) /\ 1 \in Nat
      BY <3>1, UnsplitIs
    <3> QED
      BY <1>2, <2>1, <3>1, <3>2
  <2> QED
    BY <2>2, <2>3
<1> QED
  BY <1>1, <1>2

LEMMA ListsOfLists ==
  ASSUME NEW s, NEW n \in Nat, IsList(s, n), \A i \in 1..n : \E m \in Nat : IsList(s[i], m)
  PROVE  \E W : s \in Seq(Seq(W))
<1> DEFINE W == UNION {{s[i][k] : k \in DOMAIN s[i]} : i \in 1..n}
<1>1. \A i \in 1..n : s[i] \in Seq(W)
  <2> TAKE i \in 1..n
  <2>1. PICK m \in Nat : DOMAIN s[i] = 1..m /\ s[i] = [k \in 1..m |-> s[i][k]]
    BY DEF IsList
  <2>2. \A k \in 1..m : s[i][k] \in W
    BY <2>1
  <2> HIDE DEF W
  <2>3. [k \in 1..m |-> s[i][k]] \in Seq(W)
    BY <2>2
  <2> QED
    BY <2>1, <2>3
<1> HIDE DEF W
<1>2. [i \in 1..n |-> s[i]] \in Seq(Seq(W))
  BY <1>1
<1> QED
  BY <1>2 DEF IsList

LEMMA SplitHolds ==
  ASSUME AreRecords(parents), \A k \in DOMAIN reply : AreSegments(reply[k])
  PROVE  SplitAsLabelled /\ AreRecords(ClassifyRecords(parents, reply))
<1>1. PICK n \in Nat : n = Len(parents) /\ DOMAIN parents = 1..n
  BY DEF AreRecords, IsSequence
<1>2. PICK results : results = [i \in {j \in DOMAIN reply : Eligible(parents[j])} |-> reply[i]]
  OBVIOUS
<1>3. PICK blocks : blocks = [i \in DOMAIN parents |->
        IF i \in DOMAIN results THEN MergeSegments(parents[i], results[i]) ELSE <<parents[i]>>]
  OBVIOUS
<1>4. \A k \in 1..n : \E m \in Nat : IsBlock(blocks[k], m, k)
  BY <1>1, <1>2, <1>3, BlockIs
<1>5. IsList(blocks, n) /\ Len(blocks) = n
  BY <1>1, <1>3 DEF IsList
<1>6. PICK W : blocks \in Seq(Seq(W))
  <2>1. \A i \in 1..n : \E m \in Nat : IsList(blocks[i], m)
    BY <1>4 DEF IsBlock
  <2> QED
    BY <1>5, <2>1, ListsOfLists
<1>7. PICK flat : flat = FlattenSeq(blocks)
  OBVIOUS
<1>8. PICK m \in Nat : m = Len(flat) /\ IsList(flat, m)
  <2>1. flat \in Seq(W)
    BY <1>6, <1>7, FlattenType
  <2> QED
    BY <2>1 DEF IsList
<1>9. PICK b, c : ComeFrom(flat, blocks, n, b, c)
  BY <1>5, <1>6, <1>7, FlattenOrder
<1>10. /\ \A j \in 1..m : /\ b[j] \in 1..n /\ c[j] \in 1..Len(blocks[b[j]])
                          /\ flat[j] = blocks[b[j]][c[j]]
       /\ \A i, j \in 1..m : i < j => b[i] < b[j] \/ (b[i] = b[j] /\ c[i] < c[j])
       /\ \A k \in 1..n : \A l \in 1..Len(blocks[k]) : \E j \in 1..m : b[j] = k /\ c[j] = l
  BY <1>8, <1>9 DEF ComeFrom
<1>11. ASSUME NEW k \in 1..n
       PROVE  /\ \A i \in 1..Len(blocks[k]) :
                   IsPieceOf(blocks[k][i], k) /\ IsRecord(blocks[k][i])
              /\ \A i, j \in 1..Len(blocks[k]) : i < j => blocks[k][i].to <= blocks[k][j].from
              /\ \A p \in parents[k].from..(parents[k].to - 1) :
                   \E i \in 1..Len(blocks[k]) : p \in blocks[k][i].from..(blocks[k][i].to - 1)
  <2>1. PICK o \in Nat : IsBlock(blocks[k], o, k)
    BY <1>4
  <2>2. Len(blocks[k]) = o
    BY <2>1 DEF IsBlock, IsList
  <2> QED
    BY <2>1, <2>2 DEF IsBlock
<1>12. ASSUME NEW j \in 1..m
       PROVE  /\ b[j] \in 1..n /\ IsPieceOf(flat[j], b[j]) /\ IsRecord(flat[j])
              /\ flat[j].from \in Nat /\ flat[j].to \in Nat
  <2>1. PICK k, i : k = b[j] /\ i = c[j]
    OBVIOUS
  <2>2. k \in 1..n /\ i \in 1..Len(blocks[k]) /\ flat[j] = blocks[k][i]
    BY <1>10, <2>1
  <2>3. IsPieceOf(blocks[k][i], k) /\ IsRecord(blocks[k][i])
    BY <1>11, <2>2
  <2> QED
    BY <2>1, <2>2, <2>3 DEF IsRecord
<1>13. ASSUME NEW j \in 1..m
       PROVE  /\ flat[j].from <= flat[j].to
              /\ parents[b[j]].from <= flat[j].from /\ flat[j].to <= parents[b[j]].to
              /\ parents[b[j]].from \in Nat /\ parents[b[j]].to \in Nat
  <2>1. b[j] \in 1..n /\ IsPieceOf(flat[j], b[j])
    BY <1>12
  <2>2. PICK r, W0 : r = parents[b[j]] /\ r.content \in Seq(W0)
    BY <1>1, <2>1 DEF AreRecords, IsSequence
  <2>3. r.from \in Nat /\ r.to = r.from + Len(r.content) /\ Len(r.content) \in Nat
    BY <1>1, <2>1, <2>2 DEF AreRecords
  <2> QED
    BY <2>1, <2>2, <2>3 DEF IsPieceOf
<1>14. ASSUME NEW i \in 1..m, NEW j \in 1..m, i < j PROVE flat[i].to <= flat[j].from
  <2>1. CASE b[i] < b[j]
    <3>1. b[i] \in DOMAIN parents /\ b[j] \in DOMAIN parents
      BY <1>1, <1>12
    <3>2. parents[b[i]].to <= parents[b[j]].from
      BY <2>1, <3>1 DEF AreRecords
    <3> QED
      BY <1>12, <1>13, <3>2
  <2>2. CASE b[i] = b[j] /\ c[i] < c[j]
    <3>1. PICK k \in 1..n : k = b[i] /\ k = b[j]
      BY <1>12, <2>2
    <3>2. /\ c[i] \in 1..Len(blocks[k]) /\ c[j] \in 1..Len(blocks[k])
          /\ flat[i] = blocks[k][c[i]] /\ flat[j] = blocks[k][c[j]]
      BY <1>10, <3>1
    <3> QED
      BY <1>11, <2>2, <3>2
  <2> QED
    BY <1>10, <1>14, <2>1, <2>2
<1>15. ByRange(flat) = flat
  <2>1. \A i \in 1..m : flat[i].from \in Int
    BY <1>12
  <2>2. \A i, j \in 1..m : i < j => flat[i].from <= flat[j].from
    <3> TAKE i, j \in 1..m
    <3> HAVE i < j
    <3>1. flat[i].from <= flat[i].to /\ flat[i].to <= flat[j].from
      BY <1>13, <1>14
    <3> QED
      BY <1>12, <3>1
  <2> QED
    BY <1>8, <2>1, <2>2, SortedStay
<1>16. ClassifyRecords(parents, reply) = flat
  <2>1. MergeRecords(parents, results) = flat
    BY <1>3, <1>7, <1>15 DEF MergeRecords
  <2> QED
    BY <1>2, <2>1 DEF ClassifyRecords
<1>17. DOMAIN flat = 1..m
  BY <1>8 DEF IsList
<1>18. RangeFindings(flat) = {}
  <2>1. ASSUME NEW i \in 1..m, NEW j \in 1..(i - 1) PROVE ~(flat[i].from < flat[j].to)
    <3>1. j \in 1..m /\ j < i
      OBVIOUS
    <3>2. flat[j].to <= flat[i].from /\ flat[j].to \in Nat /\ flat[i].from \in Nat
      BY <1>12, <1>14, <3>1
    <3> QED
      BY <3>2
  <2> QED
    BY <1>17, <2>1 DEF RangeFindings
<1>19. \A j \in DOMAIN flat : \E k \in DOMAIN parents : IsPieceOf(flat[j], k)
  BY <1>1, <1>12, <1>17
<1>20. ASSUME NEW k \in DOMAIN parents, NEW p \in parents[k].from..(parents[k].to - 1)
       PROVE  \E j \in DOMAIN flat : p \in flat[j].from..(flat[j].to - 1)
  <2>1. k \in 1..n
    BY <1>1
  <2>2. PICK i \in 1..Len(blocks[k]) : p \in blocks[k][i].from..(blocks[k][i].to - 1)
    BY <1>11, <2>1
  <2>3. PICK j \in 1..m : b[j] = k /\ c[j] = i
    BY <1>10, <2>1
  <2>4. flat[j] = blocks[k][i]
    BY <1>10, <2>3
  <2> QED
    BY <1>17, <2>2, <2>4
<1>21. AreRecords(flat)
  <2>1. IsSequence(flat)
    <3>1. PICK S : S = {flat[i] : i \in DOMAIN flat}
      OBVIOUS
    <3>2. \A i \in 1..m : flat[i] \in S
      BY <1>17, <3>1
    <3>3. [i \in 1..m |-> flat[i]] \in Seq(S)
      BY <3>2
    <3> QED
      BY <1>8, <3>1, <3>3 DEF IsSequence, IsList
  <2> QED
    BY <1>12, <1>14, <1>17, <2>1 DEF AreRecords, IsRecord, Fields
<1> QED
  BY <1>16, <1>18, <1>19, <1>20, <1>21 DEF SplitAsLabelled

LEMMA SplitStart == SplitInit => SplitAsLabelled /\ AreRecords(ClassifyRecords(parents, reply))
<1> SUFFICES ASSUME SplitInit
             PROVE  SplitAsLabelled /\ AreRecords(ClassifyRecords(parents, reply))
  OBVIOUS
<1>1. AreRecords(parents) /\ \A k \in DOMAIN reply : AreSegments(reply[k])
  BY StatusSplitAssumption DEF SplitInit
<1> QED
  BY <1>1, SplitHolds

LEMMA SplitStays ==
  /\ SplitAsLabelled /\ [FALSE]_splitVars => SplitAsLabelled'
  /\ AreRecords(ClassifyRecords(parents, reply)) /\ [FALSE]_splitVars =>
       AreRecords(ClassifyRecords(parents, reply))'
<1> SUFFICES ASSUME parents' = parents, reply' = reply
             PROVE  /\ SplitAsLabelled => SplitAsLabelled'
                    /\ AreRecords(ClassifyRecords(parents, reply)) =>
                         AreRecords(ClassifyRecords(parents, reply))'
  BY DEF splitVars
<1>1. ClassifyRecords(parents', reply') = ClassifyRecords(parents, reply)
  OBVIOUS
<1>2. SplitAsLabelled => SplitAsLabelled'
  BY <1>1 DEF SplitAsLabelled, IsPieceOf, StatusAt, Counts
<1>3. ClassifyRecords(parents, reply)' = ClassifyRecords(parents, reply)
  BY <1>1
<1>4. AreRecords(ClassifyRecords(parents, reply)) => AreRecords(ClassifyRecords(parents, reply))'
  BY <1>3 DEF AreRecords
<1> QED
  BY <1>2, <1>4

(* However the replies fail or split, no letter of a filing changes hands, and each
   one gets the status that the reply for its own record gives it.           *)
THEOREM LettersKeepTheirRecord == SplitSpec => []SplitAsLabelled
BY SplitStart, SplitStays, PTL DEF SplitSpec

(* The records of a status pass can go through another one: they lie apart, each as
   long as its range.                                                        *)
THEOREM PiecesCanBeSplit == SplitSpec => []AreRecords(ClassifyRecords(parents, reply))
BY SplitStart, SplitStays, PTL DEF SplitSpec

=============================================================================
