--------------------------- MODULE Subsequences_proofs ----------------------
(***************************************************************************)
(* Lemmas about Subsequence: the k-th position is well-defined, and the    *)
(* positions of the result and the positions kept correspond, in order.    *)
(***************************************************************************)
EXTENDS Subsequences, FiniteSetTheorems, SequenceTheorems, WellFoundedInduction, TLAPS

\* Induction over the natural numbers, in a form that takes a set.
LEMMA Smallest ==
  ASSUME NEW T \in SUBSET Nat, T # {}
  PROVE  \E n \in T : \A m \in T : n <= m
<1>1. IsWellFoundedOn(OpToRel(<, Nat), Nat)
  BY NatLessThanWellFounded
<1>2. PICK n \in T : \A m \in T : <<m, n>> \notin OpToRel(<, Nat)
  BY <1>1, WFMin
<1>3. \A m \in T : ~(m < n)
  BY <1>2 DEF OpToRel
<1> QED
  BY <1>3

LEMMA RankFacts ==
  ASSUME NEW n \in Nat, NEW keep \in SUBSET (1..n)
  PROVE  /\ IsFiniteSet(keep) /\ Cardinality(keep) \in 0..n
         /\ \A j \in Int : Rank(keep, j) \in Nat /\ Rank(keep, j) <= Cardinality(keep)
         /\ Rank(keep, 0) = 0 /\ Rank(keep, n) = Cardinality(keep)
         /\ \A j \in Int : Rank(keep, j) = IF j \in keep THEN Rank(keep, j - 1) + 1
                                                         ELSE Rank(keep, j - 1)
<1>0. \A j \in keep : j \in Int /\ 1 <= j /\ j <= n
  OBVIOUS
<1>1. IsFiniteSet(1..n) /\ Cardinality(1..n) = n
  BY FS_Interval
<1>2. IsFiniteSet(keep) /\ Cardinality(keep) \in 0..n
  <2>1. IsFiniteSet(keep) /\ Cardinality(keep) <= Cardinality(1..n)
    BY <1>1, FS_Subset
  <2>2. Cardinality(keep) \in Nat
    BY <2>1, FS_CardinalityType
  <2> QED
    BY <1>1, <2>1, <2>2
<1>3. ASSUME NEW j \in Int
      PROVE  /\ IsFiniteSet({i \in keep : i <= j})
             /\ Rank(keep, j) \in Nat /\ Rank(keep, j) <= Cardinality(keep)
  <2>1. {i \in keep : i <= j} \in SUBSET keep
    OBVIOUS
  <2>2. IsFiniteSet({i \in keep : i <= j}) /\ Rank(keep, j) <= Cardinality(keep)
    BY <1>2, <2>1, FS_Subset DEF Rank
  <2> QED
    BY <2>2, FS_CardinalityType DEF Rank
<1>4. Rank(keep, 0) = 0
  <2>1. \A i \in keep : ~(i <= 0)
    BY <1>0
  <2>2. {i \in keep : i <= 0} = {}
    BY <2>1, Zenon
  <2> QED
    BY <2>2, FS_EmptySet DEF Rank
<1>5. Rank(keep, n) = Cardinality(keep)
  <2>1. {i \in keep : i <= n} = keep
    BY <1>0
  <2> QED
    BY <2>1 DEF Rank
<1>6. ASSUME NEW j \in Int
      PROVE  Rank(keep, j) = IF j \in keep THEN Rank(keep, j - 1) + 1 ELSE Rank(keep, j - 1)
  <2> DEFINE below == {i \in keep : i <= j - 1}
  <2>1. IsFiniteSet(below) /\ j \notin below
    <3>1. j - 1 \in Int /\ ~(j <= j - 1)
      OBVIOUS
    <3> QED
      BY <1>3, <3>1
  <2>2. CASE j \in keep
    <3>1. {i \in keep : i <= j} = below \cup {j}
      <4>1. \A i \in keep : i <= j <=> i <= j - 1 \/ i = j
        BY <1>0
      <4> QED
        BY <2>2, <4>1, Zenon
    <3>2. Cardinality(below \cup {j}) = Cardinality(below) + 1
      BY <2>1, FS_AddElement
    <3> QED
      BY <2>2, <3>1, <3>2 DEF Rank
  <2>3. CASE j \notin keep
    <3>1. {i \in keep : i <= j} = below
      <4>1. \A i \in keep : i <= j <=> i <= j - 1
        BY <1>0, <2>3
      <4> QED
        BY <4>1, Zenon
    <3> QED
      BY <2>3, <3>1 DEF Rank
  <2> QED
    BY <2>2, <2>3
<1> QED
  BY <1>2, <1>3, <1>4, <1>5, <1>6

\* Of two positions kept, the later one has the higher rank.
LEMMA RankIncreases ==
  ASSUME NEW n \in Nat, NEW keep \in SUBSET (1..n), NEW i \in keep, NEW j \in keep, i < j
  PROVE  Rank(keep, i) < Rank(keep, j)
<1> DEFINE A == {l \in keep : l <= i}  B == {l \in keep : l <= j}
<1>1. IsFiniteSet(keep)
  BY RankFacts
<1>2. IsFiniteSet(A) /\ IsFiniteSet(B)
  BY <1>1, FS_Subset
<1>0. i \in Int /\ j \in Int /\ \A l \in keep : l \in Int
  OBVIOUS
<1>3. A \in SUBSET B /\ j \in B /\ j \notin A
  <2>1. ~(j <= i) /\ j <= j /\ \A l \in keep : l <= i => l <= j
    BY <1>0
  <2> QED
    BY <2>1, Zenon
<1>4. Cardinality(A) <= Cardinality(B) /\ Cardinality(A) # Cardinality(B)
  BY <1>2, <1>3, FS_Subset
<1>5. Cardinality(A) \in Nat /\ Cardinality(B) \in Nat
  BY <1>2, FS_CardinalityType
<1> QED
  BY <1>4, <1>5 DEF Rank

\* There is a k-th position kept for every k, and a place for every position.
LEMMA PositionFacts ==
  ASSUME NEW n \in Nat, NEW keep \in SUBSET (1..n)
  PROVE  /\ \A k \in 1..Cardinality(keep) :
              Position(keep, k) \in keep /\ Rank(keep, Position(keep, k)) = k
         /\ \A j \in keep :
              /\ Rank(keep, j) \in 1..Cardinality(keep)
              /\ Position(keep, Rank(keep, j)) = j
<1>1. ASSUME NEW k \in 1..Cardinality(keep)
      PROVE  \E j \in keep : Rank(keep, j) = k
  <2> DEFINE T == {m \in Nat : Rank(keep, m) >= k}
  <2>1. Cardinality(keep) \in Nat /\ k \in Nat \ {0}
    BY RankFacts
  <2>2. n \in T
    BY <2>1, RankFacts
  <2>3. PICK j \in T : \A m \in T : j <= m
    BY <2>2, Smallest
  <2>4. j # 0
    BY <2>1, <2>3, RankFacts
  <2>5. j - 1 \in Nat /\ ~(Rank(keep, j - 1) >= k)
    BY <2>3, <2>4
  <2>6. Rank(keep, j - 1) \in Nat /\ Rank(keep, j) \in Nat /\ Rank(keep, j) >= k
    <3>1. j \in Int /\ j - 1 \in Int /\ Rank(keep, j) >= k
      BY <2>3, <2>5
    <3> QED
      BY <3>1, RankFacts
  <2>7. Rank(keep, j) = IF j \in keep THEN Rank(keep, j - 1) + 1 ELSE Rank(keep, j - 1)
    BY <2>3, RankFacts
  <2>8. ~(Rank(keep, j - 1) >= k)
    BY <2>5
  <2> QED
    BY <2>1, <2>6, <2>7, <2>8
<1>2. \A k \in 1..Cardinality(keep) :
        Position(keep, k) \in keep /\ Rank(keep, Position(keep, k)) = k
  BY <1>1, Zenon DEF Position
<1>3. ASSUME NEW j \in keep
      PROVE  Rank(keep, j) \in 1..Cardinality(keep) /\ Position(keep, Rank(keep, j)) = j
  <2>1. j \in Int /\ j - 1 \in Int
    OBVIOUS
  <2>2. /\ Rank(keep, j - 1) \in Nat /\ Rank(keep, j) = Rank(keep, j - 1) + 1
        /\ Rank(keep, j) <= Cardinality(keep) /\ Cardinality(keep) \in Nat
    <3>1. /\ Cardinality(keep) \in 0..n
          /\ \A i \in Int : Rank(keep, i) \in Nat /\ Rank(keep, i) <= Cardinality(keep)
          /\ \A i \in Int : i \in keep => Rank(keep, i) = Rank(keep, i - 1) + 1
      BY RankFacts
    <3> QED
      BY <2>1, <3>1
  <2>3. Rank(keep, j) \in 1..Cardinality(keep)
    BY <2>2
  <2>4. PICK i \in keep : i = Position(keep, Rank(keep, j)) /\ Rank(keep, i) = Rank(keep, j)
    BY <1>2, <2>3
  <2>5. Rank(keep, i) \in Nat /\ Rank(keep, j) \in Nat
    BY <2>2, <2>4
  <2>6. ~(i < j) /\ ~(j < i)
    BY <2>4, <2>5, RankIncreases
  <2> QED
    BY <2>3, <2>4, <2>6
<1> QED
  BY <1>2, <1>3

\* The result is a sequence of elements of s; its k-th element is that at the
\* k-th position kept.
THEOREM SubsequenceProperties ==
  ASSUME NEW S, NEW s \in Seq(S), NEW keep \in SUBSET (1..Len(s))
  PROVE  /\ Subsequence(s, keep) \in Seq(S)
         /\ Len(Subsequence(s, keep)) = Cardinality(keep)
         /\ Cardinality(keep) \in 0..Len(s)
         /\ \A k \in 1..Cardinality(keep) :
              Position(keep, k) \in keep /\ Subsequence(s, keep)[k] = s[Position(keep, k)]
<1>1. Len(s) \in Nat /\ Cardinality(keep) \in 0..Len(s)
  BY RankFacts
<1>2. \A k \in 1..Cardinality(keep) : Position(keep, k) \in keep
  BY <1>1, PositionFacts
<1>3. \A k \in 1..Cardinality(keep) : s[Position(keep, k)] \in S
  <2>1. \A j \in 1..Len(s) : s[j] \in S
    BY ElementOfSeq
  <2> QED
    BY <1>2, <2>1
<1>4. Subsequence(s, keep) \in [1..Cardinality(keep) -> S]
  BY <1>3 DEF Subsequence
<1>5. Subsequence(s, keep) \in Seq(S) /\ Len(Subsequence(s, keep)) = Cardinality(keep)
  BY <1>1, <1>4
<1> QED
  BY <1>1, <1>2, <1>5 DEF Subsequence

\* The places up to n in the result that hold elements of some kind, and the
\* positions in s where these come from.
Places(keep, kind, n) == {k \in 1..n : Position(keep, k) \in kind}
Origins(keep, kind, n) == {j \in kind : Rank(keep, j) <= n}

\* They are equally many.
THEOREM SubsequenceCount ==
  ASSUME NEW S, NEW s \in Seq(S), NEW keep \in SUBSET (1..Len(s)), NEW kind \in SUBSET keep,
         NEW n \in Nat, n <= Cardinality(keep)
  PROVE  /\ IsFiniteSet(Places(keep, kind, n)) /\ IsFiniteSet(kind)
         /\ Cardinality(Places(keep, kind, n)) = Cardinality(Origins(keep, kind, n))
<1> DEFINE places == {k \in 1..n : Position(keep, k) \in kind}
           kept == {j \in kind : Rank(keep, j) <= n}
           f == [k \in places |-> Position(keep, k)]
<1>1. Len(s) \in Nat /\ Cardinality(keep) \in 0..Len(s) /\ IsFiniteSet(keep)
  BY RankFacts
<1>2. IsFiniteSet(kind) /\ IsFiniteSet(places)
  <2>1. places \in SUBSET (1..n) /\ IsFiniteSet(1..n)
    BY FS_Interval
  <2>2. IsFiniteSet(kind)
    BY <1>1, FS_Subset
  <2> HIDE DEF places
  <2> QED
    BY <2>1, <2>2, FS_Subset
<1>3. ASSUME NEW k \in places
      PROVE  f[k] \in kept /\ Rank(keep, f[k]) = k
  <2>1. k \in 1..Cardinality(keep) /\ k <= n
    BY <1>1
  <2> QED
    BY <1>1, <2>1, PositionFacts
<1>4. ASSUME NEW j \in kept
      PROVE  Rank(keep, j) \in places /\ f[Rank(keep, j)] = j
  <2>1. Rank(keep, j) \in 1..Cardinality(keep) /\ Position(keep, Rank(keep, j)) = j
    BY <1>1, PositionFacts
  <2>2. Rank(keep, j) \in 1..n
    BY <1>1, <2>1
  <2> QED
    BY <2>1, <2>2
<1>5. f \in [places -> kept]
  BY <1>3
<1> HIDE DEF f
<1>6. f \in Bijection(places, kept)
  <2>1. \A a, b \in places : f[a] = f[b] => a = b
    BY <1>3
  <2>2. \A j \in kept : \E k \in places : f[k] = j
    BY <1>4
  <2> HIDE DEF places, kept
  <2> QED
    BY <1>5, <2>1, <2>2 DEF Bijection, Injection, Surjection, IsInjective
<1>7. Cardinality(kept) = Cardinality(places)
  <2> HIDE DEF places, kept
  <2> QED
    BY <1>2, <1>6, FS_Bijection DEF ExistsBijection
<1> QED
  BY <1>2, <1>7 DEF Places, Origins
=============================================================================
