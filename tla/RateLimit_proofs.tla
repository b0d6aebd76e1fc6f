--------------------------- MODULE RateLimit_proofs -------------------------
(***************************************************************************)
(* What the RateLimit middleware promises for any number of addresses and  *)
(* handlers, any limit, and any window, period and delay that satisfy      *)
(* TimeAssumption.                                                         *)
(***************************************************************************)
EXTENDS RateLimit, Subsequences_proofs

-----------------------------------------------------------------------------
(* The inductive invariant. *)

\* How many of the requests in s were made in the last n ticks.
Younger(s, n) == Cardinality({k \in DOMAIN s : s[k] < n})

\* How many of those in tracker t.
Count(t, n) == Younger(requests[t], n)

\* Those in the tracker that requestCounts has for i.
Counted(i, n) == IF requestCounts[i] = None THEN 0 ELSE Count(requestCounts[i], n)

\* The trackers in which requests of i are counted, now or in a while.
Uses(i) == ({requestCounts[i]} \cup {tracker[h] : h \in {g \in Handlers : ip[g] = i}}) \ {None}

\* The cleanup goroutine has deleted the tracker that h is about to use.
Detached(h) == tracker[h] # None /\ tracker[h] # requestCounts[ip[h]]

ToVisit(i) == \E k \in DOMAIN todo : todo[k] = i

\* At least so many ticks have passed since the key i could last be deleted.
Elapsed(i) == IF ToVisit(i) THEN Window + MaxDelay ELSE cleanAge

HandlerInv ==
  \A h \in Handlers :
    /\ pc[h] = "idle" <=> ip[h] = None
    /\ pc[h] = "holding" <=> tracker[h] # None

CleanerInv ==
  /\ cleaner = "waiting" => todo = << >>
  /\ cleaner = "deleting" => todo # << >>
  /\ cleaner # "waiting" => cleanAge <= MaxDelay
  /\ \A k, l \in DOMAIN todo : todo[k] = todo[l] => k = l

\* No two addresses are counted in one tracker.
OwnInv == \A i, j \in IPs : i # j => Uses(i) \cap Uses(j) = {}

\* The handlers of one address that the cleanup goroutine has overtaken hold one
\* tracker, and arrived before it was deleted.
DetachedInv ==
  /\ \A h \in Handlers : Detached(h) => Elapsed(ip[h]) <= age[h] + MaxDelay
  /\ \A g, h \in Handlers : Detached(g) /\ Detached(h) /\ ip[g] = ip[h] => tracker[g] = tracker[h]

\* What was let through has been counted: by the current tracker alone if enough
\* time has passed, by it and the one that was deleted else.
CountedInv ==
  \A i \in IPs, n \in 0..Span :
    /\ n + 2 * MaxDelay <= Elapsed(i) => AdmittedSince(i, n) <= Counted(i, n + MaxDelay)
    /\ AdmittedSince(i, n) <= Counted(i, n + MaxDelay) + RequestsPerSecond
    /\ \A h \in Handlers :
         Detached(h) /\ ip[h] = i =>
           AdmittedSince(i, n) <= Counted(i, n + MaxDelay) + Count(tracker[h], n + MaxDelay)

\* What is counted has been let through.
HonestInv ==
  \A i \in IPs, n \in 0..(Window + MaxDelay) :
    \A t \in Uses(i) : Count(t, n) <= AdmittedSince(i, n)

IInv ==
  /\ TypeOK
  /\ HandlerInv
  /\ CleanerInv
  /\ OwnInv
  /\ DetachedInv
  /\ CountedInv
  /\ HonestInv

-----------------------------------------------------------------------------
(* Sequences of ages. *)

LEMMA Constants ==
  /\ RequestsPerSecond \in Nat \ {0} /\ Window \in Nat \ {0} /\ MaxDelay \in Nat
  /\ Interval \in Nat \ {0} /\ Horizon \in Nat \ {0} /\ Oldest \in Nat /\ Span \in Nat \ {0}
  /\ MaxDelay < Window /\ Window + MaxDelay < Oldest /\ Window + 2 * MaxDelay <= Interval
  /\ Span + MaxDelay = Window
BY RateAssumption, TimeAssumption DEF Oldest, Span

LEMMA YoungerType ==
  ASSUME NEW s \in Seq(Ages), NEW n \in Int
  PROVE  Younger(s, n) \in 0..Len(s) /\ IsFiniteSet({k \in DOMAIN s : s[k] < n})
<1>1. DOMAIN s = 1..Len(s) /\ Len(s) \in Nat
  BY LenProperties
<1>2. IsFiniteSet(1..Len(s)) /\ Cardinality(1..Len(s)) = Len(s)
  BY <1>1, FS_Interval
<1>3. {k \in DOMAIN s : s[k] < n} \in SUBSET (1..Len(s))
  BY <1>1
<1>4. IsFiniteSet({k \in DOMAIN s : s[k] < n}) /\ Younger(s, n) <= Len(s)
  BY <1>2, <1>3, FS_Subset DEF Younger
<1>5. Younger(s, n) \in Nat
  BY <1>4, FS_CardinalityType DEF Younger
<1> QED
  BY <1>1, <1>4, <1>5

LEMMA YoungerNone == \A n : Younger(<< >>, n) = 0
<1> SUFFICES ASSUME NEW n PROVE Younger(<< >>, n) = 0
  OBVIOUS
<1>1. {k \in DOMAIN << >> : << >>[k] < n} = {}
  OBVIOUS
<1> QED
  BY <1>1, FS_EmptySet DEF Younger

LEMMA YoungerAppend ==
  ASSUME NEW s \in Seq(Ages), NEW a \in Ages, NEW n \in Int
  PROVE  Younger(Append(s, a), n) = Younger(s, n) + (IF a < n THEN 1 ELSE 0)
<1> DEFINE A == {k \in DOMAIN s : s[k] < n}
           B == {k \in DOMAIN Append(s, a) : Append(s, a)[k] < n}
<1>1. DOMAIN s = 1..Len(s) /\ Len(s) \in Nat
  BY LenProperties
<1>2. /\ Append(s, a) \in Seq(Ages) /\ Len(Append(s, a)) = Len(s) + 1
      /\ DOMAIN Append(s, a) = 1..(Len(s) + 1)
      /\ \A k \in 1..Len(s) : Append(s, a)[k] = s[k]
      /\ Append(s, a)[Len(s) + 1] = a
  BY AppendProperties, LenProperties
<1>3. 1..(Len(s) + 1) = 1..Len(s) \cup {Len(s) + 1} /\ Len(s) + 1 \notin 1..Len(s)
  BY <1>1
<1>4. B = IF a < n THEN A \cup {Len(s) + 1} ELSE A
  BY <1>1, <1>2, <1>3
<1>5. Len(s) + 1 \notin A /\ IsFiniteSet(A) /\ Cardinality(A) \in Nat
  <2>1. IsFiniteSet(A)
    BY YoungerType
  <2>2. Cardinality(A) \in Nat
    BY <2>1, FS_CardinalityType
  <2> QED
    BY <1>1, <1>3, <2>1, <2>2
<1>6. Cardinality(A \cup {Len(s) + 1}) = Cardinality(A) + 1
  <2> HIDE DEF A
  <2> QED
    BY <1>5, FS_AddElement
<1>7. Younger(Append(s, a), n) = Cardinality(B) /\ Younger(s, n) = Cardinality(A)
  BY DEF Younger
<1> HIDE DEF A, B
<1> QED
  BY <1>4, <1>5, <1>6, <1>7

\* What the loop over tracker.Requests leaves: it counts the same as before up to
\* the cutoff, and nothing beyond it.
LEMMA YoungerKept ==
  ASSUME NEW s \in Seq(Ages), NEW c \in Int
  PROVE  LET kept == Subsequence(s, {k \in DOMAIN s : s[k] < c})
         IN  /\ kept \in Seq(Ages) /\ Len(kept) = Younger(s, c)
             /\ \A n \in Int : /\ Younger(kept, n) <= Younger(s, n)
                               /\ n <= c => Younger(kept, n) = Younger(s, n)
<1> DEFINE keep == {k \in DOMAIN s : s[k] < c}
           kept == Subsequence(s, keep)
<1>1. DOMAIN s = 1..Len(s) /\ Len(s) \in Nat /\ \A k \in 1..Len(s) : s[k] \in Ages
  BY LenProperties, ElementOfSeq
<1>2. keep \in SUBSET (1..Len(s))
  BY <1>1
<1>3. /\ kept \in Seq(Ages) /\ Len(kept) = Cardinality(keep)
      /\ Cardinality(keep) \in Nat
      /\ \A k \in 1..Cardinality(keep) : Position(keep, k) \in keep /\ kept[k] = s[Position(keep, k)]
  <2> HIDE DEF keep
  <2> QED
    BY <1>1, <1>2, SubsequenceProperties
<1>4. ASSUME NEW n \in Int
      PROVE  Younger(kept, n) <= Younger(s, n) /\ (n <= c => Younger(kept, n) = Younger(s, n))
  <2> DEFINE kind == {j \in keep : s[j] < n}
  <2>1. {k \in DOMAIN kept : kept[k] < n} = Places(keep, kind, Cardinality(keep))
    <3>1. DOMAIN kept = 1..Cardinality(keep)
      BY <1>3, LenProperties
    <3> HIDE DEF keep, kept
    <3> QED
      BY <1>3, <3>1 DEF Places
  <2>2. Cardinality(Places(keep, kind, Cardinality(keep)))
          = Cardinality(Origins(keep, kind, Cardinality(keep)))
    <3>1. kind \in SUBSET keep
      OBVIOUS
    <3>2. Cardinality(keep) \in Nat /\ Cardinality(keep) <= Cardinality(keep)
      BY <1>3
    <3> HIDE DEF keep, kept, kind
    <3> QED
      BY <1>2, <3>1, <3>2, SubsequenceCount
  <2>3. Origins(keep, kind, Cardinality(keep)) = kind
    <3>1. \A j \in keep : Rank(keep, j) \in 1..Cardinality(keep)
      <4> HIDE DEF keep
      <4> QED
        BY <1>1, <1>2, PositionFacts
    <3> HIDE DEF keep
    <3>2. \A j \in keep : Rank(keep, j) <= Cardinality(keep)
      BY <1>3, <3>1
    <3> QED
      BY <3>2, Zenon DEF Origins
  <2>4. Younger(kept, n) = Cardinality(kind)
    BY <2>1, <2>2, <2>3 DEF Younger
  <2>5. /\ kind \in SUBSET {k \in DOMAIN s : s[k] < n}
        /\ IsFiniteSet({k \in DOMAIN s : s[k] < n})
    BY YoungerType
  <2>6. Cardinality(kind) <= Younger(s, n)
    <3> HIDE DEF kind
    <3> QED
      BY <2>5, FS_Subset DEF Younger
  <2>7. ASSUME n <= c PROVE kind = {k \in DOMAIN s : s[k] < n}
    <3>1. \A k \in DOMAIN s : s[k] < n => s[k] < c
      BY <1>1, <2>7 DEF Ages
    <3> QED
      BY <3>1
  <2> QED
    BY <2>4, <2>6, <2>7 DEF Younger
<1> QED
  BY <1>3, <1>4 DEF Younger

\* When all of them grow older by a tick.
LEMMA YoungerOlder ==
  ASSUME NEW s \in Seq(Ages)
  PROVE  LET older == [k \in DOMAIN s |-> Older(s[k])]
         IN  /\ older \in Seq(Ages) /\ Len(older) = Len(s)
             /\ \A n \in 1..Oldest : Younger(older, n) = Younger(s, n - 1)
<1> DEFINE older == [k \in DOMAIN s |-> Older(s[k])]
<1>1. DOMAIN s = 1..Len(s) /\ Len(s) \in Nat /\ \A k \in 1..Len(s) : s[k] \in Ages
  BY LenProperties, ElementOfSeq
<1>2. \A a \in Ages : Older(a) \in Ages /\ \A n \in 1..Oldest : Older(a) < n <=> a < n - 1
  BY Constants DEF Ages, Older
<1>3. older \in [1..Len(s) -> Ages]
  BY <1>1, <1>2
<1>4. older \in Seq(Ages) /\ Len(older) = Len(s)
  <2> HIDE DEF older
  <2> QED
    BY <1>1, <1>3
<1>5. ASSUME NEW n \in 1..Oldest PROVE Younger(older, n) = Younger(s, n - 1)
  <2>1. {k \in DOMAIN older : older[k] < n} = {k \in DOMAIN s : s[k] < n - 1}
    BY <1>1, <1>2
  <2> QED
    BY <2>1 DEF Younger
<1> QED
  BY <1>4, <1>5

-----------------------------------------------------------------------------
(* Sums of counts. *)

\* What Total counts.
Pairs(counts, n) == UNION {{m} \X (1..counts[m]) : m \in 0..(n - 1)}

LEMMA InPairs ==
  ASSUME NEW counts, NEW n
  PROVE  Pairs(counts, n) = {p \in (0..(n - 1)) \X Int : p[2] \in 1..counts[p[1]]}
BY DEF Pairs

LEMMA PairsFinite ==
  ASSUME NEW counts \in [Recent -> Nat], NEW n \in 0..(Window + MaxDelay)
  PROVE  IsFiniteSet(Pairs(counts, n)) /\ Total(counts, n) \in Nat
<1> DEFINE f == [m \in 0..(n - 1) |-> {m} \X (1..counts[m])]
           parts == {{m} \X (1..counts[m]) : m \in 0..(n - 1)}
<1>1. n \in Nat /\ 0..(n - 1) \subseteq Recent /\ IsFiniteSet(0..(n - 1))
  <2>1. n \in Nat /\ n - 1 \in Int /\ 0 \in Int /\ 0..(n - 1) \subseteq Recent
    BY Constants DEF Recent
  <2> QED
    BY <2>1, FS_Interval
<1>2. IsFiniteSet(parts)
  <2>1. f \in Surjection(0..(n - 1), parts)
    BY DEF Surjection
  <2> HIDE DEF f, parts
  <2> QED
    BY <1>1, <2>1, FS_Surjection
<1>3. ASSUME NEW m \in 0..(n - 1) PROVE IsFiniteSet({m} \X (1..counts[m]))
  <2>1. counts[m] \in Int
    BY <1>1
  <2> QED
    <3>1. IsFiniteSet({m}) /\ IsFiniteSet(1..counts[m])
      <4>1. IsFiniteSet({m})
        BY FS_Singleton
      <4>2. \A c \in Int : IsFiniteSet(1..c)
        BY FS_Interval
      <4> QED
        BY <2>1, <4>1, <4>2
    <3> QED
      BY <3>1, FS_Product
<1>4. IsFiniteSet(UNION parts)
  <2>1. \A T \in parts : IsFiniteSet(T)
    BY <1>3
  <2> HIDE DEF parts
  <2> QED
    BY <1>2, <2>1, FS_UNION
<1> QED
  BY <1>4, FS_CardinalityType DEF Pairs, Total

LEMMA TotalNone == \A counts : Total(counts, 0) = 0
<1> SUFFICES ASSUME NEW counts PROVE Total(counts, 0) = 0
  OBVIOUS
<1>1. UNION {{m} \X (1..counts[m]) : m \in 0..(0 - 1)} = {}
  OBVIOUS
<1> QED
  BY <1>1, FS_EmptySet DEF Total

LEMMA TotalMore ==
  ASSUME NEW counts \in [Recent -> Nat], NEW n \in 1..(Window + MaxDelay)
  PROVE  Total([counts EXCEPT ![0] = @ + 1], n) = Total(counts, n) + 1
<1> DEFINE more == [counts EXCEPT ![0] = @ + 1]
           new == <<0, counts[0] + 1>>
<1>1. n \in 0..(Window + MaxDelay) /\ 0 \in Recent /\ 0..(n - 1) \subseteq Recent /\ 0 \in 0..(n - 1)
  BY Constants DEF Recent
<1>2. counts[0] \in Nat /\ \A m \in 0..(n - 1) : more[m] = IF m = 0 THEN counts[0] + 1 ELSE counts[m]
  BY <1>1
<1>3. Pairs(more, n) = Pairs(counts, n) \cup {new}
  <2>1. ASSUME NEW m \in 0..(n - 1), NEW l \in Int
        PROVE  l \in 1..more[m] <=> l \in 1..counts[m] \/ (m = 0 /\ l = counts[0] + 1)
    <3>1. counts[m] \in Nat
      BY <1>1
    <3> QED
      BY <1>2, <3>1
  <2>2. new \in (0..(n - 1)) \X Int
    BY <1>1, <1>2
  <2> HIDE DEF more
  <2> QED
    BY <2>1, <2>2, InPairs
<1>4. new \notin Pairs(counts, n)
  BY <1>2, InPairs
<1>5. IsFiniteSet(Pairs(counts, n))
  BY <1>1, PairsFinite
<1>6. Cardinality(Pairs(counts, n) \cup {new}) = Cardinality(Pairs(counts, n)) + 1
  <2> HIDE DEF new
  <2> QED
    BY <1>4, <1>5, FS_AddElement
<1> QED
  BY <1>3, <1>6 DEF Total, Pairs

LEMMA TotalShifted ==
  ASSUME NEW counts \in [Recent -> Nat], NEW n \in 1..(Window + MaxDelay)
  PROVE  Total([m \in Recent |-> IF m = 0 THEN 0 ELSE counts[m - 1]], n) = Total(counts, n - 1)
<1> DEFINE shifted == [m \in Recent |-> IF m = 0 THEN 0 ELSE counts[m - 1]]
           A == Pairs(counts, n - 1)
           B == Pairs(shifted, n)
           f == [p \in A |-> <<p[1] + 1, p[2]>>]
<1>1. n - 1 \in 0..(Window + MaxDelay) /\ 0..(n - 1) \subseteq Recent /\ n \in Int
  BY Constants DEF Recent
<1>2. \A m \in 0..(n - 1) : shifted[m] = IF m = 0 THEN 0 ELSE counts[m - 1]
  BY <1>1
<1>3. IsFiniteSet(A)
  BY <1>1, PairsFinite
<1>4. A = {p \in (0..(n - 2)) \X Int : p[2] \in 1..counts[p[1]]}
  BY <1>1, InPairs
<1>5. B = {p \in (0..(n - 1)) \X Int : p[2] \in 1..shifted[p[1]]}
  BY InPairs
<1> HIDE DEF A, B, shifted
<1>6. ASSUME NEW p \in A PROVE <<p[1] + 1, p[2]>> \in B
  <2>1. p[1] \in 0..(n - 2) /\ p[2] \in Int /\ p[2] \in 1..counts[p[1]]
    BY <1>4
  <2>2. p[1] + 1 \in 0..(n - 1) /\ p[1] + 1 # 0 /\ (p[1] + 1) - 1 = p[1]
    BY <1>1, <2>1
  <2>3. shifted[p[1] + 1] = counts[p[1]]
    BY <1>2, <2>2
  <2> QED
    BY <1>5, <2>1, <2>2, <2>3
<1>7. ASSUME NEW q \in B PROVE <<q[1] - 1, q[2]>> \in A /\ <<(q[1] - 1) + 1, q[2]>> = q
  <2>1. q[1] \in 0..(n - 1) /\ q[2] \in Int /\ q[2] \in 1..shifted[q[1]] /\ q = <<q[1], q[2]>>
    BY <1>5
  <2>2. q[1] # 0
    BY <1>2, <2>1
  <2>3. q[1] - 1 \in 0..(n - 2) /\ (q[1] - 1) + 1 = q[1]
    BY <1>1, <2>1, <2>2
  <2>4. shifted[q[1]] = counts[q[1] - 1]
    BY <1>2, <2>1, <2>2
  <2> QED
    BY <1>4, <2>1, <2>3, <2>4
<1>8. f \in Bijection(A, B)
  <2>1. f \in [A -> B]
    BY <1>6
  <2>2. ASSUME NEW p \in A, NEW q \in A, f[p] = f[q] PROVE p = q
    <3>1. p = <<p[1], p[2]>> /\ q = <<q[1], q[2]>> /\ p[1] \in Int /\ q[1] \in Int
      BY <1>4
    <3>2. p[1] + 1 = q[1] + 1 /\ p[2] = q[2]
      BY <2>2
    <3> QED
      BY <3>1, <3>2
  <2>3. ASSUME NEW q \in B PROVE \E p \in A : f[p] = q
    <3>1. f[<<q[1] - 1, q[2]>>] = q
      BY <1>7
    <3> QED
      BY <1>7, <3>1
  <2> HIDE DEF f
  <2> QED
    BY <2>1, <2>2, <2>3 DEF Bijection, Injection, Surjection, IsInjective
<1>9. Cardinality(B) = Cardinality(A)
  <2> HIDE DEF f
  <2> QED
    BY <1>3, <1>8, FS_Bijection DEF ExistsBijection
<1> QED
  BY <1>9 DEF A, B, shifted, Pairs, Total

-----------------------------------------------------------------------------
(* Types, and who is where. *)

LEMMA TrackerFacts ==
  /\ Trackers \subseteq Nat /\ None \notin Trackers /\ None \notin IPs
  /\ IsFiniteSet(Trackers) /\ Cardinality(Trackers) = Cardinality(IPs) + Cardinality(Handlers)
  /\ Cardinality(IPs) \in Nat /\ Cardinality(Handlers) \in Nat
<1>1. Cardinality(IPs) \in Nat /\ Cardinality(Handlers) \in Nat
  BY FiniteAssumption, FS_CardinalityType
<1>2. \A n \in Nat : IsFiniteSet(1..n) /\ Cardinality(1..n) = n
  BY FS_Interval
<1> QED
  BY <1>1, <1>2, NoneAssumption DEF Trackers

\* A new RequestTracker is not one that is in use.
LEMMA UnusedFacts ==
  ASSUME TypeOK, HandlerInv, NEW h \in Handlers, pc[h] = "arrived", requestCounts[ip[h]] = None
  PROVE  Unused \in Trackers /\ Unused \notin Referenced
<1> DEFINE I == IPs \ {ip[h]}
           H == Handlers \ {h}
           A == {requestCounts[i] : i \in I}
           B == {tracker[g] : g \in H}
           a == [i \in I |-> requestCounts[i]]
           b == [g \in H |-> tracker[g]]
<1>1. ip[h] \in IPs /\ tracker[h] = None
  BY DEF TypeOK, HandlerInv
<1>2. /\ IsFiniteSet(I) /\ Cardinality(I) = Cardinality(IPs) - 1
      /\ IsFiniteSet(H) /\ Cardinality(H) = Cardinality(Handlers) - 1
  BY <1>1, FiniteAssumption, FS_RemoveElement
<1>3. IsFiniteSet(A) /\ Cardinality(A) <= Cardinality(I)
  <2>1. a \in Surjection(I, A)
    BY DEF Surjection
  <2> HIDE DEF A, I, a
  <2> QED
    BY <1>2, <2>1, FS_Surjection
<1>4. IsFiniteSet(B) /\ Cardinality(B) <= Cardinality(H)
  <2>1. b \in Surjection(H, B)
    BY DEF Surjection
  <2> HIDE DEF B, H, b
  <2> QED
    BY <1>2, <2>1, FS_Surjection
<1>5. IsFiniteSet(A \cup B) /\ Cardinality(A \cup B) <= Cardinality(A) + Cardinality(B)
  <2> HIDE DEF A, B
  <2>1. /\ IsFiniteSet(A \cup B) /\ IsFiniteSet(A \cap B)
        /\ Cardinality(A \cup B) = Cardinality(A) + Cardinality(B) - Cardinality(A \cap B)
    BY <1>3, <1>4, FS_Union, FS_Intersection
  <2>2. Cardinality(A) \in Nat /\ Cardinality(B) \in Nat /\ Cardinality(A \cap B) \in Nat
    BY <1>3, <1>4, <2>1, FS_CardinalityType
  <2> QED
    BY <2>1, <2>2
<1>6. Referenced \subseteq A \cup B \cup {None}
  BY <1>1 DEF Referenced
<1>7. ~(Trackers \subseteq A \cup B)
  <2> SUFFICES ASSUME Trackers \subseteq A \cup B PROVE FALSE
    OBVIOUS
  <2>1. Cardinality(Trackers) <= Cardinality(A \cup B)
    <3> HIDE DEF A, B
    <3> QED
      BY <1>5, FS_Subset
  <2>2. /\ Cardinality(A) \in Nat /\ Cardinality(B) \in Nat /\ Cardinality(A \cup B) \in Nat
        /\ Cardinality(I) \in Nat /\ Cardinality(H) \in Nat
    <3> HIDE DEF A, B, I, H
    <3> QED
      BY <1>2, <1>3, <1>4, <1>5, FS_CardinalityType
  <2> HIDE DEF A, B, I, H
  <2> QED
    BY <1>2, <1>3, <1>4, <1>5, <2>1, <2>2, TrackerFacts
<1>8. \E t \in Trackers : t \notin Referenced
  <2>1. PICK t \in Trackers : t \notin A \cup B
    BY <1>7
  <2>2. t # None
    BY TrackerFacts
  <2> HIDE DEF A, B
  <2> QED
    BY <1>6, <2>1, <2>2
<1> QED
  BY <1>8, Zenon DEF Unused

\* What is left of the tracker a handler holds.
LEMMA ValidFacts ==
  ASSUME TypeOK, HandlerInv, NEW h \in Handlers, pc[h] = "holding"
  PROVE  /\ tracker[h] \in Trackers /\ ip[h] \in IPs /\ age[h] \in 0..MaxDelay
         /\ ValidRequests(h) \in Seq(Ages)
         /\ Len(ValidRequests(h)) = Count(tracker[h], age[h] + Window)
         /\ Len(ValidRequests(h)) <= RequestsPerSecond
         /\ \A n \in Int : /\ Younger(ValidRequests(h), n) <= Count(tracker[h], n)
                           /\ n <= Window => Younger(ValidRequests(h), n) = Count(tracker[h], n)
<1>1. /\ tracker[h] \in Trackers /\ ip[h] \in IPs /\ age[h] \in 0..MaxDelay
      /\ requests[tracker[h]] \in Seq(Ages) /\ Len(requests[tracker[h]]) <= RequestsPerSecond
  BY DEF TypeOK, HandlerInv
<1>2. age[h] + Window \in Int /\ \A n \in Int : n <= Window => n <= age[h] + Window
  BY <1>1, Constants
<1>3. PICK s : s = requests[tracker[h]]
  OBVIOUS
<1>4. PICK c : c = age[h] + Window
  OBVIOUS
<1>5. ValidRequests(h) = Subsequence(s, {k \in DOMAIN s : s[k] < c})
  BY <1>3, <1>4 DEF ValidRequests
<1>6. /\ ValidRequests(h) \in Seq(Ages) /\ Len(ValidRequests(h)) = Younger(s, c)
      /\ \A n \in Int : /\ Younger(ValidRequests(h), n) <= Younger(s, n)
                        /\ n <= c => Younger(ValidRequests(h), n) = Younger(s, n)
  BY <1>1, <1>2, <1>3, <1>4, <1>5, YoungerKept
<1>7. Younger(s, c) \in 0..Len(s) /\ Len(s) \in Nat
  BY <1>1, <1>2, <1>3, <1>4, YoungerType, LenProperties
<1>8. Len(ValidRequests(h)) <= RequestsPerSecond
  BY <1>1, <1>3, <1>6, <1>7, Constants
<1> QED
  BY <1>1, <1>2, <1>3, <1>4, <1>6, <1>8 DEF Count

LEMMA ClientIPFacts == ClientIPs \subseteq IPs
<1> SUFFICES ASSUME NEW r \in Requests PROVE getClientIP(r) \in IPs
  BY DEF ClientIPs
<1>1. r.forwarded = << >> \/ r.forwarded \in IPs \X IPs
  BY DEF Requests
<1>2. r.real \in IPs \cup {None} /\ r.remote \in IPs
  BY DEF Requests
<1>3. CASE r.forwarded = << >>
  BY <1>2, <1>3 DEF getClientIP
<1>4. CASE r.forwarded # << >>
  <2>1. PICK x \in IPs, y \in IPs : r.forwarded = <<x, y>>
    BY <1>1, <1>4
  <2>2. Head(r.forwarded) = x
    BY <2>1
  <2> QED
    BY <1>4, <2>2 DEF getClientIP
<1> QED
  BY <1>3, <1>4

LEMMA HandlerStep == TypeOK /\ HandlerInv /\ [Next]_vars => HandlerInv'
<1> SUFFICES ASSUME TypeOK, HandlerInv, [Next]_vars PROVE HandlerInv'
  OBVIOUS
<1> USE DEF TypeOK, HandlerInv
<1>1. ASSUME NEW h \in Handlers, NEW i \in ClientIPs, Arrive(h, i) PROVE HandlerInv'
  <2>1. i # None
    BY ClientIPFacts, TrackerFacts
  <2> QED
    BY <1>1, <2>1 DEF Arrive
<1>2. ASSUME NEW h \in Handlers, LoadOrStore(h) PROVE HandlerInv'
  <2>1. tracker'[h] # None
    <3>1. CASE requestCounts[ip[h]] # None
      BY <1>2, <3>1 DEF LoadOrStore
    <3>2. CASE requestCounts[ip[h]] = None
      BY <1>2, <3>2, UnusedFacts, TrackerFacts DEF LoadOrStore
    <3> QED
      BY <3>1, <3>2
  <2>2. /\ pc[h] = "arrived" /\ pc' = [pc EXCEPT ![h] = "holding"] /\ UNCHANGED ip
        /\ \A g \in Handlers \ {h} : tracker'[g] = tracker[g]
    BY <1>2 DEF LoadOrStore
  <2> QED
    BY <2>1, <2>2
<1>3. ASSUME NEW h \in Handlers, Reject(h) \/ Admit(h) PROVE HandlerInv'
  BY <1>3 DEF Reject, Admit, Done
<1>4. CASE Cleanup
  BY <1>4 DEF Cleanup, StartCleanup, Inspect, Delete, EndCleanup, handlerVars
<1>5. CASE Tick
  BY <1>5 DEF Tick
<1>6. CASE UNCHANGED vars
  BY <1>6 DEF vars, handlerVars
<1> QED
  BY <1>1, <1>2, <1>3, <1>4, <1>5, <1>6 DEF Next, Serve

LEMMA TodoFacts ==
  ASSUME TypeOK, CleanerInv, todo # << >>
  PROVE  /\ Head(todo) \in IPs /\ ToVisit(Head(todo))
         /\ Tail(todo) \in Seq(IPs)
         /\ \A k, l \in DOMAIN Tail(todo) : Tail(todo)[k] = Tail(todo)[l] => k = l
         /\ \A i \in IPs : (\E k \in DOMAIN Tail(todo) : Tail(todo)[k] = i)
                             <=> ToVisit(i) /\ i # Head(todo)
<1>1. todo \in Seq(IPs) /\ Len(todo) \in Nat \ {0} /\ DOMAIN todo = 1..Len(todo)
  BY EmptySeq, LenProperties DEF TypeOK
<1>2. Head(todo) = todo[1] /\ 1 \in DOMAIN todo
  BY <1>1
<1>3. /\ Head(todo) \in IPs /\ Tail(todo) \in Seq(IPs) /\ Len(Tail(todo)) = Len(todo) - 1
      /\ \A k \in 1..Len(Tail(todo)) : Tail(todo)[k] = todo[k + 1]
  BY <1>1, HeadTailProperties
<1>4. DOMAIN Tail(todo) = 1..(Len(todo) - 1)
  BY <1>3, LenProperties
<1>5. \A k \in DOMAIN Tail(todo) : k + 1 \in DOMAIN todo /\ Tail(todo)[k] = todo[k + 1] /\ k + 1 # 1
  BY <1>1, <1>3, <1>4
<1>6. \A k \in DOMAIN todo : k # 1 => k - 1 \in DOMAIN Tail(todo) /\ Tail(todo)[k - 1] = todo[k]
  BY <1>1, <1>3, <1>4
<1>7. \A k, l \in DOMAIN todo : todo[k] = todo[l] => k = l
  BY DEF CleanerInv
<1>8. \A k, l \in DOMAIN Tail(todo) : Tail(todo)[k] = Tail(todo)[l] => k = l
  <2> SUFFICES ASSUME NEW k \in DOMAIN Tail(todo), NEW l \in DOMAIN Tail(todo),
                      Tail(todo)[k] = Tail(todo)[l]
               PROVE  k = l
    OBVIOUS
  <2>1. k + 1 = l + 1
    BY <1>5, <1>7
  <2> QED
    BY <1>4, <2>1
<1>9. ASSUME NEW i \in IPs
      PROVE  (\E k \in DOMAIN Tail(todo) : Tail(todo)[k] = i) <=> ToVisit(i) /\ i # Head(todo)
  <2>1. ASSUME NEW k \in DOMAIN Tail(todo), Tail(todo)[k] = i PROVE ToVisit(i) /\ i # Head(todo)
    <3>1. k + 1 \in DOMAIN todo /\ todo[k + 1] = i /\ k + 1 # 1
      BY <1>5, <2>1
    <3> QED
      BY <1>2, <1>7, <3>1 DEF ToVisit
  <2>2. ASSUME ToVisit(i), i # Head(todo) PROVE \E k \in DOMAIN Tail(todo) : Tail(todo)[k] = i
    <3>1. PICK k \in DOMAIN todo : todo[k] = i
      BY <2>2 DEF ToVisit
    <3>2. k # 1
      BY <1>2, <2>2, <3>1
    <3> QED
      BY <1>6, <3>1, <3>2
  <2> QED
    BY <2>1, <2>2
<1> QED
  BY <1>2, <1>3, <1>8, <1>9 DEF ToVisit

\* The keys a Range visits.
LEMMA KeysFacts ==
  ASSUME NEW keys \in SUBSET IPs, NEW s \in SetToSeqs(keys)
  PROVE  s \in Seq(IPs) /\ \A k, l \in DOMAIN s : s[k] = s[l] => k = l
<1>1. Cardinality(keys) \in Nat
  BY FiniteAssumption, FS_Subset, FS_CardinalityType
<1>2. /\ s \in [1..Cardinality(keys) -> keys]
      /\ \A k, l \in 1..Cardinality(keys) : k # l => s[k] # s[l]
  BY DEF SetToSeqs
<1>3. s \in [1..Cardinality(keys) -> IPs] /\ DOMAIN s = 1..Cardinality(keys)
  BY <1>2
<1>4. s \in Seq(IPs)
  BY <1>1, <1>3
<1> QED
  BY <1>2, <1>3, <1>4

LEMMA CleanerStep == TypeOK /\ CleanerInv /\ [Next]_vars => CleanerInv'
<1> SUFFICES ASSUME TypeOK, CleanerInv, [Next]_vars PROVE CleanerInv'
  OBVIOUS
<1>1. CASE UNCHANGED cleanerVars
  BY <1>1 DEF CleanerInv, cleanerVars
<1>2. CASE StartCleanup
  <2>1. PICK keys \in SUBSET IPs : todo' \in SetToSeqs(keys)
    BY <1>2 DEF StartCleanup
  <2>2. cleaner' = "ranging" /\ cleanAge' = 0
    BY <1>2 DEF StartCleanup
  <2> QED
    BY <2>1, <2>2, KeysFacts, Constants DEF CleanerInv
<1>3. CASE Inspect
  <2>1. \/ UNCHANGED <<todo, cleanAge>> /\ cleaner' = "deleting"
        \/ UNCHANGED <<cleaner, cleanAge>> /\ todo' = Tail(todo)
    BY <1>3 DEF Inspect
  <2>2. todo # << >> /\ cleaner = "ranging"
    BY <1>3 DEF Inspect
  <2> QED
    BY <2>1, <2>2, TodoFacts DEF CleanerInv
<1>4. CASE Delete
  <2>1. todo # << >> /\ cleaner = "deleting" /\ cleaner' = "ranging" /\ todo' = Tail(todo) /\ UNCHANGED cleanAge
    BY <1>4 DEF Delete, CleanerInv
  <2> QED
    BY <2>1, TodoFacts DEF CleanerInv
<1>5. CASE EndCleanup
  BY <1>5 DEF EndCleanup, CleanerInv
<1>6. CASE Tick
  <2>1. /\ UNCHANGED <<cleaner, todo>>
        /\ cleaner # "waiting" => cleanAge < MaxDelay
        /\ cleanAge' = IF cleanAge < Interval THEN cleanAge + 1 ELSE Interval
    BY <1>6 DEF Tick
  <2>2. cleanAge \in Int
    BY Constants DEF TypeOK
  <2>3. cleaner # "waiting" => cleanAge' <= MaxDelay
    BY <2>1, <2>2, Constants
  <2> QED
    BY <2>1, <2>3 DEF CleanerInv
<1> QED
  BY <1>1, <1>2, <1>3, <1>4, <1>5, <1>6
     DEF Next, Serve, LoadOrStore, Reject, Admit, Arrive, Cleanup, vars

LEMMA TypeStep == TypeOK /\ HandlerInv /\ CleanerInv /\ [Next]_vars => TypeOK'
<1> SUFFICES ASSUME TypeOK, HandlerInv, CleanerInv, [Next]_vars PROVE TypeOK'
  OBVIOUS
<1>1. ASSUME NEW h \in Handlers, NEW i \in ClientIPs, Arrive(h, i) PROVE TypeOK'
  BY <1>1, ClientIPFacts, Constants DEF Arrive, TypeOK, cleanerVars
<1>2. ASSUME NEW h \in Handlers, LoadOrStore(h) PROVE TypeOK'
  <2>1. CASE requestCounts[ip[h]] # None
    <3>1. ip[h] \in IPs
      BY <1>2 DEF LoadOrStore, TypeOK, HandlerInv
    <3> QED
      BY <1>2, <2>1, <3>1 DEF LoadOrStore, TypeOK, cleanerVars
  <2>2. CASE requestCounts[ip[h]] = None
    <3>1. Unused \in Trackers
      BY <1>2, <2>2, UnusedFacts DEF LoadOrStore
    <3>2. << >> \in Seq(Ages) /\ Len(<< >>) = 0 /\ 0 <= RequestsPerSecond
      BY EmptySeq, Constants
    <3>3. /\ requests' = [requests EXCEPT ![Unused] = << >>]
          /\ requestCounts' = [requestCounts EXCEPT ![ip[h]] = Unused]
          /\ tracker' = [tracker EXCEPT ![h] = Unused] /\ pc' = [pc EXCEPT ![h] = "holding"]
          /\ UNCHANGED <<ip, age, cleaner, cleanAge, todo, admitted>>
      BY <1>2, <2>2 DEF LoadOrStore, cleanerVars
    <3> QED
      BY <3>1, <3>2, <3>3 DEF TypeOK
  <2> QED
    BY <2>1, <2>2
<1>3. ASSUME NEW h \in Handlers, Reject(h) PROVE TypeOK'
  <2>1. pc[h] = "holding" /\ requests' = [requests EXCEPT ![tracker[h]] = ValidRequests(h)]
    BY <1>3 DEF Reject
  <2>2. /\ requests' \in [Trackers -> Seq(Ages)]
        /\ \A t \in Trackers : Len(requests'[t]) <= RequestsPerSecond
    BY <2>1, ValidFacts DEF TypeOK
  <2> QED
    BY <1>3, <2>2, Constants DEF Reject, Done, TypeOK, cleanerVars
<1>4. ASSUME NEW h \in Handlers, Admit(h) PROVE TypeOK'
  <2>1. /\ pc[h] = "holding" /\ Len(ValidRequests(h)) < RequestsPerSecond
        /\ requests' = [requests EXCEPT ![tracker[h]] = Append(ValidRequests(h), age[h])]
        /\ admitted' = [admitted EXCEPT ![ip[h]][0] = @ + 1]
    BY <1>4 DEF Admit
  <2>2. age[h] \in Ages
    BY <2>1, ValidFacts, Constants DEF Ages
  <2>3. /\ Append(ValidRequests(h), age[h]) \in Seq(Ages)
        /\ Len(Append(ValidRequests(h), age[h])) <= RequestsPerSecond
    BY <2>1, <2>2, ValidFacts, Constants, AppendProperties, LenProperties
  <2>4. /\ requests' \in [Trackers -> Seq(Ages)]
        /\ \A t \in Trackers : Len(requests'[t]) <= RequestsPerSecond
    BY <2>1, <2>3, ValidFacts DEF TypeOK
  <2>5. admitted' \in [IPs -> [Recent -> Nat]]
    <3>1. ip[h] \in IPs /\ 0 \in Recent /\ admitted[ip[h]][0] \in Nat
      BY <2>1, ValidFacts, Constants DEF Recent, TypeOK
    <3> QED
      BY <2>1, <3>1 DEF TypeOK
  <2> QED
    BY <1>4, <2>4, <2>5, Constants DEF Admit, Done, TypeOK, cleanerVars
<1>5. CASE StartCleanup
  <2>1. PICK keys \in SUBSET IPs : todo' \in SetToSeqs(keys)
    BY <1>5 DEF StartCleanup
  <2>2. todo' \in Seq(IPs)
    BY <2>1, KeysFacts
  <2> QED
    BY <1>5, <2>2, Constants DEF StartCleanup, TypeOK, handlerVars
<1>6. CASE Inspect
  <2>1. todo' \in Seq(IPs) /\ cleaner' \in {"waiting", "ranging", "deleting"}
    BY <1>6, TodoFacts DEF Inspect, TypeOK
  <2> QED
    BY <1>6, <2>1 DEF Inspect, TypeOK, handlerVars
<1>7. CASE Delete
  <2>1. todo # << >>
    BY <1>7 DEF Delete, CleanerInv
  <2>2. todo' \in Seq(IPs) /\ Head(todo) \in IPs
    BY <1>7, <2>1, TodoFacts DEF Delete
  <2> QED
    BY <1>7, <2>2 DEF Delete, TypeOK, handlerVars
<1>8. CASE EndCleanup
  BY <1>8 DEF EndCleanup, TypeOK, handlerVars
<1>9. CASE Tick
  <2>1. requests' \in [Trackers -> Seq(Ages)] /\ \A t \in Trackers : Len(requests'[t]) <= RequestsPerSecond
    <3>1. requests' = [t \in Trackers |->
             IF t \in Referenced THEN [k \in DOMAIN requests[t] |-> Older(requests[t][k])] ELSE << >>]
      BY <1>9 DEF Tick
    <3>2. ASSUME NEW t \in Trackers
          PROVE  requests'[t] \in Seq(Ages) /\ Len(requests'[t]) <= RequestsPerSecond
      <4>1. requests[t] \in Seq(Ages) /\ Len(requests[t]) <= RequestsPerSecond
        BY DEF TypeOK
      <4>2. << >> \in Seq(Ages) /\ Len(<< >>) = 0 /\ 0 <= RequestsPerSecond
        BY EmptySeq, Constants
      <4> QED
        BY <3>1, <4>1, <4>2, YoungerOlder
    <3>3. requests' \in [Trackers -> Seq(Ages)]
      BY <3>1, <3>2
    <3> QED
      BY <3>2, <3>3
  <2>2. age' \in [Handlers -> 0..MaxDelay]
    <3>1. age' = [h \in Handlers |-> IF pc[h] = "idle" THEN 0 ELSE age[h] + 1]
      BY <1>9 DEF Tick
    <3>2. ASSUME NEW h \in Handlers PROVE (IF pc[h] = "idle" THEN 0 ELSE age[h] + 1) \in 0..MaxDelay
      BY <1>9, Constants DEF Tick, TypeOK
    <3> QED
      BY <3>1, <3>2
  <2>3. cleanAge' \in 0..Interval
    BY <1>9, Constants DEF Tick, TypeOK
  <2>4. admitted' \in [IPs -> [Recent -> Nat]]
    <3>1. admitted' = [i \in IPs |-> [n \in Recent |-> IF n = 0 THEN 0 ELSE admitted[i][n - 1]]]
      BY <1>9 DEF Tick
    <3>2. ASSUME NEW i \in IPs, NEW n \in Recent, n # 0 PROVE admitted[i][n - 1] \in Nat
      <4>1. n - 1 \in Recent
        BY <3>2, Constants DEF Recent
      <4> QED
        BY <4>1 DEF TypeOK
    <3> QED
      BY <3>1, <3>2
  <2> QED
    BY <1>9, <2>1, <2>2, <2>3, <2>4 DEF Tick, TypeOK
<1>10. CASE UNCHANGED vars
  BY <1>10 DEF vars, handlerVars, cleanerVars, TypeOK
<1> QED
  BY <1>1, <1>2, <1>3, <1>4, <1>5, <1>6, <1>7, <1>8, <1>9, <1>10 DEF Next, Serve, Cleanup

-----------------------------------------------------------------------------
(* Which trackers are whose. *)

LEMMA InUses ==
  ASSUME NEW i, NEW t
  PROVE  t \in Uses(i) <=> /\ t # None
                           /\ t = requestCounts[i] \/ \E h \in Handlers : ip[h] = i /\ tracker[h] = t
BY DEF Uses

LEMMA UsesTracked ==
  ASSUME TypeOK, NEW i \in IPs, NEW t \in Uses(i)
  PROVE  t \in Trackers /\ t \in Referenced
<1>1. t # None /\ (t = requestCounts[i] \/ \E h \in Handlers : tracker[h] = t)
  BY InUses
<1>2. requestCounts[i] \in Trackers \cup {None} /\ \A h \in Handlers : tracker[h] \in Trackers \cup {None}
  BY DEF TypeOK
<1> QED
  BY <1>1, <1>2 DEF Referenced

\* A step gives an address no tracker but a new one.
LEMMA UsesStep ==
  ASSUME TypeOK, HandlerInv, [Next]_vars, NEW i \in IPs, NEW t \in Uses(i)'
  PROVE  \/ t \in Uses(i)
         \/ \E h \in Handlers :
              /\ LoadOrStore(h) /\ pc[h] = "arrived"
              /\ requestCounts[ip[h]] = None /\ ip[h] = i /\ t = Unused
<1>1. t # None /\ (t = requestCounts'[i] \/ \E h \in Handlers : ip'[h] = i /\ tracker'[h] = t)
  BY DEF Uses
<1>2. ASSUME NEW h \in Handlers, NEW j \in ClientIPs, Arrive(h, j) PROVE t \in Uses(i)
  <2>1. tracker[h] = None /\ UNCHANGED <<requestCounts, tracker>>
    BY <1>2 DEF Arrive, HandlerInv
  <2>2. \A g \in Handlers : tracker[g] # None => ip'[g] = ip[g]
    BY <1>2, <2>1 DEF Arrive, TypeOK
  <2> QED
    BY <1>1, <2>1, <2>2, InUses
<1>3. ASSUME NEW h \in Handlers, LoadOrStore(h)
      PROVE  t \in Uses(i) \/ (pc[h] = "arrived" /\ requestCounts[ip[h]] = None /\ ip[h] = i /\ t = Unused)
  <2>1. pc[h] = "arrived" /\ UNCHANGED ip /\ ip[h] \in IPs
    BY <1>3 DEF LoadOrStore, TypeOK, HandlerInv
  <2>2. CASE requestCounts[ip[h]] # None
    <3>1. UNCHANGED requestCounts /\ tracker' = [tracker EXCEPT ![h] = requestCounts[ip[h]]]
      BY <1>3, <2>2 DEF LoadOrStore
    <3>2. \A g \in Handlers : tracker'[g] = IF g = h THEN requestCounts[ip[h]] ELSE tracker[g]
      BY <3>1 DEF TypeOK
    <3> QED
      BY <1>1, <2>1, <3>1, <3>2, InUses
  <2>3. CASE requestCounts[ip[h]] = None
    <3>1. /\ requestCounts' = [requestCounts EXCEPT ![ip[h]] = Unused]
          /\ tracker' = [tracker EXCEPT ![h] = Unused]
      BY <1>3, <2>3 DEF LoadOrStore
    <3>2. /\ \A g \in Handlers : tracker'[g] = IF g = h THEN Unused ELSE tracker[g]
          /\ requestCounts'[i] = IF ip[h] = i THEN Unused ELSE requestCounts[i]
      BY <2>1, <3>1 DEF TypeOK
    <3> QED
      BY <1>1, <2>1, <2>3, <3>2, InUses
  <2> QED
    BY <2>2, <2>3
<1>4. ASSUME NEW h \in Handlers, Reject(h) \/ Admit(h) PROVE t \in Uses(i)
  <2>1. UNCHANGED requestCounts /\ Done(h)
    BY <1>4 DEF Reject, Admit
  <2>2. \A g \in Handlers : tracker'[g] # None => tracker'[g] = tracker[g] /\ ip'[g] = ip[g]
    BY <2>1 DEF Done, TypeOK
  <2> QED
    BY <1>1, <2>1, <2>2, InUses
<1>5. CASE Cleanup
  <2>1. UNCHANGED <<ip, tracker>> /\ (requestCounts'[i] = requestCounts[i] \/ requestCounts'[i] = None)
    BY <1>5 DEF Cleanup, StartCleanup, Inspect, Delete, EndCleanup, handlerVars, TypeOK
  <2> QED
    BY <1>1, <2>1, InUses
<1>6. CASE Tick \/ UNCHANGED vars
  <2>1. UNCHANGED <<ip, tracker, requestCounts>>
    BY <1>6 DEF Tick, vars, handlerVars
  <2> QED
    BY <1>1, <2>1, InUses
<1> QED
  BY <1>2, <1>3, <1>4, <1>5, <1>6 DEF Next, Serve

LEMMA OwnStep == TypeOK /\ HandlerInv /\ OwnInv /\ [Next]_vars => OwnInv'
<1> SUFFICES ASSUME TypeOK, HandlerInv, OwnInv, [Next]_vars, NEW i \in IPs, NEW j \in IPs, i # j,
                    NEW t, t \in Uses(i)', t \in Uses(j)'
             PROVE  FALSE
  BY DEF OwnInv
<1>1. \A k \in IPs : Unused \in Uses(k) => Unused \in Referenced
  BY UsesTracked
<1>2. ASSUME NEW h \in Handlers, pc[h] = "arrived", requestCounts[ip[h]] = None
      PROVE  Unused \notin Referenced
  BY <1>2, UnusedFacts
<1>3. ~(t \in Uses(i) /\ t \in Uses(j))
  BY DEF OwnInv
<1>4. /\ t \in Uses(i) \/ (t = Unused /\ \E h \in Handlers :
           LoadOrStore(h) /\ pc[h] = "arrived" /\ requestCounts[ip[h]] = None /\ ip[h] = i)
      /\ t \in Uses(j) \/ (t = Unused /\ \E h \in Handlers :
           LoadOrStore(h) /\ pc[h] = "arrived" /\ requestCounts[ip[h]] = None /\ ip[h] = j)
  BY UsesStep
<1>5. PICK h \in Handlers : /\ LoadOrStore(h) /\ pc[h] = "arrived" /\ requestCounts[ip[h]] = None
                            /\ ip[h] = i \/ ip[h] = j
  BY <1>3, <1>4
<1>6. t = Unused /\ t \notin Uses(i) /\ t \notin Uses(j)
  BY <1>1, <1>2, <1>3, <1>4, <1>5
<1>7. requestCounts'[i] = t /\ requestCounts'[j] = t
  BY <1>4, <1>6 DEF LoadOrStore, TypeOK
<1>8. requestCounts'[i] = requestCounts[i] \/ requestCounts'[j] = requestCounts[j]
  <2>1. requestCounts' = [requestCounts EXCEPT ![ip[h]] = Unused]
    BY <1>5 DEF LoadOrStore
  <2> QED
    BY <2>1 DEF TypeOK
<1>9. t # None
  BY DEF Uses
<1> QED
  BY <1>6, <1>7, <1>8, <1>9, InUses

-----------------------------------------------------------------------------
(* Handlers that the cleanup goroutine has overtaken. *)

LEMMA DetachedFacts ==
  ASSUME TypeOK, HandlerInv, NEW h \in Handlers, Detached(h)
  PROVE  pc[h] = "holding" /\ ip[h] \in IPs /\ tracker[h] \in Trackers /\ age[h] \in 0..MaxDelay
BY DEF Detached, HandlerInv, TypeOK

\* A handler is overtaken by the deletion of the key it has loaded, and in no
\* other way.
LEMMA DetachedBefore ==
  ASSUME TypeOK, HandlerInv, CleanerInv, [Next]_vars, NEW h \in Handlers, Detached(h)'
  PROVE  /\ tracker'[h] = tracker[h] /\ ip'[h] = ip[h]
         /\ \/ Detached(h)
            \/ Delete /\ ip[h] = Head(todo) /\ tracker[h] = requestCounts[ip[h]]
<1>1. tracker'[h] # None /\ tracker'[h] # requestCounts'[ip'[h]]
  BY DEF Detached
<1>2. ASSUME NEW g \in Handlers, NEW j \in ClientIPs, Arrive(g, j)
      PROVE  tracker'[h] = tracker[h] /\ ip'[h] = ip[h] /\ Detached(h)
  <2>1. tracker[g] = None /\ UNCHANGED <<requestCounts, tracker>> /\ ip' = [ip EXCEPT ![g] = j]
    BY <1>2 DEF Arrive, HandlerInv
  <2> QED
    BY <1>1, <2>1 DEF TypeOK, Detached
<1>3. ASSUME NEW g \in Handlers, LoadOrStore(g)
      PROVE  tracker'[h] = tracker[h] /\ ip'[h] = ip[h] /\ Detached(h)
  <2>1. pc[g] = "arrived" /\ UNCHANGED ip /\ ip[g] \in IPs
    BY <1>3 DEF LoadOrStore, TypeOK, HandlerInv
  <2>2. tracker'[g] = requestCounts'[ip'[g]]
    BY <1>3, <2>1 DEF LoadOrStore, TypeOK
  <2>3. h # g
    BY <1>1, <2>2
  <2>4. tracker'[h] = tracker[h]
    BY <1>3, <2>3 DEF LoadOrStore, TypeOK
  <2>5. requestCounts[ip[h]] = requestCounts'[ip[h]] \/ requestCounts[ip[h]] = None
    <3>1. UNCHANGED requestCounts \/ (requestCounts[ip[g]] = None
            /\ requestCounts' = [requestCounts EXCEPT ![ip[g]] = Unused])
      BY <1>3 DEF LoadOrStore
    <3>2. ip[h] \in IPs
      BY <1>1, <2>4 DEF HandlerInv, TypeOK
    <3> QED
      BY <2>1, <3>1, <3>2 DEF TypeOK
  <2> QED
    BY <1>1, <2>1, <2>4, <2>5 DEF Detached
<1>4. ASSUME NEW g \in Handlers, Reject(g) \/ Admit(g)
      PROVE  tracker'[h] = tracker[h] /\ ip'[h] = ip[h] /\ Detached(h)
  <2>1. UNCHANGED requestCounts /\ Done(g)
    BY <1>4 DEF Reject, Admit
  <2>2. tracker'[h] = tracker[h] /\ ip'[h] = ip[h]
    BY <1>1, <2>1 DEF Done, TypeOK
  <2> QED
    BY <1>1, <2>1, <2>2 DEF Detached
<1>5. CASE Delete
  <2>1. UNCHANGED <<ip, tracker>> /\ requestCounts' = [requestCounts EXCEPT ![Head(todo)] = None]
    BY <1>5 DEF Delete, handlerVars
  <2>2. ip[h] # Head(todo) => requestCounts'[ip[h]] = requestCounts[ip[h]]
    BY <2>1 DEF TypeOK
  <2> QED
    BY <1>1, <1>5, <2>1, <2>2 DEF Detached
<1>6. CASE StartCleanup \/ Inspect \/ EndCleanup \/ Tick \/ UNCHANGED vars
  <2>1. UNCHANGED <<ip, tracker, requestCounts>>
    BY <1>6 DEF StartCleanup, Inspect, EndCleanup, Tick, handlerVars, vars
  <2> QED
    BY <1>1, <2>1 DEF Detached
<1> QED
  BY <1>2, <1>3, <1>4, <1>5, <1>6 DEF Next, Serve, Cleanup

LEMMA ElapsedType == TypeOK => \A i \in IPs : Elapsed(i) \in Nat
BY Constants DEF TypeOK, Elapsed

\* The cleanup begins only when so many ticks have passed that nothing of the
\* last one matters.
LEMMA ElapsedStart ==
  ASSUME TypeOK, CleanerInv, StartCleanup, NEW i \in IPs
  PROVE  Elapsed(i) >= Window + MaxDelay
<1>1. todo = << >> /\ cleanAge >= Interval - MaxDelay /\ cleanAge \in Nat
  BY DEF StartCleanup, CleanerInv, TypeOK
<1>2. ~ToVisit(i)
  BY <1>1 DEF ToVisit
<1> QED
  BY <1>1, <1>2, Constants DEF Elapsed

\* Besides, only time makes more of it.
LEMMA ElapsedStep ==
  ASSUME TypeOK, HandlerInv, CleanerInv, [Next]_vars, NEW i \in IPs, ~StartCleanup
  PROVE  /\ Elapsed(i)' <= Elapsed(i) \/ (Tick /\ Elapsed(i)' <= Elapsed(i) + 1)
         /\ Delete /\ i = Head(todo) => Elapsed(i)' <= MaxDelay /\ Elapsed(i) = Window + MaxDelay
<1>1. cleanAge \in 0..Interval
  BY DEF TypeOK
<1>2. CASE UNCHANGED <<todo, cleanAge>> /\ ~Delete
  <2>1. Elapsed(i)' = Elapsed(i)
    BY <1>2 DEF Elapsed, ToVisit
  <2> QED
    BY <1>2, <2>1, ElapsedType
<1>3. CASE cleaner # "waiting" /\ todo # << >> /\ todo' = Tail(todo) /\ UNCHANGED cleanAge
  <2>1. /\ cleanAge <= MaxDelay
        /\ ToVisit(i)' => ToVisit(i) /\ i # Head(todo)
        /\ i # Head(todo) => (ToVisit(i) => ToVisit(i)')
        /\ ToVisit(Head(todo))
    BY <1>3, TodoFacts DEF CleanerInv, ToVisit
  <2> QED
    BY <1>1, <1>3, <2>1, Constants DEF Elapsed
<1>4. CASE Tick
  <2>1. UNCHANGED todo /\ cleanAge' <= cleanAge + 1 /\ cleanAge' \in Int
    BY <1>1, <1>4, Constants DEF Tick
  <2>2. ToVisit(i)' = ToVisit(i)
    BY <2>1 DEF ToVisit
  <2>3. ~Delete
    BY <1>4, <2>1 DEF Tick, Delete, CleanerInv
  <2> QED
    BY <1>1, <1>4, <2>1, <2>2, <2>3, Constants DEF Elapsed
<1>5. CASE \E h \in Handlers : Serve(h) \/ \E j \in ClientIPs : Arrive(h, j)
  <2>1. UNCHANGED <<cleaner, todo, cleanAge>>
    BY <1>5 DEF Serve, LoadOrStore, Reject, Admit, Arrive, cleanerVars
  <2>2. ~Delete
    BY <2>1 DEF Delete
  <2> QED
    BY <1>2, <2>1, <2>2
<1>6. CASE Inspect
  <2>1. cleaner = "ranging" /\ todo # << >> /\ UNCHANGED cleanAge /\ (UNCHANGED todo \/ todo' = Tail(todo))
    BY <1>6 DEF Inspect
  <2>2. ~Delete
    BY <2>1 DEF Delete
  <2> QED
    BY <1>2, <1>3, <2>1, <2>2
<1>7. CASE Delete
  <2>1. cleaner = "deleting" /\ todo # << >> /\ UNCHANGED cleanAge /\ todo' = Tail(todo)
    BY <1>7 DEF Delete, CleanerInv
  <2> QED
    BY <1>3, <2>1
<1>8. CASE EndCleanup \/ UNCHANGED vars
  <2>1. UNCHANGED <<todo, cleanAge>>
    BY <1>8 DEF EndCleanup, vars, cleanerVars
  <2>2. ~Delete
    BY <1>8 DEF EndCleanup, Delete, vars, cleanerVars
  <2> QED
    BY <1>2, <2>1, <2>2
<1> QED
  BY <1>4, <1>5, <1>6, <1>7, <1>8 DEF Next, Cleanup

LEMMA DetachedStep ==
  TypeOK /\ HandlerInv /\ CleanerInv /\ DetachedInv /\ [Next]_vars => DetachedInv'
<1> SUFFICES ASSUME TypeOK, HandlerInv, CleanerInv, DetachedInv, [Next]_vars PROVE DetachedInv'
  OBVIOUS
<1>1. ASSUME NEW h \in Handlers, Detached(h)'
      PROVE  /\ tracker'[h] = tracker[h] /\ tracker[h] # None /\ pc[h] = "holding"
             /\ ip'[h] = ip[h] /\ ip[h] \in IPs /\ age[h] \in 0..MaxDelay
             /\ Detached(h) \/ (Delete /\ ip[h] = Head(todo) /\ tracker[h] = requestCounts[ip[h]])
  <2>1. tracker'[h] # None
    BY <1>1 DEF Detached
  <2>2. tracker'[h] = tracker[h] /\ ip'[h] = ip[h]
        /\ (Detached(h) \/ (Delete /\ ip[h] = Head(todo) /\ tracker[h] = requestCounts[ip[h]]))
    BY <1>1, DetachedBefore
  <2> QED
    BY <2>1, <2>2 DEF HandlerInv, TypeOK
<1>2. ASSUME NEW h \in Handlers, Detached(h)'
      PROVE  age'[h] \in Int /\ age'[h] >= age[h] /\ (Tick => age'[h] = age[h] + 1)
  <2>1. pc[h] = "holding" /\ age[h] \in Int /\ tracker'[h] # None
    BY <1>1, <1>2, Constants
  <2>2. ASSUME NEW g \in Handlers, NEW i \in ClientIPs, Arrive(g, i) PROVE age'[h] = age[h]
    BY <2>1, <2>2 DEF Arrive, TypeOK
  <2>3. ASSUME NEW g \in Handlers, Reject(g) \/ Admit(g) PROVE age'[h] = age[h]
    BY <2>1, <2>3 DEF Reject, Admit, Done, TypeOK
  <2>4. CASE UNCHANGED age
    BY <2>1, <2>4 DEF Tick
  <2>5. Tick => age'[h] = age[h] + 1
    BY <2>1 DEF Tick
  <2>6. Tick \/ age'[h] = age[h]
    BY <2>2, <2>3 DEF Next, Serve, LoadOrStore, Cleanup, StartCleanup, Inspect, Delete, EndCleanup,
                      handlerVars, vars
  <2> QED
    BY <2>1, <2>5, <2>6
<1>3. ASSUME NEW h \in Handlers, Detached(h)' PROVE ~StartCleanup
  <2> SUFFICES ASSUME StartCleanup PROVE FALSE
    OBVIOUS
  <2>1. ~Delete
    BY DEF StartCleanup, Delete
  <2>2. Detached(h) /\ ip[h] \in IPs /\ age[h] \in 0..MaxDelay
    BY <1>1, <1>3, <2>1
  <2>3. Elapsed(ip[h]) <= age[h] + MaxDelay
    BY <2>2 DEF DetachedInv
  <2>4. Elapsed(ip[h]) >= Window + MaxDelay /\ Elapsed(ip[h]) \in Nat
    BY <2>2, ElapsedStart, ElapsedType
  <2> QED
    BY <2>2, <2>3, <2>4, Constants
<1>4. ASSUME NEW h \in Handlers, Detached(h)', Delete, ip[h] = Head(todo) PROVE ~Detached(h)
  <2> SUFFICES ASSUME Detached(h) PROVE FALSE
    OBVIOUS
  <2>1. ip[h] \in IPs /\ age[h] \in 0..MaxDelay
    BY <1>1, <1>4
  <2>2. Elapsed(ip[h]) <= age[h] + MaxDelay
    BY DEF DetachedInv
  <2>3. Elapsed(ip[h]) = Window + MaxDelay
    BY <1>3, <1>4, <2>1, ElapsedStep
  <2> QED
    BY <2>1, <2>2, <2>3, Constants
<1>5. ASSUME NEW h \in Handlers, Detached(h)' PROVE (Elapsed(ip[h]) <= age[h] + MaxDelay)'
  <2>1. PICK i \in IPs : i = ip[h]
    BY <1>1, <1>5
  <2>2. /\ Elapsed(i)' <= Elapsed(i) \/ (Tick /\ Elapsed(i)' <= Elapsed(i) + 1)
        /\ Delete /\ i = Head(todo) => Elapsed(i)' <= MaxDelay
    BY <1>3, <1>5, ElapsedStep
  <2>3. Elapsed(i) \in Nat /\ Elapsed(i)' \in Nat
    <3>1. TypeOK'
      BY TypeStep
    <3>2. \A j \in IPs : Elapsed(j)' \in Nat
      BY <3>1, Constants DEF TypeOK, Elapsed
    <3> QED
      BY <3>2, ElapsedType
  <2>4. Detached(h) => Elapsed(i) <= age[h] + MaxDelay
    BY <2>1 DEF DetachedInv
  <2>5. age[h] \in 0..MaxDelay /\ age'[h] \in Int /\ age'[h] >= age[h] /\ (Tick => age'[h] = age[h] + 1)
    BY <1>1, <1>2, <1>5
  <2>6. Detached(h) \/ (Delete /\ i = Head(todo))
    BY <1>1, <1>5, <2>1
  <2>7. Elapsed(i)' <= age'[h] + MaxDelay
    BY <2>2, <2>3, <2>4, <2>5, <2>6, Constants
  <2> QED
    BY <1>1, <1>5, <2>1, <2>7
<1>6. ASSUME NEW g \in Handlers, NEW h \in Handlers, Detached(g)', Detached(h)', ip'[g] = ip'[h]
      PROVE  tracker'[g] = tracker'[h]
  <2>1. /\ ip[g] = ip[h] /\ tracker'[g] = tracker[g] /\ tracker'[h] = tracker[h]
        /\ Detached(g) \/ (Delete /\ ip[g] = Head(todo) /\ tracker[g] = requestCounts[ip[g]])
        /\ Detached(h) \/ (Delete /\ ip[h] = Head(todo) /\ tracker[h] = requestCounts[ip[h]])
    BY <1>1, <1>6
  <2>2. CASE Detached(g) /\ Detached(h)
    BY <2>1, <2>2 DEF DetachedInv
  <2>3. CASE ~Detached(g) \/ ~Detached(h)
    BY <1>4, <1>6, <2>1, <2>3
  <2> QED
    BY <2>2, <2>3
<1> QED
  BY <1>5, <1>6 DEF DetachedInv

-----------------------------------------------------------------------------
(* What the steps do to the counts. *)

LEMMA YoungerZero == \A s \in Seq(Ages) : Younger(s, 0) = 0
<1> SUFFICES ASSUME NEW s \in Seq(Ages) PROVE Younger(s, 0) = 0
  OBVIOUS
<1>1. DOMAIN s = 1..Len(s) /\ \A k \in 1..Len(s) : s[k] \in Ages
  BY LenProperties, ElementOfSeq
<1>2. {k \in DOMAIN s : s[k] < 0} = {}
  BY <1>1, Constants DEF Ages
<1> QED
  BY <1>2, FS_EmptySet DEF Younger

LEMMA CountType ==
  ASSUME TypeOK, NEW n \in Int
  PROVE  /\ \A t \in Trackers : Count(t, n) \in 0..RequestsPerSecond /\ Count(t, 0) = 0
         /\ \A i \in IPs : Counted(i, n) \in 0..RequestsPerSecond
<1>1. ASSUME NEW t \in Trackers PROVE Count(t, n) \in 0..RequestsPerSecond /\ Count(t, 0) = 0
  <2>1. requests[t] \in Seq(Ages) /\ Len(requests[t]) <= RequestsPerSecond /\ Len(requests[t]) \in Nat
    BY LenProperties DEF TypeOK
  <2>2. Younger(requests[t], n) \in 0..Len(requests[t]) /\ Younger(requests[t], 0) = 0
    BY <2>1, YoungerType, YoungerZero
  <2> QED
    BY <2>1, <2>2, Constants DEF Count
<1>2. \A i \in IPs : requestCounts[i] = None \/ requestCounts[i] \in Trackers
  BY DEF TypeOK
<1> QED
  BY <1>1, <1>2, Constants DEF Counted

LEMMA AdmittedType ==
  TypeOK => \A i \in IPs : /\ AdmittedSince(i, 0) = 0
                           /\ \A n \in 0..(Window + MaxDelay) : AdmittedSince(i, n) \in Nat
BY PairsFinite, TotalNone DEF AdmittedSince, TypeOK

LEMMA AdmitEffect ==
  ASSUME TypeOK, HandlerInv, NEW h \in Handlers, Admit(h)
  PROVE  \E t \in Trackers, i \in IPs :
           /\ t = tracker[h] /\ i = ip[h] /\ age[h] \in 0..MaxDelay
           /\ \A u \in Trackers : u # t => \A n \in Int : Count(u, n)' = Count(u, n)
           /\ \A n \in Int : Count(t, n)' <= Count(t, n) + (IF age[h] < n THEN 1 ELSE 0)
           /\ \A n \in Int : n <= Window =>
                /\ Count(t, n)' = Count(t, n) + (IF age[h] < n THEN 1 ELSE 0)
                /\ Count(t, n) < RequestsPerSecond
           /\ \A n \in 1..(Window + MaxDelay) :
                /\ AdmittedSince(i, n)' = AdmittedSince(i, n) + 1
                /\ \A j \in IPs : j # i => AdmittedSince(j, n)' = AdmittedSince(j, n)
<1>1. /\ pc[h] = "holding" /\ Len(ValidRequests(h)) < RequestsPerSecond
      /\ requests' = [requests EXCEPT ![tracker[h]] = Append(ValidRequests(h), age[h])]
      /\ admitted' = [admitted EXCEPT ![ip[h]][0] = @ + 1]
  BY DEF Admit
<1>2. PICK t, i : t = tracker[h] /\ i = ip[h]
  OBVIOUS
<1>3. PICK s : s = ValidRequests(h)
  OBVIOUS
<1>4. PICK a : a = age[h]
  OBVIOUS
<1>5. /\ t \in Trackers /\ i \in IPs /\ a \in 0..MaxDelay /\ s \in Seq(Ages)
      /\ \A n \in Int : Younger(s, n) <= Count(t, n) /\ (n <= Window => Younger(s, n) = Count(t, n))
  BY <1>1, <1>2, <1>3, <1>4, ValidFacts
<1>6. a \in Ages /\ Len(s) \in Nat /\ Len(s) < RequestsPerSecond
  BY <1>1, <1>3, <1>5, Constants, LenProperties DEF Ages
<1>7. requests'[t] = Append(s, a) /\ \A u \in Trackers : u # t => requests'[u] = requests[u]
  BY <1>1, <1>2, <1>3, <1>4, <1>5 DEF TypeOK
<1>8. \A u \in Trackers : u # t => \A n \in Int : Count(u, n)' = Count(u, n)
  BY <1>7 DEF Count
<1>9. ASSUME NEW n \in Int
      PROVE  /\ Count(t, n)' <= Count(t, n) + (IF a < n THEN 1 ELSE 0)
             /\ n <= Window => /\ Count(t, n)' = Count(t, n) + (IF a < n THEN 1 ELSE 0)
                               /\ Count(t, n) < RequestsPerSecond
  <2>1. Count(t, n)' = Younger(s, n) + (IF a < n THEN 1 ELSE 0)
    BY <1>5, <1>6, <1>7, YoungerAppend DEF Count
  <2>2. Younger(s, n) \in 0..Len(s)
    BY <1>5, YoungerType
  <2>3. Count(t, n) \in Nat
    BY <1>5, CountType, Constants
  <2> QED
    BY <1>5, <1>6, <2>1, <2>2, <2>3, Constants
<1>10. ASSUME NEW n \in 1..(Window + MaxDelay)
       PROVE  /\ AdmittedSince(i, n)' = AdmittedSince(i, n) + 1
              /\ \A j \in IPs : j # i => AdmittedSince(j, n)' = AdmittedSince(j, n)
  <2>1. admitted[i] \in [Recent -> Nat]
    BY <1>5 DEF TypeOK
  <2>2. /\ admitted'[i] = [admitted[i] EXCEPT ![0] = @ + 1]
        /\ \A j \in IPs : j # i => admitted'[j] = admitted[j]
    BY <1>1, <1>2, <1>5 DEF TypeOK
  <2>3. Total(admitted'[i], n) = Total(admitted[i], n) + 1
    BY <2>1, <2>2, TotalMore
  <2> QED
    BY <2>2, <2>3 DEF AdmittedSince
<1> QED
  BY <1>2, <1>4, <1>5, <1>8, <1>9, <1>10

LEMMA TickEffect ==
  ASSUME TypeOK, Tick
  PROVE  /\ UNCHANGED <<requestCounts, ip, tracker, todo>>
         /\ \A t \in Trackers \cap Referenced : \A n \in 1..Oldest : Count(t, n)' = Count(t, n - 1)
         /\ \A i \in IPs, n \in 1..(Window + MaxDelay) : AdmittedSince(i, n)' = AdmittedSince(i, n - 1)
<1>1. ASSUME NEW t \in Trackers \cap Referenced, NEW n \in 1..Oldest
      PROVE  Count(t, n)' = Count(t, n - 1)
  <2>1. requests'[t] = [k \in DOMAIN requests[t] |-> Older(requests[t][k])] /\ requests[t] \in Seq(Ages)
    BY DEF Tick, TypeOK
  <2> QED
    BY <2>1, YoungerOlder DEF Count
<1>2. ASSUME NEW i \in IPs, NEW n \in 1..(Window + MaxDelay)
      PROVE  AdmittedSince(i, n)' = AdmittedSince(i, n - 1)
  <2>1. /\ admitted'[i] = [m \in Recent |-> IF m = 0 THEN 0 ELSE admitted[i][m - 1]]
        /\ admitted[i] \in [Recent -> Nat]
    BY DEF Tick, TypeOK
  <2> QED
    BY <2>1, TotalShifted DEF AdmittedSince
<1> QED
  BY <1>1, <1>2 DEF Tick

\* The other steps let nothing through; what they take from a tracker is too old
\* to matter.
LEMMA QuietEffect ==
  ASSUME TypeOK, HandlerInv, [Next]_vars, ~Tick, \A h \in Handlers : ~Admit(h)
  PROVE  /\ UNCHANGED admitted
         /\ \A t \in Trackers \cap Referenced, n \in Int :
              Count(t, n)' <= Count(t, n) /\ (n <= Window => Count(t, n)' = Count(t, n))
<1> DEFINE Kept == \A t \in Trackers \cap Referenced, n \in Int :
              Count(t, n)' <= Count(t, n) /\ (n <= Window => Count(t, n)' = Count(t, n))
<1>1. \A t \in Trackers, n \in Int : Count(t, n) \in Int
  BY CountType, Constants
<1>2. ASSUME \A t \in Trackers \cap Referenced : requests'[t] = requests[t] PROVE Kept
  <2>1. \A t \in Trackers \cap Referenced, n \in Int : Count(t, n)' = Count(t, n)
    BY <1>2 DEF Count
  <2> QED
    BY <1>1, <2>1
<1>3. ASSUME NEW h \in Handlers, LoadOrStore(h) PROVE UNCHANGED admitted /\ Kept
  <2>1. UNCHANGED requests \/ (/\ pc[h] = "arrived" /\ requestCounts[ip[h]] = None
                                /\ requests' = [requests EXCEPT ![Unused] = << >>])
    BY <1>3 DEF LoadOrStore
  <2>2. \A t \in Trackers \cap Referenced : requests'[t] = requests[t]
    BY <2>1, UnusedFacts DEF TypeOK
  <2> QED
    BY <1>2, <1>3, <2>2 DEF LoadOrStore
<1>4. ASSUME NEW h \in Handlers, Reject(h) PROVE UNCHANGED admitted /\ Kept
  <2>1. pc[h] = "holding" /\ requests' = [requests EXCEPT ![tracker[h]] = ValidRequests(h)]
    BY <1>4 DEF Reject
  <2>2. ASSUME NEW t \in Trackers, NEW n \in Int
        PROVE  Count(t, n)' <= Count(t, n) /\ (n <= Window => Count(t, n)' = Count(t, n))
    <3>1. CASE t = tracker[h]
      <4>1. requests'[t] = ValidRequests(h)
        BY <2>1, <3>1 DEF TypeOK
      <4>2. Count(t, n)' = Younger(ValidRequests(h), n)
        BY <4>1 DEF Count
      <4> QED
        BY <2>1, <3>1, <4>2, ValidFacts
    <3>2. CASE t # tracker[h]
      <4>1. requests'[t] = requests[t]
        BY <2>1, <3>2 DEF TypeOK
      <4>2. Count(t, n)' = Count(t, n)
        BY <4>1 DEF Count
      <4> QED
        BY <1>1, <4>2
    <3> QED
      BY <3>1, <3>2
  <2> QED
    BY <1>4, <2>2 DEF Reject
<1>5. CASE \E h \in Handlers, i \in ClientIPs : Arrive(h, i)
  BY <1>2, <1>5 DEF Arrive
<1>6. CASE Cleanup \/ UNCHANGED vars
  BY <1>2, <1>6 DEF Cleanup, StartCleanup, Inspect, Delete, EndCleanup, vars
<1> HIDE DEF Kept
<1> QED
  BY <1>3, <1>4, <1>5, <1>6 DEF Next, Serve, Kept

LEMMA CountTypeNext ==
  ASSUME TypeOK', NEW n \in Int
  PROVE  /\ \A t \in Trackers : Count(t, n)' \in 0..RequestsPerSecond
         /\ \A i \in IPs : Counted(i, n)' \in 0..RequestsPerSecond
<1>1. ASSUME NEW t \in Trackers PROVE Count(t, n)' \in 0..RequestsPerSecond
  <2>1. /\ requests'[t] \in Seq(Ages) /\ Len(requests'[t]) <= RequestsPerSecond
        /\ Len(requests'[t]) \in Nat
    BY LenProperties DEF TypeOK
  <2>2. Younger(requests'[t], n) \in 0..Len(requests'[t])
    BY <2>1, YoungerType
  <2> QED
    BY <2>1, <2>2, Constants DEF Count
<1>2. \A i \in IPs : requestCounts'[i] = None \/ requestCounts'[i] \in Trackers
  BY DEF TypeOK
<1>3. \A i \in IPs : requestCounts'[i] # None => Counted(i, n)' = Count(requestCounts[i], n)'
  BY DEF Counted
<1>4. \A i \in IPs : requestCounts'[i] = None => Counted(i, n)' = 0
  BY DEF Counted
<1>5. \A i \in IPs : requestCounts'[i] \in Trackers => Count(requestCounts[i], n)' \in 0..RequestsPerSecond
  BY <1>1 DEF Count
<1> QED
  BY <1>1, <1>2, <1>3, <1>4, <1>5, Constants

\* What is counted for an address stays so until its key is deleted.
LEMMA CountedQuiet ==
  ASSUME TypeOK, HandlerInv, CleanerInv, [Next]_vars, ~Tick, \A h \in Handlers : ~Admit(h),
         NEW i \in IPs, ~(Delete /\ i = Head(todo)), NEW n \in Int, n <= Window
  PROVE  Counted(i, n)' = Counted(i, n)
<1>1. CASE requestCounts'[i] = requestCounts[i]
  <2>1. PICK t : t = requestCounts[i]
    OBVIOUS
  <2>2. CASE t = None
    BY <1>1, <2>1, <2>2 DEF Counted
  <2>3. CASE t # None
    <3>1. t \in Trackers \cap Referenced
      BY <2>1, <2>3 DEF TypeOK, Referenced
    <3>2. Count(t, n)' = Count(t, n)
      BY <3>1, QuietEffect
    <3>3. Counted(i, n) = Count(t, n) /\ Counted(i, n)' = Count(t, n)'
      BY <1>1, <2>1, <2>3 DEF Counted, Count
    <3> QED
      BY <3>2, <3>3
  <2> QED
    BY <2>2, <2>3
<1>2. CASE requestCounts'[i] # requestCounts[i]
  <2>1. \/ \E h \in Handlers : LoadOrStore(h)
        \/ Delete
    BY <1>2 DEF Next, Serve, Reject, Arrive, Cleanup, StartCleanup, Inspect, EndCleanup, vars
  <2>2. ~Delete
    BY <1>2 DEF Delete, TypeOK
  <2>3. PICK h \in Handlers : LoadOrStore(h)
    BY <2>1, <2>2
  <2>4. /\ pc[h] = "arrived" /\ requestCounts[ip[h]] = None
        /\ requestCounts' = [requestCounts EXCEPT ![ip[h]] = Unused]
        /\ requests' = [requests EXCEPT ![Unused] = << >>]
    BY <1>2, <2>3 DEF LoadOrStore
  <2>5. ip[h] = i /\ requestCounts[i] = None /\ requestCounts'[i] = Unused /\ Unused \in Trackers
    BY <1>2, <2>4, UnusedFacts DEF TypeOK
  <2>6. requests'[Unused] = << >> /\ Unused # None
    BY <2>4, <2>5, TrackerFacts DEF TypeOK
  <2>7. Counted(i, n)' = Younger(<< >>, n)
    BY <2>5, <2>6 DEF Counted, Count
  <2> QED
    BY <2>5, <2>7, YoungerNone DEF Counted
<1> QED
  BY <1>1, <1>2

LEMMA CountedStep == IInv /\ [Next]_vars => CountedInv'
<1> SUFFICES ASSUME IInv, [Next]_vars, NEW i \in IPs, NEW n \in 0..Span
             PROVE  /\ (n + 2 * MaxDelay <= Elapsed(i) => AdmittedSince(i, n) <= Counted(i, n + MaxDelay))'
                    /\ (AdmittedSince(i, n) <= Counted(i, n + MaxDelay) + RequestsPerSecond)'
                    /\ \A h \in Handlers : (Detached(h) /\ ip[h] = i =>
                         AdmittedSince(i, n) <= Counted(i, n + MaxDelay) + Count(tracker[h], n + MaxDelay))'
  BY DEF CountedInv
<1> DEFINE m == n + MaxDelay
           Goal == /\ n + 2 * MaxDelay <= Elapsed(i)' => AdmittedSince(i, n)' <= Counted(i, m)'
                   /\ AdmittedSince(i, n)' <= Counted(i, m)' + RequestsPerSecond
                   /\ \A h \in Handlers, t \in Trackers :
                        Detached(h)' /\ Detached(h) /\ t = tracker[h] /\ t \in Referenced
                          /\ tracker'[h] = t /\ ip[h] = i =>
                        AdmittedSince(i, n)' <= Counted(i, m)' + Count(t, m)'
<1>1. /\ TypeOK /\ HandlerInv /\ CleanerInv /\ OwnInv /\ DetachedInv /\ CountedInv
      /\ TypeOK'
  BY TypeStep DEF IInv
<1>2. n \in Int /\ m \in Int /\ m <= Window /\ n \in 0..(Window + MaxDelay)
  BY Constants
<1>3. Elapsed(i) \in Nat /\ Elapsed(i)' \in Nat
  <2>1. \A j \in IPs : Elapsed(j)' \in Nat
    BY <1>1, Constants DEF TypeOK, Elapsed
  <2> QED
    BY <1>1, <2>1, ElapsedType
<1>4. /\ \A t \in Trackers : Count(t, m) \in 0..RequestsPerSecond /\ Count(t, m)' \in 0..RequestsPerSecond
      /\ Counted(i, m) \in 0..RequestsPerSecond /\ Counted(i, m)' \in 0..RequestsPerSecond
  <2> HIDE DEF m
  <2> QED
    BY <1>1, <1>2, CountType, CountTypeNext
<1>5. AdmittedSince(i, n) \in Nat /\ AdmittedSince(i, n)' \in Nat /\ (n = 0 => AdmittedSince(i, n)' = 0)
  <2>1. \A k \in 0..(Window + MaxDelay) : AdmittedSince(i, k)' \in Nat
    BY <1>1, PairsFinite DEF AdmittedSince, TypeOK
  <2>2. AdmittedSince(i, 0)' = 0
    BY TotalNone DEF AdmittedSince
  <2> QED
    BY <1>1, <1>2, <2>1, <2>2, AdmittedType
<1>6. /\ n + 2 * MaxDelay <= Elapsed(i) => AdmittedSince(i, n) <= Counted(i, m)
      /\ AdmittedSince(i, n) <= Counted(i, m) + RequestsPerSecond
      /\ \A h \in Handlers, t \in Trackers : Detached(h) /\ ip[h] = i /\ t = tracker[h] =>
           AdmittedSince(i, n) <= Counted(i, m) + Count(t, m)
  BY <1>1 DEF CountedInv
<1>7. ASSUME NEW h \in Handlers, Detached(h)', ip'[h] = i
      PROVE  /\ tracker'[h] = tracker[h] /\ ip[h] = i /\ tracker[h] \in Trackers /\ tracker[h] \in Referenced
             /\ Detached(h) \/ (Delete /\ i = Head(todo) /\ tracker[h] = requestCounts[i])
  <2>1. tracker'[h] = tracker[h] /\ ip'[h] = ip[h]
        /\ (Detached(h) \/ (Delete /\ ip[h] = Head(todo) /\ tracker[h] = requestCounts[ip[h]]))
    BY <1>1, <1>7, DetachedBefore
  <2>2. tracker'[h] # None
    BY <1>7 DEF Detached
  <2> QED
    BY <1>1, <1>7, <2>1, <2>2 DEF TypeOK, Referenced
<1>8. ASSUME n = 0 PROVE Goal
  <2> HIDE DEF m
  <2> QED
    BY <1>4, <1>5, <1>8, Constants
<1>9. ASSUME ~Tick, \A h \in Handlers : ~Admit(h), ~(Delete /\ i = Head(todo)) PROVE Goal
  <2>1. AdmittedSince(i, n)' = AdmittedSince(i, n)
    BY <1>1, <1>9, QuietEffect DEF AdmittedSince
  <2>2. Counted(i, m)' = Counted(i, m)
    <3> HIDE DEF m
    <3> QED
      BY <1>1, <1>2, <1>9, CountedQuiet
  <2>3. \A t \in Trackers : t \in Referenced => Count(t, m)' = Count(t, m)
    <3> HIDE DEF m
    <3> QED
      BY <1>1, <1>2, <1>9, QuietEffect
  <2>4. n + 2 * MaxDelay <= Elapsed(i)' => n + 2 * MaxDelay <= Elapsed(i)
    <3>1. CASE StartCleanup
      BY <1>1, <1>3, <3>1, ElapsedStart, Constants
    <3>2. CASE ~StartCleanup
      <4>1. Elapsed(i)' <= Elapsed(i)
        BY <1>1, <1>9, <3>2, ElapsedStep
      <4> QED
        BY <1>3, <4>1, Constants
    <3> QED
      BY <3>1, <3>2
  <2> HIDE DEF m
  <2> QED
    BY <1>6, <2>1, <2>2, <2>3, <2>4
<1>10. ASSUME ~Tick, \A h \in Handlers : ~Admit(h), Delete, i = Head(todo)
       PROVE  Goal /\ \A h \in Handlers, t \in Trackers : Detached(h)' /\ ip'[h] = i /\ t = tracker[h] =>
                AdmittedSince(i, n)' <= Counted(i, m)' + Count(t, m)'
  <2>1. AdmittedSince(i, n)' = AdmittedSince(i, n)
    BY <1>1, <1>10, QuietEffect DEF AdmittedSince
  <2>2. Elapsed(i)' <= MaxDelay /\ Elapsed(i) = Window + MaxDelay
    <3>1. ~StartCleanup
      BY <1>10 DEF StartCleanup, Delete
    <3> QED
      BY <1>1, <1>10, <3>1, ElapsedStep
  <2>3. AdmittedSince(i, n) <= Counted(i, m)
    BY <1>6, <2>2, Constants
  <2>4. \A t \in Trackers : t \in Referenced => Count(t, m)' = Count(t, m)
    <3> HIDE DEF m
    <3> QED
      BY <1>1, <1>2, <1>10, QuietEffect
  <2>5. ASSUME NEW h \in Handlers, NEW t \in Trackers, Detached(h)', ip'[h] = i, t = tracker[h]
        PROVE  AdmittedSince(i, n)' <= Counted(i, m)' + Count(t, m)'
    <3>1. CASE Detached(h)
      <4>1. Elapsed(i) <= age[h] + MaxDelay /\ age[h] \in 0..MaxDelay
        BY <1>1, <1>7, <2>5, <3>1 DEF DetachedInv, TypeOK
      <4> QED
        BY <2>2, <4>1, Constants
    <3>2. CASE ~Detached(h)
      <4>1. t = requestCounts[i] /\ t # None /\ t \in Referenced
        BY <1>7, <2>5, <3>2, TrackerFacts
      <4>2. Counted(i, m) = Count(t, m)
        <5> HIDE DEF m
        <5> QED
          BY <4>1 DEF Counted
      <4> HIDE DEF m
      <4> QED
        BY <1>4, <1>5, <2>1, <2>3, <2>4, <4>1, <4>2
    <3> QED
      BY <3>1, <3>2
  <2>6. n + 2 * MaxDelay <= Elapsed(i)' => n = 0
    BY <1>3, <2>2, Constants
  <2>7. \A h \in Handlers : Detached(h)' /\ tracker'[h] = tracker[h] /\ ip[h] = i => ip'[h] = i
    BY <1>10 DEF Delete, handlerVars
  <2> HIDE DEF m
  <2> QED
    BY <1>4, <1>5, <2>1, <2>3, <2>5, <2>6, <2>7, Constants
<1>11. ASSUME Tick, n # 0 PROVE Goal
  <2>1. /\ UNCHANGED <<requestCounts, ip, tracker, todo>>
        /\ \A t \in Trackers : t \in Referenced => Count(t, m)' = Count(t, m - 1)
        /\ AdmittedSince(i, n)' = AdmittedSince(i, n - 1)
    <3>1. m \in 1..Oldest /\ n \in 1..(Window + MaxDelay)
      BY <1>2, <1>11, Constants
    <3> HIDE DEF m
    <3> QED
      BY <1>1, <1>11, <3>1, TickEffect
  <2>2. Counted(i, m)' = Counted(i, m - 1)
    <3>1. requestCounts[i] = None \/ requestCounts[i] \in Trackers \cap Referenced
      BY <1>1 DEF TypeOK, Referenced
    <3>2. PICK t : t = requestCounts[i] /\ t = requestCounts'[i]
      BY <2>1
    <3> HIDE DEF m
    <3>3. Counted(i, m) ' = IF t = None THEN 0 ELSE Count(t, m)'
      BY <3>2 DEF Counted, Count
    <3>4. Counted(i, m - 1) = IF t = None THEN 0 ELSE Count(t, m - 1)
      BY <3>2 DEF Counted, Count
    <3> QED
      BY <2>1, <3>1, <3>2, <3>3, <3>4
  <2>3. n - 1 \in 0..Span /\ (n - 1) + MaxDelay = m - 1
    BY <1>2, <1>11, Constants
  <2>4. /\ (n - 1) + 2 * MaxDelay <= Elapsed(i) => AdmittedSince(i, n - 1) <= Counted(i, m - 1)
        /\ AdmittedSince(i, n - 1) <= Counted(i, m - 1) + RequestsPerSecond
        /\ \A h \in Handlers, t \in Trackers : Detached(h) /\ ip[h] = i /\ t = tracker[h] =>
             AdmittedSince(i, n - 1) <= Counted(i, m - 1) + Count(t, m - 1)
    <3> HIDE DEF m
    <3> QED
      BY <1>1, <2>3 DEF CountedInv
  <2>5. n + 2 * MaxDelay <= Elapsed(i)' => (n - 1) + 2 * MaxDelay <= Elapsed(i)
    <3>1. ~StartCleanup
      BY <1>11 DEF StartCleanup, Tick
    <3>2. Elapsed(i)' <= Elapsed(i) + 1
      BY <1>1, <1>3, <3>1, ElapsedStep
    <3> QED
      BY <1>2, <1>3, <3>2, Constants
  <2> HIDE DEF m
  <2> QED
    BY <2>1, <2>2, <2>4, <2>5
<1>12. ASSUME NEW g \in Handlers, Admit(g), n # 0 PROVE Goal
  <2>1. PICK t \in Trackers, j \in IPs :
           /\ t = tracker[g] /\ j = ip[g] /\ age[g] \in 0..MaxDelay
           /\ \A u \in Trackers : u # t => Count(u, m)' = Count(u, m)
           /\ Count(t, m)' = Count(t, m) + (IF age[g] < m THEN 1 ELSE 0) /\ Count(t, m) < RequestsPerSecond
           /\ AdmittedSince(j, n)' = AdmittedSince(j, n) + 1
           /\ i # j => AdmittedSince(i, n)' = AdmittedSince(i, n)
    <3>1. n \in 1..(Window + MaxDelay)
      BY <1>2, <1>12, Constants
    <3> HIDE DEF m
    <3> QED
      BY <1>1, <1>2, <1>12, <3>1, AdmitEffect
  <2>2. Count(t, m)' = Count(t, m) + 1
    <3>1. age[g] < m
      BY <1>12, <2>1, Constants
    <3> HIDE DEF m
    <3> QED
      BY <2>1, <3>1
  <2>3. UNCHANGED requestCounts /\ Elapsed(i)' = Elapsed(i)
    BY <1>12 DEF Admit, cleanerVars, Elapsed, ToVisit
  <2>4. /\ requestCounts[i] = None => Counted(i, m) = 0 /\ Counted(i, m)' = 0
        /\ \A u \in Trackers : u = requestCounts[i] =>
             Counted(i, m) = Count(u, m) /\ Counted(i, m)' = Count(u, m)'
    <3> HIDE DEF m
    <3> QED
      BY <2>3, TrackerFacts DEF Counted, Count
  <2>5. requestCounts[i] = None \/ requestCounts[i] \in Trackers
    BY <1>1 DEF TypeOK
  <2>6. CASE requestCounts[i] = t
    <3>1. Counted(i, m)' = Counted(i, m) + 1
      <4> HIDE DEF m
      <4> QED
        BY <2>2, <2>4, <2>6
    <3>2. AdmittedSince(i, n)' <= AdmittedSince(i, n) + 1
      BY <1>5, <2>1
    <3>3. \A u \in Trackers : Count(u, m)' >= Count(u, m)
      <4> HIDE DEF m
      <4> QED
        BY <1>4, <2>1, <2>2
    <3> HIDE DEF m
    <3> QED
      BY <1>4, <1>5, <1>6, <2>3, <3>1, <3>2, <3>3, Constants
  <2>7. CASE requestCounts[i] # t
    <3>1. Counted(i, m)' = Counted(i, m)
      <4> HIDE DEF m
      <4> QED
        BY <2>1, <2>4, <2>5, <2>7
    <3>2. CASE i # j
      <4>1. \A u \in Trackers : Count(u, m)' >= Count(u, m)
        <5> HIDE DEF m
        <5> QED
          BY <1>4, <2>1, <2>2
      <4> HIDE DEF m
      <4> QED
        BY <1>4, <1>5, <1>6, <2>1, <2>3, <3>1, <3>2, <4>1, Constants
    <3>3. CASE i = j
      <4>1. Detached(g) /\ ip[g] = i
        BY <2>1, <2>7, <3>3, TrackerFacts DEF Detached
      <4>2. AdmittedSince(i, n) <= Counted(i, m) + Count(t, m)
        <5> HIDE DEF m
        <5> QED
          BY <1>6, <2>1, <4>1
      <4>3. ~(n + 2 * MaxDelay <= Elapsed(i)')
        <5>1. Elapsed(i) <= age[g] + MaxDelay
          BY <1>1, <4>1 DEF DetachedInv
        <5> QED
          BY <1>2, <1>3, <1>12, <2>1, <2>3, <5>1, Constants
      <4>4. \A h \in Handlers : Detached(h) /\ ip[h] = i => tracker[h] = t
        BY <1>1, <2>1, <4>1 DEF DetachedInv
      <4>5. AdmittedSince(i, n)' = AdmittedSince(i, n) + 1
        BY <2>1, <3>3
      <4> HIDE DEF m
      <4> QED
        BY <1>4, <1>5, <2>1, <2>2, <3>1, <4>2, <4>3, <4>4, <4>5, Constants
    <3> QED
      BY <3>2, <3>3
  <2> QED
    BY <2>6, <2>7
<1>13. Goal
  BY <1>8, <1>9, <1>10, <1>11, <1>12
<1>14. ASSUME NEW h \in Handlers, Detached(h)', ip'[h] = i
       PROVE  AdmittedSince(i, n)' <= Counted(i, m)' + Count(tracker[h], m)'
  <2>1. PICK t \in Trackers : t = tracker[h] /\ t = tracker'[h] /\ ip[h] = i /\ t \in Referenced
    BY <1>7, <1>14
  <2>2. CASE Detached(h)
    <3>1. AdmittedSince(i, n)' <= Counted(i, m)' + Count(t, m)'
      <4> HIDE DEF m
      <4> QED
        BY <1>13, <1>14, <2>1, <2>2
    <3> HIDE DEF m, Goal
    <3> QED
      BY <2>1, <3>1 DEF Count
  <2>3. CASE ~Detached(h)
    <3>1. Delete /\ i = Head(todo)
      BY <1>7, <1>14, <2>3
    <3>2. ~Tick /\ \A g \in Handlers : ~Admit(g)
      BY <3>1, <1>1 DEF Delete, Tick, Admit, cleanerVars, CleanerInv
    <3>3. AdmittedSince(i, n)' <= Counted(i, m)' + Count(t, m)'
      <4> HIDE DEF m
      <4> QED
        BY <1>10, <1>14, <2>1, <3>1, <3>2
    <3> HIDE DEF m, Goal
    <3> QED
      BY <2>1, <3>3 DEF Count
  <2> QED
    BY <2>2, <2>3
<1> HIDE DEF Goal
<1>15. /\ n + 2 * MaxDelay <= Elapsed(i)' => AdmittedSince(i, n)' <= Counted(i, m)'
       /\ AdmittedSince(i, n)' <= Counted(i, m)' + RequestsPerSecond
  BY <1>13 DEF Goal
<1> QED
  BY <1>14, <1>15

LEMMA HonestStep == IInv /\ [Next]_vars => HonestInv'
<1> SUFFICES ASSUME IInv, [Next]_vars, NEW i \in IPs, NEW n \in 0..(Window + MaxDelay),
                    NEW t, t \in Uses(i)'
             PROVE  Count(t, n)' <= AdmittedSince(i, n)'
  BY DEF HonestInv
<1>1. TypeOK /\ HandlerInv /\ CleanerInv /\ OwnInv /\ HonestInv /\ OwnInv' /\ TypeOK'
  BY TypeStep, OwnStep DEF IInv
<1>2. n \in Int /\ n - 1 \in Int
  BY Constants
<1>3. t \in Trackers
  BY <1>1 DEF Uses, TypeOK
<1>4. AdmittedSince(i, n) \in Nat /\ AdmittedSince(i, n)' \in Nat
  <2>1. \A k \in 0..(Window + MaxDelay) : AdmittedSince(i, k)' \in Nat
    BY <1>1, PairsFinite DEF AdmittedSince, TypeOK
  <2> QED
    BY <1>1, <2>1, AdmittedType
<1>5. Count(t, n) \in Nat /\ Count(t, n)' \in Nat
  BY <1>1, <1>2, <1>3, CountType, CountTypeNext, Constants
<1>6. CASE t \notin Uses(i)
  <2>1. PICK h \in Handlers : /\ LoadOrStore(h) /\ pc[h] = "arrived"
                               /\ requestCounts[ip[h]] = None /\ t = Unused
    BY <1>1, <1>6, UsesStep
  <2>2. requests'[t] = << >>
    <3>1. requests' = [requests EXCEPT ![Unused] = << >>]
      BY <2>1 DEF LoadOrStore
    <3> QED
      BY <1>1, <1>3, <2>1, <3>1 DEF TypeOK
  <2>3. Count(t, n)' = 0
    BY <2>2, YoungerNone DEF Count
  <2> QED
    BY <1>4, <2>3
<1>7. CASE n = 0
  <2>1. requests'[t] \in Seq(Ages)
    BY <1>1, <1>3 DEF TypeOK
  <2>2. Count(t, n)' = 0
    BY <1>7, <2>1, YoungerZero DEF Count
  <2> QED
    BY <1>4, <2>2
<1>8. CASE t \in Uses(i) /\ n # 0
  <2>1. t \in Trackers \cap Referenced /\ Count(t, n) <= AdmittedSince(i, n)
    BY <1>1, <1>8, UsesTracked DEF HonestInv
  <2>2. CASE Tick
    <3>1. n \in 1..Oldest /\ n \in 1..(Window + MaxDelay) /\ n - 1 \in 0..(Window + MaxDelay)
      BY <1>8, Constants
    <3>2. Count(t, n)' = Count(t, n - 1) /\ AdmittedSince(i, n)' = AdmittedSince(i, n - 1)
      BY <1>1, <2>1, <2>2, <3>1, TickEffect
    <3>3. Count(t, n - 1) <= AdmittedSince(i, n - 1)
      BY <1>1, <1>8, <3>1 DEF HonestInv
    <3> QED
      BY <3>2, <3>3
  <2>3. CASE \E h \in Handlers : Admit(h)
    <3>1. n \in 1..(Window + MaxDelay)
      BY <1>8, Constants
    <3>2. PICK g \in Handlers : Admit(g)
      BY <2>3
    <3>3. PICK u \in Trackers, j \in IPs :
            /\ u = tracker[g] /\ j = ip[g] /\ age[g] \in 0..MaxDelay
            /\ t # u => Count(t, n)' = Count(t, n)
            /\ t = u => Count(t, n)' <= Count(t, n) + (IF age[g] < n THEN 1 ELSE 0)
            /\ AdmittedSince(j, n)' = AdmittedSince(j, n) + 1
            /\ i # j => AdmittedSince(i, n)' = AdmittedSince(i, n)
      BY <1>1, <1>2, <1>3, <3>1, <3>2, AdmitEffect
    <3>4. t = u => i = j
      <4>1. u \in Uses(j)
        BY <3>3, TrackerFacts, InUses
      <4> QED
        BY <1>1, <1>8, <4>1 DEF OwnInv
    <3>5. CASE i = j
      <4>1. AdmittedSince(i, n)' = AdmittedSince(i, n) + 1
        BY <3>3, <3>5
      <4>2. Count(t, n)' <= Count(t, n) + 1
        <5>1. age[g] \in Int
          BY <3>3, Constants
        <5> QED
          BY <1>5, <3>3, <5>1
      <4> QED
        BY <1>4, <1>5, <2>1, <4>1, <4>2
    <3>6. CASE i # j
      BY <2>1, <3>3, <3>4, <3>6
    <3> QED
      BY <3>5, <3>6
  <2>4. CASE ~Tick /\ \A h \in Handlers : ~Admit(h)
    <3>1. UNCHANGED admitted /\ Count(t, n)' <= Count(t, n)
      BY <1>1, <1>2, <2>1, <2>4, QuietEffect
    <3>2. AdmittedSince(i, n)' = AdmittedSince(i, n)
      BY <3>1 DEF AdmittedSince
    <3> QED
      BY <1>4, <1>5, <2>1, <3>1, <3>2
  <2> QED
    BY <2>2, <2>3, <2>4
<1> QED
  BY <1>6, <1>7, <1>8

-----------------------------------------------------------------------------
(* The theorems. *)

LEMMA InitIInv == Init => IInv
<1> SUFFICES ASSUME Init PROVE IInv
  OBVIOUS
<1>1. TypeOK
  <2>1. << >> \in Seq(Ages) /\ << >> \in Seq(IPs) /\ Len(<< >>) = 0 /\ 0 <= RequestsPerSecond
    BY EmptySeq, Constants
  <2>2. 0 \in 0..MaxDelay /\ 0 \in 0..Interval
    BY Constants
  <2> QED
    BY <2>1, <2>2 DEF Init, TypeOK
<1>2. HandlerInv /\ CleanerInv
  BY DEF Init, HandlerInv, CleanerInv
<1>3. ASSUME NEW i \in IPs PROVE Uses(i) = {}
  <2>1. requestCounts[i] = None /\ \A h \in Handlers : tracker[h] = None
    BY DEF Init
  <2> QED
    BY <2>1 DEF Uses
<1>4. OwnInv /\ HonestInv
  BY <1>3 DEF OwnInv, HonestInv
<1>5. \A h \in Handlers : ~Detached(h)
  BY DEF Init, Detached
<1>6. DetachedInv
  BY <1>5 DEF DetachedInv
<1>7. CountedInv
  <2>1. ASSUME NEW i \in IPs, NEW n \in 0..Span PROVE AdmittedSince(i, n) = 0
    <3>1. Pairs(admitted[i], n) = {}
      <4>1. \A m \in 0..(n - 1) : admitted[i][m] = 0
        <5>1. \A m \in 0..(n - 1) : m \in Recent
          BY Constants DEF Recent
        <5> QED
          BY <5>1 DEF Init
      <4> QED
        BY <4>1 DEF Pairs
    <3> QED
      BY <3>1, FS_EmptySet DEF AdmittedSince, Total, Pairs
  <2>2. \A i \in IPs, n \in Int : Counted(i, n) \in Nat
    BY <1>1, CountType, Constants
  <2>3. \A n \in 0..Span : n + MaxDelay \in Int
    BY Constants
  <2> QED
    BY <1>5, <2>1, <2>2, <2>3, Constants DEF CountedInv
<1> QED
  BY <1>1, <1>2, <1>4, <1>6, <1>7 DEF IInv

\* Every reachable state satisfies the inductive invariant: which tracker counts
\* what, and how much of it the cleanup goroutine can have taken away
\* (middleware.go:195-255).
THEOREM Invariance == Spec => []IInv
<1>1. IInv /\ [Next]_vars => IInv'
  BY TypeStep, HandlerStep, CleanerStep, OwnStep, DetachedStep, CountedStep, HonestStep DEF IInv
<1> QED
  BY InitIInv, <1>1, PTL DEF Spec

\* The types of the sync.Map, of the trackers, whose Requests never outgrow the
\* limit, of the handlers and of the cleanup goroutine (middleware.go:186-255).
THEOREM TypeCorrect == Spec => []TypeOK
<1>1. IInv => TypeOK
  BY DEF IInv
<1> QED
  BY Invariance, <1>1, PTL

\* However the goroutines interleave, no address gets more than twice the limit
\* through in a second: one tracker that was deleted under the handlers that had
\* loaded it, and the one that has taken its place (middleware.go:213 against
\* middleware.go:229).
THEOREM AtMostTwiceHolds == Spec => []AtMostTwice
<1>1. IInv => AtMostTwice
  <2> SUFFICES ASSUME IInv, NEW i \in IPs PROVE AdmittedSince(i, Span) <= 2 * RequestsPerSecond
    BY DEF AtMostTwice
  <2>1. Span \in 0..Span /\ Span \in 0..(Window + MaxDelay) /\ Span + MaxDelay \in Int
    BY Constants
  <2>2. AdmittedSince(i, Span) <= Counted(i, Span + MaxDelay) + RequestsPerSecond
    BY <2>1 DEF IInv, CountedInv
  <2>3. Counted(i, Span + MaxDelay) \in 0..RequestsPerSecond /\ AdmittedSince(i, Span) \in Nat
    BY <2>1, CountType, AdmittedType DEF IInv
  <2> QED
    BY <2>2, <2>3, Constants
<1> QED
  BY Invariance, <1>1, PTL

\* A 429 goes only to an address of which requestsPerSecond requests have been
\* let through in the last second: neither other addresses, nor what was turned
\* away, nor what is older counts against it (middleware.go:233-246).
THEOREM RejectionsJustified == Spec => RejectedAtLimitOnly
<1>1. IInv /\ [Next]_vars
        => [\A h \in Handlers :
              Reject(h) => AdmittedSince(ip[h], age[h] + Window) >= RequestsPerSecond]_vars
  <2> SUFFICES ASSUME IInv, NEW h \in Handlers, Reject(h)
               PROVE  AdmittedSince(ip[h], age[h] + Window) >= RequestsPerSecond
    OBVIOUS
  <2>1. /\ pc[h] = "holding" /\ Len(ValidRequests(h)) >= RequestsPerSecond
        /\ TypeOK /\ HandlerInv /\ HonestInv
    BY DEF Reject, IInv
  <2>2. PICK n : n = age[h] + Window
    OBVIOUS
  <2>3. PICK t, i : t = tracker[h] /\ i = ip[h]
    OBVIOUS
  <2>4. /\ t \in Trackers /\ i \in IPs /\ n \in 0..(Window + MaxDelay)
        /\ Len(ValidRequests(h)) = Count(t, n)
    <3>1. /\ t \in Trackers /\ i \in IPs /\ age[h] \in 0..MaxDelay
          /\ Len(ValidRequests(h)) = Count(t, n)
      BY <2>1, <2>2, <2>3, ValidFacts
    <3> QED
      BY <2>2, <3>1, Constants
  <2>5. t \in Uses(i)
    BY <2>3, <2>4, TrackerFacts, InUses
  <2>6. Count(t, n) <= AdmittedSince(i, n)
    BY <2>1, <2>4, <2>5 DEF HonestInv
  <2>7. Count(t, n) \in Nat /\ AdmittedSince(i, n) \in Nat
    <3>1. n \in Int
      BY <2>4, Constants
    <3>2. Count(t, n) \in 0..RequestsPerSecond
      BY <2>1, <2>4, <3>1, CountType
    <3>3. AdmittedSince(i, n) \in Nat
      BY <2>1, <2>4, AdmittedType
    <3> QED
      BY <3>2, <3>3, Constants
  <2>8. AdmittedSince(i, n) >= RequestsPerSecond
    BY <2>1, <2>4, <2>6, <2>7, Constants
  <2> QED
    BY <2>2, <2>3, <2>8
<1>2. Spec => [][Next]_vars
  BY DEF Spec
<1> QED
  BY Invariance, <1>1, <1>2, PTL DEF RejectedAtLimitOnly
=============================================================================
