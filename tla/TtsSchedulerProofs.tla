------------------------- MODULE TtsSchedulerProofs -------------------------
(***************************************************************************)
(* What TLAPS proves about TtsScheduler, and of the history that           *)
(* MCTtsScheduler adds to it, for any number of sessions, workers,         *)
(* generations and jobs.                                                   *)
(***************************************************************************)
EXTENDS MCTtsScheduler, Integers, SequenceTheorems, FiniteSetTheorems, TLAPS

-----------------------------------------------------------------------------
(* Sequences: prefixes and suffixes, what RemoveFirst, SelectPlaces, a      *)
(* rotation and Append keep of a sequence and of its elements.             *)

\* The first i elements.
LEMMA Prefix ==
  ASSUME NEW S, NEW o \in Seq(S), NEW i \in 0..Len(o)
  PROVE  /\ SubSeq(o, 1, i) \in Seq(S) /\ Len(SubSeq(o, 1, i)) = i
         /\ \A j \in 1..i : SubSeq(o, 1, i)[j] = o[j]
<1> DEFINE a == SubSeq(o, 1, i)
<1>1. Len(o) \in Nat /\ i \in Int /\ 1 \in Int
  BY LenProperties
<1>2. \A j \in 1..i : o[j] \in S
  BY <1>1, ElementOfSeq
<1>3. /\ a \in Seq(S)
      /\ Len(a) = (IF 1 <= i THEN i - 1 + 1 ELSE 0)
      /\ \A j \in 1..(i - 1 + 1) : a[j] = o[1 + j - 1]
  BY <1>1, <1>2, SubSeqProperties
<1> HIDE DEF a
<1>4. i - 1 + 1 = i /\ (IF 1 <= i THEN i - 1 + 1 ELSE 0) = i /\ \A j \in 1..i : 1 + j - 1 = j
  BY <1>1
<1>5. \A j \in 1..i : a[j] = o[j]
  BY <1>3, <1>4
<1>6. a \in Seq(S) /\ Len(a) = i
  BY <1>3, <1>4
<1> QED BY <1>5, <1>6 DEF a

\* What follows the first i elements.
LEMMA Suffix ==
  ASSUME NEW S, NEW o \in Seq(S), NEW i \in 1..Len(o)
  PROVE  /\ SubSeq(o, i + 1, Len(o)) \in Seq(S)
         /\ Len(SubSeq(o, i + 1, Len(o))) = Len(o) - i
         /\ \A j \in 1..(Len(o) - i) : SubSeq(o, i + 1, Len(o))[j] = o[i + j]
<1> DEFINE a == SubSeq(o, i + 1, Len(o))
<1>1. i + 1 \in Int /\ i \in Int /\ Len(o) \in Int /\ 1 <= i /\ i <= Len(o)
  BY LenProperties
<1>2. \A j \in (i + 1)..Len(o) : o[j] \in S
  BY <1>1, ElementOfSeq
<1>3. /\ a \in Seq(S)
      /\ Len(a) = (IF i + 1 <= Len(o) THEN Len(o) - (i + 1) + 1 ELSE 0)
      /\ \A j \in 1..(Len(o) - (i + 1) + 1) : a[j] = o[i + 1 + j - 1]
  BY <1>1, <1>2, SubSeqProperties
<1> HIDE DEF a
<1>4. Len(o) - (i + 1) + 1 = Len(o) - i
  BY <1>1
<1>5. (IF i + 1 <= Len(o) THEN Len(o) - (i + 1) + 1 ELSE 0) = Len(o) - i
  BY <1>1
<1>6. ASSUME NEW j \in 1..(Len(o) - i) PROVE a[j] = o[i + j]
  <2>1. i + 1 + j - 1 = i + j
    BY <1>1
  <2> QED BY <2>1, <1>3, <1>4
<1> QED BY <1>3, <1>5, <1>6 DEF a

\* deque.remove at a place: those behind it move up (_drop_session_queue).
LEMMA RemovedPlaces ==
  ASSUME NEW S, NEW o \in Seq(S), NEW i \in 1..Len(o)
  PROVE  /\ RemoveAt(o, i) \in Seq(S) /\ Len(RemoveAt(o, i)) = Len(o) - 1
         /\ \A j \in 1..(Len(o) - 1) : RemoveAt(o, i)[j] = IF j < i THEN o[j] ELSE o[j + 1]
<1> DEFINE a == SubSeq(o, 1, i - 1)
           b == SubSeq(o, i + 1, Len(o))
           r == RemoveAt(o, i)
<1>0. Len(o) \in Nat /\ DOMAIN o = 1..Len(o) /\ \A j \in 1..Len(o) : o[j] \in S
  BY LenProperties, ElementOfSeq
<1>1. /\ a \in Seq(S) /\ Len(a) = i - 1
      /\ \A j \in 1..(i - 1) : a[j] = o[j]
  <2>1. i - 1 \in 0..Len(o)
    BY <1>0
  <2> QED BY <2>1, Prefix
<1>2. /\ b \in Seq(S) /\ Len(b) = Len(o) - i
      /\ \A j \in 1..(Len(o) - i) : b[j] = o[i + j]
  BY Suffix
<1> HIDE DEF a, b
<1>3. r = a \o b
  BY DEF RemoveAt, a, b
<1>4. /\ r \in Seq(S) /\ Len(r) = Len(o) - 1
      /\ \A j \in 1..(Len(o) - 1) : r[j] = IF j < i THEN o[j] ELSE o[j + 1]
  <2>1. /\ r \in Seq(S) /\ Len(r) = Len(a) + Len(b)
        /\ \A j \in 1..(Len(a) + Len(b)) : r[j] = IF j <= Len(a) THEN a[j] ELSE b[j - Len(a)]
    <3>1. a \in Seq(S) /\ b \in Seq(S)
      BY <1>1, <1>2
    <3>2. /\ a \o b \in Seq(S) /\ Len(a \o b) = Len(a) + Len(b)
          /\ \A j \in 1..(Len(a) + Len(b)) :
               (a \o b)[j] = IF j <= Len(a) THEN a[j] ELSE b[j - Len(a)]
      BY <3>1, ConcatProperties, Zenon
    <3> QED BY <3>2, <1>3, Zenon
  <2>2. Len(a) + Len(b) = Len(o) - 1
    BY <1>0, <1>1, <1>2
  <2>3. ASSUME NEW j \in 1..(Len(o) - 1) PROVE r[j] = IF j < i THEN o[j] ELSE o[j + 1]
    <3>1. CASE j < i
      BY <2>1, <2>2, <3>1, <1>0, <1>1
    <3>2. CASE j >= i
      <4>1. j - Len(a) \in 1..(Len(o) - i) /\ i + (j - Len(a)) = j + 1 /\ ~(j <= Len(a))
        BY <3>2, <1>0, <1>1
      <4> QED BY <2>1, <2>2, <3>2, <4>1, <1>2, <1>0
    <3> QED BY <3>1, <3>2, <1>0
  <2> QED BY <2>1, <2>2, <2>3
<1> QED BY <1>4 DEF r

\* The others stay, each once.
LEMMA RemovedPlace ==
  ASSUME NEW S, NEW o \in Seq(S), IsInjective(o), NEW i \in 1..Len(o)
  PROVE  /\ RemoveAt(o, i) \in Seq(S)
         /\ IsInjective(RemoveAt(o, i))
         /\ ToSet(RemoveAt(o, i)) = ToSet(o) \ {o[i]}
<1> DEFINE r == RemoveAt(o, i)
<1>0. Len(o) \in Nat /\ DOMAIN o = 1..Len(o)
  BY LenProperties
<1>1. /\ r \in Seq(S) /\ Len(r) = Len(o) - 1
      /\ \A j \in 1..(Len(o) - 1) : r[j] = IF j < i THEN o[j] ELSE o[j + 1]
  BY RemovedPlaces
<1> HIDE DEF r
<1>2. DOMAIN r = 1..(Len(o) - 1)
  BY <1>1, LenProperties
<1>3. IsInjective(r)
  <2>1. SUFFICES ASSUME NEW j \in 1..(Len(o) - 1), NEW k \in 1..(Len(o) - 1), r[j] = r[k]
                 PROVE  j = k
    BY <1>2 DEF IsInjective
  <2>2. \A x, y \in 1..Len(o) : o[x] = o[y] => x = y
    BY <1>0 DEF IsInjective
  <2>3. PICK x \in 1..Len(o) : r[j] = o[x] /\ x = IF j < i THEN j ELSE j + 1
    BY <1>1, <1>0
  <2>4. PICK y \in 1..Len(o) : r[k] = o[y] /\ y = IF k < i THEN k ELSE k + 1
    BY <1>1, <1>0
  <2>5. x = y
    BY <2>1, <2>2, <2>3, <2>4
  <2> QED BY <2>3, <2>4, <2>5, <1>0
<1>4. ToSet(r) = ToSet(o) \ {o[i]}
  <2>1. ToSet(r) \subseteq ToSet(o) \ {o[i]}
    <3>1. SUFFICES ASSUME NEW j \in 1..(Len(o) - 1) PROVE r[j] \in ToSet(o) /\ r[j] # o[i]
      BY <1>2 DEF ToSet
    <3>2. PICK k \in 1..Len(o) : r[j] = o[k] /\ k # i
      BY <1>1, <1>0
    <3> QED BY <3>2, <1>0 DEF ToSet, IsInjective
  <2>2. ToSet(o) \ {o[i]} \subseteq ToSet(r)
    <3>1. SUFFICES ASSUME NEW k \in 1..Len(o), k # i PROVE o[k] \in ToSet(r)
      BY <1>0 DEF ToSet
    <3>2. CASE k < i
      <4>1. k \in 1..(Len(o) - 1) /\ r[k] = o[k]
        BY <3>2, <1>1, <1>0
      <4> QED BY <4>1, <1>2 DEF ToSet
    <3>3. CASE k > i
      <4>1. k - 1 \in 1..(Len(o) - 1) /\ r[k - 1] = o[k]
        BY <3>3, <1>1, <1>0
      <4> QED BY <4>1, <1>2 DEF ToSet
    <3> QED BY <3>1, <3>2, <3>3, <1>0
  <2> QED BY <2>1, <2>2
<1> QED BY <1>1, <1>3, <1>4 DEF r

\* deque.remove finds the only place that holds s.
LEMMA FoundPlace ==
  ASSUME NEW S, NEW o \in Seq(S), IsInjective(o), NEW i \in 1..Len(o)
  PROVE  RemoveFirst(o, o[i]) = RemoveAt(o, i)
<1> DEFINE s == o[i]
<1>1. Len(o) \in Nat /\ DOMAIN o = 1..Len(o)
  BY LenProperties
<1>2. {j \in 1..Len(o) : o[j] = s} = {i}
  BY <1>1 DEF IsInjective
<1>3. Min({i}) = i
  BY <1>1 DEF Min
<1>4. SelectInSeq(o, LAMBDA v : v = s) = i
  BY <1>2, <1>3 DEF SelectInSeq
<1> QED BY <1>4 DEF RemoveFirst

\* What is left when the first place that holds s, if there is one, is removed.
LEMMA Removed ==
  ASSUME NEW S, NEW o \in Seq(S), IsInjective(o), NEW s
  PROVE  /\ RemoveFirst(o, s) \in Seq(S)
         /\ IsInjective(RemoveFirst(o, s))
         /\ ToSet(RemoveFirst(o, s)) = ToSet(o) \ {s}
<1>0. Len(o) \in Nat /\ DOMAIN o = 1..Len(o)
  BY LenProperties
<1>1. CASE \A i \in 1..Len(o) : o[i] # s
  BY <1>0, <1>1 DEF RemoveFirst, ToSet
<1>2. ASSUME NEW i \in 1..Len(o), o[i] = s
      PROVE RemoveFirst(o, s) = RemoveAt(o, i)
  BY <1>2, FoundPlace
<1> QED BY <1>1, <1>2, RemovedPlace

\* What is kept of a queue is in it (cancel_generation).
LEMMA Selected ==
  ASSUME NEW S, NEW q \in Seq(S), NEW I \in SUBSET (1..Len(q))
  PROVE  /\ SelectPlaces(q, I) \in Seq(S)
         /\ Len(SelectPlaces(q, I)) <= Len(q)
         /\ ToSet(SelectPlaces(q, I)) = {q[i] : i \in I}
<1> DEFINE n == Cardinality(I)
           Below(i) == {k \in I : k <= i}
           rank == [i \in I |-> Cardinality(Below(i))]
           r == SelectPlaces(q, I)
<1>0. Len(q) \in Nat /\ DOMAIN q = 1..Len(q) /\ \A j \in 1..Len(q) : q[j] \in S
  BY LenProperties, ElementOfSeq
<1>1. IsFiniteSet(I) /\ n \in Nat /\ n <= Len(q)
  <2>1. IsFiniteSet(1..Len(q)) /\ Cardinality(1..Len(q)) = Len(q)
    BY <1>0, FS_Interval
  <2> QED BY <2>1, FS_Subset, FS_CardinalityType
<1>2. \A i \in I : IsFiniteSet(Below(i)) /\ Cardinality(Below(i)) \in Nat /\ Cardinality(Below(i)) <= n
  <2> SUFFICES ASSUME NEW i \in I
               PROVE  IsFiniteSet(Below(i)) /\ Cardinality(Below(i)) \in Nat /\ Cardinality(Below(i)) <= n
    OBVIOUS
  <2>1. Below(i) \in SUBSET I
    OBVIOUS
  <2> QED BY <1>1, <2>1, FS_Subset, FS_CardinalityType
<1> HIDE DEF Below, n
<1>3. \A i \in I : Cardinality(Below(i)) \in 1..n
  <2> SUFFICES ASSUME NEW i \in I PROVE Cardinality(Below(i)) \in 1..n
    OBVIOUS
  <2>1. i \in Below(i)
    BY <1>0 DEF Below
  <2>2. Cardinality(Below(i)) # 0
    BY <1>2, <2>1, FS_EmptySet
  <2> QED BY <1>1, <1>2, <2>2
<1>4. \A i, j \in I : i < j => Cardinality(Below(i)) < Cardinality(Below(j))
  <2> SUFFICES ASSUME NEW i \in I, NEW j \in I, i < j
               PROVE  Cardinality(Below(i)) < Cardinality(Below(j))
    OBVIOUS
  <2>1. i \in Int /\ j \in Int /\ \A k \in I : k \in Int
    BY <1>0
  <2>2. Below(i) \in SUBSET Below(j)
    <3>1. \A k \in Below(i) : k \in Below(j)
      BY <2>1 DEF Below
    <3> QED BY <3>1
  <2>3. j \in Below(j) /\ j \notin Below(i)
    BY <2>1 DEF Below
  <2>4. Cardinality(Below(i)) <= Cardinality(Below(j)) /\ Cardinality(Below(i)) # Cardinality(Below(j))
    BY <1>2, <2>2, <2>3, FS_Subset
  <2> QED BY <1>2, <2>4
<1>5. rank \in Injection(I, 1..n)
  <2>1. rank \in [I -> 1..n]
    BY <1>3
  <2>2. ASSUME NEW i \in I, NEW j \in I, rank[i] = rank[j] PROVE i = j
    <3>1. i \in Int /\ j \in Int
      BY <1>0
    <3>2. ~(i < j) /\ ~(j < i)
      BY <1>4, <1>3, <2>2
    <3> QED BY <3>1, <3>2
  <2> QED BY <2>1, <2>2 DEF Injection, IsInjective
<1>6. \A j \in 1..n : \E i \in I : rank[i] = j
  <2>1. IsFiniteSet(1..n) /\ Cardinality(1..n) = n
    BY <1>1, FS_Interval
  <2>2. rank \in Surjection(I, 1..n)
    BY <1>5, <2>1, FS_Injection, Zenon DEF n
  <2> QED BY <2>2 DEF Surjection
<1>7. \A i \in I : (CHOOSE k \in I : Cardinality(Below(k)) = rank[i]) = i
  <2> SUFFICES ASSUME NEW i \in I, NEW k \in I, Cardinality(Below(k)) = rank[i] PROVE k = i
    OBVIOUS
  <2>1. rank[k] = rank[i]
    OBVIOUS
  <2> QED BY <2>1, <1>5 DEF Injection, IsInjective
<1>8. r = [j \in 1..n |-> q[CHOOSE i \in I : Cardinality(Below(i)) = j]]
  BY DEF SelectPlaces, n, Below
<1> HIDE DEF r
<1>9. \A i \in I : rank[i] \in 1..n /\ r[rank[i]] = q[i]
  BY <1>7, <1>8, <1>5 DEF Injection
<1> HIDE DEF rank
<1>10. \A j \in 1..n : \E i \in I : r[j] = q[i]
  BY <1>6, <1>9
<1>11. r \in Seq(S) /\ Len(r) = n /\ DOMAIN r = 1..n
  <2>1. \A j \in 1..n : r[j] \in S
    BY <1>10, <1>0
  <2>2. r \in [1..n -> S]
    BY <2>1, <1>8
  <2> QED BY <2>2, <1>1
<1>12. ToSet(r) = {q[i] : i \in I}
  BY <1>9, <1>10, <1>11 DEF ToSet
<1> QED BY <1>1, <1>11, <1>12 DEF r

\* A rotation moves the first i behind the others (_next_job).
LEMMA RotatedPlaces ==
  ASSUME NEW S, NEW o \in Seq(S), NEW i \in 1..Len(o)
  PROVE  LET r == SubSeq(o, i + 1, Len(o)) \o SubSeq(o, 1, i)
             Place(j) == IF j <= Len(o) - i THEN i + j ELSE j - (Len(o) - i)
         IN  /\ r \in Seq(S) /\ DOMAIN r = 1..Len(o)
             /\ \A j \in 1..Len(o) : Place(j) \in 1..Len(o) /\ r[j] = o[Place(j)]
<1> DEFINE a == SubSeq(o, i + 1, Len(o))
           b == SubSeq(o, 1, i)
           r == a \o b
           Place(j) == IF j <= Len(o) - i THEN i + j ELSE j - (Len(o) - i)
<1>0. Len(o) \in Nat /\ DOMAIN o = 1..Len(o) /\ \A j \in 1..Len(o) : o[j] \in S
  BY LenProperties, ElementOfSeq
<1>1. /\ a \in Seq(S) /\ Len(a) = Len(o) - i
      /\ \A j \in 1..(Len(o) - i) : a[j] = o[i + j]
  BY Suffix
<1>2. /\ b \in Seq(S) /\ Len(b) = i
      /\ \A j \in 1..i : b[j] = o[j]
  BY <1>0, Prefix
<1> HIDE DEF a, b
<1>3. /\ r \in Seq(S) /\ Len(r) = Len(a) + Len(b)
      /\ \A j \in 1..(Len(a) + Len(b)) : r[j] = IF j <= Len(a) THEN a[j] ELSE b[j - Len(a)]
  BY <1>1, <1>2, ConcatProperties, Zenon
<1> HIDE DEF r
<1>4. DOMAIN r = 1..Len(o)
  <2>1. Len(r) = Len(o)
    BY <1>0, <1>1, <1>2, <1>3
  <2> QED BY <2>1, <1>3, LenProperties
<1>5. \A j \in 1..Len(o) : Place(j) \in 1..Len(o) /\ r[j] = o[Place(j)]
  <2> SUFFICES ASSUME NEW j \in 1..Len(o) PROVE Place(j) \in 1..Len(o) /\ r[j] = o[Place(j)]
    OBVIOUS
  <2>0. j \in 1..(Len(a) + Len(b))
    BY <1>0, <1>1, <1>2
  <2>1. CASE j <= Len(o) - i
    BY <2>0, <2>1, <1>0, <1>1, <1>3
  <2>2. CASE j > Len(o) - i
    <3>1. j - Len(a) \in 1..i /\ ~(j <= Len(a)) /\ j - Len(a) = Place(j)
      BY <2>2, <1>0, <1>1
    <3>2. r[j] = b[j - Len(a)]
      BY <2>0, <3>1, <1>3
    <3>3. b[j - Len(a)] = o[j - Len(a)]
      BY <3>1, <1>2
    <3>4. j - Len(a) \in 1..Len(o)
      BY <3>1, <1>0
    <3> HIDE DEF Place
    <3> QED BY <3>1, <3>2, <3>3, <3>4
  <2> QED BY <2>1, <2>2, <1>0
<1> HIDE DEF Place
<1> QED BY <1>3, <1>4, <1>5 DEF r, a, b, Place

\* It keeps the elements, each once.
LEMMA RotatedAt ==
  ASSUME NEW S, NEW o \in Seq(S), IsInjective(o), NEW i \in 1..Len(o)
  PROVE  LET r == SubSeq(o, i + 1, Len(o)) \o SubSeq(o, 1, i)
         IN  r \in Seq(S) /\ IsInjective(r) /\ ToSet(r) = ToSet(o)
<1> DEFINE r == SubSeq(o, i + 1, Len(o)) \o SubSeq(o, 1, i)
           Place(j) == IF j <= Len(o) - i THEN i + j ELSE j - (Len(o) - i)
<1>0. Len(o) \in Nat /\ DOMAIN o = 1..Len(o)
  BY LenProperties
<1>1. r \in Seq(S) /\ DOMAIN r = 1..Len(o)
  BY RotatedPlaces
<1>2. \A j \in 1..Len(o) : Place(j) \in 1..Len(o) /\ r[j] = o[Place(j)]
  BY RotatedPlaces
<1> HIDE DEF r
<1>3. \A j, k \in 1..Len(o) : Place(j) = Place(k) => j = k
  BY <1>0
<1>4. \A k \in 1..Len(o) : \E j \in 1..Len(o) : Place(j) = k
  <2> SUFFICES ASSUME NEW k \in 1..Len(o) PROVE \E j \in 1..Len(o) : Place(j) = k
    OBVIOUS
  <2>1. CASE k > i
    <3>1. k - i \in 1..Len(o) /\ Place(k - i) = k
      BY <2>1, <1>0
    <3> QED BY <3>1
  <2>2. CASE k <= i
    <3>1. k + (Len(o) - i) \in 1..Len(o) /\ Place(k + (Len(o) - i)) = k
      BY <2>2, <1>0
    <3> QED BY <3>1
  <2> QED BY <2>1, <2>2, <1>0
<1> HIDE DEF Place
<1>5. IsInjective(r)
  BY <1>0, <1>1, <1>2, <1>3 DEF IsInjective
<1>6. ToSet(r) = ToSet(o)
  <2>1. \A j \in 1..Len(o) : \E k \in 1..Len(o) : r[j] = o[k]
    BY <1>2
  <2>2. \A k \in 1..Len(o) : \E j \in 1..Len(o) : r[j] = o[k]
    BY <1>2, <1>4
  <2>3. ToSet(r) = {r[j] : j \in 1..Len(o)} /\ ToSet(o) = {o[j] : j \in 1..Len(o)}
    BY <1>0, <1>1 DEF ToSet
  <2>4. ASSUME NEW x \in ToSet(r) PROVE x \in ToSet(o)
    BY <2>1, <2>3
  <2>5. ASSUME NEW x \in ToSet(o) PROVE x \in ToSet(r)
    BY <2>2, <2>3
  <2> QED BY <2>4, <2>5, Zenon
<1> QED BY <1>1, <1>5, <1>6 DEF r

\* A new element is appended (synthesize).
LEMMA AppendedAt ==
  ASSUME NEW S, NEW o \in Seq(S), IsInjective(o), NEW s \in S, s \notin ToSet(o)
  PROVE  /\ Append(o, s) \in Seq(S)
         /\ IsInjective(Append(o, s))
         /\ ToSet(Append(o, s)) = ToSet(o) \cup {s}
<1> DEFINE r == Append(o, s)
<1>0. Len(o) \in Nat /\ DOMAIN o = 1..Len(o) /\ \A j \in 1..Len(o) : o[j] # s
  BY LenProperties DEF ToSet
<1>1. /\ r \in Seq(S) /\ DOMAIN r = 1..(Len(o) + 1)
      /\ \A j \in 1..Len(o) : r[j] = o[j]
      /\ r[Len(o) + 1] = s
  BY AppendProperties, LenProperties
<1> HIDE DEF r
<1>2. IsInjective(r)
  BY <1>0, <1>1 DEF IsInjective
<1>3. ToSet(r) = ToSet(o) \cup {s}
  <2>1. \A j \in 1..(Len(o) + 1) : r[j] \in ToSet(o) \cup {s}
    BY <1>0, <1>1 DEF ToSet
  <2>2. \A j \in 1..Len(o) : o[j] \in ToSet(r)
    BY <1>0, <1>1 DEF ToSet
  <2>3. s \in ToSet(r)
    BY <1>0, <1>1 DEF ToSet
  <2> QED BY <2>1, <2>2, <2>3, <1>0, <1>1 DEF ToSet
<1> QED BY <1>1, <1>2, <1>3 DEF r

-----------------------------------------------------------------------------
(* What each step keeps.                                                   *)

\* A job is told apart from no job by its session.
LEMMA JobHasSession ==
  ASSUME NEW job \in Jobs
  PROVE  job.session \in Sessions /\ job # NoJob
BY TtsAssumption DEF Jobs, NoJob

\* A job whose waiter has left is still a job of its session.
LEMMA LeftJob ==
  ASSUME NEW job \in Jobs
  PROVE  /\ [job EXCEPT !.awaited = FALSE] \in Jobs
         /\ [job EXCEPT !.awaited = FALSE].session = job.session
         /\ ~[job EXCEPT !.awaited = FALSE].awaited
BY DEF Jobs

\* A generation starts only when no job is awaited (cancellation.start).
LEMMA GenerationStartsKeeps ==
  ASSUME IInv, NEW s \in Sessions, GenerationStarts(s)
  PROVE  IInv'
<1>1. TypeOK'
  BY TtsAssumption DEF IInv, TypeOK, GenerationStarts
<1>2. OrderIsQueues' /\ OneWorkerPerSession' /\ IdleIsFinal' /\ WorkerHasJob'
  BY DEF IInv, GenerationStarts, OrderIsQueues, Queued, ActiveSessions,
         OneWorkerPerSession, IdleIsFinal, WorkerHasJob
<1>3. PendingHasJob'
  BY DEF IInv, TypeOK, GenerationStarts, PendingHasJob
<1>4. JobsBelong'
  BY TtsAssumption DEF IInv, TypeOK, GenerationStarts, JobsBelong
<1>5. OverIsOver'
  BY DEF IInv, TypeOK, GenerationStarts, OverIsOver
<1> QED BY <1>1, <1>2, <1>3, <1>4, <1>5 DEF IInv

\* The end of a generation takes its waiter from the jobs that are left.
LEMMA GenerationEndsKeeps ==
  ASSUME IInv, NEW s \in Sessions, GenerationEnds(s)
  PROVE  IInv'
<1> DEFINE Left(job) == [job EXCEPT !.awaited = FALSE]
           q == [i \in DOMAIN queue[s] |-> Left(queue[s][i])]
<1>1. q \in Seq(Jobs) /\ Len(q) = Len(queue[s]) /\ DOMAIN q = DOMAIN queue[s]
  <2>1. queue[s] \in Seq(Jobs)
    BY DEF IInv, TypeOK
  <2>2. Len(queue[s]) \in Nat /\ DOMAIN queue[s] = 1..Len(queue[s])
    BY <2>1, LenProperties
  <2>3. \A i \in 1..Len(queue[s]) : queue[s][i] \in Jobs
    BY <2>1, ElementOfSeq
  <2>4. \A i \in 1..Len(queue[s]) : Left(queue[s][i]) \in Jobs
    BY <2>3, LeftJob
  <2> HIDE DEF Left
  <2>5. q \in [1..Len(queue[s]) -> Jobs]
    BY <2>2, <2>4
  <2> QED BY <2>2, <2>5
<1>2. \A t \in Sessions : queue'[t] = IF t = s THEN q ELSE queue[t]
  BY DEF IInv, TypeOK, GenerationEnds
<1>3. queue' \in [Sessions -> Seq(Jobs)]
  BY <1>1 DEF IInv, TypeOK, GenerationEnds
<1>4. \A w \in Workers : active'[w] = IF active[w].session = s THEN Left(active[w]) ELSE active[w]
  BY DEF GenerationEnds
<1> HIDE DEF Left
<1>5. \A w \in Workers : /\ active'[w].session = active[w].session
                         /\ active'[w].awaited => active[w].awaited /\ active[w].session # s
                         /\ active'[w] \in Jobs \cup {NoJob}
                         /\ active'[w] = NoJob <=> active[w] = NoJob
  <2> SUFFICES ASSUME NEW w \in Workers
               PROVE  /\ active'[w].session = active[w].session
                      /\ active'[w].awaited => active[w].awaited /\ active[w].session # s
                      /\ active'[w] \in Jobs \cup {NoJob}
                      /\ active'[w] = NoJob <=> active[w] = NoJob
    OBVIOUS
  <2>1. CASE active[w] \in Jobs
    <3>1. Left(active[w]) \in Jobs /\ Left(active[w]).session = active[w].session
          /\ ~Left(active[w]).awaited
      BY <2>1, LeftJob DEF Left
    <3>2. active[w] # NoJob /\ Left(active[w]) # NoJob
      BY <2>1, <3>1, JobHasSession
    <3> QED BY <1>4, <2>1, <3>1, <3>2
  <2>2. CASE active[w] = NoJob
    <3>1. NoJob.session = "none" /\ ~NoJob.awaited
      BY DEF NoJob
    <3>2. active'[w] = NoJob
      BY <1>4, <2>2, <3>1, TtsAssumption
    <3> QED BY <2>2, <3>1, <3>2
  <2> QED BY <2>1, <2>2 DEF IInv, TypeOK
<1>6. \A t \in Sessions : queue'[t] = <<>> <=> queue[t] = <<>>
  BY <1>1, <1>2, EmptySeq DEF IInv, TypeOK
<1> HIDE DEF q
<1>7. TypeOK'
  <2>1. /\ live' \in [Sessions -> BOOLEAN]
        /\ waiter' \in [Sessions -> {"none", "pending", "done", "failed", "refused", "cancelled"}]
    BY DEF IInv, TypeOK, GenerationEnds
  <2>2. active' \in [Workers -> Jobs \cup {NoJob}]
    BY <1>5 DEF GenerationEnds
  <2>3. \A t \in Sessions : Len(queue'[t]) <= MaxQueue
    BY <1>1, <1>2 DEF IInv, TypeOK
  <2> QED BY <1>3, <2>1, <2>2, <2>3 DEF IInv, TypeOK, GenerationEnds
<1>8. OrderIsQueues'
  <2>1. ActiveSessions' = ActiveSessions /\ Queued' = Queued
    BY <1>5, <1>6 DEF ActiveSessions, Queued
  <2> QED BY <2>1 DEF IInv, OrderIsQueues, GenerationEnds
<1>9. OneWorkerPerSession'
  BY <1>5 DEF IInv, OneWorkerPerSession
<1>10. PendingHasJob'
  <2> SUFFICES ASSUME NEW t \in Sessions, waiter'[t] = "pending"
               PROVE  \/ \E i \in DOMAIN queue'[t] : queue'[t][i].awaited
                      \/ \E w \in Workers : active'[w].session = t /\ active'[w].awaited
    BY DEF PendingHasJob
  <2>1. t # s /\ waiter[t] = "pending"
    BY DEF IInv, TypeOK, GenerationEnds
  <2>2. queue'[t] = queue[t]
    BY <1>2, <2>1
  <2>3. \A w \in Workers : active[w].session = t => active'[w] = active[w]
    BY <1>4, <2>1
  <2> QED BY <2>1, <2>2, <2>3 DEF IInv, PendingHasJob
<1>11. IdleIsFinal'
  BY <1>5, <1>6 DEF IInv, IdleIsFinal, GenerationEnds
<1>12. JobsBelong'
  <2>0. \A t \in Sessions : live'[t] => gen'[t] > 0
    BY DEF IInv, TypeOK, JobsBelong, GenerationEnds
  <2> SUFFICES ASSUME NEW t \in Sessions, NEW i \in DOMAIN queue'[t]
               PROVE  /\ queue'[t][i].session = t
                      /\ queue'[t][i].awaited => live'[t] /\ queue'[t][i].gen = gen'[t]
    BY <2>0 DEF JobsBelong
  <2>1. CASE t = s
    <3>1. queue'[t] = q /\ i \in DOMAIN queue[s] /\ q[i] = Left(queue[s][i])
      BY <1>1, <1>2, <2>1 DEF q
    <3>2. queue[s][i] \in Jobs
      BY <3>1, ElementOfSeq, LenProperties DEF IInv, TypeOK
    <3>3. Left(queue[s][i]).session = queue[s][i].session /\ ~Left(queue[s][i]).awaited
      BY <3>2, LeftJob DEF Left
    <3> QED BY <2>1, <3>1, <3>3 DEF IInv, JobsBelong
  <2>2. CASE t # s
    BY <1>2, <2>2 DEF IInv, TypeOK, JobsBelong, GenerationEnds
  <2> QED BY <2>1, <2>2
<1>13. WorkerHasJob'
  BY <1>5 DEF IInv, WorkerHasJob, GenerationEnds
<1>14. OverIsOver'
  BY DEF IInv, TypeOK, OverIsOver, GenerationEnds
<1> QED BY <1>7, <1>8, <1>9, <1>10, <1>11, <1>12, <1>13, <1>14 DEF IInv

\* The drain waits, and finds the session idle (wait_session_idle).
LEMMA ReleaseKeeps ==
  ASSUME IInv, NEW s \in Sessions, DrainWaits(s) \/ SessionIsIdle(s)
  PROVE  IInv'
<1>1. TypeOK'
  BY DEF IInv, TypeOK, DrainWaits, SessionIsIdle
<1>2. OrderIsQueues' /\ OneWorkerPerSession' /\ PendingHasJob' /\ JobsBelong' /\ WorkerHasJob'
  BY DEF IInv, DrainWaits, SessionIsIdle, OrderIsQueues, Queued, ActiveSessions,
         OneWorkerPerSession, PendingHasJob, JobsBelong, WorkerHasJob
<1>3. IdleIsFinal'
  <2>1. CASE DrainWaits(s)
    BY <2>1 DEF IInv, TypeOK, IdleIsFinal, DrainWaits
  <2>2. CASE SessionIsIdle(s)
    <3>1. queue[s] = <<>> /\ \A w \in Workers : active[w].session # s
      BY <2>2, TtsAssumption DEF SessionIsIdle, SessionIdle, Queued, ActiveSessions
    <3> QED BY <2>2, <3>1 DEF IInv, TypeOK, IdleIsFinal, SessionIsIdle
  <2> QED BY <2>1, <2>2
<1>4. OverIsOver'
  BY DEF IInv, TypeOK, OverIsOver, DrainWaits, SessionIsIdle
<1> QED BY <1>1, <1>2, <1>3, <1>4 DEF IInv

\* What happens in a runtime alone.
LEMMA RuntimeKeeps ==
  ASSUME IInv, NEW w \in Workers, StreamBegins(w) \/ IteratorCloses(w)
  PROVE  IInv'
<1>1. TypeOK'
  BY DEF IInv, TypeOK, StreamBegins, IteratorCloses
<1>2. OrderIsQueues' /\ OneWorkerPerSession' /\ PendingHasJob' /\ IdleIsFinal' /\ JobsBelong'
  BY DEF IInv, StreamBegins, IteratorCloses, OrderIsQueues, Queued, ActiveSessions,
         OneWorkerPerSession, PendingHasJob, IdleIsFinal, JobsBelong
<1>3. WorkerHasJob'
  <2>1. CASE StreamBegins(w)
    BY <2>1 DEF IInv, TypeOK, WorkerHasJob, StreamBegins
  <2>2. CASE IteratorCloses(w)
    BY <2>2 DEF IInv, WorkerHasJob, IteratorCloses
  <2> QED BY <2>1, <2>2
<1>4. OverIsOver'
  BY DEF IInv, OverIsOver, StreamBegins, IteratorCloses
<1> QED BY <1>1, <1>2, <1>3, <1>4 DEF IInv

\* A job is queued, and its session is in the order once (synthesize).
LEMMA SynthesizeKeeps ==
  ASSUME IInv, NEW s \in Sessions, NEW final \in BOOLEAN, Synthesize(s, final)
  PROVE  IInv'
<1> DEFINE job == [session |-> s, gen |-> gen[s], final |-> final, awaited |-> TRUE]
           n == Len(queue[s])
<1>1. job \in Jobs /\ live[s] /\ gen[s] \in 1..MaxGens
  BY TtsAssumption DEF IInv, TypeOK, JobsBelong, Jobs, Synthesize
<1>2. queue[s] \in Seq(Jobs) /\ n \in Nat /\ DOMAIN queue[s] = 1..n
  BY LenProperties DEF IInv, TypeOK
<1>3. /\ queue'[s] \in Seq(Jobs) /\ Len(queue'[s]) = n + 1 /\ DOMAIN queue'[s] = 1..(n + 1)
      /\ \A i \in 1..n : queue'[s][i] = queue[s][i]
      /\ queue'[s][n + 1] = job
  <2>1. queue'[s] = Append(queue[s], job)
    BY DEF IInv, TypeOK, Synthesize
  <2> HIDE DEF job
  <2> QED BY <1>1, <1>2, <2>1, AppendProperties, LenProperties
<1>4. \A t \in Sessions \ {s} : queue'[t] = queue[t]
  BY DEF IInv, TypeOK, Synthesize
<1>5. queue' \in [Sessions -> Seq(Jobs)]
  <2>1. queue' = [t \in Sessions |-> queue'[t]]
    BY DEF IInv, TypeOK, Synthesize
  <2> QED BY <2>1, <1>3, <1>4 DEF IInv, TypeOK
<1> HIDE DEF n
<1>6. /\ order' \in Seq(Sessions) /\ IsInjective(order')
      /\ ToSet(order') = ToSet(order) \cup {s}
  <2>1. order \in Seq(Sessions) /\ IsInjective(order)
    BY DEF IInv, TypeOK, OrderIsQueues
  <2>2. Contains(order, s) <=> s \in ToSet(order)
    BY <2>1, LenProperties DEF Contains, ToSet
  <2>3. CASE s \in ToSet(order)
    BY <2>1, <2>2, <2>3 DEF Synthesize
  <2>4. CASE s \notin ToSet(order)
    BY <2>1, <2>2, <2>4, AppendedAt DEF Synthesize
  <2> QED BY <2>3, <2>4
<1>7. TypeOK'
  <2>1. Len(queue'[s]) <= MaxQueue
    BY <1>2, <1>3, TtsAssumption DEF Synthesize, n
  <2>2. \A t \in Sessions : Len(queue'[t]) <= MaxQueue
    BY <2>1, <1>4 DEF IInv, TypeOK
  <2>3. waiter' \in [Sessions -> {"none", "pending", "done", "failed", "refused", "cancelled"}]
    BY DEF IInv, TypeOK, Synthesize
  <2> QED BY <1>5, <1>6, <2>2, <2>3 DEF IInv, TypeOK, Synthesize
<1>8. OrderIsQueues'
  <2>1. Queued' = Queued \cup {s}
    <3>1. queue'[s] # <<>>
      BY <1>2, <1>3, EmptySeq
    <3> QED BY <3>1, <1>4 DEF Queued
  <2>2. ActiveSessions' = ActiveSessions
    BY DEF ActiveSessions, Synthesize
  <2> QED BY <1>6, <2>1, <2>2 DEF IInv, OrderIsQueues
<1>9. OneWorkerPerSession' /\ WorkerHasJob'
  BY DEF IInv, OneWorkerPerSession, WorkerHasJob, Synthesize
<1>10. PendingHasJob'
  <2> SUFFICES ASSUME NEW t \in Sessions, waiter'[t] = "pending"
               PROVE  \/ \E i \in DOMAIN queue'[t] : queue'[t][i].awaited
                      \/ \E w \in Workers : active'[w].session = t /\ active'[w].awaited
    BY DEF PendingHasJob
  <2>1. CASE t = s
    <3>1. n + 1 \in DOMAIN queue'[s] /\ queue'[s][n + 1].awaited
      BY <1>2, <1>3
    <3> QED BY <2>1, <3>1
  <2>2. CASE t # s
    <3>1. waiter[t] = "pending"
      BY <2>2 DEF IInv, TypeOK, Synthesize
    <3> QED BY <2>2, <3>1, <1>4 DEF IInv, PendingHasJob, Synthesize
  <2> QED BY <2>1, <2>2
<1>11. IdleIsFinal'
  <2>1. \A t \in Sessions : release'[t] = "idle" => t # s
    BY <1>1 DEF IInv, OverIsOver, Synthesize
  <2> QED BY <2>1, <1>4 DEF IInv, IdleIsFinal, Synthesize
<1>12. JobsBelong'
  <2>0. \A t \in Sessions : live'[t] => gen'[t] > 0
    BY DEF IInv, JobsBelong, Synthesize
  <2> SUFFICES ASSUME NEW t \in Sessions, NEW i \in DOMAIN queue'[t]
               PROVE  /\ queue'[t][i].session = t
                      /\ queue'[t][i].awaited => live'[t] /\ queue'[t][i].gen = gen'[t]
    BY <2>0 DEF JobsBelong
  <2>1. CASE t = s /\ i = n + 1
    BY <2>1, <1>1, <1>3 DEF Synthesize
  <2>2. CASE t = s /\ i # n + 1
    <3>1. i \in 1..n
      BY <2>2, <1>2, <1>3
    <3> QED BY <2>2, <3>1, <1>2, <1>3 DEF IInv, JobsBelong, Synthesize
  <2>3. CASE t # s
    BY <2>3, <1>4 DEF IInv, JobsBelong, Synthesize
  <2> QED BY <2>1, <2>2, <2>3
<1>13. OverIsOver'
  BY DEF IInv, OverIsOver, Synthesize
<1> QED BY <1>7, <1>8, <1>9, <1>10, <1>11, <1>12, <1>13 DEF IInv

\* cancel_generation takes no job that somebody still waits for.
LEMMA CancelGenerationKeeps ==
  ASSUME IInv, NEW s \in Sessions, NEW g \in 1..MaxGens, CancelGeneration(s, g)
  PROVE  IInv'
<1> DEFINE I == {i \in DOMAIN queue[s] : queue[s][i].gen # g}
<1>1. queue[s] \in Seq(Jobs) /\ Len(queue[s]) \in Nat /\ DOMAIN queue[s] = 1..Len(queue[s])
  BY LenProperties DEF IInv, TypeOK
<1>2. /\ Retained(s, g) \in Seq(Jobs)
      /\ Len(Retained(s, g)) <= Len(queue[s])
      /\ ToSet(Retained(s, g)) = {queue[s][i] : i \in I}
  <2>1. I \in SUBSET (1..Len(queue[s]))
    BY <1>1
  <2> HIDE DEF I
  <2>2. Retained(s, g) = SelectPlaces(queue[s], I)
    BY DEF Retained, I
  <2> QED BY <1>1, <2>1, <2>2, Selected
<1>3. queue'[s] = Retained(s, g) /\ \A t \in Sessions \ {s} : queue'[t] = queue[t]
  BY DEF IInv, TypeOK, CancelGeneration
<1>4. queue' \in [Sessions -> Seq(Jobs)]
  BY <1>2 DEF IInv, TypeOK, CancelGeneration
<1>5. \A i \in DOMAIN queue'[s] : \E k \in I : queue'[s][i] = queue[s][k]
  BY <1>2, <1>3 DEF ToSet
<1>6. \A k \in I : \E i \in DOMAIN queue'[s] : queue'[s][i] = queue[s][k]
  <2> SUFFICES ASSUME NEW k \in I PROVE \E i \in DOMAIN queue'[s] : queue'[s][i] = queue[s][k]
    OBVIOUS
  <2>1. queue[s][k] \in ToSet(queue'[s])
    BY <1>2, <1>3
  <2> QED BY <2>1 DEF ToSet
<1>7. /\ order' \in Seq(Sessions) /\ IsInjective(order')
      /\ ToSet(order') = IF queue'[s] = <<>> THEN ToSet(order) \ {s} ELSE ToSet(order)
  <2>1. order \in Seq(Sessions) /\ IsInjective(order)
    BY DEF IInv, TypeOK, OrderIsQueues
  <2>2. order' = IF queue'[s] = <<>> THEN RemoveFirst(order, s) ELSE order
    BY DEF CancelGeneration, DropSessionQueue
  <2> QED BY <2>1, <2>2, Removed
<1>8. queue'[s] # <<>> => queue[s] # <<>>
  <2>1. queue[s] = <<>> => Len(queue'[s]) = 0
    BY <1>1, <1>2, <1>3, EmptySeq, LenProperties
  <2> QED BY <2>1, <1>2, <1>3, EmptySeq
<1>9. TypeOK'
  <2>1. \A t \in Sessions : Len(queue'[t]) <= MaxQueue
    <3>1. Len(queue[s]) <= MaxQueue /\ MaxQueue \in Nat
      BY TtsAssumption DEF IInv, TypeOK
    <3>2. Len(queue'[s]) <= MaxQueue
      <4>1. Len(Retained(s, g)) \in Nat
        BY <1>2, LenProperties
      <4> QED BY <4>1, <3>1, <1>1, <1>2, <1>3
    <3> QED BY <3>2, <1>3 DEF IInv, TypeOK
  <2> QED BY <1>4, <1>7, <2>1 DEF IInv, TypeOK, CancelGeneration
<1>10. OrderIsQueues'
  <2>1. ActiveSessions' = ActiveSessions
    BY DEF ActiveSessions, CancelGeneration
  <2>2. Queued' = IF queue'[s] = <<>> THEN Queued \ {s} ELSE Queued
    BY <1>3, <1>8 DEF Queued
  <2> QED BY <1>7, <2>1, <2>2 DEF IInv, OrderIsQueues
<1>11. OneWorkerPerSession' /\ WorkerHasJob'
  BY DEF IInv, OneWorkerPerSession, WorkerHasJob, CancelGeneration
<1>12. PendingHasJob'
  <2> SUFFICES ASSUME NEW t \in Sessions, waiter[t] = "pending"
               PROVE  \/ \E i \in DOMAIN queue'[t] : queue'[t][i].awaited
                      \/ \E w \in Workers : active[w].session = t /\ active[w].awaited
    BY DEF PendingHasJob, CancelGeneration
  <2>1. CASE \E w \in Workers : active[w].session = t /\ active[w].awaited
    BY <2>1
  <2>2. CASE \E i \in DOMAIN queue[t] : queue[t][i].awaited
    <3>1. CASE t # s
      BY <2>2, <3>1, <1>3
    <3>2. CASE t = s
      <4>1. PICK i \in DOMAIN queue[s] : queue[s][i].awaited
        BY <2>2, <3>2
      <4>2. live[s] /\ queue[s][i].gen = gen[s]
        BY <4>1 DEF IInv, JobsBelong
      <4>3. gen[s] # g
        BY <4>2, TtsAssumption DEF IInv, TypeOK, CancelGeneration
      <4>4. i \in I
        BY <4>1, <4>2, <4>3
      <4> QED BY <3>2, <4>1, <4>4, <1>6
    <3> QED BY <3>1, <3>2
  <2> QED BY <2>1, <2>2 DEF IInv, PendingHasJob
<1>13. IdleIsFinal'
  BY <1>3, <1>8 DEF IInv, IdleIsFinal, CancelGeneration
<1>14. JobsBelong'
  BY <1>3, <1>5 DEF IInv, JobsBelong, CancelGeneration
<1>15. OverIsOver'
  BY <1>7 DEF IInv, OverIsOver, CancelGeneration
<1> QED BY <1>9, <1>10, <1>11, <1>12, <1>13, <1>14, <1>15 DEF IInv

\* A worker takes the head of a queue nobody else serves, and rotates (_next_job).
LEMMA WorkerTakesKeeps ==
  ASSUME IInv, NEW w \in Workers, WorkerTakes(w)
  PROVE  IInv'
<1>1. PICK i \in DOMAIN order :
        /\ Selects(i)
        /\ active' = [active EXCEPT ![w] = queue[order[i]][1]]
        /\ queue' = [queue EXCEPT ![order[i]] = Tail(@)]
        /\ order' = Rotated(i)
  BY DEF WorkerTakes
<1> DEFINE s == order[i]
           job == queue[s][1]
           n == Len(queue[s])
<1>2. s \in Sessions /\ queue[s] # <<>> /\ s \notin ActiveSessions
  <2>1. s \in Sessions
    BY ElementOfSeq, LenProperties DEF IInv, TypeOK
  <2> QED BY <1>1, <2>1 DEF Selects, Runnable, Queued
<1>3. /\ queue[s] \in Seq(Jobs) /\ n \in Nat \ {0} /\ DOMAIN queue[s] = 1..n
      /\ job \in Jobs /\ job.session = s /\ job # NoJob
  <2>1. queue[s] \in Seq(Jobs)
    BY <1>2 DEF IInv, TypeOK
  <2>2. n \in Nat \ {0} /\ DOMAIN queue[s] = 1..n
    BY <2>1, <1>2, LenProperties, EmptySeq
  <2>3. job \in Jobs
    BY <2>1, <2>2, ElementOfSeq
  <2>4. job.session = s
    BY <1>2, <2>2 DEF IInv, JobsBelong
  <2> QED BY <2>1, <2>2, <2>3, <2>4, JobHasSession
<1>4. active[w] = NoJob
  BY DEF IInv, WorkerHasJob, WorkerTakes
<1>5. /\ active'[w] = job
      /\ \A v \in Workers \ {w} : active'[v] = active[v]
      /\ active' \in [Workers -> Jobs \cup {NoJob}]
  BY <1>1, <1>3 DEF IInv, TypeOK
<1>6. /\ queue'[s] \in Seq(Jobs) /\ Len(queue'[s]) = n - 1 /\ DOMAIN queue'[s] = 1..(n - 1)
      /\ \A k \in 1..(n - 1) : queue'[s][k] = queue[s][k + 1]
  <2>1. queue'[s] = Tail(queue[s])
    BY <1>1, <1>2 DEF IInv, TypeOK
  <2>2. Tail(queue[s]) \in Seq(Jobs) /\ Len(Tail(queue[s])) = n - 1
        /\ \A k \in 1..Len(Tail(queue[s])) : Tail(queue[s])[k] = queue[s][k + 1]
    BY <1>2, <1>3, HeadTailProperties
  <2> QED BY <2>1, <2>2, LenProperties
<1>7. /\ \A t \in Sessions \ {s} : queue'[t] = queue[t]
      /\ queue' \in [Sessions -> Seq(Jobs)]
  <2>1. queue' = [t \in Sessions |-> IF t = s THEN queue'[s] ELSE queue[t]]
    BY <1>1, <1>2 DEF IInv, TypeOK
  <2>2. \A t \in Sessions : queue[t] \in Seq(Jobs)
    BY DEF IInv, TypeOK
  <2> QED BY <2>1, <2>2, <1>6
<1>8. order' \in Seq(Sessions) /\ IsInjective(order') /\ ToSet(order') = ToSet(order)
  <2>1. order \in Seq(Sessions) /\ IsInjective(order) /\ i \in 1..Len(order)
    BY <1>1, LenProperties DEF IInv, TypeOK, OrderIsQueues
  <2> QED BY <1>1, <2>1, RotatedAt DEF Rotated
<1>9. ActiveSessions' = ActiveSessions \cup {s}
  <2>1. \A v \in Workers : active'[v].session = IF v = w THEN s ELSE active[v].session
    BY <1>3, <1>5
  <2>2. active[w].session = "none" /\ s # "none"
    BY <1>2, <1>4, TtsAssumption DEF NoJob
  <2>3. ActiveSessions' = {active'[v].session : v \in Workers} \ {"none"}
    BY DEF ActiveSessions
  <2> HIDE DEF s
  <2> QED BY <2>1, <2>2, <2>3 DEF ActiveSessions
<1> HIDE DEF s, job, n
<1>10. TypeOK'
  <2>1. \A t \in Sessions : Len(queue'[t]) <= MaxQueue
    <3>1. n <= MaxQueue /\ MaxQueue \in Nat
      BY <1>2, TtsAssumption DEF IInv, TypeOK, n
    <3>2. Len(queue'[s]) <= MaxQueue
      BY <3>1, <1>3, <1>6
    <3> QED BY <3>2, <1>7 DEF IInv, TypeOK
  <2>2. worker' \in [Workers -> {"waiting", "begun", "streaming", "stopped"}]
    BY DEF IInv, TypeOK, WorkerTakes
  <2> QED BY <1>5, <1>7, <1>8, <2>1, <2>2 DEF IInv, TypeOK, WorkerTakes
<1>11. OrderIsQueues'
  <2>1. Queued' \subseteq Queued /\ Queued \subseteq Queued' \cup {s}
    BY <1>2, <1>7 DEF Queued
  <2> QED BY <2>1, <1>8, <1>9 DEF IInv, OrderIsQueues
<1>12. OneWorkerPerSession'
  <2>1. \A v \in Workers \ {w} : active'[v].session # s
    <3>1. s # "none"
      BY <1>2, TtsAssumption
    <3> QED BY <3>1, <1>2, <1>5 DEF ActiveSessions
  <2> QED BY <2>1, <1>3, <1>5 DEF IInv, OneWorkerPerSession
<1>13. PendingHasJob'
  <2> SUFFICES ASSUME NEW t \in Sessions, waiter[t] = "pending"
               PROVE  \/ \E k \in DOMAIN queue'[t] : queue'[t][k].awaited
                      \/ \E v \in Workers : active'[v].session = t /\ active'[v].awaited
    BY DEF PendingHasJob, WorkerTakes
  <2>1. CASE \E v \in Workers : active[v].session = t /\ active[v].awaited
    <3>1. PICK v \in Workers : active[v].session = t /\ active[v].awaited
      BY <2>1
    <3>2. v # w
      BY <3>1, <1>4 DEF NoJob
    <3> QED BY <3>1, <3>2, <1>5
  <2>2. CASE \E k \in DOMAIN queue[t] : queue[t][k].awaited
    <3>1. CASE t # s
      BY <2>2, <3>1, <1>7
    <3>2. CASE t = s
      <4>1. PICK k \in DOMAIN queue[s] : queue[s][k].awaited
        BY <2>2, <3>2
      <4>2. CASE k = 1
        BY <3>2, <4>1, <4>2, <1>3, <1>5 DEF job
      <4>3. CASE k # 1
        <5>1. k - 1 \in 1..(n - 1) /\ (k - 1) + 1 = k
          BY <4>1, <4>3, <1>3
        <5>2. queue'[s][k - 1] = queue[s][k]
          BY <5>1, <1>6
        <5> QED BY <3>2, <4>1, <5>1, <5>2, <1>6
      <4> QED BY <4>2, <4>3
    <3> QED BY <3>1, <3>2
  <2> QED BY <2>1, <2>2 DEF IInv, PendingHasJob
<1>14. IdleIsFinal'
  <2>1. release[s] # "idle"
    BY <1>2 DEF IInv, IdleIsFinal
  <2>2. \A v \in Workers : active'[v].session = s \/ active'[v].session = active[v].session
    BY <1>3, <1>5
  <2> QED BY <2>1, <2>2, <1>7 DEF IInv, IdleIsFinal, WorkerTakes
<1>15. JobsBelong'
  <2>1. ASSUME NEW k \in DOMAIN queue'[s]
        PROVE  \E m \in DOMAIN queue[s] : queue'[s][k] = queue[s][m]
    <3>1. k \in 1..(n - 1) /\ k + 1 \in 1..n
      BY <1>3, <1>6
    <3> QED BY <3>1, <1>3, <1>6
  <2> QED BY <2>1, <1>2, <1>7 DEF IInv, JobsBelong, WorkerTakes
<1>16. WorkerHasJob'
  BY <1>3, <1>5 DEF IInv, TypeOK, WorkerHasJob, WorkerTakes
<1>17. OverIsOver'
  BY <1>8 DEF IInv, OverIsOver, WorkerTakes
<1> QED BY <1>10, <1>11, <1>12, <1>13, <1>14, <1>15, <1>16, <1>17 DEF IInv

\* What ends a job, apart from the runtime.
LEMMA JobEndsKeeps ==
  ASSUME IInv, NEW w \in Workers, worker[w] \in {"begun", "streaming"},
         NEW r \in {"done", "failed", "refused"}, JobEnds(w, r),
         runtime' \in [Workers -> {"idle", "active", "closing"}]
  PROVE  IInv'
<1> DEFINE s == active[w].session
<1>1. active[w] \in Jobs /\ active[w] # NoJob /\ s \in Sessions
  BY JobHasSession DEF IInv, TypeOK, WorkerHasJob
<1>2. /\ active'[w] = NoJob
      /\ \A v \in Workers \ {w} : active'[v] = active[v]
      /\ active' \in [Workers -> Jobs \cup {NoJob}]
      /\ worker' = [worker EXCEPT ![w] = "waiting"]
      /\ UNCHANGED <<gen, live, queue, release, closed>>
  BY DEF IInv, TypeOK, JobEnds
<1>3. /\ waiter' \in [Sessions -> {"none", "pending", "done", "failed", "refused", "cancelled"}]
      /\ \A t \in Sessions : waiter'[t] = "pending" =>
           waiter[t] = "pending" /\ (active[w].session = t => ~active[w].awaited)
  BY <1>1 DEF IInv, TypeOK, JobEnds
<1>4. /\ order' \in Seq(Sessions) /\ IsInjective(order')
      /\ ToSet(order') = IF queue[s] = <<>> THEN ToSet(order) \ {s} ELSE ToSet(order)
  <2>1. order \in Seq(Sessions) /\ IsInjective(order)
    BY DEF IInv, TypeOK, OrderIsQueues
  <2>2. order' = IF queue[s] = <<>> THEN RemoveFirst(order, s) ELSE order
    BY DEF JobEnds, DropSessionQueue
  <2> QED BY <2>1, <2>2, Removed
<1>5. ActiveSessions \subseteq ActiveSessions' \cup {s}
  <2>1. \A v \in Workers : v = w \/ active'[v].session = active[v].session
    BY <1>2
  <2> QED BY <2>1 DEF ActiveSessions
<1>6. TypeOK'
  BY <1>2, <1>3, <1>4 DEF IInv, TypeOK
<1>7. OrderIsQueues'
  <2>1. Queued' = Queued
    BY <1>2 DEF Queued
  <2>2. s \in Queued <=> queue[s] # <<>>
    BY <1>1 DEF Queued
  <2> HIDE DEF s
  <2> QED BY <2>1, <2>2, <1>4, <1>5 DEF IInv, OrderIsQueues
<1>8. OneWorkerPerSession'
  <2>1. NoJob.session = "none"
    BY DEF NoJob
  <2>2. \A v \in Workers : active[v] # NoJob => active[v].session # "none"
    BY JobHasSession, TtsAssumption DEF IInv, TypeOK
  <2> QED BY <2>1, <2>2, <1>2 DEF IInv, OneWorkerPerSession
<1>9. PendingHasJob'
  BY <1>2, <1>3 DEF IInv, PendingHasJob
<1>10. IdleIsFinal'
  <2>1. NoJob.session = "none"
    BY DEF NoJob
  <2> QED BY <2>1, <1>2, TtsAssumption DEF IInv, IdleIsFinal
<1>11. JobsBelong'
  BY <1>2 DEF IInv, JobsBelong
<1>12. WorkerHasJob'
  BY <1>2 DEF IInv, TypeOK, WorkerHasJob
<1>13. OverIsOver'
  BY <1>2, <1>4 DEF IInv, OverIsOver
<1> QED BY <1>6, <1>7, <1>8, <1>9, <1>10, <1>11, <1>12, <1>13 DEF IInv

\* The four ways a job ends (_execute_job).
LEMMA JobOverKeeps ==
  ASSUME IInv, NEW w \in Workers,
         JobIsStale(w) \/ StreamRefused(w) \/ StreamEnds(w) \/ FrameFails(w)
  PROVE  IInv'
<1>1. worker[w] \in {"begun", "streaming"}
  BY DEF JobIsStale, StreamRefused, StreamEnds, FrameFails
<1>2. runtime' \in [Workers -> {"idle", "active", "closing"}]
  BY DEF IInv, TypeOK, JobIsStale, StreamRefused, StreamEnds, FrameFails
<1>3. \E r \in {"done", "failed", "refused"} : JobEnds(w, r)
  BY DEF JobIsStale, StreamRefused, StreamEnds, FrameFails
<1> QED BY <1>1, <1>2, <1>3, JobEndsKeeps

\* aclose empties the queues and tells their waiters.
LEMMA CloseKeeps ==
  ASSUME IInv, Close
  PROVE  IInv'
<1>1. /\ queue' = [s \in Sessions |-> <<>>] /\ order' = <<>> /\ closed'
      /\ UNCHANGED <<gen, live, active, worker, runtime, release>>
  BY DEF Close
<1>2. ToSet(order') = {} /\ order' \in Seq(Sessions) /\ IsInjective(order')
  BY <1>1 DEF ToSet, IsInjective
<1>3. TypeOK'
  <2>1. waiter' \in [Sessions -> {"none", "pending", "done", "failed", "refused", "cancelled"}]
    BY DEF IInv, TypeOK, Close, CloseCancels
  <2>2. queue' \in [Sessions -> Seq(Jobs)] /\ \A s \in Sessions : Len(queue'[s]) <= MaxQueue
    BY <1>1, TtsAssumption
  <2> QED BY <1>1, <1>2, <2>1, <2>2 DEF IInv, TypeOK, Close
<1>4. OrderIsQueues'
  <2>1. Queued' = {}
    BY <1>1 DEF Queued
  <2> QED BY <2>1, <1>2 DEF OrderIsQueues
<1>5. OneWorkerPerSession' /\ WorkerHasJob'
  BY <1>1 DEF IInv, OneWorkerPerSession, WorkerHasJob
<1>6. PendingHasJob'
  BY <1>1 DEF IInv, PendingHasJob, Close, CloseCancels
<1>7. IdleIsFinal'
  BY <1>1 DEF IInv, IdleIsFinal
<1>8. JobsBelong'
  BY <1>1 DEF IInv, JobsBelong
<1>9. OverIsOver'
  BY <1>1, <1>2 DEF IInv, OverIsOver
<1> QED BY <1>3, <1>4, <1>5, <1>6, <1>7, <1>8, <1>9 DEF IInv

\* A cancelled worker leaves its job; nothing is queued any more.
LEMMA WorkerStopsKeeps ==
  ASSUME IInv, NEW w \in Workers, WorkerStops(w)
  PROVE  IInv'
<1>1. /\ active' = [active EXCEPT ![w] = NoJob]
      /\ active' \in [Workers -> Jobs \cup {NoJob}]
      /\ active'[w] = NoJob /\ \A v \in Workers \ {w} : active'[v] = active[v]
      /\ UNCHANGED <<gen, live, queue, order, release, closed>>
  BY DEF IInv, TypeOK, WorkerStops
<1>2. active[w].awaited => active[w].session \in Sessions
  BY JobHasSession DEF IInv, TypeOK, NoJob
<1>3. /\ waiter' \in [Sessions -> {"none", "pending", "done", "failed", "refused", "cancelled"}]
      /\ \A t \in Sessions : waiter'[t] = "pending" =>
           waiter[t] = "pending" /\ (active[w].session = t => ~active[w].awaited)
  BY <1>2 DEF IInv, TypeOK, WorkerStops
<1>4. TypeOK'
  <2>1. /\ runtime' \in [Workers -> {"idle", "active", "closing"}]
        /\ worker' \in [Workers -> {"waiting", "begun", "streaming", "stopped"}]
    BY DEF IInv, TypeOK, WorkerStops
  <2> QED BY <1>1, <1>3, <2>1 DEF IInv, TypeOK
<1>5. OrderIsQueues'
  <2>1. ToSet(order) = {}
    BY DEF IInv, OverIsOver, WorkerStops
  <2>2. Queued' = Queued /\ order' = order
    BY <1>1 DEF Queued
  <2> QED BY <2>1, <2>2 DEF IInv, OrderIsQueues
<1>6. OneWorkerPerSession'
  <2>1. NoJob.session = "none"
    BY DEF NoJob
  <2>2. \A v \in Workers : active[v] # NoJob => active[v].session # "none"
    BY JobHasSession, TtsAssumption DEF IInv, TypeOK
  <2> QED BY <2>1, <2>2, <1>1 DEF IInv, OneWorkerPerSession
<1>7. PendingHasJob'
  BY <1>1, <1>3 DEF IInv, PendingHasJob
<1>8. IdleIsFinal'
  <2>1. NoJob.session = "none"
    BY DEF NoJob
  <2> QED BY <2>1, <1>1, TtsAssumption DEF IInv, IdleIsFinal
<1>9. JobsBelong' /\ OverIsOver'
  BY <1>1 DEF IInv, JobsBelong, OverIsOver
<1>10. WorkerHasJob'
  BY <1>1 DEF IInv, TypeOK, WorkerHasJob, WorkerStops
<1> QED BY <1>4, <1>5, <1>6, <1>7, <1>8, <1>9, <1>10 DEF IInv

\* The scheduler before its first job.
LEMMA InitHolds == ASSUME Init PROVE IInv
<1>1. order \in Seq(Sessions) /\ IsInjective(order) /\ ToSet(order) = {}
  BY DEF Init, IsInjective, ToSet
<1>2. TypeOK
  <2>1. queue \in [Sessions -> Seq(Jobs)] /\ \A s \in Sessions : Len(queue[s]) <= MaxQueue
    BY TtsAssumption DEF Init
  <2>2. active \in [Workers -> Jobs \cup {NoJob}]
    BY DEF Init
  <2>3. gen \in [Sessions -> 0..MaxGens]
    BY TtsAssumption DEF Init
  <2>4. /\ live \in [Sessions -> BOOLEAN]
        /\ waiter \in [Sessions -> {"none", "pending", "done", "failed", "refused", "cancelled"}]
        /\ worker \in [Workers -> {"waiting", "begun", "streaming", "stopped"}]
        /\ runtime \in [Workers -> {"idle", "active", "closing"}]
        /\ release \in [Sessions -> {"no", "waiting", "idle"}]
        /\ closed \in BOOLEAN
    BY DEF Init
  <2> QED BY <1>1, <2>1, <2>2, <2>3, <2>4 DEF TypeOK
<1>3. OrderIsQueues
  BY <1>1 DEF Init, OrderIsQueues, Queued
<1>4. OneWorkerPerSession /\ PendingHasJob /\ IdleIsFinal
  BY DEF Init, OneWorkerPerSession, PendingHasJob, IdleIsFinal
<1>5. JobsBelong /\ WorkerHasJob /\ OverIsOver
  BY <1>1 DEF Init, JobsBelong, WorkerHasJob, OverIsOver
<1> QED BY <1>2, <1>3, <1>4, <1>5 DEF IInv

\* A step of somebody else.
LEMMA StutterKeeps == ASSUME IInv, UNCHANGED vars PROVE IInv'
<1> USE DEF vars
<1>1. TypeOK' /\ OneWorkerPerSession' /\ PendingHasJob' /\ IdleIsFinal'
  BY DEF IInv, TypeOK, OneWorkerPerSession, PendingHasJob, IdleIsFinal
<1>2. OrderIsQueues' /\ JobsBelong' /\ WorkerHasJob' /\ OverIsOver'
  BY DEF IInv, OrderIsQueues, Queued, ActiveSessions, JobsBelong, WorkerHasJob, OverIsOver
<1> QED BY <1>1, <1>2 DEF IInv

-----------------------------------------------------------------------------
(* The theorems.                                                           *)

\* The invariant of the scheduler between two lock sections (tts.py), for any
\* number of sessions, workers and jobs.
THEOREM InductiveInvariant == Spec => []IInv
<1>1. Init => IInv
  BY InitHolds
<1>2. IInv /\ [Next]_vars => IInv'
  <2> SUFFICES ASSUME IInv, [Next]_vars PROVE IInv'
    OBVIOUS
  <2>1. ASSUME NEW s \in Sessions, GenerationStarts(s) PROVE IInv'
    BY <2>1, GenerationStartsKeeps
  <2>2. ASSUME NEW s \in Sessions, GenerationEnds(s) PROVE IInv'
    BY <2>2, GenerationEndsKeeps
  <2>3. ASSUME NEW s \in Sessions, NEW g \in 1..MaxGens, CancelGeneration(s, g) PROVE IInv'
    BY <2>3, CancelGenerationKeeps
  <2>4. ASSUME NEW s \in Sessions, NEW final \in BOOLEAN, Synthesize(s, final) PROVE IInv'
    BY <2>4, SynthesizeKeeps
  <2>5. ASSUME NEW s \in Sessions, DrainWaits(s) \/ SessionIsIdle(s) PROVE IInv'
    BY <2>5, ReleaseKeeps
  <2>6. ASSUME NEW w \in Workers, WorkerStep(w) PROVE IInv'
    BY <2>6, WorkerTakesKeeps, RuntimeKeeps, JobOverKeeps, WorkerStopsKeeps DEF WorkerStep
  <2>7. CASE Close
    BY <2>7, CloseKeeps
  <2>8. CASE UNCHANGED vars
    BY <2>8, StutterKeeps
  <2> QED BY <2>1, <2>2, <2>3, <2>4, <2>5, <2>6, <2>7, <2>8 DEF Next
<1> QED BY <1>1, <1>2, PTL DEF Spec

\* Two workers never speak segments of the same session at once (_has_runnable_job,
\* _next_job).
THEOREM OneWorkerPerSessionAlways == Spec => []OneWorkerPerSession
<1>1. IInv => OneWorkerPerSession
  BY DEF IInv
<1> QED BY <1>1, InductiveInvariant, PTL

\* A queued job is always found: the rotating order lists its session
\* (synthesize, _next_job, _drop_session_queue).
THEOREM OrderIsQueuesAlways == Spec => []OrderIsQueues
<1>1. IInv => OrderIsQueues
  BY DEF IInv
<1> QED BY <1>1, InductiveInvariant, PTL

\* No accepted segment is lost (synthesize, cancel_generation, _execute_job, aclose).
THEOREM PendingHasJobAlways == Spec => []PendingHasJob
<1>1. IInv => PendingHasJob
  BY DEF IInv
<1> QED BY <1>1, InductiveInvariant, PTL

\* A session that was found idle is never touched again (wait_session_idle).
THEOREM IdleIsFinalAlways == Spec => []IdleIsFinal
<1>1. IInv => IdleIsFinal
  BY DEF IInv
<1> QED BY <1>1, InductiveInvariant, PTL

\* Only _next_job gives a worker a job.
LEMMA OnlyTakesBegin ==
  ASSUME IInv, [Next]_vars, NEW w \in Workers, active[w] = NoJob, active'[w] # NoJob
  PROVE  WorkerTakes(w)
<1>1. ~UNCHANGED active
  OBVIOUS
<1>2. active \in [Workers -> Jobs \cup {NoJob}] /\ NoJob.session = "none"
  BY DEF IInv, TypeOK, NoJob
<1>3. ASSUME NEW t \in Sessions, GenerationEnds(t) PROVE FALSE
  <2>1. active'[w] = IF active[w].session = t THEN [active[w] EXCEPT !.awaited = FALSE]
                     ELSE active[w]
    BY <1>3 DEF GenerationEnds
  <2> QED BY <2>1, <1>2, TtsAssumption
<1>4. ASSUME NEW v \in Workers, active' = [active EXCEPT ![v] = NoJob] PROVE FALSE
  BY <1>2, <1>4
<1>5. ~Close /\ ~UNCHANGED vars
  BY <1>1 DEF Close, vars
<1>6. \A t \in Sessions : /\ ~GenerationStarts(t) /\ ~DrainWaits(t) /\ ~SessionIsIdle(t)
                          /\ \A g \in 1..MaxGens : ~CancelGeneration(t, g)
                          /\ \A final \in BOOLEAN : ~Synthesize(t, final)
  BY <1>1 DEF GenerationStarts, DrainWaits, SessionIsIdle, CancelGeneration, Synthesize
<1>7. \A v \in Workers :
        /\ ~StreamBegins(v) /\ ~IteratorCloses(v)
        /\ ~JobIsStale(v) /\ ~StreamRefused(v) /\ ~StreamEnds(v) /\ ~FrameFails(v)
        /\ ~WorkerStops(v)
  BY <1>1, <1>4 DEF StreamBegins, IteratorCloses, JobIsStale, StreamRefused, StreamEnds,
                    FrameFails, WorkerStops, JobEnds
<1>8. PICK v \in Workers : WorkerTakes(v)
  <2>1. Next
    BY <1>5
  <2> QED BY <2>1, <1>3, <1>5, <1>6, <1>7 DEF Next, WorkerStep
<1>9. w = v
  BY <1>2, <1>8 DEF WorkerTakes
<1> QED BY <1>8, <1>9

\* A worker takes filler speech only when no final segment could be taken
\* instead: the order lists every session that could be served (_next_job).
THEOREM FinalsBeforeFillerAlways == Spec => FinalsBeforeFiller
<1>1. ASSUME IInv, [Next]_vars, NEW w \in Workers,
             active[w] = NoJob, active'[w] # NoJob, ~active'[w].final,
             NEW s \in Sessions, Runnable(s)
      PROVE  ~queue[s][1].final
  <2>1. PICK i \in DOMAIN order : Selects(i) /\ active' = [active EXCEPT ![w] = queue[order[i]][1]]
    BY <1>1, OnlyTakesBegin DEF WorkerTakes
  <2>2. active'[w] = queue[order[i]][1]
    BY <1>1, <2>1 DEF IInv, TypeOK
  <2>3. \A j \in DOMAIN order : Runnable(order[j]) => ~queue[order[j]][1].final
    BY <2>1, <2>2, <1>1 DEF Selects
  <2>4. \E j \in DOMAIN order : order[j] = s
    BY <1>1 DEF IInv, OrderIsQueues, Runnable, ToSet
  <2> QED BY <2>3, <2>4, <1>1
<1>2. IInv /\ [Next]_vars
        => [\A w \in Workers :
              active[w] = NoJob /\ active'[w] # NoJob /\ ~active'[w].final =>
                \A s \in Sessions : Runnable(s) => ~queue[s][1].final]_vars
  BY <1>1
<1> QED BY <1>2, InductiveInvariant, PTL DEF Spec, FinalsBeforeFiller

-----------------------------------------------------------------------------
(* The rotation.                                                           *)

\* Whoever looks from the front finds s before t.
Ahead(o, s, t) == \A i, j \in DOMAIN o : o[i] = s /\ o[j] = t => i < j

\* A session that leaves the order changes no other's place among the rest.
LEMMA RemovedAhead ==
  ASSUME NEW S, NEW o \in Seq(S), IsInjective(o), NEW x, NEW s, NEW t, Ahead(o, s, t)
  PROVE  Ahead(RemoveFirst(o, x), s, t)
<1>1. Len(o) \in Nat /\ DOMAIN o = 1..Len(o)
  BY LenProperties
<1>2. CASE \A i \in 1..Len(o) : o[i] # x
  BY <1>1, <1>2 DEF RemoveFirst
<1>3. ASSUME NEW k \in 1..Len(o), o[k] = x PROVE Ahead(RemoveFirst(o, x), s, t)
  <2> DEFINE r == RemoveAt(o, k)
  <2>1. r = RemoveFirst(o, x)
    BY <1>3, FoundPlace
  <2>2. /\ r \in Seq(S) /\ Len(r) = Len(o) - 1
        /\ \A j \in 1..(Len(o) - 1) : r[j] = IF j < k THEN o[j] ELSE o[j + 1]
    BY RemovedPlaces
  <2> HIDE DEF r
  <2>3. DOMAIN r = 1..(Len(o) - 1)
    BY <2>2, LenProperties
  <2>4. ASSUME NEW i \in 1..(Len(o) - 1), NEW j \in 1..(Len(o) - 1), r[i] = s, r[j] = t
        PROVE  i < j
    <3>1. PICK m \in 1..Len(o) : r[i] = o[m] /\ m = IF i < k THEN i ELSE i + 1
      BY <1>1, <2>2
    <3>2. PICK n \in 1..Len(o) : r[j] = o[n] /\ n = IF j < k THEN j ELSE j + 1
      BY <1>1, <2>2
    <3>3. m < n
      BY <1>1, <2>4, <3>1, <3>2 DEF Ahead
    <3> QED BY <1>1, <3>1, <3>2, <3>3
  <2> QED BY <2>1, <2>3, <2>4 DEF Ahead
<1> QED BY <1>2, <1>3

\* A new session comes last.
LEMMA AppendedAhead ==
  ASSUME NEW S, NEW o \in Seq(S), NEW x \in S, NEW s \in ToSet(o), x \notin ToSet(o),
         NEW t, Ahead(o, s, t)
  PROVE  Ahead(Append(o, x), s, t)
<1> DEFINE r == Append(o, x)
<1>1. /\ Len(o) \in Nat /\ DOMAIN o = 1..Len(o) /\ DOMAIN r = 1..(Len(o) + 1)
      /\ \A j \in 1..Len(o) : r[j] = o[j]
      /\ r[Len(o) + 1] = x
  BY AppendProperties, LenProperties
<1> HIDE DEF r
<1>2. x # s
  OBVIOUS
<1>3. ASSUME NEW i \in 1..(Len(o) + 1), NEW j \in 1..(Len(o) + 1), r[i] = s, r[j] = t
      PROVE  i < j
  <2>1. i \in 1..Len(o)
    BY <1>1, <1>2, <1>3
  <2>2. CASE j = Len(o) + 1
    BY <1>1, <2>1, <2>2
  <2>3. CASE j \in 1..Len(o)
    BY <1>1, <1>3, <2>1, <2>3 DEF Ahead
  <2> QED BY <1>1, <2>2, <2>3
<1> QED BY <1>1, <1>3 DEF Ahead, r

\* The one that was selected goes behind all that come after it, whose order stays.
LEMMA RotatedAhead ==
  ASSUME NEW S, NEW o \in Seq(S), IsInjective(o), NEW i \in 1..Len(o), NEW p \in 1..Len(o), i < p,
         NEW t, t = o[i] \/ Ahead(o, o[p], t)
  PROVE  Ahead(SubSeq(o, i + 1, Len(o)) \o SubSeq(o, 1, i), o[p], t)
<1> DEFINE r == SubSeq(o, i + 1, Len(o)) \o SubSeq(o, 1, i)
           Place(j) == IF j <= Len(o) - i THEN i + j ELSE j - (Len(o) - i)
<1>1. Len(o) \in Nat /\ DOMAIN o = 1..Len(o)
  BY LenProperties
<1>2. DOMAIN r = 1..Len(o)
  BY RotatedPlaces
<1>3. \A j \in 1..Len(o) : Place(j) \in 1..Len(o) /\ r[j] = o[Place(j)]
  BY RotatedPlaces
<1> HIDE DEF r
<1>4. ASSUME NEW k \in 1..Len(o), NEW j \in 1..Len(o), r[k] = o[p], r[j] = t
      PROVE  k < j
  <2>1. Place(k) = p
    <3>1. Place(k) \in 1..Len(o) /\ o[Place(k)] = o[p]
      BY <1>3, <1>4
    <3> HIDE DEF Place
    <3> QED BY <1>1, <3>1 DEF IsInjective
  <2>2. k = p - i /\ k <= Len(o) - i
    BY <1>1, <2>1
  <2>3. Place(j) \in 1..Len(o) /\ o[Place(j)] = t
    BY <1>3, <1>4
  <2>4. Place(j) = i \/ p < Place(j)
    <3> HIDE DEF Place
    <3>1. CASE t = o[i]
      BY <1>1, <2>3, <3>1 DEF IsInjective
    <3>2. CASE Ahead(o, o[p], t)
      BY <1>1, <2>3, <3>2 DEF Ahead
    <3> QED BY <3>1, <3>2
  <2> QED BY <1>1, <2>2, <2>4
<1> QED BY <1>2, <1>4 DEF Ahead, r

\* A step in which nobody is taken leaves who comes first, among those who stay.
LEMMA OrderGoesOn ==
  ASSUME IInv, [Next]_vars, \A w \in Workers : ~WorkerTakes(w),
         NEW s \in ToSet(order), s \in ToSet(order'), NEW t, Ahead(order, s, t)
  PROVE  Ahead(order', s, t)
<1>1. order \in Seq(Sessions) /\ IsInjective(order)
  BY DEF IInv, TypeOK, OrderIsQueues
<1>2. ASSUME NEW q, NEW x, order' = DropSessionQueue(q, order, x) PROVE Ahead(order', s, t)
  BY <1>1, <1>2, RemovedAhead DEF DropSessionQueue
<1>3. ASSUME NEW x \in Sessions, NEW final \in BOOLEAN, Synthesize(x, final)
      PROVE  Ahead(order', s, t)
  <2>1. CASE Contains(order, x)
    BY <1>3, <2>1 DEF Synthesize
  <2>2. CASE ~Contains(order, x)
    <3>1. order' = Append(order, x) /\ x \notin ToSet(order)
      BY <1>3, <2>2 DEF Synthesize, Contains, ToSet
    <3> QED BY <1>1, <3>1, AppendedAhead
  <2> QED BY <2>1, <2>2
<1>4. ASSUME NEW w \in Workers, WorkerStep(w) PROVE Ahead(order', s, t)
  <2>1. CASE JobIsStale(w) \/ StreamRefused(w) \/ StreamEnds(w) \/ FrameFails(w)
    <3>1. \E r : JobEnds(w, r)
      BY <2>1 DEF JobIsStale, StreamRefused, StreamEnds, FrameFails
    <3>2. order' = DropSessionQueue(queue, order, active[w].session)
      BY <3>1 DEF JobEnds
    <3> QED BY <3>2, <1>2
  <2>2. CASE StreamBegins(w) \/ IteratorCloses(w) \/ WorkerStops(w)
    <3>1. order' = order
      BY <2>2 DEF StreamBegins, IteratorCloses, WorkerStops
    <3> QED BY <3>1
  <2> QED BY <1>4, <2>1, <2>2 DEF WorkerStep
<1>5. ASSUME NEW x \in Sessions, NEW g \in 1..MaxGens, CancelGeneration(x, g)
      PROVE  Ahead(order', s, t)
  <2>1. order' = DropSessionQueue(queue', order, x)
    BY <1>5 DEF CancelGeneration
  <2> QED BY <2>1, <1>2
<1>6. ASSUME NEW x \in Sessions,
             GenerationStarts(x) \/ GenerationEnds(x) \/ DrainWaits(x) \/ SessionIsIdle(x)
      PROVE  Ahead(order', s, t)
  <2>1. order' = order
    BY <1>6 DEF GenerationStarts, GenerationEnds, DrainWaits, SessionIsIdle
  <2> QED BY <2>1
<1>7. ~Close
  <2>1. ToSet(<<>>) = {}
    BY DEF ToSet
  <2> QED BY <2>1 DEF Close
<1>8. CASE UNCHANGED vars
  BY <1>8 DEF vars
<1> QED BY <1>3, <1>4, <1>5, <1>6, <1>7, <1>8 DEF Next

\* Who has been overtaken by a session once comes before it ever after.
Rotation ==
  \A s, t \in Sessions : FinalReady(s) /\ overtaken[s][t] # 0 =>
    overtaken[s][t] = 1 /\ Ahead(order, s, t)

Counts == overtaken \in [Sessions -> [Sessions -> 0..2]]

\* The session that is taken comes before every other with a final segment.
LEMMA TakenFirst ==
  ASSUME IInv, NEW w \in Workers, WorkerTakes(w), NEW i \in DOMAIN order, Selects(i),
         active' = [active EXCEPT ![w] = queue[order[i]][1]],
         NEW s \in Sessions, FinalReady(s), FinalReady(s)', NEW p \in DOMAIN order, order[p] = s
  PROVE  i < p /\ active'[w].session = order[i]
<1>1. /\ order \in Seq(Sessions) /\ Len(order) \in Nat /\ DOMAIN order = 1..Len(order)
      /\ order[i] \in Sessions
  BY LenProperties, ElementOfSeq DEF IInv, TypeOK
<1>2. Selects(i) => Runnable(order[i])
  BY DEF Selects
<1>3. active'[w] = queue[order[i]][1] /\ queue[order[i]][1].session = order[i]
  <2>1. queue[order[i]] # <<>> /\ queue[order[i]] \in Seq(Jobs)
    BY <1>1, <1>2 DEF Runnable, Queued, IInv, TypeOK
  <2>2. 1 \in DOMAIN queue[order[i]]
    BY <2>1, LenProperties, EmptySeq
  <2> QED BY <1>1, <2>2 DEF IInv, TypeOK, JobsBelong
<1>4. ~(p < i)
  BY <1>1 DEF Selects, FinalReady
<1>5. p # i
  <2>1. order[i] \in ActiveSessions'
    BY <1>1, <1>3, TtsAssumption DEF ActiveSessions
  <2>2. s \notin ActiveSessions'
    BY DEF FinalReady, Runnable
  <2> QED BY <2>1, <2>2
<1> QED BY <1>1, <1>3, <1>4, <1>5

LEMMA RotationKept ==
  ASSUME IInv, IInv', Counts, Rotation, HistoryNext PROVE Rotation'
<1> SUFFICES ASSUME NEW s \in Sessions, NEW t \in Sessions, FinalReady(s)', overtaken'[s][t] # 0
             PROVE  overtaken'[s][t] = 1 /\ Ahead(order', s, t)
  BY DEF Rotation
<1> DEFINE before == \E w \in Taken : active'[w].session = t
<1>1. Next /\ [Next]_vars /\ overtaken'[s] = Counted(s)
  BY DEF HistoryNext
<1>2. /\ FinalReady(s)
      /\ overtaken'[s][t] = IF overtaken[s][t] < 2 /\ before THEN overtaken[s][t] + 1
                            ELSE overtaken[s][t]
  BY <1>1 DEF Counted, NobodyYet
<1> HIDE DEF before
<1>3. s \in ToSet(order) /\ s \in ToSet(order')
  <2>1. s \in Queued /\ s \in Queued'
    BY <1>2 DEF FinalReady, Runnable
  <2> QED BY <2>1 DEF IInv, OrderIsQueues
<1>4. overtaken[s][t] \in 0..2
  BY DEF Counts
<1>5. CASE \A w \in Workers : ~WorkerTakes(w)
  <2>1. Taken = {}
    BY <1>1, <1>5, OnlyTakesBegin DEF Taken
  <2>2. overtaken'[s][t] = overtaken[s][t]
    BY <1>2, <2>1 DEF before
  <2>3. overtaken[s][t] = 1 /\ Ahead(order, s, t)
    BY <1>2, <2>2 DEF Rotation
  <2> QED BY <1>1, <1>3, <1>5, <2>2, <2>3, OrderGoesOn
<1>6. ASSUME NEW w \in Workers, WorkerTakes(w)
      PROVE  overtaken'[s][t] = 1 /\ Ahead(order', s, t)
  <2>1. PICK i \in DOMAIN order : /\ Selects(i) /\ order' = Rotated(i)
                                  /\ active' = [active EXCEPT ![w] = queue[order[i]][1]]
    BY <1>6 DEF WorkerTakes
  <2>2. PICK p \in DOMAIN order : order[p] = s
    BY <1>3 DEF ToSet
  <2>3. i < p /\ active'[w].session = order[i]
    BY <1>2, <1>6, <2>1, <2>2, TakenFirst
  <2>4. order \in Seq(Sessions) /\ IsInjective(order) /\ DOMAIN order = 1..Len(order)
    BY LenProperties DEF IInv, TypeOK, OrderIsQueues
  <2>5. before => t = order[i]
    <3>1. \A v \in Taken : v = w
      BY <2>1 DEF Taken, IInv, TypeOK
    <3> QED BY <2>3, <3>1 DEF before
  <2>6. overtaken[s][t] # 0 => overtaken[s][t] = 1 /\ Ahead(order, s, t)
    BY <1>2 DEF Rotation
  <2>7. CASE t = order[i]
    <3>1. overtaken[s][t] = 0
      <4>1. ~Ahead(order, s, t)
        BY <2>2, <2>3, <2>4, <2>7 DEF Ahead
      <4> QED BY <2>6, <4>1
    <3>2. overtaken'[s][t] = 1
      BY <1>2, <3>1
    <3>3. i \in 1..Len(order) /\ p \in 1..Len(order)
      BY <2>4
    <3>4. Ahead(order', order[p], t)
      BY <2>1, <2>3, <2>4, <2>7, <3>3, RotatedAhead DEF Rotated
    <3> QED BY <2>2, <3>2, <3>4
  <2>8. CASE t # order[i]
    <3>1. overtaken'[s][t] = overtaken[s][t]
      BY <1>2, <2>5, <2>8
    <3>2. overtaken'[s][t] = 1 /\ Ahead(order, order[p], t)
      BY <2>2, <2>6, <3>1
    <3> QED BY <2>1, <2>2, <2>3, <2>4, <3>2, RotatedAhead DEF Rotated
  <2> QED BY <2>7, <2>8
<1> QED BY <1>5, <1>6

\* The rotation is fair, to any number of sessions on any number of workers: while a
\* session has a final segment that could be spoken, no other one has two of its
\* segments begun before it (_next_job).
THEOREM NobodyOvertakesTwiceAlways == HistorySpec => []NobodyOvertakesTwice
<1>1. HistorySpec => Spec
  <2>1. [HistoryNext]_<<vars, overtaken>> => [Next]_vars
    BY DEF HistoryNext
  <2> QED BY <2>1, PTL DEF HistorySpec, HistoryInit, Spec
<1>2. HistoryInit => Counts /\ Rotation
  BY DEF HistoryInit, NobodyYet, Counts, Rotation
<1>3. Counts /\ [HistoryNext]_<<vars, overtaken>> => Counts'
  <2>1. ASSUME Counts, HistoryNext PROVE Counts'
    <3>1. \A s \in Sessions : Counted(s) \in [Sessions -> 0..2]
      BY <2>1 DEF Counts, Counted, NobodyYet
    <3> QED BY <2>1, <3>1 DEF HistoryNext, Counts
  <2> QED BY <2>1 DEF Counts
<1>4. IInv /\ IInv' /\ Counts /\ Rotation /\ [HistoryNext]_<<vars, overtaken>> => Rotation'
  <2>1. ASSUME Rotation, UNCHANGED <<vars, overtaken>> PROVE Rotation'
    <3>1. \A s \in Sessions : FinalReady(s)' = FinalReady(s)
      BY <2>1 DEF vars, FinalReady, Runnable, Queued, ActiveSessions
    <3> QED BY <2>1, <3>1 DEF Rotation, Ahead, vars
  <2> QED BY <2>1, RotationKept
<1>5. Rotation => NobodyOvertakesTwice
  <2> SUFFICES ASSUME Rotation, NEW s \in Sessions, NEW t \in Sessions, FinalReady(s)
               PROVE  overtaken[s][t] < 2
    BY DEF NobodyOvertakesTwice
  <2>1. overtaken[s][t] = 0 \/ overtaken[s][t] = 1
    BY DEF Rotation
  <2> QED BY <2>1
<1> QED BY <1>1, <1>2, <1>3, <1>4, <1>5, InductiveInvariant, PTL DEF HistorySpec
=============================================================================
