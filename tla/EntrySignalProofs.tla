--------------------------- MODULE EntrySignalProofs ---------------------------
(***************************************************************************)
(* Theorems about the books and the signal that is made of them, for any   *)
(* prices, sizes, answers of the follower's exchange, thresholds and any   *)
(* number of messages under way.                                           *)
(***************************************************************************)
EXTENDS EntrySignal, FiniteSetTheorems, SequenceTheorems, TLAPS

(***************************************************************************)
(* Ranks                                                                   *)
(***************************************************************************)

RankOf(Q, B) == [k \in Q |-> Cardinality({i \in Q : <<i, k>> \in B})]

StrictTotalOrder(Q, B) ==
  /\ \A i \in Q : <<i, i>> \notin B
  /\ \A i, j, k \in Q : <<i, j>> \in B /\ <<j, k>> \in B => <<i, k>> \in B
  /\ \A i, j \in Q : i # j => <<i, j>> \in B \/ <<j, i>> \in B

\* In a strict total order of N things the ranks are 0, ..., N - 1: they grow along the
\* order, so they are all different, and none is as great as N.
LEMMA RanksTaken ==
  ASSUME NEW Q, IsFiniteSet(Q), NEW B, StrictTotalOrder(Q, B)
  PROVE  /\ \A n \in 1..Cardinality(Q) : \E k \in Q : RankOf(Q, B)[k] = n - 1
         /\ \A k \in Q : RankOf(Q, B)[k] \in Nat /\ RankOf(Q, B)[k] < Cardinality(Q)
         /\ \A j, k \in Q : <<j, k>> \in B => RankOf(Q, B)[j] < RankOf(Q, B)[k]
         /\ \A j, k \in Q : RankOf(Q, B)[j] = RankOf(Q, B)[k] => j = k
<1> DEFINE N == Cardinality(Q)
           less(k) == {i \in Q : <<i, k>> \in B}
           r == RankOf(Q, B)
<1>1. N \in Nat
  BY FS_CardinalityType
<1>2. \A k \in Q : r[k] = Cardinality(less(k))
  BY DEF RankOf
<1>3. \A k \in Q : IsFiniteSet(less(k)) /\ r[k] \in Nat /\ r[k] <= N - 1
  <2> SUFFICES ASSUME NEW k \in Q
               PROVE  IsFiniteSet(less(k)) /\ r[k] \in Nat /\ r[k] <= N - 1
    OBVIOUS
  <2>1. less(k) \in SUBSET (Q \ {k})
    BY DEF StrictTotalOrder
  <2>2. IsFiniteSet(Q \ {k}) /\ Cardinality(Q \ {k}) = N - 1
    BY FS_RemoveElement
  <2> HIDE DEF less, r, N
  <2>3. IsFiniteSet(less(k)) /\ Cardinality(less(k)) <= N - 1
    BY <2>1, <2>2, FS_Subset
  <2> QED
    BY <1>2, <2>3, FS_CardinalityType
<1>4. ASSUME NEW j \in Q, NEW k \in Q, <<j, k>> \in B
      PROVE  r[j] < r[k]
  <2>1. less(j) \in SUBSET less(k)
    BY <1>4 DEF StrictTotalOrder
  <2>2. j \in less(k) /\ j \notin less(j)
    BY <1>4 DEF StrictTotalOrder
  <2>3. IsFiniteSet(less(k)) /\ r[j] \in Nat /\ r[k] \in Nat
    BY <1>3
  <2> HIDE DEF less, r
  <2> QED
    BY <1>2, <2>1, <2>2, <2>3, FS_Subset
<1>a. \A j, k \in Q : r[j] = r[k] => j = k
  <2>1. \A j, k \in Q : j # k => <<j, k>> \in B \/ <<k, j>> \in B
    BY DEF StrictTotalOrder
  <2>2. \A k \in Q : r[k] \in Nat
    BY <1>3
  <2>3. \A j, k \in Q : <<j, k>> \in B => r[j] < r[k]
    BY <1>4
  <2> HIDE DEF r, N, less
  <2> SUFFICES ASSUME NEW j \in Q, NEW k \in Q, j # k PROVE r[j] # r[k]
    OBVIOUS
  <2>4. r[j] < r[k] \/ r[k] < r[j]
    BY <2>1, <2>3
  <2> QED
    BY <2>2, <2>4
<1>5. r \in Injection(Q, 0..(N - 1))
  <2>1. r \in [Q -> 0..(N - 1)]
    <3>1. r = [k \in Q |-> r[k]]
      BY DEF RankOf
    <3> HIDE DEF r, N, less
    <3> QED
      BY <1>1, <1>3, <3>1
  <2> HIDE DEF r, N
  <2> QED
    BY <1>a, <2>1 DEF Injection, IsInjective
<1>6. IsFiniteSet(0..(N - 1)) /\ Cardinality(0..(N - 1)) = N
  <2> HIDE DEF N
  <2> QED
    BY <1>1, FS_Interval
<1>7. r \in Surjection(Q, 0..(N - 1))
  <2> HIDE DEF r, N
  <2> QED
    BY <1>1, <1>5, <1>6, FS_Injection DEF N
<1>8. \A n \in 1..N : \E k \in Q : r[k] = n - 1
  <2>1. \A n \in 1..N : n - 1 \in 0..(N - 1)
    BY <1>1
  <2> HIDE DEF r, N
  <2> QED
    BY <1>7, <2>1 DEF Surjection
<1>9. \A k \in Q : r[k] \in Nat /\ r[k] < N
  <2>1. \A k \in Q : r[k] \in Nat /\ r[k] <= N - 1
    BY <1>3
  <2> HIDE DEF r, N, less
  <2> QED
    BY <1>1, <2>1
<1> QED
  BY <1>4, <1>a, <1>8, <1>9

\* A set of naturals that is not empty has a least one.
LEMMA LeastOf ==
  ASSUME NEW T \in SUBSET Nat, T # {}
  PROVE  \E m \in T : \A k \in T : m <= k
<1>1. PICK x \in T : TRUE
  OBVIOUS
<1> DEFINE Q == T \cap (0..x)
           B == {ij \in Q \X Q : ij[1] < ij[2]}
<1>2. IsFiniteSet(Q)
  <2>1. IsFiniteSet(0..x)
    BY FS_Interval
  <2> QED
    BY <2>1, FS_Intersection
<1>3. StrictTotalOrder(Q, B)
  BY DEF StrictTotalOrder
<1>4. Cardinality(Q) \in Nat /\ Cardinality(Q) # 0
  <2>1. x \in Q
    OBVIOUS
  <2> HIDE DEF Q
  <2> QED
    BY <1>2, <2>1, FS_CardinalityType, FS_EmptySet
<1>5. /\ \A n \in 1..Cardinality(Q) : \E k \in Q : RankOf(Q, B)[k] = n - 1
      /\ \A k \in Q : RankOf(Q, B)[k] \in Nat
      /\ \A j, k \in Q : <<j, k>> \in B => RankOf(Q, B)[j] < RankOf(Q, B)[k]
  <2> HIDE DEF Q, B
  <2> QED
    BY <1>2, <1>3, RanksTaken
<1>6. PICK m \in Q : RankOf(Q, B)[m] = 0
  <2> DEFINE c == Cardinality(Q)
  <2>1. c \in Nat /\ c # 0 => 1 \in 1..c /\ 1 - 1 = 0
    OBVIOUS
  <2> HIDE DEF Q, B
  <2> QED
    BY <1>4, <1>5, <2>1
<1>7. \A k \in Q : <<k, m>> \notin B
  <2> HIDE DEF Q, B
  <2> QED
    BY <1>5, <1>6
<1>8. \A k \in Q : ~(k < m)
  BY <1>7
<1>9. ASSUME NEW k \in T PROVE m <= k
  <2>1. CASE k \in 0..x
    BY <1>8, <2>1
  <2>2. CASE k \notin 0..x
    BY <2>2
  <2> QED
    BY <2>1, <2>2
<1> QED
  BY <1>9

(***************************************************************************)
(* Sequences                                                               *)
(***************************************************************************)

\* Intervals from 1 tell their ends apart.
LEMMA SameLength ==
  ASSUME NEW a \in Nat, NEW b \in Nat, 1..a = 1..b
  PROVE  a = b
<1>1. \A c, d \in Nat : 1..c = 1..d => c <= d
  <2> SUFFICES ASSUME NEW c \in Nat, NEW d \in Nat, 1..c = 1..d, c # 0 PROVE c <= d
    OBVIOUS
  <2>1. c \in 1..c
    OBVIOUS
  <2> QED
    BY <2>1
<1> QED
  BY <1>1

\* A function on 1..n is a sequence of length n.
LEMMA IndexedIsSeq ==
  ASSUME NEW S, NEW n \in Nat, NEW f \in [1..n -> S]
  PROVE  f \in Seq(S) /\ Len(f) = n
<1>1. f \in Seq(S)
  BY SeqDef
<1>2. Len(f) \in Nat /\ DOMAIN f = 1..Len(f) /\ DOMAIN f = 1..n
  BY <1>1, LenProperties
<1> QED
  BY <1>1, <1>2, SameLength

(***************************************************************************)
(* Sorting                                                                 *)
(***************************************************************************)

LevelsIn(levels) == {levels[n] : n \in DOMAIN levels}

\* A side as BookSide keeps it: best first, and so each price once.
BestFirst(side, levels) ==
  \A m, n \in DOMAIN levels : m < n => Better(side, levels[m], levels[n])

IsSide(side, levels) == levels \in Seq(Level) /\ BestFirst(side, levels)

\* Where each level of a sorted list comes from.
LEMMA SortedPlaces ==
  ASSUME NEW side \in Sides, NEW levels, NEW places \in SUBSET Nat, IsFiniteSet(places),
         \A k \in places : levels[k] \in Level
  PROVE  \E P \in [1..Cardinality(places) -> places] :
           /\ Sorted(side, levels, places) = [n \in 1..Cardinality(places) |-> levels[P[n]]]
           /\ \A k \in places : \E n \in 1..Cardinality(places) : P[n] = k
           /\ \A m, n \in 1..Cardinality(places) :
                m < n => Before(side, levels, P[m], P[n])
<1> DEFINE N == Cardinality(places)
           B == {ik \in places \X places : Before(side, levels, ik[1], ik[2])}
           r == RankOf(places, B)
           P == [n \in 1..N |-> CHOOSE k \in places : r[k] = n - 1]
<1>0. N \in Nat
  BY FS_CardinalityType
<1>1. StrictTotalOrder(places, B)
  <2>1. \A k \in places : levels[k].price \in Int
    BY DEF Level
  <2>2. \A i, k \in places : <<i, k>> \in B <=> Before(side, levels, i, k)
    OBVIOUS
  <2> HIDE DEF B
  <2> QED
    BY <2>1, <2>2 DEF StrictTotalOrder, Before, Better, Sides
<1>2. /\ \A n \in 1..N : \E k \in places : r[k] = n - 1
      /\ \A k \in places : r[k] \in Nat /\ r[k] < N
      /\ \A j, k \in places : <<j, k>> \in B => r[j] < r[k]
      /\ \A j, k \in places : r[j] = r[k] => j = k
  <2> HIDE DEF B
  <2> QED
    BY <1>1, RanksTaken
<1>3. \A n \in 1..N : P[n] \in places /\ r[P[n]] = n - 1
  <2> HIDE DEF r
  <2> QED
    BY <1>2
<1>4. P \in [1..N -> places]
  BY <1>3
<1>5. Sorted(side, levels, places) = [n \in 1..N |-> levels[P[n]]]
  <2>1. r = [k \in places |-> Cardinality({i \in places : Before(side, levels, i, k)})]
    <3>1. \A k \in places : {i \in places : <<i, k>> \in B} = {i \in places : Before(side, levels, i, k)}
      OBVIOUS
    <3> HIDE DEF B
    <3> QED
      BY <3>1 DEF RankOf
  <2> HIDE DEF r
  <2> QED
    BY <2>1 DEF Sorted
<1>6. \A i, k \in places : i # k /\ ~Before(side, levels, i, k) => <<k, i>> \in B
  <2>1. \A i, k \in places : <<i, k>> \in B <=> Before(side, levels, i, k)
    OBVIOUS
  <2> HIDE DEF B
  <2> QED
    BY <1>1, <2>1 DEF StrictTotalOrder
<1> HIDE DEF P, r, N, B
<1>7. ASSUME NEW k \in places PROVE \E n \in 1..N : P[n] = k
  <2>1. r[k] + 1 \in 1..N /\ (r[k] + 1) - 1 = r[k]
    BY <1>0, <1>2
  <2>2. P[r[k] + 1] \in places /\ r[P[r[k] + 1]] = r[k]
    BY <1>3, <2>1
  <2> QED
    BY <1>2, <2>1, <2>2
<1>8. ASSUME NEW m \in 1..N, NEW n \in 1..N, m < n PROVE Before(side, levels, P[m], P[n])
  <2>1. P[m] \in places /\ P[n] \in places /\ r[P[m]] = m - 1 /\ r[P[n]] = n - 1
    BY <1>3
  <2>2. m \in Int /\ n \in Int /\ ~(n - 1 < m - 1) /\ m - 1 # n - 1
    BY <1>0, <1>8
  <2> QED
    BY <1>2, <1>6, <2>1, <2>2
<1> QED
  BY <1>4, <1>5, <1>7, <1>8 DEF N

\* Sorting levels of different prices keeps them and puts the best first.
LEMMA SortLemma ==
  ASSUME NEW side \in Sides, NEW levels \in Seq(Level),
         \A m, n \in DOMAIN levels : levels[m].price = levels[n].price => m = n
  PROVE  IsSide(side, Sort(side, levels)) /\ LevelsIn(Sort(side, levels)) = LevelsIn(levels)
<1> DEFINE places == DOMAIN levels
           N == Cardinality(places)
           S == Sorted(side, levels, places)
<1>1. Len(levels) \in Nat /\ places = 1..Len(levels) /\ \A k \in places : levels[k] \in Level
  BY LenProperties, ElementOfSeq
<1>2. IsFiniteSet(places) /\ places \in SUBSET Nat /\ N \in Nat
  BY <1>1, FS_Interval, FS_CardinalityType
<1>3. PICK P \in [1..N -> places] :
        /\ S = [n \in 1..N |-> levels[P[n]]]
        /\ \A k \in places : \E n \in 1..N : P[n] = k
        /\ \A m, n \in 1..N : m < n => Before(side, levels, P[m], P[n])
  <2>1. \A k \in places : levels[k] \in Level
    BY <1>1
  <2> HIDE DEF places
  <2> QED
    BY <1>2, <2>1, SortedPlaces
<1> HIDE DEF places, N, S
<1>4. S \in [1..N -> Level]
  BY <1>1, <1>3
<1>5. S \in Seq(Level)
  BY <1>2, <1>4, SeqDef
<1>6. DOMAIN S = 1..N
  BY <1>4
<1>7. LevelsIn(S) = LevelsIn(levels)
  BY <1>3, <1>6 DEF LevelsIn, places
<1>8. ASSUME NEW m \in DOMAIN S, NEW n \in DOMAIN S, m < n
      PROVE  Better(side, S[m], S[n])
  <2>1. S[m] = levels[P[m]] /\ S[n] = levels[P[n]] /\ P[m] \in places /\ P[n] \in places
    BY <1>3, <1>6
  <2>2. Before(side, levels, P[m], P[n])
    BY <1>3, <1>6, <1>8
  <2>3. ~(P[m] < P[m])
    BY <1>2, <2>1
  <2> QED
    BY <2>1, <2>2, <2>3 DEF Before, places
<1>9. Sort(side, levels) = S
  BY DEF Sort, S, places
<1> QED
  BY <1>5, <1>7, <1>8, <1>9 DEF IsSide, BestFirst

\* The prices of a side are all different.
LEMMA PricesDiffer ==
  ASSUME NEW side \in Sides, NEW levels, IsSide(side, levels)
  PROVE  /\ Len(levels) \in Nat /\ DOMAIN levels = 1..Len(levels)
         /\ \A n \in DOMAIN levels : levels[n] \in Level
         /\ \A m, n \in DOMAIN levels : levels[m].price = levels[n].price => m = n
<1>1. Len(levels) \in Nat /\ DOMAIN levels = 1..Len(levels) /\ \A n \in DOMAIN levels : levels[n] \in Level
  BY LenProperties, ElementOfSeq DEF IsSide
<1>2. ASSUME NEW m \in DOMAIN levels, NEW n \in DOMAIN levels, m < n
      PROVE  levels[m].price # levels[n].price
  <2>1. Better(side, levels[m], levels[n])
    BY <1>2 DEF IsSide, BestFirst
  <2>2. levels[m].price \in Int /\ levels[n].price \in Int
    BY <1>1 DEF Level
  <2> QED
    BY <2>1, <2>2 DEF Better
<1>3. ASSUME NEW m \in DOMAIN levels, NEW n \in DOMAIN levels, m # n
      PROVE  levels[m].price # levels[n].price
  <2>1. m < n \/ n < m
    BY <1>1, <1>3
  <2> QED
    BY <1>2, <2>1
<1> QED
  BY <1>1, <1>3

\* swap_remove takes out the level of the price and keeps all others, each once, in
\* whatever order.
LEMMA SwapRemoveLemma ==
  ASSUME NEW levels \in Seq(Level), NEW price,
         \A m, n \in DOMAIN levels : levels[m].price = levels[n].price => m = n
  PROVE  LET after == SwapRemove(levels, price)
         IN  /\ after \in Seq(Level)
             /\ \A m, n \in DOMAIN after : after[m].price = after[n].price => m = n
             /\ LevelsIn(after) = {x \in LevelsIn(levels) : x.price # price}
<1> DEFINE after == SwapRemove(levels, price)
           N == Len(levels)
           moved == [n \in DOMAIN levels |-> IF levels[n].price = price THEN levels[N] ELSE levels[n]]
<1>1. N \in Nat /\ DOMAIN levels = 1..N /\ \A k \in 1..N : levels[k] \in Level
  BY LenProperties, ElementOfSeq
<1>2. CASE ~ \E n \in DOMAIN levels : levels[n].price = price
  <2>1. after = levels
    BY <1>2 DEF SwapRemove
  <2> HIDE DEF after
  <2> QED
    BY <1>2, <2>1 DEF LevelsIn, after
<1>3. CASE \E n \in DOMAIN levels : levels[n].price = price
  <2>1. PICK j \in DOMAIN levels : levels[j].price = price
    BY <1>3
  <2>2. after = SubSeq(moved, 1, N - 1)
    BY <1>3 DEF SwapRemove
  <2>3. \A n \in 1..N : moved[n] = IF n = j THEN levels[N] ELSE levels[n]
    BY <1>1, <2>1
  <2> HIDE DEF after, moved, N
  <2>4. \A i \in 1..(N - 1) : moved[i] \in Level
    BY <1>1, <2>1, <2>3
  <2>5. /\ after \in Seq(Level)
        /\ Len(after) = IF 1 <= N - 1 THEN N - 1 - 1 + 1 ELSE 0
        /\ \A i \in 1..(N - 1 - 1 + 1) : after[i] = moved[1 + i - 1]
    BY <1>1, <2>2, <2>4, SubSeqProperties
  <2>6. DOMAIN after = 1..(N - 1)
    <3>1. DOMAIN after = 1..Len(after)
      BY <2>5, LenProperties
    <3>2. N >= 1
      BY <1>1, <2>1
    <3>3. Len(after) = N - 1
      BY <1>1, <2>5, <3>2
    <3> QED
      BY <3>1, <3>3
  <2>7. \A i \in 1..(N - 1) : after[i] = IF i = j THEN levels[N] ELSE levels[i]
    BY <1>1, <2>3, <2>5
  <2>8. ASSUME NEW m \in DOMAIN after, NEW n \in DOMAIN after, after[m].price = after[n].price
        PROVE  m = n
    BY <1>1, <2>1, <2>6, <2>7, <2>8
  <2>9. ASSUME NEW x \in LevelsIn(after) PROVE x \in LevelsIn(levels) /\ x.price # price
    <3>1. PICK i \in DOMAIN after : x = after[i]
      BY <2>9 DEF LevelsIn
    <3>2. \E k \in 1..N : k # j /\ x = levels[k]
      BY <1>1, <2>1, <2>6, <2>7, <3>1
    <3> QED
      BY <1>1, <2>1, <3>2 DEF LevelsIn
  <2>10. ASSUME NEW x \in LevelsIn(levels), x.price # price PROVE x \in LevelsIn(after)
    <3>1. PICK k \in 1..N : x = levels[k] /\ k # j
      BY <1>1, <2>1, <2>10 DEF LevelsIn
    <3>2. CASE k = N
      <4>1. j \in 1..(N - 1) /\ after[j] = x
        BY <1>1, <2>1, <2>7, <3>1, <3>2
      <4> QED
        BY <2>6, <4>1 DEF LevelsIn
    <3>3. CASE k # N
      <4>1. k \in 1..(N - 1) /\ after[k] = x
        BY <1>1, <2>7, <3>1, <3>3
      <4> QED
        BY <2>6, <4>1 DEF LevelsIn
    <3> QED
      BY <3>2, <3>3
  <2> QED
    BY <2>5, <2>8, <2>9, <2>10 DEF after
<1> QED
  BY <1>2, <1>3

\* Inserting a level takes the place of the one of its price and keeps all others.
LEMMA InsertLemma ==
  ASSUME NEW levels \in Seq(Level), NEW u \in Level,
         \A m, n \in DOMAIN levels : levels[m].price = levels[n].price => m = n
  PROVE  LET after == Insert(levels, u)
         IN  /\ after \in Seq(Level)
             /\ \A m, n \in DOMAIN after : after[m].price = after[n].price => m = n
             /\ LevelsIn(after) = {x \in LevelsIn(levels) : x.price # u.price} \cup {u}
<1> DEFINE after == Insert(levels, u)
           N == Len(levels)
<1>1. N \in Nat /\ DOMAIN levels = 1..N /\ \A k \in 1..N : levels[k] \in Level
  BY LenProperties, ElementOfSeq
<1>2. CASE \E n \in DOMAIN levels : levels[n].price = u.price
  <2>1. PICK j \in DOMAIN levels : levels[j].price = u.price
    BY <1>2
  <2>2. after = [n \in 1..N |-> IF n = j THEN u ELSE levels[n]]
    BY <1>1, <1>2, <2>1 DEF Insert
  <2> HIDE DEF after, N
  <2>3. after \in [1..N -> Level]
    BY <1>1, <2>2
  <2>4. after \in Seq(Level)
    BY <1>1, <2>3, SeqDef
  <2>5. \A m, n \in DOMAIN after : after[m].price = after[n].price => m = n
    BY <1>1, <2>1, <2>2
  <2>6. LevelsIn(after) = {x \in LevelsIn(levels) : x.price # u.price} \cup {u}
    BY <1>1, <2>1, <2>2 DEF LevelsIn
  <2> QED
    BY <2>4, <2>5, <2>6 DEF after
<1>3. CASE ~ \E n \in DOMAIN levels : levels[n].price = u.price
  <2>1. after = Append(levels, u)
    BY <1>3 DEF Insert
  <2>2. after \in Seq(Level) /\ Len(after) = N + 1 /\ after[N + 1] = u
        /\ \A i \in 1..N : after[i] = levels[i]
    BY <2>1, AppendProperties
  <2>3. DOMAIN after = 1..(N + 1)
    BY <2>2, LenProperties
  <2> HIDE DEF after, N
  <2>4. \A m, n \in DOMAIN after : after[m].price = after[n].price => m = n
    BY <1>1, <1>3, <2>2, <2>3
  <2>5. ASSUME NEW x PROVE x \in LevelsIn(after) <=> x \in LevelsIn(levels) \/ x = u
    <3>1. \A i : i \in 1..(N + 1) <=> i \in 1..N \/ i = N + 1
      BY <1>1
    <3> QED
      BY <1>1, <2>2, <2>3, <3>1 DEF LevelsIn
  <2>6. \A x \in LevelsIn(levels) : x.price # u.price
    BY <1>3 DEF LevelsIn
  <2> QED
    BY <2>2, <2>4, <2>5, <2>6 DEF after
<1> QED
  BY <1>2, <1>3

\* BookSide::update keeps a side best first; of the price it leaves the new level or,
\* when that is gone, nothing, and the other levels as they were.
LEMMA UpdateLemma ==
  ASSUME NEW side \in Sides, NEW levels, IsSide(side, levels), NEW u \in Level
  PROVE  /\ IsSide(side, Update(side, levels, u))
         /\ LevelsIn(Update(side, levels, u)) =
              {x \in LevelsIn(levels) : x.price # u.price} \cup IF Gone(u) THEN {} ELSE {u}
<1>1. levels \in Seq(Level) /\ \A m, n \in DOMAIN levels : levels[m].price = levels[n].price => m = n
  BY PricesDiffer DEF IsSide
<1>2. CASE Gone(u)
  <2> DEFINE after == SwapRemove(levels, u.price)
  <2>1. /\ after \in Seq(Level)
        /\ \A m, n \in DOMAIN after : after[m].price = after[n].price => m = n
        /\ LevelsIn(after) = {x \in LevelsIn(levels) : x.price # u.price}
    BY <1>1, SwapRemoveLemma
  <2>2. Update(side, levels, u) = Sort(side, after)
    BY <1>2 DEF Update
  <2> HIDE DEF after
  <2> QED
    BY <1>2, <2>1, <2>2, SortLemma
<1>3. CASE ~Gone(u)
  <2> DEFINE after == Insert(levels, u)
  <2>1. /\ after \in Seq(Level)
        /\ \A m, n \in DOMAIN after : after[m].price = after[n].price => m = n
        /\ LevelsIn(after) = {x \in LevelsIn(levels) : x.price # u.price} \cup {u}
    BY <1>1, InsertLemma
  <2>2. Update(side, levels, u) = Sort(side, after)
    BY <1>3 DEF Update
  <2> HIDE DEF after
  <2> QED
    BY <1>3, <2>1, <2>2, SortLemma
<1> QED
  BY <1>2, <1>3

(***************************************************************************)
(* Many updates of a side                                                  *)
(***************************************************************************)

\* The update of each price that no later one of the first k overrules.
Lasting(us, k) == {j \in 1..k : \A i \in 1..k : j < i => us[i].price # us[j].price}

\* What the first k updates leave of a side.
Left(levels, us, k) ==
  {x \in LevelsIn(levels) : \A j \in 1..k : us[j].price # x.price}
    \cup {us[j] : j \in {i \in Lasting(us, k) : ~Gone(us[i])}}

\* The function that Updates defines by recursion exists: otherwise there is a least
\* number of updates for which it does not, and it is one update short of one for which
\* it does.
LEMMA UpdatesExist ==
  ASSUME NEW side, NEW levels, NEW us, Len(us) \in Nat
  PROVE  \E f : f = [n \in 0..Len(us) |->
                       IF n = 0 THEN levels ELSE Update(side, f[n - 1], us[n])]
<1> DEFINE After(f, k) ==
             f = [n \in 0..k |-> IF n = 0 THEN levels ELSE Update(side, f[n - 1], us[n])]
           Bad == {k \in Nat : ~ \E f : After(f, k)}
<1>1. SUFFICES ASSUME Bad # {} PROVE FALSE
  OBVIOUS
<1>2. PICK k \in Bad : \A i \in Bad : k <= i
  BY <1>1, LeastOf
<1>3. k # 0
  <2>1. After([n \in 0..0 |-> levels], 0)
    OBVIOUS
  <2> QED
    BY <2>1
<1>4. k \in Nat /\ k - 1 \in Nat /\ ~ (k - 1 \in Bad)
  <2>1. k \in Nat
    BY <1>2
  <2>2. \A i \in Bad : k <= i
    BY <1>2
  <2> HIDE DEF Bad
  <2> QED
    BY <1>3, <2>1, <2>2
<1>5. PICK f : After(f, k - 1)
  BY <1>4
<1> DEFINE g == [n \in 0..k |-> IF n = k THEN Update(side, f[k - 1], us[k]) ELSE f[n]]
<1>6. After(g, k)
  <2>1. DOMAIN g = 0..k
    OBVIOUS
  <2>2. ASSUME NEW n \in 0..k
        PROVE  g[n] = IF n = 0 THEN levels ELSE Update(side, g[n - 1], us[n])
    <3>1. CASE n = 0
      <4>1. g[n] = f[n] /\ n \in 0..(k - 1)
        BY <1>3, <1>4, <3>1
      <4> QED
        BY <1>5, <3>1, <4>1
    <3>2. CASE n = k
      <4>1. g[n - 1] = f[k - 1] /\ g[n] = Update(side, f[k - 1], us[k])
        BY <1>3, <1>4, <3>2
      <4> QED
        BY <1>3, <3>2, <4>1
    <3>3. CASE n # 0 /\ n # k
      <4>1. n \in 0..(k - 1) /\ n - 1 \in 0..k /\ n - 1 # k
        BY <1>4, <3>3
      <4>2. g[n] = f[n] /\ g[n - 1] = f[n - 1]
        BY <3>3, <4>1
      <4>3. f[n] = Update(side, f[n - 1], us[n])
        BY <1>5, <3>3, <4>1
      <4> QED
        BY <3>3, <4>2, <4>3
    <3> QED
      BY <3>1, <3>2, <3>3
  <2>3. g = [n \in 0..k |-> g[n]]
    OBVIOUS
  <2> HIDE DEF g
  <2> QED
    BY <2>2, <2>3
<1> QED
  BY <1>2, <1>6

\* One update more.
LEMMA LeftStep ==
  ASSUME NEW levels, NEW us, NEW k \in Nat
  PROVE  Left(levels, us, k + 1) =
           {x \in Left(levels, us, k) : x.price # us[k + 1].price}
             \cup IF Gone(us[k + 1]) THEN {} ELSE {us[k + 1]}
<1>1. \A i : i \in 1..(k + 1) <=> i \in 1..k \/ i = k + 1
  OBVIOUS
<1>2. \A j : j \in Lasting(us, k + 1) <=>
               j = k + 1 \/ (j \in Lasting(us, k) /\ us[j].price # us[k + 1].price)
  <2> SUFFICES ASSUME NEW j
               PROVE  j \in Lasting(us, k + 1) <=>
                        j = k + 1 \/ (j \in Lasting(us, k) /\ us[j].price # us[k + 1].price)
    OBVIOUS
  <2>1. CASE j \in 1..k
    BY <1>1, <2>1 DEF Lasting
  <2>2. CASE j = k + 1
    BY <1>1, <2>2 DEF Lasting
  <2>3. CASE j \notin 1..(k + 1)
    BY <1>1, <2>3 DEF Lasting
  <2> QED
    BY <1>1, <2>1, <2>2, <2>3
<1>3. ASSUME NEW x
      PROVE  x \in Left(levels, us, k + 1) <=>
               \/ x \in Left(levels, us, k) /\ x.price # us[k + 1].price
               \/ ~Gone(us[k + 1]) /\ x = us[k + 1]
  <2> DEFINE old(n) == x \in LevelsIn(levels) /\ \A j \in 1..n : us[j].price # x.price
             new(n) == \E j \in Lasting(us, n) : ~Gone(us[j]) /\ x = us[j]
  <2>1. \A n : x \in Left(levels, us, n) <=> old(n) \/ new(n)
    BY DEF Left
  <2>2. old(k + 1) <=> old(k) /\ x.price # us[k + 1].price
    BY <1>1
  <2>3. new(k + 1) <=> (new(k) /\ x.price # us[k + 1].price) \/ (~Gone(us[k + 1]) /\ x = us[k + 1])
    BY <1>2
  <2> HIDE DEF old, new
  <2> QED
    BY <2>1, <2>2, <2>3
<1> QED
  BY <1>3

\* What a side holds after a list of updates, whatever their prices and their order.
LEMMA UpdatesLemma ==
  ASSUME NEW side \in Sides, NEW levels, IsSide(side, levels), NEW us \in Seq(Level)
  PROVE  /\ IsSide(side, Updates(side, levels, us))
         /\ LevelsIn(Updates(side, levels, us)) = Left(levels, us, Len(us))
<1> DEFINE N == Len(us)
           after == CHOOSE f : f = [n \in 0..N |->
                      IF n = 0 THEN levels ELSE Update(side, f[n - 1], us[n])]
           Good(k) == IsSide(side, after[k]) /\ LevelsIn(after[k]) = Left(levels, us, k)
           Bad == {k \in 0..N : ~Good(k)}
<1>1. N \in Nat /\ \A n \in 1..N : us[n] \in Level
  BY LenProperties, ElementOfSeq
<1>2. after = [n \in 0..N |-> IF n = 0 THEN levels ELSE Update(side, after[n - 1], us[n])]
  BY <1>1, UpdatesExist
<1>3. Updates(side, levels, us) = after[N]
  BY DEF Updates
<1> HIDE DEF after
<1>4. after[0] = levels /\ \A n \in 1..N : n - 1 \in 0..N /\ after[n] = Update(side, after[n - 1], us[n])
  BY <1>1, <1>2
<1>5. Good(0)
  <2>1. Left(levels, us, 0) = LevelsIn(levels)
    BY DEF Left, Lasting
  <2> QED
    BY <1>4, <2>1
<1>6. ASSUME NEW k \in 1..N, Good(k - 1) PROVE Good(k)
  <2>1. /\ IsSide(side, after[k])
        /\ LevelsIn(after[k]) =
             {x \in LevelsIn(after[k - 1]) : x.price # us[k].price}
               \cup IF Gone(us[k]) THEN {} ELSE {us[k]}
    BY <1>1, <1>4, <1>6, UpdateLemma
  <2>2. k - 1 \in Nat /\ (k - 1) + 1 = k
    OBVIOUS
  <2>3. Left(levels, us, k) =
           {x \in Left(levels, us, k - 1) : x.price # us[k].price}
             \cup IF Gone(us[k]) THEN {} ELSE {us[k]}
    BY <2>2, LeftStep
  <2> QED
    BY <1>6, <2>1, <2>3
<1> HIDE DEF Good
<1>7. Bad = {}
  <2> SUFFICES ASSUME Bad # {} PROVE FALSE
    OBVIOUS
  <2>1. Bad \in SUBSET Nat
    OBVIOUS
  <2>2. PICK k \in Bad : \A i \in Bad : k <= i
    BY <2>1, LeastOf
  <2>3. k \in 1..N /\ k - 1 \in 0..N /\ k - 1 \notin Bad
    BY <1>1, <1>5, <2>2
  <2> QED
    BY <1>6, <2>2, <2>3
<1>8. Good(N)
  BY <1>1, <1>7
<1> QED
  BY <1>3, <1>8 DEF Good

(***************************************************************************)
(* The leader's book                                                       *)
(***************************************************************************)

USE PricesAssumption, SizesAssumption

\* The levels of one price: at most one.
At(levels, p) == {x \in LevelsIn(levels) : x.price = p}

LevelAt(p, size) == IF size = <<0, 0>> THEN {} ELSE {LevelOf(p, size)}

\* A slot is a side and a price of it.
LEMMA SlotType ==
  /\ \A l \in Slots : l[1] \in Sides /\ l[2] \in Prices[l[1]] /\ l = <<l[1], l[2]>>
  /\ \A side \in Sides : \A p \in Prices[side] : <<side, p>> \in Slots
BY DEF Slots

\* A level of the exchange's book: none exactly if its size is.
LEMMA LevelOfType ==
  ASSUME NEW side \in Sides, NEW p \in Prices[side], NEW size \in Nat \X Nat
  PROVE  /\ p \in Nat /\ LevelOf(p, size) \in Level /\ LevelOf(p, size).price = p
         /\ Gone(LevelOf(p, size)) <=> size = <<0, 0>>
<1>1. p \in Nat
  OBVIOUS
<1>2. size = <<size[1], size[2]>> /\ size[1] \in Nat /\ size[2] \in Nat
  OBVIOUS
<1> QED
  BY <1>1, <1>2 DEF LevelOf, Level, Gone

\* A diff of one level touches one side.
LEMMA DiffOfType ==
  ASSUME NEW side \in Sides, NEW u
  PROVE  /\ DiffOf(side, u)[side] = <<u>>
         /\ \A d \in Sides : d # side => DiffOf(side, u)[d] = <<>>
BY DEF DiffOf

\* One update replaces the level of its price.
LEMMA OneUpdate ==
  ASSUME NEW side \in Sides, NEW levels, IsSide(side, levels), NEW u \in Level
  PROVE  /\ IsSide(side, Updates(side, levels, <<u>>))
         /\ LevelsIn(Updates(side, levels, <<u>>)) =
              {x \in LevelsIn(levels) : x.price # u.price} \cup IF Gone(u) THEN {} ELSE {u}
<1>1. <<u>> \in Seq(Level) /\ Len(<<u>>) = 1 /\ <<u>>[1] = u
  OBVIOUS
<1>2. Left(levels, <<u>>, 0) = LevelsIn(levels)
  BY DEF Left, Lasting
<1>3. Left(levels, <<u>>, 1) =
        {x \in LevelsIn(levels) : x.price # u.price} \cup IF Gone(u) THEN {} ELSE {u}
  <2> DEFINE us == <<u>>
  <2>1. Left(levels, us, 0 + 1) =
          {x \in Left(levels, us, 0) : x.price # us[0 + 1].price}
            \cup IF Gone(us[0 + 1]) THEN {} ELSE {us[0 + 1]}
    BY LeftStep
  <2>2. 0 + 1 = 1 /\ us[1] = u
    OBVIOUS
  <2> QED
    BY <1>2, <2>1, <2>2
<1>4. /\ IsSide(side, Updates(side, levels, <<u>>))
      /\ LevelsIn(Updates(side, levels, <<u>>)) = Left(levels, <<u>>, Len(<<u>>))
  BY <1>1, UpdatesLemma
<1> QED
  BY <1>1, <1>3, <1>4

\* No update, no change.
LEMMA NoUpdate ==
  ASSUME NEW side \in Sides, NEW levels, IsSide(side, levels)
  PROVE  /\ IsSide(side, Updates(side, levels, <<>>))
         /\ LevelsIn(Updates(side, levels, <<>>)) = LevelsIn(levels)
<1>1. <<>> \in Seq(Level) /\ Len(<<>>) = 0
  OBVIOUS
<1>2. Left(levels, <<>>, 0) = LevelsIn(levels)
  BY DEF Left, Lasting
<1> QED
  BY <1>1, <1>2, UpdatesLemma

\* A side without levels is a side.
LEMMA EmptySide ==
  ASSUME NEW side \in Sides
  PROVE  IsSide(side, <<>>) /\ LevelsIn(<<>>) = {} /\ EmptyBook[side] = <<>>
<1>1. <<>> \in Seq(Level) /\ DOMAIN <<>> = {}
  BY EmptySeq
<1> QED
  BY <1>1 DEF IsSide, BestFirst, LevelsIn, EmptyBook

SidesOf(book) ==
  \A side \in Sides :
    IsSide(side, book[side]) /\ \A x \in LevelsIn(book[side]) : x.price \in Prices[side]

\* A diff of one level changes what the book has of its price, and nothing else.
LEMMA DiffLemma ==
  ASSUME NEW book, SidesOf(book),
         NEW s \in Sides, NEW q \in Prices[s], NEW size \in Nat \X Nat
  PROVE  LET after == ApplyDiff(book, DiffOf(s, LevelOf(q, size)))
         IN  /\ SidesOf(after)
             /\ \A side \in Sides : \A p \in Prices[side] :
                  At(after[side], p) =
                    IF side = s /\ p = q THEN LevelAt(q, size) ELSE At(book[side], p)
<1> DEFINE u == LevelOf(q, size)
           after == ApplyDiff(book, DiffOf(s, u))
<1>1. u \in Level /\ u.price = q /\ (Gone(u) <=> size = <<0, 0>>)
  BY LevelOfType
<1>2. after[s] = Updates(s, book[s], <<u>>)
  BY DiffOfType DEF ApplyDiff
<1>3. \A side \in Sides : side # s => after[side] = Updates(side, book[side], <<>>)
  BY DiffOfType DEF ApplyDiff
<1> HIDE DEF after
<1>4. /\ IsSide(s, after[s])
      /\ LevelsIn(after[s]) = {x \in LevelsIn(book[s]) : x.price # q} \cup LevelAt(q, size)
  <2>1. LevelAt(q, size) = IF Gone(u) THEN {} ELSE {u}
    BY <1>1 DEF LevelAt
  <2> HIDE DEF u
  <2> QED
    BY <1>1, <1>2, <2>1, OneUpdate DEF SidesOf
<1>5. \A side \in Sides : side # s =>
        IsSide(side, after[side]) /\ LevelsIn(after[side]) = LevelsIn(book[side])
  BY <1>3, NoUpdate DEF SidesOf
<1>6. \A x \in LevelAt(q, size) : x.price = q
  BY <1>1 DEF LevelAt
<1>7. SidesOf(after)
  BY <1>4, <1>5, <1>6 DEF SidesOf
<1>8. ASSUME NEW side \in Sides, NEW p \in Prices[side]
      PROVE  At(after[side], p) =
               IF side = s /\ p = q THEN LevelAt(q, size) ELSE At(book[side], p)
  BY <1>4, <1>5, <1>6 DEF At
<1> QED
  BY <1>7, <1>8 DEF after

\* A snapshot of the exchange's levels, in any order, makes the book what it says.
LEMMA SnapshotLemma ==
  ASSUME NEW side \in Sides, NEW says \in [Slots -> Nat \X Nat],
         NEW us \in Listings(says, side), IsFiniteSet(Listed(says, side))
  PROVE  LET after == Updates(side, <<>>, us)
         IN  /\ IsSide(side, after)
             /\ \A x \in LevelsIn(after) : x.price \in Prices[side]
             /\ \A p \in Prices[side] : At(after, p) = LevelAt(p, says[<<side, p>>])
<1> DEFINE z == [p \in Prices[side] |-> says[<<side, p>>]]
           N == Cardinality(Listed(says, side))
           after == Updates(side, <<>>, us)
<1>1. PICK s \in Bijection(1..N, Listed(says, side)) :
        us = [n \in DOMAIN s |-> LevelOf(s[n], says[<<side, s[n]>>])]
  BY DEF Listings
<1>2. N \in Nat
  BY FS_CardinalityType
<1>3. /\ s \in [1..N -> Listed(says, side)]
      /\ \A m, n \in 1..N : s[m] = s[n] => m = n
      /\ \A p \in Listed(says, side) : \E n \in 1..N : s[n] = p
  BY DEF Bijection, Injection, Surjection, IsInjective
<1>a. \A p \in Prices[side] : z[p] = says[<<side, p>>] /\ z[p] \in Nat \X Nat
  BY SlotType
<1> HIDE DEF N, z
<1>4. /\ Listed(says, side) = {p \in Prices[side] : z[p] # <<0, 0>>}
      /\ \A p \in Listed(says, side) : p \in Prices[side] /\ z[p] \in Nat \X Nat /\ z[p] # <<0, 0>>
  BY <1>a DEF Listed
<1>b. us = [n \in 1..N |-> LevelOf(s[n], z[s[n]])]
  BY <1>1, <1>3, <1>4, <1>a
<1>5. \A n \in 1..N : us[n] = LevelOf(s[n], z[s[n]]) /\ us[n] \in Level
                      /\ us[n].price = s[n] /\ ~Gone(us[n])
  BY <1>b, <1>3, <1>4, LevelOfType
<1>6. us \in [1..N -> Level]
  BY <1>b, <1>3, <1>5
<1>7. us \in Seq(Level) /\ Len(us) = N
  BY <1>2, <1>6, IndexedIsSeq
<1>8. IsSide(side, after) /\ LevelsIn(after) = Left(<<>>, us, N)
  BY <1>7, EmptySide, UpdatesLemma
<1>9. Left(<<>>, us, N) = {us[n] : n \in 1..N}
  <2>1. \A j \in 1..N : j \in Lasting(us, N) /\ ~Gone(us[j])
    BY <1>2, <1>3, <1>5 DEF Lasting
  <2>2. \A j \in Lasting(us, N) : j \in 1..N
    BY DEF Lasting
  <2> QED
    BY <2>1, <2>2, EmptySide DEF Left
<1> HIDE DEF after
<1>10. \A x \in LevelsIn(after) : x.price \in Prices[side]
  BY <1>3, <1>4, <1>5, <1>8, <1>9
<1>11. ASSUME NEW p \in Prices[side] PROVE At(after, p) = LevelAt(p, says[<<side, p>>])
  <2>a. says[<<side, p>>] = z[p]
    BY <1>a
  <2>1. At(after, p) = {us[n] : n \in {m \in 1..N : s[m] = p}}
    BY <1>5, <1>8, <1>9 DEF At
  <2>2. CASE p \in Listed(says, side)
    <3>1. PICK n \in 1..N : s[n] = p
      BY <1>3, <2>2
    <3>2. \A m \in 1..N : s[m] = p <=> m = n
      BY <1>3, <3>1
    <3>3. LevelAt(p, z[p]) = {us[n]}
      BY <1>4, <1>5, <2>2, <3>1 DEF LevelAt
    <3>4. At(after, p) = {us[n]}
      BY <2>1, <3>2
    <3> QED
      BY <2>a, <3>3, <3>4
  <2>3. CASE p \notin Listed(says, side)
    <3>1. {m \in 1..N : s[m] = p} = {}
      BY <1>3, <2>3
    <3>2. LevelAt(p, z[p]) = {}
      BY <1>4, <2>3 DEF LevelAt
    <3> QED
      BY <2>1, <2>a, <3>1, <3>2
  <2> QED
    BY <2>2, <2>3
<1> QED
  BY <1>8, <1>10, <1>11 DEF after

(***************************************************************************)
(* The follower's book                                                     *)
(***************************************************************************)

USE AnswersAssumption

\* The places of each side as the code reads an answer.
AsRead(data) ==
  [side \in Sides |-> {n \in DOMAIN data : data[n].readable /\ OfSymbol(data[n]) /\ SideOf(data[n]) = side}]

\* Entries that cannot be read as numbers still make levels (unwrap_or_default).
LEMMA EntryLevel ==
  ASSUME NEW e \in Entry
  PROVE  ToLevel(e) \in Level /\ ToLevel(e).price \in Nat
<1>1. \A n \in Number : \A d \in Nat : Parsed(n, d) \in Nat
  BY DEF Number, Parsed
<1>2. e.price \in Number /\ e.volume \in Number /\ e.orders \in Number
  BY DEF Entry
<1> QED
  BY <1>1, <1>2 DEF ToLevel, Level

\* What a side of the book shows after an answer: sorting keeps the order of the entries
\* of a price, so the last of them is the last that is put into the book.
LEMMA AnswerLemma ==
  ASSUME NEW answer \in Answers, GetOrderBook(answer) # {}
  PROVE  LET after == FromSnapshot(OrderBookSnapshot(answer.data, GetOrderBook(answer)))
         IN  /\ \A side \in Sides :
                  /\ IsSide(side, after[side])
                  /\ \A x \in LevelsIn(after[side]) : x.price \in Nat
             /\ answer.ok /\ ShowsEntries(after, answer.data, AsRead(answer.data))
<1> DEFINE data == answer.data
           kept == GetOrderBook(answer)
           levels == [n \in DOMAIN data |-> ToLevel(data[n])]
           after == FromSnapshot(OrderBookSnapshot(data, kept))
           mine(side) == AsRead(data)[side]
           last(side) == {n \in mine(side) : \A k \in mine(side) :
                            ToLevel(data[k]).price = ToLevel(data[n]).price => k <= n}
<1>1. data \in Seq(Entry) /\ Len(data) \in Nat /\ DOMAIN data = 1..Len(data)
      /\ \A n \in DOMAIN data : data[n] \in Entry
  <2>1. data \in Seq(Entry)
    BY DEF Answer
  <2> QED
    BY <2>1, LenProperties, ElementOfSeq
<1>2. answer.ok /\ kept = {n \in DOMAIN data : OfSymbol(data[n]) /\ data[n].readable}
  BY DEF GetOrderBook
<1>3. \A n \in DOMAIN data : levels[n] = ToLevel(data[n]) /\ levels[n] \in Level /\ levels[n].price \in Nat
  BY <1>1, EntryLevel
<1> SUFFICES ASSUME NEW side \in Sides
             PROVE  /\ IsSide(side, after[side])
                    /\ \A x \in LevelsIn(after[side]) : x.price \in Nat
                    /\ LevelsIn(after[side]) =
                         {level \in {ToLevel(data[n]) : n \in last(side)} : ~Gone(level)}
  BY <1>2 DEF ShowsEntries, IsSide, BestFirst, LevelsIn
<1> DEFINE M == mine(side)
           N == Cardinality(M)
           us == Sorted(side, levels, M)
<1>4. after[side] = Updates(side, <<>>, us)
  <2>1. {n \in kept : SideOf(data[n]) = side} = M
    BY <1>2 DEF AsRead
  <2>2. OrderBookSnapshot(data, kept)[side] = us
    BY <2>1 DEF OrderBookSnapshot
  <2> HIDE DEF us, kept, data, M
  <2> QED
    BY <2>2, EmptySide DEF FromSnapshot, ApplyDiff
<1>5. M \subseteq DOMAIN data /\ M \in SUBSET Nat /\ IsFiniteSet(M) /\ N \in Nat
  <2>1. M \in SUBSET (1..Len(data)) /\ Len(data) \in Nat
    BY <1>1 DEF AsRead
  <2> HIDE DEF M, data
  <2>2. IsFiniteSet(1..Len(data))
    BY <2>1, FS_Interval
  <2>3. IsFiniteSet(M)
    BY <2>1, <2>2, FS_Subset
  <2>4. Cardinality(M) \in Nat
    BY <2>3, FS_CardinalityType
  <2>5. M \subseteq DOMAIN data /\ M \in SUBSET Nat
    BY <1>1, <2>1
  <2> QED
    BY <2>3, <2>4, <2>5
<1>6. PICK P \in [1..N -> M] :
        /\ us = [n \in 1..N |-> levels[P[n]]]
        /\ \A k \in M : \E n \in 1..N : P[n] = k
        /\ \A m, n \in 1..N : m < n => Before(side, levels, P[m], P[n])
  <2>1. \A k \in M : levels[k] \in Level
    BY <1>3, <1>5
  <2> HIDE DEF levels, M
  <2> QED
    BY <1>5, <2>1, SortedPlaces
<1>7. \A n \in 1..N : P[n] \in M /\ us[n] = levels[P[n]] /\ us[n] \in Level /\ us[n].price \in Nat
  <2> HIDE DEF levels, M, us, N
  <2> QED
    BY <1>3, <1>5, <1>6
<1>8. us \in Seq(Level) /\ Len(us) = N
  <2> HIDE DEF levels, M, us, N
  <2>1. us \in [1..N -> Level]
    BY <1>6, <1>7
  <2> QED
    BY <1>5, <2>1, IndexedIsSeq
<1> HIDE DEF after, us, M, N, levels, data
<1>9. IsSide(side, after[side]) /\ LevelsIn(after[side]) = {us[j] : j \in {i \in Lasting(us, N) : ~Gone(us[i])}}
  <2>1. Left(<<>>, us, N) = {us[j] : j \in {i \in Lasting(us, N) : ~Gone(us[i])}}
    BY EmptySide DEF Left
  <2> QED
    BY <1>4, <1>8, <2>1, EmptySide, UpdatesLemma
<1>10. \A m, n \in 1..N : m < n /\ us[m].price = us[n].price => P[m] < P[n]
  <2> SUFFICES ASSUME NEW m \in 1..N, NEW n \in 1..N, m < n, us[m].price = us[n].price
               PROVE  P[m] < P[n]
    OBVIOUS
  <2>1. Before(side, levels, P[m], P[n])
    BY <1>6
  <2>2. levels[P[m]] = us[m] /\ levels[P[n]] = us[n] /\ us[m].price \in Nat
    BY <1>7
  <2> QED
    BY <2>1, <2>2 DEF Before, Better
<1>11. ASSUME NEW j \in 1..N PROVE j \in Lasting(us, N) <=> P[j] \in last(side)
  <2>1. \A k \in M : ToLevel(data[k]) = levels[k]
    BY <1>3, <1>5
  <2>2. last(side) = {n \in M : \A k \in M : levels[k].price = levels[n].price => k <= n}
    BY <2>1 DEF M
  <2>3. P[j] \in M /\ levels[P[j]] = us[j]
    BY <1>7
  <2>4. ASSUME j \in Lasting(us, N), NEW k \in M, levels[k].price = us[j].price
        PROVE  k <= P[j]
    <3>1. PICK i \in 1..N : P[i] = k
      BY <1>6
    <3>2. us[i].price = us[j].price
      BY <1>7, <2>4, <3>1
    <3>3. ~(j < i)
      BY <2>4, <3>2 DEF Lasting
    <3>4. CASE i = j
      BY <1>5, <2>3, <3>1, <3>4
    <3>5. CASE i < j
      <4>1. P[i] < P[j]
        BY <1>10, <3>2, <3>5
      <4> QED
        BY <1>5, <2>3, <3>1, <4>1
    <3> QED
      BY <1>5, <3>3, <3>4, <3>5
  <2>5. ASSUME P[j] \in last(side), NEW i \in 1..N, j < i, us[i].price = us[j].price
        PROVE  FALSE
    <3>1. P[j] < P[i]
      BY <1>10, <2>5
    <3>2. P[i] \in M /\ levels[P[i]] = us[i]
      BY <1>7
    <3>3. P[i] <= P[j]
      BY <2>2, <2>3, <2>5, <3>2
    <3> QED
      BY <1>5, <2>3, <3>1, <3>2, <3>3
  <2>6. j \in Lasting(us, N) <=> \A i \in 1..N : j < i => us[i].price # us[j].price
    BY DEF Lasting
  <2> HIDE DEF last
  <2>7. P[j] \in last(side) <=> \A k \in M : levels[k].price = us[j].price => k <= P[j]
    BY <2>2, <2>3
  <2> QED
    BY <2>4, <2>5, <2>6, <2>7
<1>12. \A j \in Lasting(us, N) : j \in 1..N
  BY DEF Lasting
<1>13. \A n \in last(side) : n \in M /\ ToLevel(data[n]) = levels[n]
  BY <1>3, <1>5 DEF M
<1> HIDE DEF last
<1>14. LevelsIn(after[side]) = {level \in {ToLevel(data[n]) : n \in last(side)} : ~Gone(level)}
  <2>1. ASSUME NEW x \in LevelsIn(after[side])
        PROVE  ~Gone(x) /\ \E n \in last(side) : x = ToLevel(data[n])
    <3>1. PICK j \in Lasting(us, N) : ~Gone(us[j]) /\ x = us[j]
      BY <1>9
    <3> QED
      BY <1>7, <1>11, <1>12, <1>13, <3>1
  <2>2. ASSUME NEW n \in last(side), ~Gone(ToLevel(data[n]))
        PROVE  ToLevel(data[n]) \in LevelsIn(after[side])
    <3>1. PICK j \in 1..N : P[j] = n
      BY <1>6, <1>13
    <3>2. j \in Lasting(us, N) /\ us[j] = ToLevel(data[n])
      BY <1>7, <1>11, <1>13, <3>1
    <3> QED
      BY <1>9, <2>2, <3>2
  <2> QED
    BY <2>1, <2>2
<1>15. \A x \in LevelsIn(after[side]) : x.price \in Nat
  BY <1>7, <1>9, <1>12
<1> QED
  BY <1>9, <1>14, <1>15

(***************************************************************************)
(* The inductive invariant of the leader's feed                            *)
(***************************************************************************)

\* What a message may say: a snapshot of finitely many listed levels, or one level.
Messages ==
  {m \in [snapshot : BOOLEAN, says : UNION {[K -> Nat \X Nat] : K \in SUBSET Slots},
          late : SUBSET Slots] :
     /\ m.late \subseteq DOMAIN m.says
     /\ m.snapshot => /\ DOMAIN m.says = Slots
                      /\ \A side \in Sides : IsFiniteSet(Listed(m.says, side))
     /\ ~m.snapshot => \E l \in Slots : DOMAIN m.says = {l}}

LastWord(w, n, l) ==
  l \in DOMAIN w[n].says /\ \A m \in DOMAIN w : n < m => l \notin DOMAIN w[m].says

\* A level that nothing under way speaks of is the exchange's unless it is stale; the last
\* message under way about a level says what the exchange has now unless it is late.
Follows(l) ==
  /\ ~Awaited(l) /\ l \notin stale => At(leader[l[1]], l[2]) = LevelAt(l[2], truth[l])
  /\ \A n \in DOMAIN wire : LastWord(wire, n, l) /\ l \notin wire[n].late => wire[n].says[l] = truth[l]

FeedInv ==
  /\ truth \in [Slots -> Nat \X Nat]
  /\ \A side \in Sides : IsFiniteSet(Listed(truth, side))
  /\ wire \in Seq(Messages) /\ Len(wire) <= MaxWire
  /\ SidesOf(leader)
  /\ \A l \in Slots : Follows(l)

(***************************************************************************)
(* The steps of the leader's feed                                          *)
(***************************************************************************)

USE WireAssumption

\* What a message has.
LEMMA MessageType ==
  ASSUME NEW m \in Messages
  PROVE  /\ m.snapshot \in BOOLEAN /\ m.late \subseteq DOMAIN m.says
         /\ DOMAIN m.says \subseteq Slots /\ m.says \in [DOMAIN m.says -> Nat \X Nat]
         /\ m.snapshot => /\ DOMAIN m.says = Slots
                          /\ \A side \in Sides : IsFiniteSet(Listed(m.says, side))
         /\ ~m.snapshot => \E l \in Slots : DOMAIN m.says = {l}
<1>1. m.says \in UNION {[K -> Nat \X Nat] : K \in SUBSET Slots}
  BY DEF Messages
<1>2. PICK K \in SUBSET Slots : m.says \in [K -> Nat \X Nat]
  BY <1>1
<1>3. DOMAIN m.says = K
  BY <1>2
<1> QED
  BY <1>2, <1>3 DEF Messages

\* A message that says what the exchange has is sent last.
LEMMA SentLemma ==
  ASSUME FeedInv, NEW m \in Messages, m.late = {}, Len(wire) < MaxWire,
         wire' = Append(wire, m), stale' = stale, leader' = leader,
         NEW l \in Slots, truth'[l] = IF l \in DOMAIN m.says THEN m.says[l] ELSE truth[l]
  PROVE  Follows(l)'
<1> DEFINE N == Len(wire)
<1>1. wire \in Seq(Messages) /\ N \in Nat /\ DOMAIN wire = 1..N /\ Follows(l)
  BY LenProperties DEF FeedInv
<1>2. /\ DOMAIN wire' = 1..(N + 1) /\ wire'[N + 1] = m
      /\ \A n \in 1..N : wire'[n] = wire[n]
  BY <1>1, AppendProperties, LenProperties
<1> HIDE DEF N
<1>3. ASSUME l \in DOMAIN m.says PROVE Follows(l)'
  <2>1. Awaited(l)'
    BY <1>1, <1>2, <1>3 DEF Awaited
  <2>2. ASSUME NEW n \in DOMAIN wire', LastWord(wire', n, l) PROVE n = N + 1
    <3>1. N + 1 \in DOMAIN wire' /\ l \in DOMAIN wire'[N + 1].says
      BY <1>1, <1>2, <1>3
    <3>2. ~(n < N + 1)
      BY <2>2, <3>1 DEF LastWord
    <3> QED
      BY <1>1, <1>2, <3>2
  <2> QED
    BY <1>2, <1>3, <2>1, <2>2 DEF Follows
<1>4. ASSUME l \notin DOMAIN m.says PROVE Follows(l)'
  <2>1. Awaited(l) <=> Awaited(l)'
    BY <1>1, <1>2, <1>4 DEF Awaited
  <2>2. ASSUME NEW n \in DOMAIN wire', LastWord(wire', n, l)
        PROVE  n \in DOMAIN wire /\ wire'[n] = wire[n] /\ LastWord(wire, n, l)
    BY <1>1, <1>2, <1>4, <2>2 DEF LastWord
  <2> QED
    BY <1>1, <1>4, <2>1, <2>2 DEF Follows
<1> QED
  BY <1>3, <1>4

\* The exchange changes a level and sends a diff of it.
LEMMA ChangeStep ==
  ASSUME FeedInv, NEW k \in Slots, Change(k)
  PROVE  FeedInv'
<1>1. PICK size \in Sizes[k[1]] :
        /\ truth' = [truth EXCEPT ![k] = size]
        /\ Send(FALSE, [j \in {k} |-> size])
  BY DEF Change
<1> DEFINE m == [snapshot |-> FALSE, says |-> [j \in {k} |-> size], late |-> {}]
<1>2. /\ wire' = Append(wire, m) /\ Len(wire) < MaxWire
      /\ stale' = stale /\ leader' = leader
  BY <1>1 DEF Send, Change
<1>3. size \in Nat \X Nat
  BY SlotType
<1>4. m \in Messages /\ m.late = {} /\ DOMAIN m.says = {k} /\ m.says[k] = size
  <2>1. [j \in {k} |-> size] \in [{k} -> Nat \X Nat] /\ {k} \in SUBSET Slots
    BY <1>3
  <2> QED
    BY <2>1 DEF Messages
<1>5. truth' \in [Slots -> Nat \X Nat]
      /\ \A l \in Slots : truth'[l] = IF l = k THEN size ELSE truth[l]
  BY <1>1, <1>3 DEF FeedInv
<1> HIDE DEF m
<1>6. ASSUME NEW side \in Sides PROVE IsFiniteSet(Listed(truth', side))
  <2>1. Listed(truth', side) \in SUBSET (Listed(truth, side) \cup {k[2]})
    <3> SUFFICES ASSUME NEW p \in Prices[side], truth'[<<side, p>>] # <<0, 0>>, p # k[2]
                 PROVE  truth[<<side, p>>] # <<0, 0>>
      BY DEF Listed
    <3>1. <<side, p>> \in Slots /\ <<side, p>> # k
      BY SlotType
    <3> QED
      BY <1>5, <3>1
  <2>2. IsFiniteSet(Listed(truth, side) \cup {k[2]})
    BY FS_AddElement DEF FeedInv
  <2> QED
    BY <2>1, <2>2, FS_Subset
<1>7. wire' \in Seq(Messages) /\ Len(wire') <= MaxWire
  <2>1. wire \in Seq(Messages) /\ Len(wire) \in Nat
    BY LenProperties DEF FeedInv
  <2>2. wire' \in Seq(Messages) /\ Len(wire') = Len(wire) + 1
    BY <1>2, <1>4, <2>1, AppendProperties
  <2> QED
    BY <1>2, <2>1, <2>2
<1>8. ASSUME NEW l \in Slots PROVE Follows(l)'
  BY <1>2, <1>4, <1>5, SentLemma
<1>9. SidesOf(leader')
  BY <1>2 DEF FeedInv
<1> QED
  BY <1>5, <1>6, <1>7, <1>8, <1>9 DEF FeedInv

\* A snapshot is sent.
LEMMA AnswerSnapshotStep ==
  ASSUME FeedInv, AnswerSnapshot
  PROVE  FeedInv'
<1> DEFINE m == [snapshot |-> TRUE, says |-> truth, late |-> {}]
<1>1. /\ wire' = Append(wire, m) /\ Len(wire) < MaxWire
      /\ truth' = truth /\ stale' = stale /\ leader' = leader
  BY DEF AnswerSnapshot, Send
<1>2. m \in Messages /\ m.late = {} /\ DOMAIN m.says = Slots /\ m.says = truth
  <2>1. truth \in [Slots -> Nat \X Nat] /\ DOMAIN truth = Slots
    BY DEF FeedInv
  <2>2. \A side \in Sides : IsFiniteSet(Listed(truth, side))
    BY DEF FeedInv
  <2> QED
    BY <2>1, <2>2 DEF Messages
<1> HIDE DEF m
<1>3. wire' \in Seq(Messages) /\ Len(wire') <= MaxWire
  <2>1. wire \in Seq(Messages) /\ Len(wire) \in Nat
    BY LenProperties DEF FeedInv
  <2>2. wire' \in Seq(Messages) /\ Len(wire') = Len(wire) + 1
    BY <1>1, <1>2, <2>1, AppendProperties
  <2> QED
    BY <1>1, <2>1, <2>2
<1>4. ASSUME NEW l \in Slots PROVE Follows(l)'
  BY <1>1, <1>2, SentLemma
<1> QED
  BY <1>1, <1>3, <1>4 DEF FeedInv

\* Marking the overtaken messages changes nothing they say.
LEMMA OvertakenLemma ==
  ASSUME wire \in Seq(Messages), NEW n \in DOMAIN wire
  PROVE  /\ Overtaken(n) \in Seq(Messages) /\ Len(Overtaken(n)) = Len(wire)
         /\ DOMAIN Overtaken(n) = 1..Len(wire) /\ DOMAIN wire = 1..Len(wire)
         /\ \A m \in DOMAIN wire :
              /\ Overtaken(n)[m].says = wire[m].says
              /\ wire[m].late \subseteq Overtaken(n)[m].late
              /\ m < n => DOMAIN wire[m].says \cap DOMAIN wire[n].says \subseteq Overtaken(n)[m].late
<1> DEFINE w == Overtaken(n)
           K(m) == DOMAIN wire[m].says \cap DOMAIN wire[n].says
<1>1. Len(wire) \in Nat /\ DOMAIN wire = 1..Len(wire) /\ \A m \in DOMAIN wire : wire[m] \in Messages
  BY LenProperties, ElementOfSeq
<1>2. ASSUME NEW m \in DOMAIN wire
      PROVE  /\ w[m] \in Messages /\ w[m].says = wire[m].says
             /\ wire[m].late \subseteq w[m].late
             /\ m < n => K(m) \subseteq w[m].late
  <2>1. w[m] = IF m < n THEN [wire[m] EXCEPT !.late = @ \cup K(m)] ELSE wire[m]
    BY DEF Overtaken
  <2>2. wire[m] \in Messages /\ wire[m].late \subseteq DOMAIN wire[m].says
        /\ DOMAIN wire[m].says \subseteq Slots
    BY <1>1, MessageType
  <2>3. K(m) \subseteq DOMAIN wire[m].says
    OBVIOUS
  <2> HIDE DEF K, w
  <2>4. ASSUME NEW late \in SUBSET DOMAIN wire[m].says
        PROVE  /\ [wire[m] EXCEPT !.late = late] \in Messages
               /\ [wire[m] EXCEPT !.late = late].says = wire[m].says
               /\ [wire[m] EXCEPT !.late = late].late = late
    BY <2>2 DEF Messages
  <2>5. wire[m].late \cup K(m) \in SUBSET DOMAIN wire[m].says
    BY <2>2, <2>3
  <2>6. /\ [wire[m] EXCEPT !.late = wire[m].late \cup K(m)] \in Messages
        /\ [wire[m] EXCEPT !.late = wire[m].late \cup K(m)].says = wire[m].says
        /\ [wire[m] EXCEPT !.late = wire[m].late \cup K(m)].late = wire[m].late \cup K(m)
    BY <2>4, <2>5
  <2>7. CASE m < n
    BY <2>1, <2>6, <2>7
  <2>8. CASE ~(m < n)
    BY <2>1, <2>2, <2>8
  <2> QED
    BY <2>7, <2>8
<1>3. w \in [1..Len(wire) -> Messages]
  <2>1. w = [m \in 1..Len(wire) |-> w[m]]
    BY <1>1 DEF Overtaken
  <2> HIDE DEF w
  <2> QED
    BY <1>1, <1>2, <2>1
<1> HIDE DEF w
<1>4. w \in Seq(Messages) /\ Len(w) = Len(wire) /\ DOMAIN w = 1..Len(wire)
  BY <1>1, <1>3, IndexedIsSeq
<1> QED
  BY <1>1, <1>2, <1>4 DEF w, K

\* What stands where when one is taken out of a sequence.
LEMMA RemovedLemma ==
  ASSUME NEW S, NEW w \in Seq(S), NEW n \in 1..Len(w)
  PROVE  /\ RemoveAt(w, n) \in Seq(S) /\ Len(RemoveAt(w, n)) = Len(w) - 1
         /\ DOMAIN RemoveAt(w, n) = 1..(Len(w) - 1)
         /\ \A m \in 1..(Len(w) - 1) : RemoveAt(w, n)[m] = IF m < n THEN w[m] ELSE w[m + 1]
<1> DEFINE a == SubSeq(w, 1, n - 1)
           b == SubSeq(w, n + 1, Len(w))
<1>1. Len(w) \in Nat /\ n \in Nat
  BY LenProperties
<1>2. a \in Seq(S) /\ Len(a) = n - 1 /\ \A m \in 1..(n - 1) : a[m] = w[m]
  BY <1>1
<1>3. b \in Seq(S) /\ Len(b) = Len(w) - n /\ \A m \in 1..(Len(w) - n) : b[m] = w[m + n]
  BY <1>1
<1> HIDE DEF a, b
<1>4. /\ a \o b \in Seq(S) /\ Len(a \o b) = Len(w) - 1
      /\ \A m \in 1..(Len(w) - 1) : (a \o b)[m] = IF m < n THEN w[m] ELSE w[m + 1]
  <2>1. /\ a \o b \in Seq(S) /\ Len(a \o b) = Len(a) + Len(b)
        /\ \A m \in 1..(Len(a) + Len(b)) :
             (a \o b)[m] = IF m <= Len(a) THEN a[m] ELSE b[m - Len(a)]
    <3>1. a \in Seq(S) /\ b \in Seq(S)
      BY <1>2, <1>3
    <3> QED
      BY <3>1, ConcatProperties
  <2>2. Len(a) + Len(b) = Len(w) - 1
    BY <1>1, <1>2, <1>3
  <2>3. ASSUME NEW m \in 1..(Len(w) - 1)
        PROVE  (a \o b)[m] = IF m < n THEN w[m] ELSE w[m + 1]
    <3>1. CASE m < n
      BY <1>1, <1>2, <2>1, <2>2, <3>1
    <3>2. CASE ~(m < n)
      <4>1. m - (n - 1) \in 1..(Len(w) - n) /\ m - (n - 1) + n = m + 1 /\ ~(m <= n - 1)
        BY <1>1, <3>2
      <4>2. b[m - (n - 1)] = w[m + 1]
        BY <1>3, <4>1
      <4> QED
        BY <1>2, <2>1, <2>2, <3>2, <4>1, <4>2
    <3> QED
      BY <3>1, <3>2
  <2> QED
    BY <2>1, <2>2, <2>3
<1>5. RemoveAt(w, n) = a \o b
  BY DEF RemoveAt, a, b
<1> QED
  BY <1>4, <1>5, LenProperties

\* A message arrives whose levels the book shows as it says, and no others are touched:
\* what it overtook is late, what overtook it makes its levels stale.
LEMMA ArrivesLemma ==
  ASSUME FeedInv, NEW n \in DOMAIN wire, Arrives(n), SidesOf(leader'),
         \A l \in Slots :
           At(leader'[l[1]], l[2]) = IF l \in DOMAIN wire[n].says THEN LevelAt(l[2], wire[n].says[l])
                                                                 ELSE At(leader[l[1]], l[2])
  PROVE  FeedInv'
<1> DEFINE w == Overtaken(n)
           N == Len(wire)
<1>1. /\ wire \in Seq(Messages) /\ N \in Nat /\ N <= MaxWire
      /\ truth' = truth /\ wire' \in {w, RemoveAt(w, n)}
      /\ stale' = (stale \ DOMAIN wire[n].says) \cup wire[n].late
  BY LenProperties DEF FeedInv, Arrives
<1>2. /\ w \in Seq(Messages) /\ Len(w) = N /\ DOMAIN w = 1..N /\ DOMAIN wire = 1..N
      /\ \A m \in 1..N : /\ w[m].says = wire[m].says
                         /\ wire[m].late \subseteq w[m].late
                         /\ m < n => DOMAIN wire[m].says \cap DOMAIN wire[n].says \subseteq w[m].late
  BY <1>1, OvertakenLemma
<1> HIDE DEF w, N
<1>3. n \in 1..N
  BY <1>2
<1>4. ASSUME wire' = w, NEW l \in Slots PROVE Follows(l)'
  <2>1. Follows(l)
    BY DEF FeedInv
  <2>2. Awaited(l)' <=> Awaited(l)
    BY <1>2, <1>4 DEF Awaited
  <2>3. ASSUME ~Awaited(l), l \notin stale'
        PROVE  At(leader'[l[1]], l[2]) = LevelAt(l[2], truth[l])
    <3>1. l \notin DOMAIN wire[n].says
      BY <2>3 DEF Awaited
    <3>2. l \notin stale
      BY <1>1, <2>3, <3>1
    <3> QED
      BY <2>1, <2>3, <3>1, <3>2 DEF Follows
  <2>4. ASSUME NEW m \in 1..N, LastWord(w, m, l), l \notin w[m].late
        PROVE  w[m].says[l] = truth[l]
    <3>1. LastWord(wire, m, l) /\ l \notin wire[m].late
      BY <1>2, <2>4 DEF LastWord
    <3> QED
      BY <1>2, <2>1, <3>1 DEF Follows
  <2> QED
    BY <1>1, <1>2, <1>4, <2>2, <2>3, <2>4 DEF Follows
<1>5. ASSUME wire' = RemoveAt(w, n)
      PROVE  /\ wire' \in Seq(Messages) /\ Len(wire') = N - 1 /\ DOMAIN wire' = 1..(N - 1)
             /\ \A m \in 1..(N - 1) : wire'[m] = IF m < n THEN w[m] ELSE w[m + 1]
  <2>1. n \in 1..Len(w)
    BY <1>2, <1>3
  <2>2. /\ RemoveAt(w, n) \in Seq(Messages) /\ Len(RemoveAt(w, n)) = N - 1
        /\ DOMAIN RemoveAt(w, n) = 1..(N - 1)
        /\ \A m \in 1..(N - 1) : RemoveAt(w, n)[m] = IF m < n THEN w[m] ELSE w[m + 1]
    <3>1. w \in Seq(Messages) /\ Len(w) = N
      BY <1>2
    <3>2. /\ RemoveAt(w, n) \in Seq(Messages) /\ Len(RemoveAt(w, n)) = Len(w) - 1
          /\ DOMAIN RemoveAt(w, n) = 1..(Len(w) - 1)
          /\ \A m \in 1..(Len(w) - 1) : RemoveAt(w, n)[m] = IF m < n THEN w[m] ELSE w[m + 1]
      BY <3>1, <2>1, RemovedLemma
    <3> QED
      BY <3>1, <3>2
  <2> QED
    BY <1>5, <2>2
<1>6. ASSUME wire' = RemoveAt(w, n), NEW l \in Slots PROVE Follows(l)'
  <2>1. Follows(l)
    BY DEF FeedInv
  <2>2. /\ DOMAIN wire' = 1..(N - 1)
        /\ \A m \in 1..(N - 1) : wire'[m] = IF m < n THEN w[m] ELSE w[m + 1]
    BY <1>5, <1>6
  <2>3. ASSUME NEW j \in 1..N, j # n
        PROVE  \E m \in 1..(N - 1) : wire'[m] = w[j]
    <3>1. CASE j < n
      BY <1>1, <1>3, <2>2, <3>1 DEF N
    <3>2. CASE j > n
      <4>1. j - 1 \in 1..(N - 1) /\ ~(j - 1 < n) /\ (j - 1) + 1 = j
        BY <1>1, <1>3, <3>2
      <4> QED
        BY <2>2, <4>1
    <3> QED
      BY <1>1, <1>3, <2>3, <3>1, <3>2
  <2>4. ASSUME ~Awaited(l)', l \notin stale'
        PROVE  At(leader'[l[1]], l[2]) = LevelAt(l[2], truth[l])
    <3>1. \A j \in 1..N : j # n => l \notin DOMAIN wire[j].says
      <4> SUFFICES ASSUME NEW j \in 1..N, j # n, l \in DOMAIN wire[j].says PROVE FALSE
        OBVIOUS
      <4>1. PICK m \in 1..(N - 1) : wire'[m] = w[j]
        BY <2>3
      <4>2. l \in DOMAIN wire'[m].says /\ m \in DOMAIN wire'
        BY <1>2, <2>2, <4>1
      <4> QED
        BY <2>4, <4>2 DEF Awaited
    <3>2. CASE l \in DOMAIN wire[n].says
      <4>1. LastWord(wire, n, l)
        BY <1>1, <1>2, <1>3, <3>1, <3>2 DEF LastWord
      <4>2. l \notin wire[n].late
        BY <1>1, <2>4
      <4>3. wire[n].says[l] = truth[l]
        BY <2>1, <4>1, <4>2 DEF Follows
      <4> QED
        BY <3>2, <4>3
    <3>3. CASE l \notin DOMAIN wire[n].says
      <4>1. ~Awaited(l)
        BY <1>2, <3>1, <3>3 DEF Awaited
      <4>2. l \notin stale
        BY <1>1, <2>4, <3>3
      <4> QED
        BY <2>1, <3>3, <4>1, <4>2 DEF Follows
    <3> QED
      BY <3>2, <3>3
  <2>5. ASSUME NEW m \in 1..(N - 1), LastWord(wire', m, l), l \notin wire'[m].late
        PROVE  wire'[m].says[l] = truth[l]
    <3> DEFINE j == IF m < n THEN m ELSE m + 1
    <3>1. j \in 1..N /\ j # n /\ wire'[m] = w[j] /\ (m < n <=> j < n)
      BY <1>1, <1>3, <2>2
    <3>2. ASSUME NEW i \in 1..N, j < i, i # n PROVE l \notin DOMAIN wire[i].says
      <4> DEFINE k == IF i < n THEN i ELSE i - 1
      <4>1. k \in 1..(N - 1) /\ m < k /\ wire'[k] = w[i]
        <5>1. CASE i < n
          BY <1>1, <1>3, <2>2, <3>1, <3>2, <5>1
        <5>2. CASE i > n
          <6>1. k = i - 1 /\ k \in 1..(N - 1) /\ ~(k < n) /\ k + 1 = i
            BY <1>1, <1>3, <5>2
          <6>2. wire'[k] = w[i]
            BY <2>2, <6>1
          <6> QED
            BY <1>1, <1>3, <3>1, <3>2, <5>2, <6>1, <6>2
        <5> QED
          BY <1>1, <1>3, <3>2, <5>1, <5>2
      <4> QED
        BY <1>2, <2>2, <2>5, <4>1 DEF LastWord
    <3> HIDE DEF j
    <3>3. l \in DOMAIN wire[j].says /\ l \notin w[j].late /\ l \notin wire[j].late
      BY <1>2, <2>5, <3>1 DEF LastWord
    <3>4. j < n => l \notin DOMAIN wire[n].says
      BY <1>2, <3>1, <3>3
    <3>5. LastWord(wire, j, l)
      BY <1>2, <3>1, <3>2, <3>3, <3>4 DEF LastWord
    <3>6. wire[j].says[l] = truth[l]
      BY <1>2, <2>1, <3>1, <3>3, <3>5 DEF Follows
    <3> QED
      BY <1>2, <3>1, <3>6
  <2> QED
    BY <1>1, <2>2, <2>4, <2>5 DEF Follows
<1>7. wire' \in Seq(Messages) /\ Len(wire') <= MaxWire
  BY <1>1, <1>2, <1>5
<1>8. \A l \in Slots : Follows(l)'
  BY <1>1, <1>4, <1>6
<1> QED
  BY <1>1, <1>7, <1>8 DEF FeedInv

\* OrderBook::apply_diff keeps the invariant, whatever its diff has overtaken.
LEMMA ReceiveDiffStep ==
  ASSUME FeedInv, NEW n \in DOMAIN wire, ReceiveDiff(n)
  PROVE  FeedInv'
<1>1. wire[n] \in Messages
  BY ElementOfSeq, LenProperties DEF FeedInv
<1>2. PICK k \in DOMAIN wire[n].says :
        leader' = ApplyDiff(leader, DiffOf(k[1], LevelOf(k[2], wire[n].says[k])))
  BY DEF ReceiveDiff
<1>3. DOMAIN wire[n].says = {k} /\ k \in Slots /\ wire[n].says[k] \in Nat \X Nat
  BY <1>1, <1>2, MessageType DEF ReceiveDiff
<1> DEFINE size == wire[n].says[k]
<1>4. k[1] \in Sides /\ k[2] \in Prices[k[1]] /\ SidesOf(leader)
  BY <1>3, SlotType DEF FeedInv
<1>5. /\ SidesOf(leader')
      /\ \A side \in Sides : \A p \in Prices[side] :
           At(leader'[side], p) =
             IF side = k[1] /\ p = k[2] THEN LevelAt(k[2], size) ELSE At(leader[side], p)
  BY <1>2, <1>3, <1>4, DiffLemma
<1>6. ASSUME NEW l \in Slots
      PROVE  At(leader'[l[1]], l[2]) = IF l \in DOMAIN wire[n].says THEN LevelAt(l[2], wire[n].says[l])
                                                                   ELSE At(leader[l[1]], l[2])
  <2>1. l[1] \in Sides /\ l[2] \in Prices[l[1]] /\ (l[1] = k[1] /\ l[2] = k[2] <=> l = k)
    BY <1>3, SlotType
  <2> QED
    BY <1>3, <1>5, <2>1
<1> QED
  BY <1>5, <1>6, ArrivesLemma DEF ReceiveDiff

\* OrderBook::from_snapshot keeps the invariant, however old its snapshot is.
LEMMA ReceiveSnapshotStep ==
  ASSUME FeedInv, NEW n \in DOMAIN wire, ReceiveSnapshot(n)
  PROVE  FeedInv'
<1> DEFINE says == wire[n].says
<1>1. wire[n] \in Messages
  BY ElementOfSeq, LenProperties DEF FeedInv
<1>2. /\ DOMAIN says = Slots /\ says \in [Slots -> Nat \X Nat]
      /\ \A side \in Sides : IsFiniteSet(Listed(says, side))
  BY <1>1, MessageType DEF ReceiveSnapshot
<1>3. PICK bids \in Listings(says, "bids"), asks \in Listings(says, "asks") :
        leader' = FromSnapshot([side \in Sides |-> IF side = "bids" THEN bids ELSE asks])
  BY DEF ReceiveSnapshot
<1> HIDE DEF says
<1>4. ASSUME NEW side \in Sides
      PROVE  /\ IsSide(side, leader'[side])
             /\ \A x \in LevelsIn(leader'[side]) : x.price \in Prices[side]
             /\ \A p \in Prices[side] : At(leader'[side], p) = LevelAt(p, says[<<side, p>>])
  <2> DEFINE us == IF side = "bids" THEN bids ELSE asks
  <2>1. us \in Listings(says, side)
    BY DEF Sides
  <2>2. leader'[side] = Updates(side, <<>>, us)
    <3>1. leader'[side] = Updates(side, EmptyBook[side], us)
      BY <1>3 DEF FromSnapshot, ApplyDiff
    <3> HIDE DEF us
    <3> QED
      BY <3>1, EmptySide
  <2> HIDE DEF us
  <2> QED
    BY <1>2, <2>1, <2>2, SnapshotLemma
<1>5. SidesOf(leader')
  BY <1>4 DEF SidesOf
<1>6. ASSUME NEW l \in Slots
      PROVE  At(leader'[l[1]], l[2]) = LevelAt(l[2], says[l])
  <2>1. l[1] \in Sides /\ l[2] \in Prices[l[1]] /\ l = <<l[1], l[2]>>
    BY SlotType
  <2>2. At(leader'[l[1]], l[2]) = LevelAt(l[2], says[<<l[1], l[2]>>])
    BY <1>4, <2>1
  <2> QED
    BY <2>1, <2>2
<1> QED
  BY <1>2, <1>5, <1>6, ArrivesLemma DEF ReceiveSnapshot, says

\* The invariant holds at the start,
LEMMA InitFeed == FeedInit => FeedInv
<1> SUFFICES ASSUME FeedInit PROVE FeedInv
  OBVIOUS
<1>1. truth \in [Slots -> Nat \X Nat] /\ \A l \in Slots : truth[l] = <<0, 0>>
  BY DEF FeedInit
<1>2. \A side \in Sides : Listed(truth, side) = {}
  BY <1>1, SlotType DEF Listed
<1>3. \A side \in Sides : IsFiniteSet(Listed(truth, side))
  BY <1>2, FS_EmptySet
<1>4. wire \in Seq(Messages) /\ Len(wire) = 0 /\ DOMAIN wire = {}
  BY EmptySeq DEF FeedInit
<1>5. SidesOf(leader) /\ \A side \in Sides : LevelsIn(leader[side]) = {}
  BY EmptySide DEF FeedInit, SidesOf
<1>6. ASSUME NEW l \in Slots PROVE Follows(l)
  BY <1>1, <1>4, <1>5, SlotType DEF Follows, At, LevelAt
<1> QED
  BY <1>1, <1>3, <1>4, <1>5, <1>6 DEF FeedInv

\* and every step of the feed keeps it.
LEMMA NextFeed == FeedInv /\ [FeedNext]_feed => FeedInv'
<1> SUFFICES ASSUME FeedInv, [FeedNext]_feed PROVE FeedInv'
  OBVIOUS
<1>1. CASE \E l \in Slots : Change(l)
  BY <1>1, ChangeStep
<1>2. CASE AnswerSnapshot
  BY <1>2, AnswerSnapshotStep
<1>3. CASE \E n \in DOMAIN wire : ReceiveDiff(n)
  BY <1>3, ReceiveDiffStep
<1>4. CASE \E n \in DOMAIN wire : ReceiveSnapshot(n)
  BY <1>4, ReceiveSnapshotStep
<1>5. CASE UNCHANGED feed
  BY <1>5 DEF feed, FeedInv, Follows, Awaited
<1> QED
  BY <1>1, <1>2, <1>3, <1>4, <1>5 DEF FeedNext, ExchangeStep, ReceiveStep

(***************************************************************************)
(* The inductive invariant of the books and the signal                     *)
(***************************************************************************)

FollowerInv ==
  /\ \A side \in Sides :
       IsSide(side, follower[side]) /\ \A x \in LevelsIn(follower[side]) : x.price \in Nat
  /\ follower = EmptyBook
       \/ \E answer \in Answers : answer.ok /\ ShowsEntries(follower, answer.data, AsRead(answer.data))

\* While the prices read are not yet stored both locks are held.
LockInv ==
  /\ reader \in {"out", "leader", "both"} /\ tops \in Tops \cup {None}
  /\ tops # None => reader = "both" /\ Quoted /\ tops = TopsNow

OwnerInv ==
  /\ snapshot \in Snapshot \cup {None}
  /\ state \in {"Idle", "Cooldown"} /\ age \in 0..CooldownSecs
  /\ signal \in [direction : Directions, price : Nat] \cup {None}

BooksInv == FeedInv /\ FollowerInv /\ LockInv /\ OwnerInv

(***************************************************************************)
(* The follower's feed                                                     *)
(***************************************************************************)

\* The REST answer becomes the follower's book.
LEMMA UpdateFollowerStep ==
  ASSUME UpdateFollowerBook
  PROVE  FollowerInv'
<1>1. PICK answer \in Answers :
        /\ GetOrderBook(answer) # {}
        /\ follower' = FromSnapshot(OrderBookSnapshot(answer.data, GetOrderBook(answer)))
  BY DEF UpdateFollowerBook
<1>2. /\ \A side \in Sides :
           /\ IsSide(side, follower'[side])
           /\ \A x \in LevelsIn(follower'[side]) : x.price \in Nat
      /\ answer.ok /\ ShowsEntries(follower', answer.data, AsRead(answer.data))
  BY <1>1, AnswerLemma
<1> QED
  BY <1>2 DEF FollowerInv

(***************************************************************************)
(* The owner of the context                                                *)
(***************************************************************************)

USE BpsAssumption, CooldownAssumption

\* The best level of a side is a level of it.
LEMMA BestLevel ==
  ASSUME NEW book, NEW side \in Sides, IsSide(side, book[side]), HasBest(book, side),
         \A x \in LevelsIn(book[side]) : x.price \in Nat
  PROVE  BestPrice(book, side) \in Nat /\ Head(book[side]).volume \in Nat
<1>1. book[side] \in Seq(Level) /\ book[side] # <<>>
  BY DEF IsSide, HasBest
<1>2. Head(book[side]) \in Level
  BY <1>1, HeadTailProperties
<1>3. Head(book[side]) \in LevelsIn(book[side])
  <2>1. Head(book[side]) = book[side][1] /\ 1 \in DOMAIN book[side]
    BY <1>1, LenProperties, EmptySeq
  <2> QED
    BY <2>1 DEF LevelsIn
<1> QED
  BY <1>2, <1>3 DEF BestPrice, Level

BooksTyped ==
  \A book \in {leader, follower}, side \in Sides :
    IsSide(side, book[side]) /\ \A x \in LevelsIn(book[side]) : x.price \in Nat

\* Both books are sides of levels with prices that are not negative.
LEMMA BooksAreTyped ==
  ASSUME FeedInv, FollowerInv
  PROVE  BooksTyped
<1>1. \A side \in Sides : IsSide(side, leader[side]) /\ \A x \in LevelsIn(leader[side]) : x.price \in Nat
  BY DEF FeedInv, SidesOf
<1> QED
  BY <1>1 DEF FollowerInv, BooksTyped

\* The four best prices, when there are.
LEMMA TopsType ==
  ASSUME BooksTyped, Quoted
  PROVE  TopsNow \in Tops
<1>1. ASSUME NEW book \in {leader, follower}, NEW side \in Sides PROVE BestPrice(book, side) \in Nat
  BY BestLevel DEF BooksTyped, Quoted
<1>2. /\ BestPrice(leader, "bids") \in Nat /\ BestPrice(leader, "asks") \in Nat
      /\ BestPrice(follower, "bids") \in Nat /\ BestPrice(follower, "asks") \in Nat
  BY <1>1 DEF Sides
<1> QED
  BY <1>2 DEF TopsNow, Tops

\* The spread stored by calc_spread.
LEMMA SpreadType ==
  ASSUME BooksTyped, NEW prices \in Tops
  PROVE  SpreadNow(prices) \in Snapshot
<1>1. ASSUME NEW side \in Sides PROVE TopVolume(leader, side) \in Nat
  BY BestLevel DEF BooksTyped, TopVolume
<1>2. TopVolume(leader, "bids") \in Nat /\ TopVolume(leader, "asks") \in Nat
  BY <1>1 DEF Sides
<1>3. prices.leaderBid \in Nat /\ prices.leaderAsk \in Nat
  BY DEF Tops
<1>4. \A a, b \in Nat : a * b \in Nat
  OBVIOUS
<1>5. /\ TopVolume(leader, "bids") * prices.leaderBid \in Nat
      /\ TopVolume(leader, "asks") * prices.leaderAsk \in Nat
  BY <1>2, <1>3, <1>4
<1> QED
  BY <1>5 DEF SpreadNow, Snapshot

\* A signal is made only of a spread.
LEMMA SignalType ==
  ASSUME OwnerInv, MakeSignal
  PROVE  /\ signal' \in [direction : Directions, price : Nat]
         /\ snapshot \in Snapshot /\ snapshot # None
<1>1. snapshot # None /\ snapshot \in Snapshot
  BY DEF MakeSignal, RunFilters, SpreadThresholdFilter, OwnerInv
<1>2. snapshot.tops.followerAsk \in Nat /\ snapshot.tops.followerBid \in Nat
  BY <1>1 DEF Snapshot, Tops
<1>3. CalcDirection(snapshot) \in {"Long", "Short", "None"}
  BY DEF CalcDirection
<1> DEFINE direction == CalcDirection(snapshot)
<1>4. signal' = [direction |-> direction,
                 price |-> CASE direction = "Long" -> snapshot.tops.followerAsk
                             [] direction = "Short" -> snapshot.tops.followerBid
                             [] direction = "None" -> 0]
  BY DEF MakeSignal
<1> HIDE DEF direction
<1>5. direction \in {"Long", "Short", "None"}
  BY <1>3 DEF direction
<1>6. signal' \in [direction : Directions, price : Nat]
  BY <1>2, <1>4, <1>5 DEF Directions
<1> QED
  BY <1>1, <1>6

\* The invariant holds at the start,
LEMMA InitBooks == Init => BooksInv
<1> SUFFICES ASSUME Init PROVE BooksInv
  OBVIOUS
<1>1. FeedInv
  BY InitFeed DEF Init
<1>2. FollowerInv
  BY EmptySide DEF Init, FollowerInv
<1>3. LockInv /\ OwnerInv
  BY DEF Init, LockInv, OwnerInv
<1> QED
  BY <1>1, <1>2, <1>3 DEF BooksInv

\* and every step keeps it: the feeds write only while no reader holds their lock.
LEMMA NextBooks == BooksInv /\ [Next]_vars => BooksInv'
<1> SUFFICES ASSUME BooksInv, [Next]_vars PROVE BooksInv'
  OBVIOUS
<1>1. FeedInv /\ FollowerInv /\ LockInv /\ OwnerInv
  BY DEF BooksInv
<1>2. BooksTyped
  BY <1>1, BooksAreTyped
<1>3. ASSUME UNCHANGED feed PROVE FeedInv' /\ leader' = leader
  BY <1>1, <1>3, NextFeed DEF feed
<1>4. ASSUME UNCHANGED follower PROVE FollowerInv'
  BY <1>1, <1>4 DEF FollowerInv
<1>5. ASSUME UNCHANGED <<snapshot, state, age, signal>> PROVE OwnerInv'
  BY <1>1, <1>5 DEF OwnerInv
<1>6. ASSUME reader # "both", reader' = reader, tops' = tops PROVE LockInv'
  BY <1>1, <1>6 DEF LockInv
<1>7. ASSUME UNCHANGED <<leader, follower, reader, tops>> PROVE LockInv'
  BY <1>1, <1>7 DEF LockInv, Quoted, TopsNow
<1>8. CASE LeaderExchange
  <2>1. FeedInv'
    BY <1>1, <1>8, NextFeed DEF LeaderExchange, FeedNext
  <2>2. leader' = leader /\ UNCHANGED <<follower, reader, tops, snapshot, state, age, signal>>
    BY <1>8 DEF LeaderExchange, ExchangeStep, Change, AnswerSnapshot, spread
  <2> QED
    BY <1>4, <1>5, <1>7, <2>1, <2>2 DEF BooksInv
<1>9. CASE UpdateLeaderBook
  <2>1. FeedInv'
    BY <1>1, <1>9, NextFeed DEF UpdateLeaderBook, FeedNext
  <2>2. reader # "both" /\ UNCHANGED <<follower, reader, tops, snapshot, state, age, signal>>
    BY <1>9 DEF UpdateLeaderBook, MayWriteLeader, spread
  <2> QED
    BY <1>4, <1>5, <1>6, <2>1, <2>2 DEF BooksInv
<1>11. CASE UpdateFollowerBook
  <2>1. FollowerInv'
    BY <1>11, UpdateFollowerStep
  <2>2. reader # "both" /\ UNCHANGED <<feed, reader, tops, snapshot, state, age, signal>>
    BY <1>11 DEF UpdateFollowerBook, spread, MayWriteFollower
  <2> QED
    BY <1>3, <1>5, <1>6, <2>1, <2>2 DEF BooksInv
<1>12. CASE LockLeader
  <2>1. UNCHANGED <<feed, follower, tops, snapshot, state, age>>
        /\ signal' = None /\ reader' = "leader" /\ tops = None
    BY <1>12 DEF LockLeader
  <2>2. LockInv' /\ OwnerInv'
    BY <1>1, <2>1 DEF LockInv, OwnerInv
  <2> QED
    BY <1>3, <1>4, <2>1, <2>2 DEF BooksInv
<1>13. CASE LockFollower
  <2>1. UNCHANGED <<feed, follower, snapshot, state, age, signal>> /\ reader = "leader"
    BY <1>13 DEF LockFollower
  <2>2. LockInv'
    <3>1. CASE Quoted
      <4>1. reader' = "both" /\ tops' = TopsNow /\ TopsNow \in Tops
        BY <1>2, <1>13, <3>1, TopsType DEF LockFollower
      <4>2. Quoted' /\ TopsNow' = TopsNow
        BY <1>3, <2>1, <3>1 DEF Quoted, TopsNow
      <4> QED
        BY <4>1, <4>2 DEF LockInv
    <3>2. CASE ~Quoted
      BY <1>1, <1>13, <2>1, <3>2 DEF LockFollower, LockInv
    <3> QED
      BY <3>1, <3>2
  <2> QED
    BY <1>3, <1>4, <1>5, <2>1, <2>2 DEF BooksInv
<1>14. CASE TakeSpread
  <2>1. /\ UNCHANGED <<feed, follower, state, age, signal>> /\ tops # None
        /\ snapshot' = SpreadNow(tops) /\ tops' = None /\ reader' = "out"
    BY <1>14 DEF TakeSpread
  <2>2. snapshot' \in Snapshot
    BY <1>1, <1>2, <2>1, SpreadType DEF LockInv
  <2>3. LockInv' /\ OwnerInv'
    BY <1>1, <2>1, <2>2 DEF LockInv, OwnerInv
  <2> QED
    BY <1>3, <1>4, <2>1, <2>3 DEF BooksInv
<1>15. CASE MakeSignal
  <2>1. UNCHANGED <<feed, follower, reader, tops, snapshot, state, age>>
    BY <1>15 DEF MakeSignal, spread
  <2>2. OwnerInv'
    BY <1>1, <1>15, <2>1, SignalType DEF OwnerInv
  <2> QED
    BY <1>3, <1>4, <1>7, <2>1, <2>2 DEF BooksInv
<1>16. CASE \E s \in {"Idle", "Cooldown"} : SetState(s)
  <2>1. /\ UNCHANGED <<feed, follower, reader, tops, snapshot, signal>>
        /\ state' \in {"Idle", "Cooldown"} /\ age' = 0
    BY <1>16 DEF SetState, spread
  <2>2. OwnerInv'
    BY <1>1, <2>1 DEF OwnerInv
  <2> QED
    BY <1>3, <1>4, <1>7, <2>1, <2>2 DEF BooksInv
<1>17. CASE Tick
  <2>1. /\ UNCHANGED <<feed, follower, reader, tops, snapshot, state, signal>>
        /\ age < CooldownSecs /\ age' = age + 1
    BY <1>17 DEF Tick, spread
  <2>2. OwnerInv'
    BY <1>1, <2>1 DEF OwnerInv
  <2> QED
    BY <1>3, <1>4, <1>7, <2>1, <2>2 DEF BooksInv
<1>18. CASE UNCHANGED vars
  <2>1. UNCHANGED <<feed, follower, reader, tops, snapshot, state, age, signal>>
    BY <1>18 DEF vars, spread
  <2> QED
    BY <1>3, <1>4, <1>5, <1>7, <2>1 DEF BooksInv
<1> QED
  BY <1>8, <1>9, <1>11, <1>12, <1>13, <1>14, <1>15, <1>16, <1>17, <1>18
  DEF Next, OwnerStep

\* The inductive invariant holds always.
THEOREM BooksInvariant == Spec => []BooksInv
<1>1. Init => BooksInv
  BY InitBooks
<1>2. BooksInv /\ [Next]_vars => BooksInv'
  BY NextBooks
<1> QED
  BY <1>1, <1>2, PTL DEF Spec

(***************************************************************************)
(* The theorems                                                            *)
(***************************************************************************)

\* The books, the spread and the signal have the types of orderbook and signal-engine,
\* and no more messages are under way than the bound.
THEOREM TypeCorrect == Spec => []TypeOK
<1>1. BooksInv => TypeOK
  <2> SUFFICES ASSUME BooksInv PROVE TypeOK
    OBVIOUS
  <2>1. FeedInv /\ FollowerInv /\ LockInv /\ OwnerInv
    BY DEF BooksInv
  <2>2. \A book \in {leader, follower}, side \in Sides : book[side] \in Seq(Level)
    BY <2>1, BooksAreTyped DEF BooksTyped, IsSide
  <2> QED
    BY <2>1, <2>2 DEF TypeOK, FeedInv, LockInv, OwnerInv
<1> QED
  BY <1>1, BooksInvariant, PTL

\* BookSide::update, apply_diff and from_snapshot: whatever snapshots and diffs arrive, in
\* any order and again, each side stays best first and each price once, and the levels
\* that no message under way speaks of and that no overtaken message wrote last are the
\* exchange's.
THEOREM BookFollowsExchangeCorrect == FeedSpec => []BookFollowsExchange
<1>1. FeedInv => BookFollowsExchange
  <2> SUFFICES ASSUME FeedInv PROVE BookFollowsExchange
    OBVIOUS
  <2>1. ASSUME NEW side \in Sides
        PROVE  /\ \A n \in DOMAIN leader[side] : leader[side][n].price \in Prices[side]
               /\ \A m, n \in DOMAIN leader[side] :
                    m < n => Better(side, leader[side][m], leader[side][n])
    BY DEF FeedInv, SidesOf, IsSide, BestFirst, LevelsIn
  <2>2. ASSUME NEW l \in Slots, ~Awaited(l), l \notin stale PROVE Shown(l)
    <3> DEFINE book == leader[l[1]]
    <3>1. {x \in {book[n] : n \in DOMAIN book} : x.price = l[2]} = LevelAt(l[2], truth[l])
      BY <2>2 DEF FeedInv, Follows, At, LevelsIn
    <3>2. {book[n] : n \in {m \in DOMAIN book : book[m].price = l[2]}} =
            {x \in {book[n] : n \in DOMAIN book} : x.price = l[2]}
      OBVIOUS
    <3> QED
      BY <3>1, <3>2 DEF Shown, LevelAt
  <2> QED
    BY <2>1, <2>2 DEF BookFollowsExchange
<1> QED
  BY <1>1, InitFeed, NextFeed, PTL DEF FeedSpec

\* The signal engine's locks let the feed make its steps and none of its own touch the
\* leader's book: what holds of the feed holds of the whole.
THEOREM LeaderBookIsFed == Spec => FeedSpec
<1>1. Init => FeedInit
  BY DEF Init
<1>2. [Next]_vars => [FeedNext]_feed
  <2> SUFFICES ASSUME [Next]_vars PROVE [FeedNext]_feed
    OBVIOUS
  <2>1. CASE LeaderExchange \/ UpdateLeaderBook
    BY <2>1 DEF LeaderExchange, UpdateLeaderBook, FeedNext
  <2>2. CASE UpdateFollowerBook \/ OwnerStep \/ Tick \/ UNCHANGED vars
    BY <2>2 DEF UpdateFollowerBook, OwnerStep, LockLeader, LockFollower, TakeSpread, MakeSignal,
       SetState, Tick, vars
  <2> QED
    BY <2>1, <2>2 DEF Next
<1> QED
  BY <1>1, <1>2, PTL DEF Spec, FeedSpec

\* get_order_book, get_order_book_snapshot and from_snapshot never mix answers, of an
\* exchange that gives its bids either direction: the follower's book shows one whole
\* answer, all entries on the sides meant or all on the other, with none of another
\* symbol but those without a name.
THEOREM FollowerShowsAnswerCorrect == Spec => []FollowerShowsAnswer
<1>1. ASSUME NEW answer \in Answers PROVE AsRead(answer.data) = Placed(answer)
  <2> DEFINE data == answer.data
             read(n, side) == data[n].readable /\ OfSymbol(data[n]) /\ SideOf(data[n]) = side
             meant(n, side) == /\ data[n].readable /\ (data[n].own \/ data[n].instrumentID = NoName)
                               /\ MeantSide(answer, n) = side <=> answer.bidDirection = "1"
  <2>1. data \in Seq(Entry) /\ answer.bidDirection \in {"0", "1"}
    BY DEF Answer
  <2>2. ASSUME NEW n \in DOMAIN data, NEW side \in Sides PROVE read(n, side) <=> meant(n, side)
    <3>1. data[n] \in Entry
      BY <2>1, ElementOfSeq, LenProperties
    <3>2. OfSymbol(data[n]) <=> data[n].own \/ data[n].instrumentID = NoName
      BY <3>1 DEF Entry, OfSymbol
    <3>3. data[n].direction \in {"0", "1"}
      BY <3>1 DEF Entry
    <3>4. SideOf(data[n]) = side <=> (MeantSide(answer, n) = side <=> answer.bidDirection = "1")
      BY <2>1, <3>3 DEF SideOf, MeantSide, Sides
    <3> QED
      BY <3>2, <3>4
  <2>3. ASSUME NEW side \in Sides
        PROVE  {n \in DOMAIN data : read(n, side)} = {n \in DOMAIN data : meant(n, side)}
    <3> HIDE DEF data, read, meant
    <3> QED
      BY <2>2
  <2> QED
    BY <2>3 DEF AsRead, Placed
<1>2. BooksInv => FollowerShowsAnswer
  BY <1>1 DEF BooksInv, FollowerInv, FollowerShowsAnswer
<1> QED
  BY <1>2, BooksInvariant, PTL

\* calc_spread holds both read locks until the spread is stored, so the spread is of one
\* moment of the two books.
THEOREM SpreadOfOneMomentCorrect == Spec => SpreadOfOneMoment
<1>1. BooksInv /\ [Next]_vars => [snapshot' # snapshot => Quoted /\ snapshot' = SpreadNow(TopsNow)]_vars
  <2> SUFFICES ASSUME BooksInv, Next, snapshot' # snapshot
               PROVE  Quoted /\ snapshot' = SpreadNow(TopsNow)
    BY DEF vars, spread
  <2>1. TakeSpread
    BY DEF Next, OwnerStep, LeaderExchange, UpdateLeaderBook, UpdateFollowerBook,
       LockLeader, LockFollower, MakeSignal, SetState, Tick, spread
  <2> QED
    BY <2>1 DEF TakeSpread, BooksInv, LockInv
<1> QED
  BY <1>1, BooksInvariant, PTL DEF Spec, SpreadOfOneMoment

\* calc_direction and the filter chain let no signal through that does not gain the entry
\* threshold at the prices of its spread, or whose leader's side is not deep enough.
THEOREM SignalPaysCorrect == Spec => SignalPays
<1> DEFINE Made == signal' # None /\ signal' # signal
           PaysNow ==
             \/ /\ signal' = [direction |-> "Long", price |-> snapshot.tops.followerAsk]
                /\ Pays(snapshot.tops.leaderBid - signal'.price)
                /\ snapshot.bidDepth >= MinDepth
             \/ /\ signal' = [direction |-> "Short", price |-> snapshot.tops.followerBid]
                /\ Pays(signal'.price - snapshot.tops.leaderAsk)
                /\ snapshot.askDepth >= MinDepth
<1>1. BooksInv /\ [Next]_vars => [Made => PaysNow]_vars
  <2> SUFFICES ASSUME BooksInv, Next, Made PROVE PaysNow
    BY DEF vars
  <2>1. MakeSignal
    BY DEF Next, OwnerStep, LeaderExchange, UpdateLeaderBook, UpdateFollowerBook,
       LockLeader, LockFollower, TakeSpread, SetState, Tick, spread
  <2>2. snapshot \in Snapshot /\ snapshot # None
    BY <2>1, SignalType DEF BooksInv
  <2>3. DepthConfirmFilter
    BY <2>1 DEF MakeSignal, RunFilters
  <2>4. /\ snapshot.tops.leaderBid \in Nat /\ snapshot.tops.leaderAsk \in Nat
        /\ snapshot.tops.followerBid \in Nat /\ snapshot.tops.followerAsk \in Nat
    BY <2>2 DEF Snapshot, Tops
  <2>5. CASE CalcDirection(snapshot) = "Long" /\ snapshot.bidDepth >= MinDepth
    <3>1. signal' = [direction |-> "Long", price |-> snapshot.tops.followerAsk]
      BY <2>1, <2>5 DEF MakeSignal
    <3>2. BpsReach(snapshot, "Long", EntryBps) /\ Delta(snapshot, "Long") > 0
      BY <2>5 DEF CalcDirection
    <3>3. Delta(snapshot, "Long") = snapshot.tops.leaderBid - snapshot.tops.followerAsk
      BY DEF Delta
    <3>4. Pays(snapshot.tops.leaderBid - snapshot.tops.followerAsk)
      BY <2>4, <3>2, <3>3 DEF Pays, BpsReach, Abs
    <3> QED
      BY <2>5, <3>1, <3>4
  <2>6. CASE CalcDirection(snapshot) = "Short" /\ snapshot.askDepth >= MinDepth
    <3>1. signal' = [direction |-> "Short", price |-> snapshot.tops.followerBid]
      BY <2>1, <2>6 DEF MakeSignal
    <3>2. BpsReach(snapshot, "Short", EntryBps) /\ Delta(snapshot, "Short") > 0
      BY <2>6 DEF CalcDirection
    <3>3. Delta(snapshot, "Short") = snapshot.tops.followerBid - snapshot.tops.leaderAsk
      BY DEF Delta
    <3>4. Pays(snapshot.tops.followerBid - snapshot.tops.leaderAsk)
      BY <2>4, <3>2, <3>3 DEF Pays, BpsReach, Abs
    <3> QED
      BY <2>6, <3>1, <3>4
  <2> QED
    BY <2>2, <2>3, <2>5, <2>6 DEF DepthConfirmFilter
<1> QED
  BY <1>1, BooksInvariant, PTL DEF Spec, SignalPays
================================================================================
