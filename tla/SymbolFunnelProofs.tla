-------------------------- MODULE SymbolFunnelProofs --------------------------
(***************************************************************************)
(* Theorems about the funnel of the symbol-selector crate: RateLimiter,    *)
(* for any threads, batches and limit; SymbolFunnel, for any finite set of *)
(* symbols, any scores, listings, chunks and leverages, and any number of  *)
(* tasks that select.  The two share no state: the limiter only delays.    *)
(***************************************************************************)
EXTENDS SymbolFunnel, RateLimiter, FiniteSetTheorems, SequenceTheorems, TLAPS

(***************************************************************************)
(* Minima and maxima                                                       *)
(***************************************************************************)

LEMMA MinOfTwo ==
  ASSUME NEW a \in Nat, NEW b \in Nat
  PROVE  Min({a, b}) \in {a, b} /\ Min({a, b}) <= a /\ Min({a, b}) <= b
<1>1. \E x \in {a, b} : \A y \in {a, b} : x <= y
  <2>1. CASE a <= b
    BY <2>1
  <2>2. CASE b <= a
    BY <2>2
  <2> QED
    BY <2>1, <2>2
<1> QED
  BY <1>1 DEF Min

LEMMA MaxOfTwo ==
  ASSUME NEW a \in Nat, NEW b \in Nat
  PROVE  Max({a, b}) \in Nat /\ a <= Max({a, b}) /\ b <= Max({a, b})
<1>1. \E x \in {a, b} : \A y \in {a, b} : x >= y
  <2>1. CASE a >= b
    BY <2>1
  <2>2. CASE b >= a
    BY <2>2
  <2> QED
    BY <2>1, <2>2
<1> QED
  BY <1>1 DEF Max

LEMMA MinOfThree ==
  ASSUME NEW a \in Nat, NEW b \in Nat, NEW c \in Nat
  PROVE  /\ Min({a, b, c}) \in {a, b, c}
         /\ Min({a, b, c}) <= a /\ Min({a, b, c}) <= b /\ Min({a, b, c}) <= c
<1>1. \E x \in {a, b, c} : \A y \in {a, b, c} : x <= y
  <2>1. CASE a <= b /\ a <= c
    BY <2>1
  <2>2. CASE b <= a /\ b <= c
    BY <2>2
  <2>3. CASE c <= a /\ c <= b
    BY <2>3
  <2> QED
    BY <2>1, <2>2, <2>3
<1> QED
  BY <1>1 DEF Min

(***************************************************************************)
(* The rate limiter                                                        *)
(***************************************************************************)

\* No second that has not begun has entries, no caller is ahead of the clock, and the
\* entries of the present second, which no caller purges, hold what was permitted in
\* time.
EntriesInv ==
  /\ \A t \in Seconds : t > clock => counts[t] = 0
  /\ \A c \in Threads : now[c] <= clock
  /\ timely <= counts[clock]

LimiterInv == LimiterTypeOK /\ EntriesInv /\ TimelyPermitsFit

USE LimitAssumption, BatchesAssumption

\* A window holds at least the requests of each of its seconds.
LEMMA TotalHoldsEach ==
  ASSUME NEW window \in [Seconds -> Nat], NEW t \in Seconds
  PROVE  Total(window) \in Nat /\ window[t] <= Total(window)
<1> DEFINE of(s) == {s} \X (1..window[s])
           all == {of(s) : s \in Seconds}
           f == [s \in Seconds |-> of(s)]
<1>1. \A s \in Seconds : IsFiniteSet(of(s)) /\ Cardinality(of(s)) = window[s]
  <2> SUFFICES ASSUME NEW s \in Seconds
               PROVE  IsFiniteSet(of(s)) /\ Cardinality(of(s)) = window[s]
    OBVIOUS
  <2>1. IsFiniteSet({s}) /\ Cardinality({s}) = 1
    BY FS_Singleton
  <2>2. IsFiniteSet(1..window[s]) /\ Cardinality(1..window[s]) = window[s]
    BY FS_Interval
  <2>3. IsFiniteSet(of(s)) /\ Cardinality(of(s)) = 1 * window[s]
    BY <2>1, <2>2, FS_Product
  <2> QED
    BY <2>3
<1>2. IsFiniteSet(all)
  <2>1. f \in Surjection(Seconds, all)
    BY DEF Surjection
  <2>2. IsFiniteSet(Seconds)
    BY FS_Interval DEF Seconds
  <2> HIDE DEF f, all
  <2> QED
    BY <2>1, <2>2, FS_Surjection
<1>3. IsFiniteSet(Requests(window))
  <2>1. \A T \in all : IsFiniteSet(T)
    BY <1>1
  <2>2. Requests(window) = UNION all
    BY DEF Requests
  <2> HIDE DEF all
  <2> QED
    BY <1>2, <2>1, <2>2, FS_UNION
<1>4. of(t) \in SUBSET Requests(window)
  BY DEF Requests
<1>5. Cardinality(of(t)) <= Cardinality(Requests(window))
  <2> HIDE DEF of
  <2> QED
    BY <1>3, <1>4, FS_Subset
<1>6. Cardinality(Requests(window)) \in Nat
  BY <1>3, FS_CardinalityType
<1> QED
  BY <1>1, <1>5, <1>6 DEF Total

\* What a call sees and leaves of the window, whatever second it read.
LEMMA RecentWindow ==
  ASSUME LimiterTypeOK, NEW s \in Seconds, s <= clock
  PROVE  /\ Recent(s) \in [Seconds -> Nat]
         /\ Recent(s)[clock] = counts[clock]
         /\ \A t \in Seconds : counts[t] = 0 => Recent(s)[t] = 0
BY DEF Recent, LimiterTypeOK, Seconds

LEMMA GrantFits ==
  ASSUME LimiterTypeOK, EntriesInv, NEW c \in Threads
  PROVE  LET granted == Min({Available(Recent(now[c])), want[c]})
         IN  /\ granted \in Nat
             /\ now[c] = clock => granted = 0 \/ granted <= MaxRequests - counts[clock]
<1>1. now[c] \in Seconds /\ now[c] <= clock /\ want[c] \in Nat
  <2>1. now[c] \in Seconds /\ now[c] <= clock /\ want[c] \in Batches \cup {0}
    BY DEF LimiterTypeOK, EntriesInv
  <2>2. \A n \in Batches \cup {0} : n \in Nat
    BY BatchesAssumption
  <2> QED
    BY <2>1, <2>2
<1>2. Recent(now[c]) \in [Seconds -> Nat] /\ Recent(now[c])[clock] = counts[clock]
  BY <1>1, RecentWindow
<1>3. clock \in Seconds /\ counts[clock] \in Nat
  BY DEF LimiterTypeOK
<1>4. Total(Recent(now[c])) \in Nat /\ counts[clock] <= Total(Recent(now[c]))
  BY <1>2, <1>3, TotalHoldsEach
<1>5. /\ Available(Recent(now[c])) \in Nat
      /\ Available(Recent(now[c])) = 0
           \/ Available(Recent(now[c])) <= MaxRequests - counts[clock]
  BY <1>3, <1>4 DEF Available
<1> DEFINE a == Available(Recent(now[c]))
<1>6. Min({a, want[c]}) \in {a, want[c]} /\ Min({a, want[c]}) <= a
  <2> HIDE DEF a
  <2>1. a \in Nat
    BY <1>5 DEF a
  <2> QED
    BY <1>1, <2>1, MinOfTwo
<1> QED
  BY <1>1, <1>3, <1>5, <1>6

LEMMA LimiterInitInv == LimiterInit => LimiterInv
BY DEF LimiterInit, LimiterInv, LimiterTypeOK, EntriesInv, TimelyPermitsFit, Seconds

LEMMA LimiterStepInv == LimiterInv /\ [LimiterNext]_limiterVars => LimiterInv'
<1> SUFFICES ASSUME LimiterInv, [LimiterNext]_limiterVars PROVE LimiterInv'
  OBVIOUS
<1> USE DEF LimiterInv, LimiterTypeOK, EntriesInv, TimelyPermitsFit
<1>1. ASSUME NEW c \in Threads, NEW to \in {"acquire", "check", "record"},
             NEW n \in Batches \cup {0}, Call(c, to, n)
      PROVE  LimiterInv'
  <2>1. /\ at' \in [Threads -> {"idle", "acquire", "check", "request", "record"}]
        /\ now' \in [Threads -> Seconds] /\ \A d \in Threads : now'[d] <= clock
    BY <1>1 DEF Call, Seconds
  <2>2. want' \in [Threads -> Batches \cup {0}]
    BY <1>1 DEF Call
  <2> QED
    BY <1>1, <2>1, <2>2 DEF Call
<1>2. ASSUME NEW c \in Threads, Acquire(c) PROVE LimiterInv'
  <2> DEFINE granted == Min({Available(Recent(now[c])), want[c]})
  <2>1. /\ granted \in Nat
        /\ now[c] = clock => granted = 0 \/ granted <= MaxRequests - counts[clock]
    BY GrantFits
  <2>2. /\ counts' = [Recent(now[c]) EXCEPT ![now[c]] = @ + granted]
        /\ timely' = IF now[c] = clock THEN timely + granted ELSE timely
        /\ Return(c, "idle") /\ clock' = clock
    BY <1>2 DEF Acquire
  <2> HIDE DEF granted
  <2>3. /\ Recent(now[c]) \in [Seconds -> Nat]
        /\ Recent(now[c])[clock] = counts[clock]
        /\ \A t \in Seconds : counts[t] = 0 => Recent(now[c])[t] = 0
    BY RecentWindow
  <2>4. at' \in [Threads -> {"idle", "acquire", "check", "request", "record"}]
        /\ now' \in [Threads -> Seconds] /\ want' \in [Threads -> Batches \cup {0}]
        /\ \A d \in Threads : now'[d] <= clock'
    BY <2>2 DEF Return, Seconds
  <2>5. counts' \in [Seconds -> Nat]
    BY <2>1, <2>2, <2>3
  <2>6. ASSUME NEW t \in Seconds, t > clock' PROVE counts'[t] = 0
    <3>1. t # now[c] /\ counts[t] = 0
      BY <2>2, <2>6 DEF Seconds
    <3> QED
      BY <2>2, <2>3, <3>1
  <2>7. timely' \in Nat /\ timely' <= counts'[clock'] /\ timely' <= MaxRequests
    <3>1. CASE now[c] = clock
      <4>1. clock \in Seconds /\ counts[clock] \in Nat /\ timely \in Nat
        OBVIOUS
      <4>2. counts'[clock] = counts[clock] + granted /\ timely' = timely + granted
        BY <2>2, <2>3, <3>1, <4>1
      <4>3. granted = 0 \/ granted <= MaxRequests - counts[clock]
        BY <2>1, <3>1
      <4> QED
        BY <2>1, <2>2, <4>1, <4>2, <4>3
    <3>2. CASE now[c] # clock
      BY <2>1, <2>2, <2>3, <3>2
    <3> QED
      BY <3>1, <3>2
  <2> QED
    BY <2>2, <2>4, <2>5, <2>6, <2>7
<1>3. ASSUME NEW c \in Threads, Check(c) PROVE LimiterInv'
  <2>1. /\ Recent(now[c]) \in [Seconds -> Nat]
        /\ Recent(now[c])[clock] = counts[clock]
        /\ \A t \in Seconds : counts[t] = 0 => Recent(now[c])[t] = 0
    BY RecentWindow
  <2> QED
    BY <1>3, <2>1 DEF Check, Return, Seconds
<1>4. ASSUME NEW c \in Threads, Record(c) PROVE LimiterInv'
  <2>1. /\ Recent(now[c]) \in [Seconds -> Nat]
        /\ Recent(now[c])[clock] = counts[clock]
        /\ \A t \in Seconds : counts[t] = 0 => Recent(now[c])[t] = 0
    BY RecentWindow
  <2> QED
    BY <1>4, <2>1 DEF Record, Return, Seconds
<1>5. CASE Tick
  BY <1>5 DEF Tick, locals, Seconds
<1>6. CASE UNCHANGED limiterVars
  BY <1>6 DEF limiterVars, locals
<1>7. ASSUME NEW c \in Threads, BeginAcquire(c) \/ BeginCheck(c) \/ BeginRecord(c)
      PROVE  LimiterInv'
  BY <1>1, <1>7 DEF BeginAcquire, BeginCheck, BeginRecord
<1> QED
  BY <1>2, <1>3, <1>4, <1>5, <1>6, <1>7 DEF LimiterNext, Threads

LEMMA LimiterInvariance == LimiterSpec => []LimiterInv
BY LimiterInitInv, LimiterStepInv, PTL DEF LimiterSpec

\* funnel.rs:256-337: the permits given within a second to callers that asked in that
\* second never exceed the limit, for any number of callers, of refreshes that record
\* without a limit, and of callers that come late and purge.
THEOREM TimelyPermitsFitCorrect == LimiterSpec => []TimelyPermitsFit
<1>1. LimiterInv => TimelyPermitsFit
  BY DEF LimiterInv
<1> QED
  BY <1>1, LimiterInvariance, PTL

(***************************************************************************)
(* What a selection computes                                               *)
(***************************************************************************)

USE SymbolsAssumption, SizesAssumption, TasksAssumption, ListingsAssumption,
    LeverageAssumption

\* One entry per symbol: the data is a map.
DistinctEntries(q) ==
  \A i, j \in DOMAIN q : q[i].symbol = q[j].symbol => i = j

QualityData == {q \in Seq(QualitiesOf(Symbols)) : DistinctEntries(q)}

LEMMA EntryType ==
  ASSUME NEW S \in SUBSET Symbols, NEW e \in QualitiesOf(S)
  PROVE  e.symbol \in S /\ e.score \in Nat
BY DEF QualitiesOf, Calculate

LEMMA DataType ==
  ASSUME NEW q \in QualityData
  PROVE  /\ Len(q) \in Nat /\ DOMAIN q = 1..Len(q)
         /\ \A i \in DOMAIN q : q[i].symbol \in Symbols /\ q[i].score \in Nat
         /\ DistinctEntries(q)
<1>1. q \in Seq(QualitiesOf(Symbols)) /\ DistinctEntries(q)
  BY DEF QualityData
<1>2. Len(q) \in Nat /\ q \in [1..Len(q) -> QualitiesOf(Symbols)] /\ DOMAIN q = 1..Len(q)
  BY <1>1, LenProperties
<1>3. \A i \in DOMAIN q : q[i] \in QualitiesOf(Symbols)
  BY <1>2
<1> QED
  BY <1>1, <1>2, <1>3, EntryType

LEMMA PoolsType ==
  ASSUME NEW S \in SUBSET Symbols, NEW q \in PoolsOf(S)
  PROVE  q \in QualityData
<1>1. PICK n \in 0..Cardinality(S) : q \in [1..n -> QualitiesOf(S)]
  BY DEF PoolsOf
<1>2. IsFiniteSet(S) /\ Cardinality(S) \in Nat
  BY FS_Subset, FS_CardinalityType
<1>3. QualitiesOf(S) \subseteq QualitiesOf(Symbols)
  BY DEF QualitiesOf
<1>4. q \in [1..n -> QualitiesOf(Symbols)] /\ n \in Nat
  BY <1>1, <1>2, <1>3
<1>5. q \in Seq(QualitiesOf(Symbols))
  BY <1>4, SeqDef
<1>6. DistinctEntries(q)
  BY DEF PoolsOf, DistinctEntries
<1> QED
  BY <1>5, <1>6 DEF QualityData

\* The entries that pass are no more than there are symbols.
LEMMA QualifiedFinite ==
  ASSUME NEW q \in QualityData
  PROVE  /\ IsFiniteSet(Qualified(q))
         /\ Cardinality(Qualified(q)) \in Nat
         /\ Cardinality(Qualified(q)) <= Cardinality(Symbols)
<1> DEFINE f == [k \in Qualified(q) |-> q[k].symbol]
<1>1. Qualified(q) \subseteq DOMAIN q
  BY DEF Qualified
<1>2. f \in Injection(Qualified(q), Symbols)
  BY <1>1, DataType DEF Injection, IsInjective, DistinctEntries
<1>3. IsFiniteSet(Qualified(q)) /\ Cardinality(Qualified(q)) <= Cardinality(Symbols)
  <2> HIDE DEF f
  <2> QED
    BY <1>2, FS_Injection
<1> QED
  BY <1>3, FS_CardinalityType

\* The ranks of the entries that pass are 0, 1, 2 and so on, each taken once: the
\* order of sort_by is strict and total, so the ranks differ and the last of n is
\* n - 1.
LEMMA RanksTaken ==
  ASSUME NEW q \in QualityData, NEW n \in 1..Cardinality(Qualified(q))
  PROVE  \E k \in Qualified(q) : Rank(q, k) = n - 1
<1> DEFINE Q == Qualified(q)
           better(k) == {i \in Q : Before(q, i, k)}
           r == [k \in Q |-> Rank(q, k)]
           N == Cardinality(Q)
<1>1. IsFiniteSet(Q) /\ N \in Nat
  BY QualifiedFinite
<1>2. \A k \in Q : k \in Nat /\ q[k].score \in Nat
  BY DataType DEF Qualified
<1>3. \A k \in Q : IsFiniteSet(better(k)) /\ Rank(q, k) \in Nat /\ Rank(q, k) <= N - 1
  <2> SUFFICES ASSUME NEW k \in Q
               PROVE  IsFiniteSet(better(k)) /\ Rank(q, k) \in Nat /\ Rank(q, k) <= N - 1
    OBVIOUS
  <2>1. better(k) \in SUBSET (Q \ {k})
    BY <1>2 DEF Before
  <2>2. IsFiniteSet(Q \ {k}) /\ Cardinality(Q \ {k}) = N - 1
    BY <1>1, FS_RemoveElement
  <2>3. Rank(q, k) = Cardinality(better(k))
    BY DEF Rank
  <2> HIDE DEF better, Q, N
  <2>4. IsFiniteSet(better(k)) /\ Cardinality(better(k)) <= N - 1
    BY <2>1, <2>2, FS_Subset
  <2> QED
    BY <2>3, <2>4, FS_CardinalityType
<1>4. ASSUME NEW j \in Q, NEW k \in Q, Before(q, j, k)
      PROVE  Rank(q, j) # Rank(q, k)
  <2>1. better(j) \in SUBSET better(k)
    <3> SUFFICES ASSUME NEW i \in Q, Before(q, i, j) PROVE Before(q, i, k)
      OBVIOUS
    <3> QED
      BY <1>2, <1>4 DEF Before
  <2>2. j \in better(k) /\ j \notin better(j)
    BY <1>2, <1>4 DEF Before
  <2>3. Rank(q, j) = Cardinality(better(j)) /\ Rank(q, k) = Cardinality(better(k))
    BY DEF Rank
  <2>4. IsFiniteSet(better(k))
    BY <1>3
  <2> HIDE DEF better, Q
  <2> QED
    BY <2>1, <2>2, <2>3, <2>4, FS_Subset
<1>5. \A j, k \in Q : j # k => Before(q, j, k) \/ Before(q, k, j)
  BY <1>2 DEF Before
<1>6. r \in Injection(Q, 0..(N - 1))
  <2>1. r \in [Q -> 0..(N - 1)]
    <3> HIDE DEF better, Q, N
    <3> QED
      BY <1>1, <1>3
  <2>2. \A j, k \in Q : r[j] = r[k] => j = k
    BY <1>4, <1>5
  <2> QED
    BY <2>1, <2>2 DEF Injection, IsInjective
<1>7. IsFiniteSet(0..(N - 1)) /\ Cardinality(0..(N - 1)) = N
  <2> HIDE DEF N
  <2> QED
    BY <1>1, FS_Interval
<1>8. r \in Surjection(Q, 0..(N - 1))
  <2> HIDE DEF r, Q, N
  <2> QED
    BY <1>1, <1>6, <1>7, FS_Injection DEF N
<1>9. n - 1 \in 0..(N - 1)
  BY <1>1
<1>10. \E k \in Q : r[k] = n - 1
  <2> HIDE DEF r, Q, N
  <2> QED
    BY <1>8, <1>9 DEF Surjection
<1> QED
  BY <1>10

\* The ranking lists symbols of entries that pass, one for each of them.
LEMMA RankingType ==
  ASSUME NEW q \in QualityData
  PROVE  /\ Ranking(q) \in Seq(Symbols)
         /\ Len(Ranking(q)) = Cardinality(Qualified(q))
         /\ \A n \in 1..Len(Ranking(q)) :
              \E k \in DOMAIN q : Ranking(q)[n] = q[k].symbol
<1> DEFINE N == Cardinality(Qualified(q))
           of(n) == q[CHOOSE k \in Qualified(q) : Rank(q, k) = n - 1].symbol
<1>1. \A n \in 1..N : \E k \in DOMAIN q : of(n) = q[k].symbol
  <2> SUFFICES ASSUME NEW n \in 1..N PROVE \E k \in DOMAIN q : of(n) = q[k].symbol
    OBVIOUS
  <2>1. \E k \in Qualified(q) : Rank(q, k) = n - 1
    BY RanksTaken
  <2>2. (CHOOSE k \in Qualified(q) : Rank(q, k) = n - 1) \in Qualified(q)
    BY <2>1
  <2> QED
    BY <2>2 DEF Qualified
<1>2. Ranking(q) = [n \in 1..N |-> of(n)]
  BY DEF Ranking
<1>3. N \in Nat
  BY QualifiedFinite
<1> HIDE DEF of, N
<1>4. \A n \in 1..N : of(n) \in Symbols
  BY <1>1, DataType
<1>5. Ranking(q) \in [1..N -> Symbols]
  BY <1>2, <1>4
<1>6. Ranking(q) \in Seq(Symbols)
  BY <1>3, <1>5, SeqDef
<1>7. Len(Ranking(q)) = N
  <2>1. DOMAIN Ranking(q) = 1..Len(Ranking(q)) /\ Len(Ranking(q)) \in Nat
    BY <1>6, LenProperties
  <2>2. DOMAIN Ranking(q) = 1..N
    BY <1>5
  <2>3. \A a, b \in Nat : 1..a = 1..b => a = b
    <3> SUFFICES ASSUME NEW a \in Nat, NEW b \in Nat, 1..a = 1..b PROVE a <= b
      OBVIOUS
    <3>1. CASE a = 0
      BY <3>1
    <3>2. CASE a > 0
      <4>1. a \in 1..a
        BY <3>2
      <4> QED
        BY <4>1
    <3> QED
      BY <3>1, <3>2
  <2> QED
    BY <1>3, <2>1, <2>2, <2>3
<1> QED
  BY <1>1, <1>2, <1>6, <1>7 DEF N

\* The target is a symbol of the data, or there is none.
LEMMA BestType ==
  ASSUME NEW q \in QualityData
  PROVE  /\ BestOf(q) \in Symbols \cup {None}
         /\ BestOf(q) = None \/ \E k \in DOMAIN q : q[k].symbol = BestOf(q)
<1>1. CASE Ranking(q) = <<>>
  BY <1>1 DEF BestOf
<1>2. CASE Ranking(q) # <<>>
  <2>1. Len(Ranking(q)) \in Nat \ {0}
    BY <1>2, RankingType, EmptySeq
  <2>2. \E k \in DOMAIN q : Ranking(q)[1] = q[k].symbol
    BY <2>1, RankingType
  <2> QED
    BY <1>2, <2>2, DataType DEF BestOf
<1> QED
  BY <1>1, <1>2

\* The alternatives are symbols, and without the target fewer than all of them.
LEMMA AlternativesType ==
  ASSUME NEW q \in QualityData
  PROVE  /\ AlternativesOf(q) \in Seq(Symbols)
         /\ Len(AlternativesOf(q)) < Max({1, Cardinality(Symbols)})
<1> DEFINE R == Ranking(q)
           last == Min({6, Len(R)})
<1>1. R \in Seq(Symbols) /\ Len(R) \in Nat /\ Len(R) <= Cardinality(Symbols)
  BY RankingType, LenProperties, QualifiedFinite
<1>2. last \in Nat /\ last <= Len(R)
  <2> HIDE DEF R
  <2> QED
    BY <1>1, MinOfTwo
<1>3. \A i \in 2..last : R[i] \in Symbols
  <2> HIDE DEF R, last
  <2> QED
    BY <1>1, <1>2, ElementOfSeq
<1>4. AlternativesOf(q) = SubSeq(R, 2, last)
  BY DEF AlternativesOf
<1>5. Cardinality(Symbols) \in Nat
  BY FS_CardinalityType
<1>6. /\ Max({1, Cardinality(Symbols)}) \in Nat
      /\ 1 <= Max({1, Cardinality(Symbols)})
      /\ Cardinality(Symbols) <= Max({1, Cardinality(Symbols)})
  BY <1>5, MaxOfTwo
<1> HIDE DEF R, last
<1>7. /\ SubSeq(R, 2, last) \in Seq(Symbols)
      /\ Len(SubSeq(R, 2, last)) = IF 2 <= last THEN last - 2 + 1 ELSE 0
  BY <1>2, <1>3, SubSeqProperties
<1> QED
  BY <1>1, <1>2, <1>4, <1>5, <1>6, <1>7

(***************************************************************************)
(* The funnel and the live trader                                          *)
(***************************************************************************)

\* Where a selector still holds what it read of the quality data.
Holding == {"target", "alternatives", "tell", "leverage", "set_leverage", "leveraged", "set"}

\* As long as the data does not change, a selector holds what the data ranks.
ReadInv ==
  \A p \in Selectors : ~stale[p] =>
    /\ pc[p] \in Holding => best[p] = BestOf(quality)
    /\ pc[p] \in {"target", "alternatives"} => others[p] = AlternativesOf(quality)

\* Every selector has seen the present data, and none is at one of the places.
NoneAt(places) == \A p \in Selectors : ~stale[p] /\ pc[p] \notin places

\* What a selection has written agrees with the data once no selector has the write
\* still before it.
WrittenInv ==
  /\ NoneAt({"target"}) => current = BestOf(quality)
  /\ NoneAt({"target", "alternatives"}) => alternatives = AlternativesOf(quality)
  /\ NoneAt({"target", "alternatives", "tell"}) => told = BestOf(quality)
  /\ ~stale[Trader] /\ pc[Trader] = "wait" => trading = BestOf(quality)

\* The trader sets a leverage for a symbol only.
LeverageInv == pc[Trader] \in {"leverage", "set_leverage", "leveraged"} => best[Trader] \in Symbols

FewerThanSymbols(list) == Len(list) < Max({1, Cardinality(Symbols)})

FunnelTypeInv ==
  /\ TypeOK
  /\ DistinctEntries(quality)
  /\ \A p \in Selectors : FewerThanSymbols(others[p])

FunnelInv == FunnelTypeInv /\ ReadInv /\ WrittenInv /\ LeverageInv /\ LeverageAllowed

LEMMA QualityType == FunnelTypeInv => quality \in QualityData
BY DEF FunnelTypeInv, TypeOK, QualityData

LEMMA NoneIsFewer == FewerThanSymbols(<<>>)
<1>1. Max({1, Cardinality(Symbols)}) \in Nat /\ 1 <= Max({1, Cardinality(Symbols)})
  BY FS_CardinalityType, MaxOfTwo
<1>2. Len(<<>>) = 0
  BY EmptySeq
<1> QED
  BY <1>1, <1>2 DEF FewerThanSymbols

LEMMA FunnelInitInv == Init => FunnelInv
<1> SUFFICES ASSUME Init PROVE FunnelInv
  OBVIOUS
<1>1. <<>> \in Seq(QualitiesOf(Symbols)) /\ <<>> \in Seq(Symbols) /\ Len(<<>>) = 0
      /\ DOMAIN <<>> = {}
  BY EmptySeq
<1>2. FewerThanSymbols(<<>>)
  BY NoneIsFewer
<1>3. FunnelTypeInv
  BY <1>1, <1>2 DEF Init, FewerThanSymbols, FunnelTypeInv, TypeOK, DistinctEntries, Places, Selectors
<1>4. Trader \in Selectors /\ stale[Trader] /\ pc[Trader] = "listing"
      /\ \A p \in Selectors : stale[p]
  BY DEF Init, Selectors
<1> QED
  BY <1>3, <1>4 DEF FunnelInv, ReadInv, WrittenInv, NoneAt, LeverageInv, LeverageAllowed

LEMMA LeverageType ==
  ASSUME TypeOK, NEW s \in Symbols
  PROVE  LET m == ActualLeverage(LeverageInfo(s))
             top == MaxLeverages[s]
         IN  /\ m \in Nat /\ m \in {Requested, top.long, top.short}
             /\ m <= Requested /\ m <= top.long /\ m <= top.short
<1>1. MaxLeverages[s].long \in Nat /\ MaxLeverages[s].short \in Nat
  BY DEF SideLeverage
<1> QED
  BY <1>1, MinOfThree DEF ActualLeverage, LeverageInfo

LEMMA FunnelTypeStep == FunnelTypeInv /\ [Next]_vars => FunnelTypeInv'
<1> SUFFICES ASSUME FunnelTypeInv, [Next]_vars PROVE FunnelTypeInv'
  OBVIOUS
<1> USE DEF FunnelTypeInv, TypeOK
<1>0. quality \in QualityData /\ Trader \in Selectors
  BY QualityType DEF Selectors
<1>1. ASSUME NEW p \in Selectors, Select(p) PROVE FunnelTypeInv'
  <2>1. BestOf(quality) \in Symbols \cup {None} /\ AlternativesOf(quality) \in Seq(Symbols)
    BY <1>0, BestType, AlternativesType
  <2>2. FewerThanSymbols(AlternativesOf(quality))
    BY <1>0, AlternativesType DEF FewerThanSymbols
  <2> QED
    BY <1>1, <2>1, <2>2 DEF Select, Places, pools, trader
<1>2. ASSUME NEW p \in Selectors, WriteTarget(p) PROVE FunnelTypeInv'
  <2>1. current' \in Symbols \cup {None} /\ pc' \in [Selectors -> Places]
    BY <1>2 DEF WriteTarget, Goto, Places
  <2> QED
    BY <1>2, <2>1 DEF WriteTarget, Goto, trader
<1>3. ASSUME NEW p \in Selectors, WriteAlternatives(p) PROVE FunnelTypeInv'
  <2>1. <<>> \in Seq(Symbols) /\ Len(<<>>) = 0 /\ FewerThanSymbols(<<>>)
    BY EmptySeq, NoneIsFewer
  <2>2. alternatives' \in Seq(Symbols) /\ FewerThanSymbols(alternatives')
    BY <1>3 DEF WriteAlternatives
  <2>3. /\ others' \in [Selectors -> Seq(Symbols)]
        /\ \A q \in Selectors : FewerThanSymbols(others'[q])
    BY <1>3, <2>1 DEF WriteAlternatives
  <2>4. pc' \in [Selectors -> Places]
    BY <1>3 DEF WriteAlternatives, Places
  <2> QED
    BY <1>3, <2>2, <2>3, <2>4 DEF WriteAlternatives, FewerThanSymbols, trader
<1>4. ASSUME NEW p \in Selectors, Tell(p) PROVE FunnelTypeInv'
  <2>1. AfterSelection(p) \in Places
    BY DEF AfterSelection, AfterFirstSelection, AfterLaterSelection, Places
  <2>2. told' \in Symbols \cup {None}
    BY <1>4 DEF Tell
  <2>3. /\ pc' = [pc EXCEPT ![p] = "wait"] \/ pc' = [pc EXCEPT ![p] = AfterSelection(p)]
        /\ best' = [best EXCEPT ![p] = None] \/ best' = best
        /\ others' = others
    BY <1>4 DEF Tell, Goto
  <2>4. pc' \in [Selectors -> Places]
    BY <2>1, <2>3 DEF Places
  <2>5. best' \in [Selectors -> Symbols \cup {None}]
    BY <2>3
  <2> QED
    BY <1>4, <2>2, <2>3, <2>4, <2>5 DEF Tell, pools, trader
<1>5. CASE BootListing
  <2>1. \A common \in Intersections : common \subseteq Symbols
    BY DEF Intersections, FetchAllSymbols
  <2> QED
    <3>1. intersection' \subseteq Symbols
      BY <1>5, <2>1 DEF BootListing, UpdateIntersection
    <3>2. pc' \in [Selectors -> Places]
      BY <1>0, <1>5 DEF BootListing, Goto, Places
    <3> QED
      BY <1>5, <3>1, <3>2 DEF BootListing, Goto, trader
<1>6. CASE BootScoring
  <2>1. PICK q \in PoolsOf(intersection) : UpdateQuality(q)
    BY <1>6 DEF BootScoring, CollectQualities
  <2>2. q \in QualityData
    BY <2>1, PoolsType
  <2> QED
    BY <1>0, <1>6, <2>1, <2>2 DEF BootScoring, UpdateQuality, QualityData, Goto, Places, trader
<1>7. CASE GetMaxLeverage
  BY <1>0, <1>7 DEF GetMaxLeverage, Goto, Places, pools, trader
<1>8. CASE SetLeverage
  <2> DEFINE m == ActualLeverage(LeverageInfo(best[Trader]))
  <2>1. best[Trader] \in Symbols => m \in Nat
    BY LeverageType
  <2>2. \/ leverage' = leverage
        \/ leverage' = [leverage EXCEPT ![best[Trader]] = [long |-> m, short |-> m]]
    BY <1>8 DEF SetLeverage
  <2> HIDE DEF m
  <2>3. leverage' \in [Symbols -> SideLeverage]
    <3>1. best[Trader] \in Symbols => [long |-> m, short |-> m] \in SideLeverage
      BY <2>1 DEF SideLeverage
    <3>2. leverage \in [Symbols -> SideLeverage]
      OBVIOUS
    <3> HIDE DEF FunnelTypeInv, TypeOK
    <3> QED
      BY <2>2, <3>1, <3>2
  <2>4. pc' \in [Selectors -> Places]
    BY <1>0, <1>8 DEF SetLeverage, Goto, Places
  <2> QED
    BY <1>8, <2>3, <2>4 DEF SetLeverage, Goto, pools
<1>9. CASE SetTrading
  <2>1. trading' \in Symbols \cup {None} /\ pc' \in [Selectors -> Places]
        /\ best' \in [Selectors -> Symbols \cup {None}]
    BY <1>0, <1>9 DEF SetTrading, Places
  <2>2. {current', told', trading'} \subseteq Symbols \cup {None}
    BY <1>9, <2>1 DEF SetTrading, pools
  <2> QED
    BY <1>9, <2>1, <2>2 DEF SetTrading, pools
<1>10. CASE BeginQualityRefresh
  BY <1>10 DEF BeginQualityRefresh, pools, selection, trader
<1>11. CASE RefreshChunk
  <2>1. PICK chunk \in kSubset(Min({ChunkSize, Cardinality(todo)}), todo) :
          /\ \E q \in PoolsOf(chunk) : UpdateQuality(q)
          /\ todo' = todo \ chunk
    BY <1>11 DEF RefreshChunk
  <2>2. chunk \subseteq Symbols
    BY <2>1 DEF kSubset
  <2>3. PICK q \in PoolsOf(chunk) : UpdateQuality(q)
    BY <2>1
  <2>4. q \in QualityData
    BY <2>2, <2>3, PoolsType
  <2> QED
    BY <1>11, <2>1, <2>3, <2>4 DEF RefreshChunk, UpdateQuality, QualityData, selection, trader
<1>12. CASE RefreshIntersection
  <2>1. \A common \in Intersections : common \subseteq Symbols
    BY DEF Intersections, FetchAllSymbols
  <2> QED
    <3>1. intersection' \subseteq Symbols
      BY <1>12, <2>1 DEF RefreshIntersection, UpdateIntersection
    <3> QED
      BY <1>12, <3>1 DEF RefreshIntersection, selection, trader
<1>13. CASE UNCHANGED vars
  BY <1>13 DEF vars, pools, selection, trader
<1> QED
  BY <1>0, <1>1, <1>2, <1>3, <1>4, <1>5, <1>6, <1>7, <1>8, <1>9, <1>10, <1>11, <1>12, <1>13
     DEF Next, TraderStep, SelectorStep, QualityStep, Selectors

\* New data makes stale what every selector has read.
LEMMA NewDataStep ==
  ASSUME NEW q, UpdateQuality(q)
  PROVE  ReadInv' /\ WrittenInv'
<1>1. \A p \in Selectors : stale'[p]
  BY DEF UpdateQuality
<1>2. Trader \in Selectors
  BY DEF Selectors
<1> QED
  BY <1>1, <1>2 DEF ReadInv, WrittenInv, NoneAt

LEMMA FunnelStepInv == FunnelInv /\ [Next]_vars => FunnelInv'
<1> SUFFICES ASSUME FunnelInv, [Next]_vars PROVE (ReadInv /\ WrittenInv /\ LeverageInv /\ LeverageAllowed)'
  BY FunnelTypeStep DEF FunnelInv
<1>0. /\ pc \in [Selectors -> Places] /\ best \in [Selectors -> Symbols \cup {None}]
      /\ others \in [Selectors -> Seq(Symbols)] /\ stale \in [Selectors -> BOOLEAN]
      /\ leverage \in [Symbols -> SideLeverage]
      /\ Trader \in Selectors /\ quality \in QualityData
  BY QualityType DEF FunnelInv, FunnelTypeInv, TypeOK, Selectors
<1>a. ReadInv /\ WrittenInv /\ LeverageInv /\ LeverageAllowed
  BY DEF FunnelInv
<1> USE DEF NoneAt
<1>1. ASSUME NEW p \in Selectors, Select(p)
      PROVE  (ReadInv /\ WrittenInv /\ LeverageInv /\ LeverageAllowed)'
  <2>1. /\ pc' = [pc EXCEPT ![p] = "target"]
        /\ best' = [best EXCEPT ![p] = BestOf(quality)]
        /\ others' = [others EXCEPT ![p] = AlternativesOf(quality)]
        /\ stale' = [stale EXCEPT ![p] = FALSE]
        /\ UNCHANGED <<quality, current, alternatives, told, trading, leverage>>
    BY <1>1 DEF Select, pools, trader
  <2>2. ReadInv'
    BY <1>0, <1>a, <2>1 DEF ReadInv
  <2>3. WrittenInv'
    BY <1>0, <1>a, <2>1 DEF WrittenInv
  <2>4. LeverageInv' /\ LeverageAllowed'
    BY <1>0, <1>a, <2>1 DEF LeverageInv, LeverageAllowed
  <2> QED
    BY <2>2, <2>3, <2>4
<1>2. ASSUME NEW p \in Selectors, WriteTarget(p)
      PROVE  (ReadInv /\ WrittenInv /\ LeverageInv /\ LeverageAllowed)'
  <2>1. /\ pc[p] = "target" /\ pc' = [pc EXCEPT ![p] = "alternatives"]
        /\ current' = best[p]
        /\ UNCHANGED <<best, others, stale, quality, alternatives, told, trading, leverage>>
    BY <1>2 DEF WriteTarget, Goto, trader
  <2>2. ReadInv'
    BY <1>0, <1>a, <2>1 DEF ReadInv, Holding
  <2>3. WrittenInv'
    BY <1>0, <1>a, <2>1 DEF WrittenInv, ReadInv, Holding
  <2>4. LeverageInv' /\ LeverageAllowed'
    BY <1>0, <1>a, <2>1 DEF LeverageInv, LeverageAllowed
  <2> QED
    BY <2>2, <2>3, <2>4
<1>3. ASSUME NEW p \in Selectors, WriteAlternatives(p)
      PROVE  (ReadInv /\ WrittenInv /\ LeverageInv /\ LeverageAllowed)'
  <2>1. /\ pc[p] = "alternatives" /\ pc' = [pc EXCEPT ![p] = "tell"]
        /\ alternatives' = others[p] /\ others' = [others EXCEPT ![p] = <<>>]
        /\ UNCHANGED <<best, stale, quality, current, told, trading, leverage>>
    BY <1>3 DEF WriteAlternatives, trader
  <2>2. ReadInv'
    BY <1>0, <1>a, <2>1 DEF ReadInv, Holding
  <2>3. WrittenInv'
    BY <1>0, <1>a, <2>1 DEF WrittenInv, ReadInv
  <2>4. LeverageInv' /\ LeverageAllowed'
    BY <1>0, <1>a, <2>1 DEF LeverageInv, LeverageAllowed
  <2> QED
    BY <2>2, <2>3, <2>4
<1>4. ASSUME NEW p \in Selectors, Tell(p)
      PROVE  (ReadInv /\ WrittenInv /\ LeverageInv /\ LeverageAllowed)'
  <2>1. /\ pc[p] = "tell" /\ pc' = [pc EXCEPT ![p] = AfterSelection(p)]
        /\ AfterSelection(p) \in {"wait", "exited", "leverage", "set"}
        /\ AfterSelection(p) # "wait" => best' = best
        /\ \A r \in Selectors : r # p => best'[r] = best[r]
        /\ UNCHANGED <<others, stale, quality, current, alternatives, trading, leverage>>
    <3>1. AfterSelection(p) \in {"wait", "exited", "leverage", "set"}
      BY DEF AfterSelection, AfterFirstSelection, AfterLaterSelection
    <3> HIDE DEF AfterSelection
    <3> QED
      BY <1>0, <1>4, <3>1 DEF Tell, Goto, pools, trader
  <2>2. ~stale[p] => told' = BestOf(quality)
    <3> SUFFICES ASSUME ~stale[p] PROVE told' = BestOf(quality)
      OBVIOUS
    <3>1. best[p] = BestOf(quality)
      BY <1>a, <2>1 DEF ReadInv, Holding
    <3>2. best[p] = None \/ \E i \in DOMAIN quality : quality[i].symbol = best[p]
      BY <1>0, <3>1, BestType
    <3>3. told' = best[p]
      BY <1>4, <3>2 DEF Tell
    <3> QED
      BY <3>1, <3>3
  <2>3. ReadInv'
    BY <1>0, <1>a, <2>1 DEF ReadInv, Holding
  <2>4. ~stale'[Trader] /\ pc'[Trader] = "wait" => trading' = BestOf(quality')
    <3>1. CASE p = Trader
      <4> SUFFICES ASSUME ~stale[Trader], AfterSelection(Trader) = "wait"
                   PROVE  trading = BestOf(quality)
        BY <1>0, <2>1, <3>1
      <4>1. best[Trader] = BestOf(quality)
        BY <1>0, <1>a, <2>1, <3>1 DEF ReadInv, Holding
      <4>2. best[Trader] = trading
        BY DEF AfterSelection, AfterFirstSelection, AfterLaterSelection
      <4> QED
        BY <4>1, <4>2
    <3>2. CASE p # Trader
      BY <1>0, <1>a, <2>1, <3>2 DEF WrittenInv
    <3> QED
      BY <3>1, <3>2
  <2>5. WrittenInv'
    BY <1>0, <1>a, <2>1, <2>2, <2>4 DEF WrittenInv
  <2>6. LeverageInv'
    <3>1. AfterSelection(Trader) = "leverage" => best[Trader] # None
      BY DEF AfterSelection, AfterFirstSelection, AfterLaterSelection
    <3> QED
      BY <1>0, <1>a, <2>1, <3>1 DEF LeverageInv
  <2>7. LeverageAllowed'
    BY <1>0, <1>a, <2>1 DEF LeverageAllowed
  <2> QED
    BY <2>3, <2>5, <2>6, <2>7
<1>5. CASE BootListing
  <2>1. /\ pc[Trader] = "listing" /\ pc' = [pc EXCEPT ![Trader] = "scoring"]
        /\ UNCHANGED <<best, others, stale, quality, current, alternatives, told, trading, leverage>>
    BY <1>5 DEF BootListing, Goto, trader
  <2>2. ReadInv' /\ WrittenInv'
    BY <1>0, <1>a, <2>1 DEF ReadInv, WrittenInv, Holding
  <2> QED
    BY <1>0, <2>1, <2>2 DEF LeverageInv, LeverageAllowed
<1>6. CASE BootScoring
  <2>1. PICK q \in CollectQualities(intersection) : UpdateQuality(q)
    BY <1>6 DEF BootScoring
  <2>2. ReadInv' /\ WrittenInv'
    BY <2>1, NewDataStep
  <2>3. pc'[Trader] = "wait"
    BY <1>0, <1>6 DEF BootScoring, Goto
  <2> QED
    BY <2>2, <2>3 DEF LeverageInv, LeverageAllowed
<1>7. CASE GetMaxLeverage
  <2>1. /\ pc[Trader] = "leverage"
        /\ \E to \in {"set_leverage", "set"} : pc' = [pc EXCEPT ![Trader] = to]
        /\ UNCHANGED <<best, others, stale, quality, current, alternatives, told, trading, leverage>>
    BY <1>7 DEF GetMaxLeverage, Goto, pools, trader
  <2>2. ReadInv' /\ WrittenInv'
    BY <1>0, <1>a, <2>1 DEF ReadInv, WrittenInv, Holding
  <2> QED
    BY <1>0, <1>a, <2>1, <2>2 DEF LeverageInv, LeverageAllowed
<1>8. CASE SetLeverage
  <2> DEFINE s == best[Trader]
             m == ActualLeverage(LeverageInfo(s))
  <2>1. /\ pc[Trader] = "set_leverage"
        /\ \/ /\ leverage' = [leverage EXCEPT ![s] = [long |-> m, short |-> m]]
              /\ \E to \in {"leveraged", "set"} : pc' = [pc EXCEPT ![Trader] = to]
           \/ pc' = [pc EXCEPT ![Trader] = "set"]
        /\ UNCHANGED <<best, others, stale, quality, current, alternatives, told, trading>>
    BY <1>8 DEF SetLeverage, Goto, pools
  <2>2. s \in Symbols
    BY <1>a, <2>1 DEF LeverageInv
  <2>3. /\ m \in Nat /\ m \in {Requested, MaxLeverages[s].long, MaxLeverages[s].short}
        /\ m <= Requested /\ m <= MaxLeverages[s].long /\ m <= MaxLeverages[s].short
    BY <2>2, LeverageType DEF FunnelInv, FunnelTypeInv
  <2>4. ReadInv' /\ WrittenInv'
    <3> HIDE DEF m, s
    <3> QED
      BY <1>0, <1>a, <2>1 DEF ReadInv, WrittenInv, Holding
  <2>5. LeverageInv'
    BY <1>0, <2>1, <2>2 DEF LeverageInv
  <2>6. LeverageAllowed'
    <3> SUFFICES ASSUME pc'[Trader] = "leveraged"
                 PROVE  LeverageAllowed'
      BY DEF LeverageAllowed
    <3>1. leverage'[s] = [long |-> m, short |-> m] /\ best'[Trader] = s
      <4> HIDE DEF m
      <4> QED
        BY <1>0, <2>1, <2>2
    <3> HIDE DEF m, s
    <3> QED
      BY <2>3, <3>1 DEF LeverageAllowed
  <2> QED
    BY <2>4, <2>5, <2>6
<1>9. CASE SetTrading
  <2>1. /\ pc[Trader] \in {"set", "leveraged"} /\ pc' = [pc EXCEPT ![Trader] = "wait"]
        /\ trading' = best[Trader] /\ best' = [best EXCEPT ![Trader] = None]
        /\ UNCHANGED <<others, stale, quality, current, alternatives, told>>
    BY <1>9 DEF SetTrading, pools
  <2>2. ReadInv'
    BY <1>0, <1>a, <2>1 DEF ReadInv, Holding
  <2>3. WrittenInv'
    BY <1>0, <1>a, <2>1 DEF WrittenInv, ReadInv, Holding
  <2> QED
    BY <1>0, <2>1, <2>2, <2>3 DEF LeverageInv, LeverageAllowed
<1>10. CASE RefreshChunk
  <2>1. PICK q : UpdateQuality(q)
    BY <1>10 DEF RefreshChunk
  <2>2. ReadInv' /\ WrittenInv'
    BY <2>1, NewDataStep
  <2> QED
    BY <1>a, <1>10, <2>2 DEF RefreshChunk, selection, trader, LeverageInv, LeverageAllowed
<1>11. CASE BeginQualityRefresh \/ RefreshIntersection \/ UNCHANGED vars
  <2>1. UNCHANGED <<quality, current, alternatives, told, selection, trader, stale>>
    BY <1>11 DEF BeginQualityRefresh, RefreshIntersection, vars, pools
  <2> QED
    BY <1>a, <2>1
       DEF selection, trader, ReadInv, WrittenInv, LeverageInv, LeverageAllowed
<1> QED
  BY <1>1, <1>2, <1>3, <1>4, <1>5, <1>6, <1>7, <1>8, <1>9, <1>10, <1>11
     DEF Next, TraderStep, SelectorStep, QualityStep, Selectors

LEMMA FunnelInvariance == Spec => []FunnelInv
BY FunnelInitInv, FunnelStepInv, PTL DEF Spec

\* The types of the funnel's state, and that the data has one entry per symbol.
THEOREM FunnelTypeCorrect == Spec => [](TypeOK /\ DistinctEntries(quality))
<1>1. FunnelInv => TypeOK /\ DistinctEntries(quality)
  BY DEF FunnelInv, FunnelTypeInv
<1> QED
  BY <1>1, FunnelInvariance, PTL

\* runner.rs:71-87 over the pools of funnel.rs, and main.rs: for any number of tasks that select beside the
\* trader, with their writes to the target pool interleaved lock by lock, the pool, the
\* event and the traded symbol agree with the quality data once all have seen it.
THEOREM QuietPoolsAgreeCorrect == Spec => []QuietPoolsAgree
<1>1. FunnelInv => QuietPoolsAgree
  <2> SUFFICES ASSUME FunnelInv, \A p \in Selectors : pc[p] = "wait" /\ ~stale[p]
               PROVE  /\ current = BestOf(quality) /\ told = current /\ trading = current
                      /\ alternatives = AlternativesOf(quality)
    BY DEF QuietPoolsAgree
  <2>1. Trader \in Selectors
    BY DEF Selectors
  <2> QED
    BY <2>1 DEF FunnelInv, WrittenInv, NoneAt
<1> QED
  BY <1>1, FunnelInvariance, PTL

\* client.rs:706, init_leverage: whatever limits the exchange has and whatever is asked
\* for, a leverage reported as set is the highest that both sides allow, up to what was
\* asked for.
THEOREM LeverageAllowedCorrect == Spec => []LeverageAllowed
<1>1. FunnelInv => LeverageAllowed
  BY DEF FunnelInv
<1> QED
  BY <1>1, FunnelInvariance, PTL
===============================================================================
