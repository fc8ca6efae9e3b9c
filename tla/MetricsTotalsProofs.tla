------------------------ MODULE MetricsTotalsProofs ------------------------
(***************************************************************************)
(* For any number of threads, calls and latencies: when no call is under   *)
(* way nothing that the calls recorded is lost, and a percentile is the    *)
(* nearest rank (module Metrics).                                          *)
(*                                                                         *)
(* While calls are under way, what was asked for is what is there and what *)
(* the threads still owe: a counter is short of one for each thread that   *)
(* is on its way to add to it, the sum is short of the latencies of those  *)
(* that have not added theirs.  No induction over the threads is needed:   *)
(* what is owed is the size of a set, from which a step takes one thread.  *)
(***************************************************************************)
EXTENDS MetricsProofs, FunctionTheorems, FiniteSetTheorems

\* Where a thread still has to add to a counter, to the count, to the sum, and,
\* having counted, to the samples.
AtCounter == {"find", "add"}
AtCount == {"findStats", "count"}
AtSum == {"findStats", "count", "loadSum", "addSum"}
AtSample == {"loadSum", "addSum", "loadMax", "raiseMax", "lockSamples", "sample"}
AtStats == {"resetLatency", "resetStats"}
AtSamples == {"resetSamples", "resetDone"}

Due(t, k) == pc[t] \in AtCounter /\ k \in {key[t], Following(key[t])}
OwingCounter(k) == {t \in Threads : Due(t, k)}
Owing(places) == {t \in Threads : pc[t] \in places}

\* As many elements as the latencies of the threads in S amount to.
Units(S, l) == UNION {{t} \X (1..l[t]) : t \in S}

\* What a reset is about to set to zero need not be what was asked for.
CountersTotal ==
  \A k \in Keys : asked.counters[k] = counters[k] + Cardinality(OwingCounter(k))

CountTotal == IF Owing(AtStats) # {} THEN asked.count = 0
              ELSE asked.count = count + Cardinality(Owing(AtCount))

SumTotal == IF Owing(AtStats) # {} THEN asked.sum = 0
            ELSE asked.sum = sum + Cardinality(Units(Owing(AtSum), latency))

Kept(n) == IF n < MAX_SAMPLES THEN n ELSE MAX_SAMPLES
SamplesTotal ==
  IF Owing(AtSamples) # {} THEN count = 0
  ELSE \E n \in Nat : count = n + Cardinality(Owing(AtSample)) /\ Len(samples) = Kept(n)

Totals == CountersTotal /\ CountTotal /\ SumTotal /\ SamplesTotal

\* Only finitely many threads are inside a call: each came in one by one.
FewBusy == IsFiniteSet(Busy) /\ IsFiniteSet(Units(Owing(AtSum), latency))

TInv == IInv /\ FewBusy /\ (~ overlap => Totals)

-----------------------------------------------------------------------------
(* Sizes of sets.                                                          *)

\* A set that differs from a finite one in at most one element.
LEMMA OneElement ==
  ASSUME NEW S, IsFiniteSet(S), NEW T, NEW t, \A u : u # t => (u \in T <=> u \in S)
  PROVE  /\ IsFiniteSet(T) /\ Cardinality(S) \in Nat /\ Cardinality(T) \in Nat
         /\ Cardinality(T) = Cardinality(S) + (IF t \in T THEN 1 ELSE 0)
                                            - (IF t \in S THEN 1 ELSE 0)
<1>1. Cardinality(S) \in Nat
  BY FS_CardinalityType
<1>2. CASE t \in S <=> t \in T
  <2>1. S = T
    BY <1>2
  <2>. QED
    BY <1>1, <1>2, <2>1
<1>3. CASE t \in T /\ t \notin S
  <2>1. T = S \cup {t}
    BY <1>3
  <2>. QED
    BY <1>1, <1>3, <2>1, FS_AddElement
<1>4. CASE t \in S /\ t \notin T
  <2>1. T = S \ {t}
    BY <1>4
  <2>2. IsFiniteSet(T) /\ Cardinality(T) = Cardinality(S) - 1
    BY <1>4, <2>1, FS_RemoveElement
  <2>3. Cardinality(T) \in Nat
    BY <2>2, FS_CardinalityType
  <2>. QED
    BY <1>1, <1>4, <2>2, <2>3
<1>. QED
  BY <1>2, <1>3, <1>4

\* A latency comes to what the other threads' latencies amount to.
LEMMA UnitsJoined ==
  ASSUME NEW S, NEW l, IsFiniteSet(Units(S, l)), NEW t, t \notin S, l[t] \in Nat
  PROVE  /\ IsFiniteSet(Units(S \cup {t}, l))
         /\ Cardinality(Units(S, l)) \in Nat
         /\ Cardinality(Units(S \cup {t}, l)) = Cardinality(Units(S, l)) + l[t]
<1> DEFINE U == {t} \X (1..l[t])
<1>1. Units(S \cup {t}, l) = Units(S, l) \cup U
  BY DEF Units
<1>2. Units(S, l) \cap U = {}
  BY DEF Units
<1>3. IsFiniteSet(1..l[t]) /\ Cardinality(1..l[t]) = l[t]
  BY FS_Interval
<1>4. IsFiniteSet({t}) /\ Cardinality({t}) = 1
  BY FS_Singleton
<1>5. IsFiniteSet(U) /\ Cardinality(U) = l[t]
  <2>1. IsFiniteSet(U) /\ Cardinality(U) = Cardinality({t}) * Cardinality(1..l[t])
    BY <1>3, <1>4, FS_Product
  <2> HIDE DEF U
  <2>. QED
    BY <1>3, <1>4, <2>1
<1>6. /\ IsFiniteSet(Units(S, l) \cup U)
      /\ Cardinality(Units(S, l) \cup U) =
           Cardinality(Units(S, l)) + Cardinality(U) - Cardinality(Units(S, l) \cap U)
  BY <1>5, FS_Union
<1>7. Cardinality(Units(S, l)) \in Nat /\ Cardinality({}) = 0
  BY FS_CardinalityType, FS_EmptySet
<1>8. IsFiniteSet(Units(S \cup {t}, l))
  BY <1>1, <1>6
<1>9. Cardinality(Units(S \cup {t}, l)) =
        Cardinality(Units(S, l)) + Cardinality(U) - Cardinality(Units(S, l) \cap U)
  BY <1>1, <1>6
<1>10. Cardinality(Units(S, l) \cap U) = 0 /\ Cardinality(U) = l[t]
  BY <1>2, <1>5, <1>7
<1> HIDE DEF U
<1>. QED
  BY <1>7, <1>8, <1>9, <1>10

\* A thread adds its latency to the sum.
LEMMA UnitsLeft ==
  ASSUME NEW S, NEW l, IsFiniteSet(Units(S, l)), NEW t \in S, l[t] \in Nat
  PROVE  /\ IsFiniteSet(Units(S \ {t}, l))
         /\ Cardinality(Units(S \ {t}, l)) \in Nat
         /\ Cardinality(Units(S, l)) = Cardinality(Units(S \ {t}, l)) + l[t]
<1>1. Units(S \ {t}, l) \subseteq Units(S, l)
  BY DEF Units
<1>2. IsFiniteSet(Units(S \ {t}, l))
  BY <1>1, FS_Subset
<1>3. (S \ {t}) \cup {t} = S
  OBVIOUS
<1>. QED
  BY <1>2, <1>3, UnitsJoined

-----------------------------------------------------------------------------
(* Sorting, and ranks.                                                     *)

\* A sequence of some of the numbers is one of numbers.
LEMMA SequenceOfNumbers ==
  ASSUME NEW S, S \subseteq Nat, NEW s \in Seq(S)
  PROVE  s \in Seq(Nat)
<1>1. s \in [1..Len(s) -> S] /\ Len(s) \in Nat
  OBVIOUS
<1>2. s \in [1..Len(s) -> Nat]
  BY <1>1
<1>. QED
  BY <1>1, <1>2

\* Every sequence of numbers can be sorted: an element's place is the number
\* of those that are less, and of the equal ones up to it.
LEMMA SortingExists ==
  ASSUME NEW n \in Nat, NEW s \in [1..n -> Nat]
  PROVE  \E f \in [1..n -> 1..n] : Sorts(f, s)
<1> DEFINE D == 1..n
           Before(i) == {j \in D : s[j] < s[i] \/ (s[j] = s[i] /\ j <= i)}
           rank == [i \in D |-> Cardinality(Before(i))]
<1>1. DOMAIN s = D /\ \A i \in D : s[i] \in Nat /\ i \in Nat
  OBVIOUS
<1>2. IsFiniteSet(D) /\ Cardinality(D) = n
  BY FS_Interval
<1>3. ASSUME NEW i \in D
      PROVE  /\ IsFiniteSet(Before(i)) /\ Cardinality(Before(i)) \in Nat
             /\ i \in Before(i) /\ rank[i] \in D
  <2>1. Before(i) \in SUBSET D /\ i \in Before(i)
    BY <1>1
  <2>2. IsFiniteSet(Before(i)) /\ Cardinality(Before(i)) <= n
    BY <1>2, <2>1, FS_Subset
  <2>3. Cardinality(Before(i)) \in Nat /\ Cardinality(Before(i)) # 0
    BY <2>1, <2>2, FS_CardinalityType, FS_EmptySet
  <2>. QED
    BY <1>1, <2>1, <2>2, <2>3
<1>4. ASSUME NEW i \in D, NEW k \in D, s[i] < s[k] \/ (s[i] = s[k] /\ i < k)
      PROVE  rank[i] < rank[k]
  <2>1. Before(i) \in SUBSET Before(k) /\ k \in Before(k) /\ k \notin Before(i)
    BY <1>1, <1>4
  <2>2. Cardinality(Before(i)) <= Cardinality(Before(k))
        /\ Cardinality(Before(i)) # Cardinality(Before(k))
    BY <1>3, <2>1, FS_Subset
  <2>3. rank[i] = Cardinality(Before(i)) /\ rank[k] = Cardinality(Before(k))
    OBVIOUS
  <2>4. Cardinality(Before(i)) \in Nat /\ Cardinality(Before(k)) \in Nat
    BY <1>3
  <2> HIDE DEF rank, Before
  <2>. QED
    BY <2>2, <2>3, <2>4
<1>5. \A i, k \in D : rank[i] = rank[k] => i = k
  <2> SUFFICES ASSUME NEW i \in D, NEW k \in D, i # k
               PROVE  rank[i] # rank[k]
    OBVIOUS
  <2>1. \/ s[i] < s[k] \/ (s[i] = s[k] /\ i < k)
        \/ s[k] < s[i] \/ (s[k] = s[i] /\ k < i)
    BY <1>1
  <2>2. rank[i] < rank[k] \/ rank[k] < rank[i]
    BY <1>4, <2>1
  <2>3. rank[i] \in D /\ rank[k] \in D
    BY <1>3
  <2>. QED
    BY <1>1, <2>2, <2>3
<1>6. rank \in [D -> D]
  BY <1>3
<1> HIDE DEF rank, Before
<1>7. rank \in Surjection(D, D)
  <2>1. rank \in Injection(D, D)
    BY <1>5, <1>6, Fun_IsInj
  <2>. QED
    BY <1>2, <2>1, FS_Injection
<1>8. \A r \in D : \E i \in D : rank[i] = r
  <2> HIDE DEF D
  <2>. QED
    BY <1>7, Fun_SurjectionProperties
<1> DEFINE f == [r \in D |-> CHOOSE i \in D : rank[i] = r]
<1>9. f \in [D -> D] /\ \A r \in D : rank[f[r]] = r
  BY <1>8
<1> HIDE DEF f
<1>10. \A i \in D : \E j \in D : f[j] = i
  <2> TAKE i \in D
  <2>1. rank[i] \in D /\ f[rank[i]] \in D /\ rank[f[rank[i]]] = rank[i]
    BY <1>6, <1>9
  <2>. QED
    BY <1>5, <2>1
<1>11. \A i, j \in D : i <= j => s[f[i]] <= s[f[j]]
  <2> SUFFICES ASSUME NEW i \in D, NEW j \in D, i <= j
               PROVE  s[f[i]] <= s[f[j]]
    OBVIOUS
  <2>1. f[i] \in D /\ f[j] \in D /\ rank[f[i]] = i /\ rank[f[j]] = j
    BY <1>9
  <2>2. ~ (s[f[j]] < s[f[i]])
    <3> SUFFICES ASSUME s[f[j]] < s[f[i]]
                 PROVE  FALSE
      OBVIOUS
    <3>1. rank[f[j]] < rank[f[i]]
      BY <1>4, <2>1
    <3>. QED
      BY <1>1, <2>1, <3>1
  <2>. QED
    BY <1>1, <2>1, <2>2
<1>. QED
  BY <1>1, <1>9, <1>10, <1>11 DEF Sorts

\* In a sorted sequence the elements up to a place are no larger than what is
\* there, and only elements before it are less.
LEMMA RankCounted ==
  ASSUME NEW n \in Nat, NEW s \in [1..n -> Nat], NEW f \in [1..n -> 1..n], Sorts(f, s),
         NEW r \in 1..n
  PROVE  LET AtMost == {i \in 1..n : s[i] <= s[f[r]]}
             Less   == {i \in 1..n : s[i] < s[f[r]]}
         IN  /\ Cardinality(AtMost) \in Nat /\ r <= Cardinality(AtMost)
             /\ Cardinality(Less) \in Nat /\ Cardinality(Less) < r
<1> DEFINE D == 1..n
           AtMost == {i \in D : s[i] <= s[f[r]]}
           Less == {i \in D : s[i] < s[f[r]]}
<1>1. /\ DOMAIN s = D /\ r \in D /\ r \in Int /\ f \in [D -> D]
      /\ \A i \in D : s[i] \in Nat /\ i \in Nat
  OBVIOUS
<1>2. IsFiniteSet(D)
  BY FS_Interval
<1>3. \A i \in D : \E j \in D : f[j] = i
  BY <1>1 DEF Sorts
<1>4. \A i, j \in D : i <= j => s[f[i]] <= s[f[j]]
  BY <1>1 DEF Sorts
<1>5. \A i, j \in D : f[i] = f[j] => i = j
  <2>1. f \in Surjection(D, D)
    BY <1>1, <1>3, Fun_IsSurj
  <2>2. f \in Injection(D, D)
    BY <1>2, <2>1, FS_Surjection
  <2> HIDE DEF D
  <2>. QED
    BY <2>2, Fun_InjectionProperties
<1>6. /\ IsFiniteSet(AtMost) /\ IsFiniteSet(Less)
      /\ Cardinality(AtMost) \in Nat /\ Cardinality(Less) \in Nat
  <2>1. AtMost \in SUBSET D /\ Less \in SUBSET D
    OBVIOUS
  <2>2. IsFiniteSet(AtMost) /\ IsFiniteSet(Less)
    BY <1>2, <2>1, FS_Subset
  <2>. QED
    BY <2>2, FS_CardinalityType
<1>7. r <= Cardinality(AtMost)
  <2> DEFINE g == [i \in 1..r |-> f[i]]
  <2>1. \A i \in 1..r : i \in D /\ i <= r
    BY <1>1
  <2>2. g \in [1..r -> AtMost]
    BY <1>1, <1>4, <2>1
  <2>3. \A i, j \in 1..r : g[i] = g[j] => i = j
    BY <1>5, <2>1
  <2>4. IsFiniteSet(1..r) /\ Cardinality(1..r) = r
    BY <1>1, FS_Interval
  <2> HIDE DEF g, AtMost
  <2>5. g \in Injection(1..r, AtMost)
    BY <2>2, <2>3, Fun_IsInj
  <2>6. Cardinality(1..r) <= Cardinality(AtMost)
    BY <1>6, <2>5, FS_Injection
  <2>. QED
    BY <2>4, <2>6
<1>8. Cardinality(Less) < r
  <2> DEFINE h == [i \in Less |-> CHOOSE j \in D : f[j] = i]
  <2>1. \A i \in Less : h[i] \in D /\ f[h[i]] = i
    BY <1>3
  <2>2. \A i \in Less : h[i] \in 1..(r-1)
    <3> SUFFICES ASSUME NEW i \in Less
                 PROVE  h[i] \in 1..(r-1)
      OBVIOUS
    <3>0. h[i] \in D /\ (h[i] < r => h[i] \in 1..(r-1))
      <4> HIDE DEF h, Less, AtMost
      <4>1. h[i] \in D
        BY <2>1
      <4>. QED
        BY <1>1, <4>1
    <3> SUFFICES ASSUME ~ (h[i] < r)
                 PROVE  FALSE
      BY <3>0
    <3>1. h[i] \in D /\ f[h[i]] = i /\ i \in D /\ s[i] < s[f[r]]
      BY <2>1
    <3>2. r <= h[i] /\ f[r] \in D
      BY <1>1, <3>1
    <3>3. s[f[r]] <= s[i]
      BY <1>1, <1>4, <3>1, <3>2
    <3>4. s[i] \in Nat /\ s[f[r]] \in Nat
      BY <1>1, <3>1, <3>2
    <3> HIDE DEF h
    <3>. QED
      BY <3>1, <3>3, <3>4
  <2>3. DOMAIN h = Less /\ h \in [Less -> 1..(r-1)]
    BY <2>2
  <2> HIDE DEF h
  <2>4. \A i, j \in Less : h[i] = h[j] => i = j
    BY <2>1
  <2>5. IsFiniteSet(1..(r-1)) /\ Cardinality(1..(r-1)) = r - 1
    <3>1. PICK m \in Nat : m = r - 1
      BY <1>1
    <3>2. IsFiniteSet(1..m) /\ Cardinality(1..m) = m
      BY FS_Interval
    <3>. QED
      BY <3>1, <3>2
  <2>6. h \in Injection(Less, 1..(r-1))
    BY <2>3, <2>4, Fun_IsInj
  <2>7. Cardinality(Less) <= Cardinality(1..(r-1))
    BY <2>5, <2>6, FS_Injection
  <2>. QED
    BY <1>1, <1>6, <2>5, <2>7
<1>. QED
  BY <1>1, <1>6, <1>7, <1>8

\* The index of a percentile, counted from one, is the percentage of the number
\* of samples rounded up, and one of the samples' places.
LEMMA IndexOfPercentile ==
  ASSUME NEW n \in Nat \ {0}, NEW p \in 1..100
  PROVE  LET idx == (p * n + 99) \div 100
         IN  /\ idx \in 1..n /\ p * n \in Nat
             /\ p * n <= 100 * idx /\ 100 * (idx - 1) < p * n
<1> DEFINE N == p * n
<1>1. N \in Nat /\ 1 <= N
  OBVIOUS
<1>2. N <= 100 * n
  <2>1. 100 * n - N = (100 - p) * n
    OBVIOUS
  <2>2. (100 - p) * n \in Nat
    OBVIOUS
  <2> HIDE DEF N
  <2>. QED
    BY <1>1, <2>1, <2>2
<1> HIDE DEF N
<1> DEFINE idx == (N + 99) \div 100
<1>3. idx \in Nat /\ 100 * idx <= N + 99 /\ N + 99 < 100 * idx + 100
  BY <1>1
<1> HIDE DEF idx
<1>4. idx \in 1..n /\ N <= 100 * idx /\ 100 * (idx - 1) < N
  BY <1>1, <1>2, <1>3
<1>. QED
  BY <1>1, <1>4 DEF N, idx

\* Of any samples, and for any percentage, a percentile is the nearest rank.
LEMMA NearestRank ==
  ASSUME NEW s \in Seq(Nat), s # << >>, NEW p \in 1..100
  PROVE  LET v == PercentileOf(s, p)
         IN  /\ 100 * Cardinality({i \in DOMAIN s : s[i] <= v}) >= p * Len(s)
             /\ 100 * Cardinality({i \in DOMAIN s : s[i] < v}) < p * Len(s)
<1> DEFINE order == CHOOSE f \in [DOMAIN s -> DOMAIN s] : Sorts(f, s)
           r == (p * Len(s) + 99) \div 100
<1>1. order \in [DOMAIN s -> DOMAIN s] /\ Sorts(order, s)
  <2>1. PICK n \in Nat : n = Len(s) /\ DOMAIN s = 1..n
    OBVIOUS
  <2>2. s \in [1..n -> Nat]
    BY <2>1
  <2>3. \E f \in [1..n -> 1..n] : Sorts(f, s)
    BY <2>2, SortingExists
  <2>. QED
    BY <2>1, <2>3
<1>2. Len(s) \in Nat \ {0} /\ DOMAIN s = 1..Len(s)
  OBVIOUS
<1>3. /\ r \in 1..Len(s) /\ p * Len(s) \in Nat
      /\ p * Len(s) <= 100 * r /\ 100 * (r - 1) < p * Len(s)
  BY <1>2, IndexOfPercentile
<1>4. PercentileOf(s, p) = s[order[r]]
  <2>1. PercentileOf(s, p) = Sorted(s)[r]
    BY <1>2, <1>3 DEF PercentileOf
  <2> HIDE DEF r
  <2>2. Sorted(s)[r] = s[order[r]]
    BY <1>2, <1>3 DEF Sorted
  <2>. QED
    BY <2>1, <2>2
<1> HIDE DEF order, r
<1> DEFINE A == Cardinality({i \in DOMAIN s : s[i] <= s[order[r]]})
           L == Cardinality({i \in DOMAIN s : s[i] < s[order[r]]})
           N == p * Len(s)
<1>5. A \in Nat /\ r <= A /\ L \in Nat /\ L < r
  <2>1. PICK n \in Nat : n = Len(s)
    BY <1>2
  <2>2. DOMAIN s = 1..n /\ s \in [1..n -> Nat] /\ r \in 1..n /\ order \in [1..n -> 1..n]
    BY <1>1, <1>2, <1>3, <2>1
  <2>3. LET AtMost == {i \in 1..n : s[i] <= s[order[r]]}
            Less   == {i \in 1..n : s[i] < s[order[r]]}
        IN  /\ Cardinality(AtMost) \in Nat /\ r <= Cardinality(AtMost)
            /\ Cardinality(Less) \in Nat /\ Cardinality(Less) < r
    BY <1>1, <2>2, RankCounted
  <2>. QED
    BY <2>2, <2>3
<1>6. r \in Nat /\ N \in Nat /\ N <= 100 * r /\ 100 * (r - 1) < N
  BY <1>2, <1>3
<1> HIDE DEF A, L, N
<1>7. 100 * A >= N /\ 100 * L < N
  BY <1>5, <1>6
<1>. QED
  BY <1>4, <1>7 DEF A, L, N

\* A percentile is the nearest rank of the samples that are kept, for the
\* percentages that the statistics show, however many samples there are
\* (getLatencyPercentile, module Metrics, PercentileIsNearestRank).
THEOREM PercentileRight == Spec => []PercentileIsNearestRank
<1>1. TypeOK => PercentileIsNearestRank
  <2> SUFFICES ASSUME TypeOK, NEW p \in Percentages, samples # << >>
               PROVE  LET v == PercentileOf(samples, p)
                          Portion(S) == 100 * Cardinality(S)
                      IN  /\ Portion({i \in DOMAIN samples : samples[i] <= v})
                               >= p * Len(samples)
                          /\ Portion({i \in DOMAIN samples : samples[i] < v})
                               < p * Len(samples)
    BY DEF PercentileIsNearestRank
  <2>1. samples \in Seq(Nat)
    BY MetricsAssumption, SequenceOfNumbers DEF TypeOK
  <2>2. p \in 1..100
    BY DEF Percentages
  <2>. QED
    BY <2>1, <2>2, NearestRank
<1>. QED
  BY <1>1, TypeCorrect, PTL

-----------------------------------------------------------------------------
(* What is owed, when one thread moves.                                    *)

USE MetricsAssumption

\* The set of the threads at some places gains or loses the thread that moves.
LEMMA OwingMoves ==
  ASSUME TypeOK, FewBusy, NEW t \in Threads, NEW from, NEW to \in Places,
         Goto(t, from, to), NEW P, "idle" \notin P
  PROVE  /\ Cardinality(Owing(P)) \in Nat /\ Cardinality(Owing(P)') \in Nat
         /\ Cardinality(Owing(P)') = Cardinality(Owing(P)) + (IF to \in P THEN 1 ELSE 0)
                                                           - (IF from \in P THEN 1 ELSE 0)
         /\ Owing(P)' = IF to \in P THEN Owing(P) \cup {t} ELSE Owing(P) \ {t}
         /\ t \in Owing(P) <=> from \in P
         /\ (to \in P <=> from \in P) => Owing(P)' = Owing(P)
<1>1. pc[t] = from /\ \A u \in Threads : pc'[u] = IF u = t THEN to ELSE pc[u]
  BY GotoType
<1>2. Owing(P) \in SUBSET Busy
  BY DEF Owing, Busy
<1>3. IsFiniteSet(Owing(P))
  BY <1>2, FS_Subset DEF FewBusy
<1>4. \A u : u # t => (u \in Owing(P)' <=> u \in Owing(P))
  BY <1>1 DEF Owing
<1>5. (t \in Owing(P)' <=> to \in P) /\ (t \in Owing(P) <=> from \in P)
  BY <1>1 DEF Owing
<1>6. PICK T : T = Owing(P)'
  OBVIOUS
<1>7. /\ Cardinality(Owing(P)) \in Nat /\ Cardinality(T) \in Nat
      /\ Cardinality(T) = Cardinality(Owing(P)) + (IF t \in T THEN 1 ELSE 0)
                                                - (IF t \in Owing(P) THEN 1 ELSE 0)
  BY <1>3, <1>4, <1>6, OneElement
<1>8. T = IF to \in P THEN Owing(P) \cup {t} ELSE Owing(P) \ {t}
  BY <1>4, <1>5, <1>6
<1>. QED
  BY <1>5, <1>6, <1>7, <1>8

\* The same of the threads that a counter waits for.
LEMMA DueMoves ==
  ASSUME TypeOK, FewBusy, NEW t \in Threads, NEW from, NEW to \in Places,
         Goto(t, from, to), \A u \in Threads : u # t => key'[u] = key[u], NEW k
  PROVE  /\ Cardinality(OwingCounter(k)) \in Nat
         /\ Cardinality(OwingCounter(k)') =
              Cardinality(OwingCounter(k)) + (IF Due(t, k)' THEN 1 ELSE 0)
                                           - (IF Due(t, k) THEN 1 ELSE 0)
<1>1. pc[t] = from /\ \A u \in Threads : pc'[u] = IF u = t THEN to ELSE pc[u]
  BY GotoType
<1>2. OwingCounter(k) \in SUBSET Busy
  BY DEF OwingCounter, Due, Busy, AtCounter
<1>3. IsFiniteSet(OwingCounter(k))
  BY <1>2, FS_Subset DEF FewBusy
<1>4. \A u : u # t => (u \in OwingCounter(k)' <=> u \in OwingCounter(k))
  <2> SUFFICES ASSUME NEW u \in Threads, u # t
               PROVE  Due(u, k)' <=> Due(u, k)
    BY DEF OwingCounter
  <2>. QED
    BY <1>1 DEF Due, Following
<1>5. (t \in OwingCounter(k)' <=> Due(t, k)') /\ (t \in OwingCounter(k) <=> Due(t, k))
  BY DEF OwingCounter
<1>6. PICK T : T = OwingCounter(k)'
  OBVIOUS
<1>7. /\ Cardinality(OwingCounter(k)) \in Nat /\ Cardinality(T) \in Nat
      /\ Cardinality(T) = Cardinality(OwingCounter(k)) + (IF t \in T THEN 1 ELSE 0)
                                                - (IF t \in OwingCounter(k) THEN 1 ELSE 0)
  BY <1>3, <1>4, <1>6, OneElement
<1>. QED
  BY <1>5, <1>6, <1>7

\* Still only finitely many threads are inside a call.
LEMMA BusyMoves ==
  ASSUME TypeOK, FewBusy, NEW t \in Threads, NEW from, NEW to \in Places, Goto(t, from, to)
  PROVE  IsFiniteSet(Busy')
<1>1. \A u \in Threads : pc'[u] = IF u = t THEN to ELSE pc[u]
  BY GotoType
<1>2. PICK T : T = Busy'
  OBVIOUS
<1>3. \A u : u # t => (u \in T <=> u \in Busy)
  BY <1>1, <1>2 DEF Busy
<1>4. IsFiniteSet(T)
  BY <1>3, OneElement DEF FewBusy
<1>. QED
  BY <1>2, <1>4

\* A thread that moves and adds nothing leaves what is owed to the counters
\* (the load of a compare_exchange, the taking of a lock).
LEMMA CountersKept ==
  ASSUME TypeOK, FewBusy, CountersTotal, NEW t \in Threads, NEW from, NEW to \in Places,
         Goto(t, from, to), to \in AtCounter <=> from \in AtCounter,
         UNCHANGED <<key, counters, asked.counters>>
  PROVE  CountersTotal'
<1> SUFFICES ASSUME NEW k \in Keys
             PROVE  asked.counters'[k] = counters'[k] + Cardinality(OwingCounter(k)')
  BY DEF CountersTotal
<1>1. pc[t] = from /\ pc'[t] = to
  BY GotoType
<1>2. Due(t, k)' <=> Due(t, k)
  BY <1>1 DEF Due, Following
<1>3. /\ Cardinality(OwingCounter(k)) \in Nat
      /\ Cardinality(OwingCounter(k)') =
           Cardinality(OwingCounter(k)) + (IF Due(t, k)' THEN 1 ELSE 0)
                                        - (IF Due(t, k) THEN 1 ELSE 0)
  BY DueMoves
<1>4. Cardinality(OwingCounter(k)') = Cardinality(OwingCounter(k))
  BY <1>2, <1>3
<1>. QED
  BY <1>4 DEF CountersTotal

\* It leaves what is owed to the count of recordLatency,
LEMMA CountKept ==
  ASSUME TypeOK, FewBusy, CountTotal, NEW t \in Threads, NEW from, NEW to \in Places,
         Goto(t, from, to), to \in AtCount <=> from \in AtCount,
         to \in AtStats <=> from \in AtStats, UNCHANGED <<count, asked.count>>
  PROVE  CountTotal'
<1>1. Owing(AtCount)' = Owing(AtCount) /\ Owing(AtStats)' = Owing(AtStats)
  <2>1. "idle" \notin AtCount /\ "idle" \notin AtStats
    BY DEF AtCount, AtStats
  <2>. QED
    BY <2>1, OwingMoves
<1>. QED
  BY <1>1 DEF CountTotal

\* what is owed to the sum of the latencies,
LEMMA SumKept ==
  ASSUME TypeOK, FewBusy, NEW t \in Threads, NEW from, NEW to \in Places,
         Goto(t, from, to), to \in AtSum <=> from \in AtSum,
         to \in AtStats <=> from \in AtStats, UNCHANGED <<sum, latency, asked.sum>>
  PROVE  /\ SumTotal => SumTotal'
         /\ FewBusy'
<1>1. Owing(AtSum)' = Owing(AtSum) /\ Owing(AtStats)' = Owing(AtStats)
  <2>1. "idle" \notin AtSum /\ "idle" \notin AtStats
    BY DEF AtSum, AtStats
  <2>. QED
    BY <2>1, OwingMoves
<1>2. Units(Owing(AtSum), latency)' = Units(Owing(AtSum), latency)
  BY <1>1 DEF Units
<1>3. SumTotal => SumTotal'
  BY <1>1, <1>2 DEF SumTotal
<1>4. FewBusy'
  BY <1>2, BusyMoves DEF FewBusy
<1>. QED
  BY <1>3, <1>4

\* and what is owed to the vector of samples.
LEMMA SamplesKept ==
  ASSUME TypeOK, FewBusy, SamplesTotal, NEW t \in Threads, NEW from, NEW to \in Places,
         Goto(t, from, to), to \in AtSample <=> from \in AtSample,
         to \in AtSamples <=> from \in AtSamples, UNCHANGED <<count, samples>>
  PROVE  SamplesTotal'
<1>1. Owing(AtSample)' = Owing(AtSample) /\ Owing(AtSamples)' = Owing(AtSamples)
  <2>1. "idle" \notin AtSample /\ "idle" \notin AtSamples
    BY DEF AtSample, AtSamples
  <2>. QED
    BY <2>1, OwingMoves
<1>. QED
  BY <1>1 DEF SamplesTotal

-----------------------------------------------------------------------------
(* The steps.                                                              *)

\* While no reset overlaps a call, one that is inside reset is alone.
LEMMA NobodyOwes ==
  ASSUME TypeOK, ResetAlone, ~ overlap, NEW t \in Threads, NEW from \in Resets,
         NEW to \in Places, Goto(t, from, to), NEW P, "idle" \notin P, to \notin P
  PROVE  Owing(P)' = {}
<1>1. pc[t] = from /\ \A u \in Threads : pc'[u] = IF u = t THEN to ELSE pc[u]
  BY GotoType
<1>2. \A u \in Threads : u # t => pc[u] = "idle"
  BY <1>1 DEF ResetAlone
<1>. QED
  BY <1>1, <1>2 DEF Owing

\* A step that adds nothing.
LEMMA QuietKept ==
  ASSUME TInv, NEW t \in Threads, NEW from, NEW to \in Places, Goto(t, from, to),
         \A P \in {AtCounter, AtCount, AtSum, AtSample, AtStats, AtSamples} :
           to \in P <=> from \in P,
         UNCHANGED <<counters, count, sum, samples, key, latency, asked, overlap>>
  PROVE  FewBusy' /\ (~ overlap' => Totals')
<1>1. TypeOK /\ FewBusy
  BY DEF TInv, IInv
<1>2. /\ to \in AtCounter <=> from \in AtCounter
      /\ to \in AtCount <=> from \in AtCount
      /\ to \in AtSum <=> from \in AtSum
      /\ to \in AtSample <=> from \in AtSample
      /\ to \in AtStats <=> from \in AtStats
      /\ to \in AtSamples <=> from \in AtSamples
  OBVIOUS
<1>3. FewBusy'
  BY <1>1, <1>2, SumKept
<1>4. ASSUME ~ overlap
      PROVE  Totals'
  <2>1. CountersTotal /\ CountTotal /\ SumTotal /\ SamplesTotal
    BY <1>4 DEF TInv, Totals
  <2>2. CountersTotal'
    BY <1>1, <1>2, <2>1, CountersKept
  <2>3. CountTotal'
    BY <1>1, <1>2, <2>1, CountKept
  <2>4. SumTotal'
    BY <1>1, <1>2, <2>1, SumKept
  <2>5. SamplesTotal'
    BY <1>1, <1>2, <2>1, SamplesKept
  <2>. QED
    BY <2>2, <2>3, <2>4, <2>5 DEF Totals
<1>. QED
  BY <1>3, <1>4

\* A call, which owes what it asks for.
LEMMA CountedKept ==
  ASSUME TInv, NEW t \in Threads, NEW to \in AtCounter, NEW first \in Keys,
         Call(t, to), Counted(t, first, {first, Following(first)})
  PROVE  FewBusy' /\ (~ overlap' => Totals')
<1>1. TypeOK /\ FewBusy /\ asked.counters \in [Keys -> Nat] /\ counters \in [Keys -> Nat]
      /\ key \in [Threads -> Keys] /\ DOMAIN asked = {"counters", "count", "sum"}
  BY DEF TInv, IInv, TypeOK
<1>2. Goto(t, "idle", to) /\ UNCHANGED data /\ (~ overlap' => ~ overlap)
  BY DEF Call
<1>3. /\ key' = [key EXCEPT ![t] = first] /\ UNCHANGED latency
      /\ asked' = [asked EXCEPT !.counters = CountedOnce({first, Following(first)})]
  BY DEF Counted
<1>4. /\ to \in Places /\ to # "idle"
      /\ \A P \in {AtCount, AtSum, AtSample, AtStats, AtSamples} :
           to \in P <=> "idle" \in P
  <2>1. to \in {"find", "add"}
    BY DEF AtCounter
  <2>2. CASE to = "find"
    BY <2>2 DEF Places, AtCount, AtSum, AtSample, AtStats, AtSamples
  <2>3. CASE to = "add"
    BY <2>3 DEF Places, AtCount, AtSum, AtSample, AtStats, AtSamples
  <2>. QED
    BY <2>1, <2>2, <2>3
<1>5. /\ asked'.counters = CountedOnce({first, Following(first)})
      /\ asked'.count = asked.count /\ asked'.sum = asked.sum
  BY <1>1, <1>3
<1>6. /\ to \in AtCount <=> "idle" \in AtCount
      /\ to \in AtSum <=> "idle" \in AtSum
      /\ to \in AtSample <=> "idle" \in AtSample
      /\ to \in AtStats <=> "idle" \in AtStats
      /\ to \in AtSamples <=> "idle" \in AtSamples
  BY <1>4
<1>7. FewBusy'
  BY <1>1, <1>2, <1>3, <1>4, <1>5, <1>6, SumKept DEF data
<1>8. ASSUME ~ overlap'
      PROVE  Totals'
  <2>1. CountersTotal /\ CountTotal /\ SumTotal /\ SamplesTotal
    BY <1>2, <1>8 DEF TInv, Totals
  <2>2. CountersTotal'
    <3> SUFFICES ASSUME NEW k \in Keys
                 PROVE  asked.counters'[k] = counters'[k] + Cardinality(OwingCounter(k)')
      BY DEF CountersTotal
    <3>1. pc[t] = "idle" /\ pc'[t] = to /\ key'[t] = first
      BY <1>1, <1>2, <1>3, <1>4, GotoType
    <3>2. ~ Due(t, k) /\ (Due(t, k)' <=> k \in {first, Following(first)})
      BY <3>1 DEF Due, AtCounter, Following
    <3>3. /\ Cardinality(OwingCounter(k)) \in Nat
          /\ Cardinality(OwingCounter(k)') =
               Cardinality(OwingCounter(k)) + (IF Due(t, k)' THEN 1 ELSE 0)
                                            - (IF Due(t, k) THEN 1 ELSE 0)
      BY <1>1, <1>2, <1>3, <1>4, DueMoves
    <3>4. asked'.counters[k] =
            asked.counters[k] + IF k \in {first, Following(first)} THEN 1 ELSE 0
      BY <1>5 DEF CountedOnce
    <3>5. asked.counters[k] = counters[k] + Cardinality(OwingCounter(k))
      BY <2>1 DEF CountersTotal
    <3>6. counters'[k] = counters[k] /\ counters[k] \in Nat
      BY <1>1, <1>2 DEF data
    <3> DEFINE A == asked.counters[k]
               B == Cardinality(OwingCounter(k))
               C == Cardinality(OwingCounter(k)')
    <3>7. CASE k \in {first, Following(first)}
      <4>1. C = B + 1 /\ asked'.counters[k] = A + 1
        BY <3>2, <3>3, <3>4, <3>7
      <4>. QED
        BY <3>3, <3>5, <3>6, <4>1
    <3>8. CASE k \notin {first, Following(first)}
      <4>1. C = B /\ asked'.counters[k] = A
        BY <3>2, <3>3, <3>4, <3>5, <3>6, <3>8
      <4>. QED
        BY <3>3, <3>5, <3>6, <4>1
    <3>. QED
      BY <3>7, <3>8
  <2>3. CountTotal'
    BY <1>1, <1>2, <1>4, <1>5, <1>6, <2>1, CountKept DEF data
  <2>4. SumTotal'
    BY <1>1, <1>2, <1>3, <1>4, <1>5, <1>6, <2>1, SumKept DEF data
  <2>5. SamplesTotal'
    BY <1>1, <1>2, <1>4, <1>6, <2>1, SamplesKept DEF data
  <2>. QED
    BY <2>2, <2>3, <2>4, <2>5 DEF Totals
<1>. QED
  BY <1>7, <1>8

\* A latency is recorded: it is owed to the count and to the sum.
LEMMA LatencyKept ==
  ASSUME TInv, NEW t \in Threads, recordLatency(t)
  PROVE  FewBusy' /\ (~ overlap' => Totals')
<1>1. /\ TypeOK /\ FewBusy /\ latency \in [Threads -> Nat]
      /\ asked \in [counters : [Keys -> Nat], count : Nat, sum : Nat]
      /\ count \in Nat /\ sum \in Nat
  BY DEF TInv, IInv, TypeOK
<1>2. PICK l \in Latencies :
        /\ Call(t, "findStats") /\ latency' = [latency EXCEPT ![t] = l] /\ UNCHANGED key
        /\ asked' = [asked EXCEPT !.count = @ + 1, !.sum = @ + l]
  BY DEF recordLatency
<1>3. Goto(t, "idle", "findStats") /\ UNCHANGED data /\ (~ overlap' => ~ overlap)
  BY <1>2 DEF Call
<1>4. /\ "findStats" \in Places /\ "idle" \notin AtSum /\ "idle" \notin AtCount
      /\ "findStats" \in AtSum /\ "findStats" \in AtCount
      /\ "findStats" \in AtCounter <=> "idle" \in AtCounter
      /\ "findStats" \in AtSample <=> "idle" \in AtSample
      /\ "findStats" \in AtSamples <=> "idle" \in AtSamples
      /\ "findStats" \in AtStats <=> "idle" \in AtStats
      /\ "idle" \notin AtStats
  BY DEF Places, AtCounter, AtCount, AtSum, AtSample, AtStats, AtSamples
<1>5. l \in Nat
  OBVIOUS
<1>6. /\ asked'.counters = asked.counters
      /\ asked'.count = asked.count + 1 /\ asked'.sum = asked.sum + l
  BY <1>1, <1>2
<1>7. /\ t \notin Owing(AtSum) /\ Owing(AtSum)' = Owing(AtSum) \cup {t}
      /\ Owing(AtStats)' = Owing(AtStats)
  BY <1>1, <1>3, <1>4, OwingMoves
<1>8. /\ IsFiniteSet(Units(Owing(AtSum), latency)')
      /\ Cardinality(Units(Owing(AtSum), latency)) \in Nat
      /\ Cardinality(Units(Owing(AtSum), latency)') =
           Cardinality(Units(Owing(AtSum), latency)) + l
  <2>1. latency'[t] = l /\ \A u \in Owing(AtSum) : latency'[u] = latency[u]
    BY <1>1, <1>2, <1>7
  <2>2. Units(Owing(AtSum), latency') = Units(Owing(AtSum), latency)
    BY <2>1 DEF Units
  <2>3. IsFiniteSet(Units(Owing(AtSum), latency'))
    BY <1>1, <2>2 DEF FewBusy
  <2>4. /\ IsFiniteSet(Units(Owing(AtSum) \cup {t}, latency'))
        /\ Cardinality(Units(Owing(AtSum), latency')) \in Nat
        /\ Cardinality(Units(Owing(AtSum) \cup {t}, latency')) =
             Cardinality(Units(Owing(AtSum), latency')) + latency'[t]
    BY <1>5, <1>7, <2>1, <2>3, UnitsJoined
  <2>5. Units(Owing(AtSum), latency)' = Units(Owing(AtSum) \cup {t}, latency')
    BY <1>7 DEF Units
  <2>. QED
    BY <2>1, <2>2, <2>4, <2>5
<1>9. FewBusy'
  BY <1>1, <1>3, <1>4, <1>8, BusyMoves DEF FewBusy
<1>10. ASSUME ~ overlap'
       PROVE  Totals'
  <2>1. CountersTotal /\ CountTotal /\ SumTotal /\ SamplesTotal
    BY <1>3, <1>10 DEF TInv, Totals
  <2>2. CountersTotal'
    BY <1>1, <1>2, <1>3, <1>4, <1>6, <2>1, CountersKept DEF data
  <2>3. Owing(AtStats) = {} /\ Owing(AtStats)' = {}
    <3>1. Owing(AtStats) = {}
      BY <1>2, <1>10 DEF Call, Owing, Busy, AtStats, Resets
    <3>. QED
      BY <1>7, <3>1
  <2>4. CountTotal'
    <3>1. Cardinality(Owing(AtCount)) \in Nat
          /\ Cardinality(Owing(AtCount)') = Cardinality(Owing(AtCount)) + 1
      <4>1. /\ Cardinality(Owing(AtCount)) \in Nat
            /\ Cardinality(Owing(AtCount)') = Cardinality(Owing(AtCount))
                                      + (IF "findStats" \in AtCount THEN 1 ELSE 0)
                                      - (IF "idle" \in AtCount THEN 1 ELSE 0)
        BY <1>1, <1>3, <1>4, OwingMoves
      <4>. QED
        BY <1>4, <4>1
    <3>2. asked.count = count + Cardinality(Owing(AtCount)) /\ count' = count
      BY <1>3, <2>1, <2>3 DEF CountTotal, data
    <3>3. asked'.count = count' + Cardinality(Owing(AtCount)')
      BY <1>1, <1>6, <3>1, <3>2
    <3>. QED
      BY <2>3, <3>3 DEF CountTotal
  <2>5. SumTotal'
    <3>1. asked.sum = sum + Cardinality(Units(Owing(AtSum), latency)) /\ sum' = sum
      BY <1>3, <2>1, <2>3 DEF SumTotal, data
    <3>2. asked'.sum = sum' + Cardinality(Units(Owing(AtSum), latency)')
      BY <1>1, <1>5, <1>6, <1>8, <3>1
    <3>. QED
      BY <2>3, <3>2 DEF SumTotal
  <2>6. SamplesTotal'
    BY <1>1, <1>3, <1>4, <2>1, SamplesKept DEF data
  <2>. QED
    BY <2>2, <2>4, <2>5, <2>6 DEF Totals
<1>. QED
  BY <1>9, <1>10

\* What a counter is owed is added to it.
LEMMA FetchAddKept ==
  ASSUME TInv, NEW t \in Threads, fetch_add(t)
  PROVE  FewBusy' /\ (~ overlap' => Totals')
<1> DEFINE to == IF Following(key[t]) = key[t] THEN "idle" ELSE "find"
<1>1. /\ TypeOK /\ FewBusy /\ counters \in [Keys -> Nat] /\ key \in [Threads -> Keys]
  BY DEF TInv, IInv, TypeOK
<1>2. /\ Goto(t, "add", to) /\ to \in Places
      /\ to \in AtCounter <=> Following(key[t]) # key[t]
      /\ \A P \in {AtCount, AtSum, AtSample, AtStats, AtSamples} : to \in P <=> "add" \in P
  BY DEF fetch_add, Places, AtCounter, AtCount, AtSum, AtSample, AtStats, AtSamples
<1>3. /\ counters' = [counters EXCEPT ![key[t]] = @ + 1]
      /\ key' = [key EXCEPT ![t] = Following(@)]
      /\ UNCHANGED <<count, sum, samples, latency, asked, overlap>>
  BY DEF fetch_add, Rest, history
<1> HIDE DEF to
<1>4. /\ to \in AtCount <=> "add" \in AtCount
      /\ to \in AtSum <=> "add" \in AtSum
      /\ to \in AtSample <=> "add" \in AtSample
      /\ to \in AtStats <=> "add" \in AtStats
      /\ to \in AtSamples <=> "add" \in AtSamples
  BY <1>2
<1>5. FewBusy'
  BY <1>1, <1>2, <1>3, <1>4, SumKept
<1>6. ASSUME ~ overlap'
      PROVE  Totals'
  <2>1. CountersTotal /\ CountTotal /\ SumTotal /\ SamplesTotal
    BY <1>3, <1>6 DEF TInv, Totals
  <2>2. CountersTotal'
    <3> SUFFICES ASSUME NEW k \in Keys
                 PROVE  asked.counters'[k] = counters'[k] + Cardinality(OwingCounter(k)')
      BY DEF CountersTotal
    <3>1. pc[t] = "add" /\ pc'[t] = to /\ key'[t] = Following(key[t])
      BY <1>1, <1>2, <1>3, GotoType
    <3>2. Due(t, k) <=> k \in {key[t], Following(key[t])}
      BY <3>1 DEF Due, AtCounter
    <3>3. Due(t, k)' <=> Following(key[t]) # key[t] /\ k = Following(key[t])
      <4>1. MetricsAssumption
        BY MetricsAssumption
      <4>2. Following(Following(key[t])) = Following(key[t])
        BY <4>1 DEF Following
      <4>3. Due(t, k)' <=> to \in AtCounter /\ k \in {Following(key[t]),
                                                    Following(Following(key[t]))}
        BY <3>1 DEF Due, Following
      <4>. QED
        BY <1>2, <4>2, <4>3
    <3>4. /\ Cardinality(OwingCounter(k)) \in Nat
          /\ Cardinality(OwingCounter(k)') =
               Cardinality(OwingCounter(k)) + (IF Due(t, k)' THEN 1 ELSE 0)
                                            - (IF Due(t, k) THEN 1 ELSE 0)
      BY <1>1, <1>2, <1>3, DueMoves
    <3>5. asked.counters[k] = counters[k] + Cardinality(OwingCounter(k))
      BY <2>1 DEF CountersTotal
    <3>6. counters'[k] = (IF k = key[t] THEN counters[k] + 1 ELSE counters[k])
          /\ counters[k] \in Nat
      BY <1>1, <1>3
    <3>7. CASE k = key[t]
      <4>1. Due(t, k) /\ ~ Due(t, k)' /\ counters'[k] = counters[k] + 1
        BY <3>2, <3>3, <3>6, <3>7
      <4>2. Cardinality(OwingCounter(k)') = Cardinality(OwingCounter(k)) - 1
        BY <3>4, <4>1
      <4>. QED
        BY <1>3, <3>4, <3>5, <3>6, <4>1, <4>2
    <3>8. CASE k # key[t]
      <4>1. (Due(t, k)' <=> Due(t, k)) /\ counters'[k] = counters[k]
        BY <3>2, <3>3, <3>6, <3>8
      <4>2. Cardinality(OwingCounter(k)') = Cardinality(OwingCounter(k))
        BY <3>4, <4>1
      <4>. QED
        BY <1>3, <3>5, <4>1, <4>2
    <3>. QED
      BY <3>7, <3>8
  <2>3. CountTotal'
    BY <1>1, <1>2, <1>3, <1>4, <2>1, CountKept
  <2>4. SumTotal'
    BY <1>1, <1>2, <1>3, <1>4, <2>1, SumKept
  <2>5. SamplesTotal'
    BY <1>1, <1>2, <1>3, <1>4, <2>1, SamplesKept
  <2>. QED
    BY <2>2, <2>3, <2>4, <2>5 DEF Totals
<1>. QED
  BY <1>5, <1>6

\* While no reset overlaps a call, a thread inside another call sees none.
LEMMA NoReset ==
  ASSUME IInv, ~ overlap, NEW t \in Threads, pc[t] \notin Resets, pc[t] # "idle"
  PROVE  Owing(AtStats) = {} /\ Owing(AtSamples) = {}
<1>1. \A u \in Threads : pc[u] \notin Resets
  BY DEF IInv, ResetAlone
<1>. QED
  BY <1>1 DEF Owing, AtStats, AtSamples, Resets

\* The count is added to: a sample is owed.
LEMMA CountAddedKept ==
  ASSUME TInv, NEW t \in Threads, CountAdded(t)
  PROVE  FewBusy' /\ (~ overlap' => Totals')
<1>1. TypeOK /\ FewBusy /\ IInv /\ count \in Nat
  BY DEF TInv, IInv, TypeOK
<1>2. /\ Goto(t, "count", "loadSum") /\ count' = count + 1 /\ pc[t] = "count"
      /\ UNCHANGED <<counters, sum, samples, key, latency, asked, overlap>>
  BY DEF CountAdded, Rest, locals, history, Goto
<1>3. /\ "loadSum" \in Places /\ "count" \in AtCount /\ "loadSum" \notin AtCount
      /\ "count" \in AtSum /\ "loadSum" \in AtSum
      /\ "count" \notin AtSample /\ "loadSum" \in AtSample
      /\ {"count", "loadSum"} \cap AtCounter = {}
      /\ {"count", "loadSum"} \cap AtStats = {}
      /\ {"count", "loadSum"} \cap AtSamples = {}
      /\ "idle" \notin AtCount \cup AtSample \cup AtStats \cup AtSamples
  BY DEF Places, AtCounter, AtCount, AtSum, AtSample, AtStats, AtSamples
<1>4. FewBusy'
  BY <1>1, <1>2, <1>3, SumKept
<1>5. ASSUME ~ overlap'
      PROVE  Totals'
  <2>1. CountersTotal /\ CountTotal /\ SumTotal /\ SamplesTotal
    BY <1>2, <1>5 DEF TInv, Totals
  <2>2. Owing(AtStats) = {} /\ Owing(AtSamples) = {}
    BY <1>1, <1>2, <1>5, NoReset DEF Resets
  <2>3. Owing(AtStats)' = {} /\ Owing(AtSamples)' = {}
    BY <1>1, <1>2, <1>3, <2>2, OwingMoves
  <2>4. CountersTotal'
    BY <1>1, <1>2, <1>3, <2>1, CountersKept
  <2>5. SumTotal'
    BY <1>1, <1>2, <1>3, <2>1, SumKept
  <2>6. CountTotal'
    <3>1. /\ Cardinality(Owing(AtCount)) \in Nat
          /\ Cardinality(Owing(AtCount)') = Cardinality(Owing(AtCount))
                                    + (IF "loadSum" \in AtCount THEN 1 ELSE 0)
                                    - (IF "count" \in AtCount THEN 1 ELSE 0)
      BY <1>1, <1>2, <1>3, OwingMoves
    <3>2. Cardinality(Owing(AtCount)') = Cardinality(Owing(AtCount)) - 1
      BY <1>3, <3>1
    <3>3. asked.count = count + Cardinality(Owing(AtCount))
      BY <2>1, <2>2 DEF CountTotal
    <3>4. asked'.count = count' + Cardinality(Owing(AtCount)')
      BY <1>1, <1>2, <3>1, <3>2, <3>3
    <3>. QED
      BY <2>3, <3>4 DEF CountTotal
  <2>7. SamplesTotal'
    <3>1. /\ Cardinality(Owing(AtSample)) \in Nat
          /\ Cardinality(Owing(AtSample)') = Cardinality(Owing(AtSample))
                                     + (IF "loadSum" \in AtSample THEN 1 ELSE 0)
                                     - (IF "count" \in AtSample THEN 1 ELSE 0)
      BY <1>1, <1>2, <1>3, OwingMoves
    <3>2. Cardinality(Owing(AtSample)') = Cardinality(Owing(AtSample)) + 1
      BY <1>3, <3>1
    <3>3. PICK n \in Nat : count = n + Cardinality(Owing(AtSample)) /\ Len(samples) = Kept(n)
      BY <2>1, <2>2 DEF SamplesTotal
    <3>4. count' = n + Cardinality(Owing(AtSample)')
      BY <1>2, <3>1, <3>2, <3>3
    <3>5. Len(samples') = Kept(n)
      BY <1>2, <3>3
    <3>. QED
      BY <2>3, <3>4, <3>5 DEF SamplesTotal, Kept
  <2>. QED
    BY <2>4, <2>5, <2>6, <2>7 DEF Totals
<1>. QED
  BY <1>4, <1>5

\* The latency is added to the sum, when that is still what was loaded.
LEMMA SumAddedKept ==
  ASSUME TInv, NEW t \in Threads, sum = old[t], sum' = old[t] + latency[t],
         Goto(t, "addSum", "loadMax"),
         UNCHANGED <<counters, count, samples, key, latency, asked, overlap>>
  PROVE  FewBusy' /\ (~ overlap' => Totals')
<1>1. TypeOK /\ FewBusy /\ IInv /\ sum \in Nat /\ latency[t] \in Nat /\ pc[t] = "addSum"
  BY DEF TInv, IInv, TypeOK, Goto
<1>2. /\ "loadMax" \in Places /\ "addSum" \in AtSum /\ "loadMax" \notin AtSum
      /\ "addSum" \in AtSample /\ "loadMax" \in AtSample
      /\ {"addSum", "loadMax"} \cap AtCounter = {}
      /\ {"addSum", "loadMax"} \cap AtCount = {}
      /\ {"addSum", "loadMax"} \cap AtStats = {}
      /\ {"addSum", "loadMax"} \cap AtSamples = {}
      /\ "idle" \notin AtSum \cup AtStats
  BY DEF Places, AtCounter, AtCount, AtSum, AtSample, AtStats, AtSamples
<1>3. t \in Owing(AtSum) /\ Owing(AtSum)' = Owing(AtSum) \ {t} /\ Owing(AtStats)' = Owing(AtStats)
  BY <1>1, <1>2, OwingMoves
<1>4. Units(Owing(AtSum), latency)' = Units(Owing(AtSum) \ {t}, latency)
  BY <1>3 DEF Units
<1>5. /\ IsFiniteSet(Units(Owing(AtSum), latency)')
      /\ Cardinality(Units(Owing(AtSum), latency)') \in Nat
      /\ Cardinality(Units(Owing(AtSum), latency)) =
           Cardinality(Units(Owing(AtSum), latency)') + latency[t]
  BY <1>1, <1>3, <1>4, UnitsLeft DEF FewBusy
<1>6. FewBusy'
  BY <1>1, <1>2, <1>5, BusyMoves DEF FewBusy
<1>7. ASSUME ~ overlap'
      PROVE  Totals'
  <2>1. CountersTotal /\ CountTotal /\ SumTotal /\ SamplesTotal
    BY <1>7 DEF TInv, Totals
  <2>2. Owing(AtStats) = {} /\ Owing(AtStats)' = {}
    BY <1>1, <1>3, <1>7, NoReset DEF Resets
  <2>3. CountersTotal'
    BY <1>1, <1>2, <2>1, CountersKept
  <2>4. CountTotal'
    BY <1>1, <1>2, <2>1, CountKept
  <2>5. SumTotal'
    <3>1. asked.sum = sum + Cardinality(Units(Owing(AtSum), latency))
      BY <2>1, <2>2 DEF SumTotal
    <3>2. asked'.sum = sum' + Cardinality(Units(Owing(AtSum), latency)')
      BY <1>1, <1>5, <3>1
    <3>. QED
      BY <2>2, <3>2 DEF SumTotal
  <2>6. SamplesTotal'
    BY <1>1, <1>2, <2>1, SamplesKept
  <2>. QED
    BY <2>3, <2>4, <2>5, <2>6 DEF Totals
<1>. QED
  BY <1>6, <1>7

\* The latency is sampled: it takes a place of its own while there is one.
LEMMA SampleKept ==
  ASSUME TInv, NEW t \in Threads, Sampled(t)
  PROVE  FewBusy' /\ (~ overlap' => Totals')
<1>1. /\ TypeOK /\ FewBusy /\ IInv /\ count \in Nat /\ samples \in Seq(Latencies)
      /\ Len(samples) \in Nat
  BY DEF TInv, IInv, TypeOK
<1>2. /\ Goto(t, "sample", "idle") /\ pc[t] = "sample"
      /\ UNCHANGED <<counters, count, sum, key, latency, asked, overlap>>
  BY DEF Sampled, Rest, locals, history, Goto
<1>3. /\ "idle" \in Places /\ "sample" \in AtSample /\ "idle" \notin AtSample
      /\ {"sample", "idle"} \cap AtCounter = {}
      /\ {"sample", "idle"} \cap AtCount = {}
      /\ {"sample", "idle"} \cap AtSum = {}
      /\ {"sample", "idle"} \cap AtStats = {}
      /\ {"sample", "idle"} \cap AtSamples = {}
  BY DEF Places, AtCounter, AtCount, AtSum, AtSample, AtStats, AtSamples
<1>4. FewBusy'
  BY <1>1, <1>2, <1>3, SumKept
<1>5. Len(samples') = IF Len(samples) < MAX_SAMPLES THEN Len(samples) + 1 ELSE Len(samples)
  <2>1. CASE Len(samples) < MAX_SAMPLES /\ samples' = Append(samples, latency[t])
    BY <1>1, <2>1
  <2>2. CASE Len(samples) >= MAX_SAMPLES /\ UNCHANGED samples
    BY <1>1, <2>2
  <2>3. ASSUME NEW i \in 1..MAX_SAMPLES, samples' = [samples EXCEPT ![i] = latency[t]],
               Len(samples) >= MAX_SAMPLES
        PROVE  Len(samples') = Len(samples)
    BY <1>1, <2>3
  <2>4. ~ (Len(samples) < MAX_SAMPLES) <=> Len(samples) >= MAX_SAMPLES
    BY <1>1
  <2>. QED
    BY <2>1, <2>2, <2>3, <2>4 DEF Sampled
<1>6. ASSUME ~ overlap'
      PROVE  Totals'
  <2>1. CountersTotal /\ CountTotal /\ SumTotal /\ SamplesTotal
    BY <1>2, <1>6 DEF TInv, Totals
  <2>2. Owing(AtSamples) = {}
    BY <1>1, <1>2, <1>6, NoReset DEF Resets
  <2>3. Owing(AtSamples)' = {}
    BY <1>1, <1>2, <1>3, <2>2, OwingMoves
  <2>4. CountersTotal'
    BY <1>1, <1>2, <1>3, <2>1, CountersKept
  <2>5. CountTotal'
    BY <1>1, <1>2, <1>3, <2>1, CountKept
  <2>6. SumTotal'
    BY <1>1, <1>2, <1>3, <2>1, SumKept
  <2>7. SamplesTotal'
    <3>1. /\ Cardinality(Owing(AtSample)) \in Nat /\ Cardinality(Owing(AtSample)') \in Nat
          /\ Cardinality(Owing(AtSample)') = Cardinality(Owing(AtSample))
                                     + (IF "idle" \in AtSample THEN 1 ELSE 0)
                                     - (IF "sample" \in AtSample THEN 1 ELSE 0)
      BY <1>1, <1>2, <1>3, OwingMoves
    <3>2. Cardinality(Owing(AtSample)') = Cardinality(Owing(AtSample)) - 1
      BY <1>3, <3>1
    <3>3. PICK n \in Nat : count = n + Cardinality(Owing(AtSample)) /\ Len(samples) = Kept(n)
      BY <2>1, <2>2 DEF SamplesTotal
    <3>4. n + 1 \in Nat /\ count' = (n + 1) + Cardinality(Owing(AtSample)')
      BY <1>2, <3>1, <3>2, <3>3
    <3>5. Len(samples') = Kept(n + 1)
      BY <1>5, <3>3 DEF Kept
    <3>. QED
      BY <2>3, <3>4, <3>5 DEF SamplesTotal, Kept
  <2>. QED
    BY <2>4, <2>5, <2>6, <2>7 DEF Totals
<1>. QED
  BY <1>4, <1>6

\* A reset, which overlaps no call, first sets the counters to zero, and what was
\* asked for with them;
LEMMA CountersResetKept ==
  ASSUME TInv, NEW t \in Threads, CountersReset(t)
  PROVE  FewBusy' /\ (~ overlap' => Totals')
<1>1. TypeOK /\ FewBusy /\ ResetAlone
  BY DEF TInv, IInv
<1>2. /\ Goto(t, "resetCounters", "resetLatency") /\ counters' = Zero
      /\ asked' = [counters |-> Zero, count |-> 0, sum |-> 0] /\ pc[t] = "resetCounters"
      /\ UNCHANGED <<count, sum, samples, key, latency, overlap>>
  BY DEF CountersReset, locals, Goto
<1>3. /\ "resetLatency" \in Places /\ "resetCounters" \in Resets /\ "resetLatency" \in AtStats
      /\ {"resetCounters", "resetLatency"} \cap AtCounter = {}
      /\ {"resetCounters", "resetLatency"} \cap AtSum = {}
      /\ {"resetCounters", "resetLatency"} \cap AtSample = {}
      /\ {"resetCounters", "resetLatency"} \cap AtSamples = {}
      /\ "idle" \notin AtSum
  BY DEF Places, AtCounter, AtSum, AtSample, AtStats, AtSamples, Resets
<1>4. pc' = [pc EXCEPT ![t] = "resetLatency"] /\ pc'[t] = "resetLatency"
  BY <1>1, <1>2 DEF Goto, TypeOK
<1>5. FewBusy'
  <2>1. Owing(AtSum)' = Owing(AtSum)
    BY <1>1, <1>2, <1>3, OwingMoves
  <2>2. Units(Owing(AtSum), latency)' = Units(Owing(AtSum), latency)
    BY <1>2, <2>1 DEF Units
  <2>. QED
    BY <1>1, <1>2, <1>3, <2>2, BusyMoves DEF FewBusy
<1>6. ASSUME ~ overlap'
      PROVE  Totals'
  <2>1. SamplesTotal /\ ~ overlap
    BY <1>2, <1>6 DEF TInv, Totals
  <2>2. SamplesTotal'
    BY <1>1, <1>2, <1>3, <2>1, SamplesKept
  <2>3. Owing(AtStats)' # {}
    BY <1>3, <1>4 DEF Owing
  <2>4. asked'.counters = Zero /\ asked'.count = 0 /\ asked'.sum = 0
    BY <1>2
  <2>5. CountTotal' /\ SumTotal'
    BY <2>3, <2>4 DEF CountTotal, SumTotal
  <2>6. CountersTotal'
    <3> SUFFICES ASSUME NEW k \in Keys
                 PROVE  asked.counters'[k] = counters'[k] + Cardinality(OwingCounter(k)')
      BY DEF CountersTotal
    <3>1. \A u \in Threads : u # t => pc'[u] = "idle"
      BY <1>1, <1>2, <1>3, <1>4, <2>1 DEF ResetAlone
    <3>2. OwingCounter(k)' = {}
      BY <1>4, <3>1 DEF OwingCounter, Due, AtCounter
    <3>3. Cardinality(OwingCounter(k)') = 0
      BY <3>2, FS_EmptySet
    <3>. QED
      BY <1>2, <2>4, <3>3 DEF Zero
  <2>. QED
    BY <2>2, <2>5, <2>6 DEF Totals
<1>. QED
  BY <1>5, <1>6

\* then the count and the sum, of which nothing is owed meanwhile;
LEMMA StatsResetTotals ==
  ASSUME TInv, NEW t \in Threads, StatsReset(t)
  PROVE  FewBusy' /\ (~ overlap' => Totals')
<1>1. TypeOK /\ FewBusy /\ ResetAlone
  BY DEF TInv, IInv
<1>2. /\ Goto(t, "resetStats", "resetSamples") /\ count' = 0 /\ sum' = 0
      /\ pc[t] = "resetStats"
      /\ UNCHANGED <<counters, samples, key, latency, asked, overlap>>
  BY DEF StatsReset, locals, Goto
<1>3. /\ "resetSamples" \in Places /\ "resetStats" \in Resets
      /\ "resetStats" \in AtStats /\ "resetSamples" \notin AtStats
      /\ "resetSamples" \in AtSamples
      /\ {"resetStats", "resetSamples"} \cap AtCounter = {}
      /\ {"resetStats", "resetSamples"} \cap AtCount = {}
      /\ {"resetStats", "resetSamples"} \cap AtSum = {}
      /\ "idle" \notin AtSum \cup AtCount \cup AtStats
  BY DEF Places, AtCounter, AtCount, AtSum, AtStats, AtSamples, Resets
<1>4. pc'[t] = "resetSamples"
  BY <1>1, <1>2 DEF Goto, TypeOK
<1>5. FewBusy'
  <2>1. Owing(AtSum)' = Owing(AtSum)
    BY <1>1, <1>2, <1>3, OwingMoves
  <2>2. Units(Owing(AtSum), latency)' = Units(Owing(AtSum), latency)
    BY <1>2, <2>1 DEF Units
  <2>. QED
    BY <1>1, <1>2, <1>3, <2>2, BusyMoves DEF FewBusy
<1>6. ASSUME ~ overlap'
      PROVE  Totals'
  <2>1. CountersTotal /\ CountTotal /\ SumTotal /\ ~ overlap
    BY <1>2, <1>6 DEF TInv, Totals
  <2>2. CountersTotal'
    BY <1>1, <1>2, <1>3, <2>1, CountersKept
  <2>3. Owing(AtStats) # {} /\ Owing(AtSamples)' # {}
    BY <1>2, <1>3, <1>4 DEF Owing
  <2>4. SamplesTotal'
    BY <1>2, <2>3 DEF SamplesTotal
  <2>5. asked'.count = 0 /\ asked'.sum = 0
    BY <1>2, <2>1, <2>3 DEF CountTotal, SumTotal
  <2>6. Owing(AtStats)' = {} /\ Owing(AtCount)' = {} /\ Owing(AtSum)' = {}
    BY <1>1, <1>2, <1>3, <2>1, NobodyOwes
  <2>7. Cardinality(Owing(AtCount)') = 0 /\ Cardinality(Units(Owing(AtSum), latency)') = 0
    <3>1. Units(Owing(AtSum), latency)' = {}
      BY <2>6 DEF Units
    <3>. QED
      BY <2>6, <3>1, FS_EmptySet
  <2>8. CountTotal' /\ SumTotal'
    BY <1>2, <2>5, <2>6, <2>7 DEF CountTotal, SumTotal
  <2>. QED
    BY <2>2, <2>4, <2>8 DEF Totals
<1>. QED
  BY <1>5, <1>6

\* last the samples.
LEMMA SamplesResetKept ==
  ASSUME TInv, NEW t \in Threads, SamplesReset(t)
  PROVE  FewBusy' /\ (~ overlap' => Totals')
<1>1. TypeOK /\ FewBusy /\ ResetAlone
  BY DEF TInv, IInv
<1>2. /\ Goto(t, "resetDone", "idle") /\ samples' = << >> /\ pc[t] = "resetDone"
      /\ UNCHANGED <<counters, count, sum, key, latency, asked, overlap>>
  BY DEF SamplesReset, locals, Goto, Rest, history
<1>3. /\ "idle" \in Places /\ "resetDone" \in Resets /\ "resetDone" \in AtSamples
      /\ {"resetDone", "idle"} \cap AtCounter = {}
      /\ {"resetDone", "idle"} \cap AtCount = {}
      /\ {"resetDone", "idle"} \cap AtSum = {}
      /\ {"resetDone", "idle"} \cap AtStats = {}
      /\ "idle" \notin AtSample \cup AtSamples
  BY DEF Places, AtCounter, AtCount, AtSum, AtSample, AtStats, AtSamples, Resets
<1>4. FewBusy'
  BY <1>1, <1>2, <1>3, SumKept
<1>5. ASSUME ~ overlap'
      PROVE  Totals'
  <2>1. CountersTotal /\ CountTotal /\ SumTotal /\ SamplesTotal /\ ~ overlap
    BY <1>2, <1>5 DEF TInv, Totals
  <2>2. CountersTotal'
    BY <1>1, <1>2, <1>3, <2>1, CountersKept
  <2>3. CountTotal'
    BY <1>1, <1>2, <1>3, <2>1, CountKept
  <2>4. SumTotal'
    BY <1>1, <1>2, <1>3, <2>1, SumKept
  <2>5. Owing(AtSamples) # {}
    BY <1>2, <1>3 DEF Owing
  <2>6. count' = 0
    BY <1>2, <2>1, <2>5 DEF SamplesTotal
  <2>7. Owing(AtSamples)' = {} /\ Owing(AtSample)' = {}
    BY <1>1, <1>2, <1>3, <2>1, NobodyOwes
  <2>8. Cardinality(Owing(AtSample)') = 0
    BY <2>7, FS_EmptySet
  <2>9. Len(samples') = Kept(0)
    BY <1>2 DEF Kept
  <2>10. SamplesTotal'
    BY <2>6, <2>7, <2>8, <2>9 DEF SamplesTotal, Kept
  <2>. QED
    BY <2>2, <2>3, <2>4, <2>10 DEF Totals
<1>. QED
  BY <1>4, <1>5

\* A step between two atomic operations, or on a lock.
LEMMA MovesTotals ==
  ASSUME TInv, NEW t \in Threads, Moves(t)
  PROVE  FewBusy' /\ (~ overlap' => Totals')
<1>1. TypeOK
  BY DEF TInv, IInv
<1>2. UNCHANGED <<counters, count, sum, samples, key, latency, asked, overlap>>
  BY <1>1, MovesEffect DEF data, locals, history
<1>3. PICK r \in Routes : Goto(t, r[1], r[2])
  BY <1>1, MovesEffect
<1>4. /\ r[2] \in Places
      /\ \A P \in {AtCounter, AtCount, AtSum, AtSample, AtStats, AtSamples} :
           r[2] \in P <=> r[1] \in P
  BY DEF Routes, Places, Resets, AtCounter, AtCount, AtSum, AtSample, AtStats, AtSamples
<1>. QED
  BY <1>2, <1>3, <1>4, QuietKept

\* A load, a retried exchange, and all that is done with the maximum.
LEMMA LoadsTotals ==
  ASSUME TInv, NEW t \in Threads, SumLoaded(t) \/ MaxLoaded(t) \/ MaxExchanged(t)
  PROVE  FewBusy' /\ (~ overlap' => Totals')
<1>1. UNCHANGED <<counters, count, sum, samples, key, latency, asked, overlap>>
  BY DEF SumLoaded, MaxLoaded, MaxExchanged, Rest, data, history
<1>2. PICK r \in {<<"loadSum", "addSum">>, <<"loadMax", "raiseMax">>, <<"raiseMax", "raiseMax">>,
                 <<"raiseMax", "lockSamples">>} : Goto(t, r[1], r[2])
  BY DEF SumLoaded, MaxLoaded, MaxExchanged
<1>3. /\ r[2] \in Places
      /\ \A P \in {AtCounter, AtCount, AtSum, AtSample, AtStats, AtSamples} :
           r[2] \in P <=> r[1] \in P
  BY DEF Places, AtCounter, AtCount, AtSum, AtSample, AtStats, AtSamples
<1>. QED
  BY <1>1, <1>2, <1>3, QuietKept

\* compare_exchange_weak on the sum.
LEMMA SumExchangedTotals ==
  ASSUME TInv, NEW t \in Threads, SumExchanged(t)
  PROVE  FewBusy' /\ (~ overlap' => Totals')
<1>1. UNCHANGED <<counters, count, samples, key, latency, asked, overlap>>
  BY DEF SumExchanged, Rest, history
<1>2. CASE sum = old[t] /\ sum' = old[t] + latency[t] /\ Goto(t, "addSum", "loadMax")
  BY <1>1, <1>2, SumAddedKept
<1>3. CASE UNCHANGED sum /\ Goto(t, "addSum", "addSum")
  BY <1>1, <1>3, QuietKept DEF Places
<1>. QED
  BY <1>2, <1>3 DEF SumExchanged

\* A call begins.
LEMMA BeginTotals ==
  ASSUME TInv, NEW t \in Threads, Begin(t)
  PROVE  FewBusy' /\ (~ overlap' => Totals')
<1>1. CASE recordRequest(t)
  <2>1. Following("requests") = "requests" /\ "requests" \in Keys /\ "find" \in AtCounter
    BY MetricsAssumption DEF Following, Keys, AtCounter
  <2>2. Call(t, "find") /\ Counted(t, "requests", {"requests", Following("requests")})
    <3>1. {"requests"} = {"requests", Following("requests")}
      BY <2>1
    <3>. QED
      BY <1>1, <3>1 DEF recordRequest
  <2>. QED
    BY <2>1, <2>2, CountedKept
<1>2. CASE recordError(t)
  <2>1. PICK c \in Codes : Call(t, "find") /\ Counted(t, c, {c, "errors"})
    BY <1>2 DEF recordError
  <2>2. Following(c) = "errors" /\ c \in Keys /\ "find" \in AtCounter
    BY DEF Following, Keys, AtCounter
  <2>. QED
    BY <2>1, <2>2, CountedKept
<1>3. CASE recordHttpRequest(t)
  <2>1. Following("http") = "endpoint" /\ "http" \in Keys /\ "add" \in AtCounter
    BY MetricsAssumption DEF Following, Keys, AtCounter
  <2>. QED
    BY <1>3, <2>1, CountedKept DEF recordHttpRequest
<1>4. CASE recordLatency(t)
  BY <1>4, LatencyKept
<1>5. CASE getAverageLatency(t) \/ getLatencyPercentile(t) \/ reset(t)
  <2>1. PICK to \in {"average", "percentile", "reset"} :
          Call(t, to) /\ UNCHANGED <<key, latency, asked>>
    BY <1>5 DEF getAverageLatency, getLatencyPercentile, reset
  <2>2. /\ to \in Places
        /\ \A P \in {AtCounter, AtCount, AtSum, AtSample, AtStats, AtSamples} :
             to \in P <=> "idle" \in P
    BY DEF Places, Resets, AtCounter, AtCount, AtSum, AtSample, AtStats, AtSamples
  <2>3. /\ Goto(t, "idle", to) /\ (overlap => overlap')
        /\ UNCHANGED <<counters, count, sum, samples, key, latency, asked>>
    BY <2>1 DEF Call, data
  <2>4. CASE UNCHANGED overlap
    BY <2>2, <2>3, <2>4, QuietKept
  <2>5. CASE overlap' /\ ~ overlap
    <3>1. TypeOK /\ FewBusy
      BY DEF TInv, IInv
    <3>2. to \in AtSum <=> "idle" \in AtSum
      BY <2>2
    <3>3. to \in AtStats <=> "idle" \in AtStats
      BY <2>2
    <3>4. FewBusy'
      BY <2>2, <2>3, <3>1, <3>2, <3>3, SumKept
    <3>. QED
      BY <2>5, <3>4
  <2>6. overlap \in BOOLEAN /\ overlap' \in BOOLEAN
    <3>1. overlap \in BOOLEAN
      BY DEF TInv, IInv, TypeOK
    <3>2. overlap' = (overlap \/ \E u \in Busy : to = "reset" \/ pc[u] \in Resets)
      BY <2>1 DEF Call
    <3>. QED
      BY <3>1, <3>2
  <2>. QED
    BY <2>3, <2>4, <2>5, <2>6
<1>. QED
  BY <1>1, <1>2, <1>3, <1>4, <1>5 DEF Begin

-----------------------------------------------------------------------------
(* The theorems.                                                           *)

\* At first nothing is asked for and nothing is there.
LEMMA TotalsAtFirst == Init => TInv
<1> SUFFICES ASSUME Init
             PROVE  TInv
  OBVIOUS
<1>1. \A P : "idle" \notin P => Owing(P) = {}
  BY DEF Init, Owing
<1>2. Busy = {} /\ \A k : OwingCounter(k) = {}
  BY DEF Init, Busy, OwingCounter, Due, AtCounter
<1>3. /\ Owing(AtCount) = {} /\ Owing(AtSum) = {} /\ Owing(AtSample) = {}
      /\ Owing(AtStats) = {} /\ Owing(AtSamples) = {}
  BY <1>1 DEF AtCount, AtSum, AtSample, AtStats, AtSamples
<1>4. Units(Owing(AtSum), latency) = {}
  BY <1>3 DEF Units
<1>5. FewBusy
  BY <1>2, <1>4, FS_EmptySet DEF FewBusy
<1>6. Cardinality({}) = 0
  BY FS_EmptySet
<1>. /\ asked.counters = Zero /\ counters = Zero
     /\ asked.count = 0 /\ asked.sum = 0 /\ count = 0 /\ sum = 0
  BY DEF Init
<1>7. CountersTotal
  <2>1. \A k \in Keys : Zero[k] = Zero[k] + Cardinality(OwingCounter(k))
    <3>1. \A k \in Keys : Cardinality(OwingCounter(k)) = 0 /\ Zero[k] = 0
      BY <1>2, <1>6 DEF Zero
    <3>. QED
      BY <3>1
  <2>. QED
    BY <2>1 DEF CountersTotal
<1>8. CountTotal /\ SumTotal
  <2>1. /\ Cardinality(Owing(AtCount)) = 0
        /\ Cardinality(Units(Owing(AtSum), latency)) = 0
    BY <1>3, <1>4, <1>6
  <2>. QED
    BY <1>3, <2>1 DEF CountTotal, SumTotal
<1>9. SamplesTotal
  <2>1. count = 0 + Cardinality(Owing(AtSample)) /\ Len(samples) = Kept(0)
    BY <1>3, <1>6, MetricsAssumption DEF Init, Kept
  <2>. QED
    BY <1>3, <2>1 DEF SamplesTotal, Kept
<1>. QED
  BY <1>5, <1>7, <1>8, <1>9, Initial DEF TInv, Totals

\* Every step keeps what is there and what is owed equal to what was asked for.
LEMMA TotalsInductive == TInv /\ [Next]_vars => TInv'
<1> SUFFICES ASSUME TInv, [Next]_vars
             PROVE  TInv'
  OBVIOUS
<1>1. IInv'
  BY Inductive DEF TInv
<1>2. ASSUME NEW t \in Threads, Begin(t)
      PROVE  FewBusy' /\ (~ overlap' => Totals')
  BY <1>2, BeginTotals
<1>3. ASSUME NEW t \in Threads, Continue(t)
      PROVE  FewBusy' /\ (~ overlap' => Totals')
  <2>1. CASE Moves(t)
    BY <2>1, MovesTotals
  <2>2. CASE fetch_add(t)
    BY <2>2, FetchAddKept
  <2>3. CASE CountAdded(t)
    BY <2>3, CountAddedKept
  <2>4. CASE SumExchanged(t)
    BY <2>4, SumExchangedTotals
  <2>5. CASE SumLoaded(t) \/ MaxLoaded(t) \/ MaxExchanged(t)
    BY <2>5, LoadsTotals
  <2>6. CASE Sampled(t)
    BY <2>6, SampleKept
  <2>7. CASE CountersReset(t)
    BY <2>7, CountersResetKept
  <2>8. CASE StatsReset(t)
    BY <2>8, StatsResetTotals
  <2>9. CASE SamplesReset(t)
    BY <2>9, SamplesResetKept
  <2>. QED
    BY <1>3, <2>1, <2>2, <2>3, <2>4, <2>5, <2>6, <2>7, <2>8, <2>9 DEF Continue, Moves
<1>4. ASSUME UNCHANGED vars
      PROVE  FewBusy' /\ (~ overlap' => Totals')
  <2>1. UNCHANGED <<counters, count, sum, samples, pc, key, latency, asked, overlap>>
    BY <1>4 DEF vars, data, locals, history
  <2>2. (\A P : Owing(P)' = Owing(P)) /\ (\A k : OwingCounter(k)' = OwingCounter(k))
    BY <2>1 DEF Owing, OwingCounter, Due, Following
  <2>3. Units(Owing(AtSum), latency)' = Units(Owing(AtSum), latency) /\ Busy' = Busy
    BY <2>1, <2>2 DEF Units, Busy
  <2>4. FewBusy'
    BY <2>3 DEF TInv, FewBusy
  <2>5. ASSUME ~ overlap
        PROVE  Totals'
    <3>0. CountersTotal /\ CountTotal /\ SumTotal /\ SamplesTotal
      BY <2>5 DEF TInv, Totals
    <3>1. CountersTotal'
      BY <2>1, <2>2, <3>0 DEF CountersTotal
    <3>2. CountTotal'
      BY <2>1, <2>2, <3>0 DEF CountTotal
    <3>3. SumTotal'
      BY <2>1, <2>2, <2>3, <3>0 DEF SumTotal
    <3>4. SamplesTotal'
      BY <2>1, <2>2, <3>0 DEF SamplesTotal
    <3>. QED
      BY <3>1, <3>2, <3>3, <3>4 DEF Totals
  <2>. QED
    BY <2>1, <2>4, <2>5
<1>5. FewBusy' /\ (~ overlap' => Totals')
  <2>1. CASE Next
    BY <1>2, <1>3, <2>1 DEF Next
  <2>2. CASE UNCHANGED vars
    BY <1>4, <2>2
  <2>. QED
    BY <2>1, <2>2
<1>. QED
  BY <1>1, <1>5 DEF TInv

\* When no call is under way, and no reset overlapped one, every counter, the
\* count, the sum and the number of samples are what all the calls amount to,
\* however their atomic operations interleaved ("Thread-safe metrics
\* collection", module Metrics, NothingLost).
THEOREM TotalsAreRight == Spec => []NothingLost
<1>1. TInv => NothingLost
  <2> SUFFICES ASSUME TInv, ~ overlap, Busy = {}
               PROVE  /\ counters = asked.counters /\ count = asked.count
                      /\ sum = asked.sum
                      /\ Len(samples) = IF count < MAX_SAMPLES THEN count ELSE MAX_SAMPLES
    BY DEF NothingLost
  <2>1. TypeOK /\ CountersTotal /\ CountTotal /\ SumTotal /\ SamplesTotal
    BY DEF TInv, IInv, Totals
  <2>2. /\ Owing(AtCount) = {} /\ Owing(AtSum) = {} /\ Owing(AtSample) = {}
        /\ Owing(AtStats) = {} /\ Owing(AtSamples) = {}
    BY DEF Busy, Owing, AtCount, AtSum, AtSample, AtStats, AtSamples
  <2>3. \A k : OwingCounter(k) = {}
    BY DEF Busy, OwingCounter, Due, AtCounter
  <2>4. Cardinality({}) = 0 /\ Units({}, latency) = {}
    BY FS_EmptySet DEF Units
  <2>5. /\ counters \in [Keys -> Nat] /\ asked.counters \in [Keys -> Nat]
        /\ count \in Nat /\ sum \in Nat
    BY <2>1 DEF TypeOK
  <2>6. \A k \in Keys : asked.counters[k] = counters[k]
    <3> SUFFICES ASSUME NEW k \in Keys
                 PROVE  asked.counters[k] = counters[k]
      OBVIOUS
    <3>1. asked.counters[k] = counters[k] + Cardinality(OwingCounter(k))
      BY <2>1 DEF CountersTotal
    <3>2. Cardinality(OwingCounter(k)) = 0 /\ counters[k] \in Nat
      BY <2>3, <2>4, <2>5
    <3>. QED
      BY <3>1, <3>2
  <2>7. counters = asked.counters
    BY <2>5, <2>6
  <2>8. count = asked.count /\ sum = asked.sum
    BY <2>1, <2>2, <2>4, <2>5 DEF CountTotal, SumTotal
  <2>9. PICK n \in Nat : count = n + Cardinality(Owing(AtSample)) /\ Len(samples) = Kept(n)
    BY <2>1, <2>2 DEF SamplesTotal
  <2>10. count = n
    BY <2>2, <2>4, <2>9
  <2>. QED
    BY <2>7, <2>8, <2>9, <2>10 DEF Kept
<1>. QED
  BY TotalsAtFirst, TotalsInductive, <1>1, PTL DEF Spec

=============================================================================
