----------------------- MODULE MetricsCollectorProofs -----------------------
(***************************************************************************)
(* TLAPS proofs about MetricsCollector, for any set of requests, routes,   *)
(* codes and bucket bounds.                                                *)
(*                                                                         *)
(* Induction over finite sets is done with the least cardinality of a      *)
(* counterexample, so that the sum of the durations in SeriesExact, a fold *)
(* of the library, can be reasoned about.                                  *)
(***************************************************************************)
EXTENDS MetricsCollector, TLAPS, FiniteSetTheorems

\* Requests the collector has seen: finitely many at any time.
Busy == {r \in Requests : pc[r] # "idle"}
Panicked == {r \in Requests : pc[r] = "panicked"}

\* A series of which nothing was taken away.
Grown(a, b) ==
  a.count <= b.count /\ a.sum <= b.sum /\ \A i \in 1..Inf : a.buckets[i] <= b.buckets[i]

\* The last exposition lags behind the collector.
ScrapeBehind ==
  \A k \in DOMAIN scraped.series :
    k \in DOMAIN byRoute /\ scraped.series[k] \in Series /\ Grown(scraped.series[k], byRoute[k])

IInv ==
  /\ TypeOK
  /\ IsFiniteSet(Busy)
  /\ GaugeConserved
  /\ ScrapeBehind

\* Before the first WriteHeader the recorder has the default and at most an
\* implicit 200 went out; that call settles the response, or its code strays.
Told(r) ==
  IF ~wrote[r] THEN status[r] = OK /\ stray[r] = 0 /\ wire[r] \in {0, OK}
  ELSE IF stray[r] = 0 THEN wire[r] = status[r] /\ ~Uncommitted(r)
                       ELSE status[r] = stray[r]

\* The recorder holds the status a request is to be counted under.
Recorded ==
  \A r \in Requests :
    /\ pc[r] \in {"idle", "serving"} => Told(r)
    /\ pc[r] = "idle" \/ (pc[r] = "serving" /\ route[r] = "metrics") => ~wrote[r]
    /\ pc[r] \in {"returned", "done"} => status[r] = IF stray[r] = 0 THEN wire[r] ELSE stray[r]
    /\ pc[r] = "done" => took[r] \in Durations

ExactInv == Recorded /\ SeriesExact

-----------------------------------------------------------------------------
(* Induction over finite sets, without operator parameters *)

LEMMA LeastNat ==
  ASSUME NEW T \in SUBSET Nat, T # {}
  PROVE  \E n \in T : \A m \in T : n <= m
<1>1. PICK n \in T : \A m \in T : <<m, n>> \notin OpToRel(<, Nat)
  BY NatLessThanWellFounded, WFMin
<1>2. \A m \in T : ~(m < n)
  BY <1>1 DEF OpToRel
<1> QED
  BY <1>2

\* A property of the subsets of S, given as the set G of those that have it.
LEMMA SubsetInduction ==
  ASSUME NEW S, IsFiniteSet(S), NEW G,
         \A s \in SUBSET S :
           (\A t \in SUBSET S : Cardinality(t) < Cardinality(s) => t \in G) => s \in G
  PROVE  \A s \in SUBSET S : s \in G
<1> SUFFICES ASSUME \E s \in SUBSET S : s \notin G
             PROVE  FALSE
  OBVIOUS
<1> DEFINE Bad == {s \in SUBSET S : s \notin G}
           Sizes == {Cardinality(s) : s \in Bad}
<1>1. \A s \in SUBSET S : Cardinality(s) \in Nat
  BY FS_Subset, FS_CardinalityType
<1>2. Sizes \in SUBSET Nat /\ Sizes # {}
  BY <1>1
<1>3. PICK n \in Sizes : \A m \in Sizes : n <= m
  <2> HIDE DEF Sizes
  <2> QED
    BY <1>2, LeastNat
<1>4. PICK s \in Bad : Cardinality(s) = n
  OBVIOUS
<1>5. ASSUME NEW t \in SUBSET S, Cardinality(t) < Cardinality(s)
      PROVE  t \in G
  <2>1. t \in Bad => n <= Cardinality(t)
    BY <1>3
  <2>2. Cardinality(t) \in Nat /\ n \in Nat
    BY <1>1, <1>2
  <2> QED
    BY <1>4, <1>5, <2>1, <2>2
<1> QED
  BY <1>4, <1>5

-----------------------------------------------------------------------------
(* Sums over finite sets *)

Pick(s) == CHOOSE x \in s : TRUE

\* f is the fold of w over the subsets of S.
IsSum(f, w, S) ==
  f = [s \in SUBSET S |-> IF s = {} THEN 0 ELSE w[Pick(s)] + f[s \ {Pick(s)}]]

Sum(w, S) == (CHOOSE f : IsSum(f, w, S))[S]

LEMMA SumTookIsSum == ASSUME NEW S PROVE SumTook(S) = Sum(took, S)
  BY DEF SumTook, MapThenSumSet, MapThenFoldSet, Sum, IsSum, Pick

LEMMA PickIn == ASSUME NEW s, s # {} PROVE Pick(s) \in s
  BY DEF Pick

LEMMA Smaller ==
  ASSUME NEW S, IsFiniteSet(S), NEW s \in SUBSET S, NEW x \in s
  PROVE  /\ s \ {x} \in SUBSET S /\ Cardinality(s) \in Nat \ {0}
         /\ Cardinality(s \ {x}) = Cardinality(s) - 1
         /\ Cardinality(s \ {x}) < Cardinality(s)
<1>1. IsFiniteSet(s) /\ IsFiniteSet(s \ {x})
  BY FS_Subset, FS_RemoveElement
<1>2. Cardinality(s) \in Nat /\ Cardinality(s \ {x}) \in Nat /\ Cardinality(s \ {x}) = Cardinality(s) - 1
  BY <1>1, FS_CardinalityType, FS_RemoveElement
<1> QED
  BY <1>2

\* The recursion of the fold has a solution on a finite set: it is built up by
\* the size of the subsets.
LEMMA SumExists ==
  ASSUME NEW S, IsFiniteSet(S), NEW w, \A x \in S : w[x] \in Nat
  PROVE  \E f \in [SUBSET S -> Nat] : IsSum(f, w, S)
<1> DEFINE Upto(n) == {s \in SUBSET S : Cardinality(s) <= n}
           Solves(f, n) == \A s \in Upto(n) :
                             f[s] = IF s = {} THEN 0 ELSE w[Pick(s)] + f[s \ {Pick(s)}]
           Bad == {n \in Nat : ~\E f \in [Upto(n) -> Nat] : Solves(f, n)}
<1>1. \A s \in SUBSET S : Cardinality(s) \in Nat /\ (Cardinality(s) = 0 <=> s = {})
  BY FS_Subset, FS_CardinalityType, FS_EmptySet
<1>2. \A s \in SUBSET S : s # {} => /\ Pick(s) \in s /\ w[Pick(s)] \in Nat
                                    /\ s \ {Pick(s)} \in SUBSET S
                                    /\ Cardinality(s \ {Pick(s)}) = Cardinality(s) - 1
  BY PickIn, Smaller
<1>3. Bad = {}
  <2> SUFFICES ASSUME Bad # {} PROVE FALSE
    OBVIOUS
  <2>1. PICK n \in Bad : \A m \in Bad : n <= m
    <3>1. Bad \in SUBSET Nat
      OBVIOUS
    <3> HIDE DEF Bad
    <3> QED
      BY <3>1, LeastNat
  <2>2. n \in Nat /\ ~\E f \in [Upto(n) -> Nat] : Solves(f, n)
    OBVIOUS
  <2>3. CASE n = 0
    <3> DEFINE f == [s \in Upto(0) |-> 0]
    <3>1. \A s \in Upto(0) : s = {}
      BY <1>1
    <3>2. f \in [Upto(n) -> Nat] /\ Solves(f, n)
      BY <2>3, <3>1
    <3> QED
      BY <2>2, <3>2
  <2>4. CASE n # 0
    <3>1. n - 1 \in Nat /\ ~(n <= n - 1)
      BY <2>2, <2>4
    <3>2. PICK g \in [Upto(n - 1) -> Nat] : Solves(g, n - 1)
      BY <2>1, <3>1
    <3> DEFINE f == [s \in Upto(n) |-> IF s \in Upto(n - 1) THEN g[s]
                                       ELSE w[Pick(s)] + g[s \ {Pick(s)}]]
    <3>3. \A s \in Upto(n) : s # {} => s \ {Pick(s)} \in Upto(n - 1) /\ s \ {Pick(s)} \in Upto(n)
      BY <1>1, <1>2, <2>2
    <3>4. \A s \in Upto(n) : s = {} => s \in Upto(n - 1)
      BY <1>1, <3>1
    <3>5. \A s \in Upto(n - 1) : g[s] \in Nat
      OBVIOUS
    <3> HIDE DEF Upto
    <3>6. f \in [Upto(n) -> Nat]
      <4>1. ASSUME NEW s \in Upto(n) PROVE f[s] \in Nat
        <5>1. s \in SUBSET S
          BY DEF Upto
        <5>2. CASE s \in Upto(n - 1)
          BY <3>5, <5>2
        <5>3. CASE s \notin Upto(n - 1)
          <6>1. s # {} /\ w[Pick(s)] \in Nat /\ g[s \ {Pick(s)}] \in Nat
            BY <1>2, <3>3, <3>4, <3>5, <5>1, <5>3
          <6>2. f[s] = w[Pick(s)] + g[s \ {Pick(s)}]
            BY <5>3
          <6> QED
            BY <6>1, <6>2
        <5> QED
          BY <5>2, <5>3
      <4> QED
        BY <4>1
    <3>7. Solves(f, n)
      <4> SUFFICES ASSUME NEW s \in Upto(n)
                   PROVE  f[s] = IF s = {} THEN 0 ELSE w[Pick(s)] + f[s \ {Pick(s)}]
        OBVIOUS
      <4>1. CASE s = {}
        BY <3>2, <3>4, <4>1
      <4>2. CASE s # {}
        <5>1. f[s \ {Pick(s)}] = g[s \ {Pick(s)}]
          BY <3>3, <4>2
        <5>2. s \in Upto(n - 1) => f[s] = w[Pick(s)] + g[s \ {Pick(s)}]
          BY <3>2, <4>2
        <5>3. s \notin Upto(n - 1) => f[s] = w[Pick(s)] + g[s \ {Pick(s)}]
          OBVIOUS
        <5> QED
          BY <4>2, <5>1, <5>2, <5>3
      <4> QED
        BY <4>1, <4>2
    <3> QED
      BY <2>2, <3>6, <3>7
  <2> QED
    BY <2>3, <2>4
<1>4. Cardinality(S) \in Nat /\ Upto(Cardinality(S)) = SUBSET S
  <2>1. \A s \in SUBSET S : Cardinality(s) <= Cardinality(S)
    BY FS_Subset
  <2> QED
    BY <1>1, <2>1
<1>5. PICK f \in [Upto(Cardinality(S)) -> Nat] : Solves(f, Cardinality(S))
  BY <1>3, <1>4
<1>6. f \in [SUBSET S -> Nat]
  BY <1>4, <1>5
<1>7. \A s \in SUBSET S : f[s] = IF s = {} THEN 0 ELSE w[Pick(s)] + f[s \ {Pick(s)}]
  BY <1>4, <1>5
<1>8. IsSum(f, w, S)
  BY <1>6, <1>7 DEF IsSum
<1> QED
  BY <1>6, <1>8

\* Two folds agree on a set where their weights do.
LEMMA SumsAgree ==
  ASSUME NEW S, NEW T \in SUBSET S, IsFiniteSet(T), NEW w, NEW u, \A x \in T : w[x] = u[x],
         NEW f, IsSum(f, w, S), NEW g, IsSum(g, u, T)
  PROVE  \A s \in SUBSET T : f[s] = g[s]
<1> DEFINE G == {s \in SUBSET T : f[s] = g[s]}
<1>1. /\ \A s \in SUBSET T : f[s] = IF s = {} THEN 0 ELSE w[Pick(s)] + f[s \ {Pick(s)}]
      /\ \A s \in SUBSET T : g[s] = IF s = {} THEN 0 ELSE u[Pick(s)] + g[s \ {Pick(s)}]
  <2>1. \A s \in SUBSET T : s \in SUBSET S
    OBVIOUS
  <2>2. f = [s \in SUBSET S |-> IF s = {} THEN 0 ELSE w[Pick(s)] + f[s \ {Pick(s)}]]
    BY DEF IsSum
  <2>3. g = [s \in SUBSET T |-> IF s = {} THEN 0 ELSE u[Pick(s)] + g[s \ {Pick(s)}]]
    BY DEF IsSum
  <2>4. \A s \in SUBSET S : f[s] = IF s = {} THEN 0 ELSE w[Pick(s)] + f[s \ {Pick(s)}]
    BY <2>2, Zenon
  <2>5. \A s \in SUBSET T : g[s] = IF s = {} THEN 0 ELSE u[Pick(s)] + g[s \ {Pick(s)}]
    BY <2>3, Zenon
  <2> QED
    BY <2>1, <2>4, <2>5
<1>2. ASSUME NEW s \in SUBSET T,
             \A t \in SUBSET T : Cardinality(t) < Cardinality(s) => t \in G
      PROVE  s \in G
  <2>1. CASE s = {}
    BY <1>1, <2>1
  <2>2. CASE s # {}
    <3>1. Pick(s) \in s /\ Pick(s) \in T /\ s \ {Pick(s)} \in SUBSET T
          /\ Cardinality(s \ {Pick(s)}) < Cardinality(s)
      BY <2>2, PickIn, Smaller
    <3>2. f[s \ {Pick(s)}] = g[s \ {Pick(s)}] /\ w[Pick(s)] = u[Pick(s)]
      BY <1>2, <3>1
    <3> QED
      BY <1>1, <2>2, <3>2
  <2> QED
    BY <2>1, <2>2
<1>3. \A s \in SUBSET T : s \in G
  <2> HIDE DEF G
  <2> QED
    BY <1>2, SubsetInduction
<1> QED
  BY <1>3

\* Any member can be taken out of the sum, not only the one the fold picks.
LEMMA SumAnyOrder ==
  ASSUME NEW S, IsFiniteSet(S), NEW w, \A x \in S : w[x] \in Nat,
         NEW f \in [SUBSET S -> Nat], IsSum(f, w, S), NEW y \in S
  PROVE  f[S] = w[y] + f[S \ {y}]
<1> DEFINE G == {s \in SUBSET S : \A x \in s : f[s] = w[x] + f[s \ {x}]}
<1>1. \A s \in SUBSET S : s # {} => f[s] = w[Pick(s)] + f[s \ {Pick(s)}]
  <2>1. f = [s \in SUBSET S |-> IF s = {} THEN 0 ELSE w[Pick(s)] + f[s \ {Pick(s)}]]
    BY DEF IsSum
  <2>2. \A s \in SUBSET S : f[s] = IF s = {} THEN 0 ELSE w[Pick(s)] + f[s \ {Pick(s)}]
    BY <2>1, Zenon
  <2> QED
    BY <2>2
<1>2. ASSUME NEW s \in SUBSET S,
             \A t \in SUBSET S : Cardinality(t) < Cardinality(s) => t \in G
      PROVE  s \in G
  <2> SUFFICES ASSUME NEW x \in s PROVE f[s] = w[x] + f[s \ {x}]
    OBVIOUS
  <2> DEFINE p == Pick(s)
  <2>1. p \in s /\ f[s] = w[p] + f[s \ {p}]
    BY <1>1, PickIn
  <2> HIDE DEF p
  <2>2. CASE x = p
    BY <2>1, <2>2
  <2>3. CASE x # p
    <3>1. /\ s \ {x} \in SUBSET S /\ Cardinality(s \ {x}) < Cardinality(s)
          /\ s \ {p} \in SUBSET S /\ Cardinality(s \ {p}) < Cardinality(s)
      BY <2>1, Smaller
    <3>2. s \ {x} \in G /\ s \ {p} \in G
      BY <1>2, <3>1
    <3>3. p \in s \ {x} /\ x \in s \ {p} /\ (s \ {x}) \ {p} = (s \ {p}) \ {x}
      BY <2>1, <2>3
    <3>4. f[s \ {x}] = w[p] + f[(s \ {x}) \ {p}] /\ f[s \ {p}] = w[x] + f[(s \ {p}) \ {x}]
      BY <3>2, <3>3
    <3>5. w[x] \in Nat /\ w[p] \in Nat /\ f[(s \ {p}) \ {x}] \in Nat
      <4>1. (s \ {p}) \ {x} \in SUBSET S
        OBVIOUS
      <4> QED
        BY <2>1, <4>1
    <3> DEFINE z == (s \ {p}) \ {x}
    <3>6. f[s \ {x}] = w[p] + f[z] /\ f[s \ {p}] = w[x] + f[z] /\ f[z] \in Nat
      BY <3>3, <3>4, <3>5, Zenon
    <3> HIDE DEF z
    <3>7. f[s] = w[p] + (w[x] + f[z])
      BY <2>1, <3>6, Zenon
    <3>8. w[p] + (w[x] + f[z]) = w[x] + (w[p] + f[z])
      BY <3>5, <3>6
    <3> QED
      BY <3>6, <3>7, <3>8, Zenon
  <2> QED
    BY <2>2, <2>3
<1>3. \A s \in SUBSET S : s \in G
  <2> HIDE DEF G
  <2> QED
    BY <1>2, SubsetInduction
<1> QED
  BY <1>3

\* What is known of the library's fold.
Folds(f, w, S) ==
  /\ f \in [SUBSET S -> Nat] /\ IsSum(f, w, S) /\ Sum(w, S) = f[S]
  /\ \A y \in S : f[S] = w[y] + f[S \ {y}]

\* The fold of the library over a finite set of natural weights.
LEMMA SumFold ==
  ASSUME NEW S, IsFiniteSet(S), NEW w, \A x \in S : w[x] \in Nat
  PROVE  \E f : Folds(f, w, S)
<1>1. PICK f \in [SUBSET S -> Nat] : IsSum(f, w, S)
  BY SumExists
<1>5. \A y \in S : f[S] = w[y] + f[S \ {y}]
  BY <1>1, SumAnyOrder
<1> DEFINE g == CHOOSE h : IsSum(h, w, S)
<1>2. IsSum(g, w, S)
  BY <1>1
<1>3. Sum(w, S) = g[S]
  BY DEF Sum
<1> HIDE DEF g
<1>4. f[S] = g[S]
  BY <1>1, <1>2, SumsAgree
<1> QED
  BY <1>1, <1>3, <1>4, <1>5 DEF Folds

LEMMA SumEmpty == ASSUME NEW w PROVE Sum(w, {}) = 0
<1>1. PICK f : Folds(f, w, {})
  BY FS_EmptySet, SumFold
<1>2. Sum(w, {}) = f[{}] /\ f = [s \in SUBSET {} |-> IF s = {} THEN 0 ELSE w[Pick(s)] + f[s \ {Pick(s)}]]
  BY <1>1 DEF Folds, IsSum
<1>3. f[{}] = 0
  BY <1>2
<1> QED
  BY <1>2, <1>3

LEMMA SumSame ==
  ASSUME NEW S, IsFiniteSet(S), NEW w, \A x \in S : w[x] \in Nat,
         NEW u, \A x \in S : u[x] = w[x]
  PROVE  Sum(u, S) = Sum(w, S) /\ Sum(w, S) \in Nat
<1>1. PICK f : Folds(f, w, S)
  BY SumFold
<1>2. PICK g : Folds(g, u, S)
  <2>1. \A x \in S : u[x] \in Nat
    OBVIOUS
  <2> QED
    BY <2>1, SumFold
<1>3. IsSum(f, w, S) /\ IsSum(g, u, S) /\ Sum(w, S) = f[S] /\ Sum(u, S) = g[S] /\ f[S] \in Nat
  BY <1>1, <1>2 DEF Folds
<1>4. f[S] = g[S]
  BY <1>3, SumsAgree
<1> QED
  BY <1>3, <1>4

LEMMA SumAdd ==
  ASSUME NEW S, IsFiniteSet(S), NEW w, \A x \in S : w[x] \in Nat,
         NEW y, y \notin S, NEW u, \A x \in S : u[x] = w[x], u[y] \in Nat
  PROVE  Sum(u, S \cup {y}) = Sum(w, S) + u[y]
<1> DEFINE T == S \cup {y}
<1>1. IsFiniteSet(T) /\ S \in SUBSET T /\ T \ {y} = S /\ y \in T
  BY FS_AddElement
<1>2. \A x \in T : u[x] \in Nat
  OBVIOUS
<1> HIDE DEF T
<1>3. PICK f : Folds(f, u, T)
  BY <1>1, <1>2, SumFold
<1>4. PICK g : Folds(g, w, S)
  BY SumFold
<1>9. IsSum(f, u, T) /\ IsSum(g, w, S) /\ Sum(u, T) = f[T] /\ Sum(w, S) = g[S]
  BY <1>3, <1>4 DEF Folds
<1>5. f[S] = g[S]
  BY <1>1, <1>9, SumsAgree
<1>6. f[T] = u[y] + f[T \ {y}]
  BY <1>1, <1>3 DEF Folds
<1>7. f[S] \in Nat /\ u[y] \in Nat
  BY <1>1, <1>3 DEF Folds
<1>8. Sum(u, T) = Sum(w, S) + u[y]
  <2>1. f[T \ {y}] = f[S]
    BY <1>1, Zenon
  <2>2. f[T] = u[y] + f[S]
    BY <1>6, <2>1, Zenon
  <2>3. u[y] + f[S] = f[S] + u[y]
    BY <1>7
  <2> QED
    BY <1>5, <1>9, <2>2, <2>3, Zenon
<1> QED
  BY <1>8 DEF T

-----------------------------------------------------------------------------
(* Types *)

LEMMA SeriesFields ==
  ASSUME NEW f \in [1..Inf -> Nat], NEW c \in Nat, NEW t \in Nat
  PROVE  [buckets |-> f, count |-> c, sum |-> t] \in Series
  BY DEF Series

LEMMA ObserveType ==
  ASSUME NEW s \in Series, NEW d \in Durations
  PROVE  /\ Observe(s, d) \in Series /\ Grown(s, Observe(s, d))
         /\ Observe(s, d).count = s.count + 1 /\ Observe(s, d).sum = s.sum + d
         /\ \A i \in 1..Inf : Observe(s, d).buckets[i] =
                                IF i \in {d, Inf} THEN s.buckets[i] + 1 ELSE s.buckets[i]
<1>1. d \in Nat /\ s.count \in Nat /\ s.sum \in Nat /\ s.buckets \in [1..Inf -> Nat]
  BY DEF Series, Durations
<1>2. \A i \in 1..Inf : s.buckets[i] \in Nat
  BY <1>1
<1>3. /\ Observe(s, d).count = s.count + 1 /\ Observe(s, d).sum = s.sum + d
      /\ \A i \in 1..Inf : Observe(s, d).buckets[i] =
                             IF i \in {d, Inf} THEN s.buckets[i] + 1 ELSE s.buckets[i]
  BY DEF Observe
<1>4. Observe(s, d) \in Series
  <2>1. [i \in 1..Inf |-> IF i \in {d, Inf} THEN s.buckets[i] + 1 ELSE s.buckets[i]]
          \in [1..Inf -> Nat]
    <3>1. \A i \in 1..Inf : (IF i \in {d, Inf} THEN s.buckets[i] + 1 ELSE s.buckets[i]) \in Nat
      BY <1>2
    <3> QED
      BY <3>1
  <2>2. s.count + 1 \in Nat /\ s.sum + d \in Nat
    BY <1>1, <1>2
  <2> QED
    BY <2>1, <2>2, SeriesFields DEF Observe
<1>5. Grown(s, Observe(s, d))
  BY <1>1, <1>2, <1>3 DEF Grown
<1> QED
  BY <1>3, <1>4, <1>5

LEMMA EmptyType == EmptySeries \in Series
<1>1. [i \in 1..Inf |-> 0] \in [1..Inf -> Nat]
  OBVIOUS
<1>2. 0 \in Nat
  OBVIOUS
<1> QED
  BY <1>1, <1>2, SeriesFields DEF EmptySeries

LEMMA SeriesOfType ==
  ASSUME TypeOK, NEW k
  PROVE  SeriesOf(k) \in Series
  BY EmptyType DEF TypeOK, SeriesOf

\* What Finish does to the series: one has a sample more, the others are kept.
LEMMA PutSeriesFacts ==
  ASSUME NEW k, NEW s, PutSeries(k, s)
  PROVE  /\ DOMAIN byRoute' = DOMAIN byRoute \cup {k}
         /\ byRoute'[k] = s
         /\ \A j \in DOMAIN byRoute : j # k => byRoute'[j] = byRoute[j]
  BY DEF PutSeries

LEMMA TypeInit == Init => TypeOK
  BY MetricsAssumption DEF Init, TypeOK, Labels, Exposition, Keys

LEMMA TypeStep ==
  ASSUME TypeOK, GaugeConserved, IsFiniteSet(Busy), [Next]_vars
  PROVE  TypeOK'
<1>1. CASE UNCHANGED vars
  BY <1>1 DEF TypeOK, vars, reqVars
<1>2. ASSUME NEW r \in Requests, NEW label \in Labels, Enter(r, label)
      PROVE  TypeOK'
  BY <1>2 DEF TypeOK, Enter
<1>3. ASSUME NEW r \in Requests, NEW code \in Codes, WriteHeader(r, code)
      PROVE  TypeOK'
  <2>1. Sent(r, code) \in Codes \cup {0, OK, Unauthorized}
    BY DEF Sent, TypeOK
  <2>2. /\ writes' \in [Requests -> Nat] /\ status' \in [Requests -> Codes \cup {OK, Unauthorized}]
        /\ wrote' \in [Requests -> BOOLEAN] /\ wire' \in [Requests -> Codes \cup {0, OK, Unauthorized}]
    BY <1>3, <2>1 DEF WriteHeader, TypeOK
  <2>3. stray' \in [Requests -> Codes \cup {0}]
    BY <1>3 DEF WriteHeader, Strays, TypeOK
  <2> QED
    BY <1>3, <2>2, <2>3 DEF WriteHeader, TypeOK
<1>4. ASSUME NEW r \in Requests, Write(r) \/ Return(r) \/ Refuse(r) \/ Panic(r)
      PROVE  TypeOK'
  <2>1. Sent(r, OK) \in Codes \cup {0, OK, Unauthorized}
    BY DEF Sent, TypeOK
  <2>2. CASE Return(r)
    BY <2>1, <2>2 DEF Return, TypeOK
  <2>3. CASE Refuse(r)
    BY <2>3 DEF Refuse, TypeOK
  <2>4. CASE Panic(r)
    BY <2>4 DEF Panic, TypeOK
  <2>5. CASE Write(r)
    BY <2>5 DEF Write, TypeOK
  <2> QED
    BY <1>4, <2>2, <2>3, <2>4, <2>5
<1>5. ASSUME NEW r \in Requests, Scrape(r)
      PROVE  TypeOK'
  <2>1. /\ pc' \in [Requests -> {"idle", "serving", "returned", "done", "panicked"}]
        /\ wire' \in [Requests -> Codes \cup {0, OK, Unauthorized}]
    BY <1>5 DEF Scrape, TypeOK
  <2>2. scraped'.series = byRoute /\ byRoute' = byRoute
    BY <1>5 DEF Scrape, Exposition
  <2> QED
    BY <1>5, <2>1, <2>2 DEF Scrape, TypeOK
<1>6. ASSUME NEW r \in Requests, NEW d \in Durations, Finish(r, d)
      PROVE  TypeOK'
  <2> DEFINE key == <<route[r], status[r]>>
  <2>1. key \in Keys
    BY DEF TypeOK, Keys
  <2>2. SeriesOf(key) \in Series
    BY SeriesOfType
  <2>3. Observe(SeriesOf(key), d) \in Series
    BY <2>2, ObserveType
  <2>4. PutSeries(key, Observe(SeriesOf(key), d))
    BY <1>6 DEF Finish
  <2> HIDE DEF key
  <2>5. /\ DOMAIN byRoute' = DOMAIN byRoute \cup {key}
        /\ byRoute'[key] = Observe(SeriesOf(key), d)
        /\ \A j \in DOMAIN byRoute : j # key => byRoute'[j] = byRoute[j]
    BY <2>4, PutSeriesFacts
  <2>6. DOMAIN byRoute' \subseteq Keys /\ \A k \in DOMAIN byRoute' : byRoute'[k] \in Series
    BY <2>1, <2>3, <2>5 DEF TypeOK
  <2>7. scraped' = scraped /\ DOMAIN scraped.series \subseteq DOMAIN byRoute'
    BY <1>6, <2>5 DEF Finish, TypeOK
  <2>8. inFlight' \in Nat
    <3>1. r \in Serving /\ Serving \in SUBSET Busy /\ Panicked \in SUBSET Busy
      BY <1>6 DEF Finish, Serving, Busy, Panicked
    <3>2. IsFiniteSet(Serving) /\ IsFiniteSet(Panicked)
      BY <3>1, FS_Subset
    <3>3. /\ Cardinality(Serving) \in Nat /\ Cardinality(Panicked) \in Nat
          /\ Cardinality(Serving) # 0
      BY <3>1, <3>2, FS_CardinalityType, FS_EmptySet
    <3>4. inFlight = Cardinality(Serving) + Cardinality(Panicked)
      BY DEF GaugeConserved, Panicked
    <3>5. inFlight' = inFlight - 1
      BY <1>6 DEF Finish
    <3> QED
      BY <3>3, <3>4, <3>5
  <2>9. /\ pc' \in [Requests -> {"idle", "serving", "returned", "done", "panicked"}]
        /\ took' \in [Requests -> Durations \cup {0}]
    BY <1>6 DEF Finish, TypeOK
  <2> QED
    BY <1>6, <2>6, <2>7, <2>8, <2>9 DEF Finish, TypeOK
<1> QED
  BY <1>1, <1>2, <1>3, <1>4, <1>5, <1>6 DEF Next

-----------------------------------------------------------------------------
(* The gauge *)

LEMMA GaugeStep ==
  ASSUME TypeOK, GaugeConserved, IsFiniteSet(Busy), [Next]_vars
  PROVE  GaugeConserved' /\ IsFiniteSet(Busy)'
<1>1. /\ inFlight = Cardinality(Serving) + Cardinality(Panicked)
      /\ GaugeConserved' <=> inFlight' = Cardinality(Serving') + Cardinality(Panicked')
  BY DEF GaugeConserved, Panicked
<1>2. Serving \in SUBSET Busy /\ Panicked \in SUBSET Busy
  BY DEF Serving, Busy, Panicked
<1>3. /\ IsFiniteSet(Serving) /\ IsFiniteSet(Panicked)
      /\ Cardinality(Serving) \in Nat /\ Cardinality(Panicked) \in Nat
  BY <1>2, FS_Subset, FS_CardinalityType
<1>4. CASE UNCHANGED <<pc, inFlight>>
  BY <1>1, <1>4 DEF Serving, Busy, Panicked
<1>5. ASSUME NEW r \in Requests, NEW label \in Labels, Enter(r, label)
      PROVE  GaugeConserved' /\ IsFiniteSet(Busy)'
  <2>1. /\ Serving' = Serving \cup {r} /\ Panicked' = Panicked /\ Busy' = Busy \cup {r}
        /\ r \notin Serving /\ inFlight' = inFlight + 1
    BY <1>5 DEF Enter, Serving, Panicked, Busy, TypeOK
  <2>2. Cardinality(Serving') = Cardinality(Serving) + 1 /\ IsFiniteSet(Busy')
    BY <1>3, <2>1, FS_AddElement
  <2> QED
    BY <1>1, <1>3, <2>1, <2>2
<1>6. ASSUME NEW r \in Requests, Return(r) \/ Refuse(r) \/ Scrape(r)
      PROVE  GaugeConserved' /\ IsFiniteSet(Busy)'
  <2>1. Serving' = Serving /\ Panicked' = Panicked /\ Busy' = Busy /\ inFlight' = inFlight
    BY <1>6 DEF Return, Refuse, Scrape, Serving, Panicked, Busy, TypeOK
  <2> QED
    BY <1>1, <2>1
<1>7. ASSUME NEW r \in Requests, Panic(r)
      PROVE  GaugeConserved' /\ IsFiniteSet(Busy)'
  <2>1. /\ Serving' = Serving \ {r} /\ Panicked' = Panicked \cup {r} /\ Busy' = Busy
        /\ r \in Serving /\ r \notin Panicked /\ inFlight' = inFlight
    BY <1>7 DEF Panic, Serving, Panicked, Busy, TypeOK
  <2>2. /\ Cardinality(Serving') = Cardinality(Serving) - 1
        /\ Cardinality(Panicked') = Cardinality(Panicked) + 1
    BY <1>3, <2>1, FS_AddElement, FS_RemoveElement
  <2> QED
    BY <1>1, <1>3, <2>1, <2>2
<1>8. ASSUME NEW r \in Requests, NEW d \in Durations, Finish(r, d)
      PROVE  GaugeConserved' /\ IsFiniteSet(Busy)'
  <2>1. /\ Serving' = Serving \ {r} /\ Panicked' = Panicked /\ Busy' = Busy
        /\ r \in Serving /\ inFlight' = inFlight - 1
    BY <1>8 DEF Finish, Serving, Panicked, Busy, TypeOK
  <2>2. Cardinality(Serving') = Cardinality(Serving) - 1
    BY <1>3, <2>1, FS_RemoveElement
  <2> QED
    BY <1>1, <1>3, <2>1, <2>2
<1> QED
  BY <1>4, <1>5, <1>6, <1>7, <1>8 DEF Next, vars, reqVars, WriteHeader, Write

-----------------------------------------------------------------------------
(* Scrapes *)

LEMMA GrownMore ==
  ASSUME NEW a \in Series, NEW b \in Series, NEW c \in Series, Grown(a, b), Grown(b, c)
  PROVE  Grown(a, c)
<1>1. /\ a.count \in Nat /\ a.sum \in Nat /\ b.count \in Nat /\ b.sum \in Nat
      /\ c.count \in Nat /\ c.sum \in Nat
      /\ \A i \in 1..Inf : a.buckets[i] \in Nat /\ b.buckets[i] \in Nat /\ c.buckets[i] \in Nat
  BY DEF Series
<1> QED
  BY <1>1 DEF Grown

LEMMA GrownSelf == ASSUME NEW a \in Series PROVE Grown(a, a)
<1>1. a.count \in Nat /\ a.sum \in Nat /\ \A i \in 1..Inf : a.buckets[i] \in Nat
  BY DEF Series
<1> QED
  BY <1>1 DEF Grown

\* A step keeps the lag, and replaces the exposition by a later one only.
LEMMA ScrapeStep ==
  ASSUME TypeOK, ScrapeBehind, [Next]_vars
  PROVE  /\ ScrapeBehind'
         /\ \A k \in DOMAIN scraped.series :
              k \in DOMAIN scraped'.series /\ Grown(scraped.series[k], scraped'.series[k])
<1>1. \A k \in DOMAIN scraped.series : /\ scraped.series[k] \in Series
                                       /\ Grown(scraped.series[k], scraped.series[k])
  BY GrownSelf DEF ScrapeBehind
<1>2. CASE UNCHANGED <<byRoute, scraped>>
  BY <1>1, <1>2 DEF ScrapeBehind
<1>3. ASSUME NEW r \in Requests, Scrape(r)
      PROVE  /\ ScrapeBehind'
             /\ \A k \in DOMAIN scraped.series :
                  k \in DOMAIN scraped'.series /\ Grown(scraped.series[k], scraped'.series[k])
  <2>1. scraped'.series = byRoute /\ byRoute' = byRoute
    BY <1>3 DEF Scrape, Exposition
  <2>2. \A k \in DOMAIN byRoute : byRoute[k] \in Series /\ Grown(byRoute[k], byRoute[k])
    BY GrownSelf DEF TypeOK
  <2> QED
    BY <2>1, <2>2 DEF ScrapeBehind
<1>4. ASSUME NEW r \in Requests, NEW d \in Durations, Finish(r, d)
      PROVE  ScrapeBehind' /\ scraped' = scraped
  <2> DEFINE key == <<route[r], status[r]>>
             s == SeriesOf(key)
  <2>1. PutSeries(key, Observe(s, d)) /\ scraped' = scraped
    BY <1>4 DEF Finish
  <2>2. s \in Series
    BY SeriesOfType
  <2>3. key \in DOMAIN byRoute => s = byRoute[key]
    BY DEF SeriesOf
  <2> HIDE DEF key, s
  <2>4. Observe(s, d) \in Series /\ Grown(s, Observe(s, d))
    BY <2>2, ObserveType
  <2>5. /\ DOMAIN byRoute' = DOMAIN byRoute \cup {key}
        /\ byRoute'[key] = Observe(s, d)
        /\ \A j \in DOMAIN byRoute : j # key => byRoute'[j] = byRoute[j]
    BY <2>1, PutSeriesFacts
  <2>6. ASSUME NEW k \in DOMAIN scraped.series
        PROVE  k \in DOMAIN byRoute' /\ Grown(scraped.series[k], byRoute'[k])
    <3>1. k \in DOMAIN byRoute /\ scraped.series[k] \in Series /\ Grown(scraped.series[k], byRoute[k])
      BY DEF ScrapeBehind
    <3>2. CASE k = key
      BY <2>2, <2>3, <2>4, <2>5, <3>1, <3>2, GrownMore
    <3>3. CASE k # key
      BY <2>5, <3>1, <3>3
    <3> QED
      BY <3>2, <3>3
  <2> QED
    BY <1>1, <2>1, <2>6 DEF ScrapeBehind
<1> QED
  BY <1>1, <1>2, <1>3, <1>4
     DEF Next, vars, reqVars, Enter, WriteHeader, Write, Return, Refuse, Panic

-----------------------------------------------------------------------------
(* Samples *)

LEMMA CountedSum ==
  ASSUME NEW k
  PROVE  /\ SumTook(Counted(k)) = Sum(took, Counted(k))
         /\ SumTook(Counted(k))' = Sum(took', Counted(k)')
<1>1. SumTook(Counted(k)) = Sum(took, Counted(k))
  BY SumTookIsSum
<1>2. SumTook(Counted(k))' = Sum(took', Counted(k)')
  BY DEF SumTook, MapThenSumSet, MapThenFoldSet, Sum, IsSum, Pick
<1> QED
  BY <1>1, <1>2

LEMMA RecordedStep ==
  ASSUME TypeOK, Recorded, [Next]_vars
  PROVE  Recorded'
<1>1. 0 \notin Codes /\ OK # 0 /\ Unauthorized # 0
  BY MetricsAssumption DEF OK, Unauthorized
<1>2. CASE UNCHANGED vars
  BY <1>2 DEF Recorded, Told, Uncommitted, vars, reqVars
<1>3. ASSUME NEW r \in Requests, NEW label \in Labels, Enter(r, label)
      PROVE  Recorded'
  BY <1>3 DEF Recorded, Told, Uncommitted, Enter, TypeOK
<1>4. ASSUME NEW r \in Requests, NEW code \in Codes, WriteHeader(r, code)
      PROVE  Recorded'
  <2>1. /\ pc[r] = "serving" /\ route[r] # "metrics" /\ pc' = pc /\ route' = route /\ took' = took
        /\ wrote'[r] = TRUE /\ wire'[r] = Sent(r, code)
        /\ status'[r] = IF wrote[r] THEN status[r] ELSE code
        /\ stray'[r] = IF ~wrote[r] /\ (code \in Informational \/ ~Uncommitted(r)) THEN code ELSE stray[r]
        /\ \A x \in Requests : x # r => /\ wrote'[x] = wrote[x] /\ wire'[x] = wire[x]
                                        /\ status'[x] = status[x] /\ stray'[x] = stray[x]
    BY <1>4 DEF WriteHeader, Strays, TypeOK
  <2>2. Told(r)
    BY <2>1 DEF Recorded
  <2>3. Told(r)'
    <3>1. CASE wrote[r]
      BY <1>1, <2>1, <2>2, <3>1 DEF Told, Sent, Uncommitted
    <3>2. CASE ~wrote[r] /\ (code \in Informational \/ ~Uncommitted(r))
      BY <1>1, <2>1, <3>2 DEF Told
    <3>3. CASE ~wrote[r] /\ code \notin Informational /\ Uncommitted(r)
      <4>1. wire'[r] = code /\ status'[r] = code /\ stray'[r] = 0
        BY <2>1, <2>2, <3>3 DEF Told, Sent
      <4> QED
        BY <1>1, <2>1, <3>3, <4>1 DEF Told, Uncommitted
    <3> QED
      BY <3>1, <3>2, <3>3
  <2>4. \A x \in Requests : x # r => (Told(x)' <=> Told(x))
    BY <2>1 DEF Told, Uncommitted
  <2> QED
    BY <2>1, <2>3, <2>4 DEF Recorded
<1>5. ASSUME NEW r \in Requests, Write(r)
      PROVE  Recorded'
  <2>1. /\ pc[r] = "serving" /\ route[r] # "metrics" /\ pc' = pc /\ route' = route /\ took' = took
        /\ Uncommitted(r) /\ wire'[r] = OK /\ status' = status /\ wrote' = wrote /\ stray' = stray
        /\ \A x \in Requests : x # r => wire'[x] = wire[x]
    BY <1>5 DEF Write, TypeOK
  <2>2. Told(r)
    BY <2>1 DEF Recorded
  <2>3. Told(r)'
    BY <2>1, <2>2 DEF Told
  <2>4. \A x \in Requests : x # r => (Told(x)' <=> Told(x))
    BY <2>1 DEF Told, Uncommitted
  <2> QED
    BY <2>1, <2>3, <2>4 DEF Recorded
<1>6. ASSUME NEW r \in Requests, Return(r)
      PROVE  Recorded'
  <2>1. /\ pc[r] = "serving" /\ pc'[r] = "returned" /\ wire'[r] = Sent(r, OK) /\ status' = status
        /\ wrote' = wrote /\ route' = route /\ took' = took /\ stray' = stray
        /\ \A x \in Requests : x # r => pc'[x] = pc[x] /\ wire'[x] = wire[x]
    BY <1>6 DEF Return, TypeOK
  <2>2. Told(r)
    BY <2>1 DEF Recorded
  <2>3. status'[r] = IF stray'[r] = 0 THEN wire'[r] ELSE stray'[r]
    BY <2>1, <2>2 DEF Told, Sent, Uncommitted
  <2>4. \A x \in Requests : x # r => (Told(x)' <=> Told(x))
    BY <2>1 DEF Told, Uncommitted
  <2> QED
    BY <2>1, <2>3, <2>4 DEF Recorded
<1>7. ASSUME NEW r \in Requests, Refuse(r)
      PROVE  Recorded'
  <2>1. /\ pc[r] = "serving" /\ route[r] = "metrics" /\ pc'[r] = "returned"
        /\ wire'[r] = Unauthorized /\ status'[r] = Unauthorized
        /\ route' = route /\ took' = took /\ stray' = stray
        /\ \A x \in Requests : x # r => /\ pc'[x] = pc[x] /\ wire'[x] = wire[x]
                                        /\ status'[x] = status[x] /\ wrote'[x] = wrote[x]
    BY <1>7 DEF Refuse, TypeOK
  <2>2. stray[r] = 0
    BY <2>1 DEF Recorded, Told
  <2>3. \A x \in Requests : x # r => (Told(x)' <=> Told(x))
    BY <2>1 DEF Told, Uncommitted
  <2> QED
    BY <2>1, <2>2, <2>3 DEF Recorded
<1>8. ASSUME NEW r \in Requests, Scrape(r)
      PROVE  Recorded'
  <2>1. /\ pc[r] = "serving" /\ route[r] = "metrics" /\ pc'[r] = "returned" /\ wire'[r] = OK /\ status' = status
        /\ wrote' = wrote /\ route' = route /\ took' = took /\ stray' = stray
        /\ \A x \in Requests : x # r => pc'[x] = pc[x] /\ wire'[x] = wire[x]
    BY <1>8 DEF Scrape, TypeOK
  <2>2. stray[r] = 0 /\ status[r] = OK
    BY <2>1 DEF Recorded, Told
  <2>3. \A x \in Requests : x # r => (Told(x)' <=> Told(x))
    BY <2>1 DEF Told, Uncommitted
  <2> QED
    BY <2>1, <2>2, <2>3 DEF Recorded
<1>9. ASSUME NEW r \in Requests, Panic(r)
      PROVE  Recorded'
  BY <1>9 DEF Recorded, Told, Uncommitted, Panic, TypeOK
<1>10. ASSUME NEW r \in Requests, NEW d \in Durations, Finish(r, d)
       PROVE  Recorded'
  BY <1>10 DEF Recorded, Told, Uncommitted, Finish, TypeOK
<1> QED
  BY <1>2, <1>3, <1>4, <1>5, <1>6, <1>7, <1>8, <1>9, <1>10 DEF Next

\* A step that finishes no request concerns no sample.
LEMMA SamplesKept ==
  ASSUME SeriesExact, byRoute' = byRoute, took' = took, Finished' = Finished,
         \A r \in Finished : route'[r] = route[r] /\ wire'[r] = wire[r] /\ stray'[r] = stray[r]
  PROVE  SeriesExact'
<1>0. \A r \in Finished : Label(r)' = Label(r)
  BY DEF Label
<1>1. {Label(r)' : r \in Finished'} = {Label(r) : r \in Finished}
  BY <1>0
<1>2. \A k : Counted(k)' = Counted(k)
  BY <1>0 DEF Counted
<1>3. \A k : SumTook(Counted(k))' = SumTook(Counted(k))
  BY <1>2, CountedSum
<1>4. \A k, i : {r \in Counted(k)' : took'[r] = i} = {r \in Counted(k) : took[r] = i}
  BY <1>2
<1>5. DOMAIN byRoute' = {Label(r)' : r \in Finished'}
  BY <1>1 DEF SeriesExact
<1>6. ASSUME NEW k \in DOMAIN byRoute'
      PROVE  /\ byRoute'[k].count = Cardinality(Counted(k)')
             /\ byRoute'[k].sum = SumTook(Counted(k))'
             /\ \A i \in 1..NBounds :
                  byRoute'[k].buckets[i] = Cardinality({r \in Counted(k)' : took'[r] = i})
             /\ byRoute'[k].buckets[Inf] = byRoute'[k].count
  BY <1>2, <1>3, <1>4, <1>6 DEF SeriesExact
<1> QED
  BY <1>5, <1>6 DEF SeriesExact

\* Finish puts one sample into the series of the request's key.
LEMMA SampleAdded ==
  ASSUME TypeOK, IsFiniteSet(Busy), Recorded, SeriesExact,
         NEW r \in Requests, NEW d \in Durations, Finish(r, d)
  PROVE  SeriesExact'
<1>0. PICK key : key = <<route[r], status[r]>>
  OBVIOUS
<1> DEFINE old == SeriesOf(key)
           new == Observe(old, d)
<1>1. key = Label(r)
  BY <1>0 DEF Finish, Recorded, Label
<1>2. /\ pc[r] = "returned" /\ pc' = [pc EXCEPT ![r] = "done"]
      /\ took' = [took EXCEPT ![r] = d] /\ \A x : Label(x)' = Label(x)
      /\ PutSeries(key, new)
  BY <1>0 DEF Finish, Label
<1>3. r \notin Finished /\ Finished' = Finished \cup {r}
  BY <1>2 DEF Finished, TypeOK
<1>4. took'[r] = d /\ \A x \in Finished : took'[x] = took[x]
  BY <1>2, <1>3 DEF TypeOK, Finished
<1>5. d \in Nat /\ d \in 1..Inf /\ Inf \in Nat /\ \A x \in Finished : took[x] \in Nat
  BY MetricsAssumption DEF Durations, Inf, Recorded, Finished
<1>6. old \in Series /\ (key \in DOMAIN byRoute => old = byRoute[key])
                     /\ (key \notin DOMAIN byRoute => old = EmptySeries)
  BY SeriesOfType DEF SeriesOf
<1> HIDE DEF old, new
<1>7. /\ DOMAIN byRoute' = DOMAIN byRoute \cup {key}
      /\ byRoute'[key] = new
      /\ \A j \in DOMAIN byRoute : j # key => byRoute'[j] = byRoute[j]
  BY <1>2, PutSeriesFacts
<1>8. /\ new.count = old.count + 1 /\ new.sum = old.sum + d
      /\ \A i \in 1..Inf : new.buckets[i] = IF i \in {d, Inf} THEN old.buckets[i] + 1 ELSE old.buckets[i]
  BY <1>6, ObserveType DEF new
<1>9. \A k : Counted(k) = {x \in Finished : Label(x) = k}
  BY DEF Counted
<1>10. \A k : Counted(k)' = {x \in Finished' : Label(x)' = k}
  BY DEF Counted
<1>11. /\ Counted(key)' = Counted(key) \cup {r} /\ r \notin Counted(key)
       /\ \A k : k # key => Counted(k)' = Counted(k)
  BY <1>1, <1>2, <1>3, <1>9, <1>10
<1>12. \A k : Counted(k) \subseteq Finished /\ IsFiniteSet(Counted(k))
  <2>1. \A k : Counted(k) \in SUBSET Busy /\ Counted(k) \subseteq Finished
    BY DEF Counted, Finished, Busy
  <2> QED
    BY <2>1, FS_Subset
<1>13. DOMAIN byRoute' = {Label(x)' : x \in Finished'}
  <2>1. DOMAIN byRoute = {Label(x) : x \in Finished}
    BY DEF SeriesExact
  <2> QED
    BY <1>1, <1>2, <1>3, <1>7, <2>1
\* What the series of the key held before counts the requests of the key.
<1>14. /\ old.count = Cardinality(Counted(key)) /\ old.sum = Sum(took, Counted(key))
       /\ \A i \in 1..NBounds : old.buckets[i] = Cardinality({x \in Counted(key) : took[x] = i})
       /\ old.buckets[Inf] = old.count
  <2>1. CASE key \in DOMAIN byRoute
    BY <1>6, <2>1, CountedSum DEF SeriesExact
  <2>2. CASE key \notin DOMAIN byRoute
    <3>1. Counted(key) = {}
      BY <1>9, <2>2 DEF SeriesExact
    <3>2. \A i \in 1..NBounds : {x \in Counted(key) : took[x] = i} = {}
      BY <3>1
    <3>3. Cardinality({}) = 0 /\ Sum(took, {}) = 0
      BY FS_EmptySet, SumEmpty
    <3>4. old.count = 0 /\ old.sum = 0 /\ \A i \in 1..Inf : old.buckets[i] = 0
      <4>1. old = EmptySeries
        BY <1>6, <2>2
      <4> QED
        BY <4>1 DEF EmptySeries
    <3>5. \A i \in 1..NBounds : i \in 1..Inf
      BY MetricsAssumption DEF Inf
    <3>6. Inf \in 1..Inf
      BY MetricsAssumption DEF Inf
    <3> QED
      BY <3>1, <3>2, <3>3, <3>4, <3>5, <3>6
  <2> QED
    BY <2>1, <2>2
<1>15. ASSUME NEW k \in DOMAIN byRoute'
       PROVE  /\ byRoute'[k].count = Cardinality(Counted(k)')
              /\ byRoute'[k].sum = Sum(took', Counted(k)')
              /\ \A i \in 1..NBounds :
                   byRoute'[k].buckets[i] = Cardinality({x \in Counted(k)' : took'[x] = i})
              /\ byRoute'[k].buckets[Inf] = byRoute'[k].count
  <2>1. CASE k = key
    <3>1. new.count = Cardinality(Counted(key)')
      <4>1. /\ Cardinality(Counted(key) \cup {r}) = Cardinality(Counted(key)) + 1
            /\ new.count = old.count + 1 /\ old.count = Cardinality(Counted(key))
        BY <1>8, <1>11, <1>12, <1>14, FS_AddElement
      <4> QED
        BY <1>11, <4>1
    <3>2. new.sum = Sum(took', Counted(key)')
      <4> DEFINE C == Counted(key)
      <4>1. /\ IsFiniteSet(C) /\ r \notin C /\ \A x \in C : took[x] \in Nat
            /\ \A x \in C : took'[x] = took[x]
        BY <1>4, <1>5, <1>11, <1>12
      <4> HIDE DEF C
      <4>2. Sum(took', C \cup {r}) = Sum(took, C) + took'[r]
        BY <1>4, <1>5, <4>1, SumAdd
      <4> QED
        BY <1>4, <1>8, <1>11, <1>14, <4>2 DEF C
    <3>3. ASSUME NEW i \in 1..NBounds
          PROVE  new.buckets[i] = Cardinality({x \in Counted(key)' : took'[x] = i})
      <4> DEFINE A == {x \in Counted(key) : took[x] = i}
                 B == {x \in Counted(key)' : took'[x] = i}
      <4>1. B = IF i = d THEN A \cup {r} ELSE A
        BY <1>4, <1>11, <1>12
      <4>2. IsFiniteSet(A) /\ r \notin A /\ old.buckets[i] = Cardinality(A)
        <5>1. A \in SUBSET Counted(key)
          OBVIOUS
        <5> QED
          BY <1>11, <1>12, <1>14, <5>1, FS_Subset
      <4>3. i \in 1..Inf /\ i # Inf
        BY MetricsAssumption DEF Inf
      <4> HIDE DEF A, B
      <4>4. Cardinality(A \cup {r}) = Cardinality(A) + 1
        BY <4>2, FS_AddElement
      <4>5. new.buckets[i] = Cardinality(B)
        BY <1>8, <4>1, <4>2, <4>3, <4>4
      <4> QED
        BY <4>5 DEF B
    <3>4. new.buckets[Inf] = new.count
      <4>1. Inf \in 1..Inf
        BY MetricsAssumption DEF Inf
      <4> QED
        BY <1>8, <1>14, <4>1
    <3> QED
      BY <1>7, <2>1, <3>1, <3>2, <3>3, <3>4
  <2>2. CASE k # key
    <3>1. k \in DOMAIN byRoute /\ byRoute'[k] = byRoute[k] /\ Counted(k)' = Counted(k)
      BY <1>7, <1>11, <2>2
    <3>2. Sum(took', Counted(k)) = Sum(took, Counted(k))
      <4>1. \A x \in Counted(k) : took[x] \in Nat /\ took'[x] = took[x]
        BY <1>4, <1>5, <1>12
      <4> QED
        BY <1>12, <4>1, SumSame
    <3>3. \A i : {x \in Counted(k)' : took'[x] = i} = {x \in Counted(k) : took[x] = i}
      BY <1>4, <1>12, <3>1
    <3> QED
      BY <3>1, <3>2, <3>3, CountedSum DEF SeriesExact
  <2> QED
    BY <2>1, <2>2
<1> QED
  BY <1>13, <1>15, CountedSum DEF SeriesExact

LEMMA ExactStep ==
  ASSUME TypeOK, IsFiniteSet(Busy), ExactInv, [Next]_vars
  PROVE  ExactInv'
<1>1. Recorded' /\ Recorded /\ SeriesExact
  BY RecordedStep DEF ExactInv
<1>2. CASE UNCHANGED vars
  <2>1. /\ byRoute' = byRoute /\ took' = took /\ Finished' = Finished
        /\ route' = route /\ wire' = wire /\ stray' = stray
    BY <1>2 DEF vars, reqVars, Finished
  <2> QED
    BY <1>1, <2>1, SamplesKept DEF ExactInv
<1>3. ASSUME NEW r \in Requests,
             \/ \E label \in Labels : Enter(r, label)
             \/ \E code \in Codes : WriteHeader(r, code)
             \/ Write(r) \/ Return(r) \/ Refuse(r) \/ Scrape(r) \/ Panic(r)
      PROVE  ExactInv'
  <2>1. /\ byRoute' = byRoute /\ took' = took /\ pc[r] # "done" /\ pc'[r] # "done"
        /\ \A x \in Requests : x # r => /\ pc'[x] = pc[x] /\ route'[x] = route[x]
                                        /\ wire'[x] = wire[x] /\ stray'[x] = stray[x]
    BY <1>3 DEF Enter, WriteHeader, Strays, Write, Return, Refuse, Scrape, Panic, TypeOK
  <2>2. /\ Finished' = Finished
        /\ \A x \in Finished : route'[x] = route[x] /\ wire'[x] = wire[x] /\ stray'[x] = stray[x]
    BY <2>1 DEF Finished
  <2> QED
    BY <1>1, <2>1, <2>2, SamplesKept DEF ExactInv
<1>4. ASSUME NEW r \in Requests, NEW d \in Durations, Finish(r, d)
      PROVE  ExactInv'
  BY <1>1, <1>4, SampleAdded DEF ExactInv
<1> QED
  BY <1>2, <1>3, <1>4 DEF Next

-----------------------------------------------------------------------------
(* Theorems *)

LEMMA InitInv == Init => IInv /\ ExactInv
<1> SUFFICES ASSUME Init PROVE IInv /\ ExactInv
  OBVIOUS
<1>1. TypeOK
  BY TypeInit
<1>2. Busy = {} /\ Serving = {} /\ Panicked = {} /\ Finished = {} /\ inFlight = 0
  BY DEF Init, Busy, Serving, Panicked, Finished
<1>3. IsFiniteSet(Busy) /\ GaugeConserved
  BY <1>2, FS_EmptySet DEF GaugeConserved, Panicked
<1>4. ScrapeBehind
  BY DEF Init, ScrapeBehind, Exposition
<1>5. Recorded
  BY DEF Init, Recorded, Told
<1>6. DOMAIN byRoute = {}
  BY DEF Init
<1>7. SeriesExact
  BY <1>2, <1>6 DEF SeriesExact
<1> QED
  BY <1>1, <1>3, <1>4, <1>5, <1>7 DEF IInv, ExactInv

LEMMA StepInv ==
  ASSUME IInv, [Next]_vars
  PROVE  IInv'
  BY TypeStep, GaugeStep, ScrapeStep DEF IInv

\* The invariant holds in every reachable state of the collector.
THEOREM InvariantHolds == Spec => []IInv
  BY InitInv, StepInv, PTL DEF Spec

\* The in-flight gauge of the middleware: it counts each request in once and
\* out at most once, so what it shows is served or panicked.
THEOREM GaugeKept == Spec => []GaugeConserved
<1>1. IInv => GaugeConserved
  BY DEF IInv
<1> QED
  BY <1>1, InvariantHolds, PTL

\* Two expositions, whatever requests finish between them: a counter of the
\* later one is never below the earlier one and no series is missing.
THEOREM CountersGrow == Spec => ScrapesMonotonic
<1>1. ASSUME IInv, [Next]_vars
      PROVE  [\A k \in DOMAIN scraped.series :
                /\ k \in DOMAIN scraped'.series
                /\ scraped'.series[k].count >= scraped.series[k].count
                /\ scraped'.series[k].sum >= scraped.series[k].sum
                /\ \A i \in 1..Inf : scraped'.series[k].buckets[i] >= scraped.series[k].buckets[i]]_vars
  <2>1. \A k \in DOMAIN scraped.series :
          k \in DOMAIN scraped'.series /\ Grown(scraped.series[k], scraped'.series[k])
    BY <1>1, ScrapeStep DEF IInv
  <2> QED
    BY <2>1 DEF Grown
<1> QED
  BY <1>1, InvariantHolds, PTL DEF Spec, ScrapesMonotonic

\* Concurrent requests that finish in any order, whatever their handlers send:
\* every finished request is one sample, in count, sum and buckets, of the series
\* of its route and of the status its client received, or of the code its first
\* WriteHeader asked for where that call could not set the status.
THEOREM SamplesExact == Spec => []SeriesExact
<1>1. IInv /\ ExactInv /\ [Next]_vars => ExactInv'
  BY ExactStep DEF IInv
<1>2. ExactInv => SeriesExact
  BY DEF ExactInv
<1> QED
  BY <1>1, <1>2, InitInv, InvariantHolds, PTL DEF Spec

=============================================================================
