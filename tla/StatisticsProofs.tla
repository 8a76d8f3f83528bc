--------------------------- MODULE StatisticsProofs ---------------------------
(***************************************************************************)
(* Proofs about Options, for every sequence of options, all defaults and   *)
(* every entry budget, and about Statistics, for any goroutines that use   *)
(* the cache that is built from them.                                      *)
(***************************************************************************)
EXTENDS Statistics, FiniteSetTheorems, WellFoundedInduction, TLAPS

-------------------------------------------------------------------------------
(***************************************************************************)
(* Sums of functions on finite sets.  SumFunction takes one element after  *)
(* the other; Sums(h, g, S) says that h is what it gets for each subset.   *)
(***************************************************************************)
Pick(T) == CHOOSE x \in T : TRUE

Sums(h, g, S) ==
  h = [T \in SUBSET S |-> IF T = {} THEN 0 ELSE g[Pick(T)] + h[T \ {Pick(T)}]]

\* A set of naturals has a least element.
LEMMA LeastElement ==
  ASSUME NEW T, T \subseteq Nat, T # {}
  PROVE  \E n \in T : \A m \in T : n <= m
<1> DEFINE below == {0..n : n \in T}
<1>1. below \subseteq FiniteSubsetsOf(Nat) /\ below # {}
  <2>1. \A n \in Nat : IsFiniteSet(0..n)
    BY FS_Interval
  <2>2. \A n \in T : 0..n \subseteq Nat
    OBVIOUS
  <2>3. \A n \in T : 0..n \in FiniteSubsetsOf(Nat)
    BY <2>1, <2>2 DEF FiniteSubsetsOf
  <2>4. QED
    BY <2>3
<1>2. \E U \in below : \A V \in below : ~(<<V, U>> \in StrictSubsetOrdering(Nat))
  <2> HIDE DEF below
  <2>1. QED
    BY <1>1, FS_StrictSubsetOrderingWellFounded, WFMin
<1>3. PICK n \in T : \A m \in T : ~(<<0..m, 0..n>> \in StrictSubsetOrdering(Nat))
  BY <1>2
<1>4. ASSUME NEW m \in T PROVE n <= m
  <2>1. SUFFICES ASSUME m < n PROVE FALSE
    OBVIOUS
  <2>2. 0..m \subseteq 0..n /\ n \in 0..n /\ ~(n \in 0..m)
    BY <2>1
  <2>3. <<0..m, 0..n>> \in StrictSubsetOrdering(Nat)
    BY <2>2 DEF StrictSubsetOrdering
  <2>4. QED
    BY <1>3, <2>3
<1>5. QED
  BY <1>4

\* What holds of the empty set, and of a set whenever it holds of the set without the
\* element picked from it, holds of all subsets of a finite set.
LEMMA SubsetsOneByOne ==
  ASSUME NEW S, IsFiniteSet(S), NEW Good, {} \in Good,
         \A T \in SUBSET S : T # {} /\ T \ {Pick(T)} \in Good => T \in Good
  PROVE  \A T \in SUBSET S : T \in Good
<1> DEFINE sizes == {Cardinality(T) : T \in (SUBSET S) \ Good}
<1>1. SUFFICES ASSUME (SUBSET S) \ Good # {} PROVE FALSE
  OBVIOUS
<1>2. \A T \in SUBSET S : IsFiniteSet(T) /\ Cardinality(T) \in Nat
  BY FS_Subset, FS_CardinalityType
<1>3. sizes \subseteq Nat /\ sizes # {}
  BY <1>1, <1>2
<1>4. \E n \in sizes : \A m \in sizes : n <= m
  <2> HIDE DEF sizes
  <2>1. QED
    BY <1>3, LeastElement
<1>5. PICK T \in (SUBSET S) \ Good : \A U \in (SUBSET S) \ Good : Cardinality(T) <= Cardinality(U)
  <2>1. PICK n \in sizes : \A m \in sizes : n <= m
    BY <1>4
  <2>2. PICK T \in (SUBSET S) \ Good : Cardinality(T) = n
    BY <2>1
  <2>3. \A U \in (SUBSET S) \ Good : Cardinality(U) \in sizes
    OBVIOUS
  <2> HIDE DEF sizes
  <2>4. QED
    BY <2>1, <2>2, <2>3
<1>6. Pick(T) \in T
  <2>1. T # {}
    BY <1>5
  <2>2. QED
    BY <2>1 DEF Pick
<1> DEFINE U == T \ {Pick(T)}
<1>7. U \in (SUBSET S) \ Good
  BY <1>5, <1>6
<1>8. Cardinality(U) = Cardinality(T) - 1
  BY <1>2, <1>6, FS_RemoveElement
<1>9. QED
  BY <1>2, <1>5, <1>7, <1>8

\* The equations of Sums, for subsets of at most n elements.
SumsUpTo(h, g, S, n) ==
  \A T \in SUBSET S : Cardinality(T) <= n =>
    h[T] = IF T = {} THEN 0 ELSE g[Pick(T)] + h[T \ {Pick(T)}]

\* There is such a function: the equations hold for subsets of each size, because
\* otherwise there would be a least size for which they do not.
LEMMA SumsExist ==
  ASSUME NEW S, IsFiniteSet(S), NEW g
  PROVE  \E h : Sums(h, g, S)
<1> DEFINE bad == {n \in Nat : ~ \E h : SumsUpTo(h, g, S, n)}
           Step(h) == [T \in SUBSET S |-> IF T = {} THEN 0 ELSE g[Pick(T)] + h[T \ {Pick(T)}]]
<1>1. \A T \in SUBSET S : IsFiniteSet(T) /\ Cardinality(T) \in Nat
  BY FS_Subset, FS_CardinalityType
<1>2. \A T \in SUBSET S : T # {} =>
        /\ T \ {Pick(T)} \in SUBSET S
        /\ Cardinality(T \ {Pick(T)}) = Cardinality(T) - 1
  <2> SUFFICES ASSUME NEW T \in SUBSET S, T # {}
               PROVE  Cardinality(T \ {Pick(T)}) = Cardinality(T) - 1
    OBVIOUS
  <2>1. Pick(T) \in T
    BY DEF Pick
  <2>2. QED
    BY <1>1, <2>1, FS_RemoveElement
<1>3. ASSUME NEW n \in Nat, NEW h, SumsUpTo(h, g, S, n)
      PROVE  SumsUpTo(Step(h), g, S, n + 1)
  <2> SUFFICES ASSUME NEW T \in SUBSET S, Cardinality(T) <= n + 1, T # {}
               PROVE  Step(h)[T] = g[Pick(T)] + Step(h)[T \ {Pick(T)}]
    BY DEF SumsUpTo
  <2> DEFINE U == T \ {Pick(T)}
  <2>1. U \in SUBSET S /\ Cardinality(U) <= n
    BY <1>1, <1>2
  <2>2. h[U] = IF U = {} THEN 0 ELSE g[Pick(U)] + h[U \ {Pick(U)}]
    BY <1>3, <2>1 DEF SumsUpTo
  <2> HIDE DEF U
  <2>3. Step(h)[U] = h[U]
    BY <2>1, <2>2
  <2>4. Step(h)[T] = g[Pick(T)] + h[U]
    BY DEF U
  <2>5. QED
    BY <2>3, <2>4 DEF U
<1>4. SumsUpTo([T \in SUBSET S |-> 0], g, S, 0)
  <2> SUFFICES ASSUME NEW T \in SUBSET S, Cardinality(T) <= 0 PROVE T = {}
    BY DEF SumsUpTo
  <2>1. QED
    BY <1>1, FS_EmptySet
<1>5. bad = {}
  <2>1. SUFFICES ASSUME bad # {} PROVE FALSE
    OBVIOUS
  <2>2. PICK n \in bad : \A m \in bad : n <= m
    <3>1. bad \subseteq Nat
      OBVIOUS
    <3> HIDE DEF bad
    <3>2. QED
      BY <2>1, <3>1, LeastElement
  <2>3. n \in Nat /\ n # 0
    BY <1>4
  <2>4. n - 1 \in Nat /\ n - 1 \notin bad
    BY <2>2, <2>3
  <2>5. PICK h : SumsUpTo(h, g, S, n - 1)
    BY <2>4
  <2>6. SumsUpTo(Step(h), g, S, n)
    <3> HIDE DEF Step
    <3>1. SumsUpTo(Step(h), g, S, (n - 1) + 1)
      BY <1>3, <2>4, <2>5
    <3>2. QED
      BY <2>3, <3>1
  <2>7. QED
    BY <2>6
<1>6. PICK h : SumsUpTo(h, g, S, Cardinality(S))
  BY <1>1, <1>5
<1>7. Sums(Step(h), g, S)
  <2>1. \A T \in SUBSET S : h[T] = Step(h)[T]
    BY <1>6, FS_Subset DEF SumsUpTo
  <2>2. \A T \in SUBSET S : T # {} => h[T \ {Pick(T)}] = Step(h)[T \ {Pick(T)}]
    <3> HIDE DEF Step
    <3>1. QED
      BY <1>2, <2>1
  <2>3. QED
    BY <2>2 DEF Sums
<1>8. QED
  BY <1>7

\* What SumFunction adds up, and in which order.
LEMMA SumUnfolds ==
  ASSUME NEW S, IsFiniteSet(S), NEW g, DOMAIN g = S
  PROVE  \E h : Sums(h, g, S) /\ SumFunction(g) = h[S]
<1> DEFINE h == CHOOSE u : Sums(u, g, S)
<1>1. Sums(h, g, S)
  BY SumsExist
<1>2. SumFunction(g) = h[S]
  BY DEF SumFunction, SumFunctionOnSet, FoldFunctionOnSet, MapThenFoldSet, Sums, Pick
<1>3. QED
  BY <1>1, <1>2

\* Reading such a function: 0 for the empty set, else the picked element's summand and
\* the sum of the others.
LEMMA SumsRecursively ==
  ASSUME NEW S, NEW g, NEW h, Sums(h, g, S)
  PROVE  /\ h[{}] = 0
         /\ \A T \in SUBSET S : T # {} =>
              /\ Pick(T) \in S /\ T \ {Pick(T)} \in SUBSET S
              /\ h[T] = g[Pick(T)] + h[T \ {Pick(T)}]
<1>1. \A T \in SUBSET S : h[T] = IF T = {} THEN 0 ELSE g[Pick(T)] + h[T \ {Pick(T)}]
  BY DEF Sums
<1>2. \A T \in SUBSET S : T # {} => Pick(T) \in T
  BY DEF Pick
<1>3. QED
  BY <1>1, <1>2

\* A sum of integers is an integer, and of naturals a natural.
LEMMA SumType ==
  ASSUME NEW S, IsFiniteSet(S), NEW g \in [S -> Int]
  PROVE  /\ SumFunction(g) \in Int
         /\ (\A x \in S : g[x] >= 0) => SumFunction(g) >= 0
<1>1. PICK h : Sums(h, g, S) /\ SumFunction(g) = h[S]
  BY SumUnfolds
<1> DEFINE Good == {T \in SUBSET S : h[T] \in Int /\ ((\A x \in S : g[x] >= 0) => h[T] >= 0)}
<1>2. {} \in Good
  BY <1>1, SumsRecursively
<1>3. \A T \in SUBSET S : T # {} /\ T \ {Pick(T)} \in Good => T \in Good
  BY <1>1, SumsRecursively
<1>4. S \in Good
  <2> HIDE DEF Good
  <2>1. QED
    BY <1>2, <1>3, SubsetsOneByOne
<1>5. QED
  BY <1>1, <1>4

\* Sums may be added.
LEMMA SumAdds ==
  ASSUME NEW S, IsFiniteSet(S), NEW f \in [S -> Int], NEW g \in [S -> Int],
         NEW k \in [S -> Int], \A x \in S : k[x] = f[x] + g[x]
  PROVE  SumFunction(k) = SumFunction(f) + SumFunction(g)
<1>1. PICK hf : Sums(hf, f, S) /\ SumFunction(f) = hf[S]
  BY SumUnfolds
<1>2. PICK hg : Sums(hg, g, S) /\ SumFunction(g) = hg[S]
  BY SumUnfolds
<1>3. PICK hk : Sums(hk, k, S) /\ SumFunction(k) = hk[S]
  BY SumUnfolds
<1> DEFINE Good == {T \in SUBSET S : hf[T] \in Int /\ hg[T] \in Int /\ hk[T] = hf[T] + hg[T]}
<1>4. {} \in Good
  BY <1>1, <1>2, <1>3, SumsRecursively
<1>5. ASSUME NEW T \in SUBSET S, T # {}, T \ {Pick(T)} \in Good
      PROVE  T \in Good
  <2> DEFINE x == Pick(T)
             U == T \ {Pick(T)}
  <2>1. x \in S /\ hf[T] = f[x] + hf[U] /\ hg[T] = g[x] + hg[U] /\ hk[T] = k[x] + hk[U]
    BY <1>1, <1>2, <1>3, <1>5, SumsRecursively
  <2>2. hf[U] \in Int /\ hg[U] \in Int /\ hk[U] = hf[U] + hg[U]
    BY <1>5
  <2>3. f[x] \in Int /\ g[x] \in Int /\ k[x] = f[x] + g[x]
    BY <2>1
  <2> HIDE DEF x, U
  <2>4. QED
    BY <2>1, <2>2, <2>3
<1>6. S \in Good
  <2> HIDE DEF Good
  <2>1. QED
    BY <1>4, <1>5, SubsetsOneByOne
<1>7. QED
  BY <1>1, <1>2, <1>3, <1>6

\* The sum of a function that is 0 but for one element.
LEMMA SumOfOne ==
  ASSUME NEW S, IsFiniteSet(S), NEW g \in [S -> Int], NEW x \in S,
         \A y \in S \ {x} : g[y] = 0
  PROVE  SumFunction(g) = g[x]
<1>1. PICK h : Sums(h, g, S) /\ SumFunction(g) = h[S]
  BY SumUnfolds
<1> DEFINE Good == {T \in SUBSET S : h[T] = IF x \in T THEN g[x] ELSE 0}
<1>2. {} \in Good
  <2>1. h[{}] = 0
    BY <1>1, SumsRecursively
  <2>2. QED
    BY <2>1
<1>3. ASSUME NEW T \in SUBSET S, T # {}, T \ {Pick(T)} \in Good
      PROVE  T \in Good
  <2>1. Pick(T) \in T /\ h[T] = g[Pick(T)] + h[T \ {Pick(T)}]
    <3>1. Pick(T) \in T
      BY <1>3, Zenon DEF Pick
    <3>2. h[T] = g[Pick(T)] + h[T \ {Pick(T)}]
      BY <1>1, <1>3, SumsRecursively
    <3>3. QED
      BY <3>1, <3>2
  <2>2. CASE Pick(T) = x
    BY <1>3, <2>1, <2>2
  <2>3. CASE Pick(T) # x
    BY <1>3, <2>1, <2>3
  <2>4. QED
    BY <2>2, <2>3
<1>4. S \in Good
  <2> HIDE DEF Good
  <2>1. QED
    BY <1>2, <1>3, SubsetsOneByOne
<1>5. QED
  BY <1>1, <1>4

\* A change of one summand changes the sum by as much.
LEMMA SumChanges ==
  ASSUME NEW S, IsFiniteSet(S), NEW f \in [S -> Int], NEW g \in [S -> Int], NEW x \in S,
         \A y \in S \ {x} : g[y] = f[y]
  PROVE  SumFunction(g) = SumFunction(f) + (g[x] - f[x])
<1> DEFINE d == [y \in S |-> IF y = x THEN g[x] - f[x] ELSE 0]
<1>1. d \in [S -> Int] /\ (\A y \in S \ {x} : d[y] = 0) /\ d[x] = g[x] - f[x]
  OBVIOUS
<1>2. d \in [S -> Int] /\ \A y \in S : g[y] = f[y] + d[y]
  OBVIOUS
<1> HIDE DEF d
<1>3. SumFunction(g) = SumFunction(f) + SumFunction(d)
  BY <1>2, SumAdds
<1>4. SumFunction(d) = d[x]
  BY <1>1, SumOfOne
<1>5. QED
  BY <1>1, <1>3, <1>4

\* Larger summands have a larger sum.
LEMMA SumGrows ==
  ASSUME NEW S, IsFiniteSet(S), NEW f \in [S -> Int], NEW g \in [S -> Int],
         \A x \in S : f[x] <= g[x]
  PROVE  SumFunction(f) <= SumFunction(g)
<1> DEFINE d == [x \in S |-> g[x] - f[x]]
<1>1. d \in [S -> Int] /\ \A x \in S : d[x] >= 0 /\ g[x] = f[x] + d[x]
  OBVIOUS
<1> HIDE DEF d
<1>2. SumFunction(g) = SumFunction(f) + SumFunction(d)
  BY <1>1, SumAdds
<1>3. SumFunction(d) >= 0 /\ SumFunction(d) \in Int /\ SumFunction(f) \in Int
  BY <1>1, SumType
<1>4. QED
  BY <1>2, <1>3

\* The sum of the same number, and of zeroes.
LEMMA SumOfSame ==
  ASSUME NEW S, IsFiniteSet(S), NEW n \in Int, NEW g, g = [x \in S |-> n]
  PROVE  SumFunction(g) = n * Cardinality(S)
<1>1. PICK h : Sums(h, g, S) /\ SumFunction(g) = h[S]
  BY SumUnfolds
<1> DEFINE Good == {T \in SUBSET S : h[T] = n * Cardinality(T)}
<1>2. {} \in Good
  BY <1>1, SumsRecursively, FS_EmptySet
<1>3. ASSUME NEW T \in SUBSET S, T # {}, T \ {Pick(T)} \in Good
      PROVE  T \in Good
  <2> DEFINE U == T \ {Pick(T)}
  <2>1. Pick(T) \in T /\ h[T] = n + h[U]
    BY <1>1, <1>3, SumsRecursively DEF Pick
  <2>2. IsFiniteSet(T) /\ Cardinality(U) = Cardinality(T) - 1 /\ Cardinality(T) \in Nat
    BY <2>1, FS_Subset, FS_RemoveElement, FS_CardinalityType
  <2>3. h[U] = n * Cardinality(U)
    BY <1>3
  <2> HIDE DEF U
  <2>4. n * (Cardinality(T) - 1) = n * Cardinality(T) - n
    BY <2>2
  <2>5. QED
    BY <2>1, <2>2, <2>3, <2>4
<1>4. S \in Good
  <2> HIDE DEF Good
  <2>1. QED
    BY <1>2, <1>3, SubsetsOneByOne
<1>5. QED
  BY <1>1, <1>4

\* The sum of ones and zeroes counts the ones.
LEMMA SumCounts ==
  ASSUME NEW S, IsFiniteSet(S), NEW A, NEW g, g = [x \in S |-> IF x \in A THEN 1 ELSE 0]
  PROVE  SumFunction(g) = Cardinality(S \intersect A)
<1>1. PICK h : Sums(h, g, S) /\ SumFunction(g) = h[S]
  BY SumUnfolds
<1> DEFINE Good == {T \in SUBSET S : h[T] = Cardinality(T \intersect A)}
<1>2. {} \in Good
  BY <1>1, SumsRecursively, FS_EmptySet
<1>3. ASSUME NEW T \in SUBSET S, T # {}, T \ {Pick(T)} \in Good
      PROVE  T \in Good
  <2> DEFINE x == Pick(T)
             U == T \ {Pick(T)}
             B == T \intersect A
  <2>1. x \in T /\ h[T] = (IF x \in A THEN 1 ELSE 0) + h[U]
    BY <1>1, <1>3, SumsRecursively DEF Pick
  <2>2. U \intersect A = B \ {x} /\ (x \in B <=> x \in A)
    BY <2>1
  <2>3. IsFiniteSet(B) /\ Cardinality(B) \in Nat
    BY FS_Subset, FS_CardinalityType
  <2>4. Cardinality(B \ {x}) = IF x \in B THEN Cardinality(B) - 1 ELSE Cardinality(B)
    BY <2>3, FS_RemoveElement
  <2>5. h[U] = Cardinality(U \intersect A)
    BY <1>3
  <2>6. h[T] = Cardinality(B)
    <3>1. CASE x \in A
      <4>1. x \in B /\ h[T] = 1 + h[U]
        BY <2>1, <2>2, <3>1
      <4> HIDE DEF x, U, B
      <4>2. Cardinality(B \ {x}) = Cardinality(B) - 1
        BY <2>4, <4>1
      <4>3. h[U] = Cardinality(B) - 1
        BY <2>2, <2>5, <4>2
      <4>4. QED
        BY <2>3, <4>1, <4>3
    <3>2. CASE x \notin A
      <4>1. x \notin B /\ h[T] = 0 + h[U]
        BY <2>1, <2>2, <3>2
      <4> HIDE DEF x, U, B
      <4>2. QED
        BY <2>2, <2>3, <2>4, <2>5, <4>1
    <3>3. QED
      BY <3>1, <3>2
  <2>7. QED
    BY <2>6
<1>4. S \in Good
  <2> HIDE DEF Good
  <2>1. QED
    BY <1>2, <1>3, SubsetsOneByOne
<1>5. QED
  BY <1>1, <1>4
-------------------------------------------------------------------------------
(***************************************************************************)
(* The settings.                                                           *)
(***************************************************************************)

\* What the options keep: every setting is one the cache can work with, and a cache
\* is built with no more segments than entries.
OptionsInv ==
  /\ settings \in Settings
  /\ built \in BOOLEAN
  /\ built => settings.segmentCount <= settings.maxEntries

\* The defaults are settings.
LEMMA OptionsInvInitially == OptionsInit => OptionsInv
<1>1. /\ defaultMaxEntries \in Nat \ {0}
      /\ defaultCleanupInterval \in Nat \ {0}
      /\ defaultCleanupBatchSize \in Nat \ {0}
      /\ defaultCleanupEntryBudget \in Nat \ {0}
  BY DefaultsAssumption
<1>2. defaultSettings \in Settings
  BY <1>1, MaxDurationAssumption
     DEF Settings, defaultSettings, defaultStorageSegmentCount, defaultTTL, NoExpiration
<1>3. QED
  BY <1>2, Zenon DEF OptionsInit, OptionsInv

\* An option keeps the settings settings: one that is out of range is ignored.
LEMMA ConfigureKeeps ==
  ASSUME OptionsInv, Configure
  PROVE  OptionsInv'
<1>1. settings \in Settings /\ ~built /\ UNCHANGED built
  BY DEF OptionsInv, Configure, Apply, WithSize, WithTTL, WithJitter, WithSlidingExpiration
<1>2. ASSUME NEW field \in NumericFields, NEW n \in Sizes[field], WithSize(field, n)
      PROVE  settings' \in Settings
  <2>1. n \in Int
    BY ArgumentsAssumption
  <2>2. n > 0 => [settings EXCEPT ![field] = n] \in Settings
    BY <1>1, <2>1 DEF Settings, NumericFields
  <2>3. QED
    BY <1>1, <1>2, <2>2 DEF WithSize, Apply
<1>3. ASSUME NEW ttl \in TTLArguments, WithTTL(ttl)
      PROVE  settings' \in Settings
  <2>1. ttl \in Int /\ ttl <= MaxDuration
    BY ArgumentsAssumption, MaxDurationAssumption DEF Durations
  <2>2. ttl = NoExpiration \/ ttl > 0 => [settings EXCEPT !["ttl"] = ttl] \in Settings
    BY <1>1, <2>1, MaxDurationAssumption DEF Settings, NoExpiration
  <2>3. QED
    BY <1>1, <1>3, <2>2 DEF WithTTL, Apply
<1>4. ASSUME NEW jitter \in JitterArguments, WithJitter(jitter)
      PROVE  settings' \in Settings
  <2>1. jitter \in Int /\ jitter <= MaxDuration
    BY ArgumentsAssumption, MaxDurationAssumption DEF Durations
  <2>2. jitter >= 0 => [settings EXCEPT !["jitter"] = jitter] \in Settings
    BY <1>1, <2>1, MaxDurationAssumption DEF Settings
  <2>3. QED
    BY <1>1, <1>4, <2>2 DEF WithJitter, Apply
<1>5. ASSUME WithSlidingExpiration
      PROVE  settings' \in Settings
  BY <1>1, <1>5 DEF WithSlidingExpiration, Apply, Settings
<1>6. QED
  <2>1. settings' \in Settings
    BY <1>2, <1>3, <1>4, <1>5 DEF Configure
  <2>2. QED
    BY <1>1, <2>1 DEF OptionsInv

\* New() leaves no more segments than entries.
LEMMA BuildKeeps ==
  ASSUME OptionsInv, Build
  PROVE  OptionsInv'
<1>1. settings.maxEntries \in Nat \ {0} /\ settings.segmentCount \in Nat \ {0}
  BY DEF OptionsInv, Settings
<1>2. LET n == AtMost(settings.maxEntries, settings.segmentCount)
      IN  n \in Nat \ {0} /\ n <= settings.maxEntries
  BY <1>1 DEF AtMost
<1>3. Clamped(settings) \in Settings
  BY <1>2 DEF Clamped, OptionsInv, Settings
<1>4. Clamped(settings).segmentCount <= Clamped(settings).maxEntries
  BY <1>2 DEF Clamped, OptionsInv, Settings
<1>5. QED
  BY <1>3, <1>4 DEF OptionsInv, Build

\* Whatever options are applied, the settings stay valid and the cache is built with
\* no more segments than entries (newSettings).
THEOREM OptionsInvHolds == OptionsSpec => []OptionsInv
<1>1. OptionsInv /\ [OptionsNext]_optionVars => OptionsInv'
  <2> SUFFICES ASSUME OptionsInv, [OptionsNext]_optionVars
               PROVE  OptionsInv'
    OBVIOUS
  <2>1. CASE Configure
    BY <2>1, ConfigureKeeps
  <2>2. CASE Build
    BY <2>2, BuildKeeps
  <2>3. CASE UNCHANGED optionVars
    BY <2>3 DEF OptionsInv, optionVars
  <2>4. QED
    BY <2>1, <2>2, <2>3 DEF OptionsNext
<1>2. QED
  BY <1>1, OptionsInvInitially, PTL DEF OptionsSpec
-------------------------------------------------------------------------------
(***************************************************************************)
(* How newStorage divides the entry budget.                                *)
(***************************************************************************)

\* Division: the facts about quotient and remainder that the split rests on.
LEMMA QuotientAndRemainder ==
  ASSUME NEW a \in Nat, NEW b \in Nat \ {0}
  PROVE  /\ a \div b \in Nat
         /\ a % b \in Nat /\ a % b < b
         /\ a = b * (a \div b) + (a % b)
<1>1. a \div b \in Int /\ a \div b >= 0
  BY SMT
<1>2. a % b \in Int /\ a % b >= 0 /\ a % b < b
  BY SMT
<1>3. a = b * (a \div b) + (a % b)
  BY SMT
<1>4. QED
  BY <1>1, <1>2, <1>3

\* newStorageWithSegments gives every segment room for an entry, and no more in all
\* than the entry budget: storage.go's "segment capacities sum exactly to MaxEntries".
THEOREM CapacitiesAddUp ==
  ASSUME OptionsInv, built
  PROVE  /\ \A s \in SegmentIndexes : SegmentCapacity(s) \in Nat \ {0}
         /\ SumFunction([s \in SegmentIndexes |-> SegmentCapacity(s)]) = settings.maxEntries
<1> DEFINE m == settings.maxEntries
           n == settings.segmentCount
           q == m \div n
           r == m % n
           capacities == [s \in SegmentIndexes |-> SegmentCapacity(s)]
           shares == [s \in SegmentIndexes |-> q]
           extras == [s \in SegmentIndexes |-> IF s \in 0..(r - 1) THEN 1 ELSE 0]
<1>1. m \in Nat \ {0} /\ n \in Nat \ {0} /\ n <= m
  BY DEF OptionsInv, Settings
<1>2. q \in Nat /\ r \in Nat /\ r < n /\ m = n * q + r
  BY <1>1, QuotientAndRemainder
<1>3. q >= 1
  BY <1>1, SMT
<1>4. ASSUME NEW s \in SegmentIndexes
      PROVE  /\ SegmentCapacity(s) = q + (IF s \in 0..(r - 1) THEN 1 ELSE 0)
             /\ SegmentCapacity(s) \in Nat \ {0}
  <2>1. s \in Nat /\ SegmentCapacity(s) = q + (IF s < r THEN 1 ELSE 0)
    BY <1>1 DEF SegmentIndexes, SegmentCapacity
  <2> HIDE DEF q, r
  <2>2. s < r <=> s \in 0..(r - 1)
    BY <1>2, <2>1
  <2>3. QED
    BY <1>2, <1>3, <2>1, <2>2
<1> HIDE DEF q, r
<1>5. IsFiniteSet(SegmentIndexes) /\ Cardinality(SegmentIndexes) = n
  <2>1. n - 1 \in Int /\ (IF 0 <= n - 1 THEN (n - 1) - 0 + 1 ELSE 0) = n
    BY <1>1
  <2>2. QED
    BY <2>1, FS_Interval DEF SegmentIndexes
<1>6. SumFunction(shares) = q * n
  BY <1>2, <1>5, SumOfSame
<1>7. SumFunction(extras) = r
  <2>1. SegmentIndexes \intersect 0..(r - 1) = 0..(r - 1)
    BY <1>1, <1>2 DEF SegmentIndexes
  <2>2. Cardinality(0..(r - 1)) = r
    <3>1. r - 1 \in Int /\ (IF 0 <= r - 1 THEN (r - 1) - 0 + 1 ELSE 0) = r
      BY <1>2
    <3>2. QED
      BY <3>1, FS_Interval
  <2>3. SumFunction(extras) = Cardinality(SegmentIndexes \intersect 0..(r - 1))
    BY <1>5, SumCounts
  <2>4. QED
    BY <2>1, <2>2, <2>3
<1>8. SumFunction(capacities) = SumFunction(shares) + SumFunction(extras)
  <2>1. /\ shares \in [SegmentIndexes -> Int] /\ extras \in [SegmentIndexes -> Int]
        /\ capacities \in [SegmentIndexes -> Int]
        /\ \A s \in SegmentIndexes : capacities[s] = shares[s] + extras[s]
    BY <1>2, <1>4
  <2> HIDE DEF capacities, shares, extras
  <2>2. QED
    BY <1>5, <2>1, SumAdds
<1>9. SumFunction(capacities) = m
  <2> HIDE DEF capacities, shares, extras
  <2>1. q * n = n * q
    BY <1>1, <1>2
  <2>2. QED
    BY <1>2, <1>6, <1>7, <1>8, <2>1
<1>10. QED
  BY <1>4, <1>9

\* However large TTL and jitter are, an entry lives for as long as was asked for, or
\* longer by the jitter, and never beyond the longest duration: jitteredTTL cannot
\* wrap.
LEMMA EveryTTLServes ==
  ASSUME settings \in Settings, NEW expiration \in Durations
  PROVE  TTLServes(expiration)
<1>1. /\ settings.ttl \in Int /\ settings.ttl <= MaxDuration
      /\ settings.jitter \in Nat
      /\ expiration \in Int /\ expiration <= MaxDuration
  BY MaxDurationAssumption DEF Settings, NoExpiration, Durations
<1>2. QED
  BY <1>1, MaxDurationAssumption
     DEF TTLServes, Requested, EffectiveTTLs, JitteredTTLs, AtMost

\* Whatever options are given, the cache that is built can work: SettingsServe, for
\* all arguments, defaults and durations.
THEOREM SettingsServeHolds == OptionsSpec => []SettingsServe
<1>1. OptionsInv => SettingsServe
  <2> SUFFICES ASSUME OptionsInv PROVE SettingsServe
    OBVIOUS
  <2>1. \A expiration \in Durations : TTLServes(expiration)
    BY EveryTTLServes DEF OptionsInv
  <2>2. built => /\ \A s \in SegmentIndexes : SegmentCapacity(s) >= 1
                 /\ SumFunction([s \in SegmentIndexes |-> SegmentCapacity(s)]) = settings.maxEntries
    BY CapacitiesAddUp
  <2>3. QED
    BY <2>1, <2>2 DEF OptionsInv, SettingsServe
<1>2. QED
  BY <1>1, OptionsInvHolds, PTL
-------------------------------------------------------------------------------
(***************************************************************************)
(* What a step of an operation does.                                       *)
(***************************************************************************)

\* Only a Delete or Clear holds entries that it has removed and not counted.
HonestTasks == {t \in Tasks : t.op \notin {"delete", "clear"} => t.removed = 0}

\* The counters and tasks of a cache that is built.
CacheTypes ==
  /\ OptionsInv
  /\ built
  /\ inserted \in Nat
  /\ begun \in 0..MaxOps
  /\ global \in [GlobalFields -> Nat]
  /\ counts \in [SegmentIndexes -> [SegmentFields -> Nat]]
  /\ \A s \in SegmentIndexes : counts[s]["entries"] <= SegmentCapacity(s)
  /\ task \in [Workers -> HonestTasks]

\* One segment's entries change by entries; its counters only grow, those of what was
\* evicted, expired or deleted by out, of loads found or not by loads, of superseded
\* loads by superseded.
Alters(s, entries, out, loads, superseded) ==
  /\ counts' \in [SegmentIndexes -> [SegmentFields -> Nat]]
  /\ \A r \in SegmentIndexes \ {s} : counts'[r] = counts[r]
  /\ \A f \in SegmentFields \ {"entries"} : counts[s][f] <= counts'[s][f]
  /\ counts'[s]["entries"] = counts[s]["entries"] + entries
  /\ counts'[s]["evicted"] + counts'[s]["expired"] + counts'[s]["deleted"]
       = counts[s]["evicted"] + counts[s]["expired"] + counts[s]["deleted"] + out
  /\ counts'[s]["loadFound"] + counts'[s]["loadNotFound"]
       = counts[s]["loadFound"] + counts[s]["loadNotFound"] + loads
  /\ counts'[s]["loadSuperseded"] = counts[s]["loadSuperseded"] + superseded

By(change, f) == IF f \in DOMAIN change THEN change[f] ELSE 0

\* Which counters there are, and how many reads of each kind Stats() makes.
LEMMA FieldFacts ==
  /\ GlobalFields = {"cleared", "cleanup", "workerRun", "workerPending"}
  /\ SegmentFields = {"entries", "hit", "miss", "evicted", "expired", "loadFound", "loadNotFound",
                      "loadError", "loadSuperseded", "shared", "deleted"}
  /\ Len(GlobalReads) = 4 /\ Len(SegmentReads) = 7
<1>1. Len(GlobalReads) = 4 /\ Len(SegmentReads) = 7
  BY DEF GlobalReads, SegmentReads
<1>2. GlobalFields = {"cleared", "cleanup", "workerRun", "workerPending"}
  <2>1. DOMAIN GlobalReads = {1, 2, 3, 4}
    BY DEF GlobalReads
  <2>2. /\ GlobalReads[1] = "cleared" /\ GlobalReads[2] = "cleanup"
        /\ GlobalReads[3] = "workerRun" /\ GlobalReads[4] = "workerPending"
    BY DEF GlobalReads
  <2>3. QED
    BY <2>1, <2>2 DEF GlobalFields
<1>3. {SegmentReads[i] : i \in 2..7}
        = {"loadFound", "loadNotFound", "loadError", "loadSuperseded", "shared", "deleted"}
  <2>1. 2..7 = {2, 3, 4, 5, 6, 7}
    OBVIOUS
  <2>2. /\ SegmentReads[2] = "loadFound" /\ SegmentReads[3] = "loadNotFound"
        /\ SegmentReads[4] = "loadError" /\ SegmentReads[5] = "loadSuperseded"
        /\ SegmentReads[6] = "shared" /\ SegmentReads[7] = "deleted"
    BY DEF SegmentReads
  <2>3. QED
    BY <2>1, <2>2
<1>4. SegmentFields = LockedFields \union {SegmentReads[i] : i \in 2..7}
  BY <1>1 DEF SegmentFields
<1>5. QED
  BY <1>1, <1>2, <1>3, <1>4 DEF LockedFields

\* Add, as an alteration.
LEMMA AddAlters ==
  ASSUME CacheTypes, NEW s \in SegmentIndexes, NEW change, DOMAIN change \subseteq SegmentFields,
         \A f \in DOMAIN change : change[f] \in Int /\ (f # "entries" => change[f] >= 0),
         Entries(s) + By(change, "entries") >= 0, Add(s, change)
  PROVE  Alters(s, By(change, "entries"),
                By(change, "evicted") + By(change, "expired") + By(change, "deleted"),
                By(change, "loadFound") + By(change, "loadNotFound"),
                By(change, "loadSuperseded"))
<1>1. \A f \in SegmentFields : By(change, f) \in Int /\ (f # "entries" => By(change, f) >= 0)
  BY DEF By
<1>2. counts' = [counts EXCEPT ![s] = [f \in SegmentFields |-> counts[s][f] + By(change, f)]]
  BY DEF Add, By
<1>3. /\ counts \in [SegmentIndexes -> [SegmentFields -> Nat]]
      /\ \A f \in SegmentFields : counts[s][f] \in Nat
  BY DEF CacheTypes
<1>4. /\ \A r \in SegmentIndexes \ {s} : counts'[r] = counts[r]
      /\ \A f \in SegmentFields : counts'[s][f] = counts[s][f] + By(change, f)
  BY <1>2, <1>3
<1>5. counts' \in [SegmentIndexes -> [SegmentFields -> Nat]]
  <2>1. \A f \in SegmentFields : counts[s][f] + By(change, f) \in Nat
    BY <1>1, <1>3 DEF Entries
  <2>2. QED
    BY <1>2, <1>3, <2>1
<1>6. {"entries", "evicted", "expired", "deleted", "loadFound", "loadNotFound", "loadSuperseded"}
        \subseteq SegmentFields
  BY FieldFacts
<1>7. \A f \in SegmentFields \ {"entries"} : counts[s][f] <= counts'[s][f]
  BY <1>1, <1>3, <1>4
<1>8. QED
  BY <1>1, <1>3, <1>4, <1>5, <1>6, <1>7 DEF Alters

\* What the changes made by the operations come to.
LEMMA Alterations ==
  ASSUME CacheTypes, NEW s \in SegmentIndexes
  PROVE  /\ UNCHANGED counts => Alters(s, 0, 0, 0, 0)
         /\ Add(s, [hit |-> 1]) => Alters(s, 0, 0, 0, 0)
         /\ Add(s, [miss |-> 1]) => Alters(s, 0, 0, 0, 0)
         /\ Add(s, [shared |-> 1]) => Alters(s, 0, 0, 0, 0)
         /\ Add(s, [loadError |-> 1]) => Alters(s, 0, 0, 0, 0)
         /\ Add(s, [entries |-> 1]) => Alters(s, 1, 0, 0, 0)
         /\ Add(s, [evicted |-> 1]) => Alters(s, 0, 1, 0, 0)
         /\ Add(s, [expired |-> 1]) => Alters(s, 0, 1, 0, 0)
         /\ Add(s, [loadFound |-> 1]) => Alters(s, 0, 0, 1, 0)
         /\ Add(s, [loadNotFound |-> 1]) => Alters(s, 0, 0, 1, 0)
         /\ Add(s, [loadSuperseded |-> 1]) => Alters(s, 0, 0, 0, 1)
         /\ \A n \in Nat : Add(s, [deleted |-> n]) => Alters(s, 0, n, 0, 0)
         /\ \A n \in 0..Entries(s) :
              /\ Add(s, [entries |-> -n]) => Alters(s, -n, 0, 0, 0)
              /\ Add(s, [entries |-> -n, expired |-> n]) => Alters(s, -n, n, 0, 0)
         /\ 1 <= Entries(s) =>
              /\ Add(s, [entries |-> -1]) => Alters(s, -1, 0, 0, 0)
              /\ Add(s, [entries |-> -1, expired |-> 1]) => Alters(s, -1, 1, 0, 0)
              /\ Add(s, [entries |-> -1, miss |-> 1, expired |-> 1]) => Alters(s, -1, 1, 0, 0)
<1> DEFINE Numbers(change, e, o, l, u) ==
             /\ DOMAIN change \subseteq SegmentFields
             /\ \A f \in DOMAIN change : change[f] \in Int /\ (f # "entries" => change[f] >= 0)
             /\ By(change, "entries") = e
             /\ By(change, "evicted") + By(change, "expired") + By(change, "deleted") = o
             /\ By(change, "loadFound") + By(change, "loadNotFound") = l
             /\ By(change, "loadSuperseded") = u
<1>1. ASSUME NEW change, NEW e, NEW o, NEW l, NEW u, Numbers(change, e, o, l, u),
             Entries(s) + e >= 0, Add(s, change)
      PROVE  Alters(s, e, o, l, u)
  BY <1>1, AddAlters
<1>2. Entries(s) \in Nat
  BY FieldFacts DEF CacheTypes, Entries
<1>3. /\ Numbers([hit |-> 1], 0, 0, 0, 0) /\ Numbers([miss |-> 1], 0, 0, 0, 0)
      /\ Numbers([shared |-> 1], 0, 0, 0, 0) /\ Numbers([loadError |-> 1], 0, 0, 0, 0)
  BY FieldFacts DEF By
<1>4. /\ Numbers([entries |-> 1], 1, 0, 0, 0) /\ Numbers([evicted |-> 1], 0, 1, 0, 0)
      /\ Numbers([expired |-> 1], 0, 1, 0, 0)
      /\ \A n \in Nat : Numbers([deleted |-> n], 0, n, 0, 0)
  BY FieldFacts DEF By
<1>5. /\ Numbers([loadFound |-> 1], 0, 0, 1, 0) /\ Numbers([loadNotFound |-> 1], 0, 0, 1, 0)
      /\ Numbers([loadSuperseded |-> 1], 0, 0, 0, 1)
  BY FieldFacts DEF By
<1>6. \A m \in Nat : /\ Numbers([entries |-> -m], -m, 0, 0, 0)
                     /\ Numbers([entries |-> -m, expired |-> m], -m, m, 0, 0)
  BY FieldFacts DEF By
<1>7. Numbers([entries |-> -1, miss |-> 1, expired |-> 1], -1, 1, 0, 0)
  BY FieldFacts DEF By
<1>8. UNCHANGED counts => Alters(s, 0, 0, 0, 0)
  BY FieldFacts DEF CacheTypes, Alters
<1> HIDE DEF Numbers
<1>9. /\ Add(s, [hit |-> 1]) => Alters(s, 0, 0, 0, 0)
      /\ Add(s, [miss |-> 1]) => Alters(s, 0, 0, 0, 0)
      /\ Add(s, [shared |-> 1]) => Alters(s, 0, 0, 0, 0)
      /\ Add(s, [loadError |-> 1]) => Alters(s, 0, 0, 0, 0)
  BY <1>1, <1>2, <1>3
<1>10. /\ Add(s, [entries |-> 1]) => Alters(s, 1, 0, 0, 0)
       /\ Add(s, [evicted |-> 1]) => Alters(s, 0, 1, 0, 0)
       /\ Add(s, [expired |-> 1]) => Alters(s, 0, 1, 0, 0)
       /\ \A n \in Nat : Add(s, [deleted |-> n]) => Alters(s, 0, n, 0, 0)
  BY <1>1, <1>2, <1>4
<1>11. /\ Add(s, [loadFound |-> 1]) => Alters(s, 0, 0, 1, 0)
       /\ Add(s, [loadNotFound |-> 1]) => Alters(s, 0, 0, 1, 0)
       /\ Add(s, [loadSuperseded |-> 1]) => Alters(s, 0, 0, 0, 1)
  BY <1>1, <1>2, <1>5
<1>12. ASSUME NEW m \in 0..Entries(s)
       PROVE  /\ Add(s, [entries |-> -m]) => Alters(s, -m, 0, 0, 0)
              /\ Add(s, [entries |-> -m, expired |-> m]) => Alters(s, -m, m, 0, 0)
  <2>1. m \in Nat /\ Entries(s) + (-m) >= 0
    BY <1>2, <1>12
  <2>2. QED
    BY <1>1, <1>6, <2>1
<1>13. 1 <= Entries(s) =>
         (Add(s, [entries |-> -1, miss |-> 1, expired |-> 1]) => Alters(s, -1, 1, 0, 0))
  <2>1. 1 <= Entries(s) => Entries(s) + (-1) >= 0
    BY <1>2
  <2>2. QED
    BY <1>1, <1>7, <2>1
<1>14. 1 <= Entries(s) =>
         /\ Add(s, [entries |-> -1]) => Alters(s, -1, 0, 0, 0)
         /\ Add(s, [entries |-> -1, expired |-> 1]) => Alters(s, -1, 1, 0, 0)
  BY <1>2, <1>12
<1>15. QED
  BY <1>8, <1>9, <1>10, <1>11, <1>12, <1>13, <1>14

\* A load that has been counted as found or not found in segment s, and may still be
\* counted as superseded.
Loads(t, s) == IF t.op \in {"loadFound", "loadNotFound"} /\ t.segment = s THEN 1 ELSE 0

\* A step of g counts what it does in segment s, in a counter or in its task: an entry
\* comes with an insertion and goes into some other number, and a load is counted as
\* superseded at most once.
Counted(g, s) ==
  /\ UNCHANGED <<optionVars, collection>>
  /\ begun' \in 0..MaxOps
  /\ inserted' \in Nat /\ inserted <= inserted'
  /\ global' \in [GlobalFields -> Nat] /\ \A f \in GlobalFields : global[f] <= global'[f]
  /\ task' \in [Workers -> HonestTasks] /\ \A h \in Workers \ {g} : task'[h] = task[h]
  /\ \E entries \in Int, out \in Int, loads \in Int, superseded \in Int :
       /\ Alters(s, entries, out, loads, superseded)
       /\ counts'[s]["entries"] <= SegmentCapacity(s)
       /\ entries <= inserted' - inserted
       /\ inserted' - inserted = entries + out + (global'["cleared"] - global["cleared"])
                                   + (task'[g].removed - task[g].removed)
       /\ superseded + Loads(task'[g], s) <= loads + Loads(task[g], s)
       /\ \A r \in SegmentIndexes \ {s} : Loads(task'[g], r) <= Loads(task[g], r)

\* A step changes no task but its own.
LEMMA TaskFacts ==
  ASSUME CacheTypes, NEW g \in Workers
  PROVE  /\ task[g] \in HonestTasks /\ Idle \in HonestTasks
         /\ \A t \in HonestTasks : Become(g, t) =>
              /\ task' \in [Workers -> HonestTasks]
              /\ task'[g] = t
              /\ \A h \in Workers \ {g} : task'[h] = task[h]
         /\ UNCHANGED task => task' \in [Workers -> HonestTasks] /\ \A h \in Workers : task'[h] = task[h]
         /\ 0 \in SegmentIndexes
         /\ Nothing \in [SegmentIndexes -> Nat]
<1>1. 0 \in SegmentIndexes
  BY DEF CacheTypes, OptionsInv, Settings, SegmentIndexes
<1>2. Nothing \in [SegmentIndexes -> Nat]
  BY DEF Nothing
<1>3. task[g] \in HonestTasks /\ task \in [Workers -> HonestTasks]
  BY DEF CacheTypes
<1>4. Idle \in HonestTasks
  BY <1>1, <1>2 DEF Idle, Task, Tasks, HonestTasks
<1>5. QED
  BY <1>1, <1>2, <1>3, <1>4 DEF Become

\* A step of an operation that is over when it leaves the segment.
LEMMA CountsAtOnce ==
  ASSUME CacheTypes, NEW g \in Workers, NEW s \in SegmentIndexes,
         Start(g), UNCHANGED <<global, task>>,
         NEW entries \in Int, NEW out \in Int, NEW n \in Nat, n = entries + out,
         inserted' = inserted + n, entries <= n,
         Alters(s, entries, out, 0, 0), Entries(s) + entries <= SegmentCapacity(s)
  PROVE  Counted(g, s)
<1>1. begun' \in 0..MaxOps /\ UNCHANGED <<optionVars, collection>>
  BY BoundsAssumption DEF CacheTypes, Start
<1>2. inserted \in Nat /\ inserted' \in Nat /\ inserted <= inserted'
  BY DEF CacheTypes
<1>3. global' \in [GlobalFields -> Nat] /\ \A f \in GlobalFields : global[f] <= global'[f]
  BY DEF CacheTypes
<1>4. /\ task' \in [Workers -> HonestTasks] /\ \A h \in Workers : task'[h] = task[h]
      /\ task[g].removed \in Nat
  BY TaskFacts DEF Tasks, HonestTasks
<1>5. counts'[s]["entries"] <= SegmentCapacity(s)
  BY DEF Alters, Entries
<1>6. global["cleared"] \in Nat
  BY FieldFacts DEF CacheTypes
<1>7. \A r : Loads(task[g], r) \in Int
  BY DEF Loads
<1>8. Alters(s, entries, out, 0, 0) /\ 0 \in Int
      /\ inserted' - inserted = entries + out + (global'["cleared"] - global["cleared"])
                                  + (task'[g].removed - task[g].removed)
      /\ entries <= inserted' - inserted
  BY <1>2, <1>4, <1>6
<1>9. /\ 0 + Loads(task'[g], s) <= 0 + Loads(task[g], s)
      /\ \A r \in SegmentIndexes \ {s} : Loads(task'[g], r) <= Loads(task[g], r)
  BY <1>4, <1>7
<1>10. QED
  BY <1>1, <1>2, <1>3, <1>4, <1>5, <1>8, <1>9 DEF Counted

\* A step that changes the task of a goroutine.
LEMMA CountsLater ==
  ASSUME CacheTypes, NEW g \in Workers, NEW s \in SegmentIndexes,
         UNCHANGED <<optionVars, collection>>, begun' \in 0..MaxOps,
         global' \in [GlobalFields -> Nat], \A f \in GlobalFields : global[f] <= global'[f],
         NEW t \in HonestTasks, Become(g, t),
         NEW entries \in Int, NEW out \in Int, NEW loads \in Int, NEW superseded \in Int, NEW n \in Nat,
         Insert(n), entries <= n,
         Alters(s, entries, out, loads, superseded), Entries(s) + entries <= SegmentCapacity(s),
         n = entries + out + (global'["cleared"] - global["cleared"]) + (t.removed - task[g].removed),
         superseded + Loads(t, s) <= loads + Loads(task[g], s),
         \A r \in SegmentIndexes \ {s} : Loads(t, r) <= Loads(task[g], r)
  PROVE  Counted(g, s)
<1>1. inserted \in Nat /\ inserted' \in Nat /\ inserted <= inserted' /\ inserted' - inserted = n
  BY DEF CacheTypes, Insert
<1>2. task' \in [Workers -> HonestTasks] /\ task'[g] = t /\ \A h \in Workers \ {g} : task'[h] = task[h]
  BY TaskFacts
<1>3. counts'[s]["entries"] <= SegmentCapacity(s)
  BY DEF Alters, Entries
<1>4. QED
  BY <1>1, <1>2, <1>3 DEF Counted

\* What setLocked does, as an alteration.
LEMMA StoreAlters ==
  ASSUME CacheTypes, NEW s \in SegmentIndexes, Store(s)
  PROVE  \E n \in Nat, entries \in Nat, out \in Nat :
           /\ inserted' = inserted + n /\ n = entries + out
           /\ Alters(s, entries, out, 0, 0)
           /\ Entries(s) + entries <= SegmentCapacity(s)
<1>1. Entries(s) \in Nat /\ Entries(s) <= SegmentCapacity(s) /\ SegmentCapacity(s) \in Nat
  BY FieldFacts, CapacitiesAddUp DEF CacheTypes, Entries
<1>2. CASE Entries(s) > 0 /\ Insert(0) /\ UNCHANGED counts
  <2>1. inserted' = inserted + 0 /\ Alters(s, 0, 0, 0, 0)
    BY <1>2, Alterations DEF Insert
  <2>2. QED
    BY <1>1, <2>1
<1>3. CASE Entries(s) < SegmentCapacity(s) /\ Insert(1) /\ Add(s, [entries |-> 1])
  <2>1. inserted' = inserted + 1 /\ Alters(s, 1, 0, 0, 0) /\ Entries(s) + 1 <= SegmentCapacity(s)
    BY <1>1, <1>3, Alterations DEF Insert
  <2>2. WITNESS 1 \in Nat, 1 \in Nat, 0 \in Nat
  <2>3. QED
    BY <2>1
<1>4. CASE Entries(s) >= SegmentCapacity(s) /\ Insert(1) /\ Add(s, [evicted |-> 1])
  <2>1. inserted' = inserted + 1 /\ Alters(s, 0, 1, 0, 0)
    BY <1>4, Alterations DEF Insert
  <2>2. QED
    BY <1>1, <2>1
<1>5. QED
  BY <1>2, <1>3, <1>4 DEF Store

\* Operations that count while they hold the segment's lock and end there.
LEMMA InstantSteps ==
  ASSUME CacheTypes, NEW g \in Workers, NEW s \in SegmentIndexes,
         Lookup(g, s) \/ SetEntry(g, s) \/ RemoveExpired(g, s) \/ RecordShared(g, s)
  PROVE  Counted(g, s)
<1>1. /\ Entries(s) \in Nat /\ Entries(s) <= SegmentCapacity(s) /\ SegmentCapacity(s) \in Nat
      /\ inserted \in Nat
  BY FieldFacts, CapacitiesAddUp DEF CacheTypes, Entries
<1>2. Start(g) /\ UNCHANGED <<global, task>>
  BY DEF Lookup, SetEntry, RemoveExpired, RecordShared
<1> DEFINE Accounted ==
             \E n \in Nat, entries \in Int, out \in Int :
               /\ inserted' = inserted + n /\ entries <= n /\ n = entries + out
               /\ Alters(s, entries, out, 0, 0)
               /\ Entries(s) + entries <= SegmentCapacity(s)
<1>3. SUFFICES Accounted
  BY <1>2, CountsAtOnce
<1>4. CASE UNCHANGED inserted /\ Alters(s, 0, 0, 0, 0)
  <2>1. inserted' = inserted + 0 /\ Alters(s, 0, 0, 0, 0) /\ Entries(s) + 0 <= SegmentCapacity(s)
    BY <1>1, <1>4
  <2>2. QED
    BY <2>1
<1>5. ASSUME NEW n \in Nat, NEW entries \in Int, entries = -n,
             UNCHANGED inserted, Alters(s, entries, n, 0, 0)
      PROVE  Accounted
  <2>1. /\ inserted' = inserted + 0 /\ entries <= 0 /\ 0 = entries + n
        /\ Entries(s) + entries <= SegmentCapacity(s)
    BY <1>1, <1>5
  <2>2. QED
    BY <1>5, <2>1
<1>6. CASE Lookup(g, s)
  <2>1. CASE Add(s, [hit |-> 1]) \/ Add(s, [miss |-> 1])
    BY <1>4, <1>6, <2>1, Alterations DEF Lookup
  <2>2. CASE Entries(s) > 0 /\ Add(s, [entries |-> -1, miss |-> 1, expired |-> 1])
    <3>1. Alters(s, -1, 1, 0, 0) /\ -1 \in Int /\ 1 \in Nat
      BY <1>1, <2>2, Alterations
    <3>2. QED
      BY <1>5, <1>6, <3>1 DEF Lookup
  <2>3. QED
    BY <1>6, <2>1, <2>2 DEF Lookup
<1>7. CASE SetEntry(g, s)
  <2>1. CASE Store(s)
    BY <2>1, StoreAlters
  <2>2. CASE Entries(s) > 0 /\ Insert(1) /\ Add(s, [expired |-> 1])
    <3>1. inserted' = inserted + 1 /\ Alters(s, 0, 1, 0, 0) /\ Entries(s) + 0 <= SegmentCapacity(s)
      BY <1>1, <2>2, Alterations DEF Insert
    <3>2. QED
      BY <1>1, <3>1
  <2>3. QED
    BY <1>7, <2>1, <2>2 DEF SetEntry
<1>8. CASE RemoveExpired(g, s)
  <2>1. PICK n \in 1..Entries(s) : Add(s, [entries |-> -n, expired |-> n])
    BY <1>8 DEF RemoveExpired
  <2>2. n \in Nat /\ n \in 0..Entries(s)
    BY <1>1
  <2>3. Alters(s, -n, n, 0, 0)
    BY <2>1, <2>2, Alterations
  <2>4. QED
    BY <1>5, <1>8, <2>3 DEF RemoveExpired
<1>9. CASE RecordShared(g, s)
  BY <1>4, <1>9, Alterations DEF RecordShared
<1>10. QED
  BY <1>6, <1>7, <1>8, <1>9

\* What a step that begins or continues an operation leaves alone, and the tasks it
\* may give the goroutine.
LEMMA OperationFacts ==
  ASSUME CacheTypes, NEW g \in Workers
  PROVE  /\ Start(g) =>
              /\ UNCHANGED <<optionVars, collection>> /\ begun' \in 0..MaxOps
              /\ task[g].removed = 0 /\ \A r : Loads(task[g], r) = 0
         /\ \A op : Continue(g, op) =>
              /\ UNCHANGED <<optionVars, collection>> /\ begun' \in 0..MaxOps
              /\ task[g].op = op
              /\ op \in {"delete", "clear", "pending"} => \A r : Loads(task[g], r) = 0
              /\ op \in {"loadFound", "loadNotFound"} =>
                   /\ task[g].removed = 0 /\ Loads(task[g], task[g].segment) = 1
                   /\ \A r : r # task[g].segment => Loads(task[g], r) = 0
              /\ op = "pending" => task[g].removed = 0
         /\ /\ task[g].segment \in SegmentIndexes /\ task[g].removed \in Nat
            /\ task[g].todo \in [SegmentIndexes -> Nat]
         /\ Idle.removed = 0 /\ \A r : Loads(Idle, r) = 0
         /\ UNCHANGED global =>
              /\ global' \in [GlobalFields -> Nat]
              /\ \A f \in GlobalFields : global[f] <= global'[f]
              /\ global'["cleared"] - global["cleared"] = 0
         /\ \A s \in SegmentIndexes : /\ Entries(s) \in Nat /\ Entries(s) <= SegmentCapacity(s)
                                      /\ SegmentCapacity(s) \in Nat
         /\ inserted \in Nat
<1>1. task[g] \in Tasks /\ (task[g].op \notin {"delete", "clear"} => task[g].removed = 0)
  BY TaskFacts DEF HonestTasks
<1>2. Start(g) =>
        /\ UNCHANGED <<optionVars, collection>> /\ begun' \in 0..MaxOps
        /\ task[g].removed = 0 /\ \A r : Loads(task[g], r) = 0
  BY <1>1, BoundsAssumption DEF Start, CacheTypes, Loads
<1>3. ASSUME NEW op, Continue(g, op)
      PROVE  /\ UNCHANGED <<optionVars, collection>> /\ begun' \in 0..MaxOps
             /\ task[g].op = op
             /\ op \in {"delete", "clear", "pending"} => \A r : Loads(task[g], r) = 0
             /\ op \in {"loadFound", "loadNotFound"} =>
                  /\ task[g].removed = 0 /\ Loads(task[g], task[g].segment) = 1
                  /\ \A r : r # task[g].segment => Loads(task[g], r) = 0
             /\ op = "pending" => task[g].removed = 0
  BY <1>1, <1>3 DEF Continue, CacheTypes, Loads
<1>4. /\ task[g].segment \in SegmentIndexes /\ task[g].removed \in Nat
      /\ task[g].todo \in [SegmentIndexes -> Nat]
  BY <1>1 DEF Tasks
<1>5. Idle.removed = 0 /\ \A r : Loads(Idle, r) = 0
  BY DEF Idle, Task, Loads
<1>6. UNCHANGED global =>
        /\ global' \in [GlobalFields -> Nat]
        /\ \A f \in GlobalFields : global[f] <= global'[f]
        /\ global'["cleared"] - global["cleared"] = 0
  <2>1. \A f \in GlobalFields : global[f] \in Nat
    BY DEF CacheTypes
  <2>2. "cleared" \in GlobalFields
    BY FieldFacts
  <2>3. QED
    BY <2>1, <2>2 DEF CacheTypes
<1>7. \A s \in SegmentIndexes : /\ Entries(s) \in Nat /\ Entries(s) <= SegmentCapacity(s)
                                /\ SegmentCapacity(s) \in Nat
  BY FieldFacts, CapacitiesAddUp DEF CacheTypes, Entries
<1>8. inserted \in Nat
  BY DEF CacheTypes
<1>9. QED
  BY <1>2, <1>3, <1>4, <1>5, <1>6, <1>7, <1>8

\* A step that changes nothing but its goroutine's task and the counters of the cache.
LEMMA CountsInTask ==
  ASSUME CacheTypes, NEW g \in Workers, UNCHANGED <<counts, inserted, optionVars, collection>>,
         begun' \in 0..MaxOps,
         global' \in [GlobalFields -> Nat], \A f \in GlobalFields : global[f] <= global'[f],
         NEW t \in HonestTasks, Become(g, t),
         (global'["cleared"] - global["cleared"]) + (t.removed - task[g].removed) = 0,
         \A r \in SegmentIndexes : Loads(t, r) <= Loads(task[g], r)
  PROVE  \E s \in SegmentIndexes : Counted(g, s)
<1>1. 0 \in SegmentIndexes
  BY TaskFacts
<1>2. Alters(0, 0, 0, 0, 0)
  BY <1>1, Alterations
<1>3. /\ Entries(0) + 0 <= SegmentCapacity(0) /\ Insert(0)
  BY <1>1, OperationFacts DEF Insert
<1>4. \A r \in SegmentIndexes : 0 + Loads(t, r) <= 0 + Loads(task[g], r)
  BY DEF Loads
<1>5. 0 = 0 + 0 + (global'["cleared"] - global["cleared"]) + (t.removed - task[g].removed)
  <2>1. /\ global["cleared"] \in Int /\ global'["cleared"] \in Int
        /\ t.removed \in Int /\ task[g].removed \in Int
    BY FieldFacts, OperationFacts DEF CacheTypes, HonestTasks, Tasks
  <2>2. QED
    BY <2>1
<1>6. Counted(g, 0)
  BY <1>1, <1>2, <1>3, <1>4, <1>5, CountsLater
<1>7. QED
  BY <1>1, <1>6

\* A Delete or Clear that begins, and the counting of a cleanup or of its worker, leave
\* the segments alone.
LEMMA BeginSteps ==
  ASSUME CacheTypes, NEW g \in Workers,
         BeginDelete(g) \/ BeginClear(g) \/ RecordCleanup(g) \/ RecordCleanupWorker(g)
           \/ RecordPending(g)
  PROVE  \E s \in SegmentIndexes : Counted(g, s)
<1>1. /\ global \in [GlobalFields -> Nat]
      /\ {"cleared", "cleanup", "workerRun", "workerPending"} \subseteq GlobalFields
  BY FieldFacts DEF CacheTypes
<1>2. \A name \in {"cleanup", "workerRun", "workerPending"} :
        global' = [global EXCEPT ![name] = @ + 1] =>
          /\ global' \in [GlobalFields -> Nat]
          /\ \A f \in GlobalFields : global[f] <= global'[f]
          /\ global'["cleared"] - global["cleared"] = 0
  BY <1>1
<1>3. ASSUME Start(g), UNCHANGED <<counts, inserted>>,
             global' \in [GlobalFields -> Nat], \A f \in GlobalFields : global[f] <= global'[f],
             global'["cleared"] - global["cleared"] = 0,
             NEW t \in HonestTasks, Become(g, t), t.removed = 0, \A r : Loads(t, r) = 0
      PROVE  \E s \in SegmentIndexes : Counted(g, s)
  <2>1. /\ UNCHANGED <<optionVars, collection>> /\ begun' \in 0..MaxOps
        /\ task[g].removed = 0 /\ \A r : Loads(task[g], r) = 0
    BY <1>3, OperationFacts
  <2>2. \A r \in SegmentIndexes : Loads(t, r) <= Loads(task[g], r)
    BY <1>3, <2>1
  <2>3. QED
    BY <1>3, <2>1, <2>2, CountsInTask
<1>4. CASE BeginDelete(g)
  <2>1. PICK keys \in [SegmentIndexes -> 0..BatchSize], first \in SegmentIndexes :
          Become(g, Task("delete", first, keys, 0))
    BY <1>4 DEF BeginDelete
  <2> DEFINE t == Task("delete", first, keys, 0)
  <2>2. t \in HonestTasks /\ t.removed = 0 /\ \A r : Loads(t, r) = 0
    BY BoundsAssumption DEF HonestTasks, Tasks, Task, Loads
  <2> HIDE DEF t
  <2>3. QED
    BY <1>3, <1>4, <2>1, <2>2, OperationFacts DEF BeginDelete, t
<1>5. CASE BeginClear(g)
  <2> DEFINE t == Task("clear", 0, [s \in SegmentIndexes |-> 1], 0)
  <2>1. t \in HonestTasks /\ t.removed = 0 /\ \A r : Loads(t, r) = 0
    BY TaskFacts DEF HonestTasks, Tasks, Task, Loads
  <2> HIDE DEF t
  <2>2. QED
    BY <1>3, <1>5, <2>1, OperationFacts DEF BeginClear, t
<1>6. CASE RecordCleanup(g)
  <2>1. Become(g, task[g]) /\ task[g] \in HonestTasks
    BY <1>6, TaskFacts DEF RecordCleanup, Become, CacheTypes
  <2>2. task[g].removed = 0 /\ \A r : Loads(task[g], r) = 0
    BY <1>6, OperationFacts DEF RecordCleanup
  <2>3. QED
    BY <1>2, <1>3, <1>6, <2>1, <2>2 DEF RecordCleanup
<1>7. CASE RecordCleanupWorker(g)
  <2> DEFINE t == Task("pending", 0, Nothing, 0)
  <2>1. t \in HonestTasks /\ t.removed = 0 /\ \A r : Loads(t, r) = 0
    BY TaskFacts DEF HonestTasks, Tasks, Task, Loads
  <2> HIDE DEF t
  <2>2. CASE Become(g, t)
    BY <1>2, <1>3, <1>7, <2>1, <2>2 DEF RecordCleanupWorker
  <2>3. CASE UNCHANGED task
    <3>1. Become(g, task[g]) /\ task[g] \in HonestTasks
      BY <2>3, TaskFacts DEF Become, CacheTypes
    <3>2. task[g].removed = 0 /\ \A r : Loads(task[g], r) = 0
      BY <1>7, OperationFacts DEF RecordCleanupWorker
    <3>3. QED
      BY <1>2, <1>3, <1>7, <3>1, <3>2 DEF RecordCleanupWorker
  <2>4. QED
    BY <1>7, <2>2, <2>3 DEF RecordCleanupWorker, t
<1>8. CASE RecordPending(g)
  <2>1. Become(g, Idle) /\ Continue(g, "pending") /\ UNCHANGED <<counts, inserted>>
    BY <1>8 DEF RecordPending
  <2>2. /\ UNCHANGED <<optionVars, collection>> /\ begun' \in 0..MaxOps
        /\ task[g].removed = 0 /\ \A r : Loads(task[g], r) = 0
    BY <2>1, OperationFacts
  <2>3. Idle \in HonestTasks /\ Idle.removed = 0 /\ \A r : Loads(Idle, r) = 0
    BY TaskFacts, OperationFacts
  <2>4. /\ (global'["cleared"] - global["cleared"]) + (Idle.removed - task[g].removed) = 0
        /\ \A r \in SegmentIndexes : Loads(Idle, r) <= Loads(task[g], r)
    BY <1>2, <1>8, <2>2, <2>3 DEF RecordPending
  <2>5. QED
    BY <1>2, <1>8, <2>1, <2>2, <2>3, <2>4, CountsInTask DEF RecordPending
<1>9. QED
  BY <1>4, <1>5, <1>6, <1>7, <1>8

\* Removals, which count when they are over.
LEMMA RemovalSteps ==
  ASSUME CacheTypes, NEW g \in Workers, NEW s \in SegmentIndexes,
         DeleteKey(g, s) \/ GetAndDelete(g, s) \/ ClearSegment(g, s)
  PROVE  Counted(g, s)
<1>1. /\ Entries(s) \in Nat /\ Entries(s) <= SegmentCapacity(s) /\ SegmentCapacity(s) \in Nat
      /\ inserted \in Nat
  BY OperationFacts
<1>2. UNCHANGED <<global, inserted>> /\ Insert(0)
  BY <1>1 DEF DeleteKey, GetAndDelete, ClearSegment, Insert
<1>3. /\ global' \in [GlobalFields -> Nat]
      /\ \A f \in GlobalFields : global[f] <= global'[f]
      /\ global'["cleared"] - global["cleared"] = 0
  BY <1>2, OperationFacts
<1>4. ASSUME NEW n \in 0..Entries(s), NEW entries \in Int, entries + n = 0,
             Alters(s, entries, 0, 0, 0), NEW t \in HonestTasks, Become(g, t),
             t.removed = task[g].removed + n, \A r : Loads(t, r) = 0, \A r : Loads(task[g], r) = 0,
             UNCHANGED <<optionVars, collection>>, begun' \in 0..MaxOps
      PROVE  Counted(g, s)
  <2>1. /\ entries <= 0 /\ Entries(s) + entries <= SegmentCapacity(s)
        /\ 0 = entries + 0 + (global'["cleared"] - global["cleared"]) + (t.removed - task[g].removed)
    BY <1>1, <1>3, <1>4, OperationFacts
  <2>2. /\ 0 + Loads(t, s) <= 0 + Loads(task[g], s)
        /\ \A r \in SegmentIndexes \ {s} : Loads(t, r) <= Loads(task[g], r)
    BY <1>4
  <2>3. 0 \in Nat /\ 0 \in Int /\ Insert(0)
    BY <1>2
  <2>4. /\ global' \in [GlobalFields -> Nat]
        /\ \A f \in GlobalFields : global[f] <= global'[f]
    BY <1>3
  <2>5. /\ UNCHANGED <<optionVars, collection>> /\ begun' \in 0..MaxOps
        /\ t \in HonestTasks /\ Become(g, t) /\ entries \in Int /\ Alters(s, entries, 0, 0, 0)
    BY <1>4
  <2>6. QED
    BY <2>1, <2>2, <2>3, <2>4, <2>5, CountsLater
<1>5. CASE DeleteKey(g, s)
  <2> DEFINE rest == [task[g].todo EXCEPT ![s] = @ - 1]
             deleted(n) == Task("delete", task[g].segment, rest, task[g].removed + n)
  <2>1. /\ UNCHANGED <<optionVars, collection>> /\ begun' \in 0..MaxOps
        /\ \A r : Loads(task[g], r) = 0
    BY <1>5, OperationFacts DEF DeleteKey
  <2>2. rest \in [SegmentIndexes -> Nat]
    BY <1>5, OperationFacts DEF DeleteKey, Visits
  <2> HIDE DEF rest
  <2>3. \A n \in Nat : /\ deleted(n) \in HonestTasks /\ deleted(n).removed = task[g].removed + n
                       /\ \A r : Loads(deleted(n), r) = 0
    BY <2>2, OperationFacts DEF HonestTasks, Tasks, Task, Loads
  <2> HIDE DEF deleted
  <2>4. CASE Entries(s) > 0 /\ Add(s, [entries |-> -1]) /\ Become(g, deleted(1))
    <3>1. Alters(s, -1, 0, 0, 0) /\ 1 \in 0..Entries(s) /\ (-1) + 1 = 0
      BY <1>1, <2>4, Alterations
    <3>2. QED
      BY <1>4, <2>1, <2>3, <2>4, <3>1
  <2>5. CASE UNCHANGED counts /\ Become(g, deleted(0))
    <3>1. Alters(s, 0, 0, 0, 0)
      BY <2>5, Alterations
    <3>2. 0 \in 0..Entries(s) /\ 0 \in Int /\ 0 + 0 = 0
      BY <1>1
    <3>3. deleted(0) \in HonestTasks /\ deleted(0).removed = task[g].removed + 0
          /\ \A r : Loads(deleted(0), r) = 0
      BY <2>3
    <3>4. QED
      BY <1>4, <2>1, <2>5, <3>1, <3>2, <3>3
  <2>6. QED
    BY <1>5, <2>4, <2>5 DEF DeleteKey, deleted, rest
<1>6. CASE GetAndDelete(g, s)
  <2>1. /\ UNCHANGED <<optionVars, collection>> /\ begun' \in 0..MaxOps
        /\ task[g].removed = 0 /\ \A r : Loads(task[g], r) = 0
    BY <1>6, OperationFacts DEF GetAndDelete
  <2> DEFINE t == Task("delete", s, Nothing, 1)
  <2>2. t \in HonestTasks /\ t.removed = 1 /\ \A r : Loads(t, r) = 0
    BY TaskFacts DEF HonestTasks, Tasks, Task, Loads
  <2> HIDE DEF t
  <2>3. CASE Add(s, [entries |-> -1]) /\ Become(g, t)
    <3>1. Alters(s, -1, 0, 0, 0) /\ 1 \in 0..Entries(s) /\ (-1) + 1 = 0
      BY <1>1, <1>6, <2>3, Alterations DEF GetAndDelete
    <3>2. t.removed = task[g].removed + 1
      BY <2>1, <2>2
    <3>3. QED
      BY <1>4, <2>1, <2>2, <2>3, <3>1, <3>2
  <2>4. CASE Add(s, [entries |-> -1, expired |-> 1]) /\ UNCHANGED task
    <3>1. Alters(s, -1, 1, 0, 0)
      BY <1>1, <1>6, <2>4, Alterations DEF GetAndDelete
    <3>2. inserted' = inserted + 0 /\ Entries(s) + (-1) <= SegmentCapacity(s) /\ 0 = (-1) + 1
      BY <1>1, <1>2
    <3>3. QED
      BY <1>2, <1>6, <2>4, <3>1, <3>2, CountsAtOnce DEF GetAndDelete
  <2>5. QED
    BY <1>6, <2>3, <2>4 DEF GetAndDelete, t
<1>7. CASE ClearSegment(g, s)
  <2>1. /\ UNCHANGED <<optionVars, collection>> /\ begun' \in 0..MaxOps
        /\ task[g].op = "clear" /\ \A r : Loads(task[g], r) = 0
    BY <1>7, OperationFacts DEF ClearSegment
  <2> DEFINE n == Entries(s)
             t == [task[g] EXCEPT !.todo[s] = 0, !.removed = @ + n]
  <2>2. task[g] \in Tasks /\ n \in Nat
    BY <1>1, TaskFacts DEF HonestTasks
  <2> HIDE DEF n
  <2>3. t \in Tasks /\ t.op = "clear" /\ t.removed = task[g].removed + n
    <3> DEFINE rest == [task[g].todo EXCEPT ![s] = 0]
    <3>1. rest \in [SegmentIndexes -> Nat]
      BY OperationFacts
    <3>2. task[g].removed + n \in Nat /\ task[g].segment \in SegmentIndexes
      BY <2>2, OperationFacts
    <3>3. t = [task[g] EXCEPT !.todo = rest, !.removed = task[g].removed + n]
      BY <2>2 DEF Tasks
    <3> HIDE DEF rest, t
    <3>4. t = [op |-> task[g].op, segment |-> task[g].segment, todo |-> rest,
               removed |-> task[g].removed + n]
      BY <2>2, <3>3 DEF Tasks
    <3>5. QED
      BY <2>1, <3>1, <3>2, <3>4 DEF Tasks
  <2>4. t \in HonestTasks /\ \A r : Loads(t, r) = 0
    BY <2>3 DEF HonestTasks, Loads
  <2> HIDE DEF t
  <2>5. Alters(s, -n, 0, 0, 0) /\ n \in 0..Entries(s) /\ -n \in Int /\ (-n) + n = 0
    <3>1. Add(s, [entries |-> -n]) /\ n \in 0..Entries(s)
      BY <1>1, <1>7 DEF ClearSegment, n
    <3>2. Alters(s, -n, 0, 0, 0)
      BY <3>1, Alterations
    <3>3. QED
      BY <2>2, <3>1, <3>2
  <2>6. Become(g, t)
    BY <1>7 DEF ClearSegment, n, t
  <2>7. QED
    BY <1>4, <2>1, <2>3, <2>4, <2>5, <2>6
<1>8. QED
  BY <1>5, <1>6, <1>7

\* A Delete or Clear that has removed its entries counts them and ends: what its task
\* held goes to the counter.
LEMMA RecordRemovalSteps ==
  ASSUME CacheTypes, NEW g \in Workers, RecordDelete(g) \/ RecordClear(g)
  PROVE  \E s \in SegmentIndexes : Counted(g, s)
<1>1. /\ UNCHANGED <<optionVars, collection>> /\ begun' \in 0..MaxOps
      /\ \A r : Loads(task[g], r) = 0
  BY OperationFacts DEF RecordDelete, RecordClear
<1>2. /\ task[g].segment \in SegmentIndexes /\ task[g].removed \in Nat
      /\ Idle \in HonestTasks /\ Idle.removed = 0 /\ \A r : Loads(Idle, r) = 0
      /\ inserted \in Nat
  BY OperationFacts, TaskFacts
<1>3. CASE RecordDelete(g)
  <2> DEFINE s == task[g].segment
             n == task[g].removed
  <2>1. Alters(s, 0, n, 0, 0) /\ Insert(0) /\ Become(g, Idle)
    BY <1>2, <1>3, Alterations DEF RecordDelete, Insert
  <2>2. UNCHANGED global
    BY <1>3 DEF RecordDelete
  <2>3. /\ global' \in [GlobalFields -> Nat]
        /\ \A f \in GlobalFields : global[f] <= global'[f]
        /\ global'["cleared"] - global["cleared"] = 0
        /\ Entries(s) + 0 <= SegmentCapacity(s)
    BY <1>2, <2>2, OperationFacts
  <2>4. /\ 0 = 0 + n + (global'["cleared"] - global["cleared"]) + (Idle.removed - n)
        /\ 0 + Loads(Idle, s) <= 0 + Loads(task[g], s)
        /\ \A r \in SegmentIndexes \ {s} : Loads(Idle, r) <= Loads(task[g], r)
    BY <1>1, <1>2, <2>3
  <2> HIDE DEF s
  <2>5. Counted(g, s)
    BY <1>1, <1>2, <2>1, <2>3, <2>4, CountsLater DEF s
  <2>6. QED
    BY <1>2, <2>5 DEF s
<1>4. CASE RecordClear(g)
  <2>1. global' = [global EXCEPT !["cleared"] = @ + task[g].removed]
    BY <1>4 DEF RecordClear
  <2>2. global \in [GlobalFields -> Nat] /\ "cleared" \in GlobalFields
    BY FieldFacts DEF CacheTypes
  <2>3. /\ global' \in [GlobalFields -> Nat]
        /\ \A f \in GlobalFields : global[f] <= global'[f]
        /\ global'["cleared"] - global["cleared"] = task[g].removed
    BY <1>2, <2>1, <2>2
  <2>4. /\ (global'["cleared"] - global["cleared"]) + (Idle.removed - task[g].removed) = 0
        /\ \A r \in SegmentIndexes : Loads(Idle, r) <= Loads(task[g], r)
    BY <1>1, <1>2, <2>3
  <2>5. QED
    BY <1>1, <1>2, <1>4, <2>3, <2>4, CountsInTask DEF RecordClear
<1>5. QED
  BY <1>3, <1>4

\* A load that returns is counted, and one that found or did not find is then in its
\* task until it is published.
LEMMA LoadSteps ==
  ASSUME CacheTypes, NEW g \in Workers, NEW s \in SegmentIndexes, RecordLoad(g, s)
  PROVE  Counted(g, s)
<1>1. /\ UNCHANGED <<optionVars, collection>> /\ begun' \in 0..MaxOps
      /\ task[g].removed = 0 /\ \A r : Loads(task[g], r) = 0
  BY OperationFacts DEF RecordLoad
<1>2. UNCHANGED <<global, inserted>> /\ Insert(0)
  BY OperationFacts DEF RecordLoad, Insert
<1>3. /\ global' \in [GlobalFields -> Nat]
      /\ \A f \in GlobalFields : global[f] <= global'[f]
      /\ global'["cleared"] - global["cleared"] = 0
      /\ Entries(s) + 0 <= SegmentCapacity(s) /\ inserted \in Nat
  BY <1>2, OperationFacts
<1>4. ASSUME NEW op \in {"loadFound", "loadNotFound"}, Become(g, Task(op, s, Nothing, 0)),
             Alters(s, 0, 0, 1, 0)
      PROVE  Counted(g, s)
  <2> DEFINE t == Task(op, s, Nothing, 0)
  <2>1. /\ t \in HonestTasks /\ t.removed = 0 /\ Loads(t, s) = 1
        /\ \A r \in SegmentIndexes \ {s} : Loads(t, r) = 0
    BY TaskFacts DEF HonestTasks, Tasks, Task, Loads
  <2> HIDE DEF t
  <2>2. /\ 0 = 0 + 0 + (global'["cleared"] - global["cleared"]) + (t.removed - task[g].removed)
        /\ 0 + Loads(t, s) <= 1 + Loads(task[g], s)
        /\ \A r \in SegmentIndexes \ {s} : Loads(t, r) <= Loads(task[g], r)
    BY <1>1, <1>3, <2>1
  <2>3. Become(g, t)
    BY <1>4 DEF t
  <2>4. QED
    BY <1>1, <1>2, <1>3, <1>4, <2>1, <2>2, <2>3, CountsLater
<1>5. CASE Add(s, [loadFound |-> 1]) /\ Become(g, Task("loadFound", s, Nothing, 0))
  BY <1>4, <1>5, Alterations
<1>6. CASE Add(s, [loadNotFound |-> 1]) /\ Become(g, Task("loadNotFound", s, Nothing, 0))
  BY <1>4, <1>6, Alterations
<1>7. CASE Add(s, [loadError |-> 1]) /\ UNCHANGED task
  <2>1. Start(g) /\ Alters(s, 0, 0, 0, 0)
    BY <1>7, Alterations DEF RecordLoad
  <2>2. inserted' = inserted + 0 /\ 0 = 0 + 0
    BY <1>2, <1>3
  <2>3. QED
    BY <1>2, <1>3, <1>7, <2>1, <2>2, CountsAtOnce
<1>8. QED
  BY <1>5, <1>6, <1>7 DEF RecordLoad

\* A load in a task is published, or counted as superseded: either way it leaves the task.
LEMMA EndOfLoadSteps ==
  ASSUME CacheTypes, NEW g \in Workers, Publish(g) \/ RecordLoadSuperseded(g)
  PROVE  Counted(g, task[g].segment)
<1> DEFINE s == task[g].segment
<1>1. /\ s \in SegmentIndexes /\ Idle \in HonestTasks /\ Idle.removed = 0
      /\ \A r : Loads(Idle, r) = 0
  BY OperationFacts, TaskFacts
<1>2. Continue(g, "loadFound") \/ Continue(g, "loadNotFound")
  BY DEF Publish, RecordLoadSuperseded
<1>3. /\ UNCHANGED <<optionVars, collection>> /\ begun' \in 0..MaxOps
      /\ task[g].removed = 0 /\ Loads(task[g], s) = 1
      /\ \A r : r # s => Loads(task[g], r) = 0
  BY <1>2, OperationFacts
<1>4. UNCHANGED global /\ Become(g, Idle)
  BY DEF Publish, RecordLoadSuperseded
<1> HIDE DEF s
<1>5. /\ global' \in [GlobalFields -> Nat]
      /\ \A f \in GlobalFields : global[f] <= global'[f]
      /\ global'["cleared"] - global["cleared"] = 0
      /\ Entries(s) + 0 <= SegmentCapacity(s) /\ inserted \in Nat
  BY <1>1, <1>4, OperationFacts
<1>6. ASSUME NEW n \in Nat, NEW entries \in Nat, NEW out \in Nat, NEW superseded \in {0, 1},
             Insert(n), n = entries + out, Alters(s, entries, out, 0, superseded),
             Entries(s) + entries <= SegmentCapacity(s)
      PROVE  Counted(g, s)
  <2>1. /\ n = entries + out + (global'["cleared"] - global["cleared"]) + (Idle.removed - task[g].removed)
        /\ superseded + Loads(Idle, s) <= 0 + Loads(task[g], s)
        /\ \A r \in SegmentIndexes \ {s} : Loads(Idle, r) <= Loads(task[g], r)
        /\ entries <= n
    BY <1>1, <1>3, <1>5, <1>6
  <2>2. QED
    BY <1>1, <1>3, <1>4, <1>5, <1>6, <2>1, CountsLater
<1>7. CASE Publish(g) /\ Store(s)
  <2>1. PICK n \in Nat, entries \in Nat, out \in Nat :
          /\ inserted' = inserted + n /\ n = entries + out
          /\ Alters(s, entries, out, 0, 0)
          /\ Entries(s) + entries <= SegmentCapacity(s)
    BY <1>1, <1>7, StoreAlters
  <2>2. Insert(n)
    BY <2>1 DEF Insert
  <2>3. QED
    BY <1>6, <2>1, <2>2 DEF s
<1>8. CASE UNCHANGED <<counts, inserted>>
  <2>1. Insert(0) /\ Alters(s, 0, 0, 0, 0) /\ 0 = 0 + 0
    BY <1>1, <1>5, <1>8, Alterations DEF Insert
  <2>2. QED
    BY <1>5, <1>6, <2>1 DEF s
<1>9. CASE RecordLoadSuperseded(g)
  <2>1. Insert(0) /\ Alters(s, 0, 0, 0, 1) /\ 0 = 0 + 0
    BY <1>1, <1>5, <1>9, Alterations DEF RecordLoadSuperseded, Insert, s
  <2>2. QED
    BY <1>5, <1>6, <2>1 DEF s
<1>10. QED
  BY <1>7, <1>8, <1>9 DEF Publish, s

\* Every step of an operation counts what it does.
LEMMA UseCounts ==
  ASSUME CacheTypes, NEW g \in Workers, Use(g)
  PROVE  \E s \in SegmentIndexes : Counted(g, s)
BY InstantSteps, RemovalSteps, RecordRemovalSteps, LoadSteps, EndOfLoadSteps, BeginSteps,
   OperationFacts DEF Use
-------------------------------------------------------------------------------
(***************************************************************************)
(* Sums over some of the segments.                                         *)
(***************************************************************************)

\* The sum of h over the members of M.
Part(h, M) == SumFunction([s \in DOMAIN h |-> IF s \in M THEN h[s] ELSE 0])

\* The part of a sum: a natural, 0 for no element, the sum for all of them, and more by
\* one summand for one element more.
LEMMA PartFacts ==
  ASSUME NEW S, IsFiniteSet(S), NEW h \in [S -> Nat]
  PROVE  /\ \A M : Part(h, M) \in Nat
         /\ Part(h, {}) = 0 /\ Part(h, S) = SumFunction(h)
         /\ \A M : \A s \in S \ M : Part(h, M \union {s}) = Part(h, M) + h[s]
<1> DEFINE masked(M) == [s \in S |-> IF s \in M THEN h[s] ELSE 0]
<1>1. \A M : Part(h, M) = SumFunction(masked(M)) /\ masked(M) \in [S -> Int]
  BY DEF Part
<1>2. \A M : \A s \in S : masked(M)[s] >= 0
  OBVIOUS
<1>3. ASSUME NEW M PROVE Part(h, M) \in Nat
  <2> HIDE DEF masked
  <2>1. SumFunction(masked(M)) \in Int /\ SumFunction(masked(M)) >= 0
    BY <1>1, <1>2, SumType
  <2>2. QED
    BY <1>1, <2>1
<1>4. Part(h, S) = SumFunction(h)
  <2>1. masked(S) = h
    OBVIOUS
  <2> HIDE DEF masked
  <2>2. QED
    BY <1>1, <2>1
<1>5. Part(h, {}) = 0
  <2>1. masked({}) = [s \in S |-> 0]
    OBVIOUS
  <2> HIDE DEF masked
  <2>2. SumFunction(masked({})) = 0 * Cardinality(S)
    BY <2>1, SumOfSame
  <2>3. Cardinality(S) \in Nat
    BY FS_CardinalityType
  <2>4. QED
    BY <1>1, <2>2, <2>3
<1>6. ASSUME NEW M, NEW s \in S \ M PROVE Part(h, M \union {s}) = Part(h, M) + h[s]
  <2> DEFINE N == M \union {s}
  <2>1. /\ \A r \in S \ {s} : masked(N)[r] = masked(M)[r]
        /\ masked(N)[s] = h[s] /\ masked(M)[s] = 0
    OBVIOUS
  <2> HIDE DEF masked, N
  <2>2. SumFunction(masked(N)) = SumFunction(masked(M)) + (masked(N)[s] - masked(M)[s])
    BY <1>1, <2>1, SumChanges
  <2>3. Part(h, N) = Part(h, M) + h[s]
    BY <1>1, <2>1, <2>2
  <2>4. QED
    BY <2>3 DEF N
<1>7. QED
  BY <1>3, <1>4, <1>5, <1>6

\* A change of one summand changes the parts that contain it.
LEMMA PartChanges ==
  ASSUME NEW S, IsFiniteSet(S), NEW h \in [S -> Nat], NEW k \in [S -> Nat], NEW s \in S,
         \A r \in S \ {s} : k[r] = h[r]
  PROVE  \A M : Part(k, M) = Part(h, M) + (IF s \in M THEN k[s] - h[s] ELSE 0)
<1> SUFFICES ASSUME NEW M PROVE Part(k, M) = Part(h, M) + (IF s \in M THEN k[s] - h[s] ELSE 0)
  OBVIOUS
<1> DEFINE hm == [r \in S |-> IF r \in M THEN h[r] ELSE 0]
           km == [r \in S |-> IF r \in M THEN k[r] ELSE 0]
<1>1. hm \in [S -> Int] /\ km \in [S -> Int] /\ \A r \in S \ {s} : km[r] = hm[r]
  OBVIOUS
<1>2. Part(h, M) = SumFunction(hm) /\ Part(k, M) = SumFunction(km)
  BY DEF Part
<1>3. km[s] - hm[s] = IF s \in M THEN k[s] - h[s] ELSE 0
  OBVIOUS
<1> HIDE DEF hm, km
<1>4. SumFunction(km) = SumFunction(hm) + (km[s] - hm[s])
  BY <1>1, SumChanges
<1>5. QED
  BY <1>2, <1>3, <1>4

\* The values of a counter in the segments, and how many entries these may hold.
Counter(f) == [s \in SegmentIndexes |-> counts[s][f]]
Capacities == [s \in SegmentIndexes |-> SegmentCapacity(s)]

\* In a cache that is built, the counters, the capacities and the totals are naturals,
\* and the capacities add up to the budget.
LEMMA CounterFacts ==
  ASSUME CacheTypes
  PROVE  /\ IsFiniteSet(SegmentIndexes)
         /\ Capacities \in [SegmentIndexes -> Nat]
         /\ SumFunction(Capacities) = settings.maxEntries
         /\ \A f \in SegmentFields : /\ Counter(f) \in [SegmentIndexes -> Nat]
                                     /\ Total(f) = Part(Counter(f), SegmentIndexes)
                                     /\ f \notin GlobalFields
         /\ \A f \in GlobalFields : Total(f) = global[f]
         /\ \A f \in Fields : Total(f) \in Nat
<1>1. IsFiniteSet(SegmentIndexes)
  <2>1. settings.segmentCount \in Nat
    BY DEF CacheTypes, OptionsInv, Settings
  <2>2. QED
    BY <2>1, FS_Interval DEF SegmentIndexes
<1>2. Capacities \in [SegmentIndexes -> Nat] /\ SumFunction(Capacities) = settings.maxEntries
  BY CapacitiesAddUp DEF CacheTypes, Capacities
<1>3. ASSUME NEW f \in SegmentFields
      PROVE  /\ Counter(f) \in [SegmentIndexes -> Nat]
             /\ Total(f) = Part(Counter(f), SegmentIndexes)
             /\ f \notin GlobalFields
  <2>1. Counter(f) \in [SegmentIndexes -> Nat]
    BY DEF CacheTypes, Counter
  <2>2. f \notin GlobalFields
    BY FieldFacts
  <2>3. Total(f) = SumFunction(Counter(f))
    BY <2>2 DEF Total, Counter
  <2>4. QED
    BY <1>1, <2>1, <2>2, <2>3, PartFacts
<1>4. \A f \in GlobalFields : Total(f) = global[f] /\ Total(f) \in Nat
  BY DEF Total, CacheTypes
<1>5. \A f \in SegmentFields : Total(f) \in Nat
  BY <1>1, <1>3, PartFacts
<1>6. QED
  BY <1>1, <1>2, <1>3, <1>4, <1>5 DEF Fields

\* After a step of an operation the cache is well-typed, and the sum of a counter over
\* some segments has changed by as much as the counter of the segment it was in.
LEMMA CountedFacts ==
  ASSUME CacheTypes, NEW g \in Workers, NEW s \in SegmentIndexes, Counted(g, s)
  PROVE  /\ CacheTypes' /\ SegmentIndexes' = SegmentIndexes
         /\ \A f \in SegmentFields : \A M :
              Part(Counter(f), M)' = Part(Counter(f), M)
                                       + (IF s \in M THEN counts'[s][f] - counts[s][f] ELSE 0)
         /\ \A f \in SegmentFields : Total(f)' = Total(f) + (counts'[s][f] - counts[s][f])
         /\ \A f \in GlobalFields : Total(f)' = global'[f]
<1>1. /\ SegmentIndexes' = SegmentIndexes /\ settings' = settings /\ built' = built
      /\ \A r \in SegmentIndexes : SegmentCapacity(r)' = SegmentCapacity(r)
      /\ Tasks' = Tasks /\ HonestTasks' = HonestTasks
  BY DEF Counted, optionVars, SegmentIndexes, SegmentCapacity, Tasks, HonestTasks
<1>2. /\ counts' \in [SegmentIndexes -> [SegmentFields -> Nat]]
      /\ \A r \in SegmentIndexes \ {s} : counts'[r] = counts[r]
      /\ counts'[s]["entries"] <= SegmentCapacity(s)
  BY DEF Counted, Alters
<1>3. CacheTypes'
  BY <1>1, <1>2 DEF CacheTypes, Counted, OptionsInv, Settings
<1>4. ASSUME NEW f \in SegmentFields, NEW M
      PROVE  Part(Counter(f), M)' = Part(Counter(f), M)
                                       + (IF s \in M THEN counts'[s][f] - counts[s][f] ELSE 0)
  <2> DEFINE h == Counter(f)
             k == [r \in SegmentIndexes |-> counts'[r][f]]
  <2>1. h \in [SegmentIndexes -> Nat] /\ IsFiniteSet(SegmentIndexes)
    BY CounterFacts
  <2>2. k \in [SegmentIndexes -> Nat] /\ k = Counter(f)'
    BY <1>1, <1>2 DEF Counter
  <2>3. \A r \in SegmentIndexes \ {s} : k[r] = h[r]
    BY <1>2 DEF Counter
  <2>4. k[s] = counts'[s][f] /\ h[s] = counts[s][f]
    BY DEF Counter
  <2> HIDE DEF h, k
  <2>5. Part(k, M) = Part(h, M) + (IF s \in M THEN k[s] - h[s] ELSE 0)
    BY <2>1, <2>2, <2>3, PartChanges
  <2>6. Part(Counter(f), M)' = Part(k, M)
    BY <2>2 DEF Part
  <2>7. QED
    BY <2>4, <2>5, <2>6 DEF h
<1>5. ASSUME NEW f \in SegmentFields
      PROVE  Total(f)' = Total(f) + (counts'[s][f] - counts[s][f])
  <2> DEFINE k == [r \in SegmentIndexes |-> counts'[r][f]]
  <2>1. k \in [SegmentIndexes -> Nat] /\ k = Counter(f)'
    BY <1>1, <1>2 DEF Counter
  <2>2. Total(f)' = SumFunction(k)
    BY <1>1, FieldFacts DEF Total
  <2> HIDE DEF k
  <2>3. SumFunction(k) = Part(k, SegmentIndexes)
    BY <2>1, CounterFacts, PartFacts
  <2>4. Part(Counter(f), SegmentIndexes)' = Part(k, SegmentIndexes)
    BY <1>1, <2>1 DEF Part
  <2>5. Part(Counter(f), SegmentIndexes)'
          = Part(Counter(f), SegmentIndexes) + (counts'[s][f] - counts[s][f])
    <3>1. \A M : Part(k, M) = Part(Counter(f), M)
                               + (IF s \in M THEN counts'[s][f] - counts[s][f] ELSE 0)
      BY <1>4, <2>1 DEF Part
    <3>2. Part(k, SegmentIndexes) = Part(Counter(f), SegmentIndexes) + (counts'[s][f] - counts[s][f])
      BY <3>1
    <3>3. QED
      BY <2>4, <3>2
  <2>6. QED
    BY <2>2, <2>3, <2>4, <2>5, CounterFacts
<1>6. \A f \in GlobalFields : Total(f)' = global'[f]
  BY DEF Total
<1>7. QED
  BY <1>1, <1>3, <1>4, <1>5, <1>6
-------------------------------------------------------------------------------
(***************************************************************************)
(* Everything is counted once.                                             *)
(***************************************************************************)
Held == SumFunction([h \in Workers |-> task[h].removed])
LoadsIn(s) == SumFunction([h \in Workers |-> Loads(task[h], s)])

\* What goes into the cache is in it, in a counter or in a task; and every load that is
\* not over may still be superseded.
CountInv ==
  /\ inserted = Total("entries") + Total("evicted") + Total("expired") + Total("deleted")
                  + Total("cleared") + Held
  /\ \A s \in SegmentIndexes :
       counts[s]["loadSuperseded"] + LoadsIn(s) <= counts[s]["loadFound"] + counts[s]["loadNotFound"]

\* What tasks hold, and the loads they are about to publish, are naturals.
LEMMA TaskSums ==
  ASSUME CacheTypes
  PROVE  Held \in Nat /\ \A s : LoadsIn(s) \in Nat
<1>1. IsFiniteSet(Workers) /\ \A h \in Workers : task[h].removed \in Nat
  BY BoundsAssumption DEF CacheTypes, HonestTasks, Tasks
<1>2. Held \in Nat
  <2> DEFINE k == [h \in Workers |-> task[h].removed]
  <2>1. k \in [Workers -> Int] /\ \A h \in Workers : k[h] >= 0
    BY <1>1
  <2> HIDE DEF k
  <2>2. SumFunction(k) \in Int /\ SumFunction(k) >= 0
    BY <1>1, <2>1, SumType
  <2>3. QED
    BY <2>2 DEF Held, k
<1>3. ASSUME NEW s PROVE LoadsIn(s) \in Nat
  <2> DEFINE k == [h \in Workers |-> Loads(task[h], s)]
  <2>1. k \in [Workers -> Int] /\ \A h \in Workers : k[h] >= 0
    BY DEF Loads
  <2> HIDE DEF k
  <2>2. SumFunction(k) \in Int /\ SumFunction(k) >= 0
    BY <1>1, <2>1, SumType
  <2>3. QED
    BY <2>2 DEF LoadsIn, k
<1>4. QED
  BY <1>2, <1>3

\* A step of g changes the sums over tasks by what it changes in its own.
LEMMA TaskSumsChange ==
  ASSUME CacheTypes, NEW g \in Workers, task' \in [Workers -> HonestTasks],
         \A h \in Workers \ {g} : task'[h] = task[h]
  PROVE  /\ Held' = Held + (task'[g].removed - task[g].removed)
         /\ \A s : LoadsIn(s)' = LoadsIn(s) + (Loads(task'[g], s) - Loads(task[g], s))
<1>1. /\ IsFiniteSet(Workers)
      /\ \A h \in Workers : task[h].removed \in Nat /\ task'[h].removed \in Nat
  BY BoundsAssumption DEF CacheTypes, HonestTasks, Tasks
<1>2. Held' = Held + (task'[g].removed - task[g].removed)
  <2> DEFINE k == [h \in Workers |-> task[h].removed]
             m == [h \in Workers |-> task'[h].removed]
  <2>1. /\ k \in [Workers -> Int] /\ m \in [Workers -> Int] /\ \A h \in Workers \ {g} : m[h] = k[h]
        /\ m[g] = task'[g].removed /\ k[g] = task[g].removed
    BY <1>1
  <2>2. Held = SumFunction(k) /\ Held' = SumFunction(m)
    BY DEF Held
  <2> HIDE DEF k, m
  <2>3. SumFunction(m) = SumFunction(k) + (m[g] - k[g])
    BY <1>1, <2>1, SumChanges
  <2>4. QED
    BY <2>1, <2>2, <2>3
<1>3. ASSUME NEW s
      PROVE  LoadsIn(s)' = LoadsIn(s) + (Loads(task'[g], s) - Loads(task[g], s))
  <2> DEFINE k == [h \in Workers |-> Loads(task[h], s)]
             m == [h \in Workers |-> Loads(task'[h], s)]
  <2>1. /\ k \in [Workers -> Int] /\ m \in [Workers -> Int] /\ \A h \in Workers \ {g} : m[h] = k[h]
        /\ m[g] = Loads(task'[g], s) /\ k[g] = Loads(task[g], s)
    BY DEF Loads
  <2>2. LoadsIn(s) = SumFunction(k) /\ LoadsIn(s)' = SumFunction(m)
    BY DEF LoadsIn, Loads
  <2> HIDE DEF k, m
  <2>3. SumFunction(m) = SumFunction(k) + (m[g] - k[g])
    BY <1>1, <2>1, SumChanges
  <2>4. QED
    BY <2>1, <2>2, <2>3
<1>4. QED
  BY <1>2, <1>3

\* An operation's step keeps the accounts.
LEMMA CountedKeepsCount ==
  ASSUME CacheTypes, CountInv, NEW g \in Workers, NEW s \in SegmentIndexes, Counted(g, s)
  PROVE  CountInv'
<1>1. /\ \A f \in SegmentFields : Total(f)' = Total(f) + (counts'[s][f] - counts[s][f])
      /\ \A f \in GlobalFields : Total(f)' = global'[f] /\ Total(f) = global[f]
      /\ SegmentIndexes' = SegmentIndexes
      /\ \A f \in Fields : Total(f) \in Nat
  BY CountedFacts, CounterFacts
<1>2. /\ Held' = Held + (task'[g].removed - task[g].removed)
      /\ \A r : LoadsIn(r)' = LoadsIn(r) + (Loads(task'[g], r) - Loads(task[g], r))
      /\ Held \in Nat /\ \A r : LoadsIn(r) \in Nat
  BY TaskSumsChange, TaskSums DEF Counted
<1>3. PICK entries \in Int, out \in Int, loads \in Int, superseded \in Int :
        /\ Alters(s, entries, out, loads, superseded)
        /\ inserted' - inserted = entries + out + (global'["cleared"] - global["cleared"])
                                    + (task'[g].removed - task[g].removed)
        /\ superseded + Loads(task'[g], s) <= loads + Loads(task[g], s)
        /\ \A r \in SegmentIndexes \ {s} : Loads(task'[g], r) <= Loads(task[g], r)
  BY DEF Counted
<1>4. /\ \A r \in SegmentIndexes, f \in SegmentFields : counts[r][f] \in Nat /\ counts'[r][f] \in Nat
      /\ inserted \in Nat /\ inserted' \in Nat
      /\ \A f \in GlobalFields : global[f] \in Nat /\ global'[f] \in Nat
      /\ task[g].removed \in Nat /\ task'[g].removed \in Nat
  BY <1>3 DEF CacheTypes, Alters, Counted, HonestTasks, Tasks
<1>5. \A r : Loads(task[g], r) \in {0, 1} /\ Loads(task'[g], r) \in {0, 1}
  BY DEF Loads
<1>6. inserted' = Total("entries")' + Total("evicted")' + Total("expired")' + Total("deleted")'
                    + Total("cleared")' + Held'
  <2>1. /\ {"entries", "evicted", "expired", "deleted"} \subseteq SegmentFields
        /\ "cleared" \in GlobalFields
        /\ {"entries", "evicted", "expired", "deleted", "cleared"} \subseteq Fields
    BY FieldFacts DEF Fields
  <2>2. /\ Total("entries")' = Total("entries") + (counts'[s]["entries"] - counts[s]["entries"])
        /\ Total("evicted")' = Total("evicted") + (counts'[s]["evicted"] - counts[s]["evicted"])
        /\ Total("expired")' = Total("expired") + (counts'[s]["expired"] - counts[s]["expired"])
        /\ Total("deleted")' = Total("deleted") + (counts'[s]["deleted"] - counts[s]["deleted"])
        /\ Total("cleared")' = global'["cleared"] /\ Total("cleared") = global["cleared"]
    BY <1>1, <2>1
  <2>3. /\ counts'[s]["entries"] = counts[s]["entries"] + entries
        /\ counts'[s]["evicted"] + counts'[s]["expired"] + counts'[s]["deleted"]
             = counts[s]["evicted"] + counts[s]["expired"] + counts[s]["deleted"] + out
    BY <1>3 DEF Alters
  <2>4. /\ Total("entries") \in Int /\ Total("evicted") \in Int /\ Total("expired") \in Int
        /\ Total("deleted") \in Int /\ Total("cleared") \in Int /\ Held \in Int
        /\ counts[s]["entries"] \in Int /\ counts'[s]["entries"] \in Int
        /\ counts[s]["evicted"] \in Int /\ counts'[s]["evicted"] \in Int
        /\ counts[s]["expired"] \in Int /\ counts'[s]["expired"] \in Int
        /\ counts[s]["deleted"] \in Int /\ counts'[s]["deleted"] \in Int
        /\ global["cleared"] \in Int /\ global'["cleared"] \in Int
    BY <1>1, <1>2, <1>4, <2>1
  <2>5. inserted = Total("entries") + Total("evicted") + Total("expired") + Total("deleted")
                     + Total("cleared") + Held
    BY DEF CountInv
  <2> HIDE DEF Total, Held
  <2>6. PICK e0 \in Int, e1 \in Int, v0 \in Int, v1 \in Int,
             x0 \in Int, x1 \in Int, d0 \in Int, d1 \in Int :
          /\ e0 = counts[s]["entries"] /\ e1 = counts'[s]["entries"]
          /\ v0 = counts[s]["evicted"] /\ v1 = counts'[s]["evicted"]
          /\ x0 = counts[s]["expired"] /\ x1 = counts'[s]["expired"]
          /\ d0 = counts[s]["deleted"] /\ d1 = counts'[s]["deleted"]
    BY <2>4
  <2>7. PICK c0 \in Int, c1 \in Int, h0 \in Int, h1 \in Int, i0 \in Int, i1 \in Int :
          /\ c0 = global["cleared"] /\ c1 = global'["cleared"]
          /\ h0 = task[g].removed /\ h1 = task'[g].removed
          /\ i0 = inserted /\ i1 = inserted'
    <3>1. task[g].removed \in Int /\ task'[g].removed \in Int
      BY <1>4
    <3>2. inserted \in Int /\ inserted' \in Int
      BY <1>4
    <3>3. QED
      BY <2>4, <3>1, <3>2
  <2>8. e1 = e0 + entries /\ v1 + x1 + d1 = v0 + x0 + d0 + out
    BY <2>3, <2>6
  <2>9. /\ Total("entries")' = Total("entries") + (e1 - e0)
        /\ Total("evicted")' = Total("evicted") + (v1 - v0)
        /\ Total("expired")' = Total("expired") + (x1 - x0)
        /\ Total("deleted")' = Total("deleted") + (d1 - d0)
        /\ Total("cleared")' = c1 /\ Total("cleared") = c0
        /\ Held' = Held + (h1 - h0)
    BY <1>2, <2>2, <2>6, <2>7
  <2>10. i1 - i0 = entries + out + (c1 - c0) + (h1 - h0)
    BY <1>3, <2>7
  <2>11. PICK e \in Int, v \in Int, x \in Int, d \in Int, h \in Int :
           /\ e = Total("entries") /\ v = Total("evicted") /\ x = Total("expired")
           /\ d = Total("deleted") /\ h = Held
    BY <2>4
  <2>12. i0 = e + v + x + d + c0 + h
    BY <2>5, <2>7, <2>9, <2>11
  <2>13. i1 = (e + (e1 - e0)) + (v + (v1 - v0)) + (x + (x1 - x0)) + (d + (d1 - d0)) + c1
                + (h + (h1 - h0))
    BY <2>8, <2>10, <2>12
  <2>14. QED
    BY <2>7, <2>9, <2>11, <2>13
<1>7. ASSUME NEW r \in SegmentIndexes
      PROVE  counts'[r]["loadSuperseded"] + LoadsIn(r)'
               <= counts'[r]["loadFound"] + counts'[r]["loadNotFound"]
  <2>1. /\ counts[r]["loadSuperseded"] \in Nat /\ counts[r]["loadFound"] \in Nat
        /\ counts[r]["loadNotFound"] \in Nat /\ counts'[r]["loadSuperseded"] \in Nat
        /\ counts'[r]["loadFound"] \in Nat /\ counts'[r]["loadNotFound"] \in Nat
    BY <1>4, FieldFacts
  <2>2. /\ counts[r]["loadSuperseded"] + LoadsIn(r) <= counts[r]["loadFound"] + counts[r]["loadNotFound"]
        /\ LoadsIn(r)' = LoadsIn(r) + (Loads(task'[g], r) - Loads(task[g], r)) /\ LoadsIn(r) \in Nat
    BY <1>2 DEF CountInv
  <2>3. CASE r = s
    <3>1. /\ counts'[s]["loadFound"] + counts'[s]["loadNotFound"]
               = counts[s]["loadFound"] + counts[s]["loadNotFound"] + loads
          /\ counts'[s]["loadSuperseded"] = counts[s]["loadSuperseded"] + superseded
      BY <1>3 DEF Alters
    <3>2. QED
      BY <1>3, <1>5, <2>1, <2>2, <2>3, <3>1
  <2>4. CASE r # s
    <3>1. counts'[r] = counts[r]
      BY <1>3, <2>4 DEF Alters
    <3>2. QED
      BY <1>3, <1>5, <2>1, <2>2, <2>4, <3>1
  <2>5. QED
    BY <2>3, <2>4
<1>8. QED
  BY <1>1, <1>6, <1>7 DEF CountInv
-------------------------------------------------------------------------------
(***************************************************************************)
(* What Stats() has read.                                                  *)
(***************************************************************************)
GlobalIndex(f) == CHOOSE i \in DOMAIN GlobalReads : GlobalReads[i] = f
SegmentIndex(f) ==
  CHOOSE i \in DOMAIN SegmentReads :
    SegmentReads[i] = IF f \in LockedFields THEN "locked" ELSE f

\* The counters that one read of a segment takes.
Taken(k) == IF SegmentReads[k] = "locked" THEN LockedFields ELSE {SegmentReads[k]}

\* The order in which Stats() reads: each of the first four reads takes one global
\* counter, and each read of a segment the counters for which it stands.
LEMMA ReadFacts ==
  /\ \A f \in GlobalFields : GlobalIndex(f) \in 1..4 /\ LastRead(f) = GlobalIndex(f)
  /\ \A i \in 1..4 : GlobalReads[i] \in GlobalFields
  /\ \A i \in 1..4 : \A f \in GlobalFields : GlobalIndex(f) = i <=> GlobalReads[i] = f
  /\ \A f \in SegmentFields :
       SegmentIndex(f) \in 1..7 /\ LastRead(f) = LastPosition - 7 + SegmentIndex(f)
  /\ \A k \in 1..7 : \A f \in SegmentFields : f \in Taken(k) <=> SegmentIndex(f) = k
<1>1. /\ GlobalReads[1] = "cleared" /\ GlobalReads[2] = "cleanup"
      /\ GlobalReads[3] = "workerRun" /\ GlobalReads[4] = "workerPending"
      /\ DOMAIN GlobalReads = 1..4
  BY DEF GlobalReads
<1>2. \A i, j \in 1..4 : GlobalReads[i] = GlobalReads[j] => i = j
  <2>1. \A i \in 1..4 : i \in {1, 2, 3, 4}
    OBVIOUS
  <2>2. QED
    BY <1>1, <2>1
<1>3. \A f \in GlobalFields : GlobalIndex(f) \in 1..4 /\ GlobalReads[GlobalIndex(f)] = f
  <2> SUFFICES ASSUME NEW f \in GlobalFields
               PROVE  GlobalIndex(f) \in 1..4 /\ GlobalReads[GlobalIndex(f)] = f
    OBVIOUS
  <2>1. \E i \in DOMAIN GlobalReads : GlobalReads[i] = f
    BY DEF GlobalFields
  <2>2. QED
    BY <1>1, <2>1 DEF GlobalIndex
<1>4. \A i \in 1..4 : GlobalReads[i] \in GlobalFields
  BY <1>1 DEF GlobalFields
<1>5. \A i \in 1..4 : \A f \in GlobalFields : GlobalIndex(f) = i <=> GlobalReads[i] = f
  BY <1>2, <1>3
<1>6. /\ SegmentReads[1] = "locked" /\ SegmentReads[2] = "loadFound"
      /\ SegmentReads[3] = "loadNotFound" /\ SegmentReads[4] = "loadError"
      /\ SegmentReads[5] = "loadSuperseded" /\ SegmentReads[6] = "shared"
      /\ SegmentReads[7] = "deleted"
      /\ DOMAIN SegmentReads = 1..7
  BY DEF SegmentReads
<1>7. /\ \A i \in 1..7 : i \in {1, 2, 3, 4, 5, 6, 7}
      /\ "locked" \notin SegmentFields
      /\ \A k \in 2..7 : SegmentReads[k] \notin LockedFields /\ SegmentReads[k] # "locked"
  <2>1. \A i \in 1..7 : i \in {1, 2, 3, 4, 5, 6, 7}
    OBVIOUS
  <2>2. "locked" \notin SegmentFields
    BY FieldFacts
  <2>3. \A k \in 2..7 : k \in {2, 3, 4, 5, 6, 7}
    OBVIOUS
  <2>4. \A k \in 2..7 : SegmentReads[k] \notin LockedFields /\ SegmentReads[k] # "locked"
    BY <1>6, <2>3 DEF LockedFields
  <2>5. QED
    BY <2>1, <2>2, <2>4
<1>8. \A i, j \in 1..7 : SegmentReads[i] = SegmentReads[j] => i = j
  BY <1>6, <1>7
<1> DEFINE name(f) == IF f \in LockedFields THEN "locked" ELSE f
<1>9. \A f \in SegmentFields : SegmentIndex(f) \in 1..7 /\ SegmentReads[SegmentIndex(f)] = name(f)
  <2> SUFFICES ASSUME NEW f \in SegmentFields
               PROVE  SegmentIndex(f) \in 1..7 /\ SegmentReads[SegmentIndex(f)] = name(f)
    OBVIOUS
  <2>1. \E i \in DOMAIN SegmentReads : SegmentReads[i] = name(f)
    <3>1. CASE f \in LockedFields
      BY <1>6, <3>1
    <3>2. CASE f \notin LockedFields
      <4>1. \E i \in 2..7 : SegmentReads[i] = f
        BY <3>2, FieldFacts DEF SegmentFields
      <4>2. QED
        BY <1>6, <3>2, <4>1
    <3>3. QED
      BY <3>1, <3>2
  <2>2. QED
    BY <1>6, <2>1 DEF SegmentIndex
<1>10. ASSUME NEW k \in 1..7, NEW f \in SegmentFields
       PROVE  f \in Taken(k) <=> SegmentIndex(f) = k
  <2>1. SegmentIndex(f) = k <=> SegmentReads[k] = name(f)
    BY <1>8, <1>9
  <2>2. SegmentReads[k] = "locked" \/ SegmentReads[k] \notin LockedFields
    BY <1>6, <1>7
  <2>3. QED
    BY <1>7, <2>1, <2>2 DEF Taken
<1>11. \A f \in GlobalFields : LastRead(f) = GlobalIndex(f)
  BY DEF LastRead, GlobalIndex
<1>12. \A f \in SegmentFields : LastRead(f) = LastPosition - 7 + SegmentIndex(f)
  BY FieldFacts DEF LastRead, SegmentIndex
<1>13. QED
  BY <1>3, <1>4, <1>5, <1>9, <1>10, <1>11, <1>12

\* The segments of which Stats() has read a counter.
Seen(f) == {s \in SegmentIndexes : position >= Len(GlobalReads) + Len(SegmentReads) * s + SegmentIndex(f)}
Unseen(f) == SegmentIndexes \ Seen(f)

SeenPart(f) == Part(Counter(f), Seen(f))
UnseenPart(f) == Part(Counter(f), Unseen(f))

\* What has been read of a counter is at most what the segments have counted by now
\* that were read; with what the others have counted it is at least what there was at
\* the start.  Entries are what was inserted less what was removed.
ViewInv ==
  position # NotReading =>
    /\ \A f \in GlobalFields : /\ start[f] <= global[f]
                               /\ position >= GlobalIndex(f) => view[f] \in start[f]..global[f]
    /\ \A f \in SegmentFields \ {"entries"} :
         /\ view[f] <= SeenPart(f)
         /\ start[f] <= view[f] + UnseenPart(f)
    /\ view["entries"] <= Part(Capacities, Seen("entries"))
    /\ start["inserted"] + SeenPart("entries") <= view["entries"] + inserted
    /\ start["inserted"] + view["entries"] + UnseenPart("entries") <= start["entries"] + inserted

\* The inductive invariant.
StatInv ==
  /\ OptionsInv
  /\ begun \in 0..MaxOps /\ inserted \in Nat
  /\ position \in NotReading..LastPosition
  /\ view \in [Fields -> Nat]
  /\ start \in [Fields \union {"inserted"} -> Nat]
  /\ position = NotReading => view = Zero
  /\ ~built => /\ inserted = 0 /\ global = [f \in GlobalFields |-> 0] /\ position = NotReading
               /\ \A g \in Workers : task[g].op = "none"
  /\ built => CacheTypes /\ CountInv /\ ViewInv

\* The parts of the sums that have been read, and those that have not, are naturals.
LEMMA SumsReady ==
  ASSUME CacheTypes, NEW f \in SegmentFields
  PROVE  /\ SeenPart(f) \in Nat /\ UnseenPart(f) \in Nat
         /\ Part(Capacities, Seen(f)) \in Nat
BY CounterFacts, PartFacts DEF SeenPart, UnseenPart

\* A step of an operation does not change what has been seen, and a counter that has
\* been seen goes on counting.
LEMMA CountedKeepsView ==
  ASSUME StatInv, built, NEW g \in Workers, NEW s \in SegmentIndexes, Counted(g, s)
  PROVE  ViewInv'
<1>0. /\ CacheTypes /\ ViewInv /\ inserted \in Nat /\ OptionsInv
      /\ view \in [Fields -> Nat] /\ start \in [Fields \union {"inserted"} -> Nat]
  BY DEF StatInv
<1>1. /\ position' = position /\ view' = view /\ start' = start
      /\ settings' = settings /\ SegmentIndexes' = SegmentIndexes
      /\ \A f : Seen(f)' = Seen(f) /\ Unseen(f)' = Unseen(f)
      /\ Capacities' = Capacities
  BY DEF Counted, optionVars, collection, Seen, Unseen, SegmentIndexes, SegmentCapacity, Capacities
<1>2. /\ \A f \in GlobalFields : global[f] <= global'[f] /\ global[f] \in Nat /\ global'[f] \in Nat
      /\ inserted \in Nat /\ inserted' \in Nat
  BY <1>0 DEF Counted, CacheTypes
<1>3. PICK entries \in Int : /\ counts'[s]["entries"] = counts[s]["entries"] + entries
                             /\ entries <= inserted' - inserted /\ inserted <= inserted'
  BY DEF Counted, Alters
<1>4. /\ \A f \in SegmentFields : counts[s][f] \in Nat /\ counts'[s][f] \in Nat
      /\ \A f \in SegmentFields \ {"entries"} : counts[s][f] <= counts'[s][f]
  BY <1>0 DEF Counted, Alters, CacheTypes
<1>5. ASSUME NEW f \in SegmentFields
      PROVE  /\ SeenPart(f) \in Nat /\ UnseenPart(f) \in Nat
             /\ SeenPart(f)' = SeenPart(f) + (IF s \in Seen(f) THEN counts'[s][f] - counts[s][f] ELSE 0)
             /\ UnseenPart(f)' = UnseenPart(f) + (IF s \in Seen(f) THEN 0 ELSE counts'[s][f] - counts[s][f])
  <2>1. \A M : Part(Counter(f), M)' = Part(Counter(f), M)
                                        + (IF s \in M THEN counts'[s][f] - counts[s][f] ELSE 0)
    BY <1>0, CountedFacts
  <2>2. SeenPart(f)' = Part(Counter(f), Seen(f)) + (IF s \in Seen(f) THEN counts'[s][f] - counts[s][f] ELSE 0)
    BY <1>1, <2>1 DEF SeenPart, Part, Counter
  <2>3. UnseenPart(f)' = Part(Counter(f), Unseen(f)) + (IF s \in Unseen(f) THEN counts'[s][f] - counts[s][f] ELSE 0)
    BY <1>1, <2>1 DEF UnseenPart, Part, Counter
  <2>4. s \in Unseen(f) <=> s \notin Seen(f)
    BY DEF Unseen
  <2>5. QED
    BY <1>0, <2>2, <2>3, <2>4, SumsReady DEF SeenPart, UnseenPart
<1>6. \A f \in Fields : view[f] \in Nat /\ start[f] \in Nat /\ start["inserted"] \in Nat
  BY <1>0
<1>7. SUFFICES ASSUME position # NotReading PROVE ViewInv'
  BY <1>1 DEF ViewInv
<1>8. ViewInv
  BY <1>0
<1>9. \A f \in GlobalFields : /\ start'[f] <= global'[f]
                              /\ position' >= GlobalIndex(f) => view'[f] \in start'[f]..global'[f]
  BY <1>1, <1>2, <1>6, <1>7, <1>8 DEF ViewInv, Fields
<1>10. ASSUME NEW f \in SegmentFields \ {"entries"}
       PROVE  view'[f] <= SeenPart(f)' /\ start'[f] <= view'[f] + UnseenPart(f)'
  <2>1. view[f] <= SeenPart(f) /\ start[f] <= view[f] + UnseenPart(f)
    BY <1>7, <1>8 DEF ViewInv
  <2>2. view[f] \in Nat /\ start[f] \in Nat
    BY <1>6 DEF Fields
  <2>3. /\ counts[s][f] \in Nat /\ counts'[s][f] \in Nat /\ counts[s][f] <= counts'[s][f]
        /\ SeenPart(f) \in Nat /\ UnseenPart(f) \in Nat
    BY <1>4, <1>5
  <2>4. SeenPart(f) <= SeenPart(f)' /\ UnseenPart(f) <= UnseenPart(f)'
        /\ SeenPart(f)' \in Nat /\ UnseenPart(f)' \in Nat
    BY <1>5, <2>3
  <2>5. QED
    BY <1>1, <2>1, <2>2, <2>3, <2>4
<1>11. /\ view'["entries"] <= Part(Capacities, Seen("entries"))'
       /\ start'["inserted"] + SeenPart("entries")' <= view'["entries"] + inserted'
       /\ start'["inserted"] + view'["entries"] + UnseenPart("entries")' <= start'["entries"] + inserted'
  <2>1. "entries" \in SegmentFields /\ "entries" \in Fields
    BY FieldFacts DEF Fields
  <2>2. /\ view["entries"] <= Part(Capacities, Seen("entries"))
        /\ start["inserted"] + SeenPart("entries") <= view["entries"] + inserted
        /\ start["inserted"] + view["entries"] + UnseenPart("entries") <= start["entries"] + inserted
    BY <1>7, <1>8 DEF ViewInv
  <2>3. Part(Capacities, Seen("entries"))' = Part(Capacities, Seen("entries"))
    BY <1>1 DEF Part
  <2> DEFINE change == counts'[s]["entries"] - counts[s]["entries"]
  <2>4. /\ SeenPart("entries") \in Nat /\ UnseenPart("entries") \in Nat
        /\ SeenPart("entries")' = SeenPart("entries") + (IF s \in Seen("entries") THEN change ELSE 0)
        /\ UnseenPart("entries")' = UnseenPart("entries") + (IF s \in Seen("entries") THEN 0 ELSE change)
    BY <1>5, <2>1
  <2> DEFINE added == inserted' - inserted
  <2>5. change \in Int /\ added \in Int /\ change <= added /\ 0 <= added /\ inserted' = inserted + added
    <3>1. counts[s]["entries"] \in Nat /\ counts'[s]["entries"] \in Nat
      BY <1>4, <2>1
    <3>2. change = entries
      BY <1>3, <3>1
    <3>3. added \in Int /\ entries <= added /\ 0 <= added /\ inserted' = inserted + added
      <4>1. /\ inserted \in Nat /\ inserted' \in Nat /\ inserted <= inserted'
            /\ entries \in Int /\ entries <= inserted' - inserted
        BY <1>2, <1>3, <3>1, <3>2
      <4>2. \A n, m \in Nat : m - n \in Int /\ m = n + (m - n) /\ (n <= m => 0 <= m - n)
        OBVIOUS
      <4>3. inserted' - inserted \in Int /\ inserted' = inserted + (inserted' - inserted)
            /\ 0 <= inserted' - inserted
        BY <4>1, <4>2
      <4>4. QED
        BY <4>1, <4>3 DEF added
    <3> HIDE DEF change, added
    <3>4. QED
      BY <3>2, <3>3
  <2>6. view["entries"] \in Nat /\ start["entries"] \in Nat /\ start["inserted"] \in Nat
    BY <1>6, <2>1
  <2> HIDE DEF change, added
  <2>7. start["inserted"] + SeenPart("entries")' <= view["entries"] + inserted'
    BY <1>2, <2>2, <2>4, <2>5, <2>6
  <2>8. start["inserted"] + view["entries"] + UnseenPart("entries")' <= start["entries"] + inserted'
    BY <1>2, <2>2, <2>4, <2>5, <2>6
  <2>9. QED
    BY <1>1, <2>2, <2>3, <2>7, <2>8
<1>12. QED
  BY <1>9, <1>10, <1>11 DEF ViewInv

\* When Stats() begins it has seen nothing: start is the truth.
LEMMA CallStatsStep ==
  ASSUME StatInv, CallStats
  PROVE  StatInv'
<1>1. /\ built /\ position = NotReading /\ position' = 0 /\ UNCHANGED <<optionVars, activity, view>>
      /\ start' = [f \in Fields \union {"inserted"} |-> IF f = "inserted" THEN inserted ELSE Total(f)]
  BY DEF CallStats
<1>2. CacheTypes /\ CountInv /\ OptionsInv /\ view = Zero /\ inserted \in Nat
  BY <1>1 DEF StatInv
<1>3. /\ SegmentIndexes' = SegmentIndexes /\ LastPosition' = LastPosition /\ Capacities' = Capacities
      /\ \A s \in SegmentIndexes : SegmentCapacity(s)' = SegmentCapacity(s)
      /\ \A f : Total(f)' = Total(f) /\ Counter(f)' = Counter(f)
      /\ Tasks' = Tasks /\ HonestTasks' = HonestTasks
      /\ Held' = Held /\ \A s : LoadsIn(s)' = LoadsIn(s)
  BY <1>1 DEF optionVars, activity, SegmentIndexes, LastPosition, SegmentCapacity, Capacities, Total,
              Counter, Tasks, HonestTasks, Held, LoadsIn, Loads
<1>4. CacheTypes' /\ OptionsInv'
  BY <1>1, <1>2, <1>3 DEF CacheTypes, OptionsInv, Settings, optionVars, activity
<1>5. CountInv'
  BY <1>1, <1>2, <1>3 DEF CountInv, activity
<1>6. \A f \in Fields : Total(f) \in Nat /\ start'[f] = Total(f)
  <2>1. "inserted" \notin Fields
    BY FieldFacts DEF Fields
  <2>2. QED
    BY <1>1, <1>2, <2>1, CounterFacts
<1>7. start' \in [Fields \union {"inserted"} -> Nat] /\ start'["inserted"] = inserted
  BY <1>1, <1>2, <1>6
<1>8. ASSUME NEW f \in SegmentFields
      PROVE  /\ Seen(f)' = {} /\ SeenPart(f)' = 0
             /\ UnseenPart(f)' = Total(f) /\ Part(Capacities, Seen(f))' = 0
  <2>1. \A s \in SegmentIndexes : ~(0 >= 4 + 7 * s + SegmentIndex(f))
    <3>1. \A s \in SegmentIndexes : s \in Nat
      BY DEF SegmentIndexes
    <3>2. SegmentIndex(f) \in 1..7
      BY ReadFacts
    <3>3. QED
      BY <3>1, <3>2
  <2>2. Seen(f)' = {} /\ Unseen(f)' = SegmentIndexes
    BY <1>1, <1>3, <2>1, FieldFacts DEF Seen, Unseen
  <2>3. /\ SeenPart(f)' = Part(Counter(f), {}) /\ UnseenPart(f)' = Part(Counter(f), SegmentIndexes)
        /\ Part(Capacities, Seen(f))' = Part(Capacities, {})
    BY <1>3, <2>2 DEF SeenPart, UnseenPart, Part
  <2>4. QED
    BY <1>2, <2>2, <2>3, CounterFacts, PartFacts
<1>9. /\ "entries" \in SegmentFields /\ GlobalFields \subseteq Fields /\ SegmentFields \subseteq Fields
      /\ \A f \in Fields : view'[f] = 0
  BY <1>1, <1>2, FieldFacts DEF Fields, Zero
<1>10. ViewInv'
  <2>1. \A f \in GlobalFields : start'[f] = global'[f] /\ global'[f] \in Nat
                                /\ ~(position' >= GlobalIndex(f))
    BY <1>1, <1>2, <1>6, <1>9, CounterFacts, ReadFacts DEF activity
  <2>2. \A f \in GlobalFields : /\ start'[f] <= global'[f]
                                /\ position' >= GlobalIndex(f) => view'[f] \in start'[f]..global'[f]
    BY <2>1
  <2>3. \A f \in SegmentFields \ {"entries"} :
          view'[f] <= SeenPart(f)' /\ start'[f] <= view'[f] + UnseenPart(f)'
    BY <1>6, <1>8, <1>9
  <2>4. /\ view'["entries"] <= Part(Capacities, Seen("entries"))'
        /\ start'["inserted"] + SeenPart("entries")' <= view'["entries"] + inserted'
        /\ start'["inserted"] + view'["entries"] + UnseenPart("entries")' <= start'["entries"] + inserted'
    <3>1. inserted' = inserted /\ Total("entries") \in Nat
      BY <1>1, <1>6, <1>9 DEF activity
    <3>2. QED
      BY <1>2, <1>6, <1>7, <1>8, <1>9, <3>1
  <2>5. QED
    BY <2>2, <2>3, <2>4 DEF ViewInv
<1>11. position' \in NotReading..LastPosition' /\ position' # NotReading
  <2>1. settings.segmentCount \in Nat
    BY <1>2 DEF OptionsInv, Settings
  <2>2. LastPosition \in Nat
    BY <2>1, FieldFacts DEF LastPosition
  <2>3. QED
    BY <1>1, <1>3, <2>2 DEF NotReading
<1>12. QED
  BY <1>1, <1>4, <1>5, <1>7, <1>10, <1>11 DEF StatInv, optionVars, activity

\* Reading changes nothing but what Stats() has.
LEMMA ReadKeepsCache ==
  ASSUME StatInv, ReadGlobal \/ ReadSegment
  PROVE  /\ built /\ CacheTypes /\ CountInv /\ ViewInv /\ position # NotReading
         /\ UNCHANGED <<optionVars, activity, start>> /\ position' = position + 1
         /\ position \in Nat /\ position < LastPosition
         /\ CacheTypes' /\ OptionsInv' /\ CountInv'
         /\ SegmentIndexes' = SegmentIndexes /\ LastPosition' = LastPosition /\ Capacities' = Capacities
         /\ \A f : Counter(f)' = Counter(f)
         /\ LastPosition = 4 + 7 * settings.segmentCount /\ settings.segmentCount \in Nat \ {0}
<1>1. UNCHANGED <<optionVars, activity, start>> /\ position' = position + 1
  BY DEF ReadGlobal, ReadSegment
<1>2. LastPosition = 4 + 7 * settings.segmentCount /\ settings.segmentCount \in Nat \ {0}
  BY FieldFacts DEF LastPosition, StatInv, OptionsInv, Settings
<1>3. position \in Nat /\ position < LastPosition
  <2>1. position \in 0..3 \/ position \in 4..(LastPosition - 1)
    BY FieldFacts DEF ReadGlobal, ReadSegment
  <2>2. QED
    BY <1>2, <2>1
<1>4. position # NotReading
  BY <1>3 DEF NotReading
<1>5. built /\ CacheTypes /\ CountInv /\ ViewInv
  BY <1>4 DEF StatInv
<1>6. /\ SegmentIndexes' = SegmentIndexes /\ LastPosition' = LastPosition /\ Capacities' = Capacities
      /\ \A s \in SegmentIndexes : SegmentCapacity(s)' = SegmentCapacity(s)
      /\ \A f : Total(f)' = Total(f) /\ Counter(f)' = Counter(f)
      /\ Tasks' = Tasks /\ HonestTasks' = HonestTasks
      /\ Held' = Held /\ \A s : LoadsIn(s)' = LoadsIn(s)
  BY <1>1 DEF optionVars, activity, SegmentIndexes, LastPosition, SegmentCapacity, Capacities, Total,
              Counter, Tasks, HonestTasks, Held, LoadsIn, Loads
<1>7. CacheTypes' /\ OptionsInv'
  BY <1>1, <1>5, <1>6 DEF CacheTypes, OptionsInv, Settings, optionVars, activity
<1>8. CountInv'
  BY <1>1, <1>5, <1>6 DEF CountInv, activity
<1>9. QED
  BY <1>1, <1>2, <1>3, <1>4, <1>5, <1>6, <1>7, <1>8

\* A read of a global counter takes its value, between that at the start and now.
LEMMA ReadGlobalStep ==
  ASSUME StatInv, ReadGlobal
  PROVE  StatInv'
<1> DEFINE i == position + 1
           name == GlobalReads[i]
<1>1. /\ built /\ CacheTypes /\ ViewInv /\ position # NotReading
      /\ UNCHANGED <<optionVars, activity, start>> /\ position' = position + 1
      /\ position \in Nat /\ position < LastPosition /\ LastPosition' = LastPosition
      /\ CacheTypes' /\ OptionsInv' /\ CountInv'
      /\ SegmentIndexes' = SegmentIndexes /\ Capacities' = Capacities
      /\ \A f : Counter(f)' = Counter(f) /\ LastPosition \in Nat
  BY ReadKeepsCache
<1>2. position \in 0..3 /\ view' = [view EXCEPT ![name] = global[name]]
  BY FieldFacts DEF ReadGlobal
<1>3. i \in 1..4 /\ name \in GlobalFields
  BY <1>2, ReadFacts
<1> HIDE DEF name
<1>4. view \in [Fields -> Nat] /\ start \in [Fields \union {"inserted"} -> Nat]
  BY DEF StatInv
<1>5. GlobalFields \subseteq Fields /\ SegmentFields \subseteq Fields /\ "entries" \in SegmentFields
  BY FieldFacts DEF Fields
<1>6. /\ \A f \in GlobalFields : global[f] \in Nat
      /\ view' \in [Fields -> Nat]
      /\ \A f \in Fields \ {name} : view'[f] = view[f]
      /\ view'[name] = global[name]
  <2>1. \A f \in GlobalFields : global[f] \in Nat
    BY <1>1 DEF CacheTypes
  <2>2. QED
    BY <1>2, <1>3, <1>4, <1>5, <2>1
<1>7. ASSUME NEW f \in SegmentFields
      PROVE  /\ view'[f] = view[f] /\ SeenPart(f)' = SeenPart(f) /\ UnseenPart(f)' = UnseenPart(f)
             /\ Part(Capacities, Seen(f))' = Part(Capacities, Seen(f))
  <2>1. SegmentIndex(f) \in 1..7 /\ f \notin GlobalFields
    BY <1>1, ReadFacts, CounterFacts
  <2>2. view'[f] = view[f]
    BY <1>3, <1>5, <1>6, <2>1
  <2>3. ASSUME NEW s \in SegmentIndexes
        PROVE  ~(position >= 4 + 7 * s + SegmentIndex(f)) /\ ~(position + 1 >= 4 + 7 * s + SegmentIndex(f))
    <3>1. s \in Nat
      BY DEF SegmentIndexes
    <3>2. QED
      BY <1>2, <2>1, <3>1
  <2>4. Seen(f)' = Seen(f) /\ Unseen(f)' = Unseen(f)
    BY <1>1, <2>3, FieldFacts DEF Seen, Unseen
  <2>5. QED
    BY <1>1, <2>2, <2>4 DEF SeenPart, UnseenPart, Part
<1>8. ViewInv'
  <2>1. ASSUME NEW f \in GlobalFields
        PROVE  /\ start'[f] <= global'[f]
               /\ position' >= GlobalIndex(f) => view'[f] \in start'[f]..global'[f]
    <3>1. /\ start[f] <= global[f] /\ (position >= GlobalIndex(f) => view[f] \in start[f]..global[f])
          /\ GlobalIndex(f) \in 1..4 /\ start[f] \in Nat /\ global[f] \in Nat
          /\ start' = start /\ global' = global
      BY <1>1, <1>4, <1>5, <1>6, ReadFacts DEF ViewInv, activity
    <3>2. CASE f = name
      BY <1>6, <3>1, <3>2
    <3>3. CASE f # name
      <4>1. GlobalIndex(f) # i
        BY <1>3, <3>3, ReadFacts DEF name
      <4>2. QED
        BY <1>1, <1>5, <1>6, <3>1, <3>3, <4>1
    <3>4. QED
      BY <3>2, <3>3
  <2>2. \A f \in SegmentFields \ {"entries"} :
          view'[f] <= SeenPart(f)' /\ start'[f] <= view'[f] + UnseenPart(f)'
    BY <1>1, <1>7 DEF ViewInv
  <2>3. /\ view'["entries"] <= Part(Capacities, Seen("entries"))'
        /\ start'["inserted"] + SeenPart("entries")' <= view'["entries"] + inserted'
        /\ start'["inserted"] + view'["entries"] + UnseenPart("entries")' <= start'["entries"] + inserted'
    BY <1>1, <1>5, <1>7 DEF ViewInv, activity
  <2>4. QED
    BY <2>1, <2>2, <2>3 DEF ViewInv
<1>9. position' \in NotReading..LastPosition' /\ position' # NotReading
  BY <1>1 DEF NotReading
<1>10. QED
  BY <1>1, <1>4, <1>6, <1>8, <1>9 DEF StatInv, optionVars, activity

\* The place of a read: in which segment, and which of its reads.
LEMMA PlaceFacts ==
  ASSUME NEW p \in Nat, NEW count \in Nat \ {0}, p >= 4, p < 4 + 7 * count
  PROVE  LET s == (p - 4) \div 7
             k == ((p - 4) % 7) + 1
         IN  /\ s \in 0..(count - 1) /\ k \in 1..7
             /\ \A r \in Nat : \A j \in 1..7 :
                  p + 1 >= 4 + 7 * r + j <=> p >= 4 + 7 * r + j \/ (r = s /\ j = k)
             /\ ~(p >= 4 + 7 * s + k)
<1> DEFINE s == (p - 4) \div 7
           m == (p - 4) % 7
<1>1. p - 4 \in Nat /\ 7 \in Nat \ {0}
  OBVIOUS
<1>2. s \in Nat /\ m \in Nat /\ m < 7 /\ p - 4 = 7 * s + m
  BY <1>1, QuotientAndRemainder
<1> HIDE DEF s, m
<1>3. s <= count - 1
  BY <1>2
<1>4. ASSUME NEW r \in Nat, NEW j \in 1..7
      PROVE  p + 1 >= 4 + 7 * r + j <=> p >= 4 + 7 * r + j \/ (r = s /\ j = m + 1)
  BY <1>2
<1>5. ~(p >= 4 + 7 * s + (m + 1))
  BY <1>2
<1>6. QED
  BY <1>2, <1>3, <1>4, <1>5 DEF s, m

\* A read of a segment moves its counters from the part not seen to the part seen.
LEMMA ReadSegmentStep ==
  ASSUME StatInv, ReadSegment
  PROVE  StatInv'
<1> DEFINE s == (position - 4) \div 7
           k == ((position - 4) % 7) + 1
<1>1. /\ built /\ CacheTypes /\ ViewInv /\ position # NotReading
      /\ UNCHANGED <<optionVars, activity, start>> /\ position' = position + 1
      /\ position \in Nat /\ position < LastPosition /\ LastPosition' = LastPosition
      /\ CacheTypes' /\ OptionsInv' /\ CountInv'
      /\ SegmentIndexes' = SegmentIndexes /\ Capacities' = Capacities
      /\ \A f : Counter(f)' = Counter(f)
      /\ LastPosition = 4 + 7 * settings.segmentCount /\ settings.segmentCount \in Nat \ {0}
  BY ReadKeepsCache
<1>2. /\ position >= 4
      /\ view' = [f \in Fields |-> IF f \in Taken(k) THEN Accumulated(s, f) ELSE view[f]]
  <2>1. position \in 4..(LastPosition - 1)
    BY FieldFacts DEF ReadSegment
  <2>2. view' = [f \in Fields |-> IF f \in Taken(k) THEN Accumulated(s, f) ELSE view[f]]
    BY FieldFacts DEF ReadSegment, Taken
  <2>3. QED
    BY <1>1, <2>1, <2>2
<1>3. /\ s \in SegmentIndexes /\ k \in 1..7
      /\ \A r \in Nat : \A j \in 1..7 :
           position + 1 >= 4 + 7 * r + j <=> position >= 4 + 7 * r + j \/ (r = s /\ j = k)
      /\ ~(position >= 4 + 7 * s + k)
  BY <1>1, <1>2, PlaceFacts DEF SegmentIndexes
<1> HIDE DEF s, k
<1>4. view \in [Fields -> Nat] /\ start \in [Fields \union {"inserted"} -> Nat]
  BY DEF StatInv
<1>5. GlobalFields \subseteq Fields /\ SegmentFields \subseteq Fields /\ "entries" \in SegmentFields
  BY FieldFacts DEF Fields
<1>6. Taken(k) \subseteq SegmentFields
  <2>1. k = 1 \/ k \in 2..7
    BY <1>3
  <2>2. SegmentReads[1] = "locked"
    BY DEF SegmentReads
  <2>3. \A j \in 2..7 : SegmentReads[j] \in SegmentFields
    BY FieldFacts DEF SegmentFields
  <2>4. LockedFields \subseteq SegmentFields
    BY DEF SegmentFields
  <2>5. QED
    BY <2>1, <2>2, <2>3, <2>4 DEF Taken
<1>7. \A f \in SegmentFields : counts[s][f] \in Nat
  BY <1>1, <1>3 DEF CacheTypes
<1>8. view' \in [Fields -> Nat]
  BY <1>2, <1>4, <1>6, <1>7 DEF Accumulated
<1>9. \A f \in GlobalFields : view'[f] = view[f]
  BY <1>1, <1>2, <1>5, <1>6, CounterFacts
<1>10. ASSUME NEW f \in SegmentFields
       PROVE  \/ /\ view'[f] = view[f] /\ SeenPart(f)' = SeenPart(f) /\ UnseenPart(f)' = UnseenPart(f)
                 /\ Part(Capacities, Seen(f))' = Part(Capacities, Seen(f))
              \/ /\ view'[f] = view[f] + counts[s][f]
                 /\ SeenPart(f)' = SeenPart(f) + counts[s][f]
                 /\ UnseenPart(f) = UnseenPart(f)' + counts[s][f]
                 /\ Part(Capacities, Seen(f))' = Part(Capacities, Seen(f)) + SegmentCapacity(s)
                 /\ UnseenPart(f)' \in Nat
  <2>1. SegmentIndex(f) \in 1..7 /\ (f \in Taken(k) <=> SegmentIndex(f) = k)
    BY <1>3, ReadFacts
  <2>2. \A r \in SegmentIndexes : r \in Nat
    BY DEF SegmentIndexes
  <2>3. \A r \in SegmentIndexes : r \in Seen(f)' <=> r \in Seen(f) \/ (r = s /\ SegmentIndex(f) = k)
    BY <1>1, <1>3, <2>1, <2>2, FieldFacts DEF Seen
  <2>4. Seen(f) \subseteq SegmentIndexes /\ Seen(f)' \subseteq SegmentIndexes
    BY <1>1 DEF Seen
  <2>5. CASE SegmentIndex(f) # k
    <3>1. Seen(f)' = Seen(f) /\ Unseen(f)' = Unseen(f)
      BY <1>1, <2>3, <2>4, <2>5 DEF Unseen
    <3>2. view'[f] = view[f]
      BY <1>2, <1>5, <2>1, <2>5
    <3>3. QED
      BY <1>1, <3>1, <3>2 DEF SeenPart, UnseenPart, Part
  <2>6. CASE SegmentIndex(f) = k
    <3> DEFINE M == Seen(f)
               N == SegmentIndexes \ (Seen(f) \union {s})
    <3>1. s \notin M
      BY <1>3, <2>6, FieldFacts DEF Seen
    <3>2. /\ Seen(f)' = M \union {s} /\ Unseen(f)' = N
          /\ Unseen(f) = N \union {s} /\ s \notin N
      BY <1>1, <1>3, <2>3, <2>4, <2>6, <3>1 DEF Unseen
    <3> HIDE DEF M, N
    <3>3. /\ SeenPart(f) = Part(Counter(f), M) /\ SeenPart(f)' = Part(Counter(f), M \union {s})
          /\ UnseenPart(f) = Part(Counter(f), N \union {s}) /\ UnseenPart(f)' = Part(Counter(f), N)
          /\ Part(Capacities, Seen(f))' = Part(Capacities, M \union {s})
      BY <1>1, <3>2 DEF SeenPart, UnseenPart, Part, M
    <3>4. /\ Counter(f) \in [SegmentIndexes -> Nat] /\ Capacities \in [SegmentIndexes -> Nat]
          /\ IsFiniteSet(SegmentIndexes)
      BY <1>1, CounterFacts
    <3>5. Counter(f)[s] = counts[s][f] /\ Capacities[s] = SegmentCapacity(s)
      BY <1>3 DEF Counter, Capacities
    <3>6. /\ Part(Counter(f), M \union {s}) = Part(Counter(f), M) + counts[s][f]
          /\ Part(Counter(f), N \union {s}) = Part(Counter(f), N) + counts[s][f]
          /\ Part(Capacities, M \union {s}) = Part(Capacities, M) + SegmentCapacity(s)
          /\ Part(Counter(f), N) \in Nat
      <4> DEFINE h == Counter(f)
      <4>1. s \in SegmentIndexes \ M /\ s \in SegmentIndexes \ N
        BY <1>3, <3>1, <3>2
      <4>2. h \in [SegmentIndexes -> Nat] /\ h[s] = counts[s][f]
        BY <3>4, <3>5
      <4> HIDE DEF h
      <4>3. Part(h, M \union {s}) = Part(h, M) + h[s] /\ Part(h, N \union {s}) = Part(h, N) + h[s]
        BY <3>4, <4>1, <4>2, PartFacts
      <4>4. Part(Capacities, M \union {s}) = Part(Capacities, M) + Capacities[s]
        BY <3>4, <4>1, PartFacts
      <4>5. Part(h, N) \in Nat
        BY <3>4, <4>2, PartFacts
      <4>6. QED
        BY <3>5, <4>2, <4>3, <4>4, <4>5 DEF h
    <3>7. view'[f] = view[f] + counts[s][f]
      BY <1>2, <1>5, <2>1, <2>6 DEF Accumulated
    <3>8. QED
      BY <3>3, <3>6, <3>7 DEF M
  <2>7. QED
    BY <2>5, <2>6
<1>11. \A f \in SegmentFields : /\ SeenPart(f) \in Nat /\ UnseenPart(f) \in Nat /\ view[f] \in Nat
                                /\ start[f] \in Nat /\ Part(Capacities, Seen(f)) \in Nat
  BY <1>1, <1>4, <1>5, SumsReady
<1>12. ViewInv'
  <2>1. \A f \in GlobalFields : /\ start'[f] <= global'[f]
                                /\ position' >= GlobalIndex(f) => view'[f] \in start'[f]..global'[f]
    <3>1. ASSUME NEW f \in GlobalFields PROVE position >= GlobalIndex(f)
      BY <1>1, <1>2, ReadFacts
    <3>2. QED
      BY <1>1, <1>9, <3>1 DEF ViewInv, activity
  <2>2. ASSUME NEW f \in SegmentFields \ {"entries"}
        PROVE  view'[f] <= SeenPart(f)' /\ start'[f] <= view'[f] + UnseenPart(f)'
    <3>1. view[f] <= SeenPart(f) /\ start[f] <= view[f] + UnseenPart(f) /\ start' = start
      BY <1>1 DEF ViewInv
    <3>2. QED
      BY <1>7, <1>10, <1>11, <3>1
  <2>3. /\ view["entries"] <= Part(Capacities, Seen("entries"))
        /\ start["inserted"] + SeenPart("entries") <= view["entries"] + inserted
        /\ start["inserted"] + view["entries"] + UnseenPart("entries") <= start["entries"] + inserted
        /\ start' = start /\ inserted' = inserted
    BY <1>1 DEF ViewInv, activity
  <2>4. /\ counts[s]["entries"] <= SegmentCapacity(s) /\ SegmentCapacity(s) \in Nat
        /\ inserted \in Nat /\ start["inserted"] \in Nat /\ counts[s]["entries"] \in Nat
    BY <1>1, <1>3, <1>4, <1>5, <1>7, CapacitiesAddUp DEF CacheTypes
  <2>5. view'["entries"] <= Part(Capacities, Seen("entries"))'
    BY <1>5, <1>10, <1>11, <2>3, <2>4
  <2>6. start'["inserted"] + SeenPart("entries")' <= view'["entries"] + inserted'
    BY <1>5, <1>10, <1>11, <2>3, <2>4
  <2>7. start'["inserted"] + view'["entries"] + UnseenPart("entries")' <= start'["entries"] + inserted'
    BY <1>5, <1>10, <1>11, <2>3, <2>4
  <2>8. QED
    BY <2>1, <2>2, <2>5, <2>6, <2>7 DEF ViewInv
<1>13. position' \in NotReading..LastPosition' /\ position' # NotReading
  BY <1>1 DEF NotReading
<1>14. QED
  BY <1>1, <1>4, <1>8, <1>12, <1>13 DEF StatInv, optionVars, activity

-------------------------------------------------------------------------------
(***************************************************************************)
(* The whole specification.                                                *)
(***************************************************************************)

\* While the options are applied nothing is counted.
LEMMA StatInvInitially == Init => StatInv
<1> SUFFICES ASSUME Init PROVE StatInv
  OBVIOUS
<1>1. OptionsInv
  BY OptionsInvInitially DEF Init
<1>2. ~built /\ inserted = 0 /\ position = NotReading /\ begun \in 0..MaxOps
  BY BoundsAssumption DEF Init, OptionsInit
<1>3. position \in NotReading..LastPosition
  <2>1. settings.segmentCount \in Nat
    BY <1>1 DEF OptionsInv, Settings
  <2>2. LastPosition \in Nat
    BY <2>1, FieldFacts DEF LastPosition
  <2>3. QED
    BY <1>2, <2>2 DEF NotReading
<1>4. /\ view \in [Fields -> Nat] /\ view = Zero
      /\ start \in [Fields \union {"inserted"} -> Nat]
      /\ global = [f \in GlobalFields |-> 0]
      /\ \A g \in Workers : task[g].op = "none"
  BY DEF Init, Zero, Idle, Task
<1>5. QED
  BY <1>1, <1>2, <1>3, <1>4 DEF StatInv

\* Options are given before anything is counted or read.
LEMMA ConfigureStep ==
  ASSUME StatInv, Configure, UNCHANGED <<activity, collection>>
  PROVE  StatInv'
<1>1. ~built /\ UNCHANGED built
  BY DEF Configure, Apply, WithSize, WithTTL, WithJitter, WithSlidingExpiration
<1>2. OptionsInv'
  BY ConfigureKeeps DEF StatInv
<1>3. position' = NotReading /\ position' \in NotReading..LastPosition'
  <2>1. settings'.segmentCount \in Nat
    BY <1>2 DEF OptionsInv, Settings
  <2>2. LastPosition' \in Nat
    BY <2>1, FieldFacts DEF LastPosition
  <2>3. QED
    BY <1>1, <2>2 DEF NotReading, StatInv, collection
<1>4. QED
  BY <1>1, <1>2, <1>3 DEF StatInv, activity, collection

\* A new cache is empty and has counted nothing.
LEMMA NewCacheStep ==
  ASSUME StatInv, NewCache
  PROVE  StatInv'
<1>1. /\ Build /\ ~built /\ built'
      /\ counts' = [s \in SegmentIndexes' |-> [f \in SegmentFields |-> 0]]
      /\ task' = [h \in Workers |-> Idle']
      /\ UNCHANGED <<global, begun, inserted, collection>>
  BY DEF NewCache, Build
<1>2. OptionsInv'
  BY <1>1, BuildKeeps DEF StatInv
<1>3. settings'.segmentCount \in Nat \ {0} /\ LastPosition' \in Nat
  <2>1. settings'.segmentCount \in Nat \ {0}
    BY <1>2 DEF OptionsInv, Settings
  <2>2. QED
    BY <2>1, FieldFacts DEF LastPosition
<1>4. /\ position' = NotReading /\ position' \in NotReading..LastPosition'
      /\ inserted' = 0 /\ global' = [f \in GlobalFields |-> 0]
  BY <1>1, <1>3 DEF StatInv, NotReading, collection
<1>5. /\ Idle' \in HonestTasks' /\ Idle'.removed = 0 /\ \A s : Loads(Idle', s) = 0
  <2>1. 0 \in SegmentIndexes'
    BY <1>3 DEF SegmentIndexes
  <2>2. Nothing' \in [SegmentIndexes' -> Nat]
    BY DEF Nothing
  <2>3. QED
    BY <2>1, <2>2 DEF Idle, Task, Tasks, HonestTasks, Loads
<1>6. \A s \in SegmentIndexes' : SegmentCapacity(s)' \in Nat
  <2>1. (\A s \in SegmentIndexes : SegmentCapacity(s) \in Nat \ {0})'
    BY <1>1, <1>2, CapacitiesAddUp, PTL
  <2>2. QED
    BY <2>1
<1>7. CacheTypes'
  <2>1. counts' \in [SegmentIndexes' -> [SegmentFields -> Nat]]
    BY <1>1
  <2>2. \A s \in SegmentIndexes' : counts'[s]["entries"] <= SegmentCapacity(s)'
    BY <1>1, <1>6, FieldFacts
  <2>3. task' \in [Workers -> HonestTasks']
    BY <1>1, <1>5
  <2>4. QED
    BY <1>1, <1>2, <1>4, <2>1, <2>2, <2>3 DEF CacheTypes, StatInv
<1>8. CountInv'
  <2>1. IsFiniteSet(SegmentIndexes') /\ IsFiniteSet(Workers)
    <3>1. settings'.segmentCount - 1 \in Int
      BY <1>3
    <3>2. IsFiniteSet(0..(settings'.segmentCount - 1))
      BY <3>1, FS_Interval
    <3>3. QED
      BY <3>2, BoundsAssumption DEF SegmentIndexes
  <2>2. ASSUME NEW S, IsFiniteSet(S) PROVE SumFunction([x \in S |-> 0]) = 0
    <3>1. SumFunction([x \in S |-> 0]) = 0 * Cardinality(S)
      BY <2>2, SumOfSame
    <3>2. Cardinality(S) \in Nat
      BY <2>2, FS_CardinalityType
    <3>3. QED
      BY <3>1, <3>2
  <2>3. \A f \in SegmentFields : Total(f)' = 0
    <3> SUFFICES ASSUME NEW f \in SegmentFields PROVE Total(f)' = 0
      OBVIOUS
    <3>1. f \notin GlobalFields
      BY FieldFacts
    <3>2. Total(f)' = SumFunction([s \in SegmentIndexes' |-> counts'[s][f]])
      BY <3>1 DEF Total
    <3>3. [s \in SegmentIndexes' |-> counts'[s][f]] = [s \in SegmentIndexes' |-> 0]
      BY <1>1
    <3>4. QED
      BY <2>1, <2>2, <3>2, <3>3
  <2>4. Total("cleared")' = 0
    BY <1>4, FieldFacts DEF Total
  <2>5. Held' = 0
    <3>1. [h \in Workers |-> task'[h].removed] = [h \in Workers |-> 0]
      BY <1>1, <1>5
    <3>2. QED
      BY <2>1, <2>2, <3>1 DEF Held
  <2>6. \A s : LoadsIn(s)' = 0
    <3> SUFFICES ASSUME NEW s PROVE LoadsIn(s)' = 0
      OBVIOUS
    <3>1. [h \in Workers |-> Loads(task'[h], s)] = [h \in Workers |-> 0]
      BY <1>1, <1>5
    <3>2. LoadsIn(s)' = SumFunction([h \in Workers |-> Loads(task'[h], s)])
      BY DEF LoadsIn, Loads
    <3>3. QED
      BY <2>1, <2>2, <3>1, <3>2
  <2>7. QED
    BY <1>1, <1>4, <2>3, <2>4, <2>5, <2>6, FieldFacts DEF CountInv
<1>9. ViewInv'
  BY <1>4 DEF ViewInv
<1>10. QED
  BY <1>1, <1>2, <1>4, <1>7, <1>8, <1>9 DEF StatInv, collection

\* Every step of an operation keeps the invariant.
LEMMA UseSteps ==
  ASSUME StatInv, NEW g \in Workers, Use(g)
  PROVE  StatInv'
<1>1. built
  <2>1. ASSUME ~built PROVE FALSE
    <3>1. task[g].op = "none" /\ ~Start(g)
      BY <2>1 DEF StatInv, Start
    <3>2. \A op : Continue(g, op) => op = "none"
      BY <3>1 DEF Continue
    <3>3. QED
      BY <3>1, <3>2
         DEF Use, Lookup, SetEntry, RemoveExpired, RecordShared, RecordCleanup, BeginDelete,
             GetAndDelete, BeginClear, RecordLoad, RecordCleanupWorker, DeleteKey, ClearSegment,
             RecordDelete, RecordClear, Publish, RecordLoadSuperseded, RecordPending
  <2>2. QED
    BY <2>1
<1>2. CacheTypes /\ CountInv
  BY <1>1 DEF StatInv
<1>3. PICK s \in SegmentIndexes : Counted(g, s)
  BY <1>2, UseCounts
<1>4. CacheTypes' /\ CountInv' /\ ViewInv'
  BY <1>1, <1>2, <1>3, CountedFacts, CountedKeepsCount, CountedKeepsView
<1>5. /\ UNCHANGED collection /\ built' /\ OptionsInv' /\ inserted' \in Nat /\ begun' \in 0..MaxOps
      /\ LastPosition' = LastPosition
  BY <1>1, <1>3, <1>4 DEF Counted, optionVars, CacheTypes, LastPosition
<1>6. QED
  BY <1>4, <1>5 DEF StatInv, collection

\* What Statistics counts and reads is right in every reachable state.
THEOREM StatInvHolds == Spec => []StatInv
<1>1. StatInv /\ [Next]_statVars => StatInv'
  <2> SUFFICES ASSUME StatInv, [Next]_statVars
               PROVE  StatInv'
    OBVIOUS
  <2>1. CASE UNCHANGED statVars
    <3>1. UNCHANGED <<optionVars, activity, collection>>
      BY <2>1 DEF statVars
    <3>2. /\ SegmentIndexes' = SegmentIndexes /\ LastPosition' = LastPosition /\ Capacities' = Capacities
          /\ \A s \in SegmentIndexes : SegmentCapacity(s)' = SegmentCapacity(s)
          /\ \A f : Total(f)' = Total(f) /\ Counter(f)' = Counter(f)
          /\ \A f : Seen(f)' = Seen(f) /\ Unseen(f)' = Unseen(f)
          /\ Tasks' = Tasks /\ HonestTasks' = HonestTasks
          /\ Held' = Held /\ \A s : LoadsIn(s)' = LoadsIn(s)
      BY <3>1 DEF optionVars, activity, collection, SegmentIndexes, LastPosition, SegmentCapacity,
                  Capacities, Total, Counter, Seen, Unseen, Tasks, HonestTasks, Held, LoadsIn, Loads
    <3>3. /\ \A f : SeenPart(f)' = SeenPart(f) /\ UnseenPart(f)' = UnseenPart(f)
          /\ Part(Capacities, Seen("entries"))' = Part(Capacities, Seen("entries"))
      BY <3>2 DEF SeenPart, UnseenPart, Part
    <3>4. OptionsInv' = OptionsInv
      BY <3>1 DEF optionVars, OptionsInv
    <3>5. CacheTypes => CacheTypes'
      BY <3>1, <3>2, <3>4 DEF CacheTypes, optionVars, activity
    <3>6. CountInv => CountInv'
      BY <3>1, <3>2 DEF CountInv, activity
    <3>7. ViewInv => ViewInv'
      BY <3>1, <3>3 DEF ViewInv, activity, collection
    <3>8. QED
      BY <3>1, <3>2, <3>4, <3>5, <3>6, <3>7 DEF StatInv, optionVars, activity, collection
  <2>2. QED
    BY <2>1, ConfigureStep, NewCacheStep, UseSteps, CallStatsStep, ReadGlobalStep, ReadSegmentStep
       DEF Next
<1>2. QED
  BY <1>1, StatInvInitially, PTL DEF Spec

\* TypeOK, for any goroutines and settings: no counter ever goes below zero, no segment
\* holds more entries than its share of the budget.
THEOREM TypesHold == Spec => []TypeOK
<1>1. StatInv => TypeOK
  BY DEF StatInv, CacheTypes, TypeOK, HonestTasks
<1>2. QED
  BY <1>1, StatInvHolds, PTL

\* EverythingCountedOnce, for any goroutines, settings and batches: each entry that
\* leaves the cache is counted once, by whoever took it out, even where the counting
\* follows after the segment is unlocked.
THEOREM EverythingCountedOnceHolds == Spec => []EverythingCountedOnce
<1>1. StatInv => EverythingCountedOnce
  <2> SUFFICES ASSUME StatInv, built PROVE EverythingCountedOnce
    BY DEF EverythingCountedOnce
  <2>1. CacheTypes /\ CountInv
    BY DEF StatInv
  <2>2. ASSUME NEW s \in SegmentIndexes
        PROVE  counts[s]["loadSuperseded"] <= counts[s]["loadFound"] + counts[s]["loadNotFound"]
    <3>1. /\ counts[s]["loadSuperseded"] \in Nat /\ counts[s]["loadFound"] \in Nat
          /\ counts[s]["loadNotFound"] \in Nat /\ LoadsIn(s) \in Nat
      BY <2>1, TaskSums, FieldFacts DEF CacheTypes
    <3>2. QED
      BY <2>1, <3>1 DEF CountInv
  <2>3. QED
    BY <2>1, <2>2 DEF CountInv, EverythingCountedOnce, Held
<1>2. QED
  BY <1>1, StatInvHolds, PTL

\* SnapshotAccurate, for any goroutines and any number of segments: whatever runs while
\* Stats() reads the counters one by one, each number it returns is one the cache
\* passed through, and the entries never exceed the budget.
THEOREM SnapshotAccurateHolds == Spec => []SnapshotAccurate
<1>1. StatInv => SnapshotAccurate
  <2> SUFFICES ASSUME StatInv, built PROVE SnapshotAccurate
    BY DEF SnapshotAccurate
  <2>1. CacheTypes /\ ViewInv
    BY DEF StatInv
  <2>2. /\ \A f \in Fields : view[f] \in Nat /\ start[f] \in Nat /\ Total(f) \in Nat
        /\ start["inserted"] \in Nat /\ inserted \in Nat
        /\ GlobalFields \subseteq Fields /\ SegmentFields \subseteq Fields
        /\ "entries" \in SegmentFields /\ "entries" \notin GlobalFields
        /\ settings.segmentCount \in Nat \ {0} /\ position \in Int
    BY <2>1, CounterFacts, FieldFacts DEF StatInv, Fields, OptionsInv, Settings, NotReading
  <2>3. ASSUME NEW f \in SegmentFields, position >= LastRead(f)
        PROVE  /\ position # NotReading
               /\ SeenPart(f) = Total(f) /\ UnseenPart(f) = 0
               /\ Part(Capacities, Seen(f)) = settings.maxEntries
    <3>1. /\ position >= 4 + 7 * settings.segmentCount - 7 + SegmentIndex(f)
          /\ SegmentIndex(f) \in 1..7
      <4>1. LastRead(f) = LastPosition - 7 + SegmentIndex(f) /\ SegmentIndex(f) \in 1..7
        BY ReadFacts
      <4>2. LastPosition = 4 + 7 * settings.segmentCount
        BY FieldFacts DEF LastPosition
      <4>3. position >= LastRead(f)
        BY <2>3
      <4> HIDE DEF LastRead
      <4>4. position >= LastPosition - 7 + SegmentIndex(f)
        BY <4>1, <4>3
      <4>5. /\ settings.segmentCount \in Nat /\ position \in Int
            /\ SegmentIndex(f) \in Int /\ LastPosition \in Int
        BY <2>2, <4>1, <4>2
      <4>6. QED
        BY <4>1, <4>2, <4>4, <4>5
    <3>2. \A s \in SegmentIndexes : position >= 4 + 7 * s + SegmentIndex(f)
      <4> SUFFICES ASSUME NEW s \in SegmentIndexes PROVE position >= 4 + 7 * s + SegmentIndex(f)
        OBVIOUS
      <4>1. s \in Int /\ s <= settings.segmentCount - 1
        BY <2>2 DEF SegmentIndexes
      <4>2. QED
        BY <2>2, <3>1, <4>1
    <3>3. Seen(f) = SegmentIndexes /\ Unseen(f) = {}
      BY <3>2, FieldFacts DEF Seen, Unseen
    <3>4. position # NotReading
      BY <2>2, <3>1 DEF NotReading
    <3>5. /\ Counter(f) \in [SegmentIndexes -> Nat] /\ Capacities \in [SegmentIndexes -> Nat]
          /\ IsFiniteSet(SegmentIndexes) /\ Total(f) = Part(Counter(f), SegmentIndexes)
          /\ SumFunction(Capacities) = settings.maxEntries
      BY <2>1, CounterFacts
    <3>6. Part(Counter(f), {}) = 0 /\ Part(Capacities, SegmentIndexes) = SumFunction(Capacities)
      BY <3>5, PartFacts
    <3>7. QED
      BY <3>3, <3>4, <3>5, <3>6 DEF SeenPart, UnseenPart
  <2>4. ASSUME NEW f \in Fields \ {"entries"}, position >= LastRead(f)
        PROVE  view[f] \in start[f]..Total(f)
    <3>1. CASE f \in GlobalFields
      <4>1. position >= GlobalIndex(f) /\ GlobalIndex(f) \in 1..4
        BY <2>4, <3>1, ReadFacts
      <4>2. position # NotReading
        BY <2>2, <4>1 DEF NotReading
      <4>3. QED
        BY <2>1, <3>1, <4>1, <4>2, CounterFacts DEF ViewInv
    <3>2. CASE f \in SegmentFields
      <4>1. view[f] <= SeenPart(f) /\ start[f] <= view[f] + UnseenPart(f)
        BY <2>1, <2>3, <2>4, <3>2 DEF ViewInv
      <4>2. QED
        BY <2>2, <2>3, <2>4, <3>2, <4>1
    <3>3. QED
      BY <3>1, <3>2 DEF Fields
  <2>5. ASSUME position >= LastRead("entries")
        PROVE  /\ view["entries"] <= settings.maxEntries
               /\ view["entries"] >= start["entries"] - (Removed - RemovedAtStart)
               /\ view["entries"] <= start["entries"] + (inserted - start["inserted"])
    <3>1. /\ SeenPart("entries") = Total("entries") /\ UnseenPart("entries") = 0
          /\ Part(Capacities, Seen("entries")) = settings.maxEntries
          /\ position # NotReading
      BY <2>2, <2>3, <2>5
    <3>2. /\ view["entries"] <= settings.maxEntries
          /\ start["inserted"] + Total("entries") <= view["entries"] + inserted
          /\ start["inserted"] + view["entries"] + 0 <= start["entries"] + inserted
      BY <2>1, <3>1 DEF ViewInv
    <3>3. /\ view["entries"] \in Nat /\ start["entries"] \in Nat /\ Total("entries") \in Nat
      BY <2>2
    <3> HIDE DEF Total
    <3>4. QED
      BY <2>2, <3>2, <3>3 DEF Removed, RemovedAtStart
  <2>6. QED
    BY <2>4, <2>5 DEF SnapshotAccurate
<1>2. QED
  BY <1>1, StatInvHolds, PTL
===============================================================================
