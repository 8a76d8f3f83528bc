---------------------------- MODULE SegmentProofs ----------------------------
(***************************************************************************)
(* Proofs about Segment, for any keys, values, TTLs, capacity, resolution, *)
(* bucket objects and pool.                                                *)
(***************************************************************************)
EXTENDS Segment, FiniteSetTheorems, FunctionTheorems, SequenceTheorems,
        WellFoundedInduction, TLAPS

-------------------------------------------------------------------------------
(***************************************************************************)
(* Lists: sequences that hold each element of a set once.                  *)
(***************************************************************************)
Lists(list, S) == list \in Seq(S) /\ IsInjective(list) /\ ToSet(list) = S

\* What a list gives: places for all elements, and one place for each.
LEMMA ListFacts ==
  ASSUME NEW S, NEW list, Lists(list, S)
  PROVE  /\ Len(list) \in Nat /\ DOMAIN list = 1..Len(list)
         /\ \A i \in 1..Len(list) : list[i] \in S
         /\ \A x \in S : \E i \in 1..Len(list) : list[i] = x
         /\ \A i, j \in 1..Len(list) : list[i] = list[j] => i = j
BY DEF Lists, IsInjective, ToSet

\* A sequence that names each element of S at one place lists S.
LEMMA IsList ==
  ASSUME NEW S, NEW list \in Seq(S),
         \A x \in S : \E i \in 1..Len(list) : list[i] = x,
         \A i, j \in 1..Len(list) : list[i] = list[j] => i = j
  PROVE  Lists(list, S)
<1>1. DOMAIN list = 1..Len(list) /\ \A i \in 1..Len(list) : list[i] \in S
  BY LenProperties, ElementOfSeq
<1>2. IsInjective(list)
  BY <1>1 DEF IsInjective
<1>3. ToSet(list) = S
  BY <1>1 DEF ToSet
<1>4. QED
  BY <1>2, <1>3 DEF Lists

\* The empty sequence lists the empty set and no other.
LEMMA EmptyList ==
  /\ Lists(<<>>, {})
  /\ \A S, list : Lists(list, S) => (list = <<>> <=> S = {})
<1>1. Lists(<<>>, {})
  BY DEF Lists, IsInjective, ToSet
<1>2. ASSUME NEW S, NEW list, Lists(list, S)
      PROVE  list = <<>> <=> S = {}
  <2>1. CASE S = {}
    BY <1>2, <2>1, ListFacts DEF Lists
  <2>2. CASE S # {}
    BY <1>2, <2>2, ListFacts DEF Lists
  <2>3. QED
    BY <2>1, <2>2
<1>3. QED
  BY <1>1, <1>2

\* An element that is new makes a longer list, at the end of it,
LEMMA Appending ==
  ASSUME NEW S, NEW list, Lists(list, S), NEW x, x \notin S
  PROVE  Lists(Append(list, x), S \union {x})
<1> DEFINE T == S \union {x}
<1>1. list \in Seq(T) /\ x \in T
  BY SeqMonotonic DEF Lists
<1>2. /\ Append(list, x) \in Seq(T) /\ Len(Append(list, x)) = Len(list) + 1
      /\ \A i \in 1..Len(list) : Append(list, x)[i] = list[i]
      /\ Append(list, x)[Len(list) + 1] = x
  BY <1>1, AppendProperties
<1> DEFINE new == Append(list, x)
<1> HIDE DEF new
<1>3. \A y \in T : \E i \in 1..Len(list) + 1 : new[i] = y
  <2>1. Len(list) \in Nat /\ Len(list) + 1 \in 1..Len(list) + 1
    BY ListFacts
  <2>2. \A y \in S : \E i \in 1..Len(list) : list[i] = y
    BY ListFacts
  <2>3. ASSUME NEW y \in S PROVE \E i \in 1..Len(list) + 1 : new[i] = y
    <3>1. PICK i \in 1..Len(list) : list[i] = y
      BY <2>2
    <3>2. i \in 1..Len(list) + 1 /\ new[i] = y
      BY <1>2, <2>1, <3>1 DEF new
    <3>3. QED
      BY <3>2
  <2>4. new[Len(list) + 1] = x
    BY <1>2 DEF new
  <2>5. QED
    BY <2>1, <2>3, <2>4
<1>4. ASSUME NEW i \in 1..Len(list) + 1, NEW j \in 1..Len(list) + 1, new[i] = new[j]
      PROVE  i = j
  <2>1. \A n \in 1..Len(list) : new[n] = list[n] /\ list[n] \in S
    BY <1>2, ListFacts DEF new
  <2>2. new[Len(list) + 1] = x
    BY <1>2 DEF new
  <2>3. \A n \in 1..Len(list) + 1 : n \in 1..Len(list) \/ n = Len(list) + 1
    BY ListFacts
  <2>4. QED
    BY <1>4, <2>1, <2>2, <2>3, ListFacts
<1>5. new \in Seq(T) /\ Len(new) = Len(list) + 1
  BY <1>2 DEF new
<1>6. Lists(new, T)
  BY <1>3, <1>4, <1>5, IsList
<1>7. QED
  BY <1>6 DEF new

\* or in front of it.
LEMMA Prepending ==
  ASSUME NEW S, NEW list, Lists(list, S), NEW x, x \notin S
  PROVE  Lists(<<x>> \o list, S \union {x})
<1> DEFINE T == S \union {x}
           new == <<x>> \o list
<1>1. list \in Seq(T) /\ x \in T /\ <<x>> \in Seq(T)
  BY SeqMonotonic DEF Lists
<1>2. /\ new \in Seq(T) /\ Len(new) = Len(list) + 1
      /\ new[1] = x
      /\ \A i \in 1..Len(list) : new[i + 1] = list[i]
  BY <1>1, ConcatProperties, ListFacts
<1> HIDE DEF new
<1>3. \A y \in T : \E i \in 1..Len(new) : new[i] = y
  BY <1>2, ListFacts
<1>4. \A i \in 2..Len(new) : new[i] \in S /\ new[i] = list[i - 1] /\ i - 1 \in 1..Len(list)
  BY <1>2, ListFacts
<1>5. ASSUME NEW i \in 1..Len(new), NEW j \in 1..Len(new), new[i] = new[j]
      PROVE  i = j
  <2>1. CASE i = 1 \/ j = 1
    BY <1>2, <1>4, <1>5, <2>1, ListFacts
  <2>2. CASE i # 1 /\ j # 1
    <3>1. i \in 2..Len(new) /\ j \in 2..Len(new)
      BY <1>2, <2>2, ListFacts
    <3>2. list[i - 1] = list[j - 1] /\ i - 1 \in 1..Len(list) /\ j - 1 \in 1..Len(list)
      BY <1>4, <1>5, <3>1
    <3>3. i - 1 = j - 1
      BY <3>2, ListFacts
    <3>4. QED
      BY <3>1, <3>3
  <2>3. QED
    BY <2>1, <2>2
<1>6. Lists(new, T)
  BY <1>2, <1>3, <1>5, IsList
<1>7. QED
  BY <1>6 DEF new

\* A list without its place n, where x was: the gap is closed.
Skips(new, list, n) ==
  /\ Len(new) = Len(list) - 1
  /\ \A i \in 1..Len(list) - 1 : new[i] = IF i < n THEN list[i] ELSE list[i + 1]

\* RemoveFirst closes the gap where x was.
LEMMA Removing ==
  ASSUME NEW S, NEW list, Lists(list, S), NEW x \in S
  PROVE  /\ RemoveFirst(list, x) \in Seq(S)
         /\ \E n \in 1..Len(list) : list[n] = x /\ Skips(RemoveFirst(list, x), list, n)
<1>1. PICK n \in 1..Len(list) : list[n] = x
  BY ListFacts
<1>2. \A i \in 1..Len(list) : list[i] = x <=> i = n
  BY <1>1, ListFacts
<1>3. RemoveFirst(list, x) = SubSeq(list, 1, n - 1) \o SubSeq(list, n + 1, Len(list))
  <2>1. {i \in 1..Len(list) : list[i] = x} = {n}
    BY <1>2
  <2>2. Min({n}) = n
    BY <1>1 DEF Min
  <2>3. QED
    BY <2>1, <2>2, <1>1 DEF RemoveFirst, SelectInSeq, RemoveAt
<1> DEFINE left == SubSeq(list, 1, n - 1)
           right == SubSeq(list, n + 1, Len(list))
<1>4. /\ left \in Seq(S) /\ Len(left) = n - 1
      /\ \A i \in 1..n - 1 : left[i] = list[i]
  <2>1. \A i \in 1..n - 1 : list[i] \in S
    BY <1>1, ListFacts
  <2>2. QED
    BY <1>1, <2>1, ListFacts, SubSeqProperties
<1>5. /\ right \in Seq(S) /\ Len(right) = Len(list) - n
      /\ \A i \in 1..Len(list) - n : right[i] = list[n + i]
  <2>1. \A i \in n + 1..Len(list) : list[i] \in S
    BY <1>1, ListFacts
  <2>2. n + 1 \in Int /\ Len(list) \in Int
    BY <1>1, ListFacts
  <2>3. /\ right \in Seq(S)
        /\ Len(right) = IF n + 1 <= Len(list) THEN Len(list) - (n + 1) + 1 ELSE 0
        /\ \A i \in 1..Len(list) - (n + 1) + 1 : right[i] = list[n + 1 + i - 1]
    BY <2>1, <2>2, SubSeqProperties
  <2>4. QED
    BY <1>1, <2>3, ListFacts
<1> HIDE DEF left, right
<1>6. /\ left \o right \in Seq(S) /\ Len(left \o right) = Len(list) - 1
      /\ \A i \in 1..Len(list) - 1 :
           (left \o right)[i] = IF i <= n - 1 THEN left[i] ELSE right[i - (n - 1)]
  <2>1. Len(left) + Len(right) = Len(list) - 1
    BY <1>1, <1>4, <1>5, ListFacts
  <2>2. left \in Seq(S) /\ right \in Seq(S)
    BY <1>4, <1>5
  <2>3. /\ left \o right \in Seq(S) /\ Len(left \o right) = Len(left) + Len(right)
        /\ \A i \in 1..Len(left) + Len(right) :
             (left \o right)[i] = IF i <= Len(left) THEN left[i] ELSE right[i - Len(left)]
    BY <2>2, ConcatProperties
  <2>4. QED
    BY <1>4, <2>1, <2>3
<1>7. \A i \in 1..Len(list) - 1 :
        (left \o right)[i] = IF i < n THEN list[i] ELSE list[i + 1]
  BY <1>1, <1>4, <1>5, <1>6, ListFacts
<1>8. QED
  BY <1>1, <1>3, <1>6, <1>7 DEF left, right, Skips

\* What is left of a list without x is a list of the others.
LEMMA Unlisting ==
  ASSUME NEW S, NEW list, Lists(list, S), NEW x \in S
  PROVE  Lists(RemoveFirst(list, x), S \ {x})
<1> DEFINE new == RemoveFirst(list, x)
           m == Len(list) - 1
<1> HIDE DEF new
<1>0. PICK n \in 1..Len(list) : list[n] = x /\ Skips(new, list, n)
  BY Removing DEF new
<1>1. /\ list[n] = x /\ Len(new) = m /\ new \in Seq(S)
      /\ \A i \in 1..m : new[i] = IF i < n THEN list[i] ELSE list[i + 1]
  BY <1>0, Removing DEF Skips, new
<1>2. \A i \in 1..m : \E j \in 1..Len(list) :
        /\ new[i] = list[j] /\ j # n
        /\ j = IF i < n THEN i ELSE i + 1
  BY <1>1, ListFacts
<1>3. ASSUME NEW i \in 1..m PROVE new[i] \in S \ {x}
  <2>1. PICK j \in 1..Len(list) : new[i] = list[j] /\ j # n
    BY <1>2
  <2>2. list[j] \in S /\ list[j] # list[n]
    BY <2>1, ListFacts
  <2>3. QED
    BY <1>1, <2>1, <2>2
<1>4. new \in Seq(S \ {x})
  <2>1. m \in Nat /\ new = [i \in 1..m |-> new[i]]
    BY <1>1, LenProperties, ListFacts
  <2>2. new \in [1..m -> S \ {x}]
    BY <1>3, <2>1
  <2>3. QED
    BY <2>1, <2>2, SeqDef
<1>5. ASSUME NEW y \in S \ {x} PROVE \E i \in 1..m : new[i] = y
  <2>1. PICK j \in 1..Len(list) : list[j] = y
    BY ListFacts
  <2>2. CASE j < n
    <3>1. j \in 1..m
      BY <1>1, <2>2, ListFacts
    <3>2. QED
      BY <1>1, <2>1, <2>2, <3>1
  <2>3. CASE j > n
    <3>1. j - 1 \in 1..m /\ ~(j - 1 < n) /\ (j - 1) + 1 = j
      BY <1>1, <2>3, ListFacts
    <3>2. new[j - 1] = list[(j - 1) + 1]
      BY <1>1, <3>1
    <3>3. QED
      BY <2>1, <3>1, <3>2
  <2>4. j # n
    BY <1>1, <2>1
  <2>5. QED
    BY <2>2, <2>3, <2>4, ListFacts
<1>6. ASSUME NEW i \in 1..m, NEW j \in 1..m, new[i] = new[j]
      PROVE  i = j
  <2>1. PICK p \in 1..Len(list) : new[i] = list[p] /\ p = IF i < n THEN i ELSE i + 1
    BY <1>2
  <2>2. PICK q \in 1..Len(list) : new[j] = list[q] /\ q = IF j < n THEN j ELSE j + 1
    BY <1>2
  <2>3. p = q
    <3>1. list[p] = list[q]
      BY <1>6, <2>1, <2>2
    <3>2. QED
      BY <3>1, ListFacts
  <2>4. QED
    BY <2>1, <2>2, <2>3, ListFacts
<1>7. Lists(new, S \ {x})
  <2>1. Len(new) = m
    BY <1>1
  <2>2. \A y \in S \ {x} : \E i \in 1..Len(new) : new[i] = y
    BY <1>5, <2>1
  <2>3. \A i, j \in 1..Len(new) : new[i] = new[j] => i = j
    BY <1>6, <2>1
  <2>4. QED
    BY <1>4, <2>2, <2>3, IsList
<1>8. QED
  BY <1>7 DEF new

\* The end of a list goes.
LEMMA Dropping ==
  ASSUME NEW S, NEW list, Lists(list, S), S # {}
  PROVE  Last(list) \in S /\ Lists(Front(list), S \ {Last(list)})
<1> DEFINE m == Len(list) - 1
           x == Last(list)
<1>1. Len(list) \in Nat /\ m \in Nat /\ x = list[m + 1] /\ x \in S /\ Len(list) = m + 1
  <2>1. Len(list) # 0
    BY ListFacts
  <2>2. QED
    BY <2>1, ListFacts DEF Last
<1>2. \A i \in 1..m : list[i] \in S \ {x}
  BY <1>1, ListFacts
<1>3. /\ Front(list) \in Seq(S \ {x}) /\ Len(Front(list)) = m
      /\ \A i \in 1..m : Front(list)[i] = list[i]
  <2>1. /\ SubSeq(list, 1, m) \in Seq(S \ {x})
        /\ Len(SubSeq(list, 1, m)) = IF 1 <= m THEN m - 1 + 1 ELSE 0
        /\ \A i \in 1..m - 1 + 1 : SubSeq(list, 1, m)[i] = list[1 + i - 1]
    BY <1>1, <1>2, SubSeqProperties
  <2>2. QED
    BY <1>1, <2>1 DEF Front
<1>4. ASSUME NEW y \in S \ {x} PROVE \E i \in 1..m : Front(list)[i] = y
  <2>1. PICK j \in 1..Len(list) : list[j] = y
    BY ListFacts
  <2>2. j \in 1..m
    BY <1>1, <2>1
  <2>3. QED
    BY <1>3, <2>1, <2>2
<1>5. \A i, j \in 1..m : Front(list)[i] = Front(list)[j] => i = j
  <2>1. \A i \in 1..m : i \in 1..Len(list)
    BY <1>1
  <2>2. \A i, j \in 1..Len(list) : list[i] = list[j] => i = j
    BY ListFacts
  <2>3. QED
    BY <1>3, <2>1, <2>2
<1>6. Lists(Front(list), S \ {x})
  <2> DEFINE T == S \ {x}
             new == Front(list)
  <2>1. new \in Seq(T) /\ Len(new) = m
    BY <1>3
  <2>2. \A y \in T : \E i \in 1..Len(new) : new[i] = y
    BY <1>4, <2>1
  <2>3. \A i, j \in 1..Len(new) : new[i] = new[j] => i = j
    BY <1>5, <2>1
  <2> HIDE DEF T, new
  <2>4. new \in Seq(T)
    BY <2>1
  <2>5. Lists(new, T)
    BY <2>2, <2>3, <2>4, IsList
  <2>6. QED
    BY <2>5 DEF T, new
<1>7. QED
  BY <1>1, <1>6

\* A list is as long as its set is large.
LEMMA ListLength ==
  ASSUME NEW S, NEW list, Lists(list, S)
  PROVE  IsFiniteSet(S) /\ Cardinality(S) = Len(list)
<1>1. list \in Bijection(1..Len(list), S)
  <2>1. list \in [1..Len(list) -> S]
    BY LenProperties DEF Lists
  <2>2. QED
    BY <2>1, ListFacts, Fun_IsBij
<1>2. ExistsBijection(1..Len(list), S)
  BY <1>1 DEF ExistsBijection
<1>3. Len(list) \in Nat /\ IsFiniteSet(1..Len(list)) /\ Cardinality(1..Len(list)) = Len(list)
  <2>1. Len(list) \in Nat
    BY ListFacts
  <2>2. /\ IsFiniteSet(1..Len(list))
        /\ Cardinality(1..Len(list)) = IF 1 > Len(list) THEN 0 ELSE Len(list) - 1 + 1
    BY <2>1, FS_Interval
  <2>3. QED
    BY <2>1, <2>2
<1>4. QED
  BY <1>2, <1>3, FS_Bijection

\* A list of one element is the list of a set of one.
LEMMA Singleton ==
  ASSUME NEW S, NEW list, Lists(list, S), NEW x
  PROVE  list = <<x>> <=> S = {x}
<1>1. ASSUME list = <<x>> PROVE S = {x}
  BY <1>1 DEF Lists, ToSet
<1>2. ASSUME S = {x} PROVE list = <<x>>
  <2>1. Cardinality(S) = 1
    BY <1>2, FS_Singleton
  <2>2. Len(list) = 1 /\ list[1] = x
    <3>1. Len(list) = 1
      BY <2>1, ListLength
    <3>2. list[1] \in S
      BY <3>1, ListFacts
    <3>3. QED
      BY <1>2, <3>1, <3>2
  <2>3. <<x>> \in Seq(S) /\ Len(<<x>>) = 1
    BY <1>2
  <2>4. QED
    BY <2>2, <2>3, SeqEqual DEF Lists
<1>3. QED
  BY <1>1, <1>2
-------------------------------------------------------------------------------
(***************************************************************************)
(* The index agrees with ids, the bucket id of every entry that expires.   *)
(***************************************************************************)
Of(ids, i) == {k \in DOMAIN ids : ids[k] = i}

IndexShape(x) ==
  /\ DOMAIN x = {"buckets", "heap", "spare", "id", "items"}
  /\ x = [field \in DOMAIN x |-> x[field]]
  /\ x.buckets \in [DOMAIN x.buckets -> Buckets]
  /\ DOMAIN x.buckets \subseteq Nat
  /\ x.id \in [Buckets -> Nat]
  /\ x.items = [b \in Buckets |-> x.items[b]]

PoolInv(x) ==
  /\ Lists(x.spare, ToSet(x.spare))
  /\ ToSet(x.spare) \subseteq Buckets \ x.heap
  /\ Len(x.spare) <= MaxSpare

Agrees(x, ids) ==
  /\ IndexShape(x)
  /\ PoolInv(x)
  /\ ids \in [DOMAIN ids -> Nat] /\ DOMAIN ids \subseteq Keys
  /\ DOMAIN x.buckets = {ids[k] : k \in DOMAIN ids}
  /\ \A i \in DOMAIN x.buckets : x.id[x.buckets[i]] = i
  /\ x.heap = {x.buckets[i] : i \in DOMAIN x.buckets}
  /\ \A b \in Buckets : Lists(x.items[b], IF b \in x.heap THEN Of(ids, x.id[b]) ELSE {})

\* The fields of the index after the steps it is changed by.
LEMMA EmptiedFields ==
  ASSUME NEW x, IndexShape(x), NEW b \in Buckets, x.items[b] = <<>>
  PROVE  LET y == WithoutEmpty(x, b)
         IN  /\ IndexShape(y)
             /\ y.buckets = Without(x.buckets, x.id[b]) /\ y.heap = x.heap \ {b}
             /\ y.id = [x.id EXCEPT ![b] = 0] /\ y.items = x.items
             /\ y.spare = IF Len(x.spare) < MaxSpare THEN Append(x.spare, b) ELSE x.spare
<1> DEFINE y == WithoutEmpty(x, b)
           d == Deactivated(x, b)
<1>1. /\ DOMAIN d = DOMAIN x /\ d = [field \in DOMAIN d |-> d[field]]
      /\ d.buckets = Without(x.buckets, x.id[b]) /\ d.heap = x.heap \ {b}
      /\ d.spare = x.spare /\ d.id = x.id /\ d.items = x.items
  BY DEF Deactivated, IndexShape
<1>2. y = Released(d, b)
  BY DEF WithoutEmpty, y
<1> HIDE DEF d, y
<1>3. /\ DOMAIN y = DOMAIN d /\ y = [field \in DOMAIN y |-> y[field]]
      /\ y.buckets = d.buckets /\ y.heap = d.heap
      /\ y.spare = IF Len(x.spare) < MaxSpare THEN Append(x.spare, b) ELSE x.spare
      /\ y.id = [x.id EXCEPT ![b] = 0] /\ y.items = [x.items EXCEPT ![b] = <<>>]
  <2>1. DOMAIN d = {"buckets", "heap", "spare", "id", "items"}
    BY <1>1 DEF IndexShape
  <2>2. /\ DOMAIN y = DOMAIN d /\ y = [field \in DOMAIN y |-> y[field]]
        /\ y.buckets = d.buckets /\ y.heap = d.heap
        /\ y.spare = IF Len(d.spare) < MaxSpare THEN Append(d.spare, b) ELSE d.spare
        /\ y.id = [d.id EXCEPT ![b] = 0] /\ y.items = [d.items EXCEPT ![b] = <<>>]
    BY <2>1, <1>2 DEF Released
  <2>3. QED
    BY <1>1, <2>2
<1>4. [x.items EXCEPT ![b] = <<>>] = x.items
  BY DEF IndexShape
<1>5. /\ Without(x.buckets, x.id[b]) \in [DOMAIN x.buckets \ {x.id[b]} -> Buckets]
      /\ [x.id EXCEPT ![b] = 0] \in [Buckets -> Nat]
  BY DEF IndexShape, Without, Restrict
<1>6. IndexShape(y)
  BY <1>1, <1>3, <1>4, <1>5 DEF IndexShape
<1>7. QED
  BY <1>1, <1>3, <1>4, <1>6 DEF y

\* What activating a bucket changes in the index,
LEMMA ActivatedFields ==
  ASSUME NEW x, IndexShape(x), NEW i \in Nat, AcquiredBucket(x) \in Buckets
  PROVE  LET y == Activated(x, i)
             b == AcquiredBucket(x)
         IN  /\ IndexShape(y)
             /\ y.buckets = With(x.buckets, i, b) /\ y.heap = x.heap \union {b}
             /\ y.id = [x.id EXCEPT ![b] = i] /\ y.items = x.items
             /\ y.spare = IF x.spare = <<>> THEN <<>> ELSE Front(x.spare)
<1> DEFINE y == Activated(x, i)
           b == AcquiredBucket(x)
<1> HIDE DEF b
<1>1. /\ DOMAIN y = DOMAIN x /\ y = [field \in DOMAIN y |-> y[field]]
      /\ y.buckets = With(x.buckets, i, b) /\ y.heap = x.heap \union {b}
      /\ y.id = [x.id EXCEPT ![b] = i] /\ y.items = x.items
      /\ y.spare = IF x.spare = <<>> THEN <<>> ELSE Front(x.spare)
  BY DEF Activated, IndexShape, b
<1>2. /\ With(x.buckets, i, b) \in [DOMAIN x.buckets \union {i} -> Buckets]
      /\ DOMAIN x.buckets \union {i} \subseteq Nat
      /\ [x.id EXCEPT ![b] = i] \in [Buckets -> Nat]
  BY DEF IndexShape, With, b
<1> HIDE DEF y
<1>3. IndexShape(y)
  BY <1>1, <1>2 DEF IndexShape
<1>4. QED
  BY <1>1, <1>3 DEF y, b

\* what giving a bucket other entries changes,
LEMMA ItemsFields ==
  ASSUME NEW x, IndexShape(x), NEW b \in Buckets, NEW list
  PROVE  LET y == [x EXCEPT !.items[b] = list]
         IN  /\ IndexShape(y)
             /\ y.buckets = x.buckets /\ y.heap = x.heap /\ y.spare = x.spare /\ y.id = x.id
             /\ y.items = [x.items EXCEPT ![b] = list]
BY DEF IndexShape

\* and what moving a bucket to another id changes.
LEMMA RekeyedFields ==
  ASSUME NEW x, IndexShape(x), NEW from \in DOMAIN x.buckets, NEW to \in Nat
  PROVE  LET y == Rekeyed(x, from, to)
             b == x.buckets[from]
         IN  /\ IndexShape(y)
             /\ y.buckets = With(Without(x.buckets, from), to, b)
             /\ y.heap = x.heap /\ y.spare = x.spare /\ y.items = x.items
             /\ y.id = [x.id EXCEPT ![b] = to]
<1> DEFINE y == Rekeyed(x, from, to)
           b == x.buckets[from]
<1>1. /\ DOMAIN y = DOMAIN x /\ y = [field \in DOMAIN y |-> y[field]]
      /\ y.buckets = With(Without(x.buckets, from), to, b)
      /\ y.heap = x.heap /\ y.spare = x.spare /\ y.items = x.items
      /\ y.id = [x.id EXCEPT ![b] = to]
  BY DEF Rekeyed, IndexShape
<1>2. /\ b \in Buckets
      /\ Without(x.buckets, from) \in [DOMAIN x.buckets \ {from} -> Buckets]
  BY DEF IndexShape, Without, Restrict
<1>3. /\ With(Without(x.buckets, from), to, b)
           \in [(DOMAIN x.buckets \ {from}) \union {to} -> Buckets]
      /\ (DOMAIN x.buckets \ {from}) \union {to} \subseteq Nat
      /\ [x.id EXCEPT ![b] = to] \in [Buckets -> Nat]
  BY <1>2 DEF IndexShape, With
<1> HIDE DEF y, b
<1>4. IndexShape(y)
  BY <1>1, <1>3 DEF IndexShape
<1>5. QED
  BY <1>1, <1>4 DEF y, b

\* Agreement, read from both sides: the bucket of every entry that expires is active,
\* and every active bucket holds the entries of its id and is not empty.
LEMMA ActiveBuckets ==
  ASSUME NEW x, NEW ids, Agrees(x, ids)
  PROVE  /\ x.heap \subseteq Buckets
         /\ \A k \in DOMAIN ids :
              /\ ids[k] \in Nat /\ ids[k] \in DOMAIN x.buckets
              /\ x.buckets[ids[k]] \in x.heap /\ x.id[x.buckets[ids[k]]] = ids[k]
         /\ \A b \in x.heap :
              /\ x.id[b] \in Nat /\ x.id[b] \in DOMAIN x.buckets /\ x.buckets[x.id[b]] = b
              /\ \E k \in DOMAIN ids : ids[k] = x.id[b]
              /\ Lists(x.items[b], Of(ids, x.id[b])) /\ x.items[b] # <<>>
         /\ \A b \in Buckets \ x.heap : x.items[b] = <<>>
<1>1. x.heap \subseteq Buckets
  BY DEF Agrees, IndexShape
<1>2. ASSUME NEW k \in DOMAIN ids
      PROVE  /\ ids[k] \in Nat /\ ids[k] \in DOMAIN x.buckets
             /\ x.buckets[ids[k]] \in x.heap /\ x.id[x.buckets[ids[k]]] = ids[k]
  BY DEF Agrees
<1>3. ASSUME NEW b \in x.heap
      PROVE  /\ x.id[b] \in Nat /\ x.id[b] \in DOMAIN x.buckets /\ x.buckets[x.id[b]] = b
             /\ \E k \in DOMAIN ids : ids[k] = x.id[b]
             /\ Lists(x.items[b], Of(ids, x.id[b])) /\ x.items[b] # <<>>
  <2>1. PICK i \in DOMAIN x.buckets : b = x.buckets[i]
    BY DEF Agrees
  <2>2. x.id[b] = i
    BY <2>1 DEF Agrees
  <2>3. PICK k \in DOMAIN ids : ids[k] = i
    BY DEF Agrees
  <2>4. Lists(x.items[b], Of(ids, x.id[b]))
    BY <1>1 DEF Agrees
  <2>5. k \in Of(ids, x.id[b])
    BY <2>2, <2>3 DEF Of
  <2>6. x.items[b] # <<>>
    BY <2>4, <2>5, EmptyList
  <2>7. i \in Nat
    BY DEF Agrees, IndexShape
  <2>8. QED
    BY <2>1, <2>2, <2>3, <2>4, <2>6, <2>7
<1>4. ASSUME NEW b \in Buckets \ x.heap PROVE x.items[b] = <<>>
  <2>1. Lists(x.items[b], {})
    BY DEF Agrees
  <2>2. QED
    BY <2>1, EmptyList
<1>5. QED
  BY <1>1, <1>2, <1>3, <1>4

\* There is always a bucket to acquire: the heap has one per key at most.
LEMMA FreshBucket ==
  ASSUME NEW x, NEW ids, Agrees(x, ids),
         IsFiniteSet(DOMAIN ids), Cardinality(DOMAIN ids) <= Capacity
  PROVE  AcquiredBucket(x) \in Buckets \ x.heap
<1>1. CASE x.spare # <<>>
  <2>1. Last(x.spare) \in ToSet(x.spare)
    <3>1. Lists(x.spare, ToSet(x.spare)) /\ ToSet(x.spare) # {}
      BY <1>1, EmptyList DEF Agrees, PoolInv
    <3>2. QED
      BY <3>1, Dropping
  <2>2. QED
    BY <1>1, <2>1 DEF AcquiredBucket, Agrees, PoolInv
<1>2. CASE x.spare = <<>>
  <2> DEFINE f == [k \in DOMAIN ids |-> x.buckets[ids[k]]]
  <2>1. f \in Surjection(DOMAIN ids, x.heap)
    <3>1. f \in [DOMAIN ids -> x.heap]
      BY ActiveBuckets
    <3>2. ASSUME NEW b \in x.heap PROVE \E k \in DOMAIN ids : f[k] = b
      BY ActiveBuckets
    <3>3. QED
      BY <3>1, <3>2, Fun_IsSurj
  <2> HIDE DEF f
  <2>2. IsFiniteSet(x.heap) /\ Cardinality(x.heap) <= Cardinality(DOMAIN ids)
    BY <2>1, FS_Surjection
  <2>3. Cardinality(x.heap) \in Nat /\ Cardinality(DOMAIN ids) \in Nat
    BY <2>2, FS_CardinalityType
  <2>4. Cardinality(Buckets) \in Nat
    BY FS_CardinalityType, SegmentAssumption
  <2>5. x.heap # Buckets
    BY <2>2, <2>3, <2>4, SegmentAssumption
  <2>6. \E b \in Buckets : b \notin x.heap
    BY <2>5, ActiveBuckets
  <2>7. QED
    BY <1>2, <2>6 DEF AcquiredBucket
<1>3. QED
  BY <1>1, <1>2

\* expirationIndex.add files the key under its id, in a bucket that is active, comes
\* from the pool or is new.  There is always a bucket to take: the active ones are at
\* most as many as the other entries, and the pool has its limit.
LEMMA AddedAgrees ==
  ASSUME NEW x, NEW ids, Agrees(x, ids),
         IsFiniteSet(DOMAIN ids), Cardinality(DOMAIN ids) <= Capacity,
         NEW k \in Keys, k \notin DOMAIN ids, NEW deadline \in Nat, deadline # 0,
         BucketID(deadline) \in Nat
  PROVE  Agrees(Added(x, k, deadline), With(ids, k, BucketID(deadline)))
<1> DEFINE i == BucketID(deadline)
           new == With(ids, k, i)
           y == Added(x, k, deadline)
<1>1. /\ DOMAIN new = DOMAIN ids \union {k} /\ new \in [DOMAIN new -> Nat]
      /\ Of(new, i) = Of(ids, i) \union {k}
      /\ \A j : j # i => Of(new, j) = Of(ids, j)
      /\ {new[j] : j \in DOMAIN new} = {ids[j] : j \in DOMAIN ids} \union {i}
  <2>1. ids \in [DOMAIN ids -> Nat]
    BY DEF Agrees
  <2> HIDE DEF i, new
  <2>2. i \in Nat /\ new = With(ids, k, i)
    BY DEF i, new
  <2>3. QED
    BY <2>1, <2>2 DEF With, Of
<1>2. /\ IndexShape(x) /\ PoolInv(x) /\ DOMAIN ids \subseteq Keys
      /\ DOMAIN x.buckets = {ids[j] : j \in DOMAIN ids}
      /\ \A j \in DOMAIN x.buckets : x.id[x.buckets[j]] = j
      /\ x.heap = {x.buckets[j] : j \in DOMAIN x.buckets}
      /\ \A b \in Buckets : Lists(x.items[b], IF b \in x.heap THEN Of(ids, x.id[b]) ELSE {})
  BY DEF Agrees
<1>3. k \notin Of(ids, i)
  BY DEF Of
<1> HIDE DEF new, i
<1>4. CASE i \in DOMAIN x.buckets
  <2> DEFINE b == x.buckets[i]
             list == Append(x.items[b], k)
             z == [x EXCEPT !.items[b] = list]
  <2>1. b \in x.heap /\ b \in Buckets /\ x.id[b] = i
    BY <1>2, <1>4 DEF IndexShape
  <2>2. y = z
    BY <1>4 DEF Added, i
  <2> HIDE DEF b, list
  <2>3. /\ IndexShape(z)
        /\ z.buckets = x.buckets /\ z.heap = x.heap /\ z.spare = x.spare /\ z.id = x.id
        /\ z.items = [x.items EXCEPT ![b] = list]
    BY <1>2, <2>1, ItemsFields
  <2> HIDE DEF z
  <2>4. Lists(list, Of(new, i))
    <3>1. Lists(x.items[b], Of(ids, i))
      BY <1>2, <2>1
    <3>2. QED
      BY <1>1, <1>3, <3>1, Appending DEF list
  <2>5. ASSUME NEW d \in Buckets
        PROVE  Lists(z.items[d], IF d \in z.heap THEN Of(new, z.id[d]) ELSE {})
    <3>1. CASE d = b
      BY <1>2, <2>1, <2>3, <2>4, <3>1 DEF IndexShape
    <3>2. CASE d # b
      <4>1. z.items[d] = x.items[d]
        BY <1>2, <2>3, <3>2 DEF IndexShape
      <4>2. d \in x.heap => x.id[d] # i
        BY <1>2, <3>2 DEF b
      <4>3. QED
        BY <1>1, <1>2, <2>3, <4>1, <4>2
    <3>3. QED
      BY <3>1, <3>2
  <2>6. PoolInv(z)
    BY <1>2, <2>3 DEF PoolInv
  <2>7. DOMAIN z.buckets = {new[j] : j \in DOMAIN new}
    BY <1>1, <1>2, <1>4, <2>3
  <2>8. Agrees(z, new)
    BY <1>1, <1>2, <2>3, <2>5, <2>6, <2>7 DEF Agrees
  <2>9. QED
    BY <2>2, <2>8 DEF new, i
<1>5. CASE i \notin DOMAIN x.buckets
  <2> DEFINE b == AcquiredBucket(x)
             a == Activated(x, i)
             list == Append(a.items[a.buckets[i]], k)
             z == [a EXCEPT !.items[b] = list]
  <2>1. b \in Buckets /\ b \notin x.heap
    BY FreshBucket
  <2>2. /\ IndexShape(a)
        /\ a.buckets = With(x.buckets, i, b) /\ a.heap = x.heap \union {b}
        /\ a.id = [x.id EXCEPT ![b] = i] /\ a.items = x.items
        /\ a.spare = IF x.spare = <<>> THEN <<>> ELSE Front(x.spare)
    BY <1>2, <2>1, ActivatedFields DEF i
  <2>3. a.buckets[i] = b
    BY <2>2 DEF With
  <2>4. y = z
    BY <1>5, <2>3 DEF Added, i
  <2> HIDE DEF a, b, list
  <2>5. /\ IndexShape(z)
        /\ z.buckets = a.buckets /\ z.heap = a.heap /\ z.spare = a.spare /\ z.id = a.id
        /\ z.items = [a.items EXCEPT ![b] = list]
    <3>1. IndexShape(a) /\ b \in Buckets
      BY <2>1, <2>2
    <3>2. QED
      BY <3>1, ItemsFields
  <2> HIDE DEF z
  <2>6. Lists(list, Of(new, i))
    <3>1. x.items[b] = <<>> /\ Of(ids, i) = {}
      BY <1>2, <1>5, <2>1, ActiveBuckets DEF Of
    <3>2. Lists(x.items[b], Of(ids, i))
      BY <3>1, EmptyList
    <3>3. QED
      BY <1>1, <1>3, <2>2, <2>3, <3>2, Appending DEF list
  <2>7. ASSUME NEW d \in Buckets
        PROVE  Lists(z.items[d], IF d \in z.heap THEN Of(new, z.id[d]) ELSE {})
    <3>1. CASE d = b
      BY <1>2, <2>2, <2>5, <2>6, <3>1 DEF IndexShape
    <3>2. CASE d # b
      <4>1. z.items[d] = x.items[d] /\ z.id[d] = x.id[d] /\ (d \in z.heap <=> d \in x.heap)
        BY <1>2, <2>2, <2>5, <3>2 DEF IndexShape
      <4>2. d \in x.heap => x.id[d] # i
        BY <1>2, <1>5
      <4>3. QED
        BY <1>1, <1>2, <4>1, <4>2
    <3>3. QED
      BY <3>1, <3>2
  <2>8. PoolInv(z)
    <3>1. CASE x.spare = <<>>
      BY <1>2, <2>2, <2>5, <3>1, EmptyList DEF PoolInv, ToSet
    <3>2. CASE x.spare # <<>>
      <4> DEFINE free == ToSet(x.spare)
      <4>1. Lists(x.spare, free) /\ free # {} /\ b = Last(x.spare)
        BY <1>2, <3>2, EmptyList DEF PoolInv, b, AcquiredBucket
      <4>2. Lists(z.spare, free \ {b})
        BY <2>2, <2>5, <3>2, <4>1, Dropping
      <4>3. ToSet(z.spare) = free \ {b}
        BY <4>2 DEF Lists
      <4>4. Len(z.spare) <= MaxSpare
        <5>1. Len(z.spare) = Cardinality(free \ {b}) /\ Len(x.spare) = Cardinality(free)
          BY <4>1, <4>2, ListLength
        <5>2. IsFiniteSet(free)
          BY <4>1, ListLength
        <5>3. Cardinality(free \ {b}) <= Cardinality(free)
          BY <5>2, FS_Subset
        <5>4. Len(x.spare) \in Nat /\ Len(z.spare) \in Nat
          BY <4>1, <4>2, ListFacts
        <5>5. QED
          BY <1>2, <5>1, <5>3, <5>4, SegmentAssumption DEF PoolInv
      <4>5. QED
        BY <1>2, <2>2, <2>5, <4>2, <4>3, <4>4 DEF PoolInv
    <3>3. QED
      BY <3>1, <3>2
  <2>9. DOMAIN z.buckets = {new[j] : j \in DOMAIN new}
    BY <1>1, <1>2, <2>2, <2>5 DEF With
  <2>10. /\ DOMAIN z.buckets = DOMAIN x.buckets \union {i} /\ z.buckets[i] = b
         /\ \A j \in DOMAIN x.buckets : z.buckets[j] = x.buckets[j] /\ x.buckets[j] # b
         /\ \A j \in DOMAIN x.buckets : x.buckets[j] \in Buckets
    <3>1. \A j \in DOMAIN x.buckets : x.buckets[j] \in Buckets /\ x.buckets[j] # b
      BY <1>2, <2>1 DEF IndexShape
    <3>2. z.buckets = With(x.buckets, i, b)
      BY <2>2, <2>5
    <3>3. QED
      BY <1>5, <3>1, <3>2 DEF With
  <2>11. ASSUME NEW j \in DOMAIN z.buckets PROVE z.id[z.buckets[j]] = j
    <3>1. z.id = [x.id EXCEPT ![b] = i] /\ x.id \in [Buckets -> Nat]
      BY <1>2, <2>2, <2>5 DEF IndexShape
    <3>2. CASE j = i
      BY <2>1, <2>10, <3>1, <3>2
    <3>3. CASE j # i
      <4>1. j \in DOMAIN x.buckets /\ x.id[x.buckets[j]] = j
        BY <1>2, <2>10, <3>3
      <4>2. QED
        BY <2>10, <3>1, <4>1
    <3>4. QED
      BY <3>2, <3>3
  <2>12. z.heap = {z.buckets[j] : j \in DOMAIN z.buckets}
    <3>1. z.heap = {x.buckets[j] : j \in DOMAIN x.buckets} \union {b}
      BY <1>2, <2>2, <2>5
    <3>2. QED
      BY <2>10, <3>1
  <2>13. Agrees(z, new)
    BY <1>1, <1>2, <2>5, <2>7, <2>8, <2>9, <2>11, <2>12 DEF Agrees
  <2>14. QED
    BY <2>4, <2>13 DEF new, i
<1>6. QED
  BY <1>4, <1>5

\* The index with another list in bucket b.
Relisted(x, b, list) == [x EXCEPT !.items[b] = list]

\* One key leaves its bucket; an emptied bucket leaves the map and the heap, for the
\* pool.
LEMMA GoneAgrees ==
  ASSUME NEW x, NEW ids, Agrees(x, ids), NEW k \in DOMAIN ids, NEW list,
         Lists(list, Of(ids, ids[k]) \ {k})
  PROVE  LET b == x.buckets[ids[k]]
         IN  Agrees(WithoutEmpty(Relisted(x, b, list), b), Without(ids, k))
<1> DEFINE i == ids[k]
           b == x.buckets[i]
           new == Without(ids, k)
           z == Relisted(x, b, list)
           y == WithoutEmpty(z, b)
<1>1. /\ DOMAIN new = DOMAIN ids \ {k} /\ new \in [DOMAIN new -> Nat]
      /\ Of(new, i) = Of(ids, i) \ {k}
      /\ \A j : j # i => Of(new, j) = Of(ids, j)
      /\ {new[j] : j \in DOMAIN new} =
           IF Of(ids, i) = {k} THEN {ids[j] : j \in DOMAIN ids} \ {i}
           ELSE {ids[j] : j \in DOMAIN ids}
  <2>1. ids \in [DOMAIN ids -> Nat]
    BY DEF Agrees
  <2>2. QED
    BY <2>1 DEF Without, Restrict, Of
<1>2. /\ IndexShape(x) /\ PoolInv(x) /\ DOMAIN ids \subseteq Keys
      /\ DOMAIN x.buckets = {ids[j] : j \in DOMAIN ids}
      /\ \A j \in DOMAIN x.buckets : x.id[x.buckets[j]] = j
      /\ x.heap = {x.buckets[j] : j \in DOMAIN x.buckets}
      /\ \A d \in Buckets : Lists(x.items[d], IF d \in x.heap THEN Of(ids, x.id[d]) ELSE {})
  BY DEF Agrees
<1>3. /\ b \in x.heap /\ b \in Buckets /\ x.id[b] = i /\ i \in DOMAIN x.buckets
      /\ \A d \in x.heap : d # b => x.id[d] # i
      /\ \A j \in DOMAIN x.buckets : j # i => x.buckets[j] \in Buckets /\ x.buckets[j] # b
  BY <1>2 DEF IndexShape
<1>4. k \in Of(ids, i)
  BY DEF Of
<1> HIDE DEF new, i, b
<1>5. /\ IndexShape(z)
      /\ z.buckets = x.buckets /\ z.heap = x.heap /\ z.spare = x.spare /\ z.id = x.id
      /\ z.items = [x.items EXCEPT ![b] = list]
  BY <1>2, <1>3, ItemsFields DEF Relisted
<1>6. Lists(list, Of(new, i)) /\ (list = <<>> <=> Of(ids, i) = {k})
  <2>1. Lists(list, Of(ids, i) \ {k})
    BY DEF i
  <2>2. QED
    BY <1>1, <1>4, <2>1, EmptyList
<1> HIDE DEF z
<1>7. z.items[b] = list /\ \A d \in Buckets : d # b => z.items[d] = x.items[d]
  BY <1>2, <1>3, <1>5 DEF IndexShape
<1>8. CASE list # <<>>
  <2>1. y = z
    BY <1>7, <1>8 DEF WithoutEmpty
  <2>2. \A d \in Buckets : Lists(z.items[d], IF d \in z.heap THEN Of(new, z.id[d]) ELSE {})
    BY <1>1, <1>2, <1>3, <1>5, <1>6, <1>7
  <2>3. PoolInv(z)
    BY <1>2, <1>5 DEF PoolInv
  <2>4. DOMAIN z.buckets = {new[j] : j \in DOMAIN new}
    BY <1>1, <1>2, <1>5, <1>6, <1>8
  <2>5. Agrees(z, new)
    BY <1>1, <1>2, <1>5, <2>2, <2>3, <2>4 DEF Agrees
  <2>6. QED
    BY <2>1, <2>5 DEF new, i, b, z
<1>9. CASE list = <<>>
  <2>1. /\ IndexShape(y)
        /\ y.buckets = Without(z.buckets, z.id[b]) /\ y.heap = z.heap \ {b}
        /\ y.id = [z.id EXCEPT ![b] = 0] /\ y.items = z.items
        /\ y.spare = IF Len(z.spare) < MaxSpare THEN Append(z.spare, b) ELSE z.spare
    <3>1. IndexShape(z) /\ b \in Buckets /\ z.items[b] = <<>>
      BY <1>3, <1>5, <1>7, <1>9
    <3>2. QED
      BY <3>1, EmptiedFields
  <2> HIDE DEF y
  <2>2. ASSUME NEW d \in Buckets
        PROVE  Lists(y.items[d], IF d \in y.heap THEN Of(new, y.id[d]) ELSE {})
    <3>1. CASE d = b
      BY <1>7, <1>9, <2>1, <3>1, EmptyList
    <3>2. CASE d # b
      <4>1. y.id[d] = x.id[d] /\ y.items[d] = x.items[d] /\ (d \in y.heap <=> d \in x.heap)
        BY <1>2, <1>5, <1>7, <2>1, <3>2 DEF IndexShape
      <4>2. QED
        BY <1>1, <1>2, <1>3, <3>2, <4>1
    <3>3. QED
      BY <3>1, <3>2
  <2>3. PoolInv(y)
    <3> DEFINE free == ToSet(x.spare)
    <3>1. Lists(x.spare, free) /\ free \subseteq Buckets \ x.heap /\ Len(x.spare) <= MaxSpare
      BY <1>2 DEF PoolInv
    <3>2. CASE Len(x.spare) < MaxSpare
      <4>1. y.spare = Append(x.spare, b) /\ b \notin free
        BY <1>3, <1>5, <2>1, <3>1, <3>2
      <4>2. Lists(y.spare, free \union {b})
        BY <3>1, <4>1, Appending
      <4>3. ToSet(y.spare) = free \union {b}
        BY <4>2 DEF Lists
      <4>4. Len(y.spare) = Len(x.spare) + 1
        <5>1. x.spare \in Seq(free \union {b}) /\ b \in free \union {b}
          BY <3>1, SeqMonotonic DEF Lists
        <5>2. QED
          BY <4>1, <5>1, AppendProperties
      <4>5. Len(x.spare) \in Nat
        BY <3>1, ListFacts
      <4>6. QED
        <5>1. Lists(y.spare, ToSet(y.spare))
          BY <4>2, <4>3
        <5>2. ToSet(y.spare) \subseteq Buckets \ y.heap
          BY <1>3, <1>5, <2>1, <3>1, <4>3
        <5>3. Len(y.spare) <= MaxSpare
          BY <3>2, <4>4, <4>5, SegmentAssumption
        <5>4. QED
          BY <5>1, <5>2, <5>3 DEF PoolInv
    <3>3. CASE ~(Len(x.spare) < MaxSpare)
      BY <1>2, <1>5, <2>1, <3>3 DEF PoolInv
    <3>4. QED
      BY <3>2, <3>3
  <2>4. DOMAIN y.buckets = DOMAIN x.buckets \ {i}
        /\ \A j \in DOMAIN y.buckets : y.buckets[j] = x.buckets[j]
    BY <1>3, <1>5, <2>1 DEF Without, Restrict
  <2>5. DOMAIN y.buckets = {new[j] : j \in DOMAIN new}
    BY <1>1, <1>2, <1>6, <1>9, <2>4
  <2>6. \A j \in DOMAIN y.buckets : y.id[y.buckets[j]] = j
    <3>1. \A d \in Buckets : d # b => y.id[d] = x.id[d]
      BY <1>2, <1>5, <2>1 DEF IndexShape
    <3>2. QED
      BY <1>2, <1>3, <2>4, <3>1
  <2>7. y.heap = {y.buckets[j] : j \in DOMAIN y.buckets}
    BY <1>2, <1>3, <1>5, <2>1, <2>4 DEF b
  <2>8. Agrees(y, new)
    BY <1>1, <1>2, <2>1, <2>2, <2>3, <2>5, <2>6, <2>7 DEF Agrees
  <2>9. QED
    BY <2>8 DEF new, i, b, z, y
<1>10. QED
  BY <1>8, <1>9

\* The bucket of a single key follows it to a boundary that has no bucket.
LEMMA RekeyedAgrees ==
  ASSUME NEW x, NEW ids, Agrees(x, ids), NEW k \in DOMAIN ids,
         x.items[x.buckets[ids[k]]] = <<k>>,
         NEW to \in Nat, to \notin DOMAIN x.buckets
  PROVE  Agrees(Rekeyed(x, ids[k], to), With(ids, k, to))
<1> DEFINE from == ids[k]
           b == x.buckets[from]
           new == With(ids, k, to)
           y == Rekeyed(x, from, to)
<1>1. /\ IndexShape(x) /\ PoolInv(x) /\ DOMAIN ids \subseteq Keys
      /\ DOMAIN x.buckets = {ids[j] : j \in DOMAIN ids}
      /\ \A j \in DOMAIN x.buckets : x.id[x.buckets[j]] = j
      /\ x.heap = {x.buckets[j] : j \in DOMAIN x.buckets}
      /\ \A d \in Buckets : Lists(x.items[d], IF d \in x.heap THEN Of(ids, x.id[d]) ELSE {})
      /\ ids \in [DOMAIN ids -> Nat]
  BY DEF Agrees
<1>2. /\ b \in x.heap /\ b \in Buckets /\ x.id[b] = from /\ from \in DOMAIN x.buckets
      /\ \A d \in x.heap : d # b => x.id[d] # from
      /\ \A j \in DOMAIN x.buckets : j # from => x.buckets[j] \in Buckets /\ x.buckets[j] # b
  BY <1>1 DEF IndexShape
<1>3. x.items[b] = <<k>> /\ Of(ids, from) = {k}
  <2>1. Lists(x.items[b], Of(ids, from))
    BY <1>1, <1>2
  <2>2. QED
    BY <2>1, Singleton
<1>4. /\ DOMAIN new = DOMAIN ids /\ new \in [DOMAIN new -> Nat]
      /\ Of(new, to) = {k}
      /\ \A j : j # to /\ j # from => Of(new, j) = Of(ids, j)
      /\ {new[j] : j \in DOMAIN new} = ({ids[j] : j \in DOMAIN ids} \ {from}) \union {to}
  <2>1. \A j \in DOMAIN ids : ids[j] # to /\ (ids[j] = from => j = k)
    BY <1>1, <1>3 DEF Of
  <2> HIDE DEF from
  <2>2. k \in DOMAIN ids /\ ids[k] = from
    BY DEF from
  <2>3. /\ DOMAIN new = DOMAIN ids /\ new \in [DOMAIN new -> Nat]
        /\ new[k] = to /\ \A j \in DOMAIN ids : j # k => new[j] = ids[j]
    BY <1>1, <2>2 DEF With
  <2> HIDE DEF new
  <2>4. Of(new, to) = {k} /\ \A j : j # to /\ j # from => Of(new, j) = Of(ids, j)
    BY <2>1, <2>2, <2>3 DEF Of
  <2>5. {new[j] : j \in DOMAIN new} = ({ids[j] : j \in DOMAIN ids} \ {from}) \union {to}
    BY <2>1, <2>2, <2>3
  <2>6. QED
    BY <2>3, <2>4, <2>5
<1>5. /\ IndexShape(y)
      /\ y.buckets = With(Without(x.buckets, from), to, b)
      /\ y.heap = x.heap /\ y.spare = x.spare /\ y.items = x.items
      /\ y.id = [x.id EXCEPT ![b] = to]
  BY <1>1, <1>2, RekeyedFields
<1> HIDE DEF new, b, from, y
<1>6. /\ DOMAIN y.buckets = (DOMAIN x.buckets \ {from}) \union {to}
      /\ y.buckets[to] = b
      /\ \A j \in DOMAIN x.buckets \ {from} : y.buckets[j] = x.buckets[j]
  BY <1>5 DEF With, Without, Restrict
<1>7. y.id[b] = to /\ \A d \in Buckets : d # b => y.id[d] = x.id[d]
  BY <1>1, <1>2, <1>5 DEF IndexShape
<1>8. ASSUME NEW d \in Buckets
      PROVE  Lists(y.items[d], IF d \in y.heap THEN Of(new, y.id[d]) ELSE {})
  <2>1. CASE d = b
    BY <1>1, <1>2, <1>3, <1>4, <1>5, <1>7, <2>1
  <2>2. CASE d # b
    <3>1. d \in x.heap => x.id[d] # from /\ x.id[d] # to
      BY <1>1, <1>2, <2>2
    <3>2. QED
      BY <1>1, <1>4, <1>5, <1>7, <2>2, <3>1
  <2>3. QED
    BY <2>1, <2>2
<1>9. PoolInv(y)
  BY <1>1, <1>5 DEF PoolInv
<1>10. DOMAIN y.buckets = {new[j] : j \in DOMAIN new}
  BY <1>1, <1>4, <1>6
<1>11. \A j \in DOMAIN y.buckets : y.id[y.buckets[j]] = j
  BY <1>1, <1>2, <1>6, <1>7
<1>12. y.heap = {y.buckets[j] : j \in DOMAIN y.buckets}
  <2>1. ASSUME NEW d \in x.heap PROVE \E j \in DOMAIN y.buckets : y.buckets[j] = d
    <3>1. PICK j \in DOMAIN x.buckets : x.buckets[j] = d
      BY <1>1
    <3>2. CASE j = from
      BY <1>6, <3>1, <3>2 DEF b
    <3>3. CASE j # from
      BY <1>6, <3>1, <3>3
    <3>4. QED
      BY <3>2, <3>3
  <2>2. \A j \in DOMAIN y.buckets : y.buckets[j] \in x.heap
    BY <1>1, <1>2, <1>6
  <2>3. QED
    BY <1>5, <2>1, <2>2
<1>13. Agrees(y, new)
  BY <1>1, <1>4, <1>5, <1>8, <1>9, <1>10, <1>11, <1>12 DEF Agrees
<1>14. QED
  BY <1>13 DEF new, from, y

\* expirationIndex.remove takes the key out, and the bucket with its last key.
LEMMA UnindexedAgrees ==
  ASSUME NEW x, NEW ids, Agrees(x, ids), NEW k, NEW deadline \in Nat,
         k \in DOMAIN ids <=> deadline # 0,
         deadline # 0 => ids[k] = BucketID(deadline)
  PROVE  Agrees(Unindexed(x, k, deadline), Without(ids, k))
<1>1. CASE deadline = 0
  <2>1. ids \in [DOMAIN ids -> Nat]
    BY DEF Agrees
  <2>2. Without(ids, k) = ids
    BY <1>1, <2>1 DEF Without, Restrict
  <2>3. QED
    BY <1>1, <2>2 DEF Unindexed
<1>2. CASE deadline # 0
  <2> DEFINE b == x.buckets[ids[k]]
             list == RemoveFirst(x.items[b], k)
  <2>1. k \in DOMAIN ids /\ ids[k] = BucketID(deadline)
    BY <1>2
  <2>2. b \in x.heap /\ x.id[b] = ids[k]
    BY <2>1, ActiveBuckets
  <2>3. Lists(x.items[b], Of(ids, ids[k])) /\ k \in Of(ids, ids[k])
    <3>1. Lists(x.items[b], Of(ids, x.id[b]))
      BY <2>2, ActiveBuckets
    <3>2. k \in Of(ids, ids[k])
      BY <2>1 DEF Of
    <3>3. QED
      BY <2>2, <3>1, <3>2
  <2>4. Lists(list, Of(ids, ids[k]) \ {k})
    BY <2>3, Unlisting
  <2>5. Unindexed(x, k, deadline) = WithoutEmpty(Relisted(x, b, list), b)
    BY <1>2, <2>1 DEF Unindexed, Relisted
  <2> HIDE DEF list
  <2>6. Agrees(WithoutEmpty(Relisted(x, b, list), b), Without(ids, k))
    BY <2>1, <2>4, GoneAgrees
  <2>7. QED
    BY <2>5, <2>6
<1>3. QED
  BY <1>1, <1>2

\* The bucket ids when the deadline of k has become deadline.
Dated(ids, k, deadline) ==
  IF deadline = 0 THEN Without(ids, k) ELSE With(ids, k, BucketID(deadline))

\* The interval of a deadline ends at it or after it, by less than a resolution.
LEMMA BucketIDs ==
  ASSUME NEW deadline \in Nat
  PROVE  /\ BucketID(deadline) \in Nat
         /\ deadline # 0 => BucketID(deadline) * Resolution >= deadline
         /\ deadline # 0 => (BucketID(deadline) - 1) * Resolution < deadline
<1> DEFINE q == deadline \div Resolution
           r == deadline % Resolution
<1>1. Resolution \in Nat \ {0}
  BY SegmentAssumption
<1>2. q \in Nat /\ r \in 0..Resolution - 1 /\ deadline = Resolution * q + r
  BY <1>1
<1> HIDE DEF q, r
<1>3. CASE deadline = 0
  BY <1>3 DEF BucketID
<1>4. CASE deadline # 0
  <2>1. BucketID(deadline) = IF r # 0 THEN q + 1 ELSE q
    BY <1>2, <1>4 DEF BucketID, q, r
  <2>2. (q + 1) * Resolution = Resolution * q + Resolution
    BY <1>1, <1>2
  <2>3. (q - 1) * Resolution = Resolution * q - Resolution
    BY <1>1, <1>2
  <2>4. CASE r # 0
    BY <1>1, <1>2, <2>1, <2>2, <2>4
  <2>5. CASE r = 0
    BY <1>1, <1>2, <2>1, <2>3, <2>5
  <2>6. QED
    BY <2>4, <2>5
<1>5. QED
  BY <1>3, <1>4

\* expirationIndex.add, for a key that may not expire.
LEMMA AddedIndex ==
  ASSUME NEW x, NEW ids, Agrees(x, ids),
         IsFiniteSet(DOMAIN ids), Cardinality(DOMAIN ids) <= Capacity,
         NEW k \in Keys, k \notin DOMAIN ids, NEW deadline \in Nat
  PROVE  Agrees(Added(x, k, deadline), Dated(ids, k, deadline))
<1>1. CASE deadline = 0
  <2>1. ids \in [DOMAIN ids -> Nat]
    BY DEF Agrees
  <2>2. Dated(ids, k, deadline) = ids
    BY <1>1, <2>1 DEF Dated, Without, Restrict
  <2>3. Added(x, k, deadline) = x
    BY <1>1 DEF Added
  <2>4. QED
    BY <2>2, <2>3
<1>2. CASE deadline # 0
  BY <1>2, AddedAgrees, BucketIDs DEF Dated
<1>3. QED
  BY <1>1, <1>2

\* expirationIndex.update keeps the agreement, whichever of its ways it takes.
LEMMA RedatedAgrees ==
  ASSUME NEW x, NEW ids, Agrees(x, ids),
         IsFiniteSet(DOMAIN ids), Cardinality(DOMAIN ids) <= Capacity,
         NEW k \in Keys, NEW old \in Nat, NEW new \in Nat,
         k \in DOMAIN ids <=> old # 0,
         old # 0 => ids[k] = BucketID(old)
  PROVE  Agrees(Redated(x, k, old, new), Dated(ids, k, new))
<1> DEFINE from == BucketID(old)
           to == BucketID(new)
<1>1. from \in Nat /\ to \in Nat /\ ids \in [DOMAIN ids -> Nat]
  BY BucketIDs DEF Agrees
<1>2. CASE old # 0 /\ new # 0 /\ from = to
  <2>1. Redated(x, k, old, new) = x
    BY <1>2 DEF Redated
  <2>2. With(ids, k, to) = ids
    BY <1>1, <1>2 DEF With
  <2>3. QED
    BY <1>2, <2>1, <2>2 DEF Dated
<1>3. CASE /\ old # 0 /\ new # 0 /\ from # to
           /\ to \notin DOMAIN x.buckets /\ x.items[x.buckets[from]] = <<k>>
  <2>1. Redated(x, k, old, new) = Rekeyed(x, ids[k], to)
    BY <1>3 DEF Redated
  <2>2. Agrees(Rekeyed(x, ids[k], to), With(ids, k, to))
    BY <1>1, <1>3, RekeyedAgrees
  <2>3. QED
    BY <1>3, <2>1, <2>2 DEF Dated
<1>4. CASE ~(/\ old # 0 /\ new # 0
             /\ \/ from = to
                \/ to \notin DOMAIN x.buckets /\ x.items[x.buckets[from]] = <<k>>)
  <2> DEFINE u == Unindexed(x, k, old)
             left == Without(ids, k)
  <2>1. Redated(x, k, old, new) = Added(u, k, new)
    BY <1>4 DEF Redated
  <2>2. Agrees(u, left)
    BY UnindexedAgrees
  <2>3. DOMAIN left = DOMAIN ids \ {k} /\ Dated(left, k, new) = Dated(ids, k, new)
    BY <1>1 DEF Without, Restrict, With, Dated
  <2>4. IsFiniteSet(DOMAIN left) /\ Cardinality(DOMAIN left) <= Capacity
    <3>1. IsFiniteSet(DOMAIN left) /\ Cardinality(DOMAIN left) <= Cardinality(DOMAIN ids)
      BY <2>3, FS_Subset
    <3>2. Cardinality(DOMAIN left) \in Nat /\ Cardinality(DOMAIN ids) \in Nat
      BY <3>1, FS_CardinalityType
    <3>3. QED
      BY <3>1, <3>2, SegmentAssumption
  <2> HIDE DEF u, left
  <2>5. Agrees(Added(u, k, new), Dated(left, k, new))
    BY <2>2, <2>3, <2>4, AddedIndex
  <2>6. QED
    BY <2>1, <2>3, <2>5
<1>5. QED
  BY <1>2, <1>3, <1>4

\* A set of naturals has a least element: the heap has a root.
LEMMA LeastElement ==
  ASSUME NEW T, T \subseteq Nat, T # {}
  PROVE  \E n \in T : \A m \in T : n <= m
<1> DEFINE below == {0..n : n \in T}
<1>1. below \subseteq FiniteSubsetsOf(Nat) /\ below # {}
  <2>1. \A n \in Nat : IsFiniteSet(0..n)
    BY FS_Interval
  <2>2. \A n \in T : 0..n \subseteq Nat
    OBVIOUS
  <2>3. \A n \in T : 0..n \in FiniteSubsetsOf(Nat)
    BY <2>1, <2>2 DEF FiniteSubsetsOf
  <2>4. QED
    BY <2>3
<1>2. \E U \in below : \A V \in below : ~(<<V, U>> \in StrictSubsetOrdering(Nat))
  <2> HIDE DEF below
  <2>1. QED
    BY <1>1, FS_StrictSubsetOrderingWellFounded, WFMin
<1>3. PICK n \in T : \A m \in T : ~(<<0..m, 0..n>> \in StrictSubsetOrdering(Nat))
  BY <1>2
<1>4. ASSUME NEW m \in T PROVE n <= m
  <2>1. SUFFICES ASSUME m < n PROVE FALSE
    OBVIOUS
  <2>2. 0..m \subseteq 0..n /\ n \in 0..n /\ ~(n \in 0..m)
    BY <2>1
  <2>3. <<0..m, 0..n>> \in StrictSubsetOrdering(Nat)
    BY <2>2 DEF StrictSubsetOrdering
  <2>4. QED
    BY <1>3, <2>3
<1>5. QED
  BY <1>4

\* The root of the heap: container/heap keeps a bucket of least id there.
LEMMA RootIsLeast ==
  ASSUME NEW x, NEW ids, Agrees(x, ids), x.heap # {}
  PROVE  Root(x) \in x.heap /\ \A d \in x.heap : x.id[Root(x)] <= x.id[d]
<1> DEFINE used == {x.id[b] : b \in x.heap}
<1>1. used \subseteq Nat /\ used # {}
  BY ActiveBuckets
<1>2. \E i \in used : \A j \in used : i <= j
  <2> HIDE DEF used
  <2>1. QED
    BY <1>1, LeastElement
<1>3. \E b \in x.heap : \A d \in x.heap : x.id[b] <= x.id[d]
  BY <1>2
<1>4. QED
  BY <1>3 DEF Root

\* What popRootEntry takes is a key whose bucket id is the least of all.
LEMMA PoppedIndex ==
  ASSUME NEW x, NEW ids, Agrees(x, ids), x.heap # {}
  PROVE  LET b == Root(x)
             k == Last(x.items[b])
         IN  /\ k \in DOMAIN ids /\ ids[k] = x.id[b] /\ b \in x.heap
             /\ Agrees(WithoutEmpty(Relisted(x, b, Front(x.items[b])), b), Without(ids, k))
<1> DEFINE b == Root(x)
           list == x.items[b]
           k == Last(list)
<1>1. b \in x.heap
  BY RootIsLeast
<1>2. Lists(list, Of(ids, x.id[b])) /\ list # <<>> /\ x.buckets[x.id[b]] = b
  BY <1>1, ActiveBuckets
<1> HIDE DEF b, list
<1>3. Of(ids, x.id[b]) # {}
  BY <1>2, EmptyList
<1>4. k \in Of(ids, x.id[b]) /\ Lists(Front(list), Of(ids, x.id[b]) \ {k})
  BY <1>2, <1>3, Dropping
<1>5. k \in DOMAIN ids /\ ids[k] = x.id[b]
  BY <1>4 DEF Of
<1> HIDE DEF k
<1>6. Lists(Front(list), Of(ids, ids[k]) \ {k})
  BY <1>4, <1>5
<1>7. Agrees(WithoutEmpty(Relisted(x, x.buckets[ids[k]], Front(list)), x.buckets[ids[k]]),
             Without(ids, k))
  BY <1>5, <1>6, GoneAgrees
<1>8. QED
  BY <1>1, <1>2, <1>5, <1>7 DEF b, list, k

\* Lists of sets that have nothing in common, one behind the other.
LEMMA Joining ==
  ASSUME NEW S, NEW T, S \intersect T = {}, NEW l, NEW m, Lists(l, S), Lists(m, T)
  PROVE  Lists(l \o m, S \union T) /\ Len(l \o m) = Len(l) + Len(m)
<1> DEFINE U == S \union T
           n == l \o m
<1>1. l \in Seq(U) /\ m \in Seq(U)
  BY SeqMonotonic DEF Lists
<1>2. /\ n \in Seq(U) /\ Len(n) = Len(l) + Len(m)
      /\ \A i \in 1..Len(l) + Len(m) : n[i] = IF i <= Len(l) THEN l[i] ELSE m[i - Len(l)]
  BY <1>1, ConcatProperties
<1>3. Len(l) \in Nat /\ Len(m) \in Nat
  BY ListFacts
<1> HIDE DEF n
<1>4. \A i \in 1..Len(n) :
        \/ i \in 1..Len(l) /\ n[i] = l[i]
        \/ i - Len(l) \in 1..Len(m) /\ n[i] = m[i - Len(l)]
  BY <1>2, <1>3
<1>5. \A i \in 1..Len(l) : l[i] \in S
  BY ListFacts
<1>6. \A i \in 1..Len(m) : m[i] \in T
  BY ListFacts
<1>7. ASSUME NEW y \in U PROVE \E i \in 1..Len(n) : n[i] = y
  <2>1. CASE y \in S
    <3>1. PICK i \in 1..Len(l) : l[i] = y
      BY <2>1, ListFacts
    <3>2. i \in 1..Len(n) /\ n[i] = y
      BY <1>2, <1>3, <3>1
    <3>3. QED
      BY <3>2
  <2>2. CASE y \in T
    <3>1. PICK i \in 1..Len(m) : m[i] = y
      BY <2>2, ListFacts
    <3>2. i + Len(l) \in 1..Len(n) /\ n[i + Len(l)] = m[(i + Len(l)) - Len(l)]
      BY <1>2, <1>3
    <3>3. (i + Len(l)) - Len(l) = i
      BY <1>3
    <3>4. QED
      BY <3>1, <3>2, <3>3
  <2>3. QED
    BY <2>1, <2>2
<1>8. ASSUME NEW i \in 1..Len(n), NEW j \in 1..Len(n), n[i] = n[j]
      PROVE  i = j
  <2>1. CASE i \in 1..Len(l) /\ n[i] = l[i] /\ j \in 1..Len(l) /\ n[j] = l[j]
    <3>1. l[i] = l[j]
      BY <1>8, <2>1
    <3>2. QED
      BY <2>1, <3>1, ListFacts
  <2>2. CASE /\ i - Len(l) \in 1..Len(m) /\ n[i] = m[i - Len(l)]
             /\ j - Len(l) \in 1..Len(m) /\ n[j] = m[j - Len(l)]
    <3>1. m[i - Len(l)] = m[j - Len(l)]
      BY <1>8, <2>2
    <3>2. i - Len(l) = j - Len(l)
      BY <2>2, <3>1, ListFacts
    <3>3. QED
      BY <1>3, <3>2
  <2>3. QED
    BY <1>4, <1>5, <1>6, <1>8, <2>1, <2>2
<1>9. Lists(n, U)
  BY <1>2, <1>7, <1>8, IsList
<1>10. QED
  BY <1>2, <1>9 DEF n

\* The first elements of a list are a list.
LEMMA Prefixing ==
  ASSUME NEW S, NEW list, Lists(list, S), NEW n \in 0..Len(list)
  PROVE  /\ Len(SubSeq(list, 1, n)) = n
         /\ \E T \in SUBSET S : Lists(SubSeq(list, 1, n), T)
<1> DEFINE new == SubSeq(list, 1, n)
           T == {list[i] : i \in 1..n}
<1>1. Len(list) \in Nat /\ n \in Nat /\ \A i \in 1..n : i \in 1..Len(list)
  BY ListFacts
<1>2. /\ new \in Seq(T) /\ Len(new) = n
      /\ \A i \in 1..n : new[i] = list[i]
  <2>1. \A i \in 1..n : list[i] \in T
    OBVIOUS
  <2> HIDE DEF T
  <2>2. /\ new \in Seq(T)
        /\ Len(new) = IF 1 <= n THEN n - 1 + 1 ELSE 0
        /\ \A i \in 1..n - 1 + 1 : new[i] = list[1 + i - 1]
    BY <1>1, <2>1, SubSeqProperties
  <2>3. QED
    BY <1>1, <2>2
<1> HIDE DEF new
<1>3. \A y \in T : \E i \in 1..Len(new) : new[i] = y
  BY <1>2
<1>4. \A i, j \in 1..Len(new) : new[i] = new[j] => i = j
  <2>1. \A i, j \in 1..Len(list) : list[i] = list[j] => i = j
    BY ListFacts
  <2>2. QED
    BY <1>1, <1>2, <2>1
<1>5. T \subseteq S
  BY <1>1, ListFacts
<1> HIDE DEF T
<1>6. Lists(new, T)
  BY <1>2, <1>3, <1>4, IsList
<1>7. QED
  BY <1>2, <1>5, <1>6 DEF new

\* The order in which the heap is walked, whatever it is, lists the heap.
LEMMA Enumerated ==
  ASSUME NEW S, IsFiniteSet(S)
  PROVE  Lists(SetToSeq(S), S)
<1> DEFINE n == Cardinality(S)
           f == SetToSeq(S)
<1>1. n \in Nat /\ \E g : g \in Bijection(1..n, S)
  BY FS_CardinalityType DEF ExistsBijection
<1>2. PICK g : g \in Bijection(1..n, S)
  BY <1>1
<1>3. g \in [1..n -> S] /\ IsInjective(g)
  BY <1>2 DEF Bijection, Injection, IsInjective
<1>4. f \in [1..n -> S] /\ IsInjective(f)
  BY <1>3 DEF SetToSeq
<1> HIDE DEF f
<1>5. IsFiniteSet(1..n) /\ Cardinality(1..n) = n
  <2>1. /\ IsFiniteSet(1..n)
        /\ Cardinality(1..n) = IF 1 > n THEN 0 ELSE n - 1 + 1
    BY <1>1, FS_Interval
  <2>2. QED
    BY <1>1, <2>1
<1> HIDE DEF n
<1>6. f \in Injection(1..n, S)
  BY <1>4 DEF Injection, IsInjective
<1>7. f \in Surjection(1..n, S)
  <2>1. Cardinality(1..n) = Cardinality(S)
    BY <1>5 DEF n
  <2>2. QED
    BY <1>6, <2>1, FS_Injection
<1>8. f \in Seq(S) /\ Len(f) = n /\ DOMAIN f = 1..n
  BY <1>1, <1>4, SeqDef, LenProperties
<1>9. \A x \in S : \E i \in 1..n : f[i] = x
  BY <1>7 DEF Surjection
<1>10. Lists(f, S)
  BY <1>4, <1>8, <1>9, IsList DEF IsInjective
<1>11. QED
  BY <1>10 DEF f

\* An index that has been reset agrees with no entries.
LEMMA ResetAgrees ==
  ASSUME NEW x, NEW ids, Agrees(x, ids), NEW none, none \in [{} -> Nat]
  PROVE  Agrees(Reset(x), none)
<1> DEFINE y == Reset(x)
           active == SetToSeq(x.heap)
           n == AtMost(MaxSpare - Len(x.spare), Len(active))
           kept == SubSeq(active, 1, n)
<1>1. x.heap \subseteq Buckets /\ IsFiniteSet(x.heap)
  BY ActiveBuckets, SegmentAssumption, FS_Subset
<1>2. Lists(active, x.heap) /\ Len(active) \in Nat
  BY <1>1, Enumerated, ListFacts
<1>3. /\ DOMAIN y = {"buckets", "heap", "spare", "id", "items"}
      /\ y = [field \in DOMAIN y |-> y[field]]
      /\ y.buckets = <<>> /\ y.heap = {} /\ y.spare = x.spare \o kept
      /\ y.id = [b \in Buckets |-> IF b \in x.heap THEN 0 ELSE x.id[b]]
      /\ y.items = [b \in Buckets |-> IF b \in x.heap THEN <<>> ELSE x.items[b]]
  BY DEF Reset
<1> HIDE DEF y, active
<1>4. /\ Lists(x.spare, ToSet(x.spare)) /\ ToSet(x.spare) \subseteq Buckets \ x.heap
      /\ Len(x.spare) \in Nat /\ Len(x.spare) <= MaxSpare
  BY ListFacts DEF Agrees, PoolInv
<1>5. n \in 0..Len(active) /\ Len(x.spare) + n <= MaxSpare
  <2> DEFINE room == MaxSpare - Len(x.spare)
             all == Len(active)
  <2>1. room \in Nat /\ all \in Nat
    BY <1>2, <1>4, SegmentAssumption
  <2> HIDE DEF room, all
  <2>2. AtMost(room, all) \in 0..all /\ AtMost(room, all) <= room
    BY <2>1 DEF AtMost
  <2>3. n \in 0..Len(active) /\ n <= MaxSpare - Len(x.spare)
    BY <2>2 DEF room, all
  <2>4. QED
    BY <1>2, <1>4, <2>3, SegmentAssumption
<1> HIDE DEF n
<1>6. PICK T \in SUBSET x.heap : Lists(kept, T) /\ Len(kept) = n
  BY <1>2, <1>5, Prefixing
<1> HIDE DEF kept
<1>7. PoolInv(y)
  <2>1. ToSet(x.spare) \intersect T = {}
    BY <1>4, <1>6
  <2>2. Lists(x.spare \o kept, ToSet(x.spare) \union T) /\ Len(x.spare \o kept) = Len(x.spare) + n
    BY <1>4, <1>6, <2>1, Joining
  <2>3. ToSet(x.spare \o kept) = ToSet(x.spare) \union T
    BY <2>2 DEF Lists
  <2>4. QED
    BY <1>1, <1>3, <1>4, <1>5, <1>6, <2>2, <2>3 DEF PoolInv
<1>8. IndexShape(y)
  <2>1. DOMAIN y.buckets = {} /\ y.buckets \in [DOMAIN y.buckets -> Buckets]
    BY <1>3
  <2>2. y.id \in [Buckets -> Nat] /\ y.items = [b \in Buckets |-> y.items[b]]
    BY <1>3 DEF Agrees, IndexShape
  <2>3. QED
    BY <1>3, <2>1, <2>2 DEF IndexShape
<1>9. \A b \in Buckets : Lists(y.items[b], {})
  <2>1. ASSUME NEW b \in Buckets PROVE y.items[b] = <<>>
    BY <1>3, ActiveBuckets
  <2>2. QED
    BY <2>1, EmptyList
<1>10. DOMAIN y.buckets = {} /\ DOMAIN none = {}
  BY <1>3
<1>11. Agrees(y, none)
  <2>1. none \in [DOMAIN none -> Nat] /\ DOMAIN none \subseteq Keys
    BY <1>10
  <2>2. DOMAIN y.buckets = {none[k] : k \in DOMAIN none}
    BY <1>10
  <2>3. y.heap = {y.buckets[i] : i \in DOMAIN y.buckets}
    BY <1>3, <1>10
  <2>4. \A b \in Buckets : Lists(y.items[b], IF b \in y.heap THEN Of(none, y.id[b]) ELSE {})
    BY <1>3, <1>9
  <2>5. QED
    BY <1>7, <1>8, <1>10, <2>1, <2>2, <2>3, <2>4 DEF Agrees
<1>12. QED
  BY <1>11 DEF y
-------------------------------------------------------------------------------
(***************************************************************************)
(* The entries e, the list l and the index x of a segment that is sound:   *)
(* the list and the index hold what the entries say.                       *)
(***************************************************************************)
Entry == [value : Values, ttl : TTLs, deadline : 0..MaxDuration]

\* The bucket id of every entry that expires.
Filed(e) == [k \in {j \in DOMAIN e : e[j].deadline # 0} |-> BucketID(e[k].deadline)]

Sound(e, l, x) ==
  /\ e \in [DOMAIN e -> Entry] /\ DOMAIN e \subseteq Keys
  /\ Lists(l, DOMAIN e) /\ Len(l) <= Capacity
  /\ Agrees(x, Filed(e))

\* What soundness gives about the entries and the ids they are filed under.
LEMMA SoundFacts ==
  ASSUME NEW e, NEW l, NEW x, Sound(e, l, x)
  PROVE  /\ IsFiniteSet(DOMAIN e) /\ Cardinality(DOMAIN e) = Len(l) /\ Len(l) \in Nat
         /\ IsFiniteSet(DOMAIN Filed(e)) /\ Cardinality(DOMAIN Filed(e)) <= Capacity
         /\ Filed(e) \in [DOMAIN Filed(e) -> Nat]
         /\ \A k \in DOMAIN e :
              /\ k \in Keys /\ e[k] \in Entry /\ e[k].deadline \in Nat
              /\ k \in DOMAIN Filed(e) <=> e[k].deadline # 0
              /\ e[k].deadline # 0 => Filed(e)[k] = BucketID(e[k].deadline)
         /\ DOMAIN Filed(e) \subseteq DOMAIN e
<1>1. IsFiniteSet(DOMAIN e) /\ Cardinality(DOMAIN e) = Len(l) /\ Len(l) \in Nat
  BY ListLength, ListFacts DEF Sound
<1>2. DOMAIN Filed(e) \subseteq DOMAIN e
  BY DEF Filed
<1>3. IsFiniteSet(DOMAIN Filed(e)) /\ Cardinality(DOMAIN Filed(e)) <= Cardinality(DOMAIN e)
  BY <1>1, <1>2, FS_Subset
<1>4. Cardinality(DOMAIN Filed(e)) <= Capacity
  <2>1. Cardinality(DOMAIN Filed(e)) \in Nat
    BY <1>3, FS_CardinalityType
  <2>2. Len(l) <= Capacity /\ Capacity \in Nat
    BY SegmentAssumption DEF Sound
  <2>3. QED
    BY <1>1, <1>3, <2>1, <2>2
<1>5. Filed(e) \in [DOMAIN Filed(e) -> Nat]
  BY DEF Sound, Agrees
<1>6. ASSUME NEW k \in DOMAIN e
      PROVE  /\ k \in Keys /\ e[k] \in Entry /\ e[k].deadline \in Nat
             /\ k \in DOMAIN Filed(e) <=> e[k].deadline # 0
             /\ e[k].deadline # 0 => Filed(e)[k] = BucketID(e[k].deadline)
  <2>1. k \in Keys /\ e[k] \in Entry
    BY DEF Sound
  <2>2. e[k].deadline \in Nat
    BY <2>1 DEF Entry
  <2>3. QED
    BY <2>1, <2>2 DEF Filed
<1>7. QED
  BY <1>1, <1>2, <1>3, <1>4, <1>5, <1>6

\* removeLocked
LEMMA GoneSound ==
  ASSUME NEW e, NEW l, NEW x, Sound(e, l, x), NEW k \in DOMAIN e
  PROVE  Sound(Without(e, k), RemoveFirst(l, k), Unindexed(x, k, e[k].deadline))
<1> DEFINE f == Without(e, k)
           m == RemoveFirst(l, k)
<1>1. DOMAIN f = DOMAIN e \ {k} /\ f \in [DOMAIN f -> Entry] /\ \A j \in DOMAIN f : f[j] = e[j]
  BY DEF Without, Restrict, Sound
<1>2. Lists(m, DOMAIN e \ {k})
  BY Unlisting DEF Sound
<1>3. Len(m) <= Capacity
  <2>1. PICK n \in 1..Len(l) : Skips(m, l, n)
    BY Removing DEF Sound
  <2>2. Len(l) \in Nat /\ Len(l) <= Capacity /\ Capacity \in Nat
    BY SoundFacts, SegmentAssumption DEF Sound
  <2>3. QED
    BY <2>1, <2>2 DEF Skips
<1>4. Without(Filed(e), k) = Filed(f)
  <2>1. DOMAIN Filed(f) = DOMAIN Filed(e) \ {k}
    BY <1>1 DEF Filed
  <2>2. \A j \in DOMAIN Filed(f) : Filed(f)[j] = Filed(e)[j]
    BY <1>1 DEF Filed
  <2>3. Filed(f) = [j \in DOMAIN Filed(f) |-> Filed(f)[j]]
    BY DEF Filed
  <2> HIDE DEF f
  <2>4. QED
    BY <2>1, <2>2, <2>3 DEF Without, Restrict
<1>5. Agrees(Unindexed(x, k, e[k].deadline), Without(Filed(e), k))
  <2> DEFINE deadline == e[k].deadline
             ids == Filed(e)
  <2>1. /\ deadline \in Nat /\ (k \in DOMAIN ids <=> deadline # 0)
        /\ deadline # 0 => ids[k] = BucketID(deadline)
    BY SoundFacts
  <2>2. Agrees(x, ids)
    BY DEF Sound
  <2> HIDE DEF deadline, ids
  <2>3. Agrees(Unindexed(x, k, deadline), Without(ids, k))
    BY <2>1, <2>2, UnindexedAgrees
  <2>4. QED
    BY <2>3 DEF deadline, ids
<1> HIDE DEF f, m
<1>6. DOMAIN f \subseteq Keys
  BY <1>1 DEF Sound
<1>7. Sound(f, m, Unindexed(x, k, e[k].deadline))
  BY <1>1, <1>2, <1>3, <1>4, <1>5, <1>6 DEF Sound
<1>8. QED
  BY <1>7 DEF f, m

\* An entry changes, and with it its place in the index.
LEMMA RedatedSound ==
  ASSUME NEW e, NEW l, NEW x, Sound(e, l, x), NEW k \in DOMAIN e, NEW new \in Entry
  PROVE  Sound([e EXCEPT ![k] = new], l, Redated(x, k, e[k].deadline, new.deadline))
<1> DEFINE f == [e EXCEPT ![k] = new]
           old == e[k].deadline
           deadline == new.deadline
           ids == Filed(e)
<1>1. DOMAIN f = DOMAIN e /\ f \in [DOMAIN f -> Entry] /\ f[k] = new
      /\ \A j \in DOMAIN f : j # k => f[j] = e[j]
  BY DEF Sound
<1>2. deadline \in Nat /\ old \in Nat
  BY SoundFacts DEF Entry
<1>3. Dated(ids, k, deadline) = Filed(f)
  <2>1. DOMAIN Dated(ids, k, deadline) = DOMAIN Filed(f)
    BY <1>1 DEF Dated, Filed, With, Without, Restrict
  <2>2. \A j \in DOMAIN Filed(f) : Dated(ids, k, deadline)[j] = Filed(f)[j]
    BY <1>1 DEF Dated, Filed, With, Without, Restrict
  <2>3. Filed(f) = [j \in DOMAIN Filed(f) |-> Filed(f)[j]]
    BY DEF Filed
  <2>4. Dated(ids, k, deadline) =
          [j \in DOMAIN Dated(ids, k, deadline) |-> Dated(ids, k, deadline)[j]]
    BY DEF Dated, With, Without, Restrict
  <2> HIDE DEF f, ids, deadline
  <2>5. QED
    BY <2>1, <2>2, <2>3, <2>4
<1>4. /\ Agrees(x, ids) /\ IsFiniteSet(DOMAIN ids) /\ Cardinality(DOMAIN ids) <= Capacity
      /\ k \in Keys /\ (k \in DOMAIN ids <=> old # 0) /\ (old # 0 => ids[k] = BucketID(old))
  BY SoundFacts DEF Sound
<1> HIDE DEF f, old, deadline, ids
<1>5. Agrees(Redated(x, k, old, deadline), Dated(ids, k, deadline))
  BY <1>2, <1>4, RedatedAgrees
<1>6. Sound(f, l, Redated(x, k, old, deadline))
  BY <1>1, <1>3, <1>5 DEF Sound
<1>7. QED
  BY <1>6 DEF f, old, deadline

\* A key that moves to the front of the list,
LEMMA MovedSound ==
  ASSUME NEW e, NEW l, NEW x, Sound(e, l, x), NEW k \in DOMAIN e
  PROVE  Sound(e, MovedToFront(l, k), x)
<1> DEFINE m == RemoveFirst(l, k)
           rest == DOMAIN e \ {k}
<1>1. Lists(m, rest)
  BY Unlisting DEF Sound
<1> HIDE DEF m
<1>2. Lists(<<k>> \o m, rest \union {k})
  BY <1>1, Prepending
<1>3. rest \union {k} = DOMAIN e
  OBVIOUS
<1> DEFINE new == <<k>> \o m
<1> HIDE DEF new
<1>4. Lists(new, DOMAIN e)
  BY <1>2, <1>3 DEF new
<1>5. Len(new) = Len(l)
  <2>1. Cardinality(DOMAIN e) = Len(new)
    BY <1>4, ListLength
  <2>2. QED
    BY <2>1, SoundFacts
<1>6. Sound(e, new, x)
  BY <1>4, <1>5 DEF Sound
<1>7. QED
  BY <1>6 DEF new, m, MovedToFront

\* and a new key, with its entry, leave things sound.
LEMMA InsertedSound ==
  ASSUME NEW e, NEW l, NEW x, Sound(e, l, x), NEW k \in Keys, k \notin DOMAIN e,
         Len(l) < Capacity, NEW new \in Entry
  PROVE  Sound(With(e, k, new), <<k>> \o l, Added(x, k, new.deadline))
<1> DEFINE f == With(e, k, new)
           m == <<k>> \o l
           deadline == new.deadline
           ids == Filed(e)
<1>1. DOMAIN f = DOMAIN e \union {k} /\ f \in [DOMAIN f -> Entry] /\ f[k] = new
      /\ \A j \in DOMAIN f : j # k => j \in DOMAIN e /\ f[j] = e[j]
  BY DEF Sound, With
<1>2. deadline \in Nat
  BY DEF Entry
<1>3. Dated(ids, k, deadline) = Filed(f)
  <2>1. DOMAIN Dated(ids, k, deadline) = DOMAIN Filed(f)
    BY <1>1 DEF Dated, Filed, With, Without, Restrict
  <2>2. \A j \in DOMAIN Filed(f) : Dated(ids, k, deadline)[j] = Filed(f)[j]
    BY <1>1 DEF Dated, Filed, With, Without, Restrict
  <2>3. Filed(f) = [j \in DOMAIN Filed(f) |-> Filed(f)[j]]
    BY DEF Filed
  <2>4. Dated(ids, k, deadline) =
          [j \in DOMAIN Dated(ids, k, deadline) |-> Dated(ids, k, deadline)[j]]
    BY DEF Dated, With, Without, Restrict
  <2> HIDE DEF f, ids, deadline
  <2>5. QED
    BY <2>1, <2>2, <2>3, <2>4
<1>4. /\ Agrees(x, ids) /\ IsFiniteSet(DOMAIN ids) /\ Cardinality(DOMAIN ids) <= Capacity
      /\ k \notin DOMAIN ids
  BY SoundFacts DEF Sound
<1>5. Lists(m, DOMAIN e \union {k})
  BY Prepending DEF Sound
<1> HIDE DEF f, m, deadline, ids
<1>6. Agrees(Added(x, k, deadline), Dated(ids, k, deadline))
  BY <1>2, <1>4, AddedIndex
<1>7. Len(m) <= Capacity
  <2>1. Len(m) = Cardinality(DOMAIN e \union {k})
    BY <1>5, ListLength
  <2>2. /\ IsFiniteSet(DOMAIN e) /\ Cardinality(DOMAIN e) = Len(l) /\ Len(l) \in Nat
    BY SoundFacts
  <2>3. Cardinality(DOMAIN e \union {k}) = Cardinality(DOMAIN e) + 1
    BY <2>2, FS_AddElement
  <2>4. Capacity \in Nat
    BY SegmentAssumption
  <2>5. QED
    BY <2>1, <2>2, <2>3, <2>4
<1>8. DOMAIN f \subseteq Keys
  BY <1>1 DEF Sound
<1>9. Sound(f, m, Added(x, k, deadline))
  BY <1>1, <1>3, <1>5, <1>6, <1>7, <1>8 DEF Sound
<1>10. QED
  BY <1>9 DEF f, m, deadline
-------------------------------------------------------------------------------
(***************************************************************************)
(* Every operation keeps a segment sound.                                  *)
(***************************************************************************)
SoundSegment(s) ==
  /\ DOMAIN s = {"entries", "lru", "index"}
  /\ Sound(s.entries, s.lru, s.index)

\* removeLocked
LEMMA RemovedSound ==
  ASSUME NEW s, SoundSegment(s), NEW k \in Resident(s)
  PROVE  SoundSegment(Removed(s, k)) /\ Removed(s, k).entries = Without(s.entries, k)
<1> DEFINE r == Removed(s, k)
<1>1. /\ DOMAIN r = {"entries", "lru", "index"}
      /\ r.entries = Without(s.entries, k) /\ r.lru = RemoveFirst(s.lru, k)
      /\ r.index = Unindexed(s.index, k, s.entries[k].deadline)
  BY DEF Removed
<1> HIDE DEF r
<1>2. Sound(Without(s.entries, k), RemoveFirst(s.lru, k),
            Unindexed(s.index, k, s.entries[k].deadline))
  BY GoneSound DEF SoundSegment, Resident
<1>3. SoundSegment(r)
  BY <1>1, <1>2 DEF SoundSegment
<1>4. QED
  BY <1>1, <1>3 DEF r

\* setLocked of a key that is not resident, in a segment that has room
LEMMA InsertedKeeps ==
  ASSUME NEW s, SoundSegment(s), ~Full(s), NEW k \in Keys, k \notin Resident(s),
         NEW v \in Values, NEW ttl \in TTLs, NEW deadline \in 0..MaxDuration
  PROVE  LET r == Inserted(s, k, v, ttl, deadline)
         IN  /\ SoundSegment(r)
             /\ r.entries = With(s.entries, k, [value |-> v, ttl |-> ttl, deadline |-> deadline])
<1> DEFINE r == Inserted(s, k, v, ttl, deadline)
           new == [value |-> v, ttl |-> ttl, deadline |-> deadline]
<1>1. new \in Entry /\ new.deadline = deadline
  BY DEF Entry
<1> HIDE DEF new
<1>2. /\ DOMAIN r = {"entries", "lru", "index"}
      /\ r.entries = With(s.entries, k, new) /\ r.lru = <<k>> \o s.lru
      /\ r.index = Added(s.index, k, new.deadline)
  BY <1>1 DEF Inserted, new
<1> HIDE DEF r
<1>3. Sound(s.entries, s.lru, s.index) /\ k \notin DOMAIN s.entries
  BY DEF SoundSegment, Resident
<1>4. Len(s.lru) < Capacity
  <2>1. Cardinality(DOMAIN s.entries) = Len(s.lru) /\ Len(s.lru) \in Nat
    BY <1>3, SoundFacts
  <2>2. QED
    BY <2>1, SegmentAssumption DEF Full, Resident
<1>5. Sound(With(s.entries, k, new), <<k>> \o s.lru, Added(s.index, k, new.deadline))
  BY <1>1, <1>3, <1>4, InsertedSound
<1>6. SoundSegment(r)
  BY <1>2, <1>5 DEF SoundSegment
<1>7. QED
  BY <1>2, <1>6 DEF r, new

\* What setDeadlineLocked and the move to the front do to a resident entry.
LEMMA WithDeadlineSound ==
  ASSUME NEW s, SoundSegment(s), NEW k \in Resident(s), NEW deadline \in 0..MaxDuration
  PROVE  LET r == WithDeadline(s, k, deadline)
         IN  /\ SoundSegment(r)
             /\ r.entries = [s.entries EXCEPT ![k].deadline = deadline]
             /\ r.lru = s.lru
<1> DEFINE r == WithDeadline(s, k, deadline)
           new == [s.entries[k] EXCEPT !.deadline = deadline]
<1>1. s.entries[k] \in Entry
  BY SoundFacts DEF SoundSegment, Resident
<1>2. new \in Entry /\ new.deadline = deadline
  BY <1>1 DEF Entry
<1>3. /\ DOMAIN r = {"entries", "lru", "index"}
      /\ r.entries = [s.entries EXCEPT ![k] = new] /\ r.lru = s.lru
      /\ r.index = Redated(s.index, k, s.entries[k].deadline, new.deadline)
  <2>1. /\ DOMAIN r = DOMAIN s
        /\ r.entries = [s.entries EXCEPT ![k].deadline = deadline] /\ r.lru = s.lru
        /\ r.index = Redated(s.index, k, s.entries[k].deadline, deadline)
    BY DEF WithDeadline, SoundSegment
  <2>2. QED
    BY <1>2, <2>1 DEF SoundSegment
<1>4. new = [s.entries[k] EXCEPT !.deadline = deadline]
  OBVIOUS
<1> HIDE DEF r, new
<1>5. Sound([s.entries EXCEPT ![k] = new], s.lru,
            Redated(s.index, k, s.entries[k].deadline, new.deadline))
  BY <1>2, RedatedSound DEF SoundSegment, Resident
<1>6. SoundSegment(r)
  BY <1>3, <1>5 DEF SoundSegment
<1>7. QED
  BY <1>3, <1>4, <1>6 DEF r

\* Deadlines are saturated: they never leave their range.
LEMMA DeadlineBounds ==
  ASSUME NEW t \in Nat, NEW ttl \in Nat, NEW deadline \in 0..MaxDuration
  PROVE  /\ DeadlineAfter(t, ttl) \in 0..MaxDuration
         /\ Extended(deadline, t, ttl) \in 0..MaxDuration
<1>1. DeadlineAfter(t, ttl) \in 0..MaxDuration
  BY MaxDurationAssumption DEF DeadlineAfter
<1>2. QED
  BY <1>1 DEF Extended

\* refreshTTL changes one deadline, and the index with it.
LEMMA RefreshedSound ==
  ASSUME NEW s, SoundSegment(s), NEW k \in Resident(s), NEW t \in Nat
  PROVE  LET r == Refreshed(s, k, t)
             e == s.entries[k]
         IN  /\ SoundSegment(r)
             /\ r.entries = IF e.ttl = 0 THEN s.entries
                            ELSE [s.entries EXCEPT ![k].deadline = Extended(e.deadline, t, e.ttl)]
             /\ r.lru = s.lru
<1> DEFINE e == s.entries[k]
           deadline == Extended(e.deadline, t, e.ttl)
<1>1. deadline \in 0..MaxDuration
  <2>1. s.entries[k] \in Entry
    BY SoundFacts DEF SoundSegment, Resident
  <2>2. e.deadline \in 0..MaxDuration /\ e.ttl \in Nat
    BY <2>1, SegmentAssumption DEF Entry
  <2> HIDE DEF e
  <2>3. QED
    BY <2>2, DeadlineBounds
<1>2. CASE e.ttl = 0
  BY <1>2 DEF Refreshed
<1>3. CASE e.ttl # 0
  <2> HIDE DEF deadline
  <2>1. /\ SoundSegment(WithDeadline(s, k, deadline))
        /\ WithDeadline(s, k, deadline).entries = [s.entries EXCEPT ![k].deadline = deadline]
        /\ WithDeadline(s, k, deadline).lru = s.lru
    BY <1>1, WithDeadlineSound
  <2>2. Refreshed(s, k, t) = WithDeadline(s, k, deadline)
    BY <1>3 DEF Refreshed, deadline
  <2>3. QED
    BY <1>3, <2>1, <2>2 DEF deadline
<1>4. QED
  BY <1>2, <1>3

\* moveToFrontLocked
LEMMA MovedKeeps ==
  ASSUME NEW s, SoundSegment(s), NEW k \in Resident(s)
  PROVE  LET r == [s EXCEPT !.lru = MovedToFront(@, k)]
         IN  SoundSegment(r) /\ r.entries = s.entries /\ r.lru = MovedToFront(s.lru, k)
<1> DEFINE r == [s EXCEPT !.lru = MovedToFront(@, k)]
<1>1. /\ DOMAIN r = {"entries", "lru", "index"}
      /\ r.entries = s.entries /\ r.lru = MovedToFront(s.lru, k) /\ r.index = s.index
  BY DEF SoundSegment
<1> HIDE DEF r
<1>2. Sound(s.entries, MovedToFront(s.lru, k), s.index)
  BY MovedSound DEF SoundSegment, Resident
<1>3. SoundSegment(r)
  BY <1>1, <1>2 DEF SoundSegment
<1>4. QED
  BY <1>1, <1>3 DEF r

\* getLocked and getEntryLocked
LEMMA HitSound ==
  ASSUME NEW s, SoundSegment(s), NEW k \in Resident(s), NEW t \in Nat
  PROVE  LET r == Hit(s, k, t)
         IN  /\ SoundSegment(r)
             /\ r.entries = IF Sliding THEN Refreshed(s, k, t).entries ELSE s.entries
             /\ r.lru = MovedToFront(s.lru, k)
<1> DEFINE f == IF Sliding THEN Refreshed(s, k, t) ELSE s
<1>1. /\ SoundSegment(f) /\ k \in Resident(f) /\ f.lru = s.lru
      /\ f.entries = IF Sliding THEN Refreshed(s, k, t).entries ELSE s.entries
  <2>1. SoundSegment(Refreshed(s, k, t)) /\ Refreshed(s, k, t).lru = s.lru
    BY RefreshedSound
  <2>2. k \in Resident(Refreshed(s, k, t))
    <3> DEFINE e == s.entries[k]
    <3>1. Refreshed(s, k, t).entries =
            IF e.ttl = 0 THEN s.entries
            ELSE [s.entries EXCEPT ![k].deadline = Extended(e.deadline, t, e.ttl)]
      BY RefreshedSound
    <3>2. QED
      BY <3>1 DEF Resident
  <2>3. QED
    BY <2>1, <2>2
<1>2. Hit(s, k, t) = [f EXCEPT !.lru = MovedToFront(@, k)]
  BY DEF Hit
<1> HIDE DEF f
<1>3. QED
  BY <1>1, <1>2, MovedKeeps

\* An entry gets another value and TTL, and its deadline stays.
LEMMA RevaluedSound ==
  ASSUME NEW e, NEW l, NEW x, Sound(e, l, x), NEW k \in DOMAIN e, NEW new \in Entry,
         new.deadline = e[k].deadline
  PROVE  Sound([e EXCEPT ![k] = new], l, x)
<1> DEFINE f == [e EXCEPT ![k] = new]
<1>1. DOMAIN f = DOMAIN e /\ f \in [DOMAIN f -> Entry]
      /\ \A j \in DOMAIN f : f[j].deadline = e[j].deadline
  BY DEF Sound
<1>2. Filed(f) = Filed(e)
  BY <1>1 DEF Filed
<1> HIDE DEF f
<1>3. Sound(f, l, x)
  BY <1>1, <1>2 DEF Sound
<1>4. QED
  BY <1>3 DEF f

\* setLocked of a resident key
LEMMA OverwrittenSound ==
  ASSUME NEW s, SoundSegment(s), NEW k \in Resident(s),
         NEW v \in Values, NEW ttl \in TTLs, NEW deadline \in 0..MaxDuration
  PROVE  LET r == Overwritten(s, k, v, ttl, deadline)
         IN  /\ SoundSegment(r)
             /\ \E new \in Entry :
                  /\ new.value = v /\ new.ttl = ttl /\ new.deadline = deadline
                  /\ r.entries = [s.entries EXCEPT ![k] = new]
             /\ r.lru = MovedToFront(s.lru, k)
<1> DEFINE r == Overwritten(s, k, v, ttl, deadline)
           d == WithDeadline(s, k, deadline)
           new == [[d.entries[k] EXCEPT !.value = v] EXCEPT !.ttl = ttl]
<1>1. SoundSegment(d) /\ d.entries = [s.entries EXCEPT ![k].deadline = deadline] /\ d.lru = s.lru
  BY WithDeadlineSound
<1>2. /\ DOMAIN r = DOMAIN d /\ r.index = d.index
      /\ r.lru = MovedToFront(d.lru, k)
      /\ r.entries = [d.entries EXCEPT ![k] = [[@ EXCEPT !.value = v] EXCEPT !.ttl = ttl]]
  <2> HIDE DEF d
  <2>1. DOMAIN d = {"entries", "lru", "index"} /\ k \in DOMAIN d.entries
    BY <1>1 DEF SoundSegment, Resident
  <2>2. r = [d EXCEPT !.entries[k].value = v, !.entries[k].ttl = ttl,
                      !.lru = MovedToFront(@, k)]
    BY DEF Overwritten, d
  <2>3. QED
    BY <2>1, <2>2
<1> HIDE DEF d, r
<1>3. k \in DOMAIN s.entries /\ s.entries[k] \in Entry
  BY SoundFacts DEF SoundSegment, Resident
<1>4. d.entries[k] = [s.entries[k] EXCEPT !.deadline = deadline]
  BY <1>1, <1>3
<1>5. r.entries = [d.entries EXCEPT ![k] = new]
  BY <1>2
<1>6. new \in Entry /\ new.value = v /\ new.ttl = ttl /\ new.deadline = deadline
  BY <1>3, <1>4 DEF Entry
<1> HIDE DEF new
<1>7. k \in DOMAIN d.entries /\ d.entries[k].deadline = deadline
  BY <1>1, <1>3 DEF Entry
<1>8. Sound([d.entries EXCEPT ![k] = new], d.lru, d.index)
  BY <1>1, <1>6, <1>7, RevaluedSound DEF SoundSegment
<1>9. Sound(r.entries, MovedToFront(d.lru, k), d.index)
  <2>1. k \in DOMAIN r.entries
    BY <1>5, <1>7
  <2>2. QED
    BY <1>5, <1>8, <2>1, MovedSound
<1>10. SoundSegment(r)
  BY <1>1, <1>2, <1>9 DEF SoundSegment
<1>11. r.entries = [s.entries EXCEPT ![k] = new]
  BY <1>1, <1>5
<1>12. QED
  BY <1>1, <1>2, <1>6, <1>10, <1>11 DEF r

\* setLocked in a full segment: the end of the list makes room.
LEMMA MadeRoomSound ==
  ASSUME NEW s, SoundSegment(s), Full(s)
  PROVE  /\ Last(s.lru) \in Resident(s)
         /\ SoundSegment(MadeRoom(s)) /\ ~Full(MadeRoom(s))
         /\ MadeRoom(s).entries = Without(s.entries, Last(s.lru))
<1> DEFINE k == Last(s.lru)
           r == MadeRoom(s)
<1>1. /\ IsFiniteSet(Resident(s)) /\ Cardinality(Resident(s)) = Len(s.lru)
      /\ Len(s.lru) \in Nat /\ Len(s.lru) <= Capacity
      /\ Lists(s.lru, Resident(s))
  BY SoundFacts DEF SoundSegment, Resident, Sound
<1>2. Capacity \in Nat \ {0}
  BY SegmentAssumption
<1>3. Len(s.lru) = Capacity
  BY <1>1, <1>2 DEF Full
<1>4. Resident(s) # {}
  <2>1. Cardinality({}) = 0
    BY FS_EmptySet
  <2>2. QED
    BY <1>1, <1>2, <1>3, <2>1
<1>5. k \in Resident(s)
  BY <1>1, <1>4, Dropping
<1>6. r = Removed(s, k)
  BY DEF MadeRoom
<1> HIDE DEF r, k
<1>7. SoundSegment(r) /\ r.entries = Without(s.entries, k)
  BY <1>5, <1>6, RemovedSound
<1>8. Resident(r) = Resident(s) \ {k}
  BY <1>7 DEF Resident, Without, Restrict
<1>9. Cardinality(Resident(s) \ {k}) = Cardinality(Resident(s)) - 1
  BY <1>1, <1>5, FS_RemoveElement
<1>10. ~Full(r)
  BY <1>1, <1>2, <1>3, <1>8, <1>9 DEF Full
<1>11. QED
  BY <1>5, <1>7, <1>10 DEF r, k

\* The key k is new.
Insertion(old, new, k, e) ==
  /\ k \notin DOMAIN old
  /\ new = With(old, k, e)

\* r is s with e stored under k; a full segment gave up the end of its list for it.
StoresAs(r, s, k, e) ==
  \/ /\ k \in Resident(s)
     /\ r.entries = [s.entries EXCEPT ![k] = e]
  \/ /\ k \notin Resident(s) /\ ~Full(s)
     /\ Insertion(s.entries, r.entries, k, e)
  \/ /\ k \notin Resident(s) /\ Full(s)
     /\ Last(s.lru) \in Resident(s)
     /\ Insertion(Without(s.entries, Last(s.lru)), r.entries, k, e)

\* setLocked, all of it
LEMMA StoredSound ==
  ASSUME NEW s, SoundSegment(s), NEW k \in Keys,
         NEW v \in Values, NEW ttl \in TTLs, NEW deadline \in 0..MaxDuration
  PROVE  LET r == Stored(s, k, v, ttl, deadline)
         IN  /\ SoundSegment(r)
             /\ \E e \in Entry : /\ e.value = v /\ e.ttl = ttl /\ e.deadline = deadline
                                 /\ StoresAs(r, s, k, e)
<1> DEFINE r == Stored(s, k, v, ttl, deadline)
           e == [value |-> v, ttl |-> ttl, deadline |-> deadline]
<1>1. CASE k \in Resident(s)
  <2>1. r = Overwritten(s, k, v, ttl, deadline)
    BY <1>1 DEF Stored
  <2> HIDE DEF r
  <2>2. SoundSegment(r)
    BY <1>1, <2>1, OverwrittenSound
  <2>3. \E new \in Entry :
          /\ new.value = v /\ new.ttl = ttl /\ new.deadline = deadline
          /\ r.entries = [s.entries EXCEPT ![k] = new]
    BY <1>1, <2>1, OverwrittenSound
  <2>4. QED
    BY <1>1, <2>2, <2>3 DEF r, StoresAs
<1>2. CASE k \notin Resident(s)
  <2> DEFINE room == IF Full(s) THEN MadeRoom(s) ELSE s
  <2>1. /\ SoundSegment(room) /\ ~Full(room) /\ k \notin Resident(room)
        /\ room.entries = IF Full(s) THEN Without(s.entries, Last(s.lru)) ELSE s.entries
        /\ Full(s) => Last(s.lru) \in Resident(s)
    <3>1. CASE Full(s)
      BY <1>2, <3>1, MadeRoomSound DEF Resident, Without, Restrict
    <3>2. CASE ~Full(s)
      BY <1>2, <3>2
    <3>3. QED
      BY <3>1, <3>2
  <2>2. r = Inserted(room, k, v, ttl, deadline)
    BY <1>2 DEF Stored
  <2> HIDE DEF room, r
  <2>3. SoundSegment(r) /\ r.entries = With(room.entries, k, e)
    BY <2>1, <2>2, InsertedKeeps
  <2>4. e \in Entry /\ e.value = v /\ e.ttl = ttl /\ e.deadline = deadline
    BY DEF Entry
  <2> HIDE DEF e
  <2>5. Insertion(room.entries, r.entries, k, e)
    BY <2>1, <2>3 DEF Insertion, Resident
  <2>6. CASE Full(s)
    BY <1>2, <2>1, <2>3, <2>4, <2>5, <2>6 DEF r, StoresAs
  <2>7. CASE ~Full(s)
    BY <1>2, <2>1, <2>3, <2>4, <2>5, <2>7 DEF r, StoresAs
  <2>8. QED
    BY <2>6, <2>7
<1>3. QED
  BY <1>1, <1>2

\* One turn of cleanupExpired takes one entry, which is due no later than the root.
LEMMA PoppedSound ==
  ASSUME NEW s, SoundSegment(s), NEW b \in s.index.heap
  PROVE  LET r == Popped(s)
         IN  /\ SoundSegment(r)
             /\ \E k \in Resident(s) :
                  /\ r.entries = Without(s.entries, k) /\ r.lru = RemoveFirst(s.lru, k)
                  /\ s.entries[k].deadline # 0
                  /\ BucketID(s.entries[k].deadline) <= s.index.id[b]
<1> DEFINE r == Popped(s)
           root == Root(s.index)
           k == Last(s.index.items[root])
           ids == Filed(s.entries)
<1>1. /\ DOMAIN r = {"entries", "lru", "index"}
      /\ r.entries = Without(s.entries, k) /\ r.lru = RemoveFirst(s.lru, k)
      /\ r.index = WithoutEmpty(Relisted(s.index, root, Front(s.index.items[root])), root)
  BY DEF Popped, Relisted
<1>2. Agrees(s.index, ids)
  BY DEF SoundSegment, Sound
<1> HIDE DEF r, ids
<1>3. /\ root \in s.index.heap /\ s.index.id[root] <= s.index.id[b]
      /\ k \in DOMAIN ids /\ ids[k] = s.index.id[root]
      /\ Agrees(WithoutEmpty(Relisted(s.index, root, Front(s.index.items[root])), root),
                Without(ids, k))
  BY <1>2, RootIsLeast, PoppedIndex
<1> HIDE DEF root, k
<1>4. /\ k \in Resident(s) /\ s.entries[k].deadline # 0
      /\ ids[k] = BucketID(s.entries[k].deadline)
  BY <1>3 DEF ids, Filed, Resident
<1>5. Sound(Without(s.entries, k), RemoveFirst(s.lru, k),
            Unindexed(s.index, k, s.entries[k].deadline))
  BY <1>4, GoneSound DEF SoundSegment, Resident
<1>6. Agrees(r.index, Without(ids, k))
  BY <1>1, <1>3
<1>7. Without(ids, k) = Filed(Without(s.entries, k))
  BY DEF ids, Filed, Without, Restrict
<1>8. Sound(r.entries, r.lru, r.index)
  BY <1>1, <1>5, <1>6, <1>7 DEF Sound
<1>9. SoundSegment(r)
  BY <1>1, <1>8 DEF SoundSegment
<1>10. QED
  BY <1>1, <1>3, <1>4, <1>9 DEF r
-------------------------------------------------------------------------------
(***************************************************************************)
(* The order of the list.                                                  *)
(***************************************************************************)
Before(l, j, k) == \E a, b \in 1..Len(l) : a < b /\ l[a] = j /\ l[b] = k

\* A removal leaves the order of the others as it was,
LEMMA BeforeRemoving ==
  ASSUME NEW S, NEW l, Lists(l, S), NEW x \in S, NEW j \in S \ {x}, NEW k \in S \ {x}
  PROVE  Before(RemoveFirst(l, x), j, k) <=> Before(l, j, k)
<1> DEFINE m == RemoveFirst(l, x)
<1> HIDE DEF m
<1>1. PICK n \in 1..Len(l) : l[n] = x /\ Skips(m, l, n)
  BY Removing DEF m
<1>2. /\ Len(l) \in Nat /\ Len(m) = Len(l) - 1
      /\ \A i \in 1..Len(l) - 1 : m[i] = IF i < n THEN l[i] ELSE l[i + 1]
  BY <1>1, ListFacts DEF Skips
<1>3. ASSUME Before(m, j, k) PROVE Before(l, j, k)
  <2>1. PICK a \in 1..Len(m), b \in 1..Len(m) : a < b /\ m[a] = j /\ m[b] = k
    BY <1>3 DEF Before
  <2> DEFINE a1 == IF a < n THEN a ELSE a + 1
             b1 == IF b < n THEN b ELSE b + 1
  <2>2. a1 \in 1..Len(l) /\ b1 \in 1..Len(l) /\ a1 < b1
    BY <1>2, <2>1
  <2>3. l[a1] = j /\ l[b1] = k
    BY <1>2, <2>1
  <2> HIDE DEF a1, b1
  <2>4. QED
    BY <2>2, <2>3 DEF Before
<1>4. ASSUME Before(l, j, k) PROVE Before(m, j, k)
  <2>1. PICK a \in 1..Len(l), b \in 1..Len(l) : a < b /\ l[a] = j /\ l[b] = k
    BY <1>4 DEF Before
  <2>2. a # n /\ b # n
    BY <1>1, <2>1
  <2> DEFINE a1 == IF a < n THEN a ELSE a - 1
             b1 == IF b < n THEN b ELSE b - 1
  <2>3. a1 \in 1..Len(m) /\ b1 \in 1..Len(m) /\ a1 < b1
    BY <1>1, <1>2, <2>1, <2>2
  <2>4. m[a1] = j
    <3>1. CASE a < n
      BY <1>2, <2>1, <2>3, <3>1
    <3>2. CASE a > n
      <4>1. a1 = a - 1 /\ ~(a1 < n) /\ a1 + 1 = a /\ a1 \in 1..Len(l) - 1
        BY <1>2, <2>3, <3>2
      <4> HIDE DEF a1
      <4>2. m[a1] = l[a1 + 1]
        BY <1>2, <4>1
      <4>3. QED
        BY <2>1, <4>1, <4>2
    <3>3. QED
      BY <2>2, <3>1, <3>2
  <2>5. m[b1] = k
    <3>1. CASE b < n
      BY <1>2, <2>1, <2>3, <3>1
    <3>2. CASE b > n
      <4>1. b1 = b - 1 /\ ~(b1 < n) /\ b1 + 1 = b /\ b1 \in 1..Len(l) - 1
        BY <1>2, <2>3, <3>2
      <4> HIDE DEF b1
      <4>2. m[b1] = l[b1 + 1]
        BY <1>2, <4>1
      <4>3. QED
        BY <2>1, <4>1, <4>2
    <3>3. QED
      BY <2>2, <3>1, <3>2
  <2> HIDE DEF a1, b1
  <2>6. QED
    BY <2>3, <2>4, <2>5 DEF Before
<1>5. QED
  BY <1>3, <1>4 DEF m

\* and so does a new front, which is before all of them.
LEMMA BeforePrepending ==
  ASSUME NEW S, NEW l, Lists(l, S), NEW x, x \notin S, NEW m, m = <<x>> \o l
  PROVE  /\ \A j, k \in S : Before(m, j, k) <=> Before(l, j, k)
         /\ \A k \in S : Before(m, x, k)
         /\ \A j : ~Before(m, j, x)
<1>1. /\ Len(l) \in Nat /\ Len(m) = Len(l) + 1 /\ m[1] = x
      /\ \A i \in 1..Len(l) : m[i + 1] = l[i] /\ l[i] \in S
  <2>1. l \in Seq(S \union {x}) /\ <<x>> \in Seq(S \union {x})
    BY SeqMonotonic DEF Lists
  <2>2. QED
    BY <2>1, ConcatProperties, ListFacts
<1>2. \A i \in 2..Len(m) : i - 1 \in 1..Len(l) /\ m[i] = l[i - 1] /\ m[i] \in S
  BY <1>1
<1>3. ASSUME NEW j \in S, NEW k \in S, Before(m, j, k) PROVE Before(l, j, k)
  <2>1. PICK a \in 1..Len(m), b \in 1..Len(m) : a < b /\ m[a] = j /\ m[b] = k
    BY <1>3 DEF Before
  <2>2. a \in 2..Len(m) /\ b \in 2..Len(m)
    BY <1>1, <2>1
  <2>3. a - 1 \in 1..Len(l) /\ b - 1 \in 1..Len(l) /\ a - 1 < b - 1
        /\ l[a - 1] = j /\ l[b - 1] = k
    BY <1>2, <2>1, <2>2
  <2>4. QED
    BY <2>3 DEF Before
<1>4. ASSUME NEW j \in S, NEW k \in S, Before(l, j, k) PROVE Before(m, j, k)
  <2>1. PICK a \in 1..Len(l), b \in 1..Len(l) : a < b /\ l[a] = j /\ l[b] = k
    BY <1>4 DEF Before
  <2>2. a + 1 \in 1..Len(m) /\ b + 1 \in 1..Len(m) /\ a + 1 < b + 1
        /\ m[a + 1] = j /\ m[b + 1] = k
    BY <1>1, <2>1
  <2>3. QED
    BY <2>2 DEF Before
<1>5. ASSUME NEW k \in S PROVE Before(m, x, k)
  <2>1. PICK b \in 1..Len(l) : l[b] = k
    BY ListFacts
  <2>2. 1 \in 1..Len(m) /\ b + 1 \in 1..Len(m) /\ 1 < b + 1 /\ m[1] = x /\ m[b + 1] = k
    BY <1>1, <2>1
  <2>3. QED
    BY <2>2 DEF Before
<1>6. ASSUME NEW j, Before(m, j, x) PROVE FALSE
  <2>1. PICK a \in 1..Len(m), b \in 1..Len(m) : a < b /\ m[a] = j /\ m[b] = x
    BY <1>6 DEF Before
  <2>2. b \in 2..Len(m)
    BY <1>1, <2>1
  <2>3. QED
    BY <1>2, <2>1, <2>2
<1>7. QED
  BY <1>3, <1>4, <1>5, <1>6

\* Everything else comes before the end.
LEMMA BeforeTheEnd ==
  ASSUME NEW S, NEW l, Lists(l, S), NEW j \in S, NEW k \in S, k = Last(l)
  PROVE  Before(l, j, k) <=> j # k
<1>1. Len(l) \in Nat /\ Len(l) \in 1..Len(l) /\ l[Len(l)] = k
  BY ListFacts DEF Last
<1>2. ASSUME j # k PROVE Before(l, j, k)
  <2>1. PICK a \in 1..Len(l) : l[a] = j
    BY ListFacts
  <2>2. a < Len(l)
    BY <1>1, <1>2, <2>1
  <2>3. QED
    BY <1>1, <2>1, <2>2 DEF Before
<1>3. ASSUME Before(l, j, k) PROVE j # k
  BY <1>3, ListFacts DEF Before
<1>4. QED
  BY <1>2, <1>3

\* What is left is in the same order.
Keeps(r, s) ==
  /\ Resident(r) \subseteq Resident(s)
  /\ \A j, k \in Resident(r) : Before(r.lru, j, k) <=> Before(s.lru, j, k)

\* x is at the front, and what else is left is in the same order.
Uses(r, s, x) ==
  /\ x \in Resident(r) /\ Resident(r) \ {x} \subseteq Resident(s)
  /\ \A j, k \in Resident(r) \ {x} : Before(r.lru, j, k) <=> Before(s.lru, j, k)
  /\ \A k \in Resident(r) \ {x} : Before(r.lru, x, k)
  /\ \A j : ~Before(r.lru, j, x)

\* These compose.
LEMMA KeepsUses ==
  ASSUME NEW s, NEW q, NEW r, Keeps(q, s)
  PROVE  /\ Keeps(r, q) => Keeps(r, s)
         /\ \A x : Uses(r, q, x) => Uses(r, s, x)
BY DEF Keeps, Uses

\* A removal keeps the order of the list.
LEMMA RemovedKeeps ==
  ASSUME NEW s, SoundSegment(s), NEW r, NEW x \in Resident(s),
         r.entries = Without(s.entries, x), r.lru = RemoveFirst(s.lru, x)
  PROVE  Keeps(r, s) /\ Resident(r) = Resident(s) \ {x}
<1>1. Lists(s.lru, Resident(s))
  BY DEF SoundSegment, Sound, Resident
<1>2. Resident(r) = Resident(s) \ {x}
  BY DEF Resident, Without, Restrict
<1>3. \A j, k \in Resident(s) \ {x} : Before(r.lru, j, k) <=> Before(s.lru, j, k)
  BY <1>1, BeforeRemoving
<1>4. QED
  BY <1>2, <1>3 DEF Keeps

\* A hit uses its key,
LEMMA MovedUses ==
  ASSUME NEW s, SoundSegment(s), NEW r, NEW x \in Resident(s),
         Resident(r) = Resident(s), r.lru = MovedToFront(s.lru, x)
  PROVE  Uses(r, s, x)
<1> DEFINE m == RemoveFirst(s.lru, x)
           rest == Resident(s) \ {x}
<1>1. Lists(s.lru, Resident(s))
  BY DEF SoundSegment, Sound, Resident
<1>2. Lists(m, rest)
  BY <1>1, Unlisting
<1>3. \A j, k \in rest : Before(m, j, k) <=> Before(s.lru, j, k)
  BY <1>1, BeforeRemoving
<1>4. r.lru = <<x>> \o m
  BY DEF MovedToFront
<1> HIDE DEF m
<1>5. /\ \A j, k \in rest : Before(r.lru, j, k) <=> Before(m, j, k)
      /\ \A k \in rest : Before(r.lru, x, k)
      /\ \A j : ~Before(r.lru, j, x)
  <2>1. x \notin rest
    OBVIOUS
  <2> HIDE DEF rest
  <2>2. QED
    BY <1>2, <1>4, <2>1, BeforePrepending
<1>6. QED
  BY <1>3, <1>5 DEF Uses

\* an insertion its new key,
LEMMA InsertedUses ==
  ASSUME NEW s, SoundSegment(s), NEW r, NEW x, x \notin Resident(s),
         Resident(r) = Resident(s) \union {x}, r.lru = <<x>> \o s.lru
  PROVE  Uses(r, s, x)
<1>1. Lists(s.lru, Resident(s))
  BY DEF SoundSegment, Sound, Resident
<1>2. /\ \A j, k \in Resident(s) : Before(r.lru, j, k) <=> Before(s.lru, j, k)
      /\ \A k \in Resident(s) : Before(r.lru, x, k)
      /\ \A j : ~Before(r.lru, j, x)
  BY <1>1, BeforePrepending
<1>3. QED
  BY <1>2 DEF Uses

\* and setLocked its key, whether or not it evicts another one.
LEMMA StoredUses ==
  ASSUME NEW s, SoundSegment(s), NEW k \in Keys,
         NEW v \in Values, NEW ttl \in TTLs, NEW deadline \in 0..MaxDuration
  PROVE  Uses(Stored(s, k, v, ttl, deadline), s, k)
<1> DEFINE r == Stored(s, k, v, ttl, deadline)
<1>1. CASE k \in Resident(s)
  <2>1. r = Overwritten(s, k, v, ttl, deadline)
    BY <1>1 DEF Stored
  <2> HIDE DEF r
  <2>2. PICK new \in Entry :
          /\ new.value = v /\ new.ttl = ttl /\ new.deadline = deadline
          /\ r.entries = [s.entries EXCEPT ![k] = new]
    BY <1>1, <2>1, OverwrittenSound
  <2>3. r.lru = MovedToFront(s.lru, k)
    BY <1>1, <2>1, OverwrittenSound
  <2>4. Resident(r) = Resident(s)
    BY <2>2 DEF Resident
  <2>5. Uses(r, s, k)
    BY <1>1, <2>3, <2>4, MovedUses
  <2>6. QED
    BY <2>5 DEF r
<1>2. CASE k \notin Resident(s)
  <2> DEFINE room == IF Full(s) THEN MadeRoom(s) ELSE s
  <2>1. SoundSegment(room) /\ Keeps(room, s)
    <3>1. CASE Full(s)
      <4>1. /\ SoundSegment(MadeRoom(s)) /\ Last(s.lru) \in Resident(s)
            /\ MadeRoom(s).entries = Without(s.entries, Last(s.lru))
        BY <3>1, MadeRoomSound
      <4>2. MadeRoom(s).lru = RemoveFirst(s.lru, Last(s.lru))
        BY DEF MadeRoom, Removed
      <4> DEFINE q == MadeRoom(s)
                 x == Last(s.lru)
      <4> HIDE DEF q, x
      <4>3. SoundSegment(q) /\ x \in Resident(s) /\ q.entries = Without(s.entries, x)
            /\ q.lru = RemoveFirst(s.lru, x)
        BY <4>1, <4>2 DEF q, x
      <4>4. Keeps(q, s)
        BY <4>3, RemovedKeeps
      <4>5. QED
        BY <3>1, <4>3, <4>4 DEF q
    <3>2. CASE ~Full(s)
      BY <3>2 DEF Keeps
    <3>3. QED
      BY <3>1, <3>2
  <2>2. r = Inserted(room, k, v, ttl, deadline)
    BY <1>2 DEF Stored
  <2> HIDE DEF room, r
  <2> DEFINE new == [value |-> v, ttl |-> ttl, deadline |-> deadline]
  <2>3. r.lru = <<k>> \o room.lru /\ Resident(r) = Resident(room) \union {k}
    <3>1. r.lru = <<k>> \o room.lru /\ r.entries = With(room.entries, k, new)
      BY <2>2 DEF Inserted
    <3> HIDE DEF new
    <3>2. QED
      BY <3>1 DEF Resident, With
  <2>4. k \notin Resident(room)
    BY <1>2, <2>1 DEF Keeps
  <2>5. Uses(r, room, k)
    BY <2>1, <2>3, <2>4, InsertedUses
  <2>6. Uses(r, s, k)
    BY <2>1, <2>5, KeepsUses
  <2>7. QED
    BY <2>6 DEF r
<1>3. QED
  BY <1>1, <1>2
-------------------------------------------------------------------------------
(***************************************************************************)
(* The loop of cleanupExpired.                                             *)
(***************************************************************************)
\* r is s without some of the entries that are due.
Reduced(r, s, due) ==
  /\ SoundSegment(r) /\ Keeps(r, s)
  /\ r.entries = Restrict(s.entries, Resident(r))
  /\ \A k \in Resident(s) \ Resident(r) :
       s.entries[k].deadline # 0 /\ BucketID(s.entries[k].deadline) <= due

\* The loop counts what it takes.
ReducedLoop(loop, s, due) ==
  /\ Reduced(loop.segment, s, due)
  /\ loop.removed \in Nat
  /\ Cardinality(Resident(loop.segment)) + loop.removed = Cardinality(Resident(s))

\* An entry that is due is taken out of the index and the map.
LEMMA PoppedReduces ==
  ASSUME NEW s, NEW q, NEW due \in Nat, Reduced(q, s, due), HasDueBucket(q.index, due)
  PROVE  /\ Reduced(Popped(q), s, due)
         /\ IsFiniteSet(Resident(q))
         /\ \E k \in Resident(q) : Resident(Popped(q)) = Resident(q) \ {k}
<1> DEFINE r == Popped(q)
<1>1. PICK b \in q.index.heap : q.index.id[b] <= due
  BY DEF HasDueBucket
<1>2. r = Popped(q)
  OBVIOUS
<1>3. SoundSegment(q)
  BY DEF Reduced
<1> HIDE DEF r
<1>4. SoundSegment(r)
  BY <1>1, <1>2, <1>3, PoppedSound
<1>5. PICK k \in Resident(q) :
        /\ r.entries = Without(q.entries, k) /\ r.lru = RemoveFirst(q.lru, k)
        /\ q.entries[k].deadline # 0
        /\ BucketID(q.entries[k].deadline) <= q.index.id[b]
  BY <1>1, <1>2, <1>3, PoppedSound
<1>6. Keeps(r, q) /\ Resident(r) = Resident(q) \ {k}
  BY <1>3, <1>5, RemovedKeeps
<1>7. Keeps(r, s)
  BY <1>6, KeepsUses DEF Reduced
<1>8. k \in Resident(s) /\ q.entries[k] = s.entries[k]
  BY DEF Reduced, Keeps, Resident, Restrict
<1>9. r.entries = Restrict(s.entries, Resident(r))
  <2>1. r.entries = [j \in Resident(q) \ {k} |-> q.entries[j]]
    BY <1>5 DEF Without, Restrict, Resident
  <2>2. \A j \in Resident(q) : q.entries[j] = s.entries[j]
    BY DEF Reduced, Keeps, Resident, Restrict
  <2>3. Restrict(s.entries, Resident(r)) = [j \in Resident(q) \ {k} |-> s.entries[j]]
    BY <1>6 DEF Restrict, Reduced, Keeps, Resident
  <2>4. QED
    BY <2>1, <2>2, <2>3
<1>10. BucketID(s.entries[k].deadline) <= due /\ s.entries[k].deadline # 0
  <2>1. BucketID(q.entries[k].deadline) \in Nat
    <3>1. q.entries[k].deadline \in Nat
      BY <1>3, SoundFacts DEF SoundSegment, Resident
    <3>2. QED
      BY <3>1, BucketIDs
  <2>2. q.index.id[b] \in Nat
    <3>1. Agrees(q.index, Filed(q.entries))
      BY <1>3 DEF SoundSegment, Sound
    <3>2. QED
      BY <1>1, <3>1, ActiveBuckets
  <2>3. QED
    BY <1>1, <1>5, <1>8, <2>1, <2>2
<1>11. ASSUME NEW j \in Resident(s) \ Resident(r)
       PROVE  s.entries[j].deadline # 0 /\ BucketID(s.entries[j].deadline) <= due
  <2>1. CASE j = k
    BY <1>10, <2>1
  <2>2. CASE j # k
    BY <1>6, <2>2 DEF Reduced
  <2>3. QED
    BY <2>1, <2>2
<1>12. Reduced(r, s, due)
  BY <1>4, <1>7, <1>9, <1>11 DEF Reduced
<1>13. IsFiniteSet(Resident(q))
  BY <1>3, SoundFacts DEF SoundSegment, Resident
<1>14. QED
  BY <1>6, <1>12, <1>13 DEF r

\* Each turn of the loop takes an entry that is due and counts it, or does nothing.
LEMMA TurnReduces ==
  ASSUME NEW s, NEW q, NEW due \in Nat, NEW limit \in Nat, ReducedLoop(q, s, due)
  PROVE  ReducedLoop(Turn(q, due, limit), s, due)
<1>1. CASE ~(q.removed < limit /\ HasDueBucket(q.segment.index, due))
  BY <1>1 DEF Turn
<1>2. CASE q.removed < limit /\ HasDueBucket(q.segment.index, due)
  <2> DEFINE p == q.segment
             r == Popped(p)
  <2>1. Turn(q, due, limit) = [segment |-> r, removed |-> q.removed + 1]
    BY <1>2 DEF Turn
  <2>2. Reduced(p, s, due) /\ q.removed \in Nat
        /\ Cardinality(Resident(p)) + q.removed = Cardinality(Resident(s))
    BY DEF ReducedLoop
  <2>3. HasDueBucket(p.index, due)
    BY <1>2
  <2> HIDE DEF p, r
  <2>4. Reduced(r, s, due) /\ IsFiniteSet(Resident(p))
    BY <2>2, <2>3, PoppedReduces DEF r
  <2>5. PICK k \in Resident(p) : Resident(r) = Resident(p) \ {k}
    BY <2>2, <2>3, PoppedReduces DEF r
  <2>6. Cardinality(Resident(r)) = Cardinality(Resident(p)) - 1
    BY <2>4, <2>5, FS_RemoveElement
  <2>7. Cardinality(Resident(p)) \in Nat
    BY <2>4, FS_CardinalityType
  <2>8. Cardinality(Resident(r)) + (q.removed + 1) = Cardinality(Resident(s))
    BY <2>2, <2>6, <2>7
  <2>9. QED
    BY <2>1, <2>2, <2>4, <2>8 DEF ReducedLoop
<1>3. QED
  BY <1>1, <1>2

Began(s) == [segment |-> s, removed |-> 0]

\* g is the loop from s: what it has done after each of m turns.
Loop(g, s, due, limit, m) ==
  g = [n \in 0..m |-> IF n = 0 THEN Began(s) ELSE Turn(g[n - 1], due, limit)]

\* For every number of turns there is a function that says what has been done
\* after each of them: the least number without one would follow one that has one.
LEMMA LoopExists ==
  ASSUME NEW s, NEW due \in Nat, NEW limit \in Nat, NEW m \in Nat
  PROVE  \E g : Loop(g, s, due, limit, m)
<1> DEFINE bad == {n \in Nat : ~ \E g : Loop(g, s, due, limit, n)}
<1>1. SUFFICES ASSUME bad # {} PROVE FALSE
  OBVIOUS
<1>2. PICK n \in bad : \A i \in bad : n <= i
  <2>1. bad \subseteq Nat
    OBVIOUS
  <2> HIDE DEF bad
  <2>2. QED
    BY <1>1, <2>1, LeastElement
<1>3. n \in Nat /\ ~ \E g : Loop(g, s, due, limit, n)
  OBVIOUS
<1>4. n # 0
  <2>1. Loop([i \in 0..0 |-> Began(s)], s, due, limit, 0)
    BY DEF Loop
  <2>2. QED
    BY <1>3, <2>1
<1>5. n - 1 \in Nat /\ n - 1 \notin bad
  BY <1>2, <1>3, <1>4
<1>6. PICK g : Loop(g, s, due, limit, n - 1)
  BY <1>5
<1> DEFINE h == [i \in 0..n |-> IF i = n THEN Turn(g[n - 1], due, limit) ELSE g[i]]
<1>7. \A i \in 0..n : h[i] = IF i = 0 THEN Began(s) ELSE Turn(h[i - 1], due, limit)
  <2>1. \A i \in 0..n - 1 : g[i] = IF i = 0 THEN Began(s) ELSE Turn(g[i - 1], due, limit)
    BY <1>6 DEF Loop
  <2>2. \A i \in 0..n - 1 : h[i] = g[i]
    BY <1>3
  <2>3. h[n] = Turn(g[n - 1], due, limit)
    BY <1>3
  <2> HIDE DEF h
  <2>4. ASSUME NEW i \in 0..n PROVE h[i] = IF i = 0 THEN Began(s) ELSE Turn(h[i - 1], due, limit)
    <3>1. CASE i = n
      <4>1. n - 1 \in 0..n - 1
        BY <1>5
      <4>2. QED
        BY <1>4, <2>2, <2>3, <3>1, <4>1
    <3>2. CASE i # n
      <4>1. i \in 0..n - 1 /\ (i # 0 => i - 1 \in 0..n - 1)
        BY <1>3, <3>2
      <4>2. QED
        BY <2>1, <2>2, <4>1
    <3>3. QED
      BY <3>1, <3>2
  <2>5. QED
    BY <2>4
<1>8. h = [i \in 0..n |-> h[i]]
  OBVIOUS
<1> HIDE DEF h
<1>9. Loop(h, s, due, limit, n)
  BY <1>7, <1>8 DEF Loop
<1>10. QED
  BY <1>3, <1>9

\* cleanupExpired is such a loop, up to its limit.
LEMMA CleanedIsLoop ==
  ASSUME NEW s, NEW now, DueBucketID(now) \in Nat, NEW limit \in Nat
  PROVE  \E g : Loop(g, s, DueBucketID(now), limit, limit) /\ Cleaned(s, now, limit) = g[limit]
<1> DEFINE due == DueBucketID(now)
           loop == CHOOSE g : Loop(g, s, due, limit, limit)
<1>1. Loop(loop, s, due, limit, limit)
  <2> HIDE DEF due
  <2>1. due \in Nat
    BY DEF due
  <2>2. QED
    BY <2>1, LoopExists
<1>2. Cleaned(s, now, limit) = loop[limit]
  BY DEF Cleaned, Loop, Began
<1>3. QED
  BY <1>1, <1>2

\* So cleanupExpired takes nothing that is not due, counts what it takes, and keeps the
\* segment sound.
LEMMA CleanedReduces ==
  ASSUME NEW s, SoundSegment(s), NEW now, DueBucketID(now) \in Nat, NEW limit \in Nat
  PROVE  ReducedLoop(Cleaned(s, now, limit), s, DueBucketID(now))
<1> DEFINE due == DueBucketID(now)
<1>1. PICK g : Loop(g, s, due, limit, limit) /\ Cleaned(s, now, limit) = g[limit]
  BY CleanedIsLoop
<1>2. \A n \in 0..limit : g[n] = IF n = 0 THEN Began(s) ELSE Turn(g[n - 1], due, limit)
  BY <1>1 DEF Loop
<1> HIDE DEF due
<1>3. ReducedLoop(Began(s), s, due)
  <2>1. s.entries = Restrict(s.entries, Resident(s))
    BY DEF SoundSegment, Sound, Restrict, Resident
  <2>2. Reduced(s, s, due)
    BY <2>1 DEF Reduced, Keeps
  <2>3. Cardinality(Resident(s)) \in Nat
    BY SoundFacts, FS_CardinalityType DEF SoundSegment, Resident
  <2>4. QED
    BY <2>2, <2>3 DEF ReducedLoop, Began
<1> DEFINE bad == {n \in 0..limit : ~ReducedLoop(g[n], s, due)}
<1>4. bad = {}
  <2>1. SUFFICES ASSUME bad # {} PROVE FALSE
    OBVIOUS
  <2>2. PICK n \in bad : \A i \in bad : n <= i
    <3>1. bad \subseteq Nat
      OBVIOUS
    <3> HIDE DEF bad
    <3>2. QED
      BY <2>1, <3>1, LeastElement
  <2>3. n \in 0..limit /\ ~ReducedLoop(g[n], s, due) /\ n # 0
    BY <1>2, <1>3
  <2>4. n - 1 \in 0..limit /\ n - 1 \notin bad
    BY <2>2, <2>3
  <2>5. ReducedLoop(g[n - 1], s, due)
    BY <2>4
  <2>6. g[n] = Turn(g[n - 1], due, limit)
    BY <1>2, <2>3
  <2> HIDE DEF bad
  <2>7. due \in Nat
    BY DEF due
  <2>8. ReducedLoop(g[n], s, due)
    BY <2>5, <2>6, <2>7, TurnReduces
  <2>9. QED
    BY <2>3, <2>8
<1>5. QED
  BY <1>1, <1>4 DEF due
-------------------------------------------------------------------------------
(***************************************************************************)
(* The inductive invariant.                                                *)
(***************************************************************************)
\* since names, for every resident key, the keys in front of it.
Ordered(s, used) ==
  /\ used \in [Keys -> SUBSET Keys]
  /\ \A k \in Resident(s) : used[k] = {j \in Resident(s) : Before(s.lru, j, k)}

SegInv ==
  /\ SoundSegment(segment) /\ Ordered(segment, since)
  /\ clock \in 0..MaxClock
  /\ counted \in [inserted : Nat, expired : Nat, evicted : Nat, removed : Nat]

\* An operation that uses no key keeps the ghost in step with the list,
LEMMA Becoming ==
  ASSUME SegInv, NEW r, SoundSegment(r), Keeps(r, segment), Becomes(r)
  PROVE  /\ segment' = r /\ SoundSegment(segment') /\ Ordered(segment', since')
         /\ clock' = clock /\ clock' \in 0..MaxClock
<1>1. segment' = r /\ since' = Unused(r) /\ clock' = clock
  BY DEF Becomes
<1>2. Resident(r) \subseteq Keys
  BY DEF SoundSegment, Sound, Resident
<1>3. Ordered(r, Unused(r))
  <2>1. Unused(r) \in [Keys -> SUBSET Keys]
    BY <1>2 DEF Unused
  <2>2. ASSUME NEW k \in Resident(r)
        PROVE  Unused(r)[k] = {j \in Resident(r) : Before(r.lru, j, k)}
    <3>1. Unused(r)[k] = since[k] \intersect Resident(r)
      BY <1>2 DEF Unused
    <3>2. since[k] = {j \in Resident(segment) : Before(segment.lru, j, k)}
      BY DEF SegInv, Ordered, Keeps
    <3>3. \A j \in Resident(r) : j \in Resident(segment)
                                 /\ (Before(r.lru, j, k) <=> Before(segment.lru, j, k))
      BY DEF Keeps
    <3>4. QED
      BY <3>1, <3>2, <3>3
  <2>3. QED
    BY <2>1, <2>2 DEF Ordered
<1>4. SoundSegment(segment') /\ Ordered(segment', since')
  BY <1>1, <1>3
<1>5. QED
  BY <1>1, <1>4 DEF SegInv

\* and so does one that uses a key.
LEMMA BecomingUsing ==
  ASSUME SegInv, NEW r, SoundSegment(r), NEW x, Uses(r, segment, x), BecomesUsing(r, x)
  PROVE  /\ segment' = r /\ SoundSegment(segment') /\ Ordered(segment', since')
         /\ clock' = clock /\ clock' \in 0..MaxClock
<1> DEFINE used == [j \in Keys |-> IF j \notin Resident(r) \ {x} THEN {}
                                   ELSE Unused(r)[j] \union {x}]
<1>1. segment' = r /\ since' = used /\ clock' = clock
  BY DEF BecomesUsing
<1>2. Resident(r) \subseteq Keys /\ x \in Keys
  BY DEF SoundSegment, Sound, Resident, Uses
<1>3. Ordered(r, used)
  <2>1. used \in [Keys -> SUBSET Keys]
    BY <1>2 DEF Unused
  <2>2. ASSUME NEW k \in Resident(r)
        PROVE  used[k] = {j \in Resident(r) : Before(r.lru, j, k)}
    <3>1. CASE k = x
      BY <1>2, <3>1 DEF Uses
    <3>2. CASE k # x
      <4>1. used[k] = (since[k] \intersect Resident(r)) \union {x}
        BY <1>2, <3>2 DEF Unused
      <4>2. since[k] = {j \in Resident(segment) : Before(segment.lru, j, k)}
        BY <3>2 DEF SegInv, Ordered, Uses
      <4>3. \A j \in Resident(r) \ {x} :
              j \in Resident(segment) /\ (Before(r.lru, j, k) <=> Before(segment.lru, j, k))
        BY <3>2 DEF Uses
      <4>4. x \in Resident(r) /\ Before(r.lru, x, k)
        BY <3>2 DEF Uses
      <4> HIDE DEF used
      <4>5. QED
        BY <4>1, <4>2, <4>3, <4>4
    <3>3. QED
      BY <3>1, <3>2
  <2>3. QED
    BY <2>1, <2>2 DEF Ordered
<1> HIDE DEF used
<1>4. SoundSegment(segment') /\ Ordered(segment', since')
  BY <1>1, <1>3
<1>5. QED
  BY <1>1, <1>4 DEF SegInv

\* A bucket is due when its whole interval has passed.
LEMMA DueBucketIDs ==
  ASSUME NEW t \in Nat
  PROVE  /\ DueBucketID(t) \in Nat
         /\ DueBucketID(t) * Resolution <= t /\ t < (DueBucketID(t) + 1) * Resolution
<1> DEFINE q == t \div Resolution
           r == t % Resolution
<1>1. Resolution \in Nat \ {0}
  BY SegmentAssumption
<1>2. q \in Nat /\ r \in 0..Resolution - 1 /\ t = Resolution * q + r
  BY <1>1
<1>3. DueBucketID(t) = q
  BY DEF DueBucketID
<1> HIDE DEF q, r
<1>4. (q + 1) * Resolution = Resolution * q + Resolution /\ q * Resolution = Resolution * q
  BY <1>1, <1>2
<1>5. QED
  BY <1>1, <1>2, <1>3, <1>4

\* An empty segment with an index without entries is sound.
LEMMA EmptySound ==
  ASSUME NEW x, Agrees(x, <<>>)
  PROVE  SoundSegment([entries |-> <<>>, lru |-> <<>>, index |-> x])
<1>1. DOMAIN <<>> = {} /\ <<>> \in [{} -> Entry]
  OBVIOUS
<1>2. Lists(<<>>, {}) /\ Len(<<>>) <= Capacity
  BY EmptyList, SegmentAssumption
<1>3. Filed(<<>>) = <<>>
  <2>1. DOMAIN Filed(<<>>) = {}
    BY <1>1 DEF Filed
  <2>2. QED
    BY <2>1 DEF Filed
<1>4. Sound(<<>>, <<>>, x)
  BY <1>1, <1>2, <1>3 DEF Sound
<1>5. QED
  BY <1>4 DEF SoundSegment

\* A new segment is sound.
LEMMA InitSound == Init => SegInv
<1> SUFFICES ASSUME Init PROVE SegInv
  OBVIOUS
<1>1. Agrees(segment.index, <<>>)
  <2> DEFINE x == segment.index
             none == <<>>
  <2>1. /\ DOMAIN x = {"buckets", "heap", "spare", "id", "items"}
        /\ x = [field \in DOMAIN x |-> x[field]]
        /\ x.buckets = <<>> /\ x.heap = {} /\ x.spare = <<>>
        /\ x.id = [b \in Buckets |-> 0] /\ x.items = [b \in Buckets |-> <<>>]
    BY DEF Init
  <2>2. /\ DOMAIN none = {} /\ none \in [DOMAIN none -> Nat]
        /\ DOMAIN x.buckets = {} /\ x.buckets \in [DOMAIN x.buckets -> Buckets]
    BY <2>1
  <2> HIDE DEF x, none
  <2>3. IndexShape(x)
    BY <2>1, <2>2 DEF IndexShape
  <2>4. PoolInv(x)
    <3>1. ToSet(x.spare) = {} /\ Lists(x.spare, {}) /\ Len(x.spare) = 0
      BY <2>1, EmptyList DEF Lists
    <3>2. QED
      BY <3>1, SegmentAssumption DEF PoolInv
  <2>5. \A b \in Buckets : Lists(x.items[b], {})
    BY <2>1, EmptyList
  <2>6. /\ DOMAIN x.buckets = {none[k] : k \in DOMAIN none}
        /\ x.heap = {x.buckets[i] : i \in DOMAIN x.buckets}
    BY <2>1, <2>2
  <2>7. \A b \in Buckets : Lists(x.items[b], IF b \in x.heap THEN Of(none, x.id[b]) ELSE {})
    BY <2>1, <2>5
  <2>8. Agrees(x, none)
    BY <2>2, <2>3, <2>4, <2>6, <2>7 DEF Agrees
  <2>9. QED
    BY <2>8 DEF x, none
<1>2. SoundSegment(segment)
  <2>1. segment = [entries |-> <<>>, lru |-> <<>>, index |-> segment.index]
    BY DEF Init
  <2>2. QED
    BY <1>1, <2>1, EmptySound
<1>3. Ordered(segment, since)
  BY DEF Init, Ordered, Resident
<1>4. clock \in 0..MaxClock /\ counted \in [inserted : Nat, expired : Nat, evicted : Nat, removed : Nat]
  BY SegmentAssumption DEF Init, Counts
<1>5. QED
  BY <1>2, <1>3, <1>4 DEF SegInv
-------------------------------------------------------------------------------
(***************************************************************************)
(* Each operation keeps the invariant and does what the action properties  *)
(* say.                                                                    *)
(***************************************************************************)
AllCounted ==
  Cardinality(DOMAIN entry') =
    Cardinality(DOMAIN entry) + counted'.inserted
      - counted'.expired - counted'.evicted - counted'.removed

OnlyExpiredGo ==
  counted'.evicted + counted'.removed = 0 =>
    \A k \in DOMAIN entry \ DOMAIN entry' : Expired(entry[k].deadline, clock)

OldestIsEvicted ==
  counted'.evicted = 1 =>
    \A k \in DOMAIN entry \ DOMAIN entry' : since[k] = DOMAIN entry \ {k}

Right == SegInv' /\ AllCounted /\ OnlyExpiredGo /\ OldestIsEvicted

\* The invariant in terms of the properties.
LEMMA Residents ==
  ASSUME SegInv
  PROVE  /\ DOMAIN entry = Resident(segment)
         /\ IsFiniteSet(DOMAIN entry) /\ Cardinality(DOMAIN entry) \in Nat
         /\ Cardinality(DOMAIN entry) <= Capacity /\ Capacity \in Nat \ {0}
         /\ clock \in Nat
<1>1. /\ IsFiniteSet(DOMAIN entry) /\ Cardinality(DOMAIN entry) = Len(segment.lru)
      /\ Len(segment.lru) \in Nat /\ Len(segment.lru) <= Capacity
  BY SoundFacts DEF SegInv, SoundSegment, Sound, entry
<1>2. QED
  BY <1>1, SegmentAssumption DEF SegInv, entry, Resident

\* One resident key goes.
LEMMA GoneRight ==
  ASSUME SegInv, NEW k \in Resident(segment), Becomes(Removed(segment, k)),
         NEW expired \in Nat, NEW removed \in Nat, expired + removed = 1,
         counted' = Counts(0, expired, 0, removed),
         removed = 0 => Expired(segment.entries[k].deadline, clock)
  PROVE  Right
<1> DEFINE r == Removed(segment, k)
<1>1. SoundSegment(r) /\ r.entries = Without(segment.entries, k)
  BY RemovedSound DEF SegInv
<1>2. r.lru = RemoveFirst(segment.lru, k)
  BY DEF Removed
<1>3. Becomes(r)
  OBVIOUS
<1> HIDE DEF r
<1>4. Keeps(r, segment) /\ Resident(r) = Resident(segment) \ {k}
  BY <1>1, <1>2, RemovedKeeps DEF SegInv
<1>5. /\ segment' = r /\ SoundSegment(segment') /\ Ordered(segment', since')
      /\ clock' \in 0..MaxClock
  BY <1>1, <1>3, <1>4, Becoming
<1>6. /\ counted' \in [inserted : Nat, expired : Nat, evicted : Nat, removed : Nat]
      /\ counted'.inserted = 0 /\ counted'.expired = expired
      /\ counted'.evicted = 0 /\ counted'.removed = removed
  BY DEF Counts
<1>7. SegInv'
  BY <1>5, <1>6 DEF SegInv
<1>8. DOMAIN entry' = DOMAIN entry \ {k} /\ k \in DOMAIN entry
  BY <1>4, <1>5, Residents DEF entry, Resident
<1>9. AllCounted
  <2>1. Cardinality(DOMAIN entry \ {k}) = Cardinality(DOMAIN entry) - 1
    BY <1>8, Residents, FS_RemoveElement
  <2>2. QED
    BY <1>6, <1>8, <2>1, Residents DEF AllCounted
<1>10. OnlyExpiredGo
  BY <1>6, <1>8 DEF OnlyExpiredGo, entry
<1>11. OldestIsEvicted
  BY <1>6 DEF OldestIsEvicted
<1>12. QED
  BY <1>7, <1>9, <1>10, <1>11 DEF Right

\* No key comes or goes.
LEMMA SameKeysRight ==
  ASSUME SegInv, SoundSegment(segment'), Ordered(segment', since'), clock' \in 0..MaxClock,
         Resident(segment') = Resident(segment), counted' = Counts(0, 0, 0, 0)
  PROVE  Right
<1>1. /\ counted' \in [inserted : Nat, expired : Nat, evicted : Nat, removed : Nat]
      /\ counted'.inserted = 0 /\ counted'.expired = 0
      /\ counted'.evicted = 0 /\ counted'.removed = 0
  BY DEF Counts
<1>2. SegInv'
  BY <1>1 DEF SegInv
<1>3. DOMAIN entry' = DOMAIN entry
  BY DEF entry, Resident
<1>4. AllCounted /\ OnlyExpiredGo /\ OldestIsEvicted
  BY <1>1, <1>3, Residents DEF AllCounted, OnlyExpiredGo, OldestIsEvicted
<1>5. QED
  BY <1>2, <1>4 DEF Right

\* A refresh keeps the resident keys.
LEMMA RefreshedKeys ==
  ASSUME NEW s, SoundSegment(s), NEW k \in Resident(s), NEW t \in Nat
  PROVE  Resident(Refreshed(s, k, t)) = Resident(s)
<1> DEFINE e == s.entries[k]
<1>1. Refreshed(s, k, t).entries =
        IF e.ttl = 0 THEN s.entries
        ELSE [s.entries EXCEPT ![k].deadline = Extended(e.deadline, t, e.ttl)]
  BY RefreshedSound
<1>2. QED
  BY <1>1 DEF Resident

\* refreshTTL of a live key
LEMMA RefreshRight ==
  ASSUME SegInv, NEW k \in Keys, NEW t \in 0..clock, RefreshTTL(k, t)
  PROVE  Right
<1> DEFINE r == Refreshed(segment, k, t)
<1>1. k \in Resident(segment) /\ Becomes(r) /\ counted' = Counts(0, 0, 0, 0)
  BY DEF RefreshTTL, LiveAt
<1>2. SoundSegment(segment) /\ t \in Nat
  BY DEF SegInv
<1>3. SoundSegment(r) /\ r.lru = segment.lru
  BY <1>1, <1>2, RefreshedSound
<1>4. Resident(r) = Resident(segment)
  BY <1>1, <1>2, RefreshedKeys
<1> HIDE DEF r
<1>5. Keeps(r, segment)
  BY <1>3, <1>4 DEF Keeps
<1>6. /\ segment' = r /\ SoundSegment(segment') /\ Ordered(segment', since')
      /\ clock' \in 0..MaxClock
  BY <1>1, <1>3, <1>5, Becoming
<1>7. QED
  BY <1>1, <1>4, <1>6, SameKeysRight

\* lookup, lookupEntry, getEntry, and getOrSet of a live key
LEMMA GetRight ==
  ASSUME SegInv, NEW k \in Keys, NEW t \in 0..clock, Get(k, t)
  PROVE  Right
<1> DEFINE r == Hit(segment, k, t)
<1>1. k \in Resident(segment) /\ BecomesUsing(r, k) /\ counted' = Counts(0, 0, 0, 0)
  BY DEF Get, LiveAt
<1>2. SoundSegment(segment) /\ t \in Nat
  BY DEF SegInv
<1>3. /\ SoundSegment(r) /\ r.lru = MovedToFront(segment.lru, k)
      /\ r.entries = IF Sliding THEN Refreshed(segment, k, t).entries ELSE segment.entries
  BY <1>1, <1>2, HitSound
<1>4. Resident(r) = Resident(segment)
  BY <1>1, <1>2, <1>3, RefreshedKeys DEF Resident
<1> HIDE DEF r
<1>5. Uses(r, segment, k)
  BY <1>1, <1>2, <1>3, <1>4, MovedUses
<1>6. /\ segment' = r /\ SoundSegment(segment') /\ Ordered(segment', since')
      /\ clock' \in 0..MaxClock
  BY <1>1, <1>3, <1>5, BecomingUsing
<1>7. QED
  BY <1>1, <1>4, <1>6, SameKeysRight

\* The keys of a segment after setLocked.
LEMMA StoredKeys ==
  ASSUME NEW s, SoundSegment(s), NEW k \in Keys,
         NEW v \in Values, NEW ttl \in TTLs, NEW deadline \in 0..MaxDuration
  PROVE  /\ (k \in Resident(s) \/ ~Full(s)) =>
              Resident(Stored(s, k, v, ttl, deadline)) = Resident(s) \union {k}
         /\ (k \notin Resident(s) /\ Full(s)) =>
              /\ Last(s.lru) \in Resident(s)
              /\ Resident(Stored(s, k, v, ttl, deadline)) =
                   (Resident(s) \ {Last(s.lru)}) \union {k}
<1> DEFINE r == Stored(s, k, v, ttl, deadline)
<1>1. PICK e \in Entry : /\ e.value = v /\ e.ttl = ttl /\ e.deadline = deadline
                         /\ StoresAs(r, s, k, e)
  BY StoredSound
<1> HIDE DEF r
<1>2. CASE k \in Resident(s)
  <2>1. r.entries = [s.entries EXCEPT ![k] = e]
    BY <1>1, <1>2 DEF StoresAs
  <2>2. Resident(r) = Resident(s) \union {k}
    BY <1>2, <2>1 DEF Resident
  <2>3. QED
    BY <1>2, <2>2 DEF r
<1>3. CASE k \notin Resident(s) /\ ~Full(s)
  <2>1. Insertion(s.entries, r.entries, k, e)
    BY <1>1, <1>3 DEF StoresAs
  <2>2. Resident(r) = Resident(s) \union {k}
    BY <2>1 DEF Resident, Insertion, With
  <2>3. QED
    BY <1>3, <2>2 DEF r
<1>4. CASE k \notin Resident(s) /\ Full(s)
  <2>1. Insertion(Without(s.entries, Last(s.lru)), r.entries, k, e) /\ Last(s.lru) \in Resident(s)
    BY <1>1, <1>4 DEF StoresAs
  <2>2. Resident(r) = (Resident(s) \ {Last(s.lru)}) \union {k}
    BY <2>1 DEF Resident, Insertion, With, Without, Restrict
  <2>3. QED
    BY <1>4, <2>1, <2>2 DEF r
<1>5. QED
  BY <1>2, <1>3, <1>4

\* set, and getOrSet of a missing key
LEMMA SetRight ==
  ASSUME SegInv, NEW k \in Keys, NEW v \in Values, NEW ttl \in TTLs, NEW t \in 0..clock,
         Set(k, v, ttl, t)
  PROVE  Right
<1> DEFINE deadline == DeadlineAfter(t, ttl)
           r == Stored(segment, k, v, ttl, deadline)
           oldest == Last(segment.lru)
<1>1. /\ BecomesUsing(r, k)
      /\ counted' = IF k \in Resident(segment) THEN Counts(0, 0, 0, 0)
                    ELSE Counts(1, 0, IF Full(segment) THEN 1 ELSE 0, 0)
  BY DEF Set
<1>2. SoundSegment(segment) /\ t \in Nat /\ ttl \in Nat
  BY SegmentAssumption DEF SegInv
<1>3. deadline \in 0..MaxDuration
  BY <1>2, DeadlineBounds, MaxDurationAssumption
<1> HIDE DEF deadline
<1>4. /\ SoundSegment(r)
      /\ (k \in Resident(segment) \/ ~Full(segment)) => Resident(r) = Resident(segment) \union {k}
      /\ (k \notin Resident(segment) /\ Full(segment)) =>
           oldest \in Resident(segment) /\ Resident(r) = (Resident(segment) \ {oldest}) \union {k}
  BY <1>2, <1>3, StoredSound, StoredKeys
<1>5. Uses(r, segment, k)
  BY <1>2, <1>3, StoredUses
<1> HIDE DEF r
<1>6. /\ segment' = r /\ SoundSegment(segment') /\ Ordered(segment', since')
      /\ clock' \in 0..MaxClock
  BY <1>1, <1>4, <1>5, BecomingUsing
<1>7. DOMAIN entry' = Resident(r) /\ DOMAIN entry = Resident(segment)
  BY <1>6 DEF entry, Resident
<1>8. CASE k \in Resident(segment)
  BY <1>1, <1>4, <1>6, <1>8, SameKeysRight
<1>9. CASE k \notin Resident(segment) /\ ~Full(segment)
  <2>1. /\ counted' \in [inserted : Nat, expired : Nat, evicted : Nat, removed : Nat]
        /\ counted'.inserted = 1 /\ counted'.expired = 0
        /\ counted'.evicted = 0 /\ counted'.removed = 0
    BY <1>1, <1>9 DEF Counts
  <2>2. Cardinality(Resident(segment) \union {k}) = Cardinality(Resident(segment)) + 1
    BY <1>7, <1>9, Residents, FS_AddElement
  <2>3. AllCounted
    BY <1>4, <1>7, <1>9, <2>1, <2>2, Residents DEF AllCounted
  <2>4. OnlyExpiredGo /\ OldestIsEvicted
    BY <1>4, <1>7, <1>9, <2>1 DEF OnlyExpiredGo, OldestIsEvicted
  <2>5. SegInv'
    BY <1>6, <2>1 DEF SegInv
  <2>6. QED
    BY <2>3, <2>4, <2>5 DEF Right
<1>10. CASE k \notin Resident(segment) /\ Full(segment)
  <2>1. /\ counted' \in [inserted : Nat, expired : Nat, evicted : Nat, removed : Nat]
        /\ counted'.inserted = 1 /\ counted'.expired = 0
        /\ counted'.evicted = 1 /\ counted'.removed = 0
    BY <1>1, <1>10 DEF Counts
  <2> DEFINE rest == Resident(segment) \ {oldest}
  <2>2. /\ Resident(r) = rest \union {k} /\ oldest \in Resident(segment) /\ k \notin rest
    BY <1>4, <1>10
  <2>3. IsFiniteSet(rest) /\ Cardinality(rest) = Cardinality(Resident(segment)) - 1
    BY <1>7, <2>2, Residents, FS_RemoveElement
  <2>4. Cardinality(rest \union {k}) = Cardinality(rest) + 1
    BY <2>2, <2>3, FS_AddElement
  <2>5. AllCounted
    BY <1>7, <2>1, <2>2, <2>3, <2>4, Residents DEF AllCounted
  <2>6. OnlyExpiredGo
    BY <2>1 DEF OnlyExpiredGo
  <2>7. DOMAIN entry \ DOMAIN entry' = {oldest}
    BY <1>7, <1>10, <2>2
  <2>8. since[oldest] = Resident(segment) \ {oldest}
    <3>1. since[oldest] = {j \in Resident(segment) : Before(segment.lru, j, oldest)}
      BY <2>2 DEF SegInv, Ordered
    <3>2. \A j \in Resident(segment) : Before(segment.lru, j, oldest) <=> j # oldest
      BY <1>2, <2>2, BeforeTheEnd DEF SoundSegment, Sound, Resident
    <3>3. QED
      BY <3>1, <3>2
  <2>9. OldestIsEvicted
    BY <1>7, <2>7, <2>8 DEF OldestIsEvicted
  <2>10. SegInv'
    BY <1>6, <2>1 DEF SegInv
  <2>11. QED
    BY <2>5, <2>6, <2>9, <2>10 DEF Right
<1>11. QED
  BY <1>8, <1>9, <1>10

\* getOrSet of an expired key
LEMMA GetOrSetMissRight ==
  ASSUME SegInv, NEW k \in Keys, NEW v \in Values, NEW ttl \in TTLs, NEW t \in 0..clock,
         GetOrSetMiss(k, v, ttl, t)
  PROVE  Right
<1> DEFINE deadline == DeadlineAfter(t, ttl)
           q == Removed(segment, k)
           r == Stored(q, k, v, ttl, deadline)
<1>1. /\ k \in Resident(segment) /\ BecomesUsing(r, k) /\ counted' = Counts(1, 1, 0, 0)
  BY DEF GetOrSetMiss, ExpiredAt
<1>2. SoundSegment(segment) /\ t \in Nat /\ ttl \in Nat
  BY SegmentAssumption DEF SegInv
<1>3. deadline \in 0..MaxDuration
  BY <1>2, DeadlineBounds, MaxDurationAssumption
<1> HIDE DEF deadline
<1>4. SoundSegment(q) /\ q.entries = Without(segment.entries, k)
  BY <1>1, <1>2, RemovedSound
<1>5. q.lru = RemoveFirst(segment.lru, k)
  BY DEF Removed
<1> HIDE DEF q
<1>6. Keeps(q, segment) /\ Resident(q) = Resident(segment) \ {k}
  BY <1>1, <1>2, <1>4, <1>5, RemovedKeeps
<1>7. ~Full(q)
  <2> DEFINE keys == Resident(segment)
  <2>1. /\ IsFiniteSet(keys) /\ Cardinality(keys) \in Nat /\ Cardinality(keys) <= Capacity
        /\ Capacity \in Nat /\ k \in keys
    BY <1>1, Residents
  <2> HIDE DEF keys
  <2>2. Cardinality(keys \ {k}) = Cardinality(keys) - 1
    BY <2>1, FS_RemoveElement
  <2>3. Resident(q) = keys \ {k}
    BY <1>6 DEF keys
  <2>4. QED
    BY <2>1, <2>2, <2>3 DEF Full
<1>8. SoundSegment(r) /\ Resident(r) = Resident(q) \union {k} /\ Uses(r, q, k)
  BY <1>3, <1>4, <1>7, StoredSound, StoredKeys, StoredUses
<1> HIDE DEF r
<1>9. Resident(r) = Resident(segment) /\ Uses(r, segment, k)
  BY <1>1, <1>6, <1>8, KeepsUses
<1>10. /\ segment' = r /\ SoundSegment(segment') /\ Ordered(segment', since')
       /\ clock' \in 0..MaxClock
  BY <1>1, <1>8, <1>9, BecomingUsing
<1>11. /\ counted' \in [inserted : Nat, expired : Nat, evicted : Nat, removed : Nat]
       /\ counted'.inserted = 1 /\ counted'.expired = 1
       /\ counted'.evicted = 0 /\ counted'.removed = 0
  BY <1>1 DEF Counts
<1>12. DOMAIN entry' = DOMAIN entry
  BY <1>9, <1>10 DEF entry, Resident
<1>13. AllCounted /\ OnlyExpiredGo /\ OldestIsEvicted
  BY <1>11, <1>12, Residents DEF AllCounted, OnlyExpiredGo, OldestIsEvicted
<1>14. SegInv'
  BY <1>10, <1>11 DEF SegInv
<1>15. QED
  BY <1>13, <1>14 DEF Right

\* deleteAll
LEMMA DeleteAllRight ==
  ASSUME SegInv, DeleteAll
  PROVE  Right
<1> DEFINE x == Reset(segment.index)
           r == [entries |-> <<>>, lru |-> <<>>, index |-> x]
           n == Cardinality(Resident(segment))
<1>1. Becomes(r) /\ counted' = Counts(0, 0, 0, n)
  BY DEF DeleteAll
<1>2. r.entries = <<>> /\ Resident(r) = {}
  BY DEF Resident
<1>3. Agrees(x, <<>>)
  <2> DEFINE ids == Filed(segment.entries)
             none == <<>>
  <2>1. Agrees(segment.index, ids)
    BY DEF SegInv, SoundSegment, Sound
  <2>2. none \in [{} -> Nat]
    OBVIOUS
  <2> HIDE DEF ids, none
  <2>3. Agrees(x, none)
    BY <2>1, <2>2, ResetAgrees
  <2>4. QED
    BY <2>3 DEF none
<1> HIDE DEF x
<1>4. SoundSegment(r)
  BY <1>3, EmptySound
<1> HIDE DEF r
<1>5. Keeps(r, segment)
  BY <1>2 DEF Keeps
<1>6. /\ segment' = r /\ SoundSegment(segment') /\ Ordered(segment', since')
      /\ clock' \in 0..MaxClock
  BY <1>1, <1>4, <1>5, Becoming
<1>7. n \in Nat /\ n = Cardinality(DOMAIN entry)
  BY Residents
<1> HIDE DEF n
<1>8. /\ counted' \in [inserted : Nat, expired : Nat, evicted : Nat, removed : Nat]
      /\ counted'.inserted = 0 /\ counted'.expired = 0
      /\ counted'.evicted = 0 /\ counted'.removed = n
  BY <1>1, <1>7 DEF Counts
<1>9. DOMAIN entry' = {}
  BY <1>2, <1>6 DEF entry, Resident
<1>10. AllCounted
  BY <1>7, <1>8, <1>9, FS_EmptySet DEF AllCounted
<1>11. OnlyExpiredGo
  <2>1. n = 0 => DOMAIN entry = {}
    BY <1>7, Residents, FS_EmptySet
  <2>2. QED
    BY <1>7, <1>8, <2>1 DEF OnlyExpiredGo
<1>12. OldestIsEvicted
  BY <1>8 DEF OldestIsEvicted
<1>13. SegInv'
  BY <1>6, <1>8 DEF SegInv
<1>14. QED
  BY <1>10, <1>11, <1>12, <1>13 DEF Right

\* cleanupExpired
LEMMA CleanupRight ==
  ASSUME SegInv, NEW t \in 0..clock, NEW limit \in Limits, CleanupExpired(t, limit)
  PROVE  Right
<1> DEFINE loop == Cleaned(segment, t, limit)
           r == loop.segment
           gone == loop.removed
           due == DueBucketID(t)
<1>1. Becomes(r) /\ counted' = Counts(0, gone, 0, 0)
  BY DEF CleanupExpired
<1>2. SoundSegment(segment) /\ t \in Nat /\ limit \in Nat /\ clock \in Nat
  BY SegmentAssumption DEF SegInv
<1>3. due \in Nat /\ due * Resolution <= t
  BY <1>2, DueBucketIDs
<1>4. /\ Reduced(r, segment, due) /\ gone \in Nat
      /\ Cardinality(Resident(r)) + gone = Cardinality(Resident(segment))
  BY <1>2, <1>3, CleanedReduces DEF ReducedLoop
<1> HIDE DEF r, due, gone, loop
<1>5. SoundSegment(r) /\ Keeps(r, segment) /\ Resident(r) \subseteq Resident(segment)
  BY <1>4 DEF Reduced, Keeps
<1>6. /\ segment' = r /\ SoundSegment(segment') /\ Ordered(segment', since')
      /\ clock' \in 0..MaxClock
  BY <1>1, <1>5, Becoming
<1>7. DOMAIN entry' = Resident(r) /\ DOMAIN entry = Resident(segment)
  BY <1>6 DEF entry, Resident
<1>8. gone \in Nat /\ Cardinality(Resident(r)) = Cardinality(Resident(segment)) - gone
  <2>1. Cardinality(Resident(r)) \in Nat
    BY <1>5, <1>7, Residents, FS_Subset, FS_CardinalityType
  <2>2. QED
    BY <1>4, <2>1
<1>9. /\ counted' \in [inserted : Nat, expired : Nat, evicted : Nat, removed : Nat]
      /\ counted'.inserted = 0 /\ counted'.expired = gone
      /\ counted'.evicted = 0 /\ counted'.removed = 0
  BY <1>1, <1>8 DEF Counts
<1>10. AllCounted
  BY <1>7, <1>8, <1>9, Residents DEF AllCounted
<1>11. ASSUME NEW k \in Resident(segment) \ Resident(r)
       PROVE  Expired(segment.entries[k].deadline, clock)
  <2> DEFINE deadline == segment.entries[k].deadline
             id == BucketID(deadline)
  <2>1. deadline # 0 /\ id <= due
    BY <1>4 DEF Reduced
  <2>2. deadline \in Nat
    BY <1>2, SoundFacts DEF SoundSegment, Resident
  <2> HIDE DEF deadline
  <2>3. id \in Nat /\ id * Resolution >= deadline
    BY <2>1, <2>2, BucketIDs
  <2> HIDE DEF id
  <2>4. Resolution \in Nat
    BY SegmentAssumption
  <2>5. id * Resolution <= due * Resolution
    BY <1>3, <2>1, <2>3, <2>4
  <2>6. id * Resolution \in Nat /\ due * Resolution \in Nat
    BY <1>3, <2>3, <2>4
  <2>7. deadline <= clock
    BY <1>2, <1>3, <2>2, <2>3, <2>5, <2>6
  <2>8. QED
    BY <2>1, <2>7 DEF Expired, deadline
<1>12. OnlyExpiredGo
  BY <1>7, <1>11 DEF OnlyExpiredGo, entry
<1>13. OldestIsEvicted
  BY <1>9 DEF OldestIsEvicted
<1>14. SegInv'
  BY <1>6, <1>9 DEF SegInv
<1>15. QED
  BY <1>10, <1>12, <1>13, <1>14 DEF Right

\* Every step.
LEMMA StepRight ==
  ASSUME SegInv, Next
  PROVE  Right
<1>1. ASSUME NEW t \in 0..clock, NEW k \in Keys, ObserveExpired(k, t) PROVE Right
  <2>1. /\ k \in Resident(segment) /\ Expired(segment.entries[k].deadline, t)
        /\ Becomes(Removed(segment, k)) /\ counted' = Counts(0, 1, 0, 0)
    BY <1>1 DEF ObserveExpired, ExpiredAt
  <2>2. Expired(segment.entries[k].deadline, clock)
    <3>1. segment.entries[k].deadline \in Nat
      BY <2>1, SoundFacts DEF SegInv, SoundSegment, Resident
    <3>2. QED
      BY <2>1, <3>1 DEF Expired, SegInv
  <2> DEFINE expired == 1
             removed == 0
  <2>3. expired \in Nat /\ removed \in Nat /\ expired + removed = 1
        /\ counted' = Counts(0, expired, 0, removed)
    BY <2>1
  <2> HIDE DEF expired, removed
  <2>4. QED
    BY <2>1, <2>2, <2>3, GoneRight
<1>2. ASSUME NEW k \in Keys, Delete(k) PROVE Right
  <2>1. /\ k \in Resident(segment)
        /\ Becomes(Removed(segment, k)) /\ counted' = Counts(0, 0, 0, 1)
    BY <1>2 DEF Delete
  <2> DEFINE expired == 0
             removed == 1
  <2>2. expired \in Nat /\ removed \in Nat /\ expired + removed = 1 /\ removed # 0
        /\ counted' = Counts(0, expired, 0, removed)
    BY <2>1
  <2> HIDE DEF expired, removed
  <2>3. QED
    BY <2>1, <2>2, GoneRight
<1>3. ASSUME Tick PROVE Right
  <2>1. /\ segment' = segment /\ since' = since /\ counted' = Counts(0, 0, 0, 0)
        /\ clock' \in 0..MaxClock
    BY <1>3, SegmentAssumption DEF Tick, SegInv
  <2>2. SoundSegment(segment') /\ Ordered(segment', since')
    BY <2>1 DEF SegInv
  <2>3. QED
    BY <2>1, <2>2, SameKeysRight
<1>4. QED
  BY <1>1, <1>2, <1>3, RefreshRight, GetRight, SetRight, GetOrSetMissRight, CleanupRight,
     DeleteAllRight DEF Next
-------------------------------------------------------------------------------
(***************************************************************************)
(* The theorems.                                                           *)
(***************************************************************************)
LEMMA InvNext == SegInv /\ [Next]_vars => SegInv'
<1>1. ASSUME SegInv, Next PROVE SegInv'
  BY <1>1, StepRight DEF Right
<1>2. ASSUME SegInv, UNCHANGED vars PROVE SegInv'
  BY <1>2 DEF SegInv, vars
<1>3. QED
  BY <1>1, <1>2

\* The segment is sound, and its list in the order of uses, in every reachable state.
LEMMA Invariance == Spec => []SegInv
BY InitSound, InvNext, PTL DEF Spec

\* What the index says in the words of the invariants.
LEMMA Indexed ==
  ASSUME SegInv
  PROVE  /\ Agrees(index, Filed(entry)) /\ Lists(segment.lru, DOMAIN entry)
         /\ Len(segment.lru) <= Capacity
         /\ \A k \in DOMAIN entry :
              /\ k \in Keys /\ entry[k] \in Entry /\ entry[k].deadline \in Nat
              /\ k \in DOMAIN Filed(entry) <=> entry[k].deadline # 0
              /\ entry[k].deadline # 0 => Filed(entry)[k] = BucketID(entry[k].deadline)
         /\ DOMAIN Filed(entry) \subseteq DOMAIN entry
<1>1. Sound(entry, segment.lru, index)
  BY DEF SegInv, SoundSegment, entry, index
<1>2. QED
  BY <1>1, SoundFacts DEF Sound

\* The values of every variable and field have the types TypeOK gives them, and the
\* pool of spare buckets stays within its limit.
THEOREM TypesHold == Spec => []TypeOK
<1>1. SegInv => TypeOK
  <2>1. SUFFICES ASSUME SegInv PROVE TypeOK
    OBVIOUS
  <2>2. Resident(segment) = DOMAIN entry
    BY DEF Resident, entry
  <2>3. /\ Resident(segment) \subseteq Keys
        /\ \A k \in Resident(segment) :
             entry[k] \in [value : Values, ttl : TTLs, deadline : 0..MaxDuration]
    BY <2>1, <2>2, Indexed DEF Entry
  <2>4. segment.lru \in Seq(Keys)
    <3>1. segment.lru \in Seq(DOMAIN entry) /\ DOMAIN entry \subseteq Keys
      BY <2>1, <2>2, <2>3, Indexed DEF Lists
    <3>2. QED
      BY <3>1, SeqMonotonic
  <2>5. Agrees(index, Filed(entry))
    BY <2>1, Indexed
  <2>6. /\ DOMAIN index.buckets \subseteq Nat
        /\ \A id \in DOMAIN index.buckets : index.buckets[id] \in Buckets
        /\ index.heap \subseteq Buckets /\ index.id \in [Buckets -> Nat]
    BY <2>5, ActiveBuckets DEF Agrees, IndexShape
  <2>7. index.spare \in Seq(Buckets) /\ Len(index.spare) <= MaxSpare
    <3>1. /\ index.spare \in Seq(ToSet(index.spare)) /\ ToSet(index.spare) \subseteq Buckets
          /\ Len(index.spare) <= MaxSpare
      BY <2>5 DEF Agrees, PoolInv, Lists
    <3>2. QED
      BY <3>1, SeqMonotonic
  <2>8. index.items \in [Buckets -> Seq(Keys)]
    <3>1. ASSUME NEW b \in Buckets PROVE index.items[b] \in Seq(Keys)
      <4> DEFINE S == IF b \in index.heap THEN Of(Filed(entry), index.id[b]) ELSE {}
      <4>1. Lists(index.items[b], S)
        BY <2>5 DEF Agrees
      <4>2. S \subseteq Keys
        BY <2>5 DEF Agrees, Of
      <4> HIDE DEF S
      <4>3. QED
        BY <4>1, <4>2, SeqMonotonic DEF Lists
    <3>2. index.items = [b \in Buckets |-> index.items[b]]
      BY <2>5 DEF Agrees, IndexShape
    <3>3. QED
      BY <3>1, <3>2
  <2>9. /\ clock \in 0..MaxClock /\ since \in [Keys -> SUBSET Keys]
        /\ \A n \in DOMAIN counted : counted[n] \in Nat
    BY <2>1 DEF SegInv, Ordered
  <2>10. QED
    BY <2>3, <2>4, <2>6, <2>7, <2>8, <2>9 DEF TypeOK
<1>2. QED
  BY <1>1, Invariance, PTL

\* The list that decides what is evicted holds every resident key once and no more
\* keys than the segment may hold, after any operations.
THEOREM ListMatches == Spec => []LruMatchesEntries
<1>1. SegInv => LruMatchesEntries
  BY Indexed DEF LruMatchesEntries, Lists, Resident, entry
<1>2. QED
  BY <1>1, Invariance, PTL

\* The map of buckets, the heap, the buckets and the pool agree with the deadlines of
\* the entries, so that an update or a removal finds what it looks for.
THEOREM IndexMatches == Spec => []IndexMatchesEntries
<1>1. SegInv => IndexMatchesEntries
  <2>1. SUFFICES ASSUME SegInv PROVE IndexMatchesEntries
    OBVIOUS
  <2> DEFINE ids == Filed(entry)
  <2>2. Resident(segment) = DOMAIN entry
    BY DEF Resident, entry
  <2>3. /\ Agrees(index, ids) /\ DOMAIN ids \subseteq Resident(segment)
        /\ \A k \in Resident(segment) :
             /\ k \in DOMAIN ids <=> entry[k].deadline # 0
             /\ entry[k].deadline # 0 => ids[k] = BucketID(entry[k].deadline)
    BY <2>1, <2>2, Indexed
  <2> HIDE DEF ids
  <2>4. \A k \in Resident(segment) :
          entry[k].deadline # 0 => BucketID(entry[k].deadline) \in DOMAIN index.buckets
    BY <2>3, ActiveBuckets
  <2>5. \A b \in Buckets : ToSet(index.items[b]) = IF b \in index.heap THEN Of(ids, index.id[b]) ELSE {}
    BY <2>3 DEF Agrees, Lists
  <2>6. ASSUME NEW k \in Resident(segment), NEW b \in Buckets
        PROVE  k \in ToSet(index.items[b]) <=>
                 /\ entry[k].deadline # 0
                 /\ BucketID(entry[k].deadline) \in DOMAIN index.buckets
                 /\ b = index.buckets[BucketID(entry[k].deadline)]
    <3>1. ASSUME k \in ToSet(index.items[b])
          PROVE  /\ entry[k].deadline # 0
                 /\ BucketID(entry[k].deadline) \in DOMAIN index.buckets
                 /\ b = index.buckets[BucketID(entry[k].deadline)]
      <4>1. b \in index.heap /\ k \in DOMAIN ids /\ ids[k] = index.id[b]
        BY <2>5, <3>1 DEF Of
      <4>2. QED
        BY <2>3, <4>1, ActiveBuckets
    <3>2. ASSUME entry[k].deadline # 0, b = index.buckets[BucketID(entry[k].deadline)]
          PROVE  k \in ToSet(index.items[b])
      <4>1. k \in DOMAIN ids /\ b = index.buckets[ids[k]]
        BY <2>3, <3>2
      <4>2. b \in index.heap /\ index.id[b] = ids[k]
        BY <2>3, <4>1, ActiveBuckets
      <4>3. k \in Of(ids, index.id[b])
        BY <4>1, <4>2 DEF Of
      <4>4. QED
        BY <2>5, <4>2, <4>3
    <3>3. QED
      BY <3>1, <3>2
  <2>7. ASSUME NEW b \in Buckets
        PROVE  /\ IsInjective(index.items[b])
               /\ ToSet(index.items[b]) \subseteq Resident(segment)
               /\ index.items[b] = <<>> <=> b \notin index.heap
    <3>1. IsInjective(index.items[b])
      BY <2>3 DEF Agrees, Lists
    <3>2. ToSet(index.items[b]) \subseteq Resident(segment)
      BY <2>3, <2>5 DEF Of
    <3>3. index.items[b] = <<>> <=> b \notin index.heap
      BY <2>3, ActiveBuckets
    <3>4. QED
      BY <3>1, <3>2, <3>3
  <2>8. /\ \A id \in DOMAIN index.buckets : index.id[index.buckets[id]] = id
        /\ index.heap = Range(index.buckets)
    BY <2>3 DEF Agrees, Range
  <2>9. IsInjective(index.spare) /\ ToSet(index.spare) \intersect index.heap = {}
    BY <2>3 DEF Agrees, PoolInv, Lists
  <2>10. QED
    BY <2>4, <2>6, <2>7, <2>8, <2>9 DEF IndexMatchesEntries
<1>2. QED
  BY <1>1, Invariance, PTL

\* When cleanup says that nothing is due, whatever is still there expired less than
\* one resolution interval ago: the rounding of a deadline to its bucket never hides
\* an entry for longer.
THEOREM NothingOverdue == Spec => []NothingOverdueRemains
<1>1. SegInv => NothingOverdueRemains
  <2>1. SUFFICES ASSUME SegInv, NEW t \in 0..clock,
                        ~HasDueBucket(index, DueBucketID(t)),
                        NEW k \in Resident(segment), entry[k].deadline # 0
                 PROVE  entry[k].deadline + Resolution > t
    BY DEF NothingOverdueRemains
  <2> DEFINE deadline == entry[k].deadline
             id == BucketID(deadline)
             due == DueBucketID(t)
             b == index.buckets[id]
  <2>2. /\ Agrees(index, Filed(entry)) /\ k \in DOMAIN Filed(entry) /\ deadline \in Nat
        /\ Filed(entry)[k] = id
    BY <2>1, Indexed DEF Resident, entry
  <2>3. b \in index.heap /\ index.id[b] = id
    BY <2>2, ActiveBuckets
  <2>4. t \in Nat /\ Resolution \in Nat
    BY <2>1, SegmentAssumption DEF SegInv
  <2>5. id \in Nat /\ (id - 1) * Resolution < deadline
    BY <2>1, <2>2, BucketIDs
  <2>6. due \in Nat /\ t < (due + 1) * Resolution
    BY <2>4, DueBucketIDs
  <2>7. ~(id <= due)
    BY <2>1, <2>3 DEF HasDueBucket
  <2> HIDE DEF deadline, id, due, b
  <2>8. due + 1 <= id
    BY <2>5, <2>6, <2>7
  <2>9. (due + 1) * Resolution <= id * Resolution
    BY <2>4, <2>5, <2>6, <2>8
  <2>10. id * Resolution = (id - 1) * Resolution + Resolution
    BY <2>4, <2>5
  <2>11. (id - 1) * Resolution \in Int /\ id * Resolution \in Int /\ (due + 1) * Resolution \in Int
    BY <2>4, <2>5, <2>6
  <2>12. deadline + Resolution > t
    BY <2>2, <2>4, <2>5, <2>6, <2>9, <2>10, <2>11
  <2>13. QED
    BY <2>12 DEF deadline
<1>2. QED
  BY <1>1, Invariance, PTL

\* Every entry that was inserted and is not resident was counted once, as expired,
\* evicted or removed.
THEOREM RemovalsCounted == Spec => EveryRemovalCounted
<1>1. SegInv /\ [Next]_vars => [AllCounted]_vars
  BY StepRight DEF Right
<1>2. QED
  BY <1>1, Invariance, PTL DEF Spec, EveryRemovalCounted, AllCounted

\* What goes without an eviction or a deletion had expired.
THEOREM ExpirationsReal == Spec => ExpirationsAreReal
<1>1. SegInv /\ [Next]_vars => [OnlyExpiredGo]_vars
  BY StepRight DEF Right
<1>2. QED
  BY <1>1, Invariance, PTL DEF Spec, ExpirationsAreReal, OnlyExpiredGo

\* The entry a full segment gives up is the one every other was used after.
THEOREM OldestEvicted == Spec => EvictsLeastRecentlyUsed
<1>1. SegInv /\ [Next]_vars => [OldestIsEvicted]_vars
  BY StepRight DEF Right
<1>2. QED
  BY <1>1, Invariance, PTL DEF Spec, EvictsLeastRecentlyUsed, OldestIsEvicted
-------------------------------------------------------------------------------
(***************************************************************************)
(* The segment implements BoundedStore.                                    *)
(***************************************************************************)
\* The operators the two specifications share.
LEMMA StoreOperators ==
  /\ \A S : Store!Cardinality(S) = Cardinality(S)
  /\ \A f, S : Store!Restrict(f, S) = Restrict(f, S)
<1>1. ASSUME NEW S PROVE Store!Cardinality(S) = Cardinality(S)
  BY DEF Store!Cardinality, Cardinality
<1>2. ASSUME NEW f, NEW S PROVE Store!Restrict(f, S) = Restrict(f, S)
  BY DEF Store!Restrict, Restrict
<1>3. QED
  BY <1>1, <1>2

\* To lose entries is a step of a bounded store.
LEMMA StoreRemoves ==
  ASSUME DOMAIN entry \subseteq Keys, DOMAIN entry' \subseteq DOMAIN entry,
         entry' = Restrict(entry, DOMAIN entry'), clock' = clock
  PROVE  Store!Next
<1> DEFINE ks == DOMAIN entry \ DOMAIN entry'
<1>1. ks \in SUBSET Keys /\ DOMAIN entry \ ks = DOMAIN entry'
  OBVIOUS
<1> HIDE DEF ks
<1>2. Store!Remove(ks)
  BY <1>1 DEF Store!Remove, Store!Without, Store!Restrict, Restrict
<1>3. QED
  BY <1>1, <1>2 DEF Store!Next

\* So is to read an entry that is live, with its deadline extended or not.
LEMMA StoreTouches ==
  ASSUME NEW k \in Keys, k \in DOMAIN entry, NEW t \in 0..clock, entry[k] \in Entry,
         entry = [j \in DOMAIN entry |-> entry[j]],
         ~Expired(entry[k].deadline, t),
         \/ entry' = entry
         \/ entry' = [entry EXCEPT ![k].deadline = Extended(entry[k].deadline, t, entry[k].ttl)],
         clock' = clock
  PROVE  [Store!Next]_(Store!vars)
<1> DEFINE renewed == DeadlineAfter(t, entry[k].ttl)
           old == entry[k].deadline
<1>1. CASE entry' = entry
  BY <1>1 DEF Store!vars
<1>2. CASE entry' = [entry EXCEPT ![k].deadline = Extended(old, t, entry[k].ttl)]
  <2>1. CASE renewed > old
    <3>1. entry' = [entry EXCEPT ![k].deadline = renewed]
      BY <1>2, <2>1 DEF Extended
    <3>2. ~Store!Expired(entry[k].deadline, t) /\ renewed = Store!DeadlineAfter(t, entry[k].ttl)
      BY DEF Store!Expired, Expired, Store!DeadlineAfter, DeadlineAfter
    <3> HIDE DEF renewed
    <3>3. Store!Touch(k)
      BY <2>1, <3>1, <3>2 DEF Store!Touch
    <3>4. QED
      BY <3>3 DEF Store!Next
  <2>2. CASE ~(renewed > old)
    <3>1. entry' = [entry EXCEPT ![k].deadline = old]
      BY <1>2, <2>2 DEF Extended
    <3>2. [entry[k] EXCEPT !.deadline = old] = entry[k]
      BY DEF Entry
    <3>3. entry' = entry
      BY <3>1, <3>2
    <3>4. QED
      BY <3>3 DEF Store!vars
  <2>3. QED
    BY <2>1, <2>2
<1>3. QED
  BY <1>1, <1>2

\* The entry under k is new, the keys in gone go, and nothing else changes.
LEMMA StorePuts ==
  ASSUME SegInv, NEW k \in Keys, NEW t \in 0..clock, k \in DOMAIN entry',
         entry'[k].deadline = DeadlineAfter(t, entry'[k].ttl),
         k \in DOMAIN entry => entry'[k].value # entry[k].value,
         NEW gone \in SUBSET (DOMAIN entry \ {k}),
         Cardinality(gone) = IF k \notin DOMAIN entry /\ Full(segment) THEN 1 ELSE 0,
         DOMAIN entry' = (DOMAIN entry \ gone) \union {k},
         \A j \in DOMAIN entry' \ {k} : entry'[j] = entry[j],
         clock' = clock
  PROVE  Store!Next
<1>1. DOMAIN entry \subseteq Keys /\ Resident(segment) = DOMAIN entry
  BY Indexed DEF Resident, entry
<1>2. Store!InSegmentOf(k) = DOMAIN entry
  BY <1>1 DEF Store!InSegmentOf
<1>3. Store!Full(k) <=> Full(segment)
  BY <1>1, <1>2, StoreOperators DEF Store!Full, Full
<1>4. Store!Fresh(k)
  <2>1. Store!DeadlineAfter(t, entry'[k].ttl) = DeadlineAfter(t, entry'[k].ttl)
    BY DEF Store!DeadlineAfter, DeadlineAfter
  <2>2. QED
    BY <2>1 DEF Store!Fresh
<1>5. Store!Restrict(entry', DOMAIN entry' \ {k}) = Store!Without(gone \union {k})
  <2>1. DOMAIN entry' \ {k} = DOMAIN entry \ (gone \union {k})
    OBVIOUS
  <2>2. QED
    BY <2>1 DEF Store!Restrict, Store!Without
<1>6. Store!Put(k)
  <2>1. Store!Cardinality(gone) = IF k \notin DOMAIN entry /\ Store!Full(k) THEN 1 ELSE 0
    BY <1>3, StoreOperators
  <2>2. gone \in SUBSET (Store!InSegmentOf(k) \ {k})
    BY <1>2
  <2>3. QED
    BY <1>4, <1>5, <2>1, <2>2 DEF Store!Put
<1>7. QED
  BY <1>6 DEF Store!Next

\* Reads and refreshes.
LEMMA TouchImplemented ==
  ASSUME SegInv, NEW k \in Keys, NEW t \in 0..clock, LiveAt(segment, k, t),
         \/ segment'.entries = segment.entries
         \/ segment'.entries = Refreshed(segment, k, t).entries,
         clock' = clock
  PROVE  [Store!Next]_(Store!vars)
<1> DEFINE e == segment.entries[k]
<1>1. k \in DOMAIN entry /\ ~Expired(entry[k].deadline, t) /\ k \in Resident(segment)
  BY DEF LiveAt, Resident, entry
<1>2. /\ SoundSegment(segment) /\ t \in Nat
      /\ entry[k] \in Entry /\ entry = [j \in DOMAIN entry |-> entry[j]]
  <2>1. SoundSegment(segment) /\ t \in Nat /\ entry[k] \in Entry
    BY <1>1, Indexed DEF SegInv
  <2>2. entry \in [DOMAIN entry -> Entry]
    BY <2>1 DEF SoundSegment, Sound, entry
  <2>3. QED
    BY <2>1, <2>2
<1>3. Refreshed(segment, k, t).entries =
        IF e.ttl = 0 THEN segment.entries
        ELSE [segment.entries EXCEPT ![k].deadline = Extended(e.deadline, t, e.ttl)]
  BY <1>1, <1>2, RefreshedSound
<1>4. \/ entry' = entry
      \/ entry' = [entry EXCEPT ![k].deadline = Extended(entry[k].deadline, t, entry[k].ttl)]
  BY <1>3 DEF entry
<1>5. QED
  BY <1>1, <1>2, <1>4, StoreTouches

\* set is a Put, and evicts only in a full segment.
LEMMA SetImplemented ==
  ASSUME SegInv, NEW k \in Keys, NEW v \in Values, NEW ttl \in TTLs, NEW t \in 0..clock,
         Set(k, v, ttl, t)
  PROVE  Store!Next
<1> DEFINE deadline == DeadlineAfter(t, ttl)
           r == Stored(segment, k, v, ttl, deadline)
           oldest == Last(segment.lru)
<1>1. segment' = r /\ clock' = clock /\ NewWrite(k, v)
  BY DEF Set, BecomesUsing
<1>2. SoundSegment(segment) /\ t \in Nat /\ ttl \in Nat
  BY SegmentAssumption DEF SegInv
<1>3. deadline \in 0..MaxDuration
  BY <1>2, DeadlineBounds, MaxDurationAssumption
<1> HIDE DEF deadline
<1>4. PICK e \in Entry : /\ e.value = v /\ e.ttl = ttl /\ e.deadline = deadline
                         /\ StoresAs(r, segment, k, e)
  BY <1>2, <1>3, StoredSound
<1> HIDE DEF r
<1> DEFINE gone == IF k \notin Resident(segment) /\ Full(segment) THEN {oldest} ELSE {}
<1>5. /\ k \in DOMAIN entry' /\ entry'[k] = e
      /\ gone \in SUBSET (DOMAIN entry \ {k})
      /\ DOMAIN entry' = (DOMAIN entry \ gone) \union {k}
      /\ \A j \in DOMAIN entry' \ {k} : entry'[j] = entry[j]
  <2>1. CASE k \in Resident(segment)
    BY <1>1, <1>4, <2>1 DEF entry, Resident, StoresAs
  <2>2. CASE k \notin Resident(segment) /\ ~Full(segment)
    BY <1>1, <1>4, <2>2 DEF entry, Resident, StoresAs, Insertion, With
  <2>3. CASE k \notin Resident(segment) /\ Full(segment)
    BY <1>1, <1>4, <2>3
      DEF entry, Resident, StoresAs, Insertion, With, Without, Restrict
  <2>4. QED
    BY <2>1, <2>2, <2>3
<1>6. Cardinality(gone) = IF k \notin DOMAIN entry /\ Full(segment) THEN 1 ELSE 0
  BY FS_EmptySet, FS_Singleton DEF Resident, entry
<1>7. entry'[k].deadline = DeadlineAfter(t, entry'[k].ttl)
  BY <1>4, <1>5 DEF deadline
<1>8. k \in DOMAIN entry => entry'[k].value # entry[k].value
  BY <1>1, <1>4, <1>5 DEF NewWrite, Resident, entry
<1> HIDE DEF gone
<1>9. QED
  BY <1>1, <1>5, <1>6, <1>7, <1>8, StorePuts

\* So is getOrSet of an expired key, whose old entry makes room.
LEMMA GetOrSetMissImplemented ==
  ASSUME SegInv, NEW k \in Keys, NEW v \in Values, NEW ttl \in TTLs, NEW t \in 0..clock,
         GetOrSetMiss(k, v, ttl, t)
  PROVE  Store!Next
<1> DEFINE deadline == DeadlineAfter(t, ttl)
           q == Removed(segment, k)
           r == Stored(q, k, v, ttl, deadline)
<1>1. segment' = r /\ clock' = clock /\ NewWrite(k, v) /\ k \in Resident(segment)
  BY DEF GetOrSetMiss, BecomesUsing, ExpiredAt
<1>2. SoundSegment(segment) /\ t \in Nat /\ ttl \in Nat
  BY SegmentAssumption DEF SegInv
<1>3. deadline \in 0..MaxDuration
  BY <1>2, DeadlineBounds, MaxDurationAssumption
<1> HIDE DEF deadline
<1>4. SoundSegment(q) /\ q.entries = Without(segment.entries, k)
  BY <1>1, <1>2, RemovedSound
<1> HIDE DEF q
<1> DEFINE keys == Resident(segment)
<1>5. Resident(q) = keys \ {k}
  BY <1>4 DEF Resident, Without, Restrict
<1>6. ~Full(q)
  <2>1. /\ IsFiniteSet(keys) /\ Cardinality(keys) \in Nat /\ Cardinality(keys) <= Capacity
        /\ Capacity \in Nat /\ k \in keys
    BY <1>1, Residents
  <2> HIDE DEF keys
  <2>2. Cardinality(keys \ {k}) = Cardinality(keys) - 1
    BY <2>1, FS_RemoveElement
  <2>3. QED
    BY <1>5, <2>1, <2>2 DEF Full
<1>7. PICK e \in Entry : /\ e.value = v /\ e.ttl = ttl /\ e.deadline = deadline
                         /\ StoresAs(r, q, k, e)
  BY <1>3, <1>4, StoredSound
<1>8. Insertion(q.entries, r.entries, k, e)
  BY <1>5, <1>6, <1>7 DEF StoresAs
<1> HIDE DEF r
<1> DEFINE gone == {}
<1>9. /\ k \in DOMAIN entry' /\ entry'[k] = e
      /\ gone \in SUBSET (DOMAIN entry \ {k})
      /\ DOMAIN entry' = (DOMAIN entry \ gone) \union {k}
      /\ \A j \in DOMAIN entry' \ {k} : entry'[j] = entry[j]
  <2>1. r.entries = With(Without(segment.entries, k), k, e)
    BY <1>4, <1>8 DEF Insertion
  <2>2. QED
    BY <1>1, <2>1 DEF entry, Resident, With, Without, Restrict
<1>10. Cardinality(gone) = IF k \notin DOMAIN entry /\ Full(segment) THEN 1 ELSE 0
  BY <1>1, FS_EmptySet DEF Resident, entry
<1>11. entry'[k].deadline = DeadlineAfter(t, entry'[k].ttl)
  BY <1>7, <1>9 DEF deadline
<1>12. k \in DOMAIN entry => entry'[k].value # entry[k].value
  BY <1>1, <1>7, <1>9 DEF NewWrite, Resident, entry
<1> HIDE DEF gone
<1>13. QED
  BY <1>1, <1>9, <1>10, <1>11, <1>12, StorePuts

\* Whatever removes entries and changes no other implements a removal.
LEMMA RemovalImplemented ==
  ASSUME SegInv, NEW r, r.entries = Restrict(segment.entries, Resident(r)),
         Resident(r) \subseteq Resident(segment), Becomes(r)
  PROVE  Store!Next
<1>1. segment' = r /\ clock' = clock
  BY DEF Becomes
<1>2. DOMAIN entry' = Resident(r) /\ DOMAIN entry = Resident(segment)
  BY <1>1 DEF entry, Resident
<1>3. entry' = Restrict(entry, DOMAIN entry')
  BY <1>1, <1>2 DEF entry
<1>4. DOMAIN entry \subseteq Keys
  BY Indexed
<1>5. QED
  BY <1>1, <1>2, <1>3, <1>4, StoreRemoves

\* Every step of a segment is one of a bounded store, or none.
LEMMA StepImplemented ==
  ASSUME SegInv, [Next]_vars
  PROVE  [Store!Next]_(Store!vars)
<1>1. SoundSegment(segment) /\ clock \in Nat
  BY SegmentAssumption DEF SegInv
<1>2. ASSUME NEW k \in Resident(segment), Becomes(Removed(segment, k)) PROVE Store!Next
  <2> DEFINE r == Removed(segment, k)
  <2>1. r.entries = Without(segment.entries, k)
    BY <1>1, RemovedSound
  <2>2. Becomes(r)
    BY <1>2
  <2> HIDE DEF r
  <2>3. Resident(r) = Resident(segment) \ {k} /\ r.entries = Restrict(segment.entries, Resident(r))
    BY <2>1 DEF Resident, Without, Restrict
  <2>4. QED
    BY <2>2, <2>3, RemovalImplemented
<1>3. ASSUME NEW t \in 0..clock, NEW k \in Keys, ObserveExpired(k, t) PROVE Store!Next
  BY <1>2, <1>3 DEF ObserveExpired, ExpiredAt
<1>4. ASSUME NEW k \in Keys, Delete(k) PROVE Store!Next
  BY <1>2, <1>4 DEF Delete
<1>5. ASSUME NEW t \in 0..clock, NEW k \in Keys, RefreshTTL(k, t)
      PROVE  [Store!Next]_(Store!vars)
  BY <1>5, TouchImplemented DEF RefreshTTL, Becomes
<1>6. ASSUME NEW t \in 0..clock, NEW k \in Keys, Get(k, t)
      PROVE  [Store!Next]_(Store!vars)
  <2> DEFINE r == Hit(segment, k, t)
  <2>1. LiveAt(segment, k, t) /\ segment' = r /\ clock' = clock /\ k \in Resident(segment)
    BY <1>6 DEF Get, BecomesUsing, LiveAt
  <2>2. r.entries = IF Sliding THEN Refreshed(segment, k, t).entries ELSE segment.entries
    BY <1>1, <2>1, HitSound
  <2> HIDE DEF r
  <2>3. QED
    BY <2>1, <2>2, TouchImplemented
<1>7. ASSUME DeleteAll PROVE Store!Next
  <2> DEFINE r == [entries |-> <<>>, lru |-> <<>>, index |-> Reset(segment.index)]
  <2>1. Becomes(r) /\ r.entries = <<>> /\ Resident(r) = {}
    BY <1>7 DEF DeleteAll, Resident
  <2> HIDE DEF r
  <2>2. r.entries = Restrict(segment.entries, Resident(r))
    BY <2>1 DEF Restrict
  <2>3. QED
    BY <2>1, <2>2, RemovalImplemented
<1>8. ASSUME NEW t \in 0..clock, NEW limit \in Limits, CleanupExpired(t, limit) PROVE Store!Next
  <2> DEFINE r == Cleaned(segment, t, limit).segment
             due == DueBucketID(t)
  <2>1. limit \in Nat /\ due \in Nat
    BY <1>1, SegmentAssumption, DueBucketIDs
  <2>2. Becomes(r) /\ Reduced(r, segment, due)
    BY <1>1, <1>8, <2>1, CleanedReduces DEF CleanupExpired, ReducedLoop
  <2> HIDE DEF r
  <2>3. QED
    BY <2>2, RemovalImplemented DEF Reduced, Keeps
<1>9. ASSUME Tick PROVE Store!Next
  BY <1>9 DEF Tick, Store!Next, entry
<1>10. ASSUME UNCHANGED vars PROVE UNCHANGED Store!vars
  BY <1>10 DEF vars, Store!vars, entry
<1>11. ASSUME Next PROVE [Store!Next]_(Store!vars)
  BY <1>3, <1>4, <1>5, <1>6, <1>7, <1>8, <1>9, <1>11, SetImplemented, GetOrSetMissImplemented
     DEF Next
<1>12. QED
  BY <1>10, <1>11

\* The segment, with its list, its index and its pool, is a bounded store: only a new
\* key in a full segment evicts, and one entry; a read at a time that is already past
\* never shortens a deadline; what is removed stays removed until it is stored again.
THEOREM StoreImplemented == Spec => ImplementsStore
<1>1. Init => Store!Init
  <2>1. SUFFICES ASSUME Init PROVE Store!Init
    OBVIOUS
  <2>2. entry = <<>> /\ clock = 0
    BY <2>1 DEF Init, entry
  <2>3. Store!Restrict([k \in Keys |-> 0], {}) = <<>>
    BY DEF Store!Restrict
  <2>4. QED
    BY <2>2, <2>3 DEF Store!Init
<1>2. SegInv /\ [Next]_vars => [Store!Next]_(Store!vars)
  BY StepImplemented
<1>3. QED
  BY <1>1, <1>2, Invariance, PTL DEF Spec, ImplementsStore, Store!Spec
===============================================================================
