-------------------------------- MODULE Segment --------------------------------
(***************************************************************************)
(* One storage segment: the entries, the list that orders them by recency, *)
(* and the expiration index (segment.go, expiration.go).                   *)
(*                                                                         *)
(* The index groups the entries that expire by the first multiple of its   *)
(* resolution at or after their deadline.  A bucket is an object: the map  *)
(* finds it by its id, the heap by the least id, and an emptied one goes   *)
(* back to a small pool, to be used for another id.  The heap is           *)
(* container/heap, taken as the set of its elements.                       *)
(*                                                                         *)
(* The segment's mutex makes every operation one step.  Its caller read    *)
(* the clock before it waited for the mutex, so the time an operation uses *)
(* is any moment of the past.  A value is the name of a write.             *)
(***************************************************************************)
EXTENDS Deadlines, FiniteSets, SequencesExt

CONSTANTS
  Keys,
  Values,      \* names of writes; a write is told apart from the one before it
  TTLs,        \* effective TTLs, 0 for none
  Capacity,    \* storageSegment.maxEntries
  Sliding,     \* storageSegment.slidingExpiration
  Resolution,  \* expirationIndex.resolutionNanos
  MaxSpare,    \* maxSpareExpirationBuckets
  Buckets,     \* the bucket objects
  Limits,      \* the limits cleanupExpired may be called with
  MaxClock     \* bound: the time at which the model's clock stops

ASSUME SegmentAssumption ==
  /\ TTLs \subseteq Nat
  /\ Capacity \in Nat \ {0}
  /\ Sliding \in BOOLEAN
  /\ Resolution \in Nat \ {0}
  /\ MaxSpare \in Nat
  /\ IsFiniteSet(Buckets) /\ Cardinality(Buckets) > Capacity + MaxSpare
  /\ Limits \subseteq Nat
  /\ MaxClock \in 0..MaxDuration

VARIABLES
  segment,  \* the storageSegment: its entries, lru list and expiration index
  clock,
  counted,  \* the entries the last operation inserted, and those it counted as gone
  since     \* the resident keys used since a key was last used

vars == <<segment, clock, counted, since>>
-------------------------------------------------------------------------------
(***************************************************************************)
(* The expiration index.                                                   *)
(***************************************************************************)
\* A map in which x has the value v, and one without x.
With(f, x, v) == [y \in DOMAIN f \union {x} |-> IF y = x THEN v ELSE f[y]]
Without(f, x) == Restrict(f, DOMAIN f \ {x})

BucketID(deadline) ==
  IF deadline <= 0 THEN 0
  ELSE deadline \div Resolution + (IF deadline % Resolution # 0 THEN 1 ELSE 0)

\* Faulty variants of DueBucketID: the clock is rounded up; a bucket is due one
\* interval late.
DueBucketIDRoundedUp(now) == BucketID(now)
DueBucketIDLate(now) == now \div Resolution - 1

DueBucketID(now) == now \div Resolution

HasDueBucket(index, due) == \E b \in index.heap : index.id[b] <= due

AcquiredBucket(index) ==
  IF index.spare # <<>> THEN Last(index.spare)
  ELSE CHOOSE b \in Buckets : b \notin index.heap

\* Faulty variant of Released: the pool has no limit.
ReleasedToAnyPool(index, b) ==
  [index EXCEPT !.id[b] = 0, !.items[b] = <<>>, !.spare = Append(@, b)]

Released(index, b) ==
  [index EXCEPT !.id[b] = 0, !.items[b] = <<>>,
                !.spare = IF Len(@) < MaxSpare THEN Append(@, b) ELSE @]

Deactivated(index, b) ==
  [index EXCEPT !.buckets = Without(@, index.id[b]),
                !.heap = @ \ {b}]

WithoutEmpty(index, b) ==
  IF index.items[b] = <<>> THEN Released(Deactivated(index, b), b) ELSE index

Activated(index, id) ==
  LET b == AcquiredBucket(index)
  IN  [index EXCEPT !.buckets = With(@, id, b), !.heap = @ \union {b},
                    !.id[b] = id,
                    !.spare = IF @ = <<>> THEN @ ELSE Front(@)]

Added(index, k, deadline) ==
  LET id == BucketID(deadline)
      active == IF id \in DOMAIN index.buckets THEN index ELSE Activated(index, id)
  IN  IF deadline = 0 THEN index
      ELSE [active EXCEPT !.items[active.buckets[id]] = Append(@, k)]

Unindexed(index, k, deadline) ==
  LET b == index.buckets[BucketID(deadline)]
  IN  IF deadline = 0 THEN index
      ELSE WithoutEmpty([index EXCEPT !.items[b] = RemoveFirst(@, k)], b)

\* Faulty variant of Rekeyed: the bucket keeps its old id.
RekeyedInMapOnly(index, from, to) ==
  [index EXCEPT !.buckets = With(Without(@, from), to, @[from])]

\* A bucket that has one entry follows it to a boundary that has no bucket.
Rekeyed(index, from, to) ==
  [index EXCEPT !.buckets = With(Without(@, from), to, @[from]),
                !.id[index.buckets[from]] = to]

\* expirationIndex.update
Redated(index, k, old, new) ==
  LET from == BucketID(old)
      to == BucketID(new)
      follows == /\ to \notin DOMAIN index.buckets
                 /\ index.items[index.buckets[from]] = <<k>>
  IN  IF old # 0 /\ new # 0 /\ from = to THEN index
      ELSE IF old # 0 /\ new # 0 /\ follows THEN Rekeyed(index, from, to)
      ELSE Added(Unindexed(index, k, old), k, new)

\* expirationIndex.reset: every active bucket is released, and the pool takes as many
\* as it has room for.  The order in which the heap is walked is left open.
Reset(index) ==
  LET active == SetToSeq(index.heap)
      kept == SubSeq(active, 1, AtMost(MaxSpare - Len(index.spare), Len(active)))
  IN  [buckets |-> <<>>, heap |-> {}, spare |-> index.spare \o kept,
       id |-> [b \in Buckets |-> IF b \in index.heap THEN 0 ELSE index.id[b]],
       items |-> [b \in Buckets |-> IF b \in index.heap THEN <<>> ELSE index.items[b]]]

Root(index) == CHOOSE b \in index.heap : \A d \in index.heap : index.id[b] <= index.id[d]
-------------------------------------------------------------------------------
(***************************************************************************)
(* The segment.                                                            *)
(***************************************************************************)
Resident(s) == DOMAIN s.entries

LiveAt(s, k, t) == k \in Resident(s) /\ ~Expired(s.entries[k].deadline, t)

ExpiredAt(s, k, t) == k \in Resident(s) /\ Expired(s.entries[k].deadline, t)

MovedToFront(lru, k) == <<k>> \o RemoveFirst(lru, k)

\* removeLocked
Removed(s, k) ==
  [entries |-> Without(s.entries, k),
   lru |-> RemoveFirst(s.lru, k),
   index |-> Unindexed(s.index, k, s.entries[k].deadline)]

WithDeadline(s, k, deadline) ==
  [s EXCEPT !.entries[k].deadline = deadline,
            !.index = Redated(@, k, s.entries[k].deadline, deadline)]

Refreshed(s, k, t) ==
  LET e == s.entries[k]
  IN  IF e.ttl = 0 THEN s ELSE WithDeadline(s, k, Extended(e.deadline, t, e.ttl))

\* Faulty variant of Hit: a read leaves the list alone.
HitInPlace(s, k, t) == IF Sliding THEN Refreshed(s, k, t) ELSE s

\* getLocked and getEntryLocked of a live entry
Hit(s, k, t) ==
  [(IF Sliding THEN Refreshed(s, k, t) ELSE s) EXCEPT !.lru = MovedToFront(@, k)]

\* The key is not resident and there is room.
Inserted(s, k, v, ttl, deadline) ==
  [entries |-> With(s.entries, k, [value |-> v, ttl |-> ttl, deadline |-> deadline]),
   lru |-> <<k>> \o s.lru,
   index |-> Added(s.index, k, deadline)]

Overwritten(s, k, v, ttl, deadline) ==
  [WithDeadline(s, k, deadline) EXCEPT !.entries[k].value = v, !.entries[k].ttl = ttl,
                                       !.lru = MovedToFront(@, k)]

Full(s) == Cardinality(Resident(s)) >= Capacity

\* Faulty variant of MadeRoom: the victim's place in the list is not given up.
MadeRoomInMapOnly(s) == [Removed(s, Last(s.lru)) EXCEPT !.lru = s.lru]

\* The last entry of the list makes room for a new key.
MadeRoom(s) == Removed(s, Last(s.lru))

\* setLocked
Stored(s, k, v, ttl, deadline) ==
  IF k \in Resident(s) THEN Overwritten(s, k, v, ttl, deadline)
  ELSE Inserted(IF Full(s) THEN MadeRoom(s) ELSE s, k, v, ttl, deadline)

\* Faulty variant of Popped: the entry taken is the bucket's first, the place given up
\* its last.
PoppedFromTheFront(s) ==
  LET b == Root(s.index)
      k == Head(s.index.items[b])
  IN  [entries |-> Without(s.entries, k),
       lru |-> RemoveFirst(s.lru, k),
       index |-> WithoutEmpty([s.index EXCEPT !.items[b] = Front(@)], b)]

\* The last entry of the bucket of least id goes.
Popped(s) ==
  LET b == Root(s.index)
      k == Last(s.index.items[b])
  IN  [entries |-> Without(s.entries, k),
       lru |-> RemoveFirst(s.lru, k),
       index |-> WithoutEmpty([s.index EXCEPT !.items[b] = Front(@)], b)]

\* One turn of the loop of cleanupExpired, with its variable removed.  A turn counts
\* what it takes out of the index, whether or not the entry was still there.
Turn(loop, due, limit) ==
  IF loop.removed < limit /\ HasDueBucket(loop.segment.index, due)
  THEN [segment |-> Popped(loop.segment), removed |-> loop.removed + 1]
  ELSE loop

\* The loop after its last turn: it has no more of them than limit.
Cleaned(s, now, limit) ==
  LET after[n \in 0..limit] ==
        IF n = 0 THEN [segment |-> s, removed |-> 0]
        ELSE Turn(after[n - 1], DueBucketID(now), limit)
  IN  after[limit]
-------------------------------------------------------------------------------
(***************************************************************************)
(* The operations.                                                         *)
(***************************************************************************)
Counts(inserted, expired, evicted, removed) ==
  [inserted |-> inserted, expired |-> expired, evicted |-> evicted, removed |-> removed]

Unused(s) == [k \in Keys |-> IF k \in Resident(s) THEN since[k] \intersect Resident(s) ELSE {}]

\* The segment becomes s, in an operation that uses no key.
Becomes(s) ==
  /\ segment' = s
  /\ since' = Unused(s)
  /\ UNCHANGED clock

\* The segment becomes s, in an operation that uses k: the others are older now.
BecomesUsing(s, k) ==
  /\ segment' = s
  /\ since' = [j \in Keys |-> IF j \notin Resident(s) \ {k} THEN {}
                              ELSE Unused(s)[j] \union {k}]
  /\ UNCHANGED clock

Init ==
  /\ segment = [entries |-> <<>>, lru |-> <<>>,
                index |-> [buckets |-> <<>>, heap |-> {}, spare |-> <<>>,
                           id |-> [b \in Buckets |-> 0],
                           items |-> [b \in Buckets |-> <<>>]]]
  /\ clock = 0
  /\ counted = Counts(0, 0, 0, 0)
  /\ since = [k \in Keys |-> {}]

\* exists, refreshTTL, lookup and getAndDelete that meet an expired entry.
\* A missing key, or exists of a live one, changes nothing.
ObserveExpired(k, t) ==
  /\ ExpiredAt(segment, k, t)
  /\ Becomes(Removed(segment, k))
  /\ counted' = Counts(0, 1, 0, 0)

RefreshTTL(k, t) ==
  /\ LiveAt(segment, k, t)
  /\ Becomes(Refreshed(segment, k, t))
  /\ counted' = Counts(0, 0, 0, 0)

\* lookup, lookupEntry and getEntry; getOrSet of a live key.
Get(k, t) ==
  /\ LiveAt(segment, k, t)
  /\ BecomesUsing(Hit(segment, k, t), k)
  /\ counted' = Counts(0, 0, 0, 0)

NewWrite(k, v) == k \in Resident(segment) => segment.entries[k].value # v

Set(k, v, ttl, t) ==
  /\ NewWrite(k, v)
  /\ BecomesUsing(Stored(segment, k, v, ttl, DeadlineAfter(t, ttl)), k)
  /\ counted' = IF k \in Resident(segment) THEN Counts(0, 0, 0, 0)
                ELSE Counts(1, 0, IF Full(segment) THEN 1 ELSE 0, 0)

\* getOrSet of an expired key; getOrSet of a missing key is Set.
GetOrSetMiss(k, v, ttl, t) ==
  /\ NewWrite(k, v)
  /\ ExpiredAt(segment, k, t)
  /\ BecomesUsing(Stored(Removed(segment, k), k, v, ttl, DeadlineAfter(t, ttl)), k)
  /\ counted' = Counts(1, 1, 0, 0)

\* delete, and getAndDelete of a live key.
Delete(k) ==
  /\ k \in Resident(segment)
  /\ Becomes(Removed(segment, k))
  /\ counted' = Counts(0, 0, 0, 1)

DeleteAll ==
  /\ Becomes([entries |-> <<>>, lru |-> <<>>, index |-> Reset(segment.index)])
  /\ counted' = Counts(0, 0, 0, Cardinality(Resident(segment)))

CleanupExpired(t, limit) ==
  LET loop == Cleaned(segment, t, limit)
  IN  /\ Becomes(loop.segment)
      /\ counted' = Counts(0, loop.removed, 0, 0)

Tick ==
  /\ clock < MaxClock
  /\ clock' = clock + 1
  /\ counted' = Counts(0, 0, 0, 0)
  /\ UNCHANGED <<segment, since>>

Next ==
  \/ \E t \in 0..clock :
       \/ \E k \in Keys :
            \/ ObserveExpired(k, t)
            \/ RefreshTTL(k, t)
            \/ Get(k, t)
            \/ \E v \in Values, ttl \in TTLs : Set(k, v, ttl, t) \/ GetOrSetMiss(k, v, ttl, t)
       \/ \E limit \in Limits : CleanupExpired(t, limit)
  \/ \E k \in Keys : Delete(k)
  \/ DeleteAll
  \/ Tick

Spec == Init /\ [][Next]_vars
-------------------------------------------------------------------------------
(***************************************************************************)
(* Properties.                                                             *)
(***************************************************************************)
entry == segment.entries
index == segment.index

TypeOK ==
  /\ Resident(segment) \subseteq Keys
  /\ \A k \in Resident(segment) :
       entry[k] \in [value : Values, ttl : TTLs, deadline : 0..MaxDuration]
  /\ segment.lru \in Seq(Keys)
  /\ DOMAIN index.buckets \subseteq Nat
  /\ \A id \in DOMAIN index.buckets : index.buckets[id] \in Buckets
  /\ index.heap \subseteq Buckets
  /\ index.spare \in Seq(Buckets) /\ Len(index.spare) <= MaxSpare
  /\ index.id \in [Buckets -> Nat]
  /\ index.items \in [Buckets -> Seq(Keys)]
  /\ clock \in 0..MaxClock
  /\ \A n \in DOMAIN counted : counted[n] \in Nat
  /\ since \in [Keys -> SUBSET Keys]

\* The list holds every resident key once, and never more than Capacity of them.
LruMatchesEntries ==
  /\ IsInjective(segment.lru)
  /\ ToSet(segment.lru) = Resident(segment)
  /\ Len(segment.lru) <= Capacity

\* The map, the heap, the buckets and the entries agree, so none of the panics of
\* the index can happen: an entry that expires is in the bucket of its deadline
\* and nowhere else, no active bucket is empty, and the pool holds clean buckets
\* that no one uses, each once.
IndexMatchesEntries ==
  /\ \A k \in Resident(segment), b \in Buckets :
       k \in ToSet(index.items[b]) <=>
         /\ entry[k].deadline # 0
         /\ BucketID(entry[k].deadline) \in DOMAIN index.buckets
         /\ b = index.buckets[BucketID(entry[k].deadline)]
  /\ \A k \in Resident(segment) :
       entry[k].deadline # 0 => BucketID(entry[k].deadline) \in DOMAIN index.buckets
  /\ \A b \in Buckets : /\ IsInjective(index.items[b])
                        /\ ToSet(index.items[b]) \subseteq Resident(segment)
                        /\ index.items[b] = <<>> <=> b \notin index.heap
  /\ \A id \in DOMAIN index.buckets : index.id[index.buckets[id]] = id
  /\ index.heap = Range(index.buckets)
  /\ IsInjective(index.spare) /\ ToSet(index.spare) \intersect index.heap = {}

\* When cleanup finds nothing due, no entry has been expired for as long as one
\* resolution interval.
NothingOverdueRemains ==
  \A t \in 0..clock :
    ~HasDueBucket(index, DueBucketID(t)) =>
      \A k \in Resident(segment) : entry[k].deadline # 0 => entry[k].deadline + Resolution > t

\* Stats account for every entry: what was inserted and is not resident was
\* counted once as expired, evicted, or returned as removed.  For cleanup this says
\* that what the index gives up, turn after turn, is what leaves the map.
EveryRemovalCounted ==
  [][Cardinality(DOMAIN entry') =
       Cardinality(DOMAIN entry) + counted'.inserted
         - counted'.expired - counted'.evicted - counted'.removed]_vars

\* Without an eviction or a deletion, only entries whose deadline has passed go:
\* the rounding of the buckets never makes cleanup early.
ExpirationsAreReal ==
  [][counted'.evicted + counted'.removed = 0 =>
       \A k \in DOMAIN entry \ DOMAIN entry' : Expired(entry[k].deadline, clock)]_vars

\* The entry evicted is one that every other resident entry was used after.
EvictsLeastRecentlyUsed ==
  [][counted'.evicted = 1 =>
       \A k \in DOMAIN entry \ DOMAIN entry' : since[k] = DOMAIN entry \ {k}]_vars

\* The list, the index and the pool implement a bounded store: a full segment
\* gives up one entry for a new key, and a time read before waiting for the mutex
\* never shortens a deadline.
Store == INSTANCE BoundedStore WITH
  SegOf <- [k \in Keys |-> 0], Capacity <- [s \in {0} |-> Capacity]

ImplementsStore == Store!Spec
===============================================================================
