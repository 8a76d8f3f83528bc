# pacecache in TLA+

Specifications, model-checking runs and proofs for `pacecache`, an in-process Go
cache with segments, LRU eviction, TTLs, coalesced loading and background
cleanup. Paths below are relative to the repository (`load.go` is `src/load.go`).

## The system

| Part | State | Operations | Used by |
|---|---|---|---|
| Group of in-flight loads (`internal/singleflight/group.go`) | the active call of each key; per call: joiners, `forgotten`, `done`, outcome | `StartCall`, `DoCall`, `Forget`, `ForgetAll`, `Call.Wait` | loads and mutations, one group per segment |
| Cache operations (`load.go`, `lookup.go`, `set.go`, `delete.go`, `cache.go`) | per segment a coordination `RWMutex` and a group | `Get`, `GetEntry`, `GetOrSet`, `GetOrSetEntry`, `GetOrLoad`, `GetOrLoadFunc` and their Entry forms, `Set`, `GetAndDelete`, `Delete`, `Clear` | the program |
| Deadline arithmetic (`cache.go`) | none | `deadlineAfter`, `jitteredTTL`, `effectiveTTL` | everything that stores or refreshes |
| Storage segment (`segment.go`) | a mutex, the entries, the LRU list, the expiration index | `exists`, `refreshTTL`, `lookup`, `getEntry`, `set`, `getOrSet`, `getAndDelete`, `delete`, `deleteAll`, `cleanupExpired` | the cache operations and cleanup, through `storage.go` |
| Expiration index (`expiration.go`) | buckets by id, a heap of them, a pool of spare ones | `update`, `add`, `remove`, `reset`, `popRootEntry` | the segment, under its mutex |
| Cleanup (`cleanup.go`, `StartCleanup`/`StopCleanup` in `cache.go`, `cleanupExpired` in `storage.go`) | `cleanupMu`, the worker, its stop channel, the segment its next quantum begins with | `StartCleanup`, `StopCleanup`, `DeleteExpired` | the program, a goroutine of its own |
| Statistics (`stats.go`) | atomic counters per segment and per cache | the `record*` methods, `Stats()` | every operation |
| Options (`options.go`, the capacity split of `storage.go`) | settings | the `With*` options, `newSettings`, `newCache`, `newStorageWithSegments` | the program |
| Metrics adapter (`extra/paceotel`) | a mutex, `closed`, the registrations by cache name, the instruments | `Register`, `Unregister`, the callbacks that observe `Stats()` | the program, the meter provider |
| Benchmarks, examples | - | - | - |

The parts meet in four places. A *mutation* takes the write lock of the
coordination mutex of every segment it touches, forgets the loads in flight for
its keys, and changes the store. A *load* registers with the group under the
read lock, looks at the store again, runs the user's loader with no lock held,
and publishes under the read lock, unless it was forgotten. A *lookup* takes
only the segment's own mutex. *Cleanup* takes only the segments' mutexes.
Around these, `Stats()` reads the counters of all of them without stopping any,
and a metrics collection runs it while other goroutines register caches and
unregister them.

What is hard: a mutation at any moment of a load; old waves that end after new
ones began; loaders that fail, panic or end their goroutine; contexts that are
canceled; batches that lock several segments; clock readings that are stale by
the time a mutex is obtained; buckets that are re-keyed and pooled; budgets that
end in the middle of a cleanup pass; start and stop of cleanup that race; counters
that are read one by one while they change; two mutexes, of the adapter and of
the provider, that are held across each other's calls. What
makes each part correct is listed with its module below, and the hazards with
their lines in `PROJECT.json`.

## The modules

`Deadlines` - the arithmetic of expiration as pure operators. `math.MaxInt64` is
the constant `MaxDuration`, so saturation is reached on small numbers.

`Singleflight` - the group alone. `Group.mu` makes each method one step. A call
object is named by the caller that created it. The groups of all segments are
one map, as a key belongs to one of them. `SingleflightProofs` proves about it.

`Coordination` - the seven public operations by concurrent callers over the
store, composed with `Singleflight` (`Flight`), whose state it shares. A caller
runs one operation and its name is the value it stores or loads, so every value
has one origin. Phases (`pc`) are the points between two critical sections of
the code:

| Phase | The caller is about to | Code |
|---|---|---|
| `lookup` | read the store without the coordination lock | `lookup.go`, `load.go:177-182` |
| `register` | `RLock`, `StartCall`, `RUnlock` | `load.go:202-209` |
| `recheck` | look at the store as owner of a wave | `load.go:215-224` |
| `load` | run the loader | `load.go:226-253` |
| `publish` | `RLock` and check `Forgotten` | `load.go:255-266` |
| `store` | store the value, still under `RLock` | `load.go:268-281` |
| `finish` | end the wave | `group.go:234-245` |
| `wait` | `Call.Wait` | `group.go:81-107` |
| `lock` | take the write locks of its segments, one by one, in order | `delete.go:101-134` |
| `apply` | change the store under them | `set.go`, `delete.go` |

Steps of the code are merged where nobody can see between them: `RLock`,
`StartCall` and `RUnlock` (nothing but a writer conflicts with a reader, and
`StartCall` is atomic); the unlocks of a mutation with its last change; the
`ForgetAll` of all groups in `Clear`, which holds every lock; `Forget` and
`deleteAt` of one key in `Delete`. An `RWMutex` is modelled as `sync` has it: a
writer that announced itself keeps new readers out and holds the lock when the
readers it found have left. The clock is read when an operation begins its
access and may be older than the clock when the access happens (`ReadTimes`).
The victim of an eviction is any entry of the segment, `Reclaim` removes an
expired entry at any time and `Renew` refreshes the deadline of a live one;
these stand for `Exists`, `RefreshTTL` and cleanup, which take no coordination
lock. `Segment` and `CleanupWorker` say which entries and when.
`outdated` and `avoid` are ghosts: the values some mutation has superseded, and
those that were already superseded when an operation began.

`PublicationBarrier` - what the cache promises about loads, with no lock, group
or clock: at most one unbarred load of a key; a mutation gives a key a value only
after it barred the running loads; a barred load never publishes; a load only
fills a hole. `Coordination` implements it under the refinement mapping at its
end (`Barrier`).

`CoordinationInvariant`, `CoordinationProofs` - the inductive invariant and the
theorems, see below. `OperationProofs`, `RefinementProofs` - more theorems about
`Coordination`: its counters, mutations and values, and what it implements. `MCCoordination` - shapes of small caches for TLC.

`Segment` - one storage segment with its expiration index. The mutex makes every
operation one step; the time it uses is any moment of the past. The list of
recency is a sequence, buckets are objects: `buckets` is the map from ids,
`heap` the set of active ones (container/heap is external: its root is the
bucket of least id), `spare` the pool, `items` the entries of each, last one
popped first. Operators with a segment as argument mirror the functions of the
code (`Removed`, `Stored`, `Redated`, `Rekeyed`, `Popped`, ...). `counted` is what
the last operation added to the counters or returned as removed; `since` is a
ghost, the keys used since a key was last used. Values are names of writes, so
a key that is written gets another one. `Reset` says at once what releasing the
active buckets one by one comes to, and `Cleaned` is the loop of `cleanupExpired`
as a function of its turns; a `Turn` counts as the code does, by one whatever it
has taken from the index. `SegmentProofs` - its proofs. The index is always enabled
(`newStorage` passes the default resolution) and Capacity is at least 1
(`newSettings` clamps it), so the branches for 0 are not modelled.

`BoundedStore` - what the cache expects of a store: a capacity, one eviction per
new key in a full segment, deadlines that reads only extend. `Segment`
implements it (`ImplementsStore`), and `Coordination` asks no more of its store
than it promises (`UsesStore`).

`CleanupWorker` - `StartCleanup`, `StopCleanup`, the worker's loop and quanta,
and `DeleteExpired`, with callers that run operation after operation. An item is
an entry whose bucket may become due. A worker or a `DeleteExpired` walks over
the segments: `queue` is what is left of its pass, `pending` the segments that
have more, `remaining` its entry budget, `owed` what is still there of the items
that were due at its cutoff. The unbuffered send on `stopCh` and its receive are
one step (`Stopped`); the outer and the inner select are one step, as the inner
one takes a stop that is being sent. `cleanupSingleSegment` is the case of one
segment. `MCCleanupWorker` - its instances for TLC; `CleanupProofs` -
its proofs.

`Options` - the options in any order and any number of times, what each accepts,
the clamp at the end of `newSettings`, and how the cache that is built divides
its budget (`SegmentCapacity`) and what lifetimes it gives (`TTLServes`, on the
operators of `Deadlines`). `StatisticsProofs` proves about it too.

`Statistics` - extends `Options`: the cache it counts for is the one that was
built. A segment holds a number of entries here, no keys; each action is a
critical section or an atomic addition of the code, in its order: an operation
that counts after it has unlocked (`Delete`, `Clear`, a load, a quantum of the
worker) has a `task` with what it has removed and not counted. `Stats()` is one
step for each counter of the cache and, for each segment, one for the counters
under the segment's mutex and one for each atomic counter. `start` and
`inserted` are ghosts. `MCStatistics` - its instance; `StatisticsProofs` - its
proofs.

`Metrics` - the OpenTelemetry adapter. `Metrics.mu` is held from `Register` to
`Record` and from `Close` to `ReturnDetached`, over calls of the provider that
may fail. The provider is external, with what the adapter relies on: it runs
callbacks under a lock that registration and unregistration take too, and a
`RegisterCallback` or `Unregister` that returns an error has changed nothing.
What the argument of a `Register` is, is chosen when the lock is taken. `SeriesOf`
lists the series one callback reports, with the precedence of attributes of
`newMetricAttributes`. `MCMetrics` - its instance; `MetricsProofs` - its proofs.

## The runs

All bounds are CONSTANTS of the `.cfg` files.

| Run | Instance | What it shows |
|---|---|---|
| `Singleflight` | 4 callers, 2 keys, `Forget` of any keys at any time | waves coalesce; forgotten waves are never joined; an old wave's end leaves its successor alone; every wave finishes |
| `Loads` | 3 callers, all 7 operations, 2 keys in 1 segment of 1 entry, TTL 2, sliding, clock to 2, `Delete` of both keys | no outdated value is in the cache or is returned; loads never overwrite; each lookup is counted once; the store is used as a `BoundedStore` |
| `Batches` | 3 callers, `GetOrLoad`, `Set`, `Delete`, `Clear`, 2 segments | the inductive invariant; refinement of `PublicationBarrier`; batches are atomic; no deadlock of the ordered locks |
| `Outcomes` | 3 callers, `Get`, `GetOrSet`, `GetOrLoad`, `Set`, `Delete`, 1 key, all loader outcomes, cancellation | every call returns; the group is used as its specification demands; until something begins to change the key, all callers agree on the first value stored |
| `Segment` | 3 keys, capacity 2, resolution 2, pool of 1, TTLs 0, 1 and 4, clock to 3, largest duration 6 | list, index, pool and entries agree; cleanup is neither early nor a resolution late; counters account for every entry; LRU victim; refinement of `BoundedStore` |
| `Cleanup` | 2 callers, 3 segments, 4 items, batch 1, budget 2 | one worker; no stop without receiver; whoever claims to have drained has; calls end; no segment starves |
| `Statistics` | 2 goroutines, 3 operations, `Delete` of 2 keys, 2 entries in one segment or one in each of two; options on both sides of what is accepted | every entry is counted once or is still in someone's hands; every counter of a snapshot lies between its values at call and return, and the entries within the budget, which three insertions could exceed; the cache that is built can work, and its segments divide the budget |
| `Metrics` | 2 goroutines, 4 caches (two of one name, one without), attributes that clash with the adapter's | the adapter and the provider agree on what is registered, whatever fails; no two callbacks report one series; no circular wait |
| `ExpiredResult`, `UncountedHit`, `NeedlessSupersede`, `FirstMover` | the smallest that show it | what a comment says and the code does not do, see below |

Why these bounds are enough for the interesting cases: three callers are a load,
a mutation and a second load or joiner that overlaps both, which is what every
argument about forgotten waves needs (`Singleflight` has a fourth, so that a
forgotten wave, its successor and joiners of both exist at once). One entry of
capacity for two keys makes every store an eviction of the other key. A TTL of
2 with a clock to 2 has entries that live, are extended and expire, and
readings that are stale by one or two ticks. In `Segment` two entries share a
bucket, are alone in one, move to an existing or a new one, and the sum of time
and TTL reaches the saturation; a pool of one is empty, used and overflows. In
`Cleanup` the budget ends in the middle of a pass, at its end, and in a later
pass. In `Statistics` three operations are an insertion before `Stats()` is called
(`Before` is 1) and a removal and an insertion while it walks over the segments,
which is what it takes to see an entry twice or not at all; the second goroutine
is a `Delete`, `Clear` or load that has not counted yet. Only caches with the
settings `Explored` are used (`TwoEntries`, so that three insertions could overfill
the cache, with one segment or two), the others are built and checked, and no
operation begins after `Stats()` has returned. In `Metrics` a
`Register` or `Unregister` races another one and a collection, and any call of
the provider fails any number of times.

`Loads` uses symmetry in callers and keys, `Statistics` in its goroutines; both
check only safety. The runs with liveness use none.

Each property of a passing run has a mutant in `PROJECT.json`: a faulty variant
of a definition, written next to it in the module ("Faulty variant of ..."),
under which the run finds the property violated.

### Fairness

`Coordination`: weak fairness of a caller that has started. A goroutine is
scheduled, `sync.RWMutex` lets an announced writer in after the readers it
found, and a loader ends; the documentation makes the last one the user's duty.
Nothing obliges a caller to start, a context to be canceled, the clock to
advance or cleanup to run. Weak fairness is enough for waiting writers because
every caller runs one operation: a lock is taken a finite number of times, and
`EveryCallReturns` says that each holder gives it back.
`Singleflight`: a wave that was started finishes, as `DoCall` finishes it in a
deferred function; `EveryWaveFinishes` says little more than that, and whether a
loader that panics or ends its goroutine leaves a joiner waiting is a question for
`EveryCallReturns` in the run `Outcomes`. `CleanupWorker`: the timer fires and goroutines run; strong
fairness of the two operations that wait for `cleanupMu`, as a `sync.Mutex` in
starvation mode hands over to the longest waiter; and strong fairness of `Clean`.
The time budget of a quantum may end at any moment, before its first segment too
(`Interrupted`), as the code reads a clock; what is assumed is that not every quantum
from some point on loses all of its time before it has cleaned one segment. Without
that `NoSegmentStarves` is false, in the code as in the model. `Metrics`: a collection that has begun ends, as callbacks take
no lock that is held across one; strong fairness of a goroutine in `Register` or
`Unregister`, which waits for two mutexes that others keep taking, again because
a `sync.Mutex` hands over to a waiter that starves. Nothing obliges anyone to
register or to collect.

### Where comments and code disagree

* `ExpiredResult`: `delete.go:199` says an expired entry is never returned. A
  caller that joins a wave gets its entry without a look at the clock
  (`load.go:286`); if the deadline passed between the loader's return and the
  end of the wave, a call that begins after the deadline returns it as found.
* `UncountedHit`: `set.go:53` says that `GetOrSet` on a live hit has the lookup
  statistics of `Get`. A hit found by the second look under the lock was already
  counted as a miss.
* `NeedlessSupersede`: `errors.go:14` says a newer mutation made the load stale.
  `GetOrSet` forgets the load before it finds that it has nothing to insert.
* `FirstMover`: `cleanup.go:154` says the start is rotated so that no segment has
  a permanent first-mover advantage. When the budget ends as the second pass
  begins, `cleanup.go:165` puts the start back to the first pending segment, the
  one that was first.

## The proofs

`CoordinationProofs` proves for any callers, keys, segments, capacities, TTLs,
jitters and loader outcomes, from the ASSUMEs of `Deadlines`, `Singleflight` and
`Coordination`:

* `TypeCorrect`: `Spec => []TypeOK`;
* `BarrierHolds`: `Spec => []BarrierInv`, the inductive invariant;
* `NoStaleEntryHolds`: no outdated value is ever in the cache again;
* `FreshResultHolds`: no operation returns a value that was outdated when it
  began;
* `LoadNeverOverwritesHolds`: a load that is about to store finds a hole;
* `EffectiveTTLBounds`: an effective TTL is 0 or positive and at most
  `MaxDuration`, whatever the jitter: the addition never overflows.

`SingleflightProofs`, for any callers and keys: `CoalescedHolds`,
`JoinsOnlyCurrentWavesHolds`, `DetachedOnlyByItsOwnEndHolds` and `TypeCorrect`.
`Coalesced` alone is not inductive: a caller could begin a wave that is done or
forgotten already, or the group hold a forgotten one. `WaveInv` adds that a caller
without a wave has left no trace and that a forgotten wave is in no group. Two keys
never have one wave, so forgetting one leaves the other attached.

`MetricsProofs`, for any goroutines, caches and attributes:
`CallbacksAreRegisteredHolds`. Its invariant `MetricsInv` says that only the holder
of `mu` is between lock and unlock; that a `Register` under way still finds what it
checked, an open `Metrics` and a free name; and that a registration is kept under
its own name, so that removing one callback removes no other. `SeriesDistinctHolds`
adds what `newMetricAttributes` makes of the attributes: later ones win, so neither
the name of a cache nor the result a counter is about can be hidden by what the
caller gave (`AttributeFacts`); two series of one callback differ in such a result
or in their instrument, two callbacks in the name, which `Register` takes once.

None of the three safety properties of `Coordination` is inductive. `NoStaleEntry` holds because a
load that publishes is not outdated; that is so because a mutation that outdates
it also forgets it; that is enough because the check of `Forgotten` and the
store are under one read lock, and a mutation forgets and changes the store under
one write lock. `BarrierInv` is that argument: `LockInv` says who holds the lock
in which phase, `GroupInv` that the group holds exactly the running waves not
forgotten and none while a mutation applies, `HoleInv` that a current load found
a hole and the hole stays, `ValueInv` and `OutcomeInv` where values come from,
`FreshInv` that no current load yields an outdated value and no caller waits for
a value it must not see. The proof has one lemma per action that disturbs the
invariant; lookups, cancellations, ticks, reclaims and renewals share `AroundInv`, and the
mutations share `MutationInv`. TLC checks `BarrierInv` in `Batches`.

`OperationProofs` builds on these, for the same constants. What it adds to
`BarrierInv` are facts that hold per caller and per key:

* `EveryLookupCountedOnceHolds`: `CountInv` says that hits and misses add up to the
  size of the set of callers that have left their first read (`LookedUp`); a step
  that takes one caller out of `lookup` counts once, and no other step counts.
* `RemovedTogetherHolds`: what a `Delete` or a `Clear` has removed stays away until
  it unlocks (`Removing`), because whoever stores a value holds a lock that the
  mutation excludes.
* `FirstValueWinsHolds` has a hypothesis, `NothingIsLost`: entries do not expire
  (`TTL` and every expiration are 0 or negative) and every segment has room for all
  its keys. Otherwise an entry may expire or be evicted between two callers, who
  then rightly return different values; the run `Outcomes` has such an instance.
  `LastingInv` says that no entry, stored or loaded, has a deadline; `AgreeInv` that
  every value returned, or in a load that is not superseded, is the one stored, for
  each key that no mutation has begun to change.

`RefinementProofs` proves, step by step, that `Coordination` implements three
specifications:

* `BarrierImplemented`: `Spec => ImplementsBarrier`. Each step of an operation is one
  step of `PublicationBarrier` or none; `BarrierInv` gives the guards (no unbarred
  load beside another, a hole where a load publishes).
* `SingleflightImplemented`: the initial states and the steps of `Flight!Spec`. Its
  fairness is not provable here (`ENABLED`); the run `Outcomes` checks all of it.
* `StoreUsed`: `Spec => UsesStore`. `RoomHolds` is what it needs: no segment is over its
  capacity, so that an insertion evicts at most one entry, and the deadline of a
  load's result comes from its TTL and a time in the past.

`CleanupProofs` proves the safety properties of `CleanupWorker` for any callers,
segments, items, batch sizes and budgets: `NeverTwoWorkers`, `StopsAreReceived`,
`DeleteExpiredDrains`, `WorkerSleepsWhenDrained` and `TypesHold`. It needs one
assumption about the items, that they are finitely many: a quantum takes a number
of them, and a model with infinitely many entries in memory is no model of the code.
Its invariant `CleanupInv` adds three things to the types. `WorkerInv`: whoever is in
the worker's loop is the worker that `cleanup` names, and the other way round.
`StopperInv`: the one that sends a stop is the `stopper`, and there is a worker then.
`OwedInv`: what a pass still owes is due and in a segment that it has yet to visit (in
`queue` or `pending`), so nothing is owed when both are empty.

`SegmentProofs` proves every property of `Segment`, for any keys, TTLs, capacity,
resolution, pool, limits of cleanup and histories: `TypesHold`, `ListMatches`,
`IndexMatches`, `NothingOverdue`, the action properties `RemovalsCounted`,
`ExpirationsReal` and `OldestEvicted`, and the refinement `StoreImplemented`. It needs
more bucket objects in the model than capacity and pool together, which the code has:
it allocates one when the pool is empty. The argument goes from data to operations:

* `Lists`: the recency list, each bucket and the pool hold the elements of a set once
  each. Adding an element, removing one and joining two keep that.
* `Agrees(index, ids)`: the index is right about a map `ids` from keys to bucket ids
  that is kept beside it. `expirationIndex.add`, `remove`, `update` and `reset` change
  the index as a map would change; in `update` this includes the bucket that follows
  its only key to another boundary, and in `add` that a bucket from the pool is clean.
* `Sound`: list and index are right about the entries, whose map of ids is `Filed`:
  the interval of each deadline that is not 0. `IndexMatchesEntries` alone is not
  inductive: it does not say what the buckets hold of keys that have gone, or that
  an active bucket has an id the map knows.
* The loop of `cleanupExpired` has as many turns as its limit. What is needed of it
  (`ReducedLoop`: sound, only entries that are due have gone, and the loop's own count
  is the number of those) is kept by a turn, and
  holds after all turns because otherwise there would be a first turn after which it
  does not (`LeastElement`); this takes the place of an induction.
* `Ordered`: the ghost `since` of a key is the set of keys before it in the list. An
  operation that uses no key keeps the order (`Keeps`), one that uses a key puts it in
  front (`Uses`). So the end of the list, which is evicted, is what all others were
  used after.
* `BucketIDs` and `DueBucketIDs` bound the rounding: the interval of a deadline ends at
  or after it, by less than a resolution, and is due when it has passed. This gives
  `NothingOverdue` and `ExpirationsReal`.

`SegInv` is `Sound` and `Ordered` and the type of the clock; TLC finds it to hold on the
instance of the run `Segment`.

`StatisticsProofs` proves about `Options`, for any sequence of options and any
arguments and defaults, from the ASSUMEs of `Deadlines` and `Options`:

* `OptionsInvHolds`: `OptionsSpec => []OptionsInv`, valid settings and no more
  segments than entries in a cache that is built;
* `CapacitiesAddUp`: every segment has room for an entry, and the sum of the
  capacities is the entry budget;
* `SettingsServeHolds`: `OptionsSpec => []SettingsServe`, the settings, the capacities and
  their sum, and the lifetimes together;

and every property of `Statistics`, for any goroutines, bounds and batches:
`TypesHold`, `EverythingCountedOnceHolds` and `SnapshotAccurateHolds`. The goroutines
must be finitely many, or what they hold would have no sum. The argument again goes
from data to operations:

* Sums over finite sets. `SumFunction` takes one element after the other. What holds
  of the empty set, and of a set when it holds of the set without the element picked
  from it, holds of every subset of a finite set, because otherwise there would be a
  smallest one for which it does not (`SubsetsOneByOne`); like `LeastElement` this takes
  the place of an induction. So a change of one summand changes the sum by as much
  (`SumChanges`), and a sum over some of the segments (`Part`) likewise.
* `CountInv`: what was inserted is in the cache, in a counter or in a task (`Held`); and
  in each segment the superseded loads, with those that are in a task and may yet be
  superseded (`LoadsIn`), are at most the loads found and not found. Without `LoadsIn`
  the second half is not inductive.
* `ViewInv`, while `Stats()` reads: a counter of segments is split in the segments of
  which it has been read (`Seen`) and the others. What has been read is at most what
  the first count by now; with what the others count by now, it is at least what there
  was at the call. For the entries, which also go down, both bounds give way by what
  was inserted or removed since.
* `Counted` is all that an operation's step needs to keep both: it changes one segment
  and one task, and an entry goes from one number to another. One lemma per kind of
  action shows that it is a `Counted` step; options and the reads of `Stats()` have lemmas
  of their own.

`StatInv` is the conjunction of these with the types; TLC finds it to hold on the instance
of the run `Statistics`.

Every safety and action property of the runs is proved, and of the refinement
`ImplementsSingleflight` the initial states and the steps. Only model-checked are the
liveness properties `EveryWaveFinishes`, `EveryCallReturns` (of `Coordination` and of `Metrics`),
`EveryCallEnds` and `NoSegmentStarves`, and the fairness of `Flight!Spec` in
`ImplementsSingleflight`: fairness and ENABLED are beyond the prover.

## Not modelled

* Durations (`LoadDuration`, `CleanupWorkerDuration`): sums of clock differences
  that nothing in the cache reads.
* Relations between the fields of one `Stats()` result. It is no atomic snapshot:
  a field that is read later may count what an earlier one did not see, so that
  the superseded loads may outnumber the loads found and not found. Each field
  alone is checked (`SnapshotAccurate`).
* The nil and the zero-value cache, whose operations return at once.
* `WithName`, and the labels and units of the instruments: wording.
* The creation of the fifteen instruments one by one: `newMetricInstruments`
  returns all or an error, and what the provider keeps of a failed attempt is its
  own matter.
* The hash that assigns keys to segments and its mask (`SegOf` is any function).
* Benchmarks and examples: they use the cache and are no part of it.

## Plan

The modules were written in this order: `Deadlines`, `Singleflight`, `Coordination` with
`PublicationBarrier`, the invariant and its proof, `Segment` with `BoundedStore`,
`CleanupWorker`, `Options`, `Statistics`, `Metrics`; then the proofs about `Singleflight` and
`Metrics`, `CleanupWorker`, the operations and refinements of `Coordination`, `Segment` and
`Statistics`. Every part that changes state is modelled, and no safety property of a run
is without a proof. What may follow:

* `Statistics` and `Coordination` count the same lookups and loads, one over numbers of
  entries and one over keys. A refinement from `Coordination` to the counters of
  `Statistics` would tie the two together.
* The loop of `CleanupWorker` treats a quantum of `cleanupExpired` as one step that takes
  up to a batch; `Segment` shows what that step does. A refinement could compose them.
