----------------------------- MODULE Coordination -----------------------------
(***************************************************************************)
(* How the public operations of a cache coordinate: lookups, loads and     *)
(* mutations of one Cache by concurrent goroutines (cache.go, lookup.go,   *)
(* load.go, set.go, delete.go).                                            *)
(*                                                                         *)
(* Each segment of the cache has a coordination lock (cacheState.mu, an    *)
(* RWMutex) and a group of in-flight loads (cacheState.group).  A mutation *)
(* takes the write lock, forgets the load in flight for its key and        *)
(* changes the entry.  A load registers under the read lock, runs the      *)
(* user's loader with no lock held, and publishes under the read lock only *)
(* if it was not forgotten meanwhile.  Lookups take no coordination lock.  *)
(*                                                                         *)
(* A goroutine ("caller") runs one operation.  Its name stands for the     *)
(* value it stores or loads, so every value is written by one caller.      *)
(* The storage segment's own mutex makes each access to the store one      *)
(* step; a store entry here is what the segment holds for a key, and the   *)
(* victim of an eviction is any entry of the segment (the segment's LRU    *)
(* list chooses it).                                                       *)
(***************************************************************************)
EXTENDS Integers, FiniteSets, Deadlines

CONSTANTS
  Callers,         \* goroutines, each performing one operation
  Keys,
  NumSegments,
  SegOf,           \* storage.segmentIndex: the segment of each key
  Capacity,        \* storageSegment.maxEntries of each segment
  Ops,             \* the operations callers may choose
  Batches,         \* the sets of keys Delete may be called with
  Expirations,     \* the expiration arguments of Set and GetOrSet
  TTL, Jitter,     \* Cache.ttl and Cache.jitter
  Sliding,         \* storageSegment.slidingExpiration
  LoaderOutcomes,  \* how a loader may end
  Cancelable,      \* callers whose context may be canceled
  MaxClock,        \* bound: the time at which the model's clock stops
  NoCall, NoKey

Segments == 0..(NumSegments - 1)

AllOps == {"get", "getOrSet", "getOrLoad", "set", "getAndDelete", "delete", "clear"}

AllLoaderOutcomes == {"found", "missing", "error", "panic", "goexit", "noLoader"}

ASSUME SegmentsAssumption ==
  /\ NumSegments \in Nat \ {0}
  /\ SegOf \in [Keys -> Segments]
  /\ Capacity \in [Segments -> Nat \ {0}]

ASSUME ChoicesAssumption ==
  /\ Ops \subseteq AllOps
  /\ Keys # {}
  /\ Batches \subseteq (SUBSET Keys) \ {{}}
  /\ Expirations \subseteq Int
  /\ LoaderOutcomes \subseteq AllLoaderOutcomes
  /\ Cancelable \subseteq Callers

ASSUME TimeAssumption ==
  /\ TTL \in Int
  /\ Jitter \in Nat
  /\ Sliding \in BOOLEAN
  /\ MaxClock \in 0..MaxDuration

ASSUME AbsentAssumption ==
  /\ NoCall \notin Callers
  /\ NoKey \notin Keys

VARIABLES
  group, wave, forgotten, done,  \* the in-flight loads, see Singleflight
  writer,    \* the caller that took a segment's lock for writing, or NoCall
  readers,   \* the callers that hold a segment's lock for reading
  entry,     \* what the store holds for each key
  clock,     \* storage.now
  pc, op, key,
  targets,   \* the keys of a mutation
  todo,      \* those of Delete and Clear not removed yet
  now,       \* when the caller last read the clock, at the earliest
  outcome,   \* call.val and call.err of the wave a caller owns
  result,    \* what the caller's operation returned
  canceled,  \* callers whose context is canceled
  stats,     \* counters of the lookups and loads
  outdated,  \* values some mutation of their key has superseded
  avoid      \* the values already outdated when the caller's operation began

flight == <<group, wave, forgotten, done>>
locks == <<writer, readers>>
call == <<op, key, targets>>
ghosts == <<outdated, avoid>>

vars == <<flight, locks, entry, clock, pc, call, todo, now, outcome, result,
          canceled, stats, ghosts>>

callKey == [c \in Callers |-> IF wave[c] = NoCall THEN NoKey ELSE key[c]]

Flight == INSTANCE Singleflight
-------------------------------------------------------------------------------
Entries == [value : Callers, ttl : Nat, deadline : Nat]
NoEntry == [value |-> NoCall, ttl |-> 0, deadline |-> 0]

Statuses == {"pending", "found", "missing", "error", "panic", "goexit",
             "superseded", "noLoader", "canceled", "stored", "removed"}

Results == [status : Statuses, entry : Entries \union {NoEntry}]
Result(status, e) == [status |-> status, entry |-> e]
Pending == Result("pending", NoEntry)

Counters == {"hit", "miss", "loadFound", "loadNotFound", "loadError",
             "loadSuperseded", "shared"}

Phases == {"idle", "lookup", "register", "recheck", "load", "publish", "store",
           "finish", "wait", "lock", "apply", "returned"}

TypeOK ==
  /\ Flight!TypeOK
  /\ writer \in [Segments -> Callers \union {NoCall}]
  /\ readers \in [Segments -> SUBSET Callers]
  /\ entry \in [Keys -> Entries \union {NoEntry}]
  /\ clock \in 0..MaxClock
  /\ pc \in [Callers -> Phases]
  /\ op \in [Callers -> AllOps \union {"none"}]
  /\ key \in [Callers -> Keys \union {NoKey}]
  /\ targets \in [Callers -> SUBSET Keys]
  /\ todo \in [Callers -> SUBSET Keys]
  /\ now \in [Callers -> 0..MaxClock]
  /\ outcome \in [Callers -> Results]
  /\ result \in [Callers -> Results]
  /\ canceled \in SUBSET Callers
  /\ stats \in [Counters -> Nat]
  /\ outdated \in SUBSET Callers
  /\ avoid \in [Callers -> SUBSET Callers]

Init ==
  /\ key = [c \in Callers |-> NoKey]
  /\ Flight!Init
  /\ writer = [s \in Segments |-> NoCall]
  /\ readers = [s \in Segments |-> {}]
  /\ entry = [k \in Keys |-> NoEntry]
  /\ clock = 0
  /\ pc = [c \in Callers |-> "idle"]
  /\ op = [c \in Callers |-> "none"]
  /\ targets = [c \in Callers |-> {}]
  /\ todo = [c \in Callers |-> {}]
  /\ now = [c \in Callers |-> 0]
  /\ outcome = [c \in Callers |-> Pending]
  /\ result = [c \in Callers |-> Pending]
  /\ canceled = {}
  /\ stats = [n \in Counters |-> 0]
  /\ outdated = {}
  /\ avoid = [c \in Callers |-> {}]
-------------------------------------------------------------------------------
(***************************************************************************)
(* The store, one key at a time.                                           *)
(***************************************************************************)
Resident(k) == entry[k] # NoEntry

ResidentIn(s) == {k \in Keys : SegOf[k] = s /\ Resident(k)}

Live(k, t) == Resident(k) /\ ~Expired(entry[k].deadline, t)

\* What a live read at time t leaves: sliding expiration renews the deadline.
Touched(e, t) ==
  IF Sliding /\ e.ttl > 0
  THEN [e EXCEPT !.deadline = Extended(e.deadline, t, e.ttl)]
  ELSE e

\* A new key in a full segment takes the place of another entry.
Put(k, e) ==
  \/ /\ Resident(k) \/ Cardinality(ResidentIn(SegOf[k])) < Capacity[SegOf[k]]
     /\ entry' = [entry EXCEPT ![k] = e]
  \/ /\ ~Resident(k)
     /\ Cardinality(ResidentIn(SegOf[k])) >= Capacity[SegOf[k]]
     /\ \E victim \in ResidentIn(SegOf[k]) :
          entry' = [entry EXCEPT ![victim] = NoEntry, ![k] = e]

\* Faulty variant of RemoveAll: the metadata of a removed entry survives it.
RemoveValues(ks) ==
  entry' = [k \in Keys |-> IF k \in ks THEN [entry[k] EXCEPT !.value = NoCall] ELSE entry[k]]

RemoveAll(ks) == entry' = [k \in Keys |-> IF k \in ks THEN NoEntry ELSE entry[k]]

\* The time a caller passes to the store: read after now[c] was recorded, and
\* possibly long before the segment's mutex was acquired.
ReadTimes(c) == now[c]..clock

NewEntries(c, expiration, t) ==
  {[value |-> c, ttl |-> ttl, deadline |-> DeadlineAfter(t, ttl)] :
     ttl \in EffectiveTTLs(expiration, TTL, Jitter)}

Count(counter) == stats' = [stats EXCEPT ![counter] = @ + 1]

Goto(c, phase) == pc' = [pc EXCEPT ![c] = phase]

Return(c, status, e) ==
  /\ Goto(c, "returned")
  /\ result' = [result EXCEPT ![c] = Result(status, e)]
-------------------------------------------------------------------------------
(***************************************************************************)
(* The coordination lock.  As in sync.RWMutex, a writer that has announced *)
(* itself keeps new readers out, and holds the lock once the readers it    *)
(* found have left.                                                        *)
(***************************************************************************)
\* Faulty variant of SegmentsOf: only the last segment of a batch is locked.
OneSegmentOf(c) ==
  LET touched == IF op[c] = "clear" THEN Segments ELSE {SegOf[k] : k \in targets[c]}
  IN  {s \in touched : \A r \in touched : r <= s}

SegmentsOf(c) ==
  IF op[c] = "clear" THEN Segments ELSE {SegOf[k] : k \in targets[c]}

\* Faulty variants of CanRead and Holds: a reader ignores the writer, and a
\* writer the readers.
CanAlwaysRead(s) == TRUE

HoldsBesideReaders(c, s) == writer[s] = c

CanRead(s) == writer[s] = NoCall

Holds(c, s) == writer[s] = c /\ readers[s] = {}

HoldsAll(c) == \A s \in SegmentsOf(c) : Holds(c, s)

\* Faulty variant of AcquireLock: in any order.
AcquireInAnyOrder(c, s) ==
  /\ pc[c] = "lock"
  /\ s \in SegmentsOf(c)
  /\ writer[s] = NoCall
  /\ writer' = [writer EXCEPT ![s] = c]
  /\ UNCHANGED <<flight, readers, entry, clock, pc, call, todo, now, outcome,
                 result, canceled, stats, ghosts>>

\* Locks are taken in ascending order of segments, each after the previous one.
AcquireLock(c, s) ==
  /\ pc[c] = "lock"
  /\ s \in SegmentsOf(c)
  /\ writer[s] = NoCall
  /\ \A r \in SegmentsOf(c) : r < s => Holds(c, r)
  /\ writer' = [writer EXCEPT ![s] = c]
  /\ UNCHANGED <<flight, readers, entry, clock, pc, call, todo, now, outcome,
                 result, canceled, stats, ghosts>>

\* The unlocks that end a mutation are one step with its last change: nothing
\* the caller does between them is visible to anyone.
ReleaseLocks(c) ==
  /\ writer' = [s \in Segments |-> IF writer[s] = c THEN NoCall ELSE writer[s]]
  /\ UNCHANGED readers
-------------------------------------------------------------------------------
(***************************************************************************)
(* Ghost bookkeeping: a mutation of ks by c outdates every value those     *)
(* keys were given and every load of theirs that is under way.             *)
(***************************************************************************)
Provided(d) ==
  \/ wave[d] = d
  \/ op[d] \in {"set", "getOrSet"} /\ pc[d] = "returned"

Outdate(c, ks) ==
  /\ outdated' = outdated \union {d \in Callers \ {c} : key[d] \in ks /\ Provided(d)}
  /\ UNCHANGED avoid
-------------------------------------------------------------------------------
(***************************************************************************)
(* A caller starts an operation.                                           *)
(***************************************************************************)
Lookups == {"get", "getOrSet", "getOrLoad"}

Begin(c, operation, k, ks, phase) ==
  /\ operation \in Ops
  /\ pc[c] = "idle"
  /\ Goto(c, phase)
  /\ op' = [op EXCEPT ![c] = operation]
  /\ key' = [key EXCEPT ![c] = k]
  /\ targets' = [targets EXCEPT ![c] = ks]
  /\ todo' = [todo EXCEPT ![c] = ks]
  /\ now' = [now EXCEPT ![c] = clock]
  /\ avoid' = [avoid EXCEPT ![c] = outdated]
  /\ UNCHANGED <<flight, locks, entry, clock, outcome, result, canceled, stats,
                 outdated>>

BeginLookup(c, k) ==
  \E operation \in Lookups : Begin(c, operation, k, {k}, "lookup")

BeginMutation(c, k) ==
  \E operation \in {"set", "getAndDelete"} : Begin(c, operation, k, {k}, "lock")

\* Duplicate keys in the argument of Delete find their entry already removed.
BeginDelete(c) ==
  \E ks \in Batches : Begin(c, "delete", NoKey, ks, "lock")

BeginClear(c) == Begin(c, "clear", NoKey, Keys, "lock")
-------------------------------------------------------------------------------
(***************************************************************************)
(* The lookup that Get, GetOrSet and GetOrLoad start with.                 *)
(***************************************************************************)
LookupHit(c) ==
  /\ pc[c] = "lookup"
  /\ \E t \in ReadTimes(c) :
       LET k == key[c]
           e == Touched(entry[k], t)
       IN  /\ Live(k, t)
           /\ entry' = [entry EXCEPT ![k] = e]
           /\ Return(c, "found", e)
  /\ Count("hit")
  /\ UNCHANGED <<flight, locks, clock, call, todo, now, outcome, canceled, ghosts>>

\* An expired entry is removed when it is observed.
Miss(c) ==
  /\ pc[c] = "lookup"
  /\ \E t \in ReadTimes(c) : ~Live(key[c], t)
  /\ RemoveAll({key[c]})
  /\ Count("miss")
  /\ UNCHANGED <<flight, locks, clock, call, todo, now, outcome, canceled, ghosts>>

GetMiss(c) ==
  /\ op[c] = "get"
  /\ Miss(c)
  /\ Return(c, "missing", NoEntry)

GetOrSetMiss(c) ==
  /\ op[c] = "getOrSet"
  /\ Miss(c)
  /\ Goto(c, "lock")
  /\ UNCHANGED result

\* getOrLoad checks its context and then its loader right after the miss.
GetOrLoadMiss(c) ==
  /\ op[c] = "getOrLoad"
  /\ Miss(c)
  /\ \/ c \in canceled /\ Return(c, "canceled", NoEntry)
     \/ /\ c \notin canceled
        /\ "noLoader" \in LoaderOutcomes
        /\ Return(c, "noLoader", NoEntry)
     \/ /\ c \notin canceled
        /\ Goto(c, "register")
        /\ UNCHANGED result
-------------------------------------------------------------------------------
(***************************************************************************)
(* getOrLoad after a miss.                                                 *)
(***************************************************************************)
\* RLock, StartCall, RUnlock.
RegisterOwner(c) ==
  /\ pc[c] = "register"
  /\ CanRead(SegOf[key[c]])
  /\ Flight!Lead(c, key[c])
  /\ Goto(c, "recheck")
  /\ now' = [now EXCEPT ![c] = clock]
  /\ UNCHANGED <<forgotten, done, locks, entry, clock, call, todo, outcome,
                 result, canceled, stats, ghosts>>

RegisterJoiner(c) ==
  /\ pc[c] = "register"
  /\ CanRead(SegOf[key[c]])
  /\ Flight!Join(c, key[c])
  /\ Goto(c, "wait")
  /\ UNCHANGED <<forgotten, done, locks, entry, clock, call, todo, now, outcome,
                 result, canceled, stats, ghosts>>

\* Faulty variants of the recheck: a hit is counted again, and a miss is assumed.
RecheckHitCounted(c) ==
  /\ pc[c] = "recheck"
  /\ \E t \in ReadTimes(c) :
       /\ Live(key[c], t)
       /\ entry' = [entry EXCEPT ![key[c]] = Touched(@, t)]
       /\ outcome' = [outcome EXCEPT ![c] = Result("found", Touched(entry[key[c]], t))]
  /\ Count("hit")
  /\ Goto(c, "finish")
  /\ UNCHANGED <<flight, locks, clock, call, todo, now, result, canceled, ghosts>>

RecheckSkipped(c) ==
  /\ pc[c] = "recheck"
  /\ Goto(c, "load")
  /\ UNCHANGED <<flight, locks, entry, clock, call, todo, now, outcome, result,
                 canceled, stats, ghosts>>

\* The owner looks again: the entry may have appeared before it registered.
\* This second read is not counted.
RecheckHit(c) ==
  /\ pc[c] = "recheck"
  /\ \E t \in ReadTimes(c) :
       LET k == key[c]
           e == Touched(entry[k], t)
       IN  /\ Live(k, t)
           /\ entry' = [entry EXCEPT ![k] = e]
           /\ outcome' = [outcome EXCEPT ![c] = Result("found", e)]
  /\ Goto(c, "finish")
  /\ UNCHANGED <<flight, locks, clock, call, todo, now, result, canceled, stats,
                 ghosts>>

RecheckMiss(c) ==
  /\ pc[c] = "recheck"
  /\ \E t \in ReadTimes(c) : ~Live(key[c], t)
  /\ RemoveAll({key[c]})
  /\ Goto(c, "load")
  /\ UNCHANGED <<flight, locks, clock, call, todo, now, outcome, result, canceled,
                 stats, ghosts>>

LoaderReturns(c, status, e, phase) ==
  /\ pc[c] = "load"
  /\ status \in LoaderOutcomes
  /\ outcome' = [outcome EXCEPT ![c] = Result(status, e)]
  /\ Goto(c, phase)
  /\ UNCHANGED <<flight, locks, entry, clock, call, todo, now, result, canceled,
                 ghosts>>

\* The TTL of a loaded value starts when the loader returns.
LoaderFound(c) ==
  /\ \E e \in NewEntries(c, DefaultExpiration, clock) :
       LoaderReturns(c, "found", e, "publish")
  /\ Count("loadFound")

LoaderMissing(c) ==
  /\ LoaderReturns(c, "missing", NoEntry, "publish")
  /\ Count("loadNotFound")

\* An error is the outcome of the wave whether or not it was forgotten.
LoaderFails(c) ==
  /\ LoaderReturns(c, "error", NoEntry, "finish")
  /\ Count("loadError")

\* Faulty variant of LoaderUnwinds: nothing finishes the wave.
LoaderUnwindsUnfinished(c) ==
  /\ \E status \in {"panic", "goexit"} : LoaderReturns(c, status, NoEntry, "returned")
  /\ UNCHANGED stats

LoaderUnwinds(c) ==
  /\ \E status \in {"panic", "goexit"} : LoaderReturns(c, status, NoEntry, "finish")
  /\ UNCHANGED stats

PublishSuperseded(c) ==
  /\ pc[c] = "publish"
  /\ CanRead(SegOf[key[c]])
  /\ c \in forgotten
  /\ outcome' = [outcome EXCEPT ![c] = Result("superseded", NoEntry)]
  /\ Count("loadSuperseded")
  /\ Goto(c, "finish")
  /\ UNCHANGED <<flight, locks, entry, clock, call, todo, now, result, canceled,
                 ghosts>>

PublishMissing(c) ==
  /\ pc[c] = "publish"
  /\ CanRead(SegOf[key[c]])
  /\ c \notin forgotten
  /\ outcome[c].status = "missing"
  /\ Goto(c, "finish")
  /\ UNCHANGED <<flight, locks, entry, clock, call, todo, now, outcome, result,
                 canceled, stats, ghosts>>

\* Faulty variant of PublishBegin: the load does not ask if it was forgotten.
PublishUnchecked(c) ==
  /\ pc[c] = "publish"
  /\ CanRead(SegOf[key[c]])
  /\ outcome[c].status = "found"
  /\ readers' = [readers EXCEPT ![SegOf[key[c]]] = @ \union {c}]
  /\ Goto(c, "store")
  /\ UNCHANGED <<flight, writer, entry, clock, call, todo, now, outcome, result,
                 canceled, stats, ghosts>>

\* RLock and the check of Forgotten; the lock is kept until the value is stored.
PublishBegin(c) ==
  /\ pc[c] = "publish"
  /\ CanRead(SegOf[key[c]])
  /\ c \notin forgotten
  /\ outcome[c].status = "found"
  /\ readers' = [readers EXCEPT ![SegOf[key[c]]] = @ \union {c}]
  /\ Goto(c, "store")
  /\ UNCHANGED <<flight, writer, entry, clock, call, todo, now, outcome, result,
                 canceled, stats, ghosts>>

PublishStore(c) ==
  /\ pc[c] = "store"
  /\ Put(key[c], outcome[c].entry)
  /\ readers' = [readers EXCEPT ![SegOf[key[c]]] = @ \ {c}]
  /\ Goto(c, "finish")
  /\ UNCHANGED <<flight, writer, clock, call, todo, now, outcome, result,
                 canceled, stats, ghosts>>

\* Faulty variant of Finish: the wave is closed but stays the current one.
FinishAttached(c) ==
  /\ pc[c] = "finish"
  /\ done' = done \union {c}
  /\ Goto(c, "wait")
  /\ UNCHANGED <<group, wave, forgotten, locks, entry, clock, call, todo, now,
                 outcome, result, canceled, stats, ghosts>>

\* group.finish; a Goexit then ends the owner's goroutine.
Finish(c) ==
  /\ pc[c] = "finish"
  /\ Flight!FinishWave(c, key[c])
  /\ \/ outcome[c].status = "goexit" /\ Return(c, "goexit", NoEntry)
     \/ outcome[c].status # "goexit" /\ Goto(c, "wait") /\ UNCHANGED result
  /\ UNCHANGED <<wave, forgotten, locks, entry, clock, call, todo, now, outcome,
                 canceled, stats, ghosts>>

\* Call.Wait: select chooses either ready case.
WaitDone(c) ==
  /\ pc[c] = "wait"
  /\ wave[c] \in done
  /\ LET shared == outcome[wave[c]]
     IN  /\ Return(c, shared.status, shared.entry)
         /\ IF Flight!Dups(wave[c]) # {} /\ shared.status \notin {"panic", "goexit"}
            THEN Count("shared")
            ELSE UNCHANGED stats
  /\ UNCHANGED <<flight, locks, entry, clock, call, todo, now, outcome, canceled,
                 ghosts>>

WaitCanceled(c) ==
  /\ pc[c] = "wait"
  /\ c \in canceled
  /\ Return(c, "canceled", NoEntry)
  /\ UNCHANGED <<flight, locks, entry, clock, call, todo, now, outcome, canceled,
                 stats, ghosts>>
-------------------------------------------------------------------------------
(***************************************************************************)
(* Mutations, under the write lock of every segment they touch.            *)
(***************************************************************************)
\* Set, GetOrSet and GetAndDelete forget the key's load, then read the clock.
Forget(c) ==
  /\ pc[c] = "lock"
  /\ op[c] \in {"set", "getOrSet", "getAndDelete"}
  /\ HoldsAll(c)
  /\ Flight!ForgetKeys({key[c]})
  /\ now' = [now EXCEPT ![c] = clock]
  /\ Goto(c, "apply")
  /\ UNCHANGED <<wave, done, locks, entry, clock, call, todo, outcome, result,
                 canceled, stats, ghosts>>

Set(c) ==
  /\ pc[c] = "apply"
  /\ op[c] = "set"
  /\ \E expiration \in Expirations, t \in ReadTimes(c) :
       \E e \in NewEntries(c, expiration, t) : Put(key[c], e)
  /\ Return(c, "stored", NoEntry)
  /\ ReleaseLocks(c)
  /\ Outdate(c, {key[c]})
  /\ UNCHANGED <<flight, clock, call, todo, now, outcome, canceled, stats>>

\* The recheck of GetOrSet is not counted as a hit or a miss.
GetOrSetHit(c) ==
  /\ pc[c] = "apply"
  /\ op[c] = "getOrSet"
  /\ \E t \in ReadTimes(c) :
       LET e == Touched(entry[key[c]], t)
       IN  /\ Live(key[c], t)
           /\ entry' = [entry EXCEPT ![key[c]] = e]
           /\ Return(c, "found", e)
  /\ ReleaseLocks(c)
  /\ UNCHANGED <<flight, clock, call, todo, now, outcome, canceled, stats, ghosts>>

\* Faulty variant of GetOrSetInsert: it does not look again under the lock.
GetOrSetOverwrites(c) ==
  /\ pc[c] = "apply"
  /\ op[c] = "getOrSet"
  /\ \E expiration \in Expirations, t \in ReadTimes(c) :
       \E e \in NewEntries(c, expiration, t) : Put(key[c], e) /\ Return(c, "stored", e)
  /\ ReleaseLocks(c)
  /\ Outdate(c, {key[c]})
  /\ UNCHANGED <<flight, clock, call, todo, now, outcome, canceled, stats>>

GetOrSetInsert(c) ==
  /\ pc[c] = "apply"
  /\ op[c] = "getOrSet"
  /\ \E expiration \in Expirations, t \in ReadTimes(c) :
       /\ ~Live(key[c], t)
       /\ \E e \in NewEntries(c, expiration, t) :
            /\ Put(key[c], e)
            /\ Return(c, "stored", e)
  /\ ReleaseLocks(c)
  /\ Outdate(c, {key[c]})
  /\ UNCHANGED <<flight, clock, call, todo, now, outcome, canceled, stats>>

GetAndDelete(c) ==
  /\ pc[c] = "apply"
  /\ op[c] = "getAndDelete"
  /\ \E t \in ReadTimes(c) :
       IF Live(key[c], t) THEN Return(c, "found", entry[key[c]])
                          ELSE Return(c, "missing", NoEntry)
  /\ RemoveAll({key[c]})
  /\ ReleaseLocks(c)
  /\ Outdate(c, {key[c]})
  /\ UNCHANGED <<flight, clock, call, todo, now, outcome, canceled, stats>>

\* After its last key, Delete or Clear unlocks and returns.
ReturnWhenRemoved(c) ==
  IF todo'[c] = {}
  THEN Return(c, "removed", NoEntry) /\ ReleaseLocks(c)
  ELSE UNCHANGED <<pc, result, locks>>

\* Delete forgets and removes its keys one by one, in ascending order of their
\* segments.
DeleteKey(c, k) ==
  /\ pc[c] = "lock"
  /\ op[c] = "delete"
  /\ HoldsAll(c)
  /\ k \in todo[c]
  /\ \A other \in todo[c] : SegOf[k] <= SegOf[other]
  /\ Flight!ForgetKeys({k})
  /\ RemoveAll({k})
  /\ todo' = [todo EXCEPT ![c] = @ \ {k}]
  /\ ReturnWhenRemoved(c)
  /\ Outdate(c, {k})
  /\ UNCHANGED <<wave, done, clock, call, now, outcome, canceled, stats>>

\* ForgetAll of every group: no one registers or publishes while Clear holds
\* all the locks, so the calls to the groups are one step.
ClearForget(c) ==
  /\ pc[c] = "lock"
  /\ op[c] = "clear"
  /\ HoldsAll(c)
  /\ Flight!ForgetKeys(Keys)
  /\ Goto(c, "apply")
  /\ UNCHANGED <<wave, done, locks, entry, clock, call, todo, now, outcome,
                 result, canceled, stats, ghosts>>

KeysOf(s) == {k \in Keys : SegOf[k] = s}

ClearSegment(c, s) ==
  /\ pc[c] = "apply"
  /\ op[c] = "clear"
  /\ s \in {SegOf[k] : k \in todo[c]}
  /\ \A k \in todo[c] : s <= SegOf[k]
  /\ RemoveAll(KeysOf(s))
  /\ todo' = [todo EXCEPT ![c] = @ \ KeysOf(s)]
  /\ ReturnWhenRemoved(c)
  /\ Outdate(c, KeysOf(s))
  /\ UNCHANGED <<flight, clock, call, now, outcome, canceled, stats>>
-------------------------------------------------------------------------------
(***************************************************************************)
(* What happens around the callers.                                        *)
(***************************************************************************)
\* Cleanup, or a read by anyone else, removes an expired entry.
Reclaim(k) ==
  /\ Resident(k)
  /\ Expired(entry[k].deadline, clock)
  /\ RemoveAll({k})
  /\ UNCHANGED <<flight, locks, clock, pc, call, todo, now, outcome, result,
                 canceled, stats, ghosts>>

\* RefreshTTL renews a live entry that has a deadline, with sliding expiration or
\* without; its caller may have read the clock long before.
Renew(k) ==
  /\ entry[k].ttl > 0
  /\ \E t \in 0..clock :
       /\ Live(k, t)
       /\ entry' = [entry EXCEPT ![k].deadline = Extended(@, t, entry[k].ttl)]
  /\ UNCHANGED <<flight, locks, clock, pc, call, todo, now, outcome, result,
                 canceled, stats, ghosts>>

Tick ==
  /\ clock < MaxClock
  /\ clock' = clock + 1
  /\ UNCHANGED <<flight, locks, entry, pc, call, todo, now, outcome, result,
                 canceled, stats, ghosts>>

Cancel(c) ==
  /\ c \in Cancelable \ canceled
  /\ op[c] = "getOrLoad"
  /\ pc[c] # "returned"
  /\ canceled' = canceled \union {c}
  /\ UNCHANGED <<flight, locks, entry, clock, pc, call, todo, now, outcome,
                 result, stats, ghosts>>

Terminated ==
  /\ \A c \in Callers : pc[c] = "returned"
  /\ UNCHANGED vars
-------------------------------------------------------------------------------
Start(c) ==
  \/ \E k \in Keys : BeginLookup(c, k) \/ BeginMutation(c, k)
  \/ BeginDelete(c)
  \/ BeginClear(c)

Lookup(c) == LookupHit(c) \/ GetMiss(c) \/ GetOrSetMiss(c) \/ GetOrLoadMiss(c)

Load(c) ==
  \/ RegisterOwner(c) \/ RegisterJoiner(c)
  \/ RecheckHit(c) \/ RecheckMiss(c)
  \/ LoaderFound(c) \/ LoaderMissing(c) \/ LoaderFails(c) \/ LoaderUnwinds(c)
  \/ PublishSuperseded(c) \/ PublishMissing(c) \/ PublishBegin(c) \/ PublishStore(c)
  \/ Finish(c)
  \/ WaitDone(c) \/ WaitCanceled(c)

Mutate(c) ==
  \/ \E s \in Segments : AcquireLock(c, s)
  \/ Forget(c)
  \/ Set(c) \/ GetOrSetHit(c) \/ GetOrSetInsert(c) \/ GetAndDelete(c)
  \/ \E k \in Keys : DeleteKey(c, k)
  \/ ClearForget(c)
  \/ \E s \in Segments : ClearSegment(c, s)

Proceed(c) == Lookup(c) \/ Load(c) \/ Mutate(c)

Next ==
  \/ \E c \in Callers : Start(c) \/ Proceed(c) \/ Cancel(c)
  \/ \E k \in Keys : Reclaim(k) \/ Renew(k)
  \/ Tick
  \/ Terminated

\* A goroutine that has started keeps running, and the loader it calls ends.
\* Nothing obliges a caller to start, a context to be canceled, the clock to
\* reach a deadline or cleanup to run.
Fairness == \A c \in Callers : WF_vars(Proceed(c))

Spec == Init /\ [][Next]_vars /\ Fairness
-------------------------------------------------------------------------------
(***************************************************************************)
(* Properties.                                                             *)
(***************************************************************************)

\* Publication barrier: once a mutation of a key has taken effect, no older
\* value of the key - loaded, stored or still being loaded when it took effect -
\* is in the cache again.
NoStaleEntry ==
  \A k \in Keys : Resident(k) => entry[k].value \notin outdated

\* An operation that begins after a mutation of its key took effect never
\* returns a value the mutation outdated: not from the store, and not by joining
\* a load that was already running.
FreshResult ==
  \A c \in Callers : result[c].entry.value \notin avoid[c]

\* A load only ever fills a hole: between the owner's recheck and its
\* publication nobody else gave the key a value, or the load was superseded.
LoadNeverOverwrites ==
  \A c \in Callers : pc[c] = "store" => ~Resident(key[c])

\* Every Get, GetOrSet and GetOrLoad counts exactly one hit or one miss, however
\* often it reads the store.
EveryLookupCountedOnce ==
  stats["hit"] + stats["miss"] =
    Cardinality({c \in Callers : op[c] \in Lookups /\ pc[c] # "lookup"})

\* Delete and Clear are atomic for what they remove: when they unlock, none of
\* their keys is in the cache, not even the first one removed.
RemovedTogether ==
  [][\A c \in Callers :
       op[c] \in {"delete", "clear"} /\ pc[c] # "returned" /\ pc'[c] = "returned"
         => \A k \in targets[c] : entry'[k] = NoEntry]_vars

\* Everything a single flight promises, for the loads the cache runs.
ImplementsSingleflight == Flight!Spec

\* The publication contract of PublicationBarrier: a running load is a wave
\* whose owner has not decided its outcome, a barred one was forgotten.
Loading(c) == pc[c] \in {"recheck", "load", "publish", "store"}

Barrier == INSTANCE PublicationBarrier WITH
  value <- [k \in Keys |-> entry[k].value],
  loadKey <- [c \in Callers |-> IF wave[c] = c THEN key[c] ELSE NoKey],
  phase <- [c \in Callers |-> IF wave[c] # c THEN "none"
                              ELSE IF Loading(c) THEN "running"
                              ELSE IF outcome[c].status = "superseded" THEN "superseded"
                              ELSE "ended"],
  barred <- {c \in forgotten : Loading(c)}

\* Loads and mutations together behave as if publication were one atomic step
\* that a mutation either precedes or bars: no interleaving of the lock, the
\* group and the store lets a forgotten load publish or a load overwrite.
ImplementsBarrier == Barrier!Spec

\* The store the operations rely on is a bounded store, which Segment implements:
\* nothing they do to it is more than that promises.
Store == INSTANCE BoundedStore WITH
  entry <- [k \in {j \in Keys : Resident(j)} |-> entry[k]]

UsesStore == Store!Spec

\* As long as no Set and no removal of a key has begun to change it, and nothing
\* expires or is evicted, all callers of the key agree: the first value stored, by
\* GetOrSet or by a load, is the one everybody returns.
FirstValueWins ==
  \A c, d \in Callers :
    LET v == result[c].entry.value
        w == result[d].entry.value
    IN  key[c] = key[d] /\ v # NoCall /\ w # NoCall /\ v # w
          => \E e \in Callers : /\ op[e] \in {"set", "getAndDelete", "delete", "clear"}
                               /\ key[c] \in targets[e]
                               /\ (pc[e] # "lock" \/ todo[e] # targets[e])

\* delete.go: "an expired entry is never returned".  No operation returns an
\* entry whose deadline had passed when the operation began.
NeverReturnsExpired ==
  \A c \in Callers : result[c].status = "found" => ~Expired(result[c].entry.deadline, now[c])

\* set.go: a GetOrSet that finds a live value "has the same [...]
\* lookup-statistics semantics as Get": it is counted as a hit.
FoundIsAHit ==
  stats["hit"] >= Cardinality({c \in Callers : op[c] \in {"get", "getOrSet"} /\ result[c].status = "found"})

\* errors.go: ErrLoadSuperseded says that the load was made stale by a newer
\* mutation.  A load is superseded only if a mutation of its key took effect
\* after it registered.
SupersededByAMutation ==
  \A c \in Callers : outcome[c].status = "superseded" => c \in outdated

\* Every operation that was called returns: no operation waits forever for a
\* lock or for a wave, whatever the loaders and the other operations do.
EveryCallReturns ==
  \A c \in Callers : pc[c] # "idle" ~> pc[c] = "returned"
===============================================================================
