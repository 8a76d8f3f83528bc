------------------------------ MODULE Statistics ------------------------------
(***************************************************************************)
(* The statistics of a cache (stats.go): where its operations count what   *)
(* they did, and what Stats() reads while they run.                        *)
(*                                                                         *)
(* Stats() is no atomic snapshot.  It reads the counters of the cache one  *)
(* by one, then walks over the segments: the counters of the segment's     *)
(* mutex together, the others one by one.  The operations count after the  *)
(* fact: Delete removes its keys, unlocks and then counts them all in the  *)
(* segment of its first key; Clear counts after its last segment; a load   *)
(* is counted when the loader returns, and again if it turns out to be     *)
(* superseded.                                                             *)
(*                                                                         *)
(* A segment holds a number of entries here: which ones, and what happens  *)
(* to them, is the matter of Segment and Coordination.  The coordination   *)
(* locks, which keep some of these operations apart, are left out; the     *)
(* properties do not rest on them.  Durations are left out too.            *)
(***************************************************************************)
EXTENDS Options, Sequences, FiniteSets

CONSTANTS
  Workers,    \* goroutines that use the cache
  Explored,   \* bound: the settings of the caches that are used
  BatchSize,  \* bound: keys in one Delete
  MaxOps,     \* bound: operations in a behaviour
  Before      \* bound: how many of them have begun when Stats() is called

ASSUME BoundsAssumption ==
  /\ IsFiniteSet(Workers)
  /\ Explored \subseteq Settings
  /\ BatchSize \in Nat \ {0} /\ {MaxOps, Before} \subseteq Nat

VARIABLES
  global,    \* the counters of the cache
  counts,    \* the entries and the counters of each segment
  task,      \* what a goroutine has done and not counted yet
  begun,     \* operations begun
  inserted,  \* ghost: entries ever put in the cache
  position,  \* how many reads Stats() has done
  view,      \* what it has read
  start      \* ghost: the truth when Stats() was called

activity == <<global, counts, task, begun, inserted>>
collection == <<position, view, start>>

statVars == <<optionVars, activity, collection>>

LockedFields == {"entries", "hit", "miss", "evicted", "expired"}

\* The reads of Stats(), in its order: of the cache, and of each segment.
GlobalReads == <<"cleared", "cleanup", "workerRun", "workerPending">>
SegmentReads == <<"locked", "loadFound", "loadNotFound", "loadError", "loadSuperseded",
                  "shared", "deleted">>

GlobalFields == {GlobalReads[i] : i \in DOMAIN GlobalReads}
SegmentFields == LockedFields \union {SegmentReads[i] : i \in 2..Len(SegmentReads)}
Fields == GlobalFields \union SegmentFields

NotReading == -1
LastPosition == Len(GlobalReads) + Len(SegmentReads) * settings.segmentCount

Tasks == [op : {"none", "delete", "clear", "loadFound", "loadNotFound", "pending"},
          segment : SegmentIndexes,
          todo : [SegmentIndexes -> Nat],
          removed : Nat]

Task(op, s, todo, removed) == [op |-> op, segment |-> s, todo |-> todo, removed |-> removed]

Nothing == [s \in SegmentIndexes |-> 0]

Idle == Task("none", 0, Nothing, 0)

Zero == [f \in Fields |-> 0]

TypeOK ==
  /\ begun \in 0..MaxOps
  /\ inserted \in Nat
  /\ position \in NotReading..LastPosition
  /\ view \in [Fields -> Nat]
  /\ start \in [Fields \union {"inserted"} -> Nat]
  /\ built => /\ global \in [GlobalFields -> Nat]
              /\ counts \in [SegmentIndexes -> [SegmentFields -> Nat]]
              /\ \A s \in SegmentIndexes : counts[s]["entries"] <= SegmentCapacity(s)
              /\ task \in [Workers -> Tasks]

Init ==
  /\ OptionsInit
  /\ global = [f \in GlobalFields |-> 0]
  /\ counts = [s \in SegmentIndexes |-> [f \in SegmentFields |-> 0]]
  /\ task = [g \in Workers |-> Idle]
  /\ begun = 0
  /\ inserted = 0
  /\ position = NotReading
  /\ view = Zero
  /\ start = [f \in Fields \union {"inserted"} |-> 0]

\* newCache: the segments and their counters.
NewCache ==
  /\ Build
  /\ counts' = [s \in SegmentIndexes' |-> [f \in SegmentFields |-> 0]]
  /\ task' = [g \in Workers |-> Idle']
  /\ UNCHANGED <<global, begun, inserted, collection>>
-------------------------------------------------------------------------------
Entries(s) == counts[s]["entries"]

\* Adds the numbers of change to the counters of a segment.
Add(s, change) ==
  counts' = [counts EXCEPT ![s] =
               [f \in SegmentFields |-> @[f] + IF f \in DOMAIN change THEN change[f] ELSE 0]]

Insert(n) == inserted' = inserted + n

\* Faulty variant of Store: a new key is inserted before anything is evicted.
StoreUnbounded(s) ==
  \/ Entries(s) > 0 /\ Insert(0) /\ UNCHANGED counts
  \/ Insert(1) /\ Add(s, [entries |-> 1])

\* storageSegment.setLocked: a key that is there is overwritten, a new one takes a
\* free place or the place of the entry it evicts.
Store(s) ==
  \/ Entries(s) > 0 /\ Insert(0) /\ UNCHANGED counts
  \/ Entries(s) < SegmentCapacity(s) /\ Insert(1) /\ Add(s, [entries |-> 1])
  \/ Entries(s) >= SegmentCapacity(s) /\ Insert(1) /\ Add(s, [evicted |-> 1])

\* A goroutine begins an operation.  Those that begin after Stats() has returned
\* are left out.
Start(g) ==
  /\ begun < MaxOps
  /\ built
  /\ task[g].op = "none"
  /\ position # LastPosition
  /\ settings \in Explored
  /\ begun' = begun + 1
  /\ UNCHANGED <<optionVars, collection>>

\* A goroutine continues the one it is in.
Continue(g, op) ==
  /\ task[g].op = op
  /\ UNCHANGED <<optionVars, begun, collection>>

Become(g, t) == task' = [task EXCEPT ![g] = t]
-------------------------------------------------------------------------------
(***************************************************************************)
(* Operations that are over when they leave the segment.                   *)
(***************************************************************************)
Lookup(g, s) ==
  /\ Start(g)
  /\ \/ Entries(s) > 0 /\ Add(s, [hit |-> 1])
     \/ Add(s, [miss |-> 1])
     \/ Entries(s) > 0 /\ Add(s, [entries |-> -1, miss |-> 1, expired |-> 1])
  /\ UNCHANGED <<global, task, inserted>>

\* Set, and GetOrSet once it holds the lock, which may remove an expired entry
\* of its key first.
SetEntry(g, s) ==
  /\ Start(g)
  /\ \/ Store(s)
     \/ Entries(s) > 0 /\ Insert(1) /\ Add(s, [expired |-> 1])
  /\ UNCHANGED <<global, task>>

\* Exists, RefreshTTL and the second look of a load remove one expired entry,
\* cleanup removes as many as it is allowed to.
RemoveExpired(g, s) ==
  /\ Start(g)
  /\ \E n \in 1..Entries(s) : Add(s, [entries |-> -n, expired |-> n])
  /\ UNCHANGED <<global, task, inserted>>

RecordShared(g, s) ==
  /\ Start(g)
  /\ Add(s, [shared |-> 1])
  /\ UNCHANGED <<global, task, inserted>>

\* The end of DeleteExpired.
RecordCleanup(g) ==
  /\ Start(g)
  /\ global' = [global EXCEPT !["cleanup"] = @ + 1]
  /\ UNCHANGED <<counts, task, inserted>>
-------------------------------------------------------------------------------
(***************************************************************************)
(* Operations that count later.                                            *)
(***************************************************************************)
BeginDelete(g) ==
  /\ Start(g)
  /\ \E keys \in [SegmentIndexes -> 0..BatchSize], first \in SegmentIndexes :
       /\ keys[first] > 0
       /\ SumFunction(keys) <= BatchSize
       /\ Become(g, Task("delete", first, keys, 0))
  /\ UNCHANGED <<global, counts, inserted>>

\* The lowest segment the goroutine still has to visit.
Visits(g, s) == task[g].todo[s] > 0 /\ \A r \in SegmentIndexes : r < s => task[g].todo[r] = 0

DeleteKey(g, s) ==
  /\ Continue(g, "delete")
  /\ Visits(g, s)
  /\ LET rest == [task[g].todo EXCEPT ![s] = @ - 1]
         deleted(n) == Task("delete", task[g].segment, rest, task[g].removed + n)
     IN  \/ Entries(s) > 0 /\ Add(s, [entries |-> -1]) /\ Become(g, deleted(1))
         \/ UNCHANGED counts /\ Become(g, deleted(0))
  /\ UNCHANGED <<global, inserted>>

GetAndDelete(g, s) ==
  /\ Start(g)
  /\ Entries(s) > 0
  /\ \/ Add(s, [entries |-> -1]) /\ Become(g, Task("delete", s, Nothing, 1))
     \/ Add(s, [entries |-> -1, expired |-> 1]) /\ UNCHANGED task
  /\ UNCHANGED <<global, inserted>>

\* Faulty variant of RecordDelete: it counts its calls.
RecordDeleteOnce(g) ==
  /\ Continue(g, "delete")
  /\ task[g].todo = Nothing
  /\ Add(task[g].segment, [deleted |-> 1])
  /\ Become(g, Idle)
  /\ UNCHANGED <<global, inserted>>

RecordDelete(g) ==
  /\ Continue(g, "delete")
  /\ task[g].todo = Nothing
  /\ Add(task[g].segment, [deleted |-> task[g].removed])
  /\ Become(g, Idle)
  /\ UNCHANGED <<global, inserted>>

BeginClear(g) ==
  /\ Start(g)
  /\ Become(g, Task("clear", 0, [s \in SegmentIndexes |-> 1], 0))
  /\ UNCHANGED <<global, counts, inserted>>

ClearSegment(g, s) ==
  /\ Continue(g, "clear")
  /\ Visits(g, s)
  /\ Add(s, [entries |-> -Entries(s)])
  /\ Become(g, [task[g] EXCEPT !.todo[s] = 0, !.removed = @ + Entries(s)])
  /\ UNCHANGED <<global, inserted>>

RecordClear(g) ==
  /\ Continue(g, "clear")
  /\ task[g].todo = Nothing
  /\ global' = [global EXCEPT !["cleared"] = @ + task[g].removed]
  /\ Become(g, Idle)
  /\ UNCHANGED <<counts, inserted>>

\* The loader has returned; an error ends the load.
RecordLoad(g, s) ==
  /\ Start(g)
  /\ \/ Add(s, [loadFound |-> 1]) /\ Become(g, Task("loadFound", s, Nothing, 0))
     \/ Add(s, [loadNotFound |-> 1]) /\ Become(g, Task("loadNotFound", s, Nothing, 0))
     \/ Add(s, [loadError |-> 1]) /\ UNCHANGED task
  /\ UNCHANGED <<global, inserted>>

Publish(g) ==
  /\ \/ Continue(g, "loadFound") /\ Store(task[g].segment)
     \/ Continue(g, "loadNotFound") /\ UNCHANGED <<counts, inserted>>
  /\ Become(g, Idle)
  /\ UNCHANGED global

RecordLoadSuperseded(g) ==
  /\ Continue(g, "loadFound") \/ Continue(g, "loadNotFound")
  /\ Add(task[g].segment, [loadSuperseded |-> 1])
  /\ Become(g, Idle)
  /\ UNCHANGED <<global, inserted>>

\* The cleanup worker, after a quantum.
RecordCleanupWorker(g) ==
  /\ Start(g)
  /\ global' = [global EXCEPT !["workerRun"] = @ + 1]
  /\ \/ Become(g, Task("pending", 0, Nothing, 0))
     \/ UNCHANGED task
  /\ UNCHANGED <<counts, inserted>>

RecordPending(g) ==
  /\ Continue(g, "pending")
  /\ global' = [global EXCEPT !["workerPending"] = @ + 1]
  /\ Become(g, Idle)
  /\ UNCHANGED <<counts, inserted>>
-------------------------------------------------------------------------------
(***************************************************************************)
(* Stats().                                                                *)
(***************************************************************************)
Total(f) ==
  IF f \in GlobalFields THEN global[f]
  ELSE SumFunction([s \in SegmentIndexes |-> counts[s][f]])

CallStats ==
  /\ built
  /\ position = NotReading
  /\ begun = Before
  /\ position' = 0
  /\ start' = [f \in Fields \union {"inserted"} |-> IF f = "inserted" THEN inserted ELSE Total(f)]
  /\ UNCHANGED <<optionVars, activity, view>>

ReadGlobal ==
  /\ position \in 0..(Len(GlobalReads) - 1)
  /\ view' = [view EXCEPT ![GlobalReads[position + 1]] = global[GlobalReads[position + 1]]]
  /\ position' = position + 1
  /\ UNCHANGED <<optionVars, activity, start>>

\* Faulty variant of Accumulated: only the last segment counts.
LastOnly(s, f) == counts[s][f]

Accumulated(s, f) == view[f] + counts[s][f]

\* The reads of a segment: its mutex is held for the first.
ReadSegment ==
  LET n == position - Len(GlobalReads)
      s == n \div Len(SegmentReads)
      name == SegmentReads[(n % Len(SegmentReads)) + 1]
      fields == IF name = "locked" THEN LockedFields ELSE {name}
  IN  /\ position \in Len(GlobalReads)..(LastPosition - 1)
      /\ view' = [f \in Fields |-> IF f \in fields THEN Accumulated(s, f) ELSE view[f]]
      /\ position' = position + 1
      /\ UNCHANGED <<optionVars, activity, start>>
-------------------------------------------------------------------------------
Use(g) ==
  \/ \E s \in SegmentIndexes :
       \/ Lookup(g, s) \/ SetEntry(g, s) \/ RemoveExpired(g, s) \/ RecordShared(g, s)
       \/ DeleteKey(g, s) \/ GetAndDelete(g, s) \/ ClearSegment(g, s) \/ RecordLoad(g, s)
  \/ BeginDelete(g) \/ RecordDelete(g)
  \/ BeginClear(g) \/ RecordClear(g)
  \/ Publish(g) \/ RecordLoadSuperseded(g)
  \/ RecordCleanup(g) \/ RecordCleanupWorker(g) \/ RecordPending(g)

Next ==
  \/ Configure /\ UNCHANGED <<activity, collection>>
  \/ NewCache
  \/ \E g \in Workers : Use(g)
  \/ CallStats \/ ReadGlobal \/ ReadSegment

Spec == Init /\ [][Next]_statVars
-------------------------------------------------------------------------------
(***************************************************************************)
(* Properties.                                                             *)
(***************************************************************************)

\* Every entry that was ever put in the cache is still there or was counted as
\* evicted, expired, deleted or cleared, once, or is in the hands of a Delete or
\* Clear that has not counted yet.  Superseded loads are among the loads counted
\* as found or not found.
EverythingCountedOnce ==
  built =>
    /\ inserted = Total("entries") + Total("evicted") + Total("expired") + Total("deleted")
                  + Total("cleared") + SumFunction([g \in Workers |-> task[g].removed])
    /\ \A s \in SegmentIndexes :
         counts[s]["loadSuperseded"] <= counts[s]["loadFound"] + counts[s]["loadNotFound"]

Removed == inserted - Total("entries")
RemovedAtStart == start["inserted"] - start["entries"]

\* How many reads Stats() does before it has all of a field.
LastRead(f) ==
  IF f \in GlobalFields THEN CHOOSE i \in DOMAIN GlobalReads : GlobalReads[i] = f
  ELSE LastPosition - Len(SegmentReads)
         + CHOOSE i \in DOMAIN SegmentReads :
             SegmentReads[i] = IF f \in LockedFields THEN "locked" ELSE f

\* What Stats() returns is no moment of the cache, but each number is one that the
\* cache passed through: a counter is neither below its value when Stats() was
\* called nor above the present one, and the entries, summed over segments read at
\* different times, are within the budget and within what was inserted and removed
\* meanwhile.
SnapshotAccurate ==
  built =>
    /\ \A f \in Fields \ {"entries"} :
         position >= LastRead(f) => view[f] \in start[f]..Total(f)
    /\ position >= LastRead("entries") =>
         /\ view["entries"] <= settings.maxEntries
         /\ view["entries"] >= start["entries"] - (Removed - RemovedAtStart)
         /\ view["entries"] <= start["entries"] + (inserted - start["inserted"])
===============================================================================
