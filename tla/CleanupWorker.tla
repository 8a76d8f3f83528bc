---------------------------- MODULE CleanupWorker ----------------------------
(***************************************************************************)
(* Reclaiming expired entries: the background worker with StartCleanup and *)
(* StopCleanup, and DeleteExpired (cleanup.go; StartCleanup and            *)
(* StopCleanup of cache.go; cleanupExpired of storage.go).                 *)
(*                                                                         *)
(* An item is an entry that may be due, that is whose bucket's boundary    *)
(* may have been reached.  A cleaner - the worker in a quantum, or a call  *)
(* of DeleteExpired - takes the items that were due at its cutoff out of   *)
(* one segment after the other, a bounded batch at a time.  Which ones a   *)
(* batch takes is left open: Segment says more.                            *)
(*                                                                         *)
(* Callers run an operation and then, perhaps, another.  The caller of     *)
(* StartCleanup becomes the worker; a *cleanupWorker is named by it.       *)
(***************************************************************************)
EXTENDS Naturals, FiniteSets, SequencesExt

CONSTANTS
  Callers,
  Items,
  NumSegments,
  SegOf,        \* the segment of each item
  BatchSize,    \* cleanupPolicy.batchSize
  EntryBudget,  \* cleanupPolicy.entryBudget
  Operations,   \* the operations callers may choose
  NoCaller

Segments == 0..(NumSegments - 1)

ASSUME CleanupAssumption ==
  /\ NumSegments \in Nat \ {0}
  /\ IsFiniteSet(Items)
  /\ SegOf \in [Items -> Segments]
  /\ BatchSize \in Nat \ {0}
  /\ EntryBudget \in Nat \ {0}
  /\ NoCaller \notin Callers
  /\ Operations \subseteq {"start", "stop", "deleteExpired"}

VARIABLES
  cleanup,      \* Cache.cleanup
  stopper,      \* the caller that holds cleanupMu to send on stopCh
  pc,
  due,          \* the items due now
  owed,         \* the items still there of those due at a cleaner's cutoff
  queue,        \* the segments a cleaner has still to visit in its pass
  pending,      \* those visited in its pass that have more
  remaining,    \* what is left of its entry budget
  first,        \* the segment its walk began with
  nextSegment   \* the segment a worker's next quantum begins with

pass == <<queue, pending, remaining, first>>

vars == <<cleanup, stopper, pc, due, owed, pass, nextSegment>>

\* A worker sleeps for its interval, or pauses for a moment when it has more to do.
Phases == {"idle", "start", "sleeping", "pausing", "firstPass", "laterPass",
           "stop", "stopping", "delete", "drain"}

TypeOK ==
  /\ cleanup \in Callers \union {NoCaller}
  /\ stopper \in Callers \union {NoCaller}
  /\ pc \in [Callers -> Phases]
  /\ due \subseteq Items
  /\ owed \in [Callers -> SUBSET Items]
  /\ queue \in [Callers -> Seq(Segments)]
  /\ pending \in [Callers -> Seq(Segments)]
  /\ remaining \in [Callers -> 0..EntryBudget]
  /\ first \in [Callers -> Segments]
  /\ nextSegment \in [Callers -> Segments]

Init ==
  /\ cleanup = NoCaller
  /\ stopper = NoCaller
  /\ pc = [c \in Callers |-> "idle"]
  /\ due = {}
  /\ owed = [c \in Callers |-> {}]
  /\ queue = [c \in Callers |-> <<>>]
  /\ pending = [c \in Callers |-> <<>>]
  /\ remaining = [c \in Callers |-> 0]
  /\ first = [c \in Callers |-> 0]
  /\ nextSegment = [c \in Callers |-> 0]

Goto(c, phase) == pc' = [pc EXCEPT ![c] = phase]

Waiting(c) == pc[c] \in {"sleeping", "pausing"}
InQuantum(c) == pc[c] \in {"firstPass", "laterPass"}

\* All segments in order, from s on and around.
From(s) == [i \in 1..NumSegments |-> (s + i - 1) % NumSegments]

SmallerOf(m, n) == IF m <= n THEN m ELSE n
-------------------------------------------------------------------------------
(***************************************************************************)
(* One batch of one segment.                                               *)
(***************************************************************************)
OwedIn(c, s) == {i \in owed[c] : SegOf[i] = s}

\* Gone items are owed to no one.
TakeOut(items) ==
  /\ due' = due \ items
  /\ owed' = [c \in Callers |-> owed[c] \ items]

\* storageSegment.cleanupExpired of the segment at the head of the queue.  With a
\* limit of 0 it reports that it has no more, whatever is due.
Visit(c, budget) ==
  LET s == Head(queue[c])
      limit == SmallerOf(BatchSize, budget)
  IN  \E items \in SUBSET OwedIn(c, s) :
        /\ Cardinality(items) = SmallerOf(limit, Cardinality(OwedIn(c, s)))
        /\ TakeOut(items)
        /\ queue' = [queue EXCEPT ![c] = Tail(@)]
        /\ pending' = [pending EXCEPT ![c] =
             IF limit > 0 /\ items # OwedIn(c, s) THEN Append(@, s) ELSE @]
        /\ remaining' = [remaining EXCEPT ![c] = budget - Cardinality(items)]

\* now() is read, and the walk over the segments begins with s.
BeginWalk(c, s) ==
  /\ owed' = [owed EXCEPT ![c] = due]
  /\ queue' = [queue EXCEPT ![c] = From(s)]
  /\ pending' = [pending EXCEPT ![c] = <<>>]
  /\ remaining' = [remaining EXCEPT ![c] = EntryBudget]
  /\ first' = [first EXCEPT ![c] = s]

\* The cleaner forgets its pass.
EndWalk(c) ==
  /\ owed' = [owed EXCEPT ![c] = {}]
  /\ queue' = [queue EXCEPT ![c] = <<>>]
  /\ pending' = [pending EXCEPT ![c] = <<>>]
  /\ remaining' = [remaining EXCEPT ![c] = 0]
  /\ first' = [first EXCEPT ![c] = 0]
-------------------------------------------------------------------------------
(***************************************************************************)
(* StartCleanup and StopCleanup.                                           *)
(***************************************************************************)
Call(c, operation, phase) ==
  /\ operation \in Operations
  /\ pc[c] = "idle"
  /\ Goto(c, phase)
  /\ UNCHANGED <<cleanup, stopper, due, owed, pass, nextSegment>>

\* Faulty variant of StartCleanup: it does not ask if a worker runs.
StartCleanupUnchecked(c) ==
  /\ pc[c] = "start"
  /\ stopper = NoCaller
  /\ cleanup' = c
  /\ Goto(c, "sleeping")
  /\ UNCHANGED <<stopper, due, owed, pass, nextSegment>>

\* cleanupMu is only held for long by a stopper.
StartCleanup(c) ==
  /\ pc[c] = "start"
  /\ stopper = NoCaller
  /\ IF cleanup = NoCaller
     THEN /\ cleanup' = c
          /\ Goto(c, "sleeping")
     ELSE Goto(c, "idle") /\ UNCHANGED cleanup
  /\ UNCHANGED <<stopper, due, owed, pass, nextSegment>>

StopCleanup(c) ==
  /\ pc[c] = "stop"
  /\ stopper = NoCaller
  /\ IF cleanup = NoCaller
     THEN Goto(c, "idle") /\ UNCHANGED stopper
     ELSE Goto(c, "stopping") /\ stopper' = c
  /\ UNCHANGED <<cleanup, due, owed, pass, nextSegment>>

\* Faulty variant of Stopped: the stopped worker stays in Cache.cleanup.
StoppedButKept(c) ==
  /\ stopper = c
  /\ cleanup # NoCaller /\ Waiting(cleanup)
  /\ pc' = [pc EXCEPT ![c] = "idle", ![cleanup] = "idle"]
  /\ stopper' = NoCaller
  /\ UNCHANGED <<cleanup, due, owed, pass, nextSegment>>

\* The worker, in either of its selects, takes the signal and returns; the stopper
\* clears cleanup and unlocks.  The next worker is a new object.
Stopped(c) ==
  /\ stopper = c
  /\ cleanup # NoCaller /\ Waiting(cleanup)
  /\ pc' = [pc EXCEPT ![c] = "idle", ![cleanup] = "idle"]
  /\ stopper' = NoCaller
  /\ cleanup' = NoCaller
  /\ nextSegment' = [nextSegment EXCEPT ![cleanup] = 0]
  /\ UNCHANGED <<due, owed, pass>>
-------------------------------------------------------------------------------
(***************************************************************************)
(* The worker.                                                             *)
(***************************************************************************)
\* The timer fires.  The inner select prefers a stop signal that is being sent.
BeginQuantum(c) ==
  /\ Waiting(c)
  /\ stopper = NoCaller
  /\ BeginWalk(c, nextSegment[c])
  /\ Goto(c, "firstPass")
  /\ UNCHANGED <<cleanup, stopper, due, nextSegment>>

Clean(c) ==
  /\ InQuantum(c)
  /\ queue[c] # <<>>
  /\ remaining[c] > 0
  /\ Visit(c, remaining[c])
  /\ UNCHANGED <<cleanup, stopper, pc, first, nextSegment>>

\* Faulty variant of Interrupted: the next quantum begins where this one did.
InterruptedAndRestarted(c) ==
  /\ InQuantum(c)
  /\ queue[c] # <<>>
  /\ EndWalk(c)
  /\ Goto(c, "pausing")
  /\ UNCHANGED <<cleanup, stopper, due, nextSegment>>

\* The entry budget or, at any moment, the time budget is used up: the next quantum
\* resumes at the segment that was next.
Interrupted(c) ==
  /\ InQuantum(c)
  /\ queue[c] # <<>>
  /\ nextSegment' = [nextSegment EXCEPT ![c] = Head(queue[c])]
  /\ EndWalk(c)
  /\ Goto(c, "pausing")
  /\ UNCHANGED <<cleanup, stopper, due>>

\* Faulty variant of Rotated: the index is not taken around.
RotatedPastTheEnd(c) ==
  IF pc[c] = "firstPass" THEN [nextSegment EXCEPT ![c] = first[c] + 1] ELSE nextSegment

\* After its first pass a quantum rotates the start of the next one.
Rotated(c) ==
  IF pc[c] = "firstPass" THEN [nextSegment EXCEPT ![c] = (first[c] + 1) % NumSegments]
  ELSE nextSegment

\* Segments that have more are visited in another pass.
NextPass(c) ==
  /\ InQuantum(c)
  /\ queue[c] = <<>> /\ pending[c] # <<>>
  /\ nextSegment' = Rotated(c)
  /\ queue' = [queue EXCEPT ![c] = pending[c]]
  /\ pending' = [pending EXCEPT ![c] = <<>>]
  /\ Goto(c, "laterPass")
  /\ UNCHANGED <<cleanup, stopper, due, owed, remaining, first>>

\* Faulty variant of Drained: one pass over the segments is enough.
DrainedInOnePass(c) ==
  /\ InQuantum(c)
  /\ queue[c] = <<>>
  /\ nextSegment' = Rotated(c)
  /\ EndWalk(c)
  /\ Goto(c, "sleeping")
  /\ UNCHANGED <<cleanup, stopper, due>>

\* A quantum that left nothing: the worker sleeps for a whole interval.
Drained(c) ==
  /\ InQuantum(c)
  /\ queue[c] = <<>> /\ pending[c] = <<>>
  /\ nextSegment' = Rotated(c)
  /\ EndWalk(c)
  /\ Goto(c, "sleeping")
  /\ UNCHANGED <<cleanup, stopper, due>>
-------------------------------------------------------------------------------
(***************************************************************************)
(* DeleteExpired.                                                          *)
(***************************************************************************)
BeginDrain(c) ==
  /\ pc[c] = "delete"
  /\ BeginWalk(c, 0)
  /\ Goto(c, "drain")
  /\ UNCHANGED <<cleanup, stopper, due, nextSegment>>

\* Faulty variant of Budget: a budget that is used up is not filled again.
BudgetUnfilled(c) == remaining[c]

\* A budget that is used up in the middle of a pass is filled again.
Budget(c) == IF remaining[c] = 0 THEN EntryBudget ELSE remaining[c]

Drain(c) ==
  /\ pc[c] = "drain"
  /\ queue[c] # <<>>
  /\ Visit(c, Budget(c))
  /\ UNCHANGED <<cleanup, stopper, pc, first, nextSegment>>

\* If any segment has more, all are visited again.
DrainAgain(c) ==
  /\ pc[c] = "drain"
  /\ queue[c] = <<>> /\ pending[c] # <<>>
  /\ queue' = [queue EXCEPT ![c] = From(0)]
  /\ pending' = [pending EXCEPT ![c] = <<>>]
  /\ remaining' = [remaining EXCEPT ![c] = EntryBudget]
  /\ UNCHANGED <<cleanup, stopper, pc, due, owed, first, nextSegment>>

ReturnDrained(c) ==
  /\ pc[c] = "drain"
  /\ queue[c] = <<>> /\ pending[c] = <<>>
  /\ EndWalk(c)
  /\ Goto(c, "idle")
  /\ UNCHANGED <<cleanup, stopper, due, nextSegment>>
-------------------------------------------------------------------------------
(***************************************************************************)
(* The rest of the program.                                                *)
(***************************************************************************)
\* The clock passes the boundary of an item's bucket.
BecomeDue(i) ==
  /\ i \notin due
  /\ due' = due \union {i}
  /\ UNCHANGED <<cleanup, stopper, pc, owed, pass, nextSegment>>

\* A lookup, a mutation or an eviction takes the item away, or it is refreshed.
TakenAway(i) ==
  /\ i \in due
  /\ TakeOut({i})
  /\ UNCHANGED <<cleanup, stopper, pc, pass, nextSegment>>

Work(c) == BeginQuantum(c) \/ Clean(c) \/ Interrupted(c) \/ NextPass(c) \/ Drained(c)

DeleteExpired(c) == BeginDrain(c) \/ Drain(c) \/ DrainAgain(c) \/ ReturnDrained(c)

Next ==
  \/ \E c \in Callers :
       \/ Call(c, "start", "start") \/ Call(c, "stop", "stop")
       \/ Call(c, "deleteExpired", "delete")
       \/ StartCleanup(c) \/ StopCleanup(c) \/ Stopped(c)
       \/ Work(c)
       \/ DeleteExpired(c)
  \/ \E i \in Items : BecomeDue(i) \/ TakenAway(i)

\* The timer fires and goroutines run; a goroutine that waits for cleanupMu gets
\* it in the end, as sync.Mutex prefers one that has waited for long.  Not every
\* quantum loses its whole time budget before it comes to clean a segment.
Fairness ==
  \A c \in Callers :
    /\ SF_vars(StartCleanup(c) \/ StopCleanup(c))
    /\ WF_vars(Stopped(c))
    /\ WF_vars(Work(c)) /\ SF_vars(Clean(c))
    /\ WF_vars(DeleteExpired(c))

Spec == Init /\ [][Next]_vars /\ Fairness
-------------------------------------------------------------------------------
(***************************************************************************)
(* Properties.                                                             *)
(***************************************************************************)

\* Never two workers at once, however StartCleanup and StopCleanup race.
OneWorker ==
  \A c \in Callers : Waiting(c) \/ InQuantum(c) => cleanup = c

\* StopCleanup sends on an unbuffered channel with the mutex held: there is a
\* worker that will receive.
StopsHaveAReceiver ==
  stopper # NoCaller => /\ pc[stopper] = "stopping"
                        /\ cleanup # NoCaller
                        /\ Waiting(cleanup) \/ InQuantum(cleanup)

\* DeleteExpired drains all entries due at the start of the call, whatever the
\* batches, the budget and a worker that cleans at the same time.
DrainsWhatWasDue ==
  [][\A c \in Callers : pc[c] = "drain" /\ pc'[c] = "idle" => owed[c] = {}]_vars

\* A worker that sleeps for its whole interval left nothing of what was due at
\* the cutoff of its quantum.
SleepsOnlyWhenDrained ==
  [][\A c \in Callers : InQuantum(c) /\ pc'[c] = "sleeping" => owed[c] = {}]_vars

\* StopCleanup and DeleteExpired return, and a StartCleanup that finds a worker.
EveryCallEnds ==
  \A c \in Callers :
    pc[c] \in {"start", "stop", "delete"} ~> pc[c] = "idle" \/ cleanup = c

\* While cleanup runs, every segment is visited again and again, wherever the
\* budgets interrupt the quanta.
NoSegmentStarves ==
  \A s \in Segments :
    <>[](cleanup # NoCaller) =>
      []<><<\E c \in Callers : Clean(c) /\ Head(queue[c]) = s>>_vars

Busy ==
  /\ cleanup # NoCaller
  /\ \A s \in Segments : \E i \in due : SegOf[i] = s

\* cleanup.go: "no segment gets a permanent first-mover advantage when many
\* segments repeatedly have work".  While cleanup runs and all segments have
\* work, each is the first of a quantum again and again.
NoPermanentFirstMover ==
  \A s \in Segments :
    <>[]Busy => []<>(\E c \in Callers : InQuantum(c) /\ first[c] = s)
===============================================================================
