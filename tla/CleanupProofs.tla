----------------------------- MODULE CleanupProofs -----------------------------
(***************************************************************************)
(* Proofs about CleanupWorker, for all callers, items, segments, batch     *)
(* sizes and budgets.                                                      *)
(*                                                                         *)
(* The invariant has three parts besides the types: whoever is in one of   *)
(* the worker's phases is the worker Cache.cleanup names and the other way *)
(* around; whoever holds cleanupMu to stop it waits for one; and what a    *)
(* cleaner still owes lies in a segment its pass, or the next one, will    *)
(* visit.                                                                  *)
(***************************************************************************)
EXTENDS CleanupWorker, FiniteSetTheorems, TLAPS

Walking(c) == InQuantum(c) \/ pc[c] = "drain"

\* The segments a cleaner will still come to.
ToVisit(c) == ToSet(queue[c]) \union ToSet(pending[c])

WorkerInv ==
  \A c \in Callers : Waiting(c) \/ InQuantum(c) <=> cleanup = c

StopperInv ==
  /\ \A c \in Callers : pc[c] = "stopping" <=> stopper = c
  /\ stopper # NoCaller => cleanup # NoCaller

OwedInv ==
  \A c \in Callers :
    /\ owed[c] \subseteq due
    /\ ~Walking(c) => owed[c] = {}
    /\ \A i \in owed[c] : SegOf[i] \in ToVisit(c)

CleanupInv ==
  /\ TypeOK
  /\ WorkerInv
  /\ StopperInv
  /\ OwedInv
-------------------------------------------------------------------------------
(***************************************************************************)
(* Sequences of segments.                                                  *)
(***************************************************************************)
LEMMA VisitTheHead ==
  ASSUME NEW S, NEW s \in Seq(S), s # <<>>
  PROVE  /\ Head(s) \in S
         /\ Tail(s) \in Seq(S)
         /\ ToSet(s) = {Head(s)} \union ToSet(Tail(s))
<1>1. /\ Len(s) \in Nat \ {0}
      /\ Head(s) = s[1] /\ Head(s) \in S
      /\ Tail(s) \in Seq(S) /\ Len(Tail(s)) = Len(s) - 1
      /\ \A k \in 1..Len(Tail(s)) : Tail(s)[k] = s[k + 1]
  OBVIOUS
<1>2. DOMAIN s = 1..Len(s) /\ DOMAIN Tail(s) = 1..Len(Tail(s))
  BY <1>1
<1>3. ASSUME NEW k \in 1..Len(s)
      PROVE  s[k] = Head(s) \/ \E j \in 1..Len(Tail(s)) : s[k] = Tail(s)[j]
  <2>1. CASE k = 1
    BY <1>1, <2>1
  <2>2. CASE k # 1
    <3>1. k - 1 \in 1..Len(Tail(s)) /\ s[k] = Tail(s)[k - 1]
      BY <1>1, <1>3, <2>2
    <3>2. QED
      BY <3>1
  <2>3. QED
    BY <2>1, <2>2
<1>4. ASSUME NEW j \in 1..Len(Tail(s))
      PROVE  j + 1 \in 1..Len(s) /\ Tail(s)[j] = s[j + 1]
  BY <1>1
<1>5. 1 \in 1..Len(s)
  BY <1>1
<1>6. QED
  BY <1>1, <1>2, <1>3, <1>4, <1>5 DEF ToSet

LEMMA SetOfAppend ==
  ASSUME NEW S, NEW s \in Seq(S), NEW e \in S
  PROVE  /\ Append(s, e) \in Seq(S)
         /\ ToSet(Append(s, e)) = ToSet(s) \union {e}
<1>1. /\ Append(s, e) \in Seq(S)
      /\ Len(s) \in Nat
      /\ Len(Append(s, e)) = Len(s) + 1
      /\ \A k \in 1..Len(s) : Append(s, e)[k] = s[k]
      /\ Append(s, e)[Len(s) + 1] = e
  OBVIOUS
<1>2. DOMAIN s = 1..Len(s) /\ DOMAIN Append(s, e) = 1..(Len(s) + 1)
  BY <1>1
<1>3. \A k \in 1..(Len(s) + 1) : k \in 1..Len(s) \/ k = Len(s) + 1
  BY <1>1
<1>4. Len(s) + 1 \in 1..(Len(s) + 1) /\ 1..Len(s) \subseteq 1..(Len(s) + 1)
  BY <1>1
<1>5. QED
  BY <1>1, <1>2, <1>3, <1>4 DEF ToSet

LEMMA SetOfEmpty == ToSet(<<>>) = {}
BY DEF ToSet

\* A walk that begins with any segment comes to all of them.
LEMMA FromVisitsAll ==
  ASSUME NEW s \in Segments
  PROVE  From(s) \in Seq(Segments) /\ ToSet(From(s)) = Segments
<1>1. NumSegments \in Nat \ {0} /\ s \in 0..(NumSegments - 1)
  BY CleanupAssumption DEF Segments
<1>2. \A i \in 1..NumSegments : (s + i - 1) % NumSegments \in Segments
  BY <1>1 DEF Segments
<1>3. From(s) \in Seq(Segments) /\ DOMAIN From(s) = 1..NumSegments
  BY <1>1, <1>2 DEF From
<1>4. ASSUME NEW t \in Segments
      PROVE  \E i \in 1..NumSegments : t = (s + i - 1) % NumSegments
  <2>1. t \in 0..(NumSegments - 1)
    BY DEF Segments
  <2>2. CASE t >= s
    <3>1. t - s + 1 \in 1..NumSegments /\ s + (t - s + 1) - 1 = t
      BY <1>1, <2>1, <2>2
    <3>2. t % NumSegments = t
      BY <1>1, <2>1
    <3>3. QED
      BY <3>1, <3>2
  <2>3. CASE t < s
    <3>1. /\ t - s + NumSegments + 1 \in 1..NumSegments
          /\ s + (t - s + NumSegments + 1) - 1 = t + NumSegments
      BY <1>1, <2>1, <2>3
    <3>2. (t + NumSegments) % NumSegments = t
      BY <1>1, <2>1
    <3>3. QED
      BY <3>1, <3>2
  <2>4. QED
    BY <1>1, <2>1, <2>2, <2>3
<1>5. QED
  BY <1>2, <1>3, <1>4 DEF ToSet, From
-------------------------------------------------------------------------------
(***************************************************************************)
(* The walk: its beginning, a batch, its end.                              *)
(***************************************************************************)
PassTypes ==
  /\ owed \in [Callers -> SUBSET Items]
  /\ queue \in [Callers -> Seq(Segments)]
  /\ pending \in [Callers -> Seq(Segments)]
  /\ remaining \in [Callers -> 0..EntryBudget]
  /\ first \in [Callers -> Segments]

LEMMA FirstSegment == 0 \in Segments
BY CleanupAssumption DEF Segments

LEMMA BeginWalkKeeps ==
  ASSUME TypeOK, OwedInv, NEW c \in Callers, NEW s \in Segments, BeginWalk(c, s),
         UNCHANGED due, Walking(c)', \A d \in Callers \ {c} : Walking(d)' <=> Walking(d)
  PROVE  PassTypes' /\ OwedInv'
<1>1. From(s) \in Seq(Segments) /\ ToSet(From(s)) = Segments
  BY FromVisitsAll
<1>2. <<>> \in Seq(Segments) /\ EntryBudget \in 0..EntryBudget
  BY CleanupAssumption
<1>3. PassTypes'
  BY <1>1, <1>2 DEF PassTypes, TypeOK, BeginWalk
<1>4. /\ owed'[c] = due /\ queue'[c] = From(s)
      /\ \A d \in Callers \ {c} :
           owed'[d] = owed[d] /\ queue'[d] = queue[d] /\ pending'[d] = pending[d]
  BY DEF TypeOK, BeginWalk
<1>5. ASSUME NEW i \in Items PROVE SegOf[i] \in Segments
  BY CleanupAssumption
<1>6. ASSUME NEW d \in Callers
      PROVE  /\ owed'[d] \subseteq due'
             /\ ~Walking(d)' => owed'[d] = {}
             /\ \A i \in owed'[d] : SegOf[i] \in ToVisit(d)'
  <2>1. CASE d = c
    BY <1>1, <1>4, <1>5, <2>1 DEF TypeOK, ToVisit
  <2>2. CASE d # c
    BY <1>4, <2>2 DEF OwedInv, ToVisit
  <2>3. QED
    BY <2>1, <2>2
<1>7. QED
  BY <1>3, <1>6 DEF OwedInv

LEMMA EndWalkKeeps ==
  ASSUME TypeOK, OwedInv, NEW c \in Callers, EndWalk(c), UNCHANGED due,
         \A d \in Callers \ {c} : Walking(d)' <=> Walking(d)
  PROVE  PassTypes' /\ OwedInv'
<1>1. <<>> \in Seq(Segments) /\ 0 \in 0..EntryBudget
  BY CleanupAssumption
<1>2. PassTypes'
  BY <1>1, FirstSegment DEF PassTypes, TypeOK, EndWalk
<1>3. /\ owed'[c] = {}
      /\ \A d \in Callers \ {c} :
           owed'[d] = owed[d] /\ queue'[d] = queue[d] /\ pending'[d] = pending[d]
  BY DEF TypeOK, EndWalk
<1>4. ASSUME NEW d \in Callers
      PROVE  /\ owed'[d] \subseteq due'
             /\ ~Walking(d)' => owed'[d] = {}
             /\ \A i \in owed'[d] : SegOf[i] \in ToVisit(d)'
  <2>1. CASE d = c
    BY <1>3, <2>1
  <2>2. CASE d # c
    BY <1>3, <2>2 DEF OwedInv, ToVisit
  <2>3. QED
    BY <2>1, <2>2
<1>5. QED
  BY <1>2, <1>4 DEF OwedInv

\* A batch takes no more than the budget, and a segment that still holds something
\* owed stays among those to visit: its limit was positive, so it is put back.
LEMMA VisitKeeps ==
  ASSUME TypeOK, OwedInv, NEW c \in Callers, NEW budget \in 1..EntryBudget,
         Walking(c), queue[c] # <<>>, Visit(c, budget), UNCHANGED <<pc, first>>
  PROVE  PassTypes' /\ due' \subseteq Items /\ OwedInv'
<1> DEFINE s == Head(queue[c])
           limit == SmallerOf(BatchSize, budget)
<1>1. PICK items \in SUBSET OwedIn(c, s) :
        /\ Cardinality(items) = SmallerOf(limit, Cardinality(OwedIn(c, s)))
        /\ TakeOut(items)
        /\ queue' = [queue EXCEPT ![c] = Tail(@)]
        /\ pending' = [pending EXCEPT ![c] =
             IF limit > 0 /\ items # OwedIn(c, s) THEN Append(@, s) ELSE @]
        /\ remaining' = [remaining EXCEPT ![c] = budget - Cardinality(items)]
  BY DEF Visit
<1>2. limit \in 1..budget
  BY CleanupAssumption DEF SmallerOf
<1>3. Cardinality(items) \in 0..limit
  <2>1. OwedIn(c, s) \subseteq Items
    BY DEF OwedIn, TypeOK
  <2>2. Cardinality(OwedIn(c, s)) \in Nat
    BY <2>1, CleanupAssumption, FS_Subset, FS_CardinalityType
  <2>3. QED
    BY <1>1, <1>2, <2>2 DEF SmallerOf
<1>4. /\ s \in Segments /\ Tail(queue[c]) \in Seq(Segments)
      /\ ToSet(queue[c]) = {s} \union ToSet(Tail(queue[c]))
  BY VisitTheHead DEF TypeOK
<1>5. /\ Append(pending[c], s) \in Seq(Segments)
      /\ ToSet(Append(pending[c], s)) = ToSet(pending[c]) \union {s}
  BY <1>4, SetOfAppend DEF TypeOK
<1>6. PassTypes' /\ due' \subseteq Items
  <2>1. budget - Cardinality(items) \in 0..EntryBudget
    BY <1>2, <1>3, CleanupAssumption
  <2>2. owed' \in [Callers -> SUBSET Items] /\ due' \subseteq Items
    BY <1>1 DEF TypeOK, TakeOut
  <2>3. queue' \in [Callers -> Seq(Segments)] /\ pending' \in [Callers -> Seq(Segments)]
    BY <1>1, <1>4, <1>5 DEF TypeOK
  <2>4. QED
    BY <1>1, <2>1, <2>2, <2>3 DEF PassTypes, TypeOK
<1>7. \A d \in Callers : owed'[d] = owed[d] \ items
  BY <1>1 DEF TakeOut
<1>8. \A d \in Callers : Walking(d)' <=> Walking(d)
  BY DEF Walking, InQuantum
<1>9. ASSUME NEW d \in Callers, NEW i \in owed'[d]
      PROVE  SegOf[i] \in ToVisit(d)'
  <2>1. i \in owed[d] /\ i \notin items /\ SegOf[i] \in ToVisit(d)
    BY <1>7, <1>9 DEF OwedInv
  <2>2. CASE d # c
    <3>1. queue'[d] = queue[d] /\ pending'[d] = pending[d]
      BY <1>1, <2>2 DEF TypeOK
    <3>2. QED
      BY <2>1, <3>1 DEF ToVisit
  <2>3. CASE d = c
    <3>1. queue'[c] = Tail(queue[c])
      BY <1>1 DEF TypeOK
    <3>2. CASE SegOf[i] = s
      <4>1. i \in OwedIn(c, s)
        BY <2>1, <2>3, <3>2 DEF OwedIn
      <4>2. items # OwedIn(c, s) /\ limit > 0
        BY <1>2, <2>1, <4>1
      <4>3. pending'[c] = Append(pending[c], s)
        BY <1>1, <4>2 DEF TypeOK
      <4>4. QED
        BY <1>5, <2>3, <3>2, <4>3 DEF ToVisit
    <3>3. CASE SegOf[i] # s
      <4>1. ToSet(pending[c]) \subseteq ToSet(pending'[c])
        BY <1>1, <1>5 DEF TypeOK
      <4>2. QED
        BY <1>4, <2>1, <2>3, <3>1, <3>3, <4>1 DEF ToVisit
    <3>4. QED
      BY <3>2, <3>3
  <2>4. QED
    BY <2>2, <2>3
<1>10. \A d \in Callers : owed'[d] \subseteq due' /\ (~Walking(d)' => owed'[d] = {})
  BY <1>1, <1>7, <1>8 DEF OwedInv, TakeOut
<1>11. QED
  BY <1>6, <1>9, <1>10 DEF OwedInv
-------------------------------------------------------------------------------
(***************************************************************************)
(* The steps.                                                              *)
(***************************************************************************)
LEMMA NotWalkingKeeps ==
  ASSUME TypeOK, OwedInv, UNCHANGED <<due, owed, pass>>,
         \A d \in Callers : Walking(d)' <=> Walking(d)
  PROVE  PassTypes' /\ due' \subseteq Items /\ OwedInv'
<1>1. ASSUME NEW d \in Callers
      PROVE  owed'[d] = owed[d] /\ ToVisit(d)' = ToVisit(d)
  BY DEF pass, ToVisit
<1>2. OwedInv'
  BY <1>1 DEF OwedInv
<1>3. QED
  BY <1>2 DEF TypeOK, PassTypes, pass

LEMMA CallKeeps ==
  ASSUME CleanupInv, NEW c \in Callers, NEW operation,
         NEW phase \in {"start", "stop", "delete"}, Call(c, operation, phase)
  PROVE  CleanupInv'
<1>1. /\ TypeOK /\ WorkerInv /\ StopperInv /\ OwedInv
      /\ pc[c] = "idle" /\ pc' = [pc EXCEPT ![c] = phase]
      /\ UNCHANGED <<cleanup, stopper, due, owed, pass, nextSegment>>
  BY DEF CleanupInv, Call, Goto
<1>2. pc' \in [Callers -> Phases] /\ pc'[c] = phase
      /\ \A d \in Callers \ {c} : pc'[d] = pc[d]
  BY <1>1 DEF TypeOK, Phases
<1>3. \A d \in Callers : Walking(d)' <=> Walking(d)
  BY <1>1, <1>2 DEF Walking, InQuantum
<1>4. PassTypes' /\ due' \subseteq Items /\ OwedInv'
  BY <1>1, <1>3, NotWalkingKeeps
<1>5. TypeOK'
  BY <1>1, <1>2, <1>4 DEF TypeOK, PassTypes
<1>6. WorkerInv'
  BY <1>1, <1>2 DEF WorkerInv, Waiting, InQuantum
<1>7. StopperInv'
  BY <1>1, <1>2 DEF StopperInv
<1>8. QED
  BY <1>4, <1>5, <1>6, <1>7 DEF CleanupInv

LEMMA StartCleanupKeeps ==
  ASSUME CleanupInv, NEW c \in Callers, StartCleanup(c)
  PROVE  CleanupInv'
<1>1. /\ TypeOK /\ WorkerInv /\ StopperInv /\ OwedInv
      /\ pc[c] = "start" /\ stopper = NoCaller
      /\ UNCHANGED <<stopper, due, owed, pass, nextSegment>>
  BY DEF CleanupInv, StartCleanup
<1>2. \/ /\ cleanup = NoCaller /\ cleanup' = c
         /\ pc' = [pc EXCEPT ![c] = "sleeping"] /\ pc'[c] = "sleeping"
      \/ /\ cleanup # NoCaller /\ cleanup' = cleanup
         /\ pc' = [pc EXCEPT ![c] = "idle"] /\ pc'[c] = "idle"
  BY <1>1 DEF StartCleanup, Goto, TypeOK
<1>3. pc' \in [Callers -> Phases] /\ \A d \in Callers \ {c} : pc'[d] = pc[d]
  BY <1>1, <1>2 DEF TypeOK, Phases
<1>4. \A d \in Callers : Walking(d)' <=> Walking(d)
  BY <1>1, <1>2, <1>3 DEF Walking, InQuantum
<1>5. PassTypes' /\ due' \subseteq Items /\ OwedInv'
  BY <1>1, <1>4, NotWalkingKeeps
<1>6. TypeOK'
  BY <1>1, <1>2, <1>3, <1>5 DEF TypeOK, PassTypes
<1>7. WorkerInv'
  BY <1>1, <1>2, <1>3, CleanupAssumption DEF WorkerInv, Waiting, InQuantum
<1>8. StopperInv'
  BY <1>1, <1>2, <1>3, CleanupAssumption DEF StopperInv
<1>9. QED
  BY <1>5, <1>6, <1>7, <1>8 DEF CleanupInv

LEMMA StopCleanupKeeps ==
  ASSUME CleanupInv, NEW c \in Callers, StopCleanup(c)
  PROVE  CleanupInv'
<1>1. /\ TypeOK /\ WorkerInv /\ StopperInv /\ OwedInv
      /\ pc[c] = "stop" /\ stopper = NoCaller
      /\ UNCHANGED <<cleanup, due, owed, pass, nextSegment>>
  BY DEF CleanupInv, StopCleanup
<1>2. \/ /\ cleanup = NoCaller /\ stopper' = stopper
         /\ pc' = [pc EXCEPT ![c] = "idle"] /\ pc'[c] = "idle"
      \/ /\ cleanup # NoCaller /\ stopper' = c
         /\ pc' = [pc EXCEPT ![c] = "stopping"] /\ pc'[c] = "stopping"
  BY <1>1 DEF StopCleanup, Goto, TypeOK
<1>3. pc' \in [Callers -> Phases] /\ \A d \in Callers \ {c} : pc'[d] = pc[d]
  BY <1>1, <1>2 DEF TypeOK, Phases
<1>4. \A d \in Callers : Walking(d)' <=> Walking(d)
  BY <1>1, <1>2, <1>3 DEF Walking, InQuantum
<1>5. PassTypes' /\ due' \subseteq Items /\ OwedInv'
  BY <1>1, <1>4, NotWalkingKeeps
<1>6. TypeOK'
  BY <1>1, <1>2, <1>3, <1>5 DEF TypeOK, PassTypes
<1>7. WorkerInv'
  BY <1>1, <1>2, <1>3 DEF WorkerInv, Waiting, InQuantum
<1>8. StopperInv'
  BY <1>1, <1>2, <1>3, CleanupAssumption DEF StopperInv
<1>9. QED
  BY <1>5, <1>6, <1>7, <1>8 DEF CleanupInv

LEMMA StoppedKeeps ==
  ASSUME CleanupInv, NEW c \in Callers, Stopped(c)
  PROVE  CleanupInv'
<1>1. /\ TypeOK /\ WorkerInv /\ StopperInv /\ OwedInv
      /\ stopper = c /\ cleanup # NoCaller /\ Waiting(cleanup)
      /\ pc' = [pc EXCEPT ![c] = "idle", ![cleanup] = "idle"]
      /\ stopper' = NoCaller /\ cleanup' = NoCaller
      /\ nextSegment' = [nextSegment EXCEPT ![cleanup] = 0]
      /\ UNCHANGED <<due, owed, pass>>
  BY DEF CleanupInv, Stopped
<1>2. cleanup \in Callers /\ pc[c] = "stopping" /\ pc[cleanup] \in {"sleeping", "pausing"}
  BY <1>1 DEF TypeOK, StopperInv, Waiting
<1>3. /\ pc' \in [Callers -> Phases] /\ pc'[c] = "idle" /\ pc'[cleanup] = "idle"
      /\ \A d \in Callers \ {c, cleanup} : pc'[d] = pc[d]
  BY <1>1, <1>2 DEF TypeOK, Phases
<1>4. \A d \in Callers : Walking(d)' <=> Walking(d)
  BY <1>2, <1>3 DEF Walking, InQuantum
<1>5. PassTypes' /\ due' \subseteq Items /\ OwedInv'
  BY <1>1, <1>4, NotWalkingKeeps
<1>6. TypeOK'
  BY <1>1, <1>3, <1>5, FirstSegment DEF TypeOK, PassTypes
<1>7. WorkerInv'
  BY <1>1, <1>3, CleanupAssumption DEF WorkerInv, Waiting, InQuantum
<1>8. StopperInv'
  BY <1>1, <1>2, <1>3, CleanupAssumption DEF StopperInv
<1>9. QED
  BY <1>5, <1>6, <1>7, <1>8 DEF CleanupInv

\* A step between the phases of a worker, or between those of another call, that
\* leaves Cache.cleanup and the mutex alone.
LEMMA SameRole ==
  ASSUME CleanupInv, NEW c \in Callers, NEW phase \in Phases, Goto(c, phase),
         UNCHANGED <<cleanup, stopper>>, pc[c] # "stopping", phase # "stopping",
         Waiting(c) \/ InQuantum(c) <=> phase \in {"sleeping", "pausing", "firstPass", "laterPass"}
  PROVE  /\ pc' \in [Callers -> Phases] /\ pc'[c] = phase
         /\ \A d \in Callers \ {c} : pc'[d] = pc[d]
         /\ WorkerInv' /\ StopperInv'
<1>1. /\ pc' \in [Callers -> Phases] /\ pc'[c] = phase
      /\ \A d \in Callers \ {c} : pc'[d] = pc[d]
  BY DEF CleanupInv, TypeOK, Goto
<1>2. WorkerInv'
  BY <1>1 DEF CleanupInv, WorkerInv, Waiting, InQuantum
<1>3. StopperInv'
  BY <1>1 DEF CleanupInv, StopperInv
<1>4. QED
  BY <1>1, <1>2, <1>3

\* A batch changes neither phases nor roles.
LEMMA SamePhases ==
  ASSUME CleanupInv, UNCHANGED <<cleanup, stopper, pc, nextSegment>>,
         PassTypes', due' \subseteq Items, OwedInv'
  PROVE  CleanupInv'
<1>1. TypeOK'
  BY DEF CleanupInv, TypeOK, PassTypes
<1>2. WorkerInv' /\ StopperInv'
  BY DEF CleanupInv, WorkerInv, StopperInv, Waiting, InQuantum
<1>3. QED
  BY <1>1, <1>2 DEF CleanupInv

LEMMA BeginQuantumKeeps ==
  ASSUME CleanupInv, NEW c \in Callers, BeginQuantum(c)
  PROVE  CleanupInv'
<1>1. /\ TypeOK /\ OwedInv /\ Waiting(c) /\ nextSegment[c] \in Segments
      /\ BeginWalk(c, nextSegment[c]) /\ Goto(c, "firstPass")
      /\ UNCHANGED <<cleanup, stopper, due, nextSegment>>
  BY DEF CleanupInv, BeginQuantum, TypeOK
<1>2. /\ pc' \in [Callers -> Phases] /\ pc'[c] = "firstPass"
      /\ \A d \in Callers \ {c} : pc'[d] = pc[d]
      /\ WorkerInv' /\ StopperInv'
  BY <1>1, SameRole DEF Waiting, Phases
<1>3. Walking(c)' /\ \A d \in Callers \ {c} : Walking(d)' <=> Walking(d)
  BY <1>2 DEF Walking, InQuantum
<1>4. PassTypes' /\ OwedInv'
  BY <1>1, <1>3, BeginWalkKeeps
<1>5. TypeOK'
  BY <1>1, <1>2, <1>4 DEF TypeOK, PassTypes
<1>6. QED
  BY <1>2, <1>4, <1>5 DEF CleanupInv

LEMMA CleanKeeps ==
  ASSUME CleanupInv, NEW c \in Callers, Clean(c)
  PROVE  CleanupInv'
<1>1. /\ TypeOK /\ OwedInv /\ Walking(c) /\ queue[c] # <<>>
      /\ remaining[c] \in 1..EntryBudget
      /\ Visit(c, remaining[c])
      /\ UNCHANGED <<cleanup, stopper, pc, first, nextSegment>>
  BY CleanupAssumption DEF CleanupInv, Clean, Walking, TypeOK
<1>2. PassTypes' /\ due' \subseteq Items /\ OwedInv'
  BY <1>1, VisitKeeps
<1>3. QED
  BY <1>1, <1>2, SamePhases

LEMMA NextStartIsASegment ==
  ASSUME TypeOK, NEW c \in Callers
  PROVE  Rotated(c) \in [Callers -> Segments]
<1>1. first[c] \in Segments /\ nextSegment \in [Callers -> Segments]
  BY DEF TypeOK
<1>2. (first[c] + 1) % NumSegments \in Segments
  BY <1>1, CleanupAssumption DEF Segments
<1>3. QED
  BY <1>1, <1>2 DEF Rotated

\* A quantum that ends, interrupted or not, leaves a worker that waits.
LEMMA QuantumEnds ==
  ASSUME CleanupInv, NEW c \in Callers, InQuantum(c), EndWalk(c),
         NEW phase \in {"sleeping", "pausing"}, Goto(c, phase),
         nextSegment' \in [Callers -> Segments], UNCHANGED <<cleanup, stopper, due>>
  PROVE  CleanupInv'
<1>1. TypeOK /\ OwedInv
  BY DEF CleanupInv
<1>2. /\ pc' \in [Callers -> Phases] /\ pc'[c] = phase
      /\ \A d \in Callers \ {c} : pc'[d] = pc[d]
      /\ WorkerInv' /\ StopperInv'
  BY SameRole DEF InQuantum, Phases
<1>3. \A d \in Callers \ {c} : Walking(d)' <=> Walking(d)
  BY <1>2 DEF Walking, InQuantum
<1>4. PassTypes' /\ OwedInv'
  BY <1>1, <1>3, EndWalkKeeps
<1>5. TypeOK'
  BY <1>1, <1>2, <1>4 DEF TypeOK, PassTypes
<1>6. QED
  BY <1>2, <1>4, <1>5 DEF CleanupInv

LEMMA InterruptedKeeps ==
  ASSUME CleanupInv, NEW c \in Callers, Interrupted(c)
  PROVE  CleanupInv'
<1>1. Head(queue[c]) \in Segments
  BY VisitTheHead DEF CleanupInv, TypeOK, Interrupted
<1>2. nextSegment' \in [Callers -> Segments]
  BY <1>1 DEF CleanupInv, TypeOK, Interrupted
<1>3. QED
  BY <1>2, QuantumEnds DEF Interrupted

LEMMA DrainedKeeps ==
  ASSUME CleanupInv, NEW c \in Callers, Drained(c)
  PROVE  CleanupInv'
<1>1. nextSegment' \in [Callers -> Segments]
  BY NextStartIsASegment DEF CleanupInv, Drained
<1>2. QED
  BY <1>1, QuantumEnds DEF Drained

\* Another pass visits exactly what the last one put back.
LEMMA NextPassKeeps ==
  ASSUME CleanupInv, NEW c \in Callers, NextPass(c)
  PROVE  CleanupInv'
<1>1. /\ TypeOK /\ OwedInv /\ InQuantum(c) /\ queue[c] = <<>>
      /\ nextSegment' = Rotated(c)
      /\ queue' = [queue EXCEPT ![c] = pending[c]]
      /\ pending' = [pending EXCEPT ![c] = <<>>]
      /\ Goto(c, "laterPass")
      /\ UNCHANGED <<cleanup, stopper, due, owed, remaining, first>>
  BY DEF CleanupInv, NextPass
<1>2. /\ pc' \in [Callers -> Phases] /\ pc'[c] = "laterPass"
      /\ \A d \in Callers \ {c} : pc'[d] = pc[d]
      /\ WorkerInv' /\ StopperInv'
  BY <1>1, SameRole DEF InQuantum, Phases
<1>3. \A d \in Callers : Walking(d)' <=> Walking(d)
  BY <1>1, <1>2 DEF Walking, InQuantum
<1>4. nextSegment' \in [Callers -> Segments]
  BY <1>1, NextStartIsASegment
<1>5. <<>> \in Seq(Segments)
  OBVIOUS
<1>6. TypeOK'
  BY <1>1, <1>2, <1>4, <1>5 DEF TypeOK
<1>7. ASSUME NEW d \in Callers
      PROVE  ToVisit(d)' = ToVisit(d)
  <2>1. CASE d = c
    BY <1>1, <2>1, SetOfEmpty DEF TypeOK, ToVisit
  <2>2. CASE d # c
    BY <1>1, <2>2 DEF TypeOK, ToVisit
  <2>3. QED
    BY <2>1, <2>2
<1>8. OwedInv'
  BY <1>1, <1>3, <1>7 DEF OwedInv
<1>9. QED
  BY <1>2, <1>6, <1>8 DEF CleanupInv

LEMMA BeginDrainKeeps ==
  ASSUME CleanupInv, NEW c \in Callers, BeginDrain(c)
  PROVE  CleanupInv'
<1>1. /\ TypeOK /\ OwedInv /\ pc[c] = "delete"
      /\ BeginWalk(c, 0) /\ Goto(c, "drain")
      /\ UNCHANGED <<cleanup, stopper, due, nextSegment>>
  BY DEF CleanupInv, BeginDrain
<1>2. /\ pc' \in [Callers -> Phases] /\ pc'[c] = "drain"
      /\ \A d \in Callers \ {c} : pc'[d] = pc[d]
      /\ WorkerInv' /\ StopperInv'
  BY <1>1, SameRole DEF Waiting, InQuantum, Phases
<1>3. Walking(c)' /\ \A d \in Callers \ {c} : Walking(d)' <=> Walking(d)
  BY <1>2 DEF Walking, InQuantum
<1>4. PassTypes' /\ OwedInv'
  BY <1>1, <1>3, FirstSegment, BeginWalkKeeps
<1>5. TypeOK'
  BY <1>1, <1>2, <1>4 DEF TypeOK, PassTypes
<1>6. QED
  BY <1>2, <1>4, <1>5 DEF CleanupInv

\* The budget of DeleteExpired is never used up when a segment is visited.
LEMMA DrainKeeps ==
  ASSUME CleanupInv, NEW c \in Callers, Drain(c)
  PROVE  CleanupInv'
<1>1. /\ TypeOK /\ OwedInv /\ Walking(c) /\ queue[c] # <<>>
      /\ Visit(c, Budget(c))
      /\ UNCHANGED <<cleanup, stopper, pc, first, nextSegment>>
  BY DEF CleanupInv, Drain, Walking
<1>2. Budget(c) \in 1..EntryBudget
  BY <1>1, CleanupAssumption DEF TypeOK, Budget
<1>3. PassTypes' /\ due' \subseteq Items /\ OwedInv'
  BY <1>1, <1>2, VisitKeeps
<1>4. QED
  BY <1>1, <1>3, SamePhases

LEMMA DrainAgainKeeps ==
  ASSUME CleanupInv, NEW c \in Callers, DrainAgain(c)
  PROVE  CleanupInv'
<1>1. /\ TypeOK /\ OwedInv
      /\ queue' = [queue EXCEPT ![c] = From(0)]
      /\ pending' = [pending EXCEPT ![c] = <<>>]
      /\ remaining' = [remaining EXCEPT ![c] = EntryBudget]
      /\ UNCHANGED <<cleanup, stopper, pc, due, owed, first, nextSegment>>
  BY DEF CleanupInv, DrainAgain
<1>2. From(0) \in Seq(Segments) /\ ToSet(From(0)) = Segments
  BY FirstSegment, FromVisitsAll
<1>3. <<>> \in Seq(Segments) /\ EntryBudget \in 0..EntryBudget
  BY CleanupAssumption
<1>4. PassTypes' /\ due' \subseteq Items
  BY <1>1, <1>2, <1>3 DEF TypeOK, PassTypes
<1>5. ASSUME NEW d \in Callers, NEW i \in owed[d]
      PROVE  SegOf[i] \in ToVisit(d)'
  <2>1. SegOf[i] \in Segments
    BY <1>1, CleanupAssumption DEF TypeOK
  <2>2. CASE d = c
    BY <1>1, <1>2, <2>1, <2>2 DEF TypeOK, ToVisit
  <2>3. CASE d # c
    BY <1>1, <2>3 DEF TypeOK, OwedInv, ToVisit
  <2>4. QED
    BY <2>2, <2>3
<1>6. \A d \in Callers : Walking(d)' <=> Walking(d)
  BY <1>1 DEF Walking, InQuantum
<1>7. OwedInv'
  BY <1>1, <1>5, <1>6 DEF OwedInv
<1>8. QED
  BY <1>1, <1>4, <1>7, SamePhases

LEMMA ReturnDrainedKeeps ==
  ASSUME CleanupInv, NEW c \in Callers, ReturnDrained(c)
  PROVE  CleanupInv'
<1>1. /\ TypeOK /\ OwedInv /\ pc[c] = "drain"
      /\ EndWalk(c) /\ Goto(c, "idle")
      /\ UNCHANGED <<cleanup, stopper, due, nextSegment>>
  BY DEF CleanupInv, ReturnDrained
<1>2. /\ pc' \in [Callers -> Phases] /\ pc'[c] = "idle"
      /\ \A d \in Callers \ {c} : pc'[d] = pc[d]
      /\ WorkerInv' /\ StopperInv'
  BY <1>1, SameRole DEF Waiting, InQuantum, Phases
<1>3. \A d \in Callers \ {c} : Walking(d)' <=> Walking(d)
  BY <1>2 DEF Walking, InQuantum
<1>4. PassTypes' /\ OwedInv'
  BY <1>1, <1>3, EndWalkKeeps
<1>5. TypeOK'
  BY <1>1, <1>2, <1>4 DEF TypeOK, PassTypes
<1>6. QED
  BY <1>2, <1>4, <1>5 DEF CleanupInv

LEMMA BecomeDueKeeps ==
  ASSUME CleanupInv, NEW i \in Items, BecomeDue(i)
  PROVE  CleanupInv'
<1>1. /\ TypeOK /\ OwedInv /\ due' = due \union {i}
      /\ UNCHANGED <<cleanup, stopper, pc, owed, pass, nextSegment>>
  BY DEF CleanupInv, BecomeDue
<1>2. PassTypes' /\ due' \subseteq Items
  BY <1>1 DEF TypeOK, PassTypes, pass
<1>3. OwedInv'
  BY <1>1 DEF OwedInv, Walking, InQuantum, ToVisit, pass
<1>4. QED
  BY <1>1, <1>2, <1>3, SamePhases

LEMMA TakenAwayKeeps ==
  ASSUME CleanupInv, NEW i \in Items, TakenAway(i)
  PROVE  CleanupInv'
<1>1. /\ TypeOK /\ OwedInv /\ due' = due \ {i}
      /\ owed' = [c \in Callers |-> owed[c] \ {i}]
      /\ UNCHANGED <<cleanup, stopper, pc, pass, nextSegment>>
  BY DEF CleanupInv, TakenAway, TakeOut
<1>2. PassTypes' /\ due' \subseteq Items
  BY <1>1 DEF TypeOK, PassTypes, pass
<1>3. OwedInv'
  BY <1>1 DEF OwedInv, Walking, InQuantum, ToVisit, pass
<1>4. QED
  BY <1>1, <1>2, <1>3, SamePhases
-------------------------------------------------------------------------------
(***************************************************************************)
(* The theorems.                                                           *)
(***************************************************************************)
LEMMA CleanupInvInitially == Init => CleanupInv
<1> SUFFICES ASSUME Init PROVE CleanupInv
  OBVIOUS
<1>1. /\ <<>> \in Seq(Segments) /\ 0 \in 0..EntryBudget /\ 0 \in Segments
      /\ NoCaller \notin Callers
  BY CleanupAssumption, FirstSegment
<1>2. TypeOK
  BY <1>1 DEF Init, TypeOK, Phases
<1>3. WorkerInv /\ StopperInv
  BY <1>1 DEF Init, WorkerInv, StopperInv, Waiting, InQuantum
<1>4. OwedInv
  BY DEF Init, OwedInv
<1>5. QED
  BY <1>2, <1>3, <1>4 DEF CleanupInv

LEMMA NextKeepsCleanupInv == CleanupInv /\ [Next]_vars => CleanupInv'
<1> SUFFICES ASSUME CleanupInv, [Next]_vars PROVE CleanupInv'
  OBVIOUS
<1>1. CASE UNCHANGED vars
  <2>1. PassTypes' /\ due' \subseteq Items /\ OwedInv'
    <3>1. \A d \in Callers : Walking(d)' <=> Walking(d)
      BY <1>1 DEF vars, Walking, InQuantum
    <3>2. QED
      BY <1>1, <3>1, NotWalkingKeeps DEF CleanupInv, vars
  <2>2. QED
    BY <1>1, <2>1, SamePhases DEF vars
<1>2. ASSUME NEW c \in Callers,
             Call(c, "start", "start") \/ Call(c, "stop", "stop")
               \/ Call(c, "deleteExpired", "delete")
      PROVE  CleanupInv'
  BY <1>2, CallKeeps
<1>3. ASSUME NEW c \in Callers, StartCleanup(c) \/ StopCleanup(c) \/ Stopped(c)
      PROVE  CleanupInv'
  BY <1>3, StartCleanupKeeps, StopCleanupKeeps, StoppedKeeps
<1>4. ASSUME NEW c \in Callers, Work(c)
      PROVE  CleanupInv'
  BY <1>4, BeginQuantumKeeps, CleanKeeps, InterruptedKeeps, NextPassKeeps, DrainedKeeps DEF Work
<1>5. ASSUME NEW c \in Callers, DeleteExpired(c)
      PROVE  CleanupInv'
  BY <1>5, BeginDrainKeeps, DrainKeeps, DrainAgainKeeps, ReturnDrainedKeeps DEF DeleteExpired
<1>6. ASSUME NEW i \in Items, BecomeDue(i) \/ TakenAway(i)
      PROVE  CleanupInv'
  BY <1>6, BecomeDueKeeps, TakenAwayKeeps
<1>7. QED
  BY <1>1, <1>2, <1>3, <1>4, <1>5, <1>6 DEF Next

\* The inductive invariant holds of every execution of the cleanup code.
THEOREM CleanupInvariant == Spec => []CleanupInv
BY CleanupInvInitially, NextKeepsCleanupInv, PTL DEF Spec

\* Budgets, segment indices and phases keep their types: no remaining budget below
\* zero in processCleanupSegment, no start beyond the last segment in runQuantum.
THEOREM TypesHold == Spec => []TypeOK
<1>1. CleanupInv => TypeOK
  BY DEF CleanupInv
<1>2. QED
  BY <1>1, CleanupInvariant, PTL

\* However calls of StartCleanup and StopCleanup race, whoever runs the worker's
\* loop is the worker that Cache.cleanup names: never two at once.
THEOREM NeverTwoWorkers == Spec => []OneWorker
<1>1. CleanupInv => OneWorker
  BY DEF CleanupInv, WorkerInv, OneWorker
<1>2. QED
  BY <1>1, CleanupInvariant, PTL

\* StopCleanup, which sends on stopCh with cleanupMu held, always has a worker in
\* its loop that will receive.
THEOREM StopsAreReceived == Spec => []StopsHaveAReceiver
<1>1. CleanupInv => StopsHaveAReceiver
  <2> SUFFICES ASSUME CleanupInv, stopper # NoCaller PROVE StopsHaveAReceiver
    BY DEF StopsHaveAReceiver
  <2>1. stopper \in Callers /\ cleanup # NoCaller /\ cleanup \in Callers
    BY DEF CleanupInv, TypeOK, StopperInv
  <2>2. pc[stopper] = "stopping" /\ (Waiting(cleanup) \/ InQuantum(cleanup))
    BY <2>1 DEF CleanupInv, StopperInv, WorkerInv
  <2>3. QED
    BY <2>1, <2>2 DEF StopsHaveAReceiver
<1>2. QED
  BY <1>1, CleanupInvariant, PTL

\* A cleaner with nothing left to visit owes nothing.
LEMMA NothingToVisitNothingOwed ==
  ASSUME CleanupInv, NEW c \in Callers, queue[c] = <<>>, pending[c] = <<>>
  PROVE  owed[c] = {}
<1>1. ToVisit(c) = {}
  BY SetOfEmpty DEF ToVisit
<1>2. QED
  BY <1>1 DEF CleanupInv, OwedInv

\* A caller in its drain becomes idle only by returning.
LEMMA OnlyReturnsFromDrain ==
  ASSUME CleanupInv, [Next]_vars, NEW c \in Callers, pc[c] = "drain", pc'[c] = "idle"
  PROVE  ReturnDrained(c)
<1>1. /\ pc \in [Callers -> Phases] /\ StopperInv
      /\ \A d \in Callers : pc[d] = "stopping" <=> stopper = d
  BY DEF CleanupInv, TypeOK, StopperInv
<1>2. pc' # pc
  OBVIOUS
<1>3. ASSUME NEW d \in Callers, NEW phase, Goto(d, phase), pc[d] # "drain"
      PROVE  FALSE
  BY <1>1, <1>3 DEF Goto
<1>4. ASSUME NEW d \in Callers, Stopped(d)
      PROVE  FALSE
  BY <1>1, <1>4 DEF Stopped, Waiting
<1>5. ASSUME NEW d \in Callers, DeleteExpired(d)
      PROVE  ReturnDrained(c)
  BY <1>1, <1>2, <1>3, <1>5
     DEF DeleteExpired, BeginDrain, Drain, DrainAgain, ReturnDrained, Goto
<1>6. ASSUME NEW d \in Callers, Work(d)
      PROVE  FALSE
  BY <1>2, <1>3, <1>6
     DEF Work, BeginQuantum, Clean, Interrupted, NextPass, Drained, Waiting, InQuantum
<1>7. ASSUME NEW d \in Callers, StartCleanup(d) \/ StopCleanup(d)
      PROVE  FALSE
  BY <1>3, <1>7 DEF StartCleanup, StopCleanup
<1>8. ASSUME NEW d \in Callers,
             Call(d, "start", "start") \/ Call(d, "stop", "stop")
               \/ Call(d, "deleteExpired", "delete")
      PROVE  FALSE
  BY <1>3, <1>8 DEF Call
<1>9. ASSUME NEW i \in Items, BecomeDue(i) \/ TakenAway(i)
      PROVE  FALSE
  BY <1>2, <1>9 DEF BecomeDue, TakenAway
<1>10. ~UNCHANGED vars
  BY <1>2 DEF vars
<1>11. QED
  BY <1>4, <1>5, <1>6, <1>7, <1>8, <1>9, <1>10 DEF Next

\* A worker goes from a quantum to sleep for an interval only when it has drained.
LEMMA OnlyDrainedSleeps ==
  ASSUME CleanupInv, [Next]_vars, NEW c \in Callers, InQuantum(c), pc'[c] = "sleeping"
  PROVE  Drained(c)
<1>1. /\ pc \in [Callers -> Phases] /\ pc[c] \in {"firstPass", "laterPass"}
      /\ \A d \in Callers : pc[d] = "stopping" <=> stopper = d
  BY DEF CleanupInv, TypeOK, StopperInv, InQuantum
<1>2. pc' # pc
  BY <1>1
<1>3. ASSUME NEW d \in Callers, NEW phase, Goto(d, phase)
      PROVE  d = c /\ phase = "sleeping"
  BY <1>1, <1>3 DEF Goto
<1>4. ASSUME NEW d \in Callers, Stopped(d)
      PROVE  FALSE
  BY <1>1, <1>4 DEF Stopped, Waiting
<1>5. ASSUME NEW d \in Callers, DeleteExpired(d)
      PROVE  FALSE
  BY <1>1, <1>2, <1>3, <1>5
     DEF DeleteExpired, BeginDrain, Drain, DrainAgain, ReturnDrained
<1>6. ASSUME NEW d \in Callers, Work(d)
      PROVE  Drained(c)
  BY <1>1, <1>2, <1>3, <1>6
     DEF Work, BeginQuantum, Clean, Interrupted, NextPass, Drained
<1>7. ASSUME NEW d \in Callers, StartCleanup(d) \/ StopCleanup(d)
      PROVE  FALSE
  BY <1>1, <1>3, <1>7 DEF StartCleanup, StopCleanup
<1>8. ASSUME NEW d \in Callers,
             Call(d, "start", "start") \/ Call(d, "stop", "stop")
               \/ Call(d, "deleteExpired", "delete")
      PROVE  FALSE
  BY <1>3, <1>8 DEF Call
<1>9. ASSUME NEW i \in Items, BecomeDue(i) \/ TakenAway(i)
      PROVE  FALSE
  BY <1>2, <1>9 DEF BecomeDue, TakenAway
<1>10. ~UNCHANGED vars
  BY <1>2 DEF vars
<1>11. QED
  BY <1>4, <1>5, <1>6, <1>7, <1>8, <1>9, <1>10 DEF Next

\* DeleteExpired returns only when nothing is left of what was due when it was
\* called, for all batch sizes and budgets and whatever the worker does meanwhile.
THEOREM DeleteExpiredDrains == Spec => DrainsWhatWasDue
<1>1. CleanupInv /\ [Next]_vars =>
        [\A c \in Callers : pc[c] = "drain" /\ pc'[c] = "idle" => owed[c] = {}]_vars
  <2> SUFFICES ASSUME CleanupInv, [Next]_vars, NEW c \in Callers,
                      pc[c] = "drain", pc'[c] = "idle"
               PROVE  owed[c] = {}
    OBVIOUS
  <2>1. queue[c] = <<>> /\ pending[c] = <<>>
    BY OnlyReturnsFromDrain DEF ReturnDrained
  <2>2. QED
    BY <2>1, NothingToVisitNothingOwed
<1>2. QED
  BY <1>1, CleanupInvariant, PTL DEF Spec, DrainsWhatWasDue

\* A worker that goes to sleep for a whole interval left nothing of what was due at
\* its quantum's cutoff: a quantum that could not finish pauses instead.
THEOREM WorkerSleepsWhenDrained == Spec => SleepsOnlyWhenDrained
<1>1. CleanupInv /\ [Next]_vars =>
        [\A c \in Callers : InQuantum(c) /\ pc'[c] = "sleeping" => owed[c] = {}]_vars
  <2> SUFFICES ASSUME CleanupInv, [Next]_vars, NEW c \in Callers,
                      InQuantum(c), pc'[c] = "sleeping"
               PROVE  owed[c] = {}
    OBVIOUS
  <2>1. queue[c] = <<>> /\ pending[c] = <<>>
    BY OnlyDrainedSleeps DEF Drained
  <2>2. QED
    BY <2>1, NothingToVisitNothingOwed
<1>2. QED
  BY <1>1, CleanupInvariant, PTL DEF Spec, SleepsOnlyWhenDrained
===============================================================================
