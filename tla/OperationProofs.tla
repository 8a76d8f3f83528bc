---------------------------- MODULE OperationProofs ----------------------------
(***************************************************************************)
(* More proofs about Coordination: what its operations promise to their    *)
(* callers, on top of the invariant of the publication barrier.            *)
(***************************************************************************)
EXTENDS CoordinationProofs, FiniteSetTheorems

(***************************************************************************)
(* The phases of an operation.                                             *)
(***************************************************************************)

\* Callers that do nothing have no operation, lookups come first, and a wave that is
\* closed is over for its owner.
PhaseInv ==
  \A c \in Callers :
    /\ pc[c] = "idle" => op[c] = "none"
    /\ pc[c] = "lookup" => op[c] \in Lookups
    /\ c \in done => pc[c] \in {"wait", "returned"}

\* What a step of c may do to its phase.
Advances(c) ==
  /\ UNCHANGED op
  /\ pc[c] \notin {"idle", "returned"} /\ pc'[c] \notin {"idle", "lookup"}
  /\ pc[c] = "wait" => pc'[c] = "returned"
  /\ \A d \in Callers \ {c} : pc'[d] = pc[d]

LEMMA StepPhases ==
  ASSUME NEW c \in Callers
  PROVE  /\ Lookup(c) => pc[c] = "lookup"
         /\ Load(c) => pc[c] \in {"register", "recheck", "load", "publish", "store", "finish", "wait"}
         /\ Mutate(c) => pc[c] \in {"lock", "apply"}
<1>1. Lookup(c) => pc[c] = "lookup"
  BY DEF Lookup, LookupHit, GetMiss, GetOrSetMiss, GetOrLoadMiss, Miss
<1>2. Load(c) => pc[c] \in {"register", "recheck", "load", "publish", "store", "finish", "wait"}
  BY DEF Load, RegisterOwner, RegisterJoiner, RecheckHit, RecheckMiss, LoaderReturns,
         LoaderFound, LoaderMissing, LoaderFails, LoaderUnwinds, PublishSuperseded,
         PublishMissing, PublishBegin, PublishStore, Finish, WaitDone, WaitCanceled
<1>3. Mutate(c) => pc[c] \in {"lock", "apply"}
  BY DEF Mutate, AcquireLock, Forget, Set, GetOrSetHit, GetOrSetInsert, GetAndDelete,
         DeleteKey, ClearForget, ClearSegment
<1>4. QED
  BY <1>1, <1>2, <1>3

LEMMA StepAdvances ==
  ASSUME BarrierInv, NEW c \in Callers, Proceed(c)
  PROVE  \/ Advances(c)
         \/ UNCHANGED <<pc, op>>
<1>1. UNCHANGED op
  BY DEF Proceed, Lookup, LookupHit, GetMiss, GetOrSetMiss, GetOrLoadMiss, Miss,
         Load, RegisterOwner, RegisterJoiner, RecheckHit, RecheckMiss, LoaderReturns,
         LoaderFound, LoaderMissing, LoaderFails, LoaderUnwinds, PublishSuperseded,
         PublishMissing, PublishBegin, PublishStore, Finish, WaitDone, WaitCanceled,
         Mutate, AcquireLock, Forget, Set, GetOrSetHit, GetOrSetInsert, GetAndDelete,
         DeleteKey, ClearForget, ClearSegment, call
<1>2. CASE Lookup(c)
  <2>1. pc[c] = "lookup" /\ \E phase \in {"returned", "lock", "register"} : Goto(c, phase)
    BY <1>2 DEF Lookup, LookupHit, GetMiss, GetOrSetMiss, GetOrLoadMiss, Miss, Return
  <2>2. QED
    BY <1>1, <2>1 DEF Goto, Advances, BarrierInv, TypeOK
<1>3. CASE Load(c)
  <2>1. /\ pc[c] \in {"register", "recheck", "load", "publish", "store", "finish", "wait"}
        /\ \E phase \in {"recheck", "wait", "load", "publish", "store", "finish", "returned"} :
             Goto(c, phase) /\ (pc[c] = "wait" => phase = "returned")
    BY <1>3 DEF Load, RegisterOwner, RegisterJoiner, RecheckHit, RecheckMiss, LoaderReturns,
         LoaderFound, LoaderMissing, LoaderFails, LoaderUnwinds, PublishSuperseded,
         PublishMissing, PublishBegin, PublishStore, Finish, WaitDone, WaitCanceled, Return
  <2>2. QED
    BY <1>1, <2>1 DEF Goto, Advances, BarrierInv, TypeOK
<1>4. CASE Mutate(c)
  <2>1. \/ UNCHANGED pc
        \/ /\ pc[c] \in {"lock", "apply"}
           /\ \E phase \in {"apply", "returned"} : Goto(c, phase)
    BY <1>4 DEF Mutate, AcquireLock, Forget, Set, GetOrSetHit, GetOrSetInsert, GetAndDelete,
         DeleteKey, ClearForget, ClearSegment, ReturnWhenRemoved, Return
  <2>2. QED
    BY <1>1, <2>1 DEF Goto, Advances, BarrierInv, TypeOK
<1>5. QED
  BY <1>2, <1>3, <1>4 DEF Proceed

LEMMA StartsFromIdle ==
  ASSUME BarrierInv, NEW c \in Callers, Start(c)
  PROVE  /\ pc[c] = "idle"
         /\ \/ op'[c] \in Lookups /\ pc'[c] = "lookup"
            \/ op'[c] \in {"set", "getAndDelete", "delete", "clear"} /\ pc'[c] = "lock"
         /\ todo'[c] = targets'[c]
         /\ \A d \in Callers \ {c} :
              /\ op'[d] = op[d] /\ pc'[d] = pc[d]
              /\ todo'[d] = todo[d] /\ targets'[d] = targets[d]
         /\ UNCHANGED <<flight, locks, stats, entry, outcome, result>>
<1>1. ASSUME NEW operation, NEW k, NEW ks, NEW phase, Begin(c, operation, k, ks, phase)
      PROVE  /\ pc[c] = "idle" /\ op'[c] = operation /\ pc'[c] = phase
             /\ todo'[c] = targets'[c]
             /\ \A d \in Callers \ {c} :
                  /\ op'[d] = op[d] /\ pc'[d] = pc[d]
                  /\ todo'[d] = todo[d] /\ targets'[d] = targets[d]
             /\ UNCHANGED <<flight, locks, stats, entry, outcome, result>>
  BY <1>1 DEF Begin, Goto, BarrierInv, TypeOK
<1>2. QED
  BY <1>1 DEF Start, BeginLookup, BeginMutation, BeginDelete, BeginClear

\* Only the end of a wave closes it.
LEMMA OnlyFinishCloses ==
  ASSUME NEW c \in Callers, Proceed(c), ~Finish(c)
  PROVE  UNCHANGED done
BY DEF Proceed, Lookup, LookupHit, GetMiss, GetOrSetMiss, GetOrLoadMiss, Miss,
       Load, RegisterOwner, RegisterJoiner, RecheckHit, RecheckMiss, LoaderReturns,
       LoaderFound, LoaderMissing, LoaderFails, LoaderUnwinds, PublishSuperseded,
       PublishMissing, PublishBegin, PublishStore, WaitDone, WaitCanceled,
       Mutate, AcquireLock, Forget, Set, GetOrSetHit, GetOrSetInsert, GetAndDelete,
       DeleteKey, ClearForget, ClearSegment, flight

\* Everything that is not a step of a caller's operation.
Elsewhere ==
  \/ \E c \in Callers : Cancel(c)
  \/ \E k \in Keys : Reclaim(k) \/ Renew(k)
  \/ Tick
  \/ UNCHANGED vars

LEMMA ElsewhereEffect ==
  ASSUME Elsewhere
  PROVE  /\ UNCHANGED <<pc, op, key, targets, todo, stats, outcome, result>>
         /\ UNCHANGED <<group, wave, forgotten, done, writer, readers>>
BY DEF Elsewhere, Cancel, Reclaim, Renew, Tick, vars, call, flight, locks

LEMMA EveryStep ==
  ASSUME [Next]_vars
  PROVE  (\E c \in Callers : Start(c) \/ Proceed(c)) \/ Elsewhere
BY DEF Next, Terminated, Elsewhere

LEMMA PhaseInvInductive ==
  ASSUME BarrierInv, PhaseInv, [Next]_vars
  PROVE  PhaseInv'
<1>1. ASSUME NEW c \in Callers, Start(c)
      PROVE  PhaseInv'
  BY <1>1, StartsFromIdle DEF PhaseInv, flight
<1>2. ASSUME NEW c \in Callers, Proceed(c), ~Finish(c)
      PROVE  PhaseInv'
  BY <1>2, StepAdvances, OnlyFinishCloses DEF PhaseInv, Advances
<1>3. ASSUME NEW c \in Callers, Finish(c)
      PROVE  PhaseInv'
  <2>1. /\ pc[c] = "finish" /\ pc'[c] \in {"wait", "returned"} /\ UNCHANGED op
        /\ \A d \in Callers \ {c} : pc'[d] = pc[d]
        /\ done' = done \union {c}
    BY <1>3 DEF Finish, Return, Goto, call, Flight!FinishWave, BarrierInv, TypeOK
  <2>2. QED
    BY <2>1 DEF PhaseInv
<1>4. CASE Elsewhere
  BY <1>4, ElsewhereEffect DEF PhaseInv
<1>5. QED
  BY <1>1, <1>2, <1>3, <1>4, EveryStep

LEMMA PhaseInvInitially == Init => PhaseInv
BY DEF Init, Flight!Init, PhaseInv

\* A caller that is idle has no operation, only the lookups begin with a read without
\* the lock, and the owner of a wave that has ended only waits for it (load.go).
THEOREM PhasesHold == Spec => []PhaseInv
BY PhaseInvInitially, PhaseInvInductive, BarrierHolds, PTL DEF Spec
-------------------------------------------------------------------------------
(***************************************************************************)
(* Lookups are counted once.                                               *)
(***************************************************************************)
LookedUp == {c \in Callers : op[c] \in Lookups /\ pc[c] # "lookup"}

CountInv ==
  /\ IsFiniteSet(LookedUp)
  /\ stats["hit"] + stats["miss"] = Cardinality(LookedUp)

LEMMA OtherCounters ==
  ASSUME BarrierInv, NEW counter \in Counters \ {"hit", "miss"}, Count(counter)
  PROVE  stats'["hit"] = stats["hit"] /\ stats'["miss"] = stats["miss"]
BY DEF Count, Counters, BarrierInv, TypeOK

LEMMA CountInvInductive ==
  ASSUME BarrierInv, PhaseInv, CountInv, [Next]_vars
  PROVE  CountInv'
<1>1. ASSUME LookedUp' = LookedUp, stats'["hit"] = stats["hit"], stats'["miss"] = stats["miss"]
      PROVE  CountInv'
  BY <1>1 DEF CountInv
<1>2. ASSUME NEW c \in Callers, Start(c)
      PROVE  CountInv'
  <2>1. LookedUp' = LookedUp
    BY <1>2, StartsFromIdle DEF LookedUp, PhaseInv, Lookups
  <2>2. QED
    BY <1>1, <1>2, <2>1, StartsFromIdle
<1>3. ASSUME NEW c \in Callers, Lookup(c)
      PROVE  CountInv'
  <2>1. /\ pc[c] = "lookup" /\ Advances(c)
        /\ Count("hit") \/ Count("miss")
    <3>1. /\ pc[c] = "lookup" /\ (Count("hit") \/ Count("miss"))
          /\ \E phase \in {"returned", "lock", "register"} : Goto(c, phase)
      BY <1>3 DEF Lookup, LookupHit, GetMiss, GetOrSetMiss, GetOrLoadMiss, Miss, Return
    <3>2. pc' # pc
      BY <3>1 DEF Goto, BarrierInv, TypeOK
    <3>3. QED
      BY <1>3, <3>1, <3>2, StepAdvances DEF Proceed
  <2>2. LookedUp' = LookedUp \union {c} /\ c \notin LookedUp
    BY <2>1 DEF LookedUp, Advances, PhaseInv
  <2>3. IsFiniteSet(LookedUp') /\ Cardinality(LookedUp') = Cardinality(LookedUp) + 1
    BY <2>2, FS_AddElement DEF CountInv
  <2>4. stats'["hit"] + stats'["miss"] = stats["hit"] + stats["miss"] + 1
    BY <2>1 DEF Count, Counters, BarrierInv, TypeOK
  <2>5. QED
    BY <2>3, <2>4 DEF CountInv
\* What comes after the lookup counts loads, and neither hits nor misses.
<1>4. ASSUME NEW c \in Callers, Load(c) \/ Mutate(c)
      PROVE  CountInv'
  <2>1. pc[c] # "lookup"
    BY <1>4, StepPhases
  <2>2. LookedUp' = LookedUp
    <3>1. Advances(c) \/ UNCHANGED <<pc, op>>
      BY <1>4, StepAdvances DEF Proceed
    <3>2. QED
      BY <2>1, <3>1 DEF LookedUp, Advances
  <2>3. \/ UNCHANGED stats
        \/ \E counter \in Counters \ {"hit", "miss"} : Count(counter)
    BY <1>4 DEF Load, RegisterOwner, RegisterJoiner, RecheckHit, RecheckMiss, LoaderReturns,
         LoaderFound, LoaderMissing, LoaderFails, LoaderUnwinds, PublishSuperseded,
         PublishMissing, PublishBegin, PublishStore, Finish, WaitDone, WaitCanceled,
         Mutate, AcquireLock, Forget, Set, GetOrSetHit, GetOrSetInsert, GetAndDelete,
         DeleteKey, ClearForget, ClearSegment, Counters
  <2>4. QED
    BY <1>1, <2>2, <2>3, OtherCounters
<1>5. CASE Elsewhere
  BY <1>1, <1>5, ElsewhereEffect DEF LookedUp
<1>6. QED
  BY <1>2, <1>3, <1>4, <1>5, EveryStep DEF Proceed

LEMMA CountInvInitially == Init => CountInv
<1> SUFFICES ASSUME Init PROVE CountInv
  OBVIOUS
<1>1. LookedUp = {}
  BY DEF Init, LookedUp, Lookups
<1>2. QED
  BY <1>1, FS_EmptySet DEF Init, CountInv, Counters

\* Get, GetOrSet and GetOrLoad count one hit or one miss each, and the rechecks of
\* getOrLoad and GetOrSet count nothing (lookup.go, load.go, set.go).
THEOREM EveryLookupCountedOnceHolds == Spec => []EveryLookupCountedOnce
<1>1. CountInv => EveryLookupCountedOnce
  BY DEF CountInv, LookedUp, EveryLookupCountedOnce
<1>2. QED
  BY <1>1, CountInvInitially, CountInvInductive, BarrierHolds, PhasesHold, PTL DEF Spec
-------------------------------------------------------------------------------
(***************************************************************************)
(* What Delete and Clear have removed stays away until they unlock.        *)
(***************************************************************************)
Removing(c) ==
  op[c] \in {"delete", "clear"} /\ pc[c] # "returned" /\ todo[c] # targets[c]

RemovedInv ==
  \A c \in Callers : Removing(c) =>
    /\ HoldsAll(c)
    /\ \A k \in targets[c] \ todo[c] : entry[k] = NoEntry

\* Nobody gives a key a value while another caller holds the lock of its segment.
LEMMA GivesUnderTheLock ==
  ASSUME BarrierInv, NEW c \in Callers, Proceed(c), NEW k \in Keys,
         entry[k] = NoEntry, entry'[k] # NoEntry
  PROVE  k = key[c] /\ \A d \in Callers \ {c} : ~Holds(d, SegOf[k])
<1>0. Types /\ EntryType
  BY TypesOfInv DEF Types, TypeOK, EntryType
<1>1. ASSUME \A j \in Keys : Kept(j)
      PROVE  FALSE
  BY <1>1 DEF Kept
<1>2. ASSUME NEW ks \in SUBSET Keys, RemoveAll(ks)
      PROVE  FALSE
  BY <1>0, <1>1, <1>2, RemovalEffect
<1>3. ASSUME NEW j \in Keys, NEW t \in ReadTimes(c), Live(j, t),
             entry' = [entry EXCEPT ![j] = Touched(entry[j], t)]
      PROVE  FALSE
  BY <1>0, <1>1, <1>3, HitEffect
<1>4. UNCHANGED entry => FALSE
  OBVIOUS
<1>5. ~Lookup(c)
  <2>1. Lookup(c) => key[c] \in Keys
    BY DEF Lookup, LookupHit, GetMiss, GetOrSetMiss, GetOrLoadMiss, Miss,
           BarrierInv, TargetsInv, Lookups
  <2>2. ~LookupHit(c)
    BY <1>3, <2>1 DEF Lookup, LookupHit
  <2>3. ~(Lookup(c) /\ Miss(c))
    BY <1>2, <2>1 DEF Miss
  <2>4. QED
    BY <2>2, <2>3 DEF Lookup, GetMiss, GetOrSetMiss, GetOrLoadMiss
<1>6. CASE Load(c)
  <2>1. Load(c) => PublishStore(c)
    <3>1. ~RecheckHit(c) /\ ~RecheckMiss(c)
      BY <1>2, <1>3 DEF RecheckHit, RecheckMiss, BarrierInv, TargetsInv, HandleInv, Owning, Loading
    <3>2. QED
      BY <1>4, <3>1
         DEF Load, RegisterOwner, RegisterJoiner, LoaderReturns, LoaderFound, LoaderMissing,
             LoaderFails, LoaderUnwinds, PublishSuperseded, PublishMissing, PublishBegin,
             Finish, WaitDone, WaitCanceled
  <2>2. PublishStore(c) /\ pc[c] = "store" /\ Put(key[c], outcome[c].entry)
    BY <1>6, <2>1 DEF PublishStore
  <2>3. key[c] \in Keys /\ SegOf[key[c]] \in Segments
    BY <2>2, SegmentsAssumption DEF BarrierInv, TargetsInv, HandleInv, Owning, Loading
  <2>4. c \in readers[SegOf[key[c]]]
    BY <2>2, <2>3 DEF BarrierInv, LockInv
  <2>5. outcome[c].entry \in Entries
    <3>1. /\ outcome[c].entry # NoEntry
          /\ outcome[c].entry \in Entries \union {NoEntry}
      BY <1>0, <2>2, ValuesTyped DEF BarrierInv, OutcomeInv
    <3>2. QED
      BY <3>1
  <2>6. k = key[c]
    BY <1>0, <2>2, <2>3, <2>5, PutEffect
  <2>7. QED
    BY <2>4, <2>6 DEF Holds
<1>7. CASE Mutate(c)
  <2>1. Set(c) \/ GetOrSetInsert(c)
    <3>1. /\ ~GetOrSetHit(c) /\ ~GetAndDelete(c)
      BY <1>2, <1>3 DEF GetOrSetHit, GetAndDelete, BarrierInv, TargetsInv
    <3>2. /\ ~\E j \in Keys : DeleteKey(c, j)
          /\ ~\E s \in Segments : ClearSegment(c, s)
      BY <1>2 DEF DeleteKey, ClearSegment, KeysOf
    <3>3. QED
      BY <1>4, <1>7, <3>1, <3>2 DEF Mutate, AcquireLock, Forget, ClearForget
  <2>2. pc[c] = "apply" /\ op[c] \in {"set", "getOrSet"}
    BY <2>1 DEF Set, GetOrSetInsert
  <2>3. key[c] \in Keys /\ targets[c] = {key[c]} /\ HoldsAll(c)
    BY <2>2 DEF BarrierInv, TargetsInv, LockInv
  <2>4. PICK expiration \in Expirations, t \in ReadTimes(c) :
          \E e \in NewEntries(c, expiration, t) : Put(key[c], e)
    BY <2>1 DEF Set, GetOrSetInsert
  <2>5. PICK e \in NewEntries(c, expiration, t) : Put(key[c], e)
    BY <2>4
  <2>6. e \in Entries
    BY <1>0, ReadTimeIsNat, NewEntriesType, ChoicesAssumption
  <2>7. k = key[c]
    BY <1>0, <2>3, <2>5, <2>6, PutEffect
  <2>8. Holds(c, SegOf[key[c]])
    BY <2>2, <2>3 DEF HoldsAll, SegmentsOf
  <2>9. QED
    BY <2>7, <2>8 DEF Holds
<1>8. QED
  BY <1>5, <1>6, <1>7 DEF Proceed

\* A lock that is held stays held, but for its holder's own unlock.
LEMMA OthersKeepTheirLocks ==
  ASSUME BarrierInv, NEW c \in Callers, Proceed(c), NEW d \in Callers \ {c},
         NEW s \in Segments, Holds(d, s)
  PROVE  Holds(d, s)'
<1>1. CASE UNCHANGED locks
  BY <1>1 DEF locks, Holds
<1>2. CASE ReleaseLocks(c)
  BY <1>2 DEF ReleaseLocks, Holds
<1>3. ASSUME NEW r \in Segments, AcquireLock(c, r)
      PROVE  Holds(d, s)'
  <2>1. r # s
    BY <1>3, AbsentAssumption DEF AcquireLock, Holds
  <2>2. QED
    BY <1>3, <2>1 DEF AcquireLock, Holds, BarrierInv, TypeOK
<1>4. CASE PublishBegin(c)
  <2>1. SegOf[key[c]] # s
    BY <1>4, AbsentAssumption DEF PublishBegin, CanRead, Holds
  <2>2. QED
    BY <1>4, <2>1 DEF PublishBegin, Holds, BarrierInv, TypeOK
<1>5. CASE PublishStore(c)
  BY <1>5 DEF PublishStore, Holds, BarrierInv, TypeOK
<1>6. \/ UNCHANGED locks \/ ReleaseLocks(c) \/ PublishBegin(c) \/ PublishStore(c)
      \/ \E r \in Segments : AcquireLock(c, r)
  BY DEF Proceed, Lookup, LookupHit, GetMiss, GetOrSetMiss, GetOrLoadMiss, Miss,
         Load, RegisterOwner, RegisterJoiner, RecheckHit, RecheckMiss, LoaderReturns,
         LoaderFound, LoaderMissing, LoaderFails, LoaderUnwinds, PublishSuperseded,
         PublishMissing, Finish, WaitDone, WaitCanceled,
         Mutate, Forget, Set, GetOrSetHit, GetOrSetInsert, GetAndDelete,
         DeleteKey, ClearForget, ClearSegment, ReturnWhenRemoved, locks
<1>7. QED
  BY <1>1, <1>2, <1>3, <1>4, <1>5, <1>6

\* The steps of Delete and of Clear.
LEMMA RemoverSteps ==
  ASSUME BarrierInv, NEW c \in Callers, Proceed(c), op[c] \in {"delete", "clear"}
  PROVE  \/ \E s \in Segments : AcquireLock(c, s)
         \/ \E k \in Keys : DeleteKey(c, k)
         \/ ClearForget(c)
         \/ \E s \in Segments : ClearSegment(c, s)
<1>1. pc[c] \in {"lock", "apply", "returned"}
  BY DEF BarrierInv, TargetsInv
<1>2. ~Lookup(c) /\ ~Load(c)
  BY <1>1, StepPhases
<1>3. ~Forget(c)
  BY DEF Forget
<1>4. ~Set(c) /\ ~GetAndDelete(c)
  BY DEF Set, GetAndDelete
<1>5. ~GetOrSetHit(c) /\ ~GetOrSetInsert(c)
  BY DEF GetOrSetHit, GetOrSetInsert
<1>6. QED
  BY <1>2, <1>3, <1>4, <1>5 DEF Proceed, Mutate

LEMMA RemovalEmpties ==
  ASSUME BarrierInv, RemovedInv, NEW c \in Callers,
         \/ \E k \in Keys : DeleteKey(c, k)
         \/ \E s \in Segments : ClearSegment(c, s)
  PROVE  /\ HoldsAll(c) /\ UNCHANGED <<op, targets>>
         /\ \A k \in targets[c] \ todo'[c] : entry'[k] = NoEntry
         /\ todo'[c] # {} => UNCHANGED locks
<1>1. PICK ks \in SUBSET Keys :
        /\ RemoveAll(ks) /\ todo' = [todo EXCEPT ![c] = @ \ ks]
        /\ ReturnWhenRemoved(c)
  BY DEF DeleteKey, ClearSegment, KeysOf
<1>2. /\ op[c] \in {"delete", "clear"} /\ pc[c] # "returned" /\ HoldsAll(c)
      /\ UNCHANGED <<op, targets>> /\ targets[c] \subseteq Keys
  BY DEF DeleteKey, ClearSegment, call, BarrierInv, LockInv, TypeOK
<1>3. \A k \in targets[c] \ todo[c] : entry[k] = NoEntry
  BY <1>2 DEF RemovedInv, Removing
<1>4. \A k \in targets[c] \ todo'[c] : k \in ks \/ k \notin todo[c]
  BY <1>1 DEF BarrierInv, TypeOK
<1>5. QED
  BY <1>1, <1>2, <1>3, <1>4 DEF RemoveAll, ReturnWhenRemoved

\* An operation keeps its targets, and only takes away from what it has to do.
LEMMA TargetsStay ==
  ASSUME BarrierInv, NEW c \in Callers, Proceed(c)
  PROVE  /\ UNCHANGED <<key, targets>>
         /\ todo'[c] \subseteq todo[c]
         /\ \A d \in Callers \ {c} : todo'[d] = todo[d]
<1>1. CASE Lookup(c)
  BY <1>1 DEF Lookup, LookupHit, GetMiss, GetOrSetMiss, GetOrLoadMiss, Miss, call
<1>2. CASE Load(c)
  BY <1>2 DEF Load, RegisterOwner, RegisterJoiner, RecheckHit, RecheckMiss, LoaderReturns,
       LoaderFound, LoaderMissing, LoaderFails, LoaderUnwinds, PublishSuperseded,
       PublishMissing, PublishBegin, PublishStore, Finish, WaitDone, WaitCanceled, call
<1>3. CASE Mutate(c)
  <2>1. UNCHANGED <<key, targets>>
    BY <1>3 DEF Mutate, AcquireLock, Forget, Set, GetOrSetHit, GetOrSetInsert, GetAndDelete,
         DeleteKey, ClearForget, ClearSegment, call
  <2>2. UNCHANGED todo \/ \E ks : todo' = [todo EXCEPT ![c] = @ \ ks]
    BY <1>3 DEF Mutate, AcquireLock, Forget, Set, GetOrSetHit, GetOrSetInsert, GetAndDelete,
         DeleteKey, ClearForget, ClearSegment
  <2>3. QED
    BY <2>1, <2>2 DEF BarrierInv, TypeOK
<1>4. QED
  BY <1>1, <1>2, <1>3 DEF Proceed

\* A step of one caller leaves what the others have still to do.
LEMMA OthersKeepTheirTargets ==
  ASSUME BarrierInv, NEW c \in Callers, Start(c) \/ Proceed(c), NEW d \in Callers \ {c}
  PROVE  /\ op'[d] = op[d] /\ pc'[d] = pc[d]
         /\ todo'[d] = todo[d] /\ targets'[d] = targets[d]
<1>1. op'[d] = op[d] /\ pc'[d] = pc[d]
  BY StepAdvances, StartsFromIdle DEF Advances
<1>2. CASE Start(c)
  BY <1>1, <1>2, StartsFromIdle
<1>3. CASE Proceed(c)
  BY <1>1, <1>3, TargetsStay
<1>4. QED
  BY <1>2, <1>3

LEMMA HeldSegments ==
  ASSUME BarrierInv, NEW c \in Callers
  PROVE  /\ SegmentsOf(c) \subseteq Segments
         /\ \A k \in targets[c] : k \in Keys /\ SegOf[k] \in SegmentsOf(c)
BY SegmentsAssumption DEF SegmentsOf, BarrierInv, TypeOK

LEMMA RemovedInvInductive ==
  ASSUME BarrierInv, RemovedInv, [Next]_vars
  PROVE  RemovedInv'
<1>1. ASSUME NEW c \in Callers, Proceed(c), NEW d \in Callers \ {c}, Removing(d)'
      PROVE  HoldsAll(d)' /\ \A k \in targets'[d] \ todo'[d] : entry'[k] = NoEntry
  <2>1. /\ Removing(d) /\ HoldsAll(d) /\ todo'[d] = todo[d] /\ targets'[d] = targets[d]
        /\ SegmentsOf(d)' = SegmentsOf(d)
    BY <1>1, OthersKeepTheirTargets DEF Removing, RemovedInv, SegmentsOf
  <2>2. HoldsAll(d)'
    BY <1>1, <2>1, HeldSegments, OthersKeepTheirLocks DEF HoldsAll
  <2>3. ASSUME NEW k \in targets[d] \ todo[d], entry'[k] # NoEntry
        PROVE  FALSE
    <3>1. k \in Keys /\ entry[k] = NoEntry /\ Holds(d, SegOf[k])
      BY <2>1, HeldSegments DEF RemovedInv, HoldsAll
    <3>2. QED
      BY <1>1, <2>3, <3>1, GivesUnderTheLock
  <2>4. QED
    BY <2>1, <2>2, <2>3
<1>2. ASSUME NEW c \in Callers, Proceed(c), Removing(c)'
      PROVE  HoldsAll(c)' /\ \A k \in targets'[c] \ todo'[c] : entry'[k] = NoEntry
  <2>1. op[c] \in {"delete", "clear"} /\ pc[c] # "returned"
    BY <1>2, StepAdvances DEF Advances, Removing
  <2>2. CASE \E s \in Segments : AcquireLock(c, s)
    <3>1. Removing(c) /\ HoldsAll(c)
      BY <1>2, <2>1, <2>2 DEF AcquireLock, call, Removing, RemovedInv
    <3>2. QED
      BY <2>2, <3>1, AbsentAssumption DEF AcquireLock, HoldsAll, Holds
  <2>3. CASE ClearForget(c)
    <3>1. /\ pc[c] = "lock" /\ UNCHANGED <<op, targets, todo, writer, readers, entry>>
      BY <2>3 DEF ClearForget, call, locks
    <3>2. Removing(c)
      BY <1>2, <2>1, <3>1 DEF Removing
    <3>3. QED
      BY <3>1, <3>2 DEF RemovedInv, HoldsAll, Holds, SegmentsOf
  <2>4. CASE \/ \E k \in Keys : DeleteKey(c, k)
             \/ \E s \in Segments : ClearSegment(c, s)
    <3>1. /\ HoldsAll(c) /\ UNCHANGED <<op, targets>>
          /\ \A k \in targets[c] \ todo'[c] : entry'[k] = NoEntry
          /\ todo'[c] # {} => UNCHANGED locks
      BY <2>4, RemovalEmpties
    <3>2. todo'[c] # {}
      BY <1>2, <2>4
         DEF DeleteKey, ClearSegment, ReturnWhenRemoved, Return, Goto, Removing,
             BarrierInv, TypeOK
    <3>3. QED
      BY <3>1, <3>2 DEF HoldsAll, Holds, SegmentsOf, locks
  <2>5. QED
    BY <1>2, <2>1, <2>2, <2>3, <2>4, RemoverSteps
<1>3. ASSUME NEW c \in Callers, Start(c)
      PROVE  RemovedInv'
  <2>1. /\ todo'[c] = targets'[c] /\ UNCHANGED <<locks, entry>>
    BY <1>3, StartsFromIdle
  <2>2. ASSUME NEW d \in Callers, Removing(d)'
        PROVE  /\ HoldsAll(d)'
               /\ \A k \in targets'[d] \ todo'[d] : entry'[k] = NoEntry
    <3>1. d # c
      BY <2>1, <2>2 DEF Removing
    <3>2. /\ op'[d] = op[d] /\ pc'[d] = pc[d]
          /\ todo'[d] = todo[d] /\ targets'[d] = targets[d]
      BY <1>3, <3>1, OthersKeepTheirTargets
    <3>3. QED
      BY <2>1, <2>2, <3>2 DEF Removing, RemovedInv, HoldsAll, Holds, SegmentsOf, locks
  <2>3. QED
    BY <2>2 DEF RemovedInv
\* Cleanup and refreshes never bring an entry back.
<1>4. CASE Elsewhere
  <2>1. \A j \in Keys : Kept(j)
    <3>1. ASSUME NEW k \in Keys, Reclaim(k) \/ Renew(k)
          PROVE  \A j \in Keys : Kept(j)
      BY <3>1, TypesOfInv, RemovalEffect, RenewEffect DEF Reclaim
    <3>2. UNCHANGED entry => \A j \in Keys : Kept(j)
      BY DEF Kept
    <3>3. QED
      BY <1>4, <3>1, <3>2 DEF Elsewhere, Cancel, Tick, vars
  <2>2. UNCHANGED todo
    BY <1>4 DEF Elsewhere, Cancel, Reclaim, Renew, Tick, vars
  <2>3. \A c \in Callers : targets[c] \subseteq Keys
    BY DEF BarrierInv, TypeOK
  <2>4. QED
    BY <1>4, <2>1, <2>2, <2>3, ElsewhereEffect
       DEF Kept, RemovedInv, Removing, HoldsAll, Holds, SegmentsOf
<1>5. QED
  BY <1>1, <1>2, <1>3, <1>4, EveryStep DEF RemovedInv

LEMMA RemovedInvInitially == Init => RemovedInv
BY DEF Init, RemovedInv, Removing

LEMMA RemovedTogetherStep ==
  ASSUME BarrierInv, RemovedInv, [Next]_vars, NEW c \in Callers,
         op[c] \in {"delete", "clear"}, pc[c] # "returned", pc'[c] = "returned"
  PROVE  \A k \in targets[c] : entry'[k] = NoEntry
<1>1. Proceed(c)
  <2>1. ~Elsewhere
    BY ElsewhereEffect
  <2>2. PICK d \in Callers : Start(d) \/ Proceed(d)
    BY <2>1, EveryStep
  <2>3. d = c
    BY <2>2, OthersKeepTheirTargets
  <2>4. ~Start(c)
    BY StartsFromIdle
  <2>5. QED
    BY <2>2, <2>3, <2>4
<1>2. \/ \E k \in Keys : DeleteKey(c, k)
      \/ \E s \in Segments : ClearSegment(c, s)
  BY <1>1, RemoverSteps DEF AcquireLock, ClearForget, Goto, BarrierInv, TypeOK
<1>3. todo'[c] = {}
  BY <1>2 DEF DeleteKey, ClearSegment, ReturnWhenRemoved
<1>4. QED
  BY <1>2, <1>3, RemovalEmpties

\* When Delete or Clear unlocks, none of its keys is in the cache: no load and no
\* mutation got in between the removal of the first key and that of the last.
THEOREM RemovedTogetherHolds == Spec => RemovedTogether
<1>1. Spec => []RemovedInv
  BY RemovedInvInitially, RemovedInvInductive, BarrierHolds, PTL DEF Spec
<1>2. BarrierInv /\ RemovedInv /\ [Next]_vars =>
        [\A c \in Callers :
           op[c] \in {"delete", "clear"} /\ pc[c] # "returned" /\ pc'[c] = "returned"
             => \A k \in targets[c] : entry'[k] = NoEntry]_vars
  BY RemovedTogetherStep
<1>3. QED
  BY <1>1, <1>2, BarrierHolds, PTL DEF Spec, RemovedTogether
-------------------------------------------------------------------------------
(***************************************************************************)
(* The first value wins, where nothing expires or is evicted.              *)
(***************************************************************************)
NothingIsLost ==
  /\ TTL <= 0
  /\ \A expiration \in Expirations : expiration <= 0
  /\ \A s \in Segments : IsFiniteSet(KeysOf(s)) /\ Cardinality(KeysOf(s)) <= Capacity[s]

\* A mutation that has begun to change its keys, and the keys that have seen one.
Changing(e) ==
  /\ op[e] \in {"set", "getAndDelete", "delete", "clear"}
  /\ pc[e] # "lock" \/ todo[e] # targets[e]

Disturbed(k) == \E e \in Callers : Changing(e) /\ k \in targets[e]

\* The values a caller has returned, or decided for the wave it owns.
Said(c, v) ==
  \/ result[c].entry.value = v
  \/ pc[c] \notin {"publish", "store"} /\ outcome[c].entry.value = v

Lasting(e) == e.ttl = 0 /\ e.deadline = 0

LastingInv ==
  /\ \A k \in Keys : Lasting(entry[k])
  /\ \A c \in Callers :
       /\ Lasting(outcome[c].entry)
       /\ outcome[c].status # "found" => outcome[c].entry = NoEntry

AgreeInv ==
  \A c \in Callers, v \in Callers :
    key[c] \in Keys /\ Said(c, v) => entry[key[c]].value = v \/ Disturbed(key[c])

\* A step that keeps every value of an undisturbed key, and one after which its
\* caller has returned or decided no value but the one the key has.
KeepsValues ==
  /\ LastingInv'
  /\ \A k \in Keys : entry[k] = NoEntry \/ entry'[k].value = entry[k].value \/ Disturbed(k)'

SaysWhatLasts(c) ==
  \A v \in Callers : key[c] \in Keys /\ Said(c, v)' =>
    Said(c, v) \/ entry'[key[c]].value = v \/ Disturbed(key[c])'

LEMMA NoEviction ==
  ASSUME NothingIsLost, NEW k \in Keys, NEW e, Put(k, e)
  PROVE  entry' = [entry EXCEPT ![k] = e]
<1> DEFINE s == SegOf[k]
<1>1. s \in Segments /\ k \in KeysOf(s) /\ Capacity[s] \in Nat
  BY SegmentsAssumption DEF KeysOf
<1>2. ASSUME ~Resident(k)
      PROVE  Cardinality(ResidentIn(s)) < Capacity[s]
  <2>1. IsFiniteSet(KeysOf(s)) /\ Cardinality(KeysOf(s)) <= Capacity[s]
    BY <1>1 DEF NothingIsLost
  <2>2. /\ IsFiniteSet(KeysOf(s) \ {k})
        /\ Cardinality(KeysOf(s) \ {k}) = Cardinality(KeysOf(s)) - 1
    BY <1>1, <2>1, FS_RemoveElement
  <2>3. ResidentIn(s) \subseteq KeysOf(s) \ {k}
    BY <1>2 DEF ResidentIn, KeysOf
  <2>4. Cardinality(ResidentIn(s)) <= Cardinality(KeysOf(s) \ {k})
    BY <2>2, <2>3, FS_Subset
  <2>5. /\ Cardinality(KeysOf(s)) \in Nat
        /\ Cardinality(ResidentIn(s)) \in Nat
    BY <2>1, <2>2, <2>3, FS_Subset, FS_CardinalityType
  <2>6. QED
    BY <1>1, <2>1, <2>2, <2>4, <2>5
<1>3. Resident(k) \/ Cardinality(ResidentIn(s)) < Capacity[s]
  BY <1>2
<1>4. ~(~Resident(k) /\ Cardinality(ResidentIn(s)) >= Capacity[s])
  <2>1. Resident(k) \/ (Cardinality(ResidentIn(s)) \in Nat /\ Cardinality(ResidentIn(s)) < Capacity[s])
    <3>1. IsFiniteSet(ResidentIn(s))
      BY <1>1, FS_Subset DEF NothingIsLost, ResidentIn, KeysOf
    <3>2. QED
      BY <1>3, <3>1, FS_CardinalityType
  <2>2. QED
    BY <1>1, <2>1
<1>5. QED
  BY <1>4 DEF Put

LEMMA NewEntriesLast ==
  ASSUME NothingIsLost, NEW c \in Callers, NEW expiration \in Expirations \union {DefaultExpiration},
         NEW t \in Nat, NEW e \in NewEntries(c, expiration, t)
  PROVE  Lasting(e) /\ e.value = c
<1>1. expiration <= 0 /\ TTL <= 0 /\ expiration \in Int /\ TTL \in Int
  BY ChoicesAssumption, TimeAssumption DEF NothingIsLost, DefaultExpiration
<1>2. EffectiveTTLs(expiration, TTL, Jitter) = {0}
  BY <1>1 DEF EffectiveTTLs, DefaultExpiration
<1>3. DeadlineAfter(t, 0) = 0
  BY DEF DeadlineAfter
<1>4. QED
  BY <1>2, <1>3 DEF NewEntries, Lasting

LEMMA NothingExpires ==
  ASSUME BarrierInv, LastingInv, NEW k \in Keys, NEW t
  PROVE  /\ Live(k, t) <=> entry[k] # NoEntry
         /\ Touched(entry[k], t) = entry[k]
BY DEF LastingInv, Lasting, Live, Resident, Expired, Touched

\* A read changes nothing, whether it hits or misses.
LEMMA ReadsChangeNothing ==
  ASSUME BarrierInv, LastingInv, NEW c \in Callers, NEW k \in Keys, NEW t
  PROVE  /\ [entry EXCEPT ![k] = Touched(entry[k], t)] = entry
         /\ ~Live(k, t) /\ RemoveAll({k}) => UNCHANGED entry
<1>1. entry \in [Keys -> Entries \union {NoEntry}]
  BY DEF BarrierInv, TypeOK
<1>2. [entry EXCEPT ![k] = Touched(entry[k], t)] = entry
  BY <1>1, NothingExpires
<1>3. ASSUME ~Live(k, t), RemoveAll({k})
      PROVE  UNCHANGED entry
  BY <1>1, <1>3, NothingExpires DEF RemoveAll
<1>4. QED
  BY <1>2, <1>3

LEMMA NoEntryLasts == Lasting(NoEntry) /\ NoEntry.value = NoCall /\ NoCall \notin Callers
BY AbsentAssumption DEF Lasting, NoEntry

LEMMA LookupLasts ==
  ASSUME BarrierInv, LastingInv, NEW c \in Callers, Lookup(c)
  PROVE  KeepsValues /\ SaysWhatLasts(c)
<1>1. key[c] \in Keys /\ pc[c] = "lookup" /\ UNCHANGED outcome
  BY DEF Lookup, LookupHit, GetMiss, GetOrSetMiss, GetOrLoadMiss, Miss, Lookups,
         BarrierInv, TargetsInv
<1>2. CASE LookupHit(c)
  <2>1. PICK t \in ReadTimes(c) :
          /\ entry' = [entry EXCEPT ![key[c]] = Touched(entry[key[c]], t)]
          /\ Return(c, "found", Touched(entry[key[c]], t))
    BY <1>2 DEF LookupHit
  <2>2. UNCHANGED entry /\ Touched(entry[key[c]], t) = entry[key[c]]
    BY <1>1, <2>1, ReadsChangeNothing, NothingExpires
  <2>3. result'[c].entry = entry[key[c]]
    BY <2>1, <2>2 DEF Return, Result, BarrierInv, TypeOK
  <2>4. QED
    BY <1>1, <2>2, <2>3 DEF KeepsValues, SaysWhatLasts, Said, LastingInv
<1>3. CASE GetMiss(c) \/ GetOrSetMiss(c) \/ GetOrLoadMiss(c)
  <2>1. UNCHANGED entry
    BY <1>1, <1>3, ReadsChangeNothing DEF GetMiss, GetOrSetMiss, GetOrLoadMiss, Miss
  <2>2. result'[c].entry \in {result[c].entry, NoEntry}
    BY <1>3 DEF GetMiss, GetOrSetMiss, GetOrLoadMiss, Return, Result, BarrierInv, TypeOK
  <2>3. QED
    BY <1>1, <2>1, <2>2, NoEntryLasts DEF KeepsValues, SaysWhatLasts, Said, LastingInv
<1>4. QED
  BY <1>2, <1>3 DEF Lookup

\* A step that leaves the store and decides nothing new: the outcome of c, if it
\* changes, is no value, one the store has, or one c has yet to publish.
LEMMA OutcomeLasts ==
  ASSUME BarrierInv, LastingInv, NEW c \in Callers, UNCHANGED entry,
         \A d \in Callers \ {c} : outcome'[d] = outcome[d],
         Lasting(outcome'[c].entry),
         outcome'[c].status # "found" => outcome'[c].entry = NoEntry,
         result'[c].entry \in {result[c].entry, NoEntry},
         \/ outcome'[c].entry = NoEntry
         \/ key[c] \in Keys /\ outcome'[c].entry = entry[key[c]]
         \/ pc'[c] \in {"publish", "store"}
         \/ outcome'[c] = outcome[c] /\ pc[c] \notin {"publish", "store"}
  PROVE  KeepsValues /\ SaysWhatLasts(c)
<1>1. KeepsValues
  BY DEF KeepsValues, LastingInv
<1>2. SaysWhatLasts(c)
  BY NoEntryLasts DEF SaysWhatLasts, Said
<1>3. QED
  BY <1>1, <1>2

LEMMA RegisterLasts ==
  ASSUME BarrierInv, LastingInv, NEW c \in Callers, RegisterOwner(c) \/ RegisterJoiner(c)
  PROVE  KeepsValues /\ SaysWhatLasts(c)
<1>1. pc[c] = "register" /\ UNCHANGED <<entry, outcome, result>>
  BY DEF RegisterOwner, RegisterJoiner
<1>2. QED
  BY <1>1, OutcomeLasts DEF LastingInv

LEMMA RecheckLasts ==
  ASSUME BarrierInv, LastingInv, NEW c \in Callers, RecheckHit(c) \/ RecheckMiss(c)
  PROVE  KeepsValues /\ SaysWhatLasts(c)
<1>1. key[c] \in Keys /\ pc[c] = "recheck" /\ UNCHANGED result
  BY DEF RecheckHit, RecheckMiss, BarrierInv, TargetsInv, HandleInv, Owning, Loading
<1>2. CASE RecheckHit(c)
  <2>1. PICK t \in ReadTimes(c) :
          /\ entry' = [entry EXCEPT ![key[c]] = Touched(entry[key[c]], t)]
          /\ outcome' = [outcome EXCEPT ![c] = Result("found", Touched(entry[key[c]], t))]
    BY <1>2 DEF RecheckHit
  <2>2. UNCHANGED entry /\ Touched(entry[key[c]], t) = entry[key[c]]
    BY <1>1, <2>1, ReadsChangeNothing, NothingExpires
  <2>3. /\ outcome'[c].entry = entry[key[c]] /\ outcome'[c].status = "found"
        /\ \A d \in Callers \ {c} : outcome'[d] = outcome[d]
    BY <2>1, <2>2 DEF Result, BarrierInv, TypeOK
  <2>4. QED
    BY <1>1, <2>2, <2>3, OutcomeLasts DEF LastingInv
<1>3. CASE RecheckMiss(c)
  <2>1. UNCHANGED <<entry, outcome>>
    BY <1>1, <1>3, ReadsChangeNothing DEF RecheckMiss
  <2>2. QED
    BY <1>1, <2>1, OutcomeLasts DEF LastingInv
<1>4. QED
  BY <1>2, <1>3

LEMMA LoaderLasts ==
  ASSUME NothingIsLost, BarrierInv, LastingInv, NEW c \in Callers,
         LoaderFound(c) \/ LoaderMissing(c) \/ LoaderFails(c) \/ LoaderUnwinds(c)
  PROVE  KeepsValues /\ SaysWhatLasts(c)
<1>1. clock \in Nat
  BY DEF BarrierInv, TypeOK
<1>2. PICK status, phase, e :
        /\ phase \in {"publish", "finish"}
        /\ LoaderReturns(c, status, e, phase)
        /\ \/ status = "found" /\ phase = "publish" /\ Lasting(e)
           \/ status # "found" /\ e = NoEntry
  <2>1. CASE LoaderFound(c)
    <3>1. PICK e \in NewEntries(c, DefaultExpiration, clock) : LoaderReturns(c, "found", e, "publish")
      BY <2>1 DEF LoaderFound
    <3>2. Lasting(e)
      BY <1>1, <3>1, NewEntriesLast
    <3>3. QED
      BY <3>1, <3>2
  <2>2. CASE LoaderMissing(c) \/ LoaderFails(c) \/ LoaderUnwinds(c)
    BY <2>2 DEF LoaderMissing, LoaderFails, LoaderUnwinds
  <2>3. QED
    BY <2>1, <2>2
<1>3. /\ UNCHANGED <<entry, result>> /\ pc'[c] = phase
      /\ outcome'[c].status = status /\ outcome'[c].entry = e
      /\ \A d \in Callers \ {c} : outcome'[d] = outcome[d]
  BY <1>2 DEF LoaderReturns, Goto, Result, BarrierInv, TypeOK
<1>4. QED
  BY <1>2, <1>3, NoEntryLasts, OutcomeLasts

\* A load that stores its value fills a hole, so nobody has said anything else.
LEMMA PublishLasts ==
  ASSUME NothingIsLost, BarrierInv, LastingInv, NEW c \in Callers,
         \/ PublishSuperseded(c) \/ PublishMissing(c) \/ PublishBegin(c) \/ PublishStore(c)
  PROVE  KeepsValues /\ SaysWhatLasts(c)
<1>1. pc[c] \in {"publish", "store"} /\ UNCHANGED result
  BY DEF PublishSuperseded, PublishMissing, PublishBegin, PublishStore
<1>2. CASE PublishSuperseded(c)
  <2>1. /\ UNCHANGED entry /\ outcome'[c] = Result("superseded", NoEntry)
        /\ \A d \in Callers \ {c} : outcome'[d] = outcome[d]
    BY <1>2 DEF PublishSuperseded, BarrierInv, TypeOK
  <2>2. QED
    BY <1>1, <2>1, NoEntryLasts, OutcomeLasts DEF Result
<1>3. CASE PublishMissing(c)
  <2>1. /\ UNCHANGED <<entry, outcome>> /\ outcome[c].status = "missing"
    BY <1>3 DEF PublishMissing
  <2>2. outcome[c].entry = NoEntry
    BY <2>1 DEF LastingInv
  <2>3. QED
    BY <1>1, <2>1, <2>2, NoEntryLasts, OutcomeLasts
<1>4. CASE PublishBegin(c)
  <2>1. UNCHANGED <<entry, outcome>> /\ pc'[c] = "store"
    BY <1>4 DEF PublishBegin, Goto, BarrierInv, TypeOK
  <2>2. QED
    BY <1>1, <2>1, OutcomeLasts DEF LastingInv
<1>5. CASE PublishStore(c)
  <2>1. /\ pc[c] = "store" /\ Put(key[c], outcome[c].entry) /\ UNCHANGED outcome
        /\ key[c] \in Keys
    BY <1>5 DEF PublishStore, BarrierInv, TargetsInv, HandleInv, Owning, Loading
  <2>2. entry[key[c]] = NoEntry
    BY <2>1 DEF BarrierInv, HoleInv, Resident
  <2>3. entry' = [entry EXCEPT ![key[c]] = outcome[c].entry]
    BY <2>1, NoEviction
  <2>4. /\ entry'[key[c]] = outcome[c].entry
        /\ \A k \in Keys \ {key[c]} : entry'[k] = entry[k]
    BY <2>1, <2>3 DEF BarrierInv, TypeOK
  <2>5. KeepsValues
    BY <2>1, <2>2, <2>4 DEF KeepsValues, LastingInv
  <2>6. SaysWhatLasts(c)
    BY <1>1, <2>1, <2>4 DEF SaysWhatLasts, Said
  <2>7. QED
    BY <2>5, <2>6
<1>6. QED
  BY <1>2, <1>3, <1>4, <1>5

\* Who waits for a wave gets what its owner decided.
LEMMA WaitLasts ==
  ASSUME BarrierInv, PhaseInv, LastingInv, AgreeInv, NEW c \in Callers,
         Finish(c) \/ WaitDone(c) \/ WaitCanceled(c),
         \A k \in Keys : Disturbed(k) => Disturbed(k)'
  PROVE  KeepsValues /\ SaysWhatLasts(c)
<1>1. pc[c] \in {"finish", "wait"} /\ UNCHANGED <<entry, outcome, key>>
  BY DEF Finish, WaitDone, WaitCanceled, call
<1>2. KeepsValues
  BY <1>1 DEF KeepsValues, LastingInv
<1>3. CASE Finish(c) \/ WaitCanceled(c)
  <2>1. result'[c].entry \in {result[c].entry, NoEntry}
    BY <1>3 DEF Finish, WaitCanceled, Return, Result, BarrierInv, TypeOK
  <2>2. QED
    BY <1>1, <1>2, <2>1, NoEntryLasts DEF SaysWhatLasts, Said
<1>4. CASE WaitDone(c)
  <2>1. /\ wave[c] \in done /\ wave[c] \in Callers /\ wave[c] # NoCall
        /\ result'[c].entry = outcome[wave[c]].entry
    BY <1>4, AbsentAssumption
       DEF WaitDone, Return, Result, BarrierInv, TypeOK, Flight!TypeOK
  <2>2. pc[wave[c]] \notin {"publish", "store"} /\ key[wave[c]] = key[c]
    BY <2>1 DEF PhaseInv, BarrierInv, HandleInv
  <2>3. ASSUME NEW v \in Callers, key[c] \in Keys, Said(c, v)'
        PROVE  Said(c, v) \/ entry'[key[c]].value = v \/ Disturbed(key[c])'
    <3>1. CASE outcome[wave[c]].entry.value = v
      <4>1. Said(wave[c], v)
        BY <2>2, <3>1 DEF Said
      <4>2. entry[key[c]].value = v \/ Disturbed(key[c])
        BY <2>1, <2>2, <2>3, <4>1 DEF AgreeInv
      <4>3. QED
        BY <1>1, <2>3, <4>2
    <3>2. CASE outcome[wave[c]].entry.value # v
      BY <1>1, <2>1, <2>3, <3>2 DEF Said
    <3>3. QED
      BY <3>1, <3>2
  <2>4. QED
    BY <1>2, <2>3 DEF SaysWhatLasts
<1>5. QED
  BY <1>3, <1>4

\* What changes its keys disturbs them for good.
LEMMA DisturbedStays ==
  ASSUME BarrierInv, PhaseInv, [Next]_vars, NEW k \in Keys, Disturbed(k)
  PROVE  Disturbed(k)'
<1>1. PICK e \in Callers : Changing(e) /\ k \in targets[e]
  BY DEF Disturbed
<1>2. SUFFICES Changing(e)' /\ k \in targets'[e]
  BY DEF Disturbed
<1>3. op[e] \in {"set", "getAndDelete", "delete", "clear"} /\ pc[e] # "idle"
  BY <1>1 DEF Changing, PhaseInv
<1>4. CASE Elsewhere
  <2>1. UNCHANGED <<pc, op, targets, todo>>
    BY <1>4 DEF Elsewhere, Cancel, Reclaim, Renew, Tick, vars, call
  <2>2. QED
    BY <1>1, <2>1 DEF Changing
<1>5. ASSUME NEW c \in Callers, Start(c) \/ Proceed(c), c # e
      PROVE  Changing(e)' /\ k \in targets'[e]
  BY <1>1, <1>5, OthersKeepTheirTargets DEF Changing
<1>6. CASE Proceed(e)
  <2>1. op'[e] = op[e] /\ targets'[e] = targets[e] /\ todo'[e] \subseteq todo[e]
    BY <1>6, StepAdvances, TargetsStay DEF Advances
  <2>2. todo[e] \subseteq targets[e]
    BY DEF BarrierInv, TargetsInv
  <2>3. pc[e] # "lock" => pc'[e] # "lock"
    <3>1. ~Lookup(e)
      BY <1>3, StepPhases DEF PhaseInv, Lookups
    <3>2. CASE Load(e)
      <4>1. \E phase \in {"recheck", "wait", "load", "publish", "store", "finish", "returned"} :
              Goto(e, phase)
        BY <3>2 DEF Load, RegisterOwner, RegisterJoiner, RecheckHit, RecheckMiss, LoaderReturns,
             LoaderFound, LoaderMissing, LoaderFails, LoaderUnwinds, PublishSuperseded,
             PublishMissing, PublishBegin, PublishStore, Finish, WaitDone, WaitCanceled, Return
      <4>2. QED
        BY <4>1 DEF Goto, BarrierInv, TypeOK
    <3>3. CASE Mutate(e)
      <4>1. UNCHANGED pc \/ \E phase \in {"apply", "returned"} : Goto(e, phase)
        BY <3>3 DEF Mutate, AcquireLock, Forget, Set, GetOrSetHit, GetOrSetInsert,
             GetAndDelete, DeleteKey, ClearForget, ClearSegment, ReturnWhenRemoved, Return
      <4>2. QED
        BY <4>1 DEF Goto, BarrierInv, TypeOK
    <3>4. QED
      BY <1>6, <3>1, <3>2, <3>3 DEF Proceed
  <2>4. QED
    BY <1>1, <2>1, <2>2, <2>3 DEF Changing
<1>7. ~Start(e)
  BY <1>3, StartsFromIdle
<1>8. QED
  BY <1>4, <1>5, <1>6, <1>7, EveryStep

\* A mutation disturbs the keys it changes, except for GetOrSet, which respects a
\* value it finds.
LEMMA MutationLasts ==
  ASSUME NothingIsLost, BarrierInv, LastingInv, NEW c \in Callers, Mutate(c)
  PROVE  KeepsValues /\ SaysWhatLasts(c)
<1>1. pc[c] \in {"lock", "apply"} /\ UNCHANGED outcome
  BY StepPhases
     DEF Mutate, AcquireLock, Forget, Set, GetOrSetHit, GetOrSetInsert, GetAndDelete,
         DeleteKey, ClearForget, ClearSegment
<1>2. ASSUME UNCHANGED entry, result'[c].entry \in {result[c].entry, NoEntry}
      PROVE  KeepsValues /\ SaysWhatLasts(c)
  BY <1>1, <1>2, OutcomeLasts DEF LastingInv
<1>3. CASE Forget(c) \/ ClearForget(c) \/ \E s \in Segments : AcquireLock(c, s)
  <2>1. UNCHANGED <<entry, result>>
    BY <1>3 DEF Forget, ClearForget, AcquireLock
  <2>2. QED
    BY <1>2, <2>1
<1>4. ASSUME op[c] \in {"set", "getOrSet", "getAndDelete"}, pc[c] = "apply"
      PROVE  key[c] \in Keys /\ targets[c] = {key[c]}
  BY <1>4 DEF BarrierInv, TargetsInv
<1>5. CASE GetOrSetHit(c)
  <2>1. PICK t \in ReadTimes(c) :
          /\ entry' = [entry EXCEPT ![key[c]] = Touched(entry[key[c]], t)]
          /\ Return(c, "found", Touched(entry[key[c]], t))
    BY <1>5 DEF GetOrSetHit
  <2>2. key[c] \in Keys /\ UNCHANGED key
    BY <1>4, <1>5 DEF GetOrSetHit, call
  <2>3. UNCHANGED entry /\ Touched(entry[key[c]], t) = entry[key[c]]
    BY <2>1, <2>2, ReadsChangeNothing, NothingExpires
  <2>4. result'[c].entry = entry[key[c]]
    BY <2>1, <2>3 DEF Return, Result, BarrierInv, TypeOK
  <2>5. QED
    BY <1>1, <2>2, <2>3, <2>4 DEF KeepsValues, SaysWhatLasts, Said, LastingInv
\* An insertion under NothingIsLost.
<1>6. ASSUME NEW expiration \in Expirations, NEW t \in ReadTimes(c),
             NEW e \in NewEntries(c, expiration, t), key[c] \in Keys, Put(key[c], e)
      PROVE  LastingInv' /\ entry'[key[c]] = e /\ \A k \in Keys \ {key[c]} : entry'[k] = entry[k]
  <2>1. t \in Nat
    BY TypesOfInv, ReadTimeIsNat
  <2>2. Lasting(e)
    BY <2>1, NewEntriesLast
  <2>3. entry' = [entry EXCEPT ![key[c]] = e]
    BY <1>6, NoEviction
  <2>4. entry'[key[c]] = e /\ \A k \in Keys \ {key[c]} : entry'[k] = entry[k]
    BY <1>6, <2>3 DEF BarrierInv, TypeOK
  <2>5. QED
    BY <1>1, <2>2, <2>4 DEF LastingInv
<1>7. CASE GetOrSetInsert(c)
  <2>1. key[c] \in Keys /\ UNCHANGED key
    BY <1>4, <1>7 DEF GetOrSetInsert, call
  <2>2. PICK expiration \in Expirations, t \in ReadTimes(c) :
          /\ ~Live(key[c], t)
          /\ \E e \in NewEntries(c, expiration, t) : Put(key[c], e) /\ Return(c, "stored", e)
    BY <1>7 DEF GetOrSetInsert
  <2>3. PICK e \in NewEntries(c, expiration, t) : Put(key[c], e) /\ Return(c, "stored", e)
    BY <2>2
  <2>4. /\ LastingInv' /\ entry'[key[c]] = e
        /\ \A k \in Keys \ {key[c]} : entry'[k] = entry[k]
    BY <1>6, <2>1, <2>3
  <2>5. entry[key[c]] = NoEntry
    BY <2>1, <2>2, NothingExpires
  <2>6. result'[c].entry = e
    BY <2>3 DEF Return, Result, BarrierInv, TypeOK
  <2>7. KeepsValues
    BY <2>4, <2>5 DEF KeepsValues
  <2>8. SaysWhatLasts(c)
    BY <1>1, <2>1, <2>4, <2>6 DEF SaysWhatLasts, Said
  <2>9. QED
    BY <2>7, <2>8
\* From here on, the mutation disturbs every key it changes.
<1>8. CASE Set(c) \/ GetAndDelete(c)
  <2>1. /\ op[c] \in {"set", "getAndDelete"} /\ pc[c] = "apply" /\ UNCHANGED <<op, key, targets>>
        /\ pc'[c] = "returned"
    BY <1>8 DEF Set, GetAndDelete, Return, Goto, call, BarrierInv, TypeOK
  <2>2. key[c] \in Keys /\ targets[c] = {key[c]} /\ Disturbed(key[c])'
    BY <1>4, <2>1 DEF Disturbed, Changing
  <2>3. LastingInv' /\ \A k \in Keys \ {key[c]} : entry'[k] = entry[k]
    <3>1. CASE Set(c)
      <4>1. PICK expiration \in Expirations, t \in ReadTimes(c) :
              \E e \in NewEntries(c, expiration, t) : Put(key[c], e)
        BY <3>1 DEF Set
      <4>2. QED
        BY <1>6, <2>2, <4>1
    <3>2. CASE GetAndDelete(c)
      BY <1>1, <2>2, <3>2, NoEntryLasts DEF GetAndDelete, RemoveAll, LastingInv
    <3>3. QED
      BY <1>8, <3>1, <3>2
  <2>4. QED
    BY <2>1, <2>2, <2>3 DEF KeepsValues, SaysWhatLasts
<1>9. CASE \/ \E k \in Keys : DeleteKey(c, k)
           \/ \E s \in Segments : ClearSegment(c, s)
  <2>0. todo[c] \subseteq targets[c] /\ targets[c] \subseteq Keys
    BY DEF BarrierInv, TypeOK, TargetsInv
  <2>1. PICK ks \in SUBSET targets[c] :
          /\ RemoveAll(ks) /\ todo' = [todo EXCEPT ![c] = @ \ ks]
          /\ ks \intersect todo[c] # {} /\ ReturnWhenRemoved(c)
    <3>1. ASSUME NEW k \in Keys, DeleteKey(c, k)
          PROVE  {k} \in SUBSET targets[c] /\ {k} \intersect todo[c] # {}
      BY <2>0, <3>1 DEF DeleteKey
    <3>2. ASSUME NEW s \in Segments, ClearSegment(c, s)
          PROVE  KeysOf(s) \in SUBSET targets[c] /\ KeysOf(s) \intersect todo[c] # {}
      <4>1. targets[c] = Keys /\ \E k \in todo[c] : SegOf[k] = s
        BY <3>2 DEF ClearSegment, BarrierInv, TargetsInv
      <4>2. QED
        BY <2>0, <4>1 DEF KeysOf
    <3>3. QED
      BY <1>9, <3>1, <3>2 DEF DeleteKey, ClearSegment
  <2>2. /\ op[c] \in {"delete", "clear"} /\ UNCHANGED <<op, key, targets>>
    BY <1>9 DEF DeleteKey, ClearSegment, call
  <2>3. todo'[c] # targets[c]
    BY <2>0, <2>1 DEF BarrierInv, TypeOK
  <2>4. \A k \in targets[c] : Disturbed(k)'
    BY <2>2, <2>3 DEF Disturbed, Changing
  <2>6. KeepsValues
    BY <1>1, <2>1, <2>4, NoEntryLasts DEF KeepsValues, RemoveAll, LastingInv
  <2>7. result'[c].entry \in {result[c].entry, NoEntry}
    BY <2>1 DEF ReturnWhenRemoved, Return, Result, BarrierInv, TypeOK
  <2>8. SaysWhatLasts(c)
    BY <1>1, <2>2, <2>7, NoEntryLasts DEF SaysWhatLasts, Said
  <2>9. QED
    BY <2>6, <2>8
<1>10. QED
  BY <1>3, <1>5, <1>7, <1>8, <1>9 DEF Mutate

LEMMA ProceedLasts ==
  ASSUME NothingIsLost, BarrierInv, PhaseInv, LastingInv, AgreeInv, [Next]_vars,
         NEW c \in Callers, Proceed(c)
  PROVE  KeepsValues /\ SaysWhatLasts(c)
<1>1. \A k \in Keys : Disturbed(k) => Disturbed(k)'
  BY DisturbedStays
<1>2. CASE Load(c)
  <2>1. CASE RegisterOwner(c) \/ RegisterJoiner(c) \/ RecheckHit(c) \/ RecheckMiss(c)
    BY <2>1, RegisterLasts, RecheckLasts
  <2>2. CASE LoaderFound(c) \/ LoaderMissing(c) \/ LoaderFails(c) \/ LoaderUnwinds(c)
    BY <2>2, LoaderLasts
  <2>3. CASE PublishSuperseded(c) \/ PublishMissing(c) \/ PublishBegin(c) \/ PublishStore(c)
    BY <2>3, PublishLasts
  <2>4. CASE Finish(c) \/ WaitDone(c) \/ WaitCanceled(c)
    BY <1>1, <2>4, WaitLasts
  <2>5. QED
    BY <1>2, <2>1, <2>2, <2>3, <2>4 DEF Load
<1>3. QED
  BY <1>2, LookupLasts, MutationLasts DEF Proceed

\* A step of one caller says nothing for another.
LEMMA OthersSayTheSame ==
  ASSUME BarrierInv, NEW c \in Callers, Proceed(c), NEW d \in Callers \ {c}
  PROVE  result'[d] = result[d] /\ outcome'[d] = outcome[d]
<1>1. UNCHANGED result \/ \E r : result' = [result EXCEPT ![c] = r]
  <2>1. CASE Lookup(c)
    BY <2>1 DEF Lookup, LookupHit, GetMiss, GetOrSetMiss, GetOrLoadMiss, Return
  <2>2. CASE Load(c)
    BY <2>2 DEF Load, RegisterOwner, RegisterJoiner, RecheckHit, RecheckMiss, LoaderReturns,
         LoaderFound, LoaderMissing, LoaderFails, LoaderUnwinds, PublishSuperseded,
         PublishMissing, PublishBegin, PublishStore, Finish, WaitDone, WaitCanceled, Return
  <2>3. CASE Mutate(c)
    BY <2>3 DEF Mutate, AcquireLock, Forget, Set, GetOrSetHit, GetOrSetInsert,
         GetAndDelete, DeleteKey, ClearForget, ClearSegment, ReturnWhenRemoved, Return
  <2>4. QED
    BY <2>1, <2>2, <2>3 DEF Proceed
<1>2. UNCHANGED outcome \/ \E r : outcome' = [outcome EXCEPT ![c] = r]
  <2>1. CASE Lookup(c)
    BY <2>1 DEF Lookup, LookupHit, GetMiss, GetOrSetMiss, GetOrLoadMiss, Miss
  <2>2. CASE Load(c)
    BY <2>2 DEF Load, RegisterOwner, RegisterJoiner, RecheckHit, RecheckMiss, LoaderReturns,
         LoaderFound, LoaderMissing, LoaderFails, LoaderUnwinds, PublishSuperseded,
         PublishMissing, PublishBegin, PublishStore, Finish, WaitDone, WaitCanceled
  <2>3. CASE Mutate(c)
    BY <2>3 DEF Mutate, AcquireLock, Forget, Set, GetOrSetHit, GetOrSetInsert,
         GetAndDelete, DeleteKey, ClearForget, ClearSegment
  <2>4. QED
    BY <2>1, <2>2, <2>3 DEF Proceed
<1>3. QED
  BY <1>1, <1>2 DEF BarrierInv, TypeOK

\* Delete and Clear return no value.
RemoversReturnNothing ==
  \A c \in Callers : op[c] \in {"delete", "clear"} => result[c].entry = NoEntry

LEMMA RemoversReturnNothingInductive ==
  ASSUME BarrierInv, PhaseInv, RemoversReturnNothing, [Next]_vars
  PROVE  RemoversReturnNothing'
<1>1. ASSUME NEW c \in Callers, Start(c)
      PROVE  RemoversReturnNothing'
  <2>1. pc[c] = "idle" /\ UNCHANGED result /\ \A d \in Callers \ {c} : op'[d] = op[d]
    BY <1>1, StartsFromIdle
  <2>2. result[c].entry = NoEntry
    BY <2>1, PendingValue DEF BarrierInv, HandleInv
  <2>3. QED
    BY <2>1, <2>2 DEF RemoversReturnNothing
<1>2. ASSUME NEW c \in Callers, Proceed(c)
      PROVE  RemoversReturnNothing'
  <2>1. UNCHANGED op
    BY <1>2, StepAdvances DEF Advances
  <2>2. ASSUME op[c] \in {"delete", "clear"}
        PROVE  result'[c].entry = NoEntry
    <3>1. result'[c].entry \in {result[c].entry, NoEntry}
      <4>1. UNCHANGED result \/ ReturnWhenRemoved(c)
        BY <1>2, <2>2, RemoverSteps DEF AcquireLock, DeleteKey, ClearForget, ClearSegment
      <4>2. QED
        BY <4>1 DEF ReturnWhenRemoved, Return, Result, BarrierInv, TypeOK
    <3>2. QED
      BY <2>2, <3>1 DEF RemoversReturnNothing
  <2>3. QED
    BY <1>2, <2>1, <2>2, OthersSayTheSame DEF RemoversReturnNothing
<1>3. CASE Elsewhere
  BY <1>3, ElsewhereEffect DEF RemoversReturnNothing
<1>4. QED
  BY <1>1, <1>2, <1>3, EveryStep

\* Where nothing expires, cleanup and refreshes find nothing to do.
LEMMA ElsewhereLasts ==
  ASSUME BarrierInv, LastingInv, Elsewhere
  PROVE  UNCHANGED entry
<1>1. ASSUME NEW k \in Keys
      PROVE  ~Reclaim(k) /\ ~Renew(k)
  BY <1>1 DEF LastingInv, Lasting, Reclaim, Renew, Expired
<1>2. QED
  BY <1>1 DEF Elsewhere, Cancel, Tick, vars

LEMMA AgreeInvInductive ==
  ASSUME NothingIsLost, BarrierInv, PhaseInv, LastingInv, AgreeInv, [Next]_vars
  PROVE  LastingInv' /\ AgreeInv'
<1>1. \A k \in Keys : Disturbed(k) => Disturbed(k)'
  BY DisturbedStays
<1>2. ASSUME NEW c \in Callers, Start(c)
      PROVE  LastingInv' /\ AgreeInv'
  <2>1. /\ pc[c] = "idle" /\ UNCHANGED <<entry, outcome, result>>
        /\ \A d \in Callers \ {c} : pc'[d] = pc[d]
    BY <1>2, StartsFromIdle
  <2>2. \A d \in Callers \ {c} : key'[d] = key[d]
    BY <1>2 DEF Start, BeginLookup, BeginMutation, BeginDelete, BeginClear, Begin,
                BarrierInv, TypeOK
  <2>3. \A v \in Callers : ~Said(c, v)'
    BY <2>1, PendingValue, AbsentAssumption DEF Said, BarrierInv, HandleInv
  <2>4. \A d \in Callers \ {c}, v \in Callers : Said(d, v)' => Said(d, v)
    BY <2>1 DEF Said
  <2>5. QED
    BY <1>1, <2>1, <2>2, <2>3, <2>4 DEF LastingInv, AgreeInv
<1>3. ASSUME NEW c \in Callers, Proceed(c)
      PROVE  LastingInv' /\ AgreeInv'
  <2>1. KeepsValues /\ SaysWhatLasts(c)
    BY <1>3, ProceedLasts
  <2>2. UNCHANGED key /\ \A d \in Callers \ {c} : pc'[d] = pc[d]
    BY <1>3, TargetsStay, OthersKeepTheirTargets
  <2>3. ASSUME NEW d \in Callers, NEW v \in Callers, key[d] \in Keys, Said(d, v)
        PROVE  entry'[key[d]].value = v \/ Disturbed(key[d])'
    <3>1. Disturbed(key[d]) => Disturbed(key[d])'
      BY <1>1, <2>2, <2>3
    <3>2. entry[key[d]].value = v \/ Disturbed(key[d])
      BY <2>3 DEF AgreeInv
    <3>3. \/ entry[key[d]] = NoEntry \/ entry'[key[d]].value = entry[key[d]].value
          \/ Disturbed(key[d])'
      BY <2>1, <2>2, <2>3 DEF KeepsValues
    <3>4. QED
      BY <3>1, <3>2, <3>3, NoEntryLasts
  <2>4. \A d \in Callers \ {c}, v \in Callers : Said(d, v)' => Said(d, v)
    BY <1>3, <2>2, OthersSayTheSame DEF Said
  <2>5. \A d \in Callers, v \in Callers :
          key[d] \in Keys /\ Said(d, v)' => entry'[key[d]].value = v \/ Disturbed(key[d])'
    BY <2>1, <2>3, <2>4 DEF SaysWhatLasts
  <2>6. AgreeInv'
    BY <2>2, <2>5 DEF AgreeInv
  <2>7. QED
    BY <2>1, <2>6 DEF KeepsValues
<1>4. CASE Elsewhere
  <2>1. UNCHANGED <<entry, key, outcome, result, pc>>
    BY <1>4, ElsewhereLasts, ElsewhereEffect
  <2>2. QED
    BY <1>1, <2>1 DEF LastingInv, AgreeInv, Said
<1>5. QED
  BY <1>2, <1>3, <1>4, EveryStep

LEMMA AgreeInvInitially == Init => LastingInv /\ AgreeInv /\ RemoversReturnNothing
BY PendingValue, NoEntryLasts
   DEF Init, LastingInv, AgreeInv, RemoversReturnNothing, Said, Pending, Result

LEMMA AgreementSuffices ==
  ASSUME BarrierInv, PhaseInv, AgreeInv, RemoversReturnNothing
  PROVE  FirstValueWins
<1>1. SUFFICES ASSUME NEW c \in Callers, NEW d \in Callers, key[c] = key[d],
                      result[c].entry.value # NoCall, result[d].entry.value # NoCall,
                      result[c].entry.value # result[d].entry.value
               PROVE  Disturbed(key[c])
  BY DEF FirstValueWins, Disturbed, Changing
<1>2. result[c].entry # NoEntry /\ pc[c] # "idle" /\ op[c] \notin {"delete", "clear"}
  BY <1>1, PendingValue DEF BarrierInv, HandleInv, RemoversReturnNothing
<1>3. key[c] \in Keys
  BY <1>2 DEF BarrierInv, TargetsInv
<1>4. result[c].entry.value \in Callers /\ result[d].entry.value \in Callers
  BY <1>1, TypesOfInv, ValuesTyped, EntryValue
<1>5. Said(c, result[c].entry.value) /\ Said(d, result[d].entry.value)
  BY DEF Said
<1>6. QED
  BY <1>1, <1>3, <1>4, <1>5 DEF AgreeInv

\* GetOrSet and load coalescing agree on one value per key (set.go, load.go): with
\* entries that do not expire and segments that hold all their keys, callers of one
\* key return different values only if a Set or a removal has begun to change it.
THEOREM FirstValueWinsHolds == ASSUME NothingIsLost PROVE Spec => []FirstValueWins
<1> DEFINE Agreement == LastingInv /\ AgreeInv /\ RemoversReturnNothing
<1>1. Init => Agreement
  BY AgreeInvInitially
<1>2. BarrierInv /\ PhaseInv /\ Agreement /\ [Next]_vars => Agreement'
  BY AgreeInvInductive, RemoversReturnNothingInductive
<1>3. BarrierInv /\ PhaseInv /\ Agreement => FirstValueWins
  BY AgreementSuffices
<1> HIDE DEF Agreement
<1>4. QED
  BY <1>1, <1>2, <1>3, BarrierHolds, PhasesHold, PTL DEF Spec
================================================================================
