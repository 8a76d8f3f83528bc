-------------------------- MODULE CoordinationProofs --------------------------
(***************************************************************************)
(* Proofs about Coordination, for every set of callers and keys, every     *)
(* number of segments and every capacity.                                  *)
(***************************************************************************)
EXTENDS CoordinationInvariant, TLAPS

(***************************************************************************)
(* The values the store is given have their types.                         *)
(***************************************************************************)

\* deadlineAfter never yields a negative deadline, whatever TTL it is given.
LEMMA DeadlineIsNat ==
  ASSUME NEW t \in Nat, NEW ttl \in Int
  PROVE  DeadlineAfter(t, ttl) \in Nat
BY MaxDurationAssumption DEF DeadlineAfter

\* effectiveTTL yields 0 or a positive duration that does not exceed MaxInt64,
\* however large the jitter is.
LEMMA EffectiveTTLBounds ==
  ASSUME NEW expiration \in Int, expiration <= MaxDuration, TTL <= MaxDuration,
         NEW ttl \in EffectiveTTLs(expiration, TTL, Jitter)
  PROVE  ttl \in 0..MaxDuration
BY TimeAssumption, MaxDurationAssumption
   DEF EffectiveTTLs, JitteredTTLs, AtMost, DefaultExpiration

LEMMA EffectiveTTLIsNat ==
  ASSUME NEW expiration \in Int,
         NEW ttl \in EffectiveTTLs(expiration, TTL, Jitter)
  PROVE  ttl \in Nat
BY TimeAssumption, MaxDurationAssumption
   DEF EffectiveTTLs, JitteredTTLs, AtMost, DefaultExpiration

\* The entries an operation may store are well-formed and carry its own value.
LEMMA NewEntriesType ==
  ASSUME NEW c \in Callers, NEW expiration \in Int, NEW t \in Nat,
         NEW e \in NewEntries(c, expiration, t)
  PROVE  e \in Entries /\ e.value = c
BY EffectiveTTLIsNat, DeadlineIsNat DEF NewEntries, Entries

\* A sliding hit keeps the value.
LEMMA TouchedType ==
  ASSUME NEW e \in Entries, NEW t \in Nat
  PROVE  Touched(e, t) \in Entries /\ Touched(e, t).value = e.value
<1>1. e.ttl \in Int /\ e.deadline \in Nat
  BY DEF Entries
<1>2. DeadlineAfter(t, e.ttl) \in Nat
  BY <1>1, DeadlineIsNat
<1>3. Extended(e.deadline, t, e.ttl) \in Nat
  BY <1>1, <1>2 DEF Extended
<1>4. QED
  BY <1>3 DEF Touched, Entries

EntryType == entry \in [Keys -> Entries \union {NoEntry}]

\* An insertion stores the entry under its key and evicts at most other keys.
LEMMA PutEffect ==
  ASSUME EntryType, NEW k \in Keys, NEW e \in Entries, Put(k, e)
  PROVE  /\ EntryType'
         /\ entry'[k] = e
         /\ \A j \in Keys \ {k} : entry'[j] \in {entry[j], NoEntry}
BY DEF EntryType, Put, ResidentIn, Resident

LEMMA ResultType ==
  ASSUME NEW status \in Statuses, NEW e \in Entries \union {NoEntry}
  PROVE  /\ Result(status, e) \in Results
         /\ Result(status, e).status = status
         /\ Result(status, e).entry = e
BY DEF Result, Results

LEMMA ReturnType ==
  ASSUME result \in [Callers -> Results], NEW c \in Callers,
         NEW status \in Statuses, NEW e \in Entries \union {NoEntry},
         Return(c, status, e)
  PROVE  result' \in [Callers -> Results]
BY ResultType DEF Return

LEMMA RemoveAllEffect ==
  ASSUME EntryType, NEW ks \in SUBSET Keys, RemoveAll(ks)
  PROVE  /\ EntryType'
         /\ \A k \in Keys : entry'[k] = IF k \in ks THEN NoEntry ELSE entry[k]
BY DEF EntryType, RemoveAll
-------------------------------------------------------------------------------
(***************************************************************************)
(* Type correctness.                                                       *)
(***************************************************************************)
Types == /\ TypeOK
         /\ \A c \in Callers : pc[c] # "idle" /\ op[c] \notin {"delete", "clear"} => key[c] \in Keys
         /\ \A c \in Callers : op[c] \in {"delete", "clear"} => pc[c] \in {"lock", "apply", "returned"}

LEMMA StartTypes ==
  ASSUME Types, NEW c \in Callers, Start(c)
  PROVE  Types'
<1>1. ASSUME NEW operation, NEW k \in Keys \union {NoKey}, NEW ks \in SUBSET Keys,
             NEW phase \in Phases, Begin(c, operation, k, ks, phase),
             \/ operation \notin {"delete", "clear"} /\ k \in Keys
             \/ operation \in {"delete", "clear"} /\ phase = "lock"
      PROVE  Types'
  BY <1>1, ChoicesAssumption
     DEF Begin, Types, TypeOK, Flight!TypeOK, callKey, flight, locks, Goto, Phases, Entries
<1>2. QED
  BY <1>1, ChoicesAssumption
     DEF Start, BeginLookup, BeginMutation, BeginDelete, BeginClear, Lookups, Phases

\* A time read by a caller is a time, and the entries it touches or creates are
\* well-formed.
LEMMA ReadTimeIsNat ==
  ASSUME Types, NEW c \in Callers, NEW t \in ReadTimes(c)
  PROVE  t \in Nat
BY DEF Types, TypeOK, ReadTimes

LEMMA LookupTypes ==
  ASSUME Types, NEW c \in Callers, Lookup(c)
  PROVE  Types'
<1> key[c] \in Keys /\ EntryType
  BY DEF Types, TypeOK, EntryType, Lookup, LookupHit, GetMiss, GetOrSetMiss, GetOrLoadMiss, Miss
<1>1. CASE LookupHit(c)
  <2>1. PICK t \in ReadTimes(c) :
          /\ Live(key[c], t)
          /\ entry' = [entry EXCEPT ![key[c]] = Touched(entry[key[c]], t)]
          /\ Return(c, "found", Touched(entry[key[c]], t))
    BY <1>1 DEF LookupHit
  <2>2. entry[key[c]] \in Entries
    BY <2>1 DEF Live, Resident, EntryType
  <2>3. Touched(entry[key[c]], t) \in Entries
    BY <2>2, ReadTimeIsNat, TouchedType
  <2>4. result' \in [Callers -> Results]
    BY <2>1, <2>3, ReturnType DEF Types, TypeOK, Statuses
  <2>5. QED
    BY <1>1, <2>1, <2>3, <2>4
       DEF LookupHit, Types, TypeOK, Flight!TypeOK, callKey, flight, locks, call, ghosts,
           Return, Goto, Count, Counters, Phases
<1>2. ASSUME Miss(c), NEW phase \in Phases, op[c] \notin {"delete", "clear"},
             Goto(c, phase), result' \in [Callers -> Results]
      PROVE  Types'
  <2>1. EntryType'
    BY <1>2, RemoveAllEffect DEF Miss
  <2>2. QED
    BY <1>2, <2>1
       DEF Miss, Types, TypeOK, Flight!TypeOK, callKey, flight, locks, call, ghosts, EntryType,
           Goto, Count, Counters
<1>3. ASSUME NEW status \in Statuses, Return(c, status, NoEntry)
      PROVE  result' \in [Callers -> Results]
  BY <1>3, ReturnType DEF Types, TypeOK
<1>4. QED
  BY <1>1, <1>2, <1>3
     DEF Lookup, GetMiss, GetOrSetMiss, GetOrLoadMiss, Statuses, Phases, Return, Types, TypeOK

LEMMA LoadTypes ==
  ASSUME Types, NEW c \in Callers, Load(c)
  PROVE  Types'
<1> USE DEF Types, TypeOK, Flight!TypeOK, callKey, flight, locks, call, ghosts, Goto, Phases
<1> pc[c] \notin {"idle", "returned", "lock", "apply", "lookup"} /\ key[c] \in Keys /\ SegOf[key[c]] \in Segments
  BY SegmentsAssumption
     DEF Load, RegisterOwner, RegisterJoiner, RecheckHit, RecheckMiss, LoaderFound, LoaderMissing,
         LoaderFails, LoaderUnwinds, LoaderReturns, PublishSuperseded, PublishMissing,
         PublishBegin, PublishStore, Finish, WaitDone, WaitCanceled
<1> EntryType
  BY DEF EntryType
<1>1. CASE RegisterOwner(c)
  BY <1>1 DEF RegisterOwner, Flight!Lead
<1>2. CASE RegisterJoiner(c)
  BY <1>2 DEF RegisterJoiner, Flight!Join
<1>3. CASE RecheckHit(c)
  <2>1. PICK t \in ReadTimes(c) :
          /\ Live(key[c], t)
          /\ entry' = [entry EXCEPT ![key[c]] = Touched(entry[key[c]], t)]
          /\ outcome' = [outcome EXCEPT ![c] = Result("found", Touched(entry[key[c]], t))]
    BY <1>3 DEF RecheckHit
  <2>2. entry[key[c]] \in Entries
    BY <2>1 DEF Live, Resident, EntryType
  <2>3. Touched(entry[key[c]], t) \in Entries
    BY <2>2, ReadTimeIsNat, TouchedType
  <2>4. Result("found", Touched(entry[key[c]], t)) \in Results
    BY <2>3, ResultType DEF Statuses
  <2>5. QED
    BY <1>3, <2>1, <2>3, <2>4 DEF RecheckHit
<1>4. CASE RecheckMiss(c)
  <2>1. EntryType'
    BY <1>4, RemoveAllEffect DEF RecheckMiss
  <2>2. QED
    BY <1>4, <2>1 DEF RecheckMiss, EntryType
<1>5. ASSUME NEW status \in Statuses, NEW e \in Entries \union {NoEntry},
             NEW phase \in {"publish", "finish"}, LoaderReturns(c, status, e, phase),
             stats' \in [Counters -> Nat]
      PROVE  Types'
  <2>1. Result(status, e) \in Results
    BY ResultType
  <2>2. QED
    BY <1>5, <2>1 DEF LoaderReturns
<1>6. ASSUME NEW counter \in Counters, Count(counter)
      PROVE  stats' \in [Counters -> Nat]
  BY <1>6 DEF Count
<1>7. CASE LoaderFound(c)
  <2>1. PICK e \in NewEntries(c, DefaultExpiration, clock) : LoaderReturns(c, "found", e, "publish")
    BY <1>7 DEF LoaderFound
  <2>2. e \in Entries
    BY NewEntriesType DEF DefaultExpiration
  <2>3. QED
    BY <1>5, <1>6, <1>7, <2>1, <2>2 DEF LoaderFound, Statuses, Counters
<1>8. CASE LoaderMissing(c) \/ LoaderFails(c) \/ LoaderUnwinds(c)
  BY <1>5, <1>6, <1>8 DEF LoaderMissing, LoaderFails, LoaderUnwinds, Statuses, Counters
<1>9. CASE PublishSuperseded(c)
  <2>1. stats' \in [Counters -> Nat]
    BY <1>6, <1>9 DEF PublishSuperseded, Counters
  <2>2. Result("superseded", NoEntry) \in Results
    BY ResultType DEF Statuses
  <2>3. QED
    BY <1>9, <2>1, <2>2 DEF PublishSuperseded
<1>10. CASE PublishMissing(c)
  BY <1>10 DEF PublishMissing
<1>11. CASE PublishBegin(c)
  BY <1>11 DEF PublishBegin
<1>12. CASE PublishStore(c)
  <2>1. outcome[c].entry \in Entries \union {NoEntry}
    BY DEF Results
  <2>2. entry' \in [Keys -> Entries \union {NoEntry}]
    BY <1>12, <2>1 DEF PublishStore, Put, ResidentIn
  <2>3. QED
    BY <1>12, <2>2 DEF PublishStore
<1>13. CASE Finish(c)
  <2>1. group' \in [Keys -> Callers \union {NoCall}]
    <3>1. group' = [group EXCEPT ![key[c]] = IF group[key[c]] = c THEN NoCall ELSE group[key[c]]]
      BY <1>13 DEF Finish, Flight!FinishWave, Flight!Detach
    <3>2. (IF group[key[c]] = c THEN NoCall ELSE group[key[c]]) \in Callers \union {NoCall}
      OBVIOUS
    <3>3. QED
      BY <3>1, <3>2
  <2>2. result' \in [Callers -> Results]
    BY <1>13, ReturnType DEF Finish, Statuses
  <2>3. pc' \in [Callers -> Phases] /\ \A d \in Callers \ {c} : pc'[d] = pc[d]
    BY <1>13 DEF Finish, Return
  <2>4. done' \in SUBSET Callers
    BY <1>13 DEF Finish, Flight!FinishWave
  <2>5. QED
    BY <1>13, <2>1, <2>2, <2>3, <2>4 DEF Finish
<1>14. CASE WaitDone(c)
  <2>1. stats' \in [Counters -> Nat]
    BY <1>6, <1>14 DEF WaitDone, Counters
  <2>2. outcome[wave[c]] \in Results
    BY <1>14 DEF WaitDone
  <2>3. outcome[wave[c]].status \in Statuses /\ outcome[wave[c]].entry \in Entries \union {NoEntry}
    BY <2>2 DEF Results
  <2>4. result' \in [Callers -> Results]
    BY <1>14, <2>3, ReturnType DEF WaitDone
  <2>5. QED
    BY <1>14, <2>1, <2>4 DEF WaitDone, Return
<1>15. CASE WaitCanceled(c)
  <2>1. result' \in [Callers -> Results]
    BY <1>15, ReturnType DEF WaitCanceled, Statuses
  <2>2. QED
    BY <1>15, <2>1 DEF WaitCanceled, Return
<1>16. QED
  BY <1>1, <1>2, <1>3, <1>4, <1>7, <1>8, <1>9, <1>10, <1>11, <1>12, <1>13, <1>14, <1>15 DEF Load

LEMMA ForgetKeysType ==
  ASSUME Flight!TypeOK, NEW ks \in SUBSET Keys, Flight!ForgetKeys(ks)
  PROVE  group' \in [Keys -> Callers \union {NoCall}] /\ forgotten' \in SUBSET Callers
BY DEF Flight!TypeOK, Flight!ForgetKeys

LEMMA MutateTypes ==
  ASSUME Types, NEW c \in Callers, Mutate(c)
  PROVE  Types'
<1> USE DEF Types, TypeOK, Flight!TypeOK, callKey, flight, locks, call, ghosts, Goto, Phases
<1> pc[c] \in {"lock", "apply"} /\ EntryType
  BY DEF EntryType, Mutate, AcquireLock, Forget, Set, GetOrSetHit, GetOrSetInsert, GetAndDelete,
         DeleteKey, ClearForget, ClearSegment
<1>1. ASSUME NEW s \in Segments, AcquireLock(c, s)
      PROVE  Types'
  BY <1>1 DEF AcquireLock
<1>2. ASSUME ReleaseLocks(c)
      PROVE  writer' \in [Segments -> Callers \union {NoCall}] /\ UNCHANGED readers
  BY <1>2 DEF ReleaseLocks
<1>3. CASE Forget(c)
  BY <1>3, ForgetKeysType DEF Forget
\* The last step of a single-key mutation: a change of the store, the unlock,
\* the result and the bookkeeping.
<1>4. ASSUME EntryType', ReleaseLocks(c), NEW status \in Statuses,
             NEW e \in Entries \union {NoEntry}, Return(c, status, e),
             outdated' \in SUBSET Callers, UNCHANGED avoid,
             UNCHANGED <<flight, clock, call, todo, now, outcome, canceled, stats>>
      PROVE  Types'
  <2>1. result' \in [Callers -> Results]
    BY <1>4, ReturnType
  <2>2. QED
    BY <1>2, <1>4, <2>1 DEF EntryType, Return
<1>5. ASSUME NEW ks, Outdate(c, ks)
      PROVE  outdated' \in SUBSET Callers /\ UNCHANGED avoid
  BY <1>5 DEF Outdate
<1>6. CASE Set(c)
  <2> key[c] \in Keys
    BY <1>6 DEF Set
  <2>1. PICK expiration \in Expirations, t \in ReadTimes(c) :
          \E e \in NewEntries(c, expiration, t) : Put(key[c], e)
    BY <1>6 DEF Set
  <2>2. PICK e \in NewEntries(c, expiration, t) : Put(key[c], e)
    BY <2>1
  <2>3. e \in Entries
    BY <2>2, ReadTimeIsNat, NewEntriesType, ChoicesAssumption
  <2>4. EntryType'
    BY <2>2, <2>3, PutEffect
  <2>5. QED
    BY <1>4, <1>5, <1>6, <2>4 DEF Set, Statuses
<1>7. CASE GetOrSetHit(c)
  <2> key[c] \in Keys
    BY <1>7 DEF GetOrSetHit
  <2>1. PICK t \in ReadTimes(c) :
          /\ Live(key[c], t)
          /\ entry' = [entry EXCEPT ![key[c]] = Touched(entry[key[c]], t)]
          /\ Return(c, "found", Touched(entry[key[c]], t))
    BY <1>7 DEF GetOrSetHit
  <2>2. Touched(entry[key[c]], t) \in Entries
    BY <2>1, ReadTimeIsNat, TouchedType DEF Live, Resident, EntryType
  <2>3. EntryType'
    BY <2>1, <2>2 DEF EntryType
  <2>4. QED
    BY <1>4, <1>7, <2>1, <2>2, <2>3 DEF GetOrSetHit, Statuses
<1>8. CASE GetOrSetInsert(c)
  <2> key[c] \in Keys
    BY <1>8 DEF GetOrSetInsert
  <2>1. PICK expiration \in Expirations, t \in ReadTimes(c) :
          \E e \in NewEntries(c, expiration, t) : Put(key[c], e) /\ Return(c, "stored", e)
    BY <1>8 DEF GetOrSetInsert
  <2>2. PICK e \in NewEntries(c, expiration, t) : Put(key[c], e) /\ Return(c, "stored", e)
    BY <2>1
  <2>3. e \in Entries
    BY <2>2, ReadTimeIsNat, NewEntriesType, ChoicesAssumption
  <2>4. EntryType'
    BY <2>2, <2>3, PutEffect
  <2>5. QED
    BY <1>4, <1>5, <1>8, <2>2, <2>3, <2>4 DEF GetOrSetInsert, Statuses
<1>9. CASE GetAndDelete(c)
  <2> key[c] \in Keys
    BY <1>9 DEF GetAndDelete
  <2>1. EntryType'
    BY <1>9, RemoveAllEffect DEF GetAndDelete
  <2>2. \/ Return(c, "found", entry[key[c]])
        \/ Return(c, "missing", NoEntry)
    BY <1>9 DEF GetAndDelete
  <2>3. entry[key[c]] \in Entries \union {NoEntry}
    BY DEF EntryType
  <2>4. QED
    BY <1>4, <1>5, <1>9, <2>1, <2>2, <2>3 DEF GetAndDelete, Statuses
\* One step of Delete or Clear, the last one or not.
<1>10. ASSUME NEW ks \in SUBSET Keys, RemoveAll(ks), ReturnWhenRemoved(c), Outdate(c, ks),
              op[c] \in {"delete", "clear"},
              todo' \in [Callers -> SUBSET Keys],
              group' \in [Keys -> Callers \union {NoCall}], forgotten' \in SUBSET Callers,
              UNCHANGED <<wave, done, clock, call, now, outcome, canceled, stats>>
       PROVE  Types'
  <2>1. EntryType'
    BY <1>10, RemoveAllEffect
  <2>2. writer' \in [Segments -> Callers \union {NoCall}] /\ UNCHANGED readers
    BY <1>2, <1>10 DEF ReturnWhenRemoved
  <2>3. result' \in [Callers -> Results]
    BY <1>10, ReturnType DEF ReturnWhenRemoved, Statuses
  <2>4. pc' \in [Callers -> Phases] /\ \A d \in Callers : pc'[d] \in {pc[d], "returned"} /\ (d # c => pc'[d] = pc[d])
    BY <1>10 DEF ReturnWhenRemoved, Return
  <2>5. QED
    BY <1>5, <1>10, <2>1, <2>2, <2>3, <2>4 DEF EntryType
<1>11. ASSUME NEW k \in Keys, DeleteKey(c, k)
       PROVE  Types'
  BY <1>10, <1>11, ForgetKeysType DEF DeleteKey
<1>12. CASE ClearForget(c)
  BY <1>12, ForgetKeysType DEF ClearForget
<1>13. ASSUME NEW s \in Segments, ClearSegment(c, s)
       PROVE  Types'
  BY <1>10, <1>13 DEF ClearSegment, KeysOf
<1>14. QED
  BY <1>1, <1>3, <1>6, <1>7, <1>8, <1>9, <1>11, <1>12, <1>13 DEF Mutate

\* What a hit, a refresh or a removal does to the store: no key gets another value.
Kept(k) == entry'[k] # NoEntry => entry[k] # NoEntry /\ entry'[k].value = entry[k].value

\* RefreshTTL changes a deadline and nothing else.
LEMMA RenewEffect ==
  ASSUME Types, NEW k \in Keys, Renew(k)
  PROVE  /\ EntryType'
         /\ \A j \in Keys : Kept(j)
<1>1. PICK t \in 0..clock :
        /\ Live(k, t)
        /\ entry' = [entry EXCEPT ![k].deadline = Extended(@, t, entry[k].ttl)]
  BY DEF Renew
<1>2. t \in Nat /\ entry[k] \in Entries /\ entry[k] # NoEntry
  BY <1>1 DEF Types, TypeOK, Live, Resident
<1>3. entry[k].ttl \in Int /\ entry[k].deadline \in Nat
  BY <1>2 DEF Entries
<1>4. Extended(entry[k].deadline, t, entry[k].ttl) \in Nat
  BY <1>2, <1>3, DeadlineIsNat DEF Extended
<1>5. entry'[k] \in Entries /\ entry'[k].value = entry[k].value
  BY <1>1, <1>2, <1>4 DEF Entries, Types, TypeOK
<1>6. \A j \in Keys \ {k} : entry'[j] = entry[j]
  BY <1>1 DEF Types, TypeOK
<1>7. QED
  BY <1>1, <1>2, <1>5, <1>6 DEF EntryType, Kept, Types, TypeOK

LEMMA TypesInductive == Types /\ [Next]_vars => Types'
<1> SUFFICES ASSUME Types, [Next]_vars PROVE Types'
  OBVIOUS
<1> USE DEF Types, TypeOK, Flight!TypeOK, callKey, flight, locks, call, ghosts
<1>1. ASSUME NEW c \in Callers, Start(c) \/ Proceed(c)
      PROVE  Types'
  BY <1>1, StartTypes, LookupTypes, LoadTypes, MutateTypes DEF Proceed
<1>2. ASSUME NEW c \in Callers, Cancel(c)
      PROVE  Types'
  BY <1>2 DEF Cancel
<1>3. ASSUME NEW k \in Keys, Reclaim(k)
      PROVE  Types'
  <2>1. EntryType'
    BY <1>3, RemoveAllEffect DEF Reclaim, EntryType
  <2>2. QED
    BY <1>3, <2>1 DEF Reclaim, EntryType
<1>4. ASSUME NEW k \in Keys, Renew(k)
      PROVE  Types'
  <2>1. EntryType'
    BY <1>4, RenewEffect
  <2>2. QED
    BY <1>4, <2>1 DEF Renew, EntryType
<1>5. CASE Tick
  BY <1>5, TimeAssumption DEF Tick
<1>6. CASE UNCHANGED vars
  BY <1>6 DEF vars
<1>7. QED
  BY <1>1, <1>2, <1>3, <1>4, <1>5, <1>6 DEF Next, Terminated

LEMMA TypesInitially == Init => Types
<1> SUFFICES ASSUME Init PROVE Types
  OBVIOUS
<1>1. Result("pending", NoEntry) \in Results
  BY ResultType DEF Statuses
<1>2. QED
  BY <1>1, TimeAssumption
     DEF Init, Types, TypeOK, Flight!Init, Flight!TypeOK, callKey, Pending, Phases, Counters

\* Every reachable state is well-typed, whatever the number of callers, keys and
\* segments: in particular every deadline is a natural number and every value
\* in the cache was written by a caller.
THEOREM TypeCorrect == Spec => []TypeOK
<1>1. Types => TypeOK
  BY DEF Types
<1>2. QED
  BY <1>1, TypesInitially, TypesInductive, PTL DEF Spec
-------------------------------------------------------------------------------
(***************************************************************************)
(* The publication barrier.                                                *)
(***************************************************************************)

LEMMA HitEffect ==
  ASSUME Types, NEW c \in Callers, NEW t \in ReadTimes(c), NEW k \in Keys, Live(k, t),
         entry' = [entry EXCEPT ![k] = Touched(entry[k], t)]
  PROVE  /\ \A j \in Keys : Kept(j)
         /\ Touched(entry[k], t) \in Entries
         /\ Touched(entry[k], t).value = entry[k].value
         /\ entry[k] # NoEntry
<1>1. entry[k] \in Entries /\ entry[k] # NoEntry
  BY DEF Types, TypeOK, Live, Resident
<1>2. Touched(entry[k], t) \in Entries /\ Touched(entry[k], t).value = entry[k].value
  BY <1>1, ReadTimeIsNat, TouchedType
<1>3. QED
  BY <1>1, <1>2 DEF Kept, Types, TypeOK

LEMMA RemovalEffect ==
  ASSUME Types, NEW ks \in SUBSET Keys, RemoveAll(ks)
  PROVE  \A j \in Keys : Kept(j)
BY DEF RemoveAll, Kept

\* An entry has a value some caller wrote; the absence of one has none.
LEMMA EntryValue ==
  ASSUME NEW e \in Entries \union {NoEntry}
  PROVE  /\ e # NoEntry <=> e.value \in Callers
         /\ e = NoEntry <=> e.value = NoCall
BY AbsentAssumption DEF Entries, NoEntry

LEMMA PendingValue == Pending.entry = NoEntry /\ NoEntry.value = NoCall
BY DEF Pending, Result, NoEntry

LEMMA TypesOfInv ==
  ASSUME BarrierInv
  PROVE  Types
BY DEF BarrierInv, TargetsInv, Types

LEMMA StartInv ==
  ASSUME BarrierInv, TypeOK', NEW c \in Callers, Start(c)
  PROVE  BarrierInv'
<1>1. ASSUME NEW operation \in AllOps, NEW k \in Keys \union {NoKey}, NEW ks \in SUBSET Keys,
             NEW phase \in {"lookup", "lock"}, Begin(c, operation, k, ks, phase),
             \/ operation \notin {"delete", "clear"} /\ k \in Keys /\ ks = {k}
             \/ operation = "delete" /\ phase = "lock"
             \/ operation = "clear" /\ phase = "lock" /\ ks = Keys
      PROVE  BarrierInv'
  <2> USE <1>1 DEF BarrierInv, TypeOK, Flight!TypeOK, Begin, Goto, flight, locks
  <2>1. TargetsInv'
    BY DEF TargetsInv
  <2>2. LockInv'
    BY DEF TargetsInv, LockInv, HoldsAll, Holds, SegmentsOf
  <2>3. HandleInv'
    BY AbsentAssumption DEF HandleInv, Owning, Loading
  <2>4. GroupInv'
    BY DEF GroupInv, Current, Owning, Loading
  <2>5. HoleInv'
    BY DEF HoleInv, Resident
  <2>6. ~Provided(c)
    BY AbsentAssumption DEF HandleInv, Provided
  <2>7. \A d \in Callers : Provided(d) => d # c /\ Provided(d)'
    BY <2>6 DEF Provided
  <2>8. ValueInv'
    BY <2>7, EntryValue DEF ValueInv, Resident
  <2>9. OutcomeInv'
    <3>1. outcome[c].entry = NoEntry
      BY AbsentAssumption, PendingValue DEF HandleInv
    <3>2. \A d \in Callers : outcome[d].entry # NoEntry => outcome[d].entry.value \in Callers
      BY EntryValue DEF Results
    <3>3. QED
      BY <2>7, <3>1, <3>2 DEF OutcomeInv
  <2>10. FreshInv'
    <3>1. avoid'[c] = outdated /\ ~Current(c)' /\ wave'[c] = NoCall /\ result'[c].entry.value = NoCall
      BY PendingValue DEF HandleInv, Current, Owning, Loading
    <3>2. NoCall \notin outdated
      BY AbsentAssumption
    <3>3. \A d \in Callers \ {c} : avoid'[d] = avoid[d] /\ (Current(d)' <=> Current(d))
      BY DEF Current, Owning, Loading
    <3>4. QED
      BY <3>1, <3>2, <3>3 DEF FreshInv
  <2>11. QED
    BY <2>1, <2>2, <2>3, <2>4, <2>5, <2>8, <2>9, <2>10
<1>2. QED
  BY <1>1, ChoicesAssumption
     DEF Start, BeginLookup, BeginMutation, BeginDelete, BeginClear, Lookups, AllOps

LEMMA ValuesTyped ==
  ASSUME Types
  PROVE  /\ \A k \in Keys : entry[k] \in Entries \union {NoEntry}
         /\ \A c \in Callers : outcome[c].entry \in Entries \union {NoEntry}
         /\ \A c \in Callers : result[c].entry \in Entries \union {NoEntry}
BY DEF Types, TypeOK, Results

\* A step of caller c that takes no lock, registers no wave and gives no key a
\* value.  Only its phase, its outcome and its result change.
QuietStep(c) ==
  /\ UNCHANGED <<flight, locks, call, todo, ghosts>>
  /\ \A k \in Keys : Kept(k)
  /\ \A d \in Callers \ {c} : pc'[d] = pc[d] /\ outcome'[d] = outcome[d] /\ result'[d] = result[d]
  /\ \/ pc[c] = "lookup" /\ pc'[c] \in {"lock", "register", "returned"}
     \/ pc[c] \in {"recheck", "load", "publish"} /\ pc'[c] \in {"load", "publish", "finish"}
     \/ pc[c] = "wait" /\ pc'[c] = "returned"
  /\ pc'[c] = "register" => op[c] = "getOrLoad"
  /\ pc'[c] = "load" => entry'[key[c]] = NoEntry
  /\ pc'[c] = "publish" => pc[c] # "recheck"
  /\ pc'[c] # "returned" => result'[c] = result[c]
  /\ outcome'[c] # outcome[c] =>
       /\ pc[c] \in {"recheck", "load", "publish"}
       /\ outcome'[c].status = "found" => outcome'[c].entry # NoEntry

\* The value c hands to its wave or returns is one it may see.
FitOutcome(c, v) ==
  v = NoCall \/ /\ v \in Callers
                /\ key[v] = key[c]
                /\ Provided(v)
                /\ Current(c) => v \notin outdated
                /\ \A d \in Callers : wave[d] = c => v \notin avoid[d]
                /\ pc'[c] = "publish" => v = c

LEMMA QuietInv ==
  ASSUME BarrierInv, TypeOK', NEW c \in Callers, QuietStep(c),
         outcome'[c] # outcome[c] => FitOutcome(c, outcome'[c].entry.value),
         pc'[c] = "publish" /\ outcome'[c] = outcome[c] => FitOutcome(c, outcome[c].entry.value),
         result'[c].entry.value \notin avoid[c]
  PROVE  BarrierInv'
<1> USE DEF BarrierInv, TypeOK, Flight!TypeOK, QuietStep, flight, locks, call, ghosts
<1>1. TargetsInv'
  BY DEF TargetsInv
<1>2. LockInv'
  BY DEF LockInv, HoldsAll, Holds, SegmentsOf
<1>3. HandleInv'
  BY AbsentAssumption DEF HandleInv, Owning, Loading
<1>4. \A d \in Callers : Current(d)' <=> Current(d)
  BY DEF Current, Owning, Loading
<1>5. GroupInv'
  BY <1>4 DEF GroupInv
<1>6. HoleInv'
  <2>1. ASSUME NEW d \in Callers, pc'[d] \in {"load", "publish", "store"}, d \notin forgotten
        PROVE  entry'[key[d]] = NoEntry
    <3>1. key[d] \in Keys
      BY <2>1 DEF TargetsInv
    <3>2. CASE pc[d] \in {"load", "publish", "store"}
      BY <2>1, <3>1, <3>2 DEF HoleInv, Resident, Kept
    <3>3. CASE pc[d] \notin {"load", "publish", "store"}
      BY <2>1, <3>3
    <3>4. QED
      BY <3>2, <3>3
  <2>2. QED
    BY <2>1 DEF HoleInv, Resident
<1>7. \A d \in Callers : Provided(d) => Provided(d)'
  BY DEF Provided, HandleInv, TargetsInv
<1>8. ValueInv'
  <2>1. \A k \in Keys : entry'[k] # NoEntry => entry[k] # NoEntry /\ entry'[k].value = entry[k].value
    BY DEF Kept
  <2>2. \A k \in Keys : entry[k] # NoEntry => entry[k].value \in Callers
    BY EntryValue, ValuesTyped, TypesOfInv
  <2>3. QED
    BY <1>7, <2>1, <2>2 DEF ValueInv, Resident
<1>9. OutcomeInv'
  <2>1. outcome'[c].entry \in Entries \union {NoEntry}
    BY DEF Results
  <2>2. \A d \in Callers : key'[d] = key[d]
    OBVIOUS
  <2>3. \A d \in Callers : outcome[d].entry # NoEntry => outcome[d].entry.value \in Callers
    BY EntryValue, ValuesTyped, TypesOfInv
  <2>4. pc'[c] # "store"
    OBVIOUS
  <2>5. CASE outcome'[c] # outcome[c]
    <3>1. outcome'[c].entry.value # NoCall <=> outcome'[c].entry # NoEntry
      BY <2>1, EntryValue
    <3>2. QED
      BY <1>7, <2>2, <2>3, <2>4, <2>5, <3>1 DEF OutcomeInv, FitOutcome
  <2>6. CASE outcome'[c] = outcome[c]
    <3>1. \A d \in Callers : outcome'[d] = outcome[d]
      BY <2>6
    <3>2. QED
      BY <1>7, <2>2, <2>3, <2>4, <2>6, <3>1 DEF OutcomeInv, FitOutcome
  <2>7. QED
    BY <2>5, <2>6
<1>10. FreshInv'
  <2>1. NoCall \notin outdated /\ \A d \in Callers : NoCall \notin avoid[d]
    BY AbsentAssumption
  <2>2. \A d \in Callers : Current(d)' => outcome'[d].entry.value \notin outdated
    <3>1. Current(c) => outcome'[c].entry.value \notin outdated
      BY <2>1 DEF FreshInv, FitOutcome
    <3>2. \A d \in Callers \ {c} : Current(d) => outcome'[d].entry.value \notin outdated
      BY DEF FreshInv
    <3>3. QED
      BY <1>4, <3>1, <3>2
  <2>3. ASSUME NEW d \in Callers, wave[d] # NoCall
        PROVE  outcome'[wave[d]].entry.value \notin avoid[d]
    <3>1. CASE wave[d] = c /\ outcome'[c] # outcome[c]
      BY <2>1, <3>1 DEF FitOutcome
    <3>2. CASE wave[d] # c \/ outcome'[c] = outcome[c]
      BY <2>3, <3>2 DEF FreshInv
    <3>3. QED
      BY <3>1, <3>2
  <2>4. \A d \in Callers : result'[d].entry.value \notin avoid[d]
    BY DEF FreshInv
  <2>5. QED
    BY <1>4, <2>2, <2>3, <2>4 DEF FreshInv
<1>11. QED
  BY <1>1, <1>2, <1>3, <1>5, <1>6, <1>8, <1>9, <1>10

LEMMA LookupInv ==
  ASSUME BarrierInv, TypeOK', NEW c \in Callers, Lookup(c)
  PROVE  BarrierInv'
<1> USE DEF flight, locks, call, ghosts
<1> Types /\ key[c] \in Keys /\ pc[c] = "lookup"
  BY TypesOfInv DEF BarrierInv, TargetsInv, Lookup, LookupHit, GetMiss, GetOrSetMiss, GetOrLoadMiss, Miss
<1>1. NoCall \notin avoid[c]
  BY AbsentAssumption DEF Types, TypeOK
<1>2. result[c].entry.value = NoCall
  BY PendingValue DEF BarrierInv, HandleInv
<1>3. CASE LookupHit(c)
  <2>1. PICK t \in ReadTimes(c) :
          /\ Live(key[c], t)
          /\ entry' = [entry EXCEPT ![key[c]] = Touched(entry[key[c]], t)]
          /\ Return(c, "found", Touched(entry[key[c]], t))
    BY <1>3 DEF LookupHit
  <2> DEFINE e == Touched(entry[key[c]], t)
  <2>2. (\A j \in Keys : Kept(j)) /\ e.value = entry[key[c]].value /\ entry[key[c]] # NoEntry
    BY <2>1, HitEffect
  <2>3. e.value \notin avoid[c]
    BY <2>2 DEF BarrierInv, ValueInv, FreshInv, Resident
  <2>4. result'[c].entry = e /\ pc'[c] = "returned"
    BY <2>1 DEF Return, Goto, Result, Types, TypeOK
  <2>5. QuietStep(c)
    BY <1>3, <2>1, <2>2 DEF LookupHit, QuietStep, Return, Goto, Types, TypeOK
  <2>6. outcome' = outcome
    BY <1>3 DEF LookupHit
  <2>7. QED
    BY <2>3, <2>4, <2>5, <2>6, QuietInv
<1>4. CASE Miss(c) /\ (GetMiss(c) \/ GetOrSetMiss(c) \/ GetOrLoadMiss(c))
  <2>1. \A j \in Keys : Kept(j)
    BY <1>4, RemovalEffect DEF Miss
  <2>2. pc'[c] \in {"lock", "register", "returned"} /\ (pc'[c] # "returned" => result'[c] = result[c])
    BY <1>4 DEF GetMiss, GetOrSetMiss, GetOrLoadMiss, Return, Goto, Types, TypeOK
  <2>3. \A d \in Callers \ {c} : pc'[d] = pc[d] /\ result'[d] = result[d]
    BY <1>4 DEF GetMiss, GetOrSetMiss, GetOrLoadMiss, Return, Goto, Types, TypeOK
  <2>4. pc'[c] = "register" => op[c] = "getOrLoad"
    BY <1>4 DEF GetMiss, GetOrSetMiss, GetOrLoadMiss, Return, Goto, Types, TypeOK
  <2>5. QuietStep(c) /\ outcome' = outcome
    BY <1>4, <2>1, <2>2, <2>3, <2>4 DEF Miss, QuietStep
  <2>6. result'[c] = result[c] \/ result'[c].entry = NoEntry
    BY <1>4 DEF GetMiss, GetOrSetMiss, GetOrLoadMiss, Return, Result, Types, TypeOK
  <2>7. QED
    BY <1>1, <1>2, <2>2, <2>5, <2>6, PendingValue, QuietInv
<1>5. QED
  BY <1>3, <1>4 DEF Lookup, GetMiss, GetOrSetMiss, GetOrLoadMiss

\* The owner's steps between its registration and its publication.
LEMMA RecheckInv ==
  ASSUME BarrierInv, TypeOK', NEW c \in Callers, RecheckHit(c) \/ RecheckMiss(c)
  PROVE  BarrierInv'
<1> USE DEF flight, locks, call, ghosts
<1> Types /\ key[c] \in Keys /\ pc[c] = "recheck"
  BY TypesOfInv DEF BarrierInv, TargetsInv, RecheckHit, RecheckMiss
<1>1. result'[c] = result[c]
  BY DEF RecheckHit, RecheckMiss
<1>2. result[c].entry.value \notin avoid[c]
  BY DEF BarrierInv, FreshInv
<1>3. CASE RecheckHit(c)
  <2>1. PICK t \in ReadTimes(c) :
          /\ Live(key[c], t)
          /\ entry' = [entry EXCEPT ![key[c]] = Touched(entry[key[c]], t)]
          /\ outcome' = [outcome EXCEPT ![c] = Result("found", Touched(entry[key[c]], t))]
    BY <1>3 DEF RecheckHit
  <2> DEFINE e == Touched(entry[key[c]], t)
  <2>2. (\A j \in Keys : Kept(j)) /\ e.value = entry[key[c]].value /\ entry[key[c]] # NoEntry
    BY <2>1, HitEffect
  <2>3. outcome'[c].entry = e /\ pc'[c] = "finish"
    BY <1>3, <2>1 DEF RecheckHit, Goto, Result, Types, TypeOK
  <2>4. e.value \in Callers
    BY <2>2, EntryValue, ValuesTyped
  <2>5. FitOutcome(c, e.value)
    BY <2>2, <2>3, <2>4 DEF FitOutcome, BarrierInv, ValueInv, FreshInv, Resident
  <2>6. e # NoEntry
    BY <2>4, PendingValue, AbsentAssumption
  <2>7. QuietStep(c)
    BY <1>3, <2>1, <2>2, <2>3, <2>6 DEF RecheckHit, QuietStep, Goto, Types, TypeOK
  <2>8. QED
    BY <1>1, <1>2, <2>3, <2>5, <2>7, QuietInv
<1>4. CASE RecheckMiss(c)
  <2>1. \A j \in Keys : Kept(j)
    BY <1>4, RemovalEffect DEF RecheckMiss
  <2>2. entry'[key[c]] = NoEntry
    BY <1>4 DEF RecheckMiss, RemoveAll
  <2>3. QuietStep(c) /\ pc'[c] = "load" /\ outcome' = outcome
    BY <1>4, <2>1, <2>2 DEF RecheckMiss, QuietStep, Goto, Types, TypeOK
  <2>4. QED
    BY <1>1, <1>2, <2>3, QuietInv
<1>5. QED
  BY <1>3, <1>4

LEMMA LoaderInv ==
  ASSUME BarrierInv, TypeOK', NEW c \in Callers,
         LoaderFound(c) \/ LoaderMissing(c) \/ LoaderFails(c) \/ LoaderUnwinds(c)
  PROVE  BarrierInv'
<1> USE DEF flight, locks, call, ghosts
<1>1. ASSUME NEW status, NEW e \in Entries \union {NoEntry}, NEW phase \in {"publish", "finish"},
             LoaderReturns(c, status, e, phase), e.value \in {c, NoCall},
             status = "found" => e # NoEntry
      PROVE  BarrierInv'
  <2> Types /\ pc[c] = "load"
    BY <1>1, TypesOfInv DEF LoaderReturns
  <2>1. outcome'[c].entry = e /\ pc'[c] = phase /\ UNCHANGED <<entry, result>>
    BY <1>1 DEF LoaderReturns, Result, Goto, Types, TypeOK
  <2>2. wave[c] = c
    BY DEF BarrierInv, HandleInv, Owning, Loading
  <2>3. FitOutcome(c, e.value)
    BY <1>1, <2>2, AbsentAssumption DEF FitOutcome, Provided, BarrierInv, FreshInv
  <2>4. QuietStep(c)
    BY <1>1, <2>1 DEF LoaderReturns, QuietStep, Result, Goto, Kept, Types, TypeOK
  <2>5. result[c].entry.value \notin avoid[c]
    BY DEF BarrierInv, FreshInv
  <2>6. pc'[c] = "publish" /\ outcome'[c] = outcome[c] => FitOutcome(c, outcome[c].entry.value)
    BY <2>1, <2>3
  <2>7. QED
    BY <2>1, <2>3, <2>4, <2>5, <2>6, QuietInv
<1>2. CASE LoaderFound(c)
  <2>1. PICK e \in NewEntries(c, DefaultExpiration, clock) : LoaderReturns(c, "found", e, "publish")
    BY <1>2 DEF LoaderFound
  <2>2. e \in Entries /\ e.value = c /\ e # NoEntry
    BY NewEntriesType, EntryValue DEF DefaultExpiration, BarrierInv, TypeOK
  <2>3. QED
    BY <1>1, <2>1, <2>2
<1>3. CASE LoaderMissing(c) \/ LoaderFails(c) \/ LoaderUnwinds(c)
  BY <1>1, <1>3, PendingValue DEF LoaderMissing, LoaderFails, LoaderUnwinds
<1>4. QED
  BY <1>2, <1>3

\* A load that ends without publishing, and a caller that stops waiting.
LEMMA QuietEndInv ==
  ASSUME BarrierInv, TypeOK', NEW c \in Callers,
         PublishSuperseded(c) \/ PublishMissing(c) \/ WaitDone(c) \/ WaitCanceled(c)
  PROVE  BarrierInv'
<1> USE DEF flight, locks, call, ghosts
<1> Types
  BY TypesOfInv
<1> NoCall \notin avoid[c] /\ result[c].entry.value \notin avoid[c]
  BY AbsentAssumption DEF BarrierInv, FreshInv, Types, TypeOK
<1>1. CASE PublishSuperseded(c)
  <2>1. outcome'[c].entry = NoEntry /\ pc'[c] = "finish" /\ UNCHANGED <<entry, result>>
    BY <1>1 DEF PublishSuperseded, Result, Goto, Types, TypeOK
  <2>2. QuietStep(c)
    BY <1>1, <2>1 DEF PublishSuperseded, QuietStep, Result, Goto, Kept, Types, TypeOK
  <2>3. QED
    BY <2>1, <2>2, PendingValue, QuietInv DEF FitOutcome
<1>2. CASE PublishMissing(c)
  <2>1. QuietStep(c) /\ pc'[c] = "finish" /\ UNCHANGED <<outcome, result>>
    BY <1>2 DEF PublishMissing, QuietStep, Goto, Kept, Types, TypeOK
  <2>2. QED
    BY <2>1, QuietInv
<1>3. CASE WaitDone(c)
  <2>1. wave[c] # NoCall
    BY <1>3, AbsentAssumption DEF WaitDone, Types, TypeOK, Flight!TypeOK
  <2>2. result'[c].entry = outcome[wave[c]].entry /\ pc'[c] = "returned"
    BY <1>3 DEF WaitDone, Return, Result, Goto, Types, TypeOK
  <2>3. QuietStep(c) /\ outcome' = outcome
    BY <1>3 DEF WaitDone, QuietStep, Return, Goto, Kept, Types, TypeOK
  <2>4. result'[c].entry.value \notin avoid[c]
    BY <2>1, <2>2 DEF BarrierInv, FreshInv
  <2>5. QED
    BY <2>2, <2>3, <2>4, QuietInv
<1>4. CASE WaitCanceled(c)
  <2>1. result'[c].entry = NoEntry /\ pc'[c] = "returned"
    BY <1>4 DEF WaitCanceled, Return, Result, Goto, Types, TypeOK
  <2>2. QuietStep(c) /\ outcome' = outcome
    BY <1>4 DEF WaitCanceled, QuietStep, Return, Goto, Kept, Types, TypeOK
  <2>3. QED
    BY <2>1, <2>2, PendingValue, QuietInv
<1>5. QED
  BY <1>1, <1>2, <1>3, <1>4

\* The locks a mutation needs cover the segments of its keys.
LEMMA TargetSegments ==
  ASSUME Types, NEW d \in Callers, NEW k \in targets[d]
  PROVE  k \in Keys /\ SegOf[k] \in SegmentsOf(d) /\ SegOf[k] \in Segments
BY SegmentsAssumption DEF SegmentsOf, Types, TypeOK

LEMMA ChangingHolds ==
  ASSUME BarrierInv, NEW d \in Callers, pc[d] = "apply", NEW k \in targets[d]
  PROVE  Holds(d, SegOf[k])
BY TargetSegments, TypesOfInv DEF BarrierInv, LockInv, HoldsAll

\* What a value needs to stay a value of its key.
LEMMA ProvidedStable ==
  ASSUME Types, NEW c \in Callers, UNCHANGED <<op, key>>,
         \A d \in Callers : wave[d] = d => wave'[d] = d,
         \A d \in Callers : pc[d] = "returned" => pc'[d] = "returned"
  PROVE  \A d \in Callers : Provided(d) => Provided(d)'
BY DEF Provided

\* A new wave takes the place of none: the group had no wave of this key, so no
\* unforgotten owner either.
LEMMA RegisterOwnerInv ==
  ASSUME BarrierInv, TypeOK', NEW c \in Callers, RegisterOwner(c)
  PROVE  BarrierInv'
<1> USE DEF BarrierInv, TypeOK, Flight!TypeOK, RegisterOwner, Flight!Lead, Goto, locks, call, ghosts
<1> Types /\ key[c] \in Keys
  BY TypesOfInv DEF TargetsInv
<1>1. wave[c] = NoCall /\ outcome[c] = Pending /\ ~Provided(c)
  BY AbsentAssumption DEF HandleInv, Provided
<1>2. TargetsInv'
  BY DEF TargetsInv
<1>3. LockInv'
  BY DEF LockInv, HoldsAll, Holds, SegmentsOf
<1>4. \A d \in Callers : wave[d] # c
  BY <1>1, AbsentAssumption DEF HandleInv
<1>5. HandleInv'
  <2>1. op[c] = "getOrLoad"
    BY DEF TargetsInv
  <2>2. QED
    BY <1>1, <1>4, <2>1, AbsentAssumption DEF HandleInv, Owning, Loading
<1>6. c \notin forgotten /\ c \notin outdated /\ outcome[c].entry.value = NoCall
  BY <1>1, AbsentAssumption, PendingValue DEF HandleInv, ValueInv
<1>7. (\A d \in Callers \ {c} : Current(d)' <=> Current(d)) /\ Current(c)' /\ ~Current(c)
  BY <1>1, <1>6 DEF Current, Owning, Loading
<1>8. GroupInv'
  <2>1. \A d \in Callers : Current(d) => key[d] # key[c]
    BY AbsentAssumption DEF GroupInv
  <2>2. \A d \in Callers : pc'[d] = "apply" => \A k \in targets[d] : k # key[c]
    BY AbsentAssumption, ChangingHolds DEF Holds, CanRead
  <2>3. QED
    BY <1>7, <2>1, <2>2 DEF GroupInv, TargetsInv, Current, Owning, Loading
<1>9. HoleInv'
  BY DEF HoleInv, Resident
<1>10. \A d \in Callers : Provided(d) => Provided(d)'
  BY <1>1, ProvidedStable
<1>11. ValueInv'
  BY <1>10, EntryValue DEF ValueInv, Resident
<1>12. OutcomeInv'
  BY <1>10, EntryValue, ValuesTyped DEF OutcomeInv
<1>13. FreshInv'
  BY <1>4, <1>6, <1>7, AbsentAssumption DEF FreshInv
<1>14. QED
  BY <1>2, <1>3, <1>5, <1>8, <1>9, <1>11, <1>12, <1>13

\* A caller joins a current wave: what that wave yields is not outdated yet.
LEMMA RegisterJoinerInv ==
  ASSUME BarrierInv, TypeOK', NEW c \in Callers, RegisterJoiner(c)
  PROVE  BarrierInv'
<1> USE DEF BarrierInv, TypeOK, Flight!TypeOK, RegisterJoiner, Flight!Join, Goto, locks, call, ghosts
<1> DEFINE w == group[key[c]]
<1> Types /\ key[c] \in Keys /\ w \in Callers
  BY TypesOfInv DEF TargetsInv
<1>1. wave[c] = NoCall /\ c \notin forgotten /\ ~Owning(c)
  BY AbsentAssumption DEF HandleInv, Owning, Loading
<1>2. Current(w) /\ key[w] = key[c] /\ wave[w] = w /\ w # c
  BY <1>1, AbsentAssumption DEF GroupInv, HandleInv, Current
<1>3. TargetsInv'
  BY DEF TargetsInv
<1>4. LockInv'
  BY DEF LockInv, HoldsAll, Holds, SegmentsOf
<1>5. \A d \in Callers : wave[d] # c
  BY <1>1, AbsentAssumption DEF HandleInv
<1>6. HandleInv'
  <2>1. op[c] = "getOrLoad"
    BY DEF TargetsInv
  <2>2. QED
    BY <1>1, <1>2, <1>5, <2>1, AbsentAssumption DEF HandleInv, Owning, Loading
<1>7. \A d \in Callers : Current(d)' <=> Current(d)
  BY <1>1 DEF Current, Owning, Loading
<1>8. GroupInv'
  BY <1>7 DEF GroupInv
<1>9. HoleInv'
  BY DEF HoleInv, Resident
<1>10. \A d \in Callers : Provided(d) => Provided(d)'
  BY <1>1, AbsentAssumption, ProvidedStable
<1>11. ValueInv'
  BY <1>10, EntryValue DEF ValueInv, Resident
<1>12. OutcomeInv'
  BY <1>10, EntryValue, ValuesTyped DEF OutcomeInv
<1>13. FreshInv'
  BY <1>2, <1>7, AbsentAssumption DEF FreshInv
<1>14. QED
  BY <1>3, <1>4, <1>6, <1>8, <1>9, <1>11, <1>12, <1>13

\* The owner takes the read lock: no mutation is changing its key.
LEMMA PublishBeginInv ==
  ASSUME BarrierInv, TypeOK', NEW c \in Callers, PublishBegin(c)
  PROVE  BarrierInv'
<1> USE DEF BarrierInv, TypeOK, Flight!TypeOK, PublishBegin, Goto, flight, call, ghosts
<1> Types /\ key[c] \in Keys /\ SegOf[key[c]] \in Segments
  BY TypesOfInv, SegmentsAssumption DEF TargetsInv
<1>1. TargetsInv'
  BY DEF TargetsInv
<1>2. LockInv'
  BY AbsentAssumption DEF LockInv, HoldsAll, Holds, SegmentsOf, CanRead
<1>3. HandleInv'
  BY DEF HandleInv, Owning, Loading
<1>4. \A d \in Callers : Current(d)' <=> Current(d)
  BY DEF Current, Owning, Loading
<1>5. GroupInv'
  BY <1>4 DEF GroupInv
<1>6. HoleInv'
  BY DEF HoleInv, Resident
<1>7. \A d \in Callers : Provided(d) => Provided(d)'
  BY ProvidedStable
<1>8. ValueInv'
  BY <1>7, EntryValue DEF ValueInv, Resident
<1>9. OutcomeInv'
  BY <1>7, EntryValue, ValuesTyped DEF OutcomeInv
<1>10. FreshInv'
  BY <1>4 DEF FreshInv
<1>11. QED
  BY <1>1, <1>2, <1>3, <1>5, <1>6, <1>8, <1>9, <1>10

\* Two current loads of one key are the same load.
LEMMA OneCurrentLoad ==
  ASSUME BarrierInv, NEW c \in Callers, NEW d \in Callers, Current(c), Current(d), key[c] = key[d]
  PROVE  c = d
BY DEF BarrierInv, GroupInv

\* A load fills the hole it found: it is current, so its value is not outdated,
\* and no other load believes in a hole at that key.
LEMMA PublishStoreInv ==
  ASSUME BarrierInv, TypeOK', NEW c \in Callers, PublishStore(c)
  PROVE  BarrierInv'
<1> USE DEF BarrierInv, TypeOK, Flight!TypeOK, PublishStore, Goto, flight, call, ghosts
<1> DEFINE k == key[c]
           e == outcome[c].entry
<1> Types /\ k \in Keys /\ SegOf[k] \in Segments
  BY TypesOfInv, SegmentsAssumption DEF TargetsInv
<1>1. Current(c) /\ wave[c] = c
  BY DEF HoleInv, Current, Owning, Loading, HandleInv
<1>2. e \in Entries /\ e.value = c /\ e # NoEntry
  <2>1. e # NoEntry /\ e \in Entries \union {NoEntry}
    BY ValuesTyped DEF OutcomeInv
  <2>2. QED
    BY <2>1, EntryValue DEF OutcomeInv
<1>3. entry'[k] = e /\ \A j \in Keys \ {k} : entry'[j] \in {entry[j], NoEntry}
  BY <1>2, PutEffect DEF EntryType
<1>4. TargetsInv'
  BY DEF TargetsInv
<1>5. LockInv'
  BY DEF LockInv, HoldsAll, Holds, SegmentsOf
<1>6. HandleInv'
  BY DEF HandleInv, Owning, Loading
<1>7. \A d \in Callers : Current(d)' <=> Current(d)
  BY DEF Current, Owning, Loading
<1>8. GroupInv'
  BY <1>7 DEF GroupInv
<1>9. HoleInv'
  <2>1. ASSUME NEW d \in Callers, pc'[d] \in {"load", "publish", "store"}, d \notin forgotten
        PROVE  entry'[key[d]] = NoEntry
    <3>1. d # c /\ pc'[d] = pc[d]
      BY <2>1
    <3>2. key[d] \in Keys
      BY <2>1, <3>1 DEF TargetsInv
    <3>. USE <3>2
    <3>3. key[d] # k
      BY <1>1, <2>1, <3>1, OneCurrentLoad DEF Current, Owning, Loading
    <3>4. QED
      BY <1>3, <2>1, <3>1, <3>3 DEF HoleInv, Resident
  <2>2. QED
    BY <2>1 DEF HoleInv, Resident
<1>10. \A d \in Callers : Provided(d) => Provided(d)'
  BY ProvidedStable
<1>11. ValueInv'
  <2>1. c \notin outdated /\ Provided(c)'
    BY <1>1 DEF FreshInv, Provided
  <2>2. \A j \in Keys : entry[j] # NoEntry => entry[j].value \in Callers
    BY EntryValue, ValuesTyped
  <2>3. ASSUME NEW j \in Keys, entry'[j] # NoEntry
        PROVE  /\ entry'[j].value \notin outdated
               /\ key[entry'[j].value] = j
               /\ Provided(entry[j].value)'
    <3>1. CASE j = k
      BY <1>2, <1>3, <2>1, <3>1
    <3>2. CASE j # k
      BY <1>3, <1>10, <2>2, <2>3, <3>2 DEF ValueInv, Resident
    <3>3. QED
      BY <3>1, <3>2
  <2>4. \A d \in outdated : Provided(d)'
    BY <1>10 DEF ValueInv
  <2>5. QED
    BY <2>3, <2>4 DEF ValueInv, Resident
<1>12. OutcomeInv'
  BY <1>10, EntryValue, ValuesTyped DEF OutcomeInv
<1>13. FreshInv'
  BY <1>7 DEF FreshInv
<1>14. QED
  BY <1>4, <1>5, <1>6, <1>8, <1>9, <1>11, <1>12, <1>13

\* A wave that ends leaves the group; if it was forgotten, the group holds
\* another wave of its key, which stays.
LEMMA FinishInv ==
  ASSUME BarrierInv, TypeOK', NEW c \in Callers, Finish(c)
  PROVE  BarrierInv'
<1> USE DEF BarrierInv, TypeOK, Flight!TypeOK, Goto, locks, call, ghosts
<1> DEFINE k == key[c]
<1> Types /\ k \in Keys /\ pc[c] = "finish"
  BY TypesOfInv DEF TargetsInv, Finish
<1>1. /\ pc' \in [Callers -> Phases] /\ pc'[c] \in {"wait", "returned"}
      /\ \A d \in Callers \ {c} : pc'[d] = pc[d] /\ result'[d] = result[d]
      /\ pc'[c] = "wait" => result'[c] = result[c]
      /\ result'[c] = result[c] \/ result'[c].entry = NoEntry
  BY DEF Finish, Return, Result
<1>2. \A j \in Keys : group'[j] = IF j = k /\ group[j] = c THEN NoCall ELSE group[j]
  BY DEF Finish, Flight!FinishWave, Flight!Detach
<1>3. UNCHANGED <<wave, forgotten, locks, entry, clock, call, todo, now, outcome, ghosts>>
  BY DEF Finish
<1>4. wave[c] = c /\ op[c] = "getOrLoad"
  BY AbsentAssumption DEF HandleInv, Owning
<1>5. TargetsInv'
  BY <1>1, <1>3, <1>4 DEF TargetsInv
<1>6. LockInv'
  <2>1. \A d \in Callers : (pc'[d] = "store" <=> pc[d] = "store") /\ (pc'[d] = "apply" <=> pc[d] = "apply")
    BY <1>1
  <2>2. QED
    BY <1>3, <2>1 DEF LockInv, HoldsAll, Holds, SegmentsOf
<1>7. HandleInv'
  BY <1>1, <1>3 DEF HandleInv, Owning, Loading
<1>8. \A d \in Callers : Current(d)' <=> Current(d) /\ d # c
  BY <1>1, <1>3 DEF Current, Owning, Loading
<1>9. GroupInv'
  <2>1. \A j \in Keys : group'[j] # NoCall => group'[j] = group[j] /\ group[j] # c
    BY <1>2, AbsentAssumption DEF GroupInv
  <2>2. \A d \in Callers : Current(d)' => group'[key[d]] = d
    <3>1. ASSUME NEW d \in Callers, Current(d)'
          PROVE  group'[key[d]] = d
      <4>1. Current(d) /\ d # c
        BY <1>8, <3>1
      <4>2. key[d] \in Keys /\ group[key[d]] = d
        BY <4>1 DEF GroupInv, TargetsInv, Current, Owning, Loading
      <4>3. QED
        BY <1>2, <4>1, <4>2
    <3>2. QED
      BY <3>1
  <2>3. \A d \in Callers : pc'[d] = "apply" => \A j \in targets[d] : group'[j] = NoCall
    BY <1>1, <1>2 DEF GroupInv
  <2>4. QED
    BY <1>3, <1>8, <2>1, <2>2, <2>3 DEF GroupInv
<1>10. HoleInv'
  BY <1>1, <1>3 DEF HoleInv, Resident
<1>11. \A d \in Callers : Provided(d) => Provided(d)'
  BY <1>1, <1>3, ProvidedStable
<1>12. ValueInv'
  BY <1>3, <1>11, EntryValue, ValuesTyped DEF ValueInv, Resident
<1>13. OutcomeInv'
  BY <1>1, <1>3, <1>11, EntryValue, ValuesTyped DEF OutcomeInv
<1>14. FreshInv'
  <2>1. \A d \in Callers : result'[d].entry.value \in {result[d].entry.value, NoCall}
    BY <1>1, PendingValue
  <2>2. \A d \in Callers : NoCall \notin avoid[d]
    BY AbsentAssumption
  <2>3. \A d \in Callers : result'[d].entry.value \notin avoid'[d]
    <3>1. SUFFICES ASSUME NEW d \in Callers
                   PROVE  result'[d].entry.value \notin avoid'[d]
      OBVIOUS
    <3>2. result[d].entry.value \notin avoid[d]
      BY DEF FreshInv
    <3>3. avoid' = avoid
      BY <1>3
    <3>4. QED
      BY <2>1, <2>2, <3>2, <3>3
  <2>4. \A d \in Callers : Current(d)' => d \notin outdated' /\ outcome'[d].entry.value \notin outdated'
    BY <1>3, <1>8 DEF FreshInv
  <2>5. QED
    BY <1>3, <2>3, <2>4 DEF FreshInv
<1>15. QED
  BY <1>5, <1>6, <1>7, <1>9, <1>10, <1>12, <1>13, <1>14

\* What a caller does under its write locks.  It forgets the loads of some of
\* its keys, and changes the store only at keys whose loads are all forgotten:
\* there it removes the value or gives its own.
MutationStep(c, forget, change) ==
  /\ pc[c] \in {"lock", "apply"} /\ HoldsAll(c)
  /\ forget \subseteq targets[c] /\ change \subseteq targets[c]
  /\ UNCHANGED <<wave, done, readers, call, outcome, avoid>>
  /\ \A k \in Keys : group'[k] = IF k \in forget THEN NoCall ELSE group[k]
  /\ forgotten' = forgotten \union ({group[k] : k \in forget} \ {NoCall})
  /\ \A k \in change : group'[k] = NoCall
  /\ \A k \in Keys \ change : Kept(k)
  /\ \A k \in change : entry'[k] # NoEntry => entry'[k].value = c /\ key[c] = k /\ Provided(c)'
  /\ outdated \subseteq outdated'
  /\ outdated' \subseteq outdated \union {d \in Callers \ {c} : key[d] \in change /\ Provided(d)}
  /\ \A d \in Callers \ {c} : pc'[d] = pc[d] /\ todo'[d] = todo[d] /\ result'[d] = result[d]
  /\ todo'[c] \subseteq todo[c]
  /\ \A s \in Segments : writer'[s] = writer[s] \/ (writer[s] = c /\ pc'[c] = "returned")
  /\ \/ pc'[c] \in {"lock", "apply"} /\ result'[c] = result[c]
     \/ pc'[c] = "returned" /\ result'[c].entry.value \notin avoid[c]
  /\ pc'[c] = "apply" => op[c] # "delete" /\ \A k \in targets[c] : group'[k] = NoCall
  /\ pc'[c] = "lock" => pc[c] = "lock"

LEMMA MutationInv ==
  ASSUME BarrierInv, TypeOK', NEW c \in Callers, NEW forget, NEW change,
         MutationStep(c, forget, change)
  PROVE  BarrierInv'
<1> USE DEF BarrierInv, TypeOK, Flight!TypeOK, call
<1> Types /\ forget \subseteq Keys /\ change \subseteq Keys
  BY TypesOfInv DEF MutationStep
<1>1. wave[c] = NoCall /\ ~Provided(c) /\ ~Owning(c) /\ c \notin outdated
  BY AbsentAssumption DEF MutationStep, HandleInv, Provided, Owning, Loading, ValueInv
<1>2. /\ UNCHANGED <<wave, readers, op, key, targets, outcome, avoid>>
      /\ \A d \in Callers \ {c} : pc'[d] = pc[d] /\ todo'[d] = todo[d] /\ result'[d] = result[d]
      /\ pc[c] \in {"lock", "apply"} /\ pc'[c] \in {"lock", "apply", "returned"}
  BY DEF MutationStep
<1>3. TargetsInv'
  BY <1>2 DEF TargetsInv, MutationStep
<1>4. LockInv'
  <2>1. \A d \in Callers : pc'[d] = "store" <=> pc[d] = "store"
    BY <1>2
  <2>2. ASSUME NEW d \in Callers, pc'[d] = "apply", NEW s \in Segments, s \in SegmentsOf(d)
        PROVE  writer'[s] = d /\ readers[s] = {}
    <3>1. Holds(d, s)
      BY <1>2, <2>2 DEF LockInv, HoldsAll, MutationStep
    <3>2. QED
      BY <2>2, <3>1 DEF Holds, MutationStep
  <2>3. \A d \in Callers : SegmentsOf(d)' = SegmentsOf(d) /\ SegmentsOf(d) \subseteq Segments
    BY <1>2, SegmentsAssumption DEF SegmentsOf
  <2>4. QED
    BY <1>2, <2>1, <2>2, <2>3 DEF LockInv, HoldsAll, Holds
<1>5. \A k \in Keys : group[k] # NoCall => group[k] \in Callers /\ Current(group[k]) /\ key[group[k]] = k
  BY DEF GroupInv
<1>6. /\ \A k \in Keys : group'[k] = IF k \in forget THEN NoCall ELSE group[k]
      /\ forgotten' = forgotten \union ({group[k] : k \in forget} \ {NoCall})
  BY DEF MutationStep
<1>7. HandleInv'
  <2>1. \A d \in Callers : wave[d] # d => d \notin forgotten'
    BY <1>5, <1>6 DEF HandleInv, Current
  <2>2. \A d \in Callers : Owning(d)' => Owning(d)
    BY <1>2 DEF Owning, Loading
  <2>3. pc'[c] # "returned" => result'[c] = result[c]
    BY DEF MutationStep
  <2>4. QED
    BY <1>1, <1>2, <2>1, <2>2, <2>3 DEF HandleInv
\* A load that is still current works on a key this step did not forget.
<1>8. ASSUME NEW d \in Callers, Current(d)'
      PROVE  Current(d) /\ key[d] \in Keys /\ key[d] \notin forget /\ group'[key[d]] = d
  <2>1. Current(d) /\ d # c
    BY <1>1, <1>2, <1>6, <1>8 DEF Current, Owning, Loading
  <2>2. key[d] \in Keys /\ group[key[d]] = d
    BY <2>1 DEF GroupInv, TargetsInv, Current, Owning, Loading
  <2>3. key[d] \notin forget
    BY <1>6, <1>8, <2>2, AbsentAssumption DEF Current
  <2>4. QED
    BY <1>6, <2>1, <2>2, <2>3
<1>9. GroupInv'
  <2>1. ASSUME NEW k \in Keys, group'[k] # NoCall
        PROVE  Current(group[k])' /\ key[group'[k]] = k
    <3>1. k \notin forget /\ group'[k] = group[k]
      BY <1>6, <2>1
    <3>2. group[k] \in Callers /\ Current(group[k]) /\ key[group[k]] = k
      BY <1>5, <2>1, <3>1
    <3>3. group[k] \notin forgotten'
      BY <1>5, <1>6, <3>1, <3>2 DEF Current
    <3>4. \A d \in Callers : Owning(d) => Owning(d)'
      BY <1>1, <1>2 DEF Owning, Loading
    <3>5. QED
      BY <3>1, <3>2, <3>3, <3>4 DEF Current
  <2>2. \A d \in Callers : pc'[d] = "apply" => \A k \in targets[d] : group'[k] = NoCall
    BY <1>2, <1>6 DEF GroupInv, MutationStep
  <2>3. QED
    BY <1>2, <1>8, <2>1, <2>2 DEF GroupInv
<1>10. \A d \in Callers : Current(d)' => key[d] \notin change
  BY <1>8, AbsentAssumption DEF MutationStep
<1>11. HoleInv'
  <2>1. ASSUME NEW d \in Callers, pc'[d] \in {"load", "publish", "store"}, d \notin forgotten'
        PROVE  entry'[key[d]] = NoEntry
    <3>1. Current(d)'
      BY <2>1 DEF Current, Owning, Loading
    <3>2. key[d] \in Keys \ change /\ d \notin forgotten /\ d # c
      BY <1>1, <1>8, <1>10, <3>1 DEF Current
    <3>3. entry[key[d]] = NoEntry
      BY <1>2, <2>1, <3>2 DEF HoleInv, Resident
    <3>4. QED
      BY <3>2, <3>3 DEF MutationStep, Kept
  <2>2. ASSUME NEW d \in Callers, pc'[d] = "store"
        PROVE  d \notin forgotten'
    <3>1. d # c /\ pc[d] = "store" /\ d \notin forgotten
      BY <1>2, <2>2 DEF HoleInv
    <3>2. ASSUME NEW k \in forget, group[k] = d
          PROVE  FALSE
      <4>1. key[d] = k /\ k \in targets[c]
        BY <1>5, <3>2, AbsentAssumption DEF MutationStep
      <4>2. readers[SegOf[k]] = {} /\ SegOf[k] \in Segments
        BY <4>1, TargetSegments DEF MutationStep, HoldsAll, Holds
      <4>3. QED
        BY <3>1, <4>1, <4>2 DEF LockInv
    <3>3. QED
      BY <1>6, <3>1, <3>2
  <2>3. QED
    BY <1>2, <2>1, <2>2 DEF HoleInv, Resident
<1>12. \A d \in Callers : Provided(d) => Provided(d)'
  BY <1>1, <1>2 DEF Provided
<1>13. outdated' \subseteq outdated \union {d \in Callers \ {c} : key[d] \in change /\ Provided(d)}
  BY DEF MutationStep
<1>14. ValueInv'
  <2>1. \A d \in outdated' : Provided(d)'
    BY <1>12, <1>13 DEF ValueInv
  <2>2. ASSUME NEW k \in Keys, entry'[k] # NoEntry
        PROVE  /\ entry'[k].value \notin outdated'
               /\ key[entry'[k].value] = k
               /\ Provided(entry[k].value)'
    <3>1. CASE k \in change
      BY <1>1, <1>13, <2>2, <3>1 DEF MutationStep
    <3>2. CASE k \notin change
      <4>1. entry[k] # NoEntry /\ entry'[k].value = entry[k].value
        BY <2>2, <3>2 DEF MutationStep, Kept
      <4>2. entry[k].value \in Callers
        BY <4>1, EntryValue, ValuesTyped
      <4>3. entry[k].value \notin outdated /\ key[entry[k].value] = k /\ Provided(entry[k].value)
        BY <4>1 DEF ValueInv, Resident
      <4>4. QED
        BY <1>12, <1>13, <3>2, <4>1, <4>2, <4>3
    <3>3. QED
      BY <3>1, <3>2
  <2>3. QED
    BY <1>2, <2>1, <2>2 DEF ValueInv, Resident
<1>15. OutcomeInv'
  <2>1. \A d \in Callers : pc'[d] \in {"publish", "store"} => pc[d] = pc'[d]
    BY <1>2
  <2>2. \A d \in Callers : outcome[d].entry # NoEntry => outcome[d].entry.value \in Callers
    BY EntryValue, ValuesTyped
  <2>3. QED
    BY <1>2, <1>12, <2>1, <2>2 DEF OutcomeInv
<1>16. FreshInv'
  <2>1. ASSUME NEW d \in Callers, Current(d)'
        PROVE  d \notin outdated' /\ outcome[d].entry.value \notin outdated'
    <3>1. Current(d) /\ key[d] \notin change
      BY <1>8, <1>10, <2>1
    <3>2. d \notin outdated /\ outcome[d].entry.value \notin outdated
      BY <3>1 DEF FreshInv
    <3>3. outcome[d].entry.value = NoCall \/ key[outcome[d].entry.value] = key[d]
      BY EntryValue, ValuesTyped DEF OutcomeInv
    <3>4. QED
      BY <1>13, <3>1, <3>2, <3>3, AbsentAssumption
  <2>2. \A d \in Callers : result'[d].entry.value \notin avoid[d]
    BY <1>2, AbsentAssumption, PendingValue DEF FreshInv, HandleInv, MutationStep
  <2>3. \A d \in Callers : avoid[d] \subseteq outdated'
    BY DEF FreshInv, MutationStep
  <2>4. QED
    BY <1>2, <2>1, <2>2, <2>3 DEF FreshInv
<1>17. QED
  BY <1>3, <1>4, <1>7, <1>9, <1>11, <1>14, <1>15, <1>16

LEMMA AcquireInv ==
  ASSUME BarrierInv, TypeOK', NEW c \in Callers, NEW s \in Segments, AcquireLock(c, s)
  PROVE  BarrierInv'
<1> USE DEF BarrierInv, TypeOK, Flight!TypeOK, AcquireLock, flight, call, ghosts
<1>1. TargetsInv' /\ HandleInv' /\ HoleInv'
  BY DEF TargetsInv, HandleInv, HoleInv, Owning, Loading, Resident
<1>2. LockInv'
  BY AbsentAssumption DEF LockInv, HoldsAll, Holds, SegmentsOf
<1>3. \A d \in Callers : (Current(d)' <=> Current(d)) /\ (Provided(d)' <=> Provided(d))
  BY DEF Current, Owning, Loading, Provided
<1>4. GroupInv'
  BY <1>3 DEF GroupInv
<1>5. ValueInv'
  BY <1>3, EntryValue, ValuesTyped, TypesOfInv DEF ValueInv, Resident
<1>6. OutcomeInv'
  BY <1>3, EntryValue, ValuesTyped, TypesOfInv DEF OutcomeInv
<1>7. FreshInv'
  BY <1>3 DEF FreshInv
<1>8. QED
  BY <1>1, <1>2, <1>4, <1>5, <1>6, <1>7

\* Reclamation, the clock and cancelation: the store only loses values, and no
\* caller moves.
LEMMA AroundInv ==
  ASSUME BarrierInv, TypeOK', \A k \in Keys : Kept(k),
         UNCHANGED <<flight, locks, pc, call, todo, outcome, result, ghosts>>
  PROVE  BarrierInv'
<1> USE DEF BarrierInv, TypeOK, Flight!TypeOK, flight, locks, call, ghosts
<1>1. TargetsInv' /\ HandleInv' /\ LockInv'
  BY DEF TargetsInv, HandleInv, LockInv, HoldsAll, Holds, SegmentsOf, Owning, Loading
<1>2. \A d \in Callers : (Current(d)' <=> Current(d)) /\ (Provided(d)' <=> Provided(d))
  BY DEF Current, Owning, Loading, Provided
<1>3. GroupInv'
  BY <1>2 DEF GroupInv
<1>4. HoleInv'
  BY DEF HoleInv, TargetsInv, Resident, Kept
<1>5. ValueInv'
  <2>1. \A k \in Keys : entry[k] # NoEntry => entry[k].value \in Callers
    BY EntryValue, ValuesTyped, TypesOfInv
  <2>2. QED
    BY <1>2, <2>1 DEF ValueInv, Resident, Kept
<1>6. OutcomeInv'
  BY <1>2, EntryValue, ValuesTyped, TypesOfInv DEF OutcomeInv
<1>7. FreshInv'
  BY <1>2 DEF FreshInv
<1>8. QED
  BY <1>1, <1>3, <1>4, <1>5, <1>6, <1>7

\* What a mutation may return: nothing, its own value, or the one the store has.
LEMMA VisibleValues ==
  ASSUME BarrierInv, NEW c \in Callers, pc[c] \in {"lock", "apply"}
  PROVE  /\ NoCall \notin avoid[c] /\ c \notin avoid[c] /\ NoEntry.value = NoCall
         /\ \A k \in Keys : entry[k].value \notin avoid[c]
<1>1. c \notin outdated /\ NoCall \notin outdated
  BY AbsentAssumption DEF BarrierInv, TypeOK, ValueInv, Provided, HandleInv
<1>2. \A k \in Keys : entry[k].value \notin outdated
  BY <1>1, PendingValue DEF BarrierInv, ValueInv, Resident
<1>3. QED
  BY <1>1, <1>2, PendingValue DEF BarrierInv, FreshInv

\* Forgetting is all a mutation does in its first step.
LEMMA ForgetInv ==
  ASSUME BarrierInv, TypeOK', NEW c \in Callers, Forget(c) \/ ClearForget(c)
  PROVE  BarrierInv'
<1> USE DEF flight, locks, call, ghosts, Flight!ForgetKeys, Goto, BarrierInv, TypeOK, Kept
<1>1. CASE Forget(c)
  <2>1. key[c] \in Keys /\ targets[c] = {key[c]}
    BY <1>1 DEF Forget, TargetsInv
  <2>2. MutationStep(c, {key[c]}, {})
    BY <1>1, <2>1 DEF Forget, MutationStep
  <2>3. QED
    BY <2>2, MutationInv
<1>2. CASE ClearForget(c)
  <2>1. targets[c] = Keys
    BY <1>2 DEF ClearForget, TargetsInv
  <2>2. MutationStep(c, Keys, {})
    BY <1>2, <2>1 DEF ClearForget, MutationStep
  <2>3. QED
    BY <2>2, MutationInv
<1>3. QED
  BY <1>1, <1>2

\* The last step of a mutation of one key: it outdates the key's values, or it is
\* a hit of GetOrSet, which leaves the value alone.
LEMMA ApplyInv ==
  ASSUME BarrierInv, TypeOK', NEW c \in Callers, pc[c] = "apply",
         op[c] \in {"set", "getOrSet", "getAndDelete"},
         NEW status, NEW e, Return(c, status, e), e.value \notin avoid[c],
         ReleaseLocks(c),
         UNCHANGED <<flight, clock, call, todo, now, outcome, canceled, stats>>,
         \A k \in Keys \ {key[c]} : Kept(k),
         \/ /\ Outdate(c, {key[c]})
            /\ entry'[key[c]] # NoEntry =>
                 entry'[key[c]].value = c /\ op[c] \in {"set", "getOrSet"}
         \/ UNCHANGED ghosts /\ Kept(key[c])
  PROVE  BarrierInv'
<1> USE DEF flight, call, ghosts, BarrierInv, TypeOK, Flight!TypeOK
<1>1. key[c] \in Keys /\ targets[c] = {key[c]} /\ group[key[c]] = NoCall /\ HoldsAll(c)
  <2>1. pc[c] # "idle" /\ op[c] \notin {"delete", "clear"}
    OBVIOUS
  <2>2. key[c] \in Keys /\ targets[c] = {key[c]}
    BY <2>1 DEF TargetsInv
  <2>3. QED
    BY <2>2 DEF GroupInv, LockInv
<1>2. /\ pc'[c] = "returned" /\ result'[c].entry = e
      /\ \A d \in Callers \ {c} : pc'[d] = pc[d] /\ result'[d] = result[d]
  BY DEF Return, Goto, Result
<1>3. /\ UNCHANGED readers
      /\ \A s \in Segments : writer'[s] = writer[s] \/ (writer[s] = c /\ pc'[c] = "returned")
  BY <1>2 DEF ReleaseLocks
<1>4. \A k \in Keys : group'[k] = IF k \in {} THEN NoCall ELSE group[k]
  OBVIOUS
<1>5. forgotten' = forgotten \union ({group[k] : k \in {}} \ {NoCall})
  OBVIOUS
<1>6. CASE Outdate(c, {key[c]}) /\ (entry'[key[c]] # NoEntry =>
                                      entry'[key[c]].value = c /\ op[c] \in {"set", "getOrSet"})
  <2>1. \A k \in {key[c]} : entry'[k] # NoEntry => entry'[k].value = c /\ key[c] = k /\ Provided(c)'
    BY <1>2, <1>6 DEF Provided
  <2>2. /\ outdated \subseteq outdated' /\ avoid' = avoid
        /\ outdated' \subseteq outdated \union {d \in Callers \ {c} : key[d] \in {key[c]} /\ Provided(d)}
    BY <1>6 DEF Outdate
  <2>3. MutationStep(c, {}, {key[c]})
    BY <1>1, <1>2, <1>3, <1>4, <1>5, <2>1, <2>2 DEF MutationStep
  <2>4. QED
    BY <2>3, MutationInv
<1>7. CASE UNCHANGED ghosts /\ Kept(key[c])
  <2>1. MutationStep(c, {}, {})
    BY <1>1, <1>2, <1>3, <1>4, <1>5, <1>7 DEF MutationStep
  <2>2. QED
    BY <2>1, MutationInv
<1>8. QED
  BY <1>6, <1>7

LEMMA SingleMutationInv ==
  ASSUME BarrierInv, TypeOK', NEW c \in Callers,
         Set(c) \/ GetOrSetHit(c) \/ GetOrSetInsert(c) \/ GetAndDelete(c)
  PROVE  BarrierInv'
<1> pc[c] = "apply" /\ Types /\ EntryType
  BY TypesOfInv DEF Set, GetOrSetHit, GetOrSetInsert, GetAndDelete, Types, TypeOK, EntryType
<1> key[c] \in Keys
  BY DEF BarrierInv, TargetsInv, Set, GetOrSetHit, GetOrSetInsert, GetAndDelete
<1>1. /\ NoCall \notin avoid[c] /\ c \notin avoid[c] /\ NoEntry.value = NoCall
      /\ \A k \in Keys : entry[k].value \notin avoid[c]
  BY VisibleValues
\* An insertion leaves the other keys with what they had, or with nothing.
<1>2. ASSUME NEW expiration \in Expirations, NEW t \in ReadTimes(c),
             NEW e \in NewEntries(c, expiration, t), Put(key[c], e)
      PROVE  /\ e.value = c /\ entry'[key[c]] = e
             /\ \A k \in Keys \ {key[c]} : Kept(k)
  <2>1. e \in Entries /\ e.value = c
    BY ReadTimeIsNat, NewEntriesType, ChoicesAssumption
  <2>2. QED
    BY <1>2, <2>1, PutEffect DEF Kept
<1>3. CASE Set(c)
  <2>1. PICK expiration \in Expirations, t \in ReadTimes(c) :
          \E e \in NewEntries(c, expiration, t) : Put(key[c], e)
    BY <1>3 DEF Set
  <2>2. PICK e \in NewEntries(c, expiration, t) : Put(key[c], e)
    BY <2>1
  <2>3. e.value = c /\ entry'[key[c]] = e /\ \A k \in Keys \ {key[c]} : Kept(k)
    BY <1>2, <2>2
  <2>4. QED
    BY <1>1, <1>3, <2>3, ApplyInv DEF Set
<1>4. CASE GetOrSetHit(c)
  <2>1. PICK t \in ReadTimes(c) :
          /\ Live(key[c], t)
          /\ entry' = [entry EXCEPT ![key[c]] = Touched(entry[key[c]], t)]
          /\ Return(c, "found", Touched(entry[key[c]], t))
    BY <1>4 DEF GetOrSetHit
  <2>2. (\A j \in Keys : Kept(j)) /\ Touched(entry[key[c]], t).value = entry[key[c]].value
    BY <2>1, HitEffect
  <2>3. QED
    BY <1>1, <1>4, <2>1, <2>2, ApplyInv DEF GetOrSetHit
<1>5. CASE GetOrSetInsert(c)
  <2>1. PICK expiration \in Expirations, t \in ReadTimes(c) :
          \E e \in NewEntries(c, expiration, t) : Put(key[c], e) /\ Return(c, "stored", e)
    BY <1>5 DEF GetOrSetInsert
  <2>2. PICK e \in NewEntries(c, expiration, t) : Put(key[c], e) /\ Return(c, "stored", e)
    BY <2>1
  <2>3. e.value = c /\ entry'[key[c]] = e /\ \A k \in Keys \ {key[c]} : Kept(k)
    BY <1>2, <2>2
  <2>4. QED
    BY <1>1, <1>5, <2>2, <2>3, ApplyInv DEF GetOrSetInsert
<1>6. CASE GetAndDelete(c)
  <2>1. entry'[key[c]] = NoEntry /\ \A k \in Keys : Kept(k)
    BY <1>6, RemovalEffect DEF GetAndDelete, RemoveAll
  <2>2. \/ Return(c, "found", entry[key[c]])
        \/ Return(c, "missing", NoEntry)
    BY <1>6 DEF GetAndDelete
  <2>3. QED
    BY <1>1, <1>6, <2>1, <2>2, ApplyInv DEF GetAndDelete
<1>7. QED
  BY <1>3, <1>4, <1>5, <1>6

\* One removal of Delete or of Clear.
LEMMA RemovalInv ==
  ASSUME BarrierInv, TypeOK', NEW c \in Callers,
         \/ \E k \in Keys : DeleteKey(c, k)
         \/ \E s \in Segments : ClearSegment(c, s)
  PROVE  BarrierInv'
<1> USE DEF flight, locks, call, ghosts, BarrierInv, TypeOK, Flight!TypeOK
<1> Types
  BY TypesOfInv
<1>1. NoCall \notin avoid[c] /\ NoEntry.value = NoCall
  BY VisibleValues DEF DeleteKey, ClearSegment
<1>2. ASSUME ReturnWhenRemoved(c), pc[c] \in {"lock", "apply"}
      PROVE  /\ UNCHANGED readers
             /\ \A s \in Segments : writer'[s] = writer[s] \/ (writer[s] = c /\ pc'[c] = "returned")
             /\ \A d \in Callers \ {c} : pc'[d] = pc[d] /\ result'[d] = result[d]
             /\ \/ pc'[c] = pc[c] /\ result'[c] = result[c]
                \/ pc'[c] = "returned" /\ result'[c].entry.value \notin avoid[c]
  BY <1>1, <1>2 DEF ReturnWhenRemoved, Return, Goto, Result, ReleaseLocks
<1>3. ASSUME NEW ks \in SUBSET Keys, RemoveAll(ks)
      PROVE  (\A k \in Keys : Kept(k)) /\ \A k \in ks : entry'[k] = NoEntry
  BY <1>3 DEF RemoveAll, Kept
<1>4. ASSUME NEW ks, Outdate(c, ks)
      PROVE  /\ outdated \subseteq outdated' /\ avoid' = avoid
             /\ outdated' \subseteq outdated \union {d \in Callers \ {c} : key[d] \in ks /\ Provided(d)}
  BY <1>4 DEF Outdate
<1>5. ASSUME NEW k \in Keys, DeleteKey(c, k)
      PROVE  BarrierInv'
  <2>1. /\ \A j \in Keys : group'[j] = IF j \in {k} THEN NoCall ELSE group[j]
        /\ forgotten' = forgotten \union ({group[j] : j \in {k}} \ {NoCall})
    BY <1>5 DEF DeleteKey, Flight!ForgetKeys
  <2>2. k \in targets[c] /\ pc[c] = "lock"
    BY <1>5 DEF DeleteKey, TargetsInv
  <2>3. MutationStep(c, {k}, {k})
    BY <1>2, <1>3, <1>4, <1>5, <2>1, <2>2 DEF DeleteKey, MutationStep
  <2>4. QED
    BY <2>3, MutationInv
<1>6. ASSUME NEW s \in Segments, ClearSegment(c, s)
      PROVE  BarrierInv'
  <2>1. targets[c] = Keys /\ KeysOf(s) \subseteq Keys /\ pc[c] = "apply" /\ HoldsAll(c)
    BY <1>6 DEF ClearSegment, TargetsInv, KeysOf, LockInv
  <2>2. \A k \in Keys : group[k] = NoCall
    BY <2>1 DEF GroupInv
  <2>3. MutationStep(c, {}, KeysOf(s))
    BY <1>2, <1>3, <1>4, <1>6, <2>1, <2>2 DEF ClearSegment, MutationStep
  <2>4. QED
    BY <2>3, MutationInv
<1>7. QED
  BY <1>5, <1>6

LEMMA BarrierInvInductive == BarrierInv /\ [Next]_vars => BarrierInv'
<1> SUFFICES ASSUME BarrierInv, [Next]_vars PROVE BarrierInv'
  OBVIOUS
<1>1. TypeOK' /\ Types
  BY TypesOfInv, TypesInductive DEF Types
<1>2. ASSUME NEW c \in Callers, Load(c)
      PROVE  BarrierInv'
  BY <1>1, <1>2, RegisterOwnerInv, RegisterJoinerInv, RecheckInv, LoaderInv, QuietEndInv,
     PublishBeginInv, PublishStoreInv, FinishInv DEF Load
<1>3. ASSUME NEW c \in Callers, Mutate(c)
      PROVE  BarrierInv'
  BY <1>1, <1>3, AcquireInv, ForgetInv, SingleMutationInv, RemovalInv DEF Mutate
<1>4. ASSUME NEW c \in Callers, Start(c) \/ Proceed(c)
      PROVE  BarrierInv'
  BY <1>1, <1>2, <1>3, <1>4, StartInv, LookupInv DEF Proceed
<1>5. ASSUME NEW c \in Callers, Cancel(c)
      PROVE  BarrierInv'
  BY <1>1, <1>5, AroundInv DEF Cancel, Kept
<1>6. ASSUME NEW k \in Keys, Reclaim(k)
      PROVE  BarrierInv'
  <2>1. \A j \in Keys : Kept(j)
    BY <1>1, <1>6, RemovalEffect DEF Reclaim
  <2>2. QED
    BY <1>1, <1>6, <2>1, AroundInv DEF Reclaim
<1>7. ASSUME NEW k \in Keys, Renew(k)
      PROVE  BarrierInv'
  <2>1. \A j \in Keys : Kept(j)
    BY <1>1, <1>7, RenewEffect
  <2>2. QED
    BY <1>1, <1>7, <2>1, AroundInv DEF Renew
<1>8. CASE Tick
  BY <1>1, <1>8, AroundInv DEF Tick, Kept
<1>9. CASE UNCHANGED vars
  BY <1>1, <1>9, AroundInv DEF vars, Kept
<1>10. QED
  BY <1>4, <1>5, <1>6, <1>7, <1>8, <1>9 DEF Next, Terminated

LEMMA BarrierInvInitially == Init => BarrierInv
<1> SUFFICES ASSUME Init PROVE BarrierInv
  OBVIOUS
<1> USE DEF Init, Flight!Init
<1>1. TypeOK
  BY TypesInitially DEF Types
<1>2. \A c \in Callers : ~Owning(c) /\ ~Current(c)
  BY DEF Owning, Current, Loading
<1>3. TargetsInv /\ LockInv /\ HandleInv /\ GroupInv /\ HoleInv
  BY <1>2, AbsentAssumption DEF TargetsInv, LockInv, HandleInv, GroupInv, HoleInv
<1>4. ValueInv /\ OutcomeInv /\ FreshInv
  BY <1>2, AbsentAssumption, PendingValue
     DEF ValueInv, OutcomeInv, FreshInv, Resident, Pending, Result
<1>5. QED
  BY <1>1, <1>3, <1>4 DEF BarrierInv

\* The coordination lock, the group of loads and the store keep the relation that
\* the publication barrier needs.
THEOREM BarrierHolds == Spec => []BarrierInv
BY BarrierInvInitially, BarrierInvInductive, PTL DEF Spec

\* The publication barrier itself (load.go: a load checks Forgotten and stores its
\* value under the segment's read lock): once a mutation of a key has taken effect,
\* no value it outdated comes back, whatever the number of callers, keys and segments.
THEOREM NoStaleEntryHolds == Spec => []NoStaleEntry
<1>1. BarrierInv => NoStaleEntry
  BY DEF BarrierInv, ValueInv, NoStaleEntry
<1>2. QED
  BY <1>1, BarrierHolds, PTL

\* No operation returns a value that a mutation of its key had outdated when the
\* operation began: Forget (group.go) keeps later callers from joining old loads.
THEOREM FreshResultHolds == Spec => []FreshResult
<1>1. BarrierInv => FreshResult
  BY DEF BarrierInv, FreshInv, FreshResult
<1>2. QED
  BY <1>1, BarrierHolds, PTL

\* A load never replaces a value it has not seen: at its key it finds the hole of
\* its recheck, or it has been superseded.
THEOREM LoadNeverOverwritesHolds == Spec => []LoadNeverOverwrites
<1>1. BarrierInv => LoadNeverOverwrites
  BY DEF BarrierInv, HoleInv, LoadNeverOverwrites
<1>2. QED
  BY <1>1, BarrierHolds, PTL
===============================================================================
