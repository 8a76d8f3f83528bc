--------------------------- MODULE RefinementProofs ---------------------------
(***************************************************************************)
(* Coordination implements its abstract specifications, for every set of   *)
(* callers and keys, every number of segments and every capacity: the      *)
(* publication barrier, the group of in-flight loads (its safety part) and *)
(* the bounded store.  Each step of a goroutine is mapped to the step the  *)
(* abstract specification takes, or to none, in a state that satisfies the *)
(* inductive invariant.                                                    *)
(***************************************************************************)
EXTENDS OperationProofs

-------------------------------------------------------------------------------
(***************************************************************************)
(* The publication barrier.                                                *)
(***************************************************************************)

\* What the refinement mapping of Barrier maps the state to.
LoadKeyOf(c) == IF wave[c] = c THEN key[c] ELSE NoKey

PhaseOf(c) ==
  IF wave[c] # c THEN "none"
  ELSE IF Loading(c) THEN "running"
  ELSE IF outcome[c].status = "superseded" THEN "superseded"
  ELSE "ended"

Barred == {c \in forgotten : Loading(c)}

LoadsOf(ks) == {c \in Callers : Loading(c) /\ key[c] \in ks}

SameValues == \A k \in Keys : entry'[k].value = entry[k].value

SameLoad(c) == LoadKeyOf(c)' = LoadKeyOf(c) /\ PhaseOf(c)' = PhaseOf(c)

LEMMA MappedRunning ==
  ASSUME BarrierInv, NEW k \in Keys
  PROVE  Barrier!RunningOn(k) = LoadsOf({k})
<1>1. ASSUME NEW c \in Callers
      PROVE  (PhaseOf(c) = "running" /\ LoadKeyOf(c) = k) <=> (Loading(c) /\ key[c] = k)
  BY DEF BarrierInv, HandleInv, Owning, PhaseOf, LoadKeyOf
<1>2. \A c \in Callers : [d \in Callers |-> PhaseOf(d)][c] = PhaseOf(c)
  OBVIOUS
<1>3. QED
  BY <1>1, <1>2 DEF Barrier!RunningOn, Barrier!Running, LoadsOf, PhaseOf, LoadKeyOf

LEMMA MappedStutter ==
  ASSUME SameValues, \A c \in Callers : SameLoad(c), Barred' = Barred
  PROVE  UNCHANGED Barrier!vars
<1>1. UNCHANGED [k \in Keys |-> entry[k].value]
  BY DEF SameValues
<1>2. UNCHANGED [c \in Callers |-> LoadKeyOf(c)]
  BY DEF SameLoad
<1>3. UNCHANGED [c \in Callers |-> PhaseOf(c)]
  BY DEF SameLoad
<1>4. QED
  BY <1>1, <1>2, <1>3 DEF Barrier!vars, Barred, LoadKeyOf, PhaseOf

LEMMA MappedLose ==
  ASSUME BarrierInv, NEW ks \in SUBSET Keys,
         \A k \in Keys : entry'[k].value = IF k \in ks THEN NoCall ELSE entry[k].value,
         \A c \in Callers : SameLoad(c),
         Barred' = Barred \/ Barred' = Barred \union LoadsOf(ks)
  PROVE  Barrier!Next
<1>1. UNION {Barrier!RunningOn(k) : k \in ks} = LoadsOf(ks)
  BY MappedRunning DEF LoadsOf
<1>2. UNCHANGED [c \in Callers |-> LoadKeyOf(c)]
  BY DEF SameLoad
<1>3. UNCHANGED [c \in Callers |-> PhaseOf(c)]
  BY DEF SameLoad
<1>4. [k \in Keys |-> entry[k].value]' =
        [k \in Keys |-> IF k \in ks THEN NoCall ELSE [j \in Keys |-> entry[j].value][k]]
  OBVIOUS
<1>5. Barrier!Lose(ks)
  BY <1>1, <1>2, <1>3, <1>4 DEF Barrier!Lose, Barred, LoadKeyOf, PhaseOf
<1>6. QED
  BY <1>5 DEF Barrier!Next

LEMMA MappedBar ==
  ASSUME BarrierInv, NEW ks \in SUBSET Keys, SameValues,
         \A c \in Callers : SameLoad(c), Barred' = Barred \union LoadsOf(ks)
  PROVE  Barrier!Next
<1>1. UNION {Barrier!RunningOn(k) : k \in ks} = LoadsOf(ks)
  BY MappedRunning DEF LoadsOf
<1>2. UNCHANGED [c \in Callers |-> LoadKeyOf(c)]
  BY DEF SameLoad
<1>3. UNCHANGED [c \in Callers |-> PhaseOf(c)]
  BY DEF SameLoad
<1>4. UNCHANGED [k \in Keys |-> entry[k].value]
  BY DEF SameValues
<1>5. Barrier!Bar(ks)
  BY <1>1, <1>2, <1>3, <1>4 DEF Barrier!Bar, Barred, LoadKeyOf, PhaseOf
<1>6. QED
  BY <1>5 DEF Barrier!Next

\* The key of an insertion holds the new value, any other key what it held or nothing.
Given(k, v) ==
  /\ entry'[k].value = v
  /\ \A j \in Keys \ {k} : entry'[j].value \in {entry[j].value, NoCall}

LEMMA MappedGive ==
  ASSUME NEW k \in Keys, NEW v, Given(k, v)
  PROVE  Barrier!Give(k, v)
<1> DEFINE evicted == {j \in Keys \ {k} : entry'[j].value = NoCall}
<1>1. evicted \in SUBSET (Keys \ {k})
  OBVIOUS
<1>2. [j \in Keys |-> entry[j].value]' =
        [j \in Keys |-> IF j = k THEN v
                        ELSE IF j \in evicted THEN NoCall ELSE [i \in Keys |-> entry[i].value][j]]
  BY DEF Given
<1>3. QED
  BY <1>1, <1>2 DEF Barrier!Give

LEMMA MappedStore ==
  ASSUME BarrierInv, NEW c \in Callers, NEW k \in Keys, LoadsOf({k}) \subseteq Barred,
         Given(k, c), \A d \in Callers : SameLoad(d), Barred' = Barred
  PROVE  Barrier!Next
<1>1. UNCHANGED [d \in Callers |-> LoadKeyOf(d)]
  BY DEF SameLoad
<1>2. UNCHANGED [d \in Callers |-> PhaseOf(d)]
  BY DEF SameLoad
<1>3. Barrier!RunningOn(k) \subseteq Barred
  BY MappedRunning
<1>4. Barrier!Store(c, k)
  BY <1>1, <1>2, <1>3, MappedGive DEF Barrier!Store, Barred, LoadKeyOf, PhaseOf
<1>5. QED
  BY <1>4 DEF Barrier!Next

\* A step of the load of c alone.
OnlyLoadOf(c, phase) ==
  /\ PhaseOf(c)' = phase
  /\ \A d \in Callers \ {c} : SameLoad(d)

LEMMA MappedPhase ==
  ASSUME NEW c \in Callers, NEW phase, OnlyLoadOf(c, phase)
  PROVE  [d \in Callers |-> PhaseOf(d)]' =
           [[d \in Callers |-> PhaseOf(d)] EXCEPT ![c] = phase]
BY DEF OnlyLoadOf, SameLoad

LEMMA MappedStartLoad ==
  ASSUME BarrierInv, NEW c \in Callers, NEW k \in Keys, wave[c] # c,
         LoadsOf({k}) \subseteq Barred, LoadKeyOf(c)' = k, OnlyLoadOf(c, "running"),
         SameValues, Barred' = Barred
  PROVE  Barrier!Next
<1>1. [d \in Callers |-> LoadKeyOf(d)]' =
        [[d \in Callers |-> LoadKeyOf(d)] EXCEPT ![c] = k]
  BY DEF OnlyLoadOf, SameLoad
<1>2. UNCHANGED [j \in Keys |-> entry[j].value]
  BY DEF SameValues
<1>3. Barrier!RunningOn(k) \subseteq Barred
  BY MappedRunning
<1>4. [d \in Callers |-> PhaseOf(d)][c] = "none"
  BY DEF PhaseOf
<1>5. Barrier!StartLoad(c, k)
  BY <1>1, <1>2, <1>3, <1>4, MappedPhase DEF Barrier!StartLoad, Barred, LoadKeyOf, PhaseOf
<1>6. QED
  BY <1>5 DEF Barrier!Next

\* The end of the load of c, with the three outcomes it may have.
LEMMA MappedEnd ==
  ASSUME BarrierInv, NEW c \in Callers, Loading(c), NEW how, OnlyLoadOf(c, how),
         LoadKeyOf(c)' = LoadKeyOf(c), Barred' = Barred \ {c},
         \/ how = "ended" /\ SameValues
         \/ how = "superseded" /\ SameValues /\ c \in forgotten
         \/ how = "ended" /\ c \notin forgotten /\ entry[key[c]].value = NoCall
            /\ key[c] \in Keys /\ Given(key[c], c)
  PROVE  Barrier!Next
<1>1. UNCHANGED [d \in Callers |-> LoadKeyOf(d)]
  BY DEF OnlyLoadOf, SameLoad
<1>2. PhaseOf(c) = "running" /\ LoadKeyOf(c) = key[c]
  BY DEF BarrierInv, HandleInv, Owning, PhaseOf, LoadKeyOf
<1>3. Barrier!Running(c)
  BY <1>2 DEF Barrier!Running, PhaseOf
<1>4. Barrier!End(c, how)
  BY <1>1, <1>3, MappedPhase DEF Barrier!End, Barred, LoadKeyOf, PhaseOf
<1>5. CASE SameValues
  <2>1. UNCHANGED [j \in Keys |-> entry[j].value]
    BY <1>5 DEF SameValues
  <2>2. Barrier!Drop(c) \/ Barrier!Supersede(c)
    BY <1>4, <2>1 DEF Barrier!Drop, Barrier!Supersede, Barred
  <2>3. QED
    BY <2>2 DEF Barrier!Next
<1>6. CASE /\ how = "ended" /\ c \notin forgotten /\ entry[key[c]].value = NoCall
           /\ key[c] \in Keys /\ Given(key[c], c)
  <2>1. Barrier!Give(key[c], c)
    BY <1>6, MappedGive
  <2>2. Barrier!Publish(c)
    BY <1>2, <1>3, <1>4, <1>6, <2>1 DEF Barrier!Publish, Barred, LoadKeyOf, PhaseOf
  <2>3. QED
    BY <2>2 DEF Barrier!Next
<1>7. QED
  BY <1>5, <1>6

(***************************************************************************)
(* The steps of a goroutine that matter to the barrier, and those that do  *)
(* not.                                                                    *)
(***************************************************************************)
LEMMA SameLoads ==
  ASSUME BarrierInv, UNCHANGED <<wave, forgotten, key, outcome>>,
         \A d \in Callers : Loading(d)' <=> Loading(d)
  PROVE  (\A d \in Callers : SameLoad(d)) /\ Barred' = Barred
BY DEF BarrierInv, TypeOK, Flight!TypeOK, SameLoad, LoadKeyOf, PhaseOf, Barred

LEMMA SamePhase ==
  ASSUME BarrierInv, NEW c \in Callers, NEW phase, Goto(c, phase), ~Loading(c),
         phase \notin {"recheck", "load", "publish", "store"}
  PROVE  \A d \in Callers : Loading(d)' <=> Loading(d)
BY DEF BarrierInv, TypeOK, Goto, Loading

\* A caller that has not registered has no load, and no one refers to it.
LEMMA StartRefines ==
  ASSUME BarrierInv, NEW c \in Callers, Start(c)
  PROVE  UNCHANGED Barrier!vars
<1>1. ASSUME NEW operation, NEW k, NEW ks, NEW phase \in {"lookup", "lock"},
             Begin(c, operation, k, ks, phase)
      PROVE  UNCHANGED Barrier!vars
  <2>1. /\ pc[c] = "idle" /\ wave[c] = NoCall /\ wave[c] # c
        /\ UNCHANGED <<wave, forgotten, outcome, entry>>
        /\ \A d \in Callers \ {c} : key'[d] = key[d]
    BY <1>1, AbsentAssumption DEF Begin, BarrierInv, HandleInv, TypeOK, flight
  <2>2. \A d \in Callers : Loading(d)' <=> Loading(d)
    BY <1>1, <2>1 DEF Begin, Goto, Loading, BarrierInv, TypeOK
  <2>3. \A d \in Callers : SameLoad(d)
    BY <2>1, <2>2 DEF SameLoad, LoadKeyOf, PhaseOf
  <2>4. Barred' = Barred
    BY <2>1, <2>2 DEF Barred, BarrierInv, TypeOK, Flight!TypeOK
  <2>5. SameValues
    BY <2>1 DEF SameValues
  <2>6. QED
    BY <2>3, <2>4, <2>5, MappedStutter
<1>2. QED
  BY <1>1 DEF Start, BeginLookup, BeginMutation, BeginDelete, BeginClear

\* A read leaves every value in place.
LEMMA HitKeepsValues ==
  ASSUME BarrierInv, NEW c \in Callers, NEW t \in ReadTimes(c), NEW k \in Keys, Live(k, t),
         entry' = [entry EXCEPT ![k] = Touched(entry[k], t)]
  PROVE  SameValues
<1>1. Types
  BY TypesOfInv
<1>2. Touched(entry[k], t).value = entry[k].value
  BY <1>1, HitEffect
<1>3. QED
  BY <1>1, <1>2 DEF SameValues, Types, TypeOK

LEMMA RemovalLosesValues ==
  ASSUME NEW ks \in SUBSET Keys, RemoveAll(ks)
  PROVE  \A k \in Keys : entry'[k].value = IF k \in ks THEN NoCall ELSE entry[k].value
BY PendingValue DEF RemoveAll

LEMMA LookupRefines ==
  ASSUME BarrierInv, NEW c \in Callers, Lookup(c)
  PROVE  Barrier!Next \/ UNCHANGED Barrier!vars
<1>1. /\ pc[c] = "lookup" /\ key[c] \in Keys
      /\ UNCHANGED <<wave, forgotten, outcome, key>>
  BY DEF Lookup, LookupHit, GetMiss, GetOrSetMiss, GetOrLoadMiss, Miss, flight, call,
         BarrierInv, TargetsInv, Lookups
<1>2. /\ ~Loading(c)
      /\ \E phase \in {"returned", "lock", "register"} : Goto(c, phase)
  BY <1>1 DEF Lookup, LookupHit, GetMiss, GetOrSetMiss, GetOrLoadMiss, Return, Loading
<1>3. (\A d \in Callers : SameLoad(d)) /\ Barred' = Barred
  BY <1>1, <1>2, SamePhase, SameLoads
<1>4. CASE LookupHit(c)
  <2>1. SameValues
    BY <1>1, <1>4, HitKeepsValues DEF LookupHit
  <2>2. QED
    BY <1>3, <2>1, MappedStutter
<1>5. CASE Miss(c)
  BY <1>1, <1>3, <1>5, RemovalLosesValues, MappedLose DEF Miss
<1>6. QED
  BY <1>4, <1>5 DEF Lookup, GetMiss, GetOrSetMiss, GetOrLoadMiss

\* A wave starts only where no wave that may still publish runs.
LEMMA RegisterRefines ==
  ASSUME BarrierInv, NEW c \in Callers, RegisterOwner(c) \/ RegisterJoiner(c)
  PROVE  Barrier!Next \/ UNCHANGED Barrier!vars
<1>1. /\ pc[c] = "register" /\ key[c] \in Keys /\ wave[c] = NoCall /\ wave[c] # c
      /\ c \notin forgotten
      /\ UNCHANGED <<forgotten, outcome, key, entry>>
  BY AbsentAssumption
     DEF RegisterOwner, RegisterJoiner, call, BarrierInv, TargetsInv, HandleInv
<1>2. SameValues
  BY <1>1 DEF SameValues
<1>3. CASE RegisterOwner(c)
  <2>1. /\ wave' = [wave EXCEPT ![c] = c] /\ wave'[c] = c /\ pc'[c] = "recheck"
        /\ \A d \in Callers \ {c} : wave'[d] = wave[d] /\ pc'[d] = pc[d]
        /\ group[key[c]] = NoCall
    BY <1>3 DEF RegisterOwner, Flight!Lead, Goto, BarrierInv, TypeOK, Flight!TypeOK
  <2>2. LoadsOf({key[c]}) \subseteq Barred
    BY <1>1, <2>1, AbsentAssumption
       DEF LoadsOf, Barred, BarrierInv, GroupInv, Current, Owning
  <2>3. LoadKeyOf(c)' = key[c] /\ OnlyLoadOf(c, "running")
    BY <1>1, <2>1 DEF LoadKeyOf, OnlyLoadOf, PhaseOf, SameLoad, Loading
  <2>4. Barred' = Barred
    BY <1>1, <2>1 DEF Barred, Loading, BarrierInv, TypeOK, Flight!TypeOK
  <2>5. QED
    BY <1>1, <1>2, <2>2, <2>3, <2>4, MappedStartLoad
<1>4. CASE RegisterJoiner(c)
  <2>1. /\ wave'[c] = group[key[c]] /\ pc'[c] = "wait" /\ group[key[c]] # NoCall
        /\ \A d \in Callers \ {c} : wave'[d] = wave[d] /\ pc'[d] = pc[d]
    BY <1>1, <1>4 DEF RegisterJoiner, Flight!Join, Goto, BarrierInv, TypeOK, Flight!TypeOK
  <2>2. wave'[c] # c
    BY <1>1, <2>1 DEF BarrierInv, GroupInv, Current, Owning, Loading
  <2>3. \A d \in Callers : SameLoad(d)
    BY <1>1, <2>1, <2>2 DEF LoadKeyOf, PhaseOf, SameLoad, Loading
  <2>4. Barred' = Barred
    BY <1>1, <2>1 DEF Barred, Loading, BarrierInv, TypeOK, Flight!TypeOK
  <2>5. QED
    BY <1>2, <2>3, <2>4, MappedStutter
<1>5. QED
  BY <1>3, <1>4

LEMMA OwnerLoads ==
  ASSUME BarrierInv, NEW c \in Callers, Loading(c)
  PROVE  wave[c] = c /\ key[c] \in Keys
BY DEF BarrierInv, HandleInv, TargetsInv, Owning, Loading

\* The owner's wave ends: its outcome is decided, and it no longer runs.
LEMMA EndsLoad ==
  ASSUME BarrierInv, NEW c \in Callers, Loading(c), Goto(c, "finish"),
         UNCHANGED <<wave, forgotten, key>>,
         \A d \in Callers \ {c} : outcome'[d] = outcome[d]
  PROVE  /\ OnlyLoadOf(c, IF outcome'[c].status = "superseded" THEN "superseded" ELSE "ended")
         /\ LoadKeyOf(c)' = LoadKeyOf(c)
         /\ Barred' = Barred \ {c}
<1>1. /\ pc'[c] = "finish" /\ wave[c] = c
      /\ \A d \in Callers \ {c} : pc'[d] = pc[d]
  BY OwnerLoads DEF Goto, BarrierInv, TypeOK
<1>2. ~Loading(c)' /\ \A d \in Callers \ {c} : Loading(d)' <=> Loading(d)
  BY <1>1 DEF Loading
<1>3. Barred' = Barred \ {c}
  BY <1>2 DEF Barred, BarrierInv, TypeOK, Flight!TypeOK
<1>4. QED
  BY <1>1, <1>2, <1>3 DEF OnlyLoadOf, SameLoad, PhaseOf, LoadKeyOf

LEMMA StaysLoading ==
  ASSUME BarrierInv, NEW c \in Callers, Loading(c),
         NEW phase \in {"load", "publish", "store"}, Goto(c, phase),
         UNCHANGED <<wave, forgotten, key>>,
         \A d \in Callers \ {c} : outcome'[d] = outcome[d]
  PROVE  (\A d \in Callers : SameLoad(d)) /\ Barred' = Barred
<1>1. /\ pc'[c] = phase /\ wave[c] = c
      /\ \A d \in Callers \ {c} : pc'[d] = pc[d]
  BY OwnerLoads DEF Goto, BarrierInv, TypeOK
<1>2. \A d \in Callers : Loading(d)' <=> Loading(d)
  BY <1>1 DEF Loading
<1>3. Barred' = Barred
  BY <1>2 DEF Barred, BarrierInv, TypeOK, Flight!TypeOK
<1>4. QED
  BY <1>1, <1>2, <1>3 DEF SameLoad, PhaseOf, LoadKeyOf

LEMMA RecheckRefines ==
  ASSUME BarrierInv, NEW c \in Callers, RecheckHit(c) \/ RecheckMiss(c)
  PROVE  Barrier!Next \/ UNCHANGED Barrier!vars
<1>1. Loading(c) /\ key[c] \in Keys /\ UNCHANGED <<wave, forgotten, key>>
  BY OwnerLoads DEF RecheckHit, RecheckMiss, Loading, flight, call
<1>2. CASE RecheckHit(c)
  <2>1. PICK t \in ReadTimes(c) :
          /\ Live(key[c], t)
          /\ entry' = [entry EXCEPT ![key[c]] = Touched(entry[key[c]], t)]
          /\ outcome' = [outcome EXCEPT ![c] = Result("found", Touched(entry[key[c]], t))]
    BY <1>2 DEF RecheckHit
  <2>2. /\ Goto(c, "finish") /\ outcome'[c].status = "found"
        /\ \A d \in Callers \ {c} : outcome'[d] = outcome[d]
    BY <1>2, <2>1 DEF RecheckHit, Result, BarrierInv, TypeOK
  <2>3. SameValues
    BY <1>1, <2>1, HitKeepsValues
  <2>4. OnlyLoadOf(c, "ended") /\ LoadKeyOf(c)' = LoadKeyOf(c) /\ Barred' = Barred \ {c}
    BY <1>1, <2>2, EndsLoad
  <2>5. QED
    BY <1>1, <2>3, <2>4, MappedEnd
<1>3. CASE RecheckMiss(c)
  <2>1. RemoveAll({key[c]}) /\ Goto(c, "load") /\ UNCHANGED outcome
    BY <1>3 DEF RecheckMiss
  <2>2. (\A d \in Callers : SameLoad(d)) /\ Barred' = Barred
    BY <1>1, <2>1, StaysLoading
  <2>3. QED
    BY <1>1, <2>1, <2>2, RemovalLosesValues, MappedLose
<1>4. QED
  BY <1>2, <1>3

LEMMA LoaderRefines ==
  ASSUME BarrierInv, NEW c \in Callers,
         LoaderFound(c) \/ LoaderMissing(c) \/ LoaderFails(c) \/ LoaderUnwinds(c)
  PROVE  Barrier!Next \/ UNCHANGED Barrier!vars
<1>1. PICK status \in {"found", "missing", "error", "panic", "goexit"},
           phase \in {"publish", "finish"} :
        \E e : LoaderReturns(c, status, e, phase)
  BY DEF LoaderFound, LoaderMissing, LoaderFails, LoaderUnwinds
<1>2. /\ Loading(c) /\ Goto(c, phase) /\ outcome'[c].status = status
      /\ \A d \in Callers \ {c} : outcome'[d] = outcome[d]
      /\ UNCHANGED <<wave, forgotten, key>> /\ SameValues
  BY <1>1 DEF LoaderReturns, Loading, Result, flight, call, SameValues, BarrierInv, TypeOK
<1>3. CASE phase = "publish"
  BY <1>2, <1>3, StaysLoading, MappedStutter
<1>4. CASE phase = "finish"
  <2>1. OnlyLoadOf(c, "ended") /\ LoadKeyOf(c)' = LoadKeyOf(c) /\ Barred' = Barred \ {c}
    BY <1>1, <1>2, <1>4, EndsLoad
  <2>2. QED
    BY <1>2, <2>1, MappedEnd
<1>5. QED
  BY <1>3, <1>4

\* A superseded load was barred, a load that stores its value was not.
LEMMA PublishRefines ==
  ASSUME BarrierInv, NEW c \in Callers,
         \/ PublishSuperseded(c) \/ PublishMissing(c) \/ PublishBegin(c) \/ PublishStore(c)
  PROVE  Barrier!Next \/ UNCHANGED Barrier!vars
<1>1. Loading(c) /\ key[c] \in Keys /\ wave[c] = c /\ UNCHANGED <<wave, forgotten, key>>
  BY OwnerLoads
     DEF PublishSuperseded, PublishMissing, PublishBegin, PublishStore, Loading, flight, call
<1>2. CASE PublishSuperseded(c)
  <2>1. /\ Goto(c, "finish") /\ outcome'[c].status = "superseded" /\ c \in forgotten
        /\ \A d \in Callers \ {c} : outcome'[d] = outcome[d]
        /\ SameValues
    BY <1>2 DEF PublishSuperseded, Result, SameValues, BarrierInv, TypeOK
  <2>2. OnlyLoadOf(c, "superseded") /\ LoadKeyOf(c)' = LoadKeyOf(c) /\ Barred' = Barred \ {c}
    BY <1>1, <2>1, EndsLoad
  <2>3. QED
    BY <1>1, <2>1, <2>2, MappedEnd
<1>3. CASE PublishMissing(c)
  <2>1. /\ Goto(c, "finish") /\ outcome[c].status = "missing" /\ UNCHANGED outcome
        /\ SameValues
    BY <1>3 DEF PublishMissing, SameValues
  <2>2. OnlyLoadOf(c, "ended") /\ LoadKeyOf(c)' = LoadKeyOf(c) /\ Barred' = Barred \ {c}
    BY <1>1, <2>1, EndsLoad
  <2>3. QED
    BY <1>1, <2>1, <2>2, MappedEnd
<1>4. CASE PublishBegin(c)
  <2>1. Goto(c, "store") /\ UNCHANGED outcome /\ SameValues
    BY <1>4 DEF PublishBegin, SameValues
  <2>2. QED
    BY <1>1, <2>1, StaysLoading, MappedStutter
<1>5. CASE PublishStore(c)
  <2>1. /\ pc[c] = "store" /\ Put(key[c], outcome[c].entry)
        /\ Goto(c, "finish") /\ UNCHANGED outcome
    BY <1>5 DEF PublishStore
  <2>2. /\ c \notin forgotten /\ entry[key[c]].value = NoCall
        /\ outcome[c].status = "found"
    BY <1>1, <2>1, PendingValue DEF BarrierInv, HoleInv, Resident, OutcomeInv
  <2>3. outcome[c].entry \in Entries /\ outcome[c].entry.value = c
    <3>1. /\ outcome[c].entry # NoEntry
          /\ outcome[c].entry \in Entries \union {NoEntry}
          /\ outcome[c].entry.value \in {c, NoCall}
      BY <2>1, <2>2, TypesOfInv, ValuesTyped DEF BarrierInv, OutcomeInv
    <3>2. QED
      BY <3>1, EntryValue
  <2>4. Given(key[c], c)
    <3>1. EntryType
      BY DEF BarrierInv, TypeOK, EntryType
    <3>2. /\ entry'[key[c]] = outcome[c].entry
          /\ \A j \in Keys \ {key[c]} : entry'[j] \in {entry[j], NoEntry}
      BY <1>1, <2>1, <2>3, <3>1, PutEffect
    <3>3. QED
      BY <2>3, <3>2, PendingValue DEF Given
  <2>5. OnlyLoadOf(c, "ended") /\ LoadKeyOf(c)' = LoadKeyOf(c) /\ Barred' = Barred \ {c}
    BY <1>1, <2>1, <2>2, EndsLoad
  <2>6. QED
    BY <1>1, <2>2, <2>4, <2>5, MappedEnd
<1>6. QED
  BY <1>2, <1>3, <1>4, <1>5

\* The end of a wave and the calls that wait for it.
LEMMA WaveEndRefines ==
  ASSUME BarrierInv, NEW c \in Callers, Finish(c) \/ WaitDone(c) \/ WaitCanceled(c)
  PROVE  UNCHANGED Barrier!vars
<1>1. /\ ~Loading(c) /\ UNCHANGED <<wave, forgotten, key, outcome, entry>>
      /\ \E phase \in {"returned", "wait"} : Goto(c, phase)
  BY DEF Finish, WaitDone, WaitCanceled, Return, Loading, flight, call
<1>2. (\A d \in Callers : SameLoad(d)) /\ Barred' = Barred
  BY <1>1, SamePhase, SameLoads
<1>3. QED
  BY <1>1, <1>2, MappedStutter DEF SameValues

(***************************************************************************)
(* Mutations.                                                              *)
(***************************************************************************)

\* The only load of a key that is not barred is the one the group holds, so taking
\* it from the group bars all loads of the key.
LEMMA ForgettingBars ==
  ASSUME BarrierInv, NEW ks \in SUBSET Keys, Flight!ForgetKeys(ks),
         \A d \in Callers : Loading(d)' <=> Loading(d)
  PROVE  Barred' = Barred \union LoadsOf(ks)
<1>1. forgotten' = forgotten \union ({group[k] : k \in ks} \ {NoCall})
  BY DEF Flight!ForgetKeys
<1>2. forgotten \subseteq Callers
  BY DEF BarrierInv, TypeOK, Flight!TypeOK
<1>3. ASSUME NEW d \in LoadsOf(ks), d \notin forgotten
      PROVE  d \in forgotten'
  <2>1. d \in Callers /\ Current(d) /\ key[d] \in ks
    BY <1>3 DEF LoadsOf, Current, Owning
  <2>2. group[key[d]] = d /\ d # NoCall
    BY <2>1, AbsentAssumption DEF BarrierInv, GroupInv
  <2>3. QED
    BY <1>1, <2>1, <2>2
<1>4. ASSUME NEW k \in ks, group[k] # NoCall
      PROVE  group[k] \in Callers /\ key[group[k]] = k
  BY <1>4 DEF BarrierInv, GroupInv, TypeOK, Flight!TypeOK
<1>5. forgotten' \subseteq Callers
  BY <1>1, <1>2, <1>4
<1>6. Barred' = {d \in forgotten' : Loading(d)}
  BY <1>5 DEF Barred
<1>7. ASSUME NEW d \in Barred'
      PROVE  d \in Barred \union LoadsOf(ks)
  <2>1. d \in forgotten' /\ Loading(d) /\ d \in Callers
    BY <1>5, <1>6
  <2>2. CASE d \in forgotten
    BY <2>1, <2>2 DEF Barred
  <2>3. CASE d \notin forgotten
    BY <1>1, <1>4, <2>1, <2>3 DEF LoadsOf
  <2>4. QED
    BY <2>2, <2>3
<1>8. ASSUME NEW d \in Barred \union LoadsOf(ks)
      PROVE  d \in Barred'
  BY <1>1, <1>3, <1>6 DEF Barred, LoadsOf
<1>9. QED
  BY <1>7, <1>8

\* A mutation in its second phase finds no unbarred load of its keys.
LEMMA ApplyFindsLoadsBarred ==
  ASSUME BarrierInv, NEW c \in Callers, pc[c] = "apply", NEW k \in targets[c]
  PROVE  LoadsOf({k}) \subseteq Barred
BY AbsentAssumption
   DEF LoadsOf, Barred, BarrierInv, GroupInv, TargetsInv, TypeOK, Current, Owning

LEMMA ForgetRefines ==
  ASSUME BarrierInv, NEW c \in Callers, Forget(c) \/ ClearForget(c)
  PROVE  Barrier!Next
<1>1. /\ ~Loading(c) /\ Goto(c, "apply") /\ UNCHANGED <<wave, key, outcome, entry>>
      /\ \E ks \in SUBSET Keys : Flight!ForgetKeys(ks)
  BY DEF Forget, ClearForget, Loading, call, BarrierInv, TargetsInv
<1>2. PICK ks \in SUBSET Keys : Flight!ForgetKeys(ks)
  BY <1>1
<1>3. \A d \in Callers : Loading(d)' <=> Loading(d)
  BY <1>1, SamePhase
<1>4. Barred' = Barred \union LoadsOf(ks)
  BY <1>2, <1>3, ForgettingBars
<1>5. \A d \in Callers : SameLoad(d)
  BY <1>1, <1>3 DEF SameLoad, LoadKeyOf, PhaseOf
<1>6. QED
  BY <1>1, <1>4, <1>5, MappedBar DEF SameValues

LEMMA InsertionGives ==
  ASSUME BarrierInv, NEW c \in Callers, NEW k \in Keys, NEW expiration \in Expirations,
         NEW t \in ReadTimes(c), NEW e \in NewEntries(c, expiration, t), Put(k, e)
  PROVE  Given(k, c)
<1>1. Types /\ EntryType
  BY TypesOfInv DEF Types, TypeOK, EntryType
<1>2. e \in Entries /\ e.value = c
  BY <1>1, ReadTimeIsNat, NewEntriesType, ChoicesAssumption
<1>3. entry'[k] = e /\ \A j \in Keys \ {k} : entry'[j] \in {entry[j], NoEntry}
  BY <1>1, <1>2, PutEffect
<1>4. QED
  BY <1>2, <1>3, PendingValue DEF Given

LEMMA ApplyRefines ==
  ASSUME BarrierInv, NEW c \in Callers,
         Set(c) \/ GetOrSetHit(c) \/ GetOrSetInsert(c) \/ GetAndDelete(c)
  PROVE  Barrier!Next \/ UNCHANGED Barrier!vars
<1>1. /\ pc[c] = "apply" /\ op[c] \notin {"delete", "clear"} /\ ~Loading(c)
      /\ Goto(c, "returned") /\ UNCHANGED <<wave, forgotten, key, outcome>>
  BY DEF Set, GetOrSetHit, GetOrSetInsert, GetAndDelete, Return, Loading, flight, call
<1>2. key[c] \in Keys /\ key[c] \in targets[c]
  BY <1>1 DEF BarrierInv, TargetsInv
<1>3. (\A d \in Callers : SameLoad(d)) /\ Barred' = Barred
  BY <1>1, SamePhase, SameLoads
<1>4. LoadsOf({key[c]}) \subseteq Barred
  BY <1>1, <1>2, ApplyFindsLoadsBarred
<1>5. CASE Set(c) \/ GetOrSetInsert(c)
  <2>1. PICK expiration \in Expirations, t \in ReadTimes(c) :
          \E e \in NewEntries(c, expiration, t) : Put(key[c], e)
    BY <1>5 DEF Set, GetOrSetInsert
  <2>2. Given(key[c], c)
    BY <1>2, <2>1, InsertionGives
  <2>3. QED
    BY <1>2, <1>3, <1>4, <2>2, MappedStore
<1>6. CASE GetOrSetHit(c)
  <2>1. SameValues
    BY <1>2, <1>6, HitKeepsValues DEF GetOrSetHit
  <2>2. QED
    BY <1>3, <2>1, MappedStutter
<1>7. CASE GetAndDelete(c)
  BY <1>2, <1>3, <1>7, RemovalLosesValues, MappedLose DEF GetAndDelete
<1>8. QED
  BY <1>5, <1>6, <1>7

\* Delete forgets the load of a key and removes its value in one step.
LEMMA RemovalRefines ==
  ASSUME BarrierInv, NEW c \in Callers,
         \/ \E k \in Keys : DeleteKey(c, k)
         \/ \E s \in Segments : ClearSegment(c, s)
  PROVE  Barrier!Next
<1>1. ASSUME ReturnWhenRemoved(c), pc[c] \in {"lock", "apply"}
      PROVE  \A d \in Callers : Loading(d)' <=> Loading(d)
  BY <1>1 DEF ReturnWhenRemoved, Return, Goto, Loading, BarrierInv, TypeOK
<1>2. ASSUME NEW k \in Keys, DeleteKey(c, k)
      PROVE  Barrier!Next
  <2>1. /\ Flight!ForgetKeys({k}) /\ RemoveAll({k}) /\ UNCHANGED <<wave, key, outcome>>
        /\ \A d \in Callers : Loading(d)' <=> Loading(d)
    BY <1>1, <1>2 DEF DeleteKey, call
  <2>2. Barred' = Barred \union LoadsOf({k})
    BY <2>1, ForgettingBars
  <2>3. \A d \in Callers : SameLoad(d)
    BY <2>1 DEF SameLoad, LoadKeyOf, PhaseOf
  <2>4. QED
    BY <2>1, <2>2, <2>3, RemovalLosesValues, MappedLose
<1>3. ASSUME NEW s \in Segments, ClearSegment(c, s)
      PROVE  Barrier!Next
  <2>1. /\ RemoveAll(KeysOf(s)) /\ KeysOf(s) \in SUBSET Keys
        /\ UNCHANGED <<wave, forgotten, key, outcome>>
        /\ \A d \in Callers : Loading(d)' <=> Loading(d)
    BY <1>1, <1>3 DEF ClearSegment, KeysOf, flight, call
  <2>2. (\A d \in Callers : SameLoad(d)) /\ Barred' = Barred
    BY <2>1, SameLoads
  <2>3. QED
    BY <2>1, <2>2, RemovalLosesValues, MappedLose
<1>4. QED
  BY <1>2, <1>3

\* What does not concern any goroutine's load: locks, the clock, contexts, cleanup.
LEMMA AroundRefines ==
  ASSUME BarrierInv,
         \/ \E c \in Callers : \/ Cancel(c)
                               \/ \E s \in Segments : AcquireLock(c, s)
         \/ \E k \in Keys : Reclaim(k) \/ Renew(k)
         \/ Tick
         \/ UNCHANGED vars
  PROVE  Barrier!Next \/ UNCHANGED Barrier!vars
<1>1. UNCHANGED <<wave, forgotten, key, outcome, pc>>
  BY DEF Cancel, AcquireLock, Reclaim, Renew, Tick, vars, flight, call
<1>2. (\A d \in Callers : SameLoad(d)) /\ Barred' = Barred
  BY <1>1, SameLoads DEF Loading
<1>3. ASSUME NEW k \in Keys, Reclaim(k)
      PROVE  Barrier!Next
  BY <1>2, <1>3, RemovalLosesValues, MappedLose DEF Reclaim
<1>4. ASSUME NEW k \in Keys, Renew(k)
      PROVE  SameValues
  <2>1. PICK t \in 0..clock :
          entry' = [entry EXCEPT ![k].deadline = Extended(@, t, entry[k].ttl)]
    BY <1>4 DEF Renew
  <2>2. entry[k] \in Entries \union {NoEntry}
    BY DEF BarrierInv, TypeOK
  <2>3. entry'[k].value = entry[k].value /\ \A j \in Keys \ {k} : entry'[j] = entry[j]
    BY <2>1, <2>2 DEF BarrierInv, TypeOK, Entries, NoEntry
  <2>4. QED
    BY <2>3 DEF SameValues
<1>5. UNCHANGED entry => SameValues
  BY DEF SameValues
<1>6. QED
  BY <1>2, <1>3, <1>4, <1>5, MappedStutter DEF Cancel, AcquireLock, Tick, vars

LEMMA BarrierStep ==
  ASSUME BarrierInv, [Next]_vars
  PROVE  Barrier!Next \/ UNCHANGED Barrier!vars
<1>1. ASSUME NEW c \in Callers, Load(c)
      PROVE  Barrier!Next \/ UNCHANGED Barrier!vars
  BY <1>1, RegisterRefines, RecheckRefines, LoaderRefines, PublishRefines, WaveEndRefines
     DEF Load
<1>2. ASSUME NEW c \in Callers, Mutate(c)
      PROVE  Barrier!Next \/ UNCHANGED Barrier!vars
  BY <1>2, ForgetRefines, ApplyRefines, RemovalRefines, AroundRefines DEF Mutate
<1>3. ASSUME NEW c \in Callers, Start(c) \/ Lookup(c) \/ Cancel(c)
      PROVE  Barrier!Next \/ UNCHANGED Barrier!vars
  BY <1>3, StartRefines, LookupRefines, AroundRefines
<1>4. CASE \/ \E k \in Keys : Reclaim(k) \/ Renew(k)
           \/ Tick
           \/ UNCHANGED vars
  BY <1>4, AroundRefines
<1>5. QED
  BY <1>1, <1>2, <1>3, <1>4 DEF Next, Proceed, Terminated

LEMMA BarrierInitially == Init => Barrier!Init
<1> SUFFICES ASSUME Init PROVE Barrier!Init
  OBVIOUS
<1>1. \A c \in Callers : wave[c] # c
  BY AbsentAssumption DEF Init, Flight!Init
<1>2. forgotten = {} /\ \A k \in Keys : entry[k].value = NoCall
  BY PendingValue DEF Init, Flight!Init
<1>3. QED
  BY <1>1, <1>2 DEF Barrier!Init

\* Loads and mutations implement the publication barrier: the locks, the groups and
\* the two-phase publication of load.go and set.go behave like one atomic publication
\* that every mutation of the key either precedes or bars.
THEOREM BarrierImplemented == Spec => ImplementsBarrier
<1>1. BarrierInv /\ [Next]_vars => [Barrier!Next]_Barrier!vars
  BY BarrierStep
<1>2. QED
  BY <1>1, BarrierInitially, BarrierHolds, PTL DEF Spec, ImplementsBarrier, Barrier!Spec
-------------------------------------------------------------------------------
(***************************************************************************)
(* The group of in-flight loads: a caller of the cache drives it only by   *)
(* the steps of Singleflight, in the order Singleflight allows.            *)
(***************************************************************************)
FlightNext == Flight!Next \/ UNCHANGED Flight!vars

LEMMA FlightStutters ==
  ASSUME UNCHANGED <<flight, key>>
  PROVE  UNCHANGED Flight!vars
BY DEF Flight!vars, callKey, flight

LEMMA FlightForgets ==
  ASSUME NEW ks \in SUBSET Keys, Flight!ForgetKeys(ks), UNCHANGED <<wave, done, key>>
  PROVE  FlightNext
<1>1. UNCHANGED callKey
  BY DEF callKey
<1>2. Flight!Forget(ks)
  BY <1>1 DEF Flight!Forget
<1>3. QED
  BY <1>2 DEF FlightNext, Flight!Next

LEMMA FlightStartsCall ==
  ASSUME BarrierInv, NEW c \in Callers, RegisterOwner(c) \/ RegisterJoiner(c)
  PROVE  FlightNext
<1>1. /\ wave[c] = NoCall /\ key[c] \in Keys /\ UNCHANGED <<forgotten, done, key>>
      /\ Flight!Lead(c, key[c]) \/ Flight!Join(c, key[c])
  BY DEF RegisterOwner, RegisterJoiner, call, BarrierInv, HandleInv, TargetsInv
<1>2. \E w \in Callers : wave' = [wave EXCEPT ![c] = w]
  BY <1>1 DEF Flight!Lead, Flight!Join, BarrierInv, TypeOK, Flight!TypeOK
<1>3. callKey' = [callKey EXCEPT ![c] = key[c]]
  <2>1. /\ wave'[c] # NoCall
        /\ \A d \in Callers \ {c} : wave'[d] = wave[d]
    BY <1>2, AbsentAssumption DEF BarrierInv, TypeOK, Flight!TypeOK
  <2>2. callKey' = [d \in Callers |-> IF wave'[d] = NoCall THEN NoKey ELSE key[d]]
    BY <1>1 DEF callKey
  <2>3. \A d \in Callers : callKey'[d] = IF d = c THEN key[c] ELSE callKey[d]
    BY <2>1, <2>2 DEF callKey
  <2>4. DOMAIN callKey = Callers /\ DOMAIN callKey' = Callers
    BY <2>2 DEF callKey
  <2>5. QED
    BY <2>2, <2>3, <2>4
<1>4. Flight!StartCall(c, key[c])
  BY <1>1, <1>3 DEF Flight!StartCall
<1>5. QED
  BY <1>1, <1>4 DEF FlightNext, Flight!Next

LEMMA FlightFinishes ==
  ASSUME BarrierInv, PhaseInv, NEW c \in Callers, Finish(c)
  PROVE  FlightNext
<1>1. /\ pc[c] = "finish" /\ Flight!FinishWave(c, key[c]) /\ UNCHANGED <<wave, forgotten, key>>
  BY DEF Finish, call
<1>2. wave[c] = c /\ c \notin done
  BY <1>1 DEF BarrierInv, HandleInv, Owning, PhaseInv
<1>3. callKey[c] = key[c] /\ UNCHANGED callKey
  BY <1>1, <1>2, AbsentAssumption DEF callKey
<1>4. Flight!Finish(c)
  BY <1>1, <1>2, <1>3 DEF Flight!Finish, Flight!Active
<1>5. QED
  BY <1>4 DEF FlightNext, Flight!Next

LEMMA FlightStart ==
  ASSUME BarrierInv, NEW c \in Callers, Start(c)
  PROVE  UNCHANGED Flight!vars
<1>1. pc[c] = "idle" /\ UNCHANGED flight
  BY StartsFromIdle
<1>2. \A d \in Callers \ {c} : key'[d] = key[d]
  BY DEF Start, BeginLookup, BeginMutation, BeginDelete, BeginClear, Begin,
         BarrierInv, TypeOK
<1>3. wave[c] = NoCall /\ UNCHANGED wave
  BY <1>1 DEF BarrierInv, HandleInv, flight
<1>4. UNCHANGED callKey
  BY <1>2, <1>3 DEF callKey
<1>5. QED
  BY <1>1, <1>4 DEF Flight!vars, flight

LEMMA FlightStep ==
  ASSUME BarrierInv, PhaseInv, [Next]_vars
  PROVE  FlightNext
<1>1. ASSUME NEW c \in Callers, Lookup(c)
      PROVE  FlightNext
  <2>1. UNCHANGED <<flight, key>>
    BY <1>1 DEF Lookup, LookupHit, GetMiss, GetOrSetMiss, GetOrLoadMiss, Miss, call
  <2>2. QED
    BY <2>1, FlightStutters DEF FlightNext
<1>2. ASSUME NEW c \in Callers, Load(c)
      PROVE  FlightNext
  <2>1. \/ RegisterOwner(c) \/ RegisterJoiner(c) \/ Finish(c)
        \/ UNCHANGED <<flight, key>>
    BY <1>2 DEF Load, RecheckHit, RecheckMiss, LoaderReturns, LoaderFound, LoaderMissing,
         LoaderFails, LoaderUnwinds, PublishSuperseded, PublishMissing, PublishBegin,
         PublishStore, WaitDone, WaitCanceled, call
  <2>2. QED
    BY <2>1, FlightStutters, FlightStartsCall, FlightFinishes DEF FlightNext
<1>3. ASSUME NEW c \in Callers, Mutate(c)
      PROVE  FlightNext
  <2>1. CASE Forget(c)
    <3>1. key[c] \in Keys /\ Flight!ForgetKeys({key[c]}) /\ UNCHANGED <<wave, done, key>>
      BY <2>1 DEF Forget, call, BarrierInv, TargetsInv
    <3>2. QED
      BY <3>1, FlightForgets
  <2>2. CASE \E k \in Keys : DeleteKey(c, k)
    BY <2>2, FlightForgets DEF DeleteKey, call
  <2>3. CASE ClearForget(c)
    BY <2>3, FlightForgets DEF ClearForget, call
  <2>4. CASE \/ \E s \in Segments : AcquireLock(c, s) \/ ClearSegment(c, s)
             \/ Set(c) \/ GetOrSetHit(c) \/ GetOrSetInsert(c) \/ GetAndDelete(c)
    <3>1. UNCHANGED <<flight, key>>
      BY <2>4 DEF AcquireLock, ClearSegment, Set, GetOrSetHit, GetOrSetInsert, GetAndDelete, call
    <3>2. QED
      BY <3>1, FlightStutters DEF FlightNext
  <2>5. QED
    BY <1>3, <2>1, <2>2, <2>3, <2>4 DEF Mutate
<1>4. CASE Elsewhere
  <2>1. UNCHANGED <<flight, key>>
    BY <1>4, ElsewhereEffect DEF flight
  <2>2. QED
    BY <2>1, FlightStutters DEF FlightNext
<1>5. QED
  BY <1>1, <1>2, <1>3, <1>4, FlightStart, EveryStep DEF Proceed, FlightNext

LEMMA FlightInitially == Init => Flight!Init
BY DEF Init, Flight!Init

\* getOrLoad and the mutations use the group of in-flight loads as it is meant to be
\* used: one StartCall per caller, Finish only by the owner of a wave that is not
\* closed, and otherwise nothing but Forget.  That every wave is finished in the end,
\* the fairness of Singleflight, is not part of it.
THEOREM SingleflightImplemented == Spec => Flight!Init /\ [][Flight!Next]_(Flight!vars)
<1>1. BarrierInv /\ PhaseInv /\ [Next]_vars => [Flight!Next]_(Flight!vars)
  BY FlightStep DEF FlightNext
<1>2. QED
  BY <1>1, FlightInitially, BarrierHolds, PhasesHold, PTL DEF Spec
-------------------------------------------------------------------------------
(***************************************************************************)
(* The store.                                                              *)
(***************************************************************************)
Present == {k \in Keys : Resident(k)}

\* What the refinement mapping of Store maps the entries to.
Held == [k \in Present |-> entry[k]]

\* No segment holds more entries than it has room for, and a value that is about to
\* be published lives for its TTL from some moment of the past.
RoomInv ==
  \A s \in Segments :
    IsFiniteSet(ResidentIn(s)) /\ Cardinality(ResidentIn(s)) <= Capacity[s]

Dated(e) == \E t \in 0..clock : e.deadline = DeadlineAfter(t, e.ttl)

DatedInv ==
  \A c \in Callers :
    pc[c] \in {"publish", "store"} /\ outcome[c].entry # NoEntry => Dated(outcome[c].entry)

StoreNext == Store!Next \/ UNCHANGED Store!vars

LEMMA MappedHeld ==
  /\ Held = [k \in {j \in Keys : Resident(j)} |-> entry[k]]
  /\ DOMAIN Held = Present
  /\ \A k \in Present : Held[k] = entry[k]
BY DEF Held, Present

\* The operators of the abstract store are those of Coordination.
LEMMA SameOperators ==
  /\ \A S : Store!Cardinality(S) = Cardinality(S)
  /\ \A f, S : Store!Restrict(f, S) = [x \in S |-> f[x]]
  /\ \A t, ttl : Store!DeadlineAfter(t, ttl) = DeadlineAfter(t, ttl)
  /\ \A deadline, t : Store!Expired(deadline, t) = Expired(deadline, t)
<1>1. ASSUME NEW S
      PROVE  Store!Cardinality(S) = Cardinality(S)
  BY DEF Store!Cardinality, Cardinality
<1>2. ASSUME NEW f, NEW S
      PROVE  Store!Restrict(f, S) = [x \in S |-> f[x]]
  BY DEF Store!Restrict
<1>3. ASSUME NEW t, NEW ttl
      PROVE  Store!DeadlineAfter(t, ttl) = DeadlineAfter(t, ttl)
  BY DEF Store!DeadlineAfter, DeadlineAfter
<1>4. ASSUME NEW deadline, NEW t
      PROVE  Store!Expired(deadline, t) = Expired(deadline, t)
  BY DEF Store!Expired, Expired
<1>5. QED
  BY <1>1, <1>2, <1>3, <1>4

LEMMA StoreStutters ==
  ASSUME UNCHANGED <<entry, clock>>
  PROVE  StoreNext
BY DEF StoreNext, Store!vars, Resident

LEMMA StoreRemoves ==
  ASSUME EntryType, NEW ks \in SUBSET Keys, RemoveAll(ks), UNCHANGED clock
  PROVE  StoreNext
<1>1. Present' = Present \ ks
  BY DEF RemoveAll, Present, Resident
<1>2. \A k \in Present' : entry'[k] = entry[k]
  BY <1>1 DEF RemoveAll, Present
<1>3. Held' = [k \in Present \ ks |-> entry[k]]
  BY <1>1, <1>2 DEF Held
<1>4. Held' = Store!Restrict(Held, DOMAIN Held \ ks)
  BY <1>3, MappedHeld, SameOperators
<1>5. Store!Remove(ks)
  BY <1>4 DEF Store!Remove, Store!Without, Held, Present
<1>6. QED
  BY <1>5 DEF StoreNext, Store!Next

LEMMA StoreTouches ==
  ASSUME Types, NEW k \in Keys, NEW t \in 0..clock, Live(k, t), UNCHANGED clock,
         entry' = [entry EXCEPT ![k] =
                     [entry[k] EXCEPT !.deadline = Extended(entry[k].deadline, t, entry[k].ttl)]]
  PROVE  StoreNext
<1> DEFINE renewed == DeadlineAfter(t, entry[k].ttl)
<1>1. entry[k] \in Entries /\ k \in Present /\ ~Expired(entry[k].deadline, t)
  BY DEF Live, Resident, Present, Types, TypeOK
<1>2. CASE renewed > entry[k].deadline
  <2>1. entry' = [entry EXCEPT ![k] = [entry[k] EXCEPT !.deadline = renewed]]
    BY <1>2 DEF Extended
  <2>2. /\ entry'[k] = [entry[k] EXCEPT !.deadline = renewed] /\ entry'[k].value = entry[k].value
        /\ \A j \in Keys \ {k} : entry'[j] = entry[j]
    BY <1>1, <2>1 DEF Types, TypeOK, Entries
  <2>3. entry'[k] # NoEntry
    BY <1>1, <2>2, AbsentAssumption DEF Entries, NoEntry
  <2>4. Present' = Present
    BY <1>1, <2>2, <2>3 DEF Present, Resident
  <2>5. Held' = [Held EXCEPT ![k].deadline = renewed]
    BY <1>1, <2>2, <2>4 DEF Held, Present
  <2>6. k \in DOMAIN Held /\ Held[k] = entry[k]
    BY <1>1, MappedHeld
  <2>7. Store!Touch(k)
    BY <1>1, <1>2, <2>5, <2>6, SameOperators DEF Store!Touch, Held, Present
  <2>8. QED
    BY <2>7 DEF StoreNext, Store!Next
<1>3. CASE ~(renewed > entry[k].deadline)
  <2>1. [entry[k] EXCEPT !.deadline = Extended(entry[k].deadline, t, entry[k].ttl)] = entry[k]
    BY <1>1, <1>3 DEF Extended, Entries
  <2>2. UNCHANGED entry
    BY <2>1 DEF Types, TypeOK
  <2>3. QED
    BY <2>2, StoreStutters
<1>4. QED
  BY <1>2, <1>3

LEMMA StorePuts ==
  ASSUME EntryType, RoomInv, NEW k \in Keys, NEW e \in Entries, Put(k, e), UNCHANGED clock,
         Dated(e), Resident(k) => e.value # entry[k].value
  PROVE  StoreNext
<1>1. e # NoEntry /\ SegOf[k] \in Segments /\ Capacity[SegOf[k]] \in Nat
  BY AbsentAssumption, SegmentsAssumption DEF Entries, NoEntry
<1>2. entry'[k] = e /\ k \in Present'
  BY <1>1, PutEffect DEF Present, Resident
<1>3. Store!Fresh(k)
  <2>1. Held'[k] = e /\ DOMAIN Held' = Present'
    BY <1>2 DEF Held
  <2>2. Held'[k].deadline \in {DeadlineAfter(t, Held'[k].ttl) : t \in 0..clock}
    BY <2>1 DEF Dated
  <2>3. k \in DOMAIN Held => Held'[k].value # Held[k].value
    BY <2>1, MappedHeld DEF Present
  <2>4. QED
    BY <1>2, <2>1, <2>2, <2>3, SameOperators DEF Store!Fresh, Held, Present
<1>4. Store!InSegmentOf(k) = ResidentIn(SegOf[k])
  BY DEF Store!InSegmentOf, ResidentIn
<1>5. /\ Cardinality(ResidentIn(SegOf[k])) \in Nat
      /\ Store!Full(k) <=> Cardinality(ResidentIn(SegOf[k])) >= Capacity[SegOf[k]]
  BY <1>1, <1>4, FS_CardinalityType, SameOperators DEF RoomInv, Store!Full
<1>6. ASSUME NEW victims \in SUBSET (ResidentIn(SegOf[k]) \ {k}),
             Cardinality(victims) = IF ~Resident(k) /\ Store!Full(k) THEN 1 ELSE 0,
             \A j \in Keys \ {k} : entry'[j] = IF j \in victims THEN NoEntry ELSE entry[j]
      PROVE  StoreNext
  <2>1. Present' \ {k} = Present \ (victims \union {k})
    BY <1>6 DEF Present, Resident
  <2>2. \A j \in Present' \ {k} : entry'[j] = entry[j]
    BY <1>6, <2>1 DEF Present
  <2>3. Store!Restrict(Held', DOMAIN Held' \ {k}) = [j \in Present' \ {k} |-> entry'[j]]
    BY SameOperators DEF Held
  <2>4. Store!Restrict(Held, DOMAIN Held \ (victims \union {k})) = [j \in Present \ (victims \union {k}) |-> entry[j]]
    BY SameOperators DEF Held
  <2>5. Store!Restrict(Held', DOMAIN Held' \ {k}) = Store!Without(victims \union {k})
    BY <2>1, <2>2, <2>3, <2>4 DEF Store!Without, Held, Present
  <2>6. k \notin DOMAIN Held <=> ~Resident(k)
    BY MappedHeld DEF Present
  <2>7. Cardinality(victims) = IF k \notin DOMAIN Held /\ Store!Full(k) THEN 1 ELSE 0
    BY <1>6, <2>6
  <2>8. Store!Put(k)
    BY <1>3, <1>4, <1>6, <2>5, <2>7, SameOperators DEF Store!Put, Held, Present
  <2>9. QED
    BY <2>8 DEF StoreNext, Store!Next
<1>7. CASE /\ Resident(k) \/ Cardinality(ResidentIn(SegOf[k])) < Capacity[SegOf[k]]
           /\ entry' = [entry EXCEPT ![k] = e]
  <2>1. ~(~Resident(k) /\ Store!Full(k))
    BY <1>1, <1>5, <1>7
  <2>2. QED
    BY <1>6, <1>7, <2>1, FS_EmptySet DEF EntryType
<1>8. ASSUME ~Resident(k), Cardinality(ResidentIn(SegOf[k])) >= Capacity[SegOf[k]],
             NEW victim \in ResidentIn(SegOf[k]),
             entry' = [entry EXCEPT ![victim] = NoEntry, ![k] = e]
      PROVE  StoreNext
  <2>1. victim \in Keys \ {k}
    BY <1>8 DEF ResidentIn
  <2>2. Cardinality({victim}) = 1
    BY FS_Singleton
  <2>3. \A j \in Keys \ {k} : entry'[j] = IF j \in {victim} THEN NoEntry ELSE entry[j]
    BY <1>8, <2>1 DEF EntryType
  <2>4. Store!Full(k)
    BY <1>5, <1>8
  <2>5. QED
    BY <1>6, <1>8, <2>1, <2>2, <2>3, <2>4
<1>9. QED
  BY <1>7, <1>8 DEF Put

(***************************************************************************)
(* What a step of the cache does to its store.                             *)
(***************************************************************************)
Removes == \E ks \in SUBSET Keys : RemoveAll(ks)

Touches ==
  \E k \in Keys, t \in 0..clock :
    /\ Live(k, t)
    /\ entry' = [entry EXCEPT ![k] =
                   [entry[k] EXCEPT !.deadline = Extended(entry[k].deadline, t, entry[k].ttl)]]

Puts ==
  \E k \in Keys, e \in Entries :
    /\ Put(k, e)
    /\ Dated(e)
    /\ Resident(k) => e.value # entry[k].value

\* A hit without sliding expiration, or of an entry without a deadline, changes nothing.
LEMMA HitTouches ==
  ASSUME Types, NEW c \in Callers, NEW t \in ReadTimes(c), NEW k \in Keys, Live(k, t),
         entry' = [entry EXCEPT ![k] = Touched(entry[k], t)]
  PROVE  UNCHANGED entry \/ Touches
<1>1. t \in 0..clock
  BY DEF ReadTimes, Types, TypeOK
<1>2. CASE Sliding /\ entry[k].ttl > 0
  BY <1>1, <1>2 DEF Touched, Touches
<1>3. CASE ~(Sliding /\ entry[k].ttl > 0)
  BY <1>3 DEF Touched, Types, TypeOK
<1>4. QED
  BY <1>2, <1>3

\* The entry a caller is about to insert, under the lock, has a value of its own.
LEMMA InsertionPuts ==
  ASSUME BarrierInv, NEW c \in Callers, pc[c] = "apply", key[c] \in Keys,
         NEW expiration \in Expirations, NEW t \in ReadTimes(c),
         NEW e \in NewEntries(c, expiration, t), Put(key[c], e)
  PROVE  Puts
<1>1. t \in 0..clock /\ t \in Nat
  BY TypesOfInv, ReadTimeIsNat DEF ReadTimes, BarrierInv, TypeOK
<1>2. e \in Entries /\ e.value = c
  BY <1>1, NewEntriesType, ChoicesAssumption
<1>3. Dated(e)
  BY <1>1 DEF NewEntries, Dated
<1>4. ~Provided(c)
  BY AbsentAssumption DEF BarrierInv, HandleInv, Provided
<1>5. Resident(key[c]) => e.value # entry[key[c]].value
  BY <1>2, <1>4 DEF BarrierInv, ValueInv
<1>6. QED
  BY <1>2, <1>3, <1>5 DEF Puts

LEMMA LookupUses ==
  ASSUME BarrierInv, NEW c \in Callers, Lookup(c)
  PROVE  UNCHANGED clock /\ (UNCHANGED entry \/ Removes \/ Touches)
<1>1. key[c] \in Keys /\ UNCHANGED clock
  BY DEF Lookup, LookupHit, GetMiss, GetOrSetMiss, GetOrLoadMiss, Miss,
         BarrierInv, TargetsInv, Lookups
<1>2. CASE LookupHit(c)
  BY <1>1, <1>2, TypesOfInv, HitTouches DEF LookupHit
<1>3. CASE Miss(c)
  BY <1>1, <1>3 DEF Miss, Removes
<1>4. QED
  BY <1>1, <1>2, <1>3 DEF Lookup, GetMiss, GetOrSetMiss, GetOrLoadMiss

LEMMA LoadUses ==
  ASSUME BarrierInv, DatedInv, NEW c \in Callers, Load(c)
  PROVE  UNCHANGED clock /\ (UNCHANGED entry \/ Removes \/ Touches \/ Puts)
<1>1. UNCHANGED clock
  BY DEF Load, RegisterOwner, RegisterJoiner, RecheckHit, RecheckMiss, LoaderReturns,
         LoaderFound, LoaderMissing, LoaderFails, LoaderUnwinds, PublishSuperseded,
         PublishMissing, PublishBegin, PublishStore, Finish, WaitDone, WaitCanceled
<1>2. Loading(c) => key[c] \in Keys
  BY OwnerLoads
<1>3. CASE RecheckHit(c)
  BY <1>1, <1>2, <1>3, TypesOfInv, HitTouches DEF RecheckHit, Loading
<1>4. CASE RecheckMiss(c)
  BY <1>1, <1>2, <1>4 DEF RecheckMiss, Loading, Removes
<1>5. CASE PublishStore(c)
  <2>1. /\ pc[c] = "store" /\ key[c] \in Keys /\ Put(key[c], outcome[c].entry)
    BY <1>2, <1>5 DEF PublishStore, Loading
  <2>2. outcome[c].entry # NoEntry /\ ~Resident(key[c])
    BY <2>1 DEF BarrierInv, OutcomeInv, HoleInv
  <2>3. outcome[c].entry \in Entries
    BY <2>2, TypesOfInv, ValuesTyped
  <2>4. Dated(outcome[c].entry)
    BY <2>1, <2>2 DEF DatedInv
  <2>5. QED
    BY <1>1, <2>1, <2>2, <2>3, <2>4 DEF Puts
<1>6. \/ RecheckHit(c) \/ RecheckMiss(c) \/ PublishStore(c)
      \/ UNCHANGED entry
  BY DEF Load, RegisterOwner, RegisterJoiner, LoaderReturns,
         LoaderFound, LoaderMissing, LoaderFails, LoaderUnwinds, PublishSuperseded,
         PublishMissing, PublishBegin, Finish, WaitDone, WaitCanceled
<1>7. QED
  BY <1>1, <1>3, <1>4, <1>5, <1>6

LEMMA MutateUses ==
  ASSUME BarrierInv, NEW c \in Callers, Mutate(c)
  PROVE  UNCHANGED clock /\ (UNCHANGED entry \/ Removes \/ Touches \/ Puts)
<1>1. UNCHANGED clock
  BY DEF Mutate, AcquireLock, Forget, Set, GetOrSetHit, GetOrSetInsert, GetAndDelete,
         DeleteKey, ClearForget, ClearSegment
<1>2. pc[c] = "apply" /\ op[c] \in {"set", "getOrSet", "getAndDelete"} => key[c] \in Keys
  BY DEF BarrierInv, TargetsInv
<1>3. CASE Set(c)
  <2>1. PICK expiration \in Expirations, t \in ReadTimes(c) :
          \E e \in NewEntries(c, expiration, t) : Put(key[c], e)
    BY <1>3 DEF Set
  <2>2. QED
    BY <1>1, <1>2, <1>3, <2>1, InsertionPuts DEF Set
<1>4. CASE GetOrSetInsert(c)
  <2>1. PICK expiration \in Expirations, t \in ReadTimes(c) :
          \E e \in NewEntries(c, expiration, t) : Put(key[c], e)
    BY <1>4 DEF GetOrSetInsert
  <2>2. QED
    BY <1>1, <1>2, <1>4, <2>1, InsertionPuts DEF GetOrSetInsert
<1>5. CASE GetOrSetHit(c)
  BY <1>1, <1>2, <1>5, TypesOfInv, HitTouches DEF GetOrSetHit
<1>6. CASE GetAndDelete(c)
  BY <1>1, <1>2, <1>6 DEF GetAndDelete, Removes
<1>7. CASE \/ \E k \in Keys : DeleteKey(c, k)
           \/ \E s \in Segments : ClearSegment(c, s)
  BY <1>1, <1>7 DEF DeleteKey, ClearSegment, KeysOf, Removes
<1>8. CASE Forget(c) \/ ClearForget(c) \/ \E s \in Segments : AcquireLock(c, s)
  BY <1>1, <1>8 DEF Forget, ClearForget, AcquireLock
<1>9. QED
  BY <1>3, <1>4, <1>5, <1>6, <1>7, <1>8 DEF Mutate

LEMMA ElsewhereUses ==
  ASSUME BarrierInv, Elsewhere
  PROVE  \/ UNCHANGED clock /\ (UNCHANGED entry \/ Removes \/ Touches)
         \/ UNCHANGED entry /\ clock' = clock + 1
<1>1. ASSUME NEW k \in Keys, Renew(k)
      PROVE  UNCHANGED clock /\ Touches
  <2>1. PICK t \in 0..clock :
          /\ Live(k, t)
          /\ entry' = [entry EXCEPT ![k].deadline = Extended(@, t, entry[k].ttl)]
    BY <1>1 DEF Renew
  <2>2. QED
    BY <1>1, <2>1 DEF Renew, Touches
<1>2. ASSUME NEW k \in Keys, Reclaim(k)
      PROVE  UNCHANGED clock /\ Removes
  BY <1>2 DEF Reclaim, Removes
<1>3. QED
  BY <1>1, <1>2 DEF Elsewhere, Cancel, Tick, vars

LEMMA StoreUses ==
  ASSUME BarrierInv, DatedInv, [Next]_vars
  PROVE  \/ UNCHANGED clock /\ (UNCHANGED entry \/ Removes \/ Touches \/ Puts)
         \/ UNCHANGED entry /\ clock' = clock + 1
<1>1. ASSUME NEW c \in Callers, Start(c)
      PROVE  UNCHANGED <<entry, clock>>
  BY <1>1 DEF Start, BeginLookup, BeginMutation, BeginDelete, BeginClear, Begin
<1>2. QED
  BY <1>1, LookupUses, LoadUses, MutateUses, ElsewhereUses, EveryStep DEF Proceed

(***************************************************************************)
(* Capacity.                                                               *)
(***************************************************************************)
LEMMA FewerInRoom ==
  ASSUME RoomInv, \A k \in Keys : Resident(k)' => Resident(k)
  PROVE  RoomInv'
<1>1. ASSUME NEW s \in Segments
      PROVE  IsFiniteSet(ResidentIn(s)') /\ Cardinality(ResidentIn(s)') <= Capacity[s]
  <2>1. ResidentIn(s)' \subseteq ResidentIn(s)
    BY DEF ResidentIn
  <2>2. IsFiniteSet(ResidentIn(s)') /\ Cardinality(ResidentIn(s)') <= Cardinality(ResidentIn(s))
    BY <2>1, FS_Subset DEF RoomInv
  <2>3. Cardinality(ResidentIn(s)) \in Nat /\ Cardinality(ResidentIn(s)') \in Nat
    BY <2>2, FS_CardinalityType DEF RoomInv
  <2>4. QED
    BY <2>2, <2>3, SegmentsAssumption DEF RoomInv
<1>2. QED
  BY <1>1 DEF RoomInv

LEMMA PutInRoom ==
  ASSUME EntryType, RoomInv, NEW k \in Keys, NEW e \in Entries, Put(k, e)
  PROVE  RoomInv'
<1> DEFINE r == SegOf[k]
<1>1. e # NoEntry /\ r \in Segments /\ Capacity[r] \in Nat
  BY AbsentAssumption, SegmentsAssumption DEF Entries, NoEntry
<1>2. /\ entry'[k] = e
      /\ \A j \in Keys \ {k} : entry'[j] \in {entry[j], NoEntry}
  BY PutEffect
<1>3. CASE Resident(k)
  BY <1>2, <1>3, FewerInRoom DEF Resident
<1>4. CASE ~Resident(k)
  <2>1. IsFiniteSet(ResidentIn(r)) /\ Cardinality(ResidentIn(r)) \in Nat
        /\ Cardinality(ResidentIn(r)) <= Capacity[r]
    BY <1>1, FS_CardinalityType DEF RoomInv
  <2>2. IsFiniteSet(ResidentIn(r)') /\ Cardinality(ResidentIn(r)') <= Capacity[r]
    <3>1. CASE Cardinality(ResidentIn(r)) < Capacity[r] /\ entry' = [entry EXCEPT ![k] = e]
      <4>1. ResidentIn(r)' = ResidentIn(r) \union {k} /\ k \notin ResidentIn(r)
        BY <1>1, <1>4, <3>1 DEF ResidentIn, Resident, EntryType
      <4>2. /\ IsFiniteSet(ResidentIn(r) \union {k})
            /\ Cardinality(ResidentIn(r) \union {k}) = Cardinality(ResidentIn(r)) + 1
        BY <2>1, <4>1, FS_AddElement
      <4>3. QED
        BY <1>1, <2>1, <3>1, <4>1, <4>2
    <3>2. ASSUME NEW victim \in ResidentIn(r),
                 entry' = [entry EXCEPT ![victim] = NoEntry, ![k] = e]
          PROVE  IsFiniteSet(ResidentIn(r)') /\ Cardinality(ResidentIn(r)') <= Capacity[r]
      <4> DEFINE left == ResidentIn(r) \ {victim}
      <4>1. ResidentIn(r)' = left \union {k} /\ k \notin left
        <5>1. victim \in Keys \ {k} /\ k \notin left
          BY <1>4, <3>2 DEF ResidentIn
        <5>2. /\ entry'[victim] = NoEntry
              /\ \A j \in Keys \ {k, victim} : entry'[j] = entry[j]
          BY <3>2, <5>1 DEF EntryType
        <5>3. \A j \in Keys : Resident(j)' <=> j = k \/ (Resident(j) /\ j # victim)
          BY <1>1, <1>2, <5>1, <5>2 DEF Resident
        <5>4. QED
          BY <1>1, <5>1, <5>3 DEF ResidentIn
      <4>2. IsFiniteSet(left) /\ Cardinality(left) = Cardinality(ResidentIn(r)) - 1
        BY <2>1, FS_RemoveElement
      <4>3. IsFiniteSet(left \union {k}) /\ Cardinality(left \union {k}) = Cardinality(left) + 1
        BY <4>1, <4>2, FS_AddElement
      <4>4. QED
        BY <1>1, <2>1, <4>1, <4>2, <4>3
    <3>3. QED
      BY <1>4, <3>1, <3>2 DEF Put
  <2>3. ASSUME NEW s \in Segments \ {r}
        PROVE  IsFiniteSet(ResidentIn(s)') /\ Cardinality(ResidentIn(s)') <= Capacity[s]
    <3>1. ResidentIn(s)' \subseteq ResidentIn(s)
      BY <1>2 DEF ResidentIn, Resident
    <3>2. IsFiniteSet(ResidentIn(s)') /\ Cardinality(ResidentIn(s)') <= Cardinality(ResidentIn(s))
      BY <3>1, FS_Subset DEF RoomInv
    <3>3. Cardinality(ResidentIn(s)) \in Nat /\ Cardinality(ResidentIn(s)') \in Nat
      BY <3>2, FS_CardinalityType DEF RoomInv
    <3>4. QED
      BY <3>2, <3>3, SegmentsAssumption DEF RoomInv
  <2>4. QED
    BY <2>2, <2>3 DEF RoomInv
<1>5. QED
  BY <1>3, <1>4

LEMMA RoomInvInductive ==
  ASSUME BarrierInv, DatedInv, RoomInv, [Next]_vars
  PROVE  RoomInv'
<1>1. Types /\ EntryType
  BY TypesOfInv DEF Types, TypeOK, EntryType
<1>2. CASE UNCHANGED entry
  BY <1>2, FewerInRoom DEF Resident
<1>3. CASE Removes
  BY <1>3, FewerInRoom DEF Removes, RemoveAll, Resident
<1>4. CASE Touches
  <2>1. PICK k \in Keys, t \in 0..clock :
          /\ Live(k, t)
          /\ entry' = [entry EXCEPT ![k] =
               [entry[k] EXCEPT !.deadline = Extended(entry[k].deadline, t, entry[k].ttl)]]
    BY <1>4 DEF Touches
  <2>2. Resident(k) /\ \A j \in Keys \ {k} : entry'[j] = entry[j]
    BY <1>1, <2>1 DEF Live, EntryType
  <2>3. QED
    BY <2>2, FewerInRoom DEF Resident
<1>5. CASE Puts
  BY <1>1, <1>5, PutInRoom DEF Puts
<1>6. QED
  BY <1>2, <1>3, <1>4, <1>5, StoreUses

LEMMA DatedStays ==
  ASSUME TypeOK, NEW e, Dated(e), clock' \in {clock, clock + 1}
  PROVE  Dated(e)'
<1>1. clock \in Nat
  BY DEF TypeOK
<1>2. PICK t \in 0..clock : e.deadline = DeadlineAfter(t, e.ttl)
  BY DEF Dated
<1>3. t \in 0..clock'
  BY <1>1
<1>4. QED
  BY <1>2, <1>3 DEF Dated

LEMMA DatedInvInductive ==
  ASSUME BarrierInv, DatedInv, [Next]_vars
  PROVE  DatedInv'
<1>1. clock' \in {clock, clock + 1} /\ clock \in Nat
  BY StoreUses DEF BarrierInv, TypeOK
<1>2. ASSUME NEW c \in Callers, Start(c)
      PROVE  DatedInv'
  <2>1. pc'[c] \in {"lookup", "lock"} /\ UNCHANGED outcome /\ \A d \in Callers \ {c} : pc'[d] = pc[d]
    BY <1>2, StartsFromIdle
  <2>2. QED
    BY <1>1, <2>1, DatedStays DEF DatedInv, BarrierInv
<1>3. ASSUME NEW c \in Callers, Proceed(c)
      PROVE  DatedInv'
  <2>1. \A d \in Callers \ {c} : pc'[d] = pc[d] /\ outcome'[d] = outcome[d]
    BY <1>3, OthersKeepTheirTargets, OthersSayTheSame
  <2>2. ASSUME pc'[c] \in {"publish", "store"}, outcome'[c].entry # NoEntry
        PROVE  Dated(outcome[c].entry)'
    <3>1. LoaderFound(c) \/ LoaderMissing(c) \/ PublishBegin(c)
      <4>1. CASE Lookup(c)
        <5>1. \E phase \in {"returned", "lock", "register"} : Goto(c, phase)
          BY <4>1 DEF Lookup, LookupHit, GetMiss, GetOrSetMiss, GetOrLoadMiss, Return
        <5>2. QED
          BY <2>2, <5>1 DEF Goto, BarrierInv, TypeOK
      <4>2. CASE Mutate(c)
        <5>1. \/ pc[c] \in {"lock", "apply"} /\ UNCHANGED pc
              \/ \E phase \in {"apply", "returned"} : Goto(c, phase)
          BY <4>2, StepPhases
             DEF Mutate, AcquireLock, Forget, Set, GetOrSetHit, GetOrSetInsert, GetAndDelete,
                 DeleteKey, ClearForget, ClearSegment, ReturnWhenRemoved, Return
        <5>2. QED
          BY <2>2, <5>1 DEF Goto, BarrierInv, TypeOK
      <4>3. CASE Load(c)
        <5>1. \/ LoaderFound(c) \/ LoaderMissing(c) \/ PublishBegin(c)
              \/ \E phase \in {"recheck", "wait", "load", "finish", "returned"} : Goto(c, phase)
          BY <4>3 DEF Load, RegisterOwner, RegisterJoiner, RecheckHit, RecheckMiss,
               LoaderReturns, LoaderFails, LoaderUnwinds, PublishSuperseded,
               PublishMissing, PublishStore, Finish, WaitDone, WaitCanceled, Return
        <5>2. QED
          BY <2>2, <5>1 DEF Goto, BarrierInv, TypeOK
      <4>4. QED
        BY <1>3, <4>1, <4>2, <4>3 DEF Proceed
    <3>2. CASE LoaderFound(c)
      <4>1. PICK e \in NewEntries(c, DefaultExpiration, clock) : LoaderReturns(c, "found", e, "publish")
        BY <3>2 DEF LoaderFound
      <4>2. outcome'[c].entry = e
        BY <4>1 DEF LoaderReturns, Result, BarrierInv, TypeOK
      <4>3. Dated(e)
        BY <1>1, <4>1 DEF NewEntries, Dated
      <4>4. \E t \in 0..clock' : e.deadline = DeadlineAfter(t, e.ttl)
        BY <1>1, <4>3 DEF Dated
      <4>5. QED
        BY <4>2, <4>4 DEF Dated
    <3>3. CASE LoaderMissing(c)
      BY <2>2, <3>3 DEF LoaderMissing, LoaderReturns, Result, BarrierInv, TypeOK
    <3>4. CASE PublishBegin(c)
      <4>1. pc[c] = "publish" /\ UNCHANGED outcome
        BY <3>4 DEF PublishBegin
      <4>2. QED
        <5>1. \E t \in 0..clock : outcome[c].entry.deadline = DeadlineAfter(t, outcome[c].entry.ttl)
          BY <2>2, <4>1 DEF DatedInv, Dated
        <5>2. QED
          BY <1>1, <4>1, <5>1 DEF Dated
    <3>5. QED
      BY <3>1, <3>2, <3>3, <3>4
  <2>3. QED
    BY <1>1, <2>1, <2>2, DatedStays DEF DatedInv, BarrierInv
<1>4. CASE Elsewhere
  BY <1>1, <1>4, ElsewhereEffect, DatedStays DEF DatedInv, BarrierInv
<1>5. QED
  BY <1>2, <1>3, <1>4, EveryStep

LEMMA StoreStep ==
  ASSUME BarrierInv, DatedInv, RoomInv, [Next]_vars
  PROVE  StoreNext
<1>1. Types /\ EntryType
  BY TypesOfInv DEF Types, TypeOK, EntryType
<1>2. CASE UNCHANGED <<entry, clock>>
  BY <1>2, StoreStutters
<1>3. CASE UNCHANGED entry /\ clock' = clock + 1
  <2>1. UNCHANGED [k \in {j \in Keys : Resident(j)} |-> entry[k]]
    BY <1>3 DEF Resident
  <2>2. Store!Next
    BY <1>3, <2>1 DEF Store!Next
  <2>3. QED
    BY <2>2 DEF StoreNext
<1>4. CASE UNCHANGED clock /\ Removes
  BY <1>1, <1>4, StoreRemoves DEF Removes
<1>5. CASE UNCHANGED clock /\ Touches
  BY <1>1, <1>5, StoreTouches DEF Touches
<1>6. CASE UNCHANGED clock /\ Puts
  BY <1>1, <1>6, StorePuts DEF Puts
<1>7. QED
  BY <1>2, <1>3, <1>4, <1>5, <1>6, StoreUses

LEMMA StoreInitially == Init => Store!Init /\ RoomInv /\ DatedInv
<1> SUFFICES ASSUME Init PROVE Store!Init /\ RoomInv /\ DatedInv
  OBVIOUS
<1>1. Present = {}
  BY DEF Init, Present, Resident
<1>2. Held = Store!Restrict([k \in Keys |-> 0], {})
  BY <1>1, SameOperators DEF Held
<1>3. Store!Init
  BY <1>2 DEF Store!Init, Held, Present, Init
<1>4. \A s \in Segments : ResidentIn(s) = {}
  BY <1>1 DEF ResidentIn, Present
<1>5. RoomInv
  BY <1>4, FS_EmptySet, SegmentsAssumption DEF RoomInv
<1>6. DatedInv
  BY DEF Init, DatedInv
<1>7. QED
  BY <1>3, <1>5, <1>6

\* A segment never holds more entries than its capacity (setLocked evicts before it
\* inserts), and the entry a load is about to store has a deadline computed from its
\* TTL and a time that was read before.
THEOREM RoomHolds == Spec => [](RoomInv /\ DatedInv)
BY StoreInitially, RoomInvInductive, DatedInvInductive, BarrierHolds, PTL DEF Spec

\* What the operations do to their segments is what a bounded store promises: an
\* insertion evicts one entry exactly when its segment is full, a read never shortens
\* a deadline, every stored value is a new one, and what was removed stays removed
\* until it is stored again.
THEOREM StoreUsed == Spec => UsesStore
<1>1. BarrierInv /\ DatedInv /\ RoomInv /\ [Next]_vars => [Store!Next]_(Store!vars)
  BY StoreStep DEF StoreNext
<1>2. QED
  BY <1>1, StoreInitially, BarrierHolds, RoomHolds, PTL DEF Spec, UsesStore, Store!Spec
===============================================================================
