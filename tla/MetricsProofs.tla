----------------------------- MODULE MetricsProofs -----------------------------
(***************************************************************************)
(* Proofs about Metrics, for any goroutines, caches, names and attributes, *)
(* and whatever the provider refuses.                                      *)
(***************************************************************************)
EXTENDS Metrics, FiniteSetTheorems, TLAPS

\* The phases in which a goroutine holds Metrics.mu.
Holding == {"create", "attach", "record", "detach"}

\* Only the holder of Metrics.mu is in a phase that holds it.
HolderInv ==
  /\ mu \in Users \union {NoUser}
  /\ pc \in [Users -> {"idle", "register", "unregister"} \union Holding]
  /\ \A u \in Users : pc[u] \in Holding <=> mu = u

\* A Register under way has found Metrics open and the name free, and both stay so.
RegisterInv ==
  \A u \in Users : pc[u] \in {"create", "attach", "record"} =>
    /\ registration \in Registrations
    /\ ~closed
    /\ Name(registration) \notin DOMAIN registrations

\* A registration is kept under its own name, so those of two names differ.
TableInv ==
  /\ registrations \in [DOMAIN registrations -> Registrations]
  /\ \A name \in DOMAIN registrations : Name(registrations[name]) = name

Attached == IF \E u \in Users : pc[u] = "record" THEN {registration} ELSE {}

\* The provider runs what it has registered, and that changes in no collection.
ProviderInv ==
  /\ callbacks = Range(registrations) \union Attached
  /\ toRun \subseteq callbacks
  /\ ~collecting => toRun = {}
  /\ released => closed /\ callbacks = {}
  /\ \A u \in Users : pc[u] = "detach" => closed

MetricsInv == HolderInv /\ RegisterInv /\ TableInv /\ ProviderInv

LEMMA MetricsInvInitially == Init => MetricsInv
<1> SUFFICES ASSUME Init PROVE MetricsInv
  OBVIOUS
<1>1. HolderInv
  BY SourcesAssumption DEF Init, HolderInv, Holding
<1>2. RegisterInv
  BY DEF Init, RegisterInv
<1>3. TableInv
  BY DEF Init, TableInv, NoRegistrations
<1>4. ProviderInv
  BY DEF Init, ProviderInv, Attached, NoRegistrations, Range
<1>5. QED
  BY <1>1, <1>2, <1>3, <1>4 DEF MetricsInv

\* Nobody is recording but a holder of mu.
LEMMA AttachedOfHolder ==
  ASSUME HolderInv, NEW u \in Users, mu = u
  PROVE  Attached = IF pc[u] = "record" THEN {registration} ELSE {}
BY DEF HolderInv, Holding, Attached

\* Steps that leave the table and the provider's registrations alone, and begin or
\* end no phase in which a goroutine holds mu.
LEMMA IdleSteps ==
  ASSUME MetricsInv, NEW u \in Users, Call(u, "register") \/ Call(u, "unregister") \/ Reject(u)
  PROVE  MetricsInv'
<1>1. /\ pc[u] \in {"idle", "register"}
      /\ pc' = [pc EXCEPT ![u] = pc'[u]] /\ pc'[u] \in {"idle", "register", "unregister"}
      /\ UNCHANGED <<metricsVars, provider, registration, todo>>
  BY DEF Call, Reject, Goto, MetricsInv, HolderInv
<1>2. \A w \in Users : pc[w] # pc'[w] => pc[w] \notin Holding /\ pc'[w] \notin Holding
  BY <1>1 DEF MetricsInv, HolderInv, Holding
<1>3. HolderInv'
  BY <1>1, <1>2 DEF MetricsInv, HolderInv, metricsVars
<1>4. Attached' = Attached
  BY <1>1, <1>2 DEF Attached, Holding
<1>5. RegisterInv' /\ TableInv' /\ ProviderInv'
  BY <1>1, <1>2, <1>4
     DEF MetricsInv, RegisterInv, TableInv, ProviderInv, Holding, metricsVars, provider, Registrations, Name
<1>6. QED
  BY <1>3, <1>5 DEF MetricsInv

LEMMA RegisterSteps ==
  ASSUME MetricsInv, NEW u \in Users, NEW r \in Registrations, Register(u, r)
  PROVE  MetricsInv'
<1>1. /\ pc[u] = "register" /\ mu = NoUser /\ mu' = u
      /\ pc' = [pc EXCEPT ![u] = pc'[u]] /\ pc'[u] \in {"attach", "create"}
      /\ registration' = r /\ ~closed /\ Name(r) \notin DOMAIN registrations
      /\ UNCHANGED <<closed, registrations, released, callbacks, collecting, toRun>>
  BY DEF Register, Lock, Known, Goto, MetricsInv, HolderInv, provider
<1>2. \A w \in Users : pc[w] \notin Holding
  BY <1>1, SourcesAssumption DEF MetricsInv, HolderInv
<1>3. \A w \in Users : w # u => pc'[w] = pc[w] /\ pc'[w] \notin Holding
  BY <1>1, <1>2 DEF MetricsInv, HolderInv
<1>4. HolderInv'
  BY <1>1, <1>2, <1>3 DEF MetricsInv, HolderInv, Holding
<1>5. Attached = {} /\ Attached' = {}
  BY <1>1, <1>2, <1>3 DEF Attached, Holding
<1>6. RegisterInv'
  BY <1>1, <1>3 DEF RegisterInv, Holding, Registrations, Name
<1>7. TableInv' /\ ProviderInv'
  BY <1>1, <1>2, <1>3, <1>5 DEF MetricsInv, TableInv, ProviderInv, Holding, Registrations, Name
<1>8. QED
  BY <1>4, <1>6, <1>7 DEF MetricsInv

\* A Register that ends in failure has changed nothing.
LEMMA FailedRegister ==
  ASSUME MetricsInv, NEW u \in Users, pc[u] \in {"create", "attach"}, Return(u),
         UNCHANGED <<closed, registrations, released, callbacks, collecting, toRun>>
  PROVE  MetricsInv'
<1>1. /\ mu = u /\ mu' = NoUser
      /\ pc' = [pc EXCEPT ![u] = "idle"]
  BY DEF Return, Goto, MetricsInv, HolderInv, Holding
<1>2. \A w \in Users : pc'[w] \notin Holding
  BY <1>1 DEF MetricsInv, HolderInv, Holding
<1>3. HolderInv'
  BY <1>1, <1>2, SourcesAssumption DEF MetricsInv, HolderInv, Holding
<1>4. Attached = {} /\ Attached' = {}
  BY <1>1, <1>2, AttachedOfHolder DEF MetricsInv, Attached, Holding
<1>5. RegisterInv' /\ TableInv' /\ ProviderInv'
  BY <1>2, <1>4 DEF MetricsInv, RegisterInv, TableInv, ProviderInv, Holding, Registrations, Name
<1>6. QED
  BY <1>3, <1>5 DEF MetricsInv

LEMMA CreateInstrumentsStep ==
  ASSUME MetricsInv, NEW u \in Users, CreateInstruments(u)
  PROVE  MetricsInv'
<1>1. pc[u] = "create" /\ UNCHANGED <<closed, registrations, released, callbacks, collecting, toRun>>
  BY DEF CreateInstruments, CallProvider
<1>2. CASE Return(u)
  BY <1>1, <1>2, FailedRegister
<1>3. CASE Goto(u, "attach") /\ UNCHANGED <<mu, registration>>
  <2>1. mu = u /\ \A w \in Users : w # u => pc'[w] = pc[w] /\ pc'[w] \notin Holding
    BY <1>1, <1>3 DEF MetricsInv, HolderInv, Goto, Holding
  <2>2. HolderInv'
    BY <1>1, <1>3, <2>1 DEF MetricsInv, HolderInv, Goto, Holding
  <2>3. Attached = {} /\ Attached' = {}
    BY <1>1, <1>3, <2>1 DEF MetricsInv, HolderInv, Goto, Attached, Holding
  <2>4. pc'[u] = "attach"
    BY <1>3 DEF MetricsInv, HolderInv, Goto
  <2>5. RegisterInv' /\ TableInv' /\ ProviderInv'
    BY <1>1, <1>3, <2>1, <2>3, <2>4
       DEF MetricsInv, RegisterInv, TableInv, ProviderInv, Holding, Registrations, Name
  <2>6. QED
    BY <2>2, <2>5 DEF MetricsInv
<1>4. QED
  BY <1>2, <1>3 DEF CreateInstruments

LEMMA AttachStep ==
  ASSUME MetricsInv, NEW u \in Users, Attach(u)
  PROVE  MetricsInv'
<1>1. /\ pc[u] = "attach" /\ ~collecting
      /\ UNCHANGED <<closed, registrations, released, collecting, toRun>>
  BY DEF Attach, CallProvider
<1>2. CASE Return(u) /\ UNCHANGED callbacks
  BY <1>1, <1>2, FailedRegister
<1>3. CASE /\ Goto(u, "record")
           /\ callbacks' = callbacks \union {registration}
           /\ UNCHANGED <<mu, registration>>
  <2>1. mu = u /\ \A w \in Users : w # u => pc'[w] = pc[w] /\ pc'[w] \notin Holding
    BY <1>1, <1>3 DEF MetricsInv, HolderInv, Goto, Holding
  <2>2. HolderInv'
    BY <1>1, <1>3, <2>1 DEF MetricsInv, HolderInv, Goto, Holding
  <2>3. Attached = {} /\ Attached' = {registration}
    <3>1. pc'[u] = "record"
      BY <1>3 DEF MetricsInv, HolderInv, Goto
    <3>2. QED
      BY <1>1, <1>3, <2>1, <3>1 DEF Attached, Holding
  <2>4. ~closed
    BY <1>1 DEF MetricsInv, RegisterInv
  <2>5. RegisterInv' /\ TableInv'
    BY <1>1, <1>3, <2>1
       DEF MetricsInv, RegisterInv, TableInv, Holding, Registrations, Name
  <2>6. callbacks' = Range(registrations') \union Attached'
    BY <1>1, <1>3, <2>3 DEF MetricsInv, ProviderInv
  <2>7. ProviderInv'
    BY <1>1, <1>3, <2>1, <2>4, <2>6, <2>3 DEF MetricsInv, ProviderInv, Holding, Goto, HolderInv
  <2>8. QED
    BY <2>2, <2>5, <2>7 DEF MetricsInv
<1>4. QED
  BY <1>2, <1>3 DEF Attach

LEMMA RecordStep ==
  ASSUME MetricsInv, NEW u \in Users, Record(u)
  PROVE  MetricsInv'
<1> DEFINE name == Name(registration)
<1>1. /\ pc[u] = "record" /\ mu = u /\ mu' = NoUser
      /\ pc' = [pc EXCEPT ![u] = "idle"]
      /\ registrations' = [n \in DOMAIN registrations \union {name} |->
                            IF n = name THEN registration ELSE registrations[n]]
      /\ UNCHANGED <<closed, released, callbacks, collecting, toRun>>
  BY DEF Record, Return, Goto, MetricsInv, HolderInv, Holding, provider
<1>2. \A w \in Users : pc'[w] \notin Holding
  BY <1>1 DEF MetricsInv, HolderInv, Holding
<1>3. HolderInv'
  BY <1>1, <1>2, SourcesAssumption DEF MetricsInv, HolderInv, Holding
<1>4. Attached = {registration} /\ Attached' = {}
  BY <1>1, <1>2, AttachedOfHolder DEF MetricsInv, Attached, Holding
<1>5. /\ registration \in Registrations /\ ~closed /\ name \notin DOMAIN registrations
  BY <1>1 DEF MetricsInv, RegisterInv
<1> HIDE DEF name
<1>6. TableInv'
  BY <1>5, <1>1 DEF MetricsInv, TableInv, Registrations, Name, name
<1>7. Range(registrations') = Range(registrations) \union {registration}
  BY <1>5, <1>1 DEF Range
<1>8. RegisterInv' /\ ProviderInv'
  BY <1>1, <1>2, <1>4, <1>7 DEF MetricsInv, RegisterInv, ProviderInv, Holding
<1>9. QED
  BY <1>3, <1>6, <1>8 DEF MetricsInv

LEMMA CloseStep ==
  ASSUME MetricsInv, NEW u \in Users, Close(u)
  PROVE  MetricsInv'
<1>1. /\ pc[u] = "unregister" /\ mu = NoUser /\ mu' = u
      /\ pc' = [pc EXCEPT ![u] = "detach"] /\ closed' = TRUE
      /\ UNCHANGED <<registrations, released, callbacks, collecting, toRun, registration>>
  BY DEF Close, Lock, Goto, provider
<1>2. \A w \in Users : pc[w] \notin Holding
  BY <1>1, SourcesAssumption DEF MetricsInv, HolderInv
<1>3. /\ pc'[u] = "detach"
      /\ \A w \in Users : w # u => pc'[w] = pc[w] /\ pc'[w] \notin Holding
  BY <1>1, <1>2 DEF MetricsInv, HolderInv
<1>4. HolderInv'
  BY <1>1, <1>2, <1>3 DEF MetricsInv, HolderInv, Holding
<1>5. Attached = {} /\ Attached' = {}
  BY <1>2, <1>3 DEF Attached, Holding
<1>6. RegisterInv' /\ TableInv' /\ ProviderInv'
  BY <1>1, <1>3, <1>5 DEF MetricsInv, RegisterInv, TableInv, ProviderInv, Holding, Registrations, Name
<1>7. QED
  BY <1>4, <1>6 DEF MetricsInv

\* What a registration leaves when it goes: those of other names are others.
LEMMA DetachStep ==
  ASSUME MetricsInv, NEW u \in Users, NEW name \in DOMAIN registrations, Detach(u, name)
  PROVE  MetricsInv'
<1>1. /\ pc[u] = "detach" /\ ~collecting
      /\ UNCHANGED <<mu, closed, released, collecting, toRun, pc, registration>>
  BY DEF Detach, CallProvider
<1>2. HolderInv' /\ RegisterInv' /\ closed
  BY <1>1 DEF MetricsInv, HolderInv, RegisterInv, ProviderInv, Detach, Registrations, Name, Restrict, Holding
<1>3. Attached = {} /\ Attached' = {}
  BY <1>1, AttachedOfHolder DEF MetricsInv, HolderInv, Holding, Attached
<1>4. CASE UNCHANGED <<callbacks, registrations>>
  BY <1>1, <1>2, <1>3, <1>4 DEF MetricsInv, TableInv, ProviderInv, Registrations, Name
<1>5. CASE /\ callbacks' = callbacks \ {registrations[name]}
           /\ registrations' = Restrict(registrations, DOMAIN registrations \ {name})
  <2>1. registrations' = [n \in DOMAIN registrations \ {name} |-> registrations[n]]
    BY <1>5 DEF Restrict
  <2>2. TableInv'
    BY <2>1 DEF MetricsInv, TableInv, Registrations, Name
  <2>3. \A n \in DOMAIN registrations \ {name} : registrations[n] # registrations[name]
    BY DEF MetricsInv, TableInv
  <2>4. Range(registrations') = Range(registrations) \ {registrations[name]}
    BY <2>1, <2>3 DEF Range
  <2>5. toRun = {}
    BY <1>1 DEF MetricsInv, ProviderInv
  <2>6. ProviderInv'
    BY <1>1, <1>2, <1>3, <1>5, <2>4, <2>5 DEF MetricsInv, ProviderInv
  <2>7. QED
    BY <1>2, <2>2, <2>6 DEF MetricsInv
<1>6. QED
  BY <1>4, <1>5 DEF Detach

LEMMA ReturnDetachedStep ==
  ASSUME MetricsInv, NEW u \in Users, ReturnDetached(u)
  PROVE  MetricsInv'
<1>1. /\ pc[u] = "detach" /\ mu = u /\ mu' = NoUser
      /\ pc' = [pc EXCEPT ![u] = "idle"]
      /\ released' = (registrations = NoRegistrations)
      /\ UNCHANGED <<closed, registrations, callbacks, collecting, toRun>>
  BY DEF ReturnDetached, Return, Goto, MetricsInv, HolderInv, Holding, provider
<1>2. \A w \in Users : pc'[w] \notin Holding
  BY <1>1 DEF MetricsInv, HolderInv, Holding
<1>3. HolderInv'
  BY <1>1, <1>2, SourcesAssumption DEF MetricsInv, HolderInv, Holding
<1>4. Attached = {} /\ Attached' = {}
  BY <1>1, <1>2, AttachedOfHolder DEF MetricsInv, Attached, Holding
<1>5. closed /\ (registrations = NoRegistrations => callbacks = {})
  BY <1>1, <1>4 DEF MetricsInv, ProviderInv, NoRegistrations, Range
<1>6. RegisterInv' /\ TableInv' /\ ProviderInv'
  BY <1>1, <1>2, <1>4, <1>5
     DEF MetricsInv, RegisterInv, TableInv, ProviderInv, Holding, Registrations, Name
<1>7. QED
  BY <1>3, <1>6 DEF MetricsInv

\* A collection changes nothing but what it has still to run.
LEMMA CollectionSteps ==
  ASSUME MetricsInv, BeginCollect \/ Collect
  PROVE  MetricsInv'
<1>1. UNCHANGED <<metricsVars, callbacks, users>>
  BY DEF BeginCollect, Collect, EndCollect, RunCallback
<1>2. HolderInv' /\ RegisterInv' /\ TableInv'
  BY <1>1 DEF MetricsInv, HolderInv, RegisterInv, TableInv, metricsVars, users, Registrations, Name
<1>3. Attached' = Attached
  BY <1>1 DEF Attached, users
<1>4. toRun' \subseteq callbacks /\ (~collecting' => toRun' = {})
  BY DEF MetricsInv, ProviderInv, BeginCollect, Collect, EndCollect, RunCallback
<1>5. ProviderInv'
  BY <1>1, <1>3, <1>4 DEF MetricsInv, ProviderInv, metricsVars, users
<1>6. QED
  BY <1>2, <1>5 DEF MetricsInv

\* The adapter and the provider agree in every reachable state.
THEOREM MetricsInvHolds == Spec => []MetricsInv
<1>1. MetricsInv /\ [Next]_vars => MetricsInv'
  <2> SUFFICES ASSUME MetricsInv, [Next]_vars
               PROVE  MetricsInv'
    OBVIOUS
  <2>1. ASSUME NEW u \in Users, Call(u, "register") \/ Call(u, "unregister") \/ Proceed(u)
        PROVE  MetricsInv'
    BY <2>1, IdleSteps, RegisterSteps, CreateInstrumentsStep, AttachStep, RecordStep, CloseStep,
       DetachStep, ReturnDetachedStep DEF Proceed
  <2>2. CASE BeginCollect \/ Collect
    BY <2>2, CollectionSteps
  <2>3. CASE UNCHANGED vars
    BY <2>3 DEF vars, metricsVars, provider, users, MetricsInv, HolderInv, RegisterInv, TableInv,
                ProviderInv, Attached, Registrations, Name
  <2>4. QED
    BY <2>1, <2>2, <2>3 DEF Next
<1>2. QED
  BY <1>1, MetricsInvInitially, PTL DEF Spec

\* CallbacksAreRegistered, for any number of goroutines and caches: whatever fails
\* and whoever races, what the provider calls is what Metrics has registered, and
\* once an Unregister has left nothing, nothing is registered again.
THEOREM CallbacksAreRegisteredHolds == Spec => []CallbacksAreRegistered
<1>1. MetricsInv => CallbacksAreRegistered
  <2> SUFFICES ASSUME MetricsInv PROVE CallbacksAreRegistered
    OBVIOUS
  <2>1. Range(registrations) \subseteq Registrations
    BY DEF MetricsInv, TableInv, Range
  <2>2. Attached \subseteq Registrations
    BY DEF MetricsInv, RegisterInv, Attached
  <2>3. QED
    BY <2>1, <2>2 DEF MetricsInv, HolderInv, TableInv, ProviderInv, Attached, CallbacksAreRegistered
<1>2. QED
  BY <1>1, MetricsInvHolds, PTL
-------------------------------------------------------------------------------
(***************************************************************************)
(* What the callbacks report.                                              *)
(***************************************************************************)

ResultAttributes == {lookupResultAttribute, loadResultAttribute, removalOperationAttribute}

\* o has one attribute of Metrics.
Reports(o, instrument, key) ==
  /\ o = [instrument |-> o.instrument, extra |-> o.extra]
  /\ o.instrument = instrument
  /\ o.extra = [k \in DOMAIN o.extra |-> o.extra[k]]
  /\ DOMAIN o.extra = {key}

\* An observation with a result has that attribute and no other.
LEMMA ObservedFacts ==
  ASSUME NEW instrument, NEW key, NEW values
  PROVE  \A o \in Observed(instrument, key, values) : Reports(o, instrument, key)
BY DEF Observed, Attribute, Reports

\* Observations of one instrument differ in the value of one attribute of Metrics, if
\* at all, and that attribute is not the name of the cache.
LEMMA ObservationFacts ==
  /\ cacheNameAttribute \notin ResultAttributes
  /\ \A o \in Observations :
       /\ o = [instrument |-> o.instrument, extra |-> o.extra]
       /\ o.extra = [key \in DOMAIN o.extra |-> o.extra[key]]
       /\ DOMAIN o.extra \subseteq ResultAttributes
  /\ \A o, p \in Observations : o.instrument = p.instrument => DOMAIN o.extra = DOMAIN p.extra
<1> DEFINE plain == {[instrument |-> i, extra |-> NoAttributes] : i \in PlainInstruments}
           lookups == Observed("lookup.count", lookupResultAttribute, {"hit", "miss"})
           loads == Observed("load.count", loadResultAttribute, {"found", "not_found", "error"})
           removals == Observed("entry.removed.count", removalOperationAttribute, {"delete", "clear"})
<1>1. \A o \in plain : /\ o = [instrument |-> o.instrument, extra |-> o.extra]
                       /\ o.instrument \in PlainInstruments
                       /\ o.extra = [key \in DOMAIN o.extra |-> o.extra[key]]
                       /\ DOMAIN o.extra = {}
  BY DEF NoAttributes
<1>2. /\ \A o \in lookups : Reports(o, "lookup.count", lookupResultAttribute)
      /\ \A o \in loads : Reports(o, "load.count", loadResultAttribute)
      /\ \A o \in removals : Reports(o, "entry.removed.count", removalOperationAttribute)
  BY ObservedFacts
<1>3. cacheNameAttribute \notin ResultAttributes
  BY DEF ResultAttributes, cacheNameAttribute, lookupResultAttribute, loadResultAttribute,
         removalOperationAttribute
<1>4. /\ "lookup.count" \notin PlainInstruments /\ "load.count" \notin PlainInstruments
      /\ "entry.removed.count" \notin PlainInstruments
  BY DEF PlainInstruments
<1>5. Observations = plain \union lookups \union loads \union removals
  BY DEF Observations
<1> HIDE DEF plain, lookups, loads, removals
<1>6. \A o \in Observations :
        /\ o = [instrument |-> o.instrument, extra |-> o.extra]
        /\ o.extra = [key \in DOMAIN o.extra |-> o.extra[key]]
        /\ \/ o.instrument \in PlainInstruments /\ DOMAIN o.extra = {}
           \/ o.instrument = "lookup.count" /\ DOMAIN o.extra = {lookupResultAttribute}
           \/ o.instrument = "load.count" /\ DOMAIN o.extra = {loadResultAttribute}
           \/ o.instrument = "entry.removed.count" /\ DOMAIN o.extra = {removalOperationAttribute}
  BY <1>1, <1>2, <1>5 DEF Reports
<1>7. ASSUME NEW o \in Observations PROVE DOMAIN o.extra \subseteq ResultAttributes
  <2>1. \/ DOMAIN o.extra = {} \/ DOMAIN o.extra = {lookupResultAttribute}
        \/ DOMAIN o.extra = {loadResultAttribute} \/ DOMAIN o.extra = {removalOperationAttribute}
    BY <1>6
  <2> DEFINE keys == DOMAIN o.extra
  <2> HIDE DEF keys
  <2>2. keys \subseteq ResultAttributes
    BY <2>1 DEF keys, ResultAttributes
  <2>3. QED
    BY <2>2 DEF keys
<1>8. ASSUME NEW o \in Observations, NEW p \in Observations, o.instrument = p.instrument
      PROVE  DOMAIN o.extra = DOMAIN p.extra
  <2>1. o.instrument \in PlainInstruments \/ o.instrument \in {"lookup.count", "load.count", "entry.removed.count"}
    BY <1>6
  <2>2. CASE o.instrument \in PlainInstruments
    BY <1>4, <1>6, <1>8, <2>2
  <2>3. CASE o.instrument = "lookup.count"
    BY <1>4, <1>6, <1>8, <2>3
  <2>4. CASE o.instrument = "load.count"
    BY <1>4, <1>6, <1>8, <2>4
  <2>5. CASE o.instrument = "entry.removed.count"
    BY <1>4, <1>6, <1>8, <2>5
  <2>6. QED
    BY <2>1, <2>2, <2>3, <2>4, <2>5
<1>9. QED
  BY <1>3, <1>6, <1>7, <1>8

\* The values of a function on a finite set are finitely many.
LEMMA ImageFinite ==
  ASSUME NEW S, IsFiniteSet(S), NEW f
  PROVE  IsFiniteSet({f[x] : x \in S})
<1> DEFINE T == {f[x] : x \in S}
           g == [x \in S |-> f[x]]
<1>1. g \in Surjection(S, T)
  BY DEF Surjection
<1>2. QED
  BY <1>1, FS_Surjection

\* There are finitely many observations.
LEMMA ObservationsFinite == IsFiniteSet(Observations)
<1>1. ASSUME NEW x, NEW y, NEW z PROVE IsFiniteSet({x, y, z})
  <2>1. IsFiniteSet(({x} \union {y}) \union {z})
    BY FS_Singleton, FS_Union
  <2>2. QED
    BY <2>1
<1>2. IsFiniteSet(PlainInstruments)
  <2>1. /\ IsFiniteSet({"entry.count", "entry.limit", "segment.count"})
        /\ IsFiniteSet({"load.time", "load.shared.count", "load.superseded.count"})
        /\ IsFiniteSet({"cleanup.count", "cleanup.worker.run.count",
                        "cleanup.worker.pending.count"})
        /\ IsFiniteSet({"cleanup.worker.time", "entry.eviction.count", "entry.expiration.count"})
    BY <1>1
  <2>2. PlainInstruments =
          ({"entry.count", "entry.limit", "segment.count"}
            \union {"load.time", "load.shared.count", "load.superseded.count"})
            \union ({"cleanup.count", "cleanup.worker.run.count", "cleanup.worker.pending.count"}
            \union {"cleanup.worker.time", "entry.eviction.count", "entry.expiration.count"})
    BY DEF PlainInstruments
  <2>3. QED
    BY <2>1, <2>2, FS_Union
<1>3. IsFiniteSet({[instrument |-> i, extra |-> NoAttributes] : i \in PlainInstruments})
  <2> DEFINE f == [i \in PlainInstruments |-> [instrument |-> i, extra |-> NoAttributes]]
  <2>1. IsFiniteSet({f[i] : i \in PlainInstruments})
    <3> HIDE DEF f
    <3>1. QED
      BY <1>2, ImageFinite
  <2>2. {f[i] : i \in PlainInstruments}
          = {[instrument |-> i, extra |-> NoAttributes] : i \in PlainInstruments}
    OBVIOUS
  <2>3. QED
    BY <2>1, <2>2
<1>4. ASSUME NEW instrument, NEW key, NEW values, IsFiniteSet(values)
      PROVE  IsFiniteSet(Observed(instrument, key, values))
  <2> DEFINE f == [v \in values |-> [instrument |-> instrument, extra |-> Attribute(key, v)]]
  <2>1. IsFiniteSet({f[v] : v \in values})
    <3> HIDE DEF f
    <3>1. QED
      BY <1>4, ImageFinite
  <2>2. Observed(instrument, key, values) = {f[v] : v \in values}
    BY DEF Observed
  <2>3. QED
    BY <2>1, <2>2
<1>5. /\ IsFiniteSet({"hit", "miss"})
      /\ IsFiniteSet({"found", "not_found", "error"})
      /\ IsFiniteSet({"delete", "clear"})
  <2>1. {"hit", "miss"} = {"hit", "miss", "miss"} /\ {"delete", "clear"} = {"delete", "clear", "clear"}
    OBVIOUS
  <2>2. QED
    BY <1>1, <2>1
<1>6. /\ IsFiniteSet(Observed("lookup.count", lookupResultAttribute, {"hit", "miss"}))
      /\ IsFiniteSet(Observed("load.count", loadResultAttribute, {"found", "not_found", "error"}))
      /\ IsFiniteSet(Observed("entry.removed.count", removalOperationAttribute, {"delete", "clear"}))
  BY <1>4, <1>5
<1>7. QED
  BY <1>3, <1>6, FS_Union DEF Observations

\* What is in the set of attributes of an observation: what Metrics adds to it, then
\* the name of the cache, then what the caller gave.
LEMMA AttributeFacts ==
  ASSUME NEW r, NEW extra, DOMAIN extra \subseteq ResultAttributes
  PROVE  /\ \A key \in DOMAIN extra : Attributes(r, extra)[key] = extra[key]
         /\ DOMAIN extra \subseteq DOMAIN Attributes(r, extra)
         /\ Name(r) # Unnamed =>
              /\ cacheNameAttribute \in DOMAIN Attributes(r, extra)
              /\ Attributes(r, extra)[cacheNameAttribute] = Name(r)
         /\ Name(r) = Unnamed /\ cacheNameAttribute \in DOMAIN Attributes(r, extra) =>
              cacheNameAttribute \in DOMAIN r.attributes
<1> DEFINE name == NameAttribute(Name(r))
           named == Then(name, extra)
<1>1. cacheNameAttribute \notin DOMAIN extra
  BY ObservationFacts
<1>2. /\ DOMAIN named = DOMAIN name \union DOMAIN extra
      /\ \A key \in DOMAIN extra : named[key] = extra[key]
      /\ \A key \in DOMAIN name \ DOMAIN extra : named[key] = name[key]
  BY DEF Then
<1>3. /\ Name(r) # Unnamed => DOMAIN name = {cacheNameAttribute} /\ name[cacheNameAttribute] = Name(r)
      /\ Name(r) = Unnamed => DOMAIN name = {}
  BY DEF NameAttribute, Attribute, NoAttributes
<1> HIDE DEF name, named
<1>4. /\ DOMAIN Attributes(r, extra) = DOMAIN r.attributes \union DOMAIN named
      /\ \A key \in DOMAIN named : Attributes(r, extra)[key] = named[key]
  BY DEF Attributes, Then, named, name
<1>5. QED
  BY <1>1, <1>2, <1>3, <1>4

\* The observations of one callback are series of their own.
LEMMA OwnSeries ==
  ASSUME NEW r, NEW o \in Observations, NEW p \in Observations, Series(r, o) = Series(r, p)
  PROVE  o = p
<1>1. o.instrument = p.instrument /\ Attributes(r, o.extra) = Attributes(r, p.extra)
  BY DEF Series
<1>2. /\ DOMAIN o.extra = DOMAIN p.extra
      /\ DOMAIN o.extra \subseteq ResultAttributes /\ DOMAIN p.extra \subseteq ResultAttributes
      /\ o.extra = [key \in DOMAIN o.extra |-> o.extra[key]]
      /\ p.extra = [key \in DOMAIN p.extra |-> p.extra[key]]
      /\ o = [instrument |-> o.instrument, extra |-> o.extra]
      /\ p = [instrument |-> p.instrument, extra |-> p.extra]
  BY <1>1, ObservationFacts
<1>3. \A key \in DOMAIN o.extra : o.extra[key] = p.extra[key]
  BY <1>1, <1>2, AttributeFacts
<1>4. o.extra = p.extra
  BY <1>2, <1>3
<1>5. QED
  BY <1>1, <1>2, <1>4

\* A series tells the name of its cache, unless the caller gave an unnamed one a name.
LEMMA SeriesOfOthers ==
  ASSUME NEW r, NEW q, Name(r) # Name(q), NEW o \in Observations, NEW p \in Observations,
         Series(r, o) = Series(q, p)
  PROVE  Impersonates(r) \/ Impersonates(q)
<1>1. Attributes(r, o.extra) = Attributes(q, p.extra)
  BY DEF Series
<1>2. DOMAIN o.extra \subseteq ResultAttributes /\ DOMAIN p.extra \subseteq ResultAttributes
  BY ObservationFacts
<1>3. CASE Name(r) # Unnamed /\ Name(q) # Unnamed
  BY <1>1, <1>2, <1>3, AttributeFacts
<1>4. CASE Name(r) = Unnamed
  BY <1>1, <1>2, <1>4, AttributeFacts DEF Impersonates
<1>5. CASE Name(q) = Unnamed
  BY <1>1, <1>2, <1>5, AttributeFacts DEF Impersonates
<1>6. QED
  BY <1>3, <1>4, <1>5

\* Two callbacks are of caches with different names.
LEMMA NamesDiffer ==
  ASSUME MetricsInv, NEW r \in callbacks, NEW q \in callbacks, r # q
  PROVE  Name(r) # Name(q)
<1>1. \A c \in callbacks : \/ \E name \in DOMAIN registrations : c = registrations[name] /\ Name(c) = name
                           \/ c = registration /\ Name(c) \notin DOMAIN registrations
  BY DEF MetricsInv, ProviderInv, TableInv, RegisterInv, Attached, Range
<1>2. QED
  BY <1>1

\* SeriesDistinct, for any caches, names and attributes: newMetricAttributes gives
\* what identifies a cache and a result precedence over what the caller gave, and
\* Register accepts a name once.
THEOREM SeriesDistinctHolds == Spec => []SeriesDistinct
<1>1. MetricsInv => SeriesDistinct
  <2> SUFFICES ASSUME MetricsInv PROVE SeriesDistinct
    OBVIOUS
  <2>1. ASSUME NEW r \in callbacks PROVE Cardinality(SeriesOf(r)) = Cardinality(Observations)
    <3> DEFINE f == [o \in Observations |-> Series(r, o)]
    <3>1. f \in Surjection(Observations, SeriesOf(r))
      BY DEF SeriesOf, Surjection
    <3>2. f \in Injection(Observations, SeriesOf(r))
      BY OwnSeries DEF SeriesOf, Injection, IsInjective
    <3>3. QED
      BY <3>1, <3>2, ObservationsFinite, FS_Surjection
  <2>2. ASSUME NEW r \in callbacks, NEW q \in callbacks, r # q,
               SeriesOf(r) \intersect SeriesOf(q) # {}
        PROVE  Impersonates(r) \/ Impersonates(q)
    <3>1. PICK o \in Observations, p \in Observations : Series(r, o) = Series(q, p)
      BY <2>2 DEF SeriesOf
    <3>2. QED
      BY <2>2, <3>1, NamesDiffer, SeriesOfOthers
  <2>3. QED
    BY <2>1, <2>2 DEF SeriesDistinct
<1>2. QED
  BY <1>1, MetricsInvHolds, PTL
===============================================================================
