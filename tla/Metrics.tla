-------------------------------- MODULE Metrics --------------------------------
(***************************************************************************)
(* The OpenTelemetry adapter (extra/paceotel): goroutines register caches  *)
(* and unregister them all, while the meter provider collects.             *)
(*                                                                         *)
(* Register and Unregister hold Metrics.mu while they call the provider.   *)
(* The provider has a lock of its own, which a collection holds while it   *)
(* runs the callbacks; a callback reads the statistics of its cache and    *)
(* reports them as series, each an instrument with a set of attributes.    *)
(*                                                                         *)
(* The provider is external: creating the instruments, registering a       *)
(* callback and unregistering it may each fail, and then change nothing    *)
(* that is seen here.                                                      *)
(***************************************************************************)
EXTENDS Functions, FiniteSets

CONSTANTS
  Users,         \* goroutines that call Register and Unregister
  Sources,       \* the caches
  NameOf,        \* Source.Name of each
  AttributeSets, \* the attributes a caller may add: functions from keys to values
  NoUser, NoSource

Unnamed == ""

cacheNameAttribute == "pacecache.name"
lookupResultAttribute == "pacecache.lookup.result"
loadResultAttribute == "pacecache.load.result"
removalOperationAttribute == "pacecache.removal.operation"

ASSUME SourcesAssumption ==
  /\ NameOf \in [Sources -> STRING]
  /\ \A attributes \in AttributeSets :
       DOMAIN attributes \subseteq STRING /\ Range(attributes) \subseteq STRING
  /\ NoUser \notin Users
  /\ NoSource \notin Sources

VARIABLES
  mu,            \* the goroutine that holds Metrics.mu, or NoUser
  closed,
  instruments,   \* whether Metrics has its instruments
  registrations, \* Metrics.registrations: for each name, what is registered
  released,      \* whether the map is nil
  callbacks,     \* what the provider has registered
  collecting,    \* whether a collection holds the provider's lock
  toRun,         \* the callbacks it has not run yet
  pc,
  registration,  \* what the Register that holds mu was given
  todo           \* the names that the Unregister that holds mu has not tried yet

metricsVars == <<mu, closed, instruments, registrations, released>>
provider == <<callbacks, collecting, toRun>>
users == <<pc, registration, todo>>

vars == <<metricsVars, provider, users>>

Registrations == [source : Sources, attributes : AttributeSets]

NoRegistrations == [name \in {} |-> NoSource]
NoAttributes == [key \in {} |-> Unnamed]

NoRegistration == [source |-> NoSource, attributes |-> NoAttributes]

Name(r) == NameOf[r.source]

Init ==
  /\ mu = NoUser
  /\ closed = FALSE
  /\ instruments = FALSE
  /\ registrations = NoRegistrations
  /\ released = FALSE
  /\ callbacks = {}
  /\ collecting = FALSE
  /\ toRun = {}
  /\ pc = [u \in Users |-> "idle"]
  /\ registration = NoRegistration
  /\ todo = {}
-------------------------------------------------------------------------------
Goto(u, phase) == pc' = [pc EXCEPT ![u] = phase]

Lock(u) == mu = NoUser /\ mu' = u

\* The unlock that ends a call.
Return(u) ==
  /\ Goto(u, "idle")
  /\ mu' = NoUser
  /\ registration' = NoRegistration

\* A call of the provider waits for the end of a collection.
CallProvider(u, phase) ==
  /\ pc[u] = phase
  /\ ~collecting
  /\ UNCHANGED <<collecting, toRun>>

Call(u, operation) ==
  /\ pc[u] = "idle"
  /\ Goto(u, operation)
  /\ UNCHANGED <<metricsVars, provider, registration, todo>>
-------------------------------------------------------------------------------
(***************************************************************************)
(* Register.  Its argument matters, and is chosen, once it has the lock.   *)
(***************************************************************************)
Known(r) == Name(r) \in DOMAIN registrations

Reject(u) ==
  /\ pc[u] = "register"
  /\ mu = NoUser
  /\ \E r \in Registrations : closed \/ Known(r)
  /\ Goto(u, "idle")
  /\ UNCHANGED <<metricsVars, provider, registration, todo>>

\* Faulty variant of Register: it does not ask whether Metrics is closed.
RegisterUnchecked(u, r) ==
  /\ pc[u] = "register"
  /\ ~Known(r)
  /\ Lock(u)
  /\ registration' = r
  /\ Goto(u, IF instruments THEN "attach" ELSE "create")
  /\ UNCHANGED <<closed, instruments, registrations, released, provider, todo>>

Register(u, r) ==
  /\ pc[u] = "register"
  /\ ~closed
  /\ ~Known(r)
  /\ Lock(u)
  /\ registration' = r
  /\ Goto(u, IF instruments THEN "attach" ELSE "create")
  /\ UNCHANGED <<closed, instruments, registrations, released, provider, todo>>

\* newMetricInstruments: Metrics keeps all the instruments or none.
CreateInstruments(u) ==
  /\ CallProvider(u, "create")
  /\ \/ Goto(u, "attach") /\ instruments' = TRUE /\ UNCHANGED <<mu, registration>>
     \/ Return(u) /\ UNCHANGED instruments
  /\ UNCHANGED <<closed, registrations, released, callbacks, todo>>

\* registerCallback.
Attach(u) ==
  /\ CallProvider(u, "attach")
  /\ \/ /\ Goto(u, "record")
        /\ callbacks' = callbacks \union {registration}
        /\ UNCHANGED <<mu, registration>>
     \/ Return(u) /\ UNCHANGED callbacks
  /\ UNCHANGED <<closed, instruments, registrations, released, todo>>

Record(u) ==
  /\ pc[u] = "record"
  /\ registrations' =
       [name \in DOMAIN registrations \union {Name(registration)} |->
          IF name = Name(registration) THEN registration ELSE registrations[name]]
  /\ Return(u)
  /\ UNCHANGED <<closed, instruments, released, provider, todo>>
-------------------------------------------------------------------------------
(***************************************************************************)
(* Unregister.                                                             *)
(***************************************************************************)
Close(u) ==
  /\ pc[u] = "unregister"
  /\ Lock(u)
  /\ closed' = TRUE
  /\ instruments' = FALSE
  /\ todo' = DOMAIN registrations
  /\ Goto(u, "detach")
  /\ UNCHANGED <<registrations, released, provider, registration>>

\* One turn of the loop over the map, in no particular order.  A registration
\* that fails to unregister stays, for a later call.
Detach(u, name) ==
  /\ CallProvider(u, "detach")
  /\ name \in todo
  /\ todo' = todo \ {name}
  /\ \/ /\ callbacks' = callbacks \ {registrations[name]}
        /\ registrations' = Restrict(registrations, DOMAIN registrations \ {name})
     \/ UNCHANGED <<callbacks, registrations>>
  /\ UNCHANGED <<mu, closed, instruments, released, pc, registration>>

ReturnDetached(u) ==
  /\ pc[u] = "detach"
  /\ todo = {}
  /\ released' = (registrations = NoRegistrations)
  /\ Return(u)
  /\ UNCHANGED <<closed, instruments, registrations, provider, todo>>
-------------------------------------------------------------------------------
(***************************************************************************)
(* A collection.                                                           *)
(***************************************************************************)
BeginCollect ==
  /\ ~collecting
  /\ collecting' = TRUE
  /\ toRun' = callbacks
  /\ UNCHANGED <<metricsVars, callbacks, users>>

\* Faulty variant of RunCallback: the callback takes Metrics.mu.
RunCallbackLocked(r) ==
  /\ r \in toRun
  /\ mu = NoUser
  /\ toRun' = toRun \ {r}
  /\ UNCHANGED <<metricsVars, callbacks, collecting, users>>

\* The callback has its own copy of the instruments and takes no lock but those of
\* the segments of its cache.
RunCallback(r) ==
  /\ r \in toRun
  /\ toRun' = toRun \ {r}
  /\ UNCHANGED <<metricsVars, callbacks, collecting, users>>

EndCollect ==
  /\ collecting
  /\ toRun = {}
  /\ collecting' = FALSE
  /\ UNCHANGED <<metricsVars, callbacks, toRun, users>>
-------------------------------------------------------------------------------
Proceed(u) ==
  \/ Reject(u)
  \/ \E r \in Registrations : Register(u, r)
  \/ CreateInstruments(u) \/ Attach(u) \/ Record(u)
  \/ Close(u)
  \/ \E name \in DOMAIN registrations : Detach(u, name)
  \/ ReturnDetached(u)

Collect == EndCollect \/ \E r \in callbacks : RunCallback(r)

Next ==
  \/ \E u \in Users : Call(u, "register") \/ Call(u, "unregister") \/ Proceed(u)
  \/ BeginCollect
  \/ Collect

\* A goroutine that waits for a mutex gets it if the mutex is free again and
\* again; a collection that has begun ends.
Fairness == WF_vars(Collect) /\ \A u \in Users : SF_vars(Proceed(u))

Spec == Init /\ [][Next]_vars /\ Fairness
-------------------------------------------------------------------------------
(***************************************************************************)
(* What a callback reports.                                                *)
(***************************************************************************)
\* The instruments that are reported once, with the attributes of the source.
PlainInstruments ==
  {"entry.count", "entry.limit", "segment.count", "load.time", "load.shared.count",
   "load.superseded.count", "cleanup.count", "cleanup.worker.run.count",
   "cleanup.worker.pending.count", "cleanup.worker.time", "entry.eviction.count",
   "entry.expiration.count"}

Attribute(key, value) == [k \in {key} |-> value]

Observed(instrument, key, values) ==
  {[instrument |-> instrument, extra |-> Attribute(key, value)] : value \in values}

\* metricInstruments.observe.
Observations ==
  {[instrument |-> i, extra |-> NoAttributes] : i \in PlainInstruments}
    \union Observed("lookup.count", lookupResultAttribute, {"hit", "miss"})
    \union Observed("load.count", loadResultAttribute, {"found", "not_found", "error"})
    \union Observed("entry.removed.count", removalOperationAttribute, {"delete", "clear"})

NameAttribute(name) ==
  IF name = Unnamed THEN NoAttributes ELSE Attribute(cacheNameAttribute, name)

\* The attributes f and the later ones g: of two with one key the later wins.
Then(f, g) ==
  [key \in DOMAIN f \union DOMAIN g |-> IF key \in DOMAIN g THEN g[key] ELSE f[key]]

\* Faulty variant of Attributes: the caller's attributes win.
AttributesOfCaller(r, extra) == Then(extra, Then(NameAttribute(Name(r)), r.attributes))

\* newMetricAttributes
Attributes(r, extra) == Then(r.attributes, Then(NameAttribute(Name(r)), extra))

Series(r, o) == <<o.instrument, Attributes(r, o.extra)>>

SeriesOf(r) == {Series(r, o) : o \in Observations}
-------------------------------------------------------------------------------
(***************************************************************************)
(* Properties.                                                             *)
(***************************************************************************)

\* Metrics and the provider agree: what the provider calls is what Metrics has
\* registered under its name, but for the callback of a Register that has not
\* recorded it yet.  Once an Unregister has left nothing, nothing is registered
\* again, and no Register writes to the map that Unregister has dropped.
CallbacksAreRegistered ==
  /\ mu \in Users \union {NoUser}
  /\ callbacks \subseteq Registrations /\ toRun \subseteq callbacks
  /\ callbacks = Range(registrations)
                 \union IF \E u \in Users : pc[u] = "record" THEN {registration} ELSE {}
  /\ \A name \in DOMAIN registrations : Name(registrations[name]) = name
  /\ released => closed /\ callbacks = {}

\* No two observations of a collection report the same series, which would add up
\* or hide the numbers of different caches - unless the caller has given an unnamed
\* source a name in its attributes.
Impersonates(r) == Name(r) = Unnamed /\ cacheNameAttribute \in DOMAIN r.attributes

SeriesDistinct ==
  /\ \A r \in callbacks : Cardinality(SeriesOf(r)) = Cardinality(Observations)
  /\ \A r, q \in callbacks :
       r # q /\ SeriesOf(r) \intersect SeriesOf(q) # {} => Impersonates(r) \/ Impersonates(q)

\* Register and Unregister return, however often the provider collects and
\* whatever it refuses: Metrics.mu and the provider's lock are never waited for in
\* a circle.
EveryCallReturns == \A u \in Users : pc[u] # "idle" ~> pc[u] = "idle"
===============================================================================
