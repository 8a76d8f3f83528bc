-------------------------------- MODULE Options --------------------------------
(***************************************************************************)
(* How the options given to New and NewWithLoader become the settings a    *)
(* cache is built with (options.go, newCache), and how newStorage divides  *)
(* the entry budget among the segments (storage.go).                       *)
(*                                                                         *)
(* Options are applied in the order they are given, any of them any number *)
(* of times.  An option that does not accept its argument leaves the       *)
(* settings as they are.  The name of a cache is left out.                 *)
(***************************************************************************)
EXTENDS Deadlines, Functions

CONSTANTS
  Sizes,     \* the arguments each option that takes a number may be given
  TTLArguments, JitterArguments,
  defaultMaxEntries, defaultCleanupInterval,
  defaultCleanupBatchSize, defaultCleanupEntryBudget

NumericFields == {"maxEntries", "segmentCount", "cleanupInterval", "cleanupBatchSize",
                  "cleanupEntryBudget"}

ASSUME DefaultsAssumption ==
  {defaultMaxEntries, defaultCleanupInterval, defaultCleanupBatchSize,
   defaultCleanupEntryBudget} \subseteq Nat \ {0}

ASSUME ArgumentsAssumption ==
  /\ Sizes \in [NumericFields -> SUBSET Int]
  /\ TTLArguments \subseteq Durations
  /\ JitterArguments \subseteq Durations

defaultStorageSegmentCount == 1
defaultTTL == NoExpiration

VARIABLES
  settings,
  built      \* whether newCache has built a cache with them

optionVars == <<settings, built>>

Settings ==
  [maxEntries : Nat \ {0}, segmentCount : Nat \ {0}, cleanupInterval : Nat \ {0},
   cleanupBatchSize : Nat \ {0}, cleanupEntryBudget : Nat \ {0},
   ttl : {NoExpiration} \union 1..MaxDuration, jitter : 0..MaxDuration,
   slidingExpiration : BOOLEAN]

defaultSettings ==
  [maxEntries |-> defaultMaxEntries,
   segmentCount |-> defaultStorageSegmentCount,
   cleanupInterval |-> defaultCleanupInterval,
   cleanupBatchSize |-> defaultCleanupBatchSize,
   cleanupEntryBudget |-> defaultCleanupEntryBudget,
   ttl |-> defaultTTL,
   jitter |-> 0,
   slidingExpiration |-> FALSE]

OptionsInit ==
  /\ settings = defaultSettings
  /\ built = FALSE
-------------------------------------------------------------------------------
\* An option that accepts its argument sets its field.
Apply(accepted, field, value) ==
  /\ ~built
  /\ settings' = IF accepted THEN [settings EXCEPT ![field] = value] ELSE settings
  /\ UNCHANGED built

\* WithMaxEntries, WithSegmentCount, WithCleanupInterval, WithCleanupBatchSize and
\* WithCleanupEntryBudget.
WithSize(field, n) == Apply(n > 0, field, n)

WithTTL(ttl) == Apply(ttl = NoExpiration \/ ttl > 0, "ttl", ttl)

WithJitter(jitter) == Apply(jitter >= 0, "jitter", jitter)

WithSlidingExpiration == Apply(TRUE, "slidingExpiration", TRUE)

\* No segment is left without an entry.
Clamped(given) ==
  [given EXCEPT !.segmentCount = AtMost(given.maxEntries, given.segmentCount)]

\* The end of newSettings, and newCache.
Build ==
  /\ ~built
  /\ built' = TRUE
  /\ settings' = Clamped(settings)

Configure ==
  \/ \E field \in NumericFields : \E n \in Sizes[field] : WithSize(field, n)
  \/ \E ttl \in TTLArguments : WithTTL(ttl)
  \/ \E jitter \in JitterArguments : WithJitter(jitter)
  \/ WithSlidingExpiration

OptionsNext == Configure \/ Build

OptionsSpec == OptionsInit /\ [][OptionsNext]_optionVars
-------------------------------------------------------------------------------
(***************************************************************************)
(* The cache that is built.                                                *)
(***************************************************************************)
SegmentIndexes == 0..(settings.segmentCount - 1)

\* Faulty variant of SegmentCapacity: one segment too many takes one more.
SegmentCapacityTooLarge(s) ==
  settings.maxEntries \div settings.segmentCount
    + (IF s <= settings.maxEntries % settings.segmentCount THEN 1 ELSE 0)

\* The first segments take one more entry each until the remainder is used up.
SegmentCapacity(s) ==
  settings.maxEntries \div settings.segmentCount
    + (IF s < settings.maxEntries % settings.segmentCount THEN 1 ELSE 0)

\* What Set and GetOrSet ask for with an expiration argument.
Requested(expiration) ==
  IF expiration = DefaultExpiration THEN settings.ttl ELSE expiration

\* The lifetime of a stored entry: none if none was asked for, and otherwise one
\* that the jitter has lengthened at most up to the longest duration.
TTLServes(expiration) ==
  \A ttl \in EffectiveTTLs(expiration, settings.ttl, settings.jitter) :
    IF Requested(expiration) <= 0 THEN ttl = 0
                                  ELSE ttl \in Requested(expiration)..MaxDuration

\* Whatever options are given, in whatever order, the cache that newCache builds
\* can work: no segment is without a place for an entry, together they have room for
\* as many as the budget says and no more, cleanup makes progress, and no entry
\* expires earlier than it was asked to, or never because TTL plus jitter has wrapped.
SettingsServe ==
  /\ settings \in Settings
  /\ built => /\ \A s \in SegmentIndexes : SegmentCapacity(s) >= 1
              /\ SumFunction([s \in SegmentIndexes |-> SegmentCapacity(s)]) = settings.maxEntries
  /\ \A expiration \in Durations : TTLServes(expiration)
===============================================================================
