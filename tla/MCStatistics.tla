------------------------------ MODULE MCStatistics ------------------------------
(***************************************************************************)
(* An instance of Statistics for TLC: arguments on both sides of what each *)
(* option accepts, and jitter that reaches the end of the clock.           *)
(***************************************************************************)
EXTENDS Statistics, TLC

SomeSizes ==
  [maxEntries |-> {0, 2, 3}, segmentCount |-> {0, 2}, cleanupInterval |-> {0},
   cleanupBatchSize |-> {0}, cleanupEntryBudget |-> {0}]
SomeTTLs == {-2, 0, 3}
SomeJitters == {-1, 4}

\* Two entries in one segment or in two, so that three insertions could overfill the
\* cache.  Three entries in two segments are only built.
TwoEntries ==
  {[defaultSettings EXCEPT !.maxEntries = 2, !.segmentCount = n] : n \in {1, 2}}

Alike == Permutations(Workers)
===============================================================================
