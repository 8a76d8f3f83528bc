---------------------------- MODULE MCCoordination ----------------------------
(***************************************************************************)
(* Instances of Coordination for TLC: shapes of small caches.              *)
(***************************************************************************)
EXTENDS CoordinationInvariant, TLC

CONSTANTS k1, k2

\* All keys in one segment, and one segment per key.
OneSegment == [k \in Keys |-> 0]
TwoSegments == [k \in Keys |-> IF k = k1 THEN 0 ELSE 1]

OneEntry == [s \in Segments |-> 1]

Alike == Permutations(Callers) \union Permutations(Keys)
===============================================================================
