------------------------------- MODULE MCMetrics -------------------------------
(***************************************************************************)
(* An instance of Metrics for TLC: two caches of one name, one of another  *)
(* and one without a name, and attributes that clash with those that       *)
(* Metrics adds.                                                           *)
(***************************************************************************)
EXTENDS Metrics, TLC

CONSTANTS a1, a2, b, unnamed

Names == a1 :> "a" @@ a2 :> "a" @@ b :> "b" @@ unnamed :> Unnamed

ClashingAttributes == {NoAttributes, cacheNameAttribute :> "b" @@ lookupResultAttribute :> "hit"}
===============================================================================
