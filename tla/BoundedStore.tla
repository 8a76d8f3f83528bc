----------------------------- MODULE BoundedStore -----------------------------
(***************************************************************************)
(* What the cache expects of its store: each segment holds at most         *)
(* Capacity entries; only storing a new key in a full segment evicts, and  *)
(* it evicts one entry; whoever reads an entry may extend its deadline but *)
(* never shortens it; and whatever is removed stays removed until it is    *)
(* stored again.                                                           *)
(*                                                                         *)
(* Every write has a value of its own, so an entry whose value stays the   *)
(* same was not stored again.                                              *)
(***************************************************************************)
EXTENDS Deadlines, FiniteSets, Functions

CONSTANTS Keys, SegOf, Capacity

VARIABLES entry,  \* the resident entries: a function on the keys that have one
          clock

vars == <<entry, clock>>

InSegmentOf(k) == {j \in DOMAIN entry : SegOf[j] = SegOf[k]}

Full(k) == Cardinality(InSegmentOf(k)) >= Capacity[SegOf[k]]

\* The entries left after removing ks.
Without(ks) == Restrict(entry, DOMAIN entry \ ks)

Init ==
  /\ entry = Restrict([k \in Keys |-> 0], {})
  /\ clock = 0

\* A read or a refresh at a time that may be stale extends the deadline; one that
\* would not extend it changes nothing.
Touch(k) ==
  /\ k \in DOMAIN entry
  /\ \E t \in 0..clock :
       LET renewed == DeadlineAfter(t, entry[k].ttl)
       IN  /\ ~Expired(entry[k].deadline, t)
           /\ renewed > entry[k].deadline
           /\ entry' = [entry EXCEPT ![k].deadline = renewed]

\* A value that is stored lives for its TTL from some moment of the past.
Fresh(k) ==
  /\ k \in DOMAIN entry'
  /\ entry'[k].deadline \in {DeadlineAfter(t, entry'[k].ttl) : t \in 0..clock}
  /\ k \in DOMAIN entry => entry'[k].value # entry[k].value

Put(k) ==
  /\ Fresh(k)
  /\ \E victims \in SUBSET (InSegmentOf(k) \ {k}) :
       /\ Cardinality(victims) = IF k \notin DOMAIN entry /\ Full(k) THEN 1 ELSE 0
       /\ Restrict(entry', DOMAIN entry' \ {k}) = Without(victims \union {k})

Remove(ks) == entry' = Without(ks)

Next ==
  \/ /\ \/ \E k \in Keys : Touch(k) \/ Put(k)
        \/ \E ks \in SUBSET Keys : Remove(ks)
     /\ UNCHANGED clock
  \/ clock' = clock + 1 /\ UNCHANGED entry

Spec == Init /\ [][Next]_vars
===============================================================================
