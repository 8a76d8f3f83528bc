------------------------------ MODULE Deadlines ------------------------------
(***************************************************************************)
(* The arithmetic of expiration: how an expiration argument becomes the    *)
(* TTL an entry is stored with, how a TTL becomes a deadline, and when a   *)
(* deadline has passed.  Times are nanoseconds since the store's origin.   *)
(* A deadline of 0 means that the entry never expires.                     *)
(*                                                                         *)
(* math.MaxInt64 is the constant MaxDuration, so that the saturation at    *)
(* the end of the clock is reached on small values.  The random draw of    *)
(* jitteredTTL is the set of the values it may return.                     *)
(***************************************************************************)
EXTENDS Integers

CONSTANT MaxDuration

ASSUME MaxDurationAssumption == MaxDuration \in Nat \ {0}

DefaultExpiration == 0
NoExpiration == -1

\* A duration the public API accepts: any int64, the negative ones included.
Durations == (-MaxDuration - 1)..MaxDuration

Times == 0..MaxDuration

AtMost(limit, n) == IF n <= limit THEN n ELSE limit

DeadlineAfter(now, ttl) ==
  IF ttl <= 0 THEN 0
  ELSE IF now >= MaxDuration - ttl THEN MaxDuration
  ELSE now + ttl

\* rand.Int64N(limit) draws from 0..limit-1.
JitteredTTLs(ttl, jitter) ==
  LET limit == AtMost(MaxDuration - ttl, jitter)
  IN  IF limit <= 0 THEN {ttl} ELSE ttl..(ttl + limit - 1)

EffectiveTTLs(expiration, ttl, jitter) ==
  LET chosen == IF expiration = DefaultExpiration THEN ttl ELSE expiration
  IN  IF chosen <= 0 THEN {0} ELSE JitteredTTLs(chosen, jitter)

Expired(deadline, now) == deadline # 0 /\ now >= deadline

\* Faulty variant of Extended: an older read shortens the deadline.
Renewed(deadline, now, ttl) == DeadlineAfter(now, ttl)

\* A refresh only ever extends a deadline: the time it is computed from may
\* have been read before waiting for the segment's mutex.
Extended(deadline, now, ttl) ==
  LET renewed == DeadlineAfter(now, ttl)
  IN  IF renewed > deadline THEN renewed ELSE deadline
==============================================================================
