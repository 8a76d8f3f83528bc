-------------------------- MODULE PublicationBarrier --------------------------
(***************************************************************************)
(* What a cache promises about loads, with no lock, group or clock in it.  *)
(*                                                                         *)
(* A load of a key either publishes its value, or is superseded, or ends   *)
(* with nothing published.  A mutation may give a key a value only after   *)
(* it has barred every running load of that key, and a barred load never   *)
(* publishes.  At most one load of a key runs unbarred, and a load only    *)
(* publishes where the cache holds nothing.  The cache may lose any value  *)
(* at any time: eviction, expiration and deletion look the same here.      *)
(***************************************************************************)
CONSTANTS Callers, Keys, NoCall, NoKey

VARIABLES value,    \* the value the cache holds for each key, or NoCall
          loadKey,  \* the key each caller loads, or NoKey
          phase,    \* how far each caller's load is
          barred    \* the running loads that may no longer publish

vars == <<value, loadKey, phase, barred>>

Running(c) == phase[c] = "running"

RunningOn(k) == {c \in Callers : Running(c) /\ loadKey[c] = k}

Init ==
  /\ value = [k \in Keys |-> NoCall]
  /\ loadKey = [c \in Callers |-> NoKey]
  /\ phase = [c \in Callers |-> "none"]
  /\ barred = {}

StartLoad(c, k) ==
  /\ phase[c] = "none"
  /\ RunningOn(k) \subseteq barred
  /\ loadKey' = [loadKey EXCEPT ![c] = k]
  /\ phase' = [phase EXCEPT ![c] = "running"]
  /\ UNCHANGED <<value, barred>>

Bar(ks) ==
  /\ barred' = barred \union UNION {RunningOn(k) : k \in ks}
  /\ UNCHANGED <<value, loadKey, phase>>

\* The value of key k becomes v, and other keys may be evicted for it.
Give(k, v) ==
  \E evicted \in SUBSET (Keys \ {k}) :
    value' = [j \in Keys |-> IF j = k THEN v
                             ELSE IF j \in evicted THEN NoCall ELSE value[j]]

Store(c, k) ==
  /\ RunningOn(k) \subseteq barred
  /\ Give(k, c)
  /\ UNCHANGED <<loadKey, phase, barred>>

\* Delete bars the loads of a key and removes its value in one step.
Lose(ks) ==
  /\ value' = [k \in Keys |-> IF k \in ks THEN NoCall ELSE value[k]]
  /\ \/ UNCHANGED barred
     \/ barred' = barred \union UNION {RunningOn(k) : k \in ks}
  /\ UNCHANGED <<loadKey, phase>>

End(c, how) ==
  /\ Running(c)
  /\ phase' = [phase EXCEPT ![c] = how]
  /\ barred' = barred \ {c}
  /\ UNCHANGED loadKey

Publish(c) ==
  /\ Running(c)
  /\ c \notin barred
  /\ value[loadKey[c]] = NoCall
  /\ Give(loadKey[c], c)
  /\ End(c, "ended")

Supersede(c) ==
  /\ c \in barred
  /\ End(c, "superseded")
  /\ UNCHANGED value

Drop(c) ==
  /\ End(c, "ended")
  /\ UNCHANGED value

Next ==
  \/ \E c \in Callers, k \in Keys : StartLoad(c, k) \/ Store(c, k)
  \/ \E ks \in SUBSET Keys : Bar(ks) \/ Lose(ks)
  \/ \E c \in Callers : Publish(c) \/ Supersede(c) \/ Drop(c)

Spec == Init /\ [][Next]_vars
===============================================================================
