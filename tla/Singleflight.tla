----------------------------- MODULE Singleflight -----------------------------
(***************************************************************************)
(* The group of in-flight loads (internal/singleflight/group.go).          *)
(*                                                                         *)
(* Concurrent callers of one key share a wave.  The caller that registers  *)
(* a wave owns it and runs the shared function; the others wait for it to  *)
(* finish.  Forget detaches a wave from its key while it runs: callers     *)
(* that already joined still get its outcome, a later caller starts a new  *)
(* wave.                                                                   *)
(*                                                                         *)
(* A *call object is created by the caller that becomes the owner, so a    *)
(* wave is named by its owner.  Group.mu makes StartCall, Forget,          *)
(* ForgetAll and finish atomic, each is one step here.  The groups of all  *)
(* segments are one map: a key belongs to exactly one of them.             *)
(***************************************************************************)
EXTENDS Naturals, FiniteSets

CONSTANTS Callers,  \* goroutines; each starts at most one call
          Keys,
          NoCall,   \* the absent *call
          NoKey

ASSUME NoCallAssumption == NoCall \notin Callers
ASSUME NoKeyAssumption == NoKey \notin Keys

VARIABLES group,      \* Group.m: the active wave of each key
          wave,       \* the handle StartCall gave to each caller
          callKey,    \* the key each caller passed to StartCall
          forgotten,  \* the waves with call.forgotten set
          done        \* the waves with call.done closed

vars == <<group, wave, callKey, forgotten, done>>

TypeOK ==
  /\ group \in [Keys -> Callers \union {NoCall}]
  /\ wave \in [Callers -> Callers \union {NoCall}]
  /\ callKey \in [Callers -> Keys \union {NoKey}]
  /\ forgotten \in SUBSET Callers
  /\ done \in SUBSET Callers

Init ==
  /\ group = [k \in Keys |-> NoCall]
  /\ wave = [c \in Callers |-> NoCall]
  /\ callKey = [c \in Callers |-> NoKey]
  /\ forgotten = {}
  /\ done = {}
-------------------------------------------------------------------------------
(***************************************************************************)
(* The operations, without callKey: the cache composes these.              *)
(***************************************************************************)
Lead(c, k) ==
  /\ group[k] = NoCall
  /\ group' = [group EXCEPT ![k] = c]
  /\ wave' = [wave EXCEPT ![c] = c]

Join(c, k) ==
  /\ group[k] # NoCall
  /\ wave' = [wave EXCEPT ![c] = group[k]]
  /\ UNCHANGED group

\* Faulty variants of ForgetKeys: no check that the key has a wave; the wave is
\* detached but not marked; the wave is marked but stays attached.
ForgetKeysUnchecked(ks) ==
  /\ forgotten' = forgotten \union {group[k] : k \in ks}
  /\ group' = [k \in Keys |-> IF k \in ks THEN NoCall ELSE group[k]]

ForgetKeysUnmarked(ks) ==
  /\ group' = [k \in Keys |-> IF k \in ks THEN NoCall ELSE group[k]]
  /\ UNCHANGED forgotten

ForgetKeysAttached(ks) ==
  /\ forgotten' = forgotten \union ({group[k] : k \in ks} \ {NoCall})
  /\ UNCHANGED group

\* Forget of one key and ForgetAll of a group are the same step on a set of keys.
ForgetKeys(ks) ==
  /\ forgotten' = forgotten \union ({group[k] : k \in ks} \ {NoCall})
  /\ group' = [k \in Keys |-> IF k \in ks THEN NoCall ELSE group[k]]

\* Faulty variant of Detach: whatever wave the key has leaves the map.
DetachAny(c, k) == group' = [group EXCEPT ![k] = NoCall]

\* The wave leaves the map only if it is still the current one: a forgotten
\* wave may have a successor on its key.
Detach(c, k) ==
  group' = [group EXCEPT ![k] = IF @ = c THEN NoCall ELSE @]

\* Faulty variant of FinishWave: only a wave that is still current is closed.
FinishCurrentWave(c, k) ==
  /\ Detach(c, k)
  /\ done' = done \union ({c} \intersect {group[k]})

FinishWave(c, k) ==
  /\ Detach(c, k)
  /\ done' = done \union {c}

\* call.dups: the callers that joined the wave of c.
Dups(c) == {d \in Callers \ {c} : wave[d] = c}
-------------------------------------------------------------------------------
Active(c) == wave[c] = c /\ c \notin done

StartCall(c, k) ==
  /\ wave[c] = NoCall
  /\ callKey' = [callKey EXCEPT ![c] = k]
  /\ \/ Lead(c, k)
     \/ Join(c, k)
  /\ UNCHANGED <<forgotten, done>>

Forget(ks) ==
  /\ ForgetKeys(ks)
  /\ UNCHANGED <<wave, callKey, done>>

\* DoCall finishes the wave when the function returns, panics or calls Goexit.
Finish(c) ==
  /\ Active(c)
  /\ FinishWave(c, callKey[c])
  /\ UNCHANGED <<wave, callKey, forgotten>>

Next ==
  \/ \E c \in Callers, k \in Keys : StartCall(c, k)
  \/ \E ks \in SUBSET Keys : Forget(ks)
  \/ \E c \in Callers : Finish(c)

\* DoCall runs finish in a deferred function, so a function that ends, however
\* it ends, finishes its wave.
Fairness == \A c \in Callers : WF_vars(Finish(c))

Spec == Init /\ [][Next]_vars /\ Fairness
-------------------------------------------------------------------------------
(***************************************************************************)
(* Properties.                                                             *)
(***************************************************************************)

\* A wave that runs and was not forgotten is the current wave of its key, so
\* two such waves never run the loader of one key at the same time.
Coalesced ==
  /\ \A c \in Callers : Active(c) /\ c \notin forgotten => group[callKey[c]] = c
  /\ \A k \in Keys : group[k] # NoCall => Active(group[k]) /\ callKey[group[k]] = k

\* A caller that arrives after Forget never shares the outcome of the wave
\* that was forgotten, nor of one that already finished.
JoinsOnlyCurrentWaves ==
  [][\A c \in Callers : wave'[c] # wave[c] => wave'[c] \notin forgotten \union done]_vars

\* A wave is detached from its key only by its own finish or by Forget: the end
\* of an old, forgotten wave never detaches its successor.
DetachedOnlyByItsOwnEnd ==
  [][\A k \in Keys :
       group[k] # NoCall /\ group'[k] # group[k] => group[k] \in forgotten' \union done']_vars

\* Every caller's wave finishes, whatever Forget and newer waves do meanwhile.
EveryWaveFinishes ==
  \A c \in Callers : wave[c] # NoCall ~> wave[c] \in done
===============================================================================
