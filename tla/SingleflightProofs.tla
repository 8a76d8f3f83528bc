-------------------------- MODULE SingleflightProofs --------------------------
(***************************************************************************)
(* Proofs about Singleflight, for any callers and keys.                    *)
(***************************************************************************)
EXTENDS Singleflight, TLAPS

\* A caller that has no wave yet left no trace; one that has a wave has a key.
FreshCallers ==
  \A c \in Callers : IF wave[c] = NoCall THEN c \notin done \union forgotten
                                         ELSE callKey[c] \in Keys

\* The group holds no forgotten wave.
AttachedWaves == \A k \in Keys : group[k] \notin forgotten

WaveInv == TypeOK /\ Coalesced /\ FreshCallers /\ AttachedWaves

LEMMA WaveInvInitially == Init => WaveInv
BY NoCallAssumption
   DEF Init, WaveInv, TypeOK, Coalesced, FreshCallers, AttachedWaves, Active

\* A new wave starts on a key that has none; a joiner finds one that runs.
LEMMA StartCallKeeps ==
  ASSUME WaveInv, NEW c \in Callers, NEW k \in Keys, StartCall(c, k)
  PROVE  WaveInv'
<1>1. /\ wave[c] = NoCall /\ c \notin done \union forgotten
      /\ callKey' = [callKey EXCEPT ![c] = k]
      /\ UNCHANGED <<forgotten, done>>
  BY DEF StartCall, WaveInv, FreshCallers
<1>2. \A j \in Keys : group[j] # c
  BY <1>1, NoCallAssumption DEF WaveInv, Coalesced, Active
<1>3. CASE Lead(c, k)
  <2>1. /\ group[k] = NoCall
        /\ group' = [group EXCEPT ![k] = c] /\ wave' = [wave EXCEPT ![c] = c]
    BY <1>3 DEF Lead
  <2>2. TypeOK'
    BY <1>1, <2>1 DEF WaveInv, TypeOK
  <2>3. Coalesced'
    BY <1>1, <1>2, <2>1, NoCallAssumption DEF WaveInv, TypeOK, Coalesced, Active
  <2>4. FreshCallers' /\ AttachedWaves'
    BY <1>1, <2>1, NoCallAssumption DEF WaveInv, TypeOK, FreshCallers, AttachedWaves
  <2>5. QED
    BY <2>2, <2>3, <2>4 DEF WaveInv
<1>4. CASE Join(c, k)
  <2>1. /\ group[k] # NoCall /\ group[k] # c /\ group[k] \in Callers
        /\ wave' = [wave EXCEPT ![c] = group[k]] /\ UNCHANGED group
    BY <1>2, <1>4 DEF Join, WaveInv, TypeOK
  <2>2. TypeOK'
    BY <1>1, <2>1 DEF WaveInv, TypeOK
  <2>3. Coalesced'
    BY <1>1, <1>2, <2>1 DEF WaveInv, TypeOK, Coalesced, Active
  <2>4. FreshCallers' /\ AttachedWaves'
    BY <1>1, <2>1 DEF WaveInv, TypeOK, FreshCallers, AttachedWaves
  <2>5. QED
    BY <2>2, <2>3, <2>4 DEF WaveInv
<1>5. QED
  BY <1>3, <1>4 DEF StartCall

LEMMA ForgetKeeps ==
  ASSUME WaveInv, NEW ks \in SUBSET Keys, Forget(ks)
  PROVE  WaveInv'
<1>1. /\ forgotten' = forgotten \union ({group[k] : k \in ks} \ {NoCall})
      /\ group' = [k \in Keys |-> IF k \in ks THEN NoCall ELSE group[k]]
      /\ UNCHANGED <<wave, callKey, done>>
  BY DEF Forget, ForgetKeys
<1>2. TypeOK'
  BY <1>1 DEF WaveInv, TypeOK
<1>3. Coalesced'
  <2>1. ASSUME NEW c \in Callers, Active(c), c \notin forgotten'
        PROVE  group'[callKey[c]] = c
    <3>1. group[callKey[c]] = c /\ callKey[c] \in Keys
      BY <1>1, <2>1, NoCallAssumption DEF WaveInv, Coalesced, FreshCallers, Active
    <3>2. callKey[c] \notin ks
      BY <1>1, <2>1, <3>1, NoCallAssumption
    <3>3. QED
      BY <1>1, <3>1, <3>2
  <2>2. \A k \in Keys : group'[k] # NoCall => Active(group[k]) /\ callKey[group[k]] = k
                                             /\ group'[k] = group[k]
    BY <1>1 DEF WaveInv, Coalesced
  <2>3. QED
    BY <1>1, <2>1, <2>2 DEF Coalesced, Active
<1>4. FreshCallers'
  BY <1>1, NoCallAssumption DEF WaveInv, Coalesced, Active, FreshCallers
\* The wave of another key is another wave.
<1>5. AttachedWaves'
  <2>1. \A j, k \in Keys : group[j] = group[k] /\ group[k] # NoCall => j = k
    BY DEF WaveInv, Coalesced
  <2>2. NoCall \notin forgotten
    BY NoCallAssumption DEF WaveInv, TypeOK
  <2>3. QED
    BY <1>1, <2>1, <2>2 DEF WaveInv, AttachedWaves
<1>6. QED
  BY <1>2, <1>3, <1>4, <1>5 DEF WaveInv

LEMMA FinishKeeps ==
  ASSUME WaveInv, NEW c \in Callers, Finish(c)
  PROVE  WaveInv'
<1> DEFINE k == callKey[c]
<1>1. /\ wave[c] = c /\ c \notin done
      /\ group' = [group EXCEPT ![k] = IF @ = c THEN NoCall ELSE @]
      /\ done' = done \union {c}
      /\ UNCHANGED <<wave, callKey, forgotten>>
  BY DEF Finish, FinishWave, Detach, Active
<1>2. k \in Keys
  BY <1>1, NoCallAssumption DEF WaveInv, FreshCallers
<1>3. \A j \in Keys : group[j] = c => j = k
  BY NoCallAssumption DEF WaveInv, Coalesced
<1>4. \A j \in Keys : group'[j] = IF group[j] = c THEN NoCall ELSE group[j]
  BY <1>1, <1>2, <1>3 DEF WaveInv, TypeOK
<1>5. TypeOK'
  BY <1>1 DEF WaveInv, TypeOK
<1>6. Coalesced'
  BY <1>1, <1>4, NoCallAssumption DEF WaveInv, TypeOK, FreshCallers, Coalesced, Active
<1>7. FreshCallers' /\ AttachedWaves'
  BY <1>1, <1>4, NoCallAssumption DEF WaveInv, TypeOK, FreshCallers, AttachedWaves
<1>8. QED
  BY <1>5, <1>6, <1>7 DEF WaveInv

\* The inductive invariant of the group.
THEOREM WaveInvHolds == Spec => []WaveInv
<1>1. WaveInv /\ [Next]_vars => WaveInv'
  <2> SUFFICES ASSUME WaveInv, [Next]_vars
               PROVE  WaveInv'
    OBVIOUS
  <2>1. CASE UNCHANGED vars
    BY <2>1 DEF vars, WaveInv, TypeOK, Coalesced, FreshCallers, AttachedWaves, Active
  <2>2. QED
    BY <2>1, StartCallKeeps, ForgetKeeps, FinishKeeps DEF Next
<1>2. QED
  BY <1>1, WaveInvInitially, PTL DEF Spec

\* The group is well-typed: NoCall is never taken for a wave, to be forgotten or joined.
THEOREM TypeCorrect == Spec => []TypeOK
<1>1. WaveInv => TypeOK
  BY DEF WaveInv
<1>2. QED
  BY <1>1, WaveInvHolds, PTL

\* A wave that runs and was not forgotten is the current wave of its key: the
\* loader of a key never runs in two such waves at once (StartCall, Forget, finish).
THEOREM CoalescedHolds == Spec => []Coalesced
<1>1. WaveInv => Coalesced
  BY DEF WaveInv
<1>2. QED
  BY <1>1, WaveInvHolds, PTL

\* Nobody joins a wave that was forgotten or has finished (StartCall).
THEOREM JoinsOnlyCurrentWavesHolds == Spec => JoinsOnlyCurrentWaves
<1> DEFINE JoinsCurrent ==
      \A c \in Callers : wave'[c] # wave[c] => wave'[c] \notin forgotten \union done
<1>1. WaveInv /\ [Next]_vars => [JoinsCurrent]_vars
  <2> SUFFICES ASSUME WaveInv, Next
               PROVE  JoinsCurrent
    OBVIOUS
  <2>1. ASSUME NEW c \in Callers, NEW k \in Keys, StartCall(c, k)
        PROVE  JoinsCurrent
    <3>1. \A d \in Callers : d # c => wave'[d] = wave[d]
      BY <2>1 DEF StartCall, Lead, Join, WaveInv, TypeOK
    <3>2. CASE Lead(c, k)
      BY <2>1, <3>1, <3>2 DEF StartCall, Lead, WaveInv, TypeOK, FreshCallers
    <3>3. CASE Join(c, k)
      BY <2>1, <3>1, <3>3 DEF Join, WaveInv, TypeOK, Coalesced, AttachedWaves, Active
    <3>4. QED
      BY <2>1, <3>2, <3>3 DEF StartCall
  <2>2. ASSUME NEW ks \in SUBSET Keys, Forget(ks)
        PROVE  JoinsCurrent
    BY <2>2 DEF Forget
  <2>3. ASSUME NEW c \in Callers, Finish(c)
        PROVE  JoinsCurrent
    BY <2>3 DEF Finish
  <2>4. QED
    BY <2>1, <2>2, <2>3 DEF Next
<1>2. QED
  BY <1>1, WaveInvHolds, PTL DEF Spec, JoinsOnlyCurrentWaves

\* A wave leaves the map only forgotten or finished: the end of an old wave never
\* detaches its successor (finish).
THEOREM DetachedOnlyByItsOwnEndHolds == Spec => DetachedOnlyByItsOwnEnd
<1> DEFINE OwnEnd ==
      \A k \in Keys : group[k] # NoCall /\ group'[k] # group[k] =>
                        group[k] \in forgotten' \union done'
<1>1. WaveInv /\ [Next]_vars => [OwnEnd]_vars
  <2> SUFFICES ASSUME WaveInv, Next
               PROVE  OwnEnd
    OBVIOUS
  <2>1. ASSUME NEW c \in Callers, NEW k \in Keys, StartCall(c, k)
        PROVE  OwnEnd
    BY <2>1 DEF StartCall, Lead, Join, WaveInv, TypeOK
  <2>2. ASSUME NEW ks \in SUBSET Keys, Forget(ks)
        PROVE  OwnEnd
    BY <2>2 DEF Forget, ForgetKeys, WaveInv, TypeOK
  <2>3. ASSUME NEW c \in Callers, Finish(c)
        PROVE  OwnEnd
    BY <2>3 DEF Finish, FinishWave, Detach, WaveInv, TypeOK
  <2>4. QED
    BY <2>1, <2>2, <2>3 DEF Next
<1>2. QED
  BY <1>1, WaveInvHolds, PTL DEF Spec, DetachedOnlyByItsOwnEnd
===============================================================================
