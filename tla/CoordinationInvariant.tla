------------------------ MODULE CoordinationInvariant ------------------------
(***************************************************************************)
(* Why the publication barrier holds: an inductive invariant of            *)
(* Coordination.  It says what the coordination lock protects, namely the  *)
(* relation between the group of loads, the phase of each caller and the   *)
(* store.                                                                  *)
(***************************************************************************)
EXTENDS Coordination

\* c runs the shared function of a wave, or is about to finish it.
Owning(c) == Loading(c) \/ pc[c] = "finish"

\* An owner whose wave no mutation has forgotten.
Current(c) == Owning(c) /\ c \notin forgotten

\* What each operation works on.
TargetsInv ==
  \A c \in Callers :
    /\ todo[c] \subseteq targets[c]
    /\ pc[c] # "idle" /\ op[c] \notin {"delete", "clear"} =>
         key[c] \in Keys /\ targets[c] = {key[c]}
    /\ op[c] \in {"delete", "clear"} => pc[c] \in {"lock", "apply", "returned"}
    /\ op[c] = "clear" => targets[c] = Keys
    /\ op[c] = "delete" => pc[c] # "apply"
    /\ pc[c] = "register" => op[c] = "getOrLoad"

\* The readers of a lock are the loads that are storing, and a mutation that
\* changes the store holds every lock it needs.
LockInv ==
  /\ \A s \in Segments, c \in Callers :
       c \in readers[s] <=> pc[c] = "store" /\ SegOf[key[c]] = s
  /\ \A c \in Callers : pc[c] = "apply" => HoldsAll(c)

\* Who has a handle of a wave, and whose; what is not decided yet is pending.
HandleInv ==
  \A c \in Callers :
    /\ pc[c] # "returned" => result[c] = Pending
    /\ wave[c] # c => outcome[c] = Pending /\ c \notin forgotten
    /\ pc[c] \in {"idle", "lookup", "register", "lock", "apply"} => wave[c] = NoCall
    /\ Owning(c) => wave[c] = c
    /\ wave[c] # NoCall =>
         op[c] = "getOrLoad" /\ wave[wave[c]] = wave[c] /\ key[wave[c]] = key[c]

\* The group holds exactly the waves that run and were not forgotten; while a
\* mutation changes a key, the key has none.
GroupInv ==
  /\ \A k \in Keys : group[k] # NoCall => Current(group[k]) /\ key[group[k]] = k
  /\ \A c \in Callers : Current(c) => group[key[c]] = c
  /\ \A c \in Callers : pc[c] = "apply" => \A k \in targets[c] : group[k] = NoCall

\* A current load has found a hole, and the hole stays.
HoleInv ==
  \A c \in Callers :
    /\ pc[c] \in {"load", "publish", "store"} /\ c \notin forgotten => ~Resident(key[c])
    /\ pc[c] = "store" => c \notin forgotten

\* The value of a key was provided for that key, and is not outdated.
ValueInv ==
  /\ \A d \in outdated : Provided(d)
  /\ \A k \in Keys : Resident(k) =>
       /\ entry[k].value \notin outdated
       /\ key[entry[k].value] = k
       /\ Provided(entry[k].value)

\* The outcome of a wave is the value its owner loaded, or found for its key.
OutcomeInv ==
  \A c \in Callers :
    /\ outcome[c].entry # NoEntry => key[outcome[c].entry.value] = key[c] /\ Provided(outcome[c].entry.value)
    /\ pc[c] \in {"publish", "store"} => outcome[c].entry.value \in {c, NoCall}
    /\ outcome[c].status = "found" => outcome[c].entry # NoEntry
    /\ pc[c] = "store" => outcome[c].status = "found"

\* No current load yields an outdated value, and no caller waits for a value it
\* must not see.
FreshInv ==
  \A c \in Callers :
    /\ avoid[c] \subseteq outdated
    /\ Current(c) => c \notin outdated /\ outcome[c].entry.value \notin outdated
    /\ wave[c] # NoCall => wave[c] \notin avoid[c] /\ outcome[wave[c]].entry.value \notin avoid[c]
    /\ result[c].entry.value \notin avoid[c]

\* The lock, the groups, the phases and the store stay related in the way that
\* makes loads and mutations of one key exclude each other.
BarrierInv ==
  /\ TypeOK
  /\ TargetsInv
  /\ LockInv
  /\ HandleInv
  /\ GroupInv
  /\ HoleInv
  /\ ValueInv
  /\ OutcomeInv
  /\ FreshInv
===============================================================================
