---------------------------- MODULE MCCleanupWorker ----------------------------
(***************************************************************************)
(* Instances of CleanupWorker for TLC.                                     *)
(***************************************************************************)
EXTENDS CleanupWorker

CONSTANTS i1, i2, i3, i4

\* Two items in the first segment, the others one in each that follows.
TwoInTheFirst == [i \in Items |-> IF i = i2 THEN 1 ELSE IF i = i3 THEN 2 ELSE 0]

\* Two items in each of two segments.
TwoInEach == [i \in Items |-> IF i \in {i1, i2} THEN 0 ELSE 1]
================================================================================
