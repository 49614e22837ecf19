---------------------------- MODULE MCTaskRuntime ----------------------------
(***************************************************************************)
(* TaskRuntime for TLC: symmetry.                                           *)
(***************************************************************************)
EXTENDS TaskPromise, TLC

\* Children of a pool are interchangeable (safety runs only).
Children == Permutations(Worker) \cup Permutations(Internal)
=============================================================================
