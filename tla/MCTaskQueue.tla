---------------------------- MODULE MCTaskQueue ----------------------------
(* Small instances of the task queue for TLC. *)
EXTENDS TaskQueue, TLC

\* Workers are interchangeable, and so are tasks and agents: no definition
\* names one of them.
Symmetry == Permutations(Workers) \cup Permutations(Tasks)
=============================================================================
