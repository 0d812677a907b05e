---------------------------- MODULE MCTaskExecutor ----------------------------
(***************************************************************************)
(* TaskExecutor for TLC.  Tasks, clients and spare workers are model       *)
(* values and interchangeable.                                             *)
(***************************************************************************)
EXTENDS TaskExecutor, TLC

Symmetry ==
  Permutations(Tasks) \cup Permutations(Clients) \cup Permutations(Workers)
===============================================================================
