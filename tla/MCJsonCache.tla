------------------------------ MODULE MCJsonCache ------------------------------
(***************************************************************************)
(* JsonCache on its SqliteStore, for TLC: dictionaries are sets of         *)
(* updates, one per thread.                                                *)
(***************************************************************************)
EXTENDS JsonCache, TLC

CONSTANT MCLifetimes   \* expires_in, in seconds; 0 is a deletion

Dictionaries == SUBSET Threads
WithoutExpiry == MCLifetimes \cup {NULL}
Symmetry == Permutations(Threads)
===============================================================================
