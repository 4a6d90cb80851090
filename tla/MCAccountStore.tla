--------------------------- MODULE MCAccountStore ---------------------------
(* Processes, environments and keys are each interchangeable; used where only *)
(* safety is checked.                                                         *)
EXTENDS AccountStore, TLC

Symmetry == Permutations(Procs) \cup Permutations(Envs) \cup Permutations(Keys)
=============================================================================
