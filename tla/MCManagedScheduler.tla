------------------------- MODULE MCManagedScheduler -------------------------
(* ManagedScheduler on small instances: see the cfg files for the bounds. *)
EXTENDS ManagedScheduler, TLC

JobSymmetry == Permutations(Jobs)
=============================================================================
