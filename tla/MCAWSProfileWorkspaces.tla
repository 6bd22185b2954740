----------------------- MODULE MCAWSProfileWorkspaces -----------------------
(* Model values and symmetry for checking AWSProfileWorkspaces with TLC. *)
EXTENDS AWSProfileWorkspaces, TLC

ProcessSymmetry == Permutations(Schedulers) \cup Permutations(Dirs)
=============================================================================
