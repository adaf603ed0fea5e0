------------------------ MODULE MC_RepositoryLifecycle ------------------------
(* Instances of RepositoryLifecycle for TLC.                                 *)
EXTENDS RepositoryLifecycle, TLC

Symmetric == Permutations(Requests) \cup Permutations(Workers)
=============================================================================
