------------------------- MODULE MC_PullRequestMerge -------------------------
(* Instances of PullRequestMerge for TLC.                                    *)
EXTENDS PullRequestMerge, TLC

Symmetric == Permutations(Requests)
=============================================================================
