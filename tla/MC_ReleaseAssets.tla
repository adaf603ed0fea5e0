---------------------------- MODULE MC_ReleaseAssets ----------------------------
EXTENDS ReleaseAssets, TLC
CONSTANTS a1, a2, a3

\* a1 and a2 have one name; a release holds a3 alone, the repository a3 and one more.
MCName == [a \in Assets |-> IF a = a3 THEN "checksums" ELSE "binary"]
MCSize == [a \in Assets |-> IF a = a3 THEN 2 ELSE 1]
Symmetric == Permutations(Requests) \cup Permutations(Releases) \cup Permutations({a1, a2})
=============================================================================
