------------------------ MODULE MC_RepositoryTransfer ------------------------
(* Two accounts; Ann and Bob own repositories in person, Org is an           *)
(* organization that Ann created and that both administer.                   *)
EXTENDS RepositoryTransfer, TLC

CONSTANTS ann, bob, Ann, Bob, Org

MCAuthor == [o \in Owners |-> IF o = Bob THEN bob ELSE ann]
MCAdmin == [o \in Owners |-> IF o = Org THEN {ann, bob} ELSE {MCAuthor[o]}]
Symmetric == Permutations(Transfers) \cup Permutations(Requests)
=============================================================================
