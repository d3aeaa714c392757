----------------------------- MODULE MCCatalog ------------------------------
(* Small catalogues for TLC: what every stream of a run subscribes to.     *)
EXTENDS Catalog, TLC

ListOnly  == [l \in Listeners |-> {"list"}]
AllTopics == [l \in Listeners |-> Topics]

Symmetry == Permutations(Mutators)
=============================================================================
