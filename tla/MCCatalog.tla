----------------------------- MODULE MCCatalog -----------------------------
(* Two tables with up to two indexes each; their names are symmetric.      *)
EXTENDS Catalog, TLC

Symmetry == Permutations(Tables) \cup Permutations(Indexes)
=============================================================================
