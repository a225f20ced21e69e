------------------------ MODULE MCSemanticRepository ------------------------
(* Instances of SemanticRepository for TLC: publishers alone. *)
EXTENDS SemanticRepository, TLC

Symmetry == Permutations(Publishers) \cup Permutations(Editions) \cup Permutations(Parts)
=============================================================================
