--------------------------- MODULE MCCacheReader ---------------------------
(* Instances of CacheReader for TLC. *)
EXTENDS CacheReader, TLC

Symmetry == Permutations(Readers) \cup Permutations(Identities) \cup
            Permutations(Vocabularies)
=============================================================================
