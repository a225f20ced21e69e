---------------------------- MODULE MCCacheFiles ----------------------------
(* Instances of CacheFiles for TLC. *)
EXTENDS CacheFiles, TLC

Symmetry == Permutations(Readers) \cup Permutations(Assets)
=============================================================================
