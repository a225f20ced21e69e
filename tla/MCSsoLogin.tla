----------------------------- MODULE MCSsoLogin -----------------------------
(* Instances of SsoLogin for TLC. *)
EXTENDS SsoLogin, TLC

Symmetry == Permutations(Workers) \cup Permutations(Browsers) \cup
            Permutations(States) \cup Permutations(Cookies) \cup Permutations(Tokens)
=============================================================================
