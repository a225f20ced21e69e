------------------------- MODULE MCBrowserSessions -------------------------
(* Instances of BrowserSessions for TLC. *)
EXTENDS BrowserSessions, TLC

Symmetry == Permutations(Workers) \cup Permutations(Owners) \cup Permutations(Tokens)
              \cup Permutations(Issuers)
=============================================================================
