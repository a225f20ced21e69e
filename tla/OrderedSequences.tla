--------------------------- MODULE OrderedSequences ---------------------------
(***************************************************************************)
(* Sequences in an order: a finite set as the sequence of its members, and *)
(* the part of a sequence that is in some set.  (SelectSeq and SortSeq say *)
(* the same, but their definitions are not open to the provers.)           *)
(***************************************************************************)
EXTENDS Integers, Sequences, FiniteSets, SequencesExt

\* The members of S in the strict order R
Ordered(S, R) ==
    CHOOSE s \in SetToSeqs(S) : \A i, j \in DOMAIN s : i < j => <<s[i], s[j]>> \in R

\* The members of a set of numbers, the least first
Ascending(I) == Ordered(I, {p \in I \X I : p[1] < p[2]})

\* What seq has of S, in the order of seq
Selected(seq, S) ==
    LET at == Ascending({i \in DOMAIN seq : seq[i] \in S})
    IN [n \in DOMAIN at |-> seq[at[n]]]
=============================================================================
