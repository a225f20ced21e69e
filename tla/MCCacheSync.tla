----------------------------- MODULE MCCacheSync -----------------------------
(* Instances of the synchroniser for TLC: its runs, the work list of sections
   of one run, and the machine identity its threads share.  A behaviour is one
   of one part, the others rest in a fixed initial state. *)
EXTENDS CacheSync, SectionFetch, MachineIdentity, TLC

VARIABLE part

Symmetry == Permutations(Runs) \cup Permutations(Sources)

\* Bound: two runs overlap only with one source and while the extras of the
\* Library stay as they are; one run alone meets everything.
Small ==
    \/ Cardinality({r \in Runs : run[r] # Idle}) <= 1
    \/ extras = 0 /\ \A r \in Runs : Cardinality(run[r].selected) <= 1

SynchroniserInit ==
    /\ part \in {"runs", "sections", "identity"}
    /\ Init /\ FetchInit /\ IdentityInit
    /\ part # "sections" => initial = {} /\ \A i \in Ids : chapterOf[i] = NoChapter

SynchroniserNext ==
    /\ UNCHANGED part
    /\ \/ part = "runs" /\ Next /\ UNCHANGED <<fetchVars, identityVars>>
       \/ part = "sections" /\ FetchNext /\ UNCHANGED <<vars, identityVars>>
       \/ part = "identity" /\ IdentityNext /\ UNCHANGED <<vars, fetchVars>>

SynchroniserSpec ==
    SynchroniserInit /\ [][SynchroniserNext]_<<part, vars, fetchVars, identityVars>>
=============================================================================
