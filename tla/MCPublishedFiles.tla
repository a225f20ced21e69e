-------------------------- MODULE MCPublishedFiles --------------------------
(* Instances of the two places where files are published under readers, for
   TLC: the semantic repository with its service, and the content cache with
   its materialiser.  A behaviour is one of one place, the other rests in a
   fixed initial state. *)
EXTENDS SemanticService, CacheFiles, TLC

VARIABLE part

Symmetry ==
    Permutations(Publishers) \cup Permutations(Editions) \cup
    Permutations(Visitors)

\* Bound: in a root they made themselves two publishers meet, in one that was
\* there before, or that a loss of power has spared, all of them.
Small == root = "made" => Cardinality({p \in Publishers : publisher[p] # Idle}) <= 2

FilesInitially ==
    /\ part \in {"repository", "cache"}
    /\ ServiceInit
    /\ FilesInit
    /\ part # "cache" => pages[1].bodies = {}

PublishedNext ==
    /\ UNCHANGED part
    /\ \/ part = "repository" /\ ServiceNext /\ UNCHANGED fileVars
       \/ part = "cache" /\ FilesNext /\ UNCHANGED <<vars, serviceVars>>

PublishedSpec == FilesInitially /\ [][PublishedNext]_<<part, vars, serviceVars, fileVars>>
=============================================================================
