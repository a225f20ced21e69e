----------------------------- MODULE CacheSync -----------------------------
(***************************************************************************)
(* scripts/sync_library_cache.py: a run copies one ruleset from the        *)
(* Library into a new cache file and moves that file over the old one.     *)
(*                                                                         *)
(* The Library keeps publishing while a run fetches.  It names a           *)
(* generation in every bookshelf, publication and section response; the    *)
(* presentation, the asset list and the asset bodies name none.  A run is  *)
(* one step per request, but for the manifest with its files and the       *)
(* bodies of the assets, which are one step each; several runs may         *)
(* overlap: nothing in the script keeps two of them apart.                 *)
(*                                                                         *)
(* The Library is outside this repository.  It is modelled as the script   *)
(* uses it: a generation is immutable, publications only go forward, and   *)
(* what is not tied to a generation may change on its own.                 *)
(***************************************************************************)
EXTENDS Integers, FiniteSets

CONSTANTS
    Runs,           \* processes of the script
    Sources,        \* source ids on the bookshelf
    MaxGeneration,  \* bound: publications of the Library
    MaxExtras,      \* bound: versions of presentation and assets
    Nothing

ASSUME SyncAssumption ==
    /\ MaxGeneration \in Nat \ {0}
    /\ MaxExtras \in Nat
    /\ Nothing \notin Nat

VARIABLES
    generation,  \* the one the Library serves
    extras,      \* version of the presentation and assets it serves
    era,         \* history: the extras served during each generation
    run,         \* what each run has fetched
    cache,       \* the file at args.cache
    overtaken    \* history: runs past verification that saw another one finish

vars == <<generation, extras, era, run, cache, overtaken>>

Generations == 1 .. MaxGeneration
Versions    == 0 .. MaxExtras

Stages == {"idle", "presentation", "publications", "sections", "bodies",
           "build", "verify", "replace"}

Run ==
    [stage        : Stages,
     generation   : Generations,
     selected     : SUBSET Sources,
     rows         : SUBSET (Sources \X Generations),  \* sources and tocs
     sections     : SUBSET Generations,               \* what the section rows are of
     presentation : Versions \cup {Nothing},
     assets       : Versions \cup {Nothing},          \* the list
     bodies       : Versions \cup {Nothing}]          \* Nothing: left to S3

\* The file a run leaves at the destination
Cache == [generation   : Generations,
          selected     : SUBSET Sources,
          rows         : SUBSET (Sources \X Generations),
          sections     : SUBSET Generations,
          presentation : Versions,
          assets       : Versions,
          bodies       : Versions \cup {Nothing}]

ASSUME NoCacheIsNothing == Nothing \notin Cache

Idle == [stage |-> "idle", generation |-> 1, selected |-> {}, rows |-> {}, sections |-> {},
         presentation |-> Nothing, assets |-> Nothing, bodies |-> Nothing]

Become(r, s) ==
    /\ run' = [run EXCEPT ![r] = s]
    /\ UNCHANGED <<generation, extras, era>>

\* The sources main still has to fetch
Todo(r) == run[r].selected \ {row[1] : row \in run[r].rows}

\* Mutant of Echoed: the generation a response names is not compared.
EchoedAny(r) == TRUE

\* generation_from_payload(..., expected=generation): any other answer ends
\* the run.
Echoed(r) == generation = run[r].generation

-----------------------------------------------------------------------------
Init ==
    /\ generation = 1
    /\ extras = 0
    /\ era = [g \in Generations |-> IF g = 1 THEN {0} ELSE {}]
    /\ run = [r \in Runs |-> Idle]
    /\ cache = Nothing
    /\ overtaken = {}

(* The Library *)

Serve(g, x) ==
    /\ generation' = g
    /\ extras' = x
    /\ era' = [era EXCEPT ![g] = @ \cup {x}]
    /\ UNCHANGED <<run, cache, overtaken>>

Publish ==
    /\ generation < MaxGeneration
    /\ \E x \in Versions : x \in {extras, extras + 1} /\ Serve(generation + 1, x)

Redecorate == extras < MaxExtras /\ Serve(generation, extras + 1)

-----------------------------------------------------------------------------
(* main *)

\* The bookshelf names the generation of the run and the sources there are.
ReadBookshelf(r, chosen) ==
    /\ run[r].stage = "idle"
    /\ chosen # {}
    /\ Become(r, [Idle EXCEPT !.stage = "presentation", !.generation = generation,
                              !.selected = chosen])
    /\ UNCHANGED <<cache, overtaken>>

\* The manifest and the files it names, as if they were one answer.
FetchPresentation(r) ==
    /\ run[r].stage = "presentation"
    /\ Become(r, [run[r] EXCEPT !.stage = "publications", !.presentation = extras])
    /\ UNCHANGED <<cache, overtaken>>

\* Mutant of FetchPublication: the last of several sources is forgotten.
FetchPublicationShort(r, s) ==
    /\ run[r].stage = "publications"
    /\ s \in Todo(r)
    /\ Echoed(r)
    /\ Become(r, [run[r] EXCEPT
                    !.stage = IF Cardinality(Todo(r)) <= 2 THEN "sections" ELSE @,
                    !.rows = @ \cup {<<s, generation>>}])
    /\ UNCHANGED <<cache, overtaken>>

\* fetch_publications, one source
FetchPublication(r, s) ==
    /\ run[r].stage = "publications"
    /\ s \in Todo(r)
    /\ Echoed(r)
    /\ Become(r, [run[r] EXCEPT !.stage = IF Todo(r) = {s} THEN "sections" ELSE @,
                                !.rows = @ \cup {<<s, generation>>}])
    /\ UNCHANGED <<cache, overtaken>>

\* fetch_sections: as many batches as the tables of contents call for
FetchSections(r) ==
    /\ run[r].stage = "sections"
    /\ Echoed(r)
    /\ Become(r, [run[r] EXCEPT !.sections = @ \cup {generation}])
    /\ UNCHANGED <<cache, overtaken>>

\* fetch_binary_assets: no batch is left, the list comes next.
ListAssets(r) ==
    /\ run[r].stage = "sections"
    /\ Become(r, [run[r] EXCEPT !.stage = "bodies", !.assets = extras])
    /\ UNCHANGED <<cache, overtaken>>

\* The bodies follow when --download-assets is given, as if they were one
\* answer; threads ask for them side by side.
DownloadAssets(r, download) ==
    /\ run[r].stage = "bodies"
    /\ Become(r, [run[r] EXCEPT !.stage = "build",
                                !.bodies = IF download THEN extras ELSE Nothing])
    /\ UNCHANGED <<cache, overtaken>>

\* Mutant of Build: the file is complete, the verification is skipped.
BuildUnverified(r) ==
    /\ run[r].stage = "build"
    /\ Become(r, [run[r] EXCEPT !.stage = "replace"])
    /\ UNCHANGED <<cache, overtaken>>

\* create_cache writes the temporary file and reads it back.
Build(r) ==
    /\ run[r].stage = "build"
    /\ Become(r, [run[r] EXCEPT !.stage = "verify"])
    /\ UNCHANGED <<cache, overtaken>>

\* verify_final_bookshelf: the same bookshelf of the same generation
Verify(r) ==
    /\ run[r].stage = "verify"
    /\ Echoed(r)
    /\ Become(r, [run[r] EXCEPT !.stage = "replace"])
    /\ overtaken' = overtaken \ {r}
    /\ UNCHANGED cache

\* os.replace
Replace(r) ==
    /\ run[r].stage = "replace"
    /\ cache' = [f \in {"generation", "selected", "rows", "sections", "presentation",
                        "assets", "bodies"} |-> run[r][f]]
    /\ Become(r, Idle)
    /\ overtaken' = overtaken \cup {q \in Runs \ {r} : run[q].stage = "replace"}

\* A request fails, a response is refused or the process is killed: whatever
\* was built is thrown away, the cache stays.
Stop(r) ==
    /\ run[r].stage # "idle"
    /\ Become(r, Idle)
    /\ UNCHANGED <<cache, overtaken>>

Next ==
    \/ Publish \/ Redecorate
    \/ \E r \in Runs :
         \/ \E chosen \in SUBSET Sources : ReadBookshelf(r, chosen)
         \/ FetchPresentation(r)
         \/ \E s \in Sources : FetchPublication(r, s)
         \/ FetchSections(r) \/ ListAssets(r)
         \/ \E download \in BOOLEAN : DownloadAssets(r, download)
         \/ Build(r) \/ Verify(r) \/ Replace(r) \/ Stop(r)

Spec == Init /\ [][Next]_vars

-----------------------------------------------------------------------------
(* Properties *)

\* Every variable stays in its domain.
TypeOK ==
    /\ generation \in Generations
    /\ extras \in Versions
    /\ era \in [Generations -> SUBSET Versions]
    /\ run \in [Runs -> Run]
    /\ cache \in Cache \cup {Nothing}
    /\ overtaken \subseteq Runs

\* Whatever the Library publishes during a run, the cache has exactly the
\* selected sources, and they and their sections are of the generation the
\* cache says it holds.
OneGeneration ==
    cache # Nothing =>
        /\ cache.rows = cache.selected \X {cache.generation}
        /\ cache.sections \subseteq {cache.generation}

\* The presentation and the assets name no generation, yet they were served
\* while the generation of the cache was current: the bookshelf is read
\* before and after them.
PartsOfTheirTime ==
    cache # Nothing =>
        {cache.presentation, cache.assets, cache.bodies} \ {Nothing} \subseteq
            era[cache.generation]

\* A run puts an older generation over a newer one only if the newer one was
\* installed between its verification and its own replacement.
StaleOnlyWhenOvertaken ==
    [][\A r \in Runs :
          Replace(r) /\ cache # Nothing /\ run[r].generation < cache.generation =>
              r \in overtaken]_vars

-----------------------------------------------------------------------------
(* The inductive invariant behind them *)

Fetched(r) == {run[r].presentation, run[r].assets, run[r].bodies} \ {Nothing}

\* No run and no cache is ahead of the Library.
NeverAhead ==
    /\ extras \in era[generation]
    /\ \A r \in Runs : run[r].generation <= generation
    /\ cache # Nothing => cache.generation <= generation

\* The rows of a run are of its generation, and all there once it is past them.
RowsOfTheRun ==
    \A r \in Runs :
        /\ \A row \in run[r].rows : row[1] \in run[r].selected /\ row[2] = run[r].generation
        /\ run[r].sections \subseteq {run[r].generation}
        /\ run[r].stage \in {"sections", "bodies", "build", "verify", "replace"} =>
              Todo(r) = {}

\* As long as the Library has not moved on, the extras are of the generation;
\* past the verification they are whatever it does.
ExtrasOfTheRun ==
    \A r \in Runs :
        /\ run[r].stage = "replace" \/ run[r].generation = generation =>
              Fetched(r) \subseteq era[run[r].generation]
        /\ run[r].stage \notin {"idle", "presentation"} => run[r].presentation # Nothing
        /\ run[r].stage \in {"bodies", "build", "verify", "replace"} => run[r].assets # Nothing

\* What was installed before a run's verification is not newer than the run.
VerifiedLast ==
    \A r \in Runs :
        run[r].stage = "replace" /\ r \notin overtaken /\ cache # Nothing =>
            cache.generation <= run[r].generation

SyncInv ==
    /\ TypeOK /\ NeverAhead /\ RowsOfTheRun /\ ExtrasOfTheRun /\ VerifiedLast
    /\ OneGeneration /\ PartsOfTheirTime
=============================================================================
