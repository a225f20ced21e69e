-------------------------- MODULE SynchroniserProofs --------------------------
(***************************************************************************)
(* The synchroniser, sync_library_cache.py, for any number of overlapping  *)
(* runs, sources, Library publications, sections and threads.              *)
(*                                                                         *)
(* What a cache holds: rows of one generation (WrittenAsOne), extras of    *)
(* that generation's time (WrittenOfItsTime), and never an older           *)
(* generation over a newer one but in the window after the verification    *)
(* (StaleWindow).                                                          *)
(*                                                                         *)
(* Two helpers: fetch_sections ends with exactly the sections it should    *)
(* have (FetchedClosure) and accuses no honest Library (HonestAccepted);   *)
(* CoreMachineIdentity hands out no expired assertion (FreshHeaders) and   *)
(* never an older one after a newer one (OrderedHeaders).                  *)
(***************************************************************************)
EXTENDS CacheSync, SectionFetch, MachineIdentity, TLAPS

-----------------------------------------------------------------------------
(* CacheSync *)

\* What the invariant says of what one run has fetched
Kept(s) ==
    /\ s.generation <= generation
    /\ \A row \in s.rows : row[1] \in s.selected /\ row[2] = s.generation
    /\ s.sections \subseteq {s.generation}
    /\ s.stage \in {"sections", "bodies", "build", "verify", "replace"} =>
          s.selected \ {row[1] : row \in s.rows} = {}
    /\ s.stage = "replace" \/ s.generation = generation =>
          {s.presentation, s.assets, s.bodies} \ {Nothing} \subseteq era[s.generation]
    /\ s.stage \notin {"idle", "presentation"} => s.presentation # Nothing
    /\ s.stage \in {"bodies", "build", "verify", "replace"} => s.assets # Nothing

\* and of the Library and the cache
Shared ==
    /\ extras \in era[generation]
    /\ cache # Nothing => cache.generation <= generation
    /\ OneGeneration /\ PartsOfTheirTime

LEMMA InvByRun == SyncInv <=> TypeOK /\ Shared /\ VerifiedLast /\ \A r \in Runs : Kept(run[r])
BY DEF SyncInv, NeverAhead, RowsOfTheRun, ExtrasOfTheRun, Fetched, Todo, Shared, Kept

LEMMA InvByRunNext ==
    SyncInv' <=> TypeOK' /\ Shared' /\ VerifiedLast' /\ \A r \in Runs : Kept(run[r])'
BY DEF SyncInv, NeverAhead, RowsOfTheRun, ExtrasOfTheRun, Fetched, Todo, Shared, Kept

LEMMA IdleRun == Idle \in Run /\ (TypeOK => Kept(Idle))
BY SyncAssumption DEF Idle, Run, Stages, Generations, Versions, Kept, TypeOK

\* A step of run r that leaves the cache alone
LEMMA RunStep ==
    ASSUME SyncInv, NEW r \in Runs, NEW s \in Run, Become(r, s), UNCHANGED cache,
           overtaken' \in {overtaken, overtaken \ {r}}, Kept(s),
           s.stage = "replace" => s.generation = generation
    PROVE  SyncInv'
<1>1. TypeOK /\ Shared /\ VerifiedLast /\ \A q \in Runs : Kept(run[q])
  BY InvByRun
<1>2. \A q \in Runs : run'[q] = IF q = r THEN s ELSE run[q]
  BY <1>1 DEF TypeOK, Become
<1>3. TypeOK'
  BY <1>1 DEF TypeOK, Become
<1>4. Shared'
  BY <1>1 DEF Shared, OneGeneration, PartsOfTheirTime, Become
<1>5. ASSUME NEW q \in Runs PROVE Kept(run[q])'
  <2>1. CASE q = r
    BY <1>2, <2>1 DEF Kept, Become
  <2>2. CASE q # r
    BY <1>1, <1>2, <2>2 DEF Kept, Become
  <2>3. QED
    BY <2>1, <2>2
<1>6. VerifiedLast'
  <2> SUFFICES ASSUME NEW q \in Runs, run'[q].stage = "replace", q \notin overtaken',
                      cache # Nothing
               PROVE  cache.generation <= run'[q].generation
    BY DEF VerifiedLast
  <2>1. CASE q = r
    BY <1>1, <1>2, <2>1 DEF Shared
  <2>2. CASE q # r
    BY <1>1, <1>2, <2>2 DEF VerifiedLast
  <2>3. QED
    BY <2>1, <2>2
<1>7. QED
  BY <1>3, <1>4, <1>5, <1>6, InvByRunNext

\* The Library publishes or changes its extras.
LEMMA ServeStep ==
    ASSUME SyncInv, NEW g \in {generation, generation + 1}, g \in Generations,
           NEW x \in Versions, Serve(g, x)
    PROVE  SyncInv'
<1>1. TypeOK /\ Shared /\ VerifiedLast /\ \A q \in Runs : Kept(run[q])
  BY InvByRun
<1>2. \A h \in Generations : era[h] \subseteq era'[h]
  BY <1>1 DEF Serve, TypeOK
<1>3. TypeOK'
  BY <1>1 DEF TypeOK, Serve
<1>4. x \in era'[g]
  BY <1>1 DEF TypeOK, Serve
<1>5. cache # Nothing => cache.generation \in Generations
  BY <1>1 DEF TypeOK, Cache
<1>6. Shared'
  BY <1>1, <1>2, <1>4, <1>5 DEF Shared, OneGeneration, PartsOfTheirTime, Serve, TypeOK, Generations
<1>7. ASSUME NEW q \in Runs PROVE Kept(run[q])'
  <2>1. Kept(run[q]) /\ run[q] \in Run /\ run' = run
    BY <1>1 DEF TypeOK, Serve
  <2>2. run[q].generation \in Generations
    BY <2>1 DEF Run
  <2>3. g # generation => run[q].generation # g
    BY <1>1, <2>1, <2>2 DEF Kept, TypeOK, Generations
  <2>4. QED
    BY <1>1, <1>2, <2>1, <2>2, <2>3 DEF Kept, Serve, TypeOK, Generations
<1>8. VerifiedLast'
  BY <1>1 DEF VerifiedLast, Serve
<1>9. QED
  BY <1>3, <1>6, <1>7, <1>8, InvByRunNext

\* The cache becomes what run r has fetched.
LEMMA ReplaceStep ==
    ASSUME SyncInv, NEW r \in Runs, Replace(r)
    PROVE  SyncInv'
<1> DEFINE s == run[r]
<1>1. TypeOK /\ Shared /\ s \in Run /\ \A q \in Runs : Kept(run[q])
  BY InvByRun DEF TypeOK
<1>2. s.stage = "replace" /\ Kept(s)
  BY <1>1 DEF Replace
<1>3. /\ cache'.generation = s.generation /\ cache'.selected = s.selected
      /\ cache'.rows = s.rows /\ cache'.sections = s.sections
      /\ cache'.presentation = s.presentation /\ cache'.assets = s.assets
      /\ cache'.bodies = s.bodies
  BY DEF Replace
<1>4. s.presentation \in Versions /\ s.assets \in Versions
  BY <1>1, <1>2 DEF Kept, Run
<1>5. cache' \in Cache
  BY <1>1, <1>3, <1>4 DEF Replace, Cache, Run
<1>6. \A q \in Runs : run'[q] = IF q = r THEN Idle ELSE run[q]
  BY <1>1 DEF Replace, Become, TypeOK
<1>7. UNCHANGED <<generation, extras, era>>
  BY DEF Replace, Become
<1>8. TypeOK'
  BY <1>1, <1>5, <1>7, IdleRun DEF TypeOK, Replace, Become
<1>9. s.rows = s.selected \X {s.generation}
  BY <1>1, <1>2 DEF Kept, Run
<1>10. Shared'
  BY <1>1, <1>2, <1>3, <1>7, <1>9 DEF Shared, Kept, OneGeneration, PartsOfTheirTime
<1>11. ASSUME NEW q \in Runs PROVE Kept(run[q])'
  <2>1. Kept(IF q = r THEN Idle ELSE run[q])
    BY <1>1, IdleRun
  <2>2. QED
    BY <1>6, <1>7, <2>1 DEF Kept
<1>12. VerifiedLast'
  BY <1>6 DEF VerifiedLast, Replace, Idle
<1>13. QED
  BY <1>8, <1>10, <1>11, <1>12, InvByRunNext

\* The other steps of a run
LEMMA FetchStep ==
    ASSUME SyncInv, NEW r \in Runs,
           \/ \E chosen \in SUBSET Sources : ReadBookshelf(r, chosen)
           \/ FetchPresentation(r)
           \/ \E t \in Sources : FetchPublication(r, t)
           \/ FetchSections(r) \/ ListAssets(r)
           \/ \E download \in BOOLEAN : DownloadAssets(r, download)
           \/ Build(r) \/ Verify(r) \/ Stop(r)
    PROVE  SyncInv'
<1> DEFINE s == run[r]
<1>1. /\ TypeOK /\ Shared /\ s \in Run /\ Kept(s)
      /\ generation \in Generations /\ extras \in Versions /\ extras # Nothing
  BY InvByRun, SyncAssumption DEF TypeOK, Versions
<1>2. ASSUME NEW n \in Run, Become(r, n), UNCHANGED cache,
             overtaken' \in {overtaken, overtaken \ {r}}, Kept(n),
             n.stage = "replace" => n.generation = generation
      PROVE  SyncInv'
  BY <1>2, RunStep
<1>3. ASSUME NEW chosen \in SUBSET Sources, ReadBookshelf(r, chosen)
      PROVE  SyncInv'
  <2> DEFINE n == [Idle EXCEPT !.stage = "presentation", !.generation = generation,
                               !.selected = chosen]
  <2>1. n \in Run
    BY <1>1, IdleRun DEF Run, Stages
  <2>2. /\ n.stage = "presentation" /\ n.generation = generation
        /\ n.rows = {} /\ n.sections = {}
        /\ n.presentation = Nothing /\ n.assets = Nothing /\ n.bodies = Nothing
    BY DEF Idle
  <2>3. Become(r, n) /\ UNCHANGED <<cache, overtaken>>
    BY <1>3 DEF ReadBookshelf
  <2> HIDE DEF n
  <2>4. Kept(n)
    BY <1>1, <2>2 DEF Kept, Generations
  <2>5. QED
    BY <1>2, <2>1, <2>2, <2>3, <2>4
<1>4. CASE FetchPresentation(r)
  <2> DEFINE n == [s EXCEPT !.stage = "publications", !.presentation = extras]
  <2>1. n \in Run
    BY <1>1 DEF Run, Stages
  <2>2. /\ n.stage = "publications"
        /\ n.generation = s.generation
        /\ n.selected = s.selected
        /\ n.rows = s.rows
        /\ n.sections = s.sections
        /\ n.presentation = extras
        /\ n.assets = s.assets
        /\ n.bodies = s.bodies
    BY <1>1 DEF Run
  <2>3. Become(r, n) /\ UNCHANGED <<generation, era, cache>>
        /\ overtaken' \in {overtaken, overtaken \ {r}}
    BY <1>4 DEF FetchPresentation, Become
  <2> HIDE DEF n
  <2>4. Kept(n)
    BY <1>1, <1>4, <2>2 DEF Kept, Shared, FetchPresentation
  <2>5. QED
    BY <1>1, <1>2, <1>4, <2>1, <2>2, <2>3, <2>4 DEF FetchPresentation
<1>5. ASSUME NEW t \in Sources, FetchPublication(r, t)
      PROVE  SyncInv'
  <2> DEFINE stage == IF Todo(r) = {t} THEN "sections" ELSE s.stage
             n == [s EXCEPT !.stage = stage, !.rows = @ \cup {<<t, generation>>}]
  <2>1. t \in s.selected /\ generation = s.generation /\ s.stage = "publications"
    BY <1>5 DEF FetchPublication, Todo, Echoed
  <2>2. stage \in {"publications", "sections"} /\ (stage = "sections" => Todo(r) = {t})
    BY <2>1
  <2>3. Become(r, n) /\ UNCHANGED <<cache, overtaken>>
    BY <1>5 DEF FetchPublication
  <2> HIDE DEF stage
  <2>4. s.rows \cup {<<t, generation>>} \in SUBSET (Sources \X Generations)
    BY <1>1 DEF Run
  <2>5. n \in Run
    BY <1>1, <2>2, <2>4 DEF Run, Stages
  <2>6. /\ n.stage = stage /\ n.rows = s.rows \cup {<<t, generation>>}
        /\ n.selected = s.selected /\ n.generation = s.generation
        /\ n.sections = s.sections /\ n.presentation = s.presentation
        /\ n.assets = s.assets /\ n.bodies = s.bodies
    BY <1>1 DEF Run
  <2> HIDE DEF n
  <2>7. ASSUME stage = "sections", NEW x \in n.selected
        PROVE  \E row \in n.rows : row[1] = x
    <3>1. x = t \/ x \in {row[1] : row \in s.rows}
      BY <2>2, <2>6, <2>7 DEF Todo
    <3>2. <<t, generation>> \in n.rows /\ <<t, generation>>[1] = t /\ s.rows \subseteq n.rows
      BY <2>6
    <3>3. QED
      BY <3>1, <3>2
  <2>8. Kept(n)
    BY <1>1, <2>1, <2>2, <2>6, <2>7 DEF Kept
  <2>9. QED
    BY <1>2, <2>2, <2>3, <2>5, <2>6, <2>8
<1>6. CASE FetchSections(r)
  <2> DEFINE n == [s EXCEPT !.sections = @ \cup {generation}]
  <2>1. n \in Run
    BY <1>1 DEF Run, Stages
  <2>2. /\ n.stage = s.stage
        /\ n.generation = s.generation
        /\ n.selected = s.selected
        /\ n.rows = s.rows
        /\ n.sections = s.sections \cup {generation}
        /\ n.presentation = s.presentation
        /\ n.assets = s.assets
        /\ n.bodies = s.bodies
    BY <1>1 DEF Run
  <2>3. Become(r, n) /\ UNCHANGED <<generation, era, cache>>
        /\ overtaken' \in {overtaken, overtaken \ {r}}
    BY <1>6 DEF FetchSections, Become
  <2> HIDE DEF n
  <2>4. Kept(n)
    BY <1>1, <1>6, <2>2 DEF Kept, Shared, FetchSections, Echoed
  <2>5. QED
    BY <1>1, <1>2, <1>6, <2>1, <2>2, <2>3, <2>4 DEF FetchSections, Echoed
<1>7. CASE ListAssets(r)
  <2> DEFINE n == [s EXCEPT !.stage = "bodies", !.assets = extras]
  <2>1. n \in Run
    BY <1>1 DEF Run, Stages
  <2>2. /\ n.stage = "bodies"
        /\ n.generation = s.generation
        /\ n.selected = s.selected
        /\ n.rows = s.rows
        /\ n.sections = s.sections
        /\ n.presentation = s.presentation
        /\ n.assets = extras
        /\ n.bodies = s.bodies
    BY <1>1 DEF Run
  <2>3. Become(r, n) /\ UNCHANGED <<generation, era, cache>>
        /\ overtaken' \in {overtaken, overtaken \ {r}}
    BY <1>7 DEF ListAssets, Become
  <2> HIDE DEF n
  <2>4. Kept(n)
    BY <1>1, <1>7, <2>2 DEF Kept, Shared, ListAssets
  <2>5. QED
    BY <1>1, <1>2, <1>7, <2>1, <2>2, <2>3, <2>4 DEF ListAssets
<1>8. ASSUME NEW download \in BOOLEAN, DownloadAssets(r, download)
      PROVE  SyncInv'
  <2> DEFINE n == [s EXCEPT !.stage = "build", !.bodies = IF download THEN extras ELSE Nothing]
  <2>1. n \in Run
    BY <1>1 DEF Run, Stages
  <2>2. /\ n.stage = "build"
        /\ n.generation = s.generation
        /\ n.selected = s.selected
        /\ n.rows = s.rows
        /\ n.sections = s.sections
        /\ n.presentation = s.presentation
        /\ n.assets = s.assets
        /\ n.bodies = IF download THEN extras ELSE Nothing
    BY <1>1 DEF Run
  <2>3. Become(r, n) /\ UNCHANGED <<generation, era, cache>>
        /\ overtaken' \in {overtaken, overtaken \ {r}}
    BY <1>8 DEF DownloadAssets, Become
  <2> HIDE DEF n
  <2>4. Kept(n)
    BY <1>1, <1>8, <2>2 DEF Kept, Shared, DownloadAssets
  <2>5. QED
    BY <1>1, <1>2, <1>8, <2>1, <2>2, <2>3, <2>4 DEF DownloadAssets
<1>9. CASE Build(r)
  <2> DEFINE n == [s EXCEPT !.stage = "verify"]
  <2>1. n \in Run
    BY <1>1 DEF Run, Stages
  <2>2. /\ n.stage = "verify"
        /\ n.generation = s.generation
        /\ n.selected = s.selected
        /\ n.rows = s.rows
        /\ n.sections = s.sections
        /\ n.presentation = s.presentation
        /\ n.assets = s.assets
        /\ n.bodies = s.bodies
    BY <1>1 DEF Run
  <2>3. Become(r, n) /\ UNCHANGED <<generation, era, cache>>
        /\ overtaken' \in {overtaken, overtaken \ {r}}
    BY <1>9 DEF Build, Become
  <2> HIDE DEF n
  <2>4. Kept(n)
    BY <1>1, <1>9, <2>2 DEF Kept, Shared, Build
  <2>5. QED
    BY <1>1, <1>2, <1>9, <2>1, <2>2, <2>3, <2>4 DEF Build
<1>10. CASE Verify(r)
  <2> DEFINE n == [s EXCEPT !.stage = "replace"]
  <2>1. n \in Run
    BY <1>1 DEF Run, Stages
  <2>2. /\ n.stage = "replace"
        /\ n.generation = s.generation
        /\ n.selected = s.selected
        /\ n.rows = s.rows
        /\ n.sections = s.sections
        /\ n.presentation = s.presentation
        /\ n.assets = s.assets
        /\ n.bodies = s.bodies
    BY <1>1 DEF Run
  <2>3. Become(r, n) /\ UNCHANGED <<generation, era, cache>>
        /\ overtaken' \in {overtaken, overtaken \ {r}}
    BY <1>10 DEF Verify, Become
  <2> HIDE DEF n
  <2>4. Kept(n)
    BY <1>1, <1>10, <2>2 DEF Kept, Shared, Verify, Echoed
  <2>5. QED
    BY <1>1, <1>2, <1>10, <2>1, <2>2, <2>3, <2>4 DEF Verify, Echoed
<1>11. CASE Stop(r)
  <2>1. Idle.stage # "replace"
    BY DEF Idle
  <2>2. Become(r, Idle) /\ UNCHANGED <<cache, overtaken>>
    BY <1>11 DEF Stop
  <2>3. QED
    BY <1>1, <1>2, <2>1, <2>2, IdleRun
<1>12. QED
  BY <1>3, <1>4, <1>5, <1>6, <1>7, <1>8, <1>9, <1>10, <1>11

LEMMA SyncAlways == Spec => []SyncInv
<1>1. Init => SyncInv
  <2> SUFFICES ASSUME Init PROVE SyncInv
    OBVIOUS
  <2>1. TypeOK
    BY SyncAssumption, IdleRun DEF Init, TypeOK, Generations, Versions
  <2>2. Shared
    BY SyncAssumption DEF Init, Shared, OneGeneration, PartsOfTheirTime, Generations
  <2>3. VerifiedLast /\ \A r \in Runs : Kept(run[r])
    BY <2>1, IdleRun DEF Init, VerifiedLast
  <2>4. QED
    BY <2>1, <2>2, <2>3, InvByRun
<1>2. SyncInv /\ [Next]_vars => SyncInv'
  <2> SUFFICES ASSUME SyncInv, [Next]_vars PROVE SyncInv'
    OBVIOUS
  <2>1. TypeOK
    BY DEF SyncInv
  <2>2. CASE Publish
    <3>1. PICK x \in Versions : Serve(generation + 1, x)
      BY <2>2 DEF Publish
    <3>2. generation + 1 \in Generations
      BY <2>1, <2>2, SyncAssumption DEF Publish, TypeOK, Generations
    <3>3. QED
      BY <3>1, <3>2, ServeStep
  <2>3. CASE Redecorate
    <3>1. extras + 1 \in Versions /\ generation \in Generations
      BY <2>1, <2>3, SyncAssumption DEF Redecorate, TypeOK, Versions
    <3>2. Serve(generation, extras + 1)
      BY <2>3 DEF Redecorate
    <3>3. QED
      BY <3>1, <3>2, ServeStep
  <2>4. CASE UNCHANGED vars
    BY <2>4 DEF vars, SyncInv, TypeOK, NeverAhead, RowsOfTheRun, ExtrasOfTheRun, VerifiedLast,
       Fetched, Todo, OneGeneration, PartsOfTheirTime
  <2>5. QED
    BY <2>2, <2>3, <2>4, ReplaceStep, FetchStep DEF Next
<1>3. QED
  BY <1>1, <1>2, PTL DEF Spec

\* Every variable stays in its domain.
THEOREM SyncTypes == Spec => []TypeOK
<1>1. SyncInv => TypeOK
  BY DEF SyncInv
<1>2. QED
  BY <1>1, SyncAlways, PTL

\* The rows of a cache are those of the selected sources, of one generation.
THEOREM WrittenAsOne == Spec => []OneGeneration
<1>1. SyncInv => OneGeneration
  BY DEF SyncInv
<1>2. QED
  BY <1>1, SyncAlways, PTL

\* What names no generation was served while the cache's was current.
THEOREM WrittenOfItsTime == Spec => []PartsOfTheirTime
<1>1. SyncInv => PartsOfTheirTime
  BY DEF SyncInv
<1>2. QED
  BY <1>1, SyncAlways, PTL

\* An older generation goes over a newer one only in the window a run leaves
\* between its verification and its replacement.
THEOREM StaleWindow == Spec => StaleOnlyWhenOvertaken
<1>1. SyncInv /\ [Next]_vars =>
        [\A r \in Runs :
            Replace(r) /\ cache # Nothing /\ run[r].generation < cache.generation =>
                r \in overtaken]_vars
  <2> SUFFICES ASSUME SyncInv, NEW r \in Runs, Replace(r), cache # Nothing,
                      run[r].generation < cache.generation, r \notin overtaken
               PROVE  FALSE
    OBVIOUS
  <2>1. cache.generation <= run[r].generation
    BY DEF SyncInv, VerifiedLast, Replace
  <2>2. cache.generation \in Nat /\ run[r].generation \in Nat
    BY DEF SyncInv, TypeOK, Cache, Run, Generations
  <2>3. QED
    BY <2>1, <2>2
<1>2. QED
  BY <1>1, SyncAlways, PTL DEF Spec, StaleOnlyWhenOvertaken

-----------------------------------------------------------------------------
(* SectionFetch *)

LEMMA FetchInitial == FetchInit => FetchInv
<1> SUFFICES ASSUME FetchInit PROVE FetchInv
  OBVIOUS
<1>1. FetchTypeOK
  BY DEF FetchInit, FetchTypeOK
<1>2. NothingTwice /\ OnTheList = initial
  BY DEF FetchInit, NothingTwice, OnTheList
<1>3. ListIsClosure
  BY <1>2 DEF FetchInit, ListIsClosure
<1>4. QED
  BY <1>1, <1>2, <1>3 DEF FetchInit, FetchInv, HonestNotRefused

LEMMA StartRoundStep ==
    ASSUME FetchInv, StartRound
    PROVE  FetchInv'
<1>1. FetchTypeOK'
  BY DEF FetchInv, FetchTypeOK, StartRound
<1>2. NothingTwice'
  BY DEF FetchInv, NothingTwice, StartRound
<1>3. OnTheList' = OnTheList /\ UNCHANGED <<chapterOf, initial, sections>>
  BY DEF OnTheList, StartRound
<1>4. ListIsClosure'
  BY <1>3 DEF FetchInv, ListIsClosure, HasItsChapters
<1>5. QED
  BY <1>1, <1>2, <1>4 DEF FetchInv, StartRound, HonestNotRefused

\* The rows of one batch are added, the chapters they name put on the list.
LEMMA AcceptStep ==
    ASSUME FetchInv, NEW answer \in SUBSET Ids, NEW wellFormed \in BOOLEAN,
           NEW o \in Orders(answer), AcceptBatch(answer, wellFormed, o)
    PROVE  FetchInv'
<1> DEFINE batch == Batch(requested)
           found == Found(batch, o)
<1>1. /\ fetch = "running" /\ requested # {} /\ answer = batch /\ batch \cap seen = {}
      /\ requested' = requested \ batch /\ sections' = sections \cup batch /\ seen' = seen \cup batch
      /\ UNCHANGED <<chapterOf, initial, fetch, honest>>
      /\ pending' = IF requested' = {} THEN (pending \cup found) \ sections' ELSE pending \cup found
  BY DEF AcceptBatch, Accepted, EndRound
<1>2. batch \subseteq requested
  BY DEF Batch
<1>3. o \in [batch -> 1 .. Cardinality(batch)] /\ \A i, j \in batch : o[i] = o[j] => i = j
  BY <1>1 DEF Orders
<1>4. FetchTypeOK /\ batch \subseteq Ids
  BY <1>2 DEF FetchInv, FetchTypeOK
<1>5. found \subseteq Ids /\ \A c \in found : \E i \in batch : chapterOf[i] = c /\ c # NoChapter
  BY <1>4 DEF Found, FetchTypeOK
<1>6. ASSUME NEW i \in batch, chapterOf[i] # NoChapter
      PROVE  chapterOf[i] \in sections \cup batch \cup found
  <2>1. CASE \A j \in batch : j = chapterOf[i] => o[j] > o[i]
    BY <1>6, <2>1 DEF Found
  <2>2. CASE \E j \in batch : j = chapterOf[i]
    BY <2>2
  <2>3. QED
    BY <2>1, <2>2
<1>7. FetchTypeOK'
  BY <1>1, <1>4, <1>5 DEF FetchTypeOK
<1>8. NothingTwice'
  BY <1>1, <1>2 DEF FetchInv, NothingTwice
<1>9. OnTheList' = OnTheList \cup found
  BY <1>1, <1>2 DEF OnTheList
<1>10. ListIsClosure'
  <2>1. initial' \subseteq OnTheList'
    BY <1>1, <1>9 DEF FetchInv, ListIsClosure
  <2>2. ASSUME NEW i \in sections', chapterOf[i] # NoChapter PROVE chapterOf[i] \in OnTheList'
    <3>1. sections \cup batch \subseteq OnTheList
      BY <1>2 DEF OnTheList
    <3>2. QED
      BY <1>1, <1>6, <1>9, <2>2, <3>1 DEF FetchInv, ListIsClosure
  <2>3. ASSUME NEW ids \in SUBSET Ids, initial \subseteq ids, HasItsChapters(ids)
        PROVE  OnTheList \cup found \subseteq ids
    <3>1. OnTheList \subseteq ids
      BY <2>3 DEF FetchInv, ListIsClosure
    <3>2. batch \subseteq ids
      BY <1>2, <3>1 DEF OnTheList
    <3>3. QED
      BY <1>5, <2>3, <3>1, <3>2 DEF HasItsChapters
  <2>4. QED
    BY <1>1, <1>9, <2>1, <2>2, <2>3 DEF ListIsClosure, HasItsChapters
<1>11. QED
  BY <1>1, <1>7, <1>8, <1>10 DEF FetchInv, HonestNotRefused

LEMMA RefuseStep ==
    ASSUME FetchInv, NEW answer \in SUBSET Ids, NEW wellFormed \in BOOLEAN,
           RefuseBatch(answer, wellFormed)
    PROVE  FetchInv'
<1>1. /\ fetch = "running" /\ fetch' = "failed"
      /\ UNCHANGED <<chapterOf, initial, pending, requested, sections, seen>>
  BY DEF RefuseBatch
<1>2. Batch(requested) \cap seen = {}
  BY DEF FetchInv, NothingTwice, Batch
<1>3. honest' = FALSE
  BY <1>2 DEF RefuseBatch, Accepted, FetchInv, FetchTypeOK
<1>4. FetchTypeOK'
  BY <1>1, <1>3 DEF FetchInv, FetchTypeOK
<1>5. NothingTwice' /\ ListIsClosure'
  BY <1>1 DEF FetchInv, NothingTwice, ListIsClosure, OnTheList, HasItsChapters
<1>6. QED
  BY <1>1, <1>3, <1>4, <1>5 DEF FetchInv, HonestNotRefused

LEMMA FinishStep ==
    ASSUME FetchInv, FinishFetch
    PROVE  FetchInv'
<1>1. FetchTypeOK' /\ NothingTwice' /\ ListIsClosure'
  BY DEF FetchInv, FetchTypeOK, NothingTwice, ListIsClosure, OnTheList, HasItsChapters, FinishFetch
<1>2. QED
  BY <1>1 DEF FetchInv, FinishFetch, HonestNotRefused

LEMMA AgainStep ==
    ASSUME FetchInv, FetchAgain
    PROVE  FetchInv'
<1>1. FetchTypeOK' /\ NothingTwice' /\ OnTheList' = initial' /\ sections' = {} /\ chapterOf' = chapterOf
  BY DEF FetchInv, FetchTypeOK, NothingTwice, OnTheList, FetchAgain
<1>2. ListIsClosure'
  BY <1>1 DEF ListIsClosure
<1>3. QED
  BY <1>1, <1>2 DEF FetchInv, FetchAgain, HonestNotRefused

LEMMA FetchInvariant == FetchSpec => []FetchInv
<1>1. FetchInv /\ [FetchNext]_fetchVars => FetchInv'
  <2> SUFFICES ASSUME FetchInv, [FetchNext]_fetchVars PROVE FetchInv'
    OBVIOUS
  <2>1. CASE UNCHANGED fetchVars
    BY <2>1 DEF fetchVars, FetchInv, FetchTypeOK, NothingTwice, ListIsClosure, OnTheList,
                HasItsChapters, HonestNotRefused
  <2>2. CASE FetchNext
    BY <2>2, StartRoundStep, AcceptStep, RefuseStep, FinishStep, AgainStep DEF FetchNext
  <2>3. QED
    BY <2>1, <2>2
<1>2. QED
  BY <1>1, FetchInitial, PTL DEF FetchSpec

\* A run that ends well has the sections of the tables of contents and the
\* chapters of its rows, and nothing else.
THEOREM FetchedClosure == FetchSpec => []SectionsAreClosure
<1>1. FetchInv => SectionsAreClosure
  BY DEF FetchInv, ListIsClosure, OnTheList, SectionsAreClosure, HasItsChapters
<1>2. QED
  BY <1>1, FetchInvariant, PTL

\* A Library that answers what it is asked is not refused.
THEOREM HonestAccepted == FetchSpec => []HonestNotRefused
BY FetchInvariant, PTL DEF FetchInv

-----------------------------------------------------------------------------
(* MachineIdentity *)

LEMMA IdentityNumbers == MaxClock \in Nat /\ Margin \in Nat /\ Clock \subseteq Nat /\ 0 \in Clock
BY IdentityAssumption DEF Clock

LEMMA RefreshIsNatural ==
    ASSUME NEW received \in Nat, NEW life \in Lifetimes
    PROVE  RefreshTime(received, life) \in Nat
BY IdentityAssumption DEF RefreshTime, Longer

LEMMA IdentityInitial == IdentityInit => IdentityInv
BY IdentityNumbers DEF IdentityInit, IdentityInv, IdentityTypeOK, OneExchange, RefreshInv, Thread

\* A step that leaves the assertion alone
LEMMA TurnStep ==
    ASSUME IdentityInv, NEW t \in Threads, NEW s \in Thread, Turn(t, s),
           UNCHANGED <<clock, assertion, refreshAt>>,
           \/ holder' = holder
           \/ holder = Nobody /\ holder' = t
           \/ holder = t /\ holder' = Nobody,
           s.stage \in {"exchanging", "answered"} => holder' = t,
           s.stage = "answered" => s.issued = clock
    PROVE  IdentityInv'
<1>1. \A u \in Threads : thread'[u] = IF u = t THEN s ELSE thread[u]
  BY DEF Turn, IdentityInv, IdentityTypeOK
<1>2. IdentityTypeOK'
  BY IdentityAssumption DEF Turn, IdentityInv, IdentityTypeOK
<1>3. OneExchange'
  BY <1>1, IdentityAssumption DEF IdentityInv, OneExchange
<1>4. RefreshInv'
  <2>1. assertion # NoAssertion =>
           /\ assertion.issued \in Nat /\ assertion.delay \in Nat
           /\ assertion.issued + assertion.delay <= clock
    BY IdentityNumbers DEF IdentityInv, IdentityTypeOK, Assertion, RefreshInv
  <2>2. clock \in Nat
    BY IdentityNumbers DEF IdentityInv, IdentityTypeOK
  <2>3. QED
    BY <1>1, <2>1, <2>2 DEF IdentityInv, RefreshInv
<1>5. QED
  BY <1>2, <1>3, <1>4 DEF IdentityInv

LEMMA ReceiveStep ==
    ASSUME IdentityInv, NEW t \in Threads, ReceiveAssertion(t)
    PROVE  /\ IdentityInv'
           /\ assertion # NoAssertion => assertion'.issued >= assertion.issued
<1> DEFINE q == thread[t]
<1>1. q \in Thread /\ q.stage = "answered" /\ clock \in Clock /\ clock \in Nat
  BY IdentityNumbers DEF IdentityInv, IdentityTypeOK, ReceiveAssertion
<1>2. q.issued \in Clock /\ q.issued \in Nat /\ q.life \in Lifetimes /\ q.issued <= clock
  BY <1>1, IdentityNumbers DEF Thread, IdentityInv, RefreshInv
<1>3. /\ assertion' = [issued |-> q.issued, life |-> q.life, delay |-> clock - q.issued]
      /\ refreshAt' = RefreshTime(clock, q.life) /\ holder' = Nobody /\ clock' = clock
  BY DEF ReceiveAssertion
<1>4. clock - q.issued \in Clock /\ q.issued + (clock - q.issued) = clock
  <2>1. MaxClock \in Nat /\ clock <= MaxClock
    BY <1>1, IdentityAssumption DEF Clock
  <2>2. clock - q.issued \in 0 .. MaxClock
    BY <1>1, <1>2, <2>1
  <2>3. QED
    BY <1>1, <1>2, <2>2 DEF Clock
<1>5. \A u \in Threads : thread'[u] = IF u = t THEN [stage |-> "idle"] ELSE thread[u]
  BY DEF ReceiveAssertion, Turn, IdentityInv, IdentityTypeOK
<1>6. \A u \in Threads \ {t} : thread[u].stage \notin {"exchanging", "answered"}
  BY <1>1, IdentityAssumption DEF IdentityInv, OneExchange
<1>7. IdentityTypeOK'
  <2>1. assertion' \in Assertion
    BY <1>2, <1>3, <1>4 DEF Assertion
  <2>2. thread' \in [Threads -> Thread]
    BY DEF ReceiveAssertion, Turn, IdentityInv, IdentityTypeOK, Thread
  <2>3. refreshAt' \in Nat
    BY <1>1, <1>2, <1>3, RefreshIsNatural
  <2>4. QED
    BY <1>1, <1>3, <2>1, <2>2, <2>3 DEF IdentityTypeOK
<1>8. OneExchange' /\ RefreshInv'
  BY <1>1, <1>2, <1>3, <1>4, <1>5, <1>6 DEF OneExchange, RefreshInv
<1>9. assertion # NoAssertion => assertion'.issued >= assertion.issued
  <2>1. assertion # NoAssertion => assertion.issued <= q.issued /\ assertion.issued \in Nat
    BY <1>1, IdentityNumbers DEF IdentityInv, RefreshInv, IdentityTypeOK, Assertion
  <2>2. QED
    BY <1>2, <1>3, <2>1
<1>10. QED
  BY <1>7, <1>8, <1>9 DEF IdentityInv

LEMMA IdentityStep ==
    ASSUME IdentityInv, [IdentityNext]_identityVars
    PROVE  IdentityInv'
<1>1. IdentityTypeOK /\ clock \in Nat
  BY IdentityNumbers DEF IdentityInv, IdentityTypeOK
<1>2. CASE UNCHANGED identityVars
  BY <1>2 DEF identityVars, IdentityInv, IdentityTypeOK, OneExchange, RefreshInv
<1>3. CASE PassTime
  <2>1. clock' = clock + 1 /\ clock' \in Clock /\ UNCHANGED <<assertion, refreshAt, holder, thread>>
    BY <1>1, <1>3, IdentityNumbers DEF PassTime, Clock
  <2>2. IdentityTypeOK' /\ OneExchange'
    BY <2>1 DEF IdentityInv, IdentityTypeOK, OneExchange
  <2>3. assertion # NoAssertion => assertion.issued + assertion.delay \in Nat
    <3>1. assertion # NoAssertion => assertion.issued \in Nat /\ assertion.delay \in Nat
      BY IdentityNumbers DEF IdentityInv, IdentityTypeOK, Assertion
    <3>2. QED
      BY <3>1
  <2>4. \A t \in Threads : thread[t].stage = "answered" => thread[t].issued \in Nat
    BY IdentityNumbers DEF IdentityInv, IdentityTypeOK, Thread
  <2>5. RefreshInv'
    BY <1>1, <2>1, <2>3, <2>4 DEF IdentityInv, RefreshInv
  <2>6. QED
    BY <2>2, <2>5 DEF IdentityInv
<1>4. ASSUME NEW t \in Threads, AskHeader(t) \/ HandOut(t) \/ Exchange(t) PROVE IdentityInv'
  <2>1. [stage |-> "waiting"] \in Thread /\ [stage |-> "idle"] \in Thread /\ [stage |-> "exchanging"] \in Thread
    BY DEF Thread
  <2>2. thread[t].stage \in {"idle", "waiting"} => holder = t \/ holder # t
    OBVIOUS
  <2>3. QED
    BY <1>4, <2>1, TurnStep DEF AskHeader, HandOut, Exchange
<1>5. ASSUME NEW t \in Threads, IssueAssertion(t) PROVE IdentityInv'
  <2>1. PICK life \in Lifetimes : Turn(t, [stage |-> "answered", issued |-> clock, life |-> life])
    BY <1>5 DEF IssueAssertion
  <2>2. [stage |-> "answered", issued |-> clock, life |-> life] \in Thread
    BY <1>1 DEF Thread, IdentityTypeOK
  <2>3. holder = t /\ UNCHANGED <<clock, assertion, refreshAt, holder>>
    BY <1>5 DEF IssueAssertion, IdentityInv, OneExchange
  <2>4. QED
    BY <2>1, <2>2, <2>3, TurnStep
<1>6. ASSUME NEW t \in Threads, FailExchange(t) PROVE IdentityInv'
  <2>1. holder = t /\ [stage |-> "idle"] \in Thread
    BY <1>6 DEF FailExchange, IdentityInv, OneExchange, Thread
  <2>2. QED
    BY <1>6, <2>1, TurnStep DEF FailExchange
<1>7. QED
  BY <1>2, <1>3, <1>4, <1>5, <1>6, ReceiveStep DEF IdentityNext

LEMMA IdentityInvariant == IdentitySpec => []IdentityInv
<1>1. IdentityInv /\ [IdentityNext]_identityVars => IdentityInv'
  BY IdentityStep
<1>2. QED
  BY <1>1, IdentityInitial, PTL DEF IdentitySpec

\* No header is made of an expired assertion, if its response came within the
\* margin and left the second it is used for at the least.
THEOREM FreshHeaders == IdentitySpec => NoExpiredHeader
<1>1. ASSUME IdentityInv, [IdentityNext]_identityVars, NEW t \in Threads, HandsOut(t),
             InTime(assertion')
      PROVE  LifeLeft(assertion') > 0
  <2>1. IdentityInv' /\ clock' = clock /\ clock \in Nat /\ assertion' # NoAssertion
    <3>1. IdentityInv'
      BY <1>1, IdentityStep
    <3>2. clock' = clock /\ clock \in Nat
      BY <1>1, IdentityNumbers DEF HandsOut, HandOut, ReceiveAssertion, IdentityInv, IdentityTypeOK
    <3>3. CASE HandOut(t)
      BY <3>1, <3>2, <3>3 DEF HandOut
    <3>4. CASE ReceiveAssertion(t)
      <4>1. /\ thread[t].stage = "answered" /\ thread[t] \in Thread /\ clock - thread[t].issued \in Nat
            /\ thread[t].issued \in Nat /\ thread[t].life \in Lifetimes
        <5>1. thread[t].stage = "answered" /\ thread[t] \in Thread /\ thread[t].issued <= clock
          BY <1>1, <3>4 DEF ReceiveAssertion, IdentityInv, IdentityTypeOK, RefreshInv
        <5>2. thread[t].issued \in Nat /\ thread[t].life \in Lifetimes
          BY <5>1, IdentityNumbers DEF Thread
        <5>3. QED
          BY <3>2, <5>1, <5>2
      <4>2. assertion' \in [issued : Nat, life : Lifetimes, delay : Nat]
        BY <3>4, <4>1 DEF ReceiveAssertion
      <4>3. QED
        BY <3>1, <3>2, <4>2, IdentityAssumption
    <3>5. QED
      BY <1>1, <3>3, <3>4 DEF HandsOut
  <2>2. /\ assertion'.issued \in Nat /\ assertion'.delay \in Nat
        /\ assertion'.life \in Nat \ {0} /\ Margin \in Nat /\ MinRefresh \in Nat \ {0}
        /\ assertion'.delay <= Margin /\ assertion'.delay + MinRefresh <= assertion'.life
        /\ refreshAt' = RefreshTime(assertion'.issued + assertion'.delay, assertion'.life)
    BY <1>1, <2>1, IdentityNumbers, IdentityAssumption
       DEF IdentityInv, IdentityTypeOK, Assertion, RefreshInv, InTime
  <2>3. CASE HandOut(t)
    <3>1. clock < refreshAt' /\ assertion' = assertion
      BY <2>3 DEF HandOut
    <3>2. QED
      BY <1>1, <2>1, <2>2, <3>1 DEF LifeLeft, RefreshTime, Longer
  <2>4. CASE ReceiveAssertion(t)
    <3>1. /\ assertion'.issued = thread[t].issued /\ assertion'.delay = clock - thread[t].issued
      BY <2>4 DEF ReceiveAssertion
    <3>2. QED
      BY <1>1, <2>1, <2>2, <3>1 DEF LifeLeft
  <2>5. QED
    BY <1>1, <2>3, <2>4 DEF HandsOut
<1>2. IdentityInv /\ [IdentityNext]_identityVars =>
         [\A t \in Threads :
             HandsOut(t) /\ InTime(assertion') => LifeLeft(assertion') > 0]_identityVars
  BY <1>1
<1>3. QED
  BY <1>2, IdentityInvariant, PTL DEF IdentitySpec, NoExpiredHeader

\* The assertion in the headers never goes back to one issued earlier.
THEOREM OrderedHeaders == IdentitySpec => HeadersInOrder
<1>1. ASSUME IdentityInv, [IdentityNext]_identityVars, assertion # NoAssertion
      PROVE  assertion'.issued >= assertion.issued
  <2>1. assertion.issued \in Nat
    BY <1>1, IdentityNumbers DEF IdentityInv, IdentityTypeOK, Assertion
  <2>2. CASE \E t \in Threads : ReceiveAssertion(t)
    BY <1>1, <2>2, ReceiveStep
  <2>3. CASE assertion' = assertion
    BY <2>1, <2>3
  <2>4. QED
    BY <1>1, <2>2, <2>3 DEF IdentityNext, identityVars, PassTime, AskHeader, HandOut, Exchange,
                             IssueAssertion, FailExchange
<1>2. IdentityInv /\ [IdentityNext]_identityVars =>
         [assertion # NoAssertion => assertion'.issued >= assertion.issued]_identityVars
  BY <1>1
<1>3. QED
  BY <1>2, IdentityInvariant, PTL DEF IdentitySpec, HeadersInOrder
===============================================================================
