---------------------------- MODULE SectionFetch ----------------------------
(***************************************************************************)
(* fetch_sections of scripts/sync_library_cache.py: the work list a run of *)
(* the synchroniser uses to fetch the section rows of one generation.  It  *)
(* starts from the ids of the tables of contents, asks for them in sorted  *)
(* batches, and adds the chapter of every row it gets, until nothing new   *)
(* turns up.  A chapter may turn up while its own batch is still to come,  *)
(* and a row that comes twice ends the run.                                *)
(*                                                                         *)
(* The Library is outside this repository: here it holds any assignment of *)
(* chapters, cycles included, and may answer a batch with anything.        *)
(***************************************************************************)
EXTENDS Integers, FiniteSets

CONSTANTS
    Ids,        \* section ids, in the order sorted() gives them
    BatchSize,  \* rows asked for in one request
    NoChapter   \* a row that names no chapter

ASSUME FetchAssumption ==
    /\ Ids \subseteq Nat
    /\ BatchSize \in Nat \ {0}
    /\ NoChapter \notin Ids

VARIABLES
    chapterOf,  \* the chapter the Library's row of a section names
    initial,    \* initial_ids
    pending,    \* ids for the next round
    requested,  \* ids of this round not asked for yet
    sections,   \* ids of the rows fetched
    seen,       \* seen_returned_ids
    fetch,      \* "running", "done" or "failed" with SyncFailure
    honest      \* history: every answer so far was what was asked for

fetchVars == <<chapterOf, initial, pending, requested, sections, seen, fetch, honest>>

-----------------------------------------------------------------------------
\* chunks(sorted(...)): the next batch of a round
Batch(ids) == {i \in ids : Cardinality({j \in ids : j < i}) < BatchSize}

\* The orders the rows of an answer may come in
Orders(batch) ==
    {o \in [batch -> 1 .. Cardinality(batch)] : \A i, j \in batch : o[i] = o[j] => i = j}

\* The chapters put on the list while the rows are read in the order o: those
\* whose row is not there yet.
Found(batch, o) ==
    {chapterOf[i] : i \in {k \in batch : /\ chapterOf[k] # NoChapter
                                         /\ chapterOf[k] \notin sections
                                         /\ \A j \in batch : j = chapterOf[k] => o[j] > o[k]}}

FetchInit ==
    /\ chapterOf \in [Ids -> Ids \cup {NoChapter}]
    /\ initial \in SUBSET Ids
    /\ pending = initial
    /\ requested = {}
    /\ sections = {}
    /\ seen = {}
    /\ fetch = "running"
    /\ honest = TRUE

\* while pending: requested = sorted(pending); pending.clear()
StartRound ==
    /\ fetch = "running"
    /\ requested = {}
    /\ pending # {}
    /\ requested' = pending
    /\ pending' = {}
    /\ UNCHANGED <<chapterOf, initial, sections, seen, fetch, honest>>

\* Mutants of EndRound: what was fetched in the round stays on the list; the
\* list is emptied.
EndRoundAll(list, rows) == list

EndRoundNothing(list, rows) == {}

\* pending.difference_update(sections)
EndRound(list, rows) == list \ rows

\* An answer with each row of the batch once, all of them new
Accepted(batch, answer, wellFormed) ==
    /\ wellFormed
    /\ answer = batch
    /\ answer \cap seen = {}

AcceptBatch(answer, wellFormed, o) ==
    LET batch == Batch(requested) IN
    /\ fetch = "running"
    /\ requested # {}
    /\ Accepted(batch, answer, wellFormed)
    /\ o \in Orders(batch)
    /\ requested' = requested \ batch
    /\ sections' = sections \cup batch
    /\ seen' = seen \cup batch
    /\ pending' = IF requested' = {} THEN EndRound(pending \cup Found(batch, o), sections')
                                     ELSE pending \cup Found(batch, o)
    /\ UNCHANGED <<chapterOf, initial, fetch, honest>>

\* Any other answer ends the run: rows missing, not asked for, given twice, of
\* a source not selected, or of another generation.
RefuseBatch(answer, wellFormed) ==
    LET batch == Batch(requested) IN
    /\ fetch = "running"
    /\ requested # {}
    /\ ~Accepted(batch, answer, wellFormed)
    /\ fetch' = "failed"
    /\ honest' = (honest /\ wellFormed /\ answer = batch)
    /\ UNCHANGED <<chapterOf, initial, pending, requested, sections, seen>>

FinishFetch ==
    /\ fetch = "running"
    /\ requested = {}
    /\ pending = {}
    /\ fetch' = "done"
    /\ UNCHANGED <<chapterOf, initial, pending, requested, sections, seen, honest>>

\* The script is run again: main calls fetch_sections anew.
FetchAgain ==
    /\ fetch # "running"
    /\ initial' \in SUBSET Ids
    /\ pending' = initial'
    /\ requested' = {}
    /\ sections' = {}
    /\ seen' = {}
    /\ fetch' = "running"
    /\ honest' = TRUE
    /\ UNCHANGED chapterOf

FetchNext ==
    \/ StartRound
    \/ \E answer \in SUBSET Ids, wellFormed \in BOOLEAN :
          \/ \E o \in Orders(answer) : AcceptBatch(answer, wellFormed, o)
          \/ RefuseBatch(answer, wellFormed)
    \/ FinishFetch
    \/ FetchAgain

FetchSpec == FetchInit /\ [][FetchNext]_fetchVars

-----------------------------------------------------------------------------
(* Properties *)

HasItsChapters(ids) ==
    \A i \in ids : chapterOf[i] # NoChapter => chapterOf[i] \in ids

\* A run that ends well has fetched the ids of the tables of contents, the
\* chapter of every row it has, and nothing else: its rows are the smallest
\* such set, whatever the order of ids, batches and rows, and whether or not
\* chapters name each other in a circle.
SectionsAreClosure ==
    fetch = "done" =>
        /\ initial \subseteq sections
        /\ HasItsChapters(sections)
        /\ \A ids \in SUBSET Ids :
              initial \subseteq ids /\ HasItsChapters(ids) => sections \subseteq ids

\* A Library that answers what it is asked is never accused of sending a row
\* twice: a chapter found in one batch and due in a later one of the same
\* round is not asked for again.
HonestNotRefused == fetch = "failed" => ~honest

-----------------------------------------------------------------------------
(* The inductive invariant behind them *)

FetchTypeOK ==
    /\ chapterOf \in [Ids -> Ids \cup {NoChapter}]
    /\ initial \in SUBSET Ids
    /\ pending \in SUBSET Ids
    /\ requested \in SUBSET Ids
    /\ sections \in SUBSET Ids
    /\ seen \in SUBSET Ids
    /\ fetch \in {"running", "done", "failed"}
    /\ honest \in BOOLEAN

\* Everything on the list, asked for or not
OnTheList == sections \cup requested \cup pending

\* What a round still has to ask for was never fetched, and between rounds
\* neither was anything on the list.
NothingTwice ==
    /\ seen = sections
    /\ requested \cap sections = {}
    /\ requested = {} => pending \cap sections = {}

ListIsClosure ==
    /\ initial \subseteq OnTheList
    /\ \A i \in sections : chapterOf[i] # NoChapter => chapterOf[i] \in OnTheList
    /\ \A ids \in SUBSET Ids :
          initial \subseteq ids /\ HasItsChapters(ids) => OnTheList \subseteq ids

FetchInv ==
    /\ FetchTypeOK /\ NothingTwice /\ ListIsClosure
    /\ fetch = "done" => requested = {} /\ pending = {}
    /\ HonestNotRefused
=============================================================================
