----------------------------- MODULE CacheFiles -----------------------------
(***************************************************************************)
(* The file behind the content cache: scripts/materialize_cache_assets.py  *)
(* commits asset bodies into it one by one, the synchroniser moves a new   *)
(* file over it, and the web process reads it, all by path.  Module        *)
(* CacheReader takes a commit for one step; here it is the steps SQLite    *)
(* makes of it, and the materialiser may be killed between any two.        *)
(*                                                                         *)
(* SQLite is outside this repository.  As the scripts open it, it keeps    *)
(* the old pages in a rollback journal named after the path: the journal   *)
(* counts ("hot") once its header is written, which is before the first    *)
(* page of the database is, and removing it is the commit.  Whoever may    *)
(* write rolls a hot journal back into the file it has open if nobody      *)
(* holds that file; a read-only connection cannot, and is refused.  A      *)
(* write through a path that names another file by now is refused.         *)
(*                                                                         *)
(* One materialiser runs at a time.                                        *)
(***************************************************************************)
EXTENDS Integers, FiniteSets

CONSTANTS
    Readers,   \* requests of the web process
    Assets,    \* rows of binary_assets
    MaxFiles,  \* bound: files that were at the path
    NoJournal

Files == 1 .. MaxFiles

ASSUME FilesAssumption ==
    /\ MaxFiles \in Nat \ {0}
    /\ NoJournal \notin [file : Files, before : SUBSET Assets, hot : BOOLEAN]

VARIABLES
    cacheFile,  \* the file at the path
    pages,      \* what is in each file
    journal,    \* the file <path>-journal, or NoJournal
    mat,        \* the materialiser
    reader      \* what each request is doing

fileVars == <<cacheFile, pages, journal, mat, reader>>

\* torn : some pages are of a transaction that did not end
Pages == [bodies : SUBSET Assets, torn : BOOLEAN]

Journal == [file : Files, before : SUBSET Assets, hot : BOOLEAN]

\* todo : the rows without a body when it looked
Materialiser ==
    [stage : {"idle", "checked", "verify"}]
      \cup [stage : {"connected"}, file : Files]
      \cup [stage : {"rows"}, file : Files, todo : SUBSET Assets]
      \cup [stage : {"update", "commit"}, file : Files, todo : SUBSET Assets, asset : Assets]
      \cup [stage : {"reopened"}, file : Files]

Reader == [stage : {"idle"}] \cup [stage : {"open", "reading"}, file : Files]

AtRest == [stage |-> "idle"]

\* The materialiser has a transaction open on f.
Holds(f) == mat.stage \in {"update", "commit"} /\ mat.file = f

\* What SQLite takes for the journal of a dead process
IsHot(f) == journal # NoJournal /\ journal.hot /\ ~Holds(f)

FilesInit ==
    /\ cacheFile = 1
    /\ \E there \in SUBSET Assets :
          pages = [f \in Files |-> [bodies |-> IF f = 1 THEN there ELSE {}, torn |-> FALSE]]
    /\ journal = NoJournal
    /\ mat = AtRest
    /\ reader = [r \in Readers |-> AtRest]

\* Mutant of ReplaceFile: the new contents are copied over the old file.
ReplaceInPlace ==
    /\ cacheFile < MaxFiles
    /\ \E there \in SUBSET Assets :
          pages' = [pages EXCEPT ![cacheFile] = [bodies |-> there, torn |-> FALSE]]
    /\ UNCHANGED <<cacheFile, journal, mat, reader>>

\* os.replace of the synchroniser: a file with some of the bodies
ReplaceFile ==
    /\ cacheFile < MaxFiles
    /\ cacheFile' = cacheFile + 1
    /\ \E there \in SUBSET Assets :
          pages' = [pages EXCEPT ![cacheFile + 1] = [bodies |-> there, torn |-> FALSE]]
    /\ UNCHANGED <<journal, mat, reader>>

-----------------------------------------------------------------------------
(* materialize_cache_assets *)

Work(m) == mat' = m /\ UNCHANGED <<cacheFile, reader>>

\* Mutant of NoSidecar: the check is left out.
NoSidecarUnchecked == TRUE

\* _cache_connection looks for -wal, -shm and -journal next to the path.
NoSidecar == journal = NoJournal

CheckSidecars ==
    /\ mat.stage = "idle"
    /\ NoSidecar
    /\ Work([stage |-> "checked"])
    /\ UNCHANGED <<pages, journal>>

\* Then it connects: to the file that is at the path by now.
Connect ==
    /\ mat.stage = "checked"
    /\ Work([stage |-> "connected", file |-> cacheFile])
    /\ UNCHANGED <<pages, journal>>

\* The first statement of a connection rolls a hot journal back into the file
\* of the connection: the old pages if they are its own, a damaged file if not.
RollBack(f) ==
    IF IsHot(f)
    THEN /\ pages' = [pages EXCEPT ![f] = [bodies |-> journal.before,
                                           torn |-> journal.file # f]]
         /\ journal' = NoJournal
    ELSE UNCHANGED <<pages, journal>>

\* _verified_rows: quick_check, and the rows without a body
ReadRows ==
    /\ mat.stage = "connected"
    /\ RollBack(mat.file)
    /\ Work(IF pages'[mat.file].torn THEN AtRest
            ELSE [stage |-> "rows", file |-> mat.file,
                  todo |-> Assets \ pages'[mat.file].bodies])

\* A body arrives and the UPDATE begins: a journal is created.
Update(a) ==
    /\ mat.stage = "rows"
    /\ a \in mat.todo
    /\ mat.file = cacheFile
    /\ journal' = [file |-> mat.file, before |-> pages[mat.file].bodies, hot |-> FALSE]
    /\ Work([stage |-> "update", file |-> mat.file, todo |-> mat.todo, asset |-> a])
    /\ UNCHANGED pages

\* Nobody may be reading the file when its pages are written.
NotRead(f) == \A r \in Readers : reader[r].stage = "reading" => reader[r].file # f

\* The header of the journal is written, and after it the first page of the
\* file: in the UPDATE when a body is larger than the page cache, in the
\* COMMIT otherwise.
WritePages ==
    /\ mat.stage = "update"
    /\ NotRead(mat.file)
    /\ journal' = [journal EXCEPT !.hot = TRUE]
    /\ pages' = [pages EXCEPT ![mat.file].torn = TRUE]
    /\ Work([mat EXCEPT !.stage = "commit"])

\* All pages are in the file, the journal is removed.
CommitRow ==
    /\ mat.stage = "commit"
    /\ pages' = [pages EXCEPT ![mat.file] = [bodies |-> @.bodies \cup {mat.asset},
                                             torn |-> FALSE]]
    /\ journal' = NoJournal
    /\ Work([stage |-> "rows", file |-> mat.file, todo |-> mat.todo \ {mat.asset}])

\* A fetch fails, the file was moved or stays locked: the transaction, if
\* there is one, is rolled back and the script ends.
GiveUp ==
    /\ mat.stage \notin {"idle"}
    /\ IF mat.stage \in {"update", "commit"}
       THEN /\ pages' = [pages EXCEPT ![mat.file].torn = FALSE]
            /\ journal' = NoJournal
       ELSE UNCHANGED <<pages, journal>>
    /\ Work(AtRest)

\* No row is left: verify_materialized_cache looks for sidecars again,
VerifyAgain ==
    /\ mat.stage = "rows"
    /\ mat.todo = {}
    /\ NoSidecar
    /\ Work([stage |-> "verify"])
    /\ UNCHANGED <<pages, journal>>

\* connects again,
Reopen ==
    /\ mat.stage = "verify"
    /\ Work([stage |-> "reopened", file |-> cacheFile])
    /\ UNCHANGED <<pages, journal>>

\* and reads the rows: the script ends well if they all have their bodies.
Finished ==
    /\ mat.stage = "reopened"
    /\ RollBack(mat.file)
    /\ Work(AtRest)

\* The process is killed: its files stay as they are.
KillMaterialiser ==
    /\ mat.stage # "idle"
    /\ Work(AtRest)
    /\ UNCHANGED <<pages, journal>>

-----------------------------------------------------------------------------
(* Requests *)

Request(r, q) == reader' = [reader EXCEPT ![r] = q] /\ UNCHANGED <<cacheFile, pages, journal, mat>>

\* A read-only connection to the file at the path
OpenReader(r) ==
    /\ reader[r].stage = "idle"
    /\ Request(r, [stage |-> "open", file |-> cacheFile])

\* The file is not being written, and no journal would have to be rolled back.
MayRead(f) == ~(mat.stage = "commit" /\ mat.file = f) /\ ~IsHot(f)

\* BEGIN and the first read
BeginRead(r) ==
    /\ reader[r].stage = "open"
    /\ MayRead(reader[r].file)
    /\ Request(r, [stage |-> "reading", file |-> reader[r].file])

\* CacheUnavailable, or the end of a request
CloseReader(r) ==
    /\ reader[r].stage # "idle"
    /\ Request(r, AtRest)

Materialise ==
    \/ CheckSidecars \/ Connect \/ ReadRows
    \/ \E a \in Assets : Update(a)
    \/ WritePages \/ CommitRow \/ GiveUp
    \/ VerifyAgain \/ Reopen \/ Finished \/ KillMaterialiser

FilesNext ==
    \/ ReplaceFile
    \/ Materialise
    \/ \E r \in Readers : OpenReader(r) \/ BeginRead(r) \/ CloseReader(r)

FilesSpec == FilesInit /\ [][FilesNext]_fileVars

-----------------------------------------------------------------------------
(* Properties *)

\* No request reads half of a transaction, or a file that another file's
\* journal was rolled back into: not after a kill in the middle of a commit,
\* not after a new file was moved over the torn one, not when the script is
\* started again.
ReadersNeverTorn ==
    \A r \in Readers : reader[r].stage = "reading" => ~pages[reader[r].file].torn

\* What a request sees: nothing, one set of bodies, or, in a torn file, more
\* than one.
Seen(r) ==
    IF reader[r].stage # "reading" THEN {}
    ELSE IF pages[reader[r].file].torn THEN SUBSET {NoJournal} ELSE {pages[reader[r].file].bodies}

Contents == [f \in Files |-> pages[f].bodies]

Atomic == INSTANCE AtomicCache WITH current <- cacheFile, stored <- Contents,
                                    view <- [r \in Readers |-> Seen(r)]

\* To the readers the steps of a commit, kills, restarts and replacements are
\* whole commits and whole files.
ImplementsAtomicCache == Atomic!AtomicSpec

\* "It is restart-safe": once a materialiser is gone, the next one is not
\* turned away because of what the last one left behind.
RestartSafe == mat.stage = "idle" => NoSidecar

-----------------------------------------------------------------------------
(* The inductive invariant behind them *)

FilesTypeOK ==
    /\ cacheFile \in Files
    /\ pages \in [Files -> Pages]
    /\ journal \in Journal \cup {NoJournal}
    /\ mat \in Materialiser
    /\ reader \in [Readers -> Reader]

\* A torn file has its own hot journal at the path.
TornIsGuarded ==
    \A f \in Files : pages[f].torn =>
        /\ journal # NoJournal
        /\ journal.hot
        /\ journal.file = f

\* A materialiser between two transactions sees no journal, within one its own.
OwnJournal ==
    /\ mat.stage \in {"checked", "connected", "rows", "verify", "reopened"} => journal = NoJournal
    /\ mat.stage \in {"update", "commit"} =>
          /\ journal # NoJournal
          /\ journal.file = mat.file
          /\ journal.hot = (mat.stage = "commit")
    /\ mat.stage = "commit" => NotRead(mat.file)

\* Nobody has a file that is not there yet.
NoneAhead ==
    /\ mat.stage \in {"connected", "rows", "update", "commit", "reopened"} => mat.file <= cacheFile
    /\ \A r \in Readers : reader[r].stage # "idle" => reader[r].file <= cacheFile

FilesInv == FilesTypeOK /\ TornIsGuarded /\ OwnJournal /\ NoneAhead /\ ReadersNeverTorn
=============================================================================
