-------------------------- MODULE CacheFilesProofs --------------------------
(***************************************************************************)
(* No reader of the content cache meets a torn file, and what the steps of *)
(* the materialiser, its deaths and the replacements of the file look like *)
(* to readers is the abstract module AtomicCache.                          *)
(*                                                                         *)
(* The argument: a torn file is always guarded by its own hot journal,     *)
(* because a materialiser begins a transaction only when no journal is     *)
(* left at the path, and readers stay away from what a journal guards.     *)
(***************************************************************************)
EXTENDS CacheFiles, TLAPS

LEMMA FilesInitial == FilesInit => FilesInv
<1> SUFFICES ASSUME FilesInit PROVE FilesInv
  OBVIOUS
<1>1. cacheFile \in Files /\ 1 \in Files
  BY FilesAssumption DEF FilesInit, Files
<1>2. pages \in [Files -> Pages] /\ \A f \in Files : ~pages[f].torn
  BY DEF FilesInit, Pages
<1>3. mat \in Materialiser /\ reader \in [Readers -> Reader]
  BY DEF FilesInit, AtRest, Materialiser, Reader
<1>4. QED
  BY <1>1, <1>2, <1>3 DEF FilesInit, AtRest, FilesInv, FilesTypeOK, TornIsGuarded, OwnJournal, NoneAhead,
                          ReadersNeverTorn

\* What the stage of the materialiser says of its record
LEMMA MatFields ==
    ASSUME FilesTypeOK
    PROVE  /\ mat.stage \in {"connected", "rows", "update", "commit", "reopened"} => mat.file \in Files
           /\ mat.stage \in {"rows", "update", "commit"} => mat.todo \subseteq Assets
           /\ mat.stage \in {"update", "commit"} =>
                 /\ mat.asset \in Assets
                 /\ mat = [stage |-> mat.stage, file |-> mat.file, todo |-> mat.todo, asset |-> mat.asset]
           /\ mat.stage \in {"idle", "checked", "verify", "connected", "rows", "update", "commit", "reopened"}
  BY DEF FilesTypeOK, Materialiser

LEMMA ReaderFields ==
    ASSUME FilesTypeOK, NEW r \in Readers
    PROVE  /\ reader[r] \in Reader
           /\ reader[r].stage \in {"idle", "open", "reading"}
           /\ reader[r].stage # "idle" => reader[r].file \in Files
<1>1. reader[r] \in Reader
  BY DEF FilesTypeOK
<1>2. QED
  BY <1>1 DEF Reader

LEMMA PageFields ==
    ASSUME FilesTypeOK, NEW f \in Files
    PROVE  pages[f] \in Pages /\ pages[f].bodies \subseteq Assets /\ pages[f].torn \in BOOLEAN
<1>1. pages[f] \in Pages
  BY DEF FilesTypeOK
<1>2. QED
  BY <1>1 DEF Pages

\* A materialiser that reads the rows finds no journal to roll back.
LEMMA NothingToRollBack ==
    ASSUME FilesInv, mat.stage \in {"connected", "reopened"}, RollBack(mat.file)
    PROVE  UNCHANGED <<pages, journal>> /\ journal = NoJournal
  BY DEF FilesInv, OwnJournal, RollBack, IsHot

LEMMA ReplaceStep == FilesInv /\ ReplaceFile => FilesInv'
<1> SUFFICES ASSUME FilesInv, ReplaceFile PROVE FilesInv'
  OBVIOUS
<1>1. FilesTypeOK /\ cacheFile \in Nat /\ MaxFiles \in Nat
  BY FilesAssumption DEF FilesInv, FilesTypeOK, Files
<1>2. PICK there \in SUBSET Assets :
          pages' = [pages EXCEPT ![cacheFile + 1] = [bodies |-> there, torn |-> FALSE]]
  BY DEF ReplaceFile
<1>3. cacheFile' = cacheFile + 1 /\ cacheFile + 1 \in Files /\ UNCHANGED <<journal, mat, reader>>
  BY <1>1 DEF ReplaceFile, Files, FilesInv, FilesTypeOK
<1>4. FilesTypeOK'
  <2>1. [bodies |-> there, torn |-> FALSE] \in Pages
    BY DEF Pages
  <2>2. QED
    BY <1>1, <1>2, <1>3, <2>1 DEF FilesTypeOK
<1>5. \A f \in Files : pages'[f] = IF f = cacheFile + 1 THEN [bodies |-> there, torn |-> FALSE] ELSE pages[f]
  BY <1>1, <1>2 DEF FilesTypeOK
<1>6. TornIsGuarded' /\ OwnJournal'
  BY <1>3, <1>5 DEF FilesInv, TornIsGuarded, OwnJournal, NotRead
<1>7. NoneAhead'
  <2>1. ASSUME mat.stage \in {"connected", "rows", "update", "commit", "reopened"}
        PROVE  mat.file <= cacheFile + 1
    BY <1>1, <2>1, MatFields DEF FilesInv, NoneAhead, Files
  <2>2. ASSUME NEW r \in Readers, reader[r].stage # "idle" PROVE reader[r].file <= cacheFile + 1
    BY <1>1, <2>2, ReaderFields DEF FilesInv, NoneAhead, Files
  <2>3. QED
    BY <1>3, <2>1, <2>2 DEF NoneAhead
<1>8. ReadersNeverTorn'
  <2>1. ASSUME NEW r \in Readers, reader[r].stage = "reading" PROVE ~pages'[reader[r].file].torn
    <3>1. reader[r].file \in Files /\ reader[r].file <= cacheFile
      BY <1>1, <2>1, ReaderFields DEF FilesInv, NoneAhead
    <3>2. reader[r].file # cacheFile + 1
      BY <1>1, <3>1 DEF Files
    <3>3. QED
      BY <1>5, <2>1, <3>1, <3>2 DEF FilesInv, ReadersNeverTorn
  <2>2. QED
    BY <1>3, <2>1 DEF ReadersNeverTorn
<1>9. QED
  BY <1>4, <1>6, <1>7, <1>8 DEF FilesInv

\* The materialiser turns to another stage and leaves the files alone.
LEMMA TurnOfMaterialiser ==
    ASSUME FilesInv, NEW m \in Materialiser, Work(m), UNCHANGED <<pages, journal>>,
           m.stage \in {"connected", "rows", "reopened"} => m.file <= cacheFile,
           m.stage \in {"idle", "checked", "verify", "connected", "rows", "reopened"},
           m.stage # "idle" => journal = NoJournal
    PROVE  FilesInv'
<1>1. mat' = m /\ UNCHANGED <<cacheFile, pages, journal, reader>>
  BY DEF Work
<1>2. FilesTypeOK' /\ TornIsGuarded' /\ ReadersNeverTorn'
  BY <1>1 DEF FilesInv, FilesTypeOK, TornIsGuarded, ReadersNeverTorn
<1>3. OwnJournal' /\ NoneAhead'
  BY <1>1 DEF FilesInv, OwnJournal, NoneAhead
<1>4. QED
  BY <1>2, <1>3 DEF FilesInv

LEMMA QuietStep ==
    ASSUME FilesInv,
           CheckSidecars \/ Connect \/ ReadRows \/ VerifyAgain \/ Reopen \/ Finished \/ KillMaterialiser
    PROVE  FilesInv' /\ UNCHANGED <<cacheFile, pages, reader>>
<1>1. FilesTypeOK /\ cacheFile \in Files /\ cacheFile <= cacheFile
  BY FilesAssumption DEF FilesInv, FilesTypeOK, Files
<1>2. CASE CheckSidecars
  BY <1>2, TurnOfMaterialiser DEF CheckSidecars, Work, Materialiser, NoSidecar
<1>3. CASE Connect
  <2>1. journal = NoJournal /\ UNCHANGED <<cacheFile, pages, journal, reader>>
    BY <1>3 DEF Connect, Work, FilesInv, OwnJournal
  <2>2. [stage |-> "connected", file |-> cacheFile] \in Materialiser
    BY <1>1 DEF Materialiser
  <2>3. QED
    BY <1>1, <1>3, <2>1, <2>2, TurnOfMaterialiser DEF Connect
<1>4. CASE ReadRows
  <2>1. UNCHANGED <<pages, journal, cacheFile, reader>> /\ journal = NoJournal
    BY <1>4, NothingToRollBack DEF ReadRows, Work
  <2>2. mat.file \in Files /\ mat.file <= cacheFile
    BY <1>1, <1>4, MatFields DEF ReadRows, FilesInv, NoneAhead
  <2>3. AtRest \in Materialiser /\ AtRest.stage = "idle"
    BY DEF AtRest, Materialiser
  <2>4. [stage |-> "rows", file |-> mat.file, todo |-> Assets \ pages'[mat.file].bodies] \in Materialiser
    BY <2>2 DEF Materialiser
  <2>5. CASE pages'[mat.file].torn
    BY <1>4, <2>1, <2>3, <2>5, TurnOfMaterialiser DEF ReadRows
  <2>6. CASE ~pages'[mat.file].torn
    BY <1>4, <2>1, <2>2, <2>4, <2>6, TurnOfMaterialiser DEF ReadRows
  <2>7. QED
    BY <2>5, <2>6
<1>5. CASE VerifyAgain
  BY <1>5, TurnOfMaterialiser DEF VerifyAgain, Work, Materialiser, NoSidecar
<1>6. CASE Reopen
  <2>1. journal = NoJournal /\ UNCHANGED <<cacheFile, pages, journal, reader>>
    BY <1>6 DEF Reopen, Work, FilesInv, OwnJournal
  <2>2. [stage |-> "reopened", file |-> cacheFile] \in Materialiser
    BY <1>1 DEF Materialiser
  <2>3. QED
    BY <1>1, <1>6, <2>1, <2>2, TurnOfMaterialiser DEF Reopen
<1>7. CASE Finished
  <2>1. UNCHANGED <<pages, journal, cacheFile, reader>>
    BY <1>7, NothingToRollBack DEF Finished, Work
  <2>2. QED
    BY <1>7, <2>1, TurnOfMaterialiser DEF Finished, AtRest, Materialiser
<1>8. CASE KillMaterialiser
  BY <1>8, TurnOfMaterialiser DEF KillMaterialiser, AtRest, Materialiser, Work
<1>9. QED
  BY <1>2, <1>3, <1>4, <1>5, <1>6, <1>7, <1>8

LEMMA UpdateStep ==
    ASSUME FilesInv, NEW a \in Assets, Update(a)
    PROVE  FilesInv' /\ UNCHANGED <<cacheFile, pages, reader>>
<1> DEFINE m == [stage |-> "update", file |-> mat.file, todo |-> mat.todo, asset |-> a]
           j == [file |-> mat.file, before |-> pages[mat.file].bodies, hot |-> FALSE]
<1>1. /\ mat' = m /\ journal' = j /\ UNCHANGED <<cacheFile, pages, reader>>
      /\ mat.stage = "rows" /\ mat.file \in Files /\ mat.todo \subseteq Assets /\ mat.file <= cacheFile
  BY MatFields DEF Update, Work, FilesInv, NoneAhead
<1>2. m \in Materialiser /\ j \in Journal /\ j # NoJournal
  <2>1. pages[mat.file].bodies \subseteq Assets
    BY <1>1, PageFields DEF FilesInv
  <2>2. j \in [file : Files, before : SUBSET Assets, hot : BOOLEAN]
    BY <1>1, <2>1
  <2>3. QED
    BY <1>1, <2>2, FilesAssumption DEF Materialiser, Journal
<1>3. \A f \in Files : ~pages[f].torn
  BY <1>1 DEF FilesInv, TornIsGuarded, OwnJournal
<1>4. FilesTypeOK' /\ TornIsGuarded' /\ ReadersNeverTorn'
  BY <1>1, <1>2, <1>3 DEF FilesInv, FilesTypeOK, TornIsGuarded, ReadersNeverTorn
<1>5. OwnJournal' /\ NoneAhead'
  BY <1>1, <1>2 DEF FilesInv, OwnJournal, NoneAhead
<1>6. QED
  BY <1>1, <1>4, <1>5 DEF FilesInv

LEMMA WriteStep ==
    ASSUME FilesInv, WritePages
    PROVE  /\ FilesInv' /\ UNCHANGED <<cacheFile, reader>>
           /\ \A f \in Files : pages'[f].bodies = pages[f].bodies
           /\ \A r \in Readers : reader[r].stage = "reading" => ~pages'[reader[r].file].torn
<1> DEFINE m == [mat EXCEPT !.stage = "commit"]
<1>1. /\ mat' = m /\ UNCHANGED <<cacheFile, reader>> /\ mat.stage = "update" /\ FilesTypeOK
      /\ mat.file \in Files /\ mat.todo \subseteq Assets /\ mat.asset \in Assets /\ mat.file <= cacheFile
  BY MatFields DEF WritePages, Work, FilesInv, NoneAhead
<1>2. m = [stage |-> "commit", file |-> mat.file, todo |-> mat.todo, asset |-> mat.asset]
  <2>1. mat = [stage |-> mat.stage, file |-> mat.file, todo |-> mat.todo, asset |-> mat.asset]
    BY <1>1, MatFields
  <2>2. QED
    BY <2>1
<1>3. m \in Materialiser /\ m.stage = "commit" /\ m.file = mat.file
  BY <1>1, <1>2 DEF Materialiser
<1>4. /\ journal # NoJournal /\ journal \in Journal /\ journal.file = mat.file
      /\ journal' = [journal EXCEPT !.hot = TRUE]
  BY <1>1 DEF FilesInv, FilesTypeOK, OwnJournal, WritePages
<1>5. journal' \in Journal /\ journal' # NoJournal /\ journal'.hot /\ journal'.file = mat.file
  <2>1. journal' \in [file : Files, before : SUBSET Assets, hot : BOOLEAN]
        /\ journal'.hot /\ journal'.file = mat.file
    BY <1>4 DEF Journal
  <2>2. QED
    BY <2>1, FilesAssumption DEF Journal
<1>6. /\ pages' \in [Files -> Pages]
      /\ \A f \in Files : /\ pages'[f].bodies = pages[f].bodies
                          /\ pages'[f].torn = IF f = mat.file THEN TRUE ELSE pages[f].torn
  <2>1. pages' = [pages EXCEPT ![mat.file].torn = TRUE] /\ pages \in [Files -> Pages]
    BY <1>1 DEF WritePages, FilesTypeOK
  <2>2. QED
    BY <1>1, <2>1 DEF Pages
<1>7. \A f \in Files : ~pages[f].torn
  BY <1>1 DEF FilesInv, TornIsGuarded, OwnJournal
<1>8. \A r \in Readers : reader[r].stage = "reading" => reader[r].file # mat.file
  BY DEF WritePages, NotRead
<1>9. \A r \in Readers : reader[r].stage = "reading" => ~pages'[reader[r].file].torn
  BY <1>1, <1>6, <1>7, <1>8, ReaderFields
<1>10. FilesTypeOK' /\ TornIsGuarded' /\ ReadersNeverTorn'
  <2>1. FilesTypeOK'
    BY <1>1, <1>3, <1>5, <1>6 DEF FilesTypeOK
  <2>2. QED
    BY <1>1, <1>5, <1>6, <1>7, <1>9, <2>1 DEF TornIsGuarded, ReadersNeverTorn
<1>11. OwnJournal' /\ NoneAhead'
  BY <1>1, <1>3, <1>5, <1>8 DEF FilesInv, OwnJournal, NoneAhead, NotRead
<1>12. QED
  BY <1>1, <1>6, <1>9, <1>10, <1>11 DEF FilesInv

\* The end of a transaction: one file has these bodies now and the journal is
\* gone.
LEMMA EndOfTransaction ==
    ASSUME FilesInv, mat.stage \in {"update", "commit"},
           NEW bodies \in SUBSET Assets,
           pages' = [pages EXCEPT ![mat.file] = [bodies |-> bodies, torn |-> FALSE]],
           journal' = NoJournal,
           NEW m \in Materialiser, Work(m),
           \/ m.stage = "rows" /\ m.file = mat.file
           \/ m.stage = "idle"
    PROVE  FilesInv'
<1>1. /\ mat' = m /\ UNCHANGED <<cacheFile, reader>> /\ FilesTypeOK
      /\ mat.file \in Files /\ mat.file <= cacheFile
  BY MatFields DEF Work, FilesInv, NoneAhead
<1>2. [bodies |-> bodies, torn |-> FALSE] \in Pages
  BY DEF Pages
<1>3. FilesTypeOK'
  BY <1>1, <1>2 DEF FilesTypeOK
<1>4. \A f \in Files : pages'[f] = IF f = mat.file THEN [bodies |-> bodies, torn |-> FALSE] ELSE pages[f]
  BY <1>1 DEF FilesTypeOK
<1>5. \A f \in Files : ~pages'[f].torn
  BY <1>4 DEF FilesInv, TornIsGuarded, OwnJournal
<1>6. TornIsGuarded' /\ ReadersNeverTorn'
  <2>1. \A r \in Readers : reader[r].stage = "reading" => reader[r].file \in Files
    BY <1>1, ReaderFields
  <2>2. QED
    BY <1>1, <1>5, <2>1 DEF TornIsGuarded, ReadersNeverTorn
<1>7. OwnJournal' /\ NoneAhead'
  BY <1>1 DEF FilesInv, OwnJournal, NoneAhead
<1>8. QED
  BY <1>3, <1>6, <1>7 DEF FilesInv

LEMMA CommitStep ==
    ASSUME FilesInv, CommitRow
    PROVE  /\ FilesInv' /\ UNCHANGED <<cacheFile, reader>>
           /\ mat.file \in Files /\ mat.asset \in Assets
           /\ \A f \in Files : pages'[f].bodies =
                 IF f = mat.file THEN pages[f].bodies \cup {mat.asset} ELSE pages[f].bodies
           /\ \A r \in Readers : reader[r].stage = "reading" => reader[r].file # mat.file
<1> DEFINE bodies == pages[mat.file].bodies \cup {mat.asset}
           m == [stage |-> "rows", file |-> mat.file, todo |-> mat.todo \ {mat.asset}]
<1>1. /\ mat.stage = "commit" /\ FilesTypeOK /\ mat.file \in Files
      /\ mat.todo \subseteq Assets /\ mat.asset \in Assets
  BY MatFields DEF CommitRow, FilesInv
<1>2. bodies \in SUBSET Assets /\ m \in Materialiser /\ m.stage = "rows" /\ m.file = mat.file
  BY <1>1, PageFields DEF Materialiser
<1>3. pages' = [pages EXCEPT ![mat.file] = [bodies |-> bodies, torn |-> FALSE]]
  BY <1>1 DEF CommitRow, FilesTypeOK
<1>4. journal' = NoJournal /\ Work(m)
  BY DEF CommitRow
<1>5. FilesInv'
  BY <1>1, <1>2, <1>3, <1>4, EndOfTransaction
<1>6. \A f \in Files : pages'[f] = IF f = mat.file THEN [bodies |-> bodies, torn |-> FALSE] ELSE pages[f]
  BY <1>1, <1>3 DEF FilesTypeOK
<1>7. QED
  BY <1>1, <1>4, <1>5, <1>6 DEF Work, FilesInv, OwnJournal, NotRead

LEMMA Untorn ==
    ASSUME NEW p \in Pages
    PROVE  [p EXCEPT !.torn = FALSE] = [bodies |-> p.bodies, torn |-> FALSE]
<1> DEFINE q == [p EXCEPT !.torn = FALSE]
<1>1. q \in Pages /\ q.bodies = p.bodies /\ q.torn = FALSE
  BY DEF Pages
<1> HIDE DEF q
<1>2. \E bodies \in SUBSET Assets, torn \in BOOLEAN : q = [bodies |-> bodies, torn |-> torn]
  BY <1>1, Zenon DEF Pages
<1>3. q = [bodies |-> p.bodies, torn |-> FALSE]
  BY <1>1, <1>2
<1>4. QED
  BY <1>3 DEF q

LEMMA GiveUpStep ==
    ASSUME FilesInv, GiveUp
    PROVE  /\ FilesInv' /\ UNCHANGED <<cacheFile, reader>>
           /\ \A f \in Files : pages'[f].bodies = pages[f].bodies
           /\ \A r \in Readers : reader[r].stage = "reading" => ~pages'[reader[r].file].torn
<1>1. FilesTypeOK /\ AtRest \in Materialiser /\ AtRest.stage = "idle" /\ Work(AtRest)
  BY DEF GiveUp, FilesInv, AtRest, Materialiser
<1>2. CASE mat.stage \in {"update", "commit"}
  <2>1. mat.file \in Files /\ pages[mat.file] \in Pages /\ pages[mat.file].bodies \in SUBSET Assets
    BY <1>1, <1>2, MatFields, PageFields
  <2>2. pages' = [pages EXCEPT ![mat.file].torn = FALSE] /\ journal' = NoJournal
    BY <1>2 DEF GiveUp
  <2>3. pages' = [pages EXCEPT ![mat.file] = [bodies |-> pages[mat.file].bodies, torn |-> FALSE]]
    <3>1. [pages[mat.file] EXCEPT !.torn = FALSE] = [bodies |-> pages[mat.file].bodies, torn |-> FALSE]
      BY <2>1, Untorn
    <3>2. QED
      BY <2>2, <3>1
  <2>4. FilesInv'
    BY <1>1, <1>2, <2>1, <2>2, <2>3, EndOfTransaction
  <2>5. \A f \in Files : pages'[f].bodies = pages[f].bodies
    BY <1>1, <2>1, <2>3 DEF FilesTypeOK
  <2>6. QED
    BY <1>1, <2>4, <2>5 DEF Work, FilesInv, ReadersNeverTorn
<1>3. CASE mat.stage \notin {"update", "commit"}
  <2>1. UNCHANGED <<pages, journal>>
    BY <1>3 DEF GiveUp
  <2>2. FilesInv'
    BY <1>1, <2>1, TurnOfMaterialiser
  <2>3. QED
    BY <1>1, <2>1, <2>2 DEF Work, FilesInv, ReadersNeverTorn
<1>4. QED
  BY <1>2, <1>3

\* What a request may read is whole.
LEMMA ReadableIsWhole ==
    ASSUME FilesInv, NEW f \in Files, MayRead(f)
    PROVE  ~pages[f].torn
<1> SUFFICES ASSUME pages[f].torn PROVE FALSE
  OBVIOUS
<1>1. journal # NoJournal /\ journal.hot /\ journal.file = f
  BY DEF FilesInv, TornIsGuarded
<1>2. Holds(f) /\ mat.stage # "commit"
  BY <1>1 DEF MayRead, IsHot, Holds
<1>3. QED
  BY <1>1, <1>2 DEF Holds, FilesInv, OwnJournal

LEMMA RequestStep ==
    ASSUME FilesInv, NEW r \in Readers, OpenReader(r) \/ BeginRead(r) \/ CloseReader(r)
    PROVE  /\ FilesInv' /\ UNCHANGED <<cacheFile, pages>>
           /\ \A s \in Readers \ {r} : reader'[s] = reader[s]
<1>1. FilesTypeOK /\ cacheFile \in Files /\ cacheFile <= cacheFile
  BY FilesAssumption DEF FilesInv, FilesTypeOK, Files
<1>2. PICK q \in Reader :
          /\ Request(r, q)
          /\ q.stage # "idle" => q.file \in Files /\ q.file <= cacheFile
          /\ q.stage = "reading" => MayRead(q.file)
  <2>1. CASE OpenReader(r)
    <3>1. [stage |-> "open", file |-> cacheFile] \in Reader
      BY <1>1 DEF Reader
    <3>2. QED
      BY <1>1, <2>1, <3>1 DEF OpenReader
  <2>2. CASE BeginRead(r)
    <3>1. reader[r].file \in Files /\ reader[r].file <= cacheFile
      BY <1>1, <2>2, ReaderFields DEF BeginRead, FilesInv, NoneAhead
    <3>2. [stage |-> "reading", file |-> reader[r].file] \in Reader
      BY <3>1 DEF Reader
    <3>3. QED
      BY <2>2, <3>1, <3>2 DEF BeginRead
  <2>3. CASE CloseReader(r)
    <3>1. AtRest \in Reader /\ AtRest.stage = "idle"
      BY DEF AtRest, Reader
    <3>2. QED
      BY <2>3, <3>1 DEF CloseReader
  <2>4. QED
    BY <2>1, <2>2, <2>3
<1>3. /\ reader' = [reader EXCEPT ![r] = q] /\ UNCHANGED <<cacheFile, pages, journal, mat>>
      /\ \A s \in Readers : reader'[s] = IF s = r THEN q ELSE reader[s]
  BY <1>1, <1>2 DEF Request, FilesTypeOK
<1>4. FilesTypeOK' /\ TornIsGuarded'
  BY <1>1, <1>3 DEF FilesInv, FilesTypeOK, TornIsGuarded
<1>5. NoneAhead' /\ ReadersNeverTorn'
  BY <1>2, <1>3, ReadableIsWhole DEF FilesInv, NoneAhead, ReadersNeverTorn
<1>6. OwnJournal'
  <2>1. q.stage = "reading" /\ mat.stage = "commit" => q.file # mat.file
    BY <1>2 DEF MayRead
  <2>2. QED
    BY <1>3, <2>1 DEF FilesInv, OwnJournal, NotRead
<1>7. QED
  BY <1>3, <1>4, <1>5, <1>6 DEF FilesInv

LEMMA FilesStep ==
    ASSUME FilesInv, [FilesNext]_fileVars
    PROVE  FilesInv'
<1>1. CASE UNCHANGED fileVars
  BY <1>1 DEF fileVars, FilesInv, FilesTypeOK, TornIsGuarded, OwnJournal, NotRead, NoneAhead, ReadersNeverTorn
<1>2. CASE FilesNext
  BY <1>2, ReplaceStep, QuietStep, UpdateStep, WriteStep, CommitStep, GiveUpStep, RequestStep
     DEF FilesNext, Materialise
<1>3. QED
  BY <1>1, <1>2

LEMMA FilesInvariant == FilesSpec => []FilesInv
<1>1. FilesInv /\ [FilesNext]_fileVars => FilesInv'
  BY FilesStep
<1>2. QED
  BY <1>1, FilesInitial, PTL DEF FilesSpec

\* No request reads a torn file, whenever the materialiser was killed and
\* whatever was moved over the cache since.
THEOREM NeverTorn == FilesSpec => []ReadersNeverTorn
<1>1. FilesInv => ReadersNeverTorn
  BY DEF FilesInv
<1>2. QED
  BY <1>1, FilesInvariant, PTL

-----------------------------------------------------------------------------
(* The refinement *)

LEMMA SeenWhole ==
    ASSUME FilesInv, NEW r \in Readers
    PROVE  Seen(r) = IF reader[r].stage = "reading" THEN {pages[reader[r].file].bodies} ELSE {}
  BY DEF Seen, FilesInv, ReadersNeverTorn

\* What readers see changes only with their own steps.
LEMMA SeenStays ==
    ASSUME FilesInv, FilesInv', NEW r \in Readers, reader'[r] = reader[r],
           reader[r].stage = "reading" =>
              pages'[reader[r].file].bodies = pages[reader[r].file].bodies
    PROVE  Seen(r)' = Seen(r)
  BY DEF Seen, FilesInv, ReadersNeverTorn

LEMMA AtomicInitial == FilesInit => Atomic!AtomicInit
<1> SUFFICES ASSUME FilesInit PROVE Atomic!AtomicInit
  OBVIOUS
<1>1. FilesTypeOK
  BY FilesInitial DEF FilesInv
<1>2. Contents \in [Files -> SUBSET Assets]
  BY <1>1, PageFields DEF Contents
<1>3. \A r \in Readers : Seen(r) = {}
  BY DEF FilesInit, AtRest, Seen
<1>4. QED
  BY <1>1, <1>2, <1>3 DEF FilesTypeOK, Atomic!AtomicInit

LEMMA AtomicStep ==
    ASSUME FilesInv, FilesInv', [FilesNext]_fileVars
    PROVE  [Atomic!AtomicNext]_(Atomic!atomicVars)
<1> DEFINE views == [r \in Readers |-> Seen(r)]
<1>1. FilesTypeOK /\ cacheFile \in Nat /\ cacheFile \in Files
  BY FilesAssumption DEF FilesInv, FilesTypeOK, Files
<1>2. ASSUME UNCHANGED cacheFile, \A f \in Files : pages'[f].bodies = pages[f].bodies,
             UNCHANGED reader
      PROVE  UNCHANGED Atomic!atomicVars
  <2>1. Contents' = Contents
    BY <1>2 DEF Contents
  <2>2. \A r \in Readers : Seen(r)' = Seen(r)
    BY <1>1, <1>2, ReaderFields, SeenStays
  <2>3. QED
    BY <1>2, <2>1, <2>2 DEF Atomic!atomicVars
<1>3. CASE UNCHANGED fileVars
  BY <1>2, <1>3 DEF fileVars
<1>4. CASE ReplaceFile
  <2>1. PICK there \in SUBSET Assets :
            pages' = [pages EXCEPT ![cacheFile + 1] = [bodies |-> there, torn |-> FALSE]]
    BY <1>4 DEF ReplaceFile
  <2>2. cacheFile' = cacheFile + 1 /\ cacheFile + 1 \in Files /\ UNCHANGED reader
    BY <1>1, <1>4, FilesAssumption DEF ReplaceFile, Files
  <2>3. \A f \in Files :
            pages'[f] = IF f = cacheFile + 1 THEN [bodies |-> there, torn |-> FALSE] ELSE pages[f]
    BY <1>1, <2>1 DEF FilesTypeOK
  <2>4. Contents' = [Contents EXCEPT ![cacheFile + 1] = there]
    <3>1. \A f \in Files : pages'[f].bodies = IF f = cacheFile + 1 THEN there ELSE pages[f].bodies
      BY <2>3
    <3>2. QED
      BY <2>2, <3>1 DEF Contents
  <2>5. \A r \in Readers : Seen(r)' = Seen(r)
    <3>1. ASSUME NEW r \in Readers, reader[r].stage = "reading"
          PROVE  reader[r].file \in Files /\ reader[r].file # cacheFile + 1
      BY <1>1, <3>1, ReaderFields DEF FilesInv, NoneAhead, Files
    <3>2. QED
      BY <2>2, <2>3, <3>1, SeenStays
  <2>6. Atomic!Install(cacheFile + 1)
    BY <2>2, <2>4, <2>5 DEF Atomic!Install
  <2>7. QED
    BY <1>1, <2>2, <2>6 DEF Atomic!AtomicNext
<1>5. CASE CheckSidecars \/ Connect \/ ReadRows \/ VerifyAgain \/ Reopen \/ Finished \/ KillMaterialiser
  BY <1>2, <1>5, QuietStep
<1>6. ASSUME NEW a \in Assets, Update(a) PROVE UNCHANGED Atomic!atomicVars
  BY <1>2, <1>6, UpdateStep
<1>7. CASE WritePages
  BY <1>2, <1>7, WriteStep
<1>8. CASE GiveUp
  BY <1>2, <1>8, GiveUpStep
<1>9. CASE CommitRow
  <2>1. /\ UNCHANGED <<cacheFile, reader>> /\ mat.file \in Files /\ mat.asset \in Assets
        /\ \A f \in Files : pages'[f].bodies =
              IF f = mat.file THEN pages[f].bodies \cup {mat.asset} ELSE pages[f].bodies
        /\ \A r \in Readers : reader[r].stage = "reading" => reader[r].file # mat.file
    BY <1>9, CommitStep
  <2>2. Contents' = [Contents EXCEPT ![mat.file] = @ \cup {mat.asset}]
    BY <2>1 DEF Contents
  <2>3. \A r \in Readers : Seen(r)' = Seen(r)
    BY <1>1, <2>1, ReaderFields, SeenStays
  <2>4. Atomic!Commit(mat.file, mat.asset)
    BY <2>1, <2>2, <2>3 DEF Atomic!Commit
  <2>5. QED
    BY <2>1, <2>4 DEF Atomic!AtomicNext
<1>10. ASSUME NEW r \in Readers, OpenReader(r) \/ BeginRead(r) \/ CloseReader(r)
       PROVE  Atomic!AtomicNext \/ UNCHANGED Atomic!atomicVars
  <2>1. UNCHANGED <<cacheFile, pages>> /\ \A s \in Readers \ {r} : reader'[s] = reader[s]
    BY <1>10, RequestStep
  <2>2. Contents' = Contents
    BY <2>1 DEF Contents
  <2>3. \A s \in Readers \ {r} : Seen(s)' = Seen(s)
    BY <2>1, SeenStays
  <2>4. CASE OpenReader(r)
    <3>1. reader[r].stage = "idle" /\ reader'[r].stage = "open"
      BY <1>1, <2>4 DEF OpenReader, Request, FilesTypeOK
    <3>2. Seen(r)' = Seen(r)
      BY <3>1 DEF Seen
    <3>3. QED
      BY <2>1, <2>2, <2>3, <3>2 DEF Atomic!atomicVars
  <2>5. CASE BeginRead(r)
    <3>1. /\ reader[r].stage = "open" /\ reader[r].file \in Files
          /\ reader'[r] = [stage |-> "reading", file |-> reader[r].file]
      BY <1>1, <2>5, ReaderFields DEF BeginRead, Request, FilesTypeOK
    <3>2. Seen(r) = {} /\ Seen(r)' = {pages[reader[r].file].bodies}
      BY <2>1, <3>1, SeenWhole DEF Seen, FilesInv, ReadersNeverTorn
    <3>3. views' = [views EXCEPT ![r] = {Contents[reader[r].file]}]
      BY <2>3, <3>1, <3>2 DEF Contents
    <3>4. Atomic!See(r, reader[r].file)
      BY <2>1, <2>2, <3>2, <3>3 DEF Atomic!See
    <3>5. QED
      BY <3>1, <3>4 DEF Atomic!AtomicNext
  <2>6. CASE CloseReader(r)
    <3>1. reader'[r] = AtRest
      BY <1>1, <2>6 DEF CloseReader, Request, FilesTypeOK
    <3>2. Seen(r)' = {}
      BY <3>1 DEF Seen, AtRest
    <3>3. views' = [views EXCEPT ![r] = {}]
      BY <2>3, <3>2
    <3>4. Atomic!Leave(r)
      BY <2>1, <2>2, <3>3 DEF Atomic!Leave
    <3>5. QED
      BY <3>4 DEF Atomic!AtomicNext
  <2>7. QED
    BY <1>10, <2>4, <2>5, <2>6
<1>11. QED
  BY <1>3, <1>4, <1>5, <1>6, <1>7, <1>8, <1>9, <1>10 DEF FilesNext, Materialise

\* Commits, kills, restarts and replacements are, to the readers, whole
\* commits and whole files.
THEOREM FilesRefinement == FilesSpec => ImplementsAtomicCache
<1>1. FilesInv /\ FilesInv' /\ [FilesNext]_fileVars => [Atomic!AtomicNext]_(Atomic!atomicVars)
  BY AtomicStep
<1>2. QED
  BY <1>1, AtomicInitial, FilesInvariant, PTL DEF FilesSpec, ImplementsAtomicCache, Atomic!AtomicSpec
=============================================================================
