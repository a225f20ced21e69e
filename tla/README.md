# TLA+ verification of kmqdb-ttrpg

`kmqdb-ttrpg` is the tabletop-rules part of KMQDB: a WSGI application that
serves Pathfinder sources and rules from a local SQLite cache, the scripts that
fill that cache from a central Library service, a publication format for
"semantic" rule packages, and a large compiler from rulebook text to rule
definitions. This directory holds TLA+ modules translated from that code, the
TLC configurations that check them on small instances, and proofs for every
value of their constants that TLAPS checks. `PROJECT.json` lists the components,
the runs, for each property a plausible bug that breaks it, the source lines
behind each definition, the findings, the hazards and the theorems.

Paths are relative to `src/`; `backend.py`, `ttrpg_auth.py` and
`semantic_repository.py` are under `subdomains/ttrpg/`, the compiler under
`subdomains/ttrpg/pf2er_compiler/`.

- [1 The system](#1-the-system)
- [2 The modules](#2-the-modules)
- [3 What the runs check](#3-what-the-runs-check)
- [4 What is proved](#4-what-is-proved)
- [5 Findings](#5-findings)
- [6 What is not modelled](#6-what-is-not-modelled)
- [7 Plan](#7-plan)

## 1 The system

Several worker threads of one WSGI process answer requests. They share two
SQLite files, a few module-level caches and a directory of published catalogs.
Three kinds of other processes write those files while requests run: a
synchroniser, an asset materialiser and a catalog publisher; nothing but the
file system and SQLite's locks keeps any of them apart. Beside the web process
the compiler offers families of rules at run time: an encounter engine, which is
not in this repository, calls them, and a few of them keep state between calls.

| component | state | operations | interacts with | hard behaviour |
| --- | --- | --- | --- | --- |
| Browser sessions (`ttrpg_auth.py` 677-875) | table `browser_sessions` | `create_session`, `authenticate_session`, `revoke_session` | routes of `backend.py`; the clock | clock read before a transaction that may wait ten seconds; trimming per owner; issuer changes across restarts |
| Single sign-on (`ttrpg_auth.py` 537-675, 1080-1157; `backend.py` 1538-1761) | table `pending_authorizations`, a cookie per browser | start route, callback route (consume, exchange, create a session) | browsers, central service | three separate pieces of work per callback; retries, lost responses, restarts in between; a bounded table |
| Store object (`backend.py` 178-214) | `_TTRPG_AUTH_STORE_STATE` under a lock | `ttrpg_auth_store`, connections by path | an operator at the database file | a file removed or replaced between look, construction and use |
| Signing keys (`ttrpg_auth.py` 931-957, 1080-1157) | `_JWK_CACHE` | `fetch_jwks`, verification of identity tokens | central service | the lock is not held over the request; forced refresh racing a slow one; rotation |
| Content-cache reader (`backend.py` 227-567) | connection, signature and versions of a request; `_AUTHORITY_STORE_STATE` under a lock | `open_authority_cache_connection`, `begin_validated_cache_snapshot`, `cache_connection` | synchroniser, materialiser, other requests | optimistic reading of a path that may be renamed over or written into; at most three attempts |
| Rule-target and spell indexes (`backend.py` 1073-1152) | two caches keyed by file signatures | `allowed_rule_targets`, `_indexed_spells` | releases of the menu and target files | signatures read outside the lock, files inside |
| Synchroniser (`scripts/sync_library_cache.py`) | what a run has fetched, the cache path | `main`: bookshelf, presentation, publications, sections, assets, build, verify, `os.replace` | Library service; other runs | the Library publishes during a run; parts of a response name no generation; runs overlap |
| Section fetch (`sync_library_cache.py` 1211-1314) | the work list of a run | `fetch_sections` | Library service | chapters turn up while their batch is still to come |
| Machine identity (`sync_library_cache.py` 206-281) | cached assertion and its refresh time | `authorization_header` | central service; the threads that download | expiry margin; several threads find the assertion due |
| Asset materialiser (`scripts/materialize_cache_assets.py`) | asset bodies in the cache file, its rollback journal | check for sidecars, rows, one commit per body, verification | readers, synchroniser | commits into a file that may have been replaced; killed inside a commit; started again |
| Semantic repository (`semantic_repository.py` 442-571) | destination directory, claim file, staging directories | `write_semantic_repository`, `load_semantic_repository` | other publishers, semantic service | a failure, kill or loss of power at any step |
| Semantic service (`semantic_service.py`) | lazily loaded delegate | package and asset requests | semantic repository | looked at without the lock; failed load |
| Stench (`mechanics/stench.py`) | queue of saves, pending decision, immunities | saves on entering and at the start of a turn, their results, Retch | encounter engine | each result changes who owes the rest |
| Trample activity (`mechanics/trample.py` 1669-2458) | sealed continuations | `start_trample`, `resume_trample` | encounter engine, its caller | suspended in every reaction window; old continuations presented again |
| Compound Trample (`trample.py` 2615-3081) | checkpoint between calls | `start_compound_activity`, `resume_compound_activity` | battle map | others move between choice, damage and movement |
| Other mechanics families | a few keep effects or reactions in the encounter (`slink`, `scuttle`, `battle_cry`); the others none | recognition of one rulebook text each | compiler, encounter engine | volume |
| Compiler, semantic compilation and review | none | pure functions from text and rows to definitions | reader | volume, not state |
| Publication scopes (`backend.py` 799-856), content routes | none beyond the request | functions of a request, GET handlers | reader, sessions | none of their own |
| Item durability, geometry, cover | none | pure algorithms | compiler | boundaries |
| Item catalog, rosters, image inventory, wheels, deployment, browser client | none shared | one-shot scripts, wiring | | |

The properties that make each part correct, in words:

- **Sessions.** A logout is final. Only a genuine token of an unexpired session
  of the current issuer is accepted, and such a token is refused only after a
  logout or enough newer logins of its own owner. The bound per owner holds.
- **Single sign-on.** An authorization opens at most one session, in the browser
  that began it, for the identity that approved it; the table keeps its bound,
  and an honest browser is refused for three reasons only.
- **Store object.** A request that nobody disturbed finds its tables, whatever
  happened to the file before, unless the file that is there now is refused.
- **Signing keys.** A key the service publishes all along is known when it
  counts; a withdrawn one is not believed beyond the lifetime of the cache.
- **Reader.** What a request is served from was at the path during the request;
  the shared store describes the same sources as the snapshot; a retry needs a
  write, a refusal a write or a commit that was begun and not ended; the store
  lock is always given back.
- **Indexes.** No part of an index is older than the request it answers.
- **Synchroniser.** A cache is of one generation. What names no generation was
  served while that generation was current. An old run does not undo a newer
  one, except in a window the script does not close. The sections fetched are
  the closure of the tables of contents, and an honest Library is not refused.
  No assertion is sent that has expired, if its response came in time, and none
  older than one already sent.
- **Cache files.** To its readers the file changes by whole files and whole
  commits, in spite of kills, restarts and replacements.
- **Semantic repository and service.** A destination is absent or whole, is
  never replaced, stays with its root once its publisher has returned, and
  answers about it are true; what is served is what is there. To its callers it
  is a register that is written once.
- **Stench.** What a save interrupted goes on when, and only when, every save is
  made or made pointless by immunity; immunity lasts its minute.
- **Trample.** However often it is suspended, nobody is trampled twice, and the
  report is of what happened; the best run is taken, and those on its path save.

`PROJECT.json` `hazards` has the places in the code where each of these could go
wrong.

## 2 The modules

Each component has one module. Theorems are in modules of their own, by the
process they are about: `BrowserSessionsProofs`, `SsoLoginProofs`,
`CacheReaderProofs`, `ServerProofs` (the web process), `SynchroniserProofs`,
`CacheFilesProofs`, `SemanticRepositoryProofs` (with the service),
`EncounterProofs` (the mechanics families). Definitions marked as a mutant
(`FreshCacheForced`, `OwesAnyway`, ...) are not part of a specification: they are
the bugs the mutant runs substitute.

An `MC` module is an instance for TLC. `MCServer`, `MCCacheSync`,
`MCPublishedFiles` and `MCEncounter` extend several components that share no
variable: a variable `part` says which of them a behaviour is of, and the others
rest in one fixed initial state. One run then checks each of them in its full
state space, without their product.

### BrowserSessions

`sessions` is the table; a row keeps owner, issuer, creation time, rowid and the
revocation mark, and expiry is creation plus `SessionLifetime`. Every operation
is two steps, because each reads `now_seconds()` before it opens its connection:
`StampCreate`/`CommitCreate`, `StampAuthenticate`/`SelectSession`,
`StampRevoke`/`CommitRevoke`. `BEGIN IMMEDIATE` serialises writers, so a
transaction is one step (`InsertSession` is purge, insert and trim together).
A lookup is a single SELECT. `BusyTimeout` is the failure of a writer to get the
lock; `Restart` ends all requests and may change the issuer. Rowids are SQLite's
`max(rowid) + 1`; `lastRowid` abstracts them to an increasing counter, which
orders the rows of the table the same way. `ledger` and `loggedOut` are history.

### SsoLogin and OneUseLogin

`SsoLogin` is the table of pending authorizations with the two routes. A
callback goes through the stages `callback`, `exchange`, `create`, `granted`,
one per transaction or network exchange; `Fail`, `Restart` and `LoseResponse`
come between any two. The browser sends what its jar holds when it follows a
URL, any browser may follow any callback URL, and a code may be that of another
authorization; the service ties a code to the verifier of its authorization
(`Exchange`). `OneUseLogin` is the promise without tables, clocks, cookies and
threads: an authorization is opened, redeemed and granted at most once each and
may be lost at any time. `ImplementsOneUse` is the refinement, with the phase of
an authorization computed from table and workers (`Phase`).

### CacheReader

`disk` is every cache file ever written, by inode, `path` the one at
`cache_database_path()`. A file has an authority identity (generation and
digests), a vocabulary (presentation rows that no digest covers), SQLite's data
version and an mtime, which a commit may leave unchanged. A request takes the
steps of `open_authority_cache_connection` in the code's order: `Stat`, `Open`,
`Recheck`, then under the lock `Reuse` or `BeginLoad` and `Load`, `Confirm`,
and outside it `Begin`, with `Retry` as the `continue` statements and
`LoadFails` as the error path. The second entry, `cache_connection`, is
`PlainOpen` and `PlainBegin`. Writers are `Publish` (rename of a new file),
`BeginCommit` (into an open file, not while a read transaction holds the shared
lock) with `EndCommit` or `RollBack`, and `Restore` (a saved file is moved back).
While a commit is neither ended nor rolled back (`unfinished`), because it is
under way or because the materialiser was killed, no read transaction starts:
`Refused` is the `sqlite3.Error` that becomes `CacheUnavailable` (457-459,
543-547), and the same error within the loading of the store is one more case of
`LoadFails` (`LoadBroken`), because `_load_snapshot` turns it into its own. A
rolled-back file has its old data version, a later modification time, and its
rows; the rest of what a journal does is in `CacheFiles`. Reads between which no
other process can make a difference share a step. `window` and `changes` record
what writers did during a request.

### CacheSync

One action per request of `main` to the Library and per later stage:
`ReadBookshelf`, `FetchPresentation`, `FetchPublication`, `FetchSections` (a batch,
any number of them), `ListAssets`, `DownloadAssets`, `Build`, `Verify`, `Replace`.
Two of them stand for several requests and are answered by one state of the
Library: the manifest with its style sheets and scripts, and the bodies of the
assets. No property depends on it: of what names no generation they say only that
it was served between the two bookshelf requests, while the generation was
current. `Stop` is every failure and kill: the temporary file is lost, the cache
stays. The Library publishes (`Publish`) or changes what names no generation
(`Redecorate`) at any moment. A response that echoes another generation than the
run's ends the run (`Echoed`). Several runs share the cache path.

### SemanticRepository

`Start` makes the root if there is none (`_prepare_root`) and takes the first
look at the destination, `Claim` is the `O_EXCL` file,
`Recheck` the look under the claim, `Write` the staging directory, `Sync` its
synchronisation and reading back, `FinalCheck` the third look, `Rename` the
publication, `Settle` the synchronisation of the root, `Cleanup` the `finally`
clause, in which the unlink or the synchronisation may fail unnoticed, `Fail` the
exceptions. `Kill` stops a publisher anywhere, and `PowerLoss` takes back what was
not synchronised: files of directories without `fsync`, the destination's name if
the root had none (`RootKept`), and everything, if a publisher made the root
(`RootLost`): its name is in a parent that no code here synchronises. `root` is
"absent", "made" or "lasting", and becomes lasting when a loss of power has spared
it; the behaviours begin without a root or with one that is there for good.
`promised` are the editions reported as published in the present root. Two
publishers may bring
the same digest with different media types (`Editions`), because the digest of a
catalog does not cover them. A tree keeps which of its files are there and safe.

### SemanticService

Extends `SemanticRepository` with the web process in front of it. `Visit` is the
look at `_delegate` without the lock, `TakeLock` the one with it, `LoadTree` the
loader with its verdict (`Loadable`: every file is there), `Retain` the
assignment. A failed load frees the lock and leaves `_delegate` as it was.
`Restarted` is a new process, alone or with a loss of power.

`WriteOnce` is what publishers and service together promise, without claim,
staging, renaming or synchronisation: the destination is written once and as a
whole (`Put`), becomes lasting at some time (`Last`), a caller is told what is
there when it is told (`Tell`), the service serves what is there (`Serve`), and a
`Blackout` takes away only what is not lasting, or everything with a place that is
not `settled`, the abstract form of a root that a publisher made.
`ImplementsWriteOnce` maps `root` to settled and the
tree to its files with their edition (`Directory`), so that a tree with files
missing is neither of the two states the register knows; `named` to lasting; and
a publisher that has returned with an answer about the tree to one that was told
(`Told`). An answer "present" does not say that the tree is lasting, which is how
the promise shows the first hazard of section 6.

### CacheFiles and AtomicCache

`CacheFiles` looks into what `CacheReader` takes for one commit. Of SQLite it
models what the scripts depend on: the rollback journal has the path's name, it
counts ("hot") from the writing of its header, which comes before the first
database page, and removing it is the commit; a writer rolls a hot journal back
into whatever file it has open, a read-only connection is refused, and a write
is refused when the path names another file by now. The materialiser takes the
steps of the script: `CheckSidecars`, `Connect`, `ReadRows`, for each body
`Update`, `WritePages`, `CommitRow`, then `VerifyAgain`, `Reopen`, `Finished`;
`GiveUp` is every error with its rollback, `KillMaterialiser` leaves the files as
they are. `ReplaceFile` is the `os.replace` of the synchroniser at any moment,
readers are `OpenReader`, `BeginRead`, `CloseReader`. `AtomicCache` is the
promise: a file changes by whole commits, a reader sees one state of one file.
`ImplementsAtomicCache` maps the pages of each file to the bodies committed, and
what a reader sees to one set of bodies, or, if the file is torn, to more than
one, which the abstract cache does not allow.

### SectionFetch

The sets of `fetch_sections` under their names; `StartRound` begins the inner
loop over sorted batches, `AcceptBatch` reads one answer with its rows in any
order (`Orders`; a chapter counts as found unless its row is there already,
`Found`), `RefuseBatch` is every answer the code refuses, `FinishFetch` the end.
The Library holds any assignment of chapters, cycles included, and may answer
anything; `honest` records whether it did as asked. `FetchAgain` is another run.

### MachineIdentity

`authorization_header` with its lock held across the exchange: `AskHeader`,
`HandOut` of the cached assertion, or `Exchange`, `IssueAssertion` at the
service, `ReceiveAssertion` with `refreshAt = now + max(1, expires_in - 30)`, or
`FailExchange`. The service counts the lifetime from the issue, the code from
the arrival; `delay` of an assertion is the difference. `time.monotonic()` has
fractions of a second, so a tick is finer than the second of `max(1, ...)`:
`Margin` and `MinRefresh` are the 30 and the 1 in ticks. `NoExpiredHeader` is about
responses that came in time (`InTime`): within the margin, and early enough to
leave the `MinRefresh` that the assertion is used for in any case. With
`expires_in = 1` no response that took any time does, and expired headers are
handed out; the property claims nothing of them.

### SigningKeys

`fetch_jwks` is `StampKeys` (the clock), `LookUpKeys` (the cache, under the
lock), `ServeKeys` (the service answers) and `InstallKeys` (under the lock
again, with the expiry computed from the first clock reading). `AcceptToken` and
`RejectToken` are the end of `exchange_identity`: after a first failure the keys
are fetched again with `force`. `Rotate` changes the published keys at any time.

### RuleIndexes

The two functions are one lookup over one or two files: `StatFile` for each,
`LockIndex`, `ReturnIndex` or `Rebuild` with `ReadFile` for each, `InstallIndex`
under the signatures read before the lock; `LookupFails` gives the lock back. A
released file gets a signature it never had.

### AuthStoreObject

`ttrpg_auth_store` takes its lock (`BeginUse`), compares device and inode
(`CheckStore`), and otherwise constructs a store: `ConstructStore` opens the path
with `O_CREAT`, `InitialiseStore` finds or makes the tables through a connection,
or refuses a file that is not one of its own (`_verify_schema`, `user_version`, the
journal mode) and leaves lock and store object as they were; `SignStore` reads the
inode again. `UseStore` is an operation of the store, which connects by path and so
may create an empty file; `FailStore` is any other error. `Operate` is an operator
who moves or removes the file or puts another one there: empty, with the tables,
or foreign (`Contents`). Two changes cannot be seen by the code: one
during a construction, and a new file with the inode of the old one; `blind`
records them.

### OrderedSequences

Sorting and filtering, for the three modules that follow: `Ordered` is a finite set
in a strict order, `Selected` the part of a sequence that is in a set.

### StenchSaves

`Pose` is one pose of a Stride or Fly, which asks for a save for each source it is
inside of and was not `before`; what was before comes from the engine, which may
leave out sources that were inactive then. `StartTurn` is the expiry of immunities
with the saves owed at the start of a turn; both queue saves in the order of
`source_abilities` (`Candidates`); `Resolve` is `resolve_save_decision` with
`activate_next_save_decision`, which skips what is no longer owed (`Remaining`)
and lets the continuation go on when nothing is left; `Retch` is
`apply_retch_immunity_upgrade`. `Change` is the engine's. A critical failure is a
failure: the slowed condition that comes with it decides nothing here.

### TrampleActivity

`body` is the activity while a call runs, `sealed` the continuations given out,
`published` the one whose digest the host keeps. `SuspendStep`, `CommitStep`,
`ResumeStep`, `RollDamage`, `RollSave`, `ScaleDamage`, `ApplyDamage`,
`NextTarget`, `CompleteTrample` are the statements of `_advance_trample` between
its windows, `FailTrample` every `EngineInputError` (the host drops what the call
did). `Resume` presents any continuation ever given out, with any outcome of the
reaction that `resume_trample` accepts.

### TrampleRoute

Trampler and others have sets of squares (`Covered`, `Occupied`). `Runs` are the
straight runs on the map that `_compound_route` allows, `Before` the order of its
candidates, `Route` its result. `StartCompound`,
`ResumeDamagePool`, `ResumeAfterMove`, `MovementDisrupted`, `ResumeTarget` are the
stages of the activity; `ResumeRefused` is a continuation turned away because the
ability, its contract, the damage pool or another result is not as it was;
`OtherMoves` is what happens on the map in between.

## 3 What the runs check

Bounds are the smallest at which the case a property is about occurs; for every
property there is a mutant the run refutes under the same bounds, so none is
satisfied for want of room. Symmetry is over sets whose members no definition
tells apart, and is not used in the one run with a liveness property.

| run | instance | properties | shows |
| --- | --- | --- | --- |
| `sessions` | 2 workers, 2 owners, 3 tokens, 2 issuers, lifetime 1, bound 1, clock to 1 | `SessionBound`, `LogoutIsFinal`, `AcceptedWasGranted`, `NoSpuriousLogout` | logins, lookups and logouts of two owners in every order, with old timestamps and restarts under another issuer |
| `login` | 2 workers, 2 browsers, 2 authorizations and cookies, table of 1, lifetime 2, clock to 3 | `OneSessionPerAuthorization`, `GrantedToItsBrowser`, `PendingBound`, `ImplementsOneUse`, `NoSpuriousRefusal` | duplicate and foreign callbacks, restarts, lost responses, the table at its limit |
| `cache_reader` | 2 requests, 2 files of one identity with two vocabularies, 1 commit per file, 2 attempts | `StoreMatchesSnapshot`, `ServedIsCurrent`, `NoSpuriousUnavailable` | replacement between any two reads, commits under way at any of them |
| `cache_restore` | 2 requests, 2 files of two identities, 3 moves back, 3 attempts | `AuthorityMatchesSnapshot`, `RetriesAreEarned` | files that come back to the path; all three attempts used up |
| `cache_live` | 2 requests, 1 file, 1 commit, 1 rollback, 2 attempts, `FairSpec` | `LockReleased` | the store lock is released on every way out |
| `cache_aba` | as `cache_restore` with one identity, two vocabularies, 2 attempts | `StoreMatchesSnapshot` (violated) | finding 1 |
| `sync` | runs: 2 runs, 2 sources, 3 generations, 3 versions of the rest (`Small`); sections: 4 ids in batches of 2; identity: 2 threads, ticks of half a scaled second: lifetimes 2, 4, 6, 8, margin 4, least use 2, clock to 10 | `OneGeneration`, `PartsOfTheirTime`, `StaleOnlyWhenOvertaken`; `SectionsAreClosure`, `HonestNotRefused`; `NoExpiredHeader`, `HeadersInOrder` | the Library publishes between any two requests, runs overlap; every table of chapters, every answer; lifetimes below, at and above the margin |
| `published` | repository: 3 publishers (2 at a time in a root they made, `Small`), 2 editions, 2 files, 2 visitors; cache: 2 readers, 2 bodies, 3 files | `ImplementsWriteOnce`, `PromiseKept`, `AnswersTrue`, `NeverReplaced`, `ServedAsPublished`; `ReadersNeverTorn`, `ImplementsAtomicCache` | failures, kills and losses of power at every step, under readers |
| `server` | keys: 2 callbacks, 2 keys, lifetime 1, clock to 2; indexes: 2 requests, one release of each file; store: 3 users, 3 inodes, files of 3 kinds | `SteadyKeyKnown`, `KeysAgeBound`; `IndexOfTheRequest`; `TablesUnlessBlind` | what the threads of the web process share, between any two steps |
| `encounter` | Stench: 2 sources, 2 creatures, immunity 2 steps, 3 turns; activity: 2 targets, path of 2, limit 2, 2 rolls, 2 defences; route: 5x2 grid, run to 3, a trampler of two squares, 3 creatures, one too large, one of two squares, 1 move | `QueueSound`, `NobodyEscapes`, `ImmuneForAMinute`; `TrampledOnce`, `PreviewCurrent`; `TramplesItsPath`, `BestRunTaken` | every order of results, suspensions, resumptions and moves |
| `repository_claim` | 2 publishers, 2 editions, 2 files | `OnePublication` (violated) | finding 2 |
| `files_restart` | 1 reader, 2 bodies, 2 files | `RestartSafe` (violated) | finding 3 |

Why these are enough. Two workers suffice for every race between two
transactions, since each operation is one or two steps and a third worker's
transactions are those of the second after it has finished; three tokens allow a
row, a rival and the one that displaces it, two authorizations a table of one
and the row that displaces it. A clock one or two past a lifetime gives
timestamps before, at and after an expiry. Two files and three moves are what an
ABA swap during one request needs, with one move left for the request that
follows. Three generations are needed for a run that is overtaken and a Library
that is ahead of both; `Small` lets two runs overlap with one source only, which
is all `StaleOnlyWhenOvertaken` tells apart. Four section ids in batches of two
give a chapter found in the first batch and due in the second, and a circle.
Three publishers are one that holds the claim, one that is refused and removes
it, and one that profits; in a root they made two suffice for what a loss of it
takes back, which is everything. Half a second is the coarsest tick that is finer
than the `1` in the code: it gives responses that take a part of the least use.
Three cache files allow a journal of a replaced file
beside its successor, replaced again. Three inodes are the file of the store,
its successor and one number used again. Two sources around one creature give a
queue; two targets and two steps give an entry seen twice, a suspension in
between and an old continuation. The theorems of the next section remove the
bounds for most of the properties.

`MaxTime`, `MaxKeysTime`, `MaxClock`, `MaxFiles`, `MaxCommits`, `MaxHalts`,
`MaxMoves`, `MaxGeneration`, `MaxExtras`, `MaxRelease` and `MaxStep` are bounds
of the models, not of the code, and so are the numbers of section ids, inodes
and squares; `SessionLifetime`, `MaxSessions`, `PendingLifetime`, `MaxPending`,
`Attempts`, `BatchSize`, `Margin`, `MinRefresh`, `KeysLifetime`,
`ImmunitySteps`, `MaxTargets` and `MaxRun` are constants of the code at smaller
values.

**Type invariants** are not among the properties of the runs: the next section
proves them. Nor is `NeverPartial`, which `ImplementsWriteOnce` contains.

**Deadlock.** TLC checks it in every run but `encounter`; there is always a
request to begin, a clock to read or a failure to suffer, so this shows only
that no state is without a successor. The behaviours of `encounter` really end:
when the steps of the instance are used up and nothing is left to do.

**Fairness.** Only `cache_live` assumes any: weak fairness of `Progress(w)` for
every reader, that is, a thread that has begun a request and is not waiting
keeps running. Waiting for the lock disables `Reuse` and `BeginLoad`, and weak
fairness promises nothing to a thread whose step comes and goes, so no order of
`threading.Lock` is assumed. Nothing is assumed of writers, arrivals or
restarts.

## 4 What is proved

Eight proof modules hold the theorems. All constants are arbitrary within the
named assumptions (`SessionAssumption`, `LoginAssumption`, `ReaderAssumption`,
`SyncAssumption`, `RepositoryAssumption`, ...): limits and lifetimes are positive
numbers, and a placeholder such as `Nothing` is not a value it stands beside
(`NoneIsNothing` for the activities and reports of Trample). The list of
Stench sources has nobody twice, because `source_abilities` goes through the
initiative order, in which the engine has each participant once.
`BrowserSessions` also assumes finitely many tokens, so that rows can be counted;
that the table of `SsoLogin` is finite is proved.

| module | theorem | property | argument |
| --- | --- | --- | --- |
| `BrowserSessionsProofs` | `SessionTypes` | `TypeOK` | `SessionInv` |
| | `SessionLimit` | `SessionBound` | `RowidsUnique` |
| | `LogoutFinality`, `AcceptedGranted` | `LogoutIsFinal`, `AcceptedWasGranted` | `SessionInv` |
| | `NoSpuriousLogouts` | `NoSpuriousLogout` | `LedgerAccounted` |
| `SsoLoginProofs` | `LoginTypes`, `OneSession`, `RightBrowser` | `TypeOK`, `OneSessionPerAuthorization`, `GrantedToItsBrowser` | `LoginInv` |
| | `LoginRefinement` | `ImplementsOneUse` | `LoginInv`, step by step |
| | `PendingLimit` | `PendingBound` | `RowidsUnique` |
| | `NoSpuriousRefusals` | `NoSpuriousRefusal` | `StartsAccounted` |
| `CacheReaderProofs` | `ReaderTypes`, `AuthorityMatches`, `ServedCurrent` | `TypeOK`, `AuthorityMatchesSnapshot`, `ServedIsCurrent` | `ReaderInv` |
| | `StoreMatches` | `StoreMatchesSnapshot` when `MaxMoves = 0` | `PathsForward` |
| | `RetriesEarned`, `UnavailableEarned` | `RetriesAreEarned`, `NoSpuriousUnavailable` | `AttemptsAccounted` |
| `SynchroniserProofs` | `SyncTypes`, `WrittenAsOne`, `WrittenOfItsTime`, `StaleWindow` | `TypeOK`, `OneGeneration`, `PartsOfTheirTime`, `StaleOnlyWhenOvertaken` | `SyncInv` |
| | `FetchedClosure`, `HonestAccepted` | `SectionsAreClosure`, `HonestNotRefused` | `FetchInv` |
| | `FreshHeaders`, `OrderedHeaders` | `NoExpiredHeader`, `HeadersInOrder` | `IdentityInv` |
| `CacheFilesProofs` | `NeverTorn` | `ReadersNeverTorn` | `FilesInv` |
| | `FilesRefinement` | `ImplementsAtomicCache` | `FilesInv`, step by step |
| `SemanticRepositoryProofs` | `RepositoryTypes`, `NeverPartialTree`, `Promises`, `TruthfulAnswers` | `TypeOK`, `NeverPartial`, `PromiseKept`, `AnswersTrue` | `RepositoryInv` |
| | `PublishedOnce` | `NeverReplaced` | `RepositoryInv` |
| | `RepositoryRefinement` | `ImplementsWriteOnce` | `ServiceInv`, step by step |
| | `ServedPublished` | `ServedAsPublished` | `ServiceInv` |
| `ServerProofs` | `KeysKnown`, `KeysAge` | `SteadyKeyKnown`, `KeysAgeBound` | `KeysInv` |
| | `IndexNotOlder` | `IndexOfTheRequest` | `IndexInv` |
| | `StoreHasTables` | `TablesUnlessBlind` | `StoreInv` |
| `EncounterProofs` | `ImmunityLasts` | `ImmuneForAMinute` | `ImmunityInv` |
| | `QueueStaysSound`, `EverySaveMade` | `QueueSound`, `NobodyEscapes` | `StenchInv` |
| | `PreviewHolds` | `PreviewCurrent` | `TrampleInv` |
| | `TrampledOnlyOnce` | `TrampledOnce` | `OnceInv` |
| | `BestRun` | `BestRunTaken` | `RouteInv`, `FirstRun` |
| | `PathTrampled` | `TramplesItsPath` | `PathInv`, `OrderOfEntry` |

Why the properties are not inductive by themselves:

- **Sessions.** That a logged-out token is never accepted needs more than the
  table: the purge of a later login removes revoked rows, and a token must not
  come back. `SessionInv` adds that tokens being created are new
  (`TokensFresh`), rows are as they were inserted (`RowsRecorded`), and a row of
  a logged-out token is revoked (`RevocationsKept`). The bound needs the order
  of the trimming statement to be total, hence unique rowids. That nobody is
  logged out without cause needs an account of every row that is gone
  (`LedgerAccounted`): purged after expiry, revoked, or trimmed below enough
  rivals. A row trimmed below fewer rivals that are still in the table has the
  missing ones in the ledger; the set of rivals only grows.
- **Single sign-on.** One session per authorization needs workers past the
  consumption to hold different authorizations (`RedeemedOnce`), which needs the
  mark in the row to agree with what was ever redeemed (`RowsRecorded`). The
  right browser needs a cookie to be seen with one browser only
  (`CookiesOwned`). The refinement maps the purge and trim of a start to the
  authorizations `Open` may cost, a restart to `Abandon`. The bound and the
  refusals follow the sessions: rowids are unique, a row is the start it records
  (`RowOf`), and every start that is neither in the table nor redeemed has
  expired or has enough rivals among the starts (`StartsAccounted`).
- **Reader.** `ReaderInv` says what a request holds at each stage: a connection
  that was in its window when it was opened (`ConnectionsKnown`), the present
  state of the path always in the window (`WindowsOpen`), stores filed under
  their own identity (`StoresIdentified`). `StoreMatches` also needs that the
  path only moves forward (`PathsForward`), which is why it is stated for
  `MaxMoves = 0`; finding 1 is what happens otherwise. `AttemptsAccounted`
  charges to the writers what would make a request retry (`Disturbed`). Where
  nothing can be charged to them, a request is turned away by an error of
  SQLite, and that takes an unfinished commit (`Readable`).
- **Synchroniser.** `ExtrasOfTheRun` says that fetched parts belong to the run's
  generation as long as the Library has not moved on, or the run is past its
  verification; `VerifiedLast` that what was installed before the verification
  is not newer.
- **Section fetch.** What is on the list, asked for or not, is within every set
  that has the initial ids and the chapters of its members (`ListIsClosure`), so
  that it is the smallest such set when nothing is left to ask for; a round
  never has an id whose row is there (`NothingTwice`). The least set is stated
  by quantifying over all sets, so that no induction is needed.
- **Machine identity.** Only the holder of the lock is in an exchange
  (`OneExchange`), hence nothing cached is newer than an answer under way.
- **Cache files.** A torn file always has its own hot journal at the path
  (`TornIsGuarded`), whether the materialiser lives or not; a materialiser
  between two transactions sees no journal (`OwnJournal`), because it looked for
  one before it connected and nobody else writes one; it never has a file that
  is not there yet (`NoneAhead`). So a journal is rolled back into its own file
  or into none. The check for sidecars that makes finding 3 is what this rests
  on.
- **Repository and service.** The tree at the destination is synchronised file
  by file before it has its name (`StagedSafely`), and a publisher between
  rename and answer sees its own tree (`RenamedIsThere`). The claim appears
  nowhere in `RepositoryInv`: safety rests on `rename` not replacing a directory
  that has contents. Nothing is there or under way without a root (`RootFirst`),
  so that a root that is lost takes every promise with it and no other. The
  service loads alone (`LoadsAlone`), and what it has read cannot change,
  because a tree that is there is never replaced. For the refinement a whole
  tree must be told from that of another edition (`SeenWhole`, which needs that
  a tree has files), a publisher under way is told nothing (`OnceStage`), and
  its return is the one moment it learns something (`OnceCleanup`).
- **Web process.** Ages of keys are kept relative to the clock reading of the
  request that fetched them (`AgeOfKeys`): a set that is installed late expires
  early. Versions are read after their signatures and an index is no older than
  what it is filed under (`ReadAfterStat`). `SeenChanges` says what the store
  object may rely on unless a change was out of its sight.
- **Stench.** That nobody escapes needs an account of the saves while one is
  pending: those that wait are exactly those owed at the beginning and not made
  since (`ExposureAccounted`). A save that goes on to the next skips it only
  when the creature has become immune, because what made it owed cannot change
  while a decision is pending; and then it skips all of them.
- **Trample activity.** That the preview is current at the last step needs to
  know what an activity can know at each stage, running or sealed
  (`KnownAtStage`): no save while it moves, no damage before the save, no window
  on zero hit points before the damage. That nobody is trampled twice needs
  more: the results are those of the first targets in their order, each entered
  once (`ResultsInOrder`), which holds of every continuation ever sealed, and
  the host's wounds, steps and saves are those of one activity (`Agrees`): the
  running one, the one published last between two calls, and, for a call that
  may still fail, the one it began with (`Kept`, for `body`, `published` and
  `before`). The other sealed continuations agree with nothing, and `Resumable`
  keeps them out.
- **Compound Trample.** The best run is the first in an order of three keys;
  that there is a first one among finitely many is proved by taking the least
  key three times (`FirstRun`). That the targets are those on the path follows
  from the comparison with the census, and the first met come first because the
  sort key of `InOrder` is the place of first entry (`OrderOfEntry`); nobody is
  too large because the route had nobody (`RouteKept`).

What a sorted or filtered list is, for every list, looks like induction over
data. `OrderedSequences` avoids it: a finite set in order is the sequence in
which the place of a member is the number of members before it, plus one, and
that this is a sequence of the set is a matter of cardinalities (`OrderExists`).
`SelectedPart`, what the part of a sequence has and keeps, follows. The modules
use these operators in place of `SelectSeq` and `SortSeq`, whose definitions the
provers cannot open.

Only model-checked: `LockReleased`, because liveness under fairness is beyond
these provers.

Not proved because false: the properties of the three violation runs.

## 5 Findings

1. **`cache_aba`: the shared store may have the vocabulary of another file.**
   The store is reused when path, signature and authority identity agree
   (`backend.py` 495-502). The identity covers generation and digests of sources
   and sections, not the presentation rows the store also holds. Two caches of
   one generation with different presentations, swapped and swapped back between
   a request's signature and its connection, leave the store of one filed under
   the signature of the other. `tests/test_backend.py` 1023 names the rejection
   of an ABA swap, with files whose identities differ; for those
   `AuthorityMatches` proves it. Without files being moved back `StoreMatches`
   proves that the case cannot occur.
2. **`repository_claim`: a refused publisher removes the claim of the active
   one.** The `finally` clause unlinks the claim file if it exists, not if the
   call made it (`semantic_repository.py` 555-563); the refusal says "publication
   is already active" (550). Two publishers may then build and rename at the
   same time. The proofs show that the destination does not suffer. A side
   effect is that the claim a killed publisher left behind goes away with the
   first call that is refused because of it; a repair would have to provide for
   that case.
3. **`files_restart`: a materialiser killed inside a transaction cannot be started
   again.** `materialize_cache_assets.py` line 5 says "It is restart-safe: already
   materialized rows are verified and skipped". Every start refuses a cache with
   a `-journal`, `-wal` or `-shm` beside it (292-296), and a process killed between
   the `UPDATE` of a row (440) and the end of its `COMMIT` leaves its journal;
   nothing in the script removes it or lets SQLite roll it back. The run shows the
   shortest case, a kill after the `UPDATE` with a journal that is not hot yet:
   requests are not disturbed by it, the next start is refused. (When the kill
   comes later, with the journal hot, requests are refused as well: `MayRead`, and
   `Refused` in `CacheReader`.) The refusal is not a mistake: `NeverTorn` rests on
   it. But after such a kill an operator has to act.

## 6 What is not modelled

Assumptions of the models about what is outside the repository:

- **SQLite.** A transaction is one step, a read transaction sees one state, a
  committed state survives a restart; only `CacheFiles` looks inside a commit,
  and takes from SQLite what section 2 says; to `CacheReader` a commit is
  something during which no read transaction starts. A loss of power under the
  authentication database's journal settings is left out, and so are errors of
  SQLite that no writer causes, such as a disk that cannot be read. One
  materialiser runs at a time.
- **Library code and services**: RSA, token parsing, HTTP, the Library and the
  central service, browsers. The modules keep what the code here relies on.
- **The file system.** What `fsync` synchronised survives a loss of power, and
  whatever survived one loss survives the next. A directory's name is in its
  parent, and is safe once the parent is synchronised; the parents of a root that
  a publisher made never are.
- **The encounter engine.** It drops what a failing call did, keeps the digest of
  the continuation published last, and does nothing else while a Stench save is
  pending. Whether a creature may end a compound Trample where it does is its
  decision.
- **Releases of the rule files** never repeat a signature (size and time).
- **Digests and tokens** are distinct values; a draw of `secrets` never repeats.

Such definitions are marked external in `PROJECT.json`.

What is left out, and why:

- **Parts of modelled components**: what the loader of a catalog validates is one
  verdict, `SameRepository`; the fetching of asset bodies is that a body arrives
  or the run gives up; the claims of an identity token are the key it is signed
  with; Stench and Trample are without their compilation, receipts, validation of
  stored rows and rendering. Each is a function of its input.
- **The other mechanics families and the compiler**, about 110,000 lines,
  recognise sentences of rulebooks, family by family. They are pure and
  sequential, what could be wrong in them is the texts recognised, and a model
  would restate them. This is why the definitions here stand for a small share of
  the repository's lines. Of the families that act at run time, `slink` and
  `scuttle` queue a reaction (`observe_post_event`), offer it
  (`build_pending_decision`) and answer it (`resolve_reaction`), `battle_cry`
  offers and resolves an activity, and `animated_construct_armor` computes what
  one hit does. They are not modelled: the queue, the effects, the pending decision
  and the order of the calls belong to the encounter engine, which is outside the
  repository.
- **Publication scopes and content routes** read one request and one snapshot and
  keep nothing.
- **Durability, grid distance, cover and light** are pure functions with tests
  over their tables.
- **One-shot scripts, packaging, deployment and the browser client** share no
  state with the server at run time, apart from the files modelled above.

Two hazards have no property, and one has a property that stops short of it. A
publisher that makes the root does not synchronise its parent
(`semantic_repository.py` 430): the model loses such a root (`RootLost`), and
`PromiseKept` and `ImplementsWriteOnce` promise what was published only as long as
the root is there. An operator who makes the root beforehand, and lets it reach the
disk, has the promise for good. A call that finds the tree of another publisher
and reports success does not synchronise the root (`semantic_repository.py` 473);
`PromiseKept` is therefore about calls that published, `AnswersTrue` covers the
others while they and the machine are up. A step that is committed after a
reaction is not held to `MAX_RUNTIME_TARGETS` (`trample.py` 2419): `ResumeStep`
models it as it is, and nothing in the repository says what should hold.

## 7 Plan

Done, in this order: `BrowserSessions`; `SsoLogin` with `OneUseLogin`;
`CacheReader`; `CacheSync`; `SemanticRepository`; then `CacheFiles` with
`AtomicCache`, `SectionFetch`, `MachineIdentity`, `SigningKeys`, `RuleIndexes`,
`AuthStoreObject`, `SemanticService` with `WriteOnce`, `StenchSaves`, `TrampleActivity`,
`TrampleRoute`; the proofs of each.

What is left, by its worth:

1. `CacheReader` on top of `AtomicCache` instead of commits of its own.
2. The reactions of `slink` and `scuttle` on one queue, once the engine that
   orders them is at hand.
3. Liveness of a login and of a synchronisation, under fairness of the services.
