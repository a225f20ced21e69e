---------------------------- MODULE CacheReader ----------------------------
(***************************************************************************)
(* How a request of the TTRPG application gets at the content cache        *)
(* (subdomains/ttrpg/backend.py: open_authority_cache_connection,          *)
(* begin_validated_cache_snapshot, cache_connection), together with the    *)
(* authority store loaded from it and shared by all requests               *)
(* (_AUTHORITY_STORE_STATE; pf2er_compiler/source_authority_store.py).     *)
(*                                                                         *)
(* The cache is one SQLite file.  While requests run,                      *)
(* scripts/sync_library_cache.py replaces it by rename and                 *)
(* scripts/materialize_cache_assets.py commits into it in place.  A        *)
(* request reads the path's signature, the connection's data version and   *)
(* the authority identity several times, with other requests and writers   *)
(* in between, before it trusts the pair (connection, store).  Reads that  *)
(* nothing can come between with a different outcome share one action.     *)
(*                                                                         *)
(* A commit is begun and ended; while it is neither ended nor rolled back, *)
(* be the materialiser at work or dead, SQLite's rollback journal lies at  *)
(* the path and a read-only connection is refused there whichever file it  *)
(* has open (module CacheFiles has the journal itself).                    *)
(***************************************************************************)
EXTENDS Integers, Sequences, FiniteSets

CONSTANTS
    Readers,       \* request threads
    Identities,    \* (source_generation, manifest digest, payload digest)
    Vocabularies,  \* presentation rows: fetched without a generation, not in the digest
    Attempts,      \* range(3) of open_authority_cache_connection
    MaxFiles,      \* bound: files ever written
    MaxCommits,    \* bound: commits into one file
    MaxHalts,      \* bound: commits that are given up or left behind
    MaxMoves,      \* bound: saved files moved back
    Nothing

ASSUME ReaderAssumption ==
    /\ Attempts \in Nat \ {0}
    /\ MaxFiles \in Nat \ {0}
    /\ MaxCommits \in Nat
    /\ MaxHalts \in Nat
    /\ MaxMoves \in Nat
    /\ Nothing \notin [identity : Identities, vocabulary : Vocabularies]
    /\ Nothing \notin (1 .. MaxFiles) \X Nat

VARIABLES
    disk,        \* every file written, by inode; a replaced one stays readable
    path,        \* the inode at cache_database_path(), 0 when there is none
    unfinished,  \* the inode whose commit was begun and has not ended, or 0
    halts,       \* commits rolled back so far
    storeState,  \* _AUTHORITY_STORE_STATE
    lock,        \* holder of _AUTHORITY_STORE_LOCK
    request,     \* what each reader is doing
    moves,       \* saved files moved back so far
    window,      \* history: (inode, data version) pairs published during each request
    changes      \* history: writes since each request began

vars == <<disk, path, unfinished, halts, storeState, lock, request, moves, window, changes>>

-----------------------------------------------------------------------------
(* Files and requests *)

\* data_version counts the commits; mtime stands for the size and mtime_ns of
\* the signature, which writes within one tick of the file system's clock
\* need not change.
File == [identity : Identities, vocabulary : Vocabularies,
         version : 0 .. MaxCommits, mtime : Nat]

Inodes == 1 .. Len(disk)

Store == [identity : Identities, vocabulary : Vocabularies]

Signatures == (1 .. MaxFiles) \X Nat

\* cache_file_signature
Signature(f) == <<f, disk[f].mtime>>

\* What from_connection builds: rows and vocabulary of one read transaction.
StoreOf(f) == [identity |-> disk[f].identity, vocabulary |-> disk[f].vocabulary]

Stages == {"idle", "open", "recheck", "lookup", "load", "confirm", "begin",
           "plain", "serving", "unavailable"}

Request ==
    [stage    : Stages,
     attempt  : 0 .. Attempts,
     before   : Signatures \cup {Nothing},   \* signature read first
     inode    : 0 .. MaxFiles,               \* file the connection has open
     version  : 0 .. MaxCommits,             \* starting_data_version
     identity : Identities \cup {Nothing},   \* authority_identity
     started  : Signatures \cup {Nothing},   \* signature when a load began, if one did
     loaded   : 0 .. MaxCommits,             \* data version when the load began
     store    : Store \cup {Nothing}]

Idle == [stage |-> "idle", attempt |-> 0, before |-> Nothing, inode |-> 0,
         version |-> 0, identity |-> Nothing, started |-> Nothing, loaded |-> 0,
         store |-> Nothing]

Become(w, q) == request' = [request EXCEPT ![w] = q]

Goto(w, stage) == Become(w, [request[w] EXCEPT !.stage = stage])

\* Mutant of Retry: the attempts are counted twice.
RetryCountedTwice(w) ==
    Become(w, [Idle EXCEPT
                  !.stage = IF request[w].attempt >= Attempts THEN "unavailable" ELSE "open",
                  !.attempt = request[w].attempt + 1])

\* continue: the connection is closed; the third time is the last.
Retry(w) ==
    Become(w, [Idle EXCEPT
                  !.stage = IF request[w].attempt = Attempts THEN "unavailable" ELSE "open",
                  !.attempt = request[w].attempt])

\* CacheUnavailable
TurnAway(w) == Become(w, [Idle EXCEPT !.stage = "unavailable"])

Active(w) == request[w].stage \notin {"idle", "unavailable"}

\* A connection in a read transaction holds SQLite's shared lock.
InTransaction(f) == \E w \in Readers : request[w].stage = "serving" /\ request[w].inode = f

-----------------------------------------------------------------------------
Init ==
    /\ disk = <<>>
    /\ path = 0
    /\ unfinished = 0
    /\ halts = 0
    /\ storeState = Nothing
    /\ lock = Nothing
    /\ request = [w \in Readers |-> Idle]
    /\ moves = 0
    /\ window = [w \in Readers |-> {}]
    /\ changes = [w \in Readers |-> 0]

(* The writers *)

\* What a write leaves at the path is seen by every request under way.
Witnessed ==
    /\ window' = [w \in Readers |->
                     IF Active(w) THEN window[w] \cup {<<path', disk'[path'].version>>}
                     ELSE window[w]]
    /\ changes' = [w \in Readers |-> IF Active(w) THEN changes[w] + 1 ELSE changes[w]]

\* replace_cache: a complete new file takes the path by os.replace.
Publish(i, v) ==
    /\ Len(disk) < MaxFiles
    /\ disk' = Append(disk, [identity |-> i, vocabulary |-> v, version |-> 0, mtime |-> 0])
    /\ path' = Len(disk) + 1
    /\ Witnessed
    /\ UNCHANGED <<unfinished, halts, storeState, lock, request, moves>>

\* The pages of a file are written; ended counts a commit.
Written(f, ended, tick) ==
    /\ disk' = [disk EXCEPT ![f].version = @ + ended, ![f].mtime = @ + tick]
    /\ UNCHANGED path
    /\ Witnessed
    /\ UNCHANGED <<storeState, lock, request, moves>>

\* materialize_cache_assets begins to commit one asset body, into the file it
\* opened even when that is no longer the one at the path.
BeginCommit(f, tick) ==
    /\ unfinished = 0
    /\ disk[f].version < MaxCommits
    /\ ~InTransaction(f)
    /\ unfinished' = f
    /\ Written(f, 0, tick)
    /\ UNCHANGED halts

\* The commit ends,
EndCommit(tick) ==
    /\ unfinished # 0
    /\ unfinished' = 0
    /\ Written(unfinished, 1, tick)
    /\ UNCHANGED halts

\* or the old pages are put back: by the script when it gives up, or, when it
\* was killed, by whoever opens the file for writing next.
RollBack(tick) ==
    /\ unfinished # 0
    /\ halts < MaxHalts
    /\ halts' = halts + 1
    /\ unfinished' = 0
    /\ Written(unfinished, 0, tick)

\* An operator moves a saved cache file back to the path: deployments keep the
\* prior cache as a hard link for that, and the tests do it.
Restore(f) ==
    /\ moves < MaxMoves
    /\ f # path
    /\ moves' = moves + 1
    /\ path' = f
    /\ UNCHANGED disk
    /\ Witnessed
    /\ UNCHANGED <<unfinished, halts, storeState, lock, request>>

-----------------------------------------------------------------------------
(* open_authority_cache_connection *)

Quiet == UNCHANGED <<disk, path, unfinished, halts, moves>>

\* No journal keeps a read transaction from starting.
Readable == unfinished = 0

\* A request begins: here its window opens.
Start(w, stage) ==
    /\ ~Active(w)
    /\ path # 0
    /\ Become(w, [Idle EXCEPT !.stage = stage])
    /\ window' = [window EXCEPT ![w] = {<<path, disk[path].version>>}]
    /\ changes' = [changes EXCEPT ![w] = 0]
    /\ Quiet
    /\ UNCHANGED <<storeState, lock>>

\* No file at the path: CacheUnavailable at once.
StartAbsent(w) ==
    /\ ~Active(w)
    /\ path = 0
    /\ TurnAway(w)
    /\ window' = [window EXCEPT ![w] = {}]
    /\ changes' = [changes EXCEPT ![w] = 0]
    /\ Quiet
    /\ UNCHANGED <<storeState, lock>>

\* before = cache_file_signature(path)
Stat(w) ==
    /\ request[w].stage = "open"
    /\ request[w].before = Nothing
    /\ Become(w, [request[w] EXCEPT !.before = Signature(path), !.attempt = @ + 1])
    /\ Quiet
    /\ UNCHANGED <<storeState, lock, window, changes>>

\* The connection is opened on whatever is at the path by now; data version
\* and authority identity are read.
Open(w) ==
    /\ request[w].stage = "open"
    /\ request[w].before # Nothing
    /\ Readable
    /\ Become(w, [request[w] EXCEPT !.stage = "recheck", !.inode = path,
                     !.version = disk[path].version, !.identity = disk[path].identity])
    /\ Quiet
    /\ UNCHANGED <<storeState, lock, window, changes>>

SameVersion(w)   == disk[request[w].inode].version = request[w].version

SamePath(w)      == Signature(path) = request[w].before

Recheck(w) ==
    /\ request[w].stage = "recheck"
    /\ Readable
    /\ IF SameVersion(w) /\ SamePath(w) THEN Goto(w, "lookup") ELSE Retry(w)
    /\ Quiet
    /\ UNCHANGED <<storeState, lock, window, changes>>

\* Mutant of Reusable: the file is not compared.
ReusableAnyFile(w) ==
    storeState # Nothing /\ storeState.identity = request[w].identity

\* The shared store is taken over when file and identity are those of this request.
Reusable(w) ==
    /\ storeState # Nothing
    /\ storeState.signature = request[w].before
    /\ storeState.identity = request[w].identity

\* Mutant of Reuse: a store filed under the path's signature is returned at
\* once, without the authority's identity and the ending checks.
ReuseAtOnce(w) ==
    /\ request[w].stage = "lookup"
    /\ lock = Nothing
    /\ storeState # Nothing
    /\ storeState.signature = request[w].before
    /\ Become(w, [request[w] EXCEPT !.stage = "begin", !.store = storeState.store])
    /\ Quiet
    /\ UNCHANGED <<storeState, lock, window, changes>>

Reuse(w) ==
    /\ request[w].stage = "lookup"
    /\ lock = Nothing
    /\ Reusable(w)
    /\ lock' = w
    /\ Become(w, [request[w] EXCEPT !.stage = "confirm", !.store = storeState.store])
    /\ Quiet
    /\ UNCHANGED <<storeState, window, changes>>

\* _load_snapshot, first half: signature and data version before BEGIN.
BeginLoad(w) ==
    /\ request[w].stage = "lookup"
    /\ lock = Nothing
    /\ ~Reusable(w)
    /\ Readable
    /\ lock' = w
    /\ Become(w, [request[w] EXCEPT !.stage = "load", !.started = Signature(path),
                     !.loaded = disk[request[w].inode].version])
    /\ Quiet
    /\ UNCHANGED <<storeState, window, changes>>

\* _load_snapshot, second half: the rows, and the same two checks again.
LoadUndisturbed(w) ==
    /\ disk[request[w].inode].version = request[w].loaded
    /\ Signature(path) = request[w].started

Load(w) ==
    /\ request[w].stage = "load"
    /\ Readable
    /\ LoadUndisturbed(w)
    /\ Become(w, [request[w] EXCEPT !.stage = "confirm", !.store = StoreOf(request[w].inode)])
    /\ Quiet
    /\ UNCHANGED <<storeState, lock, window, changes>>

\* The load cannot be read, when it begins or in its course, or it read what
\* changed meanwhile.
LoadBroken(w) ==
    \/ /\ request[w].stage = "load"
       /\ Readable => ~LoadUndisturbed(w)
    \/ /\ request[w].stage = "lookup"
       /\ lock = Nothing
       /\ ~Reusable(w)
       /\ ~Readable

\* Mutant of LoadFails: the lock is kept.
LoadFailsHolding(w) ==
    /\ LoadBroken(w)
    /\ IF SamePath(w) THEN TurnAway(w) ELSE Retry(w)
    /\ Quiet
    /\ UNCHANGED <<storeState, lock, window, changes>>

\* SourceAuthorityStoreError, which the errors of SQLite are turned into here,
\* leaves the lock and is retried when the path has visibly changed; otherwise
\* the request fails.
LoadFails(w) ==
    /\ LoadBroken(w)
    /\ lock' = Nothing
    /\ IF SamePath(w) THEN TurnAway(w) ELSE Retry(w)
    /\ Quiet
    /\ UNCHANGED <<storeState, window, changes>>

\* The ending checks; a store that was just loaded becomes the shared one.
Confirmed(w) ==
    /\ disk[request[w].inode].identity = request[w].identity
    /\ SameVersion(w)
    /\ request[w].store.identity = request[w].identity
    /\ SamePath(w)

Confirm(w) ==
    /\ request[w].stage = "confirm"
    /\ Readable
    /\ lock' = Nothing
    /\ IF Confirmed(w)
       THEN /\ Goto(w, "begin")
            /\ storeState' = IF request[w].started = Nothing
                             THEN storeState
                             ELSE [signature |-> request[w].before,
                                   identity |-> request[w].identity,
                                   store |-> request[w].store]
       ELSE Retry(w) /\ UNCHANGED storeState
    /\ Quiet
    /\ UNCHANGED <<window, changes>>

-----------------------------------------------------------------------------
(* The read transaction the request is served from *)

\* Mutants of Begin: the data version is compared with that of a load this
\* request may not have made; it is not compared.
BeginLoadedVersion(w) ==
    /\ request[w].stage = "begin"
    /\ Readable
    /\ IF disk[request[w].inode].version = request[w].loaded
       THEN Goto(w, "serving")
       ELSE TurnAway(w)
    /\ Quiet
    /\ UNCHANGED <<storeState, lock, window, changes>>

BeginAnyVersion(w) ==
    /\ request[w].stage = "begin"
    /\ Readable
    /\ Become(w, [request[w] EXCEPT !.stage = "serving",
                     !.version = disk[request[w].inode].version])
    /\ Quiet
    /\ UNCHANGED <<storeState, lock, window, changes>>

\* begin_validated_cache_snapshot with the expected identity and data version
Begin(w) ==
    /\ request[w].stage = "begin"
    /\ Readable
    /\ IF SameVersion(w) /\ disk[request[w].inode].identity = request[w].identity
       THEN Goto(w, "serving")
       ELSE TurnAway(w)
    /\ Quiet
    /\ UNCHANGED <<storeState, lock, window, changes>>

\* cache_connection: no store, the transaction starts on whatever was opened.
PlainOpen(w) ==
    /\ request[w].stage = "plain"
    /\ request[w].inode = 0
    /\ Become(w, [request[w] EXCEPT !.inode = path])
    /\ Quiet
    /\ UNCHANGED <<storeState, lock, window, changes>>

PlainBegin(w) ==
    /\ request[w].stage = "plain"
    /\ request[w].inode # 0
    /\ Readable
    /\ Become(w, [request[w] EXCEPT !.stage = "serving",
                     !.version = disk[request[w].inode].version])
    /\ Quiet
    /\ UNCHANGED <<storeState, lock, window, changes>>

\* Anywhere else an error of SQLite is CacheUnavailable at once: the connection
\* is closed and the lock left.
Refused(w) ==
    /\ ~Readable
    /\ \/ request[w].stage = "open" /\ request[w].before # Nothing
       \/ request[w].stage \in {"recheck", "confirm", "begin"}
       \/ request[w].stage = "plain" /\ request[w].inode # 0
    /\ lock' = IF request[w].stage = "confirm" THEN Nothing ELSE lock
    /\ TurnAway(w)
    /\ Quiet
    /\ UNCHANGED <<storeState, window, changes>>

\* close_cache_connection
Close(w) ==
    /\ request[w].stage = "serving"
    /\ Become(w, Idle)
    /\ window' = [window EXCEPT ![w] = {}]
    /\ changes' = [changes EXCEPT ![w] = 0]
    /\ Quiet
    /\ UNCHANGED <<storeState, lock>>

\* The application process is restarted.
Restart ==
    /\ request' = [w \in Readers |-> Idle]
    /\ storeState' = Nothing
    /\ lock' = Nothing
    /\ window' = [w \in Readers |-> {}]
    /\ changes' = [w \in Readers |-> 0]
    /\ Quiet

Arrive(w) == Start(w, "open") \/ Start(w, "plain") \/ StartAbsent(w)

Progress(w) ==
    \/ Stat(w) \/ Open(w) \/ Recheck(w)
    \/ Reuse(w) \/ BeginLoad(w) \/ Load(w) \/ LoadFails(w) \/ Confirm(w)
    \/ Begin(w) \/ PlainOpen(w) \/ PlainBegin(w) \/ Refused(w) \/ Close(w)

WriterStep ==
    \/ \E i \in Identities, v \in Vocabularies : Publish(i, v)
    \/ \E f \in Inodes, tick \in {0, 1} : BeginCommit(f, tick)
    \/ \E tick \in {0, 1} : EndCommit(tick) \/ RollBack(tick)
    \/ \E f \in Inodes : Restore(f)

Next == (\E w \in Readers : Arrive(w) \/ Progress(w)) \/ WriterStep \/ Restart

Spec == Init /\ [][Next]_vars

\* A thread that has begun a request and is not waiting for the lock keeps
\* running; nothing is assumed of writers, arrivals, or who gets the lock.
FairSpec == Spec /\ \A w \in Readers : WF_vars(Progress(w))

-----------------------------------------------------------------------------
(* Properties *)

TypeOK ==
    /\ disk \in Seq(File) /\ Len(disk) <= MaxFiles
    /\ path \in Inodes \/ (path = 0 /\ disk = <<>>)
    /\ unfinished \in Inodes \cup {0}
    /\ unfinished # 0 => disk[unfinished].version < MaxCommits
    /\ halts \in 0 .. MaxHalts
    /\ storeState \in [signature : Signatures, identity : Identities, store : Store]
                        \cup {Nothing}
    /\ lock \in Readers \cup {Nothing}
    /\ request \in [Readers -> Request]
    /\ moves \in 0 .. MaxMoves
    /\ window \in [Readers -> SUBSET Signatures]
    /\ changes \in [Readers -> Nat]

Serving(w)   == request[w].stage = "serving"
WithStore(w) == Serving(w) /\ request[w].store # Nothing

\* The store a request compiles from and the snapshot it reads its other rows
\* from describe the same sources and sections, whatever writers and other
\* requests did meanwhile, files moved back included.
AuthorityMatchesSnapshot ==
    \A w \in Readers :
        WithStore(w) => request[w].store.identity = disk[request[w].inode].identity

\* They also agree in the hierarchy vocabulary, which is loaded into the store
\* from the presentation row although no digest covers that row.
StoreMatchesSnapshot ==
    \A w \in Readers :
        WithStore(w) => request[w].store = StoreOf(request[w].inode)

\* A request is served from a state of the cache that was published at some
\* moment of the request itself: never a stale state, never one committed
\* into a file after it was replaced.  A request without a store may see later
\* asset bodies of a replaced file, but no file that was not published.
ServedIsCurrent ==
    \A w \in Readers : Serving(w) =>
        IF WithStore(w) THEN <<request[w].inode, request[w].version>> \in window[w]
        ELSE \E s \in window[w] : s[1] = request[w].inode

\* A request is turned away only when there is no cache, when the cache was
\* written to while the request was under way (running out of attempts takes a
\* write for each of them), or at a moment at which a commit has been begun
\* and neither ended nor rolled back: that alone can refuse a request during
\* which nothing is written, for as long as a killed materialiser's journal
\* stays where it is.
NoSpuriousUnavailable ==
    [][\A w \in Readers :
          request'[w].stage = "unavailable" /\ request[w].stage # "unavailable" =>
             \/ window'[w] = {}
             \/ changes'[w] >= 1
             \/ unfinished # 0]_vars

\* Each attempt after the first takes a write of its own during the request.
RetriesAreEarned ==
    \A w \in Readers : Active(w) /\ request[w].attempt > 1 =>
        changes[w] >= request[w].attempt - 1

-----------------------------------------------------------------------------
(* The inductive invariant behind them *)

Connected == {"recheck", "lookup", "load", "confirm", "begin"}

\* The present state of the path is in the window of every request under way.
WindowsOpen ==
    \A w \in Readers : Active(w) =>
        path # 0 /\ <<path, disk[path].version>> \in window[w]

\* What a connection found at the path was in its window then.
ConnectionsKnown ==
    \A w \in Readers :
        /\ request[w].stage \in Connected =>
              /\ request[w].inode \in Inodes
              /\ request[w].identity = disk[request[w].inode].identity
              /\ <<request[w].inode, request[w].version>> \in window[w]
        /\ request[w].stage = "plain" =>
              /\ request[w].store = Nothing
              /\ request[w].inode # 0 =>
                   /\ request[w].inode \in Inodes
                   /\ \E s \in window[w] : s[1] = request[w].inode
        /\ Serving(w) => request[w].inode \in Inodes

\* The shared store has the identity it is filed under, and so has the store
\* of a request that passed the ending checks.
StoresIdentified ==
    /\ storeState # Nothing => storeState.store.identity = storeState.identity
    /\ \A w \in Readers :
          /\ request[w].stage \in {"confirm", "begin"} =>
                request[w].store # Nothing /\ request[w].store.identity = request[w].identity
          /\ request[w].stage \in {"open", "recheck", "lookup", "load"} =>
                request[w].store = Nothing

\* An attempt begins only while there are attempts left.
AttemptsLeft ==
    \A w \in Readers :
        request[w].stage = "open" /\ request[w].before = Nothing => request[w].attempt < Attempts

ReaderInv ==
    /\ TypeOK /\ AttemptsLeft /\ WindowsOpen /\ ConnectionsKnown /\ StoresIdentified
    /\ AuthorityMatchesSnapshot /\ ServedIsCurrent

\* While no file is moved back the path only moves forward, so that a path
\* found unchanged was never anything else in between, and the shared store
\* was loaded from the file it is filed under.
PathsForward ==
    /\ path = Len(disk)
    /\ storeState # Nothing =>
          /\ storeState.signature[1] \in Inodes
          /\ storeState.store = StoreOf(storeState.signature[1])
    /\ \A w \in Readers :
          /\ request[w].before # Nothing => request[w].before[1] \in Inodes
          /\ request[w].stage \in Connected =>
                request[w].before # Nothing /\ request[w].before[1] <= request[w].inode
          /\ request[w].stage = "confirm" =>
                \/ request[w].store = StoreOf(request[w].inode)
                \/ request[w].store = StoreOf(request[w].before[1])
          /\ request[w].stage = "begin" => request[w].store = StoreOf(request[w].inode)

\* Whatever a request would find changed was changed during this attempt.
Disturbed(w) ==
    \/ Signature(path) # request[w].before
    \/ request[w].stage \in Connected /\ ~SameVersion(w)
    \/ request[w].stage = "load" /\ ~LoadUndisturbed(w)

AttemptsAccounted ==
    \A w \in Readers :
        /\ request[w].stage = "open" /\ request[w].before = Nothing =>
              changes[w] >= request[w].attempt
        /\ request[w].stage \in Connected \cup {"open"} /\ request[w].before # Nothing =>
              /\ request[w].attempt >= 1
              /\ changes[w] >= request[w].attempt - 1
              /\ Disturbed(w) => changes[w] >= request[w].attempt
        /\ request[w].stage \in Connected => request[w].before # Nothing
        /\ request[w].stage \in {"plain", "serving"} =>
              request[w].attempt = 0 \/ changes[w] >= request[w].attempt - 1

-----------------------------------------------------------------------------
\* The store lock is never kept: not when a load fails or is retried.
LockReleased == \A w \in Readers : lock = w ~> lock # w
=============================================================================
