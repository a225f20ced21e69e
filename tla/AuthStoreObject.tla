-------------------------- MODULE AuthStoreObject --------------------------
(***************************************************************************)
(* ttrpg_auth_store of backend.py: the process keeps one TtrpgAuthStore    *)
(* and makes a new one when the database file has another device and inode *)
(* than the one it was made for.  Only the constructor creates the tables; *)
(* every operation connects by path, and connecting creates a missing      *)
(* file.  An operator may remove the file or put another one there while   *)
(* requests are anywhere in between: an empty one, one with the tables, or *)
(* one the constructor refuses (not a database, other tables or columns,   *)
(* another schema version, no write-ahead log).                            *)
(*                                                                         *)
(* Modules BrowserSessions and SsoLogin take a database with tables for    *)
(* granted; this module shows when that is justified.                      *)
(***************************************************************************)
EXTENDS Integers

CONSTANTS
    StoreUsers,  \* requests that use the store
    Inodes,      \* inode numbers, which a file system may use again
    NoFile,
    Free         \* nobody has the lock

ASSUME StoreAssumption == NoFile \notin Inodes /\ Free \notin StoreUsers

VARIABLES
    dbFile,     \* the file at the path
    tables,     \* what is in the file with a number
    storeFor,   \* the inode in _TTRPG_AUTH_STORE_STATE
    storeLock,  \* _TTRPG_AUTH_STORE_LOCK
    user,       \* what each request is doing
    blind       \* history: a change the signatures could not show

storeVars == <<dbFile, tables, storeFor, storeLock, user, blind>>

Contents == {"none", "ours", "foreign"}

\* quiet : history: the operator did nothing since the request began
User == [stage : {"idle", "check", "construct", "initialise", "sign", "use", "failed"},
         quiet : BOOLEAN]

StoreInit ==
    /\ dbFile \in Inodes \cup {NoFile}
    /\ tables \in [Inodes -> Contents]
    /\ storeFor = NoFile
    /\ storeLock = Free
    /\ user = [u \in StoreUsers |-> [stage |-> "idle", quiet |-> TRUE]]
    /\ blind = FALSE

Constructing == \E u \in StoreUsers : user[u].stage \in {"construct", "initialise", "sign"}

\* The operator moves the file at the path away, removes it, or puts another
\* one there.
Operate(i, contents) ==
    /\ i # dbFile
    /\ dbFile' = i
    /\ tables' = IF i = NoFile THEN tables ELSE [tables EXCEPT ![i] = contents]
    /\ user' = [u \in StoreUsers |-> [user[u] EXCEPT !.quiet = FALSE]]
    /\ blind' = (blind \/ Constructing \/ i = storeFor)
    /\ UNCHANGED <<storeFor, storeLock>>

-----------------------------------------------------------------------------
Proceed(u, stage) == user' = [user EXCEPT ![u].stage = stage]

\* A request begins and takes the lock.
BeginUse(u) ==
    /\ user[u].stage \in {"idle", "failed"}
    /\ storeLock = Free
    /\ storeLock' = u
    /\ user' = [user EXCEPT ![u] = [stage |-> "check", quiet |-> TRUE]]
    /\ UNCHANGED <<dbFile, tables, storeFor, blind>>

\* Mutant of SameFile: whatever store there is will do.
SameFileAny == storeFor # NoFile

\* state[1] == signature, and there is a file
SameFile == dbFile # NoFile /\ storeFor = dbFile

\* The file is the one the store was made for, or a new store is made.
CheckStore(u) ==
    /\ user[u].stage = "check"
    /\ IF SameFile
       THEN Proceed(u, "use") /\ storeLock' = Free
       ELSE Proceed(u, "construct") /\ UNCHANGED storeLock
    /\ UNCHANGED <<dbFile, tables, storeFor, blind>>

\* A file created where there is none is empty, and has any free number.
CreateIfMissing ==
    IF dbFile # NoFile THEN UNCHANGED <<dbFile, tables, blind>>
    ELSE \E i \in Inodes :
            /\ dbFile' = i
            /\ tables' = [tables EXCEPT ![i] = "none"]
            /\ blind' = (blind \/ i = storeFor)

\* TtrpgAuthStore.__init__: os.open with O_CREAT
ConstructStore(u) ==
    /\ user[u].stage = "construct"
    /\ CreateIfMissing
    /\ Proceed(u, "initialise")
    /\ UNCHANGED <<storeFor, storeLock>>

\* and _initialize through a connection of its own, which finds the tables,
\* creates them, or refuses the file and leaves the store as it was.
InitialiseStore(u) ==
    /\ user[u].stage = "initialise"
    /\ \/ /\ dbFile # NoFile /\ tables[dbFile] = "foreign"
          /\ Proceed(u, "failed")
          /\ storeLock' = Free
          /\ UNCHANGED <<dbFile, tables>>
       \/ /\ \E i \in IF dbFile = NoFile THEN Inodes ELSE {dbFile} :
                /\ dbFile = NoFile \/ tables[i] # "foreign"
                /\ dbFile' = i
                /\ tables' = [tables EXCEPT ![i] = "ours"]
          /\ Proceed(u, "sign")
          /\ UNCHANGED storeLock
    /\ UNCHANGED <<storeFor, blind>>

\* The signature is read again and kept with the store; with no file there
\* the request fails.
SignStore(u) ==
    /\ user[u].stage = "sign"
    /\ storeFor' = IF dbFile = NoFile THEN storeFor ELSE dbFile
    /\ Proceed(u, IF dbFile = NoFile THEN "failed" ELSE "use")
    /\ storeLock' = Free
    /\ UNCHANGED <<dbFile, tables, blind>>

\* An operation of the store connects and needs the tables.
UseStore(u) ==
    /\ user[u].stage = "use"
    /\ CreateIfMissing
    /\ Proceed(u, IF dbFile # NoFile /\ tables[dbFile] = "ours" THEN "idle" ELSE "failed")
    /\ UNCHANGED <<storeFor, storeLock>>

\* It fails for another reason: an error of the file system, or a database
\* that stays locked for ten seconds.  The with statement frees the lock.
FailStore(u) ==
    /\ user[u].stage \notin {"idle", "failed"}
    /\ Proceed(u, "idle")
    /\ storeLock' = IF storeLock = u THEN Free ELSE storeLock
    /\ UNCHANGED <<dbFile, tables, storeFor, blind>>

StoreNext ==
    \/ \E i \in Inodes, contents \in Contents : Operate(i, contents)
    \/ Operate(NoFile, "none")
    \/ \E u \in StoreUsers :
          \/ BeginUse(u) \/ CheckStore(u) \/ ConstructStore(u)
          \/ InitialiseStore(u) \/ SignStore(u) \/ UseStore(u)
          \/ FailStore(u)

StoreSpec == StoreInit /\ [][StoreNext]_storeVars

-----------------------------------------------------------------------------
(* Properties *)

\* A request during which nobody touched the database file does not fail for
\* want of its tables, whatever was done to the file before and whichever
\* requests still hold an older store, unless the change could not be seen (it
\* fell into the construction of a store, or the new file got the number of the
\* old one), or the file that is there now is one the constructor refuses.
TablesUnlessBlind ==
    \A u \in StoreUsers :
        user[u].stage = "failed" /\ user[u].quiet =>
            blind \/ (dbFile # NoFile /\ tables[dbFile] = "foreign")

-----------------------------------------------------------------------------
(* The inductive invariant behind it *)

StoreTypeOK ==
    /\ dbFile \in Inodes \cup {NoFile}
    /\ tables \in [Inodes -> Contents]
    /\ storeFor \in Inodes \cup {NoFile}
    /\ storeLock \in StoreUsers \cup {Free}
    /\ user \in [StoreUsers -> User]
    /\ blind \in BOOLEAN

\* Unless a change was not seen: the file of the store has its tables while it
\* is at the path, a store under construction is for the file at the path, and
\* a request left in peace uses that file.
SeenChanges ==
    \/ blind
    \/ /\ storeFor # NoFile /\ storeFor = dbFile => tables[storeFor] = "ours"
       /\ \A u \in StoreUsers :
             /\ user[u].stage \in {"initialise", "sign"} => dbFile # NoFile
             /\ user[u].stage = "sign" => tables[dbFile] = "ours"
             /\ user[u].stage = "use" /\ user[u].quiet =>
                   dbFile # NoFile /\ tables[dbFile] = "ours"

\* One request at a time looks at the store or makes one.
OneConstructor ==
    \A u \in StoreUsers :
        user[u].stage \in {"check", "construct", "initialise", "sign"} => storeLock = u

StoreInv == StoreTypeOK /\ SeenChanges /\ OneConstructor /\ TablesUnlessBlind
=============================================================================
