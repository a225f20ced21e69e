----------------------------- MODULE RuleIndexes -----------------------------
(***************************************************************************)
(* The two process-wide indexes backend.py keeps of the rules menu:        *)
(* allowed_rule_targets (of the target file) and _indexed_spells (of the   *)
(* menu file and the target file).  A request takes the signatures of the  *)
(* files before it has the lock, and reads the files under it; a release   *)
(* replaces the files one after the other at any moment in between.        *)
(*                                                                         *)
(* A release gives a file a signature (mtime and size) it never had.       *)
(***************************************************************************)
EXTENDS Integers

CONSTANTS
    IndexRequests,  \* requests that use an index
    MaxRelease,     \* bound: versions of each file
    NoIndex,        \* an empty cache
    Unlocked

ASSUME IndexAssumption ==
    /\ Unlocked \notin IndexRequests
    /\ MaxRelease \in Nat

RuleFiles == {"menu", "targets"}
Indexes   == {"targets", "spells"}
Releases  == 0 .. MaxRelease

\* The files an index is made of, looked at and read in this order
FilesOf(index) == IF index = "targets" THEN {"targets"} ELSE {"menu", "targets"}
FirstFile(index) == IF index = "targets" THEN "targets" ELSE "menu"
NextFile(f) == IF f = "menu" THEN "targets" ELSE "end"

ASSUME NoIndexIsNone == NoIndex \notin [sign : [RuleFiles -> Releases], of : [RuleFiles -> Releases]]

VARIABLES
    release,   \* the version of each file, which is also its signature
    built,     \* _RULE_TARGET_CACHE and _SPELL_INDEX_CACHE
    ruleLock,  \* who has _RULE_TARGET_LOCK
    lookup     \* what each request is doing

indexVars == <<release, built, ruleLock, lookup>>

NoFiles == [f \in RuleFiles |-> 0]

\* at : the file it is at;  sign : the signatures read;  of : the versions read
\* since : history: the versions when the request began
Lookup ==
    [stage : {"idle"}]
      \cup [stage : {"stat", "locked", "reading", "answered"}, index : Indexes, at : RuleFiles \cup {"end"},
            sign : [RuleFiles -> Releases], of : [RuleFiles -> Releases],
            since : [RuleFiles -> Releases]]

NoLookup == [stage |-> "idle"]

IndexInit ==
    /\ release = NoFiles
    /\ built = [i \in Indexes |-> NoIndex]
    /\ ruleLock = Unlocked
    /\ lookup = [r \in IndexRequests |-> NoLookup]

\* One of the files is replaced.
Release(f) ==
    /\ release[f] < MaxRelease
    /\ release' = [release EXCEPT ![f] = @ + 1]
    /\ UNCHANGED <<built, ruleLock, lookup>>

LookupStep(r, q) == lookup' = [lookup EXCEPT ![r] = q] /\ UNCHANGED release

BeginLookup(r, i) ==
    /\ lookup[r].stage \in {"idle", "answered"}
    /\ LookupStep(r, [stage |-> "stat", index |-> i, at |-> FirstFile(i),
                      sign |-> NoFiles, of |-> NoFiles, since |-> release])
    /\ UNCHANGED <<built, ruleLock>>

\* stat() of one file
StatFile(r) ==
    /\ lookup[r].stage = "stat"
    /\ lookup[r].at # "end"
    /\ LookupStep(r, [lookup[r] EXCEPT !.at = NextFile(@),
                                       !.sign = [@ EXCEPT ![lookup[r].at] = release[lookup[r].at]]])
    /\ UNCHANGED <<built, ruleLock>>

\* The lock is taken.
LockIndex(r) ==
    /\ lookup[r].stage = "stat"
    /\ lookup[r].at = "end"
    /\ ruleLock = Unlocked
    /\ ruleLock' = r
    /\ LookupStep(r, [lookup[r] EXCEPT !.stage = "locked"])
    /\ UNCHANGED built

\* cache is not None and cache[0] == signature
Current(r) ==
    /\ built[lookup[r].index] # NoIndex
    /\ built[lookup[r].index].sign = lookup[r].sign

\* The cached index is returned,
ReturnIndex(r) ==
    /\ lookup[r].stage = "locked"
    /\ Current(r)
    /\ ruleLock' = Unlocked
    /\ LookupStep(r, [lookup[r] EXCEPT !.stage = "answered",
                                       !.of = built[lookup[r].index].of])
    /\ UNCHANGED built

\* or the files are read again,
Rebuild(r) ==
    /\ lookup[r].stage = "locked"
    /\ ~Current(r)
    /\ LookupStep(r, [lookup[r] EXCEPT !.stage = "reading",
                                       !.at = FirstFile(lookup[r].index)])
    /\ UNCHANGED <<built, ruleLock>>

\* one after the other,
ReadFile(r) ==
    /\ lookup[r].stage = "reading"
    /\ lookup[r].at # "end"
    /\ LookupStep(r, [lookup[r] EXCEPT !.at = NextFile(@),
                                       !.of = [@ EXCEPT ![lookup[r].at] = release[lookup[r].at]]])
    /\ UNCHANGED <<built, ruleLock>>

\* Mutant of SignatureOf: the files are looked at after they are read.
SignatureAfter(r) ==
    [f \in RuleFiles |-> IF lookup[r].index = "targets" /\ f = "menu" THEN 0 ELSE release[f]]

\* The signature an index is filed under: the one read before the lock
SignatureOf(r) == lookup[r].sign

\* and the index is filed and returned.
InstallIndex(r) ==
    /\ lookup[r].stage = "reading"
    /\ lookup[r].at = "end"
    /\ built' = [built EXCEPT ![lookup[r].index] = [sign |-> SignatureOf(r), of |-> lookup[r].of]]
    /\ ruleLock' = Unlocked
    /\ LookupStep(r, [lookup[r] EXCEPT !.stage = "answered"])

\* A file is not there or not valid, or the two do not fit each other.
LookupFails(r) ==
    /\ lookup[r].stage \in {"stat", "reading"}
    /\ ruleLock' = IF ruleLock = r THEN Unlocked ELSE ruleLock
    /\ LookupStep(r, NoLookup)
    /\ UNCHANGED built

IndexNext ==
    \/ \E f \in RuleFiles : Release(f)
    \/ \E r \in IndexRequests :
          \/ \E i \in Indexes : BeginLookup(r, i)
          \/ StatFile(r) \/ LockIndex(r) \/ ReturnIndex(r) \/ Rebuild(r)
          \/ ReadFile(r) \/ InstallIndex(r) \/ LookupFails(r)

IndexSpec == IndexInit /\ [][IndexNext]_indexVars

-----------------------------------------------------------------------------
(* Properties *)

\* Every part of the index a request gets was at its path at some moment of
\* that request: an index is never older than the request, although it may be
\* filed under a signature that is older than what was read.
IndexOfTheRequest ==
    \A r \in IndexRequests :
        lookup[r].stage = "answered" =>
            \A f \in FilesOf(lookup[r].index) :
                lookup[r].of[f] \in lookup[r].since[f] .. release[f]

-----------------------------------------------------------------------------
(* The inductive invariant behind it *)

IndexTypeOK ==
    /\ release \in [RuleFiles -> Releases]
    /\ built \in [Indexes -> [sign : [RuleFiles -> Releases], of : [RuleFiles -> Releases]]
                               \cup {NoIndex}]
    /\ ruleLock \in IndexRequests \cup {Unlocked}
    /\ lookup \in [IndexRequests -> Lookup]

\* The files a request is past
Past(q) == {f \in FilesOf(q.index) : q.at = "end" \/ (f = "menu" /\ q.at = "targets")}

\* Signatures are taken after the request began, versions are read after
\* their signatures, and an index is no older than what it is filed under.
ReadAfterStat ==
    /\ \A i \in Indexes : built[i] # NoIndex =>
          \A f \in FilesOf(i) : built[i].sign[f] <= built[i].of[f] /\ built[i].of[f] <= release[f]
    /\ \A r \in IndexRequests :
          LET q == lookup[r] IN
          /\ q.stage \in {"stat", "locked", "reading"} =>
                \A f \in FilesOf(q.index) :
                   /\ q.since[f] <= release[f]
                   /\ f \in Past(q) \/ q.stage # "stat" =>
                         q.since[f] <= q.sign[f] /\ q.sign[f] <= release[f]
          /\ q.stage = "locked" => q.at = "end"
          /\ q.stage = "reading" =>
                \A f \in Past(q) : q.sign[f] <= q.of[f] /\ q.of[f] <= release[f]
          /\ q.stage \in {"locked", "reading"} => ruleLock = r

IndexInv == IndexTypeOK /\ ReadAfterStat /\ IndexOfTheRequest
=============================================================================
