----------------------------- MODULE ServerProofs -----------------------------
(***************************************************************************)
(* What the threads of the web process share, for any number of threads:   *)
(* an authentication store left in peace has its tables, unless its file   *)
(* is one it refuses (StoreHasTables), an index of the rules menu is not   *)
(* older than the request that gets it (IndexNotOlder), a withdrawn        *)
(* signing key ages out of the cache (KeysAge), and one that is published  *)
(* is found (KeysKnown).                                                   *)
(***************************************************************************)
EXTENDS SigningKeys, RuleIndexes, AuthStoreObject, TLAPS

-----------------------------------------------------------------------------
(* AuthStoreObject *)

LEMMA StoreInitial == StoreInit => StoreInv
<1> SUFFICES ASSUME StoreInit PROVE StoreInv
  OBVIOUS
<1>1. \A u \in StoreUsers : user[u] \in User /\ user[u].stage = "idle"
  BY DEF StoreInit, User
<1>2. StoreTypeOK
  BY <1>1, StoreAssumption DEF StoreInit, StoreTypeOK
<1>3. SeenChanges /\ OneConstructor /\ TablesUnlessBlind
  BY <1>1 DEF StoreInit, SeenChanges, OneConstructor, TablesUnlessBlind
<1>4. QED
  BY <1>2, <1>3 DEF StoreInv

LEMMA OperateStep ==
    ASSUME StoreInv, NEW i \in Inodes \cup {NoFile}, NEW contents \in Contents,
           Operate(i, contents)
    PROVE  StoreInv'
<1>1. StoreTypeOK'
  BY DEF StoreInv, StoreTypeOK, Operate, User
<1>2. \A u \in StoreUsers : user'[u].stage = user[u].stage /\ user'[u].quiet = FALSE
  BY DEF StoreInv, StoreTypeOK, Operate, User
<1>3. OneConstructor'
  BY <1>2 DEF StoreInv, OneConstructor, Operate
<1>4. SeenChanges'
  BY <1>2 DEF StoreInv, SeenChanges, Operate, Constructing
<1>5. TablesUnlessBlind'
  BY <1>2 DEF TablesUnlessBlind
<1>6. QED
  BY <1>1, <1>3, <1>4, <1>5 DEF StoreInv

\* A step of one request
LEMMA UserStep ==
    ASSUME StoreInv, NEW u \in StoreUsers,
           BeginUse(u) \/ CheckStore(u) \/ ConstructStore(u)
              \/ InitialiseStore(u) \/ SignStore(u) \/ UseStore(u)
              \/ FailStore(u)
    PROVE  StoreInv'
<1> USE StoreAssumption DEF StoreInv, StoreTypeOK, Contents
<1>1. CASE BeginUse(u)
  <2>1. StoreTypeOK'
    BY <1>1 DEF BeginUse, User
  <2>2. SeenChanges' /\ OneConstructor' /\ TablesUnlessBlind'
    BY <1>1 DEF BeginUse, SeenChanges, OneConstructor, TablesUnlessBlind, User
  <2>3. QED
    BY <2>1, <2>2
<1>2. CASE CheckStore(u)
  <2>1. StoreTypeOK'
    BY <1>2 DEF CheckStore, Proceed, User
  <2>2. SeenChanges' /\ OneConstructor' /\ TablesUnlessBlind'
    BY <1>2 DEF CheckStore, Proceed, SameFile, SeenChanges, OneConstructor, TablesUnlessBlind, User
  <2>3. QED
    BY <2>1, <2>2
<1>3. CASE ConstructStore(u)
  <2>1. StoreTypeOK'
    BY <1>3 DEF ConstructStore, CreateIfMissing, Proceed, User
  <2>2. SeenChanges' /\ OneConstructor' /\ TablesUnlessBlind'
    BY <1>3 DEF ConstructStore, CreateIfMissing, Proceed, SeenChanges, OneConstructor,
                TablesUnlessBlind, User
  <2>3. QED
    BY <2>1, <2>2
<1>4. CASE InitialiseStore(u)
  <2>1. StoreTypeOK'
    BY <1>4 DEF InitialiseStore, Proceed, User
  <2>2. SeenChanges' /\ OneConstructor' /\ TablesUnlessBlind'
    BY <1>4 DEF InitialiseStore, Proceed, SeenChanges, OneConstructor, TablesUnlessBlind, User
  <2>3. QED
    BY <2>1, <2>2
<1>5. CASE SignStore(u)
  <2>1. StoreTypeOK'
    BY <1>5 DEF SignStore, Proceed, User
  <2>2. SeenChanges' /\ OneConstructor' /\ TablesUnlessBlind'
    BY <1>5 DEF SignStore, Proceed, SeenChanges, OneConstructor, TablesUnlessBlind, User
  <2>3. QED
    BY <2>1, <2>2
<1>6. CASE UseStore(u)
  <2>1. StoreTypeOK'
    BY <1>6 DEF UseStore, CreateIfMissing, Proceed, User
  <2>2. SeenChanges' /\ OneConstructor' /\ TablesUnlessBlind'
    BY <1>6 DEF UseStore, CreateIfMissing, Proceed, SeenChanges, OneConstructor,
                TablesUnlessBlind, User
  <2>3. QED
    BY <2>1, <2>2
<1>7. CASE FailStore(u)
  <2>1. StoreTypeOK'
    BY <1>7 DEF FailStore, Proceed, User
  <2>2. SeenChanges' /\ OneConstructor' /\ TablesUnlessBlind'
    BY <1>7 DEF FailStore, Proceed, SeenChanges, OneConstructor, TablesUnlessBlind, User
  <2>3. QED
    BY <2>1, <2>2
<1>8. QED
  BY <1>1, <1>2, <1>3, <1>4, <1>5, <1>6, <1>7

LEMMA StoreInvariant == StoreSpec => []StoreInv
<1>1. StoreInv /\ [StoreNext]_storeVars => StoreInv'
  <2> SUFFICES ASSUME StoreInv, [StoreNext]_storeVars PROVE StoreInv'
    OBVIOUS
  <2>1. CASE UNCHANGED storeVars
    BY <2>1 DEF storeVars, StoreInv, StoreTypeOK, SeenChanges, OneConstructor, TablesUnlessBlind
  <2>2. CASE StoreNext
    BY <2>2, OperateStep, UserStep DEF StoreNext, Contents
  <2>3. QED
    BY <2>1, <2>2
<1>2. QED
  BY <1>1, StoreInitial, PTL DEF StoreSpec

\* A request during which nobody touched the database file does not fail for
\* want of its tables, unless a change could not be seen or the constructor
\* refuses the file that is there.
THEOREM StoreHasTables == StoreSpec => []TablesUnlessBlind
BY StoreInvariant, PTL DEF StoreInv

-----------------------------------------------------------------------------
(* RuleIndexes *)

\* What the invariant says of one index and of one request
FiledOf(i) ==
    built[i] # NoIndex =>
        \A f \in FilesOf(i) : built[i].sign[f] <= built[i].of[f] /\ built[i].of[f] <= release[f]

OrderOf(q) ==
    /\ q.stage \in {"stat", "locked", "reading"} =>
          \A f \in FilesOf(q.index) :
             /\ q.since[f] <= release[f]
             /\ f \in Past(q) \/ q.stage # "stat" => q.since[f] <= q.sign[f] /\ q.sign[f] <= release[f]
    /\ q.stage = "locked" => q.at = "end"
    /\ q.stage = "reading" => \A f \in Past(q) : q.sign[f] <= q.of[f] /\ q.of[f] <= release[f]
    /\ q.stage = "answered" =>
          \A f \in FilesOf(q.index) : q.of[f] \in q.since[f] .. release[f]

LEMMA IndexByRequest ==
    IndexInv <=> /\ IndexTypeOK
                 /\ \A i \in Indexes : FiledOf(i)
                 /\ \A r \in IndexRequests : OrderOf(lookup[r])
                 /\ \A r \in IndexRequests : lookup[r].stage \in {"locked", "reading"} => ruleLock = r
BY DEF IndexInv, ReadAfterStat, IndexOfTheRequest, FiledOf, OrderOf

LEMMA IndexByRequestNext ==
    IndexInv' <=> /\ IndexTypeOK'
                  /\ \A i \in Indexes : FiledOf(i)'
                  /\ \A r \in IndexRequests : OrderOf(lookup[r])'
                  /\ \A r \in IndexRequests : lookup'[r].stage \in {"locked", "reading"} => ruleLock' = r
BY DEF IndexInv, ReadAfterStat, IndexOfTheRequest, FiledOf, OrderOf

LEMMA ReleasesAreNaturals ==
    ASSUME NEW v \in [RuleFiles -> Releases], NEW f \in RuleFiles
    PROVE  v[f] \in Nat
BY IndexAssumption DEF Releases

LEMMA FilesOfIndex == \A i \in Indexes : FilesOf(i) \subseteq RuleFiles /\ FirstFile(i) \in FilesOf(i)
BY DEF Indexes, FilesOf, FirstFile, RuleFiles

LEMMA NoLookupOrdered == NoLookup \in Lookup /\ OrderOf(NoLookup)
BY DEF NoLookup, Lookup, OrderOf

LEMMA IndexInitial == IndexInit => IndexInv
<1> SUFFICES ASSUME IndexInit PROVE IndexInv
  OBVIOUS
<1>1. \A r \in IndexRequests : lookup[r] = NoLookup
  BY DEF IndexInit
<1>2. NoFiles \in [RuleFiles -> Releases]
  BY IndexAssumption DEF NoFiles, Releases
<1>3. IndexTypeOK
  BY <1>1, <1>2, NoLookupOrdered DEF IndexInit, IndexTypeOK
<1>4. \A i \in Indexes : FiledOf(i)
  BY DEF IndexInit, FiledOf
<1>5. QED
  BY <1>1, <1>3, <1>4, NoLookupOrdered, IndexByRequest DEF NoLookup

\* A file is replaced: all that was read stays older than the release.
LEMMA ReleaseStep ==
    ASSUME IndexInv, NEW f \in RuleFiles, Release(f)
    PROVE  IndexInv'
<1>1. /\ IndexTypeOK /\ (\A i \in Indexes : FiledOf(i)) /\ (\A r \in IndexRequests : OrderOf(lookup[r]))
      /\ \A r \in IndexRequests : lookup[r].stage \in {"locked", "reading"} => ruleLock = r
  BY IndexByRequest
<1>2. UNCHANGED <<built, ruleLock, lookup>> /\ release \in [RuleFiles -> Nat] /\ MaxRelease \in Nat
  BY <1>1, IndexAssumption DEF Release, IndexTypeOK, Releases
<1>3. release' \in [RuleFiles -> Releases] /\ \A g \in RuleFiles : release[g] <= release'[g]
  BY <1>1, <1>2 DEF Release, IndexTypeOK, Releases
<1>4. IndexTypeOK'
  BY <1>1, <1>2, <1>3 DEF IndexTypeOK
<1>5. ASSUME NEW i \in Indexes PROVE FiledOf(i)'
  <2> SUFFICES ASSUME built[i] # NoIndex, NEW g \in FilesOf(i)
               PROVE  built[i].sign[g] <= built[i].of[g] /\ built[i].of[g] <= release'[g]
    BY <1>2 DEF FiledOf
  <2>1. g \in RuleFiles /\ built[i].of[g] \in Nat /\ release[g] \in Nat /\ release'[g] \in Nat
    BY <1>1, <1>2, <1>3, FilesOfIndex, ReleasesAreNaturals DEF IndexTypeOK
  <2>2. QED
    BY <1>1, <1>3, <2>1 DEF FiledOf
<1>6. ASSUME NEW r \in IndexRequests PROVE OrderOf(lookup[r])'
  <2>1. CASE lookup[r].stage = "idle"
    BY <1>2, <2>1 DEF OrderOf
  <2>2. CASE lookup[r].stage # "idle"
    <3> DEFINE q == lookup[r]
    <3>1. /\ q.index \in Indexes /\ q.since \in [RuleFiles -> Releases]
          /\ q.sign \in [RuleFiles -> Releases] /\ q.of \in [RuleFiles -> Releases]
      BY <1>1, <2>2 DEF IndexTypeOK, Lookup
    <3>2. \A g \in FilesOf(q.index) :
             /\ q.since[g] \in Nat /\ q.sign[g] \in Nat /\ q.of[g] \in Nat
             /\ release[g] \in Nat /\ release'[g] \in Nat /\ release[g] <= release'[g]
      BY <1>1, <1>3, <3>1, FilesOfIndex, ReleasesAreNaturals DEF IndexTypeOK
    <3>3. OrderOf(q)
      BY <1>1
    <3> HIDE DEF q
    <3>4. Past(q) \subseteq FilesOf(q.index)
      BY DEF Past
    <3>5. OrderOf(q)'
      BY <1>2, <3>2, <3>3, <3>4 DEF OrderOf, q, Past
    <3>6. QED
      BY <3>5 DEF q
  <2>3. QED
    BY <2>1, <2>2
<1>7. QED
  BY <1>1, <1>2, <1>4, <1>5, <1>6, IndexByRequestNext

\* A step of one request, which may file an index
LEMMA LookupStepKeeps ==
    ASSUME IndexInv, NEW r \in IndexRequests, NEW q \in Lookup, LookupStep(r, q), OrderOf(q),
           built' \in [Indexes -> [sign : [RuleFiles -> Releases], of : [RuleFiles -> Releases]]
                                    \cup {NoIndex}],
           \A i \in Indexes : FiledOf(i)',
           \/ ruleLock' = ruleLock
           \/ ruleLock = Unlocked /\ ruleLock' = r
           \/ ruleLock = r /\ ruleLock' = Unlocked,
           q.stage \in {"locked", "reading"} => ruleLock' = r
    PROVE  IndexInv'
<1>1. /\ IndexTypeOK /\ (\A p \in IndexRequests : OrderOf(lookup[p]))
      /\ \A p \in IndexRequests : lookup[p].stage \in {"locked", "reading"} => ruleLock = p
  BY IndexByRequest
<1>2. release' = release /\ \A p \in IndexRequests : lookup'[p] = IF p = r THEN q ELSE lookup[p]
  BY <1>1 DEF LookupStep, IndexTypeOK
<1>3. IndexTypeOK'
  BY <1>1, <1>2 DEF LookupStep, IndexTypeOK
<1>4. ASSUME NEW p \in IndexRequests PROVE OrderOf(lookup[p])'
  <2>1. OrderOf(IF p = r THEN q ELSE lookup[p])
    BY <1>1
  <2>2. QED
    BY <1>2, <2>1 DEF OrderOf, Past
<1>5. \A p \in IndexRequests : lookup'[p].stage \in {"locked", "reading"} => ruleLock' = p
  BY <1>1, <1>2, IndexAssumption
<1>6. QED
  BY <1>3, <1>4, <1>5, IndexByRequestNext

LEMMA LookupActions ==
    ASSUME IndexInv, NEW r \in IndexRequests,
           \/ \E i \in Indexes : BeginLookup(r, i)
           \/ StatFile(r) \/ LockIndex(r) \/ ReturnIndex(r) \/ Rebuild(r)
           \/ ReadFile(r) \/ InstallIndex(r) \/ LookupFails(r)
    PROVE  IndexInv'
<1> DEFINE q == lookup[r]
<1>1. /\ IndexTypeOK /\ (\A i \in Indexes : FiledOf(i)) /\ OrderOf(q)
      /\ q.stage \in {"locked", "reading"} => ruleLock = r
  BY IndexByRequest
<1>2. /\ release \in [RuleFiles -> Releases] /\ q \in Lookup
      /\ built \in [Indexes -> [sign : [RuleFiles -> Releases], of : [RuleFiles -> Releases]]
                                \cup {NoIndex}]
      /\ \A f \in RuleFiles : release[f] \in Nat
  BY <1>1, ReleasesAreNaturals DEF IndexTypeOK
<1>3. q.stage # "idle" =>
         /\ q.stage \in {"stat", "locked", "reading", "answered"}
         /\ q.index \in Indexes /\ q.at \in RuleFiles \cup {"end"}
         /\ q.sign \in [RuleFiles -> Releases] /\ q.of \in [RuleFiles -> Releases]
         /\ q.since \in [RuleFiles -> Releases]
         /\ \A f \in FilesOf(q.index) : f \in RuleFiles /\ q.sign[f] \in Nat /\ q.of[f] \in Nat
                                                        /\ q.since[f] \in Nat
  <2>1. ASSUME q.stage # "idle"
        PROVE  /\ q.stage \in {"stat", "locked", "reading", "answered"}
               /\ q.index \in Indexes /\ q.at \in RuleFiles \cup {"end"}
               /\ q.sign \in [RuleFiles -> Releases] /\ q.of \in [RuleFiles -> Releases]
               /\ q.since \in [RuleFiles -> Releases]
    BY <1>2, <2>1 DEF Lookup
  <2>2. QED
    BY <2>1, FilesOfIndex, ReleasesAreNaturals
<1>4. built' = built => \A i \in Indexes : release' = release => FiledOf(i)'
  BY <1>1 DEF FiledOf
<1>5. ASSUME NEW i \in Indexes, BeginLookup(r, i) PROVE IndexInv'
  <2> DEFINE s == [stage |-> "stat", index |-> i, at |-> FirstFile(i),
                   sign |-> NoFiles, of |-> NoFiles, since |-> release]
  <2>1. NoFiles \in [RuleFiles -> Releases]
    BY IndexAssumption DEF NoFiles, Releases
  <2>2. s \in Lookup
    BY <1>2, <2>1, FilesOfIndex DEF Lookup
  <2>3. Past(s) = {}
    BY DEF Past, FirstFile, FilesOf, Indexes
  <2>4. \A f \in FilesOf(i) : release[f] \in Nat
    BY <1>2, FilesOfIndex
  <2>5. OrderOf(s)
    BY <2>3, <2>4 DEF OrderOf
  <2>6. LookupStep(r, s) /\ UNCHANGED <<built, ruleLock, release>>
    BY <1>5 DEF BeginLookup, LookupStep
  <2>7. QED
    BY <1>2, <1>4, <2>2, <2>5, <2>6, LookupStepKeeps
<1>6. CASE StatFile(r)
  <2> DEFINE s == [q EXCEPT !.at = NextFile(@), !.sign = [@ EXCEPT ![q.at] = release[q.at]]]
  <2>1. q.stage = "stat" /\ q.at # "end" /\ LookupStep(r, s) /\ UNCHANGED <<built, ruleLock, release>>
    BY <1>6 DEF StatFile, LookupStep
  <2>2. /\ s.stage = "stat" /\ s.index = q.index /\ s.at = NextFile(q.at) /\ s.of = q.of /\ s.since = q.since
        /\ s.sign = [q.sign EXCEPT ![q.at] = release[q.at]]
    BY <1>2, <2>1 DEF Lookup
  <2>3. s \in Lookup
    BY <1>2, <1>3, <2>1, <2>2 DEF Lookup, NextFile, RuleFiles
  <2>4. \A f \in Past(s) : f = q.at \/ f \in Past(q)
    BY <1>3, <2>1, <2>2 DEF Past, NextFile, RuleFiles, FilesOf
  <2>5. \A f \in FilesOf(q.index) : release[f] \in Nat
    BY <1>2, <1>3, <2>1
  <2>6. OrderOf(s)
    <3> SUFFICES ASSUME NEW f \in FilesOf(q.index)
                 PROVE  /\ q.since[f] <= release[f]
                        /\ f \in Past(s) => q.since[f] <= s.sign[f] /\ s.sign[f] <= release[f]
      BY <2>2 DEF OrderOf
    <3>1. q.since[f] <= release[f] /\ (f \in Past(q) => q.since[f] <= q.sign[f] /\ q.sign[f] <= release[f])
      BY <1>1, <2>1 DEF OrderOf
    <3>2. s.sign[f] = IF f = q.at THEN release[f] ELSE q.sign[f]
      BY <1>3, <2>1, <2>2
    <3>3. QED
      BY <2>4, <2>5, <3>1, <3>2
  <2>7. QED
    BY <1>2, <1>4, <2>1, <2>2, <2>3, <2>6, LookupStepKeeps
<1>7. CASE LockIndex(r)
  <2> DEFINE s == [q EXCEPT !.stage = "locked"]
  <2>1. /\ q.stage = "stat" /\ q.at = "end" /\ ruleLock = Unlocked /\ ruleLock' = r
        /\ LookupStep(r, s) /\ UNCHANGED <<built, release>>
    BY <1>7 DEF LockIndex, LookupStep
  <2>2. /\ s.stage = "locked" /\ s.index = q.index /\ s.at = "end" /\ s.of = q.of /\ s.since = q.since
        /\ s.sign = q.sign /\ s \in Lookup
    BY <1>2, <2>1 DEF Lookup
  <2>3. OrderOf(s)
    BY <1>1, <2>1, <2>2 DEF OrderOf, Past
  <2>4. QED
    BY <1>2, <1>4, <2>1, <2>2, <2>3, LookupStepKeeps
<1>8. CASE ReturnIndex(r)
  <2> DEFINE b == built[q.index]
             s == [q EXCEPT !.stage = "answered", !.of = b.of]
  <2>1. /\ q.stage = "locked" /\ ruleLock' = Unlocked /\ b # NoIndex /\ b.sign = q.sign
        /\ LookupStep(r, s) /\ UNCHANGED <<built, release>>
    BY <1>8 DEF ReturnIndex, LookupStep, Current
  <2>2. b.of \in [RuleFiles -> Releases] /\ FiledOf(q.index)
    BY <1>1, <1>2, <1>3, <2>1
  <2>3. /\ s.stage = "answered" /\ s.index = q.index /\ s.of = b.of /\ s.since = q.since /\ s \in Lookup
    BY <1>2, <1>3, <2>1, <2>2 DEF Lookup
  <2>4. \A f \in FilesOf(q.index) : b.of[f] \in q.since[f] .. release[f]
    <3> SUFFICES ASSUME NEW f \in FilesOf(q.index) PROVE b.of[f] \in q.since[f] .. release[f]
      OBVIOUS
    <3>1. b.of[f] \in Nat /\ b.sign[f] \in Nat /\ q.since[f] \in Nat /\ release[f] \in Nat
      BY <1>2, <1>3, <2>1, <2>2, ReleasesAreNaturals
    <3>2. q.since[f] <= q.sign[f] /\ b.sign[f] <= b.of[f] /\ b.of[f] <= release[f]
      BY <1>1, <2>1, <2>2 DEF OrderOf, FiledOf
    <3>3. QED
      BY <2>1, <3>1, <3>2
  <2>5. OrderOf(s)
    BY <2>3, <2>4 DEF OrderOf
  <2>6. QED
    BY <1>1, <1>2, <1>4, <2>1, <2>3, <2>5, LookupStepKeeps
<1>9. CASE Rebuild(r)
  <2> DEFINE s == [q EXCEPT !.stage = "reading", !.at = FirstFile(q.index)]
  <2>1. q.stage = "locked" /\ LookupStep(r, s) /\ UNCHANGED <<built, ruleLock, release>>
    BY <1>9 DEF Rebuild, LookupStep
  <2>2. /\ s.stage = "reading" /\ s.index = q.index /\ s.at = FirstFile(q.index) /\ s.of = q.of
        /\ s.since = q.since /\ s.sign = q.sign /\ s \in Lookup
    BY <1>2, <1>3, <2>1, FilesOfIndex DEF Lookup
  <2>3. Past(s) = {}
    BY <1>3, <2>1, <2>2 DEF Past, FirstFile, FilesOf, Indexes
  <2>4. OrderOf(s)
    BY <1>1, <2>1, <2>2, <2>3 DEF OrderOf
  <2>5. QED
    BY <1>1, <1>2, <1>4, <2>1, <2>2, <2>4, LookupStepKeeps
<1>10. CASE ReadFile(r)
  <2> DEFINE s == [q EXCEPT !.at = NextFile(@), !.of = [@ EXCEPT ![q.at] = release[q.at]]]
  <2>1. /\ q.stage = "reading" /\ q.at # "end" /\ LookupStep(r, s)
        /\ UNCHANGED <<built, ruleLock, release>>
    BY <1>10 DEF ReadFile, LookupStep
  <2>2. /\ s.stage = "reading" /\ s.index = q.index /\ s.at = NextFile(q.at) /\ s.sign = q.sign
        /\ s.since = q.since /\ s.of = [q.of EXCEPT ![q.at] = release[q.at]]
    BY <1>2, <2>1 DEF Lookup
  <2>3. s \in Lookup
    BY <1>2, <1>3, <2>1, <2>2 DEF Lookup, NextFile, RuleFiles
  <2>4. \A f \in Past(s) : f \in FilesOf(q.index) /\ (f = q.at \/ f \in Past(q))
    BY <1>3, <2>1, <2>2 DEF Past, NextFile, RuleFiles, FilesOf
  <2>5. ASSUME NEW f \in Past(s) PROVE s.sign[f] <= s.of[f] /\ s.of[f] <= release[f]
    <3>1. release[f] \in Nat /\ q.sign[f] <= release[f]
      BY <1>1, <1>2, <1>3, <2>1, <2>4 DEF OrderOf
    <3>2. f \in Past(q) => q.sign[f] <= q.of[f] /\ q.of[f] <= release[f]
      BY <1>1, <2>1 DEF OrderOf
    <3>3. s.of[f] = IF f = q.at THEN release[f] ELSE q.of[f]
      BY <1>3, <2>1, <2>2, <2>4
    <3>4. QED
      BY <2>2, <2>4, <3>1, <3>2, <3>3
  <2>6. OrderOf(s)
    BY <1>1, <2>1, <2>2, <2>5 DEF OrderOf
  <2>7. QED
    BY <1>1, <1>2, <1>4, <2>1, <2>2, <2>3, <2>6, LookupStepKeeps
<1>11. CASE InstallIndex(r)
  <2> DEFINE s == [q EXCEPT !.stage = "answered"]
             b == [sign |-> q.sign, of |-> q.of]
  <2>1. /\ q.stage = "reading" /\ q.at = "end" /\ LookupStep(r, s) /\ release' = release
        /\ ruleLock' = Unlocked /\ built' = [built EXCEPT ![q.index] = b]
    BY <1>11 DEF InstallIndex, LookupStep, SignatureOf
  <2>2. s.stage = "answered" /\ s.index = q.index /\ s.of = q.of /\ s.since = q.since /\ s \in Lookup
    BY <1>2, <1>3, <2>1 DEF Lookup
  <2>3. ASSUME NEW f \in FilesOf(q.index)
        PROVE  q.since[f] <= q.sign[f] /\ q.sign[f] <= q.of[f] /\ q.of[f] <= release[f]
    BY <1>1, <2>1 DEF OrderOf, Past
  <2>4. OrderOf(s)
    BY <1>2, <1>3, <2>1, <2>2, <2>3 DEF OrderOf
  <2>5. \A i \in Indexes : built'[i] = IF i = q.index THEN b ELSE built[i]
    BY <1>2, <2>1
  <2>6. ASSUME NEW i \in Indexes PROVE FiledOf(i)'
    BY <1>1, <2>1, <2>3, <2>5 DEF FiledOf
  <2>7. built' \in [Indexes -> [sign : [RuleFiles -> Releases], of : [RuleFiles -> Releases]]
                                 \cup {NoIndex}]
    BY <1>2, <1>3, <2>1
  <2>8. QED
    BY <1>1, <2>1, <2>2, <2>4, <2>6, <2>7, LookupStepKeeps
<1>12. CASE LookupFails(r)
  <2>1. /\ LookupStep(r, NoLookup) /\ UNCHANGED <<built, release>>
        /\ ruleLock' = ruleLock \/ (ruleLock = r /\ ruleLock' = Unlocked)
    BY <1>12 DEF LookupFails, LookupStep
  <2>2. QED
    BY <1>2, <1>4, <2>1, NoLookupOrdered, LookupStepKeeps DEF NoLookup
<1>13. QED
  BY <1>5, <1>6, <1>7, <1>8, <1>9, <1>10, <1>11, <1>12

LEMMA IndexInvariant == IndexSpec => []IndexInv
<1>1. IndexInv /\ [IndexNext]_indexVars => IndexInv'
  <2> SUFFICES ASSUME IndexInv, [IndexNext]_indexVars PROVE IndexInv'
    OBVIOUS
  <2>1. CASE UNCHANGED indexVars
    BY <2>1 DEF indexVars, IndexInv, IndexTypeOK, ReadAfterStat, IndexOfTheRequest, Past
  <2>2. CASE IndexNext
    BY <2>2, ReleaseStep, LookupActions DEF IndexNext
  <2>3. QED
    BY <2>1, <2>2
<1>2. QED
  BY <1>1, IndexInitial, PTL DEF IndexSpec

\* No part of the index a request gets is older than the request, although
\* the signatures are taken before the lock and the files read after it.
THEOREM IndexNotOlder == IndexSpec => []IndexOfTheRequest
BY IndexInvariant, PTL DEF IndexInv

-----------------------------------------------------------------------------
(* SigningKeys *)

\* What the invariant says of one request
AgedOf(q) ==
    /\ q.stage \in {"look", "request", "install", "verify"} => q.stamp <= keysTime
    /\ q.stage = "install" => ServedSince(q.stamp, q.keys)
    /\ q.stage = "verify" => ServedSince(q.stamp - KeysLifetime + 1, q.keys)
    /\ q.stage # "idle" /\ q.steady => q.signer \in published
    /\ q.stage = "install" /\ q.steady => q.signer \in q.keys
    /\ q.stage = "verify" /\ q.force /\ q.steady => q.signer \in q.keys

\* and of the cache
CacheAged ==
    /\ \A k \in Keys : withdrawn[k] <= keysTime
    /\ keyCache # NoKeys =>
          /\ keyCache.expires <= keysTime + KeysLifetime
          /\ ServedSince(keyCache.expires - KeysLifetime, keyCache.keys)

LEMMA IdleCallback == \A q \in Callback : q = NoCallback <=> q.stage = "idle"
BY DEF Callback, NoCallback

LEMMA KeysByCallback ==
    KeysInv <=> KeysTypeOK /\ CacheAged /\ \A c \in Callbacks : AgedOf(callback[c])
<1>1. KeysTypeOK => \A c \in Callbacks : callback[c] = NoCallback <=> callback[c].stage = "idle"
  BY IdleCallback DEF KeysTypeOK
<1>2. QED
  BY <1>1 DEF KeysInv, AgeOfKeys, SteadyKeys, SteadyKeyKnown, CacheAged, AgedOf

LEMMA KeysByCallbackNext ==
    KeysInv' <=> KeysTypeOK' /\ CacheAged' /\ \A c \in Callbacks : AgedOf(callback[c])'
<1>1. KeysTypeOK' => \A c \in Callbacks : callback'[c] = NoCallback <=> callback'[c].stage = "idle"
  BY IdleCallback DEF KeysTypeOK
<1>2. QED
  BY <1>1 DEF KeysInv, AgeOfKeys, SteadyKeys, SteadyKeyKnown, CacheAged, AgedOf

LEMMA KeysNumbers == KeysLifetime \in Nat \ {0} /\ MaxKeysTime \in Nat /\ KeysTime \subseteq Nat
BY KeysAssumption DEF KeysTime

LEMMA KeysInitial == KeysInit => KeysInv
<1> SUFFICES ASSUME KeysInit PROVE KeysInv
  OBVIOUS
<1>1. 0 \in KeysTime
  BY KeysNumbers DEF KeysTime
<1>2. KeysTypeOK
  BY <1>1 DEF KeysInit, KeysTypeOK, Callback, NoCallback
<1>3. CacheAged /\ \A c \in Callbacks : AgedOf(callback[c])
  BY DEF KeysInit, CacheAged, AgedOf, NoCallback
<1>4. QED
  BY <1>2, <1>3, KeysByCallback

LEMMA PassTimeStep ==
    ASSUME KeysInv, KeysPassTime
    PROVE  KeysInv'
<1>1. KeysTypeOK /\ CacheAged /\ \A c \in Callbacks : AgedOf(callback[c])
  BY KeysByCallback
<1>2. keysTime' = keysTime + 1 /\ keysTime' \in KeysTime /\ keysTime \in Nat
  BY <1>1, KeysNumbers DEF KeysPassTime, KeysTypeOK, KeysTime
<1>3. UNCHANGED <<published, withdrawn, keyCache, callback>>
  BY DEF KeysPassTime
<1>4. KeysTypeOK'
  BY <1>1, <1>2, <1>3 DEF KeysTypeOK
<1>5. CacheAged'
  <2>1. ASSUME NEW k \in Keys PROVE withdrawn[k] <= keysTime'
    <3>1. withdrawn[k] \in Nat /\ withdrawn[k] <= keysTime
      BY <1>1, KeysNumbers DEF CacheAged, KeysTypeOK
    <3>2. QED
      BY <1>2, <3>1
  <2>2. keyCache # NoKeys =>
           /\ keyCache.expires <= keysTime' + KeysLifetime
           /\ ServedSince(keyCache.expires - KeysLifetime, keyCache.keys)
    BY <1>1, <1>2, KeysNumbers DEF CacheAged, KeysTypeOK
  <2>3. QED
    BY <1>3, <2>1, <2>2 DEF CacheAged, ServedSince
<1>6. ASSUME NEW c \in Callbacks PROVE AgedOf(callback[c])'
  <2>1. callback[c].stage \in {"look", "request", "install", "verify"} => callback[c].stamp \in Nat
    BY <1>1, KeysNumbers DEF KeysTypeOK, Callback
  <2>2. AgedOf(callback[c])
    BY <1>1
  <2>3. QED
    BY <1>2, <1>3, <2>1, <2>2 DEF AgedOf, ServedSince
<1>7. QED
  BY <1>4, <1>5, <1>6, KeysByCallbackNext

\* ServedSince after a step
ServedNext(t, keys) == \A k \in keys \ published' : withdrawn'[k] >= t

\* The keys withdrawn now are stamped with now, which is no earlier than any
\* response.
LEMMA ServedStill ==
    ASSUME KeysTypeOK, NEW keys \in SUBSET Keys, Rotate(keys),
           NEW t \in Int, t <= keysTime, NEW some \in SUBSET Keys, ServedSince(t, some)
    PROVE  ServedNext(t, some)
<1> SUFFICES ASSUME NEW k \in some \ published' PROVE withdrawn'[k] >= t
  BY DEF ServedNext
<1>1. withdrawn'[k] = IF k \in published \ keys THEN keysTime ELSE withdrawn[k]
  BY DEF Rotate
<1>2. published' = keys /\ keysTime \in Int
  BY KeysNumbers DEF Rotate, KeysTypeOK
<1>3. CASE k \in published
  BY <1>1, <1>2, <1>3
<1>4. CASE k \notin published
  BY <1>1, <1>4 DEF ServedSince
<1>5. QED
  BY <1>3, <1>4

LEMMA RotateStep ==
    ASSUME KeysInv, NEW keys \in SUBSET Keys, Rotate(keys)
    PROVE  KeysInv'
<1>1. KeysTypeOK /\ CacheAged /\ \A c \in Callbacks : AgedOf(callback[c])
  BY KeysByCallback
<1>2. published' = keys /\ UNCHANGED <<keysTime, keyCache>>
  BY DEF Rotate
<1>3. \A k \in Keys : withdrawn'[k] = IF k \in published \ keys THEN keysTime ELSE withdrawn[k]
  BY DEF Rotate
<1>4. \A c \in Callbacks : callback[c] \in Callback
  BY <1>1 DEF KeysTypeOK
<1>5. ASSUME NEW c \in Callbacks
      PROVE  /\ callback'[c] \in Callback
             /\ callback[c].stage = "idle" => callback'[c] = callback[c]
             /\ callback[c].stage # "idle" =>
                   callback'[c] = [callback[c] EXCEPT !.steady = @ /\ callback[c].signer \in keys]
  <2>1. callback'[c] = IF callback[c] # NoCallback /\ callback[c].signer \notin keys
                       THEN [callback[c] EXCEPT !.steady = FALSE] ELSE callback[c]
    BY DEF Rotate
  <2>2. CASE callback[c].stage = "idle"
    BY <1>4, <2>1, <2>2, IdleCallback
  <2>3. CASE callback[c].stage # "idle" /\ callback[c].signer \in keys
    <3>1. callback'[c] = callback[c]
      BY <2>1, <2>3
    <3>2. callback[c] = [callback[c] EXCEPT !.steady = @ /\ callback[c].signer \in keys]
      BY <1>4, <2>3 DEF Callback
    <3>3. QED
      BY <1>4, <2>3, <3>1, <3>2
  <2>4. CASE callback[c].stage # "idle" /\ callback[c].signer \notin keys
    <3>1. callback'[c] = [callback[c] EXCEPT !.steady = FALSE]
      BY <1>4, <2>1, <2>4, IdleCallback
    <3>2. callback[c].steady \in BOOLEAN /\ [callback[c] EXCEPT !.steady = FALSE] \in Callback
      BY <1>4, <2>4 DEF Callback
    <3>3. QED
      BY <2>4, <3>1, <3>2
  <2>5. QED
    BY <2>2, <2>3, <2>4
<1>6. KeysTypeOK'
  <2>1. withdrawn' \in [Keys -> KeysTime]
    BY <1>1, <1>3 DEF Rotate, KeysTypeOK
  <2>2. callback' \in [Callbacks -> Callback]
    BY <1>5 DEF Rotate
  <2>3. QED
    BY <1>1, <1>2, <2>1, <2>2 DEF KeysTypeOK
<1>7. CacheAged'
  <2>1. \A k \in Keys : withdrawn'[k] <= keysTime
    BY <1>1, <1>3, KeysNumbers DEF CacheAged, KeysTypeOK
  <2>2. ASSUME keyCache # NoKeys PROVE ServedNext(keyCache.expires - KeysLifetime, keyCache.keys)
    <3>1. keyCache.expires \in Nat /\ keyCache.keys \in SUBSET Keys /\ keysTime \in Nat
      BY <1>1, <2>2, KeysNumbers DEF KeysTypeOK
    <3>2. keyCache.expires - KeysLifetime <= keysTime /\ keyCache.expires - KeysLifetime \in Int
      BY <1>1, <2>2, <3>1, KeysNumbers DEF CacheAged
    <3>3. ServedSince(keyCache.expires - KeysLifetime, keyCache.keys)
      BY <1>1, <2>2 DEF CacheAged
    <3>4. QED
      BY <1>1, <3>1, <3>2, <3>3, ServedStill
  <2>3. keyCache # NoKeys => keyCache.expires <= keysTime + KeysLifetime
    BY <1>1 DEF CacheAged
  <2>4. (\A k \in Keys : withdrawn'[k] <= keysTime') /\ keyCache' = keyCache
    BY <1>2, <2>1
  <2>5. keyCache' # NoKeys =>
           /\ keyCache'.expires <= keysTime' + KeysLifetime
           /\ \A k \in keyCache'.keys \ published' : withdrawn'[k] >= keyCache'.expires - KeysLifetime
    BY <1>2, <2>2, <2>3 DEF ServedNext
  <2>6. QED
    BY <2>4, <2>5 DEF CacheAged, ServedSince
<1>8. ASSUME NEW c \in Callbacks PROVE AgedOf(callback[c])'
  <2> DEFINE q == callback[c]
             s == callback'[c]
  <2>1. CASE q.stage = "idle"
    BY <1>5, <2>1 DEF AgedOf
  <2>2. CASE q.stage # "idle"
    <3>1. s = [q EXCEPT !.steady = @ /\ q.signer \in keys] /\ q \in Callback /\ AgedOf(q)
      BY <1>1, <1>4, <1>5, <2>2
    <3>2. /\ s.stage = q.stage /\ s.signer = q.signer /\ s.steady = (q.steady /\ q.signer \in keys)
          /\ q.stage # "stamp" => s.stamp = q.stamp /\ q.stamp \in Nat
          /\ s.force = q.force
          /\ q.stage \in {"install", "verify"} => s.keys = q.keys /\ q.keys \in SUBSET Keys
      BY <2>2, <3>1, KeysNumbers DEF Callback
    <3>3. keysTime \in Nat
      BY <1>1, KeysNumbers DEF KeysTypeOK
    <3>4. q.stage = "install" => ServedNext(q.stamp, q.keys)
      BY <1>1, <3>1, <3>2, ServedStill DEF AgedOf
    <3>5. ASSUME q.stage = "verify" PROVE ServedNext(q.stamp - KeysLifetime + 1, q.keys)
      <4>1. /\ q.stamp \in Nat /\ q.stamp <= keysTime /\ q.keys \in SUBSET Keys
            /\ ServedSince(q.stamp - KeysLifetime + 1, q.keys)
        BY <3>1, <3>2, <3>5 DEF AgedOf
      <4>2. q.stamp - KeysLifetime + 1 \in Int /\ q.stamp - KeysLifetime + 1 <= keysTime
        BY <3>3, <4>1, KeysNumbers
      <4>3. QED
        BY <1>1, <4>1, <4>2, ServedStill
    <3> HIDE DEF q, s
    <3>6. /\ s.stage \in {"look", "request", "install", "verify"} => s.stamp <= keysTime'
          /\ s.stage = "install" => ServedNext(s.stamp, s.keys)
          /\ s.stage = "verify" => ServedNext(s.stamp - KeysLifetime + 1, s.keys)
      <4>1. q.stage \in {"look", "request", "install", "verify"} => q.stamp <= keysTime
        BY <3>1 DEF AgedOf
      <4>2. QED
        BY <1>2, <3>2, <3>4, <3>5, <4>1
    <3>7. /\ s.stage # "idle" /\ s.steady => s.signer \in published'
          /\ s.stage = "install" /\ s.steady => s.signer \in s.keys
          /\ s.stage = "verify" /\ s.force /\ s.steady => s.signer \in s.keys
      <4>1. s.steady => q.steady /\ q.signer \in keys
        BY <3>2
      <4>2. /\ q.stage = "install" /\ q.steady => q.signer \in q.keys
            /\ q.stage = "verify" /\ q.force /\ q.steady => q.signer \in q.keys
        BY <3>1 DEF AgedOf
      <4>3. QED
        BY <1>2, <3>2, <4>1, <4>2
    <3>8. QED
      BY <3>6, <3>7 DEF AgedOf, ServedSince, ServedNext, s
  <2>3. QED
    BY <2>1, <2>2
<1>9. QED
  BY <1>6, <1>7, <1>8, KeysByCallbackNext

\* A step of one request, which may install keys
LEMMA CallbackStepKeeps ==
    ASSUME KeysInv, NEW c \in Callbacks, NEW q \in Callback, CallbackStep(c, q), AgedOf(q),
           \/ keyCache' = keyCache
           \/ /\ keyCache' \in [expires : Nat, keys : SUBSET Keys]
              /\ keyCache'.expires <= keysTime + KeysLifetime
              /\ ServedSince(keyCache'.expires - KeysLifetime, keyCache'.keys)
    PROVE  KeysInv'
<1>1. KeysTypeOK /\ CacheAged /\ \A d \in Callbacks : AgedOf(callback[d])
  BY KeysByCallback
<1>2. /\ UNCHANGED <<keysTime, published, withdrawn>>
      /\ \A d \in Callbacks : callback'[d] = IF d = c THEN q ELSE callback[d]
  BY <1>1 DEF CallbackStep, KeysTypeOK
<1>3. KeysTypeOK'
  BY <1>1, <1>2 DEF CallbackStep, KeysTypeOK
<1>4. CacheAged'
  BY <1>1, <1>2 DEF CacheAged, ServedSince
<1>5. ASSUME NEW d \in Callbacks PROVE AgedOf(callback[d])'
  <2>1. AgedOf(IF d = c THEN q ELSE callback[d])
    BY <1>1
  <2>2. QED
    BY <1>2, <2>1 DEF AgedOf, ServedSince
<1>6. QED
  BY <1>3, <1>4, <1>5, KeysByCallbackNext

LEMMA NoCallbackAged == NoCallback \in Callback /\ AgedOf(NoCallback)
BY DEF NoCallback, Callback, AgedOf

LEMMA CallbackActions ==
    ASSUME KeysInv, NEW c \in Callbacks,
           \/ ReceiveToken(c) \/ StampKeys(c) \/ LookUpKeys(c) \/ ServeKeys(c)
           \/ InstallKeys(c) \/ AcceptToken(c) \/ RejectToken(c) \/ KeysUnavailable(c)
    PROVE  KeysInv'
<1> DEFINE q == callback[c]
<1>1. /\ KeysTypeOK /\ CacheAged /\ AgedOf(q) /\ q \in Callback
      /\ published \in SUBSET Keys /\ keysTime \in KeysTime /\ keysTime \in Nat
  BY KeysByCallback, KeysNumbers DEF KeysTypeOK
<1>2. ASSUME q.stage # "idle"
      PROVE  /\ q.signer \in Keys \cup {NoKey} /\ q.steady \in BOOLEAN /\ q.force \in BOOLEAN
             /\ q.stage # "stamp" => q.stamp \in KeysTime /\ q.stamp \in Nat
             /\ q.stage \in {"install", "verify"} => q.keys \in SUBSET Keys
  BY <1>1, <1>2, KeysNumbers DEF Callback
<1>3. CASE ReceiveToken(c)
  <2>1. PICK k \in published \cup {NoKey} :
           CallbackStep(c, [stage |-> "stamp", signer |-> k, steady |-> k # NoKey, force |-> FALSE])
    BY <1>3 DEF ReceiveToken
  <2> DEFINE s == [stage |-> "stamp", signer |-> k, steady |-> k # NoKey, force |-> FALSE]
  <2>2. s \in Callback
    BY <1>1 DEF Callback
  <2>3. AgedOf(s)
    <3>1. s.steady => s.signer \in published
      BY <2>1
    <3>2. QED
      BY <3>1 DEF AgedOf
  <2>4. keyCache' = keyCache
    BY <1>3 DEF ReceiveToken
  <2>5. QED
    BY <2>1, <2>2, <2>3, <2>4, CallbackStepKeeps
<1>4. CASE StampKeys(c)
  <2> DEFINE s == [stage |-> "look", signer |-> q.signer, steady |-> q.steady,
                   force |-> q.force, stamp |-> keysTime]
  <2>1. q.stage = "stamp" /\ CallbackStep(c, s) /\ keyCache' = keyCache
    BY <1>4 DEF StampKeys
  <2>2. s \in Callback
    BY <1>1, <1>2, <2>1 DEF Callback
  <2>3. AgedOf(s)
    BY <1>1, <2>1 DEF AgedOf
  <2>4. QED
    BY <2>1, <2>2, <2>3, CallbackStepKeeps
<1>5. CASE LookUpKeys(c)
  <2>1. q.stage = "look" /\ keyCache' = keyCache
    BY <1>5 DEF LookUpKeys
  <2>2. CASE FreshCache(q)
    <3> DEFINE s == WithKeys(q, "verify", keyCache.keys)
    <3>1. CallbackStep(c, s)
      BY <1>5, <2>2 DEF LookUpKeys
    <3>2. keyCache \in [expires : Nat, keys : SUBSET Keys] /\ ~q.force /\ keyCache.expires > q.stamp
      BY <1>1, <2>2 DEF FreshCache, KeysTypeOK
    <3>3. s \in Callback
      BY <1>1, <1>2, <2>1, <3>2 DEF Callback, WithKeys
    <3>4. ServedSince(q.stamp - KeysLifetime + 1, keyCache.keys)
      <4> SUFFICES ASSUME NEW k \in keyCache.keys \ published
                   PROVE  withdrawn[k] >= q.stamp - KeysLifetime + 1
        BY DEF ServedSince
      <4>1. withdrawn[k] >= keyCache.expires - KeysLifetime
        BY <1>1, <2>2 DEF CacheAged, ServedSince, FreshCache
      <4>2. withdrawn[k] \in Nat /\ keyCache.expires \in Nat /\ q.stamp \in Nat
        BY <1>1, <1>2, <2>1, <3>2, KeysNumbers DEF KeysTypeOK
      <4>3. QED
        BY <3>2, <4>1, <4>2, KeysNumbers
    <3>5. q.steady => q.signer \in published
      BY <1>1, <2>1 DEF AgedOf
    <3>6. q.stamp <= keysTime
      BY <1>1, <2>1 DEF AgedOf
    <3>7. AgedOf(s)
      BY <3>2, <3>4, <3>5, <3>6 DEF AgedOf, WithKeys
    <3>8. QED
      BY <2>1, <3>1, <3>3, <3>7, CallbackStepKeeps
  <2>3. CASE ~FreshCache(q)
    <3> DEFINE s == [q EXCEPT !.stage = "request"]
    <3>1. CallbackStep(c, s)
      BY <1>5, <2>3 DEF LookUpKeys
    <3>2. s \in Callback
      BY <1>1, <2>1 DEF Callback
    <3>3. /\ s.stage = "request" /\ s.signer = q.signer /\ s.steady = q.steady /\ s.stamp = q.stamp
      BY <1>1, <2>1 DEF Callback
    <3>4. AgedOf(s)
      BY <1>1, <2>1, <3>3 DEF AgedOf
    <3>5. QED
      BY <2>1, <3>1, <3>2, <3>4, CallbackStepKeeps
  <2>4. QED
    BY <2>2, <2>3
<1>6. CASE ServeKeys(c)
  <2> DEFINE s == WithKeys(q, "install", published)
  <2>1. q.stage = "request" /\ CallbackStep(c, s) /\ keyCache' = keyCache
    BY <1>6 DEF ServeKeys
  <2>2. s \in Callback
    BY <1>1, <1>2, <2>1 DEF Callback, WithKeys
  <2>3. AgedOf(s)
    BY <1>1, <2>1 DEF AgedOf, WithKeys, ServedSince
  <2>4. QED
    BY <2>1, <2>2, <2>3, CallbackStepKeeps
<1>7. CASE InstallKeys(c)
  <2> DEFINE s == [q EXCEPT !.stage = "verify"]
  <2>1. /\ q.stage = "install" /\ CallbackStep(c, s)
        /\ keyCache' = [expires |-> q.stamp + KeysLifetime, keys |-> q.keys]
    BY <1>7 DEF InstallKeys, KeysExpiry
  <2>2. s \in Callback
    BY <1>1, <2>1 DEF Callback
  <2>3. /\ s.stage = "verify" /\ s.signer = q.signer /\ s.steady = q.steady /\ s.force = q.force
        /\ s.stamp = q.stamp /\ s.keys = q.keys
    BY <1>1, <2>1 DEF Callback
  <2>4. q.stamp <= keysTime /\ ServedSince(q.stamp, q.keys) /\ q.stamp \in Nat /\ q.keys \in SUBSET Keys
    BY <1>1, <1>2, <2>1 DEF AgedOf
  <2>5. ServedSince(q.stamp - KeysLifetime + 1, q.keys)
    <3> SUFFICES ASSUME NEW k \in q.keys \ published PROVE withdrawn[k] >= q.stamp - KeysLifetime + 1
      BY DEF ServedSince
    <3>1. withdrawn[k] \in Nat /\ withdrawn[k] >= q.stamp
      BY <1>1, <2>4, KeysNumbers DEF KeysTypeOK, ServedSince
    <3>2. QED
      BY <2>4, <3>1, KeysNumbers
  <2>6. (q.steady => q.signer \in published) /\ (q.steady => q.signer \in q.keys)
    BY <1>1, <2>1 DEF AgedOf
  <2>7. AgedOf(s)
    BY <2>3, <2>4, <2>5, <2>6 DEF AgedOf
  <2>8. /\ keyCache' \in [expires : Nat, keys : SUBSET Keys]
        /\ keyCache'.expires <= keysTime + KeysLifetime
        /\ ServedSince(keyCache'.expires - KeysLifetime, keyCache'.keys)
    <3>1. q.stamp + KeysLifetime - KeysLifetime = q.stamp
      BY <2>4, KeysNumbers
    <3>2. QED
      BY <1>1, <2>1, <2>4, <3>1, KeysNumbers
  <2>9. QED
    BY <2>1, <2>2, <2>7, <2>8, CallbackStepKeeps
<1>8. CASE AcceptToken(c)
  BY <1>8, NoCallbackAged, CallbackStepKeeps DEF AcceptToken
<1>9. CASE RejectToken(c)
  <2> DEFINE s == [stage |-> "stamp", signer |-> q.signer, steady |-> q.steady, force |-> TRUE]
  <2>1. q.stage = "verify" /\ keyCache' = keyCache
    BY <1>9 DEF RejectToken
  <2>2. CallbackStep(c, NoCallback) \/ CallbackStep(c, s)
    BY <1>9 DEF RejectToken
  <2>3. s \in Callback
    BY <1>2, <2>1 DEF Callback
  <2>4. AgedOf(s)
    BY <1>1, <2>1 DEF AgedOf
  <2>5. QED
    BY <2>1, <2>2, <2>3, <2>4, NoCallbackAged, CallbackStepKeeps
<1>10. CASE KeysUnavailable(c)
  BY <1>10, NoCallbackAged, CallbackStepKeeps DEF KeysUnavailable
<1>11. QED
  BY <1>3, <1>4, <1>5, <1>6, <1>7, <1>8, <1>9, <1>10

LEMMA KeysInvariant == KeysSpec => []KeysInv
<1>1. KeysInv /\ [KeysNext]_keyVars => KeysInv'
  <2> SUFFICES ASSUME KeysInv, [KeysNext]_keyVars PROVE KeysInv'
    OBVIOUS
  <2>1. CASE UNCHANGED keyVars
    BY <2>1 DEF keyVars, KeysInv, KeysTypeOK, AgeOfKeys, SteadyKeys, SteadyKeyKnown, ServedSince
  <2>2. CASE KeysNext
    BY <2>2, PassTimeStep, RotateStep, CallbackActions DEF KeysNext
  <2>3. QED
    BY <2>1, <2>2
<1>2. QED
  BY <1>1, KeysInitial, PTL DEF KeysSpec

\* A token whose key is published all along is not refused for want of the
\* key, whatever slow responses leave in the cache.
THEOREM KeysKnown == KeysSpec => []SteadyKeyKnown
BY KeysInvariant, PTL DEF KeysInv

\* A key a token is accepted with was withdrawn less than the cache lifetime
\* before the request read the clock.
THEOREM KeysAge == KeysSpec => []KeysAgeBound
<1>1. KeysInv => KeysAgeBound
  <2> SUFFICES ASSUME KeysInv, NEW c \in Callbacks, callback[c].stage = "verify",
                      callback[c].signer \in callback[c].keys, callback[c].signer \notin published
               PROVE  withdrawn[callback[c].signer] > callback[c].stamp - KeysLifetime
    BY DEF KeysAgeBound, Verifies
  <2>1. KeysTypeOK /\ AgedOf(callback[c]) /\ callback[c] \in Callback
    BY KeysByCallback DEF KeysTypeOK
  <2>2. callback[c].stamp \in Nat /\ callback[c].signer \in Keys
    BY <2>1, KeysNumbers DEF Callback
  <2>3. withdrawn[callback[c].signer] \in Nat
    BY <2>1, <2>2, KeysNumbers DEF KeysTypeOK
  <2>4. withdrawn[callback[c].signer] >= callback[c].stamp - KeysLifetime + 1
    BY <2>1 DEF AgedOf, ServedSince
  <2>5. QED
    BY <2>2, <2>3, <2>4, KeysNumbers
<1>2. QED
  BY <1>1, KeysInvariant, PTL
===============================================================================
