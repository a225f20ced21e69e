------------------------- MODULE CacheReaderProofs -------------------------
(***************************************************************************)
(* What a request of the TTRPG application is served from, for any number  *)
(* of requests, files, commits and moved files: the store and the snapshot *)
(* agree on the authority (AuthorityMatches), the snapshot was published   *)
(* during the request (ServedCurrent), a retried request met a writer each *)
(* time (RetriesEarned), and one turned away met a writer or a commit that *)
(* had not ended (UnavailableEarned).  While no                            *)
(* file is moved back, store and snapshot agree on the vocabulary as well  *)
(* (StoreMatches).                                                         *)
(***************************************************************************)
EXTENDS CacheReader, TLAPS

\* Only request w changes.
LEMMA Others ==
    ASSUME TypeOK, NEW w \in Readers, NEW q, Become(w, q)
    PROVE  \A v \in Readers : request'[v] = IF v = w THEN q ELSE request[v]
BY DEF TypeOK, Become

LEMMA IdleTyped == Idle \in Request
BY ReaderAssumption DEF Idle, Request, Stages

LEMMA SignatureTyped ==
    ASSUME TypeOK, NEW f \in Inodes
    PROVE  /\ disk[f] \in File
           /\ Signature(f) \in Signatures
           /\ StoreOf(f) \in Store
           /\ <<f, disk[f].version>> \in Signatures
<1>1. disk[f] \in File /\ f \in 1 .. MaxFiles
  BY ReaderAssumption DEF TypeOK, Inodes
<1>2. QED
  BY <1>1 DEF Signature, Signatures, StoreOf, Store, File

LEMMA RetryTyped ==
    ASSUME TypeOK, NEW w \in Readers, Retry(w)
    PROVE  request' \in [Readers -> Request]
<1> DEFINE n == request[w].attempt
           s == IF n = Attempts THEN "unavailable" ELSE "open"
<1>1. n \in 0 .. Attempts /\ s \in Stages
  BY DEF TypeOK, Request, Stages
<1> HIDE DEF n, s
<1>2. [Idle EXCEPT !.stage = s, !.attempt = n] \in Request
  BY <1>1, IdleTyped DEF Request
<1>3. QED
  BY <1>2 DEF TypeOK, Retry, Become, n, s

-----------------------------------------------------------------------------
(* The writers *)

\* What writing the pages of one file does
LEMMA WrittenKeeps ==
    ASSUME TypeOK, NEW f \in Inodes, NEW ended \in {0, 1}, NEW tick \in {0, 1},
           disk[f].version + ended <= MaxCommits, Written(f, ended, tick)
    PROVE  /\ Len(disk') = Len(disk) /\ Inodes' = Inodes
           /\ disk' \in Seq(File)
           /\ \A g \in Inodes :
                /\ disk'[g].identity = disk[g].identity
                /\ disk'[g].vocabulary = disk[g].vocabulary
           /\ disk'[f].version = disk[f].version + ended
           /\ path' = path /\ path \in Inodes
           /\ Witnessed
           /\ UNCHANGED <<storeState, lock, request, moves>>
<1> DEFINE n == [disk[f] EXCEPT !.version = @ + ended, !.mtime = @ + tick]
<1>1. disk[f] \in File
  BY SignatureTyped
<1>2. /\ n \in File
      /\ n.identity = disk[f].identity /\ n.vocabulary = disk[f].vocabulary
      /\ n.version = disk[f].version + ended
  <2>1. disk[f].version \in Nat /\ disk[f].mtime \in Nat
    BY <1>1 DEF File
  <2>2. disk[f].version + ended \in 0 .. MaxCommits /\ disk[f].mtime + tick \in Nat
    BY <2>1, ReaderAssumption
  <2>3. [disk[f] EXCEPT !.version = disk[f].version + ended,
                        !.mtime = disk[f].mtime + tick] \in File
    BY <1>1, <2>2 DEF File
  <2>4. QED
    BY <1>1, <2>3 DEF File
<1>3. disk' = [disk EXCEPT ![f] = n]
  BY <1>1 DEF Written, File
<1> HIDE DEF n
<1>4. disk # <<>>
  BY DEF Inodes
<1>5. Len(disk') = Len(disk) /\ Inodes' = Inodes /\ disk' \in Seq(File)
  BY <1>2, <1>3 DEF TypeOK, Inodes
<1>6. disk'[f] = n /\ \A g \in Inodes \ {f} : disk'[g] = disk[g]
  BY <1>3 DEF TypeOK, Inodes
<1>7. path' = path /\ path \in Inodes
  BY <1>4 DEF Written, TypeOK
<1>8. Witnessed /\ UNCHANGED <<storeState, lock, request, moves>>
  BY DEF Written
<1>9. QED
  BY <1>2, <1>5, <1>6, <1>7, <1>8

\* What every write keeps of the files there were.
LEMMA WritesKeep ==
    ASSUME TypeOK, WriterStep
    PROVE  /\ Len(disk') \in Nat /\ Len(disk') >= Len(disk)
           /\ \A f \in Inodes :
                /\ disk'[f].identity = disk[f].identity
                /\ disk'[f].vocabulary = disk[f].vocabulary
           /\ path' \in Inodes'
           /\ disk' \in Seq(File) /\ Len(disk') <= MaxFiles
           /\ unfinished' \in Inodes' \cup {0}
           /\ unfinished' # 0 => disk'[unfinished'].version < MaxCommits
           /\ halts' \in 0 .. MaxHalts
           /\ moves' \in 0 .. MaxMoves
           /\ Witnessed
           /\ UNCHANGED <<storeState, lock, request>>
<1>1. ASSUME NEW i \in Identities, NEW v \in Vocabularies, Publish(i, v)
      PROVE  /\ Len(disk') = Len(disk) + 1
             /\ \A f \in Inodes : disk'[f] = disk[f]
             /\ path' \in Inodes'
             /\ disk' \in Seq(File) /\ Len(disk') <= MaxFiles
             /\ Witnessed
             /\ UNCHANGED <<unfinished, halts, storeState, lock, request, moves>>
  <2> DEFINE n == [identity |-> i, vocabulary |-> v, version |-> 0, mtime |-> 0]
  <2>1. n \in File
    BY ReaderAssumption DEF File
  <2>2. disk' = Append(disk, n) /\ path' = Len(disk) + 1 /\ Len(disk) < MaxFiles
    BY <1>1 DEF Publish
  <2>3. Witnessed /\ UNCHANGED <<unfinished, halts, storeState, lock, request, moves>>
    BY <1>1 DEF Publish
  <2> HIDE DEF n
  <2>4. QED
    BY <2>1, <2>2, <2>3, ReaderAssumption DEF TypeOK, Inodes
<1>2. CASE \E i \in Identities, v \in Vocabularies : Publish(i, v)
  <2>1. /\ Len(disk') = Len(disk) + 1
        /\ \A f \in Inodes : disk'[f] = disk[f]
        /\ path' \in Inodes'
        /\ disk' \in Seq(File) /\ Len(disk') <= MaxFiles
        /\ Witnessed
        /\ UNCHANGED <<unfinished, halts, storeState, lock, request, moves>>
    BY <1>1, <1>2
  <2>2. unfinished' \in Inodes' \cup {0}
        /\ (unfinished' # 0 => disk'[unfinished'].version < MaxCommits)
    BY <2>1 DEF TypeOK, Inodes
  <2>3. QED
    BY <2>1, <2>2 DEF TypeOK
<1>3. ASSUME NEW f \in Inodes, NEW tick \in {0, 1}, BeginCommit(f, tick)
      PROVE  Written(f, 0, tick) /\ disk[f].version \in Nat /\ disk[f].version < MaxCommits
             /\ unfinished' = f /\ halts' = halts
  <2>1. disk[f].version \in 0 .. MaxCommits
    BY SignatureTyped DEF File
  <2>2. QED
    BY <1>3, <2>1 DEF BeginCommit
<1>4. CASE \E f \in Inodes, tick \in {0, 1} : BeginCommit(f, tick)
  <2>1. PICK f \in Inodes, tick \in {0, 1} : BeginCommit(f, tick)
    BY <1>4
  <2>2. Written(f, 0, tick) /\ disk[f].version \in Nat /\ disk[f].version < MaxCommits
        /\ unfinished' = f /\ halts' = halts
    BY <1>3, <2>1
  <2>3. disk[f].version + 0 <= MaxCommits /\ disk[f].version + 0 = disk[f].version
    BY <2>2, ReaderAssumption
  <2>4. QED
    BY <2>2, <2>3, WrittenKeeps DEF TypeOK
<1>5. CASE \E tick \in {0, 1} : EndCommit(tick) \/ RollBack(tick)
  <2>1. PICK tick \in {0, 1} : EndCommit(tick) \/ RollBack(tick)
    BY <1>5
  <2>2. unfinished \in Inodes /\ disk[unfinished].version < MaxCommits /\ unfinished' = 0
        /\ disk[unfinished].version \in Nat
    <3>1. unfinished \in Inodes /\ disk[unfinished].version < MaxCommits /\ unfinished' = 0
      BY <2>1 DEF EndCommit, RollBack, TypeOK
    <3>2. disk[unfinished].version \in 0 .. MaxCommits
      BY <3>1, SignatureTyped DEF File
    <3>3. QED
      BY <3>1, <3>2
  <2>3. PICK ended \in {0, 1} : Written(unfinished, ended, tick)
    BY <2>1 DEF EndCommit, RollBack
  <2>4. disk[unfinished].version + ended <= MaxCommits
    BY <2>2, ReaderAssumption
  <2>5. halts' \in 0 .. MaxHalts
    BY <2>1, ReaderAssumption DEF EndCommit, RollBack, TypeOK
  <2>6. QED
    BY <2>2, <2>3, <2>4, <2>5, WrittenKeeps DEF TypeOK
<1>6. CASE \E f \in Inodes : Restore(f)
  <2>1. /\ path' \in Inodes /\ UNCHANGED <<disk, unfinished, halts, storeState, lock, request>>
        /\ moves' \in 0 .. MaxMoves /\ Witnessed
    BY <1>6, ReaderAssumption DEF Restore, TypeOK
  <2>2. QED
    BY <2>1 DEF TypeOK, Inodes
<1>7. QED
  BY <1>2, <1>4, <1>5, <1>6 DEF WriterStep

-----------------------------------------------------------------------------
(* Types *)

LEMMA WriterTypes == TypeOK /\ WriterStep => TypeOK'
<1> SUFFICES ASSUME TypeOK, WriterStep PROVE TypeOK'
  OBVIOUS
<1>1. <<path', disk'[path'].version>> \in Signatures
  <2>1. disk'[path'] \in File /\ path' \in 1 .. MaxFiles
    BY WritesKeep, ReaderAssumption DEF Inodes
  <2>2. QED
    BY <2>1 DEF File, Signatures
<1>2. window' \in [Readers -> SUBSET Signatures] /\ changes' \in [Readers -> Nat]
  <2> DEFINE s == <<path', disk'[path'].version>>
  <2>1. /\ window' = [w \in Readers |-> IF Active(w) THEN window[w] \cup {s} ELSE window[w]]
        /\ changes' = [w \in Readers |-> IF Active(w) THEN changes[w] + 1 ELSE changes[w]]
    BY WritesKeep DEF Witnessed
  <2> HIDE DEF s
  <2>2. s \in Signatures
    BY <1>1 DEF s
  <2>3. QED
    BY <2>1, <2>2 DEF TypeOK
<1>3. QED
  BY <1>2, WritesKeep DEF TypeOK, Inodes

\* The steps of a request that move its record along
LEMMA RecordTyped ==
    ASSUME TypeOK, NEW w \in Readers
    PROVE  /\ request[w] \in Request
           /\ \A s \in Stages : [request[w] EXCEPT !.stage = s] \in Request
           /\ \A s \in Stages : [Idle EXCEPT !.stage = s] \in Request
BY IdleTyped DEF TypeOK, Request

LEMMA NothingApart == Nothing \notin Store /\ Nothing \notin Signatures
BY ReaderAssumption DEF Store, Signatures

LEMMA BecomeTyped ==
    ASSUME TypeOK, NEW w \in Readers, NEW q \in Request, Become(w, q)
    PROVE  request' \in [Readers -> Request]
BY DEF TypeOK, Become

LEMMA ArriveTypes ==
    ASSUME TypeOK, NEW w \in Readers, Arrive(w)
    PROVE  TypeOK'
<1>1. CASE StartAbsent(w)
  BY <1>1, RecordTyped, BecomeTyped DEF StartAbsent, TurnAway, Quiet, TypeOK, Stages, Inodes
<1>2. ASSUME NEW s \in {"open", "plain"}, Start(w, s)
      PROVE  TypeOK'
  <2>1. path \in Inodes
    BY <1>2 DEF Start, TypeOK
  <2>2. <<path, disk[path].version>> \in Signatures
    BY <2>1, SignatureTyped
  <2>3. request' \in [Readers -> Request]
    BY <1>2, RecordTyped, BecomeTyped DEF Start, Stages
  <2>4. QED
    BY <1>2, <2>2, <2>3 DEF Start, Quiet, TypeOK, Inodes
<1>3. QED
  BY <1>1, <1>2 DEF Arrive

\* A request under way finds a file at the path.
LEMMA PathTyped ==
    ASSUME TypeOK, WindowsOpen, NEW w \in Readers, Active(w)
    PROVE  /\ path \in Inodes /\ path \in 1 .. MaxFiles
           /\ Signature(path) \in Signatures
           /\ disk[path].version \in 0 .. MaxCommits
           /\ disk[path].identity \in Identities
<1>1. path \in Inodes
  BY DEF WindowsOpen, TypeOK
<1>2. disk[path] \in File /\ Signature(path) \in Signatures
  BY <1>1, SignatureTyped
<1>3. QED
  BY <1>1, <1>2, ReaderAssumption DEF File, TypeOK, Inodes

LEMMA ProgressTypes ==
    ASSUME TypeOK, AttemptsLeft, WindowsOpen, ConnectionsKnown, StoresIdentified,
           NEW w \in Readers, Progress(w)
    PROVE  TypeOK'
<1> DEFINE q == request[w]
<1>0. q \in Request /\ request \in [Readers -> Request]
  BY DEF TypeOK
<1>1. Active(w)
  BY DEF Progress, Active, Stat, Open, Recheck, Reuse, BeginLoad, Load, LoadFails, LoadBroken,
         Confirm, Begin, PlainOpen, PlainBegin, Refused, TurnAway, Close
<1>2. \A f \in Inodes : disk[f].version \in 0 .. MaxCommits /\ StoreOf(f) \in Store
  BY SignatureTyped DEF File
<1>3. q.stage \in Connected \/ q.stage = "serving" => q.inode \in Inodes
  BY DEF ConnectionsKnown, Serving
<1>4. q.stage \in Connected => q.identity \in Identities
  BY <1>3, SignatureTyped DEF ConnectionsKnown, File
<1>5. ASSUME NEW n \in Request, Become(w, n)
      PROVE  request' \in [Readers -> Request]
  BY <1>5, BecomeTyped
<1>6. ASSUME NEW s \in Stages, Goto(w, s)
      PROVE  request' \in [Readers -> Request]
  BY <1>6, RecordTyped, BecomeTyped DEF Goto
<1>7. CASE Stat(w)
  <2>1. q.attempt + 1 \in 0 .. Attempts
    BY <1>0, <1>7, ReaderAssumption DEF Stat, AttemptsLeft, Request
  <2>2. [q EXCEPT !.before = Signature(path), !.attempt = @ + 1] \in Request
    BY <1>0, <1>1, <2>1, PathTyped DEF Request
  <2>3. QED
    BY <1>5, <1>7, <2>2 DEF Stat, Quiet, TypeOK, Inodes
<1>8. CASE Open(w)
  <2>1. [q EXCEPT !.stage = "recheck", !.inode = path, !.version = disk[path].version,
                  !.identity = disk[path].identity] \in Request
    <3>1. /\ path \in 0 .. MaxFiles /\ disk[path].version \in 0 .. MaxCommits
          /\ disk[path].identity \in Identities \cup {Nothing}
      BY <1>1, PathTyped
    <3>2. [q EXCEPT !.stage = "recheck", !.inode = path] \in Request
      BY <1>0, <3>1 DEF Request, Stages
    <3>3. QED
      BY <3>1, <3>2 DEF Request
  <2>2. QED
    BY <1>5, <1>8, <2>1 DEF Open, Quiet, TypeOK, Inodes
<1>9. CASE Recheck(w)
  BY <1>6, <1>9, RetryTyped DEF Recheck, Quiet, TypeOK, Inodes, Stages
<1>10. CASE Reuse(w)
  <2>1. storeState.store \in Store
    BY <1>10 DEF Reuse, Reusable, TypeOK
  <2>2. [q EXCEPT !.stage = "confirm", !.store = storeState.store] \in Request
    BY <1>0, <2>1 DEF Request, Stages
  <2>3. QED
    BY <1>5, <1>10, <2>2 DEF Reuse, Quiet, TypeOK, Inodes
<1>11. CASE BeginLoad(w)
  <2>1. disk[q.inode].version \in 0 .. MaxCommits
    BY <1>2, <1>3, <1>11 DEF BeginLoad, Connected
  <2>2. [q EXCEPT !.stage = "load", !.started = Signature(path),
                  !.loaded = disk[q.inode].version] \in Request
    BY <1>0, <1>1, <2>1, PathTyped DEF Request, Stages
  <2>3. QED
    BY <1>5, <1>11, <2>2 DEF BeginLoad, Quiet, TypeOK, Inodes
<1>12. CASE Load(w)
  <2>1. StoreOf(q.inode) \in Store
    BY <1>2, <1>3, <1>12 DEF Load, Connected
  <2>2. [q EXCEPT !.stage = "confirm", !.store = StoreOf(q.inode)] \in Request
    BY <1>0, <2>1 DEF Request, Stages
  <2>3. QED
    BY <1>5, <1>12, <2>2 DEF Load, Quiet, TypeOK, Inodes
<1>13. CASE LoadFails(w)
  BY <1>5, <1>13, RecordTyped, RetryTyped DEF LoadFails, TurnAway, Quiet, TypeOK, Inodes, Stages
<1>14. CASE Confirm(w)
  <2>1. request' \in [Readers -> Request]
    BY <1>6, <1>14, RetryTyped DEF Confirm, Stages
  <2>2. [signature |-> q.before, identity |-> q.identity, store |-> q.store]
           \in [signature : Signatures, identity : Identities, store : Store]
        \/ ~Confirmed(w)
    <3>1. Confirmed(w) => q.before \in Signatures
      BY <1>1, PathTyped DEF Confirmed, SamePath
    <3>2. q.store \in Store
      BY <1>0, <1>14 DEF Confirm, StoresIdentified, Request
    <3>3. QED
      BY <1>4, <1>14, <3>1, <3>2 DEF Confirm, Connected
  <2>3. QED
    BY <1>14, <2>1, <2>2 DEF Confirm, Quiet, TypeOK, Inodes
<1>15. CASE Begin(w)
  BY <1>5, <1>6, <1>15, RecordTyped DEF Begin, TurnAway, Quiet, TypeOK, Inodes, Stages
<1>16. CASE PlainOpen(w)
  <2>1. [q EXCEPT !.inode = path] \in Request
    BY <1>0, <1>1, PathTyped DEF Request
  <2>2. QED
    BY <1>5, <1>16, <2>1 DEF PlainOpen, Quiet, TypeOK, Inodes
<1>17. CASE PlainBegin(w)
  <2>1. q.inode \in Inodes
    BY <1>17 DEF PlainBegin, ConnectionsKnown
  <2>2. [q EXCEPT !.stage = "serving", !.version = disk[q.inode].version] \in Request
    BY <1>0, <1>2, <2>1 DEF Request, Stages
  <2>3. QED
    BY <1>5, <1>17, <2>2 DEF PlainBegin, Quiet, TypeOK, Inodes
<1>18. CASE Close(w)
  BY <1>5, <1>18, IdleTyped DEF Close, Quiet, TypeOK, Inodes
<1>19. CASE Refused(w)
  BY <1>5, <1>19, RecordTyped DEF Refused, TurnAway, Quiet, TypeOK, Inodes, Stages
<1>20. QED
  BY <1>7, <1>8, <1>9, <1>10, <1>11, <1>12, <1>13, <1>14, <1>15, <1>16, <1>17, <1>18, <1>19
     DEF Progress

-----------------------------------------------------------------------------
(* The invariant, request by request *)

\* What ReaderInv says of one request q whose window is win
Good(q, win) ==
    /\ q.stage = "open" /\ q.before = Nothing => q.attempt < Attempts
    /\ q.stage \notin {"idle", "unavailable"} =>
          path # 0 /\ <<path, disk[path].version>> \in win
    /\ q.stage \in Connected =>
          /\ q.inode \in Inodes
          /\ q.identity = disk[q.inode].identity
          /\ <<q.inode, q.version>> \in win
    /\ q.stage = "plain" =>
          /\ q.store = Nothing
          /\ q.inode # 0 => q.inode \in Inodes /\ \E s \in win : s[1] = q.inode
    /\ q.stage = "serving" =>
          /\ q.inode \in Inodes
          /\ q.store # Nothing => q.store.identity = disk[q.inode].identity
          /\ IF q.store # Nothing THEN <<q.inode, q.version>> \in win
             ELSE \E s \in win : s[1] = q.inode
    /\ q.stage \in {"confirm", "begin"} =>
          q.store # Nothing /\ q.store.identity = q.identity
    /\ q.stage \in {"open", "recheck", "lookup", "load"} => q.store = Nothing

StoreFiled == storeState # Nothing => storeState.store.identity = storeState.identity

LEMMA InvByRequest ==
    ReaderInv <=> TypeOK /\ StoreFiled /\ \A w \in Readers : Good(request[w], window[w])
BY DEF ReaderInv, AttemptsLeft, WindowsOpen, ConnectionsKnown, StoresIdentified,
       AuthorityMatchesSnapshot, ServedIsCurrent, Good, StoreFiled, Active, Serving, WithStore

\* A step of request w that writes no file
LEMMA LocalStep ==
    ASSUME ReaderInv, TypeOK', UNCHANGED <<disk, path>>, StoreFiled',
           NEW w \in Readers, NEW q, Become(w, q),
           \A v \in Readers \ {w} : window'[v] = window[v],
           Good(q, window'[w])
    PROVE  ReaderInv'
<1>1. \A v \in Readers : request'[v] = IF v = w THEN q ELSE request[v]
  BY Others DEF ReaderInv
<1>2. \A v \in Readers : Good(request[v], window[v])
  BY InvByRequest
<1>3. \A v \in Readers : Good(request'[v], window'[v])
  BY <1>1, <1>2
<1>4. \A v \in Readers : Good(request[v], window[v])'
  BY <1>3 DEF Good, Inodes
<1>5. ReaderInv' <=> TypeOK' /\ StoreFiled' /\ \A v \in Readers : Good(request[v], window[v])'
  BY DEF ReaderInv, AttemptsLeft, WindowsOpen, ConnectionsKnown, StoresIdentified,
         AuthorityMatchesSnapshot, ServedIsCurrent, Good, StoreFiled, Active, Serving, WithStore
<1>6. QED
  BY <1>4, <1>5

\* Records a request may fall back to
LEMMA RestGood ==
    ASSUME NEW win
    PROVE  Good(Idle, win) /\ Good([Idle EXCEPT !.stage = "unavailable"], win)
BY DEF Good, Idle, Connected

LEMMA RetryGood ==
    ASSUME ReaderInv, NEW w \in Readers, Active(w), NEW win,
           window[w] \subseteq win
    PROVE  Good([Idle EXCEPT
                    !.stage = IF request[w].attempt = Attempts THEN "unavailable" ELSE "open",
                    !.attempt = request[w].attempt], win)
<1>1. request[w].attempt \in 0 .. Attempts
  BY DEF ReaderInv, TypeOK, Request
<1>2. path # 0 /\ <<path, disk[path].version>> \in window[w]
  BY DEF ReaderInv, WindowsOpen
<1>3. QED
  BY <1>1, <1>2, ReaderAssumption DEF Good, Idle, Connected

LEMMA WriterInv == ReaderInv /\ WriterStep => ReaderInv'
<1> SUFFICES ASSUME ReaderInv, WriterStep PROVE ReaderInv'
  OBVIOUS
<1>1. TypeOK /\ TypeOK'
  BY WriterTypes DEF ReaderInv
<1> DEFINE s == <<path', disk'[path'].version>>
<1>2. /\ UNCHANGED <<storeState, request>>
      /\ window' = [w \in Readers |-> IF Active(w) THEN window[w] \cup {s} ELSE window[w]]
      /\ path' # 0
      /\ \A f \in Inodes : f \in Inodes' /\ disk'[f].identity = disk[f].identity
  BY <1>1, WritesKeep DEF Witnessed, Inodes, TypeOK
<1> HIDE DEF s
<1>3. \A w \in Readers : window[w] \subseteq window'[w] /\ (Active(w) => s \in window'[w])
  BY <1>2
<1>4. StoreFiled'
  BY <1>2, InvByRequest DEF StoreFiled
<1>5. ASSUME NEW w \in Readers
      PROVE  Good(request[w], window[w])'
  <2>1. Good(request[w], window[w])
    BY InvByRequest
  <2>2. QED
    BY <1>2, <1>3, <2>1 DEF Good, Active, s, Connected
<1>6. ReaderInv' <=> TypeOK' /\ StoreFiled' /\ \A v \in Readers : Good(request[v], window[v])'
  BY DEF ReaderInv, AttemptsLeft, WindowsOpen, ConnectionsKnown, StoresIdentified,
         AuthorityMatchesSnapshot, ServedIsCurrent, Good, StoreFiled, Active, Serving, WithStore
<1>7. QED
  BY <1>1, <1>4, <1>5, <1>6

LEMMA ArriveInv ==
    ASSUME ReaderInv, NEW w \in Readers, Arrive(w)
    PROVE  ReaderInv'
<1>1. TypeOK /\ TypeOK'
  BY ArriveTypes DEF ReaderInv
<1>2. UNCHANGED <<disk, path, storeState>> /\ StoreFiled'
  BY InvByRequest DEF Arrive, Start, StartAbsent, Quiet, StoreFiled
<1>3. \A v \in Readers \ {w} : window'[v] = window[v]
  BY <1>1 DEF Arrive, Start, StartAbsent, TypeOK
<1>4. CASE StartAbsent(w)
  BY <1>1, <1>2, <1>3, <1>4, RestGood, LocalStep DEF StartAbsent, TurnAway
<1>5. ASSUME NEW st \in {"open", "plain"}, Start(w, st)
      PROVE  ReaderInv'
  <2>1. window'[w] = {<<path, disk[path].version>>} /\ path # 0
    BY <1>1, <1>5 DEF Start, TypeOK
  <2>2. Good([Idle EXCEPT !.stage = st], window'[w])
    BY <2>1, ReaderAssumption DEF Good, Idle, Connected
  <2>3. QED
    BY <1>1, <1>2, <1>3, <1>5, <2>2, LocalStep DEF Start
<1>6. QED
  BY <1>4, <1>5 DEF Arrive

LEMMA ProgressInv ==
    ASSUME ReaderInv, NEW w \in Readers, Progress(w)
    PROVE  ReaderInv'
<1> DEFINE q == request[w]
           retry == [Idle EXCEPT !.stage = IF q.attempt = Attempts THEN "unavailable" ELSE "open",
                                 !.attempt = q.attempt]
<1>1. TypeOK /\ TypeOK' /\ q \in Request
  BY ProgressTypes DEF ReaderInv, TypeOK
<1>2. UNCHANGED <<disk, path>>
  BY DEF Progress, Stat, Open, Recheck, Reuse, BeginLoad, Load, LoadFails, Confirm,
         Begin, PlainOpen, PlainBegin, Refused, TurnAway, Close, Quiet
<1>3. \A v \in Readers \ {w} : window'[v] = window[v]
  BY <1>1 DEF Progress, Stat, Open, Recheck, Reuse, BeginLoad, Load, LoadFails, Confirm,
         Begin, PlainOpen, PlainBegin, Refused, TurnAway, Close, TypeOK
<1>4. Active(w)
  BY DEF Progress, Active, Stat, Open, Recheck, Reuse, BeginLoad, Load, LoadFails, LoadBroken,
         Confirm, Begin, PlainOpen, PlainBegin, Refused, TurnAway, Close
<1>5. Good(q, window[w]) /\ StoreFiled
  BY InvByRequest
<1>6. Close(w) \/ window' = window
  BY DEF Progress, Stat, Open, Recheck, Reuse, BeginLoad, Load, LoadFails, Confirm,
         Begin, PlainOpen, PlainBegin, Refused, TurnAway
<1>7. ASSUME window' = window PROVE Good(retry, window'[w])
  BY <1>4, <1>7, RetryGood
<1>8. path # 0 /\ path \in Inodes /\ <<path, disk[path].version>> \in window[w]
  BY <1>1, <1>4, PathTyped DEF ReaderInv, WindowsOpen
<1>9. ASSUME NEW n, Become(w, n), Good(n, window'[w]), StoreFiled' PROVE ReaderInv'
  BY <1>1, <1>2, <1>3, <1>9, LocalStep
<1>10. CASE Stat(w)
  <2>1. Good([q EXCEPT !.before = Signature(path), !.attempt = @ + 1], window[w])
    <3>1. Signature(path) # Nothing
      BY <1>1, <1>8, SignatureTyped, NothingApart
    <3>2. QED
      BY <1>1, <1>5, <1>8, <1>10, <3>1 DEF Good, Stat, Connected, Request
  <2>2. QED
    BY <1>5, <1>9, <1>10, <2>1 DEF Stat, StoreFiled
<1>11. CASE Open(w)
  <2>1. Good([q EXCEPT !.stage = "recheck", !.inode = path, !.version = disk[path].version,
                       !.identity = disk[path].identity], window[w])
    BY <1>1, <1>5, <1>8, <1>11 DEF Good, Open, Connected, Request
  <2>2. QED
    BY <1>5, <1>9, <1>11, <2>1 DEF Open, StoreFiled
<1>12. CASE Recheck(w)
  <2>1. Good([q EXCEPT !.stage = "lookup"], window[w])
    BY <1>1, <1>5, <1>12 DEF Good, Recheck, Connected, Request
  <2>2. QED
    BY <1>5, <1>7, <1>9, <1>12, <2>1 DEF Recheck, StoreFiled, Goto, Retry
<1>13. CASE Reuse(w)
  <2>1. storeState.store # Nothing /\ storeState.store.identity = q.identity
    BY <1>1, <1>5, <1>13, NothingApart DEF Reuse, Reusable, StoreFiled, TypeOK
  <2>2. Good([q EXCEPT !.stage = "confirm", !.store = storeState.store], window[w])
    BY <1>1, <1>5, <1>13, <2>1 DEF Good, Reuse, Connected, Request
  <2>3. QED
    BY <1>5, <1>9, <1>13, <2>2 DEF Reuse, StoreFiled
<1>14. CASE BeginLoad(w)
  <2>1. Good([q EXCEPT !.stage = "load", !.started = Signature(path),
                       !.loaded = disk[q.inode].version], window[w])
    BY <1>1, <1>5, <1>14 DEF Good, BeginLoad, Connected, Request
  <2>2. QED
    BY <1>5, <1>9, <1>14, <2>1 DEF BeginLoad, StoreFiled
<1>15. CASE Load(w)
  <2>1. StoreOf(q.inode).identity = q.identity /\ StoreOf(q.inode) # Nothing
    BY <1>1, <1>5, <1>15, SignatureTyped, NothingApart DEF Good, Load, Connected, StoreOf
  <2>2. Good([q EXCEPT !.stage = "confirm", !.store = StoreOf(q.inode)], window[w])
    BY <1>1, <1>5, <1>15, <2>1 DEF Good, Load, Connected, Request
  <2>3. QED
    BY <1>5, <1>9, <1>15, <2>2 DEF Load, StoreFiled
<1>16. CASE LoadFails(w)
  BY <1>5, <1>7, <1>9, <1>16, RestGood DEF LoadFails, TurnAway, StoreFiled, Retry
<1>17. CASE Confirm(w)
  <2>1. Good([q EXCEPT !.stage = "begin"], window[w])
    BY <1>1, <1>5, <1>17 DEF Good, Confirm, Connected, Request
  <2>2. StoreFiled'
    BY <1>5, <1>17 DEF Confirm, StoreFiled, Good
  <2>3. QED
    BY <1>7, <1>9, <1>17, <2>1, <2>2 DEF Confirm, Goto, Retry
<1>18. CASE Begin(w)
  <2>1. Good([q EXCEPT !.stage = "serving"], window[w])
    BY <1>1, <1>5, <1>18 DEF Good, Begin, Connected, Request
  <2>2. QED
    BY <1>5, <1>9, <1>18, <2>1, RestGood DEF Begin, TurnAway, StoreFiled, Goto
<1>19. CASE PlainOpen(w)
  <2>1. Good([q EXCEPT !.inode = path], window[w])
    BY <1>1, <1>5, <1>8, <1>19 DEF Good, PlainOpen, Connected, Request
  <2>2. QED
    BY <1>5, <1>9, <1>19, <2>1 DEF PlainOpen, StoreFiled
<1>20. CASE PlainBegin(w)
  <2>1. Good([q EXCEPT !.stage = "serving", !.version = disk[q.inode].version], window[w])
    BY <1>1, <1>5, <1>20 DEF Good, PlainBegin, Connected, Request
  <2>2. QED
    BY <1>5, <1>9, <1>20, <2>1 DEF PlainBegin, StoreFiled
<1>21. CASE Close(w)
  BY <1>5, <1>9, <1>21, RestGood DEF Close, StoreFiled
<1>22. CASE Refused(w)
  BY <1>5, <1>9, <1>22, RestGood DEF Refused, TurnAway, StoreFiled
<1>23. QED
  BY <1>10, <1>11, <1>12, <1>13, <1>14, <1>15, <1>16, <1>17, <1>18, <1>19, <1>20, <1>21, <1>22
     DEF Progress

LEMMA InvInit == Init => ReaderInv
<1> SUFFICES ASSUME Init PROVE ReaderInv
  OBVIOUS
<1>1. TypeOK
  BY IdleTyped, ReaderAssumption DEF Init, TypeOK, Inodes
<1>2. \A w \in Readers : Good(request[w], window[w])
  BY RestGood DEF Init
<1>3. QED
  BY <1>1, <1>2, InvByRequest DEF Init, StoreFiled

LEMMA InvStep == ReaderInv /\ [Next]_vars => ReaderInv'
<1> SUFFICES ASSUME ReaderInv, [Next]_vars PROVE ReaderInv'
  OBVIOUS
<1>1. CASE Restart
  <2>1. TypeOK'
    BY <1>1, IdleTyped DEF Restart, Quiet, ReaderInv, TypeOK, Inodes
  <2>2. \A w \in Readers : request'[w] = Idle
    BY <1>1 DEF Restart
  <2>3. QED
    BY <1>1, <2>1, <2>2 DEF Restart, Idle, Connected, ReaderInv, AttemptsLeft, WindowsOpen,
       ConnectionsKnown, StoresIdentified, AuthorityMatchesSnapshot, ServedIsCurrent, Active,
       Serving, WithStore
<1>2. CASE UNCHANGED vars
  BY <1>2 DEF vars, ReaderInv, TypeOK, AttemptsLeft, WindowsOpen, ConnectionsKnown,
     StoresIdentified, AuthorityMatchesSnapshot, ServedIsCurrent, Active, Serving, WithStore,
     Inodes
<1>3. QED
  BY <1>1, <1>2, WriterInv, ArriveInv, ProgressInv DEF Next

LEMMA InvAlways == Spec => []ReaderInv
<1>1. QED
  BY InvInit, InvStep, PTL DEF Spec

\* Every variable stays in its domain.
THEOREM ReaderTypes == Spec => []TypeOK
<1>1. ReaderInv => TypeOK
  BY DEF ReaderInv
<1>2. QED
  BY <1>1, InvAlways, PTL

\* The store and the snapshot a request is served from describe the same
\* sources and sections, whatever is written or moved back meanwhile.
THEOREM AuthorityMatches == Spec => []AuthorityMatchesSnapshot
<1>1. ReaderInv => AuthorityMatchesSnapshot
  BY DEF ReaderInv
<1>2. QED
  BY <1>1, InvAlways, PTL

\* A request is served from what was published at some moment of the request.
THEOREM ServedCurrent == Spec => []ServedIsCurrent
<1>1. ReaderInv => ServedIsCurrent
  BY DEF ReaderInv
<1>2. QED
  BY <1>1, InvAlways, PTL

-----------------------------------------------------------------------------
(* Without moves the path only goes forward *)

\* What PathsForward and StoreMatchesSnapshot say of one request
Forward(q) ==
    /\ q.before # Nothing => q.before[1] \in Inodes
    /\ q.stage \in Connected => q.before # Nothing /\ q.before[1] <= q.inode
    /\ q.stage = "confirm" =>
          q.store = StoreOf(q.inode) \/ q.store = StoreOf(q.before[1])
    /\ q.stage = "begin" => q.store = StoreOf(q.inode)
    /\ q.stage = "serving" /\ q.store # Nothing => q.store = StoreOf(q.inode)

StoreForward ==
    /\ path = Len(disk)
    /\ storeState # Nothing =>
          /\ storeState.signature[1] \in Inodes
          /\ storeState.store = StoreOf(storeState.signature[1])

ForwardInv == PathsForward /\ StoreMatchesSnapshot

LEMMA ForwardByRequest ==
    ForwardInv <=> StoreForward /\ \A w \in Readers : Forward(request[w])
BY DEF ForwardInv, PathsForward, StoreMatchesSnapshot, StoreForward, Forward, Serving, WithStore

LEMMA ForwardLocal ==
    ASSUME ReaderInv, ForwardInv, UNCHANGED <<disk, path>>, StoreForward',
           NEW w \in Readers, NEW q, Become(w, q), Forward(q)
    PROVE  ForwardInv'
<1>1. \A v \in Readers : request'[v] = IF v = w THEN q ELSE request[v]
  BY Others DEF ReaderInv
<1>2. \A v \in Readers : Forward(request'[v])
  BY <1>1, ForwardByRequest
<1>3. \A v \in Readers : Forward(request[v])'
  BY <1>2 DEF Forward, StoreOf, Inodes
<1>4. ForwardInv' <=> StoreForward' /\ \A v \in Readers : Forward(request[v])'
  BY DEF ForwardInv, PathsForward, StoreMatchesSnapshot, StoreForward, Forward, Serving, WithStore
<1>5. QED
  BY <1>3, <1>4

LEMMA ForwardWriter ==
    ASSUME MaxMoves = 0, ReaderInv, ForwardInv, WriterStep
    PROVE  ForwardInv'
<1>1. TypeOK
  BY DEF ReaderInv
<1>2. /\ UNCHANGED <<storeState, request>>
      /\ \A f \in Inodes : f \in Inodes' /\ StoreOf(f)' = StoreOf(f)
  BY <1>1, WritesKeep DEF Inodes, StoreOf, TypeOK
<1>3. path' = Len(disk')
  <2>1. ASSUME NEW i \in Identities, NEW v \in Vocabularies, Publish(i, v)
        PROVE  path' = Len(disk')
    BY <1>1, <2>1 DEF Publish, TypeOK
  <2>2. ASSUME NEW f \in Inodes, NEW tick \in {0, 1}, BeginCommit(f, tick)
        PROVE  path' = Len(disk')
    BY <1>1, <2>2 DEF BeginCommit, Written, TypeOK, ForwardInv, PathsForward
  <2>3. ASSUME NEW tick \in {0, 1}, EndCommit(tick) \/ RollBack(tick)
        PROVE  path' = Len(disk')
    BY <1>1, <2>3 DEF EndCommit, RollBack, Written, TypeOK, ForwardInv, PathsForward
  <2>4. ASSUME NEW f \in Inodes, Restore(f)
        PROVE  FALSE
    BY <1>1, <2>4 DEF Restore, TypeOK
  <2>5. QED
    BY <2>1, <2>2, <2>3, <2>4 DEF WriterStep
<1>4. StoreForward'
  BY <1>2, <1>3, ForwardByRequest DEF StoreForward
<1>5. ASSUME NEW w \in Readers
      PROVE  Forward(request[w])'
  <2>1. Forward(request[w]) /\ Good(request[w], window[w])
    BY ForwardByRequest, InvByRequest
  <2>2. QED
    BY <1>2, <2>1 DEF Forward, Good, Connected
<1>6. ForwardInv' <=> StoreForward' /\ \A v \in Readers : Forward(request[v])'
  BY DEF ForwardInv, PathsForward, StoreMatchesSnapshot, StoreForward, Forward, Serving, WithStore
<1>7. QED
  BY <1>4, <1>5, <1>6

LEMMA ForwardProgress ==
    ASSUME ReaderInv, ForwardInv, NEW w \in Readers, Arrive(w) \/ Progress(w)
    PROVE  ForwardInv'
<1> DEFINE q == request[w]
           retry == [Idle EXCEPT !.stage = IF q.attempt = Attempts THEN "unavailable" ELSE "open",
                                 !.attempt = q.attempt]
<1>1. TypeOK /\ q \in Request /\ Good(q, window[w]) /\ Forward(q) /\ StoreForward
  BY InvByRequest, ForwardByRequest DEF ReaderInv, TypeOK
<1>2. UNCHANGED <<disk, path>>
  BY DEF Arrive, Start, StartAbsent, Progress, Stat, Open, Recheck, Reuse, BeginLoad, Load,
         LoadFails, Confirm, Begin, PlainOpen, PlainBegin, Refused, TurnAway, Close, Quiet
<1>3. ~Confirm(w) => UNCHANGED storeState
  BY DEF Arrive, Start, StartAbsent, Progress, Stat, Open, Recheck, Reuse, BeginLoad, Load,
         LoadFails, Begin, PlainOpen, PlainBegin, Refused, TurnAway, Close
<1>4. ASSUME UNCHANGED storeState PROVE StoreForward'
  BY <1>1, <1>2, <1>4 DEF StoreForward, StoreOf, Inodes
<1>5. ASSUME NEW n, Become(w, n), Forward(n), StoreForward' PROVE ForwardInv'
  BY <1>2, <1>5, ForwardLocal
<1>6. /\ Forward(retry) /\ Forward(Idle)
      /\ \A s \in {"open", "plain", "unavailable"} : Forward([Idle EXCEPT !.stage = s])
  BY NothingApart DEF Forward, Idle, Connected
<1>7. \A s \in {"lookup"} : q.stage = "recheck" => Forward([q EXCEPT !.stage = s])
  BY <1>1 DEF Forward, Connected, Request
<1>8. CASE Arrive(w)
  BY <1>3, <1>4, <1>5, <1>6, <1>8 DEF Arrive, Start, StartAbsent, TurnAway
<1>9. CASE Stat(w)
  <2>1. path \in Inodes /\ Signature(path)[1] = path
    BY <1>1, <1>9 DEF Good, Stat, TypeOK, Signature
  <2>2. Forward([q EXCEPT !.before = Signature(path), !.attempt = @ + 1])
    BY <1>1, <1>9, <2>1 DEF Forward, Stat, Connected, Request
  <2>3. QED
    BY <1>4, <1>5, <1>9, <2>2 DEF Stat
<1>10. CASE Open(w)
  <2>1. q.before[1] <= path
    BY <1>1, <1>10 DEF Open, Forward, StoreForward, Inodes, TypeOK
  <2>2. Forward([q EXCEPT !.stage = "recheck", !.inode = path, !.version = disk[path].version,
                          !.identity = disk[path].identity])
    BY <1>1, <1>10, <2>1 DEF Forward, Open, Connected, Request
  <2>3. QED
    BY <1>4, <1>5, <1>10, <2>2 DEF Open
<1>11. CASE Recheck(w)
  BY <1>4, <1>5, <1>6, <1>7, <1>11 DEF Recheck, Goto, Retry
<1>12. CASE Reuse(w)
  <2>1. storeState.store = StoreOf(q.before[1])
    BY <1>1, <1>12 DEF Reuse, Reusable, StoreForward
  <2>2. Forward([q EXCEPT !.stage = "confirm", !.store = storeState.store])
    BY <1>1, <1>12, <2>1 DEF Forward, Reuse, Connected, Request
  <2>3. QED
    BY <1>4, <1>5, <1>12, <2>2 DEF Reuse
<1>13. CASE BeginLoad(w)
  <2>1. Forward([q EXCEPT !.stage = "load", !.started = Signature(path),
                          !.loaded = disk[q.inode].version])
    BY <1>1, <1>13 DEF Forward, BeginLoad, Connected, Request
  <2>2. QED
    BY <1>4, <1>5, <1>13, <2>1 DEF BeginLoad
<1>14. CASE Load(w)
  <2>1. Forward([q EXCEPT !.stage = "confirm", !.store = StoreOf(q.inode)])
    BY <1>1, <1>14 DEF Forward, Load, Connected, Request
  <2>2. QED
    BY <1>4, <1>5, <1>14, <2>1 DEF Load
<1>15. CASE LoadFails(w)
  BY <1>4, <1>5, <1>6, <1>15 DEF LoadFails, TurnAway, Retry
<1>16. CASE Confirm(w) /\ ~Confirmed(w)
  BY <1>4, <1>5, <1>6, <1>16 DEF Confirm, Retry
<1>17. CASE Confirm(w) /\ Confirmed(w)
  <2>1. q.before[1] = path /\ q.inode = path
    BY <1>1, <1>17 DEF Confirm, Confirmed, SamePath, Signature, Forward, Good, Connected,
       StoreForward, Inodes, TypeOK
  <2>2. q.store = StoreOf(q.inode)
    BY <1>1, <1>17, <2>1 DEF Confirm, Forward
  <2>3. Forward([q EXCEPT !.stage = "begin"])
    BY <1>1, <1>17, <2>2 DEF Forward, Confirm, Connected, Request
  <2>4. StoreForward'
    <3>1. CASE UNCHANGED storeState
      BY <1>4, <3>1
    <3>2. CASE storeState' = [signature |-> q.before, identity |-> q.identity, store |-> q.store]
      BY <1>1, <1>2, <1>17, <2>1, <2>2, <3>2 DEF StoreForward, StoreOf, Inodes, Good, Confirm,
         Connected
    <3>3. QED
      BY <1>17, <3>1, <3>2 DEF Confirm
  <2>5. QED
    BY <1>5, <1>17, <2>3, <2>4 DEF Confirm, Goto
<1>18. CASE Begin(w)
  <2>1. Forward([q EXCEPT !.stage = "serving"])
    BY <1>1, <1>18 DEF Forward, Begin, Connected, Request
  <2>2. QED
    BY <1>4, <1>5, <1>6, <1>18, <2>1 DEF Begin, TurnAway, Goto
<1>19. CASE PlainOpen(w)
  <2>1. Forward([q EXCEPT !.inode = path])
    BY <1>1, <1>19 DEF Forward, PlainOpen, Connected, Request
  <2>2. QED
    BY <1>4, <1>5, <1>19, <2>1 DEF PlainOpen
<1>20. CASE PlainBegin(w)
  <2>1. Forward([q EXCEPT !.stage = "serving", !.version = disk[q.inode].version])
    BY <1>1, <1>20 DEF Forward, Good, PlainBegin, Connected, Request
  <2>2. QED
    BY <1>4, <1>5, <1>20, <2>1 DEF PlainBegin
<1>21. CASE Close(w)
  BY <1>4, <1>5, <1>6, <1>21 DEF Close
<1>22. CASE Refused(w)
  BY <1>4, <1>5, <1>6, <1>22 DEF Refused, TurnAway
<1>23. QED
  BY <1>8, <1>9, <1>10, <1>11, <1>12, <1>13, <1>14, <1>15, <1>16, <1>17, <1>18, <1>19, <1>20,
     <1>21, <1>22 DEF Progress

LEMMA ForwardStep ==
    ASSUME MaxMoves = 0, ReaderInv, ForwardInv, [Next]_vars
    PROVE  ForwardInv'
<1>1. CASE Restart
  <2>1. UNCHANGED <<disk, path>> /\ storeState' = Nothing
    BY <1>1 DEF Restart, Quiet
  <2>2. \A w \in Readers : request'[w] = Idle
    BY <1>1 DEF Restart
  <2>3. StoreForward /\ (\A w \in Readers : Forward(request'[w]))
    BY <2>2, ForwardByRequest DEF Forward, Idle, Connected
  <2>4. StoreForward' /\ (\A w \in Readers : Forward(request[w])')
    BY <2>1, <2>2, <2>3, NothingApart DEF StoreForward, Forward, Idle, Connected
  <2>5. QED
    BY <2>4 DEF ForwardInv, PathsForward, StoreMatchesSnapshot, StoreForward, Forward, Serving,
       WithStore
<1>2. CASE UNCHANGED vars
  BY <1>2 DEF vars, ForwardInv, PathsForward, StoreMatchesSnapshot, StoreOf, Inodes, Serving,
     WithStore
<1>3. QED
  BY <1>1, <1>2, ForwardWriter, ForwardProgress DEF Next

\* As long as no cache file is moved back to the path, the store a request
\* compiles from has the hierarchy vocabulary of its snapshot as well.
THEOREM StoreMatches ==
    ASSUME MaxMoves = 0
    PROVE  Spec => []StoreMatchesSnapshot
<1>1. Init => ForwardInv
  <2>1. ASSUME Init PROVE StoreForward /\ \A w \in Readers : Forward(request[w])
    BY <2>1, NothingApart DEF Init, StoreForward, Forward, Idle, Connected
  <2>2. QED
    BY <2>1, ForwardByRequest
<1>2. ReaderInv /\ ForwardInv /\ [Next]_vars => ForwardInv'
  BY ForwardStep
<1>3. ForwardInv => StoreMatchesSnapshot
  BY DEF ForwardInv
<1>4. QED
  BY <1>1, <1>2, <1>3, InvAlways, PTL DEF Spec

-----------------------------------------------------------------------------
(* Attempts are used up by writers only *)

Undisturbed(q) ==
    /\ Signature(path) = q.before
    /\ q.stage \in Connected => disk[q.inode].version = q.version
    /\ q.stage = "load" =>
          disk[q.inode].version = q.loaded /\ Signature(path) = q.started

\* What AttemptsAccounted says of one request
Accounted(q, n) ==
    /\ q.stage = "open" /\ q.before = Nothing => n >= q.attempt
    /\ q.stage \in Connected \cup {"open"} /\ q.before # Nothing =>
          /\ q.attempt >= 1
          /\ n >= q.attempt - 1
          /\ Undisturbed(q) \/ n >= q.attempt
    /\ q.stage \in Connected => q.before # Nothing
    /\ q.stage \in {"plain", "serving"} => q.attempt = 0 \/ n >= q.attempt - 1

LEMMA AccountByRequest ==
    AttemptsAccounted <=> \A w \in Readers : Accounted(request[w], changes[w])
<1>1. \A w \in Readers : Disturbed(w) <=> ~Undisturbed(request[w])
  BY DEF Disturbed, Undisturbed, SameVersion, LoadUndisturbed
<1>2. QED
  BY <1>1 DEF AttemptsAccounted, Accounted

LEMMA AccountByRequestNext ==
    AttemptsAccounted' <=> \A w \in Readers : Accounted(request[w], changes[w])'
<1>1. \A w \in Readers : Disturbed(w)' <=> ~Undisturbed(request[w])'
  BY DEF Disturbed, Undisturbed, SameVersion, LoadUndisturbed
<1>2. QED
  BY <1>1 DEF AttemptsAccounted, Accounted

\* Every request a write can disturb counts it.
LEMMA AccountWriter ==
    ASSUME ReaderInv, AttemptsAccounted, WriterStep
    PROVE  AttemptsAccounted'
<1>1. TypeOK /\ Witnessed /\ UNCHANGED request
  BY WritesKeep DEF ReaderInv
<1>2. ASSUME NEW w \in Readers
      PROVE  Accounted(request[w], changes[w])'
  <2>1. Accounted(request[w], changes[w]) /\ request[w] \in Request
        /\ changes[w] \in Nat
    BY <1>1, AccountByRequest DEF TypeOK
  <2>2. CASE Active(w)
    <3>1. changes'[w] = changes[w] + 1
      BY <1>1, <2>2 DEF Witnessed
    <3>2. QED
      BY <1>1, <2>1, <2>2, <3>1 DEF Accounted, Active, Connected, Request
  <2>3. CASE ~Active(w)
    <3>1. changes'[w] = changes[w]
      BY <1>1, <2>3 DEF Witnessed
    <3>2. QED
      BY <1>1, <2>1, <2>3, <3>1 DEF Accounted, Active, Connected, Request
  <2>4. QED
    BY <2>2, <2>3
<1>3. QED
  BY <1>2, AccountByRequestNext

\* A step of one request keeps the accounts of the others.
LEMMA AccountLocal ==
    ASSUME ReaderInv, AttemptsAccounted, UNCHANGED <<disk, path>>, NEW w \in Readers, NEW q,
           Become(w, q), \A v \in Readers \ {w} : changes'[v] = changes[v],
           Accounted(q, changes'[w])
    PROVE  AttemptsAccounted'
<1>1. \A v \in Readers : request'[v] = IF v = w THEN q ELSE request[v]
  BY Others DEF ReaderInv
<1>2. \A v \in Readers : Accounted(request'[v], changes'[v])
  BY <1>1, AccountByRequest
<1>3. \A v \in Readers : Accounted(request[v], changes[v])'
  BY <1>2 DEF Accounted, Undisturbed, Signature
<1>4. QED
  BY <1>3, AccountByRequestNext

\* Closing one attempt after a disturbance leaves the next one accounted for.
LEMMA AccountRetry ==
    ASSUME NEW q \in Request, NEW n \in Nat, Accounted(q, n),
           q.stage \in Connected, ~Undisturbed(q)
    PROVE  /\ Accounted([Idle EXCEPT
                 !.stage = IF q.attempt = Attempts THEN "unavailable" ELSE "open",
                 !.attempt = q.attempt], n)
           /\ Accounted([Idle EXCEPT !.stage = "unavailable"], n)
BY ReaderAssumption DEF Accounted, Idle, Connected, Request

LEMMA AccountProgress ==
    ASSUME ReaderInv, AttemptsAccounted, NEW w \in Readers, Arrive(w) \/ Progress(w)
    PROVE  AttemptsAccounted'
<1> DEFINE q == request[w]
           retry == [Idle EXCEPT !.stage = IF q.attempt = Attempts THEN "unavailable" ELSE "open",
                                 !.attempt = q.attempt]
<1>1. /\ TypeOK /\ q \in Request /\ Good(q, window[w]) /\ changes[w] \in Nat
      /\ Accounted(q, changes[w])
  BY InvByRequest, AccountByRequest DEF ReaderInv, TypeOK
<1>2. UNCHANGED <<disk, path>>
  BY DEF Arrive, Start, StartAbsent, Progress, Stat, Open, Recheck, Reuse, BeginLoad, Load,
         LoadFails, Confirm, Begin, PlainOpen, PlainBegin, Refused, TurnAway, Close, Quiet
<1>3. \A v \in Readers \ {w} : changes'[v] = changes[v]
  BY <1>1 DEF Arrive, Start, StartAbsent, Progress, Stat, Open, Recheck, Reuse, BeginLoad, Load,
         LoadFails, Confirm, Begin, PlainOpen, PlainBegin, Refused, TurnAway, Close, TypeOK
<1>4. ASSUME NEW n, Become(w, n), Accounted(n, changes'[w]) PROVE AttemptsAccounted'
  BY <1>2, <1>3, <1>4, AccountLocal
<1>5. ASSUME q.stage \in Connected, ~Undisturbed(q)
      PROVE  /\ Accounted(retry, changes[w])
             /\ Accounted([Idle EXCEPT !.stage = "unavailable"], changes[w])
  BY <1>1, <1>5, AccountRetry
<1>6. CASE Arrive(w)
  <2>1. changes'[w] = 0
    BY <1>1, <1>6 DEF Arrive, Start, StartAbsent, TypeOK
  <2>2. CASE Start(w, "open") \/ Start(w, "plain")
    <3>1. \A s \in {"open", "plain"} : Accounted([Idle EXCEPT !.stage = s], 0)
      BY DEF Accounted, Idle, Connected
    <3>2. QED
      BY <1>4, <2>1, <2>2, <3>1 DEF Start
  <2>3. CASE StartAbsent(w)
    <3>1. Accounted([Idle EXCEPT !.stage = "unavailable"], 0)
      BY DEF Accounted, Idle, Connected
    <3>2. QED
      BY <1>4, <2>1, <2>3, <3>1 DEF StartAbsent, TurnAway
  <2>4. QED
    BY <1>6, <2>2, <2>3 DEF Arrive
<1>7. CASE Stat(w)
  <2>1. Accounted([q EXCEPT !.before = Signature(path), !.attempt = @ + 1], changes[w])
    <3> DEFINE n == [q EXCEPT !.before = Signature(path), !.attempt = @ + 1]
    <3>1. /\ n.stage = "open" /\ n.before = Signature(path)
          /\ n.attempt = q.attempt + 1 /\ q.attempt \in Nat
      BY <1>1, <1>7 DEF Stat, Request
    <3>2. changes[w] >= q.attempt
      BY <1>1, <1>7 DEF Stat, Accounted
    <3> HIDE DEF n
    <3>3. Signature(path) # Nothing
      <4>1. path \in Inodes
        BY <1>1, <1>7 DEF Good, Stat, TypeOK
      <4>2. QED
        BY <1>1, <4>1, SignatureTyped, NothingApart
    <3>4. Accounted(n, changes[w])
      BY <1>1, <3>1, <3>2, <3>3 DEF Accounted, Undisturbed, Connected
    <3>5. QED
      BY <3>4 DEF n
  <2>2. QED
    BY <1>4, <1>7, <2>1 DEF Stat
<1>8. CASE Open(w)
  <2>1. Accounted([q EXCEPT !.stage = "recheck", !.inode = path, !.version = disk[path].version,
                            !.identity = disk[path].identity], changes[w])
    BY <1>1, <1>8 DEF Accounted, Undisturbed, Open, Connected, Request
  <2>2. QED
    BY <1>4, <1>8, <2>1 DEF Open
<1>9. CASE Recheck(w)
  <2>1. CASE SameVersion(w) /\ SamePath(w)
    <3>1. Accounted([q EXCEPT !.stage = "lookup"], changes[w])
      BY <1>1, <1>9 DEF Accounted, Undisturbed, Recheck, Connected, Request
    <3>2. QED
      BY <1>4, <1>9, <2>1, <3>1 DEF Recheck, Goto
  <2>2. CASE ~(SameVersion(w) /\ SamePath(w))
    <3>1. q.stage \in Connected /\ ~Undisturbed(q)
      BY <1>9, <2>2 DEF Recheck, SameVersion, SamePath, Undisturbed, Connected
    <3>2. QED
      BY <1>4, <1>5, <1>9, <2>2, <3>1 DEF Recheck, Retry
  <2>3. QED
    BY <2>1, <2>2
<1>10. CASE Reuse(w)
  <2>1. Accounted([q EXCEPT !.stage = "confirm", !.store = storeState.store], changes[w])
    BY <1>1, <1>10 DEF Accounted, Undisturbed, Reuse, Connected, Request
  <2>2. QED
    BY <1>4, <1>10, <2>1 DEF Reuse
<1>11. CASE BeginLoad(w)
  <2>1. Accounted([q EXCEPT !.stage = "load", !.started = Signature(path),
                            !.loaded = disk[q.inode].version], changes[w])
    BY <1>1, <1>11 DEF Accounted, Undisturbed, BeginLoad, Connected, Request
  <2>2. QED
    BY <1>4, <1>11, <2>1 DEF BeginLoad
<1>12. CASE Load(w)
  <2>1. Accounted([q EXCEPT !.stage = "confirm", !.store = StoreOf(q.inode)], changes[w])
    BY <1>1, <1>12 DEF Accounted, Undisturbed, Load, Connected, Request
  <2>2. QED
    BY <1>4, <1>12, <2>1 DEF Load
<1>13. CASE LoadFails(w)
  <2>1. Accounted([Idle EXCEPT !.stage = "unavailable"], changes[w])
    BY DEF Accounted, Idle, Connected
  <2>2. ASSUME ~SamePath(w) PROVE q.stage \in Connected /\ ~Undisturbed(q)
    BY <1>13, <2>2 DEF LoadFails, LoadBroken, SamePath, Undisturbed, Connected
  <2>3. QED
    BY <1>4, <1>5, <1>13, <2>1, <2>2 DEF LoadFails, TurnAway, Retry
<1>14. CASE Confirm(w)
  <2>1. CASE Confirmed(w)
    <3>1. Accounted([q EXCEPT !.stage = "begin"], changes[w])
      BY <1>1, <1>14 DEF Accounted, Undisturbed, Confirm, Connected, Request
    <3>2. QED
      BY <1>4, <1>14, <2>1, <3>1 DEF Confirm, Goto
  <2>2. CASE ~Confirmed(w)
    <3>1. q.stage \in Connected /\ ~Undisturbed(q)
      BY <1>1, <1>14, <2>2 DEF Confirm, Confirmed, SameVersion, SamePath, Undisturbed, Connected,
         Good
    <3>2. QED
      BY <1>4, <1>5, <1>14, <2>2, <3>1 DEF Confirm, Retry
  <2>3. QED
    BY <2>1, <2>2
<1>15. CASE Begin(w)
  <2>1. CASE SameVersion(w)
    <3>1. Accounted([q EXCEPT !.stage = "serving"], changes[w])
      BY <1>1, <1>15 DEF Accounted, Undisturbed, Begin, Connected, Request
    <3>2. disk[q.inode].identity = q.identity
      BY <1>1, <1>15 DEF Good, Begin, Connected
    <3>3. QED
      BY <1>4, <1>15, <2>1, <3>1, <3>2 DEF Begin, Goto
  <2>2. CASE ~SameVersion(w)
    <3>1. q.stage \in Connected /\ ~Undisturbed(q)
      BY <1>15, <2>2 DEF Begin, SameVersion, Undisturbed, Connected
    <3>2. QED
      BY <1>4, <1>5, <1>15, <2>2, <3>1 DEF Begin, TurnAway
  <2>3. QED
    BY <2>1, <2>2
<1>16. CASE PlainOpen(w)
  <2>1. Accounted([q EXCEPT !.inode = path], changes[w])
    BY <1>1, <1>16 DEF Accounted, PlainOpen, Connected, Request
  <2>2. QED
    BY <1>4, <1>16, <2>1 DEF PlainOpen
<1>17. CASE PlainBegin(w)
  <2>1. Accounted([q EXCEPT !.stage = "serving", !.version = disk[q.inode].version], changes[w])
    BY <1>1, <1>17 DEF Accounted, PlainBegin, Connected, Request
  <2>2. QED
    BY <1>4, <1>17, <2>1 DEF PlainBegin
<1>18. CASE Close(w)
  <2>1. \A n : Accounted(Idle, n)
    BY DEF Accounted, Idle, Connected
  <2>2. QED
    BY <1>4, <1>18, <2>1 DEF Close
<1>19. CASE Refused(w)
  <2>1. Accounted([Idle EXCEPT !.stage = "unavailable"], changes[w])
    BY DEF Accounted, Idle, Connected
  <2>2. QED
    BY <1>4, <1>19, <2>1 DEF Refused, TurnAway
<1>20. QED
  BY <1>6, <1>7, <1>8, <1>9, <1>10, <1>11, <1>12, <1>13, <1>14, <1>15, <1>16, <1>17, <1>18, <1>19
     DEF Progress

LEMMA AccountAlways == Spec => []AttemptsAccounted
<1>1. Init => AttemptsAccounted
  <2>1. ASSUME Init PROVE \A w \in Readers : Accounted(request[w], changes[w])
    BY <2>1 DEF Init, Accounted, Idle, Connected
  <2>2. QED
    BY <2>1, AccountByRequest
<1>2. ReaderInv /\ AttemptsAccounted /\ [Next]_vars => AttemptsAccounted'
  <2> SUFFICES ASSUME ReaderInv, AttemptsAccounted, [Next]_vars PROVE AttemptsAccounted'
    OBVIOUS
  <2>1. CASE Restart
    <3>1. \A w \in Readers : Accounted(request[w], changes[w])'
      BY <2>1 DEF Restart, Accounted, Idle, Connected
    <3>2. QED
      BY <3>1, AccountByRequestNext
  <2>2. CASE UNCHANGED vars
    BY <2>2 DEF vars, AttemptsAccounted, Disturbed, Signature,
       SameVersion, LoadUndisturbed
  <2>3. QED
    BY <2>1, <2>2, AccountWriter, AccountProgress DEF Next
<1>3. QED
  BY <1>1, <1>2, InvAlways, PTL DEF Spec

\* Each attempt after the first was preceded by a write during the request.
THEOREM RetriesEarned == Spec => []RetriesAreEarned
<1>1. ReaderInv /\ AttemptsAccounted => RetriesAreEarned
  <2> SUFFICES ASSUME ReaderInv, AttemptsAccounted, NEW w \in Readers, Active(w),
                      request[w].attempt > 1
               PROVE  changes[w] >= request[w].attempt - 1
    BY DEF RetriesAreEarned
  <2>1. /\ Accounted(request[w], changes[w])
        /\ request[w] \in Request /\ changes[w] \in Nat
    BY AccountByRequest DEF ReaderInv, TypeOK
  <2>2. QED
    BY <2>1 DEF Accounted, Active, Connected, Request, Stages
<1>2. QED
  BY <1>1, InvAlways, AccountAlways, PTL

\* A step that turns a request away
LEMMA TurnedAwayStep ==
    ASSUME ReaderInv, AttemptsAccounted, [Next]_vars, NEW w \in Readers,
           request'[w].stage = "unavailable", request[w].stage # "unavailable"
    PROVE  window'[w] = {} \/ changes'[w] >= 1 \/ unfinished # 0
<1> DEFINE q == request[w]
<1>1. /\ TypeOK /\ q \in Request /\ changes[w] \in Nat
      /\ Accounted(q, changes[w]) /\ Good(q, window[w])
  BY InvByRequest, AccountByRequest DEF ReaderInv, TypeOK
<1>2. ASSUME q.stage \in Connected, ~Undisturbed(q), changes' = changes
      PROVE  changes'[w] >= 1
  BY <1>1, <1>2 DEF Accounted, Request, Connected
<1>3. PICK v \in Readers : Arrive(v) \/ Progress(v)
  <2>1. request' # request
    OBVIOUS
  <2>2. CASE Restart
    BY <2>2 DEF Restart, Idle
  <2>3. ~WriterStep
    BY <1>1, <2>1, WritesKeep
  <2>4. QED
    BY <2>1, <2>2, <2>3 DEF Next, vars
<1>4. ASSUME NEW n, Become(v, n) PROVE v = w /\ n.stage = "unavailable"
  BY <1>1, <1>4, Others
<1>5. \A s : [request[v] EXCEPT !.stage = s].stage = s
  BY <1>1 DEF TypeOK, Request
<1>6. \A s : Goto(v, s) => v = w /\ s = "unavailable"
  BY <1>4, <1>5 DEF Goto
<1>7. CASE Arrive(v)
  <2>1. StartAbsent(v)
    BY <1>4, <1>7 DEF Arrive, Start, Idle
  <2>2. v = w
    BY <1>4, <2>1 DEF StartAbsent, TurnAway
  <2>3. QED
    BY <1>1, <2>1, <2>2 DEF StartAbsent, TypeOK
<1>8. CASE Progress(v)
  <2>1. CASE Recheck(v)
    <3>1. v = w /\ ~(SameVersion(v) /\ SamePath(v))
      BY <1>4, <1>6, <2>1 DEF Recheck, Retry
    <3>2. q.stage \in Connected /\ ~Undisturbed(q) /\ changes' = changes
      BY <2>1, <3>1 DEF Recheck, SameVersion, SamePath, Undisturbed, Connected
    <3>3. QED
      BY <1>2, <3>2
  <2>2. CASE LoadFails(v)
    <3>1. v = w
      BY <1>4, <2>2 DEF LoadFails, TurnAway, Retry
    <3>2. unfinished # 0 \/ (q.stage \in Connected /\ ~Undisturbed(q) /\ changes' = changes)
      BY <2>2, <3>1 DEF LoadFails, LoadBroken, Readable, LoadUndisturbed, Undisturbed, Connected
    <3>3. QED
      BY <1>2, <3>2
  <2>3. CASE Confirm(v)
    <3>1. v = w /\ ~Confirmed(v)
      BY <1>4, <1>6, <2>3 DEF Confirm, Retry
    <3>2. q.stage \in Connected /\ ~Undisturbed(q) /\ changes' = changes
      BY <1>1, <2>3, <3>1 DEF Confirm, Confirmed, SameVersion, SamePath, Undisturbed, Connected,
         Good
    <3>3. QED
      BY <1>2, <3>2
  <2>4. CASE Begin(v)
    <3>1. v = w /\ ~(SameVersion(v) /\ disk[q.inode].identity = q.identity)
      <4>1. ~(SameVersion(v) /\ disk[request[v].inode].identity = request[v].identity)
            /\ TurnAway(v)
        BY <1>6, <2>4 DEF Begin
      <4>2. v = w
        BY <1>4, <4>1 DEF TurnAway
      <4>3. QED
        BY <4>1, <4>2
    <3>2. q.stage \in Connected /\ ~Undisturbed(q) /\ changes' = changes
      BY <1>1, <2>4, <3>1 DEF Begin, SameVersion, Undisturbed, Connected, Good
    <3>3. QED
      BY <1>2, <3>2
  <2>5. CASE Refused(v)
    BY <2>5 DEF Refused, Readable
  <2>6. ~(Open(v) \/ Reuse(v) \/ BeginLoad(v) \/ Load(v) \/ PlainBegin(v) \/ Close(v))
    <3> DEFINE p == request[v]
    <3>1. p \in Request /\ request \in [Readers -> Request]
      BY <1>1 DEF TypeOK
    <3> HIDE DEF p
    <3>2. ASSUME NEW n, Become(v, n), n.stage # "unavailable" PROVE FALSE
      BY <1>4, <3>2
    <3>3. ~Open(v)
      <4>1. [p EXCEPT !.stage = "recheck", !.inode = path,
                       !.version = disk[path].version, !.identity = disk[path].identity].stage = "recheck"
        BY <3>1 DEF Request
      <4>2. QED
        BY <3>2, <4>1 DEF Open, p
    <3>4. ~Reuse(v)
      <4>1. [p EXCEPT !.stage = "confirm", !.store = storeState.store].stage = "confirm"
        BY <3>1 DEF Request
      <4>2. QED
        BY <3>2, <4>1 DEF Reuse, p
    <3>5. ~BeginLoad(v)
      <4>1. [p EXCEPT !.stage = "load", !.started = Signature(path),
                       !.loaded = disk[p.inode].version].stage = "load"
        BY <3>1 DEF Request
      <4>2. QED
        BY <3>2, <4>1 DEF BeginLoad, p
    <3>6. ~Load(v)
      <4>1. [p EXCEPT !.stage = "confirm", !.store = StoreOf(p.inode)].stage = "confirm"
        BY <3>1 DEF Request
      <4>2. QED
        BY <3>2, <4>1 DEF Load, p
    <3>7. ~PlainBegin(v)
      <4>1. [p EXCEPT !.stage = "serving", !.version = disk[p.inode].version].stage = "serving"
        BY <3>1 DEF Request
      <4>2. QED
        BY <3>2, <4>1 DEF PlainBegin, p
    <3>8. ~Close(v)
      BY <3>2 DEF Close, Idle
    <3>9. QED
      BY <3>3, <3>4, <3>5, <3>6, <3>7, <3>8
  <2>7. ~(Stat(v) \/ PlainOpen(v))
    <3> DEFINE p == request[v]
    <3>1. p \in Request
      BY <1>1 DEF TypeOK
    <3> HIDE DEF p
    <3>2. ASSUME NEW n, Become(v, n), n.stage # "unavailable" PROVE FALSE
      BY <1>4, <3>2
    <3>3. ~Stat(v)
      <4>1. [p EXCEPT !.before = Signature(path), !.attempt = @ + 1].stage = p.stage
        BY <3>1 DEF Request
      <4>2. QED
        BY <3>2, <4>1 DEF Stat, p
    <3>4. ~PlainOpen(v)
      <4>1. [p EXCEPT !.inode = path].stage = p.stage
        BY <3>1 DEF Request
      <4>2. QED
        BY <3>2, <4>1 DEF PlainOpen, p
    <3>5. QED
      BY <3>3, <3>4
  <2>8. QED
    BY <1>8, <2>1, <2>2, <2>3, <2>4, <2>5, <2>6, <2>7 DEF Progress
<1>9. QED
  BY <1>3, <1>7, <1>8

\* A request is turned away only for want of a cache, after a write, or while
\* a commit is unfinished.
THEOREM UnavailableEarned == Spec => NoSpuriousUnavailable
<1> DEFINE A == \A w \in Readers :
                  request'[w].stage = "unavailable" /\ request[w].stage # "unavailable" =>
                     \/ window'[w] = {}
                     \/ changes'[w] >= 1
                     \/ unfinished # 0
<1>1. ReaderInv /\ AttemptsAccounted /\ [Next]_vars => A
  BY TurnedAwayStep
<1>2. Spec => [][A]_vars
  <2> HIDE DEF A
  <2>1. QED
    BY <1>1, InvAlways, AccountAlways, PTL DEF Spec
<1>3. QED
  BY <1>2 DEF NoSpuriousUnavailable

=============================================================================
