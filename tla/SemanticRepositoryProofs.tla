---------------------- MODULE SemanticRepositoryProofs ----------------------
(***************************************************************************)
(* What write_semantic_repository leaves at the destination, for any       *)
(* number of publishers, editions and files: nothing or a complete tree    *)
(* (NeverPartialTree), never replaced (PublishedOnce), and there for as    *)
(* long as the root once its publisher has returned (Promises): for good,  *)
(* unless publishers made the root themselves and it is lost with its own  *)
(* name, which none of them synchronises.  And every answer is true        *)
(* (TruthfulAnswers).  None of this rests on the claim file.  What the     *)
(* semantic service loaded from there stays what is there                  *)
(* (ServedPublished), and all together implement a destination that is     *)
(* written once (RepositoryRefinement).                                    *)
(***************************************************************************)
EXTENDS SemanticService, TLAPS

\* What the invariant says of one publisher, given the tree t
Fits(t, s) ==
    /\ s.stage \in {"check", "rename"} => s.safe = Parts
    /\ s.stage = "settle" => t # Nothing /\ t.edition = s.edition
    /\ s.stage = "cleanup" =>
          /\ s.answer # "none"
          /\ s.answer = "published" => t # Nothing /\ t.named
    /\ s.stage \in {"idle", "cleanup"} =>
          /\ s.answer \in {"published", "present"} => t # Nothing /\ t.edition = s.edition
          /\ s.answer = "refused" => t # Nothing /\ t.edition # s.edition

\* and of the tree
Whole(t) == t # Nothing => t.parts = Parts /\ t.safe = Parts

LEMMA InvByPublisher ==
    RepositoryInv <=>
        /\ TypeOK /\ RootFirst /\ PromiseKept /\ Whole(tree)
        /\ \A p \in Publishers : Fits(tree, publisher[p])
BY DEF RepositoryInv, StagedSafely, RenamedIsThere, AnswersTrue, Fits, Whole, At

LEMMA InvByPublisherNext ==
    RepositoryInv' <=>
        /\ TypeOK' /\ RootFirst' /\ PromiseKept' /\ Whole(tree')
        /\ \A p \in Publishers : Fits(tree', publisher'[p])
BY DEF RepositoryInv, StagedSafely, RenamedIsThere, AnswersTrue, Fits, Whole, At

\* The tree is not lost: the same one, or the first one.
Stays(t, u) ==
    /\ u \in Tree \cup {Nothing}
    /\ Whole(u)
    /\ t # Nothing => u # Nothing /\ u.edition = t.edition /\ (t.named => u.named)

LEMMA FitsStays ==
    ASSUME NEW t \in Tree \cup {Nothing}, NEW u, NEW s \in Publisher, Fits(t, s), Stays(t, u)
    PROVE  Fits(u, s)
BY DEF Fits, Stays

\* A publisher under way has a root.
LEMMA UnderWay ==
    ASSUME RepositoryInv, NEW p \in Publishers, publisher[p].stage # "idle"
    PROVE  root \in Roots \ {"absent"}
BY DEF RepositoryInv, RootFirst, TypeOK, At

\* A step of publisher p alone
LEMMA PublisherStep ==
    ASSUME RepositoryInv, NEW p \in Publishers, NEW s \in Publisher,
           publisher' = [publisher EXCEPT ![p] = s], Fits(tree', s),
           claim' \in Publishers \cup {Nothing}, Stays(tree, tree'),
           root' \in Roots \ {"absent"},
           promised' = promised
             \/ /\ promised' = promised \cup {s.edition}
                /\ s.edition \in Editions
                /\ tree' # Nothing /\ tree'.edition = s.edition /\ tree'.named
    PROVE  RepositoryInv'
<1>1. TypeOK /\ PromiseKept /\ Whole(tree) /\ \A q \in Publishers : Fits(tree, publisher[q])
  BY InvByPublisher
<1>2. TypeOK'
  BY <1>1 DEF TypeOK, Stays
<1>3. PromiseKept'
  BY <1>1 DEF PromiseKept, Stays
<1>4. ASSUME NEW q \in Publishers PROVE Fits(tree', publisher'[q])
  <2>1. CASE q = p
    BY <1>1, <2>1 DEF TypeOK
  <2>2. CASE q # p
    <3>1. publisher'[q] = publisher[q] /\ publisher[q] \in Publisher
      BY <1>1, <2>2 DEF TypeOK
    <3>2. QED
      BY <1>1, <3>1, FitsStays DEF TypeOK
  <2>3. QED
    BY <2>1, <2>2
<1>5. QED
  BY <1>2, <1>3, <1>4, InvByPublisherNext DEF Stays, RootFirst

LEMMA Active ==
    ASSUME NEW s \in Publisher, s.stage # "idle"
    PROVE  /\ s.edition \in Editions /\ s.safe \subseteq Parts /\ s.answer \in Answers
           /\ [s EXCEPT !.stage = "idle", !.safe = {}] \in Publisher
           /\ [s EXCEPT !.stage = "check", !.safe = Parts] \in Publisher
BY DEF Publisher, Stages

LEMMA Gone ==
    ASSUME TypeOK, NEW p \in Publishers, publisher[p].stage # "idle",
           NEW stage \in Stages, Goto(p, stage)
    PROVE  /\ publisher'[p] \in Publisher
           /\ publisher'[p].stage = stage
           /\ publisher'[p].safe = publisher[p].safe
           /\ publisher'[p].edition = publisher[p].edition
<1>1. publisher[p] \in Publisher
  BY DEF TypeOK
<1>2. publisher'[p] = [publisher[p] EXCEPT !.stage = stage]
  BY DEF TypeOK, Goto
<1>3. publisher'[p] \in Publisher
  BY <1>1, <1>2 DEF Publisher, Stages
<1>4. QED
  BY <1>1, <1>2, <1>3 DEF Publisher

LEMMA Finished ==
    ASSUME TypeOK, NEW p \in Publishers, publisher[p].stage # "idle",
           NEW answer \in Answers, Finish(p, answer)
    PROVE  /\ publisher'[p] \in Publisher
           /\ publisher'[p].stage = "cleanup"
           /\ publisher'[p].answer = answer
           /\ publisher'[p].edition = publisher[p].edition
<1>1. publisher[p] \in Publisher
  BY DEF TypeOK
<1>2. publisher'[p] = [publisher[p] EXCEPT !.stage = "cleanup", !.answer = answer]
  BY DEF TypeOK, Finish
<1>3. publisher'[p] \in Publisher
  BY <1>1, <1>2 DEF Publisher, Stages
<1>4. QED
  BY <1>1, <1>2, <1>3 DEF Publisher

\* A step that fails answers "error" or "active", which says nothing of the tree.
LEMMA FinishedBadly ==
    ASSUME TypeOK, NEW p \in Publishers, publisher[p].stage # "idle",
           NEW answer \in {"error", "active"}, Finish(p, answer)
    PROVE  publisher'[p] \in Publisher /\ Fits(tree, publisher'[p])
<1>1. answer \in Answers
  BY DEF Answers
<1>2. publisher'[p] \in Publisher /\ publisher'[p].stage = "cleanup"
        /\ publisher'[p].answer = answer
  BY <1>1, Finished
<1>3. QED
  BY <1>2 DEF Fits

LEMMA InvInit == Init => RepositoryInv
BY DEF Init, RepositoryInv, TypeOK, Roots, RootFirst, StagedSafely, RenamedIsThere, PromiseKept, AnswersTrue,
       Idle, Publisher, Answers, At

LEMMA StartStep ==
    ASSUME RepositoryInv, NEW p \in Publishers, NEW e \in Editions, Start(p, e)
    PROVE  RepositoryInv'
<1> DEFINE s == IF tree = Nothing
                THEN [Idle EXCEPT !.stage = "claim", !.edition = e]
                ELSE [Idle EXCEPT !.edition = e, !.answer = Judgement(e)]
<1>1. TypeOK /\ Whole(tree)
  BY InvByPublisher
<1>2. s \in Publisher
  BY DEF Publisher, Idle, Judgement, Stages, Answers
<1>3. Fits(tree, s)
  BY <1>1 DEF Fits, Idle, Judgement, SameRepository, Whole
<1>4. QED
  <2>1. root' \in Roots \ {"absent"}
    BY <1>1 DEF Start, TypeOK, Roots
  <2>2. QED
    BY <1>1, <1>2, <1>3, <2>1, PublisherStep DEF Start, Stays, TypeOK

\* A step that leaves the tree alone and the publisher under way
LEMMA StageStep ==
    ASSUME RepositoryInv, NEW p \in Publishers,
           \/ Claim(p) \/ Recheck(p) \/ Write(p) \/ Sync(p) \/ FinalCheck(p) \/ Fail(p)
    PROVE  RepositoryInv'
<1> DEFINE s == publisher'[p]
<1>1. TypeOK /\ Whole(tree) /\ Fits(tree, publisher[p]) /\ publisher[p] \in Publisher
  BY InvByPublisher DEF TypeOK
<1>2. publisher[p].stage # "idle"
  BY DEF Claim, Recheck, Write, Sync, FinalCheck, Fail, At
<1>3. publisher' = [publisher EXCEPT ![p] = s]
  BY <1>1 DEF Claim, Recheck, Write, Sync, FinalCheck, Fail, Goto, Finish, TypeOK
<1>4. s \in Publisher /\ Fits(tree, s)
  <2>1. CASE Claim(p)
    <3>1. CASE Goto(p, "recheck")
      <4>1. "recheck" \in Stages
        BY DEF Stages
      <4>2. s \in Publisher /\ s.stage = "recheck"
        BY <1>1, <1>2, <3>1, <4>1, Gone
      <4>3. QED
        BY <4>2 DEF Fits
    <3>2. CASE Finish(p, "active")
      BY <1>1, <1>2, <3>2, FinishedBadly
    <3>3. QED
      BY <2>1, <3>1, <3>2 DEF Claim
  <2>2. CASE Recheck(p)
    <3>1. CASE Goto(p, "write")
      <4>1. "write" \in Stages
        BY DEF Stages
      <4>2. s \in Publisher /\ s.stage = "write"
        BY <1>1, <1>2, <3>1, <4>1, Gone
      <4>3. QED
        BY <4>2 DEF Fits
    <3>2. CASE tree # Nothing /\ Finish(p, Judgement(publisher[p].edition))
      <4> DEFINE answer == Judgement(publisher[p].edition)
      <4>1. answer \in Answers
        BY DEF Judgement, Answers
      <4>2. s \in Publisher /\ s.stage = "cleanup" /\ s.answer = answer
            /\ s.edition = publisher[p].edition
        BY <1>1, <1>2, <3>2, <4>1, Finished
      <4>3. QED
        BY <1>1, <3>2, <4>2 DEF Fits, Judgement, SameRepository, Whole
    <3>3. QED
      BY <2>2, <3>1, <3>2 DEF Recheck
  <2>3. CASE Write(p)
    <3>1. "sync" \in Stages
      BY DEF Stages
    <3>2. s \in Publisher /\ s.stage = "sync"
      BY <1>1, <1>2, <2>3, <3>1, Gone DEF Write
    <3>3. QED
      BY <3>2 DEF Fits
  <2>4. CASE Sync(p)
    <3>1. s = [publisher[p] EXCEPT !.stage = "check", !.safe = Parts]
      BY <1>1, <2>4 DEF Sync, TypeOK
    <3>2. s \in Publisher /\ s.stage = "check" /\ s.safe = Parts
      BY <1>1, <1>2, <3>1, Active DEF Publisher
    <3>3. QED
      BY <3>2 DEF Fits
  <2>5. CASE FinalCheck(p)
    <3>1. CASE Goto(p, "rename")
      <4>1. "rename" \in Stages
        BY DEF Stages
      <4>2. s \in Publisher /\ s.stage = "rename" /\ s.safe = publisher[p].safe
        BY <1>1, <1>2, <3>1, <4>1, Gone
      <4>3. QED
        BY <1>1, <2>5, <4>2 DEF FinalCheck, At, Fits
    <3>2. CASE Finish(p, "error")
      BY <1>1, <1>2, <3>2, FinishedBadly
    <3>3. QED
      BY <2>5, <3>1, <3>2 DEF FinalCheck
  <2>6. CASE Fail(p)
    BY <1>1, <1>2, <2>6, FinishedBadly DEF Fail
  <2>7. QED
    BY <2>1, <2>2, <2>3, <2>4, <2>5, <2>6
<1>5. tree' = tree /\ promised' = promised /\ claim' \in Publishers \cup {Nothing}
      /\ root' \in Roots \ {"absent"}
  BY <1>1, <1>2, UnderWay DEF Claim, Recheck, Write, Sync, FinalCheck, Fail, TypeOK
<1>6. QED
  BY <1>1, <1>3, <1>4, <1>5, PublisherStep DEF Stays, TypeOK

LEMMA RenameStep ==
    ASSUME RepositoryInv, NEW p \in Publishers, Rename(p)
    PROVE  RepositoryInv'
<1> DEFINE s == publisher'[p]
<1>1. TypeOK /\ Whole(tree) /\ Fits(tree, publisher[p]) /\ publisher[p] \in Publisher
  BY InvByPublisher DEF TypeOK
<1>2. publisher[p].stage = "rename" /\ publisher[p].safe = Parts
  BY <1>1 DEF Rename, At, Fits
<1>3. publisher' = [publisher EXCEPT ![p] = s] /\ s \in Publisher
  <2>1. "settle" \in Stages /\ "error" \in Answers
    BY DEF Stages, Answers
  <2>2. CASE Goto(p, "settle")
    BY <1>1, <1>2, <2>1, <2>2, Gone DEF Goto, TypeOK
  <2>3. CASE Finish(p, "error")
    BY <1>1, <1>2, <2>1, <2>3, Finished DEF Finish, TypeOK
  <2>4. QED
    BY <2>2, <2>3 DEF Rename
<1>4. Stays(tree, tree') /\ Fits(tree', s)
  <2>1. CASE tree = Nothing
    <3>1. publisher[p].edition \in Editions
      BY <1>1, <1>2, Active
    <3>2. tree' = Staged(p) /\ Staged(p) \in Tree
      BY <1>2, <2>1, <3>1 DEF Rename, Staged, Tree
    <3>3. Staged(p) # Nothing
      BY <3>2, RepositoryAssumption DEF Tree
    <3>4. s.stage = "settle" /\ s.edition = publisher[p].edition
      <4>1. "settle" \in Stages /\ Goto(p, "settle")
        BY <2>1 DEF Stages, Rename
      <4>2. QED
        BY <1>1, <1>2, <4>1, Gone
    <3>5. QED
      BY <1>2, <2>1, <3>2, <3>3, <3>4 DEF Staged, Stays, Whole, Fits
  <2>2. CASE tree # Nothing
    <3>1. s.stage = "cleanup" /\ s.answer = "error" /\ tree' = tree
      <4>1. "error" \in Answers /\ Finish(p, "error") /\ tree' = tree
        BY <2>2 DEF Answers, Rename
      <4>2. QED
        BY <1>1, <1>2, <4>1, Finished
    <3>2. QED
      BY <1>1, <3>1 DEF Stays, Fits, TypeOK
  <2>3. QED
    BY <2>1, <2>2
<1>5. QED
  BY <1>1, <1>2, <1>3, <1>4, UnderWay, PublisherStep DEF Rename, TypeOK

\* The root is synchronised.
LEMMA Naming ==
    ASSUME NEW t \in Tree, Whole(t)
    PROVE  Stays(t, [t EXCEPT !.named = TRUE]) /\ [t EXCEPT !.named = TRUE] # Nothing
<1>1. [t EXCEPT !.named = TRUE] \in Tree
  BY DEF Tree
<1>2. QED
  BY <1>1, RepositoryAssumption DEF Stays, Whole, Tree

LEMMA SettleStep ==
    ASSUME RepositoryInv, NEW p \in Publishers, Settle(p)
    PROVE  RepositoryInv'
<1> DEFINE s == publisher'[p]
<1>1. TypeOK /\ Whole(tree) /\ Fits(tree, publisher[p]) /\ publisher[p] \in Publisher
  BY InvByPublisher DEF TypeOK
<1>2. publisher[p].stage = "settle" /\ tree \in Tree /\ tree.edition = publisher[p].edition
  BY <1>1 DEF Settle, At, Fits, TypeOK
<1>3. publisher' = [publisher EXCEPT ![p] = s] /\ s \in Publisher
  <2>1. "published" \in Answers /\ Finish(p, "published")
    BY DEF Settle, Answers
  <2>2. s \in Publisher
    BY <1>1, <1>2, <2>1, Finished
  <2>3. QED
    BY <1>1, <2>1, <2>2 DEF Finish, TypeOK
<1>4. s = [publisher[p] EXCEPT !.stage = "cleanup", !.answer = "published"]
  BY <1>1 DEF Settle, Finish, TypeOK
<1>5. tree' = [tree EXCEPT !.named = TRUE] /\ Stays(tree, tree') /\ tree' # Nothing
  BY <1>1, <1>2, Naming DEF Settle
<1>6. tree'.edition = s.edition /\ tree'.named /\ s.stage = "cleanup" /\ s.answer = "published"
  BY <1>1, <1>2, <1>4, <1>5 DEF Tree, Publisher
<1>7. Fits(tree', s)
  BY <1>5, <1>6 DEF Fits
<1>8. QED
  BY <1>1, <1>2, <1>3, <1>5, <1>7, UnderWay, PublisherStep DEF Settle, TypeOK

LEMMA CleanupStep ==
    ASSUME RepositoryInv, NEW p \in Publishers, Cleanup(p)
    PROVE  RepositoryInv'
<1> DEFINE s == publisher'[p]
<1>1. TypeOK /\ Whole(tree) /\ Fits(tree, publisher[p]) /\ publisher[p] \in Publisher
  BY InvByPublisher DEF TypeOK
<1>2. publisher[p].stage = "cleanup"
  BY DEF Cleanup, At
<1>3. publisher' = [publisher EXCEPT ![p] = s] /\ s \in Publisher
      /\ s = [publisher[p] EXCEPT !.stage = "idle", !.safe = {}]
  BY <1>1, <1>2, Active DEF Cleanup, TypeOK
<1>4. s.stage = "idle" /\ s.edition = publisher[p].edition /\ s.answer = publisher[p].answer
  BY <1>1, <1>3 DEF Publisher
<1>5. Stays(tree, tree')
  BY <1>1, Naming DEF Cleanup, Stays, TypeOK
<1>6. Fits(tree', publisher[p])
  BY <1>1, <1>5, FitsStays DEF TypeOK
<1>7. Fits(tree', s)
  BY <1>2, <1>4, <1>6 DEF Fits
<1>8. publisher[p].answer = "published" =>
         publisher[p].edition \in Editions /\ tree' # Nothing
           /\ tree'.edition = s.edition /\ tree'.named
  BY <1>1, <1>2, <1>4, <1>6, Active DEF Fits
<1>9. promised' = promised
        \/ /\ promised' = promised \cup {s.edition}
           /\ s.edition \in Editions
           /\ tree' # Nothing /\ tree'.edition = s.edition /\ tree'.named
  BY <1>4, <1>8 DEF Cleanup
<1>10. claim' \in Publishers \cup {Nothing} /\ root' \in Roots \ {"absent"}
  BY <1>1, <1>2, UnderWay DEF Cleanup, TypeOK
<1>11. QED
  BY <1>3, <1>5, <1>7, <1>9, <1>10, PublisherStep

LEMMA KillStep ==
    ASSUME RepositoryInv, NEW p \in Publishers, Kill(p)
    PROVE  RepositoryInv'
<1>1. TypeOK /\ Whole(tree)
  BY InvByPublisher
<1>2. Idle \in Publisher /\ Fits(tree, Idle)
  BY DEF Idle, Publisher, Answers, Fits
<1>3. QED
  BY <1>1, <1>2, UnderWay, PublisherStep DEF Kill, Stays, TypeOK, At

\* A loss of power spares what was synchronised.
LEMMA Spared ==
    ASSUME TypeOK, Whole(tree), PowerLoss, tree' # Nothing
    PROVE  /\ tree # Nothing /\ tree' \in Tree /\ Whole(tree') /\ tree'.named
           /\ tree'.edition = tree.edition
<1>1. tree # Nothing
  BY DEF PowerLoss, RootLost, RootKept
<1>2. PICK kept \in SUBSET tree.parts :
         /\ tree.safe \subseteq kept
         /\ tree' = [tree EXCEPT !.parts = kept, !.safe = kept, !.named = TRUE]
  BY <1>1 DEF PowerLoss, RootLost, RootKept
<1>3. kept = Parts
  BY <1>1, <1>2 DEF Whole
<1>4. QED
  BY <1>1, <1>2, <1>3 DEF TypeOK, Tree, Whole

LEMMA NamedKept ==
    ASSUME TypeOK, Whole(tree), RootKept, tree # Nothing, tree.named
    PROVE  tree' # Nothing
<1>1. PICK kept \in SUBSET tree.parts :
         tree' = [tree EXCEPT !.parts = kept, !.safe = kept, !.named = TRUE]
  BY DEF RootKept
<1>2. tree' \in Tree
  BY <1>1 DEF TypeOK, Tree
<1>3. QED
  BY <1>2, RepositoryAssumption DEF Tree

LEMMA PowerLossStep ==
    ASSUME RepositoryInv, PowerLoss
    PROVE  RepositoryInv'
<1>1. TypeOK /\ PromiseKept /\ Whole(tree)
  BY InvByPublisher
<1>2. tree' \in Tree \cup {Nothing} /\ Whole(tree')
  BY <1>1, Spared DEF Whole
<1>3. Idle \in Publisher /\ Fits(tree', Idle)
  BY DEF Idle, Publisher, Answers, Fits
<1>4. TypeOK'
  BY <1>1, <1>2, <1>3 DEF PowerLoss, RootLost, RootKept, TypeOK, Roots
<1>5. PromiseKept'
  <2>1. CASE RootLost
    BY <2>1 DEF RootLost, PromiseKept
  <2>2. CASE RootKept
    BY <1>1, <2>2, Spared, NamedKept DEF RootKept, PromiseKept
  <2>3. QED
    BY <2>1, <2>2 DEF PowerLoss
<1>6. \A p \in Publishers : publisher'[p] = Idle
  BY DEF PowerLoss
<1>7. RootFirst'
  <2>1. tree' # Nothing => tree # Nothing /\ RootKept
    BY <1>1, Spared DEF PowerLoss, RootLost
  <2>2. tree' # Nothing => root' # "absent"
    BY <2>1 DEF RootKept, RepositoryInv, RootFirst
  <2>3. QED
    BY <1>6, <2>2 DEF RootFirst, At, Idle
<1>8. QED
  BY <1>2, <1>3, <1>4, <1>5, <1>6, <1>7, InvByPublisherNext

LEMMA InvNext == RepositoryInv /\ [Next]_vars => RepositoryInv'
<1> SUFFICES ASSUME RepositoryInv, [Next]_vars PROVE RepositoryInv'
  OBVIOUS
<1>1. ASSUME NEW p \in Publishers, Step(p) PROVE RepositoryInv'
  BY <1>1, StageStep, RenameStep, SettleStep, CleanupStep, KillStep DEF Step
<1>2. ASSUME NEW p \in Publishers, NEW e \in Editions, Start(p, e) PROVE RepositoryInv'
  BY <1>2, StartStep
<1>3. CASE PowerLoss
  BY <1>3, PowerLossStep
<1>4. CASE UNCHANGED vars
  BY <1>4 DEF vars, RepositoryInv, TypeOK, RootFirst, StagedSafely, RenamedIsThere, PromiseKept,
              AnswersTrue, At
<1>5. QED
  BY <1>1, <1>2, <1>3, <1>4 DEF Next

LEMMA RepositoryInvariant == Spec => []RepositoryInv
BY InvInit, InvNext, PTL DEF Spec

-----------------------------------------------------------------------------
\* The variables of the publication protocol stay in their domains.
THEOREM RepositoryTypes == Spec => []TypeOK
<1>1. RepositoryInv => TypeOK
  BY DEF RepositoryInv
<1>2. QED
  BY <1>1, RepositoryInvariant, PTL

\* write_semantic_repository never leaves a part of a tree at the destination.
THEOREM NeverPartialTree == Spec => []NeverPartial
<1>1. RepositoryInv => NeverPartial
  BY DEF RepositoryInv, StagedSafely, NeverPartial
<1>2. QED
  BY <1>1, RepositoryInvariant, PTL

\* What a publisher has returned from publishing is there as long as the root:
\* through every loss of power that does not take away a root the publishers
\* made themselves.
THEOREM Promises == Spec => []PromiseKept
<1>1. RepositoryInv => PromiseKept
  BY DEF RepositoryInv
<1>2. QED
  BY <1>1, RepositoryInvariant, PTL

\* Whatever a living publisher was answered is true of the destination.
THEOREM TruthfulAnswers == Spec => []AnswersTrue
<1>1. RepositoryInv => AnswersTrue
  BY DEF RepositoryInv
<1>2. QED
  BY <1>1, RepositoryInvariant, PTL

\* No publisher takes away a tree that is there.
LEMMA TreeKept ==
    ASSUME RepositoryInv, NEW p \in Publishers, Step(p) \/ \E e \in Editions : Start(p, e),
           tree # Nothing
    PROVE  tree' # Nothing /\ tree'.edition = tree.edition
<1>1. TypeOK /\ Whole(tree)
  BY InvByPublisher
<1>2. CASE Settle(p) \/ Cleanup(p)
  BY <1>1, <1>2, Naming DEF Settle, Cleanup, Stays, TypeOK
<1>3. CASE \/ Claim(p) \/ Recheck(p) \/ Write(p) \/ Sync(p) \/ FinalCheck(p)
           \/ Rename(p) \/ Fail(p) \/ Kill(p) \/ \E e \in Editions : Start(p, e)
  BY <1>3 DEF Claim, Recheck, Write, Sync, FinalCheck, Rename, Fail, Kill, Start
<1>4. QED
  BY <1>2, <1>3 DEF Step

\* A published tree is never replaced, with or without the claim.
THEOREM PublishedOnce == Spec => NeverReplaced
<1>1. RepositoryInv /\ [Next]_vars /\ tree # Nothing =>
          \/ tree' # Nothing /\ tree'.edition = tree.edition
          \/ PowerLoss /\ (~tree.named \/ root = "made")
  <2> SUFFICES ASSUME RepositoryInv, [Next]_vars, tree # Nothing
               PROVE  \/ tree' # Nothing /\ tree'.edition = tree.edition
                      \/ PowerLoss /\ (~tree.named \/ root = "made")
    OBVIOUS
  <2>1. CASE PowerLoss
    <3>1. RootLost => root = "made"
      BY DEF RootLost
    <3>2. QED
      BY <2>1, <3>1, Spared, NamedKept, InvByPublisher DEF PowerLoss
  <2>2. CASE UNCHANGED vars
    BY <2>2 DEF vars
  <2>3. QED
    BY <2>1, <2>2, TreeKept DEF Next
<1>2. QED
  BY <1>1, RepositoryInvariant, PTL DEF Spec, NeverReplaced

-----------------------------------------------------------------------------
(* The service beside the publishers *)

LEMMA ServiceInitial == ServiceInit => ServiceInv
<1> SUFFICES ASSUME ServiceInit PROVE ServiceInv
  OBVIOUS
<1>1. RepositoryInv
  BY InvInit DEF ServiceInit
<1>2. NotVisiting \in Visitor /\ NotVisiting.stage = "idle"
  BY DEF NotVisiting, Visitor
<1>3. QED
  BY <1>1, <1>2 DEF ServiceInit, ServiceInv, ServiceTypeOK, LoadsAlone, ServedAsPublished

\* Publishers leave what the service has read, and what it serves.
LEMMA BesidePublishers ==
    ASSUME ServiceInv, UNCHANGED serviceVars,
           NEW p \in Publishers, Step(p) \/ \E e \in Editions : Start(p, e)
    PROVE  ServiceInv'
<1>1. RepositoryInv /\ RepositoryInv'
  BY InvNext DEF ServiceInv, Next
<1>2. tree # Nothing => tree' # Nothing /\ tree'.edition = tree.edition
  BY <1>1, TreeKept
<1>3. ServiceTypeOK' /\ LoadsAlone'
  BY <1>2 DEF serviceVars, ServiceInv, ServiceTypeOK, LoadsAlone
<1>4. ServedAsPublished'
  BY <1>1, <1>2 DEF serviceVars, ServiceInv, ServedAsPublished, RepositoryInv, StagedSafely, PromiseKept
<1>5. QED
  BY <1>1, <1>3, <1>4 DEF ServiceInv

LEMMA RestartStep ==
    ASSUME ServiceInv, PowerLoss \/ UNCHANGED vars, Restarted
    PROVE  ServiceInv'
<1>1. RepositoryInv'
  BY InvNext DEF ServiceInv, Next
<1>2. NotVisiting \in Visitor /\ NotVisiting.stage = "idle"
  BY DEF NotVisiting, Visitor
<1>3. QED
  BY <1>1, <1>2 DEF Restarted, ServiceInv, ServiceTypeOK, LoadsAlone, ServedAsPublished

LEMMA ServingStep ==
    ASSUME ServiceInv, NEW v \in Visitors, Serving(v)
    PROVE  ServiceInv'
<1>1. UNCHANGED vars /\ RepositoryInv /\ RepositoryInv'
  BY InvNext DEF ServiceInv, Serving, Visit, TakeLock, LoadTree, Retain, Visits
<1>2. /\ visitor \in [Visitors -> Visitor] /\ visitor[v] \in Visitor
      /\ delegate \in Editions \cup {Nothing} /\ Nothing \notin Editions /\ Unheld \notin Visitors
  BY RepositoryAssumption, ServiceAssumption DEF ServiceInv, ServiceTypeOK
<1>3. [stage |-> "waiting"] \in Visitor /\ [stage |-> "opening"] \in Visitor /\ NotVisiting \in Visitor
      /\ NotVisiting.stage = "idle"
  BY DEF Visitor, NotVisiting
<1>4. CASE Visit(v)
  BY <1>1, <1>2, <1>3, <1>4 DEF Visit, Visits, vars, ServiceInv, ServiceTypeOK, LoadsAlone, ServedAsPublished
<1>5. CASE TakeLock(v)
  BY <1>1, <1>2, <1>3, <1>5 DEF TakeLock, Visits, vars, ServiceInv, ServiceTypeOK, LoadsAlone, ServedAsPublished
<1>6. CASE LoadTree(v)
  <2>1. CASE Loadable
    <3>1. tree.edition \in Editions /\ tree # Nothing
      BY <1>1, <2>1 DEF Loadable, RepositoryInv, TypeOK, Tree
    <3>2. [stage |-> "loaded", edition |-> tree.edition] \in Visitor
      BY <3>1 DEF Visitor
    <3>3. QED
      BY <1>1, <1>2, <1>6, <2>1, <3>1, <3>2
         DEF LoadTree, Visits, vars, ServiceInv, ServiceTypeOK, LoadsAlone, ServedAsPublished
  <2>2. CASE ~Loadable
    BY <1>1, <1>2, <1>3, <1>6, <2>2
       DEF LoadTree, Visits, vars, ServiceInv, ServiceTypeOK, LoadsAlone, ServedAsPublished
  <2>3. QED
    BY <2>1, <2>2
<1>7. CASE Retain(v)
  <2>1. /\ visitor[v].stage = "loaded" /\ visitor[v].edition \in Editions
        /\ tree # Nothing /\ tree.edition = visitor[v].edition /\ serviceLock = v
    BY <1>2, <1>7 DEF Retain, Visitor, ServiceInv, LoadsAlone
  <2>2. promised \subseteq {visitor[v].edition} /\ tree.parts = Parts
    BY <1>1, <2>1 DEF RepositoryInv, PromiseKept, StagedSafely
  <2>3. delegate' = visitor[v].edition /\ UNCHANGED <<tree, promised>> /\ serviceLock' = Unheld
        /\ visitor' = [visitor EXCEPT ![v] = NotVisiting]
    BY <1>1, <1>7 DEF Retain, Visits, vars
  <2>4. ServedAsPublished'
    BY <2>1, <2>2, <2>3 DEF ServedAsPublished
  <2>5. \A u \in Visitors \ {v} : visitor[u].stage \notin {"opening", "loaded"}
    BY <2>1 DEF ServiceInv, LoadsAlone
  <2>6. ServiceTypeOK' /\ LoadsAlone'
    BY <1>2, <1>3, <2>1, <2>3, <2>5 DEF ServiceInv, ServiceTypeOK, LoadsAlone
  <2>7. QED
    BY <1>1, <2>4, <2>6 DEF ServiceInv
<1>8. QED
  BY <1>4, <1>5, <1>6, <1>7 DEF Serving

LEMMA ServiceStep ==
    ASSUME ServiceInv, [ServiceNext]_<<vars, serviceVars>>
    PROVE  ServiceInv'
<1>1. CASE \E p \in Publishers : Step(p) /\ UNCHANGED serviceVars
  BY <1>1, BesidePublishers
<1>2. CASE \E p \in Publishers, e \in Editions : Start(p, e) /\ UNCHANGED serviceVars
  BY <1>2, BesidePublishers
<1>3. CASE (PowerLoss \/ UNCHANGED vars) /\ Restarted
  BY <1>3, RestartStep
<1>4. CASE \E v \in Visitors : Serving(v)
  BY <1>4, ServingStep
<1>5. CASE UNCHANGED <<vars, serviceVars>>
  <2>1. RepositoryInv'
    BY <1>5, InvNext DEF ServiceInv
  <2>2. QED
    BY <1>5, <2>1 DEF vars, serviceVars, ServiceInv, ServiceTypeOK, LoadsAlone, ServedAsPublished
<1>6. QED
  BY <1>1, <1>2, <1>3, <1>4, <1>5 DEF ServiceNext

LEMMA ServiceInvariant == ServiceSpec => []ServiceInv
<1>1. ServiceInv /\ [ServiceNext]_<<vars, serviceVars>> => ServiceInv'
  BY ServiceStep
<1>2. QED
  BY <1>1, ServiceInitial, PTL DEF ServiceSpec

\* What the semantic service serves until it is restarted is the complete
\* tree at the destination, and agrees with what publishers were promised.
THEOREM ServedPublished == ServiceSpec => []ServedAsPublished
<1>1. ServiceInv => ServedAsPublished
  BY DEF ServiceInv
<1>2. QED
  BY <1>1, ServiceInvariant, PTL

-----------------------------------------------------------------------------
(* Publishers and service implement a destination that is written once. *)

\* The mapping, as a function of the tree and of one publisher
DirectoryOf(t) == IF t = Nothing THEN {} ELSE t.parts \X {t.edition}

Answered(s) == s.stage = "idle" /\ s.answer \in {"published", "present", "refused"}

ToldOf(s) == IF Answered(s) THEN [edition |-> s.edition, answer |-> s.answer] ELSE Nothing

Mapped == <<Settled, Directory, Lasting, Told, delegate>>

LEMMA MappingNow ==
    /\ Directory = DirectoryOf(tree)
    /\ Told = [p \in Publishers |-> ToldOf(publisher[p])]
BY DEF Directory, DirectoryOf, Told, ToldOf, Answered, At

LEMMA MappingNext ==
    /\ Directory' = DirectoryOf(tree')
    /\ Told' = [p \in Publishers |-> ToldOf(publisher'[p])]
BY DEF Directory, DirectoryOf, Told, ToldOf, Answered, At

\* A whole tree is seen as one, and not as that of another edition.
LEMMA SeenWhole ==
    ASSUME NEW t \in Tree, Whole(t), t # Nothing
    PROVE  /\ t.edition \in Editions
           /\ DirectoryOf(t) = Parts \X {t.edition}
           /\ DirectoryOf(t) # {}
           /\ \A e \in Editions : DirectoryOf(t) = Parts \X {e} => e = t.edition
<1>1. t.edition \in Editions /\ DirectoryOf(t) = Parts \X {t.edition}
  BY DEF Tree, Whole, DirectoryOf
<1>2. PICK f : f \in Parts
  BY RepositoryAssumption
<1>3. <<f, t.edition>> \in DirectoryOf(t)
  BY <1>1, <1>2
<1>4. ASSUME NEW e \in Editions, DirectoryOf(t) = Parts \X {e}
      PROVE  e = t.edition
  BY <1>3, <1>4
<1>5. QED
  BY <1>1, <1>3, <1>4

\* A step of publisher p changes at most what p was told.
LEMMA OneIsTold ==
    ASSUME TypeOK, NEW p \in Publishers, NEW s, publisher' = [publisher EXCEPT ![p] = s]
    PROVE  /\ Told' = [Told EXCEPT ![p] = ToldOf(s)]
           /\ ToldOf(s) = ToldOf(publisher[p]) => Told' = Told
<1>1. \A q \in Publishers : publisher'[q] = IF q = p THEN s ELSE publisher[q]
  BY DEF TypeOK
<1>2. Told = [q \in Publishers |-> ToldOf(publisher[q])]
      /\ Told' = [q \in Publishers |-> ToldOf(publisher'[q])]
  BY MappingNow, MappingNext
<1>3. \A q \in Publishers : ToldOf(publisher'[q]) = IF q = p THEN ToldOf(s) ELSE ToldOf(publisher[q])
  BY <1>1
<1>4. QED
  BY <1>2, <1>3

LEMMA OnceInitially == ServiceInit => Once!OnceInit
<1> SUFFICES ASSUME ServiceInit PROVE Once!OnceInit
  OBVIOUS
<1>1. \A p \in Publishers : ToldOf(publisher[p]) = Nothing
  BY DEF ServiceInit, Init, Idle, ToldOf, Answered
<1>2. Told = [p \in Publishers |-> Nothing]
  BY <1>1, MappingNow
<1>3. QED
  BY <1>2 DEF ServiceInit, Init, Once!OnceInit, Directory, Lasting, Settled

\* A caller returns with a true answer; the tree may be named on the way.
LEMMA TellStep ==
    ASSUME RepositoryInv, NEW p \in Publishers, NEW s \in Publisher,
           publisher' = [publisher EXCEPT ![p] = s], Answered(s), s.edition \in Editions,
           Fits(tree, s), s.answer = "published" => tree.named,
           UNCHANGED <<Settled, delegate>>,
           \/ UNCHANGED tree
           \/ tree # Nothing /\ tree' = [tree EXCEPT !.named = TRUE]
    PROVE  Once!Tell(p, s.edition)
<1>1. TypeOK /\ Whole(tree)
  BY InvByPublisher
<1>2. tree # Nothing /\ tree \in Tree
  BY <1>1 DEF Answered, Fits, TypeOK
<1>3. tree' # Nothing /\ tree' \in Tree /\ DirectoryOf(tree') = DirectoryOf(tree)
      /\ (tree'.named = tree.named \/ tree'.named = TRUE)
  <2>1. CASE UNCHANGED tree
    BY <1>2, <2>1
  <2>2. CASE tree' = [tree EXCEPT !.named = TRUE]
    BY <1>1, <1>2, <2>2, Naming DEF Stays, Tree, DirectoryOf
  <2>3. QED
    BY <2>1, <2>2
<1>4. Directory' = Directory /\ Lasting = tree.named /\ Lasting' = tree'.named
  BY <1>2, <1>3, MappingNow, MappingNext DEF Lasting, Tree
<1>5. Told' = [Told EXCEPT ![p] = [edition |-> s.edition, answer |-> s.answer]]
  BY <1>1, OneIsTold DEF ToldOf
<1>6. s.answer \in Once!Truth(s.edition)
  <2>1. s.answer \in {"published", "present", "refused"}
    BY DEF Answered
  <2>2. s.answer \in {"published", "present"} => Directory = Parts \X {s.edition}
    BY <1>1, <1>2, SeenWhole, MappingNow DEF Fits, Answered
  <2>3. s.answer = "refused" => Directory \notin {{}, Parts \X {s.edition}}
    BY <1>1, <1>2, SeenWhole, MappingNow DEF Fits, Answered
  <2>4. s.answer = "published" => Lasting
    BY <1>4
  <2>5. QED
    BY <2>1, <2>2, <2>3, <2>4 DEF Once!Truth, Once!Whole
<1>7. Lasting' \in {Lasting, TRUE}
  BY <1>3, <1>4
<1>8. QED
  BY <1>4, <1>5, <1>6, <1>7 DEF Once!Tell

\* Only a loss of power settles the root.
LEMMA NotSettled ==
    ASSUME NEW p \in Publishers, Step(p) \/ \E e \in Editions : Start(p, e)
    PROVE  Settled' = Settled
BY DEF Step, Claim, Recheck, Write, Sync, FinalCheck, Rename, Settle, Cleanup, Fail, Kill,
       Start, Settled

\* The root is synchronised and nobody is told anything.
LEMMA LastStep ==
    ASSUME RepositoryInv, UNCHANGED <<Settled, Told, delegate>>,
           tree # Nothing, tree' = [tree EXCEPT !.named = TRUE]
    PROVE  Once!Last
<1>1. Whole(tree) /\ tree \in Tree
  BY InvByPublisher DEF TypeOK
<1>2. tree' # Nothing /\ tree'.named = TRUE /\ DirectoryOf(tree') = DirectoryOf(tree)
  BY <1>1, Naming DEF Tree, DirectoryOf
<1>3. Directory' = Directory /\ Directory # {} /\ Lasting' = TRUE
  BY <1>1, <1>2, SeenWhole, MappingNow, MappingNext DEF Lasting
<1>4. QED
  BY <1>3 DEF Once!Last

LEMMA OnceStart ==
    ASSUME RepositoryInv, NEW p \in Publishers, NEW e \in Editions, Start(p, e), UNCHANGED delegate
    PROVE  Once!Tell(p, e) \/ UNCHANGED Mapped
<1>1. TypeOK /\ Whole(tree) /\ Fits(tree, publisher[p])
  BY InvByPublisher
<1>2. publisher[p].stage = "idle" /\ UNCHANGED <<tree, Settled>>
  BY NotSettled DEF Start, At
<1>3. CASE tree = Nothing
  <2> DEFINE s == [Idle EXCEPT !.stage = "claim", !.edition = e]
  <2>1. publisher' = [publisher EXCEPT ![p] = s] /\ s.stage = "claim"
    BY <1>3 DEF Start, Idle
  <2>2. ToldOf(s) = Nothing /\ ToldOf(publisher[p]) = Nothing
    BY <1>1, <1>2, <1>3, <2>1 DEF ToldOf, Answered, Fits
  <2> HIDE DEF s
  <2>3. Told' = Told
    BY <1>1, <2>1, <2>2, OneIsTold
  <2>4. QED
    BY <1>2, <2>3 DEF Mapped, Directory, Lasting
<1>4. CASE tree # Nothing
  <2> DEFINE s == [Idle EXCEPT !.edition = e, !.answer = Judgement(e)]
  <2>1. publisher' = [publisher EXCEPT ![p] = s]
    BY <1>4 DEF Start
  <2>2. s \in Publisher /\ s.edition = e /\ Answered(s) /\ s.answer # "published"
    BY DEF Publisher, Idle, Judgement, Answers, Answered
  <2>3. Fits(tree, s)
    BY <1>1, <1>4 DEF Fits, Idle, Judgement, SameRepository, Whole
  <2> HIDE DEF s
  <2>4. QED
    BY <1>2, <2>1, <2>2, <2>3, TellStep
<1>5. QED
  BY <1>3, <1>4

\* While a publisher is under way nobody learns anything from it.
LEMMA OnceStage ==
    ASSUME RepositoryInv, NEW p \in Publishers, UNCHANGED delegate,
           \/ Claim(p) \/ Recheck(p) \/ Write(p) \/ Sync(p) \/ FinalCheck(p) \/ Fail(p) \/ Kill(p)
           \/ Rename(p) \/ Settle(p)
    PROVE  Told' = Told
<1>1. TypeOK /\ publisher[p].stage # "idle"
  BY InvByPublisher DEF Claim, Recheck, Write, Sync, FinalCheck, Fail, Kill, Rename, Settle, At
<1>2. publisher[p] \in Publisher
  BY <1>1 DEF TypeOK
<1>3. PICK s : publisher' = [publisher EXCEPT ![p] = s] /\ ~Answered(s)
  <2>1. ASSUME NEW stage \in Stages, Goto(p, stage)
        PROVE  \E s : publisher' = [publisher EXCEPT ![p] = s] /\ ~Answered(s)
    <3> DEFINE s == [publisher[p] EXCEPT !.stage = stage]
    <3>1. publisher' = [publisher EXCEPT ![p] = s] /\ s.stage = stage
      BY <1>1, <1>2, <2>1 DEF Goto, TypeOK, Publisher
    <3>2. ~Answered(s)
      BY <3>1, <2>1 DEF Answered, Stages
    <3>3. QED
      BY <3>1, <3>2
  <2>2. ASSUME NEW answer, Finish(p, answer)
        PROVE  \E s : publisher' = [publisher EXCEPT ![p] = s] /\ ~Answered(s)
    <3> DEFINE s == [publisher[p] EXCEPT !.stage = "cleanup", !.answer = answer]
    <3>1. publisher' = [publisher EXCEPT ![p] = s] /\ s.stage = "cleanup"
      BY <1>1, <1>2, <2>2 DEF Finish, TypeOK, Publisher
    <3>2. ~Answered(s)
      BY <3>1 DEF Answered
    <3>3. QED
      BY <3>1, <3>2
  <2>3. CASE Sync(p)
    <3> DEFINE s == [publisher[p] EXCEPT !.stage = "check", !.safe = Parts]
    <3>1. publisher' = [publisher EXCEPT ![p] = s] /\ s.stage = "check"
      BY <1>1, <1>2, <2>3 DEF Sync, TypeOK, Publisher
    <3>2. ~Answered(s)
      BY <3>1 DEF Answered
    <3>3. QED
      BY <3>1, <3>2
  <2>4. CASE Kill(p)
    <3>1. ~Answered(Idle)
      BY DEF Answered, Idle
    <3>2. QED
      BY <2>4, <3>1 DEF Kill
  <2>5. CASE \/ Claim(p) \/ Recheck(p) \/ Write(p) \/ FinalCheck(p) \/ Fail(p)
             \/ Rename(p) \/ Settle(p)
    <3>1. (\E stage \in Stages : Goto(p, stage)) \/ (\E answer : Finish(p, answer))
      BY <2>5 DEF Claim, Recheck, Write, FinalCheck, Fail, Rename, Settle, Stages
    <3>2. QED
      BY <2>1, <2>2, <3>1
  <2>6. QED
    BY <2>3, <2>4, <2>5
<1>4. ToldOf(s) = Nothing /\ ToldOf(publisher[p]) = Nothing
  BY <1>1, <1>3 DEF ToldOf, Answered
<1>5. QED
  BY <1>1, <1>3, <1>4, OneIsTold

LEMMA OnceRename ==
    ASSUME RepositoryInv, NEW p \in Publishers, Rename(p), UNCHANGED delegate
    PROVE  (\E e \in Editions : Once!Put(e)) \/ UNCHANGED Mapped
<1>1. TypeOK /\ Fits(tree, publisher[p]) /\ publisher[p] \in Publisher
      /\ UNCHANGED <<Told, Settled>>
  BY InvByPublisher, OnceStage, NotSettled DEF TypeOK, Step
<1>2. publisher[p].stage = "rename"
  BY DEF Rename, At
<1>3. CASE tree = Nothing
  <2>1. publisher[p].edition \in Editions /\ publisher[p].safe = Parts
    BY <1>1, <1>2, Active DEF Fits
  <2>2. tree' = Staged(p) /\ Staged(p) \in Tree
    BY <1>3, <2>1 DEF Rename, Staged, Tree
  <2>3. tree' # Nothing /\ tree'.named = FALSE /\ tree'.parts = Parts
        /\ tree'.edition = publisher[p].edition
    BY <2>2, RepositoryAssumption DEF Staged, Tree
  <2>4. Directory = {} /\ Directory' = Parts \X {publisher[p].edition}
    BY <1>3, <2>3 DEF Directory
  <2>5. Lasting' = Lasting
    BY <1>3, <2>3 DEF Lasting
  <2>6. Once!Put(publisher[p].edition)
    BY <1>1, <2>4, <2>5 DEF Once!Put, Once!Whole
  <2>7. QED
    BY <2>1, <2>6
<1>4. CASE tree # Nothing
  BY <1>1, <1>4 DEF Rename, Mapped, Directory, Lasting
<1>5. QED
  BY <1>3, <1>4

LEMMA OnceCleanup ==
    ASSUME RepositoryInv, NEW p \in Publishers, Cleanup(p), UNCHANGED delegate
    PROVE  Once!Last \/ (\E e \in Editions : Once!Tell(p, e)) \/ UNCHANGED Mapped
<1> DEFINE s == [publisher[p] EXCEPT !.stage = "idle", !.safe = {}]
<1>1. TypeOK /\ Fits(tree, publisher[p]) /\ publisher[p] \in Publisher
      /\ publisher[p].stage = "cleanup"
  BY InvByPublisher DEF TypeOK, Cleanup, At
<1>2. publisher' = [publisher EXCEPT ![p] = s] /\ s \in Publisher
  BY <1>1, Active DEF Cleanup, TypeOK
<1>3. s.stage = "idle" /\ s.edition = publisher[p].edition /\ s.answer = publisher[p].answer
      /\ s.edition \in Editions
  BY <1>1, Active DEF Publisher
<1>4. /\ UNCHANGED tree \/ (tree # Nothing /\ tree' = [tree EXCEPT !.named = TRUE])
      /\ UNCHANGED Settled
  BY NotSettled DEF Cleanup, Step
<1> HIDE DEF s
<1>5. CASE Answered(s)
  <2>1. Fits(tree, s) /\ (s.answer = "published" => tree.named)
    BY <1>1, <1>3 DEF Fits
  <2>2. Once!Tell(p, s.edition)
    BY <1>2, <1>3, <1>4, <1>5, <2>1, TellStep
  <2>3. QED
    BY <1>3, <2>2
<1>6. CASE ~Answered(s)
  <2>1. ToldOf(s) = Nothing /\ ToldOf(publisher[p]) = Nothing
    BY <1>1, <1>6 DEF ToldOf, Answered
  <2>2. Told' = Told
    BY <1>1, <1>2, <2>1, OneIsTold
  <2>3. CASE UNCHANGED tree
    BY <1>4, <2>2, <2>3 DEF Mapped, Directory, Lasting
  <2>4. CASE tree # Nothing /\ tree' = [tree EXCEPT !.named = TRUE]
    BY <1>4, <2>2, <2>4, LastStep
  <2>5. QED
    BY <1>4, <2>3, <2>4
<1>7. QED
  BY <1>5, <1>6

\* The root itself is lost: it was not settled.
LEMMA OnceRootLost ==
    ASSUME RootLost
    PROVE  Once!LoseAll
BY DEF RootLost, Once!LoseAll, Settled, Directory, Lasting

\* The root is kept, if there is one.
LEMMA OnceRootKept ==
    ASSUME RepositoryInv, PowerLoss, RootKept
    PROVE  Once!LoseAll \/ Once!LoseLoose
<1>1. TypeOK /\ Whole(tree) /\ RootFirst
  BY InvByPublisher
<1>2. CASE root = "absent"
  <2>1. tree = Nothing /\ tree' = Nothing /\ root' = root
    BY <1>1, <1>2 DEF RootFirst, RootKept
  <2>2. QED
    BY <1>2, <2>1 DEF Once!LoseAll, Settled, Directory, Lasting
<1>3. CASE root # "absent" /\ tree' = Nothing
  <2>1. ~Lasting /\ ~Lasting' /\ Directory' = {}
    BY <1>1, <1>3, NamedKept DEF Lasting, Directory
  <2>2. Lasting' = Lasting
    BY <2>1 DEF Lasting
  <2>3. Settled' = TRUE
    BY <1>1, <1>3 DEF RootKept, Settled, TypeOK, Roots
  <2>4. QED
    BY <2>1, <2>2, <2>3 DEF Once!LoseLoose
<1>4. CASE root # "absent" /\ tree' # Nothing
  <2>1. /\ tree # Nothing /\ tree' \in Tree /\ Whole(tree') /\ tree'.named
        /\ tree'.edition = tree.edition
    BY <1>1, <1>4, Spared
  <2>2. tree \in Tree
    BY <1>1, <2>1 DEF TypeOK
  <2>3. Directory' = Directory /\ Directory # {}
    BY <1>1, <1>4, <2>1, <2>2, SeenWhole, MappingNow, MappingNext
  <2>4. Lasting' = TRUE /\ Settled' = TRUE
    BY <1>1, <1>4, <2>1 DEF Lasting, Tree, RootKept, Settled, TypeOK, Roots
  <2>5. QED
    BY <2>3, <2>4 DEF Once!LoseLoose
<1>5. QED
  BY <1>2, <1>3, <1>4

LEMMA OncePowerLoss ==
    ASSUME RepositoryInv, PowerLoss, Restarted
    PROVE  Once!Blackout
<1>1. \A p \in Publishers : ToldOf(publisher'[p]) = Nothing
  BY DEF PowerLoss, Idle, ToldOf, Answered
<1>2. Told' = [p \in Publishers |-> Nothing]
  BY <1>1, MappingNext
<1>3. Once!LoseAll \/ Once!LoseLoose
  BY OnceRootLost, OnceRootKept DEF PowerLoss
<1>4. QED
  BY <1>2, <1>3 DEF Restarted, Once!Blackout

LEMMA OnceServing ==
    ASSUME ServiceInv, NEW v \in Visitors, Serving(v)
    PROVE  (\E e \in Editions : Once!Serve(e)) \/ UNCHANGED Mapped
<1>1. UNCHANGED <<root, tree, publisher>>
  BY DEF Serving, Visit, TakeLock, LoadTree, Retain, Visits, vars
<1>2. UNCHANGED <<Settled, Directory, Lasting, Told>>
  BY <1>1 DEF Settled, Directory, Lasting, Told, At
<1>3. CASE Visit(v) \/ TakeLock(v) \/ LoadTree(v)
  BY <1>2, <1>3 DEF Visit, TakeLock, LoadTree, Mapped
<1>4. CASE Retain(v)
  <2>1. visitor[v].stage = "loaded" /\ delegate' = visitor[v].edition
    BY <1>4 DEF Retain
  <2>2. tree # Nothing /\ tree.edition = visitor[v].edition
    BY <2>1 DEF ServiceInv, LoadsAlone
  <2>3. Whole(tree) /\ tree \in Tree
    BY <2>2, InvByPublisher DEF ServiceInv, TypeOK
  <2>4. tree.edition \in Editions /\ Directory = Parts \X {tree.edition}
    BY <2>2, <2>3, SeenWhole, MappingNow
  <2>5. Once!Serve(tree.edition)
    BY <1>2, <2>1, <2>2, <2>4 DEF Once!Serve, Once!Whole
  <2>6. QED
    BY <2>4, <2>5
<1>5. QED
  BY <1>3, <1>4 DEF Serving

LEMMA OncePublisher ==
    ASSUME RepositoryInv, NEW p \in Publishers, UNCHANGED delegate,
           Step(p) \/ \E e \in Editions : Start(p, e)
    PROVE  Once!OnceNext \/ UNCHANGED Mapped
<1>1. ASSUME NEW e \in Editions, Start(p, e)
      PROVE  Once!OnceNext \/ UNCHANGED Mapped
  BY <1>1, OnceStart DEF Once!OnceNext
<1>2. CASE \/ Claim(p) \/ Recheck(p) \/ Write(p) \/ Sync(p) \/ FinalCheck(p) \/ Fail(p) \/ Kill(p)
  <2>1. Told' = Told /\ tree' = tree /\ Settled' = Settled
    BY <1>2, OnceStage, NotSettled DEF Step, Claim, Recheck, Write, Sync, FinalCheck, Fail, Kill
  <2>2. QED
    BY <2>1 DEF Mapped, Directory, Lasting
<1>3. CASE Rename(p)
  BY <1>3, OnceRename DEF Once!OnceNext
<1>4. CASE Settle(p)
  <2>1. UNCHANGED <<Told, Settled>> /\ tree' = [tree EXCEPT !.named = TRUE]
    BY <1>4, OnceStage, NotSettled DEF Settle, Step
  <2>2. tree # Nothing
    BY <1>4 DEF Settle, At, RepositoryInv, RenamedIsThere
  <2>3. Once!Last
    BY <2>1, <2>2, LastStep
  <2>4. QED
    BY <2>3 DEF Once!OnceNext
<1>5. CASE Cleanup(p)
  BY <1>5, OnceCleanup DEF Once!OnceNext
<1>6. QED
  BY <1>1, <1>2, <1>3, <1>4, <1>5 DEF Step

LEMMA OnceStep ==
    ASSUME ServiceInv, [ServiceNext]_<<vars, serviceVars>>
    PROVE  [Once!OnceNext]_(Once!onceVars)
<1> SUFFICES Once!OnceNext \/ UNCHANGED Mapped
  BY DEF Mapped, Once!onceVars
<1>1. RepositoryInv
  BY DEF ServiceInv
<1>2. ASSUME NEW p \in Publishers, Step(p) \/ \E e \in Editions : Start(p, e), UNCHANGED serviceVars
      PROVE  Once!OnceNext \/ UNCHANGED Mapped
  BY <1>1, <1>2, OncePublisher DEF serviceVars
<1>3. CASE PowerLoss /\ Restarted
  BY <1>1, <1>3, OncePowerLoss DEF Once!OnceNext
<1>4. CASE Restarted /\ UNCHANGED vars
  <2>1. Once!StopServing
    BY <1>4 DEF Restarted, vars, Once!StopServing, Settled, Directory, Lasting, Told, At
  <2>2. QED
    BY <2>1 DEF Once!OnceNext
<1>5. ASSUME NEW v \in Visitors, Serving(v)
      PROVE  Once!OnceNext \/ UNCHANGED Mapped
  BY <1>5, OnceServing DEF Once!OnceNext
<1>6. CASE UNCHANGED <<vars, serviceVars>>
  BY <1>6 DEF vars, serviceVars, Mapped, Settled, Directory, Lasting, Told, At
<1>7. QED
  BY <1>2, <1>3, <1>4, <1>5, <1>6 DEF ServiceNext

\* Publishers that fail, are killed or lose power anywhere, with the service
\* beside them, implement a destination that is written once.
THEOREM RepositoryRefinement == ServiceSpec => ImplementsWriteOnce
<1>1. ServiceInv /\ [ServiceNext]_<<vars, serviceVars>> => [Once!OnceNext]_(Once!onceVars)
  BY OnceStep
<1>2. QED
  BY <1>1, OnceInitially, ServiceInvariant, PTL DEF ServiceSpec, ImplementsWriteOnce, Once!OnceSpec
=============================================================================
