------------------------- MODULE SemanticRepository -------------------------
(***************************************************************************)
(* Publication of a semantic catalog                                       *)
(* (subdomains/ttrpg/semantic_repository.py, write_semantic_repository).   *)
(*                                                                         *)
(* Publishers of one catalog share the root directory and the destination, *)
(* which is named after the catalog's digest.  A publisher claims the      *)
(* digest with a file opened O_EXCL, builds a private staging directory,   *)
(* synchronises and verifies it, and renames it to the destination.  Any   *)
(* of them may fail or be killed at any step, and the machine may lose     *)
(* power, which undoes what has not been synchronised.  A publisher makes  *)
(* the root if there is none and never synchronises the root's parent: a   *)
(* new root may be lost with everything in it until a loss of power has    *)
(* spared it.                                                              *)
(*                                                                         *)
(* The digest fixes packages and asset bytes but not the media types of    *)
(* the assets, so publishers of one digest may bring different editions.   *)
(***************************************************************************)
CONSTANTS
    Publishers,  \* processes that run write_semantic_repository
    Editions,    \* trees that have the catalog's digest
    Parts,       \* files of a tree
    Nothing

ASSUME RepositoryAssumption ==
    /\ Parts # {}
    /\ Nothing \notin Publishers \cup Editions
    /\ Nothing \notin [edition : Editions, parts : SUBSET Parts, safe : SUBSET Parts,
                       named : BOOLEAN]

VARIABLES
    root,       \* "absent", "made" by a publisher, or "lasting"
    tree,       \* the directory at the destination
    claim,      \* the publisher whose claim file is in the root
    publisher,  \* what each publisher is doing, or was last answered
    promised    \* history: editions reported as published in this root

vars == <<root, tree, claim, publisher, promised>>

Roots == {"absent", "made", "lasting"}

-----------------------------------------------------------------------------
\* parts: files found in the tree; safe: those whose directory has been
\* synchronised; named: the root has been, since the rename.
Tree == [edition : Editions, parts : SUBSET Parts, safe : SUBSET Parts, named : BOOLEAN]

Stages == {"claim", "recheck", "write", "sync", "check", "rename", "settle", "cleanup"}

Answers == {"none", "published", "present", "refused", "active", "error"}

Publisher ==
    [stage : {"idle"}, edition : Editions \cup {Nothing}, safe : SUBSET Parts, answer : Answers]
      \cup [stage : Stages, edition : Editions, safe : SUBSET Parts, answer : Answers]

Idle == [stage |-> "idle", edition |-> Nothing, safe |-> {}, answer |-> "none"]

At(p, stage) == publisher[p].stage = stage

Goto(p, stage) == publisher' = [publisher EXCEPT ![p].stage = stage]

Finish(p, answer) ==
    publisher' = [publisher EXCEPT ![p].stage = "cleanup", ![p].answer = answer]

\* Mutant of SameRepository: the editions are not compared.
SameDigest(e) == tree.parts = Parts

\* load_semantic_repository and _same_repository: the tree at the destination
\* is complete and of this edition.
SameRepository(e) == tree.parts = Parts /\ tree.edition = e

\* What a publisher says of the tree it finds at the destination.
Judgement(e) == IF SameRepository(e) THEN "present" ELSE "refused"

-----------------------------------------------------------------------------
Init ==
    /\ root \in {"absent", "lasting"}
    /\ tree = Nothing
    /\ claim = Nothing
    /\ publisher = [p \in Publishers |-> Idle]
    /\ promised = {}

\* _prepare_root makes the root if need be; the first look at the destination
\* comes before any claim.
Start(p, e) ==
    /\ At(p, "idle")
    /\ root' = IF root = "absent" THEN "made" ELSE root
    /\ publisher' = [publisher EXCEPT ![p] =
          IF tree = Nothing
          THEN [Idle EXCEPT !.stage = "claim", !.edition = e]
          ELSE [Idle EXCEPT !.edition = e, !.answer = Judgement(e)]]
    /\ UNCHANGED <<tree, claim, promised>>

\* os.open(claim, O_CREAT | O_EXCL)
Claim(p) ==
    /\ At(p, "claim")
    /\ IF claim = Nothing
       THEN claim' = p /\ Goto(p, "recheck")
       ELSE Finish(p, "active") /\ UNCHANGED claim
    /\ UNCHANGED <<root, tree, promised>>

Recheck(p) ==
    /\ At(p, "recheck")
    /\ IF tree = Nothing
       THEN Goto(p, "write")
       ELSE Finish(p, Judgement(publisher[p].edition))
    /\ UNCHANGED <<root, tree, claim, promised>>

\* mkdtemp and the files; nobody else looks into the staging directory.
Write(p) ==
    /\ At(p, "write")
    /\ Goto(p, "sync")
    /\ UNCHANGED <<root, tree, claim, promised>>

\* Mutant of Sync: the directories are not synchronised.
SyncSkipped(p) ==
    /\ At(p, "sync")
    /\ Goto(p, "check")
    /\ UNCHANGED <<root, tree, claim, promised>>

\* _fsync_directory of every directory; the staged tree is read back.
Sync(p) ==
    /\ At(p, "sync")
    /\ publisher' = [publisher EXCEPT ![p].stage = "check", ![p].safe = Parts]
    /\ UNCHANGED <<root, tree, claim, promised>>

FinalCheck(p) ==
    /\ At(p, "check")
    /\ IF tree = Nothing THEN Goto(p, "rename") ELSE Finish(p, "error")
    /\ UNCHANGED <<root, tree, claim, promised>>

Staged(p) ==
    [edition |-> publisher[p].edition, parts |-> Parts, safe |-> publisher[p].safe,
     named |-> FALSE]

\* Mutant of Rename: a tree that is there is replaced.
RenameOver(p) ==
    /\ At(p, "rename")
    /\ tree' = Staged(p)
    /\ Goto(p, "settle")
    /\ UNCHANGED <<root, claim, promised>>

\* os.rename: a directory that is not empty is not replaced.
Rename(p) ==
    /\ At(p, "rename")
    /\ IF tree = Nothing
       THEN tree' = Staged(p) /\ Goto(p, "settle")
       ELSE Finish(p, "error") /\ UNCHANGED tree
    /\ UNCHANGED <<root, claim, promised>>

\* Mutant of Settle: the root is not synchronised.
SettleUnsynchronised(p) ==
    /\ At(p, "settle")
    /\ Finish(p, "published")
    /\ UNCHANGED <<root, tree, claim, promised>>

\* _fsync_directory(root)
Settle(p) ==
    /\ At(p, "settle")
    /\ tree' = [tree EXCEPT !.named = TRUE]
    /\ Finish(p, "published")
    /\ UNCHANGED <<root, claim, promised>>

\* The finally clause: a claim file that is there is removed, whoever made
\* it, and the root is synchronised; errors of either are swallowed, and the
\* call returns.
Cleanup(p) ==
    /\ At(p, "cleanup")
    /\ claim' \in {claim, Nothing}
    /\ \/ UNCHANGED tree
       \/ claim # claim' /\ tree # Nothing /\ tree' = [tree EXCEPT !.named = TRUE]
    /\ promised' = IF publisher[p].answer = "published"
                   THEN promised \cup {publisher[p].edition} ELSE promised
    /\ publisher' = [publisher EXCEPT ![p].stage = "idle", ![p].safe = {}]
    /\ UNCHANGED root

\* OSError or a failed verification
Fail(p) ==
    /\ publisher[p].stage \notin {"idle", "cleanup"}
    /\ Finish(p, "error")
    /\ UNCHANGED <<root, tree, claim, promised>>

\* The process is killed: claim and staging directory stay.
Kill(p) ==
    /\ ~At(p, "idle")
    /\ publisher' = [publisher EXCEPT ![p] = Idle]
    /\ UNCHANGED <<root, tree, claim, promised>>

\* The root was made and its own name is gone: nothing is left.
RootLost ==
    /\ root = "made" /\ root' = "absent"
    /\ tree' = Nothing /\ claim' = Nothing /\ promised' = {}

\* The root is there, and lasts; names in it that were not synchronised may be
\* gone, and those that are left last.
RootKept ==
    /\ root' = IF root = "made" THEN "lasting" ELSE root
    /\ claim' \in {claim, Nothing}
    /\ \/ tree = Nothing /\ tree' = Nothing
       \/ tree # Nothing /\ ~tree.named /\ tree' = Nothing
       \/ /\ tree # Nothing
          /\ \E kept \in SUBSET tree.parts :
                /\ tree.safe \subseteq kept
                /\ tree' = [tree EXCEPT !.parts = kept, !.safe = kept, !.named = TRUE]
    /\ UNCHANGED promised

PowerLoss ==
    /\ publisher' = [p \in Publishers |-> Idle]
    /\ RootLost \/ RootKept

Step(p) ==
    \/ Claim(p) \/ Recheck(p) \/ Write(p) \/ Sync(p) \/ FinalCheck(p)
    \/ Rename(p) \/ Settle(p) \/ Cleanup(p) \/ Fail(p) \/ Kill(p)

Next ==
    \/ \E p \in Publishers : Step(p) \/ \E e \in Editions : Start(p, e)
    \/ PowerLoss

Spec == Init /\ [][Next]_vars

-----------------------------------------------------------------------------
(* Properties *)

\* Every variable stays in its domain.
TypeOK ==
    /\ root \in Roots
    /\ tree \in Tree \cup {Nothing}
    /\ claim \in Publishers \cup {Nothing}
    /\ publisher \in [Publishers -> Publisher]
    /\ promised \subseteq Editions

\* The destination is absent or complete: no failure, kill or loss of power
\* in write_semantic_repository leaves a part of a tree there.
NeverPartial == tree # Nothing => tree.parts = Parts

\* A published tree is never replaced, although the claim does not keep two
\* publishers apart; only a loss of power takes it away, before the root is
\* synchronised, or in a root that a publisher made and no loss of power has
\* spared.
NeverReplaced ==
    [][tree # Nothing =>
          \/ tree' # Nothing /\ tree'.edition = tree.edition
          \/ PowerLoss /\ (~tree.named \/ root = "made")]_vars

\* Once a publisher has returned from publishing, its edition is there for as
\* long as the root is, whatever other publishers and the power supply do.
\* That is for good in a root that was there before; one made by a publisher
\* may itself be lost with the power (RootLost), and the promise with it.
PromiseKept ==
    \A e \in promised : tree # Nothing /\ tree.edition = e /\ tree.named

\* Every answer of a publisher that is still alive is true of the tree now:
\* a success is of the edition it brought, a refusal of another one.
AnswersTrue ==
    \A p \in Publishers :
        At(p, "idle") =>
            /\ publisher[p].answer \in {"published", "present"} =>
                  tree # Nothing /\ tree.edition = publisher[p].edition
            /\ publisher[p].answer = "refused" =>
                  tree # Nothing /\ tree.edition # publisher[p].edition

\* A publisher holds the claim until it is done: two of them never build
\* and rename trees of one catalog at the same time.
OnePublication ==
    \A p, q \in Publishers :
        {publisher[p].stage, publisher[q].stage} \subseteq
            {"recheck", "write", "sync", "check", "rename", "settle"} => p = q

-----------------------------------------------------------------------------
(* The inductive invariant behind them *)

\* A tree about to be renamed has been synchronised, and so has the one there.
StagedSafely ==
    /\ \A p \in Publishers :
          publisher[p].stage \in {"check", "rename"} => publisher[p].safe = Parts
    /\ tree # Nothing => tree.parts = Parts /\ tree.safe = Parts

\* A publisher past its rename sees its own tree at the destination.
RenamedIsThere ==
    \A p \in Publishers :
        /\ At(p, "settle") => tree # Nothing /\ tree.edition = publisher[p].edition
        /\ At(p, "cleanup") =>
              /\ publisher[p].answer # "none"
              /\ publisher[p].answer = "published" =>
                    tree # Nothing /\ tree.edition = publisher[p].edition /\ tree.named
              /\ publisher[p].answer = "present" =>
                    tree # Nothing /\ tree.edition = publisher[p].edition
              /\ publisher[p].answer = "refused" =>
                    tree # Nothing /\ tree.edition # publisher[p].edition

\* Nothing is done without a root.
RootFirst ==
    tree # Nothing \/ (\E p \in Publishers : ~At(p, "idle")) => root # "absent"

RepositoryInv ==
    TypeOK /\ RootFirst /\ StagedSafely /\ RenamedIsThere /\ PromiseKept /\ AnswersTrue
=============================================================================
