-------------------------- MODULE SemanticService --------------------------
(***************************************************************************)
(* subdomains/ttrpg/semantic_service.py beside the publishers of module    *)
(* SemanticRepository: the web process loads the repository at its         *)
(* destination on the first request that finds it there, and serves what   *)
(* it loaded until it is restarted, while publishers come, fail and go.    *)
(*                                                                         *)
(* The delegate is looked at without the lock first and again with it; the *)
(* loading reads the tree file by file with the lock held.                 *)
(***************************************************************************)
EXTENDS SemanticRepository

CONSTANTS
    Visitors,  \* requests of the web process
    Unheld     \* nobody has the lock

ASSUME ServiceAssumption == Unheld \notin Visitors

VARIABLES
    delegate,     \* _delegate: the edition it serves
    serviceLock,  \* who has _lock
    visitor       \* what each request is doing

serviceVars == <<delegate, serviceLock, visitor>>

\* edition : of the files read so far
Visitor == [stage : {"idle", "waiting", "opening"}] \cup [stage : {"loaded"}, edition : Editions]

NotVisiting == [stage |-> "idle"]

ServiceInit ==
    /\ Init
    /\ delegate = Nothing
    /\ serviceLock = Unheld
    /\ visitor = [v \in Visitors |-> NotVisiting]

Visits(v, q) == visitor' = [visitor EXCEPT ![v] = q] /\ UNCHANGED vars

\* _application: the delegate if there is one, or the queue for the lock
Visit(v) ==
    /\ visitor[v].stage = "idle"
    /\ Visits(v, IF delegate # Nothing THEN NotVisiting ELSE [stage |-> "waiting"])
    /\ UNCHANGED <<delegate, serviceLock>>

\* With the lock the delegate is looked at again.
TakeLock(v) ==
    /\ visitor[v].stage = "waiting"
    /\ serviceLock = Unheld
    /\ IF delegate # Nothing
       THEN Visits(v, NotVisiting) /\ UNCHANGED serviceLock
       ELSE Visits(v, [stage |-> "opening"]) /\ serviceLock' = v
    /\ UNCHANGED delegate

\* load_semantic_repository: every file is there and authentic
Loadable == tree # Nothing /\ tree.parts = Parts

\* The tree is read and authenticated, or the request fails and the lock is
\* free again: the next request tries anew.
LoadTree(v) ==
    /\ visitor[v].stage = "opening"
    /\ IF Loadable
       THEN /\ Visits(v, [stage |-> "loaded", edition |-> tree.edition])
            /\ UNCHANGED serviceLock
       ELSE Visits(v, NotVisiting) /\ serviceLock' = Unheld
    /\ UNCHANGED delegate

\* self._delegate = delegate
Retain(v) ==
    /\ visitor[v].stage = "loaded"
    /\ delegate' = visitor[v].edition
    /\ serviceLock' = Unheld
    /\ Visits(v, NotVisiting)

\* The web process is restarted, or stops with the machine.
Restarted ==
    /\ delegate' = Nothing
    /\ serviceLock' = Unheld
    /\ visitor' = [v \in Visitors |-> NotVisiting]

Serving(v) == Visit(v) \/ TakeLock(v) \/ LoadTree(v) \/ Retain(v)

ServiceNext ==
    \/ \E p \in Publishers : Step(p) /\ UNCHANGED serviceVars
    \/ \E p \in Publishers, e \in Editions : Start(p, e) /\ UNCHANGED serviceVars
    \/ PowerLoss /\ Restarted
    \/ Restarted /\ UNCHANGED vars
    \/ \E v \in Visitors : Serving(v)

ServiceSpec == ServiceInit /\ [][ServiceNext]_<<vars, serviceVars>>

-----------------------------------------------------------------------------
(* Properties *)

\* What the process serves, and keeps serving until it is restarted, is the
\* complete tree at the destination, and no call that returned after the
\* loading found or published another edition there.
ServedAsPublished ==
    delegate # Nothing =>
        /\ tree # Nothing
        /\ tree.parts = Parts
        /\ tree.edition = delegate
        /\ promised \subseteq {delegate}

-----------------------------------------------------------------------------
(* The promise to publishers and readers *)

\* The files at the destination, each with the edition it is of
Directory == IF tree = Nothing THEN {} ELSE tree.parts \X {tree.edition}

Lasting == tree # Nothing /\ tree.named

\* The root was there before, or has survived a loss of power.
Settled == root = "lasting"

\* What a call of write_semantic_repository returned, or raised, about the tree
Told ==
    [p \in Publishers |->
        IF At(p, "idle") /\ publisher[p].answer \in {"published", "present", "refused"}
        THEN [edition |-> publisher[p].edition, answer |-> publisher[p].answer]
        ELSE Nothing]

Once == INSTANCE WriteOnce WITH settled <- Settled, contents <- Directory, lasting <- Lasting,
                                told <- Told, served <- delegate

\* Publishers and service implement a destination that is written once: it is
\* empty or holds one whole tree, callers are told the truth at the moment
\* they return, the service takes up only a whole tree, and failures and kills
\* take away nothing, losses of power nothing that was reported published
\* unless it is in a root that a publisher made and none of them has spared.
ImplementsWriteOnce == Once!OnceSpec

-----------------------------------------------------------------------------
(* The inductive invariant behind it *)

ServiceTypeOK ==
    /\ delegate \in Editions \cup {Nothing}
    /\ serviceLock \in Visitors \cup {Unheld}
    /\ visitor \in [Visitors -> Visitor]

\* One request loads at a time, and what it has read is still there.
LoadsAlone ==
    \A v \in Visitors :
        /\ visitor[v].stage \in {"opening", "loaded"} => serviceLock = v /\ delegate = Nothing
        /\ visitor[v].stage = "loaded" =>
              tree # Nothing /\ tree.edition = visitor[v].edition

ServiceInv == RepositoryInv /\ ServiceTypeOK /\ LoadsAlone /\ ServedAsPublished
=============================================================================
