---------------------------- MODULE AtomicCache ----------------------------
(***************************************************************************)
(* What readers of the content cache are promised while files are replaced *)
(* and asset bodies are committed: a file changes by whole commits only,   *)
(* and a reader sees one state of one file from its first read to its      *)
(* last.                                                                   *)
(***************************************************************************)
EXTENDS Naturals

CONSTANTS Readers, Assets, Files

VARIABLES
    current,  \* the file at the cache path
    stored,   \* the assets whose bodies each file holds
    view      \* what each reader sees: no set of bodies, or one

atomicVars == <<current, stored, view>>

AtomicInit ==
    /\ current \in Files
    /\ stored \in [Files -> SUBSET Assets]
    /\ view = [r \in Readers |-> {}]

\* A new file takes the place of the old one.
Install(f) ==
    /\ current' = f
    /\ \E assets \in SUBSET Assets : stored' = [stored EXCEPT ![f] = assets]
    /\ UNCHANGED view

\* One asset body is committed into a file.
Commit(f, a) ==
    /\ stored' = [stored EXCEPT ![f] = @ \cup {a}]
    /\ UNCHANGED <<current, view>>

See(r, f) ==
    /\ view[r] = {}
    /\ view' = [view EXCEPT ![r] = {stored[f]}]
    /\ UNCHANGED <<current, stored>>

Leave(r) ==
    /\ view' = [view EXCEPT ![r] = {}]
    /\ UNCHANGED <<current, stored>>

AtomicNext ==
    \/ \E f \in Files :
          \/ f > current /\ Install(f)
          \/ \E a \in Assets : Commit(f, a)
          \/ \E r \in Readers : See(r, f)
    \/ \E r \in Readers : Leave(r)

AtomicSpec == AtomicInit /\ [][AtomicNext]_atomicVars
=============================================================================
