----------------------------- MODULE WriteOnce -----------------------------
(***************************************************************************)
(* What publishers and readers of one semantic catalog are promised,       *)
(* without claim file, staging, renaming or synchronisation: the           *)
(* destination is written once and as a whole, a caller is told what is    *)
(* there when it is told, the service serves nothing else, and, in a place *)
(* that is settled, a blackout takes away only what nobody has been told   *)
(* was published.  A place that is not settled may lose everything in the  *)
(* next blackout, and is settled if it does not.                           *)
(***************************************************************************)
CONSTANTS Publishers, Editions, Parts, Nothing

VARIABLES
    settled,   \* the place of the destination survives a blackout
    contents,  \* the files at the destination, each with its edition
    lasting,   \* they survive a blackout
    told,      \* what each publisher was last told of its edition
    served     \* the edition the service serves

onceVars == <<settled, contents, lasting, told, served>>

Whole(e) == Parts \X {e}

OnceInit ==
    /\ settled \in BOOLEAN
    /\ contents = {}
    /\ lasting = FALSE
    /\ told = [p \in Publishers |-> Nothing]
    /\ served = Nothing

Put(e) ==
    /\ contents = {}
    /\ contents' = Whole(e)
    /\ UNCHANGED <<settled, lasting, told, served>>

\* What is there may become lasting at any time.
Last ==
    /\ contents # {}
    /\ lasting' = TRUE
    /\ UNCHANGED <<settled, contents, told, served>>

\* True answers to a publisher of edition e
Truth(e) ==
    {answer \in {"published", "present", "refused"} :
        /\ answer = "published" => contents = Whole(e) /\ lasting
        /\ answer = "present"   => contents = Whole(e)
        /\ answer = "refused"   => contents \notin {{}, Whole(e)}}

Tell(p, e) ==
    /\ \E answer \in Truth(e) :
          told' = [told EXCEPT ![p] = [edition |-> e, answer |-> answer]]
    /\ lasting' \in {lasting, TRUE}
    /\ UNCHANGED <<settled, contents, served>>

Serve(e) ==
    /\ contents = Whole(e)
    /\ served' = e
    /\ UNCHANGED <<settled, contents, lasting, told>>

StopServing ==
    /\ served' = Nothing
    /\ UNCHANGED <<settled, contents, lasting, told>>

\* Everything is gone with its place.
LoseAll == ~settled /\ UNCHANGED settled /\ contents' = {} /\ lasting' = FALSE

\* What is not lasting may be gone, what is left lasts.
LoseLoose ==
    /\ settled' = TRUE
    /\ \/ ~lasting /\ contents' = {} /\ UNCHANGED lasting
       \/ contents # {} /\ lasting' = TRUE /\ UNCHANGED contents

\* Everybody forgets.
Blackout ==
    /\ told' = [p \in Publishers |-> Nothing]
    /\ served' = Nothing
    /\ LoseAll \/ LoseLoose

OnceNext ==
    \/ \E e \in Editions : Put(e) \/ Serve(e) \/ \E p \in Publishers : Tell(p, e)
    \/ Last \/ StopServing \/ Blackout

OnceSpec == OnceInit /\ [][OnceNext]_onceVars
=============================================================================
