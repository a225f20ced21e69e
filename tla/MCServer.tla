------------------------------ MODULE MCServer ------------------------------
(* Instances of what the threads of the web process share, for TLC: the cache
   of signing keys, the two indexes of the rules menu, and the object of the
   authentication store.  A behaviour is one of one of them, the others rest
   in a fixed initial state. *)
EXTENDS SigningKeys, RuleIndexes, AuthStoreObject, TLC

VARIABLE part

Symmetry == Permutations(Callbacks) \cup Permutations(Keys)

ServerInit ==
    /\ part \in {"keys", "indexes", "store"}
    /\ KeysInit /\ IndexInit /\ StoreInit
    /\ part # "store" => dbFile = NoFile /\ \A i \in Inodes : tables[i] = "none"

ServerNext ==
    /\ UNCHANGED part
    /\ \/ part = "keys" /\ KeysNext /\ UNCHANGED <<indexVars, storeVars>>
       \/ part = "indexes" /\ IndexNext /\ UNCHANGED <<keyVars, storeVars>>
       \/ part = "store" /\ StoreNext /\ UNCHANGED <<keyVars, indexVars>>

ServerSpec == ServerInit /\ [][ServerNext]_<<part, keyVars, indexVars, storeVars>>
=============================================================================
