----------------------------- MODULE SigningKeys -----------------------------
(***************************************************************************)
(* The signing keys of the central identity service as ttrpg_auth.py uses  *)
(* them: fetch_jwks with its process-wide cache, and the end of            *)
(* exchange_identity, which verifies an identity token and fetches the     *)
(* keys once more, past the cache, when the first verification fails.      *)
(*                                                                         *)
(* The lock covers the look at the cache and the installation, not the     *)
(* request between them: a slow response may replace newer keys.           *)
(*                                                                         *)
(* The central service is outside this repository: it publishes any set of *)
(* keys, changes it at any time, and signs with a key it publishes.        *)
(***************************************************************************)
EXTENDS Integers

CONSTANTS
    Callbacks,     \* requests that hold an identity token
    Keys,          \* signing keys
    NoKey,         \* what a token is signed with that no key verifies
    NoKeys,        \* an empty cache
    KeysLifetime,  \* the 300 seconds, in ticks
    MaxKeysTime    \* bound on the clock

ASSUME KeysAssumption ==
    /\ NoKey \notin Keys
    /\ KeysLifetime \in Nat \ {0}
    /\ MaxKeysTime \in Nat
    /\ NoKeys \notin [expires : Nat, keys : SUBSET Keys]

VARIABLES
    keysTime,   \* time.monotonic()
    published,  \* the keys the central service serves
    withdrawn,  \* history: when each key was last taken out of them
    keyCache,   \* _JWK_CACHE[issuer]
    callback    \* what each request is doing

keyVars == <<keysTime, published, withdrawn, keyCache, callback>>

KeysTime == 0 .. MaxKeysTime

\* signer : the key of the token;  steady : history: published all along
\* force, stamp : argument and first clock reading of fetch_jwks
Callback ==
    [stage : {"idle"}]
      \cup [stage : {"stamp"}, signer : Keys \cup {NoKey}, steady : BOOLEAN, force : BOOLEAN]
      \cup [stage : {"look", "request"}, signer : Keys \cup {NoKey}, steady : BOOLEAN,
            force : BOOLEAN, stamp : KeysTime]
      \cup [stage : {"install", "verify"}, signer : Keys \cup {NoKey}, steady : BOOLEAN,
            force : BOOLEAN, stamp : KeysTime, keys : SUBSET Keys]

NoCallback == [stage |-> "idle"]

KeysInit ==
    /\ keysTime = 0
    /\ published = Keys
    /\ withdrawn = [k \in Keys |-> 0]
    /\ keyCache = NoKeys
    /\ callback = [c \in Callbacks |-> NoCallback]

KeysPassTime ==
    /\ keysTime < MaxKeysTime
    /\ keysTime' = keysTime + 1
    /\ UNCHANGED <<published, withdrawn, keyCache, callback>>

\* The central service changes its keys.
Rotate(keys) ==
    /\ keys # published
    /\ published' = keys
    /\ withdrawn' = [k \in Keys |-> IF k \in published \ keys THEN keysTime ELSE withdrawn[k]]
    /\ callback' = [c \in Callbacks |->
                       IF callback[c] # NoCallback /\ callback[c].signer \notin keys
                       THEN [callback[c] EXCEPT !.steady = FALSE] ELSE callback[c]]
    /\ UNCHANGED <<keysTime, keyCache>>

-----------------------------------------------------------------------------
CallbackStep(c, q) ==
    /\ callback' = [callback EXCEPT ![c] = q]
    /\ UNCHANGED <<keysTime, published, withdrawn>>

\* The answer of the token endpoint: a token signed with a published key, or
\* one whose signature or claims are not good.
ReceiveToken(c) ==
    /\ callback[c] = NoCallback
    /\ \E k \in published \cup {NoKey} :
          CallbackStep(c, [stage |-> "stamp", signer |-> k, steady |-> k # NoKey, force |-> FALSE])
    /\ UNCHANGED keyCache

\* fetch_jwks reads the clock,
StampKeys(c) ==
    /\ callback[c].stage = "stamp"
    /\ CallbackStep(c, [stage |-> "look", signer |-> callback[c].signer,
                        steady |-> callback[c].steady, force |-> callback[c].force,
                        stamp |-> keysTime])
    /\ UNCHANGED keyCache

\* Mutant of FreshCache: a forced call takes the cached keys as well.
FreshCacheForced(q) == keyCache # NoKeys /\ keyCache.expires > q.stamp

\* not force and cached is not None and cached[0] > timestamp
FreshCache(q) == ~q.force /\ keyCache # NoKeys /\ keyCache.expires > q.stamp

WithKeys(q, stage, keys) ==
    [stage |-> stage, signer |-> q.signer, steady |-> q.steady, force |-> q.force,
     stamp |-> q.stamp, keys |-> keys]

\* and looks at the cache.
LookUpKeys(c) ==
    /\ callback[c].stage = "look"
    /\ CallbackStep(c, IF FreshCache(callback[c])
                       THEN WithKeys(callback[c], "verify", keyCache.keys)
                       ELSE [callback[c] EXCEPT !.stage = "request"])
    /\ UNCHANGED keyCache

\* The central service answers with the keys it has.
ServeKeys(c) ==
    /\ callback[c].stage = "request"
    /\ CallbackStep(c, WithKeys(callback[c], "install", published))
    /\ UNCHANGED keyCache

\* Mutant of KeysExpiry: the lifetime counts from the response.
KeysExpiryLate(q) == keysTime + KeysLifetime

\* timestamp + 300
KeysExpiry(q) == q.stamp + KeysLifetime

\* The response is read, the cache replaced whatever is in it.
InstallKeys(c) ==
    /\ callback[c].stage = "install"
    /\ keyCache' = [expires |-> KeysExpiry(callback[c]), keys |-> callback[c].keys]
    /\ CallbackStep(c, [callback[c] EXCEPT !.stage = "verify"])

Verifies(c) == callback[c].stage = "verify" /\ callback[c].signer \in callback[c].keys

\* verify_identity_token accepts.
AcceptToken(c) ==
    /\ Verifies(c)
    /\ CallbackStep(c, NoCallback)
    /\ UNCHANGED keyCache

\* It does not: the keys are fetched again, or the first failure stands.
RejectToken(c) ==
    /\ callback[c].stage = "verify"
    /\ ~Verifies(c)
    /\ CallbackStep(c, IF callback[c].force THEN NoCallback
                       ELSE [stage |-> "stamp", signer |-> callback[c].signer,
                             steady |-> callback[c].steady, force |-> TRUE])
    /\ UNCHANGED keyCache

\* The central service cannot be reached, or what it sends is no key set.
KeysUnavailable(c) ==
    /\ callback[c].stage = "request"
    /\ CallbackStep(c, NoCallback)
    /\ UNCHANGED keyCache

KeysNext ==
    \/ KeysPassTime
    \/ \E keys \in SUBSET Keys : Rotate(keys)
    \/ \E c \in Callbacks :
          \/ ReceiveToken(c) \/ StampKeys(c) \/ LookUpKeys(c) \/ ServeKeys(c)
          \/ InstallKeys(c) \/ AcceptToken(c) \/ RejectToken(c) \/ KeysUnavailable(c)

KeysSpec == KeysInit /\ [][KeysNext]_keyVars

-----------------------------------------------------------------------------
(* Properties *)

\* A token whose key the central service publishes from the moment it is
\* issued is not refused for want of the key, although slow responses put old
\* keys over new ones: the forced request does not depend on the cache.
SteadyKeyKnown ==
    \A c \in Callbacks :
        /\ callback[c].stage = "verify"
        /\ callback[c].force
        /\ callback[c].steady
        => callback[c].signer \in callback[c].keys

\* A key counts for less than the cache lifetime after it is withdrawn, on
\* the clock the request read, however long the response was under way when
\* it was cached.
KeysAgeBound ==
    \A c \in Callbacks :
        Verifies(c) /\ callback[c].signer \notin published =>
            withdrawn[callback[c].signer] > callback[c].stamp - KeysLifetime

-----------------------------------------------------------------------------
(* The inductive invariant behind them *)

KeysTypeOK ==
    /\ keysTime \in KeysTime
    /\ published \in SUBSET Keys
    /\ withdrawn \in [Keys -> KeysTime]
    /\ keyCache \in [expires : Nat, keys : SUBSET Keys] \cup {NoKeys}
    /\ callback \in [Callbacks -> Callback]

\* The keys of a set served no earlier than t that are not published any more
ServedSince(t, keys) == \A k \in keys \ published : withdrawn[k] >= t

AgeOfKeys ==
    /\ \A k \in Keys : withdrawn[k] <= keysTime
    /\ keyCache # NoKeys =>
          /\ keyCache.expires <= keysTime + KeysLifetime
          /\ ServedSince(keyCache.expires - KeysLifetime, keyCache.keys)
    /\ \A c \in Callbacks :
          /\ callback[c].stage \in {"look", "request", "install", "verify"} =>
                callback[c].stamp <= keysTime
          /\ callback[c].stage = "install" => ServedSince(callback[c].stamp, callback[c].keys)
          /\ callback[c].stage = "verify" =>
                ServedSince(callback[c].stamp - KeysLifetime + 1, callback[c].keys)

SteadyKeys ==
    \A c \in Callbacks :
        /\ callback[c] # NoCallback /\ callback[c].steady => callback[c].signer \in published
        /\ callback[c].stage = "install" /\ callback[c].steady =>
              callback[c].signer \in callback[c].keys

KeysInv == KeysTypeOK /\ AgeOfKeys /\ SteadyKeys /\ SteadyKeyKnown
=============================================================================
