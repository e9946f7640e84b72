---------------------------- MODULE ClientCache ----------------------------
(***************************************************************************)
(* The LRU cache of API clients of quobyte_api_client_factory.go.          *)
(*                                                                         *)
(* User and password are sequences of characters, because the key of the   *)
(* cache is one appended to the other.  A client is the credentials it was *)
(* made with, the cache the sequence of its entries, the one used last at  *)
(* its end.  Get and Add are atomic, what lies between them is not.        *)
(***************************************************************************)
EXTENDS Naturals, Sequences, FiniteSets

CONSTANT CacheSize   \* how many clients it holds, 1000 in the code

ASSUME CacheAssumption == CacheSize \in Nat \ {0}

NoCredentials == [user |-> <<>>, pass |-> <<>>]

\* An access key pair goes before user and password; half a pair is none.
Credentials(secrets) ==
    IF {"accessKeyId", "accessKeySecret"} \subseteq DOMAIN secrets
    THEN [user |-> secrets["accessKeyId"], pass |-> secrets["accessKeySecret"]]
    ELSE IF {"user", "password"} \subseteq DOMAIN secrets
    THEN [user |-> secrets["user"], pass |-> secrets["password"]]
    ELSE NoCredentials

\* Mutant: a client is found by its user alone.
CacheKey_user(credentials) == credentials.user

CacheKey(credentials) == credentials.user \o credentials.pass

Entries(cache, key) == {i \in DOMAIN cache : cache[i].key = key}

Cached(cache, key) == Entries(cache, key) # {}

\* There is one entry for a key at most.
Position(cache, key) == CHOOSE i \in Entries(cache, key) : TRUE

ClientFor(cache, key) == cache[Position(cache, key)].client

Without(cache, key) ==
    LET i == Position(cache, key)
    IN  IF Cached(cache, key) THEN SubSeq(cache, 1, i - 1) \o SubSeq(cache, i + 1, Len(cache))
        ELSE cache

\* Get makes the entry the one used last.
Touched(cache, key) == Without(cache, key) \o <<[key |-> key, client |-> ClientFor(cache, key)]>>

\* Mutant: Add appends without looking whether the key came in since Get.
Added_blindly(cache, key, client) ==
    LET full == Len(cache) = CacheSize
    IN  (IF full THEN Tail(cache) ELSE cache) \o <<[key |-> key, client |-> client]>>

\* Add replaces the entry of its key, or the one that was not used for longest.
Added(cache, key, client) ==
    LET rest == Without(cache, key)
        full == Len(rest) = CacheSize
    IN  (IF full THEN Tail(rest) ELSE rest) \o <<[key |-> key, client |-> client]>>
=============================================================================
