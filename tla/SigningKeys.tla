----------------------------- MODULE SigningKeys -----------------------------
(***************************************************************************)
(* Checking a token against the provider's signing keys, which the process *)
(* keeps for a while with the address they come from (auth/middleware.py   *)
(* verify_oidc_jwt).  The provider publishes and withdraws keys when it    *)
(* likes, each once.  A request that finds nothing fresh asks the          *)
(* provider; meanwhile others run, and may ask too.  Of a token only its   *)
(* key is kept: what else may be wrong with it is not the caches' doing.   *)
(***************************************************************************)
EXTENDS Integers

CONSTANTS
  Request,   \* sign-ins and refreshes in progress
  Key,       \* the provider's signing keys
  Ttl,       \* JWKS_CACHE_TTL_SECONDS
  MaxTime    \* bound: the clock

KeysAssumption == Ttl \in Nat \ {0} /\ MaxTime \in Nat

VARIABLES
  now,          \* monotonic()
  published,    \* the keys the provider has
  publishedAt,  \* [Key -> when it came to have it]
  metadata,     \* _oidc_metadata_cache: when it was stored, Never without
  jwks,         \* _jwks_cache: [at, keys]
  pc,           \* [Request -> "idle", "metadata", "keys", "answered", "refused"]
  token,        \* [Request -> the key its token is signed with]
  asked,        \* [Request -> the time it took before it asked]
  got           \* [Request -> the keys the provider answered]

provider == <<published, publishedAt>>
caches == <<metadata, jwks>>
vars == <<now, provider, caches, pc, token, asked, got>>

Never == 0 - Ttl
Unpublished == MaxTime + 1

Init ==
  /\ now = 0 /\ published \in SUBSET Key
  /\ publishedAt = [k \in Key |-> IF k \in published THEN 0 ELSE Unpublished]
  /\ metadata = Never /\ jwks = [at |-> Never, keys |-> {}]
  /\ pc = [r \in Request |-> "idle"] /\ token = [r \in Request |-> CHOOSE k \in Key : TRUE]
  /\ asked = [r \in Request |-> 0] /\ got = [r \in Request |-> {}]

Elapse ==
  /\ now < MaxTime
  /\ now' = now + 1
  /\ UNCHANGED <<provider, caches, pc, token, asked, got>>

Publish(k) ==
  /\ publishedAt[k] = Unpublished
  /\ published' = published \cup {k}
  /\ publishedAt' = [publishedAt EXCEPT ![k] = now]
  /\ UNCHANGED <<now, caches, pc, token, asked, got>>

Withdraw(k) ==
  /\ k \in published
  /\ published' = published \ {k}
  /\ UNCHANGED <<now, publishedAt, caches, pc, token, asked, got>>

-----------------------------------------------------------------------------
Fresh(at) == now - at < Ttl

\* _select_jwk: the token's key must be among them.
Verify(r, k, keys) == pc' = [pc EXCEPT ![r] = IF k \in keys THEN "idle" ELSE "refused"]

\* _get_jwks, once the address is known.
GetKeys(r, k) ==
  IF Fresh(jwks.at)
  THEN Verify(r, k, jwks.keys) /\ UNCHANGED asked
  ELSE pc' = [pc EXCEPT ![r] = "keys"] /\ asked' = [asked EXCEPT ![r] = now]

\* A token has just been signed by a key the provider has.
verify_oidc_jwt(r, k) ==
  /\ pc[r] \in {"idle", "refused"} /\ k \in published
  /\ token' = [token EXCEPT ![r] = k]
  /\ IF Fresh(metadata)
     THEN GetKeys(r, k)
     ELSE pc' = [pc EXCEPT ![r] = "metadata"] /\ asked' = [asked EXCEPT ![r] = now]
  /\ UNCHANGED <<now, provider, caches, got>>

\* The provider's configuration arrived.
StoreMetadata(r) ==
  /\ pc[r] = "metadata"
  /\ metadata' = asked[r]
  /\ GetKeys(r, token[r])
  /\ UNCHANGED <<now, provider, jwks, token, got>>

\* The provider answers with the keys it has; the answer is on its way.
Answer(r) ==
  /\ pc[r] = "keys"
  /\ got' = [got EXCEPT ![r] = published]
  /\ pc' = [pc EXCEPT ![r] = "answered"]
  /\ UNCHANGED <<now, provider, caches, token, asked>>

\* Mutant of Stamp: the time is taken when the answer arrives.
StampLate(r) == now

Stamp(r) == asked[r]

StoreKeys(r) ==
  /\ pc[r] = "answered"
  /\ jwks' = [at |-> Stamp(r), keys |-> got[r]]
  /\ Verify(r, token[r], got[r])
  /\ got' = [got EXCEPT ![r] = {}]
  /\ UNCHANGED <<now, provider, metadata, token, asked>>

\* The provider cannot be reached or answers with an error.
Fail(r) ==
  /\ pc[r] \in {"metadata", "keys"}
  /\ pc' = [pc EXCEPT ![r] = "idle"]
  /\ UNCHANGED <<now, provider, caches, token, asked, got>>

Next ==
  \/ Elapse
  \/ \E k \in Key : Publish(k) \/ Withdraw(k)
  \/ \E r \in Request :
       \/ \E k \in Key : verify_oidc_jwt(r, k)
       \/ StoreMetadata(r) \/ Answer(r) \/ StoreKeys(r) \/ Fail(r)

Spec == Init /\ [][Next]_vars

-----------------------------------------------------------------------------
\* A token is refused for an unknown key only while that key is younger than
\* the life of the cache, or withdrawn: however late an answer arrives and
\* whichever of two overwrites the other (auth/middleware.py:64-124).
RefusedInTime ==
  \A r \in Request :
    pc'[r] = "refused" /\ (pc[r] # "refused" \/ token'[r] # token[r]) =>
      now - publishedAt[token'[r]] < Ttl \/ token'[r] \notin published

KnownAfterTtl == [][RefusedInTime]_vars

=============================================================================
