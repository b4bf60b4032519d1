----------------------------- MODULE TokenCheck -----------------------------
(***************************************************************************)
(* The two token checks of one service process: requireAuth for users      *)
(* (services/shared/index.js) and requireM2mAuth for other services        *)
(* (m2m-auth.js).  Each has a client for Keycloak's keys that caches the   *)
(* keys it finds, limits its requests and lets callers that need the same  *)
(* key share one request; Keycloak publishes and withdraws keys meanwhile. *)
(***************************************************************************)
EXTENDS Integers

CONSTANTS
    Calls,      \* slots for concurrent requests
    Keys,       \* key ids
    Tokens,     \* tokens that callers may present, see TokenRecords
    NoToken,
    CacheAge,   \* how long the client keeps a key
    LoadTime,   \* bound on the time a request for keys takes
    MaxTime     \* bound on the clock

\* What a check looks at: the key it names, whether that key's signature is
\* right, when it expires, whether issuer, client (azp) and scope are the
\* expected ones, and its audience
TokenRecords == [kid : Keys, signed : BOOLEAN, expires : Nat, issuer : BOOLEAN,
                 client : BOOLEAN, scope : BOOLEAN, aud : {"api", "other", "none"}]

ASSUME TokenAssumption ==
    /\ Tokens \subseteq TokenRecords /\ NoToken \notin Tokens
    /\ CacheAge \in Nat \ {0} /\ LoadTime \in Nat /\ MaxTime \in Nat

VARIABLES
    now,
    published,   \* the keys Keycloak publishes
    withdrawn,   \* when each key that is not published was withdrawn
    cache,       \* when each client has cached a key, or Never
    load,        \* its request for a key
    since,       \* when that request was made
    at,          \* where each call is
    guard,       \* the check that it goes through
    bearer,      \* its token
    arrived      \* when it came in

keycloak  == <<now, published, withdrawn>>
clients   == <<cache, load, since>>
caller    == <<guard, bearer, arrived>>
tokenVars == <<keycloak, clients, at, caller>>

Guards == {"user", "m2m"}
Times  == 0 .. MaxTime
Never  == -1
Loads  == {"none", "asked", "found", "absent"}

\* "waiting" for a key; then jwt.verify has it, or an error instead
TokenPhases == {"idle", "waiting", "keyed", "keyless"}

TokenTypeOK ==
    /\ now \in Times
    /\ published \subseteq Keys
    /\ withdrawn \in [Keys -> Times]
    /\ cache \in [Guards -> [Keys -> Times \cup {Never}]]
    /\ load \in [Guards -> [Keys -> Loads]]
    /\ since \in [Guards -> [Keys -> Times]]
    /\ guard \in [Calls -> Guards]
    /\ bearer \in [Calls -> Tokens \cup {NoToken}]
    /\ arrived \in [Calls -> Times]

TokenInit ==
    /\ now = 0
    /\ published = Keys
    /\ withdrawn = [k \in Keys |-> 0]
    /\ cache = [g \in Guards |-> [k \in Keys |-> Never]]
    /\ load = [g \in Guards |-> [k \in Keys |-> "none"]]
    /\ since = [g \in Guards |-> [k \in Keys |-> 0]]
    /\ at = [c \in Calls |-> "idle"]
    /\ guard = [c \in Calls |-> "user"]
    /\ bearer = [c \in Calls |-> NoToken]
    /\ arrived = [c \in Calls |-> 0]

\* (bug: the cache keeps a key for ever)
HasEver(g, k) == cache[g][k] # Never

\* the client has the key and has not had it for too long
Has(g, k) == cache[g][k] # Never /\ now < cache[g][k] + CacheAge

-----------------------------------------------------------------------------
\* jwt.verify asks for the key of call c's token: it is cached, or on its
\* way, or it is requested now, unless that would be a request too many
Verify(c, g, t) ==
    LET k == t.kid IN
    /\ guard' = [guard EXCEPT ![c] = g]
    /\ bearer' = [bearer EXCEPT ![c] = t]
    /\ arrived' = [arrived EXCEPT ![c] = now]
    /\ \/ /\ Has(g, k)
          /\ at' = [at EXCEPT ![c] = "keyed"]
          /\ UNCHANGED <<load, since>>
       \/ /\ ~Has(g, k) /\ load[g][k] # "none"
          /\ at' = [at EXCEPT ![c] = "waiting"]
          /\ UNCHANGED <<load, since>>
       \/ /\ ~Has(g, k) /\ load[g][k] = "none"
          /\ at' = [at EXCEPT ![c] = "waiting"]
          /\ load' = [load EXCEPT ![g][k] = "asked"]
          /\ since' = [since EXCEPT ![g][k] = now]
       \/ /\ ~Has(g, k) /\ load[g][k] = "none"
          /\ at' = [at EXCEPT ![c] = "keyless"]
          /\ UNCHANGED <<load, since>>
    /\ UNCHANGED <<keycloak, cache>>

\* Keycloak answers with the keys that it publishes at that moment
Answer(g, k) ==
    /\ load[g][k] = "asked"
    /\ load' = [load EXCEPT ![g][k] = IF k \in published THEN "found" ELSE "absent"]
    /\ UNCHANGED <<keycloak, cache, since, at, caller>>

\* or it does not
AnswerLost(g, k) ==
    /\ load[g][k] \in {"asked", "found"}
    /\ load' = [load EXCEPT ![g][k] = "absent"]
    /\ UNCHANGED <<keycloak, cache, since, at, caller>>

\* (bug: the callers are forgotten when there is no key)
LoadedQuietly(g, k) ==
    /\ load[g][k] \in {"found", "absent"}
    /\ cache' = IF load[g][k] = "found" THEN [cache EXCEPT ![g][k] = now] ELSE cache
    /\ at' = [c \in Calls |->
                IF at[c] = "waiting" /\ guard[c] = g /\ bearer[c].kid = k
                   /\ load[g][k] = "found" THEN "keyed" ELSE at[c]]
    /\ load' = [load EXCEPT ![g][k] = "none"]
    /\ since' = [since EXCEPT ![g][k] = 0]
    /\ UNCHANGED <<keycloak, caller>>

\* (bug: the time of caching in another unit than the clock's)
LoadedInMillis(g, k) ==
    /\ load[g][k] = "found"
    /\ cache' = [cache EXCEPT ![g][k] = 1000 * now]
    /\ at' = [c \in Calls |-> IF at[c] = "waiting" /\ guard[c] = g /\ bearer[c].kid = k
                              THEN "keyed" ELSE at[c]]
    /\ load' = [load EXCEPT ![g][k] = "none"]
    /\ since' = [since EXCEPT ![g][k] = 0]
    /\ UNCHANGED <<keycloak, caller>>

\* The request ends: a key is cached, and all that waited for it go on
Loaded(g, k) ==
    /\ load[g][k] \in {"found", "absent"}
    /\ cache' = IF load[g][k] = "found" THEN [cache EXCEPT ![g][k] = now] ELSE cache
    /\ at' = [c \in Calls |->
                IF at[c] = "waiting" /\ guard[c] = g /\ bearer[c].kid = k
                THEN IF load[g][k] = "found" THEN "keyed" ELSE "keyless"
                ELSE at[c]]
    /\ load' = [load EXCEPT ![g][k] = "none"]
    /\ since' = [since EXCEPT ![g][k] = 0]
    /\ UNCHANGED <<keycloak, caller>>

\* the check is over
Forget(c) ==
    /\ guard' = [guard EXCEPT ![c] = "user"]
    /\ bearer' = [bearer EXCEPT ![c] = NoToken]
    /\ arrived' = [arrived EXCEPT ![c] = 0]

\* What jwt.verify finds.  The library reads the clock once, before or after
\* it has the key.
Genuine(c) == at[c] = "keyed" /\ bearer[c].signed
Clocks(c)  == arrived[c] .. now

\* (bug: expiry is left to the caller)
ReasonUndated(c, clock) ==
    CASE ~Genuine(c)                  -> "INVALID"
      [] ~bearer[c].issuer            -> "INVALID_ISSUER"
      [] bearer[c].aud = "other"      -> "INVALID_AUDIENCE"
      [] OTHER                        -> "none"

\* requireAuth: a token without an audience passes
Reason(c, clock) ==
    CASE ~Genuine(c)                  -> "INVALID"
      [] clock >= bearer[c].expires   -> "EXPIRED"
      [] ~bearer[c].issuer            -> "INVALID_ISSUER"
      [] bearer[c].aud = "other"      -> "INVALID_AUDIENCE"
      [] OTHER                        -> "none"

\* requireM2mAuth: the error that jwt.verify reports, then the claims
Failed(c, clock) == ~Genuine(c) \/ clock >= bearer[c].expires
M2mStatus(c, clock) ==
    CASE Failed(c, clock) \/ ~bearer[c].issuer                             -> 401
      [] ~(bearer[c].client /\ bearer[c].scope /\ bearer[c].aud = "api")   -> 403
      [] OTHER                                                             -> 200

\* Keycloak publishes a key, or withdraws it
Publish(k) ==
    /\ k \notin published
    /\ published' = published \cup {k}
    /\ withdrawn' = [withdrawn EXCEPT ![k] = 0]
    /\ UNCHANGED <<now, clients, at, caller>>

Withdraw(k) ==
    /\ k \in published
    /\ published' = published \ {k}
    /\ withdrawn' = [withdrawn EXCEPT ![k] = now]
    /\ UNCHANGED <<now, clients, at, caller>>

\* The timing assumption: requests for keys end within LoadTime, and the
\* event loop goes on with a call whose key is there
TokenTick ==
    /\ now < MaxTime
    /\ \A g \in Guards, k \in Keys : load[g][k] # "none" => now < since[g][k] + LoadTime
    /\ \A c \in Calls : at[c] \notin {"keyed", "keyless"}
    /\ now' = now + 1
    /\ UNCHANGED <<published, withdrawn, clients, at, caller>>
=============================================================================
