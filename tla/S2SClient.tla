----------------------------- MODULE S2SClient -----------------------------
(***************************************************************************)
(* services/shared/s2s-client.js in one process: s2sFetch calls another    *)
(* service with a client-credentials token that all calls share through    *)
(* the module variable `cached', and on a 401 forgets the token, asks      *)
(* Keycloak for a new one and tries once more.  Calls interleave at every  *)
(* await.  The called service verifies tokens itself (m2m-auth.js), with   *)
(* the keys Keycloak publishes.                                            *)
(***************************************************************************)
EXTENDS Integers

CONSTANTS
    Calls,         \* slots for concurrent s2sFetch calls
    Lifetime,      \* expires_in of a token
    Margin,        \* the 30 s for which a cached token must still be good
    MaxTime,       \* bound on the clock
    MaxRotations   \* bound on the rotations of Keycloak's signing key

ASSUME S2SAssumption ==
    /\ Lifetime \in Nat /\ Margin \in Nat /\ Margin < Lifetime
    /\ MaxTime \in Nat /\ MaxRotations \in Nat

VARIABLES
    now,       \* the time, in seconds
    epoch,     \* number of the signing key in use
    cached,    \* the module variable
    at,        \* where each call is
    attempt,   \* 1, or 2 once the call retries
    started,   \* `now' in the call's last getM2mToken()
    token,     \* the token the call sends
    doubted    \* epoch when the call acted on its 401, -1 before

vars == <<now, epoch, cached, at, attempt, started, token, doubted>>

Tokens  == [exp : 0 .. (MaxTime + Lifetime), epoch : 0 .. MaxRotations]
NoToken == [exp |-> 0, epoch |-> 0]
Nothing == [token |-> NoToken, expiresAt |-> 0]

(***************************************************************************)
(* "fetching": the token request is on its way; "issued": Keycloak's       *)
(* response is; "sending": the request proper is; "answered": a status     *)
(* other than 401 is.  A 401 is "unauthorized" if the token was no longer  *)
(* good, and "unverified" if the service could not get a key for it; the   *)
(* caller cannot tell the two apart.                                       *)
(***************************************************************************)
Phases == {"idle", "fetching", "issued", "sending", "unauthorized", "unverified",
           "answered"}

TypeOK ==
    /\ now \in 0 .. MaxTime
    /\ epoch \in 0 .. MaxRotations
    /\ cached \in [token : Tokens, expiresAt : 0 .. (MaxTime + Lifetime)]
    /\ at \in [Calls -> Phases]
    /\ attempt \in [Calls -> {1, 2}]
    /\ started \in [Calls -> 0 .. MaxTime]
    /\ token \in [Calls -> Tokens]
    /\ doubted \in [Calls -> -1 .. MaxRotations]

Init ==
    /\ now = 0
    /\ epoch = 0
    /\ cached = Nothing
    /\ at = [c \in Calls |-> "idle"]
    /\ attempt = [c \in Calls |-> 1]
    /\ started = [c \in Calls |-> 0]
    /\ token = [c \in Calls |-> NoToken]
    /\ doubted = [c \in Calls |-> -1]

\* (bug: no margin)
ReusableToTheEnd(t) == cached.token # NoToken /\ cached.expiresAt > t

\* the cached token is good for more than the margin
Reusable(t) == cached.token # NoToken /\ cached.expiresAt > t + Margin

\* the call is over, and its slot free
Over(c) ==
    /\ at' = [at EXCEPT ![c] = "idle"]
    /\ attempt' = [attempt EXCEPT ![c] = 1]
    /\ started' = [started EXCEPT ![c] = 0]
    /\ token' = [token EXCEPT ![c] = NoToken]
    /\ doubted' = [doubted EXCEPT ![c] = -1]

-----------------------------------------------------------------------------
\* s2sFetch is called and getM2mToken finds its token in the cache
StartCached(c) ==
    /\ at[c] = "idle"
    /\ Reusable(now)
    /\ at' = [at EXCEPT ![c] = "sending"]
    /\ started' = [started EXCEPT ![c] = now]
    /\ token' = [token EXCEPT ![c] = cached.token]
    /\ UNCHANGED <<now, epoch, cached, attempt, doubted>>

\* s2sFetch is called and getM2mToken asks Keycloak, whoever else is asking
StartFetching(c) ==
    /\ at[c] = "idle"
    /\ ~Reusable(now)
    /\ at' = [at EXCEPT ![c] = "fetching"]
    /\ started' = [started EXCEPT ![c] = now]
    /\ UNCHANGED <<now, epoch, cached, attempt, token, doubted>>

\* Keycloak issues a token
Issue(c) ==
    /\ at[c] = "fetching"
    /\ at' = [at EXCEPT ![c] = "issued"]
    /\ token' = [token EXCEPT ![c] = [exp |-> now + Lifetime, epoch |-> epoch]]
    /\ UNCHANGED <<now, epoch, cached, attempt, started, doubted>>

\* (bug: expires_in is scaled to milliseconds twice)
TokenArrivesInMillis(c) ==
    /\ at[c] = "issued"
    /\ at' = [at EXCEPT ![c] = "sending"]
    /\ cached' = [token |-> token[c], expiresAt |-> started[c] + 1000 * Lifetime]
    /\ UNCHANGED <<now, epoch, attempt, started, token, doubted>>

\* (bug: the clock is read again when the response arrives)
TokenDated(c) ==
    /\ at[c] = "issued"
    /\ at' = [at EXCEPT ![c] = "sending"]
    /\ cached' = [token |-> token[c], expiresAt |-> now + Lifetime]
    /\ UNCHANGED <<now, epoch, attempt, started, token, doubted>>

\* its response arrives: the cache is overwritten, the request is sent
TokenArrives(c) ==
    /\ at[c] = "issued"
    /\ at' = [at EXCEPT ![c] = "sending"]
    /\ cached' = [token |-> token[c], expiresAt |-> started[c] + Lifetime]
    /\ UNCHANGED <<now, epoch, attempt, started, token, doubted>>

Unauthorized(c) == at[c] \in {"unauthorized", "unverified"}

\* the called service refuses a token that has expired, or whose key is no
\* longer published
Refuse(c) ==
    /\ at[c] = "sending"
    /\ now >= token[c].exp \/ token[c].epoch # epoch
    /\ at' = [at EXCEPT ![c] = "unauthorized"]
    /\ UNCHANGED <<now, epoch, cached, attempt, started, token, doubted>>

\* it cannot get a key to verify the token with, which is a 401 as well
RefuseUnverified(c) ==
    /\ at[c] = "sending"
    /\ at' = [at EXCEPT ![c] = "unverified"]
    /\ UNCHANGED <<now, epoch, cached, attempt, started, token, doubted>>

\* it answers anything but 401; a replaced key may still be in its cache
Accept(c) ==
    /\ at[c] = "sending"
    /\ now < token[c].exp
    /\ at' = [at EXCEPT ![c] = "answered"]
    /\ UNCHANGED <<now, epoch, cached, attempt, started, token, doubted>>

\* (bug: the retry does not forget the cached token)
RetryWithCache(c) ==
    /\ Unauthorized(c) /\ attempt[c] = 1
    /\ attempt' = [attempt EXCEPT ![c] = 2]
    /\ started' = [started EXCEPT ![c] = now]
    /\ doubted' = [doubted EXCEPT ![c] = epoch]
    /\ \/ Reusable(now) /\ at' = [at EXCEPT ![c] = "sending"]
                        /\ token' = [token EXCEPT ![c] = cached.token]
       \/ ~Reusable(now) /\ at' = [at EXCEPT ![c] = "fetching"]
                         /\ UNCHANGED token
    /\ UNCHANGED <<now, epoch, cached>>

\* (bug: every 401 is retried)
RetryForever(c) ==
    /\ Unauthorized(c)
    /\ cached' = Nothing
    /\ at' = [at EXCEPT ![c] = "fetching"]
    /\ started' = [started EXCEPT ![c] = now]
    /\ doubted' = [doubted EXCEPT ![c] = epoch]
    /\ UNCHANGED <<now, epoch, attempt, token>>

\* the first 401: forget the token (whoever put it there), ask for another
Retry(c) ==
    /\ Unauthorized(c) /\ attempt[c] = 1
    /\ cached' = Nothing
    /\ at' = [at EXCEPT ![c] = "fetching"]
    /\ attempt' = [attempt EXCEPT ![c] = 2]
    /\ started' = [started EXCEPT ![c] = now]
    /\ doubted' = [doubted EXCEPT ![c] = epoch]
    /\ UNCHANGED <<now, epoch, token>>

\* the response, or the second 401, is returned to the caller
Return(c) ==
    /\ at[c] = "answered" \/ (Unauthorized(c) /\ attempt[c] = 2)
    /\ Over(c)
    /\ UNCHANGED <<now, epoch, cached>>

\* a fetch rejects, or Keycloak refuses the client: s2sFetch throws
Throw(c) ==
    /\ at[c] # "idle"
    /\ Over(c)
    /\ UNCHANGED <<now, epoch, cached>>

\* Keycloak's signing key is replaced
Rotate ==
    /\ epoch < MaxRotations
    /\ epoch' = epoch + 1
    /\ UNCHANGED <<now, cached, at, attempt, started, token, doubted>>

Tick ==
    /\ now < MaxTime
    /\ now' = now + 1
    /\ UNCHANGED <<epoch, cached, at, attempt, started, token, doubted>>

\* the process ends and is started again
Restart ==
    /\ cached' = Nothing
    /\ at' = [c \in Calls |-> "idle"]
    /\ attempt' = [c \in Calls |-> 1]
    /\ started' = [c \in Calls |-> 0]
    /\ token' = [c \in Calls |-> NoToken]
    /\ doubted' = [c \in Calls |-> -1]
    /\ UNCHANGED <<now, epoch>>

Next ==
    \/ \E c \in Calls : \/ StartCached(c) \/ StartFetching(c)
                        \/ Issue(c) \/ TokenArrives(c)
                        \/ Refuse(c) \/ RefuseUnverified(c) \/ Accept(c)
                        \/ Retry(c) \/ Return(c) \/ Throw(c)
    \/ Rotate
    \/ Tick
    \/ Restart

Spec == Init /\ [][Next]_vars

\* fetch resolves or rejects, and the event loop goes on with the call; no
\* one else's fairness is needed
Fairness ==
    \A c \in Calls :
        /\ WF_vars(\/ Issue(c) \/ Refuse(c) \/ RefuseUnverified(c) \/ Accept(c)
                   \/ Throw(c) /\ at[c] \in {"fetching", "sending"})
        /\ WF_vars(TokenArrives(c) \/ Retry(c) \/ Return(c))

FairSpec == Spec /\ Fairness

-----------------------------------------------------------------------------
(***************************************************************************)
(* Properties                                                              *)
(***************************************************************************)
\* Unless the key was rotated, a token is only refused as no longer good when
\* more than the margin has passed since the call chose it, whoever fetched it
\* and however long Keycloak's response took (s2s-client.js:6-9, 31-34).
MarginHolds ==
    \A c \in Calls :
        at[c] = "unauthorized" /\ token[c].epoch = epoch =>
            now > started[c] + Margin

\* A caller sees a 401 for a token that is no longer good only if the key was
\* rotated again after the call's first 401, or its retry took a token's whole
\* lifetime: tokens that slower calls put back into the cache do not matter
\* (s2s-client.js:48-53).
RetrySettles ==
    \A c \in Calls :
        at[c] = "unauthorized" /\ attempt[c] = 2 =>
            epoch > doubted[c] \/ now >= started[c] + Lifetime

(***************************************************************************)
(* Each call on its own: the cache and the token on its way are left out.  *)
(***************************************************************************)
Asking(c) == at[c] \in {"fetching", "issued"}
Step(c)   == CASE Asking(c)         -> "asking"
               [] at[c] = "sending" -> "sent"
               [] OTHER             -> at[c]
Sent(c)   == IF at[c] = "idle" \/ Asking(c) THEN NoToken ELSE token[c]

SF == INSTANCE SoloFetch WITH
        step  <- [c \in Calls |-> Step(c)],
        since <- started,
        token <- [c \in Calls |-> Sent(c)]

\* Calls do not notice that they share a cache: whatever token another call
\* forgets, fetches late or puts back, each sends one good for more than the
\* margin, and retries with one issued since its own 401 (s2s-client.js:5-55).
CallsDoNotInterfere == SF!Spec

\* Every call returns or throws, after at most one retry.
EveryFetchEnds == \A c \in Calls : at[c] # "idle" ~> at[c] = "idle"
=============================================================================
