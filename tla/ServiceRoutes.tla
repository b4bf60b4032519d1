--------------------------- MODULE ServiceRoutes ---------------------------
(***************************************************************************)
(* The routes of user-service, billing-service (but its webhook) and       *)
(* auth-service: one process of one of these services, from the token      *)
(* check through the handler and its call to DNS, Vault, Keycloak or Redis *)
(* to the response, with its counters.  Which refresh tokens are used is   *)
(* RefreshProxy's state, and left open here.                               *)
(***************************************************************************)
EXTENDS TokenCheck, UrlRules, Metrics

CONSTANTS
    Urls,         \* URLs that users submit: [form : Forms, host : Seq(labels)]
    Answers,      \* what DNS may answer: non-empty sets of addresses
    Production,   \* isProductionEnv()
    VaultSet,     \* are VAULT_ADDR and VAULT_TOKEN set?
    MaxRequests   \* bound on the requests

ASSUME RoutesAssumption ==
    /\ \A u \in Urls : u.form \in Forms
    /\ \A A \in Answers : A \subseteq Addresses /\ A # {}
    /\ Production \in BOOLEAN /\ VaultSet \in BOOLEAN /\ MaxRequests \in Nat

VARIABLES
    service,    \* which of the services the process runs
    up,         \* is it running?
    requests,   \* requests so far
    route, url, \* of each call: its route, the URL in its body
    admitted,   \* the calls with req.user or req.m2m
    found,      \* of each call: the addresses DNS answered
    status,     \* of each call: the status of its response
    count,      \* the counters of this process
    failures    \* checks that failed in this process: of users, of
                \* services, of refresh tokens for a replay

body    == <<route, url>>
process == <<service, up>>
rest    == <<service, up, requests, body>>
vars    == <<tokenVars, rest, admitted, found, status, count, failures>>

Services == {"user", "billing", "auth"}
\* "crypt" is vault-encrypt and vault-decrypt, "state" billing's status
\* route, "redis" auth-service's, "mint" s2s-token, "sign" test-sign,
\* "refresh" /api/auth/refresh, which no token check guards
RoutesOf == [user    |-> {"health", "me", "fetch", "profile"},
             billing |-> {"health", "sign", "crypt", "state"},
             auth    |-> {"health", "redis", "mint", "refresh"}]
Routes     == UNION {RoutesOf[s] : s \in Services}
UserRoutes == {"me", "fetch"}
Open       == {"health", "refresh"}

Checks == Guards \cup {"refresh"}

NoUrl == [form |-> "missing", host |-> <<>>]

\* "calling" awaits DNS, Vault, Keycloak or Redis, and "exchanging" Keycloak
\* after Redis
Phases == TokenPhases \cup {"calling", "exchanging", "replied"}

TypeOK ==
    /\ TokenTypeOK
    /\ service \in Services /\ up \in BOOLEAN
    /\ requests \in 0 .. MaxRequests
    /\ at \in [Calls -> Phases]
    /\ route \in [Calls -> Routes]
    /\ url \in [Calls -> Urls \cup {NoUrl}]
    /\ admitted \subseteq Calls
    /\ found \in [Calls -> Answers \cup {{}}]
    /\ status \in [Calls -> {0, 200, 400, 401, 403, 404, 502, 503}]
    /\ count \in [Counters -> Nat]
    /\ failures \in [Checks -> Nat]

Init ==
    /\ TokenInit
    /\ service \in Services /\ up = TRUE
    /\ requests = 0
    /\ route = [c \in Calls |-> "health"]
    /\ url = [c \in Calls |-> NoUrl]
    /\ admitted = {}
    /\ found = [c \in Calls |-> {}]
    /\ status = [c \in Calls |-> 0]
    /\ count = NoCounts
    /\ failures = [g \in Checks |-> 0]

Reply(c, code) == at' = [at EXCEPT ![c] = "replied"] /\ status' = [status EXCEPT ![c] = code]
Call(c)        == at' = [at EXCEPT ![c] = "calling"] /\ UNCHANGED status

\* authFailure: the total, then the reason; the branch for an error of
\* jwt.verify does the same
AuthFailure(c, reason) ==
    /\ Reply(c, 401)
    /\ count' = IncMetric(IncMetric(count, "auth_failures"), reason)
    /\ failures' = [failures EXCEPT !["user"] = @ + 1]

\* a URL is refused
SsrfBlocked(c) == Reply(c, 403) /\ count' = IncMetric(count, "ssrf_blocked")

\* (bug: the lookup comes before the allowlist)
FetchUrlUnlisted(c) ==
    \/ url[c].form = "missing" /\ Reply(c, 400) /\ UNCHANGED count
    \/ url[c].form \in {"unparsable", "scheme"} /\ SsrfBlocked(c)
    \/ url[c].form = "web" /\ Call(c) /\ UNCHANGED count

\* POST /api/users/fetch-url up to its lookup
FetchUrl(c) ==
    \/ url[c].form = "missing" /\ Reply(c, 400) /\ UNCHANGED count
    \/ /\ url[c].form # "missing"
       /\ IF UrlReason(url[c]) # "none" THEN SsrfBlocked(c)
                                        ELSE Call(c) /\ UNCHANGED count

\* the handler of an admitted call, up to its first await, in each service
UserHandler(c) ==
    \/ route[c] \in {"me", "profile"} /\ Reply(c, 200) /\ UNCHANGED count
    \/ route[c] = "fetch" /\ FetchUrl(c)

BillingHandler(c) ==
    /\ \/ route[c] \in {"sign", "state"} /\ Reply(c, 200)
       \/ route[c] = "crypt" /\ (Reply(c, 400) \/ Call(c))
    /\ UNCHANGED count

AuthHandler(c) == route[c] \in {"redis", "mint"} /\ Call(c) /\ UNCHANGED count

Handle(c) == UserHandler(c) \/ BillingHandler(c) \/ AuthHandler(c)

-----------------------------------------------------------------------------
\* A request to a route that no token check guards, or to test-sign in
\* production, which is not found: a refresh needs a refresh token
Unchecked(c, r) ==
    \/ r \in Open /\ Call(c)
    \/ r = "refresh" /\ Reply(c, 401)
    \/ r = "sign" /\ Production /\ Reply(c, 404)

\* A request comes in; its token is missing or goes to jwt.verify
Arrive(c, r, t, u) ==
    /\ up /\ at[c] = "idle" /\ requests < MaxRequests
    /\ r \in RoutesOf[service]
    /\ u = NoUrl \/ r = "fetch"
    /\ t = NoToken \/ r \notin Open
    /\ requests' = requests + 1
    /\ route' = [route EXCEPT ![c] = r]
    /\ url' = [url EXCEPT ![c] = u]
    /\ \/ /\ Unchecked(c, r)
          /\ UNCHANGED <<clients, caller, keycloak, count, failures>>
       \/ /\ r \notin Open /\ ~(r = "sign" /\ Production)
          /\ t = NoToken
          /\ IF r \in UserRoutes THEN AuthFailure(c, "MISSING_TOKEN")
                                 ELSE Reply(c, 401) /\ UNCHANGED <<count, failures>>
          /\ UNCHANGED <<clients, caller, keycloak>>
       \/ /\ r \notin Open /\ ~(r = "sign" /\ Production)
          /\ t # NoToken
          /\ Verify(c, IF r \in UserRoutes THEN "user" ELSE "m2m", t)
          /\ UNCHANGED <<status, count, failures>>
    /\ UNCHANGED <<process, admitted, found>>

Admit(c) == admitted' = admitted \cup {c} /\ Handle(c) /\ UNCHANGED failures

\* the callback of jwt.verify in requireAuth, and the handler after it
DecideUser(c) ==
    /\ at[c] \in {"keyed", "keyless"} /\ guard[c] = "user"
    /\ \E clock \in Clocks(c) :
         IF Reason(c, clock) = "none"
         THEN Admit(c)
         ELSE AuthFailure(c, Reason(c, clock)) /\ UNCHANGED admitted
    /\ Forget(c)
    /\ UNCHANGED <<keycloak, clients, rest, found>>

\* and in requireM2mAuth, where only an error of jwt.verify is counted
DecideM2m(c) ==
    /\ at[c] \in {"keyed", "keyless"} /\ guard[c] = "m2m"
    /\ \E clock \in Clocks(c) :
         \/ M2mStatus(c, clock) = 200 /\ Admit(c)
         \/ /\ M2mStatus(c, clock) # 200
            /\ Reply(c, M2mStatus(c, clock))
            /\ IF Failed(c, clock)
               THEN /\ count' = IncMetric(count, "auth_failures")
                    /\ failures' = [failures EXCEPT !["m2m"] = @ + 1]
               ELSE UNCHANGED <<count, failures>>
            /\ UNCHANGED admitted
    /\ Forget(c)
    /\ UNCHANGED <<keycloak, clients, rest, found>>

\* (bug: one public address is enough)
ResolveSome(c) ==
    /\ at[c] = "calling" /\ route[c] = "fetch"
    /\ \E A \in Answers :
         /\ found' = [found EXCEPT ![c] = A]
         /\ IF \A a \in A : IsPrivateIp(a) THEN SsrfBlocked(c)
                                           ELSE Reply(c, 200) /\ UNCHANGED count
    /\ UNCHANGED <<keycloak, clients, caller, rest, admitted, failures>>

\* DNS answers: every address is looked at
Resolve(c) ==
    /\ at[c] = "calling" /\ route[c] = "fetch"
    /\ \E A \in Answers :
         /\ found' = [found EXCEPT ![c] = A]
         /\ IF \E a \in A : IsPrivateIp(a) THEN SsrfBlocked(c)
                                           ELSE Reply(c, 200) /\ UNCHANGED count
    /\ UNCHANGED <<keycloak, clients, caller, rest, admitted, failures>>

\* vaultTransitEncrypt and vaultTransitDecrypt return null without a Vault
Transit == IF VaultSet THEN 200 ELSE 503

\* Vault's transit engine, Keycloak's token endpoint or Redis answers: a
\* Vault that is not configured was never asked, Keycloak may refuse
Return(c) ==
    /\ at[c] = "calling"
    /\ \/ route[c] \in {"redis", "health"} /\ Reply(c, 200)
       \/ route[c] = "crypt" /\ Reply(c, Transit)
       \/ route[c] = "mint" /\ (Reply(c, 200) \/ Reply(c, 401))
    /\ UNCHANGED <<keycloak, clients, caller, rest, admitted, found, count, failures>>

\* the call fails, and the handler catches it
CallFails(c) ==
    /\ at[c] = "calling" /\ route[c] \in {"crypt", "mint", "health"}
    /\ Reply(c, 503)
    /\ UNCHANGED <<keycloak, clients, caller, rest, admitted, found, count, failures>>

\* markOnce answers: the refresh token was used before, or goes to Keycloak
Refresh(c) ==
    /\ at[c] = "calling" /\ route[c] = "refresh"
    /\ \/ /\ Reply(c, 401)
          /\ count' = IncMetric(IncMetric(count, "token_replay"), "auth_failures")
          /\ failures' = [failures EXCEPT !["refresh"] = @ + 1]
       \/ /\ at' = [at EXCEPT ![c] = "exchanging"]
          /\ UNCHANGED <<status, count, failures>>
    /\ UNCHANGED <<keycloak, clients, caller, rest, admitted, found>>

\* Keycloak gives new tokens, refuses, or cannot be asked
Exchanged(c) ==
    /\ at[c] = "exchanging" /\ route[c] = "refresh"
    /\ \E code \in {200, 401, 502} : Reply(c, code)
    /\ UNCHANGED <<keycloak, clients, caller, rest, admitted, found, count, failures>>

\* the response is written, or its caller has gone
Finish(c) ==
    /\ at[c] = "replied"
    /\ at' = [at EXCEPT ![c] = "idle"]
    /\ status' = [status EXCEPT ![c] = 0]
    /\ route' = [route EXCEPT ![c] = "health"]
    /\ url' = [url EXCEPT ![c] = NoUrl]
    /\ admitted' = admitted \ {c}
    /\ found' = [found EXCEPT ![c] = {}]
    /\ UNCHANGED <<keycloak, clients, caller, process, requests, count, failures>>

\* The process ends: with it go its calls, its keys and its counters
End ==
    /\ up' = FALSE
    /\ at' = [c \in Calls |-> "idle"]
    /\ status' = [c \in Calls |-> 0]
    /\ route' = [c \in Calls |-> "health"]
    /\ url' = [c \in Calls |-> NoUrl]
    /\ admitted' = {}
    /\ found' = [c \in Calls |-> {}]
    /\ guard' = [c \in Calls |-> "user"]
    /\ bearer' = [c \in Calls |-> NoToken]
    /\ arrived' = [c \in Calls |-> 0]
    /\ cache' = [g \in Guards |-> [k \in Keys |-> Never]]
    /\ load' = [g \in Guards |-> [k \in Keys |-> "none"]]
    /\ since' = [g \in Guards |-> [k \in Keys |-> 0]]
    /\ count' = NoCounts
    /\ failures' = [g \in Checks |-> 0]
    /\ UNCHANGED <<keycloak, service, requests>>

\* dns.lookup rejects where nothing catches it
LookupEnds(c) == at[c] = "calling" /\ route[c] = "fetch" /\ End

\* so does redisPing
PingEnds(c) == at[c] = "calling" /\ route[c] = "redis" /\ End

\* and markOnce, or refreshTokenKey throws for a token that is not a string
RefreshEnds(c) == at[c] = "calling" /\ route[c] = "refresh" /\ End

CallEnds(c) == LookupEnds(c) \/ PingEnds(c) \/ RefreshEnds(c)

Restart == ~up /\ up' = TRUE
           /\ UNCHANGED <<tokenVars, service, requests, body, admitted, found,
                          status, count, failures>>

Keycloak ==
    /\ \/ \E k \in Keys : Publish(k) \/ Withdraw(k)
       \/ \E g \in Guards, k \in Keys : Answer(g, k) \/ AnswerLost(g, k) \/ Loaded(g, k)
       \/ TokenTick
    /\ UNCHANGED <<rest, admitted, found, status, count, failures>>

Next ==
    \/ \E c \in Calls, r \in Routes, t \in Tokens \cup {NoToken}, u \in Urls \cup {NoUrl} :
         Arrive(c, r, t, u)
    \/ \E c \in Calls : \/ DecideUser(c) \/ DecideM2m(c) \/ Resolve(c) \/ Return(c)
                        \/ CallFails(c) \/ Refresh(c) \/ Exchanged(c)
                        \/ CallEnds(c) \/ Finish(c)
    \/ Restart
    \/ Keycloak

Spec == Init /\ [][Next]_vars

-----------------------------------------------------------------------------
(***************************************************************************)
(* Properties                                                              *)
(***************************************************************************)
\* Although keys are cached, requests for them shared and answers late, a
\* request is admitted only with a key that Keycloak still published no
\* longer ago than a key is kept and a request for it takes, and with a token
\* that expired no longer ago than that request (index.js:75-87, 116-149,
\* m2m-auth.js:11-24, 53-79).
Current(c) ==
    LET t == bearer[c] IN
    /\ t.signed /\ t.issuer
    /\ now < t.expires + LoadTime
    /\ t.kid \in published \/ now < withdrawn[t.kid] + CacheAge + LoadTime
AdmissionIsCurrent == [][\A c \in admitted' \ admitted : Current(c)]_vars

\* A URL is cleared only if its host is on the allowlist and every address
\* that DNS answered lies outside the ranges to be denied, however they are
\* written (user-service/server.js:25-59).
ClearedIsAllowed ==
    \A c \in Calls : at[c] = "replied" /\ route[c] = "fetch" /\ status[c] = 200 =>
        /\ \E a \in Allowlist : EndsWith(url[c].host, a)
        /\ found[c] # {} /\ \A a \in found[c] : ~Denied(a)

\* No failure is missed by the counters: those of the reasons add up to the
\* checks of users that failed, that of replays to the refresh tokens that
\* were refused, and the total that the alert and the dashboards use is at
\* least the failures of all three kinds (index.js:88-89, 119-120,
\* metrics.js:61-90, auth-service/server.js:89-90).
CountersAgree ==
    /\ Sum(count) = failures["user"]
    /\ count["token_replay"] = failures["refresh"]
    /\ count["auth_failures"] >= failures["user"] + failures["m2m"] + failures["refresh"]

\* The total counts authentication failures (metrics.js:9,
\* docs/huongdandemo.md:568).  It counts each failure of a user twice: the
\* callers of incMetric name the total and the reason, and incMetric takes
\* the total along for a reason (index.js:88-89, 119-120, metrics.js:70-71).
TotalCountsFailures ==
    count["auth_failures"] = failures["user"] + failures["m2m"] + failures["refresh"]

\* What ends a process: a lookup of an allowed host or a ping, of a caller
\* that was admitted (user-service/server.js:51-54, 85,
\* auth-service/server.js:45-48), or a refresh, which anyone may ask for
\* (auth-service/server.js:79-87).  No URL outside the allowlist does, and no
\* caller of user-service or billing-service without a token.
MayEnd ==
    \/ \E c \in admitted : route[c] = "redis" \/ (route[c] = "fetch" /\ Listed(url[c].host))
    \/ service = "auth" /\ \E c \in Calls : at[c] = "calling" /\ route[c] = "refresh"
EndsHaveCause == [][up /\ ~up' => MayEnd]_vars

\* No request is left behind by the key client: one that waits for a key has
\* a request to Keycloak to wait for, whichever call made it and however it
\* ends (index.js:80-85, m2m-auth.js:19-24).
NobodyLeftBehind ==
    \A c \in Calls : at[c] = "waiting" => load[guard[c]][bearer[c].kid] # "none"
=============================================================================
