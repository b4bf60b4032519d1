---------------------------- MODULE OrderService ----------------------------
(***************************************************************************)
(* order-service/server.js in one process: what each route does between    *)
(* the token check of requireAuth, the tenant quota, the database and the  *)
(* response, and how the process starts and ends.  The quota is abstracted *)
(* to its three outcomes (module TenantRateLimit models it), the database  *)
(* to one that answers or fails.                                           *)
(***************************************************************************)
EXTENDS Integers

CONSTANTS
    Calls,       \* slots for concurrent requests
    Users,       \* the bearers of valid tokens
    Tenant,      \* the tenant_id claim of each user, or NoTenant
    Admins,      \* the users whose roles include admin
    Orders,      \* ids of orders
    Lots,        \* ids of lots, and of the other records a tenant owns
    Owner,       \* the tenant_id column of each of them
    NoTenant, Unknown, Missing,   \* no claim; an id not in the tables; no id
    MaxTries     \* attempts to reach the database at startup, 30

Records == Orders \cup Lots
Tenants == {Owner[r] : r \in Records}

ASSUME OrderAssumption ==
    /\ Admins \subseteq Users /\ MaxTries \in Nat
    /\ Orders \cap Lots = {} /\ {Unknown, Missing} \cap Records = {}
    /\ Unknown # Missing
    /\ NoTenant \notin Tenants

VARIABLES
    server,    \* "starting", "listening" or "down"
    tries,     \* failed attempts of the startup loop
    at,        \* where each request is
    route, user, target,   \* the request: route, bearer (or none), id
    status,    \* the status of its response
    rows,      \* the records in its response
    quotes     \* the rows of table quotes: who asked, for which lot

request == <<route, user, target>>
vars    == <<server, tries, at, request, status, rows, quotes>>

\* "own" stands for the catalog, vendor and shipment routes, all alike
Routes  == {"orders", "order", "own", "quote", "summary"}
NoUser  == "nobody"
Bearers == Users \cup {NoUser}
Ids     == Records \cup {Unknown, Missing}

(***************************************************************************)
(* "authenticating" waits for the keys to verify the token, "limiting" for *)
(* the quota, "querying" for the first query, "inserting" for the insert,  *)
(* "profiling" for user-service; "replied" has its response on the way,    *)
(* and "silent" has returned without writing one.                          *)
(***************************************************************************)
Phases == {"idle", "authenticating", "limiting", "querying", "inserting",
           "profiling", "replied", "silent"}

TypeOK ==
    /\ server \in {"starting", "listening", "down"}
    /\ tries \in 0 .. MaxTries
    /\ at \in [Calls -> Phases]
    /\ route \in [Calls -> Routes]
    /\ user \in [Calls -> Bearers]
    /\ target \in [Calls -> Ids]
    /\ status \in [Calls -> {0, 200, 201, 400, 401, 403, 404, 429, 503}]
    /\ rows \in [Calls -> SUBSET Records]
    /\ quotes \subseteq [user : Users, lot : Lots]

Init ==
    /\ server = "starting"
    /\ tries = 0
    /\ at = [c \in Calls |-> "idle"]
    /\ route = [c \in Calls |-> "orders"]
    /\ user = [c \in Calls |-> NoUser]
    /\ target = [c \in Calls |-> Missing]
    /\ status = [c \in Calls |-> 0]
    /\ rows = [c \in Calls |-> {}]
    /\ quotes = {}

IsAdmin(u) == u \in Admins

\* (bug: a user without a tenant is let through)
AccessUnlessOther(u, owner) == IsAdmin(u) \/ Tenant[u] \in {owner, NoTenant}

\* checkTenantAccess(...).allow
Access(u, owner) == IsAdmin(u) \/ Tenant[u] = owner

\* the orders that GET /api/orders lists
Listed(u) == IF IsAdmin(u) THEN Orders
             ELSE {o \in Orders : Owner[o] = Tenant[u]}

Reply(c, code, shown) ==
    /\ at' = [at EXCEPT ![c] = "replied"]
    /\ status' = [status EXCEPT ![c] = code]
    /\ rows' = [rows EXCEPT ![c] = shown]

Go(c, phase) == at' = [at EXCEPT ![c] = phase] /\ UNCHANGED <<status, rows>>

\* (bug: a user without a tenant gets no 403 either)
EnsureTenantQuietly(c, pass) ==
    IF Tenant[user[c]] = NoTenant THEN Go(c, "silent") ELSE pass

(***************************************************************************)
(* The handlers up to their first query.  ensureTenant answers 403 and     *)
(* gives null when there is neither tenant nor admin role; for an admin    *)
(* without a tenant it gives null as well, and the handler just returns.   *)
(***************************************************************************)
EnsureTenant(c, pass) ==
    LET u == user[c] IN
    \/ Tenant[u] # NoTenant /\ pass
    \/ Tenant[u] = NoTenant /\ IsAdmin(u) /\ Go(c, "silent")
    \/ Tenant[u] = NoTenant /\ ~IsAdmin(u) /\ Reply(c, 403, {})

Handle(c) ==
    \/ route[c] = "orders" /\ IF Tenant[user[c]] = NoTenant /\ ~IsAdmin(user[c])
                              THEN Reply(c, 403, {}) ELSE Go(c, "querying")
    \/ route[c] = "order"  /\ Go(c, "querying")
    \/ route[c] = "own"    /\ EnsureTenant(c, Go(c, "querying"))
    \/ route[c] = "quote"  /\ EnsureTenant(c, IF target[c] = Missing
                                               THEN Reply(c, 400, {})
                                               ELSE Go(c, "querying"))

-----------------------------------------------------------------------------
\* start(): the database answers its first query and the server listens
Listen ==
    /\ server = "starting"
    /\ server' = "listening"
    /\ UNCHANGED <<tries, at, request, status, rows, quotes>>

\* (bug: one attempt too many)
ProbeOnceMore ==
    /\ server = "starting"
    /\ tries' = tries + 1
    /\ IF tries < MaxTries THEN UNCHANGED server ELSE server' = "down"
    /\ UNCHANGED <<at, request, status, rows, quotes>>

\* it does not; after the last attempt the process exits
ProbeFails ==
    /\ server = "starting"
    /\ IF tries + 1 < MaxTries
       THEN tries' = tries + 1 /\ UNCHANGED server
       ELSE tries' = MaxTries /\ server' = "down"
    /\ UNCHANGED <<at, request, status, rows, quotes>>

\* the secret store fails before the loop: the process exits
StartFails ==
    /\ server = "starting" /\ tries = 0
    /\ server' = "down"
    /\ UNCHANGED <<tries, at, request, status, rows, quotes>>

\* an operator starts the process again
StartAgain ==
    /\ server = "down"
    /\ server' = "starting"
    /\ tries' = 0
    /\ UNCHANGED <<at, request, status, rows, quotes>>

\* A request arrives; NoUser stands for a token that is missing or invalid.
\* Only the routes with an id use theirs, and tokens of the "summary" route
\* are a service's, for which NoUser stands too.
Arrive(c, r, u, id) ==
    /\ server = "listening"
    /\ at[c] = "idle"
    /\ \/ r = "order" /\ id \in Orders \cup {Unknown}
       \/ r = "quote" /\ id \in Lots \cup {Unknown, Missing}
       \/ r \in {"orders", "own"} /\ id = Missing
       \/ r = "summary" /\ id = Missing /\ u = NoUser
    /\ at' = [at EXCEPT ![c] = "authenticating"]
    /\ route' = [route EXCEPT ![c] = r]
    /\ user' = [user EXCEPT ![c] = u]
    /\ target' = [target EXCEPT ![c] = id]
    /\ UNCHANGED <<server, tries, status, rows, quotes>>

\* requireAuth or requireM2mAuth refuses the token
Refuse(c) ==
    /\ at[c] = "authenticating"
    /\ user[c] = NoUser
    /\ \E code \in {401, 403} : (route[c] = "summary" \/ code = 401)
                                /\ Reply(c, code, {})
    /\ UNCHANGED <<server, tries, request, quotes>>

\* the token is good: a user without a tenant skips the quota
Authenticate(c) ==
    /\ at[c] = "authenticating"
    /\ \/ route[c] = "summary" /\ Go(c, "querying")
       \/ user[c] # NoUser /\ IF Tenant[user[c]] = NoTenant THEN Handle(c)
                                                            ELSE Go(c, "limiting")
    /\ UNCHANGED <<server, tries, request, quotes>>

\* tenantRateLimit passes the request on, or answers 429 or 503
Limit(c) ==
    /\ at[c] = "limiting"
    /\ Handle(c) \/ Reply(c, 429, {}) \/ Reply(c, 503, {})
    /\ UNCHANGED <<server, tries, request, quotes>>

(***************************************************************************)
(* The first query's result arrives, one action per route.                 *)
(***************************************************************************)
Queried(c, r) ==
    /\ at[c] = "querying" /\ route[c] = r
    /\ UNCHANGED <<server, tries, request, quotes>>

ListOrders(c) == Queried(c, "orders") /\ Reply(c, 200, Listed(user[c]))

GetOrder(c) ==
    /\ Queried(c, "order")
    /\ \/ target[c] = Unknown /\ Reply(c, 404, {})
       \/ target[c] # Unknown /\ IF Access(user[c], Owner[target[c]])
                                 THEN Reply(c, 200, {target[c]})
                                 ELSE Reply(c, 403, {})

\* one of the three routes answers 404 where the others send an empty list
ListOwn(c) ==
    LET mine == {l \in Lots : Owner[l] = Tenant[user[c]]} IN
    /\ Queried(c, "own")
    /\ Reply(c, 200, mine) \/ (mine = {} /\ Reply(c, 404, {}))

QuoteLot(c) ==
    /\ Queried(c, "quote")
    /\ \/ target[c] = Unknown /\ Reply(c, 404, {})
       \/ target[c] # Unknown /\ IF Access(user[c], Owner[target[c]])
                                 THEN Go(c, "inserting")
                                 ELSE Reply(c, 403, {})

Summarise(c) == Queried(c, "summary") /\ Go(c, "profiling")

Rows(c) == \/ ListOrders(c) \/ GetOrder(c) \/ ListOwn(c) \/ QuoteLot(c) \/ Summarise(c)

Inserted(c) == quotes' = quotes \cup {[user |-> user[c], lot |-> target[c]]}

\* (bug: the insert is not awaited)
InsertUnawaited(c) ==
    /\ at[c] = "inserting"
    /\ Reply(c, 201, {target[c]})
    /\ UNCHANGED <<server, tries, request, quotes>>

\* the quote is stored: 201
Insert(c) ==
    /\ at[c] = "inserting"
    /\ Inserted(c)
    /\ Reply(c, 201, {target[c]})
    /\ UNCHANGED <<server, tries, request>>

\* user-service answers or fails; either way the summary is sent
Profile(c) ==
    /\ at[c] = "profiling"
    /\ Reply(c, 200, {})
    /\ UNCHANGED <<server, tries, request, quotes>>

\* the response has been written
Finish(c) ==
    /\ at[c] = "replied"
    /\ at' = [at EXCEPT ![c] = "idle"]
    /\ route' = [route EXCEPT ![c] = "orders"]
    /\ user' = [user EXCEPT ![c] = NoUser]
    /\ target' = [target EXCEPT ![c] = Missing]
    /\ status' = [status EXCEPT ![c] = 0]
    /\ rows' = [rows EXCEPT ![c] = {}]
    /\ UNCHANGED <<server, tries, quotes>>

\* the process ends, and every request in it with it
End ==
    /\ server' = "down"
    /\ at' = [d \in Calls |-> "idle"]
    /\ route' = [d \in Calls |-> "orders"]
    /\ user' = [d \in Calls |-> NoUser]
    /\ target' = [d \in Calls |-> Missing]
    /\ status' = [d \in Calls |-> 0]
    /\ rows' = [d \in Calls |-> {}]
    /\ UNCHANGED tries

\* pool.query rejects outside any try: the handler's rejection is unhandled
\* and ends the process
QueryFails(c) ==
    /\ \/ at[c] = "querying" /\ UNCHANGED quotes
       \/ at[c] = "inserting" /\ (UNCHANGED quotes \/ Inserted(c))
    /\ End

\* an operator stops the process
Stop == server = "listening" /\ End /\ UNCHANGED quotes

Next ==
    \/ Listen \/ ProbeFails \/ StartFails \/ StartAgain \/ Stop
    \/ \E c \in Calls, r \in Routes, u \in Bearers, id \in Ids : Arrive(c, r, u, id)
    \/ \E c \in Calls : \/ Refuse(c) \/ Authenticate(c) \/ Limit(c) \/ Rows(c)
                        \/ Insert(c) \/ Profile(c) \/ Finish(c) \/ QueryFails(c)

Spec == Init /\ [][Next]_vars

\* The keys, the quota, the database and user-service answer or fail, the
\* event loop goes on with the handler, and the startup loop runs
Fairness ==
    /\ WF_vars(Listen \/ ProbeFails \/ StartFails)
    /\ \A c \in Calls : WF_vars(Refuse(c) \/ Authenticate(c) \/ Limit(c) \/ Rows(c)
                                \/ Insert(c) \/ Profile(c) \/ Finish(c))

FairSpec == Spec /\ Fairness

-----------------------------------------------------------------------------
(***************************************************************************)
(* Properties                                                              *)
(***************************************************************************)
\* No interleaving of requests of several tenants shows a user a record of
\* a tenant that is not the user's, or stores a quote for another tenant's
\* lot, unless the user is an admin (server.js:65-170, authz.js:5-10).
TenantIsolation ==
    /\ \A c \in Calls : \A r \in rows[c] :
         user[c] \in Users /\ (IsAdmin(user[c]) \/ Owner[r] = Tenant[user[c]])
    /\ \A q \in quotes : IsAdmin(q.user) \/ Owner[q.lot] = Tenant[q.user]

(***************************************************************************)
(* The contract: a request is open from its arrival to its reply.          *)
(***************************************************************************)
Members == {u \in Users : Tenant[u] # NoTenant}
Visible == [u \in Users |-> {r \in Records : IsAdmin(u) \/ Owner[r] = Tenant[u]}]
Own     == [u \in Users |-> {l \in Lots : Owner[l] = Tenant[u]}]

Stage(c) == CASE at[c] = "idle"    -> "idle"
              [] at[c] = "replied" -> "answered"
              [] OTHER             -> "open"
Asked(c) == [route |-> route[c], user |-> user[c], target |-> target[c]]
Given(c) == [status |-> status[c], rows |-> rows[c]]

OA == INSTANCE OrderApi WITH
        Nobody <- NoUser,
        stage  <- [c \in Calls |-> Stage(c)],
        ask    <- [c \in Calls |-> Asked(c)],
        answer <- [c \in Calls |-> Given(c)]

\* However requests interleave between token check, quota and queries, each
\* answer is one its own request justifies: exactly the rows that are due, a
\* refusal only for its reason, and 201 in the step that stores the quote
\* (server.js:65-170).
AnswersByContract == OA!Spec

\* A request for which the user's tenant is known, or the user is no admin,
\* gets a response or ends with the process.
TenantRequestsAnswered ==
    \A c \in Calls :
        (/\ at[c] # "idle"
         /\ ~(user[c] \in Admins /\ Tenant[user[c]] = NoTenant)) ~> at[c] = "idle"

\* Every authenticated request gets a response or ends with the process.
EveryRequestAnswered == \A c \in Calls : at[c] # "idle" ~> at[c] = "idle"
=============================================================================
