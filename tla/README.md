# ShopFlow: TLA+ models, model checking and proofs

This directory is a verification development of the ShopFlow repository
(Node/Express services behind Kong and nginx, with Keycloak, Redis, PostgreSQL
and Vault). It models the parts of `services/` in which requests, processes
and external systems interleave, and the script that sets up Vault, checks them
with TLC on small instances, and proves with TLAPS, for every value of the
constants, their safety properties and that they implement abstract
specifications of what they promise. Line references are to files of the repository;
`redis-state.js`, `index.js`, `s2s-client.js`, `m2m-auth.js`, `authz.js`, `webhook-verify.js`,
`security-config.js`, `vault-secrets.js`, `db-credentials.js` and `metrics.js`
are under `services/shared/`.

Contents: [inventory](#1-inventory), [modules](#2-modules-and-how-they-correspond-to-the-code),
[runs](#3-runs), [bounds and fairness](#4-bounds-and-fairness),
[proofs](#5-proofs), [findings](#6-findings), [what is left out](#7-what-is-not-modelled),
[plan](#8-plan).

## 1. Inventory

| Component | State it keeps | Operations | Talks to | Hard part |
|---|---|---|---|---|
| `redis-state.js` client | `redisClient`, `connectPromise` | `getRedisClient` | Redis | one promise shared by all callers, rejection, fallback to memory, production check |
| `redis-state.js` marks | Redis keys with TTL, `memorySets` | `markOnce` | Redis | test-and-set over instances, lost replies, crash of the process or of the connection |
| `redis-state.js` counters | Redis counters with TTL, `memoryCounters` | `incrementWindow` | Redis | window edges, late counting, counters that stay |
| `index.js` quota | none of its own | `tenantRateLimit` | counters | verdict after an await, several instances |
| `webhook-authorizer` | `webhookSecret`, nonce marks | `POST /api/billing/webhook` | Redis, billing | duplicates, clock skew, TTL against window, failed forward |
| `billing-service` | secrets, none per request | internal webhook, signing and Vault helpers | Vault | body parsing before the token check, a Vault that fails |
| `auth-service` | refresh token marks | `POST /api/auth/refresh`, status, token helper | Redis, Keycloak | one successor per token although the realm would give more; lost responses; a ping and a mark outside `try` |
| `s2s-client.js` | `cached` token | `getM2mToken`, `s2sFetch` | Keycloak, other services | concurrent fills of one cache, expiry margin, one retry after 401 |
| `order-service` | tables, pool | eight routes, `start` | PostgreSQL, Redis, user-service | tenant isolation, routes that do not answer, rejections outside `try`, startup loop |
| `index.js`, `m2m-auth.js` token checks | a key cache each (library) | `requireAuth`, `requireM2mAuth` | Keycloak keys | keys withdrawn while cached or on their way, callers that share a request, expiry during the wait |
| `user-service` | none | `validateUrl`, profiles | DNS | rules that match text against ranges, several answers, a lookup outside `try` |
| `security-config.js`, `db-credentials.js`, `vault-secrets.js`, `webhook-verify.js` startup | the secret or the pool made of what was read | startup checks, secret reads | Vault, environment | two notions of production, order of fallbacks, a pair read in two steps, secrets changed meanwhile |
| `metrics.js` | counters | `incMetric`, middleware | Prometheus | one failure counted under two names |
| `core/vault/init-dev.ps1` | the saved keys, the token in `core/.env` | bootstrap | Vault | a stop between two steps, a rerun, a volume that is removed, tokens that lapse, containers with an older environment |
| Kong, nginx, ModSecurity, Keycloak realm | configuration | routing, TLS, tokens | all | agreement with the services |
| deploy, demo, report scripts, observability | none | operator work | all | none modelled |

Interactions. A user request passes Kong and nginx, then `requireAuth`, for
the order routes `tenantRateLimit` (through `incrementWindow` and
`getRedisClient`), then the handler, which queries PostgreSQL and may call
user-service through `s2sFetch`. A payment webhook goes to the authorizer,
which verifies it, marks its nonce with `markOnce` and forwards it to billing.
A refresh goes to auth-service, which marks the token with `markOnce` and then
asks Keycloak. At startup authorizer, billing and order-service read their
secrets from Vault, with the token that the bootstrap script has put into the
environment of their containers. Module variables (`connectPromise`, `cached`, the Maps) are
shared by all requests of a process; Redis is shared by all processes.

What makes each modelled component correct:

- client: nobody waits for what cannot come any more; production never decides
  from memory;
- marks: one grant per key and TTL, over all instances;
- webhook: at most one forward of a nonce; slots for verified messages only; a
  message takes each stage once and the partner's statuses fit the stage; every
  delivery ends;
- refresh: at most one successor per token, one usable token per login, as though
  the realm rotated tokens;
- service-to-service: a token is not chosen too late; one retry suffices; calls do
  not notice that they share a cache; every call ends;
- quota: never exceeded; never used up by others; counters go away; every
  request is decided;
- orders: no record of another tenant; an answer is the one its own request
  justifies; a reported quote is stored; every request answered; startup ends;
- token checks: an admission is as current as the key cache allows; no caller is
  left waiting for a key; the counters tell what happened;
- user-service: a URL is cleared only for an allowed host with no address in the
  ranges that are to be denied;
- stateless routes: a process is ended only by a call of an admitted caller or by
  a refresh at auth-service; the counters miss no failure;
- startup: where Vault is compulsory a service serves with Vault's values only; a
  Vault whose keys are not saved holds nothing that could be lost; no start hangs;
  a rerun of the script completes what earlier runs began.

The hazards, each with its line and the properties aimed at it, are listed in
`PROJECT.json`.

## 2. Modules and how they correspond to the code

```
RedisClient                       getRedisClient, one process each
 ├─ ReplayStore                   markOnce
 │   ├─ ReplayMarker              markOnce alone, implements OnceMarker
 │   ├─ WebhookAuthorizer         webhook path: partner, authorizer, billing
 │   └─ RefreshProxy              refresh path: client, auth-service, Keycloak
 └─ TenantRateLimit               incrementWindow and tenantRateLimit
S2SClient                         s2s-client.js against m2m-auth.js
OrderService                      order-service/server.js, authz.js
TokenCheck, UrlRules, Metrics     token checks with their key clients, URL rules, counters
 └─ ServiceRoutes                 the routes of user-, billing- and auth-service
VaultBootstrap                    core/vault/init-dev.ps1
 └─ Startup                       configuration checks and secrets of the services
abstract specifications, and who implements them:
  OnceMarker                      what markOnce promises        ReplayMarker
  PaymentDelivery                 the stages of a payment       WebhookAuthorizer
  RotatingTokens                  refresh tokens that rotate    RefreshProxy
  QuotaGate                       a quota without clocks        TenantRateLimit
  SoloFetch                       a call without a cache        S2SClient
  OrderApi                        one atomic answer per request OrderService
MC*                               small instances for TLC
*Proofs                           TLAPS proofs
```

**RedisClient.** `up[i]` says whether process `i` runs; `client[i]` is
`redisClient` and `connectPromise` together ("none", "connecting", "ready",
"reconnecting"); `at[c]` is where call `c` is. `GetRedisClient` is the synchronous
part up to the first `await`: no URL, `isOpen`, or a new `connectPromise`.
node-redis reports `isOpen` from `connect()` on, so a caller that finds the client
connecting may either get it (its command queues) or await the promise; both
are allowed. `ConnectResolved` and `ConnectRejected` continue all waiters, the
latter through the `catch` of lines 47-54. The code gives node-redis no reconnect
strategy and no timeout, and its default retries for as long as Redis is out of
reach: a client may stay "connecting", and after `ConnectionLost` "reconnecting",
for ever, with its callers waiting. `Env` is `SHOPFLOW_ENV` as it is spelled;
`IsProductionEnv` lowers its case like `security-config.js:4-5`, `FailClosed`
compares it as it is, like `redis-state.js:31,49`.

**ReplayStore.** A mark is the time at which it lapses. `RedisSet` is
`SET NX EX` with its reply, `RedisDrop` the same command when the connection
goes away, executed or not; `MemoryMark` is the synchronous read and write of
the Map (82-86). `StoreDie` loses the Map, not Redis.

**OnceMarker / ReplayMarker.** The abstract marker grants a key to one caller,
and refuses the others until the TTL has passed since the grant. `ReplayMarker`
runs `markOnce` with arbitrary callers, and `MarksOnce` is `OnceMarker!Spec`
under the mapping: expiry is the latest mark held anywhere, the verdict is the
phase with all undecided phases collapsed. `RedisRestarts` is a restart of
Redis itself, whose append-only file is written to disk every second
(`core/docker-compose.yml:57`): marks younger than `Unsynced` may be gone, and
the abstract marker says so (`Lose`). The webhook and refresh modules take a
mark in Redis as kept.

**WebhookAuthorizer.** A key is a nonce and stands for the one message a
partner sends under it; deliveries repeat it. `Send` stamps the message with
the partner's skewed clock, `Reject` and `Verify` are
`verifyWebhookRequest` up to `markOnce` (`Reason` is its order of checks),
`Replayed`, `Forward`, `Relay`, `ForwardFails` the handler after it, `Bill`
billing's route behind `express.json()`. `Crash` includes the unhandled
rejection of `markOnce`, which is awaited outside the handler's `try`.

**PaymentDelivery.** No processes, clocks or marks: a message goes from unsent to
sent, slotted, handed to billing and billed, each once, and `told` are the
statuses the partner has got for it. `Lose` is the 502 that may be told of a
message that has reached billing or still will. `Stage` maps the webhook path to
it: slotted is a message whose nonce was ever marked, handed one that was
forwarded, and billed one that arrived. One that was forwarded twice
has no stage there ("again"), so that a second forward is no stutter.

**RefreshProxy.** Keys are refresh tokens. `Submit`, `Replayed`, `Exchange`,
`Relay`, `RelayRefusal`, `ExchangeFails` are the handler of auth-service
(79-118); `Login`, `Redeem` and `Refuse` are Keycloak's. Keycloak's realm does
not revoke a refresh token on use, so `Redeem` accepts a token again: that the
proxy obtains one successor at most is the proxy's doing.

**RotatingTokens.** What a client sees: a login has one current token; a token is
spent once, by a call or by its age, and is never current again; a spent one gives
at most one successor. `State` maps a token of Keycloak to it: current is a valid
token that has no live mark. That a mark lapses is not visible there, because the
token is too old by then.

**S2SClient.** `cached`, and for every call the clock reading its
`getM2mToken` took (`started`), the token it sends and the attempt. The
reading happens before the token request and the cache is written with it
after the response, whoever else has written it. `Refuse` and `Accept` are
`requireM2mAuth` of the called service: expired or unverifiable tokens get 401;
everything else, its 403s included, is an answer the client returns. A 401
because the service could not get a key (`RefuseUnverified`) is kept apart from
one for a token that is no longer good, for the properties; the client treats
them alike.

**SoloFetch.** The same calls without the cache: each sends a token good for more
than the margin, and after its first 401 one that was issued since. `Step` and
`Sent` hide a token that is still on its way.

**TenantRateLimit.** A counter belongs to a tenant and a minute. `Ask` fixes
the minute and runs up to `getRedisClient`; `RedisCount` is MULTI, INCR,
EXPIRE, EXEC and its reply, `RedisDrop` the transaction under a dropped
connection, `MemoryCount` the bucket of the process, `Verdict` the comparison
and `next()` or 429, `Unavailable` the 503. A request keeps the minute in which it
came in, and may be counted after it, on a counter that has lapsed and starts over.
`asked`, `passed` and `limited` record what happened, for the properties; `passed`
is what a counter let through since its minute began or, if it started over after
the minute, since then (`Through`).

**QuotaGate.** Redis and each process are gates; a gate lets a request of a tenant
and minute through while it remembers fewer than the quota, and 429 needs more
requests than the quota. It remembers what it let through at least until the
minute is over. No clock, counter or expiry.

**OrderService.** One process, several requests; a request stands still at
each `await` (key lookup, quota, query, insert, call to user-service).
The five routes: "orders" (65-75), "order" (77-96), "own" for the catalog,
vendor and shipment routes, which differ only in the table (98-130), "quote"
(132-170), "summary" (172-186). `QueryFails` is a rejected `pool.query`, which
no handler catches. `Listen`, `ProbeFails`, `StartFails` are `start`
(188-206); `StartAgain` and `Stop` are an operator's.

**OrderApi.** The contract: a request is answered in one step, with a refusal for
one of the listed reasons, with exactly the rows that are due (`Shows`), or with
201 in the step that stores the quote. A request is open from its arrival until
its reply; `End`, the end of the process, answers nobody and may leave one quote
that nobody was told of. A tenantless admin's request on the tenant routes is
never answered, which the contract allows and the findings mention.

**TokenCheck.** Tokens are records of what the checks look at (key id,
signature, expiry, issuer, client, scope, audience). Each of the two checks has
a key client (`getJwks`, `getKey`; `m2m-auth.js:11-24`), a library object that
the code configures with a cache and a limit on requests: `cache` says when a
key was cached, `load` and `since` are the request under way. `Verify` is the
call of `jwt.verify` up to the wait for its key: from the cache, on a shared
request, on a new one, or refused as one too many. `Answer`, `AnswerLost` and
`Loaded` are that request; Keycloak answers with the keys it publishes at that
moment and may withdraw them before the answer is cached. `Reason` and
`M2mStatus` are the two callbacks with their order of checks; the library reads
the clock once, before or after it has the key, so `Clocks` is the whole wait.

**UrlRules, Metrics.** `UrlReason` is `validateUrl` up to its lookup,
`IsPrivateIp` the regular expressions for addresses, over all first octets and
all first groups; `Denied` is the reference definition, by numeric ranges.
`IncMetric` is `incMetric`, in which the counter of a reason takes the total
along.

**ServiceRoutes.** One process of one of the three services. `Arrive` runs a
request up to its first `await` (the token check; none for `/health`, for
`/api/auth/refresh` and for `test-sign` in production, `Unchecked`), `DecideUser`
and `DecideM2m` are the check's callback with the handler after it (`Handle`, of
which each service has its own part), `Resolve`, `Return` and `CallFails` what DNS,
Vault, Keycloak or Redis do to it, `Refresh` and `Exchanged` the two waits of a
refresh. `CallEnds` are the three calls that fail where nothing catches it: the
lookup, the ping, and the mark of a refresh, with `refreshTokenKey`, which throws
for a token that is not a string. `End` takes all calls, keys and counters of the
process along. Which refresh tokens were used is `RefreshProxy`'s state; here
`markOnce` may answer either way. `failures` records what happened, for the
properties.

**VaultBootstrap, Startup.** `pc` is where the script is; it may be stopped
(`StopScript`) or find Vault sealed (`Reseal`) before any of its calls, and from
`Mount` on it goes on after a failed call, as the script does. Tokens are numbered
as they are issued; each lapses at some time (`Expire`, the 768 h of
`init-dev.ps1:129`), earlier ones not after later ones. `Record` puts the token into
`core/.env`, or leaves that file as it is, which happens when there is no such
file or no line `VAULT_APP_TOKEN=` in it (141-148). `Wipe` removes Vault's volume,
for lost keys, a corrupt volume or keys that do not fit
(`docs/huongdandemo.md:634`), whenever the script does not run; the keys file and
`core/.env` stay, and `saved` says whether the file fits the Vault there is.
A service has a configuration (`Settings`, what the startup code looks at), and goes
through `Start` (`validateSecurityConfig`), `Read` and `Reread`
(`loadWebhookSecret`, `resolveDatabaseUrl`, through `fetchVaultSecret`), `Probe` or
`GiveUp` (the loop of order-service, whose attempts are one step) to listening or
exit. PostgreSQL looks at the password only: the user keeps its name
(`DatabaseAccepts`). A container keeps the token it was created with (`token`):
`Restart` starts it with that one, `Recreate` with what `core/.env` holds now.
Values of an entry are numbered in the order in which an operator writes them; the
script writes the first again. `seen` records the values an entry has had since
the service was started, for the properties.

## 3. Runs

| Run | Instance | What it shows |
|---|---|---|
| `replay_redis` | production, two processes, three calls, one key | `MarksOnce` (refinement of `OnceMarker`), `ProductionFailsClosed`, `NobodyStranded`, `EveryCallEnds`, with connects that reject or hang, dropped connections, crashes and a Redis that restarts without its latest writes |
| `replay_prod` | `SHOPFLOW_ENV=PRODUCTION` | violation: falls back to memory ([6](#6-findings)) |
| `webhook_path` | production on Redis, two processes, a delivery at each, clocks behind, exact, ahead, a TTL above twice the window plus the marking delay | `DeliversInStages` (refinement of `PaymentDelivery`), `AtMostOnceForwarded`, `SlotsOnlyForVerified`, `StatusesAreTruthful`, `EveryDeliveryEnds`, with lost replies, connects that reject or hang, and crashes |
| `webhook_default` | TTL equal to the window, as in the code | violation: a nonce is forwarded twice ([6](#6-findings)) |
| `refresh_once` | two processes, a call at each, a login and two successors | `RedeemedAtMostOnce`, `TokensRotate` (refinement of `RotatingTokens`) |
| `s2s_retry` | two calls, two key rotations | `MarginHolds`, `RetrySettles`, `CallsDoNotInterfere` (refinement of `SoloFetch`), `EveryFetchEnds`, also when the service refuses every token |
| `rate_lab` | lab, one tenant, two processes, one of which may crash, an expiry of one minute as in the code, requests counted up to one unit after their minute | `LimitedOnlyBeyondQuota`, `OldCountersLapse`, `DecidesByQuota` (refinement of `QuotaGate`), `EveryRequestDecided`, with counters in Redis and in memory |
| `order_tenants` | two requests, a user, a tenantless user, a tenantless admin | `TenantIsolation`, `AnswersByContract` (refinement of `OrderApi`), `TenantRequestsAnswered` |
| `order_silent` | a tenantless admin | violation: no response ([6](#6-findings)) |
| `startup` | one service in ten configurations, the script, two faults, two tokens, two values of an entry | `RequiredFromVault`, `KeysBeforeSecrets`, `StartsEnd`, `RerunCompletes` |
| `service_routes` | two requests to one process of each service, one key, five tokens, three URLs, four answers of DNS | `AdmissionIsCurrent`, `NobodyLeftBehind`, `ClearedIsAllowed`, `CountersAgree`, `EndsHaveCause` |
| `service_total` | one request to such a process | violation of `TotalCountsFailures`: one failure counts twice ([6](#6-findings)) |

Every run that is expected to pass also checks for deadlock. One run
of each module checks its type invariant.

The properties that need a word more than their comment:

- `DecidesByQuota` has one gate for each table of counters, because in the lab a
  tenant has one more quota in the memory of every process that falls back. In
  production there is one table, Redis's. A counter lives as long as a minute
  (`index.js:50,53`), so a request that is counted after its minute may find it
  lapsed and start it over: of the requests of one minute, a quota may pass within
  it and another one late. The gate says so: it may forget a minute that is over,
  and no other.
- `RequiredFromVault` asks for a value that Vault had *since the start*; after a
  rotation a service serves with the old value until it is started again. Nothing
  in the code refreshes it.
- `KeysBeforeSecrets` is about the order of the script: keys are lost only between
  `vault operator init` and the writing of the file, before anything is in Vault.
  Removing the volume of a Vault that is set up costs what is in it, of course; what
  the property says of that case is that the old keys file and the old tokens, which
  stay behind, go with a Vault that is new and empty again.
- `RerunCompletes` starts where a run of the script has begun, in any state that
  stops, seals, removed volumes and lapsed tokens have left, and asks for a Vault
  that is open, filled and has a valid token. That the services then run with this
  token is not claimed: the script may not find a place for it in `core/.env`, and
  the operator must create the containers again (`docs/huongdandemo.md:115`), since
  a restart (`docs/RUNBOOK.md:303-309`) keeps the old environment and nothing
  restarts or recreates them by itself.
- `EndsHaveCause` is as much as holds: the refresh route takes callers without a
  token, and its mark is awaited outside `try`.
- `CountersAgree` says that no failure is missed; that the total counts some
  failures twice is `TotalCountsFailures`.
- `TokensRotate`, `DeliversInStages` and `DecidesByQuota` imply the invariants
  `OneSpendablePerLogin`, `AtMostOnceForwarded` and `QuotaKept`, and say more: no
  token comes back when its mark lapses, no status is told before its stage, no
  request is decided twice. The invariants are theorems of their own ([5](#5-proofs));
  where a run checks the refinement it does not check them again.
- `AdmissionIsCurrent` is an action property: the state before the admission is
  compared with the keys that Keycloak publishes then.

## 4. Bounds and fairness

One or two instances and two or three calls: every race in these modules is between
two callers of one key, token, cache or counter, and a third call (in
`replay_redis`) covers two callers of one process beside one of another; what two
callers of one process share is its client, which that run is about. One key, because
keys do not influence each other; three tokens for a login, its successor and the
successor's. The messages of `webhook_path` are signed and complete: a message that
is not is refused before anything is awaited, and the theorems cover it. Services do
not influence each other at startup, so `startup` has one, in each configuration that
differs in a setting the code looks at. Time is in units: what matters is
the order of a few instants (`Ttl`, `Window`, `Minute`, `Lifetime` are 1 to 4
units, and `MaxTime` reaches beyond one whole TTL, minute or lifetime where its
end must be seen).

| Bound | Meaning |
|---|---|
| `MaxTime` | last value of the clock; `Tick` stops there |
| `MaxForwards`, `MaxExchanges` | at most 2, one more than the properties allow |
| `MaxAsked` | requests of a tenant in a minute, above `Rpm` |
| `LastAsk` | no request comes in later; what time is left shows what becomes of its counter |
| `MaxRotations` | key rotations: 2, one before and one after a call's first 401 |
| `MaxTries` | attempts of the startup loop: 30 in the code, 2 and 1 here |
| `MayCrash` | the instances that may crash at any moment |
| `MaxRequests` | requests to a process: 2, which meet in every order; a process that has ended starts again with what is left |
| `MaxVersion` | values of an entry: the script's and a changed one |
| `MaxTokens` | tokens that Vault issues: 2, an old one in a container and a new one |
| `MaxFaults` | stops, seals, removed volumes, lapsed tokens and crashes: 2, so that recovery from one meets another |

The timing assumptions are explicit. `MarkDelay` bounds the time between a
timestamp check and the mark it leads to, `Linger` the time between the end of
a minute and the counting of a request of that minute; nothing in the code
enforces either, because neither Redis nor `fetch` is given a timeout.
`LoadTime` bounds a request for keys, which the library does with its timeout of
30 s, `CacheAge` is how long it keeps a key (10 min by default, the code sets
no other), `Unsynced` is Redis's second.

Fairness is weak and only on what a running process does by itself: the event
loop goes on with a resolved promise, a connected Redis answers or its connection
drops (which rejects the command), `fetch` resolves or rejects, and the runtime ends
a process with an unhandled rejection. Nothing is assumed of users, partners,
operators, clocks, crashes or rotations.

- No fairness is on a connect to Redis. node-redis 4 with its default reconnect
  strategy, which is what `getRedisClient` uses, retries while Redis cannot be
  reached, and `connect()` neither resolves nor rejects meanwhile. The properties
  about calls that end therefore have the premise `ReachesRedis`: the client is not
  for ever without a connection. Without it they are false; a request then hangs in
  `markOnce` or `incrementWindow`, and no timer of the code ends it.
  `ConnectMayReject` allows a connect to reject as well, for which the `catch` of
  `getRedisClient` is written.
- `OrderService` assumes that PostgreSQL answers or rejects a query. The pool is
  configured without a query timeout, so a server that does neither leaves the
  request open.
- `Startup` assumes that a script which was started goes on and that the reads and
  probes of a starting service return. Nothing starts a service or the script by
  itself, and nobody is assumed to create containers again: the compose files give
  the services no restart policy.

Symmetry is used in safety runs only: of the refresh tokens that no login produces,
and of the two processes with their calls (`refresh_once`), and of the two requests
(`service_routes`, `service_total`). `refresh_once` also has a view,
which leaves out what no action and no property reads any more: the token that an
idle call held last, when a mark lapsed that is over, when a token was issued that
is too old by now, and the finished exchanges of a token, which in this run are too
few to reach `MaxExchanges`.

## 5. Proofs

| Module | Theorem | Statement |
|---|---|---|
| `ReplayMarkerProofs` | lemmas | every store step keeps the store's types, a mark that lives is not changed |
| | `MarkerTypeCorrect` | `MarkerSpec => []MarkerTypeOK` |
| | `FailsClosed` | `Closed` gives `MarkerSpec => []ProductionFailsClosed` |
| | `MarkerRefines` | `Closed` gives `MarkerSpec => MarksOnce` |
| | `NoCallStranded` | `MarkerSpec => []NobodyStranded` |
| `WebhookAuthorizerProofs` | `TypeCorrect` | `Spec => []TypeOK` |
| | `NonceForwardedOnce` | `OneTable`, `Ttl > 2 * Window + MarkDelay` give `Spec => []AtMostOnceForwarded` |
| | `SlotsVerified` | under the same conditions `Spec => []SlotsOnlyForVerified` |
| | `StatusesTruthful` | `KeepsMarks` gives `Spec => []StatusesAreTruthful` |
| | `DeliveryRefines` | `OneTable`, `Ttl > 2 * Window + MarkDelay` give `Spec => DeliversInStages` |
| `RefreshProxyProofs` | `TypeCorrect` | `Spec => []TypeOK` |
| | `OneSuccessor` | `NeverFallsBack`, `Ttl >= Idle` give `[]RedeemedAtMostOnce` |
| | `OneUsableToken` | under the same conditions `[]OneSpendablePerLogin` |
| | `RotationRefines` | under the same conditions `Spec => TokensRotate` |
| `S2SClientProofs` | `TypeCorrect` | `Spec => []TypeOK` |
| | `MarginIsKept` | `Spec => []MarginHolds` |
| | `OneRetryIsEnough` | `Spec => []RetrySettles` |
| | `SoloRefines` | `Spec => CallsDoNotInterfere` |
| `OrderServiceProofs` | `TypeCorrect` | `Spec => []TypeOK` |
| | `TenantsAreIsolated` | `Spec => []TenantIsolation` |
| | `ContractRefines` | `Spec => AnswersByContract` |
| `TenantRateLimitProofs` | `TypeCorrect` | `Calls` finite gives `Spec => []TypeOK` |
| | `LimitedFairly` | `Calls` finite gives `Spec => []LimitedOnlyBeyondQuota` |
| | `QuotaIsKept` | `Calls` finite and `Expire >= Minute` give `Spec => []QuotaKept` |
| | `CountersLapse` | `Calls` finite gives `Spec => []OldCountersLapse` |
| | `GateRefines` | `Calls` finite and `Expire >= Minute` give `Spec => DecidesByQuota` |
| | `ProductionQuota` | with `Closed` as well `Spec => []TenantQuotaKept` |
| `StartupProofs` | `TypeCorrect` | `Spec => []TypeOK` |
| | `VaultIsCompulsory` | `Spec => []RequiredFromVault` |
| | `NothingLostWithKeys` | `Spec => []KeysBeforeSecrets` |
| `ServiceRoutesProofs` | `TypeCorrect` | `Spec => []TypeOK` |
| | `AdmissionsAreCurrent` | `Spec => AdmissionIsCurrent` |
| | `ClearedUrlsAreAllowed` | `Spec => []ClearedIsAllowed` |
| | `CountersMatch` | `Spec => []CountersAgree` |
| | `WaitersHaveRequests` | `Spec => []NobodyLeftBehind` |
| | `ProcessEnds` | `Spec => EndsHaveCause` |

They hold for any number of instances, calls, keys, users, tenants,
configurations and any times, under the named assumptions of the modules. The
conditions of a theorem are hypotheses in its statement: `NeverFallsBack` says
that Redis is configured and either the deployment fails closed or connects do
not reject; `Closed` is that, or a deployment that fails closed without a Redis;
a deployment fails closed if `SHOPFLOW_ENV` is spelled `production`, and by no other
spelling. `OneTable` is `NeverFallsBack`, or no Redis and all calls on one process
that does not crash; `KeepsMarks` is the same for any number of processes.

Each refinement is proved step by step: the initial states map to initial states,
and every step of the detailed specification is, under its inductive invariant, a
step of the abstract one or a stutter. They are safety specifications, without
fairness.

*Marks.* Where the deployment fails closed, or connects never reject (`Closed`),
no call is ever told to use its process's Map, and the Maps stay empty: that is
the invariant (`MapsEmpty`), from which `FailsClosed` follows. It is false without
that condition, for the spellings that only the configuration checks take for
production (`replay_prod`). `Latest` is then the mark in Redis, and each step is
one of the abstract marker: a `SET` grants or refuses, a lost connection fails
the call with or without a grant, a rejected connect fails all calls of that
client at once, the end of a process lets its calls leave, a restart of Redis
loses what was not on disk. Without `Closed` the refinement is false: a Map and
Redis may both grant a key. `NobodyStranded` is inductive with the fact that a
client has a state other than "none" only while its process runs; it needs no
condition on the deployment.

*Webhook.* `AtMostOnceForwarded` is not inductive: it says nothing of a call
that was granted the nonce and has not forwarded it yet, nor of why no second
grant can come. The invariant adds that a call waiting for its mark checked the
timestamp at most `MarkDelay` ago and within the window; that every mark lies
within `Window + MarkDelay` of the timestamp; and that a nonce has at most one
call between grant and forward, and none once forwarded. A second grant would
need a mark that has lapsed, so `Ttl` after the earliest possible mark, while
the timestamp is still accepted: excluded by the condition on `Ttl`.
`StatusesAreTruthful` needs no timing: a call that is not idle holds a verified
message, and billing's status is in its hand only after billing has handled the
message. What `NONCE_REPLAY` says needs marks that are never lost, `KeepsMarks`:
all of them in Redis, or no Redis and no crash. In `DeliveryRefines` a granted
nonce is the step from sent to slotted: the invariant gives that it was not marked
before. A 502 is told of a message that was forwarded and may still be on its way,
and `StatusesTruthful`'s invariant ties each other status to its stage. With
`OneTable` the same argument covers the lab without Redis, on the Map of one
process that is not restarted, which no run instantiates.

*Refresh.* The mark of a token outlives the token at Keycloak (`Ttl >= Idle`,
and it cannot be issued twice), so there is one grant per token, one exchange,
and one successor. The tokens of a login form a chain, of which only the tip can
be unmarked: `OneTipPerLogin` is the part that makes `OneSpendablePerLogin`
inductive. For `RotationRefines` the passing of time is the abstract `Spend` of
every token that becomes too old at once; that a mark never lapses before its
token does is what keeps a spent token from becoming current again.

*Service-to-service.* The cache never claims a later expiry than the token
has, because the clock was read before the request; a call in hand of a token
knows that it outlives the margin, or, on a retry, that it was issued after the
call's first 401; and a 401 means an expired token or a key no longer in use. That
is also all that `SoloRefines` needs: the invariant says of the token that a call
takes, from the cache or from Keycloak, what `SoloFetch` asks of one.

*Orders.* A request that is about to insert a quote has passed
`checkTenantAccess` for that lot; rows are only ever in a reply to a request
that was entitled to them, and a slot is empty when its request ends. For
`ContractRefines`, `Admitted` carries across the awaits what the checks before
them established: a request at the quota is a tenant member's, and one at its
query or its insert has passed the route's own checks. Every other step of a
handler is a stutter of the contract.

*Quota.* A counter never exceeds the requests that were asked for its key less
those of them that are still undecided, so a verdict above the quota has as many
requests behind it: that gives `LimitedOnlyBeyondQuota`, and is where the finite
number of calls is needed, because the undecided ones are counted. For `QuotaKept`
a live counter must not be lower than what is remembered of it (`passed`). It may
lapse only `Expire` after its last count, which with `Expire >= Minute` is never
within its minute; once the minute is over it may, and the late request that
starts it over is remembered from there on, so nothing bounds how late that
request may be. `OldCountersLapse`
follows from when a counter was last counted, for every length of the minute.
`GateRefines` is both at once: each verdict is one the gate could give, from what
it remembers and what was asked; a counter that starts over late is a gate that
has forgotten a minute that is over; a lapse by itself, a lost reply that was not
executed and a connect change nothing at the gate, and a crash replaces it. Where no
call falls back (`Closed`), no process ever counts (`OnlyRedis`), so the quota of each counter is the tenant's
quota: `ProductionQuota`. Its `TenantQuotaKept` is false in the lab, which is what
`rate_lab` runs, so no run lists it.

*Startup.* The invariant follows a value from where it was read: from the first
read on, a service that needs Vault holds values out of `seen`, and `seen` only
grows until the process ends. `KeysBeforeSecrets` needs the order of the script
(`KeysFirst`): as long as the file does not fit, the script has not got beyond
saving the keys, so this Vault was never open, and of its own tokens none was
issued; tokens of a Vault whose volume was removed have lapsed with it, although
`core/.env` and the containers still hold them.

*Routes.* A key in the cache was published when it was asked for, or withdrawn
at most `LoadTime` before it was cached; a request under way is not older than
`LoadTime`; a call that waits came in after the request it waits for was made,
and a call with its key waited no longer than `LoadTime`. The bounds of
`AdmissionIsCurrent` are the sums of these. A call that asks DNS has a listed
URL and was admitted, which `EndsHaveCause` and `ClearedIsAllowed` rest on, the
former with the fact that only auth-service has a refresh, the latter with the lemma
that the rules for addresses deny exactly the intended ranges, for every address.
`CountersAgree` is inductive with the types of the counters: each step that adds to
`failures` adds at least as much to the total, and as much to one reason. The
theorems that state action properties are proved from the invariant and the step
alone.

Only model-checked is what rests on fairness (`Every...`,
`TenantRequestsAnswered`, `StartsEnd`, `RerunCompletes`): liveness and ENABLED are
beyond the prover. Every invariant, action property and refinement of a passing
run is also a theorem under the conditions above. A theorem about `ReplayMarker` is
not cited for the modules that use the marks through `ReplayStore`: the prover keeps
theorems of an instantiated module opaque, so webhook and refresh carry the facts about marks in their own invariants, from
the shared lemmas about store steps.

## 6. Findings

1. `webhook_default`. The nonce mark lives 300 s, the timestamp window is 300 s
   on either side and inclusive: a message stamped ahead is forwarded again
   after its mark has lapsed (`webhook-authorizer/server.js:23`,
   `webhook-verify.js:6,38`). `webhook_path` and `NonceForwardedOnce` say what
   TTL is enough: more than twice the window plus the marking delay.
2. `replay_prod`. `SHOPFLOW_ENV=PRODUCTION`, or `Production`, or `prod` in any case,
   is production for `security-config.js:4-5`, which lowers the case and knows both
   names, and not for `redis-state.js:31,49`. The repository's own files spell it
   `production`.
3. `order_silent`. An admin whose token has no `tenant_id` gets no response from
   the catalog, vendor, shipment and quote routes
   (`order-service/server.js:100,111,123,134`). The seeded `admin-user` has a
   tenant, so the repository's own scripts do not meet this.
4. `service_total`. A failed check of a user's token counts twice in
   `shopflow_auth_failures_total` (`metrics.js:70-71` after `index.js:88-89` and
   `119-120`), a failed check of a service's token and a replayed refresh token once
   (`m2m-auth.js:58`, `auth-service/server.js:90`). The help text calls it
   "Authentication failures" (`metrics.js:9`); the alert on more than 20 of them in
   five minutes (`core/observability/alerts.yml:5`) fires after eleven failures of
   users.

Seen while reading, without a run:

- The audience check is skipped for a token without `aud` (`index.js:136`; in
  `Reason`) although the comment above it says the audience is always enforced.
- `express.json()` parses and consumes a JSON body before the webhook's
  `express.raw()` (`billing-service/server.js:35,64`; in `BillingStatus`).
- `dns.lookup`, `redisPing` and the `markOnce` of a refresh reject outside any `try`
  (`user-service/server.js:53`, `auth-service/server.js:46,87`; `CallEnds`), and so
  does `refreshTokenKey` for a token that is not a string (`redis-state.js:12,118`):
  the process ends.
- While Redis cannot be reached, a call of `getRedisClient` neither falls back nor
  throws but waits (`redis-state.js:39-46`; `ReachesRedis`).
- A wiped Vault leaves `.vault-init.json` behind; the next run of `init-dev.ps1`
  initialises the new one and overwrites the file, and a token of the old Vault in
  `core/.env` stays if the file has no line for it (`KeysBeforeSecrets`, `Record`).
- `validateSecurityConfig` is content with `VAULT_APP_TOKEN`
  (`security-config.js`), `fetchVaultSecret` looks at `VAULT_TOKEN` only: the
  compose files set the latter from the former, so `token` in `Startup` is one.
- A rerun of `init-dev.ps1` writes the lab's secrets over changed ones
  (`init-dev.ps1:91-104`; `Write`), and services keep what they read before.
- `core/docker-stack.yml` and `core/docker-compose.prod.yml` set
  `SHOPFLOW_ENV: production` for services without giving each of them
  `HMAC_SECRET`, `VAULT_REQUIRED` and a token, which `validateSecurityConfig`
  asks of every service that calls it.

The memory fallback of the lab loses its marks and counters on restart, and
splits them when connections come and go; the documentation says so
(`docs/huongdandemo.md:669`), and the runs claim `DecidesByQuota` for each table
of counters only, and `DeliversInStages` with Redis, or without it of one process
that keeps running (the theorem's `OneTable`).

## 7. What is not modelled

- Timeouts: the code gives Redis, PostgreSQL and `fetch` none; what hangs is left to
  hang, or excluded by a premise or by fairness that [section 4](#4-bounds-and-fairness)
  names.
- Cryptography: a signature matches or does not; a nonce stands for one honest
  message, so altered headers over a signed body are outside the model.
- Redis losing its last writes, in the webhook and refresh modules (`ReplayMarker`
  has it); clocks running backwards.
- `isMarked` and `markUsed`, which nothing calls; growth of the two Maps.
- `/health` (but for the calls it makes in `ServiceRoutes`), `/metrics`, the
  counters of HTTP requests, logging, audit events, correlation ids, response
  bodies, the TLS options of the database connection.
- Bodies that do not parse, except for the webhook's; a response to a client that
  has gone is a response like another.
- The limit on key requests is a choice that the key client may make at any time,
  not a count; how long tokens with unknown key ids keep others waiting is
  therefore not a question to this model.
- Gateway, proxy and realm configuration, deployment, demo and report scripts, the
  observability stack: declarative or sequential, without state of their own that
  interleaves; they appear as external actions where a service depends on them.
- `opa-pep.js`, which no service uses.

## 8. Plan

Done, in this order: the client and the marks, with the abstract marker; the
webhook path; the refresh path; the service-to-service client; the quota; the
order service; startup and the Vault bootstrap; the token checks, the URL rules,
the counters and the stateless routes; the theorems about their invariants; the
abstract specifications of the paths through marks, quota, tokens and orders, and
the proofs that they are implemented.

Next:

1. `OrderService` over `QuotaGate` and an abstraction of `TokenCheck`: its quota is
   three free outcomes now, where the gate knows which of them can occur.
2. The webhook and refresh paths with a Redis that loses its latest writes, and
   properties that count what was lost.
3. An abstract specification of the key clients (an admission needs a key that was
   published within a fixed time), of which `AdmissionIsCurrent` is a consequence.
4. Several services that share a secret and are started at different times, after
   a rotation: who disagrees with whom, and until when.
