-------------------------- MODULE TenantRateLimit --------------------------
(***************************************************************************)
(* tenantRateLimit() of services/shared/index.js and incrementWindow() of  *)
(* redis-state.js: a request of a tenant is counted in a counter of that   *)
(* tenant and minute, and passed on while the count is within the quota.   *)
(* The counters are in Redis, or without it in each process.               *)
(***************************************************************************)
EXTENDS RedisClient

CONSTANTS
    Tenants,
    Rpm,        \* TENANT_RPM
    Minute,     \* length of a minute
    Expire,     \* windowSeconds, the 60 of index.js
    Linger,     \* bound on how long after its minute a request is counted
    MaxAsked,   \* bound on a tenant's requests in a minute
    LastAsk,    \* bound on the time at which requests come in
    MaxTime     \* bound on the clock

ASSUME RateAssumption ==
    /\ Rpm \in Nat /\ MaxAsked \in Nat /\ Linger \in Nat
    /\ LastAsk \in Nat /\ MaxTime \in Nat
    /\ Minute \in Nat \ {0} /\ Expire \in Nat \ {0}
    /\ "redis" \notin Instances

Minutes == 0 .. (MaxTime \div Minute)
Keys    == Tenants \X Minutes

VARIABLES
    now,
    quota,             \* of each call: its tenant and the minute it came in
    count, lapse,      \* Redis: each counter and when it expires
    bucket,            \* memoryCounters of each instance
    asked,             \* requests of each tenant and minute that came in
    passed,            \* those that each counter let pass, see Through
    limited            \* the tenants and minutes in which one got a 429

counters == <<count, lapse, bucket>>
verdicts == <<passed, limited>>
rateRest == <<now, quota, counters, asked, verdicts>>
vars     == <<up, client, at, rateRest>>

\* Where a counter is: in Redis, or in an instance since it was started
Redis    == "redis"
Places   == Instances \cup {Redis}
NoQuota  == <<>>
NoBucket == [start |-> 0, count |-> 0]

TypeOK ==
    /\ up \in [Instances -> BOOLEAN]
    /\ client \in [Instances -> ClientStates]
    /\ at \in [Calls -> ClientPhases]
    /\ now \in 0 .. MaxTime
    /\ quota \in [Calls -> Keys \cup {NoQuota}]
    /\ count \in [Keys -> 0 .. MaxAsked]
    /\ lapse \in [Keys -> 0 .. (MaxTime + Expire)]
    /\ bucket \in [Instances -> [Keys -> [start : 0 .. MaxTime, count : 0 .. MaxAsked]]]
    /\ asked \in [Keys -> 0 .. MaxAsked]
    /\ passed \in [Places -> [Keys -> 0 .. MaxAsked]]
    /\ limited \subseteq Keys

Init ==
    /\ ClientInit
    /\ now = 0
    /\ quota = [c \in Calls |-> NoQuota]
    /\ count = [k \in Keys |-> 0]
    /\ lapse = [k \in Keys |-> 0]
    /\ bucket = [i \in Instances |-> [k \in Keys |-> NoBucket]]
    /\ asked = [k \in Keys |-> 0]
    /\ passed = [p \in Places |-> [k \in Keys |-> 0]]
    /\ limited = {}

\* (bug: the key lacks the minute)
TenantKey(c) == <<quota[c][1], 0>>

\* tenantRateKey(tenantId, windowMinute)
RateKey(c) == quota[c]

\* what INCR starts from
Counted(k) == IF now < lapse[k] THEN count[k] ELSE 0

MinuteOver(k) == k[2] < now \div Minute

\* What the counter of k at p has let through when it counts its n-th request:
\* a counter that starts over after the minute of k has let nothing through,
\* one that starts over before its end has let through what it had
Through(p, k, n) == IF n = 1 /\ MinuteOver(k) THEN 0 ELSE passed[p][k]

\* the middleware is done with the request
Over(c) ==
    /\ at' = [at EXCEPT ![c] = "idle"]
    /\ quota' = [quota EXCEPT ![c] = NoQuota]

\* next()
PassOn(p, k, n) ==
    /\ passed' = [passed EXCEPT ![p][k] = Through(p, k, n) + 1]
    /\ UNCHANGED limited

\* 429
TurnAway(k) == limited' = limited \cup {k} /\ UNCHANGED passed

\* (bug: the count from before the increment is compared)
VerdictBefore(c, p, n) ==
    /\ Over(c)
    /\ IF n - 1 > Rpm THEN TurnAway(quota[c]) ELSE PassOn(p, quota[c], n)

\* the answer of incrementWindow for the counter at p, then next() or 429
Verdict(c, p, n) ==
    /\ Over(c)
    /\ IF n > Rpm THEN TurnAway(quota[c]) ELSE PassOn(p, quota[c], n)

-----------------------------------------------------------------------------
\* A request of tenant t reaches the middleware, up to getRedisClient(); what
\* time is left after LastAsk shows what becomes of it
Ask(c, t) ==
    LET k == <<t, now \div Minute>> IN
    /\ at[c] = "idle" /\ up[Host[c]]
    /\ asked[k] < MaxAsked /\ now <= LastAsk
    /\ asked' = [asked EXCEPT ![k] = @ + 1]
    /\ quota' = [quota EXCEPT ![c] = k]
    /\ GetRedisClient(c)
    /\ UNCHANGED <<up, now, counters, verdicts>>

\* A request whose user has no tenant is passed on uncounted
PassUncounted(c) == at[c] = "idle" /\ up[Host[c]] /\ UNCHANGED vars

\* (bug: EXPIRE is a call of its own, and lost; the counter never lapses)
IncrementOnly(k) ==
    /\ count' = [count EXCEPT ![k] = Counted(k) + 1]
    /\ lapse' = [lapse EXCEPT ![k] = IF Counted(k) = 0 THEN MaxTime + Expire ELSE @]

\* (bug: the window in milliseconds)
IncrementForMillis(k) ==
    /\ count' = [count EXCEPT ![k] = Counted(k) + 1]
    /\ lapse' = [lapse EXCEPT ![k] = now + 1000 * Expire]

\* MULTI, INCR, EXPIRE, EXEC
Increment(k) ==
    /\ count' = [count EXCEPT ![k] = Counted(k) + 1]
    /\ lapse' = [lapse EXCEPT ![k] = now + Expire]

\* Redis executes the transaction and the reply comes back
RedisCount(c) ==
    /\ at[c] = "redis" /\ client[Host[c]] = "ready"
    /\ Increment(RateKey(c))
    /\ Verdict(c, Redis, Counted(RateKey(c)) + 1)
    /\ UNCHANGED <<up, client, now, bucket, asked>>

\* The connection drops: await throws, the transaction executed or not
RedisDrop(c) ==
    /\ at[c] = "redis" /\ client[Host[c]] = "ready"
    /\ LET k == RateKey(c) IN
       \/ /\ Increment(k)
          /\ passed' = [passed EXCEPT ![Redis][k] = Through(Redis, k, Counted(k) + 1)]
       \/ UNCHANGED <<count, lapse, passed>>
    /\ at' = [at EXCEPT ![c] = "failed"]
    /\ UNCHANGED <<up, client, now, quota, bucket, asked, limited>>

\* the fallback: the process's own bucket, reset once it is Expire old
MemoryCount(c) ==
    LET i   == Host[c]
        k   == RateKey(c)
        old == bucket[i][k]
        new == IF old.count = 0 \/ now - old.start >= Expire
               THEN [start |-> now, count |-> 1]
               ELSE [old EXCEPT !.count = @ + 1]
    IN
    /\ at[c] = "memory"
    /\ bucket' = [bucket EXCEPT ![i][k] = new]
    /\ Verdict(c, i, new.count)
    /\ UNCHANGED <<up, client, now, count, lapse, asked>>

\* (bug: the try covers the command and not getRedisClient)
UnavailableIfConnected(c) ==
    /\ at[c] = "failed" /\ client[Host[c]] = "ready"
    /\ Over(c)
    /\ UNCHANGED <<up, client, now, counters, asked, verdicts>>

\* (bug: an error is answered 429)
UnavailableLimits(c) ==
    /\ at[c] = "failed"
    /\ Over(c)
    /\ limited' = limited \cup {quota[c]}
    /\ UNCHANGED <<up, client, now, counters, asked, passed>>

\* incrementWindow threw: 503
Unavailable(c) ==
    /\ at[c] = "failed"
    /\ Over(c)
    /\ UNCHANGED <<up, client, now, counters, asked, verdicts>>

Connect(i) == /\ ConnectResolved(i) \/ ConnectRejected(i) \/ ConnectionLost(i)
              /\ UNCHANGED rateRest

\* memoryCounters dies with the process; a new one starts from nothing
Crash(i) ==
    /\ Die(i)
    /\ bucket' = [bucket EXCEPT ![i] = [k \in Keys |-> NoBucket]]
    /\ passed' = [passed EXCEPT ![i] = [k \in Keys |-> 0]]
    /\ quota' = [c \in Calls |-> IF Host[c] = i THEN NoQuota ELSE quota[c]]
    /\ UNCHANGED <<now, count, lapse, asked, limited>>

Recover(i) == Restart(i) /\ UNCHANGED rateRest

\* The timing assumption: a request is counted within Linger of the end of
\* the minute it came in (nothing in the code bounds a slow Redis)
Tick ==
    /\ now < MaxTime
    /\ \A c \in Calls : at[c] \in Undecided =>
         now + 1 < (quota[c][2] + 1) * Minute + Linger
    /\ now' = now + 1
    /\ UNCHANGED <<up, client, at, quota, counters, asked, verdicts>>

Next ==
    \/ \E c \in Calls, t \in Tenants : Ask(c, t)
    \/ \E c \in Calls : PassUncounted(c)
    \/ \E c \in Calls : RedisCount(c) \/ RedisDrop(c) \/ MemoryCount(c) \/ Unavailable(c)
    \/ \E i \in Instances : Connect(i) \/ Recover(i)
    \/ \E i \in MayCrash : Crash(i)
    \/ Tick

Spec == Init /\ [][Next]_vars

\* The event loop runs, and a connected Redis answers or the connection
\* drops.  Nothing says that a connect ends.
Fairness ==
    \A c \in Calls : /\ WF_vars(RedisCount(c) \/ RedisDrop(c))
                     /\ WF_vars(MemoryCount(c)) /\ WF_vars(Unavailable(c))

FairSpec == Spec /\ Fairness

-----------------------------------------------------------------------------
(***************************************************************************)
(* Properties                                                              *)
(***************************************************************************)
\* However its requests are spread over instances, delayed and interleaved,
\* and even when they are split between Redis and memory, no counter lets a
\* tenant pass more often than its quota of a minute: not within that minute,
\* and not from any later start over of the counter on, for a request that
\* comes to be counted only then (index.js:43-63, redis-state.js:98-114).
\* Needs Expire >= Minute.
QuotaKept == \A p \in Places, k \in Keys : passed[p][k] <= Rpm

\* Where no call is ever counted in a process, that is the tenant's quota over
\* all instances (redis-state.js:29-51, 98-114).
TenantQuotaKept ==
    \A k \in Keys : /\ passed[Redis][k] <= Rpm
                    /\ \A i \in Instances : passed[i][k] = 0

\* A 429 means that the tenant itself sent more than its quota that minute:
\* other tenants, other minutes, retries of lost replies and crashes do not
\* use it up (index.js:50-61).
LimitedOnlyBeyondQuota == \A k \in limited : asked[k] > Rpm

\* No counter outlives its use: every one still live is of a minute whose
\* requests may still be under way or ended at most Expire ago
\* (redis-state.js:101-103).
OldCountersLapse ==
    \A k \in Keys : now < lapse[k] => now < (k[2] + 1) * Minute + Linger + Expire

\* Without its clock and counters the middleware is a gate, in Redis or in a
\* process: it passes a request on only while the gate has let through fewer
\* than the quota, and a gate forgets what it let through when its minute is
\* over and not before; it turns one away only beyond the quota and decides
\* each request once (index.js:43-63, redis-state.js:98-114).
QG == INSTANCE QuotaGate WITH
        wanted <- quota, Gates <- Places, Nothing <- NoQuota,
        over   <- {k \in Keys : MinuteOver(k)}
DecidesByQuota == QG!Spec

\* Every counted request of a process that finds Redis again and again is
\* passed on, limited, or answered 503 (index.js:52-66).
EveryRequestDecided ==
    \A c \in Calls : ReachesRedis(c) => (at[c] # "idle" ~> at[c] = "idle")
=============================================================================
