---------------------------- MODULE RedisClient ----------------------------
(***************************************************************************)
(* The part of services/shared/redis-state.js every stateful helper goes   *)
(* through first: getRedisClient().  Each service instance is one Node     *)
(* process with one lazily connected client; a call is one asynchronous    *)
(* helper invocation, running in the instance Host gives it.  The modules  *)
(* that extend this one add what the call does with the client.            *)
(***************************************************************************)
EXTENDS Integers, FiniteSets

CONSTANTS
    Instances,         \* processes that share one Redis
    Calls,             \* slots for concurrent helper invocations
    Host,              \* the instance each slot belongs to
    Env,               \* the value of SHOPFLOW_ENV
    RedisUrl,          \* is REDIS_URL set?
    ConnectMayReject,  \* may client.connect() reject (external library)?
    MayCrash           \* the instances that may crash

\* Spellings of SHOPFLOW_ENV, as an operator writes them
Environments ==
    {"production", "Production", "PRODUCTION", "prod", "Prod", "PROD", "lab"}

ASSUME HostAssumption == Host \in [Calls -> Instances]
ASSUME EnvAssumption  == Env \in Environments
ASSUME ModeAssumption == /\ RedisUrl \in BOOLEAN
                         /\ ConnectMayReject \in BOOLEAN
                         /\ MayCrash \subseteq Instances

VARIABLES
    up,      \* is the instance's process running?
    client,  \* redisClient and connectPromise of each instance
    at       \* where each call is

(***************************************************************************)
(* "waiting" awaits connectPromise, "redis" holds a client and has issued  *)
(* its command, "memory" has been told to fall back, "failed" has thrown.  *)
(***************************************************************************)
ClientPhases == {"idle", "waiting", "redis", "memory", "failed"}
Undecided    == {"waiting", "redis", "memory"}

(***************************************************************************)
(* A client that is "connecting" has never been connected: node-redis      *)
(* retries for as long as Redis is out of reach, with connect() pending.   *)
(* A "reconnecting" one has lost a connection, and is open all the same.   *)
(***************************************************************************)
ClientStates == {"none", "connecting", "ready", "reconnecting"}
Disconnected == {"connecting", "reconnecting"}

\* toLowerCase() on those spellings
Lowercase(e) == CASE e \in {"Production", "PRODUCTION"} -> "production"
                  [] e \in {"Prod", "PROD"}             -> "prod"
                  [] OTHER                              -> e

\* validateSecurityConfig and the rest of the code count as production either
\* name, in any case
IsProductionEnv(e) == Lowercase(e) \in {"production", "prod"}

\* getRedisClient compares the variable, as it is spelled, with one literal
FailClosed(e) == e = "production"

\* (bug: the check of the environment is missing)
NoRedisUnchecked(e) == "memory"

\* the catch of getRedisClient, and its branch for a missing REDIS_URL
NoRedis(e) == IF FailClosed(e) THEN "failed" ELSE "memory"

\* The deployments in which no call ever falls back to its process's memory
NeverFallsBack == RedisUrl /\ (FailClosed(Env) \/ ~ConnectMayReject)

ClientInit ==
    /\ up = [i \in Instances |-> TRUE]
    /\ client = [i \in Instances |-> "none"]
    /\ at = [c \in Calls |-> "idle"]

(***************************************************************************)
(* The synchronous part of getRedisClient, run when call c starts.  The    *)
(* first caller creates the client and awaits connectPromise.  node-redis  *)
(* reports isOpen from the start of connect() on, whether connected or     *)
(* not, and then later callers get the client at once and their command    *)
(* queues; they await otherwise.                                           *)
(***************************************************************************)
GetRedisClient(c) ==
    LET i == Host[c] IN
    \/ /\ ~RedisUrl
       /\ at' = [at EXCEPT ![c] = NoRedis(Env)]
       /\ UNCHANGED client
    \/ /\ RedisUrl
       /\ client[i] # "none"
       /\ at' = [at EXCEPT ![c] = "redis"]
       /\ UNCHANGED client
    \/ /\ RedisUrl
       /\ client[i] \in {"none", "connecting"}
       /\ client' = [client EXCEPT ![i] = "connecting"]
       /\ at' = [at EXCEPT ![c] = "waiting"]

\* The client is connected, for the first time (connectPromise resolves and
\* every waiter goes on with it) or anew
ConnectResolved(i) ==
    /\ client[i] \in Disconnected
    /\ client' = [client EXCEPT ![i] = "ready"]
    /\ at' = [c \in Calls |-> IF Host[c] = i /\ at[c] = "waiting"
                              THEN "redis" ELSE at[c]]
    /\ UNCHANGED up

\* The connection goes, after the commands in flight on it were rejected
\* (each of these is a step of its own); the library reconnects on its own
ConnectionLost(i) ==
    /\ client[i] = "ready"
    /\ \A c \in Calls : Host[c] = i => at[c] # "redis"
    /\ client' = [client EXCEPT ![i] = "reconnecting"]
    /\ UNCHANGED <<up, at>>

\* (bug: waiters listen for the client to be ready, and hear of nothing else)
ConnectRejectedUnheard(i) ==
    /\ ConnectMayReject
    /\ client[i] = "connecting"
    /\ client' = [client EXCEPT ![i] = "none"]
    /\ at' = [c \in Calls |-> IF Host[c] = i /\ at[c] = "redis"
                              THEN "failed" ELSE at[c]]
    /\ UNCHANGED up

\* connectPromise rejects: the catch forgets the promise so that the next
\* call retries, every waiter falls back or throws, queued commands throw
ConnectRejected(i) ==
    /\ ConnectMayReject
    /\ client[i] = "connecting"
    /\ client' = [client EXCEPT ![i] = "none"]
    /\ at' = [c \in Calls |->
                IF Host[c] # i THEN at[c]
                ELSE IF at[c] = "waiting" THEN NoRedis(Env)
                ELSE IF at[c] = "redis" THEN "failed"
                ELSE at[c]]
    /\ UNCHANGED up

\* The process dies: its calls, its client and its module state are gone
Die(i) ==
    /\ up[i]
    /\ up' = [up EXCEPT ![i] = FALSE]
    /\ client' = [client EXCEPT ![i] = "none"]
    /\ at' = [c \in Calls |-> IF Host[c] = i THEN "idle" ELSE at[c]]

Restart(i) ==
    /\ ~up[i]
    /\ up' = [up EXCEPT ![i] = TRUE]
    /\ UNCHANGED <<client, at>>

-----------------------------------------------------------------------------
\* Nobody waits for something that can no longer come: a call awaits a
\* connectPromise only while its process connects, and has a command queued
\* or sent only on a client that lives.  A rejected connect, which makes the
\* next call start over, leaves no one behind (redis-state.js:36-54).
NobodyStranded ==
    \A c \in Calls :
        /\ at[c] = "waiting" => client[Host[c]] = "connecting"
        /\ at[c] = "redis" => client[Host[c]] # "none"
        /\ at[c] # "idle" => up[Host[c]]

\* The process of call c finds Redis again and again: it is not left for ever
\* with a connect that neither succeeds nor gives up.  No timer of the code
\* bounds that wait, so what is said of calls that end says it under this
\* condition (redis-state.js:39, 43, 46).
ReachesRedis(c) == []<>(client[Host[c]] \notin Disconnected)
=============================================================================
