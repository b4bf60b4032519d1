---------------------------- MODULE ReplayStore ----------------------------
(***************************************************************************)
(* markOnce of services/shared/redis-state.js: the replay marks that the   *)
(* webhook authorizer (nonces) and the refresh proxy (refresh tokens)      *)
(* share.  In Redis a mark is one SET NX EX; without Redis it is an entry  *)
(* of the process's own Map.  A mark is represented by the time at which   *)
(* it lapses, 0 when there never was one.                                  *)
(***************************************************************************)
EXTENDS RedisClient

CONSTANTS
    Keys,     \* nonces, or hashes of refresh tokens
    Ttl,      \* ttlSeconds of every call (one helper, one TTL per service)
    MaxTime   \* bound on the clock

ASSUME StoreAssumption == Ttl \in Nat \ {0} /\ MaxTime \in Nat

VARIABLES
    now,    \* wall clock, shared by the instances and Redis
    redis,  \* the marks in Redis
    mem,    \* memorySets of each instance
    key     \* the key of each call

storeVars == <<up, client, at, now, redis, mem, key>>

Unmarked == [k \in Keys |-> 0]
Marks    == [Keys -> 0 .. (MaxTime + Ttl)]

StorePhases == ClientPhases \cup {"fresh", "replay"}

StoreTypeOK ==
    /\ up \in [Instances -> BOOLEAN]
    /\ client \in [Instances -> ClientStates]
    /\ now \in 0 .. MaxTime
    /\ redis \in Marks
    /\ mem \in [Instances -> Marks]
    /\ key \in [Calls -> Keys]

\* the entry exists and is younger than its TTL
Live(marks, k) == now < marks[k]

\* (bugs: the TTL in milliseconds; a SET without NX; a TTL too short)
MarkForMillis(marks, k) ==
    IF Live(marks, k) THEN marks ELSE [marks EXCEPT ![k] = now + 1000 * Ttl]
MarkAgain(marks, k) == [marks EXCEPT ![k] = now + Ttl]
MarkBriefly(marks, k) ==
    IF Live(marks, k) THEN marks ELSE [marks EXCEPT ![k] = now + Ttl - 1]

\* SET key 1 NX EX ttl, or the test and set of the Map
Mark(marks, k) ==
    IF Live(marks, k) THEN marks ELSE [marks EXCEPT ![k] = now + Ttl]

Answer(marks, k) == IF Live(marks, k) THEN "replay" ELSE "fresh"

StoreInit ==
    /\ ClientInit
    /\ now = 0
    /\ redis = Unmarked
    /\ mem = [i \in Instances |-> Unmarked]
    /\ key \in [Calls -> Keys]

-----------------------------------------------------------------------------
\* markOnce(k, Ttl) is called by call c
MarkOnce(c, k) ==
    /\ at[c] = "idle"
    /\ up[Host[c]]
    /\ key' = [key EXCEPT ![c] = k]
    /\ GetRedisClient(c)
    /\ UNCHANGED <<up, now, redis, mem>>

\* (bug: the key is looked up, as isMarked does, and not set)
RedisLookup(c) ==
    /\ at[c] = "redis"
    /\ client[Host[c]] = "ready"
    /\ at' = [at EXCEPT ![c] = Answer(redis, key[c])]
    /\ UNCHANGED <<up, client, now, redis, mem, key>>

\* Redis executes the SET and the reply comes back
RedisSet(c) ==
    /\ at[c] = "redis"
    /\ client[Host[c]] = "ready"
    /\ redis' = Mark(redis, key[c])
    /\ at' = [at EXCEPT ![c] = Answer(redis, key[c])]
    /\ UNCHANGED <<up, client, now, mem, key>>

\* The connection drops under the command: await throws, whether or not
\* Redis had executed it
RedisDrop(c) ==
    /\ at[c] = "redis"
    /\ client[Host[c]] = "ready"
    /\ redis' \in {redis, Mark(redis, key[c])}
    /\ at' = [at EXCEPT ![c] = "failed"]
    /\ UNCHANGED <<up, client, now, mem, key>>

\* the fallback: one synchronous read and write of the process's Map
MemoryMark(c) ==
    LET i == Host[c] IN
    /\ at[c] = "memory"
    /\ mem' = [mem EXCEPT ![i] = Mark(mem[i], key[c])]
    /\ at' = [at EXCEPT ![c] = Answer(mem[i], key[c])]
    /\ UNCHANGED <<up, client, now, redis, key>>

StoreStep ==
    \/ \E c \in Calls : RedisSet(c) \/ RedisDrop(c) \/ MemoryMark(c)
    \/ \E i \in Instances :
         /\ ConnectResolved(i) \/ ConnectRejected(i) \/ ConnectionLost(i)
         /\ UNCHANGED <<now, redis, mem, key>>

\* memorySets dies with the process; Redis (append-only file) does not
StoreDie(i) ==
    /\ Die(i)
    /\ mem' = [mem EXCEPT ![i] = Unmarked]
    /\ UNCHANGED <<now, redis, key>>

StoreRestart(i) == Restart(i) /\ UNCHANGED <<now, redis, mem, key>>

StoreTick ==
    /\ now < MaxTime
    /\ now' = now + 1
    /\ UNCHANGED <<up, client, at, redis, mem, key>>
=============================================================================
