------------------------ MODULE ReplayMarkerProofs ------------------------
(***************************************************************************)
(* Theorems about ReplayMarker, for every number of instances, calls and   *)
(* keys, and the lemmas about the store that the proofs of its users share.*)
(***************************************************************************)
EXTENDS ReplayMarker, TLAPS

\* Marking keeps a table of marks a table of marks.
LEMMA MarkType ==
    ASSUME NEW marks \in Marks, NEW k \in Keys, now \in 0 .. MaxTime
    PROVE  Mark(marks, k) \in Marks
  <1>1. now + Ttl \in 0 .. (MaxTime + Ttl)
    BY StoreAssumption
  <1> QED
    BY <1>1 DEF Mark, Marks

\* What marking does: the key is marked afterwards, no later than now + Ttl
\* and unchanged if it was live, and every other key is left alone.
LEMMA MarkEffect ==
    ASSUME NEW marks \in Marks, NEW k \in Keys, now \in 0 .. MaxTime
    PROVE  /\ Mark(marks, k)[k] = IF now < marks[k] THEN marks[k] ELSE now + Ttl
           /\ Mark(marks, k)[k] # 0
           /\ \A l \in Keys \ {k} : Mark(marks, k)[l] = marks[l]
           /\ Answer(marks, k) = IF now < marks[k] THEN "replay" ELSE "fresh"
  BY StoreAssumption DEF Mark, Marks, Live, Answer

LEMMA UnmarkedType == Unmarked \in Marks
  BY StoreAssumption DEF Unmarked, Marks

\* A step of the store or of the Redis client keeps the store's types, and
\* gives calls no phase that is not the store's own.
LEMMA StoreStepType ==
    ASSUME StoreTypeOK, StoreStep,
           NEW P, StorePhases \subseteq P, at \in [Calls -> P]
    PROVE  StoreTypeOK' /\ at' \in [Calls -> P]
  <1> USE HostAssumption DEF StoreTypeOK, StorePhases, ClientPhases, ClientStates
  <1>1. ASSUME NEW c \in Calls, RedisSet(c)
        PROVE  StoreTypeOK' /\ at' \in [Calls -> P]
    <2>1. redis' \in Marks
      BY <1>1, MarkType DEF RedisSet
    <2>2. at' \in [Calls -> P]
      BY <1>1 DEF RedisSet, Answer
    <2> QED
      BY <1>1, <2>1, <2>2 DEF RedisSet, Marks
  <1>2. ASSUME NEW c \in Calls, RedisDrop(c)
        PROVE  StoreTypeOK' /\ at' \in [Calls -> P]
    <2>1. redis' \in Marks
      BY <1>2, MarkType DEF RedisDrop
    <2>2. at' \in [Calls -> P]
      BY <1>2 DEF RedisDrop
    <2> QED
      BY <1>2, <2>1, <2>2 DEF RedisDrop, Marks
  <1>3. ASSUME NEW c \in Calls, MemoryMark(c)
        PROVE  StoreTypeOK' /\ at' \in [Calls -> P]
    <2>1. mem' \in [Instances -> Marks]
      BY <1>3, MarkType DEF MemoryMark
    <2>2. at' \in [Calls -> P]
      BY <1>3 DEF MemoryMark, Answer
    <2> QED
      BY <1>3, <2>1, <2>2 DEF MemoryMark, Marks
  <1>4. ASSUME NEW i \in Instances,
               ConnectResolved(i) \/ ConnectRejected(i) \/ ConnectionLost(i),
               UNCHANGED <<now, redis, mem, key>>
        PROVE  StoreTypeOK' /\ at' \in [Calls -> P]
    BY <1>4 DEF ConnectResolved, ConnectRejected, ConnectionLost, NoRedis, Marks
  <1> QED
    BY <1>1, <1>2, <1>3, <1>4 DEF StoreStep

\* Starting markOnce keeps the types.
LEMMA MarkOnceType ==
    ASSUME StoreTypeOK, NEW c \in Calls, NEW k \in Keys, MarkOnce(c, k),
           NEW P, StorePhases \subseteq P, at \in [Calls -> P]
    PROVE  StoreTypeOK' /\ at' \in [Calls -> P]
  BY HostAssumption DEF MarkOnce, GetRedisClient, NoRedis, StoreTypeOK, StorePhases,
     ClientPhases, ClientStates, Marks

\* So does the end of a process.
LEMMA StoreDieType ==
    ASSUME StoreTypeOK, NEW i \in Instances, StoreDie(i),
           NEW P, StorePhases \subseteq P, at \in [Calls -> P]
    PROVE  StoreTypeOK' /\ at' \in [Calls -> P]
  <1>1. mem' \in [Instances -> Marks]
    BY UnmarkedType DEF StoreDie, StoreTypeOK
  <1>2. at' \in [Calls -> P]
    BY DEF StoreDie, Die, StorePhases, ClientPhases
  <1> QED
    BY <1>1, <1>2 DEF StoreDie, Die, StoreTypeOK, ClientStates, Marks

-----------------------------------------------------------------------------
(***************************************************************************)
(* Every state of the marker has its declared shape.                       *)
(***************************************************************************)
USE HostAssumption, EnvAssumption, ModeAssumption, StoreAssumption, UnsyncedAssumption

LEMMA MarkerTypeInit == StoreInit => MarkerTypeOK
  BY DEF StoreInit, ClientInit, MarkerTypeOK, StoreTypeOK, Unmarked, Marks, StorePhases,
         ClientPhases, ClientStates

LEMMA MarkerTypeStep == MarkerTypeOK /\ [MarkerNext]_storeVars => MarkerTypeOK'
  <1> SUFFICES ASSUME MarkerTypeOK, [MarkerNext]_storeVars PROVE MarkerTypeOK'
    OBVIOUS
  <1>t. StoreTypeOK /\ at \in [Calls -> StorePhases]
    BY DEF MarkerTypeOK
  <1>1. ASSUME NEW c \in Calls, NEW k \in Keys, MarkOnce(c, k) PROVE MarkerTypeOK'
    BY <1>1, <1>t, MarkOnceType DEF MarkerTypeOK
  <1>2. ASSUME Decide PROVE MarkerTypeOK'
    BY <1>2, <1>t, StoreStepType DEF Decide, MarkerTypeOK
  <1>3. ASSUME NEW c \in Calls, Return(c) PROVE MarkerTypeOK'
    BY <1>3, <1>t DEF Return, MarkerTypeOK, StoreTypeOK, Marks, StorePhases, ClientPhases
  <1>4. ASSUME NEW i \in MayCrash, StoreDie(i) PROVE MarkerTypeOK'
    BY <1>4, <1>t, StoreDieType DEF MarkerTypeOK
  <1>5. ASSUME NEW i \in MayCrash, StoreRestart(i) PROVE MarkerTypeOK'
    BY <1>5, <1>t DEF StoreRestart, Restart, MarkerTypeOK, StoreTypeOK, Marks
  <1>6. CASE RedisRestarts
    <2>1. redis' \in Marks
      BY <1>6, <1>t DEF RedisRestarts, StoreTypeOK, Marks
    <2> QED
      BY <1>6, <2>1, <1>t DEF RedisRestarts, MarkerTypeOK, StoreTypeOK, Marks
  <1>7. CASE StoreTick
    BY <1>7, <1>t DEF StoreTick, MarkerTypeOK, StoreTypeOK, Marks
  <1>8. CASE UNCHANGED storeVars
    BY <1>8, <1>t DEF storeVars, MarkerTypeOK, StoreTypeOK, Marks
  <1> QED
    BY <1>1, <1>2, <1>3, <1>4, <1>5, <1>6, <1>7, <1>8 DEF MarkerNext

\* Calls, marks and clients keep their types for every value of the constants
\* (redis-state.js:26-87).
THEOREM MarkerTypeCorrect == MarkerSpec => []MarkerTypeOK
  BY MarkerTypeInit, MarkerTypeStep, PTL DEF MarkerSpec

-----------------------------------------------------------------------------
(***************************************************************************)
(* Where no call ever falls back, nothing is in any process's own Map.     *)
(***************************************************************************)
\* The deployments this holds in: getRedisClient knows the spelling of
\* production, or never has a reason to fall back
Closed == FailClosed(Env) \/ NeverFallsBack

MapsEmpty ==
    /\ \A c \in Calls : at[c] # "memory"
    /\ \A i \in Instances : mem[i] = Unmarked

LEMMA MapsEmptyInit == StoreInit => MapsEmpty
  BY DEF StoreInit, ClientInit, MapsEmpty

LEMMA MapsEmptyStep ==
  ASSUME Closed, MarkerTypeOK, MapsEmpty, [MarkerNext]_storeVars
  PROVE  MapsEmpty'
  <1>t. /\ at \in [Calls -> StorePhases] /\ mem \in [Instances -> Marks]
        /\ \A c \in Calls : at[c] # "memory"
        /\ \A i \in Instances : mem[i] = Unmarked
    BY DEF MarkerTypeOK, StoreTypeOK, MapsEmpty
  <1>0. ASSUME \A c \in Calls : at'[c] = "memory" => at[c] = "memory",
               UNCHANGED mem
        PROVE  MapsEmpty'
    BY <1>0, <1>t DEF MapsEmpty
  <1>1. ASSUME NEW c \in Calls, NEW k \in Keys, MarkOnce(c, k) PROVE MapsEmpty'
    <2>1. at'[c] # "memory" /\ \A d \in Calls \ {c} : at'[d] = at[d]
      BY <1>1, <1>t DEF MarkOnce, GetRedisClient, NoRedis, Closed, NeverFallsBack
    <2> QED
      BY <1>0, <1>1, <2>1 DEF MarkOnce
  <1>2. ASSUME NEW c \in Calls, RedisSet(c) \/ RedisDrop(c) PROVE MapsEmpty'
    <2>1. at'[c] # "memory" /\ \A d \in Calls \ {c} : at'[d] = at[d]
      BY <1>2, <1>t DEF RedisSet, RedisDrop, Answer
    <2> QED
      BY <1>0, <1>2, <2>1 DEF RedisSet, RedisDrop
  <1>3. ASSUME NEW c \in Calls, MemoryMark(c) PROVE MapsEmpty'
    BY <1>3, <1>t DEF MemoryMark
  <1>4. ASSUME NEW i \in Instances,
               ConnectResolved(i) \/ ConnectRejected(i) \/ ConnectionLost(i),
               UNCHANGED <<now, redis, mem, key>>
        PROVE  MapsEmpty'
    <2>1. \A c \in Calls : at'[c] # "memory"
      BY <1>4, <1>t DEF ConnectResolved, ConnectRejected, ConnectionLost, NoRedis, Closed,
         NeverFallsBack
    <2> QED
      BY <1>0, <1>4, <2>1
  <1>5. ASSUME NEW c \in Calls, Return(c) PROVE MapsEmpty'
    BY <1>0, <1>5, <1>t DEF Return
  <1>6. ASSUME NEW i \in MayCrash, StoreDie(i) PROVE MapsEmpty'
    BY <1>6, <1>t DEF StoreDie, Die, MapsEmpty
  <1>7. ASSUME NEW i \in MayCrash, StoreRestart(i) PROVE MapsEmpty'
    BY <1>0, <1>7 DEF StoreRestart, Restart
  <1>8. CASE RedisRestarts \/ StoreTick \/ UNCHANGED storeVars
    BY <1>0, <1>8 DEF RedisRestarts, StoreTick, storeVars
  <1> QED
    BY <1>1, <1>2, <1>3, <1>4, <1>5, <1>6, <1>7, <1>8 DEF MarkerNext, Decide, StoreStep

\* Where production is spelled the one way getRedisClient knows, or where a
\* connect to a configured Redis is never rejected, no decision of a
\* deployment that counts as production is taken from a process's own Map:
\* for any number of instances, calls and keys, whatever connects, drops and
\* dies.  Another spelling, which security-config.js:4-5 counts as production
\* all the same, has nothing but the second condition to rest on
\* (redis-state.js:29-33, 49-51).
THEOREM FailsClosed ==
    ASSUME Closed PROVE MarkerSpec => []ProductionFailsClosed
  <1>1. MarkerTypeOK /\ MapsEmpty => ProductionFailsClosed
    BY DEF MapsEmpty, ProductionFailsClosed
  <1>2. StoreInit => MarkerTypeOK /\ MapsEmpty
    BY MarkerTypeInit, MapsEmptyInit
  <1>3. MarkerTypeOK /\ MapsEmpty /\ [MarkerNext]_storeVars => (MarkerTypeOK /\ MapsEmpty)'
    BY MarkerTypeStep, MapsEmptyStep
  <1> QED
    BY <1>1, <1>2, <1>3, PTL DEF MarkerSpec

-----------------------------------------------------------------------------
(***************************************************************************)
(* The refinement.  With empty Maps the abstract mark of a key is the one  *)
(* in Redis, and every step is a step of the abstract marker or none.      *)
(***************************************************************************)
expiryOf  == [k \in Keys |-> Latest(k)]
verdictOf == [c \in Calls |-> Told(at[c])]

LEMMA MarksAreRedis ==
  ASSUME MarkerTypeOK, MapsEmpty PROVE expiryOf = redis
  <1>1. redis \in [Keys -> 0 .. (MaxTime + Ttl)]
    BY DEF MarkerTypeOK, StoreTypeOK, Marks
  <1>2. ASSUME NEW k \in Keys PROVE Latest(k) = redis[k]
    <2> DEFINE held == {redis[k]} \cup {mem[i][k] : i \in Instances}
    <2>1. /\ redis[k] \in held /\ redis[k] \in Int
          /\ \A t \in held : t \in Int /\ t <= redis[k]
      BY <1>1 DEF MapsEmpty, Unmarked
    <2> HIDE DEF held
    <2>2. \A t \in held : (\A u \in held : u <= t) => t = redis[k]
      BY <2>1
    <2>3. (CHOOSE t \in held : \A u \in held : u <= t) = redis[k]
      BY <2>1, <2>2
    <2> QED
      BY <2>3 DEF held, Latest
  <1> QED
    BY <1>1, <1>2 DEF expiryOf

LEMMA MarksAreRedisPrime ==
  ASSUME MarkerTypeOK', MapsEmpty' PROVE expiryOf' = redis'
  <1>1. redis' \in [Keys -> 0 .. (MaxTime + Ttl)]
    BY DEF MarkerTypeOK, StoreTypeOK, Marks
  <1>2. ASSUME NEW k \in Keys PROVE Latest(k)' = redis'[k]
    <2> DEFINE held == {redis'[k]} \cup {mem'[i][k] : i \in Instances}
    <2>1. /\ redis'[k] \in held /\ redis'[k] \in Int
          /\ \A t \in held : t \in Int /\ t <= redis'[k]
      BY <1>1 DEF MapsEmpty, Unmarked
    <2> HIDE DEF held
    <2>2. \A t \in held : (\A u \in held : u <= t) => t = redis'[k]
      BY <2>1
    <2>3. (CHOOSE t \in held : \A u \in held : u <= t) = redis'[k]
      BY <2>1, <2>2
    <2> QED
      BY <2>3 DEF held, Latest
  <1> QED
    BY <1>1, <1>2 DEF expiryOf

LEMMA AbstractInit == MarkerTypeOK /\ MapsEmpty /\ StoreInit => OM!Init
  <1> SUFFICES ASSUME MarkerTypeOK, MapsEmpty, StoreInit PROVE OM!Init
    OBVIOUS
  <1>1. [k \in Keys |-> Latest(k)] = [k \in Keys |-> 0]
    BY MarksAreRedis DEF expiryOf, StoreInit, Unmarked
  <1>2. [c \in Calls |-> Told(at[c])] = [c \in Calls |-> "none"]
    BY DEF StoreInit, ClientInit, Told
  <1> QED
    BY <1>1, <1>2 DEF OM!Init, StoreInit

LEMMA AbstractStep ==
  ASSUME Closed, MarkerTypeOK, MapsEmpty, MarkerTypeOK', MapsEmpty', [MarkerNext]_storeVars
  PROVE  [OM!Next]_(OM!vars)
  <1>t. /\ at \in [Calls -> StorePhases] /\ at' \in [Calls -> StorePhases]
        /\ key \in [Calls -> Keys] /\ redis \in Marks /\ now \in 0 .. MaxTime
        /\ \A c \in Calls : at[c] # "memory"
        /\ \A c \in Calls : Host[c] \in Instances
    BY DEF MarkerTypeOK, StoreTypeOK, MapsEmpty
  <1>e. /\ [k \in Keys |-> Latest(k)] = redis
        /\ [k \in Keys |-> Latest(k)]' = redis'
    BY MarksAreRedis, MarksAreRedisPrime DEF expiryOf
  <1>1. ASSUME NEW c \in Calls, NEW k \in Keys, MarkOnce(c, k) PROVE OM!Ask(c, k)
    <2>1. /\ at[c] = "idle" /\ at'[c] \in {"waiting", "redis", "failed"}
          /\ \A d \in Calls \ {c} : at'[d] = at[d]
      BY <1>1, <1>t DEF MarkOnce, GetRedisClient, NoRedis, Closed, NeverFallsBack
    <2>2. /\ Told(at[c]) = "none" /\ Told(at'[c]) \in {"pending", "failed"}
          /\ \A d \in Calls \ {c} : Told(at'[d]) = Told(at[d])
      BY <2>1 DEF Told, Undecided
    <2>3. /\ key' = [key EXCEPT ![c] = k] /\ UNCHANGED <<now, redis>>
      BY <1>1 DEF MarkOnce
    <2> QED
      BY <2>2, <2>3, <1>e DEF OM!Ask
  <1>2. ASSUME NEW c \in Calls, RedisSet(c) PROVE OM!Grant(c) \/ OM!Refuse(c)
    <2> DEFINE k == key[c]
    <2>1. /\ at[c] = "redis" /\ k \in Keys /\ UNCHANGED <<now, key>>
          /\ \A d \in Calls \ {c} : at'[d] = at[d]
          /\ at'[c] = Answer(redis, k) /\ redis' = Mark(redis, k)
      BY <1>2, <1>t DEF RedisSet
    <2>2. /\ Told(at[c]) = "pending"
          /\ \A d \in Calls \ {c} : Told(at'[d]) = Told(at[d])
      BY <2>1 DEF Told, Undecided
    <2>3. CASE now < redis[k]
      <3>1. at'[c] = "replay" /\ redis' = redis
        BY <2>1, <2>3 DEF Answer, Mark, Live
      <3>2. Told(at'[c]) = "replay"
        BY <3>1 DEF Told, Undecided
      <3> QED
        BY <2>1, <2>2, <2>3, <3>1, <3>2, <1>e DEF OM!Refuse, OM!Marked
    <2>4. CASE ~(now < redis[k])
      <3>1. at'[c] = "fresh" /\ redis' = [redis EXCEPT ![k] = now + Ttl]
        BY <2>1, <2>4 DEF Answer, Mark, Live
      <3>2. Told(at'[c]) = "fresh"
        BY <3>1 DEF Told, Undecided
      <3> QED
        BY <2>1, <2>2, <2>4, <3>1, <3>2, <1>e DEF OM!Grant, OM!Marked
    <2> QED
      BY <2>3, <2>4
  <1>3. ASSUME NEW c \in Calls, RedisDrop(c) PROVE OM!Grant(c) \/ OM!Fail({c})
    <2> DEFINE k == key[c]
    <2>1. /\ at[c] = "redis" /\ at'[c] = "failed" /\ k \in Keys /\ UNCHANGED <<now, key>>
          /\ \A d \in Calls \ {c} : at'[d] = at[d]
      BY <1>3, <1>t DEF RedisDrop
    <2>2. /\ Told(at[c]) = "pending" /\ Told(at'[c]) = "failed"
          /\ \A d \in Calls \ {c} : Told(at'[d]) = Told(at[d])
      BY <2>1 DEF Told, Undecided
    <2>3. CASE redis' = redis
      BY <2>1, <2>2, <2>3, <1>e DEF OM!Fail
    <2>4. CASE redis' # redis
      <3>1. ~(now < redis[k]) /\ redis' = [redis EXCEPT ![k] = now + Ttl]
        BY <1>3, <2>4 DEF RedisDrop, Mark, Live
      <3> QED
        BY <2>1, <2>2, <3>1, <1>e DEF OM!Grant, OM!Marked
    <2> QED
      BY <2>3, <2>4
  <1>4. ASSUME NEW i \in Instances,
               ConnectResolved(i) \/ ConnectRejected(i) \/ ConnectionLost(i),
               UNCHANGED <<now, redis, mem, key>>
        PROVE  OM!Fail({c \in Calls : at[c] \in {"waiting", "redis"} /\ at'[c] = "failed"})
    <2> DEFINE C == {c \in Calls : at[c] \in {"waiting", "redis"} /\ at'[c] = "failed"}
    <2>1. ASSUME NEW c \in Calls
          PROVE  \/ c \in C
                 \/ at'[c] = at[c]
                 \/ at[c] \in {"waiting", "redis"} /\ at'[c] \in {"waiting", "redis"}
      BY <1>4, <1>t DEF ConnectResolved, ConnectRejected, ConnectionLost, NoRedis, Closed,
         NeverFallsBack
    <2>2. \A c \in C : Told(at[c]) = "pending" /\ Told(at'[c]) = "failed"
      BY DEF Told, Undecided
    <2>3. \A c \in Calls \ C : Told(at'[c]) = Told(at[c])
      BY <2>1 DEF Told, Undecided
    <2> HIDE DEF C
    <2>4. C \subseteq Calls
      BY DEF C
    <2>5. OM!Fail(C)
      BY <1>4, <2>2, <2>3, <2>4, <1>e DEF OM!Fail
    <2> QED
      BY <2>5 DEF C
  <1>5. ASSUME NEW c \in Calls, MemoryMark(c) PROVE FALSE
    BY <1>5, <1>t DEF MemoryMark
  <1>6. ASSUME NEW c \in Calls, Return(c) PROVE OM!Leave({c})
    <2>1. Told(at'[c]) = "none" /\ \A d \in Calls \ {c} : Told(at'[d]) = Told(at[d])
      BY <1>6, <1>t DEF Return, Told
    <2> QED
      BY <1>6, <2>1, <1>e DEF OM!Leave, Return
  <1>7. ASSUME NEW i \in MayCrash, StoreDie(i) PROVE OM!Leave({c \in Calls : Host[c] = i})
    <2>1. \A c \in Calls : Told(at'[c]) = IF Host[c] = i THEN "none" ELSE Told(at[c])
      BY <1>7, <1>t DEF StoreDie, Die, Told
    <2> QED
      BY <1>7, <2>1, <1>e DEF OM!Leave, StoreDie
  <1>8. ASSUME RedisRestarts PROVE \E K \in SUBSET Keys : OM!Lose(K)
    <2>1. PICK K \in SUBSET {k \in Keys : now < redis[k] - Ttl + Unsynced} :
            redis' = [k \in Keys |-> IF k \in K THEN 0 ELSE redis[k]]
      BY <1>8 DEF RedisRestarts
    <2>2. UNCHANGED <<at, now, key>>
      BY <1>8 DEF RedisRestarts
    <2>3. OM!Lose(K)
      BY <2>1, <2>2, <1>e DEF OM!Lose
    <2> QED
      BY <2>1, <2>3
  <1>9. ASSUME StoreTick PROVE OM!Tick
    BY <1>9, <1>e DEF StoreTick, OM!Tick
  <1>10. ASSUME (\E i \in MayCrash : StoreRestart(i)) \/ UNCHANGED storeVars
         PROVE  UNCHANGED OM!vars
    <2>1. UNCHANGED <<at, now, redis, key>>
      BY <1>10 DEF StoreRestart, Restart, storeVars
    <2> QED
      BY <2>1, <1>e DEF OM!vars
  <1>11. ASSUME NEW C \in SUBSET Calls, OM!Fail(C) \/ OM!Leave(C) PROVE OM!Next
    BY <1>11 DEF OM!Next
  <1>12. CASE Decide
    <2>1. ASSUME NEW c \in Calls, RedisSet(c) \/ RedisDrop(c) PROVE OM!Next
      BY <1>2, <1>3, <1>11, <2>1 DEF OM!Next
    <2>2. ASSUME NEW i \in Instances,
                 ConnectResolved(i) \/ ConnectRejected(i) \/ ConnectionLost(i),
                 UNCHANGED <<now, redis, mem, key>>
          PROVE  OM!Next
      BY <1>4, <1>11, <2>2
    <2> QED
      BY <1>5, <1>12, <2>1, <2>2 DEF Decide, StoreStep
  <1>13. CASE \E c \in Calls, k \in Keys : MarkOnce(c, k)
    BY <1>1, <1>13 DEF OM!Next
  <1>14. CASE \E c \in Calls : Return(c)
    <2>1. PICK c \in Calls : OM!Leave({c})
      BY <1>6, <1>14
    <2>2. {c} \in SUBSET Calls
      BY <2>1
    <2> QED
      BY <1>11, <2>1, <2>2
  <1>15. CASE \E i \in MayCrash : StoreDie(i)
    BY <1>7, <1>11, <1>15
  <1>16. CASE RedisRestarts \/ StoreTick
    BY <1>8, <1>9, <1>16 DEF OM!Next
  <1>17. CASE (\E i \in MayCrash : StoreRestart(i)) \/ UNCHANGED storeVars
    BY <1>10, <1>17
  <1>18. \/ \E c \in Calls, k \in Keys : MarkOnce(c, k)
         \/ Decide \/ \E c \in Calls : Return(c)
         \/ \E i \in MayCrash : StoreDie(i)
         \/ RedisRestarts \/ StoreTick
         \/ (\E i \in MayCrash : StoreRestart(i)) \/ UNCHANGED storeVars
    BY DEF MarkerNext
  <1> QED
    BY <1>12, <1>13, <1>14, <1>15, <1>16, <1>17, <1>18

\* In a deployment that never falls back to process memory, or fails closed,
\* no caller can tell markOnce from the abstract marker: for any number of
\* instances, calls and keys, over crashes, lost connections and a Redis that
\* loses its latest writes (redis-state.js:26-55, 74-87).
THEOREM MarkerRefines ==
    ASSUME Closed PROVE MarkerSpec => MarksOnce
  <1>1. StoreInit => MarkerTypeOK /\ MapsEmpty
    BY MarkerTypeInit, MapsEmptyInit
  <1>2. MarkerTypeOK /\ MapsEmpty /\ [MarkerNext]_storeVars => (MarkerTypeOK /\ MapsEmpty)'
    BY MarkerTypeStep, MapsEmptyStep
  <1>3. MarkerTypeOK /\ MapsEmpty /\ StoreInit => OM!Init
    BY AbstractInit
  <1>4. MarkerTypeOK /\ MapsEmpty /\ (MarkerTypeOK /\ MapsEmpty)' /\ [MarkerNext]_storeVars
        => [OM!Next]_(OM!vars)
    BY AbstractStep
  <1> QED
    BY <1>1, <1>2, <1>3, <1>4, PTL DEF MarkerSpec, MarksOnce, OM!Spec
-----------------------------------------------------------------------------
(***************************************************************************)
(* Nobody is stranded.  Which client a call depends on is settled by the   *)
(* synchronous part of getRedisClient and by the two ends of a connect.    *)
(***************************************************************************)
LEMMA StrandedInit == StoreInit => NobodyStranded
  BY DEF StoreInit, ClientInit, NobodyStranded

LEMMA StrandedStep ==
  ASSUME MarkerTypeOK, NobodyStranded, [MarkerNext]_storeVars PROVE NobodyStranded'
  <1>t. /\ at \in [Calls -> StorePhases] /\ \A c \in Calls : Host[c] \in Instances
        /\ client \in [Instances -> ClientStates] /\ up \in [Instances -> BOOLEAN]
    BY DEF MarkerTypeOK, StoreTypeOK
  <1>1. ASSUME NEW c \in Calls, at[c] # "idle" \/ up[Host[c]],
               \A d \in Calls \ {c} : at'[d] = at[d],
               at'[c] \notin {"waiting", "redis"}, UNCHANGED <<up, client>>
        PROVE  NobodyStranded'
    BY <1>1 DEF NobodyStranded
  <1>2. ASSUME NEW c \in Calls, NEW k \in Keys, MarkOnce(c, k) PROVE NobodyStranded'
    <2>1. at[c] = "idle" /\ up[Host[c]] /\ UNCHANGED up /\ GetRedisClient(c)
      BY <1>2 DEF MarkOnce
    <2>2. /\ \A d \in Calls \ {c} : at'[d] = at[d]
          /\ \A i \in Instances \ {Host[c]} : client'[i] = client[i]
          /\ \/ client'[Host[c]] = client[Host[c]]
             \/ client[Host[c]] \in {"none", "connecting"} /\ client'[Host[c]] = "connecting"
      BY <2>1, <1>t DEF GetRedisClient
    <2>3. /\ at'[c] = "waiting" => client'[Host[c]] = "connecting"
          /\ at'[c] = "redis" => client'[Host[c]] # "none"
      BY <2>1, <1>t DEF GetRedisClient, NoRedis
    <2> QED
      BY <2>1, <2>2, <2>3, <1>t DEF NobodyStranded, ClientStates
  <1>3. ASSUME NEW c \in Calls, RedisSet(c) \/ RedisDrop(c) \/ MemoryMark(c) \/ Return(c)
        PROVE  NobodyStranded'
    <2>1. /\ at[c] # "idle" /\ at'[c] \notin {"waiting", "redis"} /\ UNCHANGED <<up, client>>
          /\ \A d \in Calls \ {c} : at'[d] = at[d]
      BY <1>3, <1>t DEF RedisSet, RedisDrop, MemoryMark, Return, Answer
    <2> QED
      BY <2>1, <1>1
  <1>4. ASSUME NEW i \in Instances, ConnectResolved(i) \/ ConnectionLost(i)
        PROVE  NobodyStranded'
    BY <1>4, <1>t DEF ConnectResolved, ConnectionLost, NobodyStranded, Disconnected
  <1>5. ASSUME NEW i \in Instances, ConnectRejected(i) PROVE NobodyStranded'
    BY <1>5, <1>t DEF ConnectRejected, NoRedis, NobodyStranded
  <1>6. ASSUME NEW i \in Instances, StoreDie(i) PROVE NobodyStranded'
    BY <1>6, <1>t DEF StoreDie, Die, NobodyStranded
  <1>7. ASSUME NEW i \in Instances, StoreRestart(i) PROVE NobodyStranded'
    BY <1>7, <1>t DEF StoreRestart, Restart, NobodyStranded
  <1>8. CASE RedisRestarts \/ StoreTick \/ UNCHANGED storeVars
    BY <1>8 DEF RedisRestarts, StoreTick, storeVars, NobodyStranded
  <1> QED
    BY <1>2, <1>3, <1>4, <1>5, <1>6, <1>7, <1>8 DEF MarkerNext, Decide, StoreStep

\* No call is ever left on a connectPromise that has ended or on a client
\* that is gone, whatever connects reject and processes die: for any number
\* of instances and calls (redis-state.js:36-54).
THEOREM NoCallStranded == MarkerSpec => []NobodyStranded
  <1>1. MarkerTypeOK /\ NobodyStranded /\ [MarkerNext]_storeVars
        => (MarkerTypeOK /\ NobodyStranded)'
    BY MarkerTypeStep, StrandedStep
  <1> QED
    BY MarkerTypeInit, StrandedInit, <1>1, PTL DEF MarkerSpec
=============================================================================
