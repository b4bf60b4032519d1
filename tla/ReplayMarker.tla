---------------------------- MODULE ReplayMarker ----------------------------
(***************************************************************************)
(* markOnce on its own, with callers that ask for any key at any time, and *)
(* the proof obligation of the helper: callers cannot tell it from the     *)
(* abstract OnceMarker.                                                    *)
(***************************************************************************)
EXTENDS ReplayStore

CONSTANT Unsynced   \* how long Redis may keep a mark before it is on disk

ASSUME UnsyncedAssumption == Unsynced \in Nat

MarkerTypeOK == StoreTypeOK /\ at \in [Calls -> StorePhases]

\* the caller has its verdict, or its exception, and is done
Return(c) ==
    /\ at[c] \in {"fresh", "replay", "failed"}
    /\ at' = [at EXCEPT ![c] = "idle"]
    /\ UNCHANGED <<up, client, now, redis, mem, key>>

\* what goes on in processes that run: none of them starts or ends
Decide == StoreStep /\ UNCHANGED up

\* (bug: nothing but a snapshot of an earlier time is on disk)
RedisRestartsEmpty ==
    /\ redis' = Unmarked
    /\ UNCHANGED <<up, client, at, now, mem, key>>

\* Redis restarts and has lost some of its latest writes: the append-only
\* file is written to disk every second
RedisRestarts ==
    /\ \E K \in SUBSET {k \in Keys : now < redis[k] - Ttl + Unsynced} :
         redis' = [k \in Keys |-> IF k \in K THEN 0 ELSE redis[k]]
    /\ UNCHANGED <<up, client, at, now, mem, key>>

MarkerNext ==
    \/ \E c \in Calls, k \in Keys : MarkOnce(c, k)
    \/ Decide
    \/ \E c \in Calls : Return(c)
    \/ \E i \in MayCrash : StoreDie(i) \/ StoreRestart(i)
    \/ RedisRestarts
    \/ StoreTick

MarkerSpec == StoreInit /\ [][MarkerNext]_storeVars

\* What a connected Redis is sent it answers, or the connection drops, and
\* the event loop runs on.  Nothing says that a connect ever ends.
MarkerFairness ==
    \A c \in Calls : /\ WF_storeVars(RedisSet(c) \/ RedisDrop(c))
                     /\ WF_storeVars(MemoryMark(c))

FairMarkerSpec == MarkerSpec /\ MarkerFairness

-----------------------------------------------------------------------------
(***************************************************************************)
(* The abstract marker: a key's mark is the latest one held anywhere, and  *)
(* a call is pending until it has a verdict.                               *)
(***************************************************************************)
Latest(k) == LET held == {redis[k]} \cup {mem[i][k] : i \in Instances}
             IN CHOOSE t \in held : \A u \in held : u <= t

\* what a caller in a phase has been told
Told(phase) == IF phase = "idle" THEN "none"
               ELSE IF phase \in Undecided THEN "pending" ELSE phase

OM == INSTANCE OnceMarker WITH
        expiry  <- [k \in Keys |-> Latest(k)],
        wanted  <- key,
        verdict <- [c \in Calls |-> Told(at[c])]

\* Whatever connects, drops, crashes and interleaves, callers see the
\* abstract marker: one grant per key and TTL, except that a mark that Redis
\* has lost is granted anew (redis-state.js:74-87, core/docker-compose.yml:57).
MarksOnce == OM!Spec

\* Where the deployment counts as production, no replay decision is ever
\* taken from one process's own Map (redis-state.js:29-33, 49-51).
ProductionFailsClosed ==
    IsProductionEnv(Env) => \A i \in Instances : mem[i] = Unmarked

\* Every call of a process that finds Redis again and again ends, if a crash
\* does not cut it off: nobody is left behind on a connectPromise, its
\* rejection included, or in the queue of a client that is gone
\* (redis-state.js:36-54, 78).
EveryCallEnds ==
    \A c \in Calls : ReachesRedis(c) => (at[c] \in Undecided ~> at[c] \notin Undecided)
=============================================================================
