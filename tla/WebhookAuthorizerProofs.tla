---------------------- MODULE WebhookAuthorizerProofs ----------------------
(***************************************************************************)
(* Theorems about WebhookAuthorizer, for every number of instances, calls  *)
(* and messages and every value of the timing constants.                   *)
(***************************************************************************)
EXTENDS WebhookAuthorizer, ReplayMarkerProofs, TLAPS

USE HostAssumption, EnvAssumption, ModeAssumption, StoreAssumption, WebhookAssumption

-----------------------------------------------------------------------------
LEMMA TypeInit == Init => TypeOK
  BY DEF Init, StoreInit, ClientInit, TypeOK, StoreTypeOK, Unmarked, Marks,
         WebhookPhases, StorePhases, ClientPhases, ClientStates

\* every step keeps the types, whatever the constants
LEMMA TypeStep == TypeOK /\ [Next]_vars => TypeOK'
  <1> SUFFICES ASSUME TypeOK, [Next]_vars PROVE TypeOK'
    OBVIOUS
  <1> USE DEF TypeOK, StoreTypeOK, Marks, WebhookPhases, StorePhases,
              ClientPhases, ClientStates, storeRest, Relays, Statuses
  <1>1. ASSUME NEW n \in Keys, NEW s \in Skews, Send(n, s) PROVE TypeOK'
    BY <1>1 DEF Send, storeVars
  <1>2. ASSUME NEW c \in Calls, NEW n \in Keys, Reject(c, n) PROVE TypeOK'
    BY <1>2 DEF Reject, storeVars, Reason
  <1>3. ASSUME NEW c \in Calls, NEW n \in Keys, Verify(c, n) PROVE TypeOK'
    BY <1>3 DEF Verify, MarkOnce, GetRedisClient, NoRedis
  <1>4. ASSUME Store PROVE TypeOK'
    BY <1>4, StoreStepType DEF Store, webhookVars
  <1>5. ASSUME NEW c \in Calls, Replayed(c) PROVE TypeOK'
    BY <1>5 DEF Replayed, Reply
  <1>6. ASSUME NEW c \in Calls, Forward(c) PROVE TypeOK'
    BY <1>6 DEF Forward
  <1>7. ASSUME NEW c \in Calls, Relay(c) PROVE TypeOK'
    BY <1>7 DEF Relay, Reply
  <1>8. ASSUME NEW c \in Calls, ForwardFails(c) PROVE TypeOK'
    BY <1>8 DEF ForwardFails, Reply
  <1>9. ASSUME NEW n \in Keys, Bill(n) PROVE TypeOK'
    <2>1. arrived' \in [Keys -> 0 .. MaxForwards]
      BY <1>9 DEF Bill
    <2>2. BillingStatus(n) \in Relays
      BY DEF BillingStatus
    <2>3. at' \in [Calls -> WebhookPhases]
      BY <1>9, <2>2 DEF Bill
    <2> QED
      BY <1>9, <2>1, <2>3 DEF Bill
  <1>10. ASSUME NEW i \in Instances, Crash(i) PROVE TypeOK'
    <2>1. StoreTypeOK' /\ at' \in [Calls -> WebhookPhases]
      <3>1. StorePhases \subseteq WebhookPhases /\ StoreTypeOK /\ StoreDie(i)
        BY <1>10 DEF Crash
      <3>2. at \in [Calls -> WebhookPhases]
        OBVIOUS
      <3> HIDE DEF StoreTypeOK, WebhookPhases, StorePhases
      <3> QED
        BY <3>1, <3>2, StoreDieType
    <2>2. since' \in [Calls -> 0 .. MaxTime]
      BY <1>10 DEF Crash
    <2> QED
      BY <1>10, <2>1, <2>2 DEF Crash
  <1>11. ASSUME NEW i \in Instances, Recover(i) PROVE TypeOK'
    BY <1>11 DEF Recover, StoreRestart, Restart, webhookVars
  <1>12. ASSUME Tick PROVE TypeOK'
    BY <1>12 DEF Tick, StoreTick, webhookVars
  <1>13. CASE UNCHANGED vars
    BY <1>13 DEF vars, storeVars, webhookVars
  <1> QED
    BY <1>1, <1>2, <1>3, <1>4, <1>5, <1>6, <1>7, <1>8, <1>9, <1>10, <1>11,
       <1>12, <1>13 DEF Next

\* The state of every reachable state has its declared shape: clocks, marks,
\* call phases and counters stay in range (webhook-authorizer/server.js).
THEOREM TypeCorrect == Spec => []TypeOK
  BY TypeInit, TypeStep, PTL DEF Spec

-----------------------------------------------------------------------------
(***************************************************************************)
(* What a status tells the partner.  A nonce that was marked stays so if   *)
(* no process ends that has marks of its own: all marks are in Redis, or   *)
(* there is no Redis and nothing crashes.                                  *)
(***************************************************************************)
MemoryOnly == ~RedisUrl /\ ~FailClosed(Env) /\ MayCrash = {}
KeepsMarks == NeverFallsBack \/ MemoryOnly

NoFallback == \A c \in Calls : at[c] # "memory"

MarksKept ==
    /\ NeverFallsBack => NoFallback /\ \A i \in Instances, n \in Keys : mem[i][n] = 0
    /\ ~NeverFallsBack => \A c \in Calls : at[c] \notin {"waiting", "redis", "failed"}

\* of the calls: what they hold was verified, and what they say is so
CallsTruthful ==
    \A c \in Calls :
        /\ at[c] # "idle" => Kind[key[c]] \in Verifiable
        /\ at[c] = "replay" => EverMarked(key[c])
        /\ at[c] \in Relays => at[c] = BillingStatus(key[c]) /\ arrived[key[c]] >= 1

\* and of what the partner has been told
AnswersTruthful ==
    \A n \in Keys :
        /\ answers[n] \cap Relays # {} => Kind[n] \in Verifiable /\ arrived[n] >= 1
        /\ answers[n] \cap Relays \subseteq {BillingStatus(n)}
        /\ "NONCE_REPLAY" \in answers[n] => EverMarked(n)

TruthInv == TypeOK /\ MarksKept /\ CallsTruthful /\ AnswersTruthful

LEMMA TruthInit == Init => TruthInv
  BY TypeInit DEF Init, StoreInit, ClientInit, Unmarked, TruthInv, MarksKept, NoFallback,
     CallsTruthful, AnswersTruthful, Relays

\* A step that changes no mark and nothing that was said
LEMMA TruthUnchanged ==
  ASSUME TruthInv, TypeOK', UNCHANGED <<redis, mem, key, answers>>,
         \A n \in Keys : arrived'[n] >= arrived[n],
         \A c \in Calls :
            \/ at'[c] = at[c]
            \/ at'[c] \in {"idle", "forwarding"} /\ at[c] # "idle"
            \/ at'[c] \in Relays /\ at[c] # "idle"
               /\ at'[c] = BillingStatus(key[c]) /\ arrived'[key[c]] >= 1
  PROVE  TruthInv'
  <1>1. \A n \in Keys : arrived[n] \in Int /\ arrived'[n] \in Int
    BY DEF TruthInv, TypeOK
  <1>2. \A c \in Calls : key[c] \in Keys
    BY DEF TruthInv, TypeOK, StoreTypeOK
  <1>3. \A n : BillingStatus(n)' = BillingStatus(n)
    BY DEF BillingStatus
  <1>4. \A n \in Keys : EverMarked(n)' <=> EverMarked(n)
    BY DEF EverMarked
  <1>5. MarksKept'
    BY DEF TruthInv, MarksKept, NoFallback, Relays
  <1>6. CallsTruthful'
    <2> SUFFICES ASSUME NEW c \in Calls
                 PROVE  /\ at'[c] # "idle" => Kind[key[c]] \in Verifiable
                        /\ at'[c] = "replay" => EverMarked(key[c])
                        /\ at'[c] \in Relays => /\ at'[c] = BillingStatus(key[c])
                                                /\ arrived'[key[c]] >= 1
      BY <1>2, <1>3, <1>4 DEF CallsTruthful
    <2> QED
      BY <1>1, <1>2 DEF TruthInv, CallsTruthful, Relays
  <1>7. AnswersTruthful'
    BY <1>1, <1>3, <1>4 DEF TruthInv, AnswersTruthful
  <1> QED
    BY <1>5, <1>6, <1>7 DEF TruthInv

\* A call ends with a status that is true
LEMMA TruthReply ==
  ASSUME TruthInv, TypeOK', NEW c \in Calls, NEW status, Reply(c, status),
         UNCHANGED <<redis, mem, key, arrived>>,
         status = "NONCE_REPLAY" => EverMarked(key[c]),
         status \in Relays => /\ status = BillingStatus(key[c])
                             /\ arrived[key[c]] >= 1
                             /\ Kind[key[c]] \in Verifiable
  PROVE  TruthInv'
  <1>1. key[c] \in Keys /\ answers \in [Keys -> SUBSET Statuses]
        /\ at \in [Calls -> WebhookPhases]
    BY DEF TruthInv, TypeOK, StoreTypeOK
  <1>2. /\ \A d \in Calls : at'[d] = IF d = c THEN "idle" ELSE at[d]
        /\ \A n \in Keys : answers'[n] = IF n = key[c] THEN answers[n] \cup {status}
                                                       ELSE answers[n]
    BY <1>1 DEF Reply
  <1>3. \A n : BillingStatus(n)' = BillingStatus(n)
    BY DEF BillingStatus
  <1>4. \A n : EverMarked(n)' <=> EverMarked(n)
    BY DEF EverMarked
  <1>5. MarksKept'
    BY <1>2 DEF TruthInv, MarksKept, NoFallback
  <1>6. CallsTruthful'
    BY <1>2, <1>3, <1>4 DEF TruthInv, CallsTruthful, Relays
  <1>7. AnswersTruthful'
    <2> SUFFICES ASSUME NEW n \in Keys
                 PROVE  /\ answers'[n] \cap Relays # {} => Kind[n] \in Verifiable /\ arrived[n] >= 1
                        /\ answers'[n] \cap Relays \subseteq {BillingStatus(n)}
                        /\ "NONCE_REPLAY" \in answers'[n] => EverMarked(n)
      BY <1>3, <1>4 DEF AnswersTruthful
    <2>1. /\ answers[n] \cap Relays # {} => Kind[n] \in Verifiable /\ arrived[n] >= 1
          /\ answers[n] \cap Relays \subseteq {BillingStatus(n)}
          /\ "NONCE_REPLAY" \in answers[n] => EverMarked(n)
      BY DEF TruthInv, AnswersTruthful
    <2>2. CASE n = key[c]
      <3>1. /\ status \in Relays => /\ status = BillingStatus(n) /\ arrived[n] >= 1
                                    /\ Kind[n] \in Verifiable
            /\ status = "NONCE_REPLAY" => EverMarked(n)
        BY <2>2
      <3>2. answers'[n] = answers[n] \cup {status}
        BY <1>2, <2>2
      <3> QED
        BY <2>1, <3>1, <3>2
    <2>3. CASE n # key[c]
      BY <1>2, <2>1, <2>3
    <2> QED
      BY <2>2, <2>3
  <1> QED
    BY <1>5, <1>6, <1>7 DEF TruthInv

\* A step of the store only adds marks, and a replay is a mark that is there
LEMMA TruthMarks ==
  ASSUME TruthInv, TypeOK', MarksKept', UNCHANGED <<key, arrived, answers>>,
         \A n \in Keys : EverMarked(n) => EverMarked(n)',
         \A c \in Calls : /\ at'[c] # "idle" => at[c] # "idle"
                          /\ at'[c] \in Relays => at'[c] = at[c]
                          /\ at'[c] = "replay" => EverMarked(key[c])'
  PROVE  TruthInv'
  <1>1. \A c \in Calls : key[c] \in Keys
    BY DEF TruthInv, TypeOK, StoreTypeOK
  <1>2. \A n : BillingStatus(n)' = BillingStatus(n)
    BY DEF BillingStatus
  <1>3. ASSUME NEW c \in Calls
        PROVE  /\ at'[c] # "idle" => Kind[key'[c]] \in Verifiable
               /\ at'[c] = "replay" => EverMarked(key[c])'
               /\ at'[c] \in Relays => /\ at'[c] = BillingStatus(key'[c])
                                       /\ arrived'[key'[c]] >= 1
    BY DEF TruthInv, CallsTruthful
  <1>4. CallsTruthful'
    BY <1>2, <1>3 DEF CallsTruthful
  <1>5. AnswersTruthful'
    BY <1>2 DEF TruthInv, AnswersTruthful
  <1> QED
    BY <1>4, <1>5 DEF TruthInv

LEMMA TruthStore ==
  ASSUME KeepsMarks, TruthInv, TypeOK', Store
  PROVE  TruthInv'
  <1>t. /\ now \in 0 .. MaxTime /\ redis \in Marks /\ mem \in [Instances -> Marks]
        /\ at \in [Calls -> WebhookPhases] /\ key \in [Calls -> Keys]
        /\ UNCHANGED <<arrived, answers>>
        /\ MarksKept
    BY DEF TruthInv, TypeOK, StoreTypeOK, Store, webhookVars
  <1>1. ASSUME NEW c \in Calls, RedisSet(c) \/ RedisDrop(c) PROVE TruthInv'
    <2> DEFINE n == key[c]
    <2>1. /\ at[c] = "redis" /\ n \in Keys /\ UNCHANGED <<mem, key>>
          /\ \A l \in Keys : redis[l] # 0 => redis'[l] # 0
          /\ at' \in {[at EXCEPT ![c] = "fresh"], [at EXCEPT ![c] = "replay"],
                      [at EXCEPT ![c] = "failed"]}
          /\ at'[c] = "replay" => redis'[n] # 0
      <3>1. /\ n \in Keys /\ Mark(redis, n)[n] # 0
            /\ \A l \in Keys \ {n} : Mark(redis, n)[l] = redis[l]
            /\ Answer(redis, n) \in {"fresh", "replay"}
        BY <1>t, MarkEffect
      <3>2. CASE RedisSet(c)
        BY <3>1, <3>2, <1>t DEF RedisSet
      <3>3. CASE RedisDrop(c)
        BY <3>1, <3>3, <1>t DEF RedisDrop
      <3> QED
        BY <1>1, <3>2, <3>3
    <2>2. MarksKept'
      BY <2>1, <1>t DEF MarksKept, NoFallback
    <2>3. \A l \in Keys : EverMarked(l) => EverMarked(l)'
      BY <2>1 DEF EverMarked
    <2>4. \A d \in Calls : /\ at'[d] # "idle" => at[d] # "idle"
                           /\ at'[d] \in Relays => at'[d] = at[d]
                           /\ at'[d] = "replay" => EverMarked(key[d])'
      <3> TAKE d \in Calls
      <3>1. CASE d = c
        <4>1. at'[d] = "replay" => EverMarked(key[d])'
          BY <2>1, <3>1 DEF EverMarked
        <4> QED
          BY <2>1, <3>1, <4>1, <1>t DEF Relays
      <3>2. CASE d # c
        <4>1. at'[d] = at[d] /\ key[d] \in Keys
          BY <2>1, <3>2, <1>t
        <4>2. at[d] = "replay" => EverMarked(key[d])'
          BY <2>1, <2>3, <4>1 DEF TruthInv, CallsTruthful, EverMarked
        <4> QED
          BY <4>1, <4>2
      <3> QED
        BY <3>1, <3>2
    <2> QED
      BY <2>1, <2>2, <2>3, <2>4, <1>t, TruthMarks
  <1>2. ASSUME NEW c \in Calls, MemoryMark(c) PROVE TruthInv'
    <2> DEFINE n == key[c]
               i == Host[c]
    <2>1. /\ at[c] = "memory" /\ n \in Keys /\ i \in Instances /\ UNCHANGED <<redis, key>>
          /\ \A h \in Instances, l \in Keys : mem[h][l] # 0 => mem'[h][l] # 0
          /\ at' \in {[at EXCEPT ![c] = "fresh"], [at EXCEPT ![c] = "replay"]}
          /\ mem'[i][n] # 0
      <3>1. n \in Keys /\ i \in Instances /\ mem[i] \in Marks
        BY <1>t
      <3>2. /\ Mark(mem[i], n)[n] # 0
            /\ \A l \in Keys \ {n} : Mark(mem[i], n)[l] = mem[i][l]
            /\ Answer(mem[i], n) \in {"fresh", "replay"}
        BY <1>t, <3>1, MarkEffect
      <3>3. \A h \in Instances : mem'[h] = IF h = i THEN Mark(mem[i], n) ELSE mem[h]
        BY <1>2, <1>t DEF MemoryMark
      <3> QED
        BY <1>2, <3>1, <3>2, <3>3, <1>t DEF MemoryMark
    <2>2. MarksKept'
      BY <2>1, <1>t DEF MarksKept, NoFallback
    <2>3. \A l \in Keys : EverMarked(l) => EverMarked(l)'
      BY <2>1 DEF EverMarked
    <2>4. \A d \in Calls : /\ at'[d] # "idle" => at[d] # "idle"
                           /\ at'[d] \in Relays => at'[d] = at[d]
                           /\ at'[d] = "replay" => EverMarked(key[d])'
      <3> TAKE d \in Calls
      <3>1. CASE d = c
        <4>1. EverMarked(key[d])'
          BY <2>1, <3>1 DEF EverMarked
        <4> QED
          BY <2>1, <3>1, <4>1, <1>t DEF Relays
      <3>2. CASE d # c
        <4>1. at'[d] = at[d] /\ key[d] \in Keys
          BY <2>1, <3>2, <1>t
        <4>2. at[d] = "replay" => EverMarked(key[d])'
          BY <2>1, <2>3, <4>1 DEF TruthInv, CallsTruthful, EverMarked
        <4> QED
          BY <4>1, <4>2
      <3> QED
        BY <3>1, <3>2
    <2> QED
      BY <2>1, <2>2, <2>3, <2>4, <1>t, TruthMarks
  <1>3. ASSUME NEW i \in Instances,
               ConnectResolved(i) \/ ConnectRejected(i) \/ ConnectionLost(i),
               UNCHANGED <<now, redis, mem, key>>
        PROVE  TruthInv'
    <2>1. \A d \in Calls : \/ at'[d] = at[d]
                           \/ at[d] \in {"waiting", "redis"} /\ at'[d] \in {"redis", "memory", "failed"}
      BY <1>3 DEF ConnectResolved, ConnectRejected, ConnectionLost, NoRedis
    <2>2. NeverFallsBack => \A d \in Calls : at'[d] = "memory" => at[d] = "memory"
      BY <1>3 DEF ConnectResolved, ConnectRejected, ConnectionLost, NoRedis, NeverFallsBack
    <2>3. MarksKept'
      BY <1>3, <2>1, <2>2, <1>t DEF MarksKept, NoFallback
    <2>4. \A l \in Keys : EverMarked(l) <=> EverMarked(l)'
      BY <1>3 DEF EverMarked
    <2>5. \A d \in Calls : /\ at'[d] # "idle" => at[d] # "idle"
                           /\ at'[d] \in Relays => at'[d] = at[d]
                           /\ at'[d] = "replay" => EverMarked(key[d])'
      <3> TAKE d \in Calls
      <3>1. EverMarked(key[d]) => EverMarked(key[d])'
        BY <1>3 DEF EverMarked
      <3>2. at'[d] = "replay" => at[d] = "replay"
        BY <2>1
      <3>3. /\ at'[d] # "idle" => at[d] # "idle"
            /\ at'[d] \in Relays => at'[d] = at[d]
        BY <2>1 DEF Relays
      <3> QED
        BY <3>1, <3>2, <3>3 DEF TruthInv, CallsTruthful
    <2> QED
      BY <1>3, <2>3, <2>4, <2>5, <1>t, TruthMarks
  <1> QED
    BY <1>1, <1>2, <1>3 DEF Store, StoreStep

\* A process that ends has no marks of its own
LEMMA CrashLosesNothing ==
  ASSUME KeepsMarks, TruthInv, NEW i \in Instances, Crash(i)
  PROVE  mem' = mem
  <1>1. NeverFallsBack
    BY DEF Crash, KeepsMarks, MemoryOnly, TruthInv, MarksKept
  <1>2. mem' = [mem EXCEPT ![i] = Unmarked]
    BY DEF Crash, StoreDie
  <1>3. mem \in [Instances -> Marks] /\ mem' \in [Instances -> Marks]
    BY <1>2, UnmarkedType DEF TruthInv, TypeOK, StoreTypeOK
  <1>4. ASSUME NEW h \in Instances PROVE mem'[h] = mem[h]
    <2>1. mem[h] \in [Keys -> 0 .. (MaxTime + Ttl)] /\ mem'[h] \in [Keys -> 0 .. (MaxTime + Ttl)]
      BY <1>3 DEF Marks
    <2>2. \A l \in Keys : mem[h][l] = 0 /\ mem'[h][l] = 0
      BY <1>1, <1>2, <1>3 DEF TruthInv, MarksKept, Unmarked
    <2> QED
      BY <2>1, <2>2
  <1> QED
    BY <1>3, <1>4

LEMMA TruthStep == KeepsMarks /\ TruthInv /\ [Next]_vars => TruthInv'
  <1> SUFFICES ASSUME KeepsMarks, TruthInv, [Next]_vars PROVE TruthInv'
    OBVIOUS
  <1>0. TypeOK'
    BY TypeStep DEF TruthInv
  <1>t. /\ at \in [Calls -> WebhookPhases] /\ key \in [Calls -> Keys]
        /\ answers \in [Keys -> SUBSET Statuses] /\ arrived \in [Keys -> 0 .. MaxForwards]
    BY DEF TruthInv, TypeOK, StoreTypeOK
  <1>1. ASSUME NEW n \in Keys, NEW s \in Skews, Send(n, s) PROVE TruthInv'
    BY <1>0, <1>1, <1>t, TruthUnchanged DEF Send, storeVars
  <1>2. ASSUME NEW c \in Calls, NEW n \in Keys, Reject(c, n) PROVE TruthInv'
    <2>1. /\ UNCHANGED <<redis, mem, key, at, arrived>>
          /\ \A l \in Keys : answers'[l] = IF l = n THEN answers[l] \cup {Reason(n)} ELSE answers[l]
      BY <1>2, <1>t DEF Reject, storeVars
    <2>2. Reason(n) \notin Relays \cup {"NONCE_REPLAY"}
      BY DEF Reason, Relays
    <2>3. /\ \A l : BillingStatus(l)' = BillingStatus(l)
          /\ \A l : EverMarked(l)' <=> EverMarked(l)
      BY <2>1 DEF BillingStatus, EverMarked
    <2>4. MarksKept' /\ CallsTruthful'
      BY <2>1, <2>3 DEF TruthInv, MarksKept, NoFallback, CallsTruthful
    <2>5. \A l \in Keys : answers'[l] \cap Relays = answers[l] \cap Relays
      BY <2>1, <2>2
    <2>6. \A l \in Keys : "NONCE_REPLAY" \in answers'[l] => "NONCE_REPLAY" \in answers[l]
      BY <2>1, <2>2
    <2>7. AnswersTruthful'
      BY <2>1, <2>3, <2>5, <2>6 DEF TruthInv, AnswersTruthful
    <2> QED
      BY <1>0, <2>4, <2>7 DEF TruthInv
  <1>3. ASSUME NEW c \in Calls, NEW n \in Keys, Verify(c, n) PROVE TruthInv'
    <2>1. Kind[n] \in Verifiable
      BY <1>3 DEF Verify, Reason, Verifiable, Kinds
    <2>2. /\ at[c] = "idle" /\ \A d \in Calls : at'[d] = IF d = c THEN at'[c] ELSE at[d]
          /\ at'[c] \in {"redis", "waiting", "failed", "memory"}
          /\ \A d \in Calls : key'[d] = IF d = c THEN n ELSE key[d]
          /\ UNCHANGED <<redis, mem, arrived, answers>>
      BY <1>3, <1>t DEF Verify, MarkOnce, GetRedisClient, NoRedis
    <2>3. /\ NeverFallsBack => at'[c] # "memory"
          /\ ~NeverFallsBack => at'[c] = "memory"
      BY <1>3, <1>t DEF Verify, MarkOnce, GetRedisClient, NoRedis, NeverFallsBack, KeepsMarks,
         MemoryOnly
    <2>4. /\ \A l : BillingStatus(l)' = BillingStatus(l)
          /\ \A l : EverMarked(l)' <=> EverMarked(l)
      BY <2>2 DEF BillingStatus, EverMarked
    <2>5. MarksKept'
      BY <2>2, <2>3 DEF TruthInv, MarksKept, NoFallback
    <2>6. CallsTruthful'
      <3> SUFFICES ASSUME NEW d \in Calls
                   PROVE  /\ at'[d] # "idle" => Kind[key'[d]] \in Verifiable
                          /\ at'[d] = "replay" => EverMarked(key'[d])
                          /\ at'[d] \in Relays => /\ at'[d] = BillingStatus(key'[d])
                                                  /\ arrived[key'[d]] >= 1
        BY <2>2, <2>4 DEF CallsTruthful, EverMarked
      <3>1. CASE d = c
        BY <2>1, <2>2, <3>1 DEF Relays
      <3>2. CASE d # c
        BY <2>2, <3>2 DEF TruthInv, CallsTruthful
      <3> QED
        BY <3>1, <3>2
    <2>7. AnswersTruthful'
      BY <2>2, <2>4 DEF TruthInv, AnswersTruthful
    <2> QED
      BY <1>0, <2>5, <2>6, <2>7 DEF TruthInv
  <1>4. CASE Store
    BY <1>0, <1>4, TruthStore
  <1>5. ASSUME NEW c \in Calls, Replayed(c) PROVE TruthInv'
    BY <1>0, <1>5, TruthReply DEF Replayed, storeRest, TruthInv, CallsTruthful, Relays
  <1>6. ASSUME NEW c \in Calls, Forward(c) PROVE TruthInv'
    <2>1. \A d \in Calls : at'[d] = at[d] \/ (at'[d] = "forwarding" /\ at[d] # "idle")
      BY <1>6, <1>t DEF Forward
    <2> QED
      BY <1>0, <1>6, <2>1, <1>t, TruthUnchanged DEF Forward, storeRest
  <1>7. ASSUME NEW c \in Calls, Relay(c) PROVE TruthInv'
    <2>1. at[c] \in Relays /\ at[c] # "NONCE_REPLAY" /\ at[c] # "idle"
      BY <1>7 DEF Relay, Relays
    <2> QED
      BY <1>0, <1>7, <2>1, TruthReply DEF Relay, storeRest, TruthInv, CallsTruthful
  <1>8. ASSUME NEW c \in Calls, ForwardFails(c) PROVE TruthInv'
    BY <1>0, <1>8, TruthReply DEF ForwardFails, storeRest, Relays
  <1>9. ASSUME NEW n \in Keys, Bill(n) PROVE TruthInv'
    <2>1. \A l \in Keys : arrived'[l] = IF l = n THEN arrived[l] + 1 ELSE arrived[l]
      BY <1>9, <1>t DEF Bill
    <2>2. arrived[n] >= 0 /\ arrived[n] \in Int /\ BillingStatus(n) \in Relays
      BY <1>t DEF BillingStatus, Relays
    <2>3. \A l \in Keys : arrived'[l] >= arrived[l]
      BY <2>1, <1>t
    <2>4. \A d \in Calls : \/ at'[d] = at[d]
                           \/ /\ at'[d] \in Relays /\ at[d] # "idle"
                              /\ at'[d] = BillingStatus(key[d]) /\ arrived'[key[d]] >= 1
      BY <1>9, <2>1, <2>2, <1>t DEF Bill
    <2> QED
      BY <1>0, <1>9, <2>3, <2>4, TruthUnchanged DEF Bill, storeRest
  <1>10. ASSUME NEW i \in Instances, Crash(i) PROVE TruthInv'
    <2>1. mem' = mem
      BY <1>10, CrashLosesNothing
    <2>2. /\ UNCHANGED <<redis, key, arrived, answers>>
          /\ \A d \in Calls : at'[d] \in {"idle", at[d]}
      BY <1>10, <1>t DEF Crash, StoreDie, Die
    <2> QED
      BY <1>0, <2>1, <2>2, <1>t, TruthUnchanged
  <1>11. ASSUME NEW i \in Instances, Recover(i) PROVE TruthInv'
    BY <1>0, <1>11, <1>t, TruthUnchanged DEF Recover, StoreRestart, Restart, webhookVars
  <1>12. CASE Tick
    BY <1>0, <1>12, <1>t, TruthUnchanged DEF Tick, StoreTick, webhookVars
  <1>13. CASE UNCHANGED vars
    BY <1>0, <1>13, <1>t, TruthUnchanged DEF vars, storeVars, webhookVars
  <1> QED
    BY <1>1, <1>2, <1>3, <1>4, <1>5, <1>6, <1>7, <1>8, <1>9, <1>10, <1>11, <1>12, <1>13 DEF Next

LEMMA TruthImplies == TruthInv => StatusesAreTruthful
  <1> SUFFICES ASSUME TruthInv, NEW n \in Keys
               PROVE  /\ "200" \in answers[n] =>
                            /\ arrived[n] >= 1 /\ Kind[n] = "valid" /\ TokensMatch
                            /\ answers[n] \cap {"400", "403", "413"} = {}
                      /\ "NONCE_REPLAY" \in answers[n] => EverMarked(n)
    BY DEF StatusesAreTruthful, EverMarked
  <1>1. ASSUME "200" \in answers[n]
        PROVE  /\ arrived[n] >= 1 /\ Kind[n] \in Verifiable /\ BillingStatus(n) = "200"
               /\ answers[n] \cap {"400", "403", "413"} = {}
    BY <1>1 DEF TruthInv, AnswersTruthful, Relays
  <1>2. Kind[n] \in Verifiable /\ BillingStatus(n) = "200" => Kind[n] = "valid" /\ TokensMatch
    BY DEF BillingStatus, Verifiable
  <1> QED
    BY <1>1, <1>2 DEF TruthInv, AnswersTruthful

\* Where no process ends that has marks of its own, the partner may rely on
\* what it is told: 200 means that billing accepted the message and gave it
\* no other status, NONCE_REPLAY that an earlier delivery had been granted
\* (webhook-authorizer/server.js:43-77, billing-service/server.js).
THEOREM StatusesTruthful ==
    ASSUME KeepsMarks
    PROVE  Spec => []StatusesAreTruthful
  BY TruthInit, TruthStep, TruthImplies, PTL DEF Spec

-----------------------------------------------------------------------------
(***************************************************************************)
(* One grant per nonce.  All calls must decide in one table: in Redis, or, *)
(* without Redis, in the Map of the one process that serves them.  A call  *)
(* on its way to the mark has a recent and in-window timestamp check       *)
(* behind it; a mark was therefore made no earlier than Window before the  *)
(* stamp, and cannot have lapsed while a call for the same nonce is still  *)
(* on its way.                                                             *)
(***************************************************************************)
OneTable == \/ NeverFallsBack
            \/ MemoryOnly /\ \A c, d \in Calls : Host[c] = Host[d]

\* the timing condition under which the nonce check is sound
LongEnoughTtl == Ttl > 2 * Window + MarkDelay

\* without Redis every mark is in the Map of the process that serves the calls
MarksAtHome ==
    ~NeverFallsBack => \A n \in Keys :
        /\ redis[n] = 0
        /\ \A i \in Instances : mem[i][n] # 0 => \A c \in Calls : Host[c] = i

PendingInWindow ==
    \A c \in Calls : at[c] \in Undecided =>
        /\ key[c] \in sent
        /\ Kind[key[c]] \in Verifiable
        /\ since[c] <= now
        /\ now <= since[c] + MarkDelay
        /\ stamp[key[c]] - Window <= since[c]
        /\ since[c] <= stamp[key[c]] + Window

\* t is a mark made for message n in its window, or no mark
WellTimed(n, t) == t # 0 =>
    /\ n \in sent
    /\ Kind[n] \in Verifiable
    /\ stamp[n] - Window + Ttl <= t
    /\ t <= stamp[n] + Window + MarkDelay + Ttl

MarkedInWindow ==
    \A n \in Keys : WellTimed(n, redis[n]) /\ \A i \in Instances : WellTimed(n, mem[i][n])

OneGrant ==
    \A c \in Calls : at[c] = "fresh" =>
        /\ EverMarked(key[c])
        /\ forwarded[key[c]] = 0
        /\ \A d \in Calls : at[d] = "fresh" /\ key[d] = key[c] => c = d

ForwardedOnce ==
    \A n \in Keys : /\ forwarded[n] <= 1
                    /\ arrived[n] <= forwarded[n]
                    /\ forwarded[n] # 0 => EverMarked(n)

\* a call that waits for billing has sent its message on
ForwardingSent == \A c \in Calls : at[c] = "forwarding" => forwarded[key[c]] # 0

Once == /\ MarksAtHome
        /\ PendingInWindow
        /\ MarkedInWindow
        /\ OneGrant
        /\ ForwardedOnce
        /\ ForwardingSent

Inv == TruthInv /\ Once

LEMMA OneTableKeepsMarks == OneTable => KeepsMarks
  BY DEF OneTable, KeepsMarks

LEMMA InvInit == Init => Inv
  BY TruthInit DEF Init, StoreInit, ClientInit, Unmarked, Inv, Once, MarksAtHome,
     PendingInWindow, MarkedInWindow, WellTimed, OneGrant, ForwardedOnce, ForwardingSent, Undecided

\* The types of what the invariant is about
LEMMA InvTypes ==
    ASSUME Inv
    PROVE  /\ now \in 0 .. MaxTime /\ redis \in Marks /\ mem \in [Instances -> Marks]
           /\ at \in [Calls -> WebhookPhases] /\ key \in [Calls -> Keys]
           /\ since \in [Calls -> 0 .. MaxTime] /\ stamp \in [Keys -> Int]
           /\ forwarded \in [Keys -> 0 .. MaxForwards]
           /\ arrived \in [Keys -> 0 .. MaxForwards]
           /\ answers \in [Keys -> SUBSET Statuses]
           /\ \A n \in Keys : /\ redis[n] \in 0 .. (MaxTime + Ttl)
                              /\ \A i \in Instances : mem[i][n] \in 0 .. (MaxTime + Ttl)
           /\ \A c \in Calls : key[c] \in Keys /\ Host[c] \in Instances
  BY DEF Inv, TruthInv, TypeOK, StoreTypeOK, Marks

\* A mark of a nonce has not lapsed while a call for it is on its way
LEMMA MarkOutlivesCalls ==
    ASSUME Inv, LongEnoughTtl, NEW c \in Calls, at[c] \in Undecided
    PROVE  /\ redis[key[c]] # 0 => now < redis[key[c]]
           /\ \A i \in Instances : mem[i][key[c]] # 0 => now < mem[i][key[c]]
  <1> DEFINE n == key[c]
  <1>1. /\ n \in Keys /\ now \in Int /\ since[c] \in Int /\ stamp[n] \in Int
        /\ redis[n] \in Int /\ \A i \in Instances : mem[i][n] \in Int
    BY InvTypes
  <1>2. now <= stamp[n] + Window + MarkDelay
    BY <1>1 DEF Inv, Once, PendingInWindow
  <1>3. ASSUME NEW t \in Int, WellTimed(n, t), t # 0 PROVE now < t
    BY <1>1, <1>2, <1>3 DEF WellTimed, LongEnoughTtl
  <1>4. WellTimed(n, redis[n]) /\ \A i \in Instances : WellTimed(n, mem[i][n])
    BY <1>1 DEF Inv, Once, MarkedInWindow
  <1> QED
    BY <1>1, <1>3, <1>4

\* What deciding does to one table of marks, when the key has a mark in it
\* that has not lapsed, or none
LEMMA DecideIn ==
    ASSUME NEW marks \in Marks, NEW n \in Keys, now \in 0 .. MaxTime,
           marks[n] # 0 => now < marks[n]
    PROVE  /\ \A l \in Keys \ {n} : Mark(marks, n)[l] = marks[l]
           /\ Mark(marks, n)[n] = IF marks[n] # 0 THEN marks[n] ELSE now + Ttl
           /\ Answer(marks, n) = IF marks[n] # 0 THEN "replay" ELSE "fresh"
  <1>1. marks[n] \in 0 .. (MaxTime + Ttl)
    BY DEF Marks
  <1> QED
    BY <1>1, MarkEffect

\* A decision: the nonce had been marked and nothing changes, or it had not,
\* and is marked now or the call has failed.
Decision(c) == LET n == key[c] IN
    /\ UNCHANGED <<now, key, since, stamp, sent, forwarded, arrived, answers>>
    /\ \A l \in Keys \ {n} : /\ redis'[l] = redis[l]
                             /\ \A i \in Instances : mem'[i][l] = mem[i][l]
    /\ redis'[n] \in {redis[n], now + Ttl}
    /\ \A i \in Instances : mem'[i][n] \in {mem[i][n], now + Ttl}
    /\ EverMarked(n) => redis'[n] = redis[n] /\ \A i \in Instances : mem'[i][n] = mem[i][n]
    /\ at' \in {[at EXCEPT ![c] = "fresh"], [at EXCEPT ![c] = "replay"],
                [at EXCEPT ![c] = "failed"]}
    /\ at'[c] = "fresh" => /\ ~EverMarked(n)
                           /\ redis'[n] # 0 \/ \E i \in Instances : mem'[i][n] # 0
    /\ ~NeverFallsBack => /\ redis'[n] = redis[n]
                          /\ \A i \in Instances \ {Host[c]} : mem'[i][n] = mem[i][n]

LEMMA RedisDecides ==
    ASSUME Inv, OneTable, LongEnoughTtl, NEW c \in Calls, UNCHANGED webhookVars,
           RedisSet(c) \/ RedisDrop(c)
    PROVE  Decision(c) /\ at[c] \in Undecided
  <1> DEFINE n == key[c]
  <1>1. at[c] = "redis" /\ at[c] \in Undecided
    BY DEF RedisSet, RedisDrop, Undecided
  <1>2. /\ NeverFallsBack /\ \A i \in Instances : mem[i][n] = 0
    BY <1>1, InvTypes DEF Inv, TruthInv, MarksKept
  <1>3. /\ \A l \in Keys \ {n} : Mark(redis, n)[l] = redis[l]
        /\ Mark(redis, n)[n] = IF redis[n] # 0 THEN redis[n] ELSE now + Ttl
        /\ Answer(redis, n) = IF redis[n] # 0 THEN "replay" ELSE "fresh"
    BY <1>1, InvTypes, MarkOutlivesCalls, DecideIn
  <1>4. EverMarked(n) <=> redis[n] # 0
    BY <1>2 DEF EverMarked
  <1>5. now \in Int /\ now >= 0 /\ Ttl > 0 /\ Ttl \in Int
    BY InvTypes
  <1>6. /\ redis' \in {redis, Mark(redis, n)}
        /\ \/ redis' = Mark(redis, n) /\ at' = [at EXCEPT ![c] = Answer(redis, n)]
           \/ at' = [at EXCEPT ![c] = "failed"]
        /\ UNCHANGED <<now, key, mem>>
    BY DEF RedisSet, RedisDrop
  <1>7. at'[c] = "fresh" => redis[n] = 0 /\ redis'[n] # 0
    BY <1>3, <1>5, <1>6, InvTypes
  <1> QED
    BY <1>1, <1>2, <1>3, <1>4, <1>6, <1>7 DEF Decision, webhookVars

LEMMA MemoryDecides ==
    ASSUME Inv, OneTable, LongEnoughTtl, NEW c \in Calls, UNCHANGED webhookVars,
           MemoryMark(c)
    PROVE  Decision(c) /\ at[c] \in Undecided
  <1> DEFINE n == key[c]
             h == Host[c]
  <1>1. at[c] = "memory" /\ at[c] \in Undecided
    BY DEF MemoryMark, Undecided
  <1>2. ~NeverFallsBack /\ n \in Keys /\ h \in Instances /\ mem[h] \in Marks
    BY <1>1, InvTypes DEF Inv, TruthInv, MarksKept, NoFallback
  <1>3. redis[n] = 0 /\ \A i \in Instances \ {h} : mem[i][n] = 0
    BY <1>2 DEF Inv, Once, MarksAtHome
  <1>4. /\ \A l \in Keys \ {n} : Mark(mem[h], n)[l] = mem[h][l]
        /\ Mark(mem[h], n)[n] = IF mem[h][n] # 0 THEN mem[h][n] ELSE now + Ttl
        /\ Answer(mem[h], n) = IF mem[h][n] # 0 THEN "replay" ELSE "fresh"
    BY <1>1, <1>2, InvTypes, MarkOutlivesCalls, DecideIn
  <1>5. EverMarked(n) <=> mem[h][n] # 0
    BY <1>2, <1>3 DEF EverMarked
  <1>6. now \in Int /\ now >= 0 /\ Ttl > 0 /\ Ttl \in Int
    BY InvTypes
  <1>7. \A i \in Instances : mem'[i] = IF i = h THEN Mark(mem[h], n) ELSE mem[i]
    BY <1>2, InvTypes DEF MemoryMark
  <1>8. mem'[h][n] # 0
    BY <1>2, <1>4, <1>6, <1>7
  <1>9. /\ at' \in {[at EXCEPT ![c] = "fresh"], [at EXCEPT ![c] = "replay"]}
        /\ at'[c] = "fresh" => mem[h][n] = 0
        /\ UNCHANGED <<now, key, redis>>
    BY <1>4, InvTypes DEF MemoryMark
  <1>10. \A i \in Instances : /\ \A l \in Keys \ {n} : mem'[i][l] = mem[i][l]
                              /\ mem'[i][n] \in {mem[i][n], now + Ttl}
                              /\ mem[h][n] # 0 => mem'[i][n] = mem[i][n]
                              /\ i # h => mem'[i][n] = mem[i][n]
    BY <1>4, <1>7
  <1> QED
    BY <1>1, <1>2, <1>5, <1>8, <1>9, <1>10 DEF Decision, webhookVars

\* A decision keeps the invariant
LEMMA InvDecision ==
    ASSUME Inv, OneTable, NEW c \in Calls, at[c] \in Undecided, Decision(c)
    PROVE  Once'
  <1> DEFINE n == key[c]
  <1>1. /\ n \in Keys /\ now \in Int /\ since[c] \in Int /\ stamp[n] \in Int
        /\ at \in [Calls -> WebhookPhases]
        /\ \A d \in Calls : key[d] \in Keys /\ Host[d] \in Instances
    BY InvTypes
  <1>2. \A l \in Keys : EverMarked(l) => EverMarked(l)'
    BY <1>1 DEF Decision, EverMarked
  <1>3. MarksAtHome'
    <2> SUFFICES ASSUME ~NeverFallsBack, NEW l \in Keys
                 PROVE  /\ redis'[l] = 0
                        /\ \A i \in Instances : mem'[i][l] # 0 =>
                             \A d \in Calls : Host[d] = i
      BY DEF MarksAtHome
    <2>1. \A d \in Calls : Host[d] = Host[c]
      BY DEF OneTable
    <2> QED
      BY <2>1 DEF Inv, Once, MarksAtHome, Decision
  <1>4. PendingInWindow'
    BY <1>1 DEF Inv, Once, PendingInWindow, Decision, Undecided
  <1>5. MarkedInWindow'
    <2>1. WellTimed(n, now + Ttl)
      BY <1>1 DEF Inv, Once, PendingInWindow, WellTimed
    <2> QED
      BY <2>1 DEF Inv, Once, MarkedInWindow, Decision, WellTimed
  <1>6. OneGrant'
    <2> SUFFICES ASSUME NEW d \in Calls, at'[d] = "fresh"
                 PROVE  /\ EverMarked(key[d])'
                        /\ forwarded[key[d]] = 0
                        /\ \A e \in Calls : at'[e] = "fresh" /\ key[e] = key[d] => d = e
      BY DEF OneGrant, Decision, EverMarked
    <2>1. \A e \in Calls : at'[e] = "fresh" => at[e] = "fresh" \/ e = c
      BY <1>1 DEF Decision
    <2>0. \A o \in Calls : EverMarked(key[o])' <=>
             redis'[key[o]] # 0 \/ \E i \in Instances : mem'[i][key[o]] # 0
      BY DEF EverMarked, Decision
    <2>2. at'[c] = "fresh" => /\ ~EverMarked(n) /\ EverMarked(n)'
                              /\ forwarded[n] = 0
                              /\ \A e \in Calls : at[e] = "fresh" => key[e] # n
      BY <1>1, <2>0 DEF Decision, Inv, Once, ForwardedOnce, OneGrant
    <2>3. \A p \in Calls : at[p] = "fresh" =>
            /\ EverMarked(key[p])' /\ forwarded[key[p]] = 0
            /\ \A o \in Calls : at[o] = "fresh" /\ key[o] = key[p] => p = o
      BY <1>1, <2>0 DEF Decision, Inv, Once, OneGrant, EverMarked
    <2>4. CASE d = c
      BY <2>1, <2>2, <2>4
    <2>5. CASE d # c
      BY <2>1, <2>2, <2>3, <2>5
    <2> QED
      BY <2>4, <2>5
  <1>7. ForwardedOnce'
    BY <1>2 DEF Inv, Once, ForwardedOnce, Decision
  <1>8. ForwardingSent'
    BY <1>1 DEF Inv, Once, ForwardingSent, Decision
  <1> QED
    BY <1>3, <1>4, <1>5, <1>6, <1>7, <1>8 DEF Once

\* A step that leaves the marks, the time and the messages alone, and in which
\* no call comes nearer to its mark or to its grant
LEMMA InvQuiet ==
    ASSUME Inv, UNCHANGED <<now, redis, mem, key, stamp, sent, forwarded, arrived>>,
           \A c \in Calls : /\ at'[c] \in Undecided => at[c] \in Undecided /\ since'[c] = since[c]
                            /\ at'[c] = "fresh" => at[c] = "fresh"
                            /\ at'[c] = "forwarding" => at[c] = "forwarding"
    PROVE  Once'
  <1>1. \A n : EverMarked(n)' <=> EverMarked(n)
    BY DEF EverMarked
  <1>2. PendingInWindow'
    BY DEF Inv, Once, PendingInWindow
  <1>3. MarksAtHome' /\ MarkedInWindow'
    BY DEF Inv, Once, MarksAtHome, MarkedInWindow, WellTimed
  <1>4. OneGrant'
    BY <1>1 DEF Inv, Once, OneGrant
  <1>5. ForwardedOnce' /\ ForwardingSent'
    BY <1>1 DEF Inv, Once, ForwardedOnce, ForwardingSent
  <1> QED
    BY <1>2, <1>3, <1>4, <1>5 DEF Once

LEMMA OnceStep ==
    ASSUME OneTable, LongEnoughTtl, Inv, [Next]_vars
    PROVE  Once'
  <1>t. /\ at \in [Calls -> WebhookPhases] /\ key \in [Calls -> Keys]
        /\ since \in [Calls -> 0 .. MaxTime] /\ stamp \in [Keys -> Int]
        /\ forwarded \in [Keys -> 0 .. MaxForwards]
        /\ arrived \in [Keys -> 0 .. MaxForwards]
        /\ now \in 0 .. MaxTime
        /\ \A d \in Calls : key[d] \in Keys
    BY InvTypes
  <1>1. ASSUME NEW n \in Keys, NEW s \in Skews, Send(n, s) PROVE Once'
    <2>1. /\ \A l \in sent : stamp'[l] = stamp[l] /\ l \in sent'
          /\ UNCHANGED <<now, redis, mem, key, at, since, forwarded, arrived>>
      BY <1>1, <1>t DEF Send, storeVars, Inv, TruthInv, TypeOK
    <2>3. MarkedInWindow'
      BY <2>1 DEF Inv, Once, MarkedInWindow, WellTimed
    <2>4. PendingInWindow'
      BY <2>1 DEF Inv, Once, PendingInWindow
    <2> QED
      BY <2>1, <2>3, <2>4 DEF Inv, Once, MarksAtHome, OneGrant, ForwardedOnce, ForwardingSent,
         EverMarked
  <1>2. ASSUME NEW c \in Calls, NEW n \in Keys, Reject(c, n) PROVE Once'
    BY <1>2, InvQuiet DEF Reject, storeVars
  <1>3. ASSUME NEW c \in Calls, NEW n \in Keys, Verify(c, n) PROVE Once'
    <2>1. /\ Kind[n] \in Verifiable
          /\ stamp[n] - Window <= now /\ now <= stamp[n] + Window
      BY <1>3, <1>t DEF Verify, Reason, Verifiable, Kinds, InWindow, Distance
    <2>2. /\ at'[c] \in Undecided \cup {"failed"}
          /\ \A d \in Calls \ {c} : /\ at'[d] = at[d] /\ key'[d] = key[d]
                                    /\ since'[d] = since[d]
          /\ key'[c] = n /\ since'[c] = now
          /\ n \in sent
          /\ UNCHANGED <<now, redis, mem, sent, stamp, forwarded, arrived>>
      BY <1>3, <1>t DEF Verify, MarkOnce, GetRedisClient, NoRedis, Undecided
    <2>3. PendingInWindow'
      BY <2>1, <2>2, <1>t DEF Inv, Once, PendingInWindow
    <2>4. \A l : EverMarked(l)' <=> EverMarked(l)
      BY <2>2 DEF EverMarked
    <2>5. OneGrant' /\ ForwardedOnce' /\ ForwardingSent'
      BY <2>2, <2>4 DEF Inv, Once, OneGrant, ForwardedOnce, ForwardingSent, Undecided
    <2> QED
      BY <2>2, <2>3, <2>5 DEF Inv, Once, MarksAtHome, MarkedInWindow, WellTimed
  <1>4. ASSUME NEW c \in Calls, RedisSet(c) \/ RedisDrop(c) \/ MemoryMark(c),
               UNCHANGED webhookVars
        PROVE  Once'
    BY <1>4, RedisDecides, MemoryDecides, InvDecision
  <1>5. ASSUME NEW i \in Instances,
               ConnectResolved(i) \/ ConnectRejected(i) \/ ConnectionLost(i),
               UNCHANGED <<now, redis, mem, key, webhookVars>>
        PROVE  Once'
    <2>1. \A c \in Calls : \/ at'[c] = at[c]
                           \/ at[c] \in Undecided /\ at'[c] \in Undecided \cup {"failed"}
      BY <1>5 DEF ConnectResolved, ConnectRejected, ConnectionLost, NoRedis, Undecided
    <2> QED
      BY <1>5, <2>1, InvQuiet DEF webhookVars, Undecided
  <1>6. ASSUME NEW c \in Calls, Replayed(c) \/ Relay(c) \/ ForwardFails(c) PROVE Once'
    <2>1. \A d \in Calls : /\ d # c => at'[d] = at[d] /\ since'[d] = since[d]
                           /\ d = c => at'[d] = "idle"
      BY <1>6, <1>t DEF Replayed, Relay, ForwardFails, Reply
    <2> QED
      BY <1>6, <2>1, InvQuiet DEF Replayed, Relay, ForwardFails, storeRest, Undecided
  <1>7. ASSUME NEW c \in Calls, Forward(c) PROVE Once'
    <2> DEFINE n == key[c]
    <2>1. /\ at[c] = "fresh" /\ n \in Keys /\ EverMarked(n) /\ forwarded[n] = 0 /\ arrived[n] = 0
      BY <1>7, <1>t DEF Forward, Inv, Once, OneGrant, ForwardedOnce
    <2>2. /\ at'[c] = "forwarding" /\ forwarded'[n] = 1
          /\ \A d \in Calls \ {c} : at'[d] = at[d] /\ since'[d] = since[d]
          /\ \A l \in Keys \ {n} : forwarded'[l] = forwarded[l]
          /\ UNCHANGED <<now, redis, mem, key, stamp, sent, arrived>>
      BY <1>7, <2>1, <1>t DEF Forward, storeRest
    <2>3. \A l : EverMarked(l)' <=> EverMarked(l)
      BY <2>2 DEF EverMarked
    <2>4. OneGrant'
      BY <2>1, <2>2, <2>3, <1>t DEF Inv, Once, OneGrant
    <2>5. ForwardedOnce' /\ ForwardingSent'
      BY <2>1, <2>2, <2>3, <1>t DEF Inv, Once, ForwardedOnce, ForwardingSent
    <2>6. PendingInWindow'
      BY <2>2 DEF Inv, Once, PendingInWindow, Undecided
    <2> QED
      BY <2>2, <2>4, <2>5, <2>6 DEF Inv, Once, MarksAtHome, MarkedInWindow, WellTimed
  <1>8. ASSUME NEW n \in Keys, Bill(n) PROVE Once'
    <2>1. \A c \in Calls : at'[c] = at[c] \/ at'[c] \in Relays
      BY <1>8, <1>t DEF Bill, BillingStatus, Relays
    <2>2. /\ arrived[n] < forwarded[n]
          /\ \A l \in Keys : arrived'[l] = IF l = n THEN arrived[n] + 1 ELSE arrived[l]
          /\ UNCHANGED <<now, redis, mem, key, since, stamp, sent, forwarded>>
      BY <1>8, <1>t DEF Bill, storeRest
    <2>3. ForwardedOnce'
      BY <2>2, <1>t DEF Inv, Once, ForwardedOnce, EverMarked
    <2> QED
      BY <2>1, <2>2, <2>3 DEF Inv, Once, MarksAtHome, PendingInWindow, MarkedInWindow, WellTimed,
         OneGrant, ForwardingSent, EverMarked, Relays, Undecided
  <1>9. ASSUME NEW i \in Instances, Crash(i) PROVE Once'
    <2>1. \A c \in Calls : \/ at'[c] = "idle"
                           \/ at'[c] = at[c] /\ since'[c] = since[c]
      BY <1>9 DEF Crash, StoreDie, Die
    <2>2. mem' = mem
      BY <1>9, CrashLosesNothing, OneTableKeepsMarks DEF Inv
    <2> QED
      BY <1>9, <2>1, <2>2, InvQuiet DEF Crash, StoreDie, Undecided
  <1>10. ASSUME NEW i \in Instances, Recover(i) PROVE Once'
    BY <1>10, InvQuiet DEF Recover, StoreRestart, Restart, webhookVars
  <1>11. CASE Tick
    <2>1. \A c \in Calls : at[c] \in Undecided => now < since[c] + MarkDelay
      BY <1>11 DEF Tick
    <2>2. PendingInWindow'
      BY <1>11, <2>1, <1>t DEF Tick, StoreTick, webhookVars, Inv, Once, PendingInWindow
    <2> QED
      BY <1>11, <2>2 DEF Tick, StoreTick, webhookVars, Inv, Once, MarksAtHome, MarkedInWindow,
         WellTimed, OneGrant, ForwardedOnce, ForwardingSent, EverMarked
  <1>12. CASE UNCHANGED vars
    BY <1>12, InvQuiet DEF vars, storeVars, webhookVars
  <1>13. CASE Store
    BY <1>4, <1>5, <1>13 DEF Store, StoreStep
  <1> QED
    BY <1>1, <1>2, <1>3, <1>6, <1>7, <1>8, <1>9, <1>10, <1>11, <1>12, <1>13 DEF Next

LEMMA InvStep == OneTable /\ LongEnoughTtl /\ Inv /\ [Next]_vars => Inv'
  BY TruthStep, OnceStep, OneTableKeepsMarks DEF Inv

\* Where all calls decide in one table, and with a nonce TTL above twice the
\* timestamp window plus the delay of the mark, no nonce is forwarded to
\* billing twice (webhook-verify.js:28-62).
THEOREM NonceForwardedOnce ==
    ASSUME OneTable, LongEnoughTtl
    PROVE  Spec => []AtMostOnceForwarded
  <1>1. Inv => AtMostOnceForwarded
    BY DEF Inv, Once, ForwardedOnce, AtMostOnceForwarded
  <1> QED
    BY <1>1, InvInit, InvStep, PTL DEF Spec

\* Under the same conditions every Redis slot was spent on a verified message
\* and within Window + MarkDelay of its timestamp (webhook-verify.js:56-59).
THEOREM SlotsVerified ==
    ASSUME OneTable, LongEnoughTtl
    PROVE  Spec => []SlotsOnlyForVerified
  <1>1. Inv => SlotsOnlyForVerified
    BY InvTypes DEF Inv, Once, MarkedInWindow, WellTimed, SlotsOnlyForVerified, Distance
  <1> QED
    BY <1>1, InvInit, InvStep, PTL DEF Spec

-----------------------------------------------------------------------------
(***************************************************************************)
(* The refinement.  The stages of the abstract delivery follow from the    *)
(* marks and counters, and every step takes one message one stage further, *)
(* tells the partner one thing, or changes nothing the abstract one shows. *)
(***************************************************************************)
stageOf == [n \in Keys |-> Stage(n)]

\* What the invariant says of the stages: the conditions that Stage tests one
\* after the other are nested
LEMMA StageIs ==
    ASSUME Inv, NEW n \in Keys
    PROVE  /\ arrived[n] # 0 => Stage(n) = "billed"
           /\ forwarded[n] # 0 /\ arrived[n] = 0 => Stage(n) = "handed"
           /\ EverMarked(n) /\ forwarded[n] = 0 => arrived[n] = 0 /\ Stage(n) = "slotted"
           /\ n \in sent /\ ~EverMarked(n) => Stage(n) = "sent"
           /\ n \notin sent => Stage(n) = "unsent"
  <1>1. /\ forwarded[n] \in 0 .. MaxForwards /\ arrived[n] \in 0 .. MaxForwards
        /\ forwarded[n] <= 1 /\ arrived[n] <= forwarded[n]
        /\ forwarded[n] # 0 => EverMarked(n)
    BY InvTypes DEF Inv, Once, ForwardedOnce
  <1>2. EverMarked(n) => n \in sent
    BY DEF EverMarked, Inv, Once, MarkedInWindow, WellTimed
  <1> QED
    BY <1>1, <1>2 DEF Stage

\* A step that marks nothing and moves no message
LEMMA StagesStay ==
    ASSUME UNCHANGED <<sent, forwarded, arrived>>,
           \A n \in Keys : EverMarked(n)' <=> EverMarked(n)
    PROVE  stageOf' = stageOf
  <1>1. \A n \in Keys : Stage(n)' = Stage(n)
    BY DEF Stage
  <1> QED
    BY <1>1 DEF stageOf

\* A step that moves one message from stage to stage
LEMMA StageMoves ==
    ASSUME NEW n \in Keys, NEW from, NEW to, Stage(n) = from, Stage(n)' = to,
           UNCHANGED answers, \A l \in Keys \ {n} : Stage(l)' = Stage(l)
    PROVE  PD!Advance(n, from, to)
  <1>1. stageOf' = [stageOf EXCEPT ![n] = to] /\ stageOf[n] = from
    BY DEF stageOf
  <1> QED
    BY <1>1 DEF stageOf, PD!Advance

LEMMA DeliveryInit == Init => PD!Init
  <1> SUFFICES ASSUME Init PROVE PD!Init
    OBVIOUS
  <1>1. \A n \in Keys : Stage(n) = "unsent"
    BY DEF Init, StoreInit, ClientInit, Unmarked, EverMarked, Stage
  <1> QED
    BY <1>1 DEF Init, PD!Init

\* The partner is told the status with which a call ends
LEMMA TellStep ==
    ASSUME Inv, NEW c \in Calls, NEW status, Reply(c, status),
           UNCHANGED <<storeRest, sent, stamp, forwarded, arrived>>
    PROVE  PD!Tell(key[c], status)
  <1>1. \A n \in Keys : EverMarked(n)' <=> EverMarked(n)
    BY DEF EverMarked, storeRest
  <1>2. stageOf' = stageOf
    BY <1>1, StagesStay
  <1> QED
    BY <1>2, InvTypes DEF stageOf, PD!Tell, Reply

\* Every step is a step of the abstract delivery, or one that it does not show
LEMMA DeliveryStep ==
    ASSUME OneTable, LongEnoughTtl, Inv, Inv', [Next]_vars
    PROVE  [PD!Next]_(PD!vars)
  <1>t. /\ at \in [Calls -> WebhookPhases] /\ key \in [Calls -> Keys]
        /\ answers \in [Keys -> SUBSET Statuses]
        /\ forwarded \in [Keys -> 0 .. MaxForwards]
        /\ arrived \in [Keys -> 0 .. MaxForwards]
        /\ \A c \in Calls : key[c] \in Keys
    BY InvTypes
  <1>0. ASSUME UNCHANGED <<sent, forwarded, arrived, answers>>,
               \A n \in Keys : EverMarked(n)' <=> EverMarked(n)
        PROVE  UNCHANGED PD!vars
    BY <1>0, StagesStay DEF stageOf, PD!vars
  <1>1. ASSUME NEW n \in Keys, NEW s \in Skews, Send(n, s) PROVE PD!Send(n)
    <2>1. /\ n \notin sent /\ sent' = sent \cup {n}
          /\ UNCHANGED <<redis, mem, forwarded, arrived, answers>>
      BY <1>1 DEF Send, storeVars
    <2>2. /\ Stage(n) = "unsent" /\ ~EverMarked(n) /\ forwarded[n] = 0 /\ arrived[n] = 0
      BY <2>1, <1>t, StageIs DEF Inv, Once, MarkedInWindow, WellTimed, ForwardedOnce, EverMarked
    <2>3. \A l \in Keys : EverMarked(l)' <=> EverMarked(l)
      BY <2>1 DEF EverMarked
    <2>4. Stage(n)' = "sent"
      BY <2>1, <2>2, <2>3 DEF Stage
    <2>5. \A l \in Keys \ {n} : Stage(l)' = Stage(l)
      BY <2>1, <2>3 DEF Stage
    <2> QED
      BY <2>1, <2>2, <2>4, <2>5, StageMoves DEF PD!Send
  <1>2. ASSUME NEW c \in Calls, NEW n \in Keys, Reject(c, n)
        PROVE  Reason(n) \in MayFail(n) /\ PD!TurnAway(n, Reason(n))
    <2>1. Reason(n) \in MayFail(n)
      BY <1>2 DEF Reject, Reason, MayFail
    <2>2. stageOf' = stageOf
      BY <1>2, StagesStay DEF Reject, storeVars, EverMarked
    <2>3. n \in sent => Stage(n) # "unsent"
      BY StageIs DEF Stage
    <2> QED
      BY <1>2, <2>1, <2>2, <2>3 DEF Reject, stageOf, PD!TurnAway, PD!Tell
  <1>3. ASSUME NEW c \in Calls, NEW n \in Keys, Verify(c, n) PROVE UNCHANGED PD!vars
    BY <1>0, <1>3 DEF Verify, MarkOnce, EverMarked
  <1>4. ASSUME NEW c \in Calls, RedisSet(c) \/ RedisDrop(c) \/ MemoryMark(c),
               UNCHANGED webhookVars
        PROVE  PD!Slot(key[c]) \/ UNCHANGED PD!vars
    <2> DEFINE n == key[c]
    <2>1. Decision(c) /\ at[c] \in Undecided /\ n \in Keys
      BY <1>4, <1>t, RedisDecides, MemoryDecides
    <2>2. n \in sent /\ Kind[n] \in Verifiable
      BY <2>1 DEF Inv, Once, PendingInWindow
    <2>3. \A l \in Keys \ {n} : EverMarked(l)' <=> EverMarked(l)
      BY <2>1 DEF Decision, EverMarked
    <2>4. UNCHANGED <<sent, forwarded, arrived, answers, key>>
      BY <2>1 DEF Decision
    <2>5. CASE EverMarked(n) \/ ~EverMarked(n)'
      <3>1. EverMarked(n)' <=> EverMarked(n)
        BY <2>1, <2>5 DEF Decision, EverMarked
      <3> QED
        BY <1>0, <2>3, <2>4, <3>1
    <2>6. CASE ~EverMarked(n) /\ EverMarked(n)'
      <3>1. Stage(n) = "sent" /\ forwarded[n] = 0 /\ arrived[n] = 0
        BY <2>1, <2>2, <2>6, <1>t, StageIs DEF Inv, Once, ForwardedOnce
      <3>2. Stage(n)' = "slotted"
        BY <2>4, <2>6, <3>1 DEF Stage
      <3>3. \A l \in Keys \ {n} : Stage(l)' = Stage(l)
        BY <2>3, <2>4 DEF Stage
      <3> QED
        BY <2>1, <2>2, <2>4, <3>1, <3>2, <3>3, StageMoves DEF PD!Slot
    <2> QED
      BY <2>5, <2>6
  <1>5. ASSUME NEW i \in Instances,
               ConnectResolved(i) \/ ConnectRejected(i) \/ ConnectionLost(i),
               UNCHANGED <<now, redis, mem, key, webhookVars>>
        PROVE  UNCHANGED PD!vars
    BY <1>0, <1>5 DEF webhookVars, EverMarked
  <1>6. ASSUME NEW c \in Calls, Replayed(c) PROVE PD!Replay(key[c])
    <2>1. EverMarked(key[c])
      BY <1>6 DEF Replayed, Inv, TruthInv, CallsTruthful
    <2>2. Stage(key[c]) \in PD!Slotted
      BY <2>1, <1>t, StageIs DEF Stage, PD!Slotted
    <2>3. PD!Tell(key[c], "NONCE_REPLAY")
      BY <1>6, TellStep DEF Replayed
    <2> QED
      BY <2>2, <2>3, <1>t DEF PD!Replay
  <1>7. ASSUME NEW c \in Calls, Forward(c) PROVE PD!HandOver(key[c])
    <2> DEFINE n == key[c]
    <2>1. n \in Keys /\ EverMarked(n) /\ forwarded[n] = 0
      BY <1>7, <1>t DEF Forward, Inv, Once, OneGrant
    <2>2. Stage(n) = "slotted" /\ arrived[n] = 0
      BY <2>1, StageIs
    <2>3. /\ \A l \in Keys : forwarded'[l] = IF l = n THEN 1 ELSE forwarded[l]
          /\ \A l \in Keys : EverMarked(l)' <=> EverMarked(l)
          /\ UNCHANGED <<sent, arrived, answers, key>>
      BY <1>7, <1>t, <2>1 DEF Forward, storeRest, EverMarked
    <2>4. Stage(n)' = "handed"
      BY <2>1, <2>2, <2>3 DEF Stage
    <2>5. \A l \in Keys \ {n} : Stage(l)' = Stage(l)
      BY <2>3 DEF Stage
    <2> QED
      BY <2>1, <2>2, <2>3, <2>4, <2>5, StageMoves DEF PD!HandOver
  <1>8. ASSUME NEW n \in Keys, Bill(n) PROVE PD!Bill(n)
    <2>1. arrived[n] = 0 /\ forwarded[n] # 0
      BY <1>8, <1>t DEF Bill, Inv, Once, ForwardedOnce
    <2>2. Stage(n) = "handed"
      BY <2>1, StageIs
    <2>3. /\ \A l \in Keys : arrived'[l] = IF l = n THEN 1 ELSE arrived[l]
          /\ \A l \in Keys : EverMarked(l)' <=> EverMarked(l)
          /\ UNCHANGED <<sent, forwarded, answers>>
      BY <1>8, <1>t, <2>1 DEF Bill, storeRest, EverMarked
    <2>4. Stage(n)' = "billed"
      BY <2>1, <2>3, <1>t DEF Stage, Inv, Once, ForwardedOnce
    <2>5. \A l \in Keys \ {n} : Stage(l)' = Stage(l)
      BY <2>3 DEF Stage
    <2> QED
      BY <2>2, <2>3, <2>4, <2>5, StageMoves DEF PD!Bill
  <1>9. ASSUME NEW c \in Calls, Relay(c) PROVE PD!Answer(key[c])
    <2>1. at[c] = BillingStatus(key[c]) /\ arrived[key[c]] # 0
      BY <1>9, <1>t DEF Relay, Inv, TruthInv, CallsTruthful
    <2>2. Stage(key[c]) = "billed"
      BY <2>1, <1>t, StageIs
    <2>3. PD!Tell(key[c], at[c])
      BY <1>9, TellStep DEF Relay
    <2> QED
      BY <2>1, <2>2, <2>3, <1>t DEF PD!Answer
  <1>10. ASSUME NEW c \in Calls, ForwardFails(c) PROVE PD!Lose(key[c])
    <2>1. forwarded[key[c]] # 0
      <3>1. CASE at[c] = "forwarding"
        BY <3>1 DEF Inv, Once, ForwardingSent
      <3>2. CASE at[c] \in Relays
        BY <3>2, <1>t DEF Inv, TruthInv, CallsTruthful, Once, ForwardedOnce
      <3> QED
        BY <1>10, <3>1, <3>2 DEF ForwardFails
    <2>2. Stage(key[c]) \in PD!Handed
      BY <2>1, <1>t, StageIs DEF PD!Handed
    <2>3. PD!Tell(key[c], "502")
      BY <1>10, TellStep DEF ForwardFails
    <2> QED
      BY <2>2, <2>3, <1>t DEF PD!Lose
  <1>11. ASSUME NEW i \in Instances, Crash(i) PROVE UNCHANGED PD!vars
    <2>1. mem' = mem
      BY <1>11, CrashLosesNothing, OneTableKeepsMarks DEF Inv
    <2> QED
      BY <1>0, <1>11, <2>1 DEF Crash, StoreDie, EverMarked
  <1>12. ASSUME (\E i \in Instances : Recover(i)) \/ Tick \/ UNCHANGED vars
         PROVE  UNCHANGED PD!vars
    <2>1. UNCHANGED <<redis, mem, sent, forwarded, arrived, answers>>
      BY <1>12 DEF Recover, StoreRestart, Restart, Tick, StoreTick, vars, storeVars, webhookVars
    <2> QED
      BY <1>0, <2>1 DEF EverMarked
  <1>13. ASSUME NEW n \in Keys, PD!Send(n) \/ PD!Slot(n) \/ PD!HandOver(n) \/ PD!Bill(n)
                                \/ PD!Replay(n) \/ PD!Lose(n) \/ PD!Answer(n)
         PROVE  PD!Next
    BY <1>13 DEF PD!Next
  <1>14. CASE \E c \in Calls, n \in Keys : Reject(c, n)
    BY <1>2, <1>14 DEF PD!Next
  <1>15. CASE Store
    <2>1. \A c \in Calls : RedisSet(c) \/ RedisDrop(c) \/ MemoryMark(c) =>
            PD!Slot(key[c]) \/ UNCHANGED PD!vars
      BY <1>4, <1>15 DEF Store
    <2> QED
      BY <1>5, <1>13, <1>15, <1>t, <2>1 DEF Store, StoreStep
  <1>16. CASE \E c \in Calls : Replayed(c) \/ Forward(c) \/ Relay(c) \/ ForwardFails(c)
    BY <1>6, <1>7, <1>9, <1>10, <1>13, <1>16, <1>t
  <1>17. CASE \E n \in Keys : Bill(n) \/ \E s \in Skews : Send(n, s)
    BY <1>1, <1>8, <1>13, <1>17
  <1>18. CASE \/ \E c \in Calls, n \in Keys : Verify(c, n)
              \/ \E i \in Instances : Crash(i) \/ Recover(i)
              \/ Tick \/ UNCHANGED vars
    BY <1>3, <1>11, <1>12, <1>18
  <1> QED
    BY <1>14, <1>15, <1>16, <1>17, <1>18 DEF Next

\* Where all calls decide in one table and the nonce TTL is long enough, the
\* webhook path implements the abstract delivery, for any number of instances,
\* calls and messages: over duplicates, delays, retries, lost responses and
\* crashes each message is slotted, handed to billing and billed at most once
\* and in this order, and every status the partner gets is true of the stage
\* its message has reached (webhook-authorizer/server.js:40-78,
\* webhook-verify.js:28-62, billing-service/server.js:64-85).
THEOREM DeliveryRefines ==
    ASSUME OneTable, LongEnoughTtl
    PROVE  Spec => DeliversInStages
  <1>1. Init => PD!Init
    BY DeliveryInit
  <1>2. Inv /\ Inv' /\ [Next]_vars => [PD!Next]_(PD!vars)
    BY DeliveryStep
  <1> QED
    BY <1>1, <1>2, InvInit, InvStep, PTL DEF Spec, DeliversInStages, PD!Spec
=============================================================================
