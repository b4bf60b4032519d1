------------------------- MODULE RefreshProxyProofs -------------------------
(***************************************************************************)
(* Theorems about RefreshProxy, for every number of instances, calls and   *)
(* tokens and every lifetime.                                              *)
(***************************************************************************)
EXTENDS RefreshProxy, ReplayMarkerProofs, TLAPS

(***************************************************************************)
(* The inductive invariant.  Keycloak handles at most what it was sent; a  *)
(* token is only submitted, marked or exchanged once it has been issued,   *)
(* so its mark outlives it; hence while it is valid at most one call was   *)
(* granted it, and each login has one token without a successor.           *)
(***************************************************************************)
Counters ==
    \A t \in Keys : redeemed[t] <= handled[t] /\ handled[t] <= exchanges[t]

Granting == \A c \in Calls : at[c] = "granted" => grant[c] \in Keys

NoFallback == \A c \in Calls : at[c] # "memory"

Past == \A t \in Keys : issued[t] <= now

OnlyIssued ==
    /\ \A t \in known : Issued(t)
    /\ \A c \in Calls : at[c] # "idle" => Issued(key[c])
    /\ \A c \in Calls : grant[c] # NoToken => Issued(grant[c])
    /\ \A t \in Keys : exchanges[t] # 0 => Issued(t)
    /\ \A t \in Keys : Issued(t) => login[t] \in Keys /\ Issued(login[t])

MarkOutlivesToken ==
    \A t \in Keys : redis[t] # 0 => Issued(t) /\ issued[t] + Ttl <= redis[t]

OneGrant ==
    \A c \in Calls : at[c] = "fresh" /\ Valid(key[c]) =>
        /\ redis[key[c]] # 0
        /\ exchanges[key[c]] = 0
        /\ \A d \in Calls : at[d] = "fresh" /\ key[d] = key[c] => c = d

ExchangedOnce ==
    \A t \in Keys : Valid(t) => /\ exchanges[t] <= 1
                                /\ exchanges[t] # 0 => redis[t] # 0

OneTipPerLogin ==
    \A t, u \in Keys :
        /\ Issued(t) /\ Issued(u) /\ login[t] = login[u]
        /\ redeemed[t] = 0 /\ redeemed[u] = 0
        => t = u

Typed == TypeOK /\ Counters /\ Granting

Inv == /\ Typed
       /\ NoFallback
       /\ Past
       /\ OnlyIssued
       /\ MarkOutlivesToken
       /\ OneGrant
       /\ ExchangedOnce
       /\ RedeemedAtMostOnce
       /\ OneTipPerLogin

USE HostAssumption, EnvAssumption, ModeAssumption, StoreAssumption, RefreshAssumption

-----------------------------------------------------------------------------
LEMMA TypedInit == Init => Typed
  <1> SUFFICES ASSUME Init PROVE Typed
    OBVIOUS
  <1>1. Unmarked \in Marks
    BY UnmarkedType
  <1> QED
    BY <1>1 DEF Init, StoreInit, ClientInit, Typed, TypeOK, Counters, Granting,
         StoreTypeOK, RefreshPhases, StorePhases, ClientPhases, ClientStates

\* The types and the counters are kept together: a redemption stays within
\* its bound because it follows an exchange.
LEMMA TypedStep == Typed /\ [Next]_vars => Typed'
  <1> SUFFICES ASSUME Typed, [Next]_vars PROVE Typed'
    OBVIOUS
  <1>0. StorePhases \subseteq RefreshPhases /\ StoreTypeOK /\ at \in [Calls -> RefreshPhases]
    BY DEF RefreshPhases, Typed, TypeOK
  <1> USE DEF Typed, TypeOK, Counters, Granting, storeRest, keycloakVars
  <1>1. ASSUME NEW t \in LoginTokens, Login(t) PROVE Typed'
    BY <1>1 DEF Login, storeVars, StoreTypeOK, Marks
  <1>2. ASSUME NEW c \in Calls, NEW t \in Keys, Submit(c, t) PROVE Typed'
    <2>1. StoreTypeOK' /\ at' \in [Calls -> RefreshPhases]
      BY ONLY <1>0, <1>2, MarkOnceType DEF Submit
    <2>2. \A d \in Calls : at'[d] = "granted" => at[d] = "granted"
      BY <1>2 DEF Submit, MarkOnce, GetRedisClient, NoRedis
    <2> QED
      BY <1>2, <2>1, <2>2 DEF Submit, refreshVars
  <1>3. CASE Store
    <2>1. StoreTypeOK' /\ at' \in [Calls -> RefreshPhases]
      BY ONLY <1>0, <1>3, StoreStepType DEF Store
    <2>2. \A d \in Calls : at'[d] = "granted" => at[d] = "granted"
      BY <1>3 DEF Store, StoreStep, RedisSet, RedisDrop, MemoryMark, Answer,
                  ConnectResolved, ConnectRejected, ConnectionLost, NoRedis
    <2> QED
      BY <1>3, <2>1, <2>2 DEF Store, refreshVars
  <1>4. ASSUME NEW c \in Calls, Replayed(c) \/ RelayRefusal(c) \/ ExchangeFails(c)
        PROVE  Typed'
    BY <1>4 DEF Replayed, RelayRefusal, ExchangeFails, Answered, StoreTypeOK,
                RefreshPhases, StorePhases, ClientPhases
  <1>5. ASSUME NEW c \in Calls, Relay(c) PROVE Typed'
    BY <1>5 DEF Relay, Answered, StoreTypeOK, RefreshPhases, StorePhases, ClientPhases
  <1>6. ASSUME NEW c \in Calls, Exchange(c) PROVE Typed'
    BY <1>6 DEF Exchange, StoreTypeOK, RefreshPhases
  <1>7. ASSUME NEW t \in Keys, NEW u \in Keys, Redeem(t, u) PROVE Typed'
    <2>1. /\ handled' \in [Keys -> 0 .. MaxExchanges]
          /\ redeemed' \in [Keys -> 0 .. MaxExchanges]
          /\ \A v \in Keys : redeemed'[v] <= handled'[v] /\ handled'[v] <= exchanges[v]
      BY <1>7 DEF Redeem
    <2>2. /\ at' \in [Calls -> RefreshPhases] /\ grant' \in [Calls -> Keys \cup {NoToken}]
          /\ Granting'
      BY <1>7 DEF Redeem, Respond, RefreshPhases
    <2>3. issued' \in [Keys -> -1 .. MaxTime] /\ login' \in [Keys -> Keys \cup {NoToken}]
      BY <1>7 DEF Redeem, StoreTypeOK
    <2> QED
      BY <1>7, <2>1, <2>2, <2>3 DEF Redeem, StoreTypeOK
  <1>8. ASSUME NEW t \in Keys, Refuse(t) PROVE Typed'
    <2>1. /\ handled' \in [Keys -> 0 .. MaxExchanges]
          /\ \A v \in Keys : redeemed[v] <= handled'[v] /\ handled'[v] <= exchanges[v]
      BY <1>8 DEF Refuse
    <2>2. /\ at' \in [Calls -> RefreshPhases] /\ grant' \in [Calls -> Keys \cup {NoToken}]
          /\ Granting'
      BY <1>8 DEF Refuse, Respond, RefreshPhases
    <2> QED
      BY <1>8, <2>1, <2>2 DEF Refuse, StoreTypeOK
  <1>9. ASSUME NEW i \in Instances, Crash(i) PROVE Typed'
    <2>1. StoreTypeOK' /\ at' \in [Calls -> RefreshPhases]
      BY ONLY <1>0, <1>9, StoreDieType DEF Crash
    <2>2. Granting' /\ grant' \in [Calls -> Keys \cup {NoToken}]
      BY <1>9 DEF Crash, StoreDie, Die
    <2> QED
      BY <1>9, <2>1, <2>2 DEF Crash
  <1>10. ASSUME NEW i \in Instances, Recover(i) PROVE Typed'
    BY <1>10 DEF Recover, StoreRestart, Restart, refreshVars, StoreTypeOK
  <1>11. CASE Tick
    BY <1>11 DEF Tick, StoreTick, refreshVars, StoreTypeOK
  <1>12. CASE UNCHANGED vars
    BY <1>12 DEF vars, storeVars, refreshVars, StoreTypeOK
  <1> QED
    BY <1>1, <1>2, <1>3, <1>4, <1>5, <1>6, <1>7, <1>8, <1>9, <1>10, <1>11, <1>12
    DEF Next

\* Clocks, marks, token records and call phases keep their declared shape in
\* every reachable state (auth-service/server.js:79-118).
THEOREM TypeCorrect == Spec => []TypeOK
  <1>1. Typed => TypeOK
    BY DEF Typed
  <1> QED
    BY TypedInit, TypedStep, <1>1, PTL DEF Spec

-----------------------------------------------------------------------------
(***************************************************************************)
(* The condition on the replay TTL: no shorter than a token's lifetime.    *)
(***************************************************************************)
LongEnoughTtl == Idle <= Ttl

LEMMA InvInit == Init => Inv
  <1> SUFFICES ASSUME Init PROVE Inv
    OBVIOUS
  <1>1. Typed
    BY TypedInit
  <1> QED
    BY <1>1 DEF Inv, Init, StoreInit, ClientInit, Unmarked, NoFallback, Past, OnlyIssued,
                MarkOutlivesToken, OneGrant, ExchangedOnce, RedeemedAtMostOnce,
                OneTipPerLogin, Issued, Valid

\* While a token is valid, its mark has not lapsed.
LEMMA MarkLiveWhileValid ==
    ASSUME Inv, LongEnoughTtl, NEW t \in Keys, Valid(t), redis[t] # 0
    PROVE  now < redis[t]
  <1>1. now \in Int /\ issued[t] \in Int /\ redis[t] \in Int
    BY DEF Inv, Typed, TypeOK, StoreTypeOK, Marks
  <1>2. issued[t] + Ttl <= redis[t]
    BY DEF Inv, MarkOutlivesToken
  <1> QED
    BY <1>1, <1>2 DEF LongEnoughTtl, Valid

LEMMA InvRedisSet ==
    ASSUME Inv, Typed', LongEnoughTtl, NEW c \in Calls, UNCHANGED refreshVars,
           RedisSet(c) \/ RedisDrop(c)
    PROVE  Inv'
  <1> DEFINE t == key[c]
  <1>1. /\ t \in Keys /\ now \in 0 .. MaxTime /\ redis \in Marks
        /\ at \in [Calls -> RefreshPhases] /\ key \in [Calls -> Keys]
        /\ issued[t] \in Int /\ issued[t] <= now
    BY DEF Inv, Typed, TypeOK, StoreTypeOK, Past
  <1>2. at[c] = "redis" /\ Issued(t)
    BY DEF RedisSet, RedisDrop, Inv, OnlyIssued
  <1>3. /\ \A l \in Keys \ {t} : redis'[l] = redis[l]
        /\ redis'[t] \in {redis[t], now + Ttl}
        /\ Valid(t) /\ redis[t] # 0 => redis'[t] = redis[t]
        /\ at' \in {[at EXCEPT ![c] = "fresh"], [at EXCEPT ![c] = "replay"],
                    [at EXCEPT ![c] = "failed"]}
        /\ at'[c] = "fresh" => redis'[t] # 0
        /\ at'[c] = "fresh" /\ Valid(t) => redis[t] = 0
        /\ now' = now /\ key' = key /\ UNCHANGED refreshVars
    <2>1. Valid(t) /\ redis[t] # 0 => now < redis[t]
      BY <1>1, MarkLiveWhileValid
    <2> QED
      BY <1>1, <1>2, <2>1, MarkEffect DEF RedisSet, RedisDrop
  <1>4. \A l \in Keys : Valid(l)' = Valid(l) /\ Issued(l)' = Issued(l)
    BY <1>3 DEF Valid, Issued, refreshVars, keycloakVars
  <1>5. NoFallback' /\ Past'
    BY <1>1, <1>3 DEF Inv, NoFallback, Past, refreshVars, keycloakVars
  <1>6. OnlyIssued'
    BY <1>1, <1>2, <1>3, <1>4 DEF Inv, OnlyIssued, Issued, refreshVars, keycloakVars
  <1>7. MarkOutlivesToken'
    BY <1>1, <1>2, <1>3, <1>4 DEF Inv, MarkOutlivesToken, refreshVars, keycloakVars
  <1>8. OneGrant'
    <2>1. \A d \in Calls : at'[d] = "fresh" => d = c \/ at[d] = "fresh"
      BY <1>1, <1>3
    <2>2. at'[c] = "fresh" /\ Valid(t) =>
            /\ exchanges[t] = 0
            /\ \A d \in Calls : at[d] = "fresh" => key[d] # t
      BY <1>1, <1>3 DEF Inv, OneGrant, ExchangedOnce, Typed, TypeOK
    <2>3. \A l \in Keys : redis[l] # 0 /\ Valid(l) => redis'[l] # 0
      BY <1>1, <1>3
    <2> QED
      BY <1>1, <1>3, <1>4, <2>1, <2>2, <2>3 DEF Inv, OneGrant, refreshVars, keycloakVars
  <1>9. ExchangedOnce'
    BY <1>1, <1>3, <1>4 DEF Inv, ExchangedOnce, refreshVars, keycloakVars
  <1>10. RedeemedAtMostOnce' /\ OneTipPerLogin'
    BY <1>3, <1>4 DEF Inv, RedeemedAtMostOnce, OneTipPerLogin, refreshVars, keycloakVars
  <1> QED
    BY <1>5, <1>6, <1>7, <1>8, <1>9, <1>10 DEF Inv

\* Steps in which calls only leave: no token is touched, no call is granted.
LEMMA InvCallsLeave ==
    ASSUME Inv, Typed',
           UNCHANGED <<now, redis, key, issued, login, exchanges, redeemed>>,
           \A c \in Calls : /\ at'[c] # "idle" => at[c] # "idle"
                            /\ at'[c] = "fresh" => at[c] = "fresh"
                            /\ at'[c] # "memory"
                            /\ grant'[c] # NoToken => issued[grant'[c]] # -1,
           \A t \in known' : Issued(t)
    PROVE  Inv'
  <1>1. \A t \in Keys : Valid(t)' = Valid(t) /\ Issued(t)' = Issued(t)
    BY DEF Valid, Issued
  <1>2. NoFallback' /\ Past'
    BY DEF Inv, NoFallback, Past
  <1>6. MarkOutlivesToken' /\ ExchangedOnce'
    BY <1>1 DEF Inv, MarkOutlivesToken, ExchangedOnce
  <1>3. RedeemedAtMostOnce' /\ OneTipPerLogin'
    BY <1>1 DEF Inv, RedeemedAtMostOnce, OneTipPerLogin
  <1>4. OnlyIssued'
    BY DEF Inv, OnlyIssued, Issued, Typed, TypeOK, StoreTypeOK
  <1>5. OneGrant'
    BY <1>1 DEF Inv, OneGrant, Typed, TypeOK, StoreTypeOK
  <1> QED
    BY <1>2, <1>3, <1>4, <1>5, <1>6 DEF Inv

LEMMA InvStore ==
    ASSUME Inv, Typed', NeverFallsBack, LongEnoughTtl, Store
    PROVE  Inv'
  <1>1. ASSUME NEW c \in Calls, RedisSet(c) \/ RedisDrop(c) PROVE Inv'
    BY <1>1, InvRedisSet DEF Store
  <1>2. ASSUME NEW c \in Calls, MemoryMark(c) PROVE Inv'
    BY <1>2 DEF MemoryMark, NoFallback, Inv
  <1>3. ASSUME NEW i \in Instances,
               ConnectResolved(i) \/ ConnectRejected(i) \/ ConnectionLost(i),
               UNCHANGED <<now, redis, mem, key>>
        PROVE  Inv'
    <2>1. \A c \in Calls : /\ at'[c] # "idle" => at[c] # "idle"
                           /\ at'[c] = "fresh" => at[c] = "fresh"
                           /\ at'[c] # "memory"
      BY <1>3 DEF ConnectResolved, ConnectRejected, ConnectionLost, NoRedis, NeverFallsBack, NoFallback, Inv
    <2>2. UNCHANGED <<now, redis, key, issued, login, known, exchanges, handled, redeemed, grant>>
      BY <1>3 DEF Store, refreshVars, keycloakVars
    <2>3. /\ \A c \in Calls : grant'[c] # NoToken => issued[grant'[c]] # -1
          /\ \A t \in known' : Issued(t)
      BY <2>2 DEF Inv, OnlyIssued, Issued
    <2> QED
      BY <2>1, <2>2, <2>3, InvCallsLeave
  <1> QED
    BY <1>1, <1>2, <1>3 DEF Store, StoreStep

\* A new token, by login or as a successor: nothing was known of it before.
LEMMA InvIssue ==
    ASSUME Inv, Typed', NEW s \in Keys, ~Issued(s),
           issued' = [issued EXCEPT ![s] = now],
           UNCHANGED <<now, redis, key, exchanges>>,
           \A c \in Calls : at'[c] = at[c] \/ (at'[c] = "granted" /\ at[c] # "idle"),
           \A c \in Calls : grant'[c] # NoToken => issued'[grant'[c]] # -1,
           \A t \in known' : Issued(t)',
           \A t \in Keys : Issued(t)' => login'[t] \in Keys /\ issued'[login'[t]] # -1
    PROVE  /\ NoFallback' /\ Past' /\ OnlyIssued' /\ MarkOutlivesToken' /\ OneGrant'
           /\ ExchangedOnce'
           /\ \A t \in Keys : Issued(t) => Issued(t)'
  <1>1. /\ issued \in [Keys -> -1 .. MaxTime] /\ now \in 0 .. MaxTime
        /\ exchanges \in [Keys -> 0 .. MaxExchanges]
        /\ redis[s] = 0 /\ exchanges[s] = 0
        /\ key \in [Calls -> Keys]
        /\ \A c \in Calls : at[c] # "idle" => key[c] # s
    BY DEF Inv, Typed, TypeOK, StoreTypeOK, OnlyIssued, MarkOutlivesToken
  <1>2. \A t \in Keys : /\ t # s => issued'[t] = issued[t] /\ Valid(t)' = Valid(t)
                        /\ Issued(t)' <=> t = s \/ Issued(t)
    BY <1>1 DEF Valid, Issued
  <1>3. NoFallback' /\ Past'
    BY <1>1, <1>2 DEF Inv, NoFallback, Past
  <1>4. OnlyIssued'
    BY <1>1, <1>2 DEF Inv, OnlyIssued, Issued
  <1>5. MarkOutlivesToken' /\ ExchangedOnce'
    BY <1>1, <1>2 DEF Inv, MarkOutlivesToken, ExchangedOnce
  <1>6. OneGrant'
    BY <1>1, <1>2 DEF Inv, OneGrant
  <1> QED
    BY <1>2, <1>3, <1>4, <1>5, <1>6

LEMMA InvStep == NeverFallsBack /\ LongEnoughTtl /\ Inv /\ [Next]_vars => Inv'
  <1> SUFFICES ASSUME NeverFallsBack, LongEnoughTtl, Inv, [Next]_vars PROVE Inv'
    OBVIOUS
  <1>0. Typed'
    BY TypedStep DEF Inv
  <1>t. /\ at \in [Calls -> RefreshPhases] /\ key \in [Calls -> Keys]
        /\ grant \in [Calls -> Keys \cup {NoToken}] /\ known \subseteq Keys
        /\ issued \in [Keys -> -1 .. MaxTime] /\ now \in 0 .. MaxTime
        /\ login \in [Keys -> Keys \cup {NoToken}]
        /\ redeemed \in [Keys -> 0 .. MaxExchanges]
        /\ handled \in [Keys -> 0 .. MaxExchanges]
        /\ exchanges \in [Keys -> 0 .. MaxExchanges]
    BY DEF Inv, Typed, TypeOK, StoreTypeOK
  <1>g. /\ \A c \in Calls : grant[c] # NoToken => issued[grant[c]] # -1
        /\ \A t \in known : Issued(t)
        /\ \A c \in Calls : at[c] # "memory"
        /\ \A c \in Calls : at[c] = "granted" => grant[c] # NoToken
    BY DEF Inv, OnlyIssued, NoFallback, Typed, Granting, RefreshAssumption, Issued
  <1>1. ASSUME NEW t \in LoginTokens, Login(t) PROVE Inv'
    <2>1. /\ t \in Keys /\ ~Issued(t) /\ issued' = [issued EXCEPT ![t] = now]
          /\ login' = [login EXCEPT ![t] = t] /\ known' = known \cup {t}
          /\ UNCHANGED <<now, redis, key, at, grant, exchanges, handled, redeemed>>
      BY <1>1 DEF Login, storeVars
    <2>2. \A u \in Keys : Issued(u)' <=> u = t \/ Issued(u)
      BY <1>t, <2>1 DEF Issued
    <2>3. \A u \in Keys : Issued(u) => login[u] \in Keys /\ Issued(login[u])
      BY DEF Inv, OnlyIssued
    <2>4. \A u \in Keys : Issued(u)' => login'[u] \in Keys /\ issued'[login'[u]] # -1
      BY <1>t, <2>1, <2>2, <2>3 DEF Issued
    <2>5. \A c \in Calls : grant'[c] # NoToken => issued'[grant'[c]] # -1
      BY <1>t, <1>g, <2>1, <2>2 DEF Issued
    <2>6. \A u \in known' : Issued(u)'
      BY <1>t, <1>g, <2>1, <2>2
    <2>7. OneTipPerLogin'
      BY <1>t, <2>1, <2>2, <2>3 DEF Inv, OneTipPerLogin
    <2>8. /\ NoFallback' /\ Past' /\ OnlyIssued' /\ MarkOutlivesToken' /\ OneGrant'
          /\ ExchangedOnce'
      BY <1>0, <2>1, <2>4, <2>5, <2>6, InvIssue
    <2> QED
      BY <1>0, <2>1, <2>7, <2>8 DEF Inv, RedeemedAtMostOnce
  <1>2. ASSUME NEW c \in Calls, NEW t \in Keys, Submit(c, t) PROVE Inv'
    <2>1. /\ at' \in {[at EXCEPT ![c] = "redis"], [at EXCEPT ![c] = "waiting"],
                      [at EXCEPT ![c] = "failed"]}
          /\ key' = [key EXCEPT ![c] = t] /\ Issued(t) /\ at[c] = "idle"
          /\ UNCHANGED <<now, redis, issued, login, known, exchanges, handled,
                        redeemed, grant>>
      BY <1>2, <1>g DEF Submit, MarkOnce, GetRedisClient, NoRedis, NeverFallsBack,
                        refreshVars, keycloakVars
    <2>2. \A u \in Keys : Valid(u)' = Valid(u) /\ Issued(u)' = Issued(u)
      BY <2>1 DEF Valid, Issued
    <2>3. NoFallback' /\ Past' /\ MarkOutlivesToken' /\ ExchangedOnce'
      BY <1>t, <2>1, <2>2 DEF Inv, NoFallback, Past, MarkOutlivesToken, ExchangedOnce
    <2>4. OnlyIssued'
      BY <1>t, <2>1, <2>2 DEF Inv, OnlyIssued, Issued
    <2>5. OneGrant'
      BY <1>t, <2>1, <2>2 DEF Inv, OneGrant
    <2>6. RedeemedAtMostOnce' /\ OneTipPerLogin'
      BY <2>1, <2>2 DEF Inv, RedeemedAtMostOnce, OneTipPerLogin
    <2> QED
      BY <1>0, <2>3, <2>4, <2>5, <2>6 DEF Inv
  <1>3. CASE Store
    BY <1>0, <1>3, InvStore
  <1>4. ASSUME NEW c \in Calls,
               Replayed(c) \/ RelayRefusal(c) \/ ExchangeFails(c) \/ Relay(c)
        PROVE  Inv'
    <2>1. /\ at' = [at EXCEPT ![c] = "idle"] /\ grant' = [grant EXCEPT ![c] = NoToken]
          /\ UNCHANGED <<now, redis, key, issued, login, exchanges, redeemed>>
      BY <1>4 DEF Replayed, RelayRefusal, ExchangeFails, Relay, Answered, storeRest, keycloakVars
    <2>2. \A u \in known' : Issued(u)
      BY <1>4, <1>g, <1>t DEF Replayed, RelayRefusal, ExchangeFails, Relay, Issued
    <2>3. \A d \in Calls : /\ at'[d] # "idle" => at[d] # "idle"
                           /\ at'[d] = "fresh" => at[d] = "fresh"
                           /\ at'[d] # "memory"
                           /\ grant'[d] # NoToken => issued[grant'[d]] # -1
      BY <1>t, <1>g, <2>1
    <2> QED
      BY <1>0, <2>1, <2>2, <2>3, InvCallsLeave
  <1>5. ASSUME NEW c \in Calls, Exchange(c) PROVE Inv'
    <2>1. /\ at[c] = "fresh" /\ at' = [at EXCEPT ![c] = "exchanging"]
          /\ exchanges' = [exchanges EXCEPT ![key[c]] = @ + 1]
          /\ UNCHANGED <<now, redis, key, issued, login, known, handled, redeemed, grant>>
      BY <1>5 DEF Exchange, storeRest
    <2>2. \A u \in Keys : Valid(u)' = Valid(u) /\ Issued(u)' = Issued(u)
      BY <2>1 DEF Valid, Issued
    <2>3. NoFallback' /\ Past' /\ MarkOutlivesToken' /\ RedeemedAtMostOnce' /\ OneTipPerLogin'
      BY <1>t, <2>1, <2>2 DEF Inv, NoFallback, Past, MarkOutlivesToken,
                              RedeemedAtMostOnce, OneTipPerLogin
    <2>4. OnlyIssued'
      BY <1>t, <2>1, <2>2 DEF Inv, OnlyIssued, Issued
    <2>5. OneGrant'
      BY <1>t, <2>1, <2>2 DEF Inv, OneGrant
    <2>6. ExchangedOnce'
      BY <1>t, <2>1, <2>2 DEF Inv, ExchangedOnce, OneGrant
    <2> QED
      BY <1>0, <2>3, <2>4, <2>5, <2>6 DEF Inv
  <1>6. ASSUME NEW t \in Keys, NEW s \in Keys, Redeem(t, s) PROVE Inv'
    <2>1. /\ handled[t] < exchanges[t] /\ Valid(t) /\ ~Issued(s)
          /\ redeemed' = [redeemed EXCEPT ![t] = @ + 1]
          /\ issued' = [issued EXCEPT ![s] = now]
          /\ login' = [login EXCEPT ![s] = login[t]]
          /\ UNCHANGED <<now, redis, key, exchanges, known>>
      BY <1>6 DEF Redeem, storeRest
    <2>2. Issued(t) /\ t # s /\ redeemed[t] = 0
      BY <1>t, <2>1 DEF Valid, Inv, ExchangedOnce, Typed, Counters
    <2>3. /\ \A c \in Calls : at'[c] = at[c] \/ (at'[c] = "granted" /\ at[c] # "idle")
          /\ \A c \in Calls : grant'[c] = grant[c] \/ grant'[c] = s
      BY <1>t, <1>6 DEF Redeem, Respond
    <2>4. \A u \in Keys : Issued(u)' <=> u = s \/ Issued(u)
      BY <1>t, <2>1 DEF Issued
    <2>5. \A u \in Keys : Issued(u) => login[u] \in Keys /\ Issued(login[u])
      BY DEF Inv, OnlyIssued
    <2>6. \A u \in Keys : Issued(u)' => login'[u] \in Keys /\ issued'[login'[u]] # -1
      BY <1>t, <2>1, <2>2, <2>4, <2>5 DEF Issued
    <2>7. /\ \A c \in Calls : grant'[c] # NoToken => issued'[grant'[c]] # -1
          /\ \A u \in known' : Issued(u)'
      BY <1>t, <1>g, <2>1, <2>3, <2>4 DEF Issued
    <2>8. /\ NoFallback' /\ Past' /\ OnlyIssued' /\ MarkOutlivesToken' /\ OneGrant'
          /\ ExchangedOnce'
      BY <1>0, <2>1, <2>3, <2>6, <2>7, InvIssue
    <2>9. RedeemedAtMostOnce'
      BY <1>t, <2>1, <2>2 DEF Inv, RedeemedAtMostOnce
    <2>10. OneTipPerLogin'
      <3>1. \A u \in Keys : Issued(u) /\ login[u] = login[t] /\ redeemed[u] = 0 => u = t
        BY <2>2 DEF Inv, OneTipPerLogin
      <3> QED
        BY <1>t, <2>1, <2>2, <2>4, <3>1 DEF Inv, OneTipPerLogin
    <2> QED
      BY <1>0, <2>8, <2>9, <2>10 DEF Inv
  <1>7. ASSUME NEW t \in Keys, Refuse(t) PROVE Inv'
    <2>1. /\ UNCHANGED <<now, redis, key, issued, login, exchanges, redeemed, known>>
          /\ \A c \in Calls : at'[c] = at[c] \/ (at'[c] = "refused" /\ at[c] # "idle")
          /\ \A c \in Calls : grant'[c] = grant[c] \/ grant'[c] = NoToken
      BY <1>t, <1>7 DEF Refuse, Respond, storeRest
    <2> QED
      BY <1>0, <1>g, <2>1, InvCallsLeave
  <1>8. ASSUME NEW i \in Instances, Crash(i) PROVE Inv'
    <2>1. /\ UNCHANGED <<now, redis, key, issued, login, exchanges, redeemed, known>>
          /\ \A c \in Calls : at'[c] = at[c] \/ at'[c] = "idle"
          /\ \A c \in Calls : grant'[c] = grant[c] \/ grant'[c] = NoToken
      BY <1>t, <1>8 DEF Crash, StoreDie, Die, keycloakVars
    <2> QED
      BY <1>0, <1>g, <2>1, InvCallsLeave
  <1>9. ASSUME NEW i \in Instances, Recover(i) PROVE Inv'
    <2>1. UNCHANGED <<now, redis, key, at, grant, issued, login, exchanges, redeemed, known>>
      BY <1>9 DEF Recover, StoreRestart, Restart, refreshVars, keycloakVars
    <2> QED
      BY <1>0, <1>g, <2>1, InvCallsLeave
  <1>10. CASE Tick
    <2>1. /\ now' = now + 1
          /\ UNCHANGED <<redis, key, at, issued, login, known, exchanges, handled,
                        redeemed, grant>>
      BY <1>10 DEF Tick, StoreTick, refreshVars, keycloakVars
    <2>2. \A u \in Keys : (Valid(u)' => Valid(u)) /\ Issued(u)' = Issued(u)
      BY <1>t, <2>1 DEF Valid, Issued
    <2>3. NoFallback' /\ Past' /\ MarkOutlivesToken' /\ RedeemedAtMostOnce' /\ OneTipPerLogin'
      BY <1>t, <2>1, <2>2 DEF Inv, NoFallback, Past, MarkOutlivesToken,
                              RedeemedAtMostOnce, OneTipPerLogin
    <2>4. OnlyIssued'
      BY <1>t, <2>1, <2>2 DEF Inv, OnlyIssued, Issued
    <2>5. OneGrant' /\ ExchangedOnce'
      BY <1>t, <2>1, <2>2 DEF Inv, OneGrant, ExchangedOnce
    <2> QED
      BY <1>0, <2>3, <2>4, <2>5 DEF Inv
  <1>11. CASE UNCHANGED vars
    <2>1. UNCHANGED <<now, redis, key, at, grant, issued, login, exchanges, redeemed, known>>
      BY <1>11 DEF vars, storeVars, refreshVars, keycloakVars
    <2> QED
      BY <1>0, <1>g, <2>1, InvCallsLeave
  <1> QED
    BY <1>1, <1>2, <1>3, <1>4, <1>5, <1>6, <1>7, <1>8, <1>9, <1>10, <1>11 DEF Next

LEMMA InvImplies == LongEnoughTtl /\ Inv => RedeemedAtMostOnce /\ OneSpendablePerLogin
  <1> SUFFICES ASSUME LongEnoughTtl, Inv PROVE OneSpendablePerLogin
    BY DEF Inv
  <1> SUFFICES ASSUME NEW t \in Keys, Spendable(t) PROVE Issued(t) /\ redeemed[t] = 0
    BY DEF OneSpendablePerLogin, Inv, OneTipPerLogin
  <1>1. Valid(t) /\ Issued(t) /\ redis[t] = 0
    BY MarkLiveWhileValid DEF Spendable, Live, Valid
  <1>2. exchanges[t] = 0
    BY <1>1 DEF Inv, ExchangedOnce
  <1> QED
    BY <1>1, <1>2 DEF Inv, Typed, TypeOK, Counters

\* In a deployment that never falls back to process memory, and with a replay
\* TTL no shorter than a token's lifetime, the proxy gets at most one
\* successor for a refresh token (auth-service/server.js:85-104).
THEOREM OneSuccessor ==
    ASSUME NeverFallsBack, LongEnoughTtl
    PROVE  Spec => []RedeemedAtMostOnce
  BY InvInit, InvStep, InvImplies, PTL DEF Spec

\* Under the same conditions no login ever has two refresh tokens that the
\* proxy would exchange (auth-service/server.js:79-118).
THEOREM OneUsableToken ==
    ASSUME NeverFallsBack, LongEnoughTtl
    PROVE  Spec => []OneSpendablePerLogin
  BY InvInit, InvStep, InvImplies, PTL DEF Spec

-----------------------------------------------------------------------------
(***************************************************************************)
(* The refinement.  Under the invariant a valid token is spendable until   *)
(* it is first marked, so no token returns from spent to current.          *)
(***************************************************************************)
stateOf == [t \in Keys |-> State(t)]

\* The conditions that State tests, in the terms of the invariant
LEMMA SpendableIs ==
    ASSUME Inv, LongEnoughTtl, NEW t \in Keys
    PROVE  /\ Spendable(t) <=> Valid(t) /\ redis[t] = 0
           /\ Spendable(t) => Issued(t) /\ redeemed[t] = 0 /\ State(t) = "current"
  <1>1. now \in Int /\ now >= 0 /\ redis[t] \in Int
    BY DEF Inv, Typed, TypeOK, StoreTypeOK, Marks
  <1>2. Spendable(t) <=> Valid(t) /\ redis[t] = 0
    BY <1>1, MarkLiveWhileValid DEF Spendable, Live
  <1>3. Spendable(t) => exchanges[t] = 0
    BY <1>2 DEF Inv, ExchangedOnce
  <1>4. Spendable(t) => Issued(t) /\ redeemed[t] = 0
    BY <1>2, <1>3 DEF Valid, Inv, Typed, TypeOK, Counters
  <1> QED
    BY <1>2, <1>4 DEF State

\* The same of the state after a step
LEMMA SpendableNext ==
    ASSUME Inv', LongEnoughTtl, NEW t \in Keys, Spendable(t)'
    PROVE  Valid(t)' /\ redis'[t] = 0
  <1>1. /\ now' \in Int /\ redis'[t] \in Int /\ issued'[t] \in Int
        /\ redis'[t] # 0 => issued'[t] + Ttl <= redis'[t]
    BY DEF Inv, Typed, TypeOK, StoreTypeOK, Marks, MarkOutlivesToken
  <1>2. now' < issued'[t] + Idle /\ ~(now' < redis'[t])
    BY DEF Spendable, Valid, Live
  <1> QED
    BY <1>1, <1>2 DEF LongEnoughTtl, Spendable

\* A step that issues, marks and redeems nothing, at no cost of time
LEMMA StatesStay ==
    ASSUME UNCHANGED <<now, redis, issued, login, redeemed>>
    PROVE  UNCHANGED RT!vars
  <1>1. \A t \in Keys : State(t)' = State(t)
    BY DEF State, Issued, Spendable, Valid, Live
  <1> QED
    BY <1>1 DEF RT!vars

\* A step after which some tokens are no longer spendable spends them
LEMMA SpendStep ==
    ASSUME Inv, Inv', LongEnoughTtl, UNCHANGED <<issued, login, redeemed>>,
           \A t \in Keys : Spendable(t)' => Spendable(t)
    PROVE  \E T \in SUBSET RT!Current : RT!Spend(T)
  <1> DEFINE T == {t \in Keys : Spendable(t) /\ ~Spendable(t)'}
  <1>1. \A t \in T : State(t) = "current" /\ State(t)' = "spent"
    BY SpendableIs DEF State, Issued
  <1>2. \A t \in Keys \ T : State(t)' = State(t)
    BY DEF State, Issued
  <1>3. stateOf' = [t \in Keys |-> IF t \in T THEN "spent" ELSE stateOf[t]]
    BY <1>1, <1>2 DEF stateOf
  <1> HIDE DEF T
  <1>4. T \subseteq Keys
    BY DEF T
  <1>5. T \in SUBSET RT!Current
    BY <1>1, <1>4 DEF RT!Current
  <1>6. RT!Spend(T)
    BY <1>3 DEF stateOf, RT!Spend
  <1> QED
    BY <1>5, <1>6

LEMMA RotationInit == Init => RT!Init
  BY DEF Init, State, Issued, RT!Init

LEMMA RotationStep ==
    ASSUME NeverFallsBack, LongEnoughTtl, Inv, Inv', [Next]_vars
    PROVE  [RT!Next]_(RT!vars)
  <1>t. /\ key \in [Calls -> Keys] /\ now \in 0 .. MaxTime /\ redis \in Marks
        /\ issued \in [Keys -> -1 .. MaxTime]
        /\ login \in [Keys -> Keys \cup {NoToken}]
        /\ redeemed \in [Keys -> 0 .. MaxExchanges]
        /\ handled \in [Keys -> 0 .. MaxExchanges]
        /\ exchanges \in [Keys -> 0 .. MaxExchanges]
    BY DEF Inv, Typed, TypeOK, StoreTypeOK
  <1>n. \A t \in Keys : ~Issued(t) => redis[t] = 0
    BY DEF Inv, MarkOutlivesToken
  <1>1. ASSUME NEW t \in LoginTokens, Login(t) PROVE RT!Login(t)
    <2>1. /\ t \in Keys /\ ~Issued(t) /\ issued' = [issued EXCEPT ![t] = now]
          /\ login' = [login EXCEPT ![t] = t]
          /\ UNCHANGED <<now, redis, redeemed>>
      BY <1>1 DEF Login, storeVars
    <2>2. State(t) = "none"
      BY <2>1 DEF State
    <2>3. State(t)' = "current"
      BY <1>t, <1>n, <2>1 DEF State, Issued, Spendable, Valid, Live
    <2>4. \A u \in Keys \ {t} : State(u)' = State(u)
      BY <1>t, <2>1 DEF State, Issued, Spendable, Valid, Live
    <2>5. stateOf' = [stateOf EXCEPT ![t] = "current"] /\ stateOf[t] = "none"
      BY <2>1, <2>2, <2>3, <2>4 DEF stateOf
    <2> QED
      BY <2>1, <2>5 DEF stateOf, RT!Login
  <1>2. ASSUME NEW c \in Calls, RedisSet(c) \/ RedisDrop(c), UNCHANGED refreshVars
        PROVE  \E T \in SUBSET RT!Current : RT!Spend(T)
    <2> DEFINE t == key[c]
    <2>1. /\ t \in Keys /\ UNCHANGED <<now, issued, login, redeemed>>
          /\ redis' \in {redis, Mark(redis, t)}
      BY <1>2, <1>t DEF RedisSet, RedisDrop, refreshVars, keycloakVars
    <2>2. \A u \in Keys : redis'[u] = 0 => redis[u] = 0
      BY <1>t, <2>1, MarkEffect
    <2>3. \A u \in Keys : Valid(u)' => Valid(u)
      BY <2>1 DEF Valid, Issued
    <2>4. \A u \in Keys : Spendable(u)' => Valid(u)' /\ redis'[u] = 0
      BY SpendableNext
    <2>5. \A u \in Keys : Spendable(u)' => Spendable(u)
      BY <2>2, <2>3, <2>4, SpendableIs
    <2> QED
      BY <2>1, <2>5, SpendStep
  <1>3. ASSUME NEW t \in Keys, NEW s \in Keys, Redeem(t, s) PROVE RT!Rotate(t, s)
    <2>1. /\ handled[t] < exchanges[t] /\ Valid(t) /\ ~Issued(s)
          /\ redeemed' = [redeemed EXCEPT ![t] = @ + 1]
          /\ issued' = [issued EXCEPT ![s] = now]
          /\ login' = [login EXCEPT ![s] = login[t]]
          /\ UNCHANGED <<now, redis>>
      BY <1>3 DEF Redeem, storeRest
    <2>2. Issued(t) /\ t # s /\ redeemed[t] = 0 /\ redis[t] # 0
      BY <1>t, <2>1 DEF Valid, Inv, ExchangedOnce, Typed, Counters
    <2>3. ~Spendable(t)
      BY <2>2, SpendableIs
    <2>4. State(t) = "spent" /\ State(s) = "none"
      BY <2>1, <2>2, <2>3 DEF State
    <2>5. State(t)' = "rotated"
      <3>1. Issued(t)' /\ ~Spendable(t)' /\ redeemed'[t] # 0
        BY <1>t, <2>1, <2>2, <2>3 DEF Issued, Spendable, Valid, Live
      <3> QED
        BY <3>1 DEF State
    <2>6. State(s)' = "current"
      BY <1>t, <1>n, <2>1 DEF State, Issued, Spendable, Valid, Live
    <2>7. \A u \in Keys \ {t, s} : State(u)' = State(u)
      BY <1>t, <2>1 DEF State, Issued, Spendable, Valid, Live
    <2>8. /\ stateOf' = [stateOf EXCEPT ![t] = "rotated", ![s] = "current"]
          /\ stateOf[t] = "spent" /\ stateOf[s] = "none"
      BY <2>2, <2>4, <2>5, <2>6, <2>7 DEF stateOf
    <2> QED
      BY <2>1, <2>8 DEF stateOf, RT!Rotate
  <1>4. ASSUME Tick PROVE \E T \in SUBSET RT!Current : RT!Spend(T)
    <2>1. now' = now + 1 /\ UNCHANGED <<redis, issued, login, redeemed>>
      BY <1>4 DEF Tick, StoreTick, refreshVars, keycloakVars
    <2>2. \A u \in Keys : Valid(u)' => Valid(u)
      BY <1>t, <2>1 DEF Valid, Issued
    <2>3. \A u \in Keys : Spendable(u)' => Valid(u)' /\ redis[u] = 0
      BY <2>1, SpendableNext
    <2>4. \A u \in Keys : Spendable(u)' => Spendable(u)
      BY <2>2, <2>3, SpendableIs
    <2> QED
      BY <2>1, <2>4, SpendStep
  <1>5. CASE Store
    <2>1. ASSUME NEW c \in Calls, MemoryMark(c) PROVE FALSE
      BY <2>1 DEF MemoryMark, Inv, NoFallback
    <2>2. ASSUME NEW i \in Instances,
                 ConnectResolved(i) \/ ConnectRejected(i) \/ ConnectionLost(i),
                 UNCHANGED <<now, redis, mem, key, refreshVars>>
          PROVE  UNCHANGED RT!vars
      BY <2>2, StatesStay DEF refreshVars, keycloakVars
    <2>3. \A c \in Calls : RedisSet(c) \/ RedisDrop(c) => RT!Next
      BY <1>2, <1>5 DEF Store, RT!Next
    <2> QED
      BY <1>5, <2>1, <2>2, <2>3 DEF Store, StoreStep
  <1>6. ASSUME \/ \E c \in Calls, t \in Keys : Submit(c, t)
               \/ \E c \in Calls : Replayed(c) \/ Exchange(c) \/ Relay(c)
                                   \/ RelayRefusal(c) \/ ExchangeFails(c)
               \/ \E t \in Keys : Refuse(t)
               \/ \E i \in Instances : Crash(i) \/ Recover(i)
               \/ UNCHANGED vars
        PROVE  UNCHANGED RT!vars
    <2>1. UNCHANGED <<now, redis, issued, login, redeemed>>
      BY <1>6 DEF Submit, MarkOnce, Replayed, Exchange, Relay, RelayRefusal, ExchangeFails,
         Refuse, Crash, StoreDie, Recover, StoreRestart, vars, storeVars, storeRest, refreshVars,
         keycloakVars
    <2> QED
      BY <2>1, StatesStay
  <1>7. CASE \E t \in LoginTokens : Login(t)
    BY <1>1, <1>7 DEF RT!Next
  <1>8. CASE \E t, s \in Keys : Redeem(t, s)
    BY <1>3, <1>8 DEF RT!Next
  <1>9. CASE Tick
    BY <1>4, <1>9 DEF RT!Next
  <1> QED
    BY <1>5, <1>6, <1>7, <1>8, <1>9 DEF Next

\* In a deployment that never falls back to process memory, and with a replay
\* TTL no shorter than a token's lifetime, the proxy implements rotating
\* tokens over a realm that does not rotate them, for any number of instances,
\* calls and tokens (auth-service/server.js:79-118, redis-state.js:74-87).
THEOREM RotationRefines ==
    ASSUME NeverFallsBack, LongEnoughTtl
    PROVE  Spec => TokensRotate
  <1>1. Init => RT!Init
    BY RotationInit
  <1>2. Inv /\ Inv' /\ [Next]_vars => [RT!Next]_(RT!vars)
    BY RotationStep
  <1> QED
    BY <1>1, <1>2, InvInit, InvStep, PTL DEF Spec, TokensRotate, RT!Spec
=============================================================================
