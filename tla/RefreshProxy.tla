---------------------------- MODULE RefreshProxy ----------------------------
(***************************************************************************)
(* POST /api/auth/refresh of auth-service/server.js: the proxy marks the   *)
(* refresh token used before it asks Keycloak to exchange it, because the  *)
(* realm itself does not rotate tokens out (a token it issued stays good   *)
(* until it has been idle for ssoSessionIdleTimeout).  Keys are refresh    *)
(* tokens; Keycloak is external and modelled by the answers the proxy can  *)
(* get from it.                                                            *)
(***************************************************************************)
EXTENDS ReplayStore

CONSTANTS
    LoginTokens,   \* the tokens that logins (not refreshes) may produce
    Idle,          \* lifetime of a refresh token at Keycloak
    MaxExchanges,  \* bound on the exchanges of one token
    NoToken        \* not a token

ASSUME RefreshAssumption ==
    /\ Idle \in Nat \ {0} /\ MaxExchanges \in Nat
    /\ LoginTokens \subseteq Keys /\ NoToken \notin Keys

VARIABLES
    issued,     \* when Keycloak issued each token, -1 if it has not
    login,      \* the token whose login each issued token descends from
    known,      \* tokens a client holds
    exchanges,  \* times each token was sent on to Keycloak
    handled,    \* times Keycloak has handled it
    redeemed,   \* times it issued a successor for it
    grant       \* the successor in the response each call relays

keycloakVars == <<issued, login, exchanges, handled, redeemed>>
refreshVars  == <<keycloakVars, known, grant>>
storeRest    == <<up, client, now, redis, mem, key>>
vars         == <<storeVars, refreshVars>>

RefreshPhases == StorePhases \cup {"exchanging", "granted", "refused"}

TypeOK ==
    /\ StoreTypeOK
    /\ at \in [Calls -> RefreshPhases]
    /\ issued \in [Keys -> -1 .. MaxTime]
    /\ login \in [Keys -> Keys \cup {NoToken}]
    /\ known \subseteq Keys
    /\ exchanges \in [Keys -> 0 .. MaxExchanges]
    /\ handled \in [Keys -> 0 .. MaxExchanges]
    /\ redeemed \in [Keys -> 0 .. MaxExchanges]
    /\ grant \in [Calls -> Keys \cup {NoToken}]

Init ==
    /\ StoreInit
    /\ issued = [t \in Keys |-> -1]
    /\ login = [t \in Keys |-> NoToken]
    /\ known = {}
    /\ exchanges = [t \in Keys |-> 0]
    /\ handled = [t \in Keys |-> 0]
    /\ redeemed = [t \in Keys |-> 0]
    /\ grant = [c \in Calls |-> NoToken]

Issued(t) == issued[t] # -1

\* Keycloak accepts the token
Valid(t) == Issued(t) /\ now < issued[t] + Idle

\* the response is written and the call is over
Answered(c) ==
    /\ at' = [at EXCEPT ![c] = "idle"]
    /\ grant' = [grant EXCEPT ![c] = NoToken]

-----------------------------------------------------------------------------
\* A user logs in at Keycloak (not through the proxy)
Login(t) ==
    /\ ~Issued(t)
    /\ issued' = [issued EXCEPT ![t] = now]
    /\ login' = [login EXCEPT ![t] = t]
    /\ known' = known \cup {t}
    /\ UNCHANGED <<storeVars, exchanges, handled, redeemed, grant>>

\* A client submits a token it holds, for the first time or again: the
\* handler runs up to markOnce(refreshTokenKey(t))
Submit(c, t) ==
    /\ t \in known
    /\ MarkOnce(c, t)
    /\ UNCHANGED refreshVars

Store == StoreStep /\ UNCHANGED refreshVars

\* alreadyUsed: 401 TOKEN_REPLAY
Replayed(c) ==
    /\ at[c] = "replay"
    /\ Answered(c)
    /\ UNCHANGED <<storeRest, keycloakVars, known>>

\* (bug: the verdict of markOnce is not looked at)
ExchangeAlways(c) ==
    /\ at[c] \in {"fresh", "replay"}
    /\ exchanges[key[c]] < MaxExchanges
    /\ exchanges' = [exchanges EXCEPT ![key[c]] = @ + 1]
    /\ at' = [at EXCEPT ![c] = "exchanging"]
    /\ UNCHANGED <<storeRest, issued, login, handled, redeemed, grant, known>>

\* the token is marked; fetch to Keycloak begins
Exchange(c) ==
    /\ at[c] = "fresh"
    /\ exchanges[key[c]] < MaxExchanges
    /\ exchanges' = [exchanges EXCEPT ![key[c]] = @ + 1]
    /\ at' = [at EXCEPT ![c] = "exchanging"]
    /\ UNCHANGED <<storeRest, issued, login, handled, redeemed, grant, known>>

\* Keycloak's response reaches the call that waits for it, or nobody
Respond(t, phase, successor) ==
    \/ \E c \in Calls :
         /\ at[c] = "exchanging" /\ key[c] = t
         /\ at' = [at EXCEPT ![c] = phase]
         /\ grant' = [grant EXCEPT ![c] = successor]
    \/ UNCHANGED <<at, grant>>

\* Keycloak exchanges a valid token for a new one of the same login
Redeem(t, successor) ==
    /\ handled[t] < exchanges[t]
    /\ Valid(t)
    /\ ~Issued(successor)
    /\ handled' = [handled EXCEPT ![t] = @ + 1]
    /\ redeemed' = [redeemed EXCEPT ![t] = @ + 1]
    /\ issued' = [issued EXCEPT ![successor] = now]
    /\ login' = [login EXCEPT ![successor] = login[t]]
    /\ Respond(t, "granted", successor)
    /\ UNCHANGED <<storeRest, exchanges, known>>

\* Keycloak refuses: expired, logged out, or unable
Refuse(t) ==
    /\ handled[t] < exchanges[t]
    /\ handled' = [handled EXCEPT ![t] = @ + 1]
    /\ Respond(t, "refused", NoToken)
    /\ UNCHANGED <<storeRest, issued, login, exchanges, redeemed, known>>

\* 200 with Keycloak's body; it may not reach the client any more
Relay(c) ==
    /\ at[c] = "granted"
    /\ Answered(c)
    /\ known' \in {known, known \cup {grant[c]}}
    /\ UNCHANGED <<storeRest, keycloakVars>>

\* 401 with Keycloak's error
RelayRefusal(c) ==
    /\ at[c] = "refused"
    /\ Answered(c)
    /\ UNCHANGED <<storeRest, keycloakVars, known>>

\* (bug: the mark is taken back, so that the client may try again)
ExchangeFailsUnmarked(c) ==
    /\ at[c] \in {"exchanging", "granted", "refused"}
    /\ Answered(c)
    /\ redis' = [redis EXCEPT ![key[c]] = 0]
    /\ UNCHANGED <<up, client, now, mem, key, keycloakVars, known>>

\* fetch or the parsing of its response throws: 502, and the mark stays
ExchangeFails(c) ==
    /\ at[c] \in {"exchanging", "granted", "refused"}
    /\ Answered(c)
    /\ UNCHANGED <<storeRest, keycloakVars, known>>

\* The process dies: by itself, or by the unhandled rejection of markOnce,
\* which is awaited outside the handler's try
Crash(i) ==
    /\ \/ i \in MayCrash
       \/ \E c \in Calls : Host[c] = i /\ at[c] = "failed"
    /\ StoreDie(i)
    /\ grant' = [c \in Calls |-> IF Host[c] = i THEN NoToken ELSE grant[c]]
    /\ UNCHANGED <<keycloakVars, known>>

Recover(i) == StoreRestart(i) /\ UNCHANGED refreshVars

Tick == StoreTick /\ UNCHANGED refreshVars

Next ==
    \/ \E t \in LoginTokens : Login(t)
    \/ \E c \in Calls, t \in Keys : Submit(c, t)
    \/ Store
    \/ \E c \in Calls : Replayed(c) \/ Exchange(c) \/ Relay(c)
                        \/ RelayRefusal(c) \/ ExchangeFails(c)
    \/ \E t \in Keys : Refuse(t) \/ \E s \in Keys : Redeem(t, s)
    \/ \E i \in Instances : Crash(i) \/ Recover(i)
    \/ Tick

Spec == Init /\ [][Next]_vars

-----------------------------------------------------------------------------
(***************************************************************************)
(* Properties                                                              *)
(***************************************************************************)
\* Concurrent tabs, retries, several instances and crashes included, the
\* proxy gets at most one successor for a refresh token, although the realm
\* would give more (auth-service/server.js:85-104).  Needs Ttl >= Idle.
RedeemedAtMostOnce == \A t \in Keys : redeemed[t] <= 1

\* Valid at Keycloak and not yet marked by the proxy
Spendable(t) == Valid(t) /\ ~Live(redis, t)

\* One login never has two refresh tokens that the proxy would exchange.
OneSpendablePerLogin ==
    \A t, u \in Keys :
        Spendable(t) /\ Spendable(u) /\ login[t] = login[u] => t = u

(***************************************************************************)
(* The abstract tokens.  Not marked and valid is current; a successor was  *)
(* issued, rotated; otherwise the token has been used or is too old.       *)
(***************************************************************************)
State(t) == IF ~Issued(t)          THEN "none"
            ELSE IF Spendable(t)   THEN "current"
            ELSE IF redeemed[t] # 0 THEN "rotated"
            ELSE "spent"

RT == INSTANCE RotatingTokens WITH
        Tokens  <- Keys,
        state   <- [t \in Keys |-> State(t)],
        session <- login

\* Before a realm that lets a token be used again and again, the proxy shows
\* rotating tokens: a token that was used, or whose exchange failed, is never
\* accepted again, not even when its mark has lapsed, and what follows it in
\* the session is one successor (auth-service/server.js:79-118).
TokensRotate == RT!Spec
=============================================================================
