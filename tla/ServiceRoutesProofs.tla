------------------------ MODULE ServiceRoutesProofs ------------------------
(***************************************************************************)
(* Theorems about ServiceRoutes, for every set of concurrent requests,     *)
(* keys, tokens, URLs and DNS answers, and every caching and request time. *)
(***************************************************************************)
EXTENDS ServiceRoutes, TLAPS

USE TokenAssumption, RoutesAssumption

(***************************************************************************)
(* The token check.  A request for a key is not older than LoadTime; a key *)
(* that it found, or that is cached, was published when it was asked for,  *)
(* or was withdrawn not much earlier than it was cached.  A call that      *)
(* waits came in after the request that it waits for was made.             *)
(***************************************************************************)
LoadsAreYoung ==
    \A g \in Guards, k \in Keys : load[g][k] # "none" =>
        /\ since[g][k] <= now /\ now <= since[g][k] + LoadTime
        /\ load[g][k] = "found" => k \in published \/ since[g][k] <= withdrawn[k]

CachedWhenPublished ==
    \A g \in Guards, k \in Keys : cache[g][k] # Never =>
        /\ cache[g][k] <= now
        /\ k \in published \/ cache[g][k] <= withdrawn[k] + LoadTime

WaitersCameLater ==
    \A c \in Calls : at[c] = "waiting" =>
        /\ bearer[c] \in Tokens /\ arrived[c] <= now
        /\ load[guard[c]][bearer[c].kid] # "none"
        /\ since[guard[c]][bearer[c].kid] <= arrived[c]

KeyedInTime ==
    \A c \in Calls :
        /\ at[c] \in {"keyed", "keyless"} => bearer[c] \in Tokens
        /\ at[c] = "keyed" =>
              LET k == bearer[c].kid IN
              /\ arrived[c] <= now /\ now <= arrived[c] + LoadTime
              /\ k \in published \/ now < withdrawn[k] + CacheAge + LoadTime

TokenInv == /\ LoadsAreYoung
            /\ CachedWhenPublished
            /\ WaitersCameLater
            /\ KeyedInTime

(***************************************************************************)
(* The routes.  A call that asks DNS was admitted and has a URL that no    *)
(* rule refuses; so was one that asks Redis for auth-service's status.     *)
(* Refreshes are asked of auth-service.                                    *)
(***************************************************************************)
CallersAdmitted ==
    \A c \in Calls : at[c] = "calling" =>
        /\ route[c] \in {"fetch", "redis"} => c \in admitted
        /\ route[c] = "fetch" => Listed(url[c].host)
        /\ route[c] = "refresh" => service = "auth"

RouteInv == CallersAdmitted /\ ClearedIsAllowed /\ CountersAgree

Inv == TypeOK /\ TokenInv /\ RouteInv

-----------------------------------------------------------------------------
\* The rules for addresses deny the ranges that they are meant to deny, and
\* no others.
LEMMA RulesDenyRanges ==
  ASSUME NEW a \in Addresses PROVE IsPrivateIp(a) <=> Denied(a)
  <1>1. CASE a.family = "loopback"
    BY <1>1 DEF IsPrivateIp, Denied
  <1>2. CASE a.family \in {"v4", "mapped"}
    <2>1. a.head[1] \in 0 .. 255 /\ a.head[2] \in 0 .. 255
          /\ a.head = <<a.head[1], a.head[2]>>
      BY <1>2 DEF Addresses, Octets
    <2> DEFINE x == a.head[1]
               y == a.head[2]
    <2>2. PrivateV4(a.head) <=> \/ x \in {10, 127}
                                \/ x = 169 /\ y = 254
                                \/ x = 192 /\ y = 168
                                \/ x = 172 /\ y \in 16 .. 31
      <3>1. ASSUME NEW v, NEW w
            PROVE  PrivateV4(<<v, w>>) <=> \/ v \in {10, 127}
                                           \/ v = 169 /\ w = 254
                                           \/ v = 192 /\ w = 168
                                           \/ v = 172 /\ w \in 16 .. 31
        BY DEF PrivateV4
      <3>2. a.head = <<x, y>>
        BY <2>1
      <3>3. PrivateV4(a.head) <=> PrivateV4(<<x, y>>)
        BY <3>2
      <3> HIDE DEF x, y
      <3> QED
        BY <3>1, <3>3
    <2>3. IsPrivateIp(a) <=> PrivateV4(a.head)
      BY <1>2 DEF IsPrivateIp
    <2>4. Denied(a) <=> 256 * x + y \in Block(256 * 10, 256) \cup Block(256 * 127, 256)
                                        \cup {256 * 169 + 254, 256 * 192 + 168}
                                        \cup Block(256 * 172 + 16, 16)
      BY <1>2 DEF Denied, Number
    <2>5. x \in 0 .. 255 /\ y \in 0 .. 255
      BY <2>1
    <2> HIDE DEF x, y
    <2>6. ASSUME NEW n \in Int, n = 256 * x + y
          PROVE  (\/ n \in 2560 .. 2815 \/ n \in 32512 .. 32767
                  \/ n = 43518 \/ n = 49320 \/ n \in 44048 .. 44063)
                 <=> \/ x = 10 \/ x = 127
                     \/ x = 169 /\ y = 254
                     \/ x = 192 /\ y = 168
                     \/ x = 172 /\ y \in 16 .. 31
      BY <2>5, <2>6
    <2>7. 256 * x + y \in Int
      BY <2>5
    <2> QED
      BY <2>2, <2>3, <2>4, <2>6, <2>7 DEF Block
  <1>3. CASE a.family = "v6"
    <2>1. /\ a.head[1] \in 0 .. 15 /\ a.head[2] \in 0 .. 15
          /\ a.head[3] \in 0 .. 15 /\ a.head[4] \in 0 .. 15
      BY <1>3 DEF Addresses, Digits
    <2> DEFINE p == a.head[1]
               q == a.head[2]
               r == a.head[3]
               u == a.head[4]
    <2>2. IsPrivateIp(a) <=> p = 15 /\ (q \in {12, 13} \/ (q = 14 /\ r \in 8 .. 11))
      BY <1>3 DEF IsPrivateIp, PrivateV6
    <2>3. Denied(a) <=> 4096 * p + 256 * q + 16 * r + u \in Block(65152, 64) \cup Block(64512, 512)
      BY <1>3 DEF Denied, Number
    <2>4. p \in 0 .. 15 /\ q \in 0 .. 15 /\ r \in 0 .. 15 /\ u \in 0 .. 15
      BY <2>1
    <2> HIDE DEF p, q, r, u
    <2>5. ASSUME NEW n \in Int, n = 4096 * p + 256 * q + 16 * r + u
          PROVE  (n \in 65152 .. 65215 \/ n \in 64512 .. 65023)
                 <=> p = 15 /\ (q \in {12, 13} \/ (q = 14 /\ r \in 8 .. 11))
      BY <2>4, <2>5
    <2>6. 4096 * p + 256 * q + 16 * r + u \in Int
      BY <2>4
    <2> QED
      BY <2>2, <2>3, <2>5, <2>6 DEF Block
  <1> QED
    BY <1>1, <1>2, <1>3 DEF Addresses

\* what TLC found of the counters, for one failed check
LEMMA CountOfReason ==
  ASSUME NEW n \in [Counters -> Nat], NEW r \in Reasons
  PROVE  LET m == IncMetric(IncMetric(n, "auth_failures"), r) IN
         /\ m \in [Counters -> Nat]
         /\ Sum(m) = Sum(n) + 1
         /\ m["auth_failures"] = n["auth_failures"] + 2
         /\ m["token_replay"] = n["token_replay"]
  BY DEF IncMetric, Sum, Reasons, Counters

LEMMA CountOfOther ==
  ASSUME NEW n \in [Counters -> Nat], NEW r \in {"auth_failures", "ssrf_blocked", "token_replay"}
  PROVE  LET m == IncMetric(n, r) IN
         /\ m \in [Counters -> Nat]
         /\ Sum(m) = Sum(n)
         /\ m["auth_failures"] = IF r = "auth_failures" THEN n["auth_failures"] + 1
                                                        ELSE n["auth_failures"]
         /\ m["token_replay"] = IF r = "token_replay" THEN n["token_replay"] + 1
                                                      ELSE n["token_replay"]
  BY DEF IncMetric, Sum, Reasons, Counters

LEMMA TokenFields ==
  ASSUME NEW t \in Tokens
  PROVE  t.kid \in Keys /\ t.expires \in Nat /\ t.signed \in BOOLEAN /\ t.issuer \in BOOLEAN
  BY DEF TokenRecords

\* the numbers and the functions of the token check
LEMMA TokenNumbers ==
  ASSUME TypeOK
  PROVE  /\ now \in Int /\ \A x \in Times : x \in Int
         /\ \A g \in Guards, k \in Keys : cache[g][k] \in Int /\ since[g][k] \in Int
         /\ \A k \in Keys : withdrawn[k] \in Int
         /\ \A c \in Calls : arrived[c] \in Int /\ guard[c] \in Guards
  <1>1. /\ \A x \in Times : x \in Int
        /\ \A x \in Times \cup {Never} : x \in Int
    BY DEF Times, Never
  <1>2. /\ now \in Times
        /\ \A g \in Guards, k \in Keys : /\ cache[g][k] \in Times \cup {Never}
                                          /\ since[g][k] \in Times
        /\ \A k \in Keys : withdrawn[k] \in Times
        /\ \A c \in Calls : arrived[c] \in Times /\ guard[c] \in Guards
    BY DEF TypeOK, TokenTypeOK
  <1> QED
    BY <1>1, <1>2

LEMMA InvInit == Init => Inv
  <1> SUFFICES ASSUME Init PROVE Inv
    OBVIOUS
  <1>1. TypeOK
    BY DEF Init, TokenInit, TypeOK, TokenTypeOK, Times, Loads, Never, Guards, Phases,
         TokenPhases, Services, Routes, RoutesOf, NoCounts, Counters, Reasons, Checks
  <1>2. TokenInv
    BY DEF Init, TokenInit, TokenInv, LoadsAreYoung, CachedWhenPublished, WaitersCameLater,
         KeyedInTime
  <1>3. RouteInv
    BY DEF Init, TokenInit, RouteInv, CallersAdmitted, ClearedIsAllowed, CountersAgree, Sum,
         NoCounts, Counters, Reasons, Checks, Guards
  <1> QED
    BY <1>1, <1>2, <1>3 DEF Inv

-----------------------------------------------------------------------------
\* jwt.verify is called for call c, which was idle
LEMMA VerifyToken ==
  ASSUME TypeOK, TokenInv, NEW c \in Calls, at[c] = "idle",
         NEW g \in Guards, NEW t \in Tokens, Verify(c, g, t)
  PROVE  TokenInv' /\ TokenTypeOK' /\ at' \in [Calls -> Phases] /\ at'[c] # "calling"
  <1> DEFINE k == t.kid
  <1>1. k \in Keys
    BY TokenFields
  <1>n. /\ now \in Int
        /\ \A h \in Guards, j \in Keys : cache[h][j] \in Int /\ since[h][j] \in Int
        /\ \A j \in Keys : withdrawn[j] \in Int
        /\ \A d \in Calls : arrived[d] \in Int /\ guard[d] \in Guards
    BY TokenNumbers
  <1>t. /\ now \in Times /\ arrived \in [Calls -> Times] /\ bearer \in [Calls -> Tokens \cup {NoToken}]
        /\ guard \in [Calls -> Guards] /\ at \in [Calls -> Phases]
        /\ load \in [Guards -> [Keys -> Loads]] /\ since \in [Guards -> [Keys -> Times]]
        /\ cache \in [Guards -> [Keys -> Times \cup {Never}]]
        /\ withdrawn \in [Keys -> Times]
    BY DEF TypeOK, TokenTypeOK
  <1>2. /\ guard' = [guard EXCEPT ![c] = g] /\ bearer' = [bearer EXCEPT ![c] = t]
        /\ arrived' = [arrived EXCEPT ![c] = now]
        /\ UNCHANGED <<now, published, withdrawn, cache>>
    BY DEF Verify, keycloak
  <1>3. \/ /\ Has(g, k) /\ at' = [at EXCEPT ![c] = "keyed"] /\ UNCHANGED <<load, since>>
        \/ /\ load[g][k] # "none" /\ at' = [at EXCEPT ![c] = "waiting"]
           /\ UNCHANGED <<load, since>>
        \/ /\ load[g][k] = "none" /\ at' = [at EXCEPT ![c] = "waiting"]
           /\ load' = [load EXCEPT ![g][k] = "asked"]
           /\ since' = [since EXCEPT ![g][k] = now]
        \/ at' = [at EXCEPT ![c] = "keyless"] /\ UNCHANGED <<load, since>>
    BY DEF Verify
  <1> HIDE DEF k
  <1>4. \/ UNCHANGED <<load, since>>
        \/ /\ load[g][k] = "none"
           /\ \A h \in Guards, j \in Keys :
                /\ load'[h][j] = IF h = g /\ j = k THEN "asked" ELSE load[h][j]
                /\ since'[h][j] = IF h = g /\ j = k THEN now ELSE since[h][j]
    BY <1>1, <1>3, <1>t
  <1>5. TokenTypeOK' /\ at' \in [Calls -> Phases] /\ at'[c] # "calling"
    <2>1. load' \in [Guards -> [Keys -> Loads]] /\ since' \in [Guards -> [Keys -> Times]]
      <3>1. "asked" \in Loads
        BY DEF Loads
      <3>2. CASE UNCHANGED <<load, since>>
        BY <3>2, <1>t
      <3>3. CASE load' = [load EXCEPT ![g][k] = "asked"] /\ since' = [since EXCEPT ![g][k] = now]
        BY <3>1, <3>3, <1>1, <1>t
      <3> QED
        BY <3>2, <3>3, <1>3
    <2>2. at' \in [Calls -> Phases] /\ at'[c] # "calling"
      BY <1>3, <1>t DEF Phases, TokenPhases
    <2> QED
      BY <2>1, <2>2, <1>2, <1>t DEF TokenTypeOK, TypeOK
  <1>6. LoadsAreYoung'
    <2> SUFFICES ASSUME NEW h \in Guards, NEW j \in Keys, load'[h][j] # "none"
                 PROVE  /\ since'[h][j] <= now /\ now <= since'[h][j] + LoadTime
                        /\ load'[h][j] = "found" => j \in published \/ since'[h][j] <= withdrawn[j]
      BY <1>2 DEF LoadsAreYoung
    <2>1. CASE load'[h][j] = load[h][j] /\ since'[h][j] = since[h][j]
      BY <2>1 DEF LoadsAreYoung, TokenInv
    <2>2. CASE load'[h][j] = "asked" /\ since'[h][j] = now
      BY <2>2, <1>n
    <2> QED
      BY <2>1, <2>2, <1>4
  <1>7. CachedWhenPublished'
    BY <1>2 DEF CachedWhenPublished, TokenInv
  <1>8. WaitersCameLater'
    <2> SUFFICES ASSUME NEW d \in Calls, at'[d] = "waiting"
                 PROVE  /\ bearer'[d] \in Tokens /\ arrived'[d] <= now
                        /\ load'[guard'[d]][bearer'[d].kid] # "none"
                        /\ since'[guard'[d]][bearer'[d].kid] <= arrived'[d]
      BY <1>2 DEF WaitersCameLater
    <2>1. CASE d = c
      <3>1. bearer'[d] = t /\ guard'[d] = g /\ arrived'[d] = now
        BY <2>1, <1>2, <1>t
      <3>2. load'[g][k] # "none" /\ since'[g][k] <= now
        <4>1. since[g][k] <= now \/ load[g][k] = "none"
          BY <1>1 DEF TokenInv, LoadsAreYoung
        <4> QED
          BY <4>1, <2>1, <1>1, <1>3, <1>t, <1>n
      <3> QED
        BY <3>1, <3>2, <1>n, <2>1 DEF k
    <2>2. CASE d # c
      <3>1. /\ bearer'[d] = bearer[d] /\ guard'[d] = guard[d] /\ arrived'[d] = arrived[d]
            /\ at[d] = "waiting" /\ guard[d] \in Guards
        BY <2>2, <1>2, <1>3, <1>t
      <3>2. /\ bearer[d] \in Tokens /\ arrived[d] <= now
            /\ load[guard[d]][bearer[d].kid] # "none"
            /\ since[guard[d]][bearer[d].kid] <= arrived[d]
        BY <3>1 DEF TokenInv, WaitersCameLater
      <3>3. bearer[d].kid \in Keys
        BY <3>2, TokenFields
      <3>4. /\ load'[guard[d]][bearer[d].kid] = load[guard[d]][bearer[d].kid]
            /\ since'[guard[d]][bearer[d].kid] = since[guard[d]][bearer[d].kid]
        BY <3>1, <3>2, <3>3, <1>4
      <3> QED
        BY <3>1, <3>2, <3>4
    <2> QED
      BY <2>1, <2>2
  <1>9. KeyedInTime'
    <2>1. Has(g, k) => k \in published \/ now < withdrawn[k] + CacheAge + LoadTime
      BY <1>1, <1>n DEF Has, TokenInv, CachedWhenPublished
    <2> QED
      <3> SUFFICES ASSUME NEW d \in Calls
                   PROVE  /\ at'[d] \in {"keyed", "keyless"} => bearer'[d] \in Tokens
                          /\ at'[d] = "keyed" =>
                               /\ arrived'[d] <= now /\ now <= arrived'[d] + LoadTime
                               /\ \/ bearer'[d].kid \in published
                                  \/ now < withdrawn[bearer'[d].kid] + CacheAge + LoadTime
        BY <1>2 DEF KeyedInTime
      <3>1. CASE d = c
        <4>1. bearer'[d] = t /\ arrived'[d] = now
          BY <3>1, <1>2, <1>t
        <4>2. at'[d] = "keyed" => Has(g, k)
          BY <3>1, <1>3, <1>t
        <4> QED
          BY <4>1, <4>2, <2>1, <1>n DEF k
      <3>2. CASE d # c
        <4>1. bearer'[d] = bearer[d] /\ arrived'[d] = arrived[d] /\ at'[d] = at[d]
          BY <3>2, <1>2, <1>3, <1>t
        <4> QED
          BY <4>1 DEF TokenInv, KeyedInTime
      <3> QED
        BY <3>1, <3>2
  <1> QED
    BY <1>5, <1>6, <1>7, <1>8, <1>9 DEF TokenInv

\* Keycloak, the key clients and the clock
LEMMA KeycloakStep ==
  ASSUME TypeOK, TokenInv, Keycloak
  PROVE  /\ TokenInv' /\ TokenTypeOK' /\ at' \in [Calls -> Phases]
         /\ \A c \in Calls : at'[c] = at[c] \/ at'[c] \in {"keyed", "keyless"}
  <1>n. /\ now \in Int /\ \A x \in Times : x \in Int
        /\ \A h \in Guards, j \in Keys : cache[h][j] \in Int /\ since[h][j] \in Int
        /\ \A j \in Keys : withdrawn[j] \in Int
        /\ \A d \in Calls : arrived[d] \in Int /\ guard[d] \in Guards
    BY TokenNumbers
  <1>t. /\ now \in Times /\ withdrawn \in [Keys -> Times] /\ published \subseteq Keys
        /\ load \in [Guards -> [Keys -> Loads]] /\ since \in [Guards -> [Keys -> Times]]
        /\ cache \in [Guards -> [Keys -> Times \cup {Never}]]
        /\ guard \in [Calls -> Guards] /\ bearer \in [Calls -> Tokens \cup {NoToken}]
        /\ arrived \in [Calls -> Times] /\ at \in [Calls -> Phases]
        /\ LoadsAreYoung /\ CachedWhenPublished /\ WaitersCameLater /\ KeyedInTime
    BY DEF TypeOK, TokenTypeOK, TokenInv
  <1>k. \A c \in Calls : bearer[c] \in Tokens => bearer[c].kid \in Keys
    BY TokenFields
  <1>1. ASSUME NEW k \in Keys, Publish(k) PROVE TokenInv' /\ TokenTypeOK' /\ UNCHANGED at
    <2>1. /\ published' = published \cup {k} /\ \A j \in Keys : j # k => withdrawn'[j] = withdrawn[j]
          /\ withdrawn' \in [Keys -> Times] /\ 0 \in Times
          /\ UNCHANGED <<now, cache, load, since, at, guard, bearer, arrived>>
      BY <1>1, <1>t DEF Publish, clients, caller, Times
    <2>2. LoadsAreYoung' /\ CachedWhenPublished'
      BY <2>1, <1>t DEF LoadsAreYoung, CachedWhenPublished
    <2>3. WaitersCameLater'
      BY <2>1, <1>t DEF WaitersCameLater
    <2>4. KeyedInTime'
      BY <2>1, <1>t, <1>k DEF KeyedInTime
    <2> QED
      BY <2>1, <2>2, <2>3, <2>4, <1>t DEF TokenInv, TokenTypeOK
  <1>2. ASSUME NEW k \in Keys, Withdraw(k) PROVE TokenInv' /\ TokenTypeOK' /\ UNCHANGED at
    <2>1. /\ published' = published \ {k}
          /\ \A j \in Keys : withdrawn'[j] = IF j = k THEN now ELSE withdrawn[j]
          /\ withdrawn' \in [Keys -> Times]
          /\ UNCHANGED <<now, cache, load, since, at, guard, bearer, arrived>>
      BY <1>2, <1>t DEF Withdraw, clients, caller
    <2>2. LoadsAreYoung'
      BY <2>1, <1>t DEF LoadsAreYoung
    <2>3. CachedWhenPublished'
      BY <2>1, <1>t, <1>n DEF CachedWhenPublished
    <2>4. WaitersCameLater'
      BY <2>1, <1>t DEF WaitersCameLater
    <2>5. KeyedInTime'
      BY <2>1, <1>t, <1>k, <1>n DEF KeyedInTime
    <2> QED
      BY <2>1, <2>2, <2>3, <2>4, <2>5, <1>t DEF TokenInv, TokenTypeOK
  <1>3. ASSUME NEW g \in Guards, NEW k \in Keys, Answer(g, k) \/ AnswerLost(g, k)
        PROVE  TokenInv' /\ TokenTypeOK' /\ UNCHANGED at
    <2>1. /\ load[g][k] # "none"
          /\ \A h \in Guards, j \in Keys :
               \/ load'[h][j] = load[h][j]
               \/ /\ h = g /\ j = k /\ load'[h][j] \in {"found", "absent"}
                  /\ load'[h][j] = "found" => k \in published
          /\ load' \in [Guards -> [Keys -> Loads]]
          /\ UNCHANGED <<now, published, withdrawn, cache, since, at, guard, bearer, arrived>>
      <3>1. CASE Answer(g, k)
        BY <3>1, <1>t DEF Answer, keycloak, caller, Loads
      <3>2. CASE AnswerLost(g, k)
        BY <3>2, <1>t DEF AnswerLost, keycloak, caller, Loads
      <3> QED
        BY <1>3, <3>1, <3>2
    <2>2. LoadsAreYoung'
      BY <2>1, <1>t DEF LoadsAreYoung
    <2>3. WaitersCameLater'
      <3> SUFFICES ASSUME NEW d \in Calls, at[d] = "waiting"
                   PROVE  /\ bearer[d] \in Tokens /\ arrived[d] <= now
                          /\ load'[guard[d]][bearer[d].kid] # "none"
                          /\ since[guard[d]][bearer[d].kid] <= arrived[d]
        BY <2>1 DEF WaitersCameLater
      <3>1. /\ bearer[d] \in Tokens /\ arrived[d] <= now /\ guard[d] \in Guards
            /\ load[guard[d]][bearer[d].kid] # "none"
            /\ since[guard[d]][bearer[d].kid] <= arrived[d]
        BY <1>t DEF WaitersCameLater
      <3>2. bearer[d].kid \in Keys
        BY <3>1, <1>k
      <3> QED
        BY <3>1, <3>2, <2>1
    <2>4. CachedWhenPublished' /\ KeyedInTime'
      BY <2>1, <1>t DEF CachedWhenPublished, KeyedInTime
    <2> QED
      BY <2>1, <2>2, <2>3, <2>4, <1>t DEF TokenInv, TokenTypeOK
  <1>4. ASSUME NEW g \in Guards, NEW k \in Keys, Loaded(g, k)
        PROVE  /\ TokenInv' /\ TokenTypeOK' /\ at' \in [Calls -> Phases]
               /\ \A c \in Calls : at'[c] = at[c] \/ at'[c] \in {"keyed", "keyless"}
    <2>1. /\ load[g][k] \in {"found", "absent"}
          /\ load' = [load EXCEPT ![g][k] = "none"] /\ since' = [since EXCEPT ![g][k] = 0]
          /\ cache' = IF load[g][k] = "found" THEN [cache EXCEPT ![g][k] = now] ELSE cache
          /\ at' = [c \in Calls |->
                      IF at[c] = "waiting" /\ guard[c] = g /\ bearer[c].kid = k
                      THEN IF load[g][k] = "found" THEN "keyed" ELSE "keyless"
                      ELSE at[c]]
          /\ UNCHANGED <<now, published, withdrawn, guard, bearer, arrived>>
      BY <1>4 DEF Loaded, keycloak, caller
    <2>2. \A h \in Guards, j \in Keys :
            /\ load'[h][j] = IF h = g /\ j = k THEN "none" ELSE load[h][j]
            /\ since'[h][j] = IF h = g /\ j = k THEN 0 ELSE since[h][j]
            /\ \/ cache'[h][j] = cache[h][j]
               \/ h = g /\ j = k /\ load[g][k] = "found" /\ cache'[h][j] = now
      BY <2>1, <1>t
    <2>3. TokenTypeOK' /\ at' \in [Calls -> Phases]
      <3>1. "none" \in Loads /\ 0 \in Times /\ "keyed" \in Phases /\ "keyless" \in Phases
        BY DEF Loads, Times, Phases, TokenPhases
      <3>2. load' \in [Guards -> [Keys -> Loads]] /\ since' \in [Guards -> [Keys -> Times]]
        BY <2>1, <3>1, <1>t
      <3>3. cache' \in [Guards -> [Keys -> Times \cup {Never}]]
        BY <2>1, <1>t
      <3> QED
        BY <2>1, <3>1, <3>2, <3>3, <1>t DEF TokenTypeOK
    <2>4. LoadsAreYoung'
      BY <2>1, <2>2, <1>t DEF LoadsAreYoung
    <2>f. /\ since[g][k] <= now /\ now <= since[g][k] + LoadTime
          /\ load[g][k] = "found" => k \in published \/ now <= withdrawn[k] + LoadTime
      BY <2>1, <1>t, <1>n DEF LoadsAreYoung
    <2>5. CachedWhenPublished'
      BY <2>1, <2>2, <2>f, <1>t, <1>n DEF CachedWhenPublished
    <2>6. WaitersCameLater'
      <3> SUFFICES ASSUME NEW d \in Calls, at'[d] = "waiting"
                   PROVE  /\ bearer[d] \in Tokens /\ arrived[d] <= now
                          /\ load'[guard[d]][bearer[d].kid] # "none"
                          /\ since'[guard[d]][bearer[d].kid] <= arrived[d]
        BY <2>1 DEF WaitersCameLater
      <3>1. at[d] = "waiting" /\ ~(guard[d] = g /\ bearer[d].kid = k)
        BY <2>1
      <3> QED
        BY <3>1, <2>2, <1>t, <1>k, <1>n DEF WaitersCameLater
    <2>7. KeyedInTime'
      <3> SUFFICES ASSUME NEW d \in Calls
                   PROVE  /\ at'[d] \in {"keyed", "keyless"} => bearer[d] \in Tokens
                          /\ at'[d] = "keyed" =>
                               /\ arrived[d] <= now /\ now <= arrived[d] + LoadTime
                               /\ \/ bearer[d].kid \in published
                                  \/ now < withdrawn[bearer[d].kid] + CacheAge + LoadTime
        BY <2>1 DEF KeyedInTime
      <3>1. CASE at'[d] = at[d]
        BY <3>1, <1>t DEF KeyedInTime
      <3>2. CASE at'[d] # at[d]
        <4>1. /\ at[d] = "waiting" /\ guard[d] = g /\ bearer[d].kid = k
              /\ at'[d] = "keyed" => load[g][k] = "found"
          BY <3>2, <2>1
        <4>2. bearer[d] \in Tokens /\ arrived[d] <= now /\ since[g][k] <= arrived[d]
          BY <4>1, <1>t DEF WaitersCameLater
        <4> QED
          BY <4>1, <4>2, <2>f, <1>n
      <3> QED
        BY <3>1, <3>2
    <2>8. \A c \in Calls : at'[c] = at[c] \/ at'[c] \in {"keyed", "keyless"}
      BY <2>1
    <2> QED
      BY <2>3, <2>4, <2>5, <2>6, <2>7, <2>8 DEF TokenInv
  <1>5. ASSUME TokenTick PROVE TokenInv' /\ TokenTypeOK' /\ UNCHANGED at
    <2>1. /\ now' = now + 1 /\ now' \in Times
          /\ \A h \in Guards, j \in Keys : load[h][j] # "none" => now < since[h][j] + LoadTime
          /\ \A c \in Calls : at[c] \notin {"keyed", "keyless"}
          /\ UNCHANGED <<published, withdrawn, cache, load, since, at, guard, bearer, arrived>>
      BY <1>5, <1>t DEF TokenTick, clients, caller, Times
    <2>2. LoadsAreYoung'
      BY <2>1, <1>t, <1>n DEF LoadsAreYoung
    <2>3. CachedWhenPublished'
      BY <2>1, <1>t, <1>n DEF CachedWhenPublished
    <2>4. WaitersCameLater' /\ KeyedInTime'
      BY <2>1, <1>t, <1>n DEF WaitersCameLater, KeyedInTime
    <2> QED
      BY <2>1, <2>2, <2>3, <2>4, <1>t DEF TokenInv, TokenTypeOK
  <1> QED
    BY <1>1, <1>2, <1>3, <1>4, <1>5, <1>t DEF Keycloak

\* A step that takes calls out of the check, and no call into it
LEMMA TokenRest ==
  ASSUME TypeOK, TokenInv, UNCHANGED <<keycloak, clients>>,
         \A c \in Calls : at'[c] \in TokenPhases =>
             \/ at'[c] = "idle"
             \/ at'[c] = at[c] /\ guard'[c] = guard[c] /\ bearer'[c] = bearer[c]
                /\ arrived'[c] = arrived[c]
  PROVE  TokenInv'
  <1>1. UNCHANGED <<now, published, withdrawn, cache, load, since>>
    BY DEF keycloak, clients
  <1>2. LoadsAreYoung' /\ CachedWhenPublished'
    BY <1>1 DEF TokenInv, LoadsAreYoung, CachedWhenPublished
  <1>3. WaitersCameLater'
    BY <1>1 DEF TokenInv, WaitersCameLater, TokenPhases
  <1>4. KeyedInTime'
    BY <1>1 DEF TokenInv, KeyedInTime, TokenPhases
  <1> QED
    BY <1>2, <1>3, <1>4 DEF TokenInv

-----------------------------------------------------------------------------
\* A failed check of a user's token
LEMMA AuthFailureInv ==
  ASSUME TypeOK, RouteInv, NEW c \in Calls, NEW r \in Reasons, AuthFailure(c, r)
  PROVE  /\ at' = [at EXCEPT ![c] = "replied"] /\ status' = [status EXCEPT ![c] = 401]
         /\ count' \in [Counters -> Nat] /\ failures' \in [Checks -> Nat]
         /\ CountersAgree'
  <1>1. /\ count' = IncMetric(IncMetric(count, "auth_failures"), r)
        /\ failures' = [failures EXCEPT !["user"] = @ + 1]
        /\ count \in [Counters -> Nat] /\ failures \in [Checks -> Nat]
    BY DEF AuthFailure, TypeOK
  <1>2. failures' \in [Checks -> Nat] /\ failures'["user"] = failures["user"] + 1
        /\ failures'["m2m"] = failures["m2m"] /\ failures'["refresh"] = failures["refresh"]
    BY <1>1 DEF Checks, Guards
  <1>3. /\ count' \in [Counters -> Nat] /\ Sum(count') = Sum(count) + 1
        /\ count'["auth_failures"] = count["auth_failures"] + 2
        /\ count'["token_replay"] = count["token_replay"]
    BY <1>1, CountOfReason
  <1>4. CountersAgree'
    BY <1>1, <1>2, <1>3 DEF RouteInv, CountersAgree, Checks, Guards, Counters
  <1> QED
    BY <1>2, <1>3, <1>4 DEF AuthFailure, Reply

\* A refused URL
LEMMA SsrfBlockedInv ==
  ASSUME TypeOK, RouteInv, NEW c \in Calls, SsrfBlocked(c), UNCHANGED failures
  PROVE  /\ at' = [at EXCEPT ![c] = "replied"] /\ status' = [status EXCEPT ![c] = 403]
         /\ count' \in [Counters -> Nat] /\ CountersAgree'
  <1>1. /\ count' = IncMetric(count, "ssrf_blocked") /\ count \in [Counters -> Nat]
    BY DEF SsrfBlocked, TypeOK
  <1>2. /\ count' \in [Counters -> Nat] /\ Sum(count') = Sum(count)
        /\ count'["auth_failures"] = count["auth_failures"]
        /\ count'["token_replay"] = count["token_replay"]
    BY <1>1, CountOfOther
  <1> QED
    BY <1>2 DEF RouteInv, CountersAgree, SsrfBlocked, Reply

\* The handler of call c answers, or calls for something; a URL is looked up
\* only when no rule refuses it
LEMMA HandleInv ==
  ASSUME TypeOK, RouteInv, NEW c \in Calls, Handle(c), UNCHANGED failures
  PROVE  /\ \/ \E code \in {200, 400, 403} : Reply(c, code) /\ (route[c] = "fetch" => code # 200)
            \/ /\ at' = [at EXCEPT ![c] = "calling"] /\ UNCHANGED status
               /\ route[c] # "refresh" /\ (route[c] = "fetch" => Listed(url[c].host))
         /\ count' \in [Counters -> Nat] /\ CountersAgree'
  <1>1. CASE UNCHANGED count
    <2>1. count' \in [Counters -> Nat] /\ CountersAgree'
      BY <1>1 DEF TypeOK, RouteInv, CountersAgree, Sum
    <2>2. UrlReason(url[c]) = "none" => Listed(url[c].host)
      BY DEF UrlReason
    <2> QED
      BY <2>1, <2>2 DEF Handle, UserHandler, BillingHandler, AuthHandler, FetchUrl, SsrfBlocked, Call
  <1>2. CASE ~UNCHANGED count
    <2>1. SsrfBlocked(c)
      BY <1>2 DEF Handle, UserHandler, BillingHandler, AuthHandler, FetchUrl
    <2>2. Reply(c, 403) /\ route[c] = "fetch"
      BY <1>2, <2>1 DEF SsrfBlocked, Handle, UserHandler, BillingHandler, AuthHandler, Reply
    <2> QED
      BY <2>1, <2>2, SsrfBlockedInv
  <1> QED
    BY <1>1, <1>2

\* A step of call c leaves the others alone
LEMMA OneCall ==
  ASSUME RouteInv, NEW c \in Calls, UNCHANGED service,
         \A d \in Calls \ {c} :
             /\ at'[d] = at[d] /\ route'[d] = route[d] /\ url'[d] = url[d]
             /\ status'[d] = status[d] /\ found'[d] = found[d]
             /\ d \in admitted => d \in admitted',
         at'[c] = "calling" =>
             /\ route'[c] \in {"fetch", "redis"} => c \in admitted'
             /\ route'[c] = "fetch" => Listed(url'[c].host)
             /\ route'[c] = "refresh" => service = "auth",
         at'[c] = "replied" /\ route'[c] = "fetch" /\ status'[c] = 200 =>
             /\ Listed(url'[c].host) /\ found'[c] # {}
             /\ \A a \in found'[c] : ~Denied(a)
  PROVE  CallersAdmitted' /\ ClearedIsAllowed'
  <1>1. CallersAdmitted'
    BY DEF RouteInv, CallersAdmitted
  <1>2. ClearedIsAllowed'
    BY DEF RouteInv, ClearedIsAllowed, Listed
  <1> QED
    BY <1>1, <1>2

\* the counters stay as they are
LEMMA CountersStay ==
  ASSUME RouteInv, UNCHANGED <<count, failures>> PROVE CountersAgree'
  BY DEF RouteInv, CountersAgree, Sum

\* call c is answered, and no other
Answered(c) ==
    /\ at' \in [Calls -> Phases] /\ at'[c] = "replied"
    /\ status' \in [Calls -> {0, 200, 400, 401, 403, 404, 502, 503}]
    /\ \A d \in Calls \ {c} : at'[d] = at[d] /\ status'[d] = status[d]

LEMMA ReplyAnswers ==
  ASSUME TypeOK, NEW c \in Calls, NEW code \in {0, 200, 400, 401, 403, 404, 502, 503}, Reply(c, code)
  PROVE  Answered(c) /\ status'[c] = code
  <1>1. /\ at \in [Calls -> Phases] /\ status \in [Calls -> {0, 200, 400, 401, 403, 404, 502, 503}]
        /\ at' = [at EXCEPT ![c] = "replied"] /\ status' = [status EXCEPT ![c] = code]
        /\ "replied" \in Phases
    BY DEF TypeOK, Reply, Phases
  <1> HIDE DEF Phases
  <1> QED
    BY <1>1 DEF Answered

\* A call ends with an answer
LEMMA ReplyInv ==
  ASSUME Inv, NEW c \in Calls, at[c] = "calling" \/ route[c] # "fetch",
         UNCHANGED <<keycloak, clients, caller, rest, admitted>>,
         Answered(c), found' \in [Calls -> Answers \cup {{}}],
         \A d \in Calls \ {c} : found'[d] = found[d],
         status'[c] = 200 /\ route[c] = "fetch" =>
             found'[c] # {} /\ \A a \in found'[c] : ~Denied(a),
         count' \in [Counters -> Nat], failures' \in [Checks -> Nat], CountersAgree'
  PROVE  Inv'
  <1>t. TypeOK /\ TokenInv /\ RouteInv
    BY DEF Inv
  <1>y. /\ TokenTypeOK /\ service \in Services /\ up \in BOOLEAN /\ requests \in 0 .. MaxRequests
        /\ at \in [Calls -> Phases] /\ route \in [Calls -> Routes]
        /\ url \in [Calls -> Urls \cup {NoUrl}] /\ admitted \subseteq Calls
        /\ found \in [Calls -> Answers \cup {{}}]
        /\ status \in [Calls -> {0, 200, 400, 401, 403, 404, 502, 503}]
        /\ failures \in [Checks -> Nat]
    BY DEF Inv, TypeOK
  <1>1. UNCHANGED <<service, up, requests, route, url>>
    BY DEF rest, process, body
  <1>2. TokenInv'
    BY <1>t, <1>y, TokenRest DEF TokenPhases, caller, Answered
  <1>3. TypeOK'
    <2>1. TokenTypeOK'
      BY <1>y DEF TokenTypeOK, keycloak, clients, caller
    <2> QED
      BY <2>1, <1>1, <1>y DEF TypeOK, Answered
  <1>4. CallersAdmitted' /\ ClearedIsAllowed'
    <2>1. route[c] = "fetch" => Listed(url[c].host)
      BY <1>t DEF RouteInv, CallersAdmitted
    <2> QED
      BY <2>1, <1>1, <1>t, OneCall DEF Answered
  <1> QED
    BY <1>2, <1>3, <1>4 DEF Inv, RouteInv

LEMMA InvStep == Inv /\ [Next]_vars => Inv'
  <1> SUFFICES ASSUME Inv, [Next]_vars PROVE Inv'
    OBVIOUS
  <1>t. TypeOK /\ TokenInv /\ RouteInv
    BY DEF Inv
  <1>y. /\ TokenTypeOK
        /\ service \in Services /\ up \in BOOLEAN /\ requests \in 0 .. MaxRequests
        /\ at \in [Calls -> Phases] /\ route \in [Calls -> Routes]
        /\ url \in [Calls -> Urls \cup {NoUrl}] /\ admitted \subseteq Calls
        /\ found \in [Calls -> Answers \cup {{}}]
        /\ status \in [Calls -> {0, 200, 400, 401, 403, 404, 502, 503}]
        /\ count \in [Counters -> Nat] /\ failures \in [Checks -> Nat]
        /\ guard \in [Calls -> Guards] /\ bearer \in [Calls -> Tokens \cup {NoToken}]
        /\ arrived \in [Calls -> Times]
    BY DEF Inv, TypeOK, TokenTypeOK
  <1>r. \A s \in Services : RoutesOf[s] \subseteq Routes
    BY DEF Services, RoutesOf, Routes
  <1>p. "replied" \in Phases /\ "calling" \in Phases /\ "idle" \in Phases
    BY DEF Phases, TokenPhases
  <1>i. 0 \in Times /\ "user" \in Guards
    BY DEF Times, Guards
  <1>1. ASSUME NEW c \in Calls, NEW r \in Routes, NEW t \in Tokens \cup {NoToken},
               NEW u \in Urls \cup {NoUrl}, Arrive(c, r, t, u)
        PROVE  Inv'
    <2>1. /\ at[c] = "idle" /\ requests' \in 0 .. MaxRequests /\ r \in RoutesOf[service]
          /\ route' = [route EXCEPT ![c] = r] /\ url' = [url EXCEPT ![c] = u]
          /\ UNCHANGED <<service, up, admitted, found>>
      BY <1>1, <1>y DEF Arrive, process
    <2>2. CASE /\ at' = [at EXCEPT ![c] = "calling"] /\ UNCHANGED status /\ r \in Open
               /\ UNCHANGED <<clients, caller, keycloak, count, failures>>
      <3>1. TokenInv'
        BY <2>2, <1>t, <1>y, TokenRest DEF TokenPhases, caller
      <3>2. TypeOK'
        BY <2>1, <2>2, <1>y, <1>p DEF TypeOK, TokenTypeOK, clients, caller, keycloak
      <3>3. r = "refresh" => service = "auth"
        BY <2>1, <1>y DEF Services, RoutesOf
      <3>4. r \notin {"fetch", "redis"}
        BY <2>2 DEF Open
      <3>5. CallersAdmitted' /\ ClearedIsAllowed'
        BY <2>1, <2>2, <3>3, <3>4, <1>t, <1>y, OneCall
      <3> QED
        BY <3>1, <3>2, <3>5, <2>2, <1>t, CountersStay DEF Inv, RouteInv
    <2>3. CASE /\ at' = [at EXCEPT ![c] = "replied"]
               /\ \E code \in {401, 404} : status' = [status EXCEPT ![c] = code]
               /\ count' \in [Counters -> Nat] /\ failures' \in [Checks -> Nat] /\ CountersAgree'
               /\ UNCHANGED <<clients, caller, keycloak>>
      <3>1. TokenInv'
        BY <2>3, <1>t, <1>y, TokenRest DEF TokenPhases, caller
      <3>2. TypeOK'
        BY <2>1, <2>3, <1>y, <1>p DEF TypeOK, TokenTypeOK, clients, caller, keycloak
      <3>3. CallersAdmitted' /\ ClearedIsAllowed'
        BY <2>1, <2>3, <1>t, <1>y, OneCall
      <3> QED
        BY <3>1, <3>2, <3>3, <2>3 DEF Inv, RouteInv
    <2>4. CASE /\ t # NoToken /\ UNCHANGED <<status, count, failures>>
               /\ \E g \in Guards : Verify(c, g, t)
      <3>1. /\ TokenInv' /\ TokenTypeOK' /\ at' \in [Calls -> Phases] /\ at'[c] # "calling"
            /\ \A d \in Calls \ {c} : at'[d] = at[d]
            /\ at'[c] # "replied"
        <4>1. \A d \in Calls \ {c} : at'[d] = at[d]
          BY <2>4, <1>y DEF Verify
        <4>2. at'[c] # "replied"
          BY <2>4, <1>y DEF Verify
        <4> QED
          BY <4>1, <4>2, <2>1, <2>4, <1>t, VerifyToken
      <3>2. TypeOK'
        BY <2>1, <2>4, <3>1, <1>y DEF TypeOK
      <3>3. CallersAdmitted' /\ ClearedIsAllowed'
        BY <2>1, <2>4, <3>1, <1>t, <1>y, OneCall
      <3> QED
        BY <3>1, <3>2, <3>3, <2>4, <1>t, CountersStay DEF Inv, RouteInv
    <2>5. CountersAgree' \/ ~UNCHANGED <<count, failures>>
      BY <1>t, CountersStay
    <2>6. "MISSING_TOKEN" \in Reasons
      BY DEF Reasons
    <2>7. CASE AuthFailure(c, "MISSING_TOKEN") /\ UNCHANGED <<clients, caller, keycloak>>
      BY <2>3, <2>6, <2>7, <1>t, AuthFailureInv
    <2>8. CASE Unchecked(c, r) /\ UNCHANGED <<clients, caller, keycloak, count, failures>>
      BY <2>2, <2>3, <2>5, <2>8, <1>y DEF Unchecked, Reply, Call
    <2> QED
      BY <1>1, <2>3, <2>4, <2>5, <2>7, <2>8, <1>y DEF Arrive, Reply, Guards
  <1>2. ASSUME NEW c \in Calls, at[c] \in {"keyed", "keyless"}, Forget(c),
               UNCHANGED <<keycloak, clients, rest, found>>,
               \/ Admit(c)
               \/ /\ Answered(c) /\ status'[c] # 200
                  /\ count' \in [Counters -> Nat] /\ failures' \in [Checks -> Nat]
                  /\ CountersAgree' /\ UNCHANGED admitted
        PROVE  Inv'
    <2>1. /\ guard' = [guard EXCEPT ![c] = "user"] /\ bearer' = [bearer EXCEPT ![c] = NoToken]
          /\ arrived' = [arrived EXCEPT ![c] = 0]
          /\ UNCHANGED <<service, up, requests, route, url, found>>
      BY <1>2 DEF Forget, rest, process, body
    <2>2. /\ admitted' \subseteq Calls /\ admitted \subseteq admitted'
          /\ count' \in [Counters -> Nat] /\ failures' \in [Checks -> Nat] /\ CountersAgree'
          /\ \/ Answered(c) /\ (route[c] = "fetch" => status'[c] # 200)
             \/ /\ at' = [at EXCEPT ![c] = "calling"] /\ UNCHANGED status
                /\ c \in admitted' /\ route[c] # "refresh"
                /\ route[c] = "fetch" => Listed(url[c].host)
      <3>1. CASE Admit(c)
        <4>1. admitted' = admitted \cup {c} /\ Handle(c) /\ UNCHANGED failures
          BY <3>1 DEF Admit
        <4>3. ASSUME NEW code \in {200, 400, 403}, Reply(c, code), route[c] = "fetch" => code # 200
              PROVE  Answered(c) /\ (route[c] = "fetch" => status'[c] # 200)
          BY <4>3, <1>t, ReplyAnswers
        <4>4. /\ admitted' \subseteq Calls /\ admitted \subseteq admitted' /\ c \in admitted'
              /\ count' \in [Counters -> Nat] /\ failures' \in [Checks -> Nat] /\ CountersAgree'
          BY <4>1, <1>t, <1>y, HandleInv
        <4>5. \/ \E code \in {200, 400, 403} : Reply(c, code) /\ (route[c] = "fetch" => code # 200)
              \/ /\ at' = [at EXCEPT ![c] = "calling"] /\ UNCHANGED status
                 /\ route[c] # "refresh" /\ (route[c] = "fetch" => Listed(url[c].host))
          BY <4>1, <1>t, HandleInv
        <4> QED
          BY <4>3, <4>4, <4>5
      <3>2. CASE ~Admit(c)
        BY <1>2, <3>2, <1>y
      <3> QED
        BY <3>1, <3>2
    <2>3. TokenInv'
      BY <1>2, <2>1, <2>2, <1>t, <1>y, TokenRest DEF TokenPhases, Answered
    <2>4. TypeOK'
      <3>1. at' \in [Calls -> Phases] /\ status' \in [Calls -> {0, 200, 400, 401, 403, 404, 502, 503}]
        BY <2>2, <1>y, <1>p DEF Answered
      <3>2. TokenTypeOK'
        BY <1>2, <2>1, <1>y, <1>i DEF TokenTypeOK, keycloak, clients
      <3> QED
        BY <3>1, <3>2, <2>1, <2>2, <1>y DEF TypeOK
    <2>5. CallersAdmitted' /\ ClearedIsAllowed'
      BY <2>1, <2>2, <1>t, <1>y, OneCall DEF Answered
    <2> QED
      BY <2>2, <2>3, <2>4, <2>5 DEF Inv, RouteInv
  <1>4. ASSUME NEW c \in Calls, DecideUser(c) PROVE Inv'
    <2>1. PICK clock \in Clocks(c) :
            IF Reason(c, clock) = "none"
            THEN Admit(c)
            ELSE AuthFailure(c, Reason(c, clock)) /\ UNCHANGED admitted
      BY <1>4 DEF DecideUser
    <2>2. CASE Reason(c, clock) = "none"
      BY <1>2, <1>4, <2>1, <2>2 DEF DecideUser
    <2>3. CASE Reason(c, clock) # "none"
      <3>1. Reason(c, clock) \in Reasons
        BY <2>3 DEF Reason, Reasons
      <3>2. AuthFailure(c, Reason(c, clock)) /\ UNCHANGED admitted
        BY <2>1, <2>3
      <3>3. Reply(c, 401)
        BY <3>2 DEF AuthFailure
      <3>4. Answered(c) /\ status'[c] # 200
        BY <3>3, <1>t, ReplyAnswers
      <3>5. count' \in [Counters -> Nat] /\ failures' \in [Checks -> Nat] /\ CountersAgree'
        BY <3>1, <3>2, <1>t, AuthFailureInv
      <3> QED
        BY <1>2, <1>4, <3>2, <3>4, <3>5 DEF DecideUser
    <2> QED
      BY <2>2, <2>3
  <1>5. ASSUME NEW c \in Calls, DecideM2m(c) PROVE Inv'
    <2>1. PICK clock \in Clocks(c) :
            \/ M2mStatus(c, clock) = 200 /\ Admit(c)
            \/ /\ M2mStatus(c, clock) # 200
               /\ Reply(c, M2mStatus(c, clock))
               /\ IF Failed(c, clock)
                  THEN /\ count' = IncMetric(count, "auth_failures")
                       /\ failures' = [failures EXCEPT !["m2m"] = @ + 1]
                  ELSE UNCHANGED <<count, failures>>
               /\ UNCHANGED admitted
      BY <1>5 DEF DecideM2m
    <2>2. CASE Admit(c)
      BY <1>2, <1>5, <2>2 DEF DecideM2m
    <2>3. CASE ~Admit(c)
      <3>1. M2mStatus(c, clock) \in {401, 403}
        BY <2>1, <2>3 DEF M2mStatus
      <3>2. count' \in [Counters -> Nat] /\ failures' \in [Checks -> Nat] /\ CountersAgree'
        <4>1. CASE Failed(c, clock)
          <5>1. /\ count' = IncMetric(count, "auth_failures")
                /\ failures' = [failures EXCEPT !["m2m"] = @ + 1]
            BY <2>1, <2>3, <4>1
          <5>2. /\ count' \in [Counters -> Nat] /\ Sum(count') = Sum(count)
                /\ count'["auth_failures"] = count["auth_failures"] + 1
                /\ count'["token_replay"] = count["token_replay"]
            BY <5>1, <1>y, CountOfOther
          <5>3. /\ failures' \in [Checks -> Nat] /\ failures'["user"] = failures["user"]
                /\ failures'["m2m"] = failures["m2m"] + 1
                /\ failures'["refresh"] = failures["refresh"]
            BY <5>1, <1>y DEF Checks, Guards
          <5> QED
            BY <5>2, <5>3, <1>t, <1>y DEF RouteInv, CountersAgree, Checks, Guards, Counters
        <4>2. CASE ~Failed(c, clock)
          BY <2>1, <2>3, <4>2, <1>t, <1>y, CountersStay
        <4> QED
          BY <4>1, <4>2
      <3>3. Reply(c, M2mStatus(c, clock)) /\ UNCHANGED admitted
        BY <2>1, <2>3
      <3>4. Answered(c) /\ status'[c] # 200
        BY <3>1, <3>3, <1>t, ReplyAnswers
      <3>5. /\ at[c] \in {"keyed", "keyless"} /\ Forget(c)
            /\ UNCHANGED <<keycloak, clients, rest, found>>
        BY <1>5 DEF DecideM2m
      <3> QED
        BY <1>2, <3>2, <3>3, <3>4, <3>5
    <2> QED
      BY <2>2, <2>3
  <1>6. ASSUME NEW c \in Calls, Resolve(c) PROVE Inv'
    <2>1. PICK A \in Answers :
            /\ found' = [found EXCEPT ![c] = A]
            /\ IF \E a \in A : IsPrivateIp(a) THEN SsrfBlocked(c)
                                              ELSE Reply(c, 200) /\ UNCHANGED count
      BY <1>6 DEF Resolve
    <2>2. /\ at[c] = "calling" /\ UNCHANGED <<keycloak, clients, caller, rest, admitted, failures>>
          /\ UNCHANGED <<keycloak, clients, caller, rest, admitted>> /\ failures' \in [Checks -> Nat]
      BY <1>6, <1>y DEF Resolve
    <2>3. /\ found' \in [Calls -> Answers \cup {{}}] /\ found'[c] = A
          /\ \A d \in Calls \ {c} : found'[d] = found[d]
      BY <2>1, <1>y
    <2>4. CASE \E a \in A : IsPrivateIp(a)
      <3>1. SsrfBlocked(c) /\ Reply(c, 403)
        BY <2>1, <2>4 DEF SsrfBlocked
      <3>2. Answered(c) /\ status'[c] = 403
        BY <3>1, <1>t, ReplyAnswers
      <3>3. count' \in [Counters -> Nat] /\ CountersAgree'
        BY <2>2, <3>1, <1>t, SsrfBlockedInv
      <3> QED
        BY <2>2, <2>3, <3>2, <3>3, ReplyInv
    <2>5. CASE ~ \E a \in A : IsPrivateIp(a)
      <3>1. A # {} /\ \A a \in A : a \in Addresses
        OBVIOUS
      <3>2. found'[c] # {} /\ \A a \in found'[c] : ~Denied(a)
        BY <2>3, <2>5, <3>1, RulesDenyRanges
      <3>3. Reply(c, 200) /\ UNCHANGED <<count, failures>>
        BY <2>1, <2>2, <2>5
      <3>4. Answered(c)
        BY <3>3, <1>t, ReplyAnswers
      <3>5. count' \in [Counters -> Nat] /\ CountersAgree'
        BY <3>3, <1>t, <1>y, CountersStay
      <3> QED
        BY <2>2, <2>3, <3>2, <3>4, <3>5, ReplyInv
    <2> QED
      BY <2>4, <2>5
  <1>7. ASSUME NEW c \in Calls, Return(c) \/ CallFails(c) \/ Exchanged(c) PROVE Inv'
    <2>1. /\ route[c] # "fetch"
          /\ UNCHANGED <<keycloak, clients, caller, rest, admitted, found, count, failures>>
          /\ \E code \in {200, 401, 502, 503} : Reply(c, code)
      BY <1>7 DEF Return, CallFails, Exchanged, Transit
    <2>2. PICK code \in {200, 401, 502, 503} : Reply(c, code)
      BY <2>1
    <2>3. /\ Answered(c) /\ found' \in [Calls -> Answers \cup {{}}]
          /\ \A d \in Calls \ {c} : found'[d] = found[d]
      BY <2>1, <2>2, <1>t, <1>y, ReplyAnswers
    <2>4. count' \in [Counters -> Nat] /\ CountersAgree'
      BY <2>1, <1>t, <1>y, CountersStay
    <2>5. UNCHANGED <<keycloak, clients, caller, rest, admitted>> /\ failures' \in [Checks -> Nat]
      BY <2>1, <1>y
    <2>6. status'[c] = 200 /\ route[c] = "fetch" =>
             found'[c] # {} /\ \A a \in found'[c] : ~Denied(a)
      BY <2>1
    <2> QED
      BY <2>1, <2>3, <2>4, <2>5, <2>6, ReplyInv
  <1>13. ASSUME NEW c \in Calls, Refresh(c) PROVE Inv'
    <2>1. /\ route[c] = "refresh"
          /\ UNCHANGED <<keycloak, clients, caller, rest, admitted, found>>
          /\ UNCHANGED <<service, up, requests, route, url>>
      BY <1>13 DEF Refresh, rest, process, body
    <2>2. CASE /\ Reply(c, 401)
               /\ count' = IncMetric(IncMetric(count, "token_replay"), "auth_failures")
               /\ failures' = [failures EXCEPT !["refresh"] = @ + 1]
      <3>1. /\ Answered(c) /\ status'[c] = 401 /\ found' \in [Calls -> Answers \cup {{}}]
            /\ \A d \in Calls \ {c} : found'[d] = found[d]
        BY <2>1, <2>2, <1>t, <1>y, ReplyAnswers
      <3> DEFINE n == IncMetric(count, "token_replay")
      <3>2. /\ n \in [Counters -> Nat] /\ Sum(n) = Sum(count)
            /\ n["auth_failures"] = count["auth_failures"]
            /\ n["token_replay"] = count["token_replay"] + 1
        BY <1>y, CountOfOther
      <3>3. count' = IncMetric(n, "auth_failures")
        BY <2>2
      <3> HIDE DEF n
      <3>4. /\ count' \in [Counters -> Nat] /\ Sum(count') = Sum(n)
            /\ count'["auth_failures"] = n["auth_failures"] + 1
            /\ count'["token_replay"] = n["token_replay"]
        BY <3>2, <3>3, CountOfOther
      <3>5. /\ failures' \in [Checks -> Nat] /\ failures'["user"] = failures["user"]
            /\ failures'["m2m"] = failures["m2m"]
            /\ failures'["refresh"] = failures["refresh"] + 1
        BY <2>2, <1>y DEF Checks, Guards
      <3>6. CountersAgree'
        BY <3>2, <3>4, <3>5, <1>t, <1>y DEF RouteInv, CountersAgree, Checks, Guards, Counters
      <3> QED
        <4>1. UNCHANGED <<keycloak, clients, caller, rest, admitted>>
          BY <2>1
        <4>2. route[c] # "fetch" /\ status'[c] # 200
          BY <2>1, <3>1
        <4> QED
          BY <3>1, <3>4, <3>5, <3>6, <4>1, <4>2, ReplyInv
    <2>3. CASE at' = [at EXCEPT ![c] = "exchanging"] /\ UNCHANGED <<status, count, failures>>
      <3>1. TokenInv'
        BY <2>1, <2>3, <1>t, <1>y, TokenRest DEF TokenPhases, caller
      <3>2. "exchanging" \in Phases
        BY DEF Phases
      <3>3. TypeOK'
        BY <2>1, <2>3, <3>2, <1>y DEF TypeOK, TokenTypeOK, clients, caller, keycloak
      <3>4. CallersAdmitted' /\ ClearedIsAllowed'
        BY <2>1, <2>3, <1>t, <1>y, OneCall
      <3> QED
        BY <2>3, <3>1, <3>3, <3>4, <1>t, CountersStay DEF Inv, RouteInv
    <2> QED
      BY <1>13, <2>2, <2>3 DEF Refresh
  <1>8. ASSUME NEW c \in Calls, Finish(c) PROVE Inv'
    <2>1. /\ at' = [at EXCEPT ![c] = "idle"] /\ status' = [status EXCEPT ![c] = 0]
          /\ route' = [route EXCEPT ![c] = "health"] /\ url' = [url EXCEPT ![c] = NoUrl]
          /\ admitted' = admitted \ {c} /\ found' = [found EXCEPT ![c] = {}]
          /\ UNCHANGED <<keycloak, clients, caller, service, up, requests, count, failures>>
      BY <1>8 DEF Finish, process
    <2>2. TokenInv'
      BY <2>1, <1>t, <1>y, TokenRest DEF TokenPhases, caller
    <2>3. TypeOK'
      <3>1. TokenTypeOK'
        BY <2>1, <1>y DEF TokenTypeOK, keycloak, clients, caller
      <3>2. /\ at' \in [Calls -> Phases] /\ route' \in [Calls -> Routes]
            /\ url' \in [Calls -> Urls \cup {NoUrl}] /\ admitted' \subseteq Calls
        BY <2>1, <1>y, <1>p DEF Routes, Services, RoutesOf
      <3>3. found' \in [Calls -> Answers \cup {{}}]
        BY <2>1, <1>y
      <3>4. status' \in [Calls -> {0, 200, 400, 401, 403, 404, 502, 503}]
        BY <2>1, <1>y
      <3>5. /\ service' \in Services /\ up' \in BOOLEAN /\ requests' \in 0 .. MaxRequests
            /\ count' \in [Counters -> Nat] /\ failures' \in [Checks -> Nat]
        BY <2>1, <1>y
      <3> QED
        BY <3>1, <3>2, <3>3, <3>4, <3>5 DEF TypeOK
    <2>4. CallersAdmitted' /\ ClearedIsAllowed'
      BY <2>1, <1>t, <1>y, OneCall
    <2> QED
      BY <2>1, <2>2, <2>3, <2>4, <1>t, CountersStay DEF Inv, RouteInv
  <1>9. ASSUME End PROVE Inv'
    <2>1. TypeOK'
      <3>1. "none" \in Loads /\ "health" \in Routes /\ Never \in Times \cup {Never}
        BY DEF Loads, Routes, Services, RoutesOf
      <3>2. /\ guard' \in [Calls -> Guards] /\ bearer' \in [Calls -> Tokens \cup {NoToken}]
            /\ arrived' \in [Calls -> Times]
        BY <1>9, <1>i DEF End
      <3>3. /\ cache' \in [Guards -> [Keys -> Times \cup {Never}]]
            /\ load' \in [Guards -> [Keys -> Loads]] /\ since' \in [Guards -> [Keys -> Times]]
        BY <1>9, <1>i, <3>1 DEF End
      <3>4. TokenTypeOK'
        BY <1>9, <1>y, <3>2, <3>3 DEF End, TokenTypeOK, keycloak
      <3>5. count' \in [Counters -> Nat] /\ failures' \in [Checks -> Nat]
        BY <1>9 DEF End, NoCounts
      <3>6. /\ at' \in [Calls -> Phases] /\ route' \in [Calls -> Routes]
            /\ url' \in [Calls -> Urls \cup {NoUrl}] /\ admitted' \subseteq Calls
            /\ found' \in [Calls -> Answers \cup {{}}]
            /\ status' \in [Calls -> {0, 200, 400, 401, 403, 404, 502, 503}]
        BY <1>9, <1>p, <3>1 DEF End
      <3>7. service' \in Services /\ up' \in BOOLEAN /\ requests' \in 0 .. MaxRequests
        BY <1>9, <1>y DEF End
      <3> QED
        BY <3>4, <3>5, <3>6, <3>7 DEF TypeOK
    <2>2. TokenInv'
      BY <1>9 DEF End, TokenInv, LoadsAreYoung, CachedWhenPublished, WaitersCameLater, KeyedInTime
    <2>3. RouteInv'
      BY <1>9 DEF End, RouteInv, CallersAdmitted, ClearedIsAllowed, CountersAgree, Sum, NoCounts,
           Counters, Reasons, Checks, Guards
    <2> QED
      BY <2>1, <2>2, <2>3 DEF Inv
  <1>10. ASSUME UNCHANGED <<tokenVars, service, requests, body, admitted, found, status, count, failures>>,
                up' \in BOOLEAN
         PROVE  Inv'
    <2>1. UNCHANGED <<keycloak, clients, caller, at, route, url>>
      BY <1>10 DEF tokenVars, body
    <2>2. TokenInv'
      BY <2>1, <1>t, <1>y, TokenRest DEF caller
    <2>3. TypeOK'
      BY <1>10, <2>1, <1>y DEF TypeOK, TokenTypeOK, keycloak, clients, caller
    <2>4. CallersAdmitted' /\ ClearedIsAllowed' /\ CountersAgree'
      BY <1>10, <2>1, <1>t, CountersStay DEF RouteInv, CallersAdmitted, ClearedIsAllowed
    <2> QED
      BY <2>2, <2>3, <2>4 DEF Inv, RouteInv
  <1>11. CASE Keycloak
    <2>1. /\ TokenInv' /\ TokenTypeOK' /\ at' \in [Calls -> Phases]
          /\ \A c \in Calls : at'[c] = at[c] \/ at'[c] \in {"keyed", "keyless"}
          /\ UNCHANGED <<service, up, requests, route, url, admitted, found, status, count, failures>>
      BY <1>11, <1>t, KeycloakStep DEF Keycloak, rest, process, body
    <2>2. TypeOK'
      BY <2>1, <1>y DEF TypeOK
    <2>3. CallersAdmitted' /\ ClearedIsAllowed' /\ CountersAgree'
      BY <2>1, <1>t, CountersStay DEF RouteInv, CallersAdmitted, ClearedIsAllowed
    <2> QED
      BY <2>1, <2>2, <2>3 DEF Inv, RouteInv
  <1>12. CASE Restart \/ UNCHANGED vars
    BY <1>10, <1>12, <1>y DEF Restart, vars, rest, process
  <1> QED
    BY <1>1, <1>4, <1>5, <1>6, <1>7, <1>8, <1>9, <1>11, <1>12, <1>13 DEF Next, CallEnds, LookupEnds, PingEnds, RefreshEnds

-----------------------------------------------------------------------------
LEMMA InvAlways == Spec => []Inv
  BY InvInit, InvStep, PTL DEF Spec

\* The types hold.
THEOREM TypeCorrect == Spec => []TypeOK
  <1>1. Inv => TypeOK
    BY DEF Inv
  <1> QED
    BY <1>1, InvAlways, PTL

\* No URL is cleared whose host is not on the allowlist or resolves to an
\* address in a denied range (user-service/server.js:25-59).
THEOREM ClearedUrlsAreAllowed == Spec => []ClearedIsAllowed
  <1>1. Inv => ClearedIsAllowed
    BY DEF Inv, RouteInv
  <1> QED
    BY <1>1, InvAlways, PTL

\* No failed check and no refresh token that was refused for a replay is
\* missed by the counters (index.js:88-89, 119-120, metrics.js:61-90,
\* auth-service/server.js:89-90).
THEOREM CountersMatch == Spec => []CountersAgree
  <1>1. Inv => CountersAgree
    BY DEF Inv, RouteInv
  <1> QED
    BY <1>1, InvAlways, PTL

\* Every call that waits for a key has a request to wait for (index.js:80-85).
THEOREM WaitersHaveRequests == Spec => []NobodyLeftBehind
  <1>1. Inv => NobodyLeftBehind
    BY DEF Inv, TokenInv, WaitersCameLater, NobodyLeftBehind
  <1> QED
    BY <1>1, InvAlways, PTL

\* A request is admitted only with a token that is current, up to the time
\* that keys are kept and requests for them take (index.js:75-149,
\* m2m-auth.js:11-79).
THEOREM AdmissionsAreCurrent == Spec => AdmissionIsCurrent
  <1>1. Inv /\ [Next]_vars => [\A c \in admitted' \ admitted : Current(c)]_vars
    <2> SUFFICES ASSUME Inv, Next, NEW c \in admitted' \ admitted PROVE Current(c)
      BY DEF vars
    <2>1. c \in Calls /\ (DecideUser(c) \/ DecideM2m(c))
      <3>1. admitted' # admitted
        OBVIOUS
      <3>2. ~Restart /\ ~Keycloak
        BY <3>1 DEF Restart, Keycloak
      <3>3. ASSUME NEW d \in Calls, NEW r \in Routes, NEW t \in Tokens \cup {NoToken},
                   NEW u \in Urls \cup {NoUrl}, Arrive(d, r, t, u)
            PROVE  FALSE
        BY <3>1, <3>3 DEF Arrive
      <3>4. PICK d \in Calls : \/ DecideUser(d) \/ DecideM2m(d) \/ Resolve(d) \/ Return(d)
                               \/ CallFails(d) \/ Refresh(d) \/ Exchanged(d)
                               \/ CallEnds(d) \/ Finish(d)
        BY <3>2, <3>3 DEF Next
      <3>5. ~Resolve(d) /\ ~Return(d) /\ ~CallFails(d) /\ ~Refresh(d) /\ ~Exchanged(d)
        BY <3>1 DEF Resolve, Return, CallFails, Refresh, Exchanged
      <3>6. ~CallEnds(d) /\ ~Finish(d)
        BY DEF CallEnds, LookupEnds, PingEnds, RefreshEnds, End, Finish
      <3>7. DecideUser(d) => c = d
        BY DEF DecideUser, Admit
      <3>8. DecideM2m(d) => c = d
        BY DEF DecideM2m, Admit
      <3> QED
        BY <3>4, <3>5, <3>6, <3>7, <3>8
    <2>2. /\ at[c] = "keyed" /\ bearer[c].signed /\ bearer[c].issuer
          /\ \E clock \in Clocks(c) : ~(clock >= bearer[c].expires)
      <3>1. CASE DecideUser(c)
        <4>1. PICK clock \in Clocks(c) :
                IF Reason(c, clock) = "none"
                THEN Admit(c)
                ELSE AuthFailure(c, Reason(c, clock)) /\ UNCHANGED admitted
          BY <3>1 DEF DecideUser
        <4>2. Reason(c, clock) = "none"
          BY <4>1
        <4> QED
          BY <4>2 DEF Reason, Genuine
      <3>2. CASE DecideM2m(c)
        <4>1. PICK clock \in Clocks(c) :
                M2mStatus(c, clock) = 200 \/ UNCHANGED admitted
          BY <3>2 DEF DecideM2m
        <4>2. M2mStatus(c, clock) = 200
          BY <4>1
        <4>3. ~Failed(c, clock) /\ bearer[c].issuer
          BY <4>2 DEF M2mStatus
        <4> QED
          BY <4>3 DEF Failed, Genuine
      <3> QED
        BY <2>1, <3>1, <3>2
    <2>3. /\ bearer[c] \in Tokens /\ arrived[c] <= now /\ now <= arrived[c] + LoadTime
          /\ \/ bearer[c].kid \in published
             \/ now < withdrawn[bearer[c].kid] + CacheAge + LoadTime
      BY <2>1, <2>2 DEF Inv, TokenInv, KeyedInTime
    <2>4. /\ now \in Int /\ arrived[c] \in Int /\ bearer[c].expires \in Int
      BY <2>1, <2>3, TokenNumbers, TokenFields DEF Inv
    <2>5. now < bearer[c].expires + LoadTime
      BY <2>2, <2>3, <2>4 DEF Clocks
    <2> QED
      BY <2>2, <2>3, <2>5 DEF Current
  <1> QED
    BY <1>1, InvAlways, PTL DEF Spec, AdmissionIsCurrent

\* A process ends by an admitted call, with a URL of the allowlist if it has
\* one, or by a refresh at auth-service (user-service/server.js:51-54,
\* auth-service/server.js:45-48, 79-87).
THEOREM ProcessEnds == Spec => EndsHaveCause
  <1>1. Inv /\ [Next]_vars => [up /\ ~up' => MayEnd]_vars
    <2> SUFFICES ASSUME Inv, Next, up, ~up' PROVE MayEnd
      BY DEF vars
    <2>1. PICK c \in Calls : CallEnds(c)
      <3>1. ~Restart /\ ~Keycloak
        BY DEF Restart, Keycloak, rest, process
      <3>2. ASSUME NEW d \in Calls, NEW r \in Routes, NEW t \in Tokens \cup {NoToken},
                   NEW u \in Urls \cup {NoUrl}, Arrive(d, r, t, u)
            PROVE  FALSE
        BY <3>2 DEF Arrive, process
      <3>3. PICK d \in Calls : \/ DecideUser(d) \/ DecideM2m(d) \/ Resolve(d) \/ Return(d)
                               \/ CallFails(d) \/ Refresh(d) \/ Exchanged(d)
                               \/ CallEnds(d) \/ Finish(d)
        BY <3>1, <3>2 DEF Next
      <3>4. ~DecideUser(d) /\ ~DecideM2m(d)
        BY DEF DecideUser, DecideM2m, rest, process
      <3>5. /\ ~Resolve(d) /\ ~Return(d) /\ ~CallFails(d) /\ ~Finish(d)
            /\ ~Refresh(d) /\ ~Exchanged(d)
        BY DEF Resolve, Return, CallFails, Finish, Refresh, Exchanged, rest, process
      <3> QED
        BY <3>3, <3>4, <3>5
    <2> QED
      BY <2>1 DEF CallEnds, LookupEnds, PingEnds, RefreshEnds, Inv, RouteInv, CallersAdmitted, MayEnd
  <1> QED
    BY <1>1, InvAlways, PTL DEF Spec, EndsHaveCause
=============================================================================
