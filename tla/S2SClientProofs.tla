-------------------------- MODULE S2SClientProofs --------------------------
(***************************************************************************)
(* Theorems about S2SClient, for every number of calls, every lifetime and *)
(* margin, and every number of key rotations.                              *)
(***************************************************************************)
EXTENDS S2SClient, TLAPS

USE S2SAssumption

(***************************************************************************)
(* The inductive invariant.  What the cache says of a token's expiry is    *)
(* never later than the truth, so a call that may send a token has one     *)
(* that outlives the margin; a retrying call holds a token of its own,     *)
(* issued after its first 401; and a refused token was rightly refused.    *)
(***************************************************************************)
CacheNeverLate ==
    /\ cached.expiresAt <= cached.token.exp
    /\ cached.token.epoch <= epoch

\* what call c knows once it has a token in hand
Holds(c) == at[c] \in {"issued", "sending", "unauthorized", "unverified"}

TokenOutlivesMargin ==
    \A c \in Calls : Holds(c) => /\ token[c].exp > started[c] + Margin
                                 /\ token[c].epoch <= epoch

IssuedSinceStart ==
    \A c \in Calls :
        Holds(c) /\ (at[c] = "issued" \/ attempt[c] = 2) =>
            token[c].exp >= started[c] + Lifetime

RetryIsFresh ==
    \A c \in Calls : attempt[c] = 2 =>
        /\ at[c] # "idle"
        /\ doubted[c] <= epoch
        /\ Holds(c) => token[c].epoch >= doubted[c]

RightlyRefused ==
    \A c \in Calls :
        at[c] = "unauthorized" => now >= token[c].exp \/ token[c].epoch < epoch

Past == \A c \in Calls : started[c] <= now

Inv == /\ TypeOK
       /\ CacheNeverLate
       /\ TokenOutlivesMargin
       /\ IssuedSinceStart
       /\ RetryIsFresh
       /\ RightlyRefused
       /\ Past

-----------------------------------------------------------------------------
LEMMA NoTokenType == NoToken \in Tokens
  BY DEF NoToken, Tokens

LEMMA InvInit == Init => Inv
  BY NoTokenType DEF Init, Inv, TypeOK, CacheNeverLate, TokenOutlivesMargin, IssuedSinceStart,
       RetryIsFresh, RightlyRefused, Past, Holds, Nothing, NoToken, Tokens, Phases

LEMMA TypeStep == TypeOK /\ Past /\ [Next]_vars => TypeOK'
  <1> SUFFICES ASSUME TypeOK, Past, [Next]_vars PROVE TypeOK'
    OBVIOUS
  <1> USE NoTokenType DEF TypeOK, Phases
  <1>1. ASSUME NEW c \in Calls, StartCached(c) PROVE TypeOK'
    BY <1>1 DEF StartCached
  <1>2. ASSUME NEW c \in Calls, StartFetching(c) PROVE TypeOK'
    BY <1>2 DEF StartFetching
  <1>3. ASSUME NEW c \in Calls, Issue(c) PROVE TypeOK'
    <2>1. [exp |-> now + Lifetime, epoch |-> epoch] \in Tokens
      BY DEF Tokens
    <2> QED
      BY <1>3, <2>1 DEF Issue
  <1>4. ASSUME NEW c \in Calls, TokenArrives(c) PROVE TypeOK'
    <2>1. started[c] + Lifetime \in 0 .. (MaxTime + Lifetime)
      OBVIOUS
    <2> QED
      BY <1>4, <2>1 DEF TokenArrives
  <1>5. ASSUME NEW c \in Calls, Refuse(c) \/ RefuseUnverified(c) \/ Accept(c) PROVE TypeOK'
    BY <1>5 DEF Refuse, RefuseUnverified, Accept
  <1>6. ASSUME NEW c \in Calls, Retry(c) PROVE TypeOK'
    BY <1>6 DEF Retry, Unauthorized, Nothing
  <1>7. ASSUME NEW c \in Calls, Return(c) \/ Throw(c) PROVE TypeOK'
    BY <1>7 DEF Return, Throw, Unauthorized, Over
  <1>8. CASE Rotate
    BY <1>8 DEF Rotate
  <1>9. CASE Tick
    BY <1>9 DEF Tick
  <1>10. CASE Restart
    BY <1>10 DEF Restart, Nothing
  <1>11. CASE UNCHANGED vars
    BY <1>11 DEF vars
  <1> QED
    BY <1>1, <1>2, <1>3, <1>4, <1>5, <1>6, <1>7, <1>8, <1>9, <1>10, <1>11 DEF Next

LEMMA InvStep == Inv /\ [Next]_vars => Inv'
  <1> SUFFICES ASSUME Inv, [Next]_vars PROVE Inv'
    OBVIOUS
  <1>0. TypeOK'
    BY TypeStep DEF Inv
  <1>t. /\ now \in 0 .. MaxTime /\ epoch \in 0 .. MaxRotations
        /\ cached.token \in Tokens /\ cached.expiresAt \in 0 .. (MaxTime + Lifetime)
        /\ \A c \in Calls : /\ token[c] \in Tokens /\ started[c] \in 0 .. MaxTime
                            /\ doubted[c] \in -1 .. MaxRotations
                            /\ token[c].exp \in Int /\ token[c].epoch \in Int
        /\ cached.token.exp \in Int /\ cached.token.epoch \in Int
        /\ at \in [Calls -> Phases] /\ attempt \in [Calls -> {1, 2}]
        /\ started \in [Calls -> 0 .. MaxTime] /\ token \in [Calls -> Tokens]
        /\ doubted \in [Calls -> -1 .. MaxRotations]
    BY DEF Inv, TypeOK, Tokens
  <1> USE DEF Inv, CacheNeverLate, TokenOutlivesMargin, IssuedSinceStart, RetryIsFresh,
              RightlyRefused, Past, Holds
  <1>1. ASSUME NEW c \in Calls, StartCached(c) PROVE Inv'
    BY <1>0, <1>1, <1>t DEF StartCached, Reusable, TypeOK
  <1>2. ASSUME NEW c \in Calls, StartFetching(c) PROVE Inv'
    BY <1>0, <1>2, <1>t DEF StartFetching
  <1>3. ASSUME NEW c \in Calls, Issue(c) PROVE Inv'
    BY <1>0, <1>3, <1>t DEF Issue
  <1>4. ASSUME NEW c \in Calls, TokenArrives(c) PROVE Inv'
    BY <1>0, <1>4, <1>t DEF TokenArrives
  <1>5. ASSUME NEW c \in Calls, Refuse(c) PROVE Inv'
    <2>1. RightlyRefused'
      BY <1>5, <1>t DEF Refuse
    <2>2. UNCHANGED <<now, epoch, cached, attempt, started, token, doubted>>
      BY <1>5 DEF Refuse
    <2>3. \A d \in Calls : at'[d] = at[d] \/ (d = c /\ at[d] = "sending" /\ at'[d] = "unauthorized")
      BY <1>5, <1>t DEF Refuse
    <2> QED
      BY <1>0, <1>t, <2>1, <2>2, <2>3
  <1>6. ASSUME NEW c \in Calls, RefuseUnverified(c) \/ Accept(c) PROVE Inv'
    BY <1>0, <1>6, <1>t DEF RefuseUnverified, Accept
  <1>7. ASSUME NEW c \in Calls, Retry(c) PROVE Inv'
    BY <1>0, <1>7, <1>t DEF Retry, Unauthorized, Nothing, NoToken
  <1>8. ASSUME NEW c \in Calls, Return(c) \/ Throw(c) PROVE Inv'
    BY <1>0, <1>8, <1>t DEF Return, Throw, Unauthorized, Over, NoToken
  <1>9. CASE Rotate
    BY <1>0, <1>9, <1>t DEF Rotate
  <1>10. CASE Tick
    BY <1>0, <1>10, <1>t DEF Tick
  <1>11. CASE Restart
    BY <1>0, <1>11, <1>t DEF Restart, Nothing, NoToken
  <1>12. CASE UNCHANGED vars
    BY <1>0, <1>12, <1>t DEF vars
  <1> QED
    BY <1>1, <1>2, <1>3, <1>4, <1>5, <1>6, <1>7, <1>8, <1>9, <1>10, <1>11, <1>12 DEF Next

LEMMA InvImplies == Inv => MarginHolds /\ RetrySettles
  <1> SUFFICES ASSUME Inv PROVE MarginHolds /\ RetrySettles
    OBVIOUS
  <1>t. /\ now \in Int /\ epoch \in Int
        /\ \A c \in Calls : /\ started[c] \in Int /\ doubted[c] \in Int
                            /\ token[c].exp \in Int /\ token[c].epoch \in Int
    BY DEF Inv, TypeOK, Tokens
  <1>1. MarginHolds
    BY <1>t DEF Inv, MarginHolds, RightlyRefused, TokenOutlivesMargin, Holds
  <1>2. RetrySettles
    BY <1>t DEF Inv, RetrySettles, RightlyRefused, IssuedSinceStart, RetryIsFresh, Holds
  <1> QED
    BY <1>1, <1>2

LEMMA Invariance == Spec => []Inv
  BY InvInit, InvStep, PTL DEF Spec

\* The cache, the clock readings and the tokens in hand keep their shape in
\* every reachable state (s2s-client.js:3, 5-55).
THEOREM TypeCorrect == Spec => []TypeOK
  <1>1. Inv => TypeOK
    BY DEF Inv
  <1> QED
    BY <1>1, Invariance, PTL

\* Without a rotation, a token is refused only after more than the margin
\* has passed since the call chose it (s2s-client.js:6-9, 31-34).
THEOREM MarginIsKept == Spec => []MarginHolds
  <1>1. Inv => MarginHolds
    BY InvImplies
  <1> QED
    BY <1>1, Invariance, PTL

\* After its retry a call sees a 401 only if the key was rotated once more,
\* or the retry outlasted a token (s2s-client.js:48-53).
THEOREM OneRetryIsEnough == Spec => []RetrySettles
  <1>1. Inv => RetrySettles
    BY InvImplies
  <1> QED
    BY <1>1, Invariance, PTL

-----------------------------------------------------------------------------
(***************************************************************************)
(* Each call implements SoloFetch.  The invariant says of every token that *)
(* a call takes, from the cache or from Keycloak, what SoloFetch asks of   *)
(* one, so nothing about the cache has to be said there.                   *)
(***************************************************************************)
LEMMA SoloInit == Init => SF!Init
  BY DEF Init, SF!Init, Step, Asking, Sent

LEMMA SoloStep == Inv /\ [Next]_vars => [SF!Next]_(SF!vars)
  <1> SUFFICES ASSUME Inv, [Next]_vars PROVE SF!Next \/ UNCHANGED SF!vars
    OBVIOUS
  <1> USE NoTokenType
  <1>t. /\ TypeOK /\ at \in [Calls -> Phases] /\ now \in Int /\ epoch \in Int
        /\ cached.token \in Tokens /\ cached.expiresAt \in Int
        /\ cached.token.exp \in Int /\ cached.token.epoch \in Int
        /\ attempt \in [Calls -> {1, 2}] /\ started \in [Calls -> 0 .. MaxTime]
        /\ token \in [Calls -> Tokens] /\ doubted \in [Calls -> -1 .. MaxRotations]
        /\ \A c \in Calls : /\ token[c] \in Tokens /\ started[c] \in Int /\ doubted[c] \in Int
                            /\ token[c].exp \in Int /\ token[c].epoch \in Int
    BY DEF Inv, TypeOK, Tokens
  <1> DEFINE steps == [d \in Calls |-> Step(d)]
             sent  == [d \in Calls |-> Sent(d)]
  \* what a step of one call makes of the abstract state
  <1>m. ASSUME NEW c \in Calls, NEW phase \in Phases, NEW t \in Tokens,
               at' = [at EXCEPT ![c] = phase],
               token' = token \/ token' = [token EXCEPT ![c] = t]
        PROVE  /\ steps' = [steps EXCEPT ![c] = Step(c)']
               /\ sent' = [sent EXCEPT ![c] = Sent(c)']
               /\ Sent(c)' = Sent(c) => sent' = sent
               /\ Step(c)' = Step(c) => steps' = steps
    <2>1. \A d \in Calls : d # c => Step(d)' = Step(d) /\ Sent(d)' = Sent(d)
      BY <1>m, <1>t DEF Step, Asking, Sent
    <2> QED
      BY <2>1
  <1>1. ASSUME NEW c \in Calls, StartCached(c) PROVE SF!Next
    <2>1. Step(c) = "idle" /\ Step(c)' = "sent" /\ Sent(c)' = cached.token
      BY <1>1, <1>t DEF StartCached, Step, Asking, Sent
    <2>2. SF!Good(cached.token, now)
      BY <1>1, <1>t DEF StartCached, Reusable, Inv, CacheNeverLate, SF!Good
    <2>3. steps' = [steps EXCEPT ![c] = "sent"] /\ sent' = [sent EXCEPT ![c] = cached.token]
      BY <1>1, <1>t, <1>m, <2>1 DEF StartCached, Phases
    <2>4. SF!BeginWith(c, cached.token)
      BY <1>1, <2>1, <2>2, <2>3 DEF StartCached, SF!BeginWith, SF!To
    <2>5. \E t \in Tokens : SF!BeginWith(c, t)
      BY <1>t, <2>4
    <2> QED
      BY <2>5 DEF SF!Next
  <1>2. ASSUME NEW c \in Calls, StartFetching(c) PROVE SF!Next
    <2>1. Step(c) = "idle" /\ Step(c)' = "asking" /\ Sent(c)' = Sent(c)
      BY <1>2, <1>t DEF StartFetching, Step, Asking, Sent
    <2>2. steps' = [steps EXCEPT ![c] = "asking"] /\ sent' = sent
      BY <1>2, <1>t, <1>m, <2>1 DEF StartFetching, Phases
    <2>3. SF!Begin(c)
      BY <1>2, <2>1, <2>2 DEF StartFetching, SF!Begin, SF!To
    <2> QED
      BY <2>3 DEF SF!Next
  <1>3. ASSUME NEW c \in Calls, Issue(c) PROVE UNCHANGED SF!vars
    <2>1. Step(c)' = Step(c) /\ Sent(c)' = Sent(c)
      BY <1>3, <1>t DEF Issue, Step, Asking, Sent
    <2>2. steps' = steps /\ sent' = sent
      <3>1. [exp |-> now + Lifetime, epoch |-> epoch] \in Tokens
        BY <1>t DEF Tokens, TypeOK
      <3> QED
        BY <1>3, <1>t, <1>m, <2>1, <3>1 DEF Issue, Phases
    <2> QED
      BY <1>3, <2>2 DEF Issue, SF!vars
  <1>4. ASSUME NEW c \in Calls, TokenArrives(c) PROVE SF!Next
    <2>1. Step(c) = "asking" /\ Step(c)' = "sent" /\ Sent(c)' = token[c]
      BY <1>4, <1>t DEF TokenArrives, Step, Asking, Sent
    <2>2. steps' = [steps EXCEPT ![c] = "sent"] /\ sent' = [sent EXCEPT ![c] = token[c]]
      BY <1>4, <1>t, <1>m, <2>1 DEF TokenArrives, Phases
    <2>3. SF!Good(token[c], started[c])
      BY <1>4, <1>t DEF TokenArrives, Inv, TokenOutlivesMargin, Holds, SF!Good
    <2>4. attempt[c] = 2 => SF!Fresh(token[c], c)
      BY <1>4, <1>t DEF TokenArrives, Inv, IssuedSinceStart, RetryIsFresh, Holds, SF!Fresh
    <2>5. SF!Send(c, token[c])
      BY <1>4, <2>1, <2>2, <2>3, <2>4 DEF TokenArrives, SF!Send, SF!To
    <2>6. \E t \in Tokens : SF!Send(c, t)
      BY <1>t, <2>5
    <2> QED
      BY <2>6 DEF SF!Next
  <1>5. ASSUME NEW c \in Calls, Refuse(c) \/ RefuseUnverified(c) \/ Accept(c) PROVE SF!Next
    <2>1. Step(c) = "sent" /\ Step(c)' = at'[c] /\ Sent(c) = token[c] /\ Sent(c)' = Sent(c)
      BY <1>5, <1>t DEF Refuse, RefuseUnverified, Accept, Step, Asking, Sent
    <2>2. steps' = [steps EXCEPT ![c] = at'[c]] /\ sent' = sent
      BY <1>5, <1>t, <1>m, <2>1 DEF Refuse, RefuseUnverified, Accept, Phases
    <2>3. token[c].epoch <= epoch
      BY <1>5, <1>t DEF Refuse, RefuseUnverified, Accept, Inv, TokenOutlivesMargin, Holds
    <2>4. \/ at'[c] = "unauthorized" /\ (now >= token[c].exp \/ token[c].epoch < epoch)
          \/ at'[c] = "unverified"
          \/ at'[c] = "answered" /\ now < token[c].exp
      BY <1>5, <1>t, <2>3 DEF Refuse, RefuseUnverified, Accept
    <2>5. UNCHANGED <<now, epoch, attempt, started, doubted>>
      BY <1>5 DEF Refuse, RefuseUnverified, Accept
    <2> HIDE DEF steps
    <2>6. \/ steps' = [steps EXCEPT ![c] = "unauthorized"]
             /\ (now >= token[c].exp \/ token[c].epoch < epoch)
          \/ steps' = [steps EXCEPT ![c] = "unverified"]
          \/ steps' = [steps EXCEPT ![c] = "answered"] /\ now < token[c].exp
      BY <2>2, <2>4
    <2> USE DEF steps
    <2>7. SF!Judge(c)
      BY <2>1, <2>2, <2>5, <2>6 DEF SF!Judge, SF!To
    <2> QED
      BY <2>7 DEF SF!Next
  <1>6. ASSUME NEW c \in Calls, Retry(c) PROVE SF!Next
    <2>1. Step(c) = at[c] /\ Step(c)' = "asking" /\ Sent(c)' = NoToken
      BY <1>6, <1>t DEF Retry, Unauthorized, Step, Asking, Sent
    <2>2. steps' = [steps EXCEPT ![c] = "asking"] /\ sent' = [sent EXCEPT ![c] = NoToken]
      BY <1>6, <1>t, <1>m, <2>1 DEF Retry, Phases
    <2>3. SF!Retry(c)
      BY <1>6, <2>1, <2>2 DEF Retry, Unauthorized, SF!Retry, SF!To
    <2> QED
      BY <2>3 DEF SF!Next
  <1>7. ASSUME NEW c \in Calls, Return(c) \/ Throw(c) PROVE SF!Next
    <2>1. Step(c)' = "idle" /\ Sent(c)' = NoToken /\ Over(c) /\ UNCHANGED <<now, epoch>>
      BY <1>7, <1>t DEF Return, Throw, Over, Step, Asking, Sent
    <2>2. steps' = [steps EXCEPT ![c] = "idle"] /\ sent' = [sent EXCEPT ![c] = NoToken]
      BY <1>t, <1>m, <2>1 DEF Over, Phases
    <2>3. SF!End({c})
      BY <1>t, <2>1, <2>2 DEF Over, SF!End
    <2> QED
      BY <2>3 DEF SF!Next
  <1>8. CASE Restart
    <2>1. \A c \in Calls : Step(c)' = "idle" /\ Sent(c)' = NoToken
      BY <1>8 DEF Restart, Step, Asking, Sent
    <2>2. SF!End(Calls)
      BY <1>8, <2>1 DEF Restart, SF!End
    <2> QED
      BY <2>2 DEF SF!Next
  <1>9. CASE Rotate \/ Tick \/ UNCHANGED vars
    <2>1. steps' = steps /\ sent' = sent
      BY <1>9 DEF Rotate, Tick, vars, Step, Asking, Sent
    <2> QED
      BY <1>9, <2>1 DEF Rotate, Tick, vars, SF!Next, SF!Rotate, SF!Tick, SF!vars
  <1> QED
    BY <1>1, <1>2, <1>3, <1>4, <1>5, <1>6, <1>7, <1>8, <1>9 DEF Next

\* Every call sends and retries as though it were alone with Keycloak,
\* whatever the calls that share its cache do (s2s-client.js:5-55).
THEOREM SoloRefines == Spec => CallsDoNotInterfere
  BY Invariance, SoloInit, SoloStep, PTL DEF Spec, CallsDoNotInterfere, SF!Spec
=============================================================================
