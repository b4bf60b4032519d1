------------------------- MODULE WebhookAuthorizer -------------------------
(***************************************************************************)
(* A payment webhook from the partner to billing: the partner signs and    *)
(* stamps a message, the network delivers it any number of times and in    *)
(* any order, webhook-authorizer/server.js verifies it (webhook-verify.js) *)
(* and forwards it to billing-service/server.js, whose status it relays.   *)
(*                                                                         *)
(* A nonce stands for the one message that carries it: Keys are nonces.    *)
(* The partner's retry of the same request, and a duplicate made by the    *)
(* network, are further deliveries of the same nonce.                      *)
(***************************************************************************)
EXTENDS ReplayStore

CONSTANTS
    Window,        \* TIMESTAMP_WINDOW_SEC
    Skews,         \* how far the partner's clock may be from ours
    Kind,          \* what each message looks like on arrival
    TokensMatch,   \* same WEBHOOK_INTERNAL_SECRET in both services?
    MarkDelay,     \* bound on the time from the timestamp check to the mark
    MaxForwards    \* bound on the forwards of one nonce

(***************************************************************************)
(* "bare" lacks a header, "bodyless" has no raw body, "unsigned" has a     *)
(* signature that does not match; the others verify.  "malformed" is a     *)
(* JSON body that does not parse, "mistyped" one that does not parse and   *)
(* is not declared as JSON, "oversized" a JSON body above 100 kB.          *)
(***************************************************************************)
Verifiable == {"valid", "malformed", "mistyped", "oversized"}
Kinds      == Verifiable \cup {"bare", "bodyless", "unsigned"}

ASSUME WebhookAssumption ==
    /\ Window \in Nat /\ MarkDelay \in Nat /\ MaxForwards \in Nat
    /\ Skews \subseteq Int
    /\ Kind \in [Keys -> Kinds]
    /\ TokensMatch \in BOOLEAN

VARIABLES
    sent,       \* the nonces the partner has sent
    stamp,      \* X-Timestamp of each message
    since,      \* when each call checked the timestamp
    forwarded,  \* times each message was sent on to billing
    arrived,    \* times billing has handled it
    answers     \* statuses that came back for each message

storeRest   == <<up, client, now, redis, mem, key>>
webhookVars == <<sent, stamp, since, forwarded, arrived, answers>>
vars == <<storeVars, webhookVars>>

Statuses == {"200", "400", "403", "413", "502", "NONCE_REPLAY",
             "MISSING_HEADERS", "TIMESTAMP_OUT_OF_WINDOW",
             "RAW_BODY_REQUIRED", "INVALID_SIGNATURE"}

\* A call beyond the mark: fetch under way, then billing's status to relay
Relays        == {"200", "400", "403", "413"}
WebhookPhases == StorePhases \cup {"forwarding"} \cup Relays

TypeOK ==
    /\ StoreTypeOK
    /\ at \in [Calls -> WebhookPhases]
    /\ sent \subseteq Keys
    /\ stamp \in [Keys -> Int]
    /\ since \in [Calls -> 0 .. MaxTime]
    /\ forwarded \in [Keys -> 0 .. MaxForwards]
    /\ arrived \in [Keys -> 0 .. MaxForwards]
    /\ answers \in [Keys -> SUBSET Statuses]

Init ==
    /\ StoreInit
    /\ sent = {}
    /\ stamp = [n \in Keys |-> 0]
    /\ since = [c \in Calls |-> 0]
    /\ forwarded = [n \in Keys |-> 0]
    /\ arrived = [n \in Keys |-> 0]
    /\ answers = [n \in Keys |-> {}]

Distance(a, b) == IF a < b THEN b - a ELSE a - b

\* (bug: only timestamps too far ahead are refused)
NotAhead(n) == stamp[n] - now <= Window

\* |now - ts| <= TIMESTAMP_WINDOW_SEC
InWindow(n) == Distance(now, stamp[n]) <= Window

\* The synchronous checks of verifyWebhookRequest, first failure wins
Reason(n) ==
    IF Kind[n] = "bare"          THEN "MISSING_HEADERS"
    ELSE IF ~InWindow(n)         THEN "TIMESTAMP_OUT_OF_WINDOW"
    ELSE IF Kind[n] = "bodyless" THEN "RAW_BODY_REQUIRED"
    ELSE IF Kind[n] = "unsigned" THEN "INVALID_SIGNATURE"
    ELSE "none"

\* What billing's webhook route answers.  express.json(), mounted for every
\* route, parses a JSON body before the route's own token check.
BillingStatus(n) ==
    IF Kind[n] = "oversized"      THEN "413"
    ELSE IF Kind[n] = "malformed" THEN "400"
    ELSE IF ~TokensMatch          THEN "403"
    ELSE IF Kind[n] = "mistyped"  THEN "400"
    ELSE "200"

Reply(c, status) ==
    /\ at' = [at EXCEPT ![c] = "idle"]
    /\ since' = [since EXCEPT ![c] = 0]
    /\ answers' = [answers EXCEPT ![key[c]] = @ \cup {status}]

-----------------------------------------------------------------------------
\* The partner stamps a message with its own clock and sends it
Send(n, skew) ==
    /\ n \notin sent
    /\ sent' = sent \cup {n}
    /\ stamp' = [stamp EXCEPT ![n] = now + skew]
    /\ UNCHANGED <<storeVars, since, forwarded, arrived, answers>>

\* A delivery fails a synchronous check and is answered 401 at once
Reject(c, n) ==
    /\ at[c] = "idle" /\ up[Host[c]]
    /\ n \in sent
    /\ Reason(n) # "none"
    /\ answers' = [answers EXCEPT ![n] = @ \cup {Reason(n)}]
    /\ UNCHANGED <<storeVars, sent, stamp, since, forwarded, arrived>>

\* A delivery passes them and goes on to markOnce(nonceKey(n))
Verify(c, n) ==
    /\ n \in sent
    /\ Reason(n) = "none"
    /\ MarkOnce(c, n)
    /\ since' = [since EXCEPT ![c] = now]
    /\ UNCHANGED <<sent, stamp, forwarded, arrived, answers>>

\* the mark, or the steps of the Redis client
Store == StoreStep /\ UNCHANGED webhookVars

\* (bug: a replay is logged and not answered)
ReplayedUnanswered(c) == at[c] = "replay" /\ UNCHANGED vars

\* markOnce said replay: 401
Replayed(c) ==
    /\ at[c] = "replay"
    /\ Reply(c, "NONCE_REPLAY")
    /\ UNCHANGED <<storeRest, sent, stamp, forwarded, arrived>>

\* (bug: the verdict of markOnce is not looked at)
ForwardAlways(c) ==
    /\ at[c] \in {"fresh", "replay"}
    /\ forwarded[key[c]] < MaxForwards
    /\ forwarded' = [forwarded EXCEPT ![key[c]] = @ + 1]
    /\ at' = [at EXCEPT ![c] = "forwarding"]
    /\ since' = [since EXCEPT ![c] = 0]
    /\ UNCHANGED <<storeRest, sent, stamp, arrived, answers>>

\* markOnce said fresh: fetch to billing begins
Forward(c) ==
    /\ at[c] = "fresh"
    /\ forwarded[key[c]] < MaxForwards
    /\ forwarded' = [forwarded EXCEPT ![key[c]] = @ + 1]
    /\ at' = [at EXCEPT ![c] = "forwarding"]
    /\ since' = [since EXCEPT ![c] = 0]
    /\ UNCHANGED <<storeRest, sent, stamp, arrived, answers>>

\* Billing handles a forwarded message; its response reaches the call that
\* waits for it, or nobody (the call may have given up or died)
Bill(n) ==
    /\ arrived[n] < forwarded[n]
    /\ arrived' = [arrived EXCEPT ![n] = @ + 1]
    /\ \/ \E c \in Calls :
            /\ at[c] = "forwarding" /\ key[c] = n
            /\ at' = [at EXCEPT ![c] = BillingStatus(n)]
       \/ UNCHANGED at
    /\ UNCHANGED <<storeRest, sent, stamp, since, forwarded, answers>>

\* billing's status is relayed to the partner
Relay(c) ==
    /\ at[c] \in Relays
    /\ Reply(c, at[c])
    /\ UNCHANGED <<storeRest, sent, stamp, forwarded, arrived>>

\* (bug: a failed forward is acknowledged, to stop the partner's retries)
ForwardAcknowledged(c) ==
    /\ at[c] \in {"forwarding"} \cup Relays
    /\ Reply(c, "200")
    /\ UNCHANGED <<storeRest, sent, stamp, forwarded, arrived>>

\* fetch throws (refused, reset, timed out, response lost): 502.  The mark
\* stays, and the message may still reach billing.
ForwardFails(c) ==
    /\ at[c] \in {"forwarding"} \cup Relays
    /\ Reply(c, "502")
    /\ UNCHANGED <<storeRest, sent, stamp, forwarded, arrived>>

\* The process dies: by itself, or because markOnce threw outside the
\* handler's try and the rejection went unhandled
Crash(i) ==
    /\ \/ i \in MayCrash
       \/ \E c \in Calls : Host[c] = i /\ at[c] = "failed"
    /\ StoreDie(i)
    /\ since' = [c \in Calls |-> IF Host[c] = i THEN 0 ELSE since[c]]
    /\ UNCHANGED <<sent, stamp, forwarded, arrived, answers>>

Recover(i) == StoreRestart(i) /\ UNCHANGED webhookVars

\* The timing assumption: a mark is made within MarkDelay of the timestamp
\* check that led to it (nothing in the code bounds a slow Redis)
Tick ==
    /\ \A c \in Calls : at[c] \in Undecided => now < since[c] + MarkDelay
    /\ StoreTick
    /\ UNCHANGED webhookVars

Next ==
    \/ \E n \in Keys, s \in Skews : Send(n, s)
    \/ \E c \in Calls, n \in Keys : Reject(c, n) \/ Verify(c, n)
    \/ Store
    \/ \E c \in Calls : Replayed(c) \/ Forward(c) \/ Relay(c) \/ ForwardFails(c)
    \/ \E n \in Keys : Bill(n)
    \/ \E i \in Instances : Crash(i) \/ Recover(i)
    \/ Tick

Spec == Init /\ [][Next]_vars

\* Node's event loop runs, a connected Redis answers or the connection
\* drops, fetch resolves or rejects, and the runtime ends a process with an
\* unhandled rejection.  Nothing says that a connect to Redis ends.
Fairness ==
    /\ \A i \in Instances :
         WF_vars(Crash(i) /\ \E c \in Calls : Host[c] = i /\ at[c] = "failed")
    /\ \A c \in Calls :
         /\ WF_vars((RedisSet(c) \/ RedisDrop(c)) /\ UNCHANGED webhookVars)
         /\ WF_vars(MemoryMark(c) /\ UNCHANGED webhookVars)
         /\ WF_vars(Replayed(c)) /\ WF_vars(Forward(c))
         /\ WF_vars(Relay(c) \/ ForwardFails(c))

FairSpec == Spec /\ Fairness

-----------------------------------------------------------------------------
(***************************************************************************)
(* The abstract delivery: where a message is follows from the marks and    *)
(* from what was sent on, what the partner was told is answers.            *)
(***************************************************************************)
\* a delivery of the message has been granted a slot, in Redis or in a Map
EverMarked(n) == redis[n] # 0 \/ \E i \in Instances : mem[i][n] # 0

\* the abstract delivery has no stage for a message that was sent on again
Stage(n) == IF forwarded[n] > 1      THEN "again"
            ELSE IF arrived[n] # 0   THEN "billed"
            ELSE IF forwarded[n] # 0 THEN "handed"
            ELSE IF EverMarked(n)    THEN "slotted"
            ELSE IF n \in sent       THEN "sent"
            ELSE "unsent"

\* the synchronous checks a message can fail, now or later
MayFail(n) ==
    IF Kind[n] = "bare" THEN {"MISSING_HEADERS"}
    ELSE {"TIMESTAMP_OUT_OF_WINDOW"}
         \cup (IF Kind[n] = "bodyless" THEN {"RAW_BODY_REQUIRED"} ELSE {})
         \cup (IF Kind[n] = "unsigned" THEN {"INVALID_SIGNATURE"} ELSE {})

PD == INSTANCE PaymentDelivery WITH
        Messages   <- Keys,
        Acceptable <- {n \in Keys : Kind[n] \in Verifiable},
        Rejections <- [n \in Keys |-> MayFail(n)],
        Outcome    <- [n \in Keys |-> BillingStatus(n)],
        stage      <- [n \in Keys |-> Stage(n)],
        told       <- answers

-----------------------------------------------------------------------------
(***************************************************************************)
(* Properties                                                              *)
(***************************************************************************)
\* A nonce is used once: however a message is duplicated, delayed and
\* retried, over all instances and their crashes, it is sent on to billing,
\* which has no check of its own, at most once (webhook-verify.js:57-59,
\* webhook-authorizer/server.js:44-64).  Needs Ttl > 2 * Window + MarkDelay.
AtMostOnceForwarded == \A n \in Keys : forwarded[n] <= 1

\* Redis slots are spent on verified requests only, and close to their
\* timestamp (webhook-verify.js:56-59).
SlotsOnlyForVerified ==
    \A n \in Keys : redis[n] # 0 =>
        /\ n \in sent /\ Kind[n] \in Verifiable
        /\ Distance(redis[n] - Ttl, stamp[n]) <= Window + MarkDelay

\* What the partner may conclude from the statuses it gets for one message:
\* 200 means billing accepted it; NONCE_REPLAY that a delivery was granted
\* before; and 200 excludes every other status of billing.
StatusesAreTruthful ==
    \A n \in Keys :
        /\ "200" \in answers[n] =>
              /\ arrived[n] >= 1 /\ Kind[n] = "valid" /\ TokensMatch
              /\ answers[n] \cap {"400", "403", "413"} = {}
        /\ "NONCE_REPLAY" \in answers[n] => EverMarked(n)

\* The whole path is the abstract delivery: over duplicates, delays, lost
\* responses and crashes each message takes each stage once, and the partner
\* is told nothing that its message's stage contradicts (webhook-verify.js:
\* 28-62, webhook-authorizer/server.js:40-78).
DeliversInStages == PD!Spec

\* A verified delivery is answered, or cut off by the end of its process, in
\* a process that finds Redis again and again: a SET whose reply is lost, a
\* connect that is rejected and a billing that never answers leave no
\* delivery hanging (webhook-authorizer/server.js:43-77).
EveryDeliveryEnds ==
    \A c \in Calls : ReachesRedis(c) => (at[c] # "idle" ~> at[c] = "idle")
=============================================================================
