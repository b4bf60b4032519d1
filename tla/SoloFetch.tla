------------------------------ MODULE SoloFetch ------------------------------
(***************************************************************************)
(* What s2sFetch promises each of its callers, as though there were no     *)
(* cache and no other call: the token it sends was good for more than the  *)
(* margin when it was chosen; the first 401 is answered by one retry, with *)
(* a token that Keycloak issued after that 401; the second attempt is the  *)
(* last, whatever its outcome.                                             *)
(***************************************************************************)
EXTENDS Integers

CONSTANTS
    Calls, Lifetime, Margin,
    Tokens,    \* records of an expiry and the number of a signing key
    NoToken

VARIABLES
    now, epoch,    \* the time and the number of the signing key in use
    step,          \* where each call is
    attempt, since,
    token,
    doubted        \* the key in use when the call acted on its 401

vars == <<now, epoch, step, attempt, since, token, doubted>>

Init ==
    /\ now = 0 /\ epoch = 0
    /\ step = [c \in Calls |-> "idle"]
    /\ attempt = [c \in Calls |-> 1]
    /\ since = [c \in Calls |-> 0]
    /\ token = [c \in Calls |-> NoToken]
    /\ doubted = [c \in Calls |-> -1]

\* a token that may be sent for a request of which `begun' is the time
Good(t, begun) == t.exp > begun + Margin /\ t.epoch <= epoch

\* one that was issued since the call's first 401
Fresh(t, c) == t.exp >= since[c] + Lifetime /\ t.epoch >= doubted[c]

To(c, next) == step' = [step EXCEPT ![c] = next]

Begin(c) ==
    /\ step[c] = "idle" /\ To(c, "asking")
    /\ since' = [since EXCEPT ![c] = now]
    /\ UNCHANGED <<now, epoch, attempt, token, doubted>>

\* no need to ask for a token
BeginWith(c, t) ==
    /\ step[c] = "idle" /\ To(c, "sent")
    /\ Good(t, now)
    /\ since' = [since EXCEPT ![c] = now]
    /\ token' = [token EXCEPT ![c] = t]
    /\ UNCHANGED <<now, epoch, attempt, doubted>>

Send(c, t) ==
    /\ step[c] = "asking" /\ To(c, "sent")
    /\ Good(t, since[c])
    /\ attempt[c] = 2 => Fresh(t, c)
    /\ token' = [token EXCEPT ![c] = t]
    /\ UNCHANGED <<now, epoch, attempt, since, doubted>>

\* refused as no longer good, refused for want of a key, or accepted
Judge(c) ==
    /\ step[c] = "sent"
    /\ \/ To(c, "unauthorized") /\ (now >= token[c].exp \/ token[c].epoch < epoch)
       \/ To(c, "unverified")
       \/ To(c, "answered") /\ now < token[c].exp
    /\ UNCHANGED <<now, epoch, attempt, since, token, doubted>>

Retry(c) ==
    /\ step[c] \in {"unauthorized", "unverified"} /\ attempt[c] = 1
    /\ To(c, "asking")
    /\ attempt' = [attempt EXCEPT ![c] = 2]
    /\ since' = [since EXCEPT ![c] = now]
    /\ token' = [token EXCEPT ![c] = NoToken]
    /\ doubted' = [doubted EXCEPT ![c] = epoch]
    /\ UNCHANGED <<now, epoch>>

\* the calls return or throw; a first 401 is returned to nobody
End(C) ==
    /\ step' = [c \in Calls |-> IF c \in C THEN "idle" ELSE step[c]]
    /\ attempt' = [c \in Calls |-> IF c \in C THEN 1 ELSE attempt[c]]
    /\ since' = [c \in Calls |-> IF c \in C THEN 0 ELSE since[c]]
    /\ token' = [c \in Calls |-> IF c \in C THEN NoToken ELSE token[c]]
    /\ doubted' = [c \in Calls |-> IF c \in C THEN -1 ELSE doubted[c]]
    /\ UNCHANGED <<now, epoch>>

Rotate == epoch' = epoch + 1 /\ UNCHANGED <<now, step, attempt, since, token, doubted>>

Tick == now' = now + 1 /\ UNCHANGED <<epoch, step, attempt, since, token, doubted>>

Next ==
    \/ \E c \in Calls : \/ Begin(c) \/ Judge(c) \/ Retry(c)
                        \/ \E t \in Tokens : BeginWith(c, t) \/ Send(c, t)
    \/ \E C \in SUBSET Calls : End(C)
    \/ Rotate \/ Tick

Spec == Init /\ [][Next]_vars
=============================================================================
