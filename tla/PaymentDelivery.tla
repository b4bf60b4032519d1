-------------------------- MODULE PaymentDelivery --------------------------
(***************************************************************************)
(* What the webhook path promises the payment partner and billing,         *)
(* whatever processes, networks and clocks do: a message takes each stage  *)
(* once, from the partner to billing, and every status the partner is told *)
(* fits the stage its message has reached.  It does not promise that a     *)
(* message goes further: a slot may be spent and the message never billed. *)
(***************************************************************************)
CONSTANTS
    Messages,
    Acceptable,   \* the messages that may be given a slot
    Rejections,   \* what each message may be turned away with at once
    Outcome       \* what billing answers for each message

VARIABLES
    stage,   \* how far each message has come
    told     \* the statuses the partner has been told for it

vars == <<stage, told>>

Slotted == {"slotted", "handed", "billed"}
Handed  == {"handed", "billed"}

Init ==
    /\ stage = [n \in Messages |-> "unsent"]
    /\ told = [n \in Messages |-> {}]

Advance(n, from, to) ==
    /\ stage[n] = from
    /\ stage' = [stage EXCEPT ![n] = to]
    /\ UNCHANGED told

Tell(n, status) ==
    /\ told' = [told EXCEPT ![n] = @ \cup {status}]
    /\ UNCHANGED stage

Send(n) == Advance(n, "unsent", "sent")

\* a synchronous check fails, however far an earlier delivery has come
TurnAway(n, status) ==
    /\ stage[n] # "unsent"
    /\ status \in Rejections[n]
    /\ Tell(n, status)

\* one delivery of the message is granted its nonce
Slot(n) == n \in Acceptable /\ Advance(n, "sent", "slotted")

\* another delivery is told so
Replay(n) == stage[n] \in Slotted /\ Tell(n, "NONCE_REPLAY")

HandOver(n) == Advance(n, "slotted", "handed")

\* billing accepts or refuses it
Bill(n) == Advance(n, "handed", "billed")

\* no status came back: the message may have reached billing or still will
Lose(n) == stage[n] \in Handed /\ Tell(n, "502")

Answer(n) == stage[n] = "billed" /\ Tell(n, Outcome[n])

Next ==
    \E n \in Messages :
        \/ Send(n) \/ Slot(n) \/ HandOver(n) \/ Bill(n)
        \/ \E status \in Rejections[n] : TurnAway(n, status)
        \/ Replay(n) \/ Lose(n) \/ Answer(n)

Spec == Init /\ [][Next]_vars
=============================================================================
