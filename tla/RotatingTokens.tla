--------------------------- MODULE RotatingTokens ---------------------------
(***************************************************************************)
(* What the refresh proxy makes of a realm that does not rotate tokens: a  *)
(* login starts a session with one current token; a token is spent once,   *)
(* by a call or by its age, and never comes back; a spent token yields at  *)
(* most one successor, which is then the current token of the session.     *)
(***************************************************************************)
CONSTANTS
    Tokens,
    LoginTokens,   \* the tokens that logins may produce
    NoToken

VARIABLES
    state,    \* of each token
    session   \* the login each token descends from

vars == <<state, session>>

States == {"none", "current", "spent", "rotated"}

Init ==
    /\ state = [t \in Tokens |-> "none"]
    /\ session = [t \in Tokens |-> NoToken]

Current == {t \in Tokens : state[t] = "current"}

Login(t) ==
    /\ state[t] = "none"
    /\ state' = [state EXCEPT ![t] = "current"]
    /\ session' = [session EXCEPT ![t] = t]

\* one call spends one current token, the passing of time any number of them
Spend(T) ==
    /\ state' = [t \in Tokens |-> IF t \in T THEN "spent" ELSE state[t]]
    /\ UNCHANGED session

Rotate(t, successor) ==
    /\ state[t] = "spent"
    /\ state[successor] = "none"
    /\ state' = [state EXCEPT ![t] = "rotated", ![successor] = "current"]
    /\ session' = [session EXCEPT ![successor] = session[t]]

Next ==
    \/ \E t \in LoginTokens : Login(t)
    \/ \E T \in SUBSET Current : Spend(T)
    \/ \E t, s \in Tokens : Rotate(t, s)

Spec == Init /\ [][Next]_vars
=============================================================================
