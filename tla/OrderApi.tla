------------------------------ MODULE OrderApi ------------------------------
(***************************************************************************)
(* The contract of order-service, request by request: an answer depends on *)
(* the request, its bearer and the tables alone.  It is given in one step, *)
(* it shows all that is due and nothing else, and a quote is stored in the *)
(* step that reports it.  Only the end of the process, which answers       *)
(* nobody, may leave a quote that was not reported.                        *)
(***************************************************************************)
EXTENDS Integers

CONSTANTS
    Calls,
    Users, Nobody,    \* bearers of good tokens; what the others count as
    Members, Admins,  \* the users with a tenant, and the admins
    Orders, Lots,
    Unknown, Missing, \* an id not in the tables; no id
    Visible,          \* the records each user may see
    Own               \* the lots of each user's own tenant

VARIABLES
    stage,    \* of each call: "idle", "open" or "answered"
    ask,      \* its request
    answer,   \* its answer
    quotes

vars == <<stage, ask, answer, quotes>>

Requests ==
    LET of(routes, users, ids) == [route : routes, user : users, target : ids] IN
    of({"orders", "own"}, Users \cup {Nobody}, {Missing})
    \cup of({"order"}, Users \cup {Nobody}, Orders \cup {Unknown})
    \cup of({"quote"}, Users \cup {Nobody}, Lots \cup {Unknown, Missing})
    \cup of({"summary"}, {Nobody}, {Missing})

NoRequest == [route |-> "orders", user |-> Nobody, target |-> Missing]
NoAnswer  == [status |-> 0, rows |-> {}]

\* the routes that work for a user: those about a tenant only for its members
Open(q) == CASE q.route = "orders" -> q.user \in Members \cup Admins
             [] q.route = "order"  -> q.user \in Users
             [] q.route = "own"    -> q.user \in Members
             [] q.route = "quote"  -> q.user \in Members
             [] OTHER              -> FALSE

\* the statuses that say no
Refusal(q, code) ==
    \/ code = 401 /\ q.user = Nobody
    \/ code = 403 /\ q.route = "summary"
    \/ code = 403 /\ q.user \in Users \ (Members \cup Admins) /\ ~Open(q)
    \/ code = 403 /\ Open(q) /\ q.target \in (Orders \cup Lots) \ Visible[q.user]
    \/ code \in {429, 503} /\ q.user \in Members
    \/ code = 404 /\ Open(q) /\ q.target = Unknown
    \/ code = 404 /\ Open(q) /\ q.route = "own" /\ Own[q.user] = {}
    \/ code = 400 /\ Open(q) /\ q.route = "quote" /\ q.target = Missing

\* what a 200 shows
Shows(q, rows) ==
    \/ Open(q) /\ q.route = "orders" /\ rows = Orders \cap Visible[q.user]
    \/ Open(q) /\ q.route = "own" /\ rows = Own[q.user]
    \/ Open(q) /\ q.route = "order" /\ rows = {q.target} /\ rows \subseteq Visible[q.user]
    \/ q.route = "summary" /\ rows = {}

\* a quote that may be made
Quotable(q) == Open(q) /\ q.route = "quote" /\ q.target \in Lots \cap Visible[q.user]

QuoteOf(q) == [user |-> q.user, lot |-> q.target]

Init ==
    /\ stage = [c \in Calls |-> "idle"]
    /\ ask = [c \in Calls |-> NoRequest]
    /\ answer = [c \in Calls |-> NoAnswer]
    /\ quotes = {}

Ask(c, q) ==
    /\ stage[c] = "idle"
    /\ stage' = [stage EXCEPT ![c] = "open"]
    /\ ask' = [ask EXCEPT ![c] = q]
    /\ UNCHANGED <<answer, quotes>>

Answer(c, status, rows) ==
    /\ stage[c] = "open"
    /\ stage' = [stage EXCEPT ![c] = "answered"]
    /\ answer' = [answer EXCEPT ![c] = [status |-> status, rows |-> rows]]
    /\ UNCHANGED ask

Refuse(c, code) == Refusal(ask[c], code) /\ Answer(c, code, {}) /\ UNCHANGED quotes

Show(c, rows) == Shows(ask[c], rows) /\ Answer(c, 200, rows) /\ UNCHANGED quotes

Quote(c) ==
    /\ Quotable(ask[c])
    /\ Answer(c, 201, {ask[c].target})
    /\ quotes' = quotes \cup {QuoteOf(ask[c])}

Leave(c) ==
    /\ stage[c] = "answered"
    /\ stage' = [stage EXCEPT ![c] = "idle"]
    /\ ask' = [ask EXCEPT ![c] = NoRequest]
    /\ answer' = [answer EXCEPT ![c] = NoAnswer]
    /\ UNCHANGED quotes

\* the process ends: at most one quote is stored and not reported
End ==
    /\ stage' = [c \in Calls |-> "idle"]
    /\ ask' = [c \in Calls |-> NoRequest]
    /\ answer' = [c \in Calls |-> NoAnswer]
    /\ \/ UNCHANGED quotes
       \/ \E c \in Calls : /\ stage[c] = "open" /\ Quotable(ask[c])
                           /\ quotes' = quotes \cup {QuoteOf(ask[c])}

Next ==
    \/ \E c \in Calls, q \in Requests : Ask(c, q)
    \/ \E c \in Calls : \/ \E code \in {400, 401, 403, 404, 429, 503} : Refuse(c, code)
                        \/ \E rows \in SUBSET (Orders \cup Lots) : Show(c, rows)
                        \/ Quote(c) \/ Leave(c)
    \/ End

Spec == Init /\ [][Next]_vars
=============================================================================
