------------------------- MODULE OrderServiceProofs -------------------------
(***************************************************************************)
(* Theorems about OrderService, for any users, tenants, records, number of *)
(* concurrent requests and length of the startup loop.                     *)
(***************************************************************************)
EXTENDS OrderService, TLAPS

USE OrderAssumption

(***************************************************************************)
(* The inductive invariant.  What a reply shows was checked when it was    *)
(* written; what a request is about to insert was checked before; and a    *)
(* request past the token check has the bearer of that token.              *)
(***************************************************************************)
Entitled(u, r) == u \in Users /\ (IsAdmin(u) \/ Owner[r] = Tenant[u])

RepliesEntitled == \A c \in Calls : \A r \in rows[c] : Entitled(user[c], r)

QuotesEntitled == \A q \in quotes : Entitled(q.user, q.lot)

InsertsEntitled ==
    \A c \in Calls : at[c] = "inserting" =>
        target[c] \in Lots /\ Entitled(user[c], target[c])

\* the requests that have left the token check, those of services apart
BearersKnown ==
    \A c \in Calls :
        at[c] \in {"limiting", "querying"} /\ route[c] # "summary" =>
            user[c] \in Users

\* the lots and orders that the routes with an id are asked for
TargetsFit ==
    \A c \in Calls : at[c] # "idle" =>
        /\ route[c] = "order" => target[c] \in Orders \cup {Unknown}
        /\ route[c] = "quote" => target[c] \in Lots \cup {Unknown, Missing}

\* a quote without a lot is refused before the query
LotsNamed ==
    \A c \in Calls : at[c] = "querying" /\ route[c] = "quote" => target[c] # Missing

\* nothing is shown before the reply
EmptyHanded == \A c \in Calls : at[c] # "replied" => rows[c] = {}

Inv == /\ TypeOK
       /\ RepliesEntitled
       /\ QuotesEntitled
       /\ InsertsEntitled
       /\ BearersKnown
       /\ TargetsFit
       /\ LotsNamed
       /\ EmptyHanded

-----------------------------------------------------------------------------
(***************************************************************************)
(* The two ways in which a handler moves a request on.                     *)
(***************************************************************************)
Codes == {0, 200, 201, 400, 401, 403, 404, 429, 503}

\* what a reply or a move does not touch
Kept == UNCHANGED <<server, tries, request>>

LEMMA ReplyKeepsInv ==
  ASSUME Inv, NEW c \in Calls, at[c] # "idle", NEW code \in Codes, NEW shown \in SUBSET Records,
         \A r \in shown : Entitled(user[c], r),
         Reply(c, code, shown), Kept,
         quotes' \subseteq [user : Users, lot : Lots], QuotesEntitled'
  PROVE  Inv'
  <1> USE DEF Inv, Kept, request
  <1>1. TypeOK'
    BY DEF TypeOK, Reply, Phases, Codes
  <1>2. /\ at' = [at EXCEPT ![c] = "replied"] /\ rows' = [rows EXCEPT ![c] = shown]
        /\ user' = user /\ route' = route /\ target' = target
        /\ at \in [Calls -> Phases] /\ rows \in [Calls -> SUBSET Records]
    BY DEF TypeOK, Reply
  <1>3. RepliesEntitled'
    BY <1>2 DEF RepliesEntitled, Entitled
  <1>4. EmptyHanded'
    BY <1>2 DEF EmptyHanded
  <1>5. InsertsEntitled' /\ BearersKnown' /\ LotsNamed'
    BY <1>2 DEF InsertsEntitled, BearersKnown, LotsNamed, Entitled
  <1>6. TargetsFit'
    <2> SUFFICES ASSUME NEW d \in Calls, at'[d] # "idle"
                 PROVE  /\ route[d] = "order" => target[d] \in Orders \cup {Unknown}
                        /\ route[d] = "quote" => target[d] \in Lots \cup {Unknown, Missing}
      BY <1>2 DEF TargetsFit
    <2>1. at[d] # "idle"
      BY <1>2
    <2> QED
      BY <2>1 DEF TargetsFit
  <1> QED
    BY <1>1, <1>3, <1>4, <1>5, <1>6

LEMMA GoKeepsInv ==
  ASSUME Inv, NEW c \in Calls, at[c] \notin {"idle", "replied"},
         NEW phase \in Phases, phase # "idle",
         phase = "inserting" => target[c] \in Lots /\ Entitled(user[c], target[c]),
         phase \in {"limiting", "querying"} /\ route[c] # "summary" => user[c] \in Users,
         phase = "querying" /\ route[c] = "quote" => target[c] # Missing,
         Go(c, phase), Kept, UNCHANGED quotes
  PROVE  Inv'
  <1> USE DEF Inv, Kept, request
  <1>1. /\ at' = [at EXCEPT ![c] = phase] /\ rows' = rows /\ status' = status
        /\ user' = user /\ route' = route /\ target' = target
        /\ at \in [Calls -> Phases] /\ rows \in [Calls -> SUBSET Records]
    BY DEF TypeOK, Go
  <1>2. TypeOK'
    BY <1>1 DEF TypeOK
  <1>3. RepliesEntitled' /\ QuotesEntitled' /\ EmptyHanded'
    BY <1>1 DEF RepliesEntitled, QuotesEntitled, EmptyHanded, Entitled
  <1>4. InsertsEntitled'
    BY <1>1 DEF InsertsEntitled, Entitled
  <1>5. BearersKnown' /\ LotsNamed'
    BY <1>1 DEF BearersKnown, LotsNamed
  <1>6. TargetsFit'
    BY <1>1 DEF TargetsFit
  <1> QED
    BY <1>2, <1>3, <1>4, <1>5, <1>6

LEMMA HandleKeepsInv ==
  ASSUME Inv, NEW c \in Calls, at[c] \in {"authenticating", "limiting"},
         user[c] \in Users, Handle(c), Kept, UNCHANGED quotes
  PROVE  Inv'
  <1>1. QuotesEntitled' /\ quotes' \subseteq [user : Users, lot : Lots]
    BY DEF Inv, QuotesEntitled, TypeOK, Entitled
  <1>2. ASSUME NEW code \in Codes, Reply(c, code, {}) PROVE Inv'
    BY <1>1, <1>2, ReplyKeepsInv
  <1>3. ASSUME NEW phase \in {"querying", "silent"}, Go(c, phase),
               phase = "querying" /\ route[c] = "quote" => target[c] # Missing
        PROVE  Inv'
    BY <1>3, GoKeepsInv DEF Phases
  <1>4. \/ Reply(c, 403, {}) \/ Reply(c, 400, {})
        \/ Go(c, "silent")
        \/ Go(c, "querying") /\ (route[c] = "quote" => target[c] # Missing)
    BY DEF Handle, EnsureTenant
  <1> QED
    BY <1>2, <1>3, <1>4 DEF Codes

-----------------------------------------------------------------------------
LEMMA InvInit == Init => Inv
  BY DEF Init, Inv, TypeOK, RepliesEntitled, QuotesEntitled, InsertsEntitled, BearersKnown,
         TargetsFit, LotsNamed, EmptyHanded, request, Phases, Routes, Bearers, Ids

\* everything a process held is gone
LEMMA EndKeepsInv ==
  ASSUME Inv, End, quotes' \subseteq [user : Users, lot : Lots], QuotesEntitled'
  PROVE  Inv'
  BY DEF End, Inv, TypeOK, RepliesEntitled, InsertsEntitled, BearersKnown, TargetsFit,
         LotsNamed, EmptyHanded, Phases, Routes, Bearers, Ids

\* a stored quote is for a lot its user was entitled to
LEMMA InsertedQuote ==
  ASSUME Inv, NEW c \in Calls, at[c] = "inserting", Inserted(c)
  PROVE  quotes' \subseteq [user : Users, lot : Lots] /\ QuotesEntitled'
  BY DEF Inv, TypeOK, InsertsEntitled, Inserted, QuotesEntitled, Entitled

-----------------------------------------------------------------------------
(***************************************************************************)
(* The handlers' replies to the result of their first query.               *)
(***************************************************************************)
LEMMA RowsKeepInv ==
  ASSUME Inv, NEW c \in Calls, Rows(c)
  PROVE  Inv'
  <1>0. /\ QuotesEntitled' /\ quotes' \subseteq [user : Users, lot : Lots]
        /\ Kept /\ UNCHANGED quotes /\ at[c] = "querying"
    BY DEF Inv, QuotesEntitled, TypeOK, Entitled, Rows, ListOrders, GetOrder, ListOwn,
           QuoteLot, Summarise, Queried, Kept
  <1>1. ASSUME NEW code \in Codes, NEW shown \in SUBSET Records,
               \A r \in shown : Entitled(user[c], r), Reply(c, code, shown)
        PROVE  Inv'
    BY <1>0, <1>1, ReplyKeepsInv
  <1>2. route[c] # "summary" => user[c] \in Users
    BY <1>0 DEF Inv, BearersKnown
  <1>3. ASSUME ListOrders(c) PROVE Inv'
    <2>1. \A r \in Listed(user[c]) : r \in Orders /\ Entitled(user[c], r)
      BY <1>2, <1>3 DEF ListOrders, Queried, Listed, Entitled
    <2>2. Listed(user[c]) \in SUBSET Records
      BY <2>1 DEF Records
    <2> QED
      BY <1>1, <1>3, <2>1, <2>2 DEF ListOrders, Codes
  <1>4. ASSUME GetOrder(c) PROVE Inv'
    <2>1. CASE Reply(c, 404, {}) \/ Reply(c, 403, {})
      BY <1>1, <2>1 DEF Codes
    <2>2. CASE /\ target[c] # Unknown /\ Access(user[c], Owner[target[c]])
               /\ Reply(c, 200, {target[c]})
      <3>1. target[c] \in Orders
        BY <1>0, <1>4, <2>2 DEF Inv, TargetsFit, GetOrder, Queried
      <3>2. Entitled(user[c], target[c])
        BY <1>2, <1>4, <2>2 DEF GetOrder, Queried, Entitled, Access
      <3> QED
        BY <1>1, <2>2, <3>1, <3>2 DEF Codes, Records
    <2> QED
      BY <1>4, <2>1, <2>2 DEF GetOrder
  <1>5. ASSUME ListOwn(c) PROVE Inv'
    <2> DEFINE mine == {l \in Lots : Owner[l] = Tenant[user[c]]}
    <2>1. mine \in SUBSET Records /\ \A r \in mine : Entitled(user[c], r)
      BY <1>2, <1>5 DEF ListOwn, Queried, Entitled, Records
    <2>2. Reply(c, 200, mine) \/ Reply(c, 404, {})
      BY <1>5 DEF ListOwn
    <2> HIDE DEF mine
    <2> QED
      BY <1>1, <2>1, <2>2 DEF Codes
  <1>6. ASSUME QuoteLot(c) PROVE Inv'
    <2>1. CASE Reply(c, 404, {}) \/ Reply(c, 403, {})
      BY <1>1, <2>1 DEF Codes
    <2>2. CASE /\ target[c] # Unknown /\ Access(user[c], Owner[target[c]])
               /\ Go(c, "inserting")
      <3>1. target[c] \in Lots
        BY <1>0, <1>6, <2>2 DEF Inv, TargetsFit, LotsNamed, QuoteLot, Queried
      <3>2. Entitled(user[c], target[c])
        BY <1>2, <1>6, <2>2 DEF QuoteLot, Queried, Entitled, Access
      <3> QED
        BY <1>0, <2>2, <3>1, <3>2, GoKeepsInv DEF Phases
    <2> QED
      BY <1>6, <2>1, <2>2 DEF QuoteLot
  <1>7. ASSUME Summarise(c) PROVE Inv'
    <2>1. Go(c, "profiling")
      BY <1>7 DEF Summarise
    <2> QED
      BY <1>0, <2>1, GoKeepsInv DEF Phases
  <1> QED
    BY <1>3, <1>4, <1>5, <1>6, <1>7 DEF Rows

-----------------------------------------------------------------------------
\* the parts of Inv that speak of requests
RequestsInv == RepliesEntitled /\ InsertsEntitled /\ BearersKnown /\ TargetsFit
               /\ LotsNamed /\ EmptyHanded

LEMMA InvStep == Inv /\ [Next]_vars => Inv'
  <1> SUFFICES ASSUME Inv, [Next]_vars PROVE Inv'
    OBVIOUS
  <1>q. UNCHANGED quotes => quotes' \subseteq [user : Users, lot : Lots] /\ QuotesEntitled'
    BY DEF Inv, TypeOK, QuotesEntitled, Entitled
  <1>s. ASSUME UNCHANGED <<at, request, rows>> PROVE RequestsInv'
    BY <1>s DEF Inv, RequestsInv, RepliesEntitled, InsertsEntitled, BearersKnown, TargetsFit,
                LotsNamed, EmptyHanded, Entitled, request
  <1>r. ASSUME NEW c \in Calls, at[c] # "idle", NEW code \in Codes, Reply(c, code, {}),
               UNCHANGED <<server, tries, request, quotes>>
        PROVE  Inv'
    BY <1>q, <1>r, ReplyKeepsInv DEF Kept
  <1>1. CASE Listen \/ ProbeFails \/ StartFails \/ StartAgain
    <2>1. TypeOK'
      BY <1>1 DEF Inv, TypeOK, Listen, ProbeFails, StartFails, StartAgain, request
    <2>2. UNCHANGED <<at, request, rows, quotes>>
      BY <1>1 DEF Listen, ProbeFails, StartFails, StartAgain
    <2> QED
      BY <1>q, <1>s, <2>1, <2>2 DEF Inv, RequestsInv
  <1>2. CASE Stop
    BY <1>2, <1>q, EndKeepsInv DEF Stop
  <1>3. ASSUME NEW c \in Calls, NEW r \in Routes, NEW u \in Bearers, NEW id \in Ids,
               Arrive(c, r, u, id)
        PROVE  Inv'
    <2>1. TypeOK'
      BY <1>3 DEF Inv, TypeOK, Arrive, Phases
    <2>2. RequestsInv'
      BY <1>3 DEF Inv, TypeOK, RequestsInv, RepliesEntitled, InsertsEntitled, BearersKnown,
                  TargetsFit, LotsNamed, EmptyHanded, Entitled, Arrive
    <2> QED
      BY <1>3, <1>q, <2>1, <2>2 DEF Inv, RequestsInv, Arrive
  <1>4. ASSUME NEW c \in Calls, Refuse(c) PROVE Inv'
    BY <1>4, <1>r DEF Refuse, Codes
  <1>5. ASSUME NEW c \in Calls, Authenticate(c) PROVE Inv'
    <2>1. user[c] # NoUser => user[c] \in Users
      BY DEF Inv, TypeOK, Bearers
    <2>2. CASE Go(c, "querying") /\ route[c] = "summary"
      BY <1>5, <2>2, GoKeepsInv DEF Authenticate, Kept, Phases
    <2>3. CASE Go(c, "limiting") /\ user[c] # NoUser
      BY <1>5, <2>1, <2>3, GoKeepsInv DEF Authenticate, Kept, Phases
    <2>4. CASE Handle(c) /\ user[c] # NoUser
      BY <1>5, <2>1, <2>4, HandleKeepsInv DEF Authenticate, Kept
    <2> QED
      BY <1>5, <2>2, <2>3, <2>4 DEF Authenticate
  <1>6. ASSUME NEW c \in Calls, Limit(c) PROVE Inv'
    <2>1. CASE Reply(c, 429, {}) \/ Reply(c, 503, {})
      BY <1>6, <1>r, <2>1 DEF Limit, Codes
    <2>2. CASE Handle(c) /\ route[c] # "summary"
      <3>1. user[c] \in Users
        BY <1>6, <2>2 DEF Limit, Inv, BearersKnown
      <3> QED
        BY <1>6, <2>2, <3>1, HandleKeepsInv DEF Limit, Kept
    <2> QED
      BY <1>6, <2>1, <2>2 DEF Limit, Handle
  <1>7. ASSUME NEW c \in Calls, Rows(c) PROVE Inv'
    BY <1>7, RowsKeepInv
  <1>8. ASSUME NEW c \in Calls, Insert(c) PROVE Inv'
    <2>1. target[c] \in Lots /\ Entitled(user[c], target[c])
      BY <1>8 DEF Insert, Inv, InsertsEntitled
    <2>2. quotes' \subseteq [user : Users, lot : Lots] /\ QuotesEntitled'
      BY <1>8, InsertedQuote DEF Insert
    <2> QED
      BY <1>8, <2>1, <2>2, ReplyKeepsInv DEF Insert, Kept, Codes, Records
  <1>9. ASSUME NEW c \in Calls, Profile(c) PROVE Inv'
    BY <1>9, <1>r DEF Profile, Codes
  <1>10. ASSUME NEW c \in Calls, Finish(c) PROVE Inv'
    <2>1. TypeOK'
      BY <1>10 DEF Inv, TypeOK, Finish, Phases, Routes, Bearers, Ids
    <2>2. RequestsInv'
      BY <1>10 DEF Inv, TypeOK, RequestsInv, RepliesEntitled, InsertsEntitled, BearersKnown,
                   TargetsFit, LotsNamed, EmptyHanded, Entitled, Finish
    <2> QED
      BY <1>10, <1>q, <2>1, <2>2 DEF Inv, RequestsInv, Finish
  <1>11. ASSUME NEW c \in Calls, QueryFails(c) PROVE Inv'
    <2>1. quotes' \subseteq [user : Users, lot : Lots] /\ QuotesEntitled'
      BY <1>11, <1>q, InsertedQuote DEF QueryFails
    <2> QED
      BY <1>11, <2>1, EndKeepsInv DEF QueryFails
  <1>12. CASE UNCHANGED vars
    <2>1. TypeOK'
      BY <1>12 DEF Inv, TypeOK, vars, request
    <2> QED
      BY <1>12, <1>q, <1>s, <2>1 DEF vars, Inv, RequestsInv
  <1> QED
    BY <1>1, <1>2, <1>3, <1>4, <1>5, <1>6, <1>7, <1>8, <1>9, <1>10, <1>11, <1>12 DEF Next

LEMMA Invariance == Spec => []Inv
  BY InvInit, InvStep, PTL DEF Spec

-----------------------------------------------------------------------------
\* Requests, responses and stored quotes keep their types in every reachable
\* state (order-service/server.js:65-206).
THEOREM TypeCorrect == Spec => []TypeOK
  <1>1. Inv => TypeOK
    BY DEF Inv
  <1> QED
    BY <1>1, Invariance, PTL

\* However requests interleave, fail and restart, nobody but an admin is shown
\* another tenant's record or quotes another tenant's lot (server.js:65-170).
THEOREM TenantsAreIsolated == Spec => []TenantIsolation
  <1>1. Inv => TenantIsolation
    BY DEF Inv, RepliesEntitled, QuotesEntitled, TenantIsolation, Entitled
  <1> QED
    BY <1>1, Invariance, PTL
-----------------------------------------------------------------------------
(***************************************************************************)
(* order-service implements OrderApi.  A step of a handler is a stutter    *)
(* until it replies; the reply is justified by what the checks before it   *)
(* have established, which Admitted carries across the awaits.             *)
(***************************************************************************)
Admitted ==
    \A c \in Calls :
        /\ at[c] = "limiting" => user[c] \in Members
        /\ at[c] \in {"querying", "inserting"} /\ route[c] # "summary" => OA!Open(Asked(c))
        /\ at[c] = "inserting" => route[c] = "quote"
        /\ at[c] = "profiling" => route[c] = "summary"

\* a request that is on its way through its handler
InHandler(c) == at[c] \notin {"idle", "replied"}

LEMMA AdmittedInit == Init => Admitted
  BY DEF Init, Admitted

\* a step that moves one call to a phase for which it qualifies, or to none
\* of those that Admitted speaks of
LEMMA MoveKeepsAdmitted ==
  ASSUME TypeOK, Admitted, NEW c \in Calls, NEW phase,
         at' = [at EXCEPT ![c] = phase], UNCHANGED request,
         phase = "limiting" => user[c] \in Members,
         phase \in {"querying", "inserting"} /\ route[c] # "summary" => OA!Open(Asked(c)),
         phase = "inserting" => route[c] = "quote",
         phase = "profiling" => route[c] = "summary"
  PROVE  Admitted'
  <1> SUFFICES ASSUME NEW d \in Calls
               PROVE  /\ at'[d] = "limiting" => user[d] \in Members
                      /\ at'[d] \in {"querying", "inserting"} /\ route[d] # "summary"
                            => OA!Open(Asked(d))
                      /\ at'[d] = "inserting" => route[d] = "quote"
                      /\ at'[d] = "profiling" => route[d] = "summary"
    BY DEF Admitted, request, Asked, OA!Open, Members, IsAdmin
  <1>1. CASE d = c
    BY <1>1 DEF TypeOK
  <1>2. CASE d # c
    <2>1. at'[d] = at[d]
      BY <1>2 DEF TypeOK
    <2> QED
      BY <2>1 DEF Admitted
  <1> QED
    BY <1>1, <1>2

\* what Handle may do, with the reason for each reply
LEMMA HandleCases ==
  ASSUME NEW c \in Calls, user[c] \in Users, Handle(c)
  PROVE  \/ Reply(c, 403, {}) /\ OA!Refusal(Asked(c), 403)
         \/ Reply(c, 400, {}) /\ OA!Refusal(Asked(c), 400)
         \/ Go(c, "silent")
         \/ Go(c, "querying") /\ OA!Open(Asked(c))
  BY DEF Handle, EnsureTenant, OA!Refusal, OA!Open, Asked, Members, IsAdmin

LEMMA AdmittedStep == Inv /\ Admitted /\ [Next]_vars => Admitted'
  <1> SUFFICES ASSUME Inv, Admitted, [Next]_vars PROVE Admitted'
    OBVIOUS
  <1> USE DEF Kept
  <1>t. TypeOK
    BY DEF Inv
  <1>r. ASSUME NEW c \in Calls, NEW code, NEW shown, Reply(c, code, shown), UNCHANGED request
        PROVE  Admitted'
    BY <1>r, <1>t, MoveKeepsAdmitted DEF Reply
  <1>g. ASSUME NEW c \in Calls, NEW phase, Go(c, phase), UNCHANGED request,
               phase = "limiting" => user[c] \in Members,
               phase \in {"querying", "inserting"} /\ route[c] # "summary" => OA!Open(Asked(c)),
               phase = "inserting" => route[c] = "quote",
               phase = "profiling" => route[c] = "summary"
        PROVE  Admitted'
    BY <1>g, <1>t, MoveKeepsAdmitted DEF Go
  <1>h. ASSUME NEW c \in Calls, user[c] \in Users, Handle(c), UNCHANGED request
        PROVE  Admitted'
    BY <1>h, <1>r, <1>g, HandleCases
  <1>1. CASE UNCHANGED <<at, request>>
    BY <1>1 DEF Admitted, request, Asked, OA!Open, Members, IsAdmin
  <1>2. CASE at' = [d \in Calls |-> "idle"]
    BY <1>2 DEF Admitted
  <1>3. ASSUME NEW c \in Calls, NEW r \in Routes, NEW u \in Bearers, NEW id \in Ids,
               Arrive(c, r, u, id)
        PROVE  Admitted'
    <2>1. \A d \in Calls : 
             \/ at'[d] = "authenticating"
             \/ at'[d] = at[d] /\ UNCHANGED <<route[d], user[d], Asked(d)>>
      BY <1>3, <1>t DEF Arrive, TypeOK, Asked
    <2> QED
      BY <2>1 DEF Admitted, OA!Open, Members, IsAdmin
  <1>4. ASSUME NEW c \in Calls, Refuse(c) PROVE Admitted'
    BY <1>4, <1>r DEF Refuse
  <1>5. ASSUME NEW c \in Calls, Authenticate(c) PROVE Admitted'
    <2>1. user[c] # NoUser => user[c] \in Users
      BY <1>t DEF TypeOK, Bearers
    <2> QED
      BY <1>5, <2>1, <1>g, <1>h DEF Authenticate, Members
  <1>6. ASSUME NEW c \in Calls, Limit(c) PROVE Admitted'
    <2>1. user[c] \in Users
      BY <1>6 DEF Limit, Admitted, Members
    <2> QED
      BY <1>6, <2>1, <1>r, <1>h DEF Limit
  <1>7. ASSUME NEW c \in Calls, Rows(c) PROVE Admitted'
    <2>1. CASE QuoteLot(c)
      <3>1. route[c] = "quote" /\ OA!Open(Asked(c)) /\ UNCHANGED request
        BY <2>1 DEF QuoteLot, Queried, Admitted
      <3> QED
        BY <2>1, <3>1, <1>r, <1>g DEF QuoteLot
    <2> QED
      BY <1>7, <2>1, <1>r, <1>g DEF Rows, ListOrders, GetOrder, ListOwn, Summarise, Queried
  <1>8. ASSUME NEW c \in Calls, Insert(c) \/ Profile(c) PROVE Admitted'
    BY <1>8, <1>r DEF Insert, Profile
  <1>9. ASSUME NEW c \in Calls, Finish(c) PROVE Admitted'
    <2>1. \A d \in Calls : 
             \/ at'[d] = "idle"
             \/ at'[d] = at[d] /\ UNCHANGED <<route[d], user[d], Asked(d)>>
      BY <1>9, <1>t DEF Finish, TypeOK, Asked
    <2> QED
      BY <2>1 DEF Admitted, OA!Open, Members, IsAdmin
  <1> QED
    BY <1>1, <1>2, <1>3, <1>4, <1>5, <1>6, <1>7, <1>8, <1>9
       DEF Next, vars, Listen, ProbeFails, StartFails, StartAgain, Stop, QueryFails, End

-----------------------------------------------------------------------------
(***************************************************************************)
(* How the steps look to the contract.                                     *)
(***************************************************************************)
LEMMA ReplyAnswers ==
  ASSUME TypeOK, NEW c \in Calls, InHandler(c), NEW code, NEW shown,
         Reply(c, code, shown), UNCHANGED request
  PROVE  OA!Answer(c, code, shown)
  <1>1. /\ [d \in Calls |-> Stage(d)]' = [[d \in Calls |-> Stage(d)] EXCEPT ![c] = "answered"]
        /\ Stage(c) = "open"
    <2>1. at' = [at EXCEPT ![c] = "replied"] /\ at \in [Calls -> Phases]
      BY DEF Reply, TypeOK
    <2>2. Stage(c)' = "answered" /\ Stage(c) = "open"
      BY <2>1 DEF Stage, InHandler
    <2>3. \A d \in Calls : d # c => Stage(d)' = Stage(d)
      BY <2>1 DEF Stage
    <2> QED
      BY <2>2, <2>3
  <1>2. [d \in Calls |-> Given(d)]'
           = [[d \in Calls |-> Given(d)] EXCEPT ![c] = [status |-> code, rows |-> shown]]
    BY DEF Reply, Given, TypeOK
  <1>3. UNCHANGED [d \in Calls |-> Asked(d)]
    BY DEF request, Asked
  <1> QED
    BY <1>1, <1>2, <1>3 DEF OA!Answer

LEMMA GoStutters ==
  ASSUME TypeOK, NEW c \in Calls, InHandler(c), NEW phase, phase \notin {"idle", "replied"},
         Go(c, phase), UNCHANGED request, UNCHANGED quotes
  PROVE  UNCHANGED OA!vars
  <1>1. UNCHANGED [d \in Calls |-> Stage(d)]
    BY DEF Go, Stage, InHandler, TypeOK
  <1>2. UNCHANGED [d \in Calls |-> Asked(d)] /\ UNCHANGED [d \in Calls |-> Given(d)]
    BY DEF request, Asked, Given, Go
  <1> QED
    BY <1>1, <1>2 DEF OA!vars

LEMMA RefusalRefines ==
  ASSUME TypeOK, NEW c \in Calls, InHandler(c), NEW code \in {400, 401, 403, 404, 429, 503},
         Reply(c, code, {}), UNCHANGED request, UNCHANGED quotes, OA!Refusal(Asked(c), code)
  PROVE  OA!Next
  <1>1. OA!Answer(c, code, {})
    BY ReplyAnswers
  <1>2. OA!Refuse(c, code)
    BY <1>1 DEF OA!Refuse
  <1> QED
    BY <1>2 DEF OA!Next

LEMMA ShowRefines ==
  ASSUME TypeOK, NEW c \in Calls, InHandler(c), NEW shown \in SUBSET Records,
         Reply(c, 200, shown), UNCHANGED request, UNCHANGED quotes, OA!Shows(Asked(c), shown)
  PROVE  OA!Next
  <1>1. OA!Answer(c, 200, shown)
    BY ReplyAnswers
  <1>2. OA!Show(c, shown)
    BY <1>1 DEF OA!Show
  <1> QED
    BY <1>2 DEF OA!Next, Records

LEMMA HandleRefines ==
  ASSUME TypeOK, NEW c \in Calls, InHandler(c), user[c] \in Users, Handle(c),
         UNCHANGED request, UNCHANGED quotes
  PROVE  OA!Next \/ UNCHANGED OA!vars
  BY HandleCases, RefusalRefines, GoStutters

\* a request about to insert is for a quote its user may make
LEMMA InsertingIsQuotable ==
  ASSUME Inv, Admitted, NEW c \in Calls, at[c] = "inserting"
  PROVE  OA!Quotable(Asked(c)) /\ OA!QuoteOf(Asked(c)) = [user |-> user[c], lot |-> target[c]]
  <1>1. OA!Open(Asked(c)) /\ route[c] = "quote"
    BY DEF Admitted
  <1>2. target[c] \in Lots /\ Entitled(user[c], target[c])
    BY DEF Inv, InsertsEntitled
  <1> QED
    BY <1>1, <1>2 DEF OA!Quotable, OA!QuoteOf, Asked, Visible, Entitled, Records

\* each reply to the first query's result is due
LEMMA RowsRefine ==
  ASSUME Inv, Admitted, NEW c \in Calls, Rows(c)
  PROVE  OA!Next \/ UNCHANGED OA!vars
  <1>0. TypeOK /\ at[c] = "querying" /\ InHandler(c) /\ UNCHANGED request /\ UNCHANGED quotes
    BY DEF Inv, Rows, ListOrders, GetOrder, ListOwn, QuoteLot, Summarise, Queried, InHandler
  <1>1. route[c] # "summary" => OA!Open(Asked(c)) /\ user[c] \in Users
    BY <1>0 DEF Admitted, Inv, BearersKnown
  <1>2. ASSUME ListOrders(c) PROVE OA!Next
    <2>1. Listed(user[c]) = Orders \cap Visible[user[c]] /\ Listed(user[c]) \subseteq Records
      BY <1>1, <1>2 DEF ListOrders, Queried, Listed, Visible, Records
    <2>2. OA!Shows(Asked(c), Listed(user[c]))
      BY <1>1, <1>2, <2>1 DEF ListOrders, Queried, OA!Shows, Asked
    <2> QED
      BY <1>0, <1>2, <2>1, <2>2, ShowRefines DEF ListOrders
  <1>3. ASSUME GetOrder(c) PROVE OA!Next
    <2>1. route[c] = "order" /\ target[c] \in Orders \cup {Unknown}
      BY <1>0, <1>3 DEF GetOrder, Queried, Inv, TargetsFit
    <2>2. CASE target[c] = Unknown /\ Reply(c, 404, {})
      BY <1>0, <1>1, <2>1, <2>2, RefusalRefines DEF OA!Refusal, Asked
    <2>3. CASE target[c] # Unknown
      <3>1. Access(user[c], Owner[target[c]]) <=> target[c] \in Visible[user[c]]
        BY <1>1, <2>1, <2>3 DEF Access, Visible, Records
      <3>2. CASE target[c] \in Visible[user[c]]
        <4>1. OA!Shows(Asked(c), {target[c]}) /\ {target[c]} \subseteq Records
          BY <1>1, <2>1, <2>3, <3>2 DEF OA!Shows, Asked, Records
        <4> QED
          BY <1>0, <1>3, <2>3, <3>1, <3>2, <4>1, ShowRefines DEF GetOrder
      <3>3. CASE target[c] \notin Visible[user[c]]
        <4>1. OA!Refusal(Asked(c), 403)
          BY <1>1, <2>1, <2>3, <3>3 DEF OA!Refusal, Asked
        <4> QED
          BY <1>0, <1>3, <2>3, <3>1, <3>3, <4>1, RefusalRefines DEF GetOrder
      <3> QED
        BY <3>2, <3>3
    <2> QED
      BY <1>3, <2>2, <2>3 DEF GetOrder
  <1>4. ASSUME ListOwn(c) PROVE OA!Next
    <2>1. Own[user[c]] = {l \in Lots : Owner[l] = Tenant[user[c]]} /\ route[c] = "own"
      BY <1>1, <1>4 DEF ListOwn, Queried, Own
    <2>2. \/ Reply(c, 200, Own[user[c]])
          \/ Own[user[c]] = {} /\ Reply(c, 404, {})
      BY <1>4, <2>1 DEF ListOwn
    <2>3. OA!Shows(Asked(c), Own[user[c]]) /\ Own[user[c]] \in SUBSET Records
      BY <1>1, <2>1 DEF OA!Shows, Asked, Records
    <2>4. Own[user[c]] = {} => OA!Refusal(Asked(c), 404)
      BY <1>1, <2>1 DEF OA!Refusal, Asked
    <2> QED
      BY <1>0, <2>2, <2>3, <2>4, ShowRefines, RefusalRefines
  <1>5. ASSUME QuoteLot(c) PROVE OA!Next \/ UNCHANGED OA!vars
    <2>1. route[c] = "quote" /\ target[c] \in Lots \cup {Unknown}
      BY <1>0, <1>5 DEF QuoteLot, Queried, Inv, TargetsFit, LotsNamed
    <2>2. CASE target[c] = Unknown /\ Reply(c, 404, {})
      BY <1>0, <1>1, <2>1, <2>2, RefusalRefines DEF OA!Refusal, Asked
    <2>3. CASE target[c] # Unknown /\ ~Access(user[c], Owner[target[c]]) /\ Reply(c, 403, {})
      <3>1. target[c] \in Records \ Visible[user[c]]
        BY <1>1, <2>1, <2>3 DEF Access, Visible, Records
      <3>2. OA!Refusal(Asked(c), 403)
        BY <1>1, <2>1, <3>1 DEF OA!Refusal, Asked, Records
      <3> QED
        BY <1>0, <2>3, <3>2, RefusalRefines
    <2>4. CASE Go(c, "inserting")
      BY <1>0, <2>4, GoStutters
    <2> QED
      BY <1>5, <2>2, <2>3, <2>4 DEF QuoteLot
  <1>6. ASSUME Summarise(c) PROVE UNCHANGED OA!vars
    BY <1>0, <1>6, GoStutters DEF Summarise
  <1> QED
    BY <1>2, <1>3, <1>4, <1>5, <1>6 DEF Rows

-----------------------------------------------------------------------------
LEMMA ContractInit == Init => OA!Init
  BY DEF Init, OA!Init, OA!NoRequest, OA!NoAnswer, Stage, Asked, Given, request

\* the end of the process answers nobody
LEMMA EndRefines ==
  ASSUME Inv, Admitted, End,
         \/ UNCHANGED quotes
         \/ \E c \in Calls : at[c] = "inserting" /\ Inserted(c)
  PROVE  OA!Next
  <1>1. /\ [c \in Calls |-> Stage(c)]' = [c \in Calls |-> "idle"]
        /\ [c \in Calls |-> Asked(c)]' = [c \in Calls |-> OA!NoRequest]
        /\ [c \in Calls |-> Given(c)]' = [c \in Calls |-> OA!NoAnswer]
    BY DEF End, Stage, Asked, Given, OA!NoRequest, OA!NoAnswer
  <1>2. CASE UNCHANGED quotes
    BY <1>1, <1>2 DEF OA!Next, OA!End
  <1>3. ASSUME NEW c \in Calls, at[c] = "inserting", Inserted(c) PROVE OA!Next
    <2>1. OA!Quotable(Asked(c)) /\ quotes' = quotes \cup {OA!QuoteOf(Asked(c))}
      BY <1>3, InsertingIsQuotable DEF Inserted
    <2>2. Stage(c) = "open"
      BY <1>3 DEF Stage
    <2>3. OA!End
      BY <1>1, <2>1, <2>2 DEF OA!End
    <2> QED
      BY <2>3 DEF OA!Next
  <1> QED
    BY <1>2, <1>3

LEMMA ArriveRefines ==
  ASSUME TypeOK, NEW c \in Calls, NEW r \in Routes, NEW u \in Bearers, NEW id \in Ids,
         Arrive(c, r, u, id)
  PROVE  OA!Next
  <1> DEFINE q == [route |-> r, user |-> u, target |-> id]
  <1>1. q \in OA!Requests
    BY DEF Arrive, OA!Requests, Routes, Bearers
  <1>2. /\ Stage(c) = "idle"
        /\ [d \in Calls |-> Stage(d)]' = [[d \in Calls |-> Stage(d)] EXCEPT ![c] = "open"]
    <2>1. at' = [at EXCEPT ![c] = "authenticating"] /\ at[c] = "idle" /\ at \in [Calls -> Phases]
      BY DEF Arrive, TypeOK
    <2>2. Stage(c)' = "open" /\ Stage(c) = "idle"
      BY <2>1 DEF Stage
    <2>3. \A d \in Calls : d # c => Stage(d)' = Stage(d)
      BY <2>1 DEF Stage
    <2> QED
      BY <2>2, <2>3
  <1>3. [d \in Calls |-> Asked(d)]' = [[d \in Calls |-> Asked(d)] EXCEPT ![c] = q]
    BY DEF Arrive, Asked, TypeOK
  <1>4. UNCHANGED [d \in Calls |-> Given(d)] /\ UNCHANGED quotes
    BY DEF Arrive, Given
  <1> HIDE DEF q
  <1>5. OA!Ask(c, q)
    BY <1>2, <1>3, <1>4 DEF OA!Ask
  <1> QED
    BY <1>1, <1>5 DEF OA!Next

LEMMA FinishRefines ==
  ASSUME TypeOK, NEW c \in Calls, Finish(c)
  PROVE  OA!Next
  <1>1. /\ Stage(c) = "answered"
        /\ [d \in Calls |-> Stage(d)]' = [[d \in Calls |-> Stage(d)] EXCEPT ![c] = "idle"]
    <2>1. at' = [at EXCEPT ![c] = "idle"] /\ at[c] = "replied" /\ at \in [Calls -> Phases]
      BY DEF Finish, TypeOK
    <2>2. Stage(c)' = "idle" /\ Stage(c) = "answered"
      BY <2>1 DEF Stage
    <2>3. \A d \in Calls : d # c => Stage(d)' = Stage(d)
      BY <2>1 DEF Stage
    <2> QED
      BY <2>2, <2>3
  <1>2. [d \in Calls |-> Asked(d)]' = [[d \in Calls |-> Asked(d)] EXCEPT ![c] = OA!NoRequest]
    BY DEF Finish, Asked, OA!NoRequest, TypeOK
  <1>3. [d \in Calls |-> Given(d)]' = [[d \in Calls |-> Given(d)] EXCEPT ![c] = OA!NoAnswer]
    BY DEF Finish, Given, OA!NoAnswer, TypeOK
  <1>4. OA!Leave(c)
    BY <1>1, <1>2, <1>3 DEF OA!Leave, Finish
  <1> QED
    BY <1>4 DEF OA!Next

LEMMA ContractStep == Inv /\ Admitted /\ [Next]_vars => [OA!Next]_(OA!vars)
  <1> SUFFICES ASSUME Inv, Admitted, [Next]_vars PROVE OA!Next \/ UNCHANGED OA!vars
    OBVIOUS
  <1>t. TypeOK
    BY DEF Inv
  <1>1. CASE UNCHANGED <<at, request, status, rows, quotes>>
    BY <1>1 DEF OA!vars, Stage, Asked, Given, request
  <1>2. ASSUME NEW c \in Calls, NEW r \in Routes, NEW u \in Bearers, NEW id \in Ids,
               Arrive(c, r, u, id)
        PROVE  OA!Next
    BY <1>2, <1>t, ArriveRefines
  <1>3. ASSUME NEW c \in Calls, Refuse(c) PROVE OA!Next
    <2>1. PICK code \in {401, 403} : /\ route[c] = "summary" \/ code = 401
                                     /\ Reply(c, code, {})
      BY <1>3 DEF Refuse
    <2>2. OA!Refusal(Asked(c), code)
      BY <1>3, <2>1 DEF Refuse, OA!Refusal, Asked
    <2> QED
      BY <1>3, <1>t, <2>1, <2>2, RefusalRefines DEF Refuse, InHandler
  <1>4. ASSUME NEW c \in Calls, Authenticate(c) PROVE OA!Next \/ UNCHANGED OA!vars
    <2>1. user[c] # NoUser => user[c] \in Users
      BY <1>t DEF TypeOK, Bearers
    <2> QED
      BY <1>4, <1>t, <2>1, HandleRefines, GoStutters DEF Authenticate, InHandler
  <1>5. ASSUME NEW c \in Calls, Limit(c) PROVE OA!Next \/ UNCHANGED OA!vars
    <2>1. user[c] \in Members /\ user[c] \in Users /\ InHandler(c)
      BY <1>5 DEF Limit, Admitted, Members, InHandler
    <2>2. OA!Refusal(Asked(c), 429) /\ OA!Refusal(Asked(c), 503)
      BY <2>1 DEF OA!Refusal, Asked
    <2> QED
      BY <1>5, <1>t, <2>1, <2>2, HandleRefines, RefusalRefines DEF Limit
  <1>6. ASSUME NEW c \in Calls, Rows(c) PROVE OA!Next \/ UNCHANGED OA!vars
    BY <1>6, RowsRefine
  <1>7. ASSUME NEW c \in Calls, Insert(c) PROVE OA!Next
    <2>1. OA!Answer(c, 201, {target[c]})
      BY <1>7, <1>t, ReplyAnswers DEF Insert, InHandler
    <2>2. OA!Quotable(Asked(c)) /\ quotes' = quotes \cup {OA!QuoteOf(Asked(c))}
      BY <1>7, InsertingIsQuotable DEF Insert, Inserted
    <2>3. OA!Quote(c)
      BY <2>1, <2>2 DEF OA!Quote, Asked
    <2> QED
      BY <2>3 DEF OA!Next
  <1>8. ASSUME NEW c \in Calls, Profile(c) PROVE OA!Next
    <2>1. OA!Shows(Asked(c), {})
      BY <1>8 DEF Profile, Admitted, OA!Shows, Asked
    <2> QED
      BY <1>8, <1>t, <2>1, ShowRefines DEF Profile, InHandler
  <1>9. ASSUME NEW c \in Calls, Finish(c) PROVE OA!Next
    BY <1>9, <1>t, FinishRefines
  <1>10. ASSUME NEW c \in Calls, QueryFails(c) PROVE OA!Next
    BY <1>10, EndRefines DEF QueryFails
  <1>11. CASE Stop
    BY <1>11, EndRefines DEF Stop
  <1>12. CASE Listen \/ ProbeFails \/ StartFails \/ StartAgain
    BY <1>1, <1>12 DEF Listen, ProbeFails, StartFails, StartAgain
  <1> QED
    BY <1>1, <1>2, <1>3, <1>4, <1>5, <1>6, <1>7, <1>8, <1>9, <1>10, <1>11, <1>12
       DEF Next, vars

\* Whatever interleaves, fails or ends between token check, quota and queries,
\* each answer is the one its own request and the tables justify, and a quote
\* is stored in the step that reports it (server.js:65-170).
THEOREM ContractRefines == Spec => AnswersByContract
  <1>1. Spec => [](Inv /\ Admitted)
    BY InvInit, InvStep, AdmittedInit, AdmittedStep, PTL DEF Spec
  <1> QED
    BY <1>1, ContractInit, ContractStep, PTL DEF Spec, AnswersByContract, OA!Spec
=============================================================================
