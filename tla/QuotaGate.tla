------------------------------ MODULE QuotaGate ------------------------------
(***************************************************************************)
(* What tenantRateLimit promises, without clocks, counters and expiry: a   *)
(* gate lets a request through only while it has let fewer than Rpm of its *)
(* tenant and minute through, and a request is turned away only when its   *)
(* tenant asked for more than Rpm in that minute.  When the minute is over *)
(* a gate may forget what it let through; a request that is late then      *)
(* finds an empty gate.                                                    *)
(***************************************************************************)
EXTENDS Integers

CONSTANTS
    Calls,
    Keys,      \* a tenant and a minute
    Gates,
    Rpm,
    Nothing    \* what a call without a request waits for

VARIABLES
    wanted,    \* of each call: the key it asked for
    over,      \* the keys whose minute is over
    asked,     \* requests for each key so far
    passed,    \* of each gate: the requests it let through and remembers
    limited    \* the keys for which one was turned away

vars == <<wanted, over, asked, passed, limited>>

Init ==
    /\ wanted = [c \in Calls |-> Nothing]
    /\ over = {}
    /\ asked = [k \in Keys |-> 0]
    /\ passed = [g \in Gates |-> [k \in Keys |-> 0]]
    /\ limited = {}

\* a request asks for a key in that key's minute
Ask(c, k) ==
    /\ wanted[c] = Nothing
    /\ k \notin over
    /\ wanted' = [wanted EXCEPT ![c] = k]
    /\ asked' = [asked EXCEPT ![k] = @ + 1]
    /\ UNCHANGED <<over, passed, limited>>

\* the requests of these calls are over
Done(C) == wanted' = [c \in Calls |-> IF c \in C THEN Nothing ELSE wanted[c]]

\* what gate g remembers of key k, or nothing if it forgets that first
Remembered(g, k) == {passed[g][k]} \cup (IF k \in over THEN {0} ELSE {})

Pass(c, g) ==
    /\ wanted[c] \in Keys
    /\ \E n \in Remembered(g, wanted[c]) :
         /\ n < Rpm
         /\ passed' = [passed EXCEPT ![g][wanted[c]] = n + 1]
    /\ Done({c})
    /\ UNCHANGED <<over, asked, limited>>

Forget(g, k) ==
    /\ k \in over
    /\ passed' = [passed EXCEPT ![g][k] = 0]
    /\ UNCHANGED <<wanted, over, asked, limited>>

TurnAway(c) ==
    /\ wanted[c] \in Keys
    /\ asked[wanted[c]] > Rpm
    /\ limited' = limited \cup {wanted[c]}
    /\ Done({c})
    /\ UNCHANGED <<over, asked, passed>>

\* no verdict: 503
GiveUp(c) == Done({c}) /\ UNCHANGED <<over, asked, passed, limited>>

\* a gate is replaced by a new one, with the requests that were in its process
Replace(g, C) ==
    /\ passed' = [passed EXCEPT ![g] = [k \in Keys |-> 0]]
    /\ Done(C)
    /\ UNCHANGED <<over, asked, limited>>

\* minutes end
Elapse(K) ==
    /\ over \subseteq K
    /\ over' = K
    /\ UNCHANGED <<wanted, asked, passed, limited>>

Next ==
    \/ \E c \in Calls, k \in Keys : Ask(c, k)
    \/ \E c \in Calls, g \in Gates : Pass(c, g)
    \/ \E g \in Gates, k \in Keys : Forget(g, k)
    \/ \E c \in Calls : TurnAway(c) \/ GiveUp(c)
    \/ \E g \in Gates, C \in SUBSET Calls : Replace(g, C)
    \/ \E K \in SUBSET Keys : Elapse(K)

Spec == Init /\ [][Next]_vars
=============================================================================
