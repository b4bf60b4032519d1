---------------------------- MODULE OnceMarker ----------------------------
(***************************************************************************)
(* What markOnce(key, ttl) promises its callers, whatever the number of    *)
(* instances: a key is granted to one caller, and until Ttl has passed     *)
(* since that grant every other caller is told that it is a replay.  A     *)
(* call may also fail, with its mark made or not.  A mark is not undone    *)
(* once it is on disk.                                                     *)
(***************************************************************************)
EXTENDS Integers

CONSTANTS
    Calls, Keys, Ttl, MaxTime,
    Unsynced   \* how long a mark may take to be on disk

VARIABLES
    now,      \* the time, in seconds
    expiry,   \* when the mark of each key lapses (0: never marked)
    wanted,   \* the key of each call
    verdict   \* what each call has been told

Verdicts == {"none", "pending", "fresh", "replay", "failed"}

Marked(k) == now < expiry[k]

Init ==
    /\ now = 0
    /\ expiry = [k \in Keys |-> 0]
    /\ wanted \in [Calls -> Keys]
    /\ verdict = [c \in Calls |-> "none"]

Ask(c, k) ==
    /\ verdict[c] = "none"
    /\ wanted' = [wanted EXCEPT ![c] = k]
    /\ \E v \in {"pending", "failed"} : verdict' = [verdict EXCEPT ![c] = v]
    /\ UNCHANGED <<now, expiry>>

\* the one step that marks; the caller may never learn of it
Grant(c) ==
    /\ verdict[c] = "pending"
    /\ ~Marked(wanted[c])
    /\ expiry' = [expiry EXCEPT ![wanted[c]] = now + Ttl]
    /\ \E v \in {"fresh", "failed"} : verdict' = [verdict EXCEPT ![c] = v]
    /\ UNCHANGED <<now, wanted>>

Refuse(c) ==
    /\ verdict[c] = "pending"
    /\ Marked(wanted[c])
    /\ verdict' = [verdict EXCEPT ![c] = "replay"]
    /\ UNCHANGED <<now, expiry, wanted>>

\* some pending calls fail together (one connection), unmarked
Fail(C) ==
    /\ \A c \in C : verdict[c] = "pending"
    /\ verdict' = [c \in Calls |-> IF c \in C THEN "failed" ELSE verdict[c]]
    /\ UNCHANGED <<now, expiry, wanted>>

\* marks are lost, each within Unsynced of its grant
Lose(K) ==
    /\ \A k \in K : now < expiry[k] - Ttl + Unsynced
    /\ expiry' = [k \in Keys |-> IF k \in K THEN 0 ELSE expiry[k]]
    /\ UNCHANGED <<now, wanted, verdict>>

\* some calls end, because they returned or their process died
Leave(C) ==
    /\ verdict' = [c \in Calls |-> IF c \in C THEN "none" ELSE verdict[c]]
    /\ UNCHANGED <<now, expiry, wanted>>

Tick ==
    /\ now < MaxTime
    /\ now' = now + 1
    /\ UNCHANGED <<expiry, wanted, verdict>>

Next ==
    \/ \E c \in Calls, k \in Keys : Ask(c, k)
    \/ \E c \in Calls : Grant(c) \/ Refuse(c)
    \/ \E C \in SUBSET Calls : Fail(C) \/ Leave(C)
    \/ \E K \in SUBSET Keys : Lose(K)
    \/ Tick

vars == <<now, expiry, wanted, verdict>>

Spec == Init /\ [][Next]_vars
=============================================================================
