------------------------------ MODULE Metrics ------------------------------
(***************************************************************************)
(* The counters of services/shared/metrics.js.  A counter that incMetric   *)
(* has not created yet is one that stands at 0.                            *)
(***************************************************************************)
EXTENDS Integers

Reasons  == {"MISSING_TOKEN", "INVALID", "EXPIRED", "INVALID_ISSUER", "INVALID_AUDIENCE"}
Counters == Reasons \cup {"auth_failures", "ssrf_blocked", "token_replay"}

NoCounts == [name \in Counters |-> 0]

Sum(count) == count["MISSING_TOKEN"] + count["INVALID"] + count["EXPIRED"]
              + count["INVALID_ISSUER"] + count["INVALID_AUDIENCE"]

\* (bug: the counters of the reasons are not told apart from the total's)
IncTotal(count, name) ==
    IF name \in Reasons THEN [count EXCEPT !["auth_failures"] = @ + 1]
                        ELSE [count EXCEPT ![name] = @ + 1]

\* the counter of a reason takes the total along
IncMetric(count, name) ==
    IF name \in Reasons THEN [count EXCEPT ![name] = @ + 1, !["auth_failures"] = @ + 1]
                        ELSE [count EXCEPT ![name] = @ + 1]
=============================================================================
