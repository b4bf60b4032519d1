--------------------------- MODULE MCRefreshProxy ---------------------------
(***************************************************************************)
(* Small instances of RefreshProxy for TLC.                                *)
(***************************************************************************)
EXTENDS RefreshProxy, TLC

CONSTANTS i1, i2, c1, c2, t1, t2, t3

OneEach == (c1 :> i1) @@ (c2 :> i2)

\* tokens that no login produces are interchangeable, and so are the two
\* instances, each with its call
Same     == (c1 :> c1) @@ (c2 :> c2) @@ (i1 :> i1) @@ (i2 :> i2)
Swapped  == (c1 :> c2) @@ (c2 :> c1) @@ (i1 :> i2) @@ (i2 :> i1)
Symmetry == {p @@ q : p \in Permutations(Keys \ LoginTokens), q \in {Same, Swapped}}

\* Left out: the token that a finished call had, when a mark lapsed that is
\* over, when a token was issued that is too old by now, and of the exchanges
\* of a token those that are finished (a token cannot be marked more than
\* twice by MaxTime, so they never reach MaxExchanges before that)
Seen == <<up, client, at, now, mem, known, grant, login, redeemed,
          [t \in Keys  |-> exchanges[t] - handled[t]],
          [t \in Keys  |-> IF Live(redis, t) THEN redis[t] ELSE 0],
          [t \in Keys  |-> IF Issued(t) /\ ~Valid(t) THEN -2 ELSE issued[t]],
          [c \in Calls |-> IF at[c] = "idle" THEN NoToken ELSE key[c]]>>
=============================================================================
