------------------------ MODULE MCWebhookAuthorizer ------------------------
(***************************************************************************)
(* Small instances of WebhookAuthorizer for TLC.                           *)
(***************************************************************************)
EXTENDS WebhookAuthorizer, TLC

CONSTANTS i1, i2, c1, c2, n1

OneEach == (c1 :> i1) @@ (c2 :> i2)

\* partner clocks: behind, exact, ahead
SomeSkews == {-1, 0, 1}
Ahead     == {0, 1}

AllValid == [n \in Keys |-> "valid"]
=============================================================================
