------------------------- MODULE MCTenantRateLimit -------------------------
(***************************************************************************)
(* A small instance of TenantRateLimit for TLC.                            *)
(***************************************************************************)
EXTENDS TenantRateLimit, TLC

CONSTANTS i1, i2, c1, c2, t1

OneEach == (c1 :> i1) @@ (c2 :> i2)
=============================================================================
