-------------------------- MODULE MCReplayMarker --------------------------
(***************************************************************************)
(* Small instances of ReplayMarker for TLC.                                *)
(***************************************************************************)
EXTENDS ReplayMarker, TLC

CONSTANTS i1, i2, c1, c2, c3, k1

\* two calls on the first instance, one on the second
TwoInstances == (c1 :> i1) @@ (c2 :> i1) @@ (c3 :> i2)
OneInstance  == (c1 :> i1) @@ (c2 :> i1)
=============================================================================
