---------------------------- MODULE MCS2SClient ----------------------------
(***************************************************************************)
(* Small instances of S2SClient for TLC.                                   *)
(***************************************************************************)
EXTENDS S2SClient, TLC

Symmetry == Permutations(Calls)
=============================================================================
