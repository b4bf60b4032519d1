--------------------------- MODULE MCOrderService ---------------------------
(***************************************************************************)
(* Small instances of OrderService for TLC.                                *)
(***************************************************************************)
EXTENDS OrderService, TLC

CONSTANTS t1, t2, o1, o2, l1, l2, alice, bob, guest, root, chief

\* users of two tenants, one of none, an admin of none and one of t1
SomeTenants == (alice :> t1) @@ (bob :> t2) @@ (guest :> NoTenant)
               @@ (root :> NoTenant) @@ (chief :> t1)
SomeOwners  == (o1 :> t1) @@ (o2 :> t2) @@ (l1 :> t1) @@ (l2 :> t2)
=============================================================================
