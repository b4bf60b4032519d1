----------------------------- MODULE MCStartup -----------------------------
(***************************************************************************)
(* A small instance of Startup for TLC: the services do not interact, so   *)
(* one of them, in each of the configurations below, is enough.            *)
(***************************************************************************)
EXTENDS Startup, TLC

\* what production asks for, and the defaults of the lab
InProduction(k) ==
    [kind |-> k, env |-> "production", vaultRequired |-> TRUE, dbRequired |-> FALSE,
     bypass |-> FALSE, redisUrl |-> TRUE, hmac |-> TRUE,
     databaseUrl |-> TRUE, dbPassword |-> FALSE]
InLab(k) ==
    [kind |-> k, env |-> "lab", vaultRequired |-> FALSE, dbRequired |-> FALSE,
     bypass |-> TRUE, redisUrl |-> FALSE, hmac |-> FALSE,
     databaseUrl |-> FALSE, dbPassword |-> TRUE]

\* both, and what differs from them in one setting that matters
Tried ==
    {InProduction("signer"), InLab("signer"),
     [InLab("signer") EXCEPT !.vaultRequired = TRUE],
     [InProduction("signer") EXCEPT !.env = "prod", !.hmac = FALSE],
     InProduction("orders"), InLab("orders"),
     [InLab("orders") EXCEPT !.dbRequired = TRUE],
     [InLab("orders") EXCEPT !.databaseUrl = TRUE],
     [InLab("orders") EXCEPT !.dbPassword = FALSE],
     [InProduction("orders") EXCEPT !.bypass = TRUE]}
=============================================================================
