------------------------------ MODULE Startup ------------------------------
(***************************************************************************)
(* How the services come up: validateSecurityConfig, the webhook secret of *)
(* authorizer and billing (loadWebhookSecret), the database credentials of *)
(* order-service (resolveDatabaseUrl), all through fetchVaultSecret, while *)
(* Vault is being set up, sealed and given new secrets, and services crash *)
(* and are started again.                                                  *)
(***************************************************************************)
EXTENDS VaultBootstrap

CONSTANTS
    Services,
    Configs    \* what a service can be configured to be, see Settings

\* A signer needs the webhook secret, order-service the database's; then the
\* variables that the startup code looks at: SHOPFLOW_ENV (in lower case, as
\* isProductionEnv reads it), VAULT_REQUIRED,
\* VAULT_DB_REQUIRED, one of the *_DISABLED flags, REDIS_URL, an HMAC_SECRET
\* other than the default, DATABASE_URL, DB_PASSWORD
Settings == [kind : {"signer", "orders"}, env : {"production", "prod", "lab"},
             vaultRequired : BOOLEAN, dbRequired : BOOLEAN, bypass : BOOLEAN,
             redisUrl : BOOLEAN, hmac : BOOLEAN, databaseUrl : BOOLEAN,
             dbPassword : BOOLEAN]

ASSUME StartupAssumption == Configs \subseteq Settings /\ Paths = {"hmac", "db"}

VARIABLES
    config,    \* the kind and the environment of each service
    phase,     \* where each service is
    token,     \* the token its container has been created with
    user,      \* the database user it has
    held,      \* the webhook secret or database password it has
    seen,      \* the values its entry has had since it was started
    database   \* the credentials that PostgreSQL accepts

serviceVars == <<config, phase, token, user, held, seen>>
vars        == <<vaultVars, serviceVars, database>>

\* A value from the environment, which the lab keeps equal to Vault's first
FromEnv == -1
Values  == Versions \cup {FromEnv}
Value(v) == IF v = FromEnv THEN Lab ELSE v

Busy   == {"reading", "rereading", "probing"}
Phases == Busy \cup {"down", "listening"}

TypeOK ==
    /\ VaultTypeOK
    /\ config \in [Services -> Configs]
    /\ phase \in [Services -> Phases]
    /\ token \in [Services -> Tokens]
    /\ user \in [Services -> Values]
    /\ held \in [Services -> Values]
    /\ seen \in [Services -> SUBSET Versions]
    /\ database \in Versions

Init ==
    /\ VaultInit
    /\ config \in [Services -> Configs]
    /\ phase = [s \in Services |-> "down"]
    /\ token = [s \in Services |-> NoToken]
    /\ user = [s \in Services |-> None]
    /\ held = [s \in Services |-> None]
    /\ seen = [s \in Services |-> {}]
    /\ database = Lab

Production(s) == config[s].env \in {"production", "prod"}

\* May the service do without Vault?
Required(s) ==
    \/ Production(s)
    \/ config[s].kind = "signer" /\ config[s].vaultRequired
    \/ config[s].kind = "orders" /\ config[s].dbRequired

\* validateSecurityConfig finds nothing wrong
Valid(s, t) ==
    Production(s) => /\ ~config[s].bypass /\ config[s].vaultRequired
                     /\ config[s].redisUrl /\ config[s].hmac /\ t # NoToken

Entry(s) == IF config[s].kind = "signer" THEN "hmac" ELSE "db"

\* fetchVaultSecret gets a value
Readable(s) ==
    /\ Accepted(token[s]) /\ vault = "open" /\ policy
    /\ secret[Entry(s)] # None

\* (bug: DATABASE_URL is looked at before anything else)
ExplicitFirst(s) == config[s].kind = "orders" /\ config[s].databaseUrl

\* resolveDatabaseUrl takes DATABASE_URL as it is
Explicit(s) == config[s].kind = "orders" /\ config[s].databaseUrl /\ ~Required(s)

\* the user keeps its name, so only the password can be out of date
DatabaseAccepts(s) == Value(held[s]) = database

\* Every service's entry has the values it has now; writes are added to seen
Remember(value) ==
    seen' = [s \in Services |-> IF phase[s] = "down" THEN {}
                                ELSE seen[s] \cup {value[Entry(s)]}]

-----------------------------------------------------------------------------
\* A process starts: its configuration is checked, and its first read begins
Start(s, t) ==
    /\ token' = [token EXCEPT ![s] = t]
    /\ phase' = [phase EXCEPT ![s] = IF ~Valid(s, t) THEN "down"
                                     ELSE IF Explicit(s) THEN "probing"
                                     ELSE "reading"]
    /\ user' = [user EXCEPT ![s] = IF Explicit(s) THEN FromEnv ELSE None]
    /\ held' = [held EXCEPT ![s] = IF Explicit(s) THEN FromEnv ELSE None]
    /\ seen' = [seen EXCEPT ![s] = IF Valid(s, t) THEN {secret[Entry(s)]} ELSE {}]
    /\ UNCHANGED <<vaultVars, config, database>>

\* "docker restart", or the orchestrator's: the environment is the old one
Restart(s) == phase[s] = "down" /\ Start(s, token[s])

\* "docker compose up -d": a container whose environment has changed is
\* created again, one that is down is started
Recreate(s) == (phase[s] = "down" \/ token[s] # envToken) /\ Start(s, envToken)

\* process.exit(1)
Exit(s) ==
    /\ phase' = [phase EXCEPT ![s] = "down"]
    /\ user' = [user EXCEPT ![s] = None]
    /\ held' = [held EXCEPT ![s] = None]
    /\ seen' = [seen EXCEPT ![s] = {}]

\* (bug: a read that fails leaves no value, and no fallback replaces it)
Unset == -2
GotOrUnset(s) == IF Readable(s) THEN secret[Entry(s)] ELSE Unset

\* what fetchVaultSecret returned, or else the environment's value
Got(s) == IF Readable(s) THEN secret[Entry(s)] ELSE FromEnv

\* The first fetchVaultSecret returns: the webhook secret, or the user name
Read(s) ==
    /\ phase[s] = "reading"
    /\ \/ /\ Required(s) /\ ~Readable(s)
          /\ Exit(s)
       \/ /\ Readable(s) \/ ~Required(s)
          /\ IF config[s].kind = "signer"
             THEN /\ phase' = [phase EXCEPT ![s] = "listening"]
                  /\ held' = [held EXCEPT ![s] = Got(s)]
                  /\ UNCHANGED user
             ELSE /\ phase' = [phase EXCEPT ![s] = "rereading"]
                  /\ user' = [user EXCEPT ![s] = Got(s)]
                  /\ UNCHANGED held
          /\ UNCHANGED seen
    /\ UNCHANGED <<vaultVars, config, token, database>>

\* The second one returns the password; the pool is made with the pair
Reread(s) ==
    /\ phase[s] = "rereading"
    /\ \/ /\ ~Readable(s)
          /\ Required(s) \/ ~config[s].dbPassword
          /\ Exit(s)
       \/ /\ Readable(s) \/ (~Required(s) /\ config[s].dbPassword)
          /\ phase' = [phase EXCEPT ![s] = "probing"]
          /\ held' = [held EXCEPT ![s] = Got(s)]
          /\ UNCHANGED <<user, seen>>
    /\ UNCHANGED <<vaultVars, config, token, database>>

\* SELECT 1 succeeds, at some attempt, and the server listens
Probe(s) ==
    /\ phase[s] = "probing" /\ DatabaseAccepts(s)
    /\ phase' = [phase EXCEPT ![s] = "listening"]
    /\ UNCHANGED <<vaultVars, config, token, user, held, seen, database>>

\* (bug: the attempts are not limited)
TryAgain(s) == phase[s] = "probing" /\ ~DatabaseAccepts(s) /\ UNCHANGED vars

\* the last attempt fails
GiveUp(s) ==
    /\ phase[s] = "probing" /\ ~DatabaseAccepts(s)
    /\ Exit(s)
    /\ UNCHANGED <<vaultVars, config, token, database>>

Crash(s) ==
    /\ phase[s] = "listening" /\ Fault
    /\ Exit(s)
    /\ UNCHANGED <<server, saved, envToken, script, config, token, database>>

\* An operator gives an entry a new value; for the database's that is what
\* PostgreSQL was changed to before
NewHmac ==
    /\ vault = "open" /\ mounted
    /\ secret["hmac"] \in 1 .. (MaxVersion - 1)
    /\ secret' = [secret EXCEPT !["hmac"] = @ + 1]
    /\ UNCHANGED <<vault, mounted, policy, tokens, saved, envToken, script, faults, database>>

AlterUser ==
    /\ database < MaxVersion
    /\ database' = database + 1
    /\ UNCHANGED vaultVars

StorePassword ==
    /\ vault = "open" /\ mounted
    /\ secret' = [secret EXCEPT !["db"] = database]
    /\ UNCHANGED <<vault, mounted, policy, tokens, saved, envToken, script, faults, database>>

\* What happens to Vault, with its consequence for the history variable
VaultStep ==
    /\ \/ (Run \/ Step \/ StopScript \/ Reseal \/ Expire \/ Wipe) /\ UNCHANGED database
       \/ NewHmac \/ AlterUser \/ StorePassword
    /\ Remember(secret')
    /\ UNCHANGED <<config, phase, token, user, held>>

Next ==
    \/ VaultStep
    \/ \E s \in Services : \/ Restart(s) \/ Recreate(s) \/ Read(s) \/ Reread(s)
                           \/ Probe(s) \/ GiveUp(s) \/ Crash(s)

Spec == Init /\ [][Next]_vars

\* A script that was started and the event loops run; reads and queries
\* return.  Nothing is started again by itself.
Fairness ==
    /\ WF_vars(Step /\ VaultStep)
    /\ \A s \in Services : WF_vars(Read(s) \/ Reread(s) \/ Probe(s) \/ GiveUp(s))

FairSpec == Spec /\ Fairness

-----------------------------------------------------------------------------
(***************************************************************************)
(* Properties                                                              *)
(***************************************************************************)
\* A service that must use Vault serves with values that Vault had since the
\* service was started: never a fallback, never what a process before it had
\* read (vault-secrets.js:3-25, webhook-verify.js:8-22, db-credentials.js:25-49).
RequiredFromVault ==
    \A s \in Services : phase[s] = "listening" /\ Required(s) =>
        /\ held[s] \in seen[s] \ {None}
        /\ config[s].kind = "orders" => user[s] \in seen[s]

\* The keys come before everything else: a Vault whose keys were not saved
\* has never been unsealed and holds nothing, and no token in use is its own.
\* So wherever the script is stopped, and although an operator may remove the
\* volume at any time and leave the old keys and tokens behind, what Vault
\* holds can be unsealed again (init-dev.ps1:42-68).
KeysBeforeSecrets ==
    ~saved => /\ vault # "open" /\ ~mounted /\ ~policy
              /\ \A p \in Paths : secret[p] = None
              /\ ~Accepted(envToken) /\ \A s \in Services : ~Accepted(token[s])

\* No start hangs: the service listens or exits (order-service/server.js:188-206,
\* webhook-authorizer/server.js:80-90, billing-service/server.js:123-130).
StartsEnd == \A s \in Services : phase[s] \in Busy ~> phase[s] \notin Busy

\* The script can be run again: wherever earlier runs of it were stopped, and
\* whatever else happened before, a run that finds the keys, or a new Vault,
\* sets up everything, skipping what is there, when nothing more goes wrong
\* (init-dev.ps1:42-134).  The bound must leave it a token to issue.
RerunCompletes ==
    (pc = "checking" /\ ~KeysLost /\ issued < MaxTokens /\ faults = MaxFaults) ~> SetUp
=============================================================================
