--------------------------- MODULE VaultBootstrap ---------------------------
(***************************************************************************)
(* core/vault/init-dev.ps1, the script that sets up Vault: it initialises  *)
(* the server, saves the unseal key, unseals, mounts the KV engine, writes *)
(* the lab secrets and the policy, and hands the services a token through  *)
(* core/.env.  It may be stopped between any two calls and run again;      *)
(* Vault comes back sealed whenever its container restarts.                *)
(***************************************************************************)
EXTENDS Integers

CONSTANTS
    Paths,        \* the KV entries that the script writes
    MaxVersion,   \* bound on the values of an entry
    MaxTokens,    \* bound on the tokens that Vault issues
    MaxFaults     \* bound on stops, seals, wipes, expiries and crashes together

ASSUME BootstrapAssumption ==
    MaxVersion \in Nat \ {0} /\ MaxTokens \in Nat /\ MaxFaults \in Nat

VARIABLES
    vault,     \* "new", "sealed" or "open"
    saved,     \* does .vault-init.json hold the keys of this Vault?
    mounted,   \* is kv-v2 mounted at secret/?
    secret,    \* the value of each entry, None before the first write
    policy,    \* does the policy app-readonly exist?
    issued,    \* the application tokens issued so far are 1 .. issued,
    lapsed,    \* and those up to this one are not accepted any more
    envToken,  \* the one in core/.env
    pc,        \* where the script is
    todo,      \* the entries it still has to write
    faults     \* stops, seals, wipes, expiries and crashes so far

tokens    == <<issued, lapsed>>
server    == <<vault, mounted, secret, policy, tokens>>
script    == <<pc, todo>>
vaultVars == <<server, saved, envToken, script, faults>>

\* Values of an entry: none yet, the one that the script writes, later ones
None     == 0
Lab      == 1
Versions == None .. MaxVersion

NoToken == 0
Tokens  == NoToken .. MaxTokens

\* Vault accepts the token
Accepted(t) == lapsed < t /\ t <= issued

Steps == {"idle", "checking", "saving", "unsealing", "mounting", "writing",
          "granting", "issuing", "recording"}

VaultTypeOK ==
    /\ vault \in {"new", "sealed", "open"}
    /\ saved \in BOOLEAN /\ mounted \in BOOLEAN
    /\ policy \in BOOLEAN
    /\ issued \in Tokens /\ lapsed \in Tokens /\ envToken \in Tokens
    /\ secret \in [Paths -> Versions]
    /\ pc \in Steps
    /\ todo \subseteq Paths
    /\ faults \in 0 .. MaxFaults

VaultInit ==
    /\ vault = "new"
    /\ saved = FALSE /\ mounted = FALSE
    /\ policy = FALSE
    /\ issued = 0 /\ lapsed = 0 /\ envToken = NoToken
    /\ secret = [p \in Paths |-> None]
    /\ pc = "idle" /\ todo = {}
    /\ faults = 0

Fault == faults < MaxFaults /\ faults' = faults + 1

\* Vault is initialised and nobody has its keys
KeysLost == vault # "new" /\ ~saved /\ pc # "saving"

\* A service with the last token can read every entry
SetUp ==
    /\ vault = "open" /\ mounted /\ policy /\ Accepted(issued)
    /\ \A p \in Paths : secret[p] # None

-----------------------------------------------------------------------------
\* An operator runs the script, which waits until Vault answers
Run ==
    /\ pc = "idle"
    /\ pc' = "checking" /\ todo' = Paths
    /\ UNCHANGED <<server, saved, envToken, faults>>

\* (bug: the keys are kept in memory and used at once)
InitialiseUnsaved ==
    /\ pc = "checking" /\ vault = "new"
    /\ vault' = "sealed" /\ saved' = FALSE
    /\ pc' = "unsealing"
    /\ UNCHANGED <<mounted, secret, policy, tokens, envToken, todo, faults>>

\* Vault is new: "vault operator init"
Initialise ==
    /\ pc = "checking" /\ vault = "new"
    /\ vault' = "sealed" /\ saved' = FALSE
    /\ pc' = "saving"
    /\ UNCHANGED <<mounted, secret, policy, tokens, envToken, todo, faults>>

\* the keys are written to .vault-init.json
SaveKeys ==
    /\ pc = "saving"
    /\ saved' = TRUE
    /\ pc' = "unsealing"
    /\ UNCHANGED <<server, envToken, todo, faults>>

\* Vault is initialised already: without its keys the script throws (or, with
\* a file that an earlier Vault left, unseals nothing and ends without a token)
FindKeys ==
    /\ pc = "checking" /\ vault # "new"
    /\ IF saved THEN pc' = "unsealing" /\ UNCHANGED todo
                ELSE pc' = "idle" /\ todo' = {}
    /\ UNCHANGED <<server, saved, envToken, faults>>

Unseal ==
    /\ pc = "unsealing"
    /\ vault' = "open"
    /\ pc' = "mounting"
    /\ UNCHANGED <<mounted, secret, policy, tokens, saved, envToken, todo, faults>>

\* (bug: a mount that exists already is an error that ends the script)
MountOnce ==
    /\ pc = "mounting"
    /\ mounted' = (mounted \/ vault = "open")
    /\ IF mounted THEN pc' = "idle" /\ todo' = {} ELSE pc' = "writing" /\ UNCHANGED todo
    /\ UNCHANGED <<vault, secret, policy, tokens, saved, envToken, faults>>

\* From here on a call that fails is reported and the script goes on: a
\* mount that exists already, or a Vault that has been sealed again
Mount ==
    /\ pc = "mounting"
    /\ mounted' = (mounted \/ vault = "open")
    /\ pc' = "writing"
    /\ UNCHANGED <<vault, secret, policy, tokens, saved, envToken, todo, faults>>

\* an entry is written, in the order of a hash table
Write(p) ==
    /\ pc = "writing" /\ p \in todo
    /\ todo' = todo \ {p}
    /\ secret' = IF vault = "open" /\ mounted THEN [secret EXCEPT ![p] = Lab] ELSE secret
    /\ UNCHANGED <<vault, mounted, policy, tokens, saved, envToken, pc, faults>>

Written ==
    /\ pc = "writing" /\ todo = {}
    /\ pc' = "granting"
    /\ UNCHANGED <<server, saved, envToken, todo, faults>>

Grant ==
    /\ pc = "granting"
    /\ policy' = (policy \/ vault = "open")
    /\ pc' = "issuing"
    /\ UNCHANGED <<vault, mounted, secret, tokens, saved, envToken, todo, faults>>

\* a token is created, and earlier ones stay valid; when that fails (and at
\* the bound) the script ends without one
Issue ==
    /\ pc = "issuing"
    /\ IF vault = "open" /\ issued < MaxTokens
       THEN pc' = "recording" /\ issued' = issued + 1
       ELSE pc' = "idle" /\ UNCHANGED issued
    /\ UNCHANGED <<vault, mounted, secret, policy, lapsed, saved, envToken, todo, faults>>

\* and replaces the one in core/.env, unless there is no such file, or no
\* line VAULT_APP_TOKEN= in it
Record ==
    /\ pc = "recording"
    /\ envToken' \in {issued, envToken}
    /\ pc' = "idle"
    /\ UNCHANGED <<server, saved, todo, faults>>

Step ==
    \/ Initialise \/ SaveKeys \/ FindKeys \/ Unseal \/ Mount
    \/ \E p \in Paths : Write(p)
    \/ Written \/ Grant \/ Issue \/ Record

\* The script is stopped, or one of its unguarded calls throws
StopScript ==
    /\ pc # "idle" /\ Fault
    /\ pc' = "idle" /\ todo' = {}
    /\ UNCHANGED <<server, saved, envToken>>

\* Vault's container restarts
Reseal ==
    /\ vault = "open" /\ Fault
    /\ vault' = "sealed"
    /\ UNCHANGED <<mounted, secret, policy, tokens, saved, envToken, script>>

\* The 768 hours of the oldest token are over
Expire ==
    /\ lapsed < issued /\ Fault
    /\ lapsed' = lapsed + 1
    /\ UNCHANGED <<vault, mounted, secret, policy, issued, saved, envToken, script>>

\* An operator removes the volume, as when it is corrupt or the keys do not
\* fit.  The keys file and core/.env stay as they are, and fit no longer.
Wipe ==
    /\ pc = "idle" /\ vault # "new" /\ Fault
    /\ vault' = "new" /\ mounted' = FALSE /\ policy' = FALSE
    /\ secret' = [p \in Paths |-> None]
    /\ lapsed' = issued /\ saved' = FALSE
    /\ UNCHANGED <<issued, envToken, script>>
=============================================================================
