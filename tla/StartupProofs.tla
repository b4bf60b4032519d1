--------------------------- MODULE StartupProofs ---------------------------
(***************************************************************************)
(* Theorems about Startup, for every set of services, every configuration  *)
(* of each, and every number of faults and of secrets written.             *)
(***************************************************************************)
EXTENDS Startup, TLAPS

USE BootstrapAssumption, StartupAssumption

\* A service that has not ended has been told of the current value
SeesCurrent == \A s \in Services : phase[s] # "down" => secret[Entry(s)] \in seen[s]

(***************************************************************************)
(* Where a service that must use Vault is, and what it has by then: a      *)
(* signer its secret once it listens, an order service first the user name *)
(* and then the password.  No value is taken from the environment.         *)
(***************************************************************************)
HasUser(s) == config[s].kind = "orders" /\ phase[s] \in {"rereading", "probing", "listening"}
HasHeld(s) == \/ config[s].kind = "orders" /\ phase[s] \in {"probing", "listening"}
              \/ config[s].kind = "signer" /\ phase[s] = "listening"

TakenFromVault ==
    \A s \in Services : Required(s) =>
        /\ HasUser(s) => user[s] \in seen[s] \ {None}
        /\ HasHeld(s) => held[s] \in seen[s] \ {None}

SignersReadOnce ==
    \A s \in Services : config[s].kind = "signer" => phase[s] \notin {"rereading", "probing"}

Inv == TypeOK /\ SeesCurrent /\ TakenFromVault /\ SignersReadOnce

-----------------------------------------------------------------------------
LEMMA EntryType == TypeOK => \A s \in Services : /\ Entry(s) \in Paths
                                                 /\ config[s] \in Settings
                                                 /\ config[s].kind \in {"signer", "orders"}
  BY DEF TypeOK, Entry, Settings

LEMMA LabType == Lab \in Versions /\ None \in Versions /\ FromEnv \in Values
                 /\ Versions \subseteq Values
  BY DEF Lab, None, FromEnv, Versions, Values

LEMMA InvInit == Init => Inv
  <1> SUFFICES ASSUME Init PROVE Inv
    OBVIOUS
  <1>1. TypeOK
    <2>1. VaultTypeOK
      <3>1. /\ faults \in 0 .. MaxFaults /\ secret \in [Paths -> Versions]
            /\ issued \in Tokens /\ lapsed \in Tokens /\ envToken \in Tokens
        BY LabType DEF Init, VaultInit, Tokens, NoToken
      <3> QED
        BY <3>1, Zenon DEF Init, VaultInit, VaultTypeOK, Steps
    <2> QED
      BY <2>1, LabType DEF Init, TypeOK, Phases, Busy, Tokens, NoToken
  <1>2. \A s \in Services : phase[s] = "down"
    BY DEF Init
  <1> QED
    BY <1>1, <1>2 DEF Inv, SeesCurrent, TakenFromVault, HasUser, HasHeld, SignersReadOnce

\* the steps of the script and of Vault keep their types
LEMMA BootstrapTypes ==
  ASSUME VaultTypeOK, Run \/ Step \/ StopScript \/ Reseal \/ Expire \/ Wipe
  PROVE  VaultTypeOK'
  <1>i. /\ issued \in Tokens /\ lapsed \in Tokens
        /\ issued < MaxTokens => issued + 1 \in Tokens
        /\ lapsed < issued => lapsed + 1 \in Tokens
    BY DEF VaultTypeOK, Tokens, NoToken
  <1> USE LabType DEF VaultTypeOK, Steps, tokens
  <1>1. CASE Run
    BY <1>1 DEF Run, server
  <1>2. CASE Step
    <2>1. CASE Initialise \/ SaveKeys \/ FindKeys \/ Unseal \/ Mount
      BY <2>1 DEF Initialise, SaveKeys, FindKeys, Unseal, Mount, server
    <2>2. ASSUME NEW p \in Paths, Write(p) PROVE VaultTypeOK'
      BY <2>2 DEF Write
    <2>3. CASE Written \/ Grant \/ Record
      BY <2>3 DEF Written, Grant, Record, server
    <2>4. CASE Issue
      BY <2>4, <1>i DEF Issue
    <2> QED
      BY <1>2, <2>1, <2>2, <2>3, <2>4 DEF Step
  <1>3. CASE StopScript
    BY <1>3 DEF StopScript, Fault, server
  <1>4. CASE Reseal
    BY <1>4 DEF Reseal, Fault, script
  <1>5. CASE Wipe
    <2>1. /\ vault' = "new" /\ mounted' = FALSE /\ policy' = FALSE /\ saved' = FALSE
          /\ secret' \in [Paths -> Versions] /\ lapsed' = issued /\ faults' = faults + 1
          /\ faults < MaxFaults /\ UNCHANGED <<issued, envToken, pc, todo>>
      BY <1>5 DEF Wipe, Fault, script
    <2>2. faults' \in 0 .. MaxFaults
      BY <2>1
    <2> QED
      BY <2>1, <2>2, <1>i
  <1>6. CASE Expire
    BY <1>6, <1>i DEF Expire, Fault, script
  <1> QED
    BY <1>1, <1>2, <1>3, <1>4, <1>5, <1>6

\* A step of Vault: what services have stays as it is, what they have seen grows
LEMMA VaultStepInv ==
  ASSUME Inv, VaultStep PROVE Inv'
  <1>t. TypeOK
    BY DEF Inv
  <1>1. VaultTypeOK' /\ database' \in Versions
    <2>1. CASE (Run \/ Step \/ StopScript \/ Reseal \/ Expire \/ Wipe) /\ UNCHANGED database
      BY <2>1, <1>t, BootstrapTypes DEF TypeOK
    <2>2. CASE NewHmac
      BY <2>2, <1>t DEF NewHmac, script, tokens, TypeOK, VaultTypeOK, Versions, None
    <2>3. CASE AlterUser
      BY <2>3, <1>t DEF AlterUser, vaultVars, server, tokens, script, TypeOK, VaultTypeOK, Versions, None
    <2>4. CASE StorePassword
      BY <2>4, <1>t DEF StorePassword, script, tokens, TypeOK, VaultTypeOK
    <2> QED
      BY <2>1, <2>2, <2>3, <2>4 DEF VaultStep
  <1>2. /\ UNCHANGED <<config, phase, token, user, held>>
        /\ \A s \in Services :
             seen'[s] = IF phase[s] = "down" THEN {} ELSE seen[s] \cup {secret'[Entry(s)]}
        /\ seen' \in [Services -> SUBSET Versions]
    BY <1>1, <1>t, EntryType DEF VaultStep, Remember, VaultTypeOK, TypeOK
  <1>3. TypeOK'
    BY <1>1, <1>2, <1>t DEF TypeOK
  <1>4. SeesCurrent'
    BY <1>2 DEF SeesCurrent, Entry
  <1>5. TakenFromVault'
    BY <1>2 DEF Inv, TakenFromVault, HasUser, HasHeld, Required, Production
  <1>6. SignersReadOnce'
    BY <1>2 DEF Inv, SignersReadOnce
  <1> QED
    BY <1>3, <1>4, <1>5, <1>6 DEF Inv

\* A step of service s: the others are as they were
LEMMA OneService ==
  ASSUME Inv, NEW s \in Services, TypeOK', UNCHANGED <<secret, config>>,
         \A r \in Services \ {s} : /\ phase'[r] = phase[r] /\ user'[r] = user[r]
                                   /\ held'[r] = held[r] /\ seen'[r] = seen[r],
         phase'[s] # "down" => secret[Entry(s)] \in seen'[s],
         Required(s) => /\ HasUser(s)' => user'[s] \in seen'[s] \ {None}
                        /\ HasHeld(s)' => held'[s] \in seen'[s] \ {None},
         config[s].kind = "signer" => phase'[s] \notin {"rereading", "probing"}
  PROVE  Inv'
  <1>1. SeesCurrent'
    BY DEF Inv, SeesCurrent, Entry
  <1>2. TakenFromVault'
    BY DEF Inv, TakenFromVault, HasUser, HasHeld, Required, Production
  <1>3. SignersReadOnce'
    BY DEF Inv, SignersReadOnce
  <1> QED
    BY <1>1, <1>2, <1>3 DEF Inv

LEMMA InvStep == Inv /\ [Next]_vars => Inv'
  <1> SUFFICES ASSUME Inv, [Next]_vars PROVE Inv'
    OBVIOUS
  <1>t. /\ TypeOK
        /\ \A s \in Services : /\ Entry(s) \in Paths /\ secret[Entry(s)] \in Versions
                               /\ config[s].kind \in {"signer", "orders"}
    BY EntryType DEF Inv, TypeOK, VaultTypeOK
  <1>1. CASE VaultStep
    BY <1>1, VaultStepInv
  <1>2. ASSUME NEW s \in Services, NEW t \in Tokens, Start(s, t) PROVE Inv'
    <2>1. TypeOK'
      BY <1>2, <1>t, LabType DEF Start, TypeOK, VaultTypeOK, vaultVars, server, tokens, script, Phases, Busy
    <2>2. /\ phase'[s] \in {"down", "probing", "reading"}
          /\ phase'[s] = "probing" => Explicit(s)
          /\ phase'[s] # "down" => secret[Entry(s)] \in seen'[s]
          /\ UNCHANGED <<secret, config>>
          /\ \A r \in Services \ {s} : /\ phase'[r] = phase[r] /\ user'[r] = user[r]
                                       /\ held'[r] = held[r] /\ seen'[r] = seen[r]
      BY <1>2, <1>t DEF Start, TypeOK, vaultVars, server, tokens
    <2>3. Explicit(s) => config[s].kind = "orders" /\ ~Required(s)
      BY DEF Explicit
    <2> QED
      BY <2>1, <2>2, <2>3, OneService DEF HasUser, HasHeld
  <1>3. ASSUME NEW s \in Services, Exit(s), UNCHANGED <<server, script, saved, envToken, config, token, database>>,
               faults' \in 0 .. MaxFaults
        PROVE  Inv'
    <2>1. TypeOK'
      BY <1>3, <1>t, LabType DEF Exit, TypeOK, VaultTypeOK, server, tokens, script, Phases, Busy
    <2>2. /\ phase'[s] = "down" /\ UNCHANGED <<secret, config>>
          /\ \A r \in Services \ {s} : /\ phase'[r] = phase[r] /\ user'[r] = user[r]
                                       /\ held'[r] = held[r] /\ seen'[r] = seen[r]
      BY <1>3, <1>t DEF Exit, TypeOK, server
    <2> QED
      BY <2>1, <2>2, OneService DEF HasUser, HasHeld
  <1>g. ASSUME NEW s \in Services, Readable(s) \/ ~Required(s), phase[s] # "down"
        PROVE  Got(s) \in Values /\ (Required(s) => Got(s) \in seen[s] \ {None})
    BY <1>g, <1>t, LabType DEF Got, Readable, Inv, SeesCurrent
  <1>4. ASSUME NEW s \in Services, Read(s) PROVE Inv'
    <2>1. CASE Exit(s)
      BY <1>3, <1>4, <2>1, <1>t DEF Read, vaultVars, server, tokens, script, TypeOK, VaultTypeOK
    <2>2. CASE ~Exit(s) /\ config[s].kind = "signer"
      <3>1. /\ phase[s] = "reading" /\ (Readable(s) \/ ~Required(s))
            /\ phase' = [phase EXCEPT ![s] = "listening"]
            /\ held' = [held EXCEPT ![s] = Got(s)]
            /\ UNCHANGED <<vaultVars, config, token, user, seen, database>>
        BY <1>4, <2>2 DEF Read
      <3>g. Got(s) \in Values /\ (Required(s) => Got(s) \in seen[s] \ {None})
        BY <3>1, <1>g
      <3>2. TypeOK'
        BY <3>1, <3>g, <1>t DEF TypeOK, VaultTypeOK, vaultVars, server, tokens, script, Phases
      <3>3. /\ phase'[s] = "listening" /\ held'[s] = Got(s) /\ UNCHANGED <<secret, config, seen, user>>
            /\ \A r \in Services \ {s} : phase'[r] = phase[r] /\ held'[r] = held[r]
        BY <3>1, <1>t DEF TypeOK, vaultVars, server, tokens
      <3> QED
        BY <2>2, <3>1, <3>2, <3>3, <3>g, OneService DEF HasUser, HasHeld, Inv, SeesCurrent
    <2>3. CASE ~Exit(s) /\ config[s].kind # "signer"
      <3>1. /\ phase[s] = "reading" /\ (Readable(s) \/ ~Required(s))
            /\ phase' = [phase EXCEPT ![s] = "rereading"]
            /\ user' = [user EXCEPT ![s] = Got(s)]
            /\ UNCHANGED <<vaultVars, config, token, held, seen, database>>
        BY <1>4, <2>3 DEF Read
      <3>g. Got(s) \in Values /\ (Required(s) => Got(s) \in seen[s] \ {None})
        BY <3>1, <1>g
      <3>2. TypeOK'
        BY <3>1, <3>g, <1>t DEF TypeOK, VaultTypeOK, vaultVars, server, tokens, script, Phases, Busy
      <3>3. /\ phase'[s] = "rereading" /\ user'[s] = Got(s) /\ UNCHANGED <<secret, config, seen, held>>
            /\ \A r \in Services \ {s} : phase'[r] = phase[r] /\ user'[r] = user[r]
        BY <3>1, <1>t DEF TypeOK, vaultVars, server, tokens
      <3> QED
        BY <2>3, <3>1, <3>2, <3>3, <3>g, OneService DEF HasUser, HasHeld, Inv, SeesCurrent
    <2> QED
      BY <2>1, <2>2, <2>3
  <1>5. ASSUME NEW s \in Services, Reread(s) PROVE Inv'
    <2>1. CASE Exit(s)
      BY <1>3, <1>5, <2>1, <1>t DEF Reread, vaultVars, server, tokens, script, TypeOK, VaultTypeOK
    <2>2. CASE ~Exit(s)
      <3>1. /\ phase[s] = "rereading" /\ (Readable(s) \/ ~Required(s))
            /\ phase' = [phase EXCEPT ![s] = "probing"]
            /\ held' = [held EXCEPT ![s] = Got(s)]
            /\ UNCHANGED <<vaultVars, config, token, user, seen, database>>
        BY <1>5, <2>2 DEF Reread
      <3>g. Got(s) \in Values /\ (Required(s) => Got(s) \in seen[s] \ {None})
        BY <3>1, <1>g
      <3>2. TypeOK'
        BY <3>1, <3>g, <1>t DEF TypeOK, VaultTypeOK, vaultVars, server, tokens, script, Phases, Busy
      <3>3. /\ phase'[s] = "probing" /\ held'[s] = Got(s) /\ UNCHANGED <<secret, config, seen, user>>
            /\ \A r \in Services \ {s} : phase'[r] = phase[r] /\ held'[r] = held[r]
        BY <3>1, <1>t DEF TypeOK, vaultVars, server, tokens
      <3>4. config[s].kind # "signer" /\ (Required(s) => user[s] \in seen[s] \ {None})
        <4>1. config[s].kind # "signer"
          BY <3>1 DEF Inv, SignersReadOnce
        <4>2. HasUser(s)
          BY <3>1, <4>1, <1>t DEF HasUser
        <4> QED
          BY <4>1, <4>2 DEF Inv, TakenFromVault
      <3> QED
        BY <3>1, <3>2, <3>3, <3>4, <3>g, OneService DEF HasUser, HasHeld, Inv, SeesCurrent
    <2> QED
      BY <2>1, <2>2
  <1>6. ASSUME NEW s \in Services, Probe(s) PROVE Inv'
    <2>1. /\ phase[s] = "probing" /\ DatabaseAccepts(s)
          /\ phase' = [phase EXCEPT ![s] = "listening"]
          /\ UNCHANGED <<vaultVars, config, token, user, held, seen, database>>
      BY <1>6 DEF Probe
    <2>2. TypeOK'
      BY <2>1, <1>t DEF TypeOK, VaultTypeOK, vaultVars, server, tokens, script, Phases
    <2>3. /\ phase'[s] = "listening" /\ UNCHANGED <<secret, config, seen, user, held>>
          /\ \A r \in Services \ {s} : phase'[r] = phase[r]
      BY <2>1, <1>t DEF TypeOK, vaultVars, server, tokens
    <2>4. /\ config[s].kind = "orders"
          /\ Required(s) => user[s] \in seen[s] \ {None} /\ held[s] \in seen[s] \ {None}
      BY <2>1, <1>t DEF Inv, SignersReadOnce, TakenFromVault, HasUser, HasHeld
    <2> QED
      BY <2>1, <2>2, <2>3, <2>4, OneService DEF HasUser, HasHeld, Inv, SeesCurrent
  <1>7. ASSUME NEW s \in Services, GiveUp(s) \/ Crash(s) PROVE Inv'
    BY <1>3, <1>7, <1>t DEF GiveUp, Crash, Fault, vaultVars, server, tokens, script, TypeOK, VaultTypeOK
  <1>8. CASE UNCHANGED vars
    BY <1>8 DEF vars, vaultVars, server, tokens, script, serviceVars, Inv, TypeOK, VaultTypeOK, SeesCurrent,
         TakenFromVault, HasUser, HasHeld, SignersReadOnce, Required, Production, Entry
  <1>9. ASSUME NEW s \in Services, Restart(s) \/ Recreate(s) PROVE Inv'
    BY <1>2, <1>9, <1>t DEF Restart, Recreate, TypeOK, VaultTypeOK
  <1> QED
    BY <1>1, <1>4, <1>5, <1>6, <1>7, <1>8, <1>9 DEF Next

-----------------------------------------------------------------------------
LEMMA InvAlways == Spec => []Inv
  <1> QED
    BY InvInit, InvStep, PTL DEF Spec

\* The types hold.
THEOREM TypeCorrect == Spec => []TypeOK
  <1>1. Inv => TypeOK
    BY DEF Inv
  <1> QED
    BY <1>1, InvAlways, PTL

\* A service that must use Vault never serves with a value from anywhere else,
\* nor with one from before it was started (vault-secrets.js:3-25).
THEOREM VaultIsCompulsory == Spec => []RequiredFromVault
  <1>1. Inv => RequiredFromVault
    BY EntryType DEF Inv, RequiredFromVault, TakenFromVault, HasUser, HasHeld
  <1> QED
    BY <1>1, InvAlways, PTL
-----------------------------------------------------------------------------
(***************************************************************************)
(* The keys come first.  As long as they are not saved the script has not  *)
(* got beyond saving them, nothing is in Vault and it has issued no token  *)
(* that is still accepted; once they are, Vault is not new.                *)
(***************************************************************************)
NothingYet ==
    /\ ~mounted /\ ~policy /\ lapsed = issued
    /\ \A p \in Paths : secret[p] = None

KeysFirst ==
    /\ ~saved => vault # "open" /\ pc \in {"idle", "checking", "saving"} /\ NothingYet
    /\ saved => vault # "new" /\ pc # "saving"
    /\ pc = "saving" => vault # "new"

LEMMA KeysFirstInit == Init => KeysFirst
  BY DEF Init, VaultInit, KeysFirst, NothingYet

\* a step of the script or of Vault
LEMMA KeysFirstVault ==
  ASSUME TypeOK, KeysFirst, VaultStep PROVE KeysFirst'
  <1> USE DEF KeysFirst, NothingYet, tokens
  <1>t. VaultTypeOK
    BY DEF TypeOK
  <1>1. CASE Run \/ StopScript \/ Reseal
    BY <1>1, <1>t DEF Run, StopScript, Reseal, server, script
  <1>2. CASE Initialise
    BY <1>2, <1>t DEF Initialise
  <1>3. CASE SaveKeys
    BY <1>3, <1>t DEF SaveKeys, server
  <1>4. CASE FindKeys
    BY <1>4, <1>t DEF FindKeys, server
  <1>5. CASE Unseal \/ Mount \/ (\E p \in Paths : Write(p)) \/ Written
    BY <1>5, <1>t DEF Unseal, Mount, Write, Written, server
  <1>6. CASE Grant \/ Issue \/ Record
    BY <1>6, <1>t DEF Grant, Issue, Record, server
  <1>7. CASE NewHmac \/ StorePassword
    BY <1>7, <1>t DEF NewHmac, StorePassword, script
  <1>8. CASE AlterUser
    BY <1>8, <1>t DEF AlterUser, vaultVars, server, script
  <1>9. CASE Expire
    BY <1>9, <1>t DEF Expire, script, VaultTypeOK, Tokens, NoToken
  <1>10. CASE Wipe
    BY <1>10, <1>t DEF Wipe, script
  <1> QED
    BY <1>1, <1>2, <1>3, <1>4, <1>5, <1>6, <1>7, <1>8, <1>9, <1>10
    DEF VaultStep, Step

LEMMA KeysFirstStep ==
  ASSUME TypeOK, KeysFirst, [Next]_vars PROVE KeysFirst'
  <1>1. CASE VaultStep
    BY <1>1, KeysFirstVault
  <1>2. ASSUME UNCHANGED <<server, script, saved>> PROVE KeysFirst'
    BY <1>2 DEF KeysFirst, NothingYet, server, tokens, script
  <1>3. ASSUME NEW s \in Services, Restart(s) \/ Recreate(s) PROVE KeysFirst'
    BY <1>2, <1>3 DEF Restart, Recreate, Start, vaultVars
  <1>4. ASSUME NEW s \in Services, Read(s) \/ Reread(s) \/ Probe(s) \/ GiveUp(s) \/ Crash(s)
        PROVE  KeysFirst'
    BY <1>2, <1>4 DEF Read, Reread, Probe, GiveUp, Crash, vaultVars
  <1>5. CASE UNCHANGED vars
    BY <1>2, <1>5 DEF vars, vaultVars
  <1> QED
    BY <1>1, <1>3, <1>4, <1>5 DEF Next

\* Wherever the script is stopped, and however often the volume is removed, a
\* Vault whose keys are not saved is empty and has given out no token, so
\* nothing in a Vault is ever lost with its keys (init-dev.ps1:42-68).
THEOREM NothingLostWithKeys == Spec => []KeysBeforeSecrets
  <1>1. TypeOK /\ KeysFirst /\ [Next]_vars => KeysFirst'
    BY KeysFirstStep
  <1>2. TypeOK /\ KeysFirst => KeysBeforeSecrets
    <2> SUFFICES ASSUME TypeOK, KeysFirst PROVE KeysBeforeSecrets
      OBVIOUS
    <2>1. /\ envToken \in Nat /\ issued \in Nat /\ lapsed \in Nat
          /\ \A s \in Services : token[s] \in Nat
      BY DEF TypeOK, VaultTypeOK, Tokens, NoToken
    <2> QED
      BY <2>1 DEF KeysFirst, NothingYet, KeysBeforeSecrets, Accepted
  <1> QED
    BY TypeCorrect, KeysFirstInit, <1>1, <1>2, PTL DEF Spec
=============================================================================
