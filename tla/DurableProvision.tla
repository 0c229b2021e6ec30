--------------------------- MODULE DurableProvision ---------------------------
(***************************************************************************)
(* The deployed, durable Vault: the container command provision/server.sh,  *)
(* the script provision/provision.sh (mode durable) it runs against the     *)
(* server it started, the probes of the StatefulSet, and the people who     *)
(* operate the volume and the access-token secret.                          *)
(*                                                                          *)
(* One pod runs at a time (replicas: 1).  Every vault CLI call is a step of *)
(* its own; between two calls the server may crash, the container may be    *)
(* killed, consumers may act and an operator may change the secret.  A call *)
(* may fail although the server would have granted it (timeout, lost        *)
(* connection); such failures and all crashes draw on one budget, MaxFaults.*)
(***************************************************************************)
EXTENDS VaultStore

CONSTANTS
    NoToken,     \* a VAULT_ACCESS_TOKEN that is unset or not a Vault token id
    MaxInits,    \* bound: generations of keys ever minted
    MaxFaults    \* bound: crashes, lost calls and expired waits

ASSUME TokensAssumption == NoToken \notin Tokens
ASSUME BoundsAssumption == /\ MaxInits \in Nat \ {0}
                           /\ MaxFaults \in Nat

VARIABLES
    store,       \* raft storage on the data volume (/vault/data/raft)
    record,      \* init.json: [gen, root]; gen 0: no file; root: holds the root token
    partial,     \* init.json.partial: [exists, gen]; gen 0: the file is empty
    minted,      \* number of generations minted so far
    server,      \* the vault server process: "down", "starting" or "up"
    sealed,      \* the server has not unsealed its storage
    pc,          \* the next step of the container's command; "down": no container
    target,      \* what provision_kv / provision_transit is working on
    token,       \* $token: VAULT_ACCESS_TOKEN as the container was started with it
    root,        \* $root: the generation of the recorded root token, 0 if none
    ready,       \* the pod's readiness condition
    secret,      \* the access-token Secret the next container start will read
    seal,        \* VAULT_SEAL_TYPE names an auto-unseal seal
    faults       \* faults so far

volumeVars == <<store, record, partial, minted>>
serverVars == <<server, sealed, ready>>
scriptVars == <<pc, target, token, root>>
configVars == <<secret, seal>>
vars == <<store, record, partial, minted, server, sealed, ready,
          pc, target, token, root, secret, seal, faults>>

Generations == 0..MaxInits

\* The steps of provision.sh, in the order it takes them when nothing fails.
ScriptSteps ==
    {"validate", "waitSealed", "readInit", "operatorInit", "response",
     "publish", "waitUnsealed", "lookup", "createToken", "relookup",
     "probe", "enable", "reprobe", "options", "retire", "revoke",
     "revokeCheck", "scrub"}

\* "serving": provisioned, server.sh waits for the server; "stopping":
\* provisioning failed, server.sh stops the server.
Steps == ScriptSteps \cup {"down", "serving", "stopping"}

NoRecord == [gen |-> 0, root |-> FALSE]
NoPartial == [exists |-> FALSE, gen |-> 0]

-----------------------------------------------------------------------------
(* Types *)

StoreType == [gen: Generations, root: BOOLEAN, tokens: SUBSET Tokens,
              secret: SecretMounts, transit: TransitMounts, key: BOOLEAN]

\* Every variable has its type.
TypeOK ==
    /\ store \in StoreType
    /\ record \in [gen: Generations, root: BOOLEAN]
    /\ partial \in [exists: BOOLEAN, gen: Generations]
    /\ minted \in Generations
    /\ server \in {"down", "starting", "up"}
    /\ sealed \in BOOLEAN
    /\ pc \in Steps
    /\ target \in {"secret", "transit", "key"}
    /\ token \in Tokens \cup {NoToken}
    /\ root \in Generations
    /\ ready \in BOOLEAN
    /\ secret \in Tokens \cup {NoToken}
    /\ seal \in BOOLEAN
    /\ faults \in 0..MaxFaults

-----------------------------------------------------------------------------
(* Helpers *)

\* The server answers authenticated calls.
Usable == server = "up" /\ ~sealed

\* `vault token lookup` with the access token succeeds, if the call gets through.
TokenAccepted == Usable /\ token \in store.tokens

Fault == /\ faults < MaxFaults
         /\ faults' = faults + 1

\* A read whose only result is success or failure.  It fails when Vault says
\* no or cannot be reached, and also when the call itself is lost.
Read(holds, yes, no) ==
    \/ holds /\ pc' = yes /\ UNCHANGED faults
    \/ ~holds /\ pc' = no /\ UNCHANGED faults
    \/ holds /\ pc' = no /\ Fault

\* A write whose exit status the script ignores (|| true): it takes effect
\* when the server grants it, unless the request is lost.  A lost response
\* is the first case.
Write(granted, newStore) ==
    \/ granted /\ store' = newStore /\ UNCHANGED faults
    \/ ~granted /\ UNCHANGED <<store, faults>>
    \/ granted /\ UNCHANGED store /\ Fault

\* recorded_root(): the root token init.json holds.
RecordedRoot == IF record.root THEN record.gen ELSE 0

Init ==
    /\ store = EmptyStore
    /\ record = NoRecord
    /\ partial = NoPartial
    /\ minted = 0
    /\ server = "down"
    /\ sealed = TRUE
    /\ ready = FALSE
    /\ pc = "down"
    /\ target = "secret"
    /\ token = NoToken
    /\ root = 0
    /\ secret \in Tokens \cup {NoToken}
    /\ seal \in BOOLEAN
    /\ faults = 0

-----------------------------------------------------------------------------
(* server.sh and the server process *)

\* The kubelet (re)starts the container.  Without an auto-unseal seal
\* server.sh exits before it launches the server, which changes nothing.
StartContainer ==
    /\ pc = "down"
    /\ seal
    /\ pc' = "validate"
    /\ server' = "starting"
    /\ sealed' = TRUE
    /\ token' = secret
    /\ root' = 0
    /\ target' = "secret"
    /\ UNCHANGED <<volumeVars, configVars, ready, faults>>

ServerUp ==
    /\ server = "starting"
    /\ server' = "up"
    /\ UNCHANGED <<volumeVars, sealed, ready, scriptVars, configVars, faults>>

\* The seal unseals an initialized server.
AutoUnseal ==
    /\ server = "up"
    /\ sealed
    /\ Initialized(store)
    /\ sealed' = FALSE
    /\ UNCHANGED <<volumeVars, server, ready, scriptVars, configVars, faults>>

\* The container is gone: killed, or its command has exited.
ContainerGone ==
    /\ pc' = "down"
    /\ server' = "down"
    /\ sealed' = TRUE
    /\ ready' = FALSE
    /\ UNCHANGED <<volumeVars, target, token, root, configVars>>

\* The provisioning script failed, or the server ended under `wait`.
ContainerExit ==
    /\ \/ pc = "stopping"
       \/ pc = "serving" /\ server = "down"
    /\ ContainerGone
    /\ UNCHANGED faults

\* The pod is killed (node failure, eviction, termination) at any step.
Crash ==
    /\ pc # "down"
    /\ ContainerGone
    /\ Fault

\* The vault server process dies; the script finds out at its next call.
ServerCrash ==
    /\ server # "down"
    /\ server' = "down"
    /\ sealed' = TRUE
    /\ Fault
    /\ UNCHANGED <<volumeVars, ready, scriptVars, configVars>>

\* readinessProbe: /v1/sys/health is 200 only when initialized and unsealed.
ReadinessProbe ==
    /\ pc # "down"
    /\ ready' = (Usable /\ Initialized(store))
    /\ UNCHANGED <<volumeVars, server, sealed, scriptVars, configVars, faults>>

-----------------------------------------------------------------------------
(* provision.sh *)

\* Mutant: an unusable token is not noticed.
Mutant_NoValidation ==
    /\ pc = "validate"
    /\ pc' = "waitSealed"
    /\ UNCHANGED <<volumeVars, serverVars, target, token, root, configVars, faults>>

\* The arguments and the token are checked before anything is called.
Validate ==
    /\ pc = "validate"
    /\ pc' = IF token = NoToken THEN "stopping" ELSE "waitSealed"
    /\ UNCHANGED <<volumeVars, serverVars, target, token, root, configVars, faults>>

\* wait_for_server: returns once the status is the wanted one.  It gives up
\* when the server is gone, or when the server is slower than its attempts.
WaitForServer(here, answered, next) ==
    /\ pc = here
    /\ \/ answered /\ pc' = next /\ UNCHANGED faults
       \/ server = "down" /\ pc' = "stopping" /\ UNCHANGED faults
       \/ server # "down" /\ ~answered /\ pc' = "stopping" /\ Fault
    /\ UNCHANGED <<volumeVars, serverVars, target, token, root, configVars>>

\* Mutant: the root is retired before the access token is installed.
Mutant_RetireFirst == WaitForServer("waitUnsealed", Usable, "retire")

WaitSealed == WaitForServer("waitSealed", server = "up", "readInit")
WaitUnsealed == WaitForServer("waitUnsealed", Usable, "lookup")

\* Mutant: initialize() does not look for an existing record.
Mutant_InitOverRecord ==
    /\ pc = "readInit"
    /\ \/ /\ server = "up" /\ Initialized(store)
          /\ pc' = "waitUnsealed"
          /\ UNCHANGED partial
       \/ /\ server = "up" /\ ~Initialized(store)
          /\ pc' = "operatorInit"
          /\ partial' = [exists |-> TRUE, gen |-> 0]
       \/ /\ server # "up"
          /\ pc' = "stopping"
          /\ UNCHANGED partial
    /\ UNCHANGED <<store, record, minted, serverVars, target, token, root,
                   configVars, faults>>

\* initialize(), up to the init call: read sys/init; an initialized server is
\* left alone; empty storage under an existing record is refused; otherwise
\* the shell truncates init.json.partial for the response.
ReadInit ==
    /\ pc = "readInit"
    /\ \/ /\ server = "up" /\ Initialized(store)
          /\ pc' = "waitUnsealed"
          /\ UNCHANGED <<partial, faults>>
       \/ /\ server = "up" /\ ~Initialized(store) /\ record.gen # 0
          /\ pc' = "stopping"
          /\ UNCHANGED <<partial, faults>>
       \/ /\ server = "up" /\ ~Initialized(store) /\ record.gen = 0
          /\ pc' = "operatorInit"
          /\ partial' = [exists |-> TRUE, gen |-> 0]
          /\ UNCHANGED faults
       \/ /\ server # "up"
          /\ pc' = "stopping"
          /\ UNCHANGED <<partial, faults>>
       \/ /\ server = "up"
          /\ pc' = "stopping"
          /\ Fault
          /\ UNCHANGED partial
    /\ UNCHANGED <<store, record, minted, serverVars, target, token, root, configVars>>

\* `vault operator init` reaches the server, which commits a new generation.
OperatorInit ==
    /\ pc = "operatorInit"
    /\ server = "up"
    /\ minted < MaxInits
    /\ minted' = minted + 1
    /\ store' = FreshStore(minted + 1)
    /\ pc' = "response"
    /\ UNCHANGED <<record, partial, serverVars, target, token, root, configVars, faults>>

\* `vault operator init` fails before the server does anything.
OperatorInitFails ==
    /\ pc = "operatorInit"
    /\ \/ server = "down" /\ UNCHANGED faults
       \/ server = "up" /\ Fault
    /\ pc' = "stopping"
    /\ UNCHANGED <<volumeVars, serverVars, target, token, root, configVars>>

\* The response arrives and is written to init.json.partial.
RecordResponse ==
    /\ pc = "response"
    /\ partial' = [exists |-> TRUE, gen |-> store.gen]
    /\ pc' = "publish"
    /\ UNCHANGED <<store, record, minted, serverVars, target, token, root, configVars, faults>>

\* The response does not arrive: the server died, or the client gave up.
LoseResponse ==
    /\ pc = "response"
    /\ \/ server = "down" /\ UNCHANGED faults
       \/ server = "up" /\ Fault
    /\ pc' = "stopping"
    /\ UNCHANGED <<volumeVars, serverVars, target, token, root, configVars>>

\* Mutant: the response is copied, the partial file stays.
Mutant_CopyPartial ==
    /\ pc = "publish"
    /\ record' = [gen |-> partial.gen, root |-> TRUE]
    /\ pc' = "waitUnsealed"
    /\ UNCHANGED <<store, partial, minted, serverVars, target, token, root, configVars, faults>>

\* mv init.json.partial init.json
Publish ==
    /\ pc = "publish"
    /\ record' = [gen |-> partial.gen, root |-> TRUE]
    /\ partial' = NoPartial
    /\ pc' = "waitUnsealed"
    /\ UNCHANGED <<store, minted, serverVars, target, token, root, configVars, faults>>

\* Mutant: the token is installed without asking whether Vault has it.
Mutant_NoLookup ==
    /\ pc = "lookup"
    /\ root' = RecordedRoot
    /\ pc' = IF RecordedRoot = 0 THEN "stopping" ELSE "createToken"
    /\ UNCHANGED <<volumeVars, serverVars, target, token, configVars, faults>>

\* install_access_token(): a token the server knows is left alone; otherwise
\* the recorded root token must install it.
Lookup ==
    /\ pc = "lookup"
    /\ root' = RecordedRoot
    /\ Read(TokenAccepted, "probe",
            IF RecordedRoot = 0 THEN "stopping" ELSE "createToken")
    /\ UNCHANGED <<volumeVars, serverVars, target, token, configVars>>

CreateToken ==
    /\ pc = "createToken"
    /\ Write(Usable /\ RootAccepted(store, root), WithToken(store, token))
    /\ pc' = "relookup"
    /\ UNCHANGED <<record, partial, minted, serverVars, target, token, root, configVars>>

Relookup ==
    /\ pc = "relookup"
    /\ Read(TokenAccepted, "probe", "stopping")
    /\ UNCHANGED <<volumeVars, serverVars, target, token, root, configVars>>

\* What provision_kv and provision_transit look for, and of which type.
Present == CASE target = "secret"  -> store.secret # "none"
             [] target = "transit" -> store.transit # "none"
             [] target = "key"     -> store.transit = "transit" /\ store.key
RightType == CASE target = "secret"  -> store.secret \in {"kv1", "kv2"}
               [] target = "transit" -> store.transit = "transit"
               [] target = "key"     -> TRUE

\* The transit mount comes after KV, the key after the mount, the root's
\* retirement last.
Advance ==
    \/ target = "secret" /\ target' = "transit" /\ pc' = "probe"
    \/ target = "transit" /\ target' = "key" /\ pc' = "probe"
    \/ target = "key" /\ UNCHANGED target /\ pc' = "retire"

\* A successful read of the mount's type, and the check of what it says.
Checked ==
    \/ ~RightType /\ pc' = "stopping" /\ UNCHANGED target
    \/ RightType /\ target = "secret" /\ pc' = "options" /\ UNCHANGED target
    \/ RightType /\ target # "secret" /\ Advance

\* Read the target; when that fails, enable it and read it back once.
Probe ==
    /\ pc \in {"probe", "reprobe"}
    /\ LET found == TokenAccepted /\ Present
           missing == pc' = IF pc = "probe" THEN "enable" ELSE "stopping"
       IN  \/ found /\ Checked /\ UNCHANGED faults
           \/ ~found /\ missing /\ UNCHANGED <<target, faults>>
           \/ found /\ missing /\ Fault /\ UNCHANGED target
    /\ UNCHANGED <<volumeVars, serverVars, token, root, configVars>>

\* `vault secrets enable` or `vault write -f transit/keys/<key>`.
Enable ==
    /\ pc = "enable"
    /\ Write(TokenAccepted,
             CASE target = "secret"  -> WithSecret(store, "kv2")
               [] target = "transit" -> WithTransit(store, "transit")
               [] target = "key"     -> WithKey(store))
    /\ pc' = "reprobe"
    /\ UNCHANGED <<record, partial, minted, serverVars, target, token, root, configVars>>

\* Mutant: any KV mount will do.
Mutant_AnyKV ==
    /\ pc = "options"
    /\ Advance
    /\ UNCHANGED <<volumeVars, serverVars, token, root, configVars, faults>>

\* secret/ is a KV mount; its options must say version 2.
Options ==
    /\ pc = "options"
    /\ \/ /\ TokenAccepted /\ store.secret = "kv2"
          /\ Advance
          /\ UNCHANGED faults
       \/ /\ ~(TokenAccepted /\ store.secret = "kv2")
          /\ pc' = "stopping"
          /\ UNCHANGED <<target, faults>>
       \/ /\ TokenAccepted
          /\ pc' = "stopping"
          /\ Fault
          /\ UNCHANGED target
    /\ UNCHANGED <<volumeVars, serverVars, token, root, configVars>>

\* retire_initial_root(): nothing to do once the record is scrubbed.
Retire ==
    /\ pc = "retire"
    /\ root' = RecordedRoot
    /\ pc' = IF RecordedRoot = 0 THEN "serving" ELSE "revoke"
    /\ UNCHANGED <<volumeVars, serverVars, target, token, configVars, faults>>

Revoke ==
    /\ pc = "revoke"
    /\ Write(Usable /\ RootAccepted(store, root), WithoutRoot(store))
    /\ pc' = "revokeCheck"
    /\ UNCHANGED <<record, partial, minted, serverVars, target, token, root, configVars>>

\* The root token must not look up any more; any failure counts as that.
RevokeCheck ==
    /\ pc = "revokeCheck"
    /\ Read(Usable /\ RootAccepted(store, root), "stopping", "scrub")
    /\ UNCHANGED <<volumeVars, serverVars, target, token, root, configVars>>

\* sed into init.json.scrubbed, then mv over init.json.
Scrub ==
    /\ pc = "scrub"
    /\ record' = [record EXCEPT !.root = FALSE]
    /\ pc' = "serving"
    /\ UNCHANGED <<store, partial, minted, serverVars, target, token, root, configVars, faults>>

-----------------------------------------------------------------------------
(* Consumers and operators (external) *)

\* A holder of an installed token mounts something at a path still free.
ConsumerMounts ==
    /\ Usable
    /\ store.tokens # {}
    /\ \/ \E kind \in SecretMounts \ {"none"} :
            store.secret = "none" /\ store' = WithSecret(store, kind)
       \/ \E kind \in TransitMounts \ {"none"} :
            store.transit = "none" /\ store' = WithTransit(store, kind)
    /\ UNCHANGED <<record, partial, minted, serverVars, scriptVars, configVars, faults>>

\* The documented rotation: create the new token in Vault with the current one...
OperatorCreatesToken ==
    /\ Usable
    /\ store.tokens # {}
    /\ \E t \in Tokens \ store.tokens : store' = WithToken(store, t)
    /\ UNCHANGED <<record, partial, minted, serverVars, scriptVars, configVars, faults>>

\* ... then change the Secret; nothing forces that order.
OperatorChangesSecret ==
    /\ \E t \in (Tokens \cup {NoToken}) \ {secret} : secret' = t
    /\ UNCHANGED <<volumeVars, serverVars, scriptVars, seal, faults>>

\* The environment gains or loses its seal configuration.
OperatorChangesSeal ==
    /\ seal' = ~seal
    /\ UNCHANGED <<volumeVars, serverVars, scriptVars, secret, faults>>

\* The raft storage is lost; the bootstrap directory survives.
StorageLost ==
    /\ pc = "down"
    /\ Initialized(store)
    /\ minted < MaxInits
    /\ store' = EmptyStore
    /\ UNCHANGED <<record, partial, minted, serverVars, scriptVars, configVars, faults>>

\* "delete its data volume to initialize again"
OperatorDeletesVolume ==
    /\ pc = "down"
    /\ Initialized(store) => minted < MaxInits
    /\ store' = EmptyStore
    /\ record' = NoRecord
    /\ partial' = NoPartial
    /\ UNCHANGED <<minted, serverVars, scriptVars, configVars, faults>>

\* "move the record aside to initialize a new, empty Vault"
OperatorMovesRecordAside ==
    /\ pc = "down"
    /\ ~Initialized(store)
    /\ record.gen # 0
    /\ record' = NoRecord
    /\ UNCHANGED <<store, partial, minted, serverVars, scriptVars, configVars, faults>>

-----------------------------------------------------------------------------

ScriptStep ==
    \/ Validate \/ WaitSealed \/ ReadInit
    \/ OperatorInit \/ OperatorInitFails \/ RecordResponse \/ LoseResponse \/ Publish
    \/ WaitUnsealed \/ Lookup \/ CreateToken \/ Relookup
    \/ Probe \/ Enable \/ Options
    \/ Retire \/ Revoke \/ RevokeCheck \/ Scrub

PlatformStep ==
    \/ StartContainer \/ ServerUp \/ AutoUnseal \/ ContainerExit
    \/ Crash \/ ServerCrash \/ ReadinessProbe

EnvironmentStep ==
    \/ ConsumerMounts \/ OperatorCreatesToken \/ OperatorChangesSecret
    \/ OperatorChangesSeal \/ StorageLost \/ OperatorDeletesVolume
    \/ OperatorMovesRecordAside

Next == ScriptStep \/ PlatformStep \/ EnvironmentStep

Spec == Init /\ [][Next]_vars

\* The shell takes its next step, the kubelet restarts and removes
\* containers, the server starts and the seal unseals it.  Nothing is assumed
\* of crashes, lost calls, probes, consumers and operators.
Fairness ==
    /\ WF_vars(ScriptStep)
    /\ WF_vars(StartContainer)
    /\ WF_vars(ContainerExit)
    /\ WF_vars(ServerUp)
    /\ WF_vars(AutoUnseal)

FairSpec == Spec /\ Fairness

-----------------------------------------------------------------------------
(* Properties *)

\* The init record and the storage next to it belong to the same generation:
\* initialize() never mints keys over a lost store while a record still names
\* the old ones, whatever operators and crashes did before.
RecordMatchesStore ==
    Initialized(store) /\ record.gen # 0 => record.gen = store.gen

\* A Vault whose init response was recorded always leaves a credential that
\* can administer it: either the recorded root token still works, or an
\* access token has been installed.  Hence revoking or scrubbing the root at
\* any point, crashes included, never locks everybody out.
NeverLockedOut ==
    Initialized(store) /\ record.gen # 0
        => \/ record.root /\ RootAccepted(store, record.gen)
           \/ store.tokens # {}

\* The two failure messages that tell the operator to delete the data volume
\* ("this Vault holds no data yet") are given only when init.json.partial
\* exists, and then the storage really holds nothing beyond its
\* initialization.
UnrecordedHoldsNothing ==
    Initialized(store) /\ partial.exists => store = FreshStore(store.gen)

\* When server.sh stops provisioning and just waits for the server, the token
\* consumers were given is accepted, both mounts and the key are in place,
\* and the root token is gone from the record, even though several calls'
\* exit statuses were ignored and consumers mounted things meanwhile.
ServingIsProvisioned ==
    pc = "serving" => /\ Provisioned(store)
                      /\ token \in store.tokens
                      /\ ~record.root

\* What no restart can repair: the failures provision.sh and server.sh leave
\* to the operator.
RootUsable == record.root /\ RootAccepted(store, record.gen)
NeedsOperator ==
    \/ ~seal
    \/ secret = NoToken
    \/ ~Initialized(store) /\ record.gen # 0
    \/ Initialized(store) /\ secret \notin store.tokens /\ ~RootUsable
    \/ store.secret \notin {"none", "kv2"}
    \/ store.transit \notin {"none", "transit"}

\* "a failure restarts the container and the next start runs it again": once
\* faults stop, provisioning completes again and again unless something only
\* an operator can repair stands in the way.  Every partial state a fault
\* leaves behind is one the next run gets past.
Converges == []<>(pc = "serving" \/ NeedsOperator)

\* The script, its crashes and its operators implement VaultCustody: every step
\* leaves storage and record alone or is a step of it, so keys are minted only
\* where neither exists, and init.json only ever appears for the keys in use.
Custody == INSTANCE VaultCustody WITH keys <- store.gen, kept <- record.gen
KeepsCustody == Custody!Spec

\* provision.sh: the root "is revoked, and only then scrubbed from the
\* record".
ScrubbedOnlyOnceRevoked ==
    Initialized(store) /\ record.gen = store.gen /\ ~record.root => ~store.root

\* provision.sh: "The container does not reach Running until it succeeds", so
\* a pod that receives traffic is provisioned.
ReadyIsProvisioned == ready => Provisioned(store)
===============================================================================
