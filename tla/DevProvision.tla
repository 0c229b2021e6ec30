----------------------------- MODULE DevProvision -----------------------------
(***************************************************************************)
(* The ephemeral local apply, from deployment to a ready pod: what Deploy   *)
(* renders (Rendering) is applied to a cluster, whose kubelet starts        *)
(* `vault server -dev` with the root token of the Secret and runs           *)
(* provision.sh in mode dev as its postStart hook.  The store is in memory: *)
(* every start of the container begins with an empty one.                   *)
(*                                                                          *)
(* Kubernetes is external.  A hook that fails takes the container with it,  *)
(* probes begin after the hook, a changed pod template replaces the pod,    *)
(* and a changed Secret reaches only the next start.                        *)
(***************************************************************************)
EXTENDS Rendering, VaultStore

CONSTANTS
    TokenIds,      \* the values of the token alphabet [A-Za-z0-9._-]
    RequestValues, \* ephemeral requests
    SettingsFiles, \* the settings they are deployed with
    MaxApplies,    \* bound: deployments applied
    MaxFaults      \* bound: crashes, lost calls and expired waits

ASSUME TokenIdsAssumption == TokenIds \subseteq Tokens /\ BlankTokens \cap Tokens = {}
ASSUME RequestsAssumption == \A v \in RequestValues : v.token \in Tokens \cup BlankTokens
ASSUME BoundsAssumption == {MaxApplies, MaxFaults} \subseteq Nat

VARIABLES
    applied,   \* what the cluster has: [key: of the pod template, secret: the Secret's token]
    given,     \* the token consumers were configured with by the last deployment
    container, \* the running container's [key, token], as of its start
    store,     \* the memory of the server
    up,        \* the server answers
    pc,        \* the hook's next step; "off": no container, "running": the hook is through
    target,    \* what provision_transit is working on
    ready,     \* the pod's readiness condition
    applies, faults

vars == <<applied, given, container, store, up, pc, target, ready, applies, faults>>
podVars == <<container, store, up, pc, target, ready>>

NoPod == [key |-> "", token |-> ""]

Init ==
    /\ applied = [key |-> "", secret |-> ""]
    /\ given = ""
    /\ container = NoPod
    /\ store = EmptyStore
    /\ up = FALSE /\ ready = FALSE
    /\ pc = "off"
    /\ target = "transit"
    /\ applies = 0 /\ faults = 0

-----------------------------------------------------------------------------
(* Deployment and kubelet *)

\* The container ends, and what it had in memory with it.
Ends ==
    /\ container' = NoPod
    /\ store' = EmptyStore
    /\ up' = FALSE /\ ready' = FALSE
    /\ pc' = "off"
    /\ target' = "transit"

\* The root token a dev server is started with: the one of the Secret, if the
\* pod template refers to it.
RootToken(manifest) == IF manifest.env = {} THEN "" ELSE CHOOSE t \in manifest.secret : TRUE

\* What one request is deployed as, as in BuilderDeploy's Deploy to Render.
Deployed(settings, req) ==
    LET parameters == Parameters(settings, req)
        deployment == NewDeployment(req)
        configuration == Configuration(settings, parameters, deployment, req)
    IN  [succeeds |-> Prepares(settings, parameters, deployment, req),
         configuration |-> configuration,
         manifest |-> Manifest(PreparedParameters(parameters, req),
                               PreparedDeployment(parameters, deployment, configuration))]

\* A successful Deploy is applied; only the pod template replaces the pod.
Apply ==
    /\ applies < MaxApplies
    /\ applies' = applies + 1
    /\ \E settings \in SettingsFiles, req \in RequestValues :
          /\ Parameters(settings, req).shape = "dev"
          /\ LET d == Deployed(settings, req)
             IN  /\ d.succeeds
                 /\ applied' = [key |-> d.manifest.command[3], secret |-> RootToken(d.manifest)]
                 /\ given' = d.configuration.token
                 /\ IF d.manifest.command[3] # applied.key THEN Ends ELSE UNCHANGED podVars
    /\ UNCHANGED faults

\* server -dev initializes, unseals and mounts KV v2 at secret/ itself; its
\* root token is VAULT_DEV_ROOT_TOKEN_ID.
StartContainer ==
    /\ pc = "off" /\ applied.key # ""
    /\ container' = [key |-> applied.key, token |-> applied.secret]
    /\ store' = [FreshStore(1) EXCEPT !.tokens = {applied.secret}, !.secret = "kv2"]
    /\ pc' = "validate"
    /\ UNCHANGED <<applied, given, up, target, ready, applies, faults>>

Listen ==
    /\ pc # "off" /\ ~up
    /\ up' = TRUE
    /\ UNCHANGED <<applied, given, container, store, pc, target, ready, applies, faults>>

Fault == faults < MaxFaults /\ faults' = faults + 1

Crash ==
    /\ pc # "off"
    /\ Fault
    /\ Ends
    /\ UNCHANGED <<applied, given, applies>>

ReadinessProbe ==
    /\ pc = "running" /\ up /\ ~ready
    /\ ready' = TRUE
    /\ UNCHANGED <<applied, given, container, store, up, pc, target, applies, faults>>

-----------------------------------------------------------------------------
(* The hook: provision.sh dev <key> *)

\* The hook goes on, or exits with an error.
GoesOn(next) == pc' = next /\ UNCHANGED <<container, store, up, target, ready>>

\* Mutant: tokens with a dot in them are refused.
Mutant_NoDots(t) == t \in TokenIds /\ t # CHOOSE d \in TokenIds : TRUE

\* The token is set and holds only characters of a Vault token id.
ValidToken(t) == t \in TokenIds

Validate ==
    /\ pc = "validate"
    /\ IF ValidToken(container.token) THEN GoesOn("wait") ELSE Ends
    /\ UNCHANGED <<applied, given, applies, faults>>

\* wait_for_server unsealed: a dev server that answers is unsealed.
WaitForServer ==
    /\ pc = "wait"
    /\ \/ up /\ GoesOn("probe") /\ UNCHANGED faults
       \/ ~up /\ Ends /\ Fault
    /\ UNCHANGED <<applied, given, applies>>

Present == CASE target = "transit" -> store.transit = "transit"
             [] target = "key"     -> store.key

\* The mount first, then the key.
Advance ==
    IF target = "transit"
    THEN target' = "key" /\ pc' = "probe" /\ UNCHANGED <<container, store, up, ready>>
    ELSE GoesOn("running")

\* provision_transit: read, and when that fails enable and read back once.  No
\* one else mounts anything in a store this young, so its type is as expected.
Probe ==
    /\ pc \in {"probe", "reprobe"}
    /\ LET missing == IF pc = "probe" THEN GoesOn("enable") ELSE Ends
       IN  \/ Present /\ Advance /\ UNCHANGED faults
           \/ ~Present /\ missing /\ UNCHANGED faults
           \/ Present /\ missing /\ Fault
    /\ UNCHANGED <<applied, given, applies>>

Enabled == IF target = "transit" THEN WithTransit(store, "transit") ELSE WithKey(store)

\* Mutant: what was enabled is not read back.
Mutant_NoReadBack ==
    /\ pc = "enable"
    /\ \/ store' = Enabled /\ UNCHANGED faults
       \/ UNCHANGED store /\ Fault
    /\ IF target = "transit" THEN target' = "key" /\ pc' = "probe"
                             ELSE pc' = "running" /\ UNCHANGED target
    /\ UNCHANGED <<applied, given, container, up, ready, applies>>

\* The exit status is ignored (|| true): a lost request is found by reading back.
Enable ==
    /\ pc = "enable"
    /\ \/ store' = Enabled /\ UNCHANGED faults
       \/ UNCHANGED store /\ Fault
    /\ pc' = "reprobe"
    /\ UNCHANGED <<applied, given, container, up, target, ready, applies>>

HookStep == Validate \/ WaitForServer \/ Probe \/ Enable

Next == Apply \/ StartContainer \/ Listen \/ Crash \/ ReadinessProbe \/ HookStep

Spec == Init /\ [][Next]_vars

\* The kubelet restarts containers and probes them, a dev server needs nothing
\* to come up, and the script does not stop by itself.  Nobody has to deploy.
Fairness ==
    /\ WF_vars(StartContainer) /\ WF_vars(Listen)
    /\ WF_vars(ReadinessProbe) /\ WF_vars(HookStep)

FairSpec == Spec /\ Fairness

-----------------------------------------------------------------------------
(* Properties *)

\* Every variable has its type.
TypeOK ==
    /\ applied \in [key : KeyNames \cup {""}, secret : Tokens \cup {""}]
    /\ given \in Tokens \cup {""}
    /\ container \in [key : KeyNames \cup {""}, token : Tokens \cup {""}]
    /\ store.secret \in SecretMounts /\ store.transit \in TransitMounts
    /\ up \in BOOLEAN /\ ready \in BOOLEAN /\ store.key \in BOOLEAN
    /\ pc \in {"off", "validate", "wait", "probe", "enable", "reprobe", "running"}
    /\ target \in {"transit", "key"}
    /\ applies \in 0..MaxApplies /\ faults \in 0..MaxFaults

\* A pod that receives traffic has the state consumers depend on, under the key
\* of the deployment that is in force, whatever calls were lost and however
\* often the container was restarted on the way.
ReadyIsProvisioned == ready => Provisioned(store) /\ container.key = applied.key

\* A running Vault refuses the token the last deployment gave to consumers.
Stranded == pc # "off" /\ given \notin store.tokens

\* Consumers come to be refused in one way only: a deployment changes the token
\* and nothing else, so that the pod template is the same and the server goes on
\* under the root token it was started with.  No start, crash, lost call or
\* change of key ever does it, and no deployment that also replaces the pod.
OnlyTokenChangeStrands ==
    [][~Stranded /\ Stranded' =>
          /\ UNCHANGED podVars
          /\ applied'.key = applied.key /\ applied'.secret # applied.secret]_vars

\* Once deployments and faults have stopped the pod becomes ready and stays so,
\* unless the configured token is one the hook refuses at every start (Deploy
\* only refuses blank ones).
Settles == <>[](ready \/ applied.key = "" \/ applied.secret \notin TokenIds)
===============================================================================
