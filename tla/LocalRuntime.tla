----------------------------- MODULE LocalRuntime -----------------------------
(***************************************************************************)
(* `codefly run`: the Runtime of runtime.go (Init, Start, Stop, Destroy),   *)
(* its local custody (localstate.go) and the native process adapter         *)
(* (nixvault.go).  Several agents, one process each, serve the same service *)
(* of the same workspace on one machine: they share the state directory     *)
(* (runtime.lock, credentials.json, vault-data) and the name of the Docker  *)
(* container.                                                               *)
(*                                                                          *)
(* Every HTTP call of bootstrap, enableTransit and seedJWTSigningKey is a   *)
(* step.  A call reaches the server bound to the agent's port, whichever    *)
(* agent launched it.  A call may be lost on the way there or on the way    *)
(* back; lost calls, crashes, failed teardowns and disk errors draw on one  *)
(* budget, MaxFaults.                                                       *)
(***************************************************************************)
EXTENDS VaultStore, FiniteSets

CONSTANTS
    Agents,        \* agent processes of this service and workspace
    NoAgent,
    NoToken,       \* no VAULT_TOKEN configured
    RootToken,     \* the root token of the custody file's generation
    Kinds,         \* runtime contexts requested: "docker", "nix"
    Ports,         \* host ports the network mappings may propose
    TransitFound,  \* what users may mount at transit/ themselves
    MaxServers,    \* bound: Vault processes alive at once
    MaxInits,      \* bound: generations of keys ever minted
    MaxFaults      \* bound: faults

ASSUME NamesAssumption ==
    /\ NoAgent \notin Agents
    /\ NoToken \notin Tokens
    /\ RootToken \notin Tokens \cup {NoToken}
    /\ Kinds \subseteq {"docker", "nix"}
    /\ Ports # {}
    /\ TransitFound \subseteq TransitMounts \ {"none"}
ASSUME BoundsAssumption == /\ MaxServers \in Nat \ {0}
                           /\ MaxInits \in Nat \ {0}
                           /\ MaxFaults \in Nat

VARIABLES
    store,        \* vault-data: the file backend
    jwt,          \* versions of secret/jwt-signing-key: 0, 1, or 2 (more than one)
    minted,       \* generations minted so far
    custody,      \* credentials.json: [file, gen, access]
    survivors,    \* what credentials.json may hold after a power failure
    cutShort,     \* history: a first save was interrupted between its rename and the
                  \* sync of the directory, and no save has synced it since
    lock,         \* holder of the flock on runtime.lock
    servers,      \* Vault processes, by slot; by: the live agent that runs it
    pc,           \* next step of each agent
    job,          \* arguments of the agent's Init: [kind, port, token]
    creds,        \* the credentials bootstrap holds in memory
    launching,    \* slot of the nixVault that Init has not stored yet
    nixRuntime,   \* s.nixRuntime: slot of its process
    runnerEnv,    \* s.runnerEnvironment is set
    faults

diskVars == <<store, jwt, minted, custody, survivors, cutShort>>
handleVars == <<launching, nixRuntime, runnerEnv>>
agentVars == <<pc, job, creds, launching, nixRuntime, runnerEnv>>
vars == <<store, jwt, minted, custody, survivors, cutShort, lock, servers,
          pc, job, creds, launching, nixRuntime, runnerEnv, faults>>

Slots == 1..MaxServers
NoSlot == 0                   \* no nixVault handle
Gone == MaxServers + 1        \* a handle whose process has ended

NoServer == [state |-> "none", kind |-> "docker", by |-> NoAgent,
             port |-> CHOOSE p \in Ports : TRUE, sealed |-> TRUE]
NoJob == [kind |-> "docker", port |-> CHOOSE p \in Ports : TRUE, token |-> NoToken]

\* credentials.json: absent, unreadable, or the credentials of a generation
\* with the access token last saved.
NoCustody == [file |-> "absent", gen |-> 0, access |-> NoToken]
TornCustody == [file |-> "torn", gen |-> 0, access |-> NoToken]
Custody(g, t) == [file |-> "ok", gen |-> g, access |-> t]

\* Resting states of an agent; "ready": Init has returned, "started": Start has.
Resting == {"idle", "ready", "started"}
BootstrapSteps == {"load", "initStatus", "init", "saveInit", "syncInit", "unseal",
                   "mounts", "mountSecret", "installToken", "saveToken",
                   "syncToken", "lookupSelf"}
StartSteps == {"waitForReady", "enableTransit", "createKey", "jwtGet", "jwtPost"}
Steps == Resting \cup BootstrapSteps \cup StartSteps
            \cup {"launch", "waitReady", "abort", "cleanup"}

Generations == 0..MaxInits
StoreType == [gen: Generations, root: BOOLEAN, tokens: SUBSET Tokens,
              secret: SecretMounts, transit: TransitMounts, key: BOOLEAN]
CustodyType == [file: {"absent", "torn", "ok"}, gen: Generations,
                access: Tokens \cup {RootToken, NoToken}]
ServerType == [state: {"none", "starting", "up"}, kind: {"docker", "nix"},
               by: Agents \cup {NoAgent}, port: Ports, sealed: BOOLEAN]
JobType == [kind: {"docker", "nix"}, port: Ports, token: Tokens \cup {NoToken}]

\* Every variable has its type.
TypeOK ==
    /\ store \in StoreType
    /\ jwt \in 0..2
    /\ minted \in Generations
    /\ custody \in CustodyType
    /\ survivors \subseteq CustodyType
    /\ cutShort \in BOOLEAN
    /\ lock \in Agents \cup {NoAgent}
    /\ servers \in [Slots -> ServerType]
    /\ pc \in [Agents -> Steps]
    /\ job \in [Agents -> JobType]
    /\ creds \in [Agents -> CustodyType]
    /\ launching \in [Agents -> 0..Gone]
    /\ nixRuntime \in [Agents -> 0..Gone]
    /\ runnerEnv \in [Agents -> BOOLEAN]
    /\ faults \in 0..MaxFaults

-----------------------------------------------------------------------------
(* Helpers *)

Fault == /\ faults < MaxFaults
         /\ faults' = faults + 1

Alive(i) == servers[i].state # "none"
Containers == {i \in Slots : Alive(i) /\ servers[i].kind = "docker"}
Listening(p) == {i \in Slots : servers[i].state = "up" /\ servers[i].port = p}

\* Some server answers at the agent's address; it also answers authenticated
\* calls.
Answers(a) == Listening(job[a].port) # {}
Unsealed(a) == \E i \in Listening(job[a].port) : ~servers[i].sealed

\* A token as the server sees it: the root token of a generation, or an id.
Accepted(g, t) == IF t = RootToken THEN RootAccepted(store, g) ELSE t \in store.tokens

Goto(a, step) == pc' = [pc EXCEPT ![a] = step]

\* The processes in S end; handles to them point to nothing.
Reaped(handles, S) == [a \in Agents |-> IF handles[a] \in S THEN Gone ELSE handles[a]]
End(S) ==
    /\ servers' = [i \in Slots |-> IF i \in S THEN NoServer ELSE servers[i]]
    /\ launching' = Reaped(launching, S)
    /\ nixRuntime' = Reaped(nixRuntime, S)

\* Mutant: the directory is opened without the flock.
Mutant_NoFlock(a) == lock' = a

\* openLocalVaultState: the flock does not wait.
Open(a) == lock = NoAgent /\ lock' = a

\* localVaultState.close(): a no-op unless this agent holds the lock.
Close(a) == lock' = IF lock = a THEN NoAgent ELSE lock

Init ==
    /\ store = EmptyStore
    /\ jwt = 0
    /\ minted = 0
    /\ custody = NoCustody
    /\ survivors = {NoCustody}
    /\ cutShort = FALSE
    /\ lock = NoAgent
    /\ servers = [i \in Slots |-> NoServer]
    /\ pc = [a \in Agents |-> "idle"]
    /\ job = [a \in Agents |-> NoJob]
    /\ creds = [a \in Agents |-> NoCustody]
    /\ launching = [a \in Agents |-> NoSlot]
    /\ nixRuntime = [a \in Agents |-> NoSlot]
    /\ runnerEnv = [a \in Agents |-> FALSE]
    /\ faults = 0

-----------------------------------------------------------------------------
(* Runtime.Init up to a reachable server *)

\* Init opens the state directory; when the flock is taken (also by this very
\* agent) it returns an error and nothing has changed.
InitRequest(a) ==
    /\ pc[a] = "idle"
    /\ Open(a)
    /\ \E k \in Kinds, p \in Ports, t \in Tokens \cup {NoToken} :
          job' = [job EXCEPT ![a] = [kind |-> k, port |-> p, token |-> t]]
    /\ Goto(a, "launch")
    /\ UNCHANGED <<diskVars, servers, creds, handleVars, faults>>

\* A new process, run by agent a.
Launched(a) ==
    [state |-> "starting", kind |-> job[a].kind, by |-> a, port |-> job[a].port, sealed |-> TRUE]

\* newNixVault, config and nixVault.Init up to proc.Start.
LaunchNix(a) ==
    /\ pc[a] = "launch"
    /\ job[a].kind = "nix"
    /\ \/ \E i \in Slots :
            /\ ~Alive(i)
            /\ servers' = [servers EXCEPT ![i] = Launched(a)]
            /\ launching' = [launching EXCEPT ![a] = i]
            /\ Goto(a, "waitReady")
            /\ UNCHANGED faults
       \/ /\ Goto(a, "cleanup")
          /\ Fault
          /\ UNCHANGED <<servers, launching>>
    /\ UNCHANGED <<diskVars, lock, job, creds, nixRuntime, runnerEnv>>

\* nixVault.waitReady: any HTTP answer at the port will do; it fails when the
\* launched process has exited, or when the deadline passes.  Only success
\* stores the handle.
WaitReady(a) ==
    /\ pc[a] = "waitReady"
    /\ \/ /\ Answers(a)
          /\ nixRuntime' = [nixRuntime EXCEPT ![a] = launching[a]]
          /\ Goto(a, "load")
          /\ UNCHANGED faults
       \/ /\ ~Answers(a)
          /\ Goto(a, "cleanup")
          /\ IF launching[a] = Gone THEN UNCHANGED faults ELSE Fault
          /\ UNCHANGED nixRuntime
    /\ launching' = [launching EXCEPT ![a] = NoSlot]
    /\ UNCHANGED <<diskVars, lock, servers, job, creds, runnerEnv>>

\* DockerEnvironment.Init (external).  The daemon runs one container of the
\* service's name: a leftover is reused or replaced.  A failed Init may have
\* started it; a daemon that cannot be reached leaves no handle either.
LaunchDocker(a) ==
    /\ pc[a] = "launch"
    /\ job[a].kind = "docker"
    /\ \/ \E i \in Containers :
            /\ servers' = [servers EXCEPT ![i].by = a]
            /\ runnerEnv' = [runnerEnv EXCEPT ![a] = TRUE]
            /\ Goto(a, "load")
            /\ UNCHANGED <<launching, nixRuntime, faults>>
       \/ \E i \in Slots :
            /\ i \in Containers \/ (Containers = {} /\ ~Alive(i))
            /\ servers' = [servers EXCEPT ![i] = Launched(a)]
            /\ runnerEnv' = [runnerEnv EXCEPT ![a] = TRUE]
            /\ \/ Goto(a, "load") /\ UNCHANGED faults
               \/ Goto(a, "cleanup") /\ Fault
            /\ UNCHANGED <<launching, nixRuntime>>
       \/ /\ runnerEnv' \in {runnerEnv, [runnerEnv EXCEPT ![a] = TRUE]}
          /\ Goto(a, "cleanup")
          /\ Fault
          /\ UNCHANGED <<servers, launching, nixRuntime>>
    /\ UNCHANGED <<diskVars, lock, job, creds>>

\* The process binds its port, or exits when the port is taken (external).
ServerUp(i) ==
    /\ servers[i].state = "starting"
    /\ IF Listening(servers[i].port) = {}
       THEN /\ servers' = [servers EXCEPT ![i].state = "up"]
            /\ UNCHANGED <<launching, nixRuntime>>
       ELSE End({i})
    /\ UNCHANGED <<diskVars, lock, pc, job, creds, runnerEnv, faults>>

-----------------------------------------------------------------------------
(* localVaultState.bootstrap *)

\* One HTTP call.  `granted`: the server would carry it out; `done`: it did.
\* A lost response leaves the effect behind, a lost request does not; both
\* are errors to the caller.
Outcome(a, granted, done, next, fail) ==
    \/ granted /\ done /\ Goto(a, next) /\ UNCHANGED faults
    \/ ~granted /\ ~done /\ Goto(a, fail) /\ UNCHANGED faults
    \/ granted /\ Goto(a, fail) /\ Fault

\* A call that only reads.
Read(a, granted, next, fail) == Outcome(a, granted, granted, next, fail)

\* A call that may change the store.
Write(a, granted, newStore, next, fail) ==
    \E done \in BOOLEAN : /\ Outcome(a, granted, done, next, fail)
                          /\ store' = IF done THEN newStore ELSE store

\* The root token in custody is accepted by an unsealed server.
AsRoot(a) == Unsealed(a) /\ RootAccepted(store, creds[a].gen)

\* load(): an unreadable custody file is an error, a missing one is not.
Load(a) ==
    /\ pc[a] = "load"
    /\ creds' = [creds EXCEPT ![a] = IF custody.file = "ok" THEN custody ELSE NoCustody]
    /\ Goto(a, IF custody.file = "torn" THEN "abort" ELSE "initStatus")
    /\ UNCHANGED <<diskVars, lock, servers, job, handleVars, faults>>

\* Mutant: custody without storage is not refused.
Mutant_InitOverCustody(a) == Initialized(store) => creds[a].file = "ok"

\* Mutant: a first start, without either, is refused as well.
Mutant_NoFirstInit(a) == Initialized(store) /\ creds[a].file = "ok"

\* The custody file and the storage must be both there or both missing.
CustodyFits(a) == Initialized(store) = (creds[a].file = "ok")

\* Some process is bound to, or about to bind, the agent's port.
Expected(a) == \E i \in Slots : Alive(i) /\ servers[i].port = job[a].port

\* GET /v1/sys/init, retried for thirty seconds.
InitStatus(a) ==
    /\ pc[a] = "initStatus"
    /\ \/ /\ Answers(a) /\ CustodyFits(a)
          /\ Goto(a, IF Initialized(store) THEN "unseal" ELSE "init")
          /\ UNCHANGED faults
       \/ /\ (Answers(a) /\ ~CustodyFits(a)) \/ ~Expected(a)
          /\ Goto(a, "abort")
          /\ UNCHANGED faults
       \/ Expected(a) /\ Goto(a, "abort") /\ Fault
    /\ UNCHANGED <<diskVars, lock, servers, job, creds, handleVars>>

\* POST /v1/sys/init
InitVault(a) ==
    /\ pc[a] = "init"
    /\ \E done \in BOOLEAN :
         /\ Outcome(a, Answers(a) /\ ~Initialized(store) /\ minted < MaxInits, done,
                    "saveInit", "abort")
         /\ store' = IF done THEN FreshStore(minted + 1) ELSE store
         /\ minted' = IF done THEN minted + 1 ELSE minted
         /\ creds' = IF done THEN [creds EXCEPT ![a] = Custody(minted + 1, RootToken)] ELSE creds
    /\ UNCHANGED <<jwt, custody, survivors, cutShort, lock, servers, job, handleVars>>

\* save(), up to the rename: the temporary file is complete and synced before
\* it takes the name, but the directory is not synced yet.
Save(a, here, next) ==
    /\ pc[a] = here
    /\ \/ /\ custody' = creds[a]
          /\ survivors' = survivors \cup {creds[a]}
          /\ Goto(a, next)
          /\ UNCHANGED faults
       \/ /\ Goto(a, "abort")
          /\ Fault
          /\ UNCHANGED <<custody, survivors>>
    /\ UNCHANGED <<store, jwt, minted, cutShort, lock, servers, job, creds, handleVars>>

\* Mutant: the directory is not synced after the rename.
Mutant_NoDirSync == survivors

\* What is left of `survivors` once the directory is synced.
Synced == {custody}

\* save(): sync of the directory.
SyncDir(a, here, next) ==
    /\ pc[a] = here
    /\ \/ /\ survivors' = Synced
          /\ cutShort' = FALSE
          /\ Goto(a, next)
          /\ UNCHANGED faults
       \/ /\ Goto(a, "abort")
          /\ cutShort' = (cutShort \/ pc[a] = "syncInit")
          /\ Fault
          /\ UNCHANGED survivors
    /\ UNCHANGED <<store, jwt, minted, custody, lock, servers, job, creds, handleVars>>

SaveInit(a) == Save(a, "saveInit", "syncInit")
SyncInit(a) == SyncDir(a, "syncInit", "unseal")
SaveToken(a) == Save(a, "saveToken", "syncToken")
SyncToken(a) == SyncDir(a, "syncToken", "lookupSelf")

\* POST /v1/sys/unseal: a no-op on an unsealed server, otherwise the key must
\* be the one of this storage.
Unseal(a) ==
    /\ pc[a] = "unseal"
    /\ \E done \in BOOLEAN :
         /\ Outcome(a, Unsealed(a) \/ (Answers(a) /\ creds[a].gen = store.gen /\ Initialized(store)),
                    done, "mounts", "abort")
         /\ servers' = [i \in Slots |->
                          IF done /\ i \in Listening(job[a].port)
                          THEN [servers[i] EXCEPT !.sealed = FALSE] ELSE servers[i]]
    /\ UNCHANGED <<diskVars, lock, job, creds, handleVars>>

\* Mutant: an empty configured token is taken for a token.
Mutant_EmptyToken(a) == IF job[a].token # creds[a].access THEN "installToken" ELSE "lookupSelf"

\* Where bootstrap goes once secret/ is KV v2.
AfterMounts(a) ==
    IF job[a].token \notin {NoToken, creds[a].access} THEN "installToken" ELSE "lookupSelf"

\* GET /v1/sys/mounts, and the check of what is mounted at secret/.
Mounts(a) ==
    /\ pc[a] = "mounts"
    /\ Read(a, AsRoot(a),
            CASE store.secret = "none" -> "mountSecret"
              [] store.secret = "kv2"  -> AfterMounts(a)
              [] OTHER                 -> "abort",
            "abort")
    /\ UNCHANGED <<diskVars, lock, servers, job, creds, handleVars>>

\* POST /v1/sys/mounts/secret
MountSecret(a) ==
    /\ pc[a] = "mountSecret"
    /\ Write(a, AsRoot(a) /\ store.secret = "none", WithSecret(store, "kv2"),
             AfterMounts(a), "abort")
    /\ UNCHANGED <<jwt, minted, custody, survivors, cutShort, lock, servers, job, creds, handleVars>>

\* POST /v1/auth/token/create-orphan: Vault refuses an id that exists.
InstallToken(a) ==
    /\ pc[a] = "installToken"
    /\ Write(a, AsRoot(a) /\ job[a].token \notin store.tokens,
             WithToken(store, job[a].token), "saveToken", "abort")
    /\ creds' = IF pc'[a] = "saveToken"
                THEN [creds EXCEPT ![a].access = job[a].token] ELSE creds
    /\ UNCHANGED <<jwt, minted, custody, survivors, cutShort, lock, servers, job, handleVars>>

\* Mutant: the root token is looked up, not the token to be published.
Mutant_LookupRoot(a) == Unsealed(a) /\ RootAccepted(store, creds[a].gen)

\* lookup-self with the access token succeeds.
AccessValid(a) == Unsealed(a) /\ Accepted(creds[a].gen, creds[a].access)

\* GET /v1/auth/token/lookup-self: only a token Vault accepts is published.
LookupSelf(a) ==
    /\ pc[a] = "lookupSelf"
    /\ Read(a, AccessValid(a), "ready", "abort")
    /\ UNCHANGED <<diskVars, lock, servers, job, creds, handleVars>>

-----------------------------------------------------------------------------
(* Runtime.teardown *)

\* What teardown stops: the nix process when there is such a handle, whatever
\* the last Init ran; otherwise the container of the service's name.
TeardownSet(a) == IF nixRuntime[a] # NoSlot THEN {nixRuntime[a]} \cap Slots ELSE Containers

\* The lock is released only when stopping succeeded.
TeardownSucceeds(a) == End(TeardownSet(a)) /\ Close(a) /\ UNCHANGED faults

\* Mutant: the lock is released whatever became of the server.
Mutant_CloseAnyway(a) ==
    /\ End(TeardownSet(a)) \/ UNCHANGED <<servers, launching, nixRuntime>>
    /\ Close(a)
    /\ Fault

\* All attempts failed; what they were to stop may have ended all the same.
TeardownFails(a) ==
    /\ End(TeardownSet(a)) \/ UNCHANGED <<servers, launching, nixRuntime>>
    /\ Fault
    /\ UNCHANGED lock

\* bootstrap failed: Init tears down and returns...
Abort(a) ==
    /\ pc[a] = "abort"
    /\ TeardownSucceeds(a) \/ TeardownFails(a)
    /\ Goto(a, "cleanup")
    /\ UNCHANGED <<diskVars, job, creds, runnerEnv>>

\* ... and Init's deferred function runs on every failure after the lock was
\* taken: it tears down (again) if there is a handle, and otherwise releases
\* the lock.
Cleanup(a) ==
    /\ pc[a] = "cleanup"
    /\ IF nixRuntime[a] # NoSlot \/ runnerEnv[a]
       THEN TeardownSucceeds(a) \/ TeardownFails(a)
       ELSE Close(a) /\ UNCHANGED <<servers, launching, nixRuntime, faults>>
    /\ Goto(a, "idle")
    /\ creds' = [creds EXCEPT ![a] = NoCustody]
    /\ job' = [job EXCEPT ![a] = NoJob]
    /\ UNCHANGED <<diskVars, runnerEnv>>

\* Stop and Destroy.  A fresh agent reconstructs the container by its name.
Stop(a) ==
    /\ pc[a] \in Resting
    /\ \/ /\ TeardownSucceeds(a)
          /\ Goto(a, "idle")
          /\ creds' = [creds EXCEPT ![a] = NoCustody]
          /\ job' = [job EXCEPT ![a] = NoJob]
       \/ TeardownFails(a) /\ UNCHANGED <<pc, creds, job>>
    /\ UNCHANGED <<diskVars, runnerEnv>>

-----------------------------------------------------------------------------
(* Runtime.Start *)

\* vaultRequest presents the published access token.
AsConsumer(a) == Unsealed(a) /\ Accepted(creds[a].gen, creds[a].access)

StartRequest(a) ==
    /\ pc[a] \in {"ready", "started"}
    /\ Goto(a, "waitForReady")
    /\ UNCHANGED <<diskVars, lock, servers, job, creds, handleVars, faults>>

\* GET /v1/sys/health must return 200 within ten attempts.
WaitForReady(a) ==
    /\ pc[a] = "waitForReady"
    /\ Read(a, Unsealed(a) /\ Initialized(store), "enableTransit", "ready")
    /\ UNCHANGED <<diskVars, lock, servers, job, creds, handleVars>>

\* POST /v1/sys/mounts/transit: an existing mount, of whatever type, is
\* taken for success.
EnableTransit(a) ==
    /\ pc[a] = "enableTransit"
    /\ Write(a, AsConsumer(a), WithTransit(store, "transit"), "createKey", "ready")
    /\ UNCHANGED <<jwt, minted, custody, survivors, cutShort, lock, servers, job, creds, handleVars>>

\* POST /v1/transit/keys/<key>: accepted by a transit engine, and by a KV v1
\* mount, which stores the body as a secret.
CreateKey(a) ==
    /\ pc[a] = "createKey"
    /\ Write(a, AsConsumer(a) /\ store.transit \in {"transit", "kv1"}, WithKey(store),
             "jwtGet", "ready")
    /\ UNCHANGED <<jwt, minted, custody, survivors, cutShort, lock, servers, job, creds, handleVars>>

\* GET /v1/secret/data/jwt-signing-key: every error means "absent".
JwtGet(a) ==
    /\ pc[a] = "jwtGet"
    /\ Read(a, AsConsumer(a) /\ store.secret = "kv2" /\ jwt # 0, "started", "jwtPost")
    /\ UNCHANGED <<diskVars, lock, servers, job, creds, handleVars>>

\* Mutant: a body Vault accepts but does not store as a new version.
Mutant_JwtNotStored == jwt

\* KV v2 adds a version.
NextVersion == IF jwt = 0 THEN 1 ELSE 2

\* POST /v1/secret/data/jwt-signing-key
JwtPost(a) ==
    /\ pc[a] = "jwtPost"
    /\ \E done \in BOOLEAN :
         /\ Outcome(a, AsConsumer(a) /\ store.secret = "kv2", done, "started", "ready")
         /\ jwt' = IF done THEN NextVersion ELSE jwt
    /\ UNCHANGED <<store, minted, custody, survivors, cutShort, lock, servers, job, creds, handleVars>>

-----------------------------------------------------------------------------
(* Crashes and users (external) *)

ServerCrash(i) ==
    /\ Alive(i)
    /\ End({i})
    /\ Fault
    /\ UNCHANGED <<diskVars, lock, pc, job, creds, runnerEnv>>

\* The agent is killed.  The kernel drops its flock; the daemon keeps its
\* container; its nix process may or may not outlive it.
AgentCrash(a) ==
    /\ pc[a] # "idle" \/ lock = a
    /\ \E S \in {{}, {i \in Slots : Alive(i) /\ servers[i].kind = "nix" /\ servers[i].by = a}} :
          servers' = [i \in Slots |-> CASE i \in S            -> NoServer
                                        [] servers[i].by = a -> [servers[i] EXCEPT !.by = NoAgent]
                                        [] OTHER             -> servers[i]]
    /\ Close(a)
    /\ Goto(a, "idle")
    /\ job' = [job EXCEPT ![a] = NoJob]
    /\ creds' = [creds EXCEPT ![a] = NoCustody]
    /\ launching' = [launching EXCEPT ![a] = NoSlot]
    /\ nixRuntime' = [nixRuntime EXCEPT ![a] = NoSlot]
    /\ runnerEnv' = [runnerEnv EXCEPT ![a] = FALSE]
    /\ cutShort' = (cutShort \/ pc[a] = "syncInit")
    /\ Fault
    /\ UNCHANGED <<store, jwt, minted, custody, survivors>>

\* Power failure: what was not synced may be undone.
HostCrash ==
    /\ custody' \in survivors
    /\ survivors' = {custody'}
    /\ cutShort' = FALSE
    /\ lock' = NoAgent
    /\ servers' = [i \in Slots |-> NoServer]
    /\ pc' = [a \in Agents |-> "idle"]
    /\ job' = [a \in Agents |-> NoJob]
    /\ creds' = [a \in Agents |-> NoCustody]
    /\ launching' = [a \in Agents |-> NoSlot]
    /\ nixRuntime' = [a \in Agents |-> NoSlot]
    /\ runnerEnv' = [a \in Agents |-> FALSE]
    /\ Fault
    /\ UNCHANGED <<store, jwt, minted>>

\* Users touch the files only while nothing runs.
Quiet == lock = NoAgent /\ \A i \in Slots : ~Alive(i)

UserLosesCustody ==
    /\ Quiet
    /\ custody.file = "ok"
    /\ custody' \in {NoCustody, TornCustody}
    /\ survivors' = {custody'}
    /\ cutShort' = FALSE
    /\ UNCHANGED <<store, jwt, minted, lock, servers, agentVars, faults>>

\* "restore its backup": the one taken right after initialization.
UserRestoresCustody ==
    /\ Quiet
    /\ Initialized(store)
    /\ custody' = Custody(store.gen, RootToken)
    /\ survivors' = {custody'}
    /\ cutShort' = FALSE
    /\ UNCHANGED <<store, jwt, minted, lock, servers, agentVars, faults>>

UserLosesData ==
    /\ Quiet
    /\ Initialized(store)
    /\ minted < MaxInits
    /\ store' = EmptyStore
    /\ jwt' = 0
    /\ UNCHANGED <<minted, custody, survivors, cutShort, lock, servers, agentVars, faults>>

\* A backup of vault-data that predates everything done since initialization.
UserRestoresOldData ==
    /\ Quiet
    /\ Initialized(store)
    /\ store' = FreshStore(store.gen)
    /\ jwt' = 0
    /\ UNCHANGED <<minted, custody, survivors, cutShort, lock, servers, agentVars, faults>>

\* Somebody with a token mounts an engine at transit/.
UserMountsTransit ==
    /\ \E i \in Slots : servers[i].state = "up" /\ ~servers[i].sealed
    /\ store.transit = "none"
    /\ \E kind \in TransitFound : store' = WithTransit(store, kind)
    /\ UNCHANGED <<jwt, minted, custody, survivors, cutShort, lock, servers, agentVars, faults>>

-----------------------------------------------------------------------------

InitStep(a) ==
    \/ InitRequest(a) \/ LaunchNix(a) \/ WaitReady(a) \/ LaunchDocker(a)
    \/ Load(a) \/ InitStatus(a) \/ InitVault(a) \/ SaveInit(a) \/ SyncInit(a)
    \/ Unseal(a) \/ Mounts(a) \/ MountSecret(a) \/ InstallToken(a)
    \/ SaveToken(a) \/ SyncToken(a) \/ LookupSelf(a)
    \/ Abort(a) \/ Cleanup(a)

StartStep(a) ==
    \/ StartRequest(a) \/ WaitForReady(a) \/ EnableTransit(a) \/ CreateKey(a)
    \/ JwtGet(a) \/ JwtPost(a)

UserStep ==
    \/ UserLosesCustody \/ UserRestoresCustody \/ UserLosesData
    \/ UserRestoresOldData \/ UserMountsTransit

Next ==
    \/ \E a \in Agents : InitStep(a) \/ StartStep(a) \/ Stop(a) \/ AgentCrash(a)
    \/ \E i \in Slots : ServerUp(i) \/ ServerCrash(i)
    \/ HostCrash
    \/ UserStep

Spec == Init /\ [][Next]_vars

\* An RPC that has begun goes on, somebody asks for Init again, and a process
\* that was launched comes up or exits.
Fairness == /\ \A a \in Agents : WF_vars(InitStep(a))
            /\ \A i \in Slots : WF_vars(ServerUp(i))

FairSpec == Spec /\ Fairness

-----------------------------------------------------------------------------
(* Properties *)

\* Init has returned success.
Published(a) == pc[a] \in {"ready", "started"} \cup StartSteps

\* An agent that has published its connection still holds the flock, so at
\* most one agent serves the state directory, whatever Stops, crashes and
\* failed Inits of other agents happened meanwhile.
PublishedHoldsLock == \A a \in Agents : Published(a) => lock = a

\* The token an agent published is one the storage accepts.  It may come from
\* custody that a user restored, next to data a user restored, or from a
\* configured token whose installation was interrupted.
PublishedTokenAccepted ==
    \A a \in Agents : Published(a) => Accepted(creds[a].gen, creds[a].access)

\* Custody next to initialized storage always belongs to that storage:
\* bootstrap never initializes over custody of an earlier store, nor saves
\* custody for another one.
CustodyMatchesStore ==
    Initialized(store) /\ custody.file = "ok" => custody.gen = store.gen

\* Steps bootstrap takes only with custody in hand.
HasCustody(a) == Published(a) \/ pc[a] \in {"unseal", "mounts", "mountSecret", "installToken",
                                            "saveToken", "syncToken", "lookupSelf"}

\* What a power failure at any later moment would leave in credentials.json,
\* once bootstrap has gone past save(): never a torn file or the credentials
\* of other storage, and always credentials that unseal this storage, except
\* where the first save was cut short between its rename and the sync of the
\* directory and no save has synced it since: a later Init finds the file and
\* goes on without a sync of its own.  Lost calls, crashes of the server and
\* agents killed anywhere else excuse nothing.
CustodySurvives ==
    \A a \in Agents : HasCustody(a) =>
        \A c \in survivors : \/ c.file = "ok" /\ c.gen = store.gen
                             \/ c.file = "absent" /\ cutShort

\* When Start returns success KV v2 is at secret/, a JWT signing key is in it,
\* and a transit engine at transit/ has the key.
StartedIsProvisioned ==
    \A a \in Agents :
        pc[a] = "started" => store.secret = "kv2" /\ jwt # 0
                             /\ (store.transit = "transit" => store.key)

\* The agents, their crashes and their users implement VaultCustody: keys are
\* minted only where neither storage nor custody exists, and credentials.json
\* only ever appears, a power failure included, for the keys in use.
Abstract == INSTANCE VaultCustody
            WITH keys <- store.gen, kept <- IF custody.file = "ok" THEN custody.gen ELSE 0
KeepsCustody == Abstract!Spec

\* What no further Init repairs: custody that is torn, missing, without its
\* storage or with a token the storage lacks; a token Vault has and custody does
\* not name (it cannot be configured, see InstallsOnlyNewTokens); a failed
\* teardown that left the lock to be released by another Stop.
NeedsUser ==
    \/ custody.file = "torn"
    \/ Initialized(store) # (custody.file = "ok")
    \/ custody.file = "ok" /\ ~Accepted(custody.gen, custody.access)
    \/ store.tokens \ {custody.access} # {}
    \/ \E a \in Agents : lock = a /\ pc[a] = "idle"

\* An agent without the lock ends another's container: by a Stop or Destroy,
\* or by the second teardown of a failed Init, which runs after the first one
\* released the lock.
StopsAnother ==
    \E a \in Agents : lock # a /\ (Stop(a) \/ Cleanup(a)) /\ servers' # servers

\* Once faults stop, and agents no longer stop each other's container (two that
\* both retry Init can do so for ever), asking for Init again and again succeeds
\* unless a user has to act: no crash, lost call or leftover container leaves
\* the directory in a state bootstrap cannot get past.
RetriedInitSucceeds ==
    <>[][~StopsAnother]_vars => []<>((\E a \in Agents : Published(a)) \/ NeedsUser)

\* localstate.go: "The lock covers the server lifetime, not just bootstrap": as
\* long as a Vault process lives, the agent that runs it holds the lock.
\* (Processes that outlived a killed agent have no such agent.)
LockCoversServer ==
    \A i \in Slots : Alive(i) /\ servers[i].by # NoAgent => lock = servers[i].by

\* LOCAL-PERSISTENCE.md: "An explicitly configured local token is installed
\* using Vault's token API": the call that installs it can succeed, i.e. the
\* id is not one Vault already has.
InstallsOnlyNewTokens ==
    \A a \in Agents : pc[a] = "installToken" => job[a].token \notin store.tokens

\* LOCAL-PERSISTENCE.md: the server "can be replaced without replacing
\* transit keys or the KV v2 data used by consumers": a JWT signing key is
\* seeded once per storage.
JwtSeededOnce == jwt <= 1
===============================================================================
