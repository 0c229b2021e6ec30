# TLA+ model of the Vault service agent

This directory models how the Vault agent initializes, provisions and runs a
Vault, both deployed (a durable StatefulSet, or a dev server for a local apply)
and locally (`codefly run`), what a deployment renders and tells its consumers,
and how the server's log is redacted. TLC checks the models on small instances;
TLAPS proves their safety invariants for every instance.

## Inventory

| Part | State it keeps | Operations | What is hard |
|------|----------------|------------|--------------|
| Durable container (`provision/server.sh`, StatefulSet) | the server process, readiness | seal check, start, provision, stop on failure, restart | crash at any step, readiness beside provisioning |
| Durable provisioning (`provision/provision.sh durable`) | `init.json`, `init.json.partial`; Vault's raft storage | initialize, install the access token, mount KV and transit, create the key, retire the root | lost responses, ignored exit statuses, re-runs over partial states, operators and consumers acting in between |
| Dev provisioning (`provision.sh dev`) | in-memory Vault | mount transit, create the key | re-run on every start, lost calls, a Secret that changes under a running pod |
| Local runtime (`runtime.go`) | handles to the process or container, published token | Init, Start, Stop, Destroy | teardown on error paths, lost calls, several agents |
| Local custody (`localstate.go`) | `runtime.lock`, `credentials.json`, `vault-data` | open/close (flock), load, save, bootstrap | power failure around a save, files lost or restored by users, configured tokens |
| Nix adapter (`nixvault.go`) | the native process | launch, wait, stop | waits that expire, processes left behind |
| Deployment rendering (`builder.go`, `provision.go`, `external.go`, templates) | settings, endpoint; per request: parameters, configuration | Load, Create, Deploy, external binding | concurrent requests; choosing dev, durable or external; never leaking a secret |
| Connection configuration (`main.go`) | none (pure) | address and token for consumers | what a restricted render may carry |
| Log redaction (`vaultlog.go`) | the unfinished line, a mutex | Write | secrets split across chunks, two writers, refused lines |
| Audit, SBOM, upgrade, image, CI | none | calls into the core library | not modelled |

The parts meet in Vault: provisioning and bootstrap are clients of a server
that they also start and stop. The deployed and the local side share no state;
they share the goal (KV v2 at `secret/`, transit at `transit/` with the named
key, an accepted access token).

## Modules

* `VaultStore` is what Vault keeps, seen from the calls made here (external).
  An initialization mints a *generation*; its root token and unseal or recovery
  key are represented by the generation's number.
* `DurableProvision` is the deployed container. Each vault CLI call of
  `provision.sh` is one action, named after the function it is in
  (`ReadInit`, `OperatorInit`, `RecordResponse`, `Publish` are `initialize`;
  `Lookup`, `CreateToken`, `Relookup` are `install_access_token`; `Probe`,
  `Enable`, `Options` are `provision_kv` and `provision_transit`, for the
  target named by the variable `target`; `Retire`, `Revoke`, `RevokeCheck`,
  `Scrub` are `retire_initial_root`). `stopping` is the branch of `server.sh`
  that stops the server after a failed run. Probes, crashes, consumers and
  operators are actions of their own.
* `LocalRuntime` is `codefly run`: several agents over one state directory.
  `servers` holds the live Vault processes; an agent talks to whichever one
  listens on its port. `survivors` is the set of contents `credentials.json`
  may have after a power failure: `save` adds the new content at the rename and
  drops the old one at the directory sync. `nixRuntime` and `runnerEnv` are
  the two handles of `Runtime`, which nothing resets.
* `VaultCustody` is the abstract specification both of these implement
  (`KeepsCustody`): `keys`, the generation the storage is encrypted with; `kept`,
  the one whose credentials are in custody (`init.json`, `credentials.json`).
  Keys are minted only where neither is there, and only the storage's own keys
  enter custody; either may be lost. Every call, file, lock and crash of the
  detailed modules is a stuttering step or one of `Mint`, `Keep` and `Lose`.
* `Rendering` has no state: operators, named after the functions they translate,
  for what one Deploy decides (`externalInstance`, `restrictedOutput`,
  `Parameters`), whether `Prepare` accepts the request (`Prepares`), what
  consumers receive (`Configuration`), what `Prepare` writes back for the templates
  (`PreparedParameters`: the allocated port; `PreparedDeployment`: the renamed or
  dropped secret references and the exported token) and what the templates render
  from exactly that (`Manifest`). Port 0 is a network instance without a port, for
  which the Service falls back to 8200; `NoInstance` is the absence of an instance.
  URLs and paths are reduced to a few accepted and refused values, a secret
  reference to its source name and whether it is optional.
* `BuilderDeploy` is the Builder agent: `Load` and `Create`, then several Deploys
  at once, each in the steps between which core runs (`Deploy`, `Prepare`,
  `Render`, `Respond`); core may refuse in between. `deployment` is the context core
  hands to `Prepare`; `Render` reads nothing but it and `parameters`.
* `DevProvision` composes `Rendering` and `VaultStore`: deployments are applied to
  a cluster, the kubelet starts the dev server with the Secret's token, and each
  call of the postStart hook (`provision.sh dev`) is an action.
* `LogRedaction` is the `lineRedactingWriter`. `Enter`, `EmitLine` and `Return`
  are the parts of `Write` between which the destination works; its callers are
  the server's output and `waitReady`'s own line. `strings.ReplaceAll` is a `Pass`
  over the line from left to right: `Tails` says what each position's rest becomes,
  from the last position backwards. The mask is what the code writes, four asterisks,
  and an asterisk is a symbol a token or a line may hold as well.
* `MCDurableProvision`, `MCLocalRuntime`, `MCBuilderDeploy`, `MCDevProvision` and
  `MCLogRedaction` give the constants values for TLC.
* `DurableProvisionProofs`, `LocalRuntimeProofs`, `BuilderDeployProofs`,
  `DevProvisionProofs` and `LogRedactionProofs` hold the theorems about the module
  each is named after; `RenderingProofs` holds the lemmas on `Rendering` that those of
  the builder and the dev pod share.

Definitions called `Mutant_...` are deliberate faults next to the definition they
alter. Nothing uses them; substituting one must break the property it was
written for.

### What is external

Vault's API, the codefly core library's Docker environment, the kubelet and the
kernel are not in this repository. Assumptions that matter: `create-orphan`
refuses an existing id; enabling a mounted path and creating an existing key
change nothing; a KV v1 mount accepts any write below its path; the Docker daemon
runs at most one container of the service's name, and an Init that finds one
reuses or replaces it (both are explored); a container outlives a killed agent,
a native process may; a flock ends with its process; Vault's file backend is
durable once a call returned. core's `DeployKustomize` calls `Prepare` before it
renders, keeps each request's context apart, and fills the templates from what
`Prepare` left. The kubelet kills a container whose postStart hook fails, probes only
after the hook, replaces the pod when its template changes and reads a Secret at
container start; only ready pods receive traffic.

## Runs

Passing:

| Run | Bounds | Shows |
|-----|--------|-------|
| `durable` | 2 tokens, 2 generations, 3 faults, fairness | `RecordMatchesStore`, `NeverLockedOut`, `UnrecordedHoldsNothing`, `ServingIsProvisioned`, `Converges`, `KeepsCustody` |
| `local_docker` | 2 agents, 1 token, 2 generations, 2 faults, fairness | lock, custody, durability of custody, published token, provisioned state, `KeepsCustody`, `RetriedInitSucceeds` |
| `local_nix` | 2 agents, 2 processes, 2 generations, 1 fault | lock, published token and custody for native processes, leftovers included |
| `log` | tokens `aba`, `a*` and none; 6 symbols of output over `a`, `b`, `*` and the line feed in chunks of up to 3; the agent's line `ba`; 1 refused line | `LogIsTheStream`, `NoTokenLogged` |
| `deploy` | 2 requests over 2 environments, 3 profiles, 4 sets of references, 2 tokens and a blank one, no instance, no port and 2 ports; 18 settings | `RestrictedHoldsNoToken`, `BoundNeverRunsVault`, `ConsumersFitTheRender`, `TokensRequestScoped` |
| `dev` | 3 deployments with 3 tokens and 2 keys, 3 faults, fairness | `ReadyIsProvisioned`, `OnlyTokenChangeStrands`, `Settles` |

Two generations are enough to have a record or custody of one Vault next to the
storage of another; two tokens for a rotation; three faults for a crash during
the recovery from a crash that followed a lost call. Runs of the container, Init, Stop
and Start repeat without bound. `MaxServers` is two only for native processes,
of which one may be left over. One token of `log` overlaps itself, so a match can
swallow the beginning of the next, and one can be completed by a mask; six symbols and
the agent's line hold two tokens and a line feed, and chunks of three cut them
everywhere. `deploy` combines everything the code tells apart (a missing instance or
port only with one environment and one set of references), and two requests suffice
for one to disturb another.
Three deployments change the token and the key in either order and back.

Violations. Each is a disagreement between the code and what the repository
says of it; `PROJECT.json` quotes the lines.

| Run | The code |
|-----|----------|
| `durable_scrub` | scrubs the record when the revocation check fails for any reason, with the root token still valid |
| `durable_ready` | is ready before it is provisioned |
| `local_nix_leak` | releases the lock over a native server whose readiness wait failed |
| `local_stale_handle` | tears down a Docker run through the handle of an earlier nix run |
| `local_token_reuse` | asks Vault to create a token it already has |
| `local_jwt` | replaces the JWT signing key after one failed GET |

More differences show in the models and have no run of their own:

* The header of `provision.sh` (line 22) says a crash "can never lose the only root
  token". A pod killed between `OperatorInit` and `RecordResponse` loses it; the
  failure message at line 158 describes that case. `UnrecordedHoldsNothing` is what
  makes it harmless.
* `LOCAL-PERSISTENCE.md` (line 20) limits the window in which custody can be lost
  to the first initialization. An agent killed between the rename and the directory
  sync of `save` leaves a file that the next Init uses and never syncs, so the window
  stays open until a later save. `CustodySurvives` allows a missing file in exactly
  that case (`cutShort`: a first save was interrupted between the two, and none has
  synced since) and after no other fault.
* `enableTransit` takes every engine at `transit/` for transit, where
  `provision_transit` refuses it. `StartedIsProvisioned` therefore asks for the key
  only in a transit engine.
* After a failed bootstrap `Init` tears down twice (`runtime.go` lines 175 and
  113-122). The first teardown releases the lock, another agent may take it and start
  the container of the same name, and the second teardown stops it. Two agents that
  both retry can do this to each other for ever; `RetriedInitSucceeds` excludes
  exactly that (`StopsAnother`).
* A new token in a local apply changes the Secret but not the pod template, so a
  running dev server keeps the old one while consumers are configured with the new
  one, until something restarts it. `OnlyTokenChangeStrands` says that nothing else
  leaves consumers with a token the server refuses.
* `VaultTokenFromConfiguration` refuses blank tokens only; `provision.sh` refuses
  every value outside the token alphabet. A local apply with such a token deploys and
  then restarts for ever; `Settles` excludes it.
* `waitReady` writes its line into the same writer as the server's output. If it lands
  inside a server line that prints the token, the two halves of the token end up on two
  log lines and neither is masked: `NoTokenLogged` speaks of whole occurrences in one
  line. A last line without a line feed is never logged, and after a refused line the
  complete lines behind it wait for the next `Write`.
* The mask is text. A token that contains an asterisk, which nothing refuses, can
  reappear where a mask meets its neighbours: with the token `a*` the line `aa*` is
  logged as `a****`. `NoTokenLogged` is about tokens without one; the run's second token
  is such a token, and `LogIsTheStream` says what is logged of it. A token that
  contains a line feed is never found, as only single lines are searched.

### Fairness

`Converges` assumes weak fairness of the shell's next step, of the kubelet
restarting and removing containers, of the server starting and of the seal
unsealing it. Nothing is assumed of crashes, lost calls, probes, consumers or
operators. Faults are finite, so the property says what happens once they stop;
a wait that expires although the server would have come up counts as a fault.
`NeedsOperator` lists what a restart cannot repair: no seal, no usable token in
the Secret, lost storage under a record, a token neither known to Vault nor
installable, a foreign engine at one of the two paths.

`RetriedInitSucceeds` assumes weak fairness of the steps of an agent's Init, which
includes that somebody asks for it again, and of a launched server coming up. Faults
are finite and users, Stops and Destroys are free to happen. `NeedsUser` lists what
only a user can repair. `Settles` assumes weak fairness of the kubelet's restarts and
probes, of the dev server coming up and of the hook's next step; nobody has to deploy.

## Proofs

Every safety invariant of the passing runs, and both refinements, are theorems: they
hold for any number of agents, requests, tokens, generations, processes and faults,
and for output of any length. Three theorems state the condition under which a
statement that a violation run refutes is true after all: `LockCoversContainers`,
`ScrubbedAfterAnswer`, `SeededOnce`. Each module's proof has the same shape: an
inductive invariant `IndInv` that contains `TypeOK`, the lemma `IndStep` (or one
lemma per group of actions) with one case per action, `IndInvariant`, and short
theorems that follow from it. TLC checked the inductive invariants of the local
side, of the dev pod and of log redaction on the instances of the runs before they were proved.

### The durable container

From `TokensAssumption` and `BoundsAssumption` (the missing token is not a token;
the bounds are naturals): `TypeCorrect`, `RecordsMatch`, `NobodyLockedOut`,
`AdviceIsSafe`, `ServingProvisioned` and `ImplementsCustody`.

`TypeOK` alone is not inductive: the token installed in Vault is a token id only
because `Validate` checked it (`TokenChecked`). The invariants need, per step of the
script, what earlier steps established: while `initialize` runs there is no record
and the store is fresh (`InitializeInv`); a partial response and a record never
coexist (`FilesInv`); `$root` is what the record held (`RootInv`), so nothing can
be written into a Vault whose response was not recorded; the access token has
been seen to work before anything is mounted or revoked, and each mount before
the next (`ProgressInv`).

`ImplementsCustody` is the refinement: most calls keep the generation of the storage
and of the record and stutter (`CustodyStutters`, `CallsKeepGeneration`);
`OperatorInit` is `Mint`, `Publish` is `Keep`, and `IndInv` says that the one finds
neither storage nor record and the other a response for the storage's own keys.

`ScrubbedAfterAnswer` is about the statement that `durable_scrub` refutes: the record
loses the root token only once Vault refuses that token. It holds of every behaviour
in which the check after the revocation is answered (`CheckAnswered`: the server is
there and the answer is not lost), whatever else crashes or is lost. `RetiredInv`
carries it: once a check has found the root refused, it stays refused, because the
only step that brings a root token into the storage, `OperatorInit`, needs fresh
storage.

### The local side

From `NamesAssumption` (the names for "none" are no agents or tokens, the kinds are
docker and nix, there is a port) and `BoundsAssumption`: `TypeCorrect`,
`OnePublisher`, `PublishedAccepted`, `CustodyFitsStore`, `CustodyDurable`,
`StartProvisions`, `ImplementsCustody`, and `LockCoversContainers` under the
hypothesis that only containers are run.

* `LockInv`: at every step but `idle` and `cleanup` an agent holds the flock. This
  makes the other parts hold: whatever is between an agent's read of the files and
  its use of what it read, no other agent wrote them.
* `AgentInv` says what each step of bootstrap and Start rests on: what `load`
  returned is still what is on disk (`StatusKnown`); keys are minted only where there
  is neither storage nor custody (`NothingYet`) and saved as they were minted
  (`FreshInHand`); from then on file, memory and storage are of one generation
  (`CustodyInHand`); only a configured token is ever installed
  (`InstallsConfigured`, without which `TypeOK` is not inductive); a published token
  is accepted (`TokenAccepted`); the mounts and the key are there before the JWT is
  seeded (`TransitSettled`, `JwtSeeded`).
* `SurvivorsInv`: what a power failure may bring back is of the generation in
  custody, and a missing file is possible only before the directory sync of a first
  save or where such a save was cut short (`cutShort`).
* `DockerInv`, for `LockCoversContainers`: the agent recorded for a container has a
  handle to it and the flock, and there is no nix handle that could stand in for
  the container's in a teardown. Without the hypothesis the property is false: the runs
  `local_nix_leak` and `local_stale_handle` are the counterexamples.
* `JwtInv`, for `SeededOnce`: the JWT signing key is seeded at most once per storage
  when every GET of it is answered (`GetAnswered`), whatever other calls are lost. An
  agent at the POST has found no key, and it has held the flock since it looked
  (`LockInv`), so nobody else POSTed. A GET that fails breaks this: `local_jwt`.

### Deployments

From `DefaultKeyAssumption` (the default key is a plain name) and
`RequestsAssumption` (there are requests; a reference is optional or not; no
configured token is the marker for an absent one): `TypeCorrect`,
`RestrictedIsTokenless`, `BoundStaysExternal`, `ConsumersFit` and
`TokensStayInTheirRequest`. Nothing is assumed of the settings files.

What one request computes is described by five facts (`ParametersFit`,
`BindingFits`, `ConfigurationFits`, `PreparedFits`, `ManifestFits`), proved in
`RenderingProofs` for any settings and request; that the rendered port, Secret and
reference are the request's goes through `PreparedFits`, what `Prepare` left.
`CallInv` says that what a request has computed so far is what the shared settings
would make of it now, and that only its own `Prepare` has written to its parameters
and deployment. That needs `LoadedInv`: nothing is
under way when `Load` replaces the settings, and `Create`, which may run beside
Deploys, writes the default over the default.

### The dev pod

From `TokenIdsAssumption`, `RequestsAssumption` (a request's token is blank or one
of the tokens) and `BoundsAssumption`: `TypeCorrect`, `ReadyProvisioned` and the
action property `StrandedByTokenAlone`. `PodInv` ties the container to the deployment in force (its key) and
the store to the container (its one token, KV v2 from the start); `HookInv` says what
each step of the hook has found, and that only a pod whose hook is through is ready;
`AppliedInv`, that the Secret and the consumers got the same value, rests on
`RenderingProofs`. A step after which the running server refuses the consumers' token
is then an `Apply`: a start takes the Secret's token, no other step changes either side,
and an `Apply` that changes the key ends the container.

### Log redaction

From `SymbolsAssumption` and `BoundsAssumption`: `TypeCorrect`, `LogFaithful` and
`TokenNeverLogged`, for a token of any length that overlaps itself in any way (the last
for those without an asterisk), any output, any chunks, any interleaving of the two writers and any number of refused
lines.

What a pass over a line computes needs an induction over its positions. The library's
induction theorems take an operator as a parameter, so the induction is done on sets:
a set of naturals that is not empty has a least member (`LeastNatural`), hence a set
that contains the last position and, with a position, the one before, is all of them
(`Backwards`); `Recursion` and `TailsFacts` give the equations of `Tails` from it. On
these rests `NoOccurrence`: a redacted line holds no occurrence of a token without an
asterisk. No symbol of a mask can be part of one, so it would lie in symbols that were
copied, and the pass has looked for a match at each of them.

`IndInv` then says of the stream: the buffer is its end, from behind the last line that
was logged or refused (`BufferIsTheRest`); the logged lines are the ones the line feeds
cut, in order and each redacted (`LogIsFaithful`); and outside `Write` a complete line waits in the
buffer only after a refusal (`NothingWaits`). That the cuts of a longer stream begin
with those of a shorter one (`CutProlonged`, `CutNext`) makes it inductive.

### Only model-checked

* `Converges`, `RetriedInitSucceeds` and `Settles`: liveness under fairness is out of
  the prover's reach.
* The statements of `durable_ready` and `local_token_reuse` are refuted and have no
  theorem: the first fails on the ordinary first start, the second as soon as a
  configured token is changed back.

## Not modelled

Directory and volume errors of `provision.sh` other than those equal to a crash at the
same point; unsynced writes of `init.json` on a node's power failure; revocation of
access tokens by operators; unmounting; custody files without an access token (older
agents); concurrent RPCs to one Runtime agent, and Start on an agent whose Init failed;
other services on the same port.

In a deployment: the syntax of URLs, paths and key names; the time a rollout takes
(`DevProvision.Apply` ends the replaced pod in the step that changes its template, while
a StatefulSet keeps the old pod until its controller acts); the environment variable
manager that all Deploys of a Builder pass to core (`builder.go` line 179), which core
is taken not to change; the Service's immutable
`clusterIP` when a changed port is applied (the template's comment describes the manual
step); two Deploys into the same destination directory; a second Load of one Builder.
The mapping of Vault's log levels, Audit, SBOM, Upgrade, the agent's advertisement, the
runtime image and the release files have no state of their own. `Runtime.Load`,
`Information` and `Test` change nothing the properties are about.

## Plan

1. Done: `VaultStore`, `DurableProvision`, `LocalRuntime`, `VaultCustody` and both
   refinements, `Rendering`, `BuilderDeploy`, `DevProvision`, `LogRedaction`, liveness;
   the proofs of every safety invariant and of the refinements; the conditions under
   which the statements of four of the six violation runs hold.
2. When the code changes: a teardown that resets its handles, and a failed wait that
   stops the process, would make `LockCoversServer` provable without its hypothesis; a
   GET that tells "absent" from an error would do the same for `JwtSeededOnce`, and a
   check that does so for `ScrubbedOnlyOnceRevoked`.
