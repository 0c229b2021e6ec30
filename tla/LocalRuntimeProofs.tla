-------------------------- MODULE LocalRuntimeProofs --------------------------
(***************************************************************************)
(* The safety invariants of LocalRuntime, for every set of agents, tokens   *)
(* and ports and every bound.                                               *)
(*                                                                          *)
(* The argument: an agent between InitRequest and the end of its teardown   *)
(* holds the flock (LockInv), so what it learned of storage and custody at  *)
(* one step still holds at the next (AgentInv), and of all agents only the  *)
(* holder has anything to keep.  A power failure replaces credentials.json  *)
(* by one of `survivors`, so these have to fit as well (SurvivorsInv).      *)
(***************************************************************************)
EXTENDS LocalRuntime, TLAPS

\* Steps at which an agent may be without the flock.
Outside == {"idle", "cleanup"}

LockInv == \A a \in Agents : pc[a] \notin Outside => lock = a

\* What bootstrap and Start of agent a have established at each step.
StatusKnown(a) ==
    pc[a] = "initStatus" =>
        \/ creds[a].file = "ok" /\ creds[a] = custody
        \/ creds[a].file = "absent" /\ custody.file = "absent"

NothingYet(a) == pc[a] = "init" => custody.file = "absent" /\ ~Initialized(store)

FreshInHand(a) ==
    pc[a] = "saveInit" => /\ custody.file = "absent"
                          /\ Initialized(store)
                          /\ creds[a] = Custody(store.gen, RootToken)

CustodyInHand(a) ==
    pc[a] = "syncInit" \/ HasCustody(a) =>
        /\ Initialized(store)
        /\ custody.file = "ok" /\ custody.gen = store.gen
        /\ creds[a].file = "ok" /\ creds[a].gen = store.gen

InstallsConfigured(a) == pc[a] = "installToken" => job[a].token \in Tokens

TokenAccepted(a) == Published(a) => Accepted(creds[a].gen, creds[a].access)

TransitSettled(a) ==
    pc[a] \in {"jwtGet", "jwtPost", "started"} =>
        /\ store.transit # "none"
        /\ store.transit = "transit" => store.key

JwtSeeded(a) == pc[a] = "started" => store.secret = "kv2" /\ jwt # 0

AgentInv(a) == /\ StatusKnown(a)
               /\ NothingYet(a)
               /\ FreshInHand(a)
               /\ CustodyInHand(a)
               /\ InstallsConfigured(a)
               /\ TokenAccepted(a)
               /\ TransitSettled(a)
               /\ JwtSeeded(a)

\* Files a power failure may bring back: credentials only of the generation
\* in custody, nothing torn unless custody is, and no missing file once custody
\* is there, except between the rename and the sync of the directory or after a
\* save that was cut short there.
SurvivorsInv ==
    \A c \in survivors :
        /\ c.file = "ok" => custody.file = "ok" /\ c.gen = custody.gen
        /\ c.file = "torn" => custody.file = "torn"
        /\ c.file = "absent" /\ custody.file = "ok" =>
               cutShort \/ \E a \in Agents : pc[a] = "syncInit"

IndInv == /\ TypeOK
          /\ LockInv
          /\ \A a \in Agents : AgentInv(a)
          /\ SurvivorsInv
          /\ CustodyMatchesStore

\* Where only containers are run: no nix handle exists, and the agent recorded
\* for a container has a handle to it and the flock.
ServerInv(i) ==
    /\ servers[i].kind = "docker"
    /\ servers[i].state = "none" => servers[i].by = NoAgent
    /\ \A a \in Agents : servers[i].by = a => runnerEnv[a] /\ lock = a

DockerInv ==
    /\ \A i \in Slots : ServerInv(i)
    /\ \A a \in Agents : /\ job[a].kind = "docker"
                         /\ nixRuntime[a] = NoSlot
                         /\ pc[a] # "waitReady"

-----------------------------------------------------------------------------
(* Types *)

\* The calls of VaultStore map a store to a store.
LEMMA StoreTypes ==
    ASSUME NEW s \in StoreType
    PROVE  /\ EmptyStore \in StoreType
           /\ \A g \in Generations : FreshStore(g) \in StoreType
           /\ \A t \in Tokens : WithToken(s, t) \in StoreType
           /\ \A k \in SecretMounts : WithSecret(s, k) \in StoreType
           /\ \A k \in TransitMounts : WithTransit(s, k) \in StoreType
           /\ WithKey(s) \in StoreType
<1> USE BoundsAssumption
        DEF StoreType, Generations, SecretMounts, TransitMounts, EmptyStore
<1>1. EmptyStore \in StoreType
  OBVIOUS
<1>2. \A g \in Generations : FreshStore(g) \in StoreType
  BY DEF FreshStore
<1>3. \A t \in Tokens : WithToken(s, t) \in StoreType
  BY DEF WithToken
<1>4. \A k \in SecretMounts : WithSecret(s, k) \in StoreType
  BY DEF WithSecret
<1>5. \A k \in TransitMounts : WithTransit(s, k) \in StoreType
  BY DEF WithTransit
<1>6. WithKey(s) \in StoreType
  BY DEF WithKey
<1> QED
  BY <1>1, <1>2, <1>3, <1>4, <1>5, <1>6

\* The values that stand for "nothing" have the types of what they replace.
LEMMA NothingTypes ==
    /\ NoServer \in ServerType
    /\ NoJob \in JobType
    /\ NoCustody \in CustodyType
    /\ TornCustody \in CustodyType
    /\ \A g \in Generations : Custody(g, RootToken) \in CustodyType
    /\ NoSlot \in 0..Gone
    /\ Gone \in 0..Gone
<1>1. (CHOOSE p \in Ports : TRUE) \in Ports
  BY NamesAssumption
<1>2. NoServer \in ServerType /\ NoJob \in JobType
  BY <1>1 DEF NoServer, NoJob, ServerType, JobType
<1> QED
  BY <1>2, BoundsAssumption
     DEF NoCustody, TornCustody, Custody, CustodyType, Generations, NoSlot, Gone

\* A step that spends a fault, or none, stays within the budget.
LEMMA FaultsType ==
    ASSUME faults \in 0..MaxFaults, Fault \/ UNCHANGED faults
    PROVE  faults' \in 0..MaxFaults
BY BoundsAssumption DEF Fault

\* An agent that goes to a step of the program stays within it.
LEMMA GotoType ==
    ASSUME pc \in [Agents -> Steps], NEW a \in Agents, NEW step \in Steps, Goto(a, step)
    PROVE  /\ pc' \in [Agents -> Steps]
           /\ pc'[a] = step
           /\ \A b \in Agents \ {a} : pc'[b] = pc[b]
BY DEF Goto

\* What one HTTP call may do to the caller.
LEMMA OutcomeType ==
    ASSUME TypeOK, NEW a \in Agents, NEW granted, NEW done, NEW next \in Steps,
           NEW fail \in Steps, Outcome(a, granted, done, next, fail)
    PROVE  /\ pc' \in [Agents -> Steps]
           /\ faults' \in 0..MaxFaults
           /\ \A b \in Agents \ {a} : pc'[b] = pc[b]
           /\ \/ granted /\ done /\ pc'[a] = next
              \/ pc'[a] = fail
           /\ done => granted
BY FaultsType, GotoType DEF Outcome, TypeOK

\* Ending processes leaves well-typed servers and handles.
LEMMA EndType ==
    ASSUME TypeOK, NEW S, End(S)
    PROVE  /\ servers' \in [Slots -> ServerType]
           /\ launching' \in [Agents -> 0..Gone]
           /\ nixRuntime' \in [Agents -> 0..Gone]
BY NothingTypes DEF TypeOK, End, Reaped

\* Tearing down, whether it succeeds or not, leaves everything well typed.
LEMMA TeardownType ==
    ASSUME TypeOK, NEW a \in Agents, TeardownSucceeds(a) \/ TeardownFails(a)
    PROVE  /\ servers' \in [Slots -> ServerType]
           /\ launching' \in [Agents -> 0..Gone]
           /\ nixRuntime' \in [Agents -> 0..Gone]
           /\ lock' \in Agents \cup {NoAgent}
           /\ faults' \in 0..MaxFaults
<1>1. End(TeardownSet(a)) \/ UNCHANGED <<servers, launching, nixRuntime>>
  BY DEF TeardownSucceeds, TeardownFails
<1>2. /\ servers' \in [Slots -> ServerType]
      /\ launching' \in [Agents -> 0..Gone]
      /\ nixRuntime' \in [Agents -> 0..Gone]
  BY <1>1, EndType DEF TypeOK
<1>3. lock' \in Agents \cup {NoAgent}
  BY DEF TeardownSucceeds, TeardownFails, Close, TypeOK
<1>4. faults' \in 0..MaxFaults
  BY FaultsType DEF TeardownSucceeds, TeardownFails, TypeOK
<1> QED
  BY <1>2, <1>3, <1>4

\* The steps of Runtime.Init keep every variable in its type.
LEMMA InitStepType ==
    ASSUME TypeOK, NEW a \in Agents, InstallsConfigured(a), InitStep(a)
    PROVE  TypeOK'
<1> USE DEF diskVars, handleVars
<1>s. /\ {"idle", "ready", "launch", "waitReady", "abort", "cleanup"} \subseteq Steps
      /\ BootstrapSteps \subseteq Steps
      /\ AfterMounts(a) \in Steps
  BY DEF Steps, Resting, BootstrapSteps, AfterMounts
<1>1. CASE InitRequest(a)
  <2>1. job' \in [Agents -> JobType]
    BY <1>1, NamesAssumption DEF InitRequest, TypeOK, JobType
  <2>2. pc' \in [Agents -> Steps]
    BY <1>1, <1>s, GotoType DEF InitRequest, TypeOK
  <2> QED
    BY <1>1, <2>1, <2>2 DEF InitRequest, Open, TypeOK
<1>2. CASE LaunchNix(a)
  <2>1. Launched(a) \in ServerType
    BY DEF Launched, ServerType, TypeOK, JobType
  <2>2. servers' \in [Slots -> ServerType]
    BY <1>2, <2>1 DEF LaunchNix, TypeOK
  <2>0. Slots \subseteq 0..Gone
    BY BoundsAssumption DEF Slots, Gone
  <2>3. launching' \in [Agents -> 0..Gone]
    BY <1>2, <2>0 DEF LaunchNix, TypeOK
  <2>4. pc' \in [Agents -> Steps]
    BY <1>2, <1>s, GotoType DEF LaunchNix, TypeOK
  <2>5. faults' \in 0..MaxFaults
    BY <1>2, FaultsType DEF LaunchNix, TypeOK
  <2> QED
    BY <1>2, <2>2, <2>3, <2>4, <2>5 DEF LaunchNix, TypeOK
<1>3. CASE WaitReady(a)
  <2>1. pc' \in [Agents -> Steps]
    BY <1>3, <1>s, GotoType DEF WaitReady, TypeOK, BootstrapSteps
  <2>2. faults' \in 0..MaxFaults
    BY <1>3, FaultsType DEF WaitReady, TypeOK
  <2>3. /\ launching' \in [Agents -> 0..Gone]
        /\ nixRuntime' \in [Agents -> 0..Gone]
    BY <1>3, NothingTypes DEF WaitReady, TypeOK
  <2> QED
    BY <1>3, <2>1, <2>2, <2>3 DEF WaitReady, TypeOK
<1>4. CASE LaunchDocker(a)
  <2>1. Launched(a) \in ServerType
    BY DEF Launched, ServerType, TypeOK, JobType
  <2>2. servers' \in [Slots -> ServerType]
    <3>1. \A i \in Slots : [servers[i] EXCEPT !.by = a] \in ServerType
      BY DEF TypeOK, ServerType
    <3>2. Containers \subseteq Slots
      BY DEF Containers
    <3> QED
      BY <1>4, <2>1, <3>1, <3>2 DEF LaunchDocker, TypeOK
  <2>3. runnerEnv' \in [Agents -> BOOLEAN]
    BY <1>4 DEF LaunchDocker, TypeOK
  <2>4. pc' \in [Agents -> Steps]
    BY <1>4, <1>s, GotoType DEF LaunchDocker, TypeOK, BootstrapSteps
  <2>5. faults' \in 0..MaxFaults
    BY <1>4, FaultsType DEF LaunchDocker, TypeOK
  <2> QED
    BY <1>4, <2>2, <2>3, <2>4, <2>5 DEF LaunchDocker, TypeOK
<1>5. CASE Load(a)
  <2>1. creds' \in [Agents -> CustodyType]
    BY <1>5, NothingTypes DEF Load, TypeOK
  <2>2. pc' \in [Agents -> Steps]
    BY <1>5, <1>s, GotoType DEF Load, TypeOK, BootstrapSteps
  <2> QED
    BY <1>5, <2>1, <2>2 DEF Load, TypeOK
<1>6. CASE InitStatus(a)
  <2>1. pc' \in [Agents -> Steps]
    BY <1>6, <1>s, GotoType DEF InitStatus, TypeOK, BootstrapSteps
  <2>2. faults' \in 0..MaxFaults
    BY <1>6, FaultsType DEF InitStatus, TypeOK
  <2> QED
    BY <1>6, <2>1, <2>2 DEF InitStatus, TypeOK
<1>7. CASE InitVault(a)
  <2>1. PICK done \in BOOLEAN :
          /\ Outcome(a, Answers(a) /\ ~Initialized(store) /\ minted < MaxInits, done,
                     "saveInit", "abort")
          /\ store' = IF done THEN FreshStore(minted + 1) ELSE store
          /\ minted' = IF done THEN minted + 1 ELSE minted
          /\ creds' = IF done THEN [creds EXCEPT ![a] = Custody(minted + 1, RootToken)]
                              ELSE creds
    BY <1>7 DEF InitVault
  <2>2. /\ pc' \in [Agents -> Steps]
        /\ faults' \in 0..MaxFaults
        /\ done => minted < MaxInits
    BY <2>1, <1>s, OutcomeType DEF BootstrapSteps
  <2>3. done => minted + 1 \in Generations
    BY <2>2, BoundsAssumption DEF TypeOK, Generations
  <2>4. /\ store' \in StoreType
        /\ creds' \in [Agents -> CustodyType]
    BY <2>1, <2>3, StoreTypes, NothingTypes DEF TypeOK
  <2> QED
    BY <1>7, <2>1, <2>2, <2>3, <2>4 DEF InitVault, TypeOK
<1>8. CASE SaveInit(a) \/ SaveToken(a)
  <2>1. pc' \in [Agents -> Steps]
    BY <1>8, <1>s, GotoType DEF SaveInit, SaveToken, Save, TypeOK, BootstrapSteps
  <2>2. faults' \in 0..MaxFaults
    BY <1>8, FaultsType DEF SaveInit, SaveToken, Save, TypeOK
  <2> QED
    BY <1>8, <2>1, <2>2 DEF SaveInit, SaveToken, Save, TypeOK
<1>9. CASE SyncInit(a) \/ SyncToken(a)
  <2>1. pc' \in [Agents -> Steps]
    BY <1>9, <1>s, GotoType DEF SyncInit, SyncToken, SyncDir, TypeOK, BootstrapSteps
  <2>2. faults' \in 0..MaxFaults
    BY <1>9, FaultsType DEF SyncInit, SyncToken, SyncDir, TypeOK
  <2> QED
    BY <1>9, <2>1, <2>2 DEF SyncInit, SyncToken, SyncDir, Synced, TypeOK
<1>10. CASE Unseal(a)
  <2>1. pc' \in [Agents -> Steps] /\ faults' \in 0..MaxFaults
    BY <1>10, <1>s, OutcomeType DEF Unseal, BootstrapSteps
  <2>2. \A i \in Slots : [servers[i] EXCEPT !.sealed = FALSE] \in ServerType
    BY DEF TypeOK, ServerType
  <2>3. servers' \in [Slots -> ServerType]
    BY <1>10, <2>2 DEF Unseal, TypeOK
  <2> QED
    BY <1>10, <2>1, <2>3 DEF Unseal, TypeOK
<1>11. CASE Mounts(a)
  <2>1. (CASE store.secret = "none" -> "mountSecret"
           [] store.secret = "kv2"  -> AfterMounts(a)
           [] OTHER                 -> "abort") \in Steps
    BY <1>s DEF BootstrapSteps
  <2>2. pc' \in [Agents -> Steps] /\ faults' \in 0..MaxFaults
    BY <1>11, <1>s, <2>1, OutcomeType DEF Mounts, Read
  <2> QED
    BY <1>11, <2>2 DEF Mounts, TypeOK
<1>12. CASE MountSecret(a)
  <2>1. pc' \in [Agents -> Steps] /\ faults' \in 0..MaxFaults
    BY <1>12, <1>s, OutcomeType DEF MountSecret, Write
  <2>2. store' \in StoreType
    BY <1>12, StoreTypes DEF MountSecret, Write, TypeOK, SecretMounts
  <2> QED
    BY <1>12, <2>1, <2>2 DEF MountSecret, TypeOK
<1>13. CASE InstallToken(a)
  <2>1. pc' \in [Agents -> Steps] /\ faults' \in 0..MaxFaults
    BY <1>13, <1>s, OutcomeType DEF InstallToken, Write, BootstrapSteps
  <2>2. job[a].token \in Tokens
    BY <1>13 DEF InstallToken, InstallsConfigured
  <2>3. store' \in StoreType
    BY <1>13, <2>2, StoreTypes DEF InstallToken, Write, TypeOK
  <2>4. creds' \in [Agents -> CustodyType]
    <3>1. [creds[a] EXCEPT !.access = job[a].token] \in CustodyType
      BY <2>2 DEF TypeOK, CustodyType
    <3> QED
      BY <1>13, <3>1 DEF InstallToken, TypeOK
  <2> QED
    BY <1>13, <2>1, <2>3, <2>4 DEF InstallToken, TypeOK
<1>14. CASE LookupSelf(a)
  <2>1. pc' \in [Agents -> Steps] /\ faults' \in 0..MaxFaults
    BY <1>14, <1>s, OutcomeType DEF LookupSelf, Read
  <2> QED
    BY <1>14, <2>1 DEF LookupSelf, TypeOK
<1>15. CASE Abort(a)
  <2>1. pc' \in [Agents -> Steps]
    BY <1>15, <1>s, GotoType DEF Abort, TypeOK
  <2> QED
    BY <1>15, <2>1, TeardownType DEF Abort, TypeOK
<1>16. CASE Cleanup(a)
  <2>1. pc' \in [Agents -> Steps]
    BY <1>16, <1>s, GotoType DEF Cleanup, TypeOK
  <2>2. job' \in [Agents -> JobType] /\ creds' \in [Agents -> CustodyType]
    BY <1>16, NothingTypes DEF Cleanup, TypeOK
  <2>3. CASE TeardownSucceeds(a) \/ TeardownFails(a)
    BY <1>16, <2>1, <2>2, <2>3, TeardownType DEF Cleanup, TypeOK
  <2>4. CASE Close(a) /\ UNCHANGED <<servers, launching, nixRuntime, faults>>
    BY <1>16, <2>1, <2>2, <2>4 DEF Cleanup, Close, TypeOK
  <2> QED
    BY <1>16, <2>3, <2>4 DEF Cleanup
<1> QED
  BY <1>1, <1>2, <1>3, <1>4, <1>5, <1>6, <1>7, <1>8, <1>9, <1>10, <1>11, <1>12, <1>13,
     <1>14, <1>15, <1>16 DEF InitStep

\* The steps of Runtime.Start and Stop, and the end of an agent, keep every
\* variable in its type.
LEMMA AgentStepType ==
    ASSUME TypeOK, NEW a \in Agents, StartStep(a) \/ Stop(a) \/ AgentCrash(a)
    PROVE  TypeOK'
<1> USE DEF diskVars, handleVars
<1>s. {"idle", "ready", "started"} \cup StartSteps \subseteq Steps
  BY DEF Steps, Resting
<1>1. CASE StartRequest(a)
  BY <1>1, <1>s, GotoType DEF StartRequest, TypeOK, StartSteps
<1>2. CASE WaitForReady(a)
  <2>1. pc' \in [Agents -> Steps] /\ faults' \in 0..MaxFaults
    BY <1>2, <1>s, OutcomeType DEF WaitForReady, Read, StartSteps
  <2> QED
    BY <1>2, <2>1 DEF WaitForReady, TypeOK
<1>3. CASE EnableTransit(a)
  <2>1. pc' \in [Agents -> Steps] /\ faults' \in 0..MaxFaults
    BY <1>3, <1>s, OutcomeType DEF EnableTransit, Write, StartSteps
  <2>2. store' \in StoreType
    BY <1>3, StoreTypes DEF EnableTransit, Write, TypeOK, TransitMounts
  <2> QED
    BY <1>3, <2>1, <2>2 DEF EnableTransit, TypeOK
<1>4. CASE CreateKey(a)
  <2>1. pc' \in [Agents -> Steps] /\ faults' \in 0..MaxFaults
    BY <1>4, <1>s, OutcomeType DEF CreateKey, Write, StartSteps
  <2>2. store' \in StoreType
    BY <1>4, StoreTypes DEF CreateKey, Write, TypeOK
  <2> QED
    BY <1>4, <2>1, <2>2 DEF CreateKey, TypeOK
<1>5. CASE JwtGet(a)
  <2>1. pc' \in [Agents -> Steps] /\ faults' \in 0..MaxFaults
    BY <1>5, <1>s, OutcomeType DEF JwtGet, Read, StartSteps
  <2> QED
    BY <1>5, <2>1 DEF JwtGet, TypeOK
<1>6. CASE JwtPost(a)
  <2>1. pc' \in [Agents -> Steps] /\ faults' \in 0..MaxFaults
    BY <1>6, <1>s, OutcomeType DEF JwtPost, StartSteps
  <2>2. jwt' \in 0..2
    BY <1>6 DEF JwtPost, NextVersion, TypeOK
  <2> QED
    BY <1>6, <2>1, <2>2 DEF JwtPost, TypeOK
<1>7. CASE Stop(a)
  <2>1. pc' \in [Agents -> Steps]
    BY <1>7, <1>s, GotoType DEF Stop, TypeOK
  <2>2. job' \in [Agents -> JobType] /\ creds' \in [Agents -> CustodyType]
    BY <1>7, NothingTypes DEF Stop, TypeOK
  <2> QED
    BY <1>7, <2>1, <2>2, TeardownType DEF Stop, TypeOK
<1>8. CASE AgentCrash(a)
  <2>1. pc' \in [Agents -> Steps]
    BY <1>8, <1>s, GotoType DEF AgentCrash, TypeOK
  <2>2. /\ job' \in [Agents -> JobType]
        /\ creds' \in [Agents -> CustodyType]
        /\ launching' \in [Agents -> 0..Gone]
        /\ nixRuntime' \in [Agents -> 0..Gone]
        /\ runnerEnv' \in [Agents -> BOOLEAN]
    BY <1>8, NothingTypes DEF AgentCrash, TypeOK
  <2>3. servers' \in [Slots -> ServerType]
    <3>1. \A i \in Slots : [servers[i] EXCEPT !.by = NoAgent] \in ServerType
      BY DEF TypeOK, ServerType
    <3>2. PICK S : servers' = [i \in Slots |-> CASE i \in S -> NoServer
                                 [] servers[i].by = a -> [servers[i] EXCEPT !.by = NoAgent]
                                 [] OTHER -> servers[i]]
      BY <1>8 DEF AgentCrash
    <3>3. \A i \in Slots : (CASE i \in S -> NoServer
                               [] servers[i].by = a -> [servers[i] EXCEPT !.by = NoAgent]
                               [] OTHER -> servers[i]) \in ServerType
      BY <3>1, NothingTypes DEF TypeOK
    <3> QED
      BY <3>2, <3>3
  <2>4. faults' \in 0..MaxFaults
    BY <1>8, FaultsType DEF AgentCrash, TypeOK
  <2> QED
    BY <1>8, <2>1, <2>2, <2>3, <2>4 DEF AgentCrash, Close, TypeOK
<1> QED
  BY <1>1, <1>2, <1>3, <1>4, <1>5, <1>6, <1>7, <1>8 DEF StartStep

\* Processes coming up or ending, power failures and users keep every variable
\* in its type.
LEMMA EnvironmentStepType ==
    ASSUME TypeOK, (\E i \in Slots : ServerUp(i) \/ ServerCrash(i)) \/ HostCrash \/ UserStep
    PROVE  TypeOK'
<1> USE DEF diskVars, agentVars
<1>1. ASSUME NEW i \in Slots, ServerUp(i)
      PROVE  TypeOK'
  <2>1. CASE End({i})
    BY <1>1, <2>1, EndType DEF ServerUp, TypeOK
  <2>2. CASE servers' = [servers EXCEPT ![i].state = "up"] /\ UNCHANGED <<launching, nixRuntime>>
    <3>1. [servers[i] EXCEPT !.state = "up"] \in ServerType
      BY DEF TypeOK, ServerType
    <3>2. servers' \in [Slots -> ServerType]
      BY <2>2, <3>1 DEF TypeOK
    <3> QED
      BY <1>1, <2>2, <3>2 DEF ServerUp, TypeOK
  <2> QED
    BY <1>1, <2>1, <2>2 DEF ServerUp
<1>2. ASSUME NEW i \in Slots, ServerCrash(i)
      PROVE  TypeOK'
  BY <1>2, EndType, FaultsType DEF ServerCrash, TypeOK
<1>3. CASE HostCrash
  <2>1. faults' \in 0..MaxFaults
    BY <1>3, FaultsType DEF HostCrash, TypeOK
  <2> QED
    BY <1>3, <2>1, NothingTypes DEF HostCrash, TypeOK, Steps, Resting
<1>4. CASE UserLosesCustody
  BY <1>4, NothingTypes DEF UserLosesCustody, TypeOK
<1>5. CASE UserRestoresCustody
  <2>1. store.gen \in Generations
    BY DEF TypeOK, StoreType
  <2> QED
    BY <1>5, <2>1, NothingTypes DEF UserRestoresCustody, TypeOK
<1>6. CASE UserLosesData
  <2>1. EmptyStore \in StoreType
    BY StoreTypes DEF TypeOK
  <2> QED
    BY <1>6, <2>1 DEF UserLosesData, TypeOK
<1>7. CASE UserRestoresOldData
  <2>1. store.gen \in Generations
    BY DEF TypeOK, StoreType
  <2>2. FreshStore(store.gen) \in StoreType
    BY <2>1, StoreTypes DEF TypeOK
  <2> QED
    BY <1>7, <2>2 DEF UserRestoresOldData, TypeOK
<1>8. CASE UserMountsTransit
  <2>1. PICK kind \in TransitFound : store' = WithTransit(store, kind)
    BY <1>8 DEF UserMountsTransit
  <2>2. kind \in TransitMounts
    BY NamesAssumption
  <2>3. store' \in StoreType
    BY <2>1, <2>2, StoreTypes DEF TypeOK
  <2> QED
    BY <1>8, <2>3 DEF UserMountsTransit, TypeOK
<1> QED
  BY <1>1, <1>2, <1>3, <1>4, <1>5, <1>6, <1>7, <1>8 DEF UserStep

-----------------------------------------------------------------------------
(* Who can disturb what *)

\* Before bootstrap has read anything, and once it has given up, an agent has
\* nothing to keep.
LEMMA NothingToKeep ==
    ASSUME NEW a \in Agents,
           pc'[a] \in Outside \cup {"launch", "waitReady", "load", "abort"}
    PROVE  AgentInv(a)'
BY DEF AgentInv, StatusKnown, NothingYet, FreshInHand, CustodyInHand,
       InstallsConfigured, TokenAccepted, TransitSettled, JwtSeeded,
       HasCustody, Published, StartSteps, Outside

\* While one agent holds the flock no other agent is inside Init or Start, so a
\* step of the holder leaves the others with nothing to keep.
LEMMA Bystanders ==
    ASSUME LockInv, NEW a \in Agents, pc[a] \notin Outside,
           \A b \in Agents \ {a} : pc'[b] = pc[b]
    PROVE  /\ lock = a
           /\ \A b \in Agents \ {a} : pc[b] \in Outside
           /\ \A b \in Agents \ {a} : AgentInv(b)'
<1>1. /\ lock = a
      /\ \A b \in Agents \ {a} : pc[b] \in Outside
  BY DEF LockInv
<1>2. \A b \in Agents \ {a} : AgentInv(b)'
  BY <1>1, NothingToKeep
<1> QED
  BY <1>1, <1>2

\* Nothing changes for the files a power failure may bring back.
LEMMA SurvivorsKept ==
    ASSUME SurvivorsInv, NEW a \in Agents, pc[a] # "syncInit" \/ cutShort',
           \A b \in Agents \ {a} : pc'[b] = pc[b],
           UNCHANGED <<custody, survivors>>, cutShort => cutShort'
    PROVE  SurvivorsInv'
BY DEF SurvivorsInv

\* A step of the holder disturbs nothing but its own part of the invariant
\* and what relates the files.
LEMMA HolderStep ==
    ASSUME IndInv, TypeOK', NEW a \in Agents, pc[a] \notin Outside,
           \A b \in Agents \ {a} : pc'[b] = pc[b],
           pc'[a] \notin Outside => lock' = a,
           AgentInv(a)', SurvivorsInv', CustodyMatchesStore'
    PROVE  IndInv'
<1>1. /\ \A b \in Agents \ {a} : pc[b] \in Outside
      /\ \A b \in Agents \ {a} : AgentInv(b)'
  BY Bystanders DEF IndInv
<1>2. LockInv'
  BY <1>1 DEF LockInv
<1> QED
  BY <1>1, <1>2 DEF IndInv

\* A step of the holder that keeps custody and the generation of the storage.
LEMMA HolderKeeps ==
    ASSUME IndInv, TypeOK', NEW a \in Agents,
           pc[a] \notin Outside, pc[a] # "syncInit" \/ cutShort',
           \A b \in Agents \ {a} : pc'[b] = pc[b],
           pc'[a] \notin Outside => lock' = a,
           UNCHANGED <<custody, survivors>>, store'.gen = store.gen,
           cutShort => cutShort',
           AgentInv(a)'
    PROVE  IndInv'
<1>1. SurvivorsInv'
  BY SurvivorsKept DEF IndInv
<1>2. CustodyMatchesStore'
  BY DEF IndInv, CustodyMatchesStore, Initialized
<1> QED
  BY <1>1, <1>2, HolderStep

\* An agent leaves, or is outside: the disk stays as it is, and the flock of
\* another agent is not released.
LEMMA OutsideStep ==
    ASSUME IndInv, TypeOK', NEW a \in Agents,
           pc[a] # "syncInit" \/ cutShort', pc'[a] \in Outside,
           \A b \in Agents \ {a} : /\ pc'[b] = pc[b]
                                   /\ creds'[b] = creds[b]
                                   /\ job'[b] = job[b]
                                   /\ lock = b => lock' = b,
           UNCHANGED <<store, jwt, minted, custody, survivors>>, cutShort => cutShort'
    PROVE  IndInv'
<1>1. LockInv'
  BY DEF IndInv, LockInv
<1>2. ASSUME NEW b \in Agents
      PROVE  AgentInv(b)'
  <2>1. CASE b # a
    <3>1. AgentInv(b) /\ pc'[b] = pc[b] /\ creds'[b] = creds[b] /\ job'[b] = job[b]
      BY <2>1 DEF IndInv
    <3> QED
      BY <3>1 DEF AgentInv, StatusKnown, NothingYet, FreshInHand, CustodyInHand,
                  InstallsConfigured, TokenAccepted, TransitSettled, JwtSeeded,
                  HasCustody, Published, Accepted
  <2>2. CASE b = a
    BY <2>2, NothingToKeep
  <2> QED
    BY <2>1, <2>2
<1>3. SurvivorsInv'
  BY SurvivorsKept DEF IndInv
<1>4. CustodyMatchesStore'
  BY DEF IndInv, CustodyMatchesStore
<1> QED
  BY <1>1, <1>2, <1>3, <1>4 DEF IndInv

\* Between unseal and saveToken bootstrap only reads, mounts and installs: the
\* custody it has in hand stays the storage's, and a token it is about to
\* install is a configured one.
LEMMA BootstrapKeeps ==
    ASSUME NEW a \in Agents, TypeOK, AgentInv(a), HasCustody(a),
           pc'[a] \in {"mounts", "mountSecret", "saveToken", "abort", AfterMounts(a)},
           UNCHANGED <<custody, job>>, store'.gen = store.gen,
           creds'[a].file = creds[a].file, creds'[a].gen = creds[a].gen
    PROVE  AgentInv(a)'
<1>1. CustodyInHand(a)
  BY DEF AgentInv
<1>2. pc'[a] = "installToken" => job[a].token \in Tokens
  BY DEF AfterMounts, TypeOK, JobType
<1>3. pc'[a] \in {"mounts", "mountSecret", "saveToken", "abort", "installToken", "lookupSelf"}
  BY DEF AfterMounts
<1> QED
  BY <1>1, <1>2, <1>3
     DEF AgentInv, StatusKnown, NothingYet, FreshInHand, CustodyInHand, InstallsConfigured,
         TokenAccepted, TransitSettled, JwtSeeded, HasCustody, Published, StartSteps,
         Initialized

\* While Start runs, and between Starts, the published token stays accepted:
\* no call it makes takes a token away or changes the generation.
LEMMA PublishedKeeps ==
    ASSUME NEW a \in Agents, AgentInv(a), Published(a),
           pc'[a] \in {"ready", "started"} \cup StartSteps,
           UNCHANGED <<custody, creds>>,
           store'.gen = store.gen, store'.root = store.root, store'.tokens = store.tokens,
           TransitSettled(a)', JwtSeeded(a)'
    PROVE  AgentInv(a)'
<1>1. CustodyInHand(a) /\ TokenAccepted(a) /\ HasCustody(a)
  BY DEF AgentInv, HasCustody
<1>2. CustodyInHand(a)'
  BY <1>1 DEF CustodyInHand, Initialized
<1>3. TokenAccepted(a)'
  BY <1>1 DEF TokenAccepted, Accepted, RootAccepted
<1>4. StatusKnown(a)' /\ NothingYet(a)' /\ FreshInHand(a)' /\ InstallsConfigured(a)'
  BY DEF StatusKnown, NothingYet, FreshInHand, InstallsConfigured, StartSteps
<1> QED
  BY <1>2, <1>3, <1>4 DEF AgentInv

\* Processes come and go, or a teardown fails: no agent moves, no file changes.
LEMMA NobodyMoves ==
    ASSUME IndInv, TypeOK', UNCHANGED <<diskVars, lock, pc, job, creds>>
    PROVE  IndInv'
<1> USE DEF diskVars
<1>1. LockInv' /\ CustodyMatchesStore'
  BY DEF IndInv, LockInv, CustodyMatchesStore
<1>2. ASSUME NEW b \in Agents
      PROVE  AgentInv(b)'
  <2>1. AgentInv(b)
    BY DEF IndInv
  <2> QED
    BY <2>1 DEF AgentInv, StatusKnown, NothingYet, FreshInHand, CustodyInHand,
                InstallsConfigured, TokenAccepted, TransitSettled, JwtSeeded,
                HasCustody, Published, Accepted
<1>3. SurvivorsInv'
  BY DEF IndInv, SurvivorsInv
<1> QED
  BY <1>1, <1>2, <1>3 DEF IndInv

\* Users touch the files while nobody holds the flock, hence while no agent has
\* anything to keep.
LEMMA QuietStep ==
    ASSUME IndInv, TypeOK', lock = NoAgent, UNCHANGED <<lock, pc>>,
           SurvivorsInv', CustodyMatchesStore'
    PROVE  IndInv'
<1>1. \A b \in Agents : pc[b] \in Outside
  BY NamesAssumption DEF IndInv, LockInv
<1>2. \A b \in Agents : AgentInv(b)'
  BY <1>1, NothingToKeep
<1>3. LockInv'
  BY <1>1 DEF LockInv
<1> QED
  BY <1>2, <1>3 DEF IndInv

-----------------------------------------------------------------------------
(* The inductive step *)

\* Runtime.Init, up to the end of bootstrap or of its cleanup.
LEMMA InitStepInv ==
    ASSUME IndInv, NEW a \in Agents, InitStep(a)
    PROVE  IndInv'
<1> USE DEF diskVars, handleVars
<1>t. TypeOK /\ AgentInv(a) /\ LockInv
  BY DEF IndInv
<1>p. TypeOK'
  BY <1>t, InitStepType DEF AgentInv
<1>s. /\ {"idle", "ready", "launch", "waitReady", "abort", "cleanup"} \subseteq Steps
      /\ BootstrapSteps \subseteq Steps
      /\ AfterMounts(a) \in Steps
  BY DEF Steps, Resting, BootstrapSteps, AfterMounts
<1>h. pc[a] \notin Outside => lock = a
  BY <1>t DEF LockInv
<1>1. CASE InitRequest(a)
  <2>1. pc'[a] = "launch" /\ \A b \in Agents \ {a} : pc'[b] = pc[b]
    BY <1>1, <1>s, <1>t, GotoType DEF InitRequest, TypeOK
  <2>2. \A b \in Agents : pc[b] \in Outside
    BY <1>1, <1>t, NamesAssumption DEF InitRequest, Open, LockInv
  <2>3. \A b \in Agents : AgentInv(b)'
    BY <2>1, <2>2, NothingToKeep
  <2>4. LockInv'
    BY <1>1, <2>1, <2>2 DEF InitRequest, Open, LockInv
  <2>5. SurvivorsInv'
    BY <1>1, <2>1, SurvivorsKept DEF InitRequest, IndInv
  <2>6. CustodyMatchesStore'
    BY <1>1 DEF InitRequest, IndInv, CustodyMatchesStore
  <2> QED
    BY <1>p, <2>3, <2>4, <2>5, <2>6 DEF IndInv
<1>2. CASE LaunchNix(a)
  <2>1. /\ pc'[a] \in {"waitReady", "cleanup"}
        /\ \A b \in Agents \ {a} : pc'[b] = pc[b]
    BY <1>2, <1>s, <1>t, GotoType, FaultsType DEF LaunchNix, TypeOK
  <2>2. AgentInv(a)'
    BY <2>1, NothingToKeep DEF Outside
  <2> QED
    BY <1>2, <1>h, <1>p, <2>1, <2>2, HolderKeeps DEF LaunchNix, Outside
<1>3. CASE WaitReady(a)
  <2>1. /\ pc'[a] \in {"load", "cleanup"}
        /\ \A b \in Agents \ {a} : pc'[b] = pc[b]
    BY <1>3, <1>s, <1>t, GotoType, FaultsType DEF WaitReady, TypeOK, BootstrapSteps
  <2>2. AgentInv(a)'
    BY <2>1, NothingToKeep DEF Outside
  <2> QED
    BY <1>3, <1>h, <1>p, <2>1, <2>2, HolderKeeps DEF WaitReady, Outside
<1>4. CASE LaunchDocker(a)
  <2>1. /\ pc'[a] \in {"load", "cleanup"}
        /\ \A b \in Agents \ {a} : pc'[b] = pc[b]
    BY <1>4, <1>s, <1>t, GotoType, FaultsType DEF LaunchDocker, TypeOK, BootstrapSteps
  <2>2. AgentInv(a)'
    BY <2>1, NothingToKeep DEF Outside
  <2> QED
    BY <1>4, <1>h, <1>p, <2>1, <2>2, HolderKeeps DEF LaunchDocker, Outside
<1>5. CASE Load(a)
  <2>1. /\ pc'[a] = IF custody.file = "torn" THEN "abort" ELSE "initStatus"
        /\ \A b \in Agents \ {a} : pc'[b] = pc[b]
    BY <1>5, <1>s, <1>t, GotoType DEF Load, TypeOK, BootstrapSteps
  <2>2. creds'[a] = IF custody.file = "ok" THEN custody ELSE NoCustody
    BY <1>5, <1>t DEF Load, TypeOK
  <2>3. custody.file \in {"absent", "torn", "ok"}
    BY <1>t DEF TypeOK, CustodyType
  <2>4. AgentInv(a)'
    BY <1>5, <2>1, <2>2, <2>3
       DEF Load, NoCustody, AgentInv, StatusKnown, NothingYet, FreshInHand, CustodyInHand,
           InstallsConfigured, TokenAccepted, TransitSettled, JwtSeeded,
           HasCustody, Published, StartSteps
  <2> QED
    BY <1>5, <1>h, <1>p, <2>1, <2>4, HolderKeeps DEF Load, Outside
<1>6. CASE InitStatus(a)
  <2>1. /\ \/ pc'[a] = "abort"
           \/ CustodyFits(a) /\ pc'[a] = IF Initialized(store) THEN "unseal" ELSE "init"
        /\ \A b \in Agents \ {a} : pc'[b] = pc[b]
    BY <1>6, <1>s, <1>t, GotoType, FaultsType DEF InitStatus, TypeOK, BootstrapSteps
  <2>2. StatusKnown(a) /\ CustodyMatchesStore /\ pc[a] = "initStatus"
    BY <1>6 DEF InitStatus, IndInv, AgentInv
  <2>3. AgentInv(a)'
    <3>1. CASE pc'[a] = "abort"
      BY <3>1, NothingToKeep
    <3>2. CASE CustodyFits(a) /\ pc'[a] = "unseal" /\ Initialized(store)
      BY <1>6, <2>2, <3>2
         DEF InitStatus, CustodyFits, CustodyMatchesStore, Initialized,
             AgentInv, StatusKnown, NothingYet, FreshInHand, CustodyInHand,
             InstallsConfigured, TokenAccepted, TransitSettled, JwtSeeded,
             HasCustody, Published, StartSteps
    <3>3. CASE CustodyFits(a) /\ pc'[a] = "init" /\ ~Initialized(store)
      BY <1>6, <2>2, <3>3
         DEF InitStatus, CustodyFits, Initialized,
             AgentInv, StatusKnown, NothingYet, FreshInHand, CustodyInHand,
             InstallsConfigured, TokenAccepted, TransitSettled, JwtSeeded,
             HasCustody, Published, StartSteps
    <3> QED
      BY <2>1, <3>1, <3>2, <3>3
  <2> QED
    BY <1>6, <1>h, <1>p, <2>1, <2>3, HolderKeeps DEF InitStatus, Outside
<1>7. CASE InitVault(a)
  <2>1. PICK done \in BOOLEAN :
          /\ Outcome(a, Answers(a) /\ ~Initialized(store) /\ minted < MaxInits, done,
                     "saveInit", "abort")
          /\ store' = IF done THEN FreshStore(minted + 1) ELSE store
          /\ creds' = IF done THEN [creds EXCEPT ![a] = Custody(minted + 1, RootToken)]
                              ELSE creds
    BY <1>7 DEF InitVault
  <2>2. /\ (done /\ pc'[a] = "saveInit") \/ pc'[a] = "abort"
        /\ \A b \in Agents \ {a} : pc'[b] = pc[b]
    <3>1. "saveInit" \in Steps /\ "abort" \in Steps
      BY <1>s DEF BootstrapSteps
    <3> QED
      BY <2>1, <3>1, <1>t, OutcomeType
  <2>3. done => /\ store'.gen = minted + 1
                /\ minted + 1 # 0
                /\ creds'[a] = Custody(minted + 1, RootToken)
    BY <2>1, <1>t, BoundsAssumption DEF FreshStore, EmptyStore, TypeOK, Generations
  <2>4. custody.file = "absent"
    BY <1>7, <1>t DEF InitVault, AgentInv, NothingYet
  <2>5. AgentInv(a)'
    <3>1. CASE pc'[a] = "abort"
      BY <3>1, NothingToKeep
    <3>2. CASE done /\ pc'[a] = "saveInit"
      BY <1>7, <2>3, <2>4, <3>2
         DEF InitVault, Initialized, AgentInv, StatusKnown, NothingYet, FreshInHand,
             CustodyInHand, InstallsConfigured, TokenAccepted, TransitSettled, JwtSeeded,
             HasCustody, Published, StartSteps
    <3> QED
      BY <2>2, <3>1, <3>2
  <2>6. SurvivorsInv'
    BY <1>7, <2>2, SurvivorsKept DEF InitVault, IndInv
  <2>7. CustodyMatchesStore'
    BY <1>7, <2>4 DEF InitVault, CustodyMatchesStore
  <2> QED
    BY <1>7, <1>h, <1>p, <2>2, <2>5, <2>6, <2>7, HolderStep DEF InitVault, Outside
<1>8. CASE SaveInit(a) \/ SaveToken(a)
  <2>1. /\ \A b \in Agents \ {a} : pc'[b] = pc[b]
        /\ \/ /\ pc'[a] = IF pc[a] = "saveInit" THEN "syncInit" ELSE "syncToken"
              /\ custody' = creds[a]
              /\ survivors' = survivors \cup {creds[a]}
           \/ pc'[a] = "abort" /\ UNCHANGED <<custody, survivors>>
        /\ UNCHANGED cutShort
    BY <1>8, <1>s, <1>t, GotoType, FaultsType
       DEF SaveInit, SaveToken, Save, TypeOK, BootstrapSteps
  <2>2. CASE pc'[a] = "abort"
    <3>1. AgentInv(a)'
      BY <2>2, NothingToKeep
    <3> QED
      BY <1>8, <1>h, <1>p, <2>1, <2>2, <3>1, HolderKeeps
         DEF SaveInit, SaveToken, Save, Outside
  <2>3. CASE /\ pc[a] = "saveInit" /\ pc'[a] = "syncInit"
             /\ custody' = creds[a] /\ survivors' = survivors \cup {creds[a]}
    <3>1. /\ custody.file = "absent" /\ Initialized(store)
          /\ creds[a].file = "ok" /\ creds[a].gen = store.gen
      BY <1>t, <2>3 DEF AgentInv, FreshInHand, Custody
    <3>2. AgentInv(a)'
      BY <1>8, <2>3, <3>1
         DEF SaveInit, SaveToken, Save, Initialized, AgentInv, StatusKnown, NothingYet,
             FreshInHand, CustodyInHand, InstallsConfigured, TokenAccepted, TransitSettled,
             JwtSeeded, HasCustody, Published, StartSteps
    <3>3. SurvivorsInv'
      BY <2>3, <3>1 DEF IndInv, SurvivorsInv
    <3>4. CustodyMatchesStore'
      BY <1>8, <2>3, <3>1 DEF SaveInit, SaveToken, Save, CustodyMatchesStore
    <3> QED
      BY <1>8, <1>h, <1>p, <2>1, <2>3, <3>2, <3>3, <3>4, HolderStep
         DEF SaveInit, SaveToken, Save, Outside
  <2>4. CASE /\ pc[a] = "saveToken" /\ pc'[a] = "syncToken"
             /\ custody' = creds[a] /\ survivors' = survivors \cup {creds[a]}
    <3>1. /\ custody.file = "ok" /\ custody.gen = store.gen /\ Initialized(store)
          /\ creds[a].file = "ok" /\ creds[a].gen = store.gen
      BY <1>t, <2>4 DEF AgentInv, CustodyInHand, HasCustody
    <3>2. AgentInv(a)'
      BY <1>8, <2>4, <3>1
         DEF SaveInit, SaveToken, Save, Initialized, AgentInv, StatusKnown, NothingYet,
             FreshInHand, CustodyInHand, InstallsConfigured, TokenAccepted, TransitSettled,
             JwtSeeded, HasCustody, Published, StartSteps
    <3>3. \A b \in Agents : pc[b] # "syncInit"
      BY <1>t, <2>1, <2>4, Bystanders DEF Outside
    <3>4. SurvivorsInv'
      BY <2>1, <2>4, <3>1, <3>3 DEF IndInv, SurvivorsInv
    <3>5. CustodyMatchesStore'
      BY <1>8, <2>4, <3>1 DEF SaveInit, SaveToken, Save, CustodyMatchesStore
    <3> QED
      BY <1>8, <1>h, <1>p, <2>1, <2>4, <3>2, <3>4, <3>5, HolderStep
         DEF SaveInit, SaveToken, Save, Outside
  <2> QED
    BY <1>8, <2>1, <2>2, <2>3, <2>4 DEF SaveInit, SaveToken, Save
<1>9. CASE SyncInit(a) \/ SyncToken(a)
  <2>1. /\ \A b \in Agents \ {a} : pc'[b] = pc[b]
        /\ \/ pc'[a] \in {"unseal", "lookupSelf"} /\ survivors' = {custody}
           \/ /\ pc'[a] = "abort" /\ UNCHANGED survivors
              /\ cutShort' = (cutShort \/ pc[a] = "syncInit")
    BY <1>9, <1>s, <1>t, GotoType, FaultsType
       DEF SyncInit, SyncToken, SyncDir, Synced, TypeOK, BootstrapSteps
  <2>2. CASE /\ pc'[a] = "abort" /\ UNCHANGED survivors
             /\ cutShort' = (cutShort \/ pc[a] = "syncInit")
    <3>1. AgentInv(a)'
      BY <2>2, NothingToKeep
    <3> QED
      BY <1>9, <1>h, <1>p, <2>1, <2>2, <3>1, HolderKeeps
         DEF SyncInit, SyncToken, SyncDir, Outside
  <2>3. CASE pc'[a] \in {"unseal", "lookupSelf"} /\ survivors' = {custody}
    <3>1. /\ custody.file = "ok" /\ custody.gen = store.gen /\ Initialized(store)
          /\ creds[a].file = "ok" /\ creds[a].gen = store.gen
      BY <1>9, <1>t
         DEF SyncInit, SyncToken, SyncDir, AgentInv, CustodyInHand, HasCustody
    <3>2. AgentInv(a)'
      BY <1>9, <2>3, <3>1
         DEF SyncInit, SyncToken, SyncDir, Initialized, AgentInv, StatusKnown, NothingYet,
             FreshInHand, CustodyInHand, InstallsConfigured, TokenAccepted, TransitSettled,
             JwtSeeded, HasCustody, Published, StartSteps
    <3>3. SurvivorsInv'
      BY <1>9, <2>3, <3>1 DEF SyncInit, SyncToken, SyncDir, SurvivorsInv
    <3>4. CustodyMatchesStore'
      BY <1>9 DEF SyncInit, SyncToken, SyncDir, IndInv, CustodyMatchesStore
    <3> QED
      BY <1>9, <1>h, <1>p, <2>1, <2>3, <3>2, <3>3, <3>4, HolderStep
         DEF SyncInit, SyncToken, SyncDir, Outside
  <2> QED
    BY <2>1, <2>2, <2>3
<1>10. CASE Unseal(a)
  <2>1. /\ pc'[a] \in {"mounts", "abort"}
        /\ \A b \in Agents \ {a} : pc'[b] = pc[b]
    BY <1>10, <1>t, FaultsType DEF Unseal, Outcome, Goto, TypeOK
  <2>2. HasCustody(a)
    BY <1>10 DEF Unseal, HasCustody
  <2>3. AgentInv(a)'
    BY <1>10, <1>t, <2>1, <2>2, BootstrapKeeps DEF Unseal
  <2> QED
    BY <1>10, <1>h, <1>p, <2>1, <2>3, HolderKeeps DEF Unseal, Outside
<1>11. CASE Mounts(a)
  <2>1. (CASE store.secret = "none" -> "mountSecret"
           [] store.secret = "kv2"  -> AfterMounts(a)
           [] OTHER                 -> "abort")
          \in {"mountSecret", "abort", AfterMounts(a)}
    OBVIOUS
  <2>2. /\ pc'[a] \in {"mountSecret", "abort", AfterMounts(a)}
        /\ \A b \in Agents \ {a} : pc'[b] = pc[b]
    BY <1>11, <1>t, <2>1, FaultsType DEF Mounts, Read, Outcome, Goto, TypeOK
  <2>3. HasCustody(a)
    BY <1>11 DEF Mounts, HasCustody
  <2>4. AgentInv(a)'
    BY <1>11, <1>t, <2>2, <2>3, BootstrapKeeps DEF Mounts
  <2> QED
    BY <1>11, <1>h, <1>p, <2>2, <2>4, HolderKeeps DEF Mounts, Outside
<1>12. CASE MountSecret(a)
  <2>1. /\ pc'[a] \in {"abort", AfterMounts(a)}
        /\ \A b \in Agents \ {a} : pc'[b] = pc[b]
    BY <1>12, <1>t, FaultsType DEF MountSecret, Write, Outcome, Goto, TypeOK
  <2>2. HasCustody(a)
    BY <1>12 DEF MountSecret, HasCustody
  <2>3. store'.gen = store.gen
    BY <1>12, <1>t DEF MountSecret, Write, WithSecret, TypeOK, StoreType
  <2>4. AgentInv(a)'
    BY <1>12, <1>t, <2>1, <2>2, <2>3, BootstrapKeeps DEF MountSecret
  <2> QED
    BY <1>12, <1>h, <1>p, <2>1, <2>3, <2>4, HolderKeeps DEF MountSecret, Outside
<1>13. CASE InstallToken(a)
  <2>1. /\ pc'[a] \in {"abort", "saveToken"}
        /\ \A b \in Agents \ {a} : pc'[b] = pc[b]
    BY <1>13, <1>t, FaultsType DEF InstallToken, Write, Outcome, Goto, TypeOK
  <2>2. HasCustody(a)
    BY <1>13 DEF InstallToken, HasCustody
  <2>3. store'.gen = store.gen
    BY <1>13, <1>t DEF InstallToken, Write, WithToken, TypeOK, StoreType
  <2>4. creds'[a].file = creds[a].file /\ creds'[a].gen = creds[a].gen
    BY <1>13, <1>t DEF InstallToken, TypeOK, CustodyType
  <2>5. AgentInv(a)'
    BY <1>13, <1>t, <2>1, <2>2, <2>3, <2>4, BootstrapKeeps DEF InstallToken
  <2> QED
    BY <1>13, <1>h, <1>p, <2>1, <2>3, <2>5, HolderKeeps DEF InstallToken, Outside
<1>14. CASE LookupSelf(a)
  <2>1. /\ (AccessValid(a) /\ pc'[a] = "ready") \/ pc'[a] = "abort"
        /\ \A b \in Agents \ {a} : pc'[b] = pc[b]
    BY <1>14, <1>t, FaultsType DEF LookupSelf, Read, Outcome, Goto, TypeOK
  <2>2. CustodyInHand(a) /\ HasCustody(a)
    BY <1>14, <1>t DEF LookupSelf, HasCustody, AgentInv
  <2>3. AgentInv(a)'
    <3>1. CASE pc'[a] = "abort"
      BY <3>1, NothingToKeep
    <3>2. CASE AccessValid(a) /\ pc'[a] = "ready"
      BY <1>14, <2>2, <3>2
         DEF LookupSelf, AccessValid, Accepted, AgentInv, StatusKnown, NothingYet,
             FreshInHand, CustodyInHand, InstallsConfigured, TokenAccepted, TransitSettled,
             JwtSeeded
    <3> QED
      BY <2>1, <3>1, <3>2
  <2> QED
    BY <1>14, <1>h, <1>p, <2>1, <2>3, HolderKeeps DEF LookupSelf, Outside
<1>15. CASE Abort(a)
  <2>1. /\ pc'[a] = "cleanup"
        /\ \A b \in Agents \ {a} : pc'[b] = pc[b]
    BY <1>15, <1>s, <1>t, GotoType DEF Abort, TypeOK
  <2>2. \A b \in Agents \ {a} : lock = b => lock' = b
    BY <1>15, <1>t, FaultsType
       DEF Abort, TeardownSucceeds, TeardownFails, Close, TypeOK
  <2> QED
    BY <1>15, <1>p, <2>1, <2>2, OutsideStep DEF Abort, Outside
<1>16. CASE Cleanup(a)
  <2>1. /\ pc'[a] = "idle"
        /\ \A b \in Agents \ {a} : pc'[b] = pc[b]
    BY <1>16, <1>s, <1>t, GotoType DEF Cleanup, TypeOK
  <2>2. \A b \in Agents \ {a} : lock = b => lock' = b
    BY <1>16, <1>t, FaultsType
       DEF Cleanup, TeardownSucceeds, TeardownFails, Close, TypeOK
  <2>3. \A b \in Agents \ {a} : creds'[b] = creds[b] /\ job'[b] = job[b]
    BY <1>16, <1>t DEF Cleanup, TypeOK
  <2> QED
    BY <1>16, <1>p, <2>1, <2>2, <2>3, OutsideStep DEF Cleanup, Outside
<1> QED
  BY <1>1, <1>2, <1>3, <1>4, <1>5, <1>6, <1>7, <1>8, <1>9, <1>10, <1>11, <1>12, <1>13,
     <1>14, <1>15, <1>16 DEF InitStep

\* Runtime.Start, Stop, Destroy, and an agent that is killed.
LEMMA AgentStepInv ==
    ASSUME IndInv, NEW a \in Agents, StartStep(a) \/ Stop(a) \/ AgentCrash(a)
    PROVE  IndInv'
<1> USE DEF diskVars, handleVars
<1>t. TypeOK /\ AgentInv(a) /\ LockInv
  BY DEF IndInv
<1>p. TypeOK'
  BY <1>t, AgentStepType
<1>h. pc[a] \notin Outside => lock = a
  BY <1>t DEF LockInv
<1>1. CASE StartRequest(a)
  <2>1. /\ pc'[a] = "waitForReady"
        /\ \A b \in Agents \ {a} : pc'[b] = pc[b]
        /\ Published(a)
    BY <1>1, <1>t DEF StartRequest, Goto, TypeOK, Published
  <2>2. AgentInv(a)'
    BY <1>1, <1>t, <2>1, PublishedKeeps
       DEF StartRequest, StartSteps, TransitSettled, JwtSeeded
  <2> QED
    BY <1>1, <1>h, <1>p, <2>1, <2>2, HolderKeeps DEF StartRequest, Outside
<1>2. CASE WaitForReady(a)
  <2>1. /\ pc'[a] \in {"enableTransit", "ready"}
        /\ \A b \in Agents \ {a} : pc'[b] = pc[b]
        /\ Published(a)
    BY <1>2, <1>t, FaultsType
       DEF WaitForReady, Read, Outcome, Goto, TypeOK, Published, StartSteps
  <2>2. AgentInv(a)'
    BY <1>2, <1>t, <2>1, PublishedKeeps
       DEF WaitForReady, StartSteps, TransitSettled, JwtSeeded
  <2> QED
    BY <1>2, <1>h, <1>p, <2>1, <2>2, HolderKeeps DEF WaitForReady, Outside
<1>3. CASE EnableTransit(a)
  <2>1. /\ pc'[a] \in {"createKey", "ready"}
        /\ \A b \in Agents \ {a} : pc'[b] = pc[b]
        /\ Published(a)
    BY <1>3, <1>t, FaultsType
       DEF EnableTransit, Write, Outcome, Goto, TypeOK, Published, StartSteps
  <2>2. store'.gen = store.gen /\ store'.root = store.root /\ store'.tokens = store.tokens
    BY <1>3, <1>t DEF EnableTransit, Write, WithTransit, TypeOK, StoreType
  <2>3. AgentInv(a)'
    BY <1>3, <1>t, <2>1, <2>2, PublishedKeeps
       DEF EnableTransit, StartSteps, TransitSettled, JwtSeeded
  <2> QED
    BY <1>3, <1>h, <1>p, <2>1, <2>2, <2>3, HolderKeeps DEF EnableTransit, Outside
<1>4. CASE CreateKey(a)
  <2>1. /\ \/ pc'[a] = "ready"
           \/ /\ pc'[a] = "jwtGet" /\ store' = WithKey(store)
              /\ store.transit \in {"transit", "kv1"}
        /\ \A b \in Agents \ {a} : pc'[b] = pc[b]
        /\ Published(a)
    BY <1>4, <1>t, FaultsType
       DEF CreateKey, Write, Outcome, Goto, TypeOK, Published, StartSteps
  <2>2. store'.gen = store.gen /\ store'.root = store.root /\ store'.tokens = store.tokens
    BY <1>4, <1>t DEF CreateKey, Write, WithKey, TypeOK, StoreType
  <2>3. TransitSettled(a)'
    BY <1>t, <2>1 DEF TransitSettled, WithKey, TypeOK, StoreType
  <2>4. AgentInv(a)'
    BY <1>4, <1>t, <2>1, <2>2, <2>3, PublishedKeeps DEF CreateKey, StartSteps, JwtSeeded
  <2> QED
    BY <1>4, <1>h, <1>p, <2>1, <2>2, <2>4, HolderKeeps DEF CreateKey, Outside
<1>5. CASE JwtGet(a)
  <2>1. /\ \/ pc'[a] = "jwtPost"
           \/ pc'[a] = "started" /\ store.secret = "kv2" /\ jwt # 0
        /\ \A b \in Agents \ {a} : pc'[b] = pc[b]
        /\ Published(a)
    BY <1>5, <1>t, FaultsType
       DEF JwtGet, Read, Outcome, Goto, TypeOK, Published, StartSteps
  <2>2. TransitSettled(a)' /\ JwtSeeded(a)'
    BY <1>5, <1>t, <2>1 DEF JwtGet, AgentInv, TransitSettled, JwtSeeded
  <2>3. AgentInv(a)'
    BY <1>5, <1>t, <2>1, <2>2, PublishedKeeps DEF JwtGet, StartSteps
  <2> QED
    BY <1>5, <1>h, <1>p, <2>1, <2>3, HolderKeeps DEF JwtGet, Outside
<1>6. CASE JwtPost(a)
  <2>1. /\ \/ pc'[a] = "ready"
           \/ pc'[a] = "started" /\ store.secret = "kv2" /\ jwt' = NextVersion
        /\ \A b \in Agents \ {a} : pc'[b] = pc[b]
        /\ Published(a)
    BY <1>6, <1>t, FaultsType
       DEF JwtPost, Outcome, Goto, TypeOK, Published, StartSteps
  <2>2. TransitSettled(a)'
    BY <1>6, <1>t, <2>1 DEF JwtPost, AgentInv, TransitSettled
  <2>3. JwtSeeded(a)'
    <3>1. NextVersion # 0
      BY DEF NextVersion
    <3> QED
      BY <1>6, <2>1, <3>1 DEF JwtPost, JwtSeeded
  <2>4. AgentInv(a)'
    BY <1>6, <1>t, <2>1, <2>2, <2>3, PublishedKeeps DEF JwtPost, StartSteps
  <2> QED
    BY <1>6, <1>h, <1>p, <2>1, <2>4, HolderKeeps DEF JwtPost, Outside
<1>7. CASE Stop(a)
  <2>1. CASE TeardownFails(a) /\ UNCHANGED <<pc, creds, job>>
    <3>1. UNCHANGED lock
      BY <2>1 DEF TeardownFails
    <3> QED
      BY <1>7, <1>p, <2>1, <3>1, NobodyMoves DEF Stop
  <2>2. CASE /\ TeardownSucceeds(a)
             /\ Goto(a, "idle")
             /\ creds' = [creds EXCEPT ![a] = NoCustody]
             /\ job' = [job EXCEPT ![a] = NoJob]
    <3>1. /\ pc'[a] = "idle" /\ pc[a] # "syncInit"
          /\ \A b \in Agents \ {a} : /\ pc'[b] = pc[b]
                                      /\ creds'[b] = creds[b]
                                      /\ job'[b] = job[b]
      BY <1>7, <1>t, <2>2 DEF Stop, Resting, Goto, TypeOK
    <3>2. \A b \in Agents \ {a} : lock = b => lock' = b
      BY <2>2 DEF TeardownSucceeds, Close
    <3> QED
      BY <1>7, <1>p, <3>1, <3>2, OutsideStep DEF Stop, Outside
  <2> QED
    BY <1>7, <2>1, <2>2 DEF Stop
<1>8. CASE AgentCrash(a)
  <2>1. /\ pc'[a] = "idle"
        /\ \A b \in Agents \ {a} : /\ pc'[b] = pc[b]
                                    /\ creds'[b] = creds[b]
                                    /\ job'[b] = job[b]
    BY <1>8, <1>t DEF AgentCrash, Goto, TypeOK
  <2>2. \A b \in Agents \ {a} : lock = b => lock' = b
    BY <1>8 DEF AgentCrash, Close
  <2> QED
    BY <1>8, <1>p, <2>1, <2>2, OutsideStep DEF AgentCrash, Outside
<1> QED
  BY <1>1, <1>2, <1>3, <1>4, <1>5, <1>6, <1>7, <1>8 DEF StartStep

\* Processes, power failures and users.
LEMMA EnvironmentStepInv ==
    ASSUME IndInv, (\E i \in Slots : ServerUp(i) \/ ServerCrash(i)) \/ HostCrash \/ UserStep
    PROVE  IndInv'
<1> USE DEF diskVars, agentVars
<1>t. TypeOK /\ SurvivorsInv /\ CustodyMatchesStore
  BY DEF IndInv
<1>p. TypeOK'
  BY <1>t, EnvironmentStepType
<1>1. ASSUME NEW i \in Slots, ServerUp(i) \/ ServerCrash(i)
      PROVE  IndInv'
  BY <1>1, <1>p, NobodyMoves DEF ServerUp, ServerCrash
<1>2. CASE HostCrash
  <2>1. \A b \in Agents : pc'[b] = "idle"
    BY <1>2 DEF HostCrash
  <2>2. \A b \in Agents : AgentInv(b)'
    BY <2>1, NothingToKeep DEF Outside
  <2>3. LockInv'
    BY <2>1 DEF LockInv, Outside
  <2>4. SurvivorsInv'
    BY <1>2, <1>t DEF HostCrash, SurvivorsInv
  <2>5. CustodyMatchesStore'
    BY <1>2, <1>t DEF HostCrash, SurvivorsInv, CustodyMatchesStore
  <2> QED
    BY <1>p, <2>2, <2>3, <2>4, <2>5 DEF IndInv
<1>3. CASE UserLosesCustody
  <2>1. SurvivorsInv' /\ CustodyMatchesStore'
    BY <1>3 DEF UserLosesCustody, SurvivorsInv, CustodyMatchesStore, NoCustody, TornCustody
  <2> QED
    BY <1>3, <1>p, <2>1, QuietStep DEF UserLosesCustody, Quiet
<1>4. CASE UserRestoresCustody
  <2>1. SurvivorsInv' /\ CustodyMatchesStore'
    BY <1>4 DEF UserRestoresCustody, SurvivorsInv, CustodyMatchesStore, Custody
  <2> QED
    BY <1>4, <1>p, <2>1, QuietStep DEF UserRestoresCustody, Quiet
<1>5. CASE UserLosesData
  <2>1. SurvivorsInv' /\ CustodyMatchesStore'
    BY <1>5, <1>t
       DEF UserLosesData, SurvivorsInv, CustodyMatchesStore, Initialized, EmptyStore
  <2> QED
    BY <1>5, <1>p, <2>1, QuietStep DEF UserLosesData, Quiet
<1>6. CASE UserRestoresOldData
  <2>1. SurvivorsInv' /\ CustodyMatchesStore'
    BY <1>6, <1>t
       DEF UserRestoresOldData, SurvivorsInv, CustodyMatchesStore, Initialized,
           FreshStore, EmptyStore
  <2> QED
    BY <1>6, <1>p, <2>1, QuietStep DEF UserRestoresOldData, Quiet
<1>7. CASE UserMountsTransit
  <2>1. /\ store.transit = "none"
        /\ store'.gen = store.gen /\ store'.root = store.root
        /\ store'.tokens = store.tokens /\ store'.secret = store.secret
    BY <1>7, <1>t DEF UserMountsTransit, WithTransit, TypeOK, StoreType
  <2>2. ASSUME NEW b \in Agents
        PROVE  AgentInv(b)'
    <3>1. AgentInv(b)
      BY DEF IndInv
    <3> QED
      BY <1>7, <2>1, <3>1
         DEF UserMountsTransit, AgentInv, StatusKnown, NothingYet, FreshInHand,
             CustodyInHand, InstallsConfigured, TokenAccepted, TransitSettled, JwtSeeded,
             HasCustody, Published, Accepted, RootAccepted, Initialized
  <2>3. LockInv' /\ SurvivorsInv'
    BY <1>7 DEF UserMountsTransit, IndInv, LockInv, SurvivorsInv
  <2>4. CustodyMatchesStore'
    BY <1>7, <1>t, <2>1 DEF UserMountsTransit, CustodyMatchesStore, Initialized
  <2> QED
    BY <1>p, <2>2, <2>3, <2>4 DEF IndInv
<1> QED
  BY <1>1, <1>2, <1>3, <1>4, <1>5, <1>6, <1>7 DEF UserStep

\* The inductive invariant holds in every behaviour.
LEMMA IndInvariant == Spec => []IndInv
<1>1. Init => IndInv
  <2> SUFFICES ASSUME Init PROVE IndInv
    OBVIOUS
  <2>1. EmptyStore \in StoreType
    BY BoundsAssumption
       DEF EmptyStore, StoreType, Generations, SecretMounts, TransitMounts
  <2>2. minted \in Generations /\ faults \in 0..MaxFaults
    BY BoundsAssumption DEF Init, Generations
  <2>c. cutShort \in BOOLEAN
    BY Zenon DEF Init
  <2>3. TypeOK
    BY <2>1, <2>2, <2>c, NothingTypes DEF Init, TypeOK, Steps, Resting
  <2>4. LockInv
    BY DEF Init, LockInv, Outside
  <2>5. ASSUME NEW a \in Agents
        PROVE  AgentInv(a)
    <3>1. pc[a] = "idle"
      BY DEF Init
    <3> QED
      BY <3>1 DEF AgentInv, StatusKnown, NothingYet, FreshInHand, CustodyInHand,
                  InstallsConfigured, TokenAccepted, TransitSettled, JwtSeeded,
                  HasCustody, Published, StartSteps
  <2>6. SurvivorsInv /\ CustodyMatchesStore
    BY DEF Init, SurvivorsInv, CustodyMatchesStore, NoCustody
  <2> QED
    BY <2>3, <2>4, <2>5, <2>6 DEF IndInv
<1>2. IndInv /\ [Next]_vars => IndInv'
  <2> SUFFICES ASSUME IndInv, [Next]_vars PROVE IndInv'
    OBVIOUS
  <2>1. CASE UNCHANGED vars
    <3>1. TypeOK'
      BY <2>1 DEF vars, IndInv, TypeOK
    <3> QED
      BY <2>1, <3>1, NobodyMoves DEF vars, diskVars
  <2>2. CASE Next
    BY <2>2, InitStepInv, AgentStepInv, EnvironmentStepInv DEF Next
  <2> QED
    BY <2>1, <2>2
<1> QED
  BY <1>1, <1>2, PTL DEF Spec

-----------------------------------------------------------------------------
(* What follows *)

\* Every variable keeps its type in every behaviour of the agents, the
\* processes and the users.
THEOREM TypeCorrect == Spec => []TypeOK
BY IndInvariant, PTL DEF IndInv

\* At most one agent at a time has published a connection to the state
\* directory, and it holds the flock, whatever the other agents do.
THEOREM OnePublisher == Spec => []PublishedHoldsLock
<1>1. IndInv => PublishedHoldsLock
  BY DEF IndInv, LockInv, Outside, PublishedHoldsLock, Published, StartSteps
<1> QED
  BY <1>1, IndInvariant, PTL

\* bootstrap never publishes a token the storage would refuse, and nothing that
\* happens while it is published takes it away.
THEOREM PublishedAccepted == Spec => []PublishedTokenAccepted
<1>1. IndInv => PublishedTokenAccepted
  BY DEF IndInv, AgentInv, TokenAccepted, PublishedTokenAccepted
<1> QED
  BY <1>1, IndInvariant, PTL

\* credentials.json beside initialized storage is that storage's.
THEOREM CustodyFitsStore == Spec => []CustodyMatchesStore
BY IndInvariant, PTL DEF IndInv

\* Once bootstrap is past save() a power failure leaves credentials of this
\* storage; it leaves no file only where the first save was cut short between
\* its rename and the sync of the directory and none has synced it since, and
\* a torn file never.
THEOREM CustodyDurable == Spec => []CustodySurvives
<1>1. IndInv => CustodySurvives
  <2> SUFFICES ASSUME IndInv, NEW a \in Agents, HasCustody(a), NEW c \in survivors
               PROVE  \/ c.file = "ok" /\ c.gen = store.gen
                      \/ c.file = "absent" /\ cutShort
    BY DEF CustodySurvives
  <2>1. custody.file = "ok" /\ custody.gen = store.gen
    BY DEF IndInv, AgentInv, CustodyInHand
  <2>2. c.file \in {"absent", "torn", "ok"}
    BY DEF IndInv, TypeOK, CustodyType
  <2>3. pc[a] \notin Outside /\ pc[a] # "syncInit"
    BY DEF HasCustody, Published, StartSteps, Outside
  <2>4. \A b \in Agents : pc[b] # "syncInit"
    BY <2>3 DEF IndInv, LockInv, Outside
  <2> QED
    BY <2>1, <2>2, <2>4 DEF IndInv, SurvivorsInv
<1> QED
  BY <1>1, IndInvariant, PTL

\* Start reports success only over KV v2 with a JWT signing key in it and, where
\* transit/ is a transit engine, with the key.
THEOREM StartProvisions == Spec => []StartedIsProvisioned
<1>1. IndInv => StartedIsProvisioned
  BY DEF IndInv, AgentInv, TransitSettled, JwtSeeded, StartedIsProvisioned
<1> QED
  BY <1>1, IndInvariant, PTL

-----------------------------------------------------------------------------
(* Refinement *)

\* A step that keeps custody, the generation of the storage and the number of
\* generations is a stuttering step of VaultCustody.
LEMMA AbstractStutters ==
    ASSUME store'.gen = store.gen, UNCHANGED <<custody, minted>>
    PROVE  [Abstract!Next]_(Abstract!custodyVars)
BY DEF Abstract!custodyVars

\* bootstrap mints where neither storage nor custody exists and saves custody
\* of what it minted; power failures and users lose, or restore, what there is.
LEMMA AbstractStep == IndInv /\ [Next]_vars => [Abstract!Next]_(Abstract!custodyVars)
<1> SUFFICES ASSUME IndInv, [Next]_vars
             PROVE  [Abstract!Next]_(Abstract!custodyVars)
  OBVIOUS
<1> USE DEF diskVars, agentVars
<1>t. TypeOK /\ SurvivorsInv
  BY DEF IndInv
<1>1. ASSUME NEW a \in Agents, InitVault(a)
      PROVE  [Abstract!Next]_(Abstract!custodyVars)
  <2>1. custody.file = "absent" /\ store.gen = 0
    BY <1>1 DEF InitVault, IndInv, AgentInv, NothingYet, Initialized
  <2>2. \/ UNCHANGED <<store, minted>>
        \/ minted' = minted + 1 /\ store' = FreshStore(minted + 1)
    BY <1>1 DEF InitVault
  <2>3. FreshStore(minted + 1).gen = minted + 1
    BY DEF FreshStore, EmptyStore
  <2>4. UNCHANGED custody
    BY <1>1 DEF InitVault
  <2> QED
    BY <2>1, <2>2, <2>3, <2>4, AbstractStutters DEF Abstract!Next, Abstract!Mint
<1>2. ASSUME NEW a \in Agents, SaveInit(a) \/ SaveToken(a)
      PROVE  [Abstract!Next]_(Abstract!custodyVars)
  <2>1. /\ UNCHANGED <<store, minted>>
        /\ custody' = creds[a] \/ UNCHANGED custody
    BY <1>2 DEF SaveInit, SaveToken, Save
  <2>2. creds[a].file = "ok" /\ creds[a].gen = store.gen /\ store.gen # 0
    BY <1>2 DEF SaveInit, SaveToken, Save, IndInv, AgentInv, FreshInHand, CustodyInHand,
                HasCustody, Custody, Initialized
  <2> QED
    BY <2>1, <2>2, AbstractStutters DEF Abstract!Next, Abstract!Keep
<1>3. CASE HostCrash
  <2>1. /\ UNCHANGED <<store, minted>>
        /\ custody'.file = "ok" => custody.file = "ok" /\ custody'.gen = custody.gen
    BY <1>3, <1>t DEF HostCrash, SurvivorsInv
  <2> QED
    BY <2>1 DEF Abstract!Next, Abstract!Lose
<1>4. CASE UserLosesCustody
  BY <1>4 DEF UserLosesCustody, NoCustody, TornCustody, Abstract!Next, Abstract!Lose
<1>5. CASE UserRestoresCustody
  BY <1>5 DEF UserRestoresCustody, Custody, Initialized, Abstract!Next, Abstract!Keep
<1>6. CASE UserLosesData
  BY <1>6 DEF UserLosesData, EmptyStore, Abstract!Next, Abstract!Lose
<1>7. CASE UserRestoresOldData \/ UserMountsTransit
  <2>1. store'.gen = store.gen
    BY <1>7, <1>t DEF UserRestoresOldData, FreshStore, EmptyStore,
                      UserMountsTransit, WithTransit, TypeOK, StoreType
  <2> QED
    BY <1>7, <2>1, AbstractStutters DEF UserRestoresOldData, UserMountsTransit
<1>8. ASSUME NEW a \in Agents,
             MountSecret(a) \/ InstallToken(a) \/ EnableTransit(a) \/ CreateKey(a)
      PROVE  [Abstract!Next]_(Abstract!custodyVars)
  <2>1. \/ UNCHANGED store
        \/ store' = WithSecret(store, "kv2")
        \/ store' = WithToken(store, job[a].token)
        \/ store' = WithTransit(store, "transit")
        \/ store' = WithKey(store)
    BY <1>8 DEF MountSecret, InstallToken, EnableTransit, CreateKey, Write
  <2>2. store'.gen = store.gen
    BY <1>t, <2>1 DEF WithSecret, WithToken, WithTransit, WithKey, TypeOK, StoreType
  <2> QED
    BY <1>8, <2>2, AbstractStutters DEF MountSecret, InstallToken, EnableTransit, CreateKey
<1>9. ASSUME NEW a \in Agents,
             \/ InitRequest(a) \/ LaunchNix(a) \/ WaitReady(a) \/ LaunchDocker(a)
             \/ Load(a) \/ InitStatus(a) \/ SyncInit(a) \/ SyncToken(a) \/ Unseal(a)
             \/ Mounts(a) \/ LookupSelf(a) \/ Abort(a) \/ Cleanup(a)
      PROVE  [Abstract!Next]_(Abstract!custodyVars)
  BY <1>9, AbstractStutters
     DEF InitRequest, LaunchNix, WaitReady, LaunchDocker, Load, InitStatus, SyncInit,
         SyncToken, SyncDir, Unseal, Mounts, LookupSelf, Abort, Cleanup
<1>10. ASSUME NEW a \in Agents,
              \/ StartRequest(a) \/ WaitForReady(a) \/ JwtGet(a) \/ JwtPost(a)
              \/ Stop(a) \/ AgentCrash(a)
       PROVE  [Abstract!Next]_(Abstract!custodyVars)
  BY <1>10, AbstractStutters
     DEF StartRequest, WaitForReady, JwtGet, JwtPost, Stop, AgentCrash
<1>11. ASSUME NEW i \in Slots, ServerUp(i) \/ ServerCrash(i)
       PROVE  [Abstract!Next]_(Abstract!custodyVars)
  BY <1>11, AbstractStutters DEF ServerUp, ServerCrash
<1>12. CASE UNCHANGED vars
  BY <1>12, AbstractStutters DEF vars
<1> QED
  BY <1>1, <1>2, <1>3, <1>4, <1>5, <1>6, <1>7, <1>8, <1>9, <1>10, <1>11, <1>12
     DEF Next, InitStep, StartStep, UserStep

\* Any number of agents, killed at any step, on a machine that may lose power,
\* keep the custody promise: keys are minted only where neither storage nor
\* credentials.json exists, and credentials.json only appears for the keys in
\* use.
THEOREM ImplementsCustody == Spec => KeepsCustody
<1>1. Init => Abstract!Init
  BY DEF Init, Abstract!Init, EmptyStore, NoCustody
<1> QED
  BY <1>1, AbstractStep, IndInvariant, PTL DEF Spec, KeepsCustody, Abstract!Spec

-----------------------------------------------------------------------------
(* Containers only *)

\* An ended process is a container slot nobody runs.
LEMMA NoServerInv ==
    ASSUME NEW i \in Slots, servers'[i] = NoServer
    PROVE  ServerInv(i)'
BY NamesAssumption DEF ServerInv, NoServer

\* A process keeps its part of the invariant when its kind, whether it is alive
\* and who runs it stay, with that agent's handle and flock.
LEMMA ServerKept ==
    ASSUME NEW i \in Slots, ServerInv(i),
           servers'[i].kind = servers[i].kind, servers'[i].by = servers[i].by,
           servers'[i].state = "none" => servers[i].state = "none",
           \A a \in Agents : servers[i].by = a =>
               (runnerEnv[a] => runnerEnv'[a]) /\ (lock = a => lock' = a)
    PROVE  ServerInv(i)'
BY DEF ServerInv

\* Ending processes makes no handle.
LEMMA EndKeepsHandles ==
    ASSUME TypeOK, NEW S, 0 \notin S, End(S), \A a \in Agents : nixRuntime[a] = NoSlot
    PROVE  \A a \in Agents : nixRuntime'[a] = NoSlot
BY DEF TypeOK, End, Reaped, NoSlot

\* teardown ends every container before it releases the flock; when it fails it
\* keeps the flock.
LEMMA TeardownDocker ==
    ASSUME TypeOK, DockerInv, NEW a \in Agents, UNCHANGED runnerEnv,
           TeardownSucceeds(a) \/ TeardownFails(a)
    PROVE  /\ \A i \in Slots : ServerInv(i)'
           /\ \A b \in Agents : nixRuntime'[b] = NoSlot
<1>1. TeardownSet(a) = Containers
  BY DEF TeardownSet, DockerInv
<1>2. 0 \notin Containers
  BY DEF Containers, Slots
<1>3. \A b \in Agents : nixRuntime[b] = NoSlot
  BY DEF DockerInv
<1>4. CASE End(Containers)
  <2>1. \A b \in Agents : nixRuntime'[b] = NoSlot
    BY <1>2, <1>3, <1>4, EndKeepsHandles
  <2>2. ASSUME NEW i \in Slots
        PROVE  ServerInv(i)'
    <3>1. CASE i \in Containers
      BY <1>4, <3>1, NoServerInv DEF End
    <3>2. CASE i \notin Containers
      <4>1. servers[i].state = "none" /\ ServerInv(i)
        BY <3>2 DEF DockerInv, ServerInv, Containers, Alive
      <4>2. servers'[i] = servers[i] /\ \A b \in Agents : servers[i].by # b
        BY <1>4, <3>2, <4>1, NamesAssumption DEF End, ServerInv
      <4> QED
        BY <4>1, <4>2, ServerKept
    <3> QED
      BY <3>1, <3>2
  <2> QED
    BY <2>1, <2>2
<1>5. CASE UNCHANGED <<servers, launching, nixRuntime, lock>>
  <2>1. \A i \in Slots : ServerInv(i)'
    BY <1>5, ServerKept DEF DockerInv
  <2> QED
    BY <1>3, <1>5, <2>1
<1> QED
  BY <1>1, <1>4, <1>5 DEF TeardownSucceeds, TeardownFails

\* Steps that touch neither processes nor handles nor the flock.
LEMMA DockerKept ==
    ASSUME DockerInv, UNCHANGED <<servers, lock, nixRuntime, runnerEnv>>,
           \A a \in Agents : job'[a].kind = "docker" /\ pc'[a] # "waitReady"
    PROVE  DockerInv'
<1>1. \A i \in Slots : ServerInv(i)'
  BY ServerKept DEF DockerInv
<1> QED
  BY <1>1 DEF DockerInv

\* Every step keeps the flock over the containers.
LEMMA DockerStep ==
    ASSUME Kinds \subseteq {"docker"}, IndInv, DockerInv, [Next]_vars
    PROVE  DockerInv'
<1> USE DEF diskVars, handleVars, agentVars
<1>t. TypeOK /\ LockInv
  BY DEF IndInv
<1>n. NoJob.kind = "docker"
  BY DEF NoJob
<1>1. ASSUME NEW a \in Agents, InitRequest(a)
      PROVE  DockerInv'
  <2>1. \A b \in Agents : job'[b].kind = "docker" /\ pc'[b] # "waitReady"
    BY <1>1, <1>t DEF InitRequest, Goto, TypeOK, DockerInv
  <2>2. \A i \in Slots : ServerInv(i)'
    <3>1. lock = NoAgent
      BY <1>1 DEF InitRequest, Open
    <3>2. \A i \in Slots, b \in Agents : servers[i].by # b
      BY <3>1, NamesAssumption DEF DockerInv, ServerInv
    <3> QED
      BY <1>1, <3>2, ServerKept DEF InitRequest, DockerInv
  <2> QED
    BY <1>1, <2>1, <2>2 DEF InitRequest, DockerInv
<1>2. ASSUME NEW a \in Agents, LaunchNix(a) \/ WaitReady(a)
      PROVE  DockerInv'
  BY <1>2 DEF LaunchNix, WaitReady, DockerInv
<1>3. ASSUME NEW a \in Agents, LaunchDocker(a)
      PROVE  DockerInv'
  <2>1. \A b \in Agents : pc'[b] # "waitReady"
    BY <1>3, <1>t DEF LaunchDocker, Goto, TypeOK, DockerInv
  <2>2. lock = a /\ UNCHANGED lock
    BY <1>3, <1>t DEF LaunchDocker, LockInv, Outside
  <2>3. \A i \in Slots, b \in Agents \ {a} : servers[i].by # b
    BY <2>2 DEF DockerInv, ServerInv
  <2>4. \A b \in Agents : runnerEnv[b] => runnerEnv'[b]
    BY <1>3, <1>t DEF LaunchDocker, TypeOK
  <2>5. ASSUME NEW i \in Slots
        PROVE  ServerInv(i)'
    <3>1. CASE servers'[i] = servers[i]
      BY <2>2, <2>4, <3>1, ServerKept DEF DockerInv
    <3>2. CASE servers'[i] # servers[i]
      <4>1. /\ runnerEnv'[a]
            /\ \/ servers'[i] = Launched(a)
               \/ servers'[i] = [servers[i] EXCEPT !.by = a] /\ i \in Containers
        BY <1>3, <1>t, <3>2 DEF LaunchDocker, TypeOK
      <4>2. Launched(a).kind = "docker" /\ Launched(a).by = a /\ Launched(a).state = "starting"
        BY <1>3 DEF LaunchDocker, Launched
      <4>3. i \in Containers =>
              LET taken == [servers[i] EXCEPT !.by = a]
              IN  taken.kind = "docker" /\ taken.by = a /\ taken.state # "none"
        BY <1>t DEF Containers, Alive, TypeOK, ServerType
      <4>4. servers'[i].kind = "docker" /\ servers'[i].by = a /\ servers'[i].state # "none"
        BY <4>1, <4>2, <4>3
      <4> QED
        BY <2>2, <4>1, <4>4 DEF ServerInv
    <3> QED
      BY <3>1, <3>2
  <2> QED
    BY <1>3, <2>1, <2>5 DEF LaunchDocker, DockerInv
<1>4. ASSUME NEW i \in Slots, ServerUp(i) \/ ServerCrash(i)
      PROVE  DockerInv'
  <2>1. CASE End({i})
    <3>1. \A b \in Agents : nixRuntime'[b] = NoSlot
      BY <1>t, <2>1, EndKeepsHandles DEF DockerInv, Slots
    <3>2. \A j \in Slots : ServerInv(j)'
      <4>1. \A j \in Slots : servers'[j] = IF j = i THEN NoServer ELSE servers[j]
        BY <2>1 DEF End
      <4> QED
        BY <1>4, <4>1, NoServerInv, ServerKept DEF ServerUp, ServerCrash, DockerInv
    <3> QED
      BY <1>4, <3>1, <3>2 DEF ServerUp, ServerCrash, DockerInv
  <2>2. CASE /\ servers' = [servers EXCEPT ![i].state = "up"]
             /\ UNCHANGED <<lock, job, pc, runnerEnv, nixRuntime>>
    <3>1. servers[i].state = "starting" \/ servers[i].state # "none"
      BY <1>4 DEF ServerUp, ServerCrash, Alive
    <3>2. \A j \in Slots : /\ servers'[j].kind = servers[j].kind
                           /\ servers'[j].by = servers[j].by
                           /\ servers'[j].state = "none" => servers[j].state = "none"
      BY <1>t, <2>2, <3>1 DEF TypeOK, ServerType
    <3>3. \A j \in Slots : ServerInv(j)'
      BY <2>2, <3>2, ServerKept DEF DockerInv
    <3> QED
      BY <2>2, <3>3 DEF DockerInv
  <2> QED
    BY <1>4, <2>1, <2>2 DEF ServerUp, ServerCrash
<1>5. ASSUME NEW a \in Agents, Unseal(a)
      PROVE  DockerInv'
  <2>1. \A b \in Agents : pc'[b] # "waitReady"
    BY <1>5, <1>t DEF Unseal, Outcome, Goto, TypeOK, DockerInv
  <2>2. \A j \in Slots : \/ servers'[j] = servers[j]
                         \/ servers'[j] = [servers[j] EXCEPT !.sealed = FALSE]
    BY <1>5 DEF Unseal
  <2>3. ASSUME NEW j \in Slots
        PROVE  /\ servers'[j].kind = servers[j].kind
               /\ servers'[j].by = servers[j].by
               /\ servers'[j].state = servers[j].state
    <3>1. servers[j] \in ServerType
      BY <1>t DEF TypeOK
    <3> QED
      BY <2>2, <3>1 DEF ServerType
  <2>4. \A j \in Slots : ServerInv(j)'
    BY <1>5, <2>3, ServerKept DEF Unseal, DockerInv
  <2> QED
    BY <1>5, <2>1, <2>4 DEF Unseal, DockerInv
<1>6. ASSUME NEW a \in Agents, Abort(a) \/ Cleanup(a) \/ Stop(a)
      PROVE  DockerInv'
  <2>1. \A b \in Agents : job'[b].kind = "docker" /\ pc'[b] # "waitReady"
    BY <1>6, <1>t, <1>n DEF Abort, Cleanup, Stop, Goto, TypeOK, DockerInv
  <2>2. UNCHANGED runnerEnv
    BY <1>6 DEF Abort, Cleanup, Stop
  <2>3. CASE TeardownSucceeds(a) \/ TeardownFails(a)
    BY <1>t, <2>1, <2>2, <2>3, TeardownDocker DEF DockerInv
  <2>4. CASE ~runnerEnv[a] /\ Close(a) /\ UNCHANGED <<servers, launching, nixRuntime, faults>>
    <3>1. \A i \in Slots : servers[i].by # a
      BY <2>4 DEF DockerInv, ServerInv
    <3>2. \A i \in Slots : ServerInv(i)'
      BY <2>2, <2>4, <3>1, ServerKept DEF Close, DockerInv
    <3> QED
      BY <2>1, <2>4, <3>2 DEF DockerInv
  <2> QED
    BY <1>6, <2>3, <2>4 DEF Abort, Cleanup, Stop
<1>7. ASSUME NEW a \in Agents, AgentCrash(a)
      PROVE  DockerInv'
  <2>1. \A b \in Agents : /\ job'[b].kind = "docker"
                          /\ pc'[b] # "waitReady"
                          /\ nixRuntime'[b] = NoSlot
    BY <1>7, <1>t, <1>n DEF AgentCrash, Goto, TypeOK, DockerInv
  <2>2. ASSUME NEW i \in Slots
        PROVE  ServerInv(i)'
    <3>1. \/ servers'[i] = NoServer
          \/ servers'[i] = [servers[i] EXCEPT !.by = NoAgent]
          \/ servers[i].by # a /\ servers'[i] = servers[i]
      BY <1>7 DEF AgentCrash
    <3>2. CASE servers'[i] = NoServer
      BY <3>2, NoServerInv
    <3>3. CASE servers'[i] = [servers[i] EXCEPT !.by = NoAgent]
      <4>1. servers'[i].kind = servers[i].kind /\ servers'[i].by = NoAgent
        BY <1>t, <3>3 DEF TypeOK, ServerType
      <4> QED
        BY <4>1, NamesAssumption DEF ServerInv, DockerInv
    <3>4. CASE servers[i].by # a /\ servers'[i] = servers[i]
      <4>1. \A b \in Agents \ {a} : (runnerEnv[b] => runnerEnv'[b]) /\ (lock = b => lock' = b)
        BY <1>7, <1>t DEF AgentCrash, Close, TypeOK
      <4> QED
        BY <3>4, <4>1, ServerKept DEF DockerInv
    <3> QED
      BY <3>1, <3>2, <3>3, <3>4
  <2> QED
    BY <2>1, <2>2 DEF DockerInv
<1>8. CASE HostCrash
  BY <1>8, <1>n, NoServerInv DEF HostCrash, DockerInv
<1>9. ASSUME NEW a \in Agents,
             \/ Load(a) \/ InitStatus(a) \/ InitVault(a) \/ SaveInit(a) \/ SyncInit(a)
             \/ Mounts(a) \/ MountSecret(a) \/ InstallToken(a) \/ SaveToken(a)
             \/ SyncToken(a) \/ LookupSelf(a) \/ StartStep(a)
      PROVE  DockerInv'
  <2>1. UNCHANGED <<servers, lock, nixRuntime, runnerEnv, job>>
    BY <1>9 DEF Load, InitStatus, InitVault, SaveInit, SyncInit, Mounts, MountSecret,
                InstallToken, SaveToken, SyncToken, LookupSelf, Save, SyncDir, StartStep,
                StartRequest, WaitForReady, EnableTransit, CreateKey, JwtGet, JwtPost
  <2>2. PICK step : pc' = [pc EXCEPT ![a] = step] /\ step # "waitReady"
    BY <1>9 DEF Load, InitStatus, InitVault, SaveInit, SyncInit, Mounts, MountSecret,
                InstallToken, SaveToken, SyncToken, LookupSelf, Save, SyncDir, StartStep,
                StartRequest, WaitForReady, EnableTransit, CreateKey, JwtGet, JwtPost,
                Read, Write, Outcome, Goto, AfterMounts
  <2> QED
    BY <1>t, <2>1, <2>2, DockerKept DEF TypeOK, DockerInv
<1>10. CASE UserStep \/ UNCHANGED vars
  BY <1>10, DockerKept
     DEF UserStep, UserLosesCustody, UserRestoresCustody, UserLosesData,
         UserRestoresOldData, UserMountsTransit, vars, DockerInv
<1> QED
  BY <1>1, <1>2, <1>3, <1>4, <1>5, <1>6, <1>7, <1>8, <1>9, <1>10 DEF Next, InitStep

\* "The lock covers the server lifetime, not just bootstrap" (localstate.go):
\* true of every behaviour in which agents run containers only.
THEOREM LockCoversContainers ==
    ASSUME Kinds \subseteq {"docker"}
    PROVE  Spec => []LockCoversServer
<1>1. Init => DockerInv
  <2> SUFFICES ASSUME Init PROVE DockerInv
    OBVIOUS
  <2>1. \A i \in Slots : ServerInv(i)
    BY NamesAssumption DEF Init, ServerInv, NoServer
  <2> QED
    BY <2>1 DEF Init, DockerInv, NoJob
<1>2. IndInv /\ DockerInv /\ [Next]_vars => DockerInv'
  BY DockerStep
<1>3. IndInv /\ DockerInv => LockCoversServer
  BY DEF IndInv, TypeOK, ServerType, DockerInv, ServerInv, LockCoversServer
<1> QED
  BY <1>1, <1>2, <1>3, IndInvariant, PTL DEF Spec

-----------------------------------------------------------------------------
(* When the JWT signing key is replaced *)

\* The JWT signing key is there only in a KV v2 of initialized storage, at most
\* once; an agent about to POST one has found none, and none appeared since.
JwtInv ==
    /\ jwt <= 1
    /\ jwt # 0 => Initialized(store) /\ store.secret = "kv2"
    /\ \A a \in Agents : pc[a] = "jwtPost" => jwt = 0

\* Every GET of the JWT signing key is answered: the agent's server is there,
\* unsealed, accepts the published token, and the answer arrives.
GetAnswered == \A a \in Agents : JwtGet(a) => AsConsumer(a) /\ UNCHANGED faults

\* No agent arrives at the POST, and the stored keys stay.
LEMMA JwtKept ==
    ASSUME JwtInv, UNCHANGED jwt,
           jwt # 0 => store'.gen = store.gen /\ store'.secret = store.secret,
           \A a \in Agents : pc'[a] = "jwtPost" => pc[a] = "jwtPost"
    PROVE  JwtInv'
BY DEF JwtInv, Initialized

\* When GETs are answered, an agent POSTs only where it has found no key; it holds
\* the flock from the GET on, so no other agent POSTs in between.
LEMMA JwtStep ==
    ASSUME IndInv, JwtInv, [Next]_vars, [GetAnswered]_vars
    PROVE  JwtInv'
<1> USE DEF diskVars, agentVars
<1>t. TypeOK /\ LockInv
  BY DEF IndInv
<1>1. ASSUME NEW a \in Agents, JwtGet(a), AsConsumer(a), UNCHANGED faults
      PROVE  JwtInv'
  <2>1. \/ pc' = [pc EXCEPT ![a] = "started"]
        \/ pc' = [pc EXCEPT ![a] = "jwtPost"] /\ jwt = 0
    <3>1. faults' # faults + 1
      BY <1>1, <1>t DEF TypeOK
    <3> QED
      BY <1>1, <3>1 DEF JwtGet, Read, Outcome, Goto, Fault, JwtInv
  <2>2. UNCHANGED <<jwt, store>>
    BY <1>1 DEF JwtGet
  <2> QED
    BY <1>t, <2>1, <2>2 DEF TypeOK, JwtInv
<1>2. ASSUME NEW a \in Agents, JwtPost(a)
      PROVE  JwtInv'
  <2>1. jwt = 0 /\ lock = a
    BY <1>2, <1>t DEF JwtPost, JwtInv, LockInv, Outside
  <2>2. \A b \in Agents \ {a} : pc[b] # "jwtPost"
    BY <1>t, <2>1 DEF LockInv, Outside
  <2>3. \A b \in Agents : pc'[b] # "jwtPost"
    BY <1>2, <1>t, <2>2 DEF JwtPost, Outcome, Goto, TypeOK
  <2>4. UNCHANGED store
    BY <1>2 DEF JwtPost
  <2>5. \/ jwt' = 0
        \/ jwt' = 1 /\ AsConsumer(a) /\ store.secret = "kv2"
    BY <1>2, <2>1 DEF JwtPost, Outcome, NextVersion
  <2>6. Initialized(store)
    BY <1>2 DEF JwtPost, IndInv, AgentInv, CustodyInHand, HasCustody, Published, StartSteps
  <2> QED
    BY <2>3, <2>4, <2>5, <2>6 DEF JwtInv, Initialized
<1>3. ASSUME NEW a \in Agents, InitVault(a)
      PROVE  JwtInv'
  <2>1. jwt = 0
    BY <1>3 DEF InitVault, IndInv, AgentInv, NothingYet, JwtInv
  <2>2. \A b \in Agents : pc'[b] = "jwtPost" => pc[b] = "jwtPost"
    BY <1>3, <1>t DEF InitVault, Outcome, Goto, TypeOK
  <2> QED
    BY <1>3, <2>1, <2>2, JwtKept DEF InitVault
<1>4. ASSUME NEW a \in Agents,
             MountSecret(a) \/ InstallToken(a) \/ EnableTransit(a) \/ CreateKey(a)
      PROVE  JwtInv'
  <2>1. \/ UNCHANGED store
        \/ store' = WithSecret(store, "kv2")
        \/ store' = WithToken(store, job[a].token)
        \/ store' = WithTransit(store, "transit")
        \/ store' = WithKey(store)
    BY <1>4 DEF MountSecret, InstallToken, EnableTransit, CreateKey, Write
  <2>2. jwt # 0 => store'.gen = store.gen /\ store'.secret = store.secret
    BY <1>t, <2>1 DEF WithSecret, WithToken, WithTransit, WithKey, TypeOK, StoreType, JwtInv
  <2>3. \A b \in Agents : pc'[b] = "jwtPost" => pc[b] = "jwtPost"
    BY <1>4, <1>t DEF MountSecret, InstallToken, EnableTransit, CreateKey, Write, Outcome,
                      Goto, AfterMounts, TypeOK
  <2>4. UNCHANGED jwt
    BY <1>4 DEF MountSecret, InstallToken, EnableTransit, CreateKey
  <2> QED
    BY <2>2, <2>3, <2>4, JwtKept
<1>5. ASSUME NEW a \in Agents,
             \/ InitRequest(a) \/ LaunchNix(a) \/ WaitReady(a) \/ LaunchDocker(a)
             \/ Load(a) \/ InitStatus(a) \/ SaveInit(a) \/ SyncInit(a) \/ Unseal(a)
             \/ Mounts(a) \/ SaveToken(a) \/ SyncToken(a) \/ LookupSelf(a)
      PROVE  JwtInv'
  <2>1. PICK step : pc' = [pc EXCEPT ![a] = step] /\ step # "jwtPost"
    BY <1>5 DEF InitRequest, LaunchNix, WaitReady, LaunchDocker, Load, InitStatus, SaveInit,
                SyncInit, Save, SyncDir, Unseal, Mounts, SaveToken, SyncToken, LookupSelf,
                Read, Outcome, Goto, AfterMounts
  <2>2. UNCHANGED <<store, jwt>>
    BY <1>5 DEF InitRequest, LaunchNix, WaitReady, LaunchDocker, Load, InitStatus, SaveInit,
                SyncInit, Save, SyncDir, Unseal, Mounts, SaveToken, SyncToken, LookupSelf
  <2> QED
    BY <1>t, <2>1, <2>2, JwtKept DEF TypeOK
<1>6. ASSUME NEW a \in Agents,
             \/ Abort(a) \/ Cleanup(a) \/ Stop(a) \/ AgentCrash(a)
             \/ StartRequest(a) \/ WaitForReady(a)
      PROVE  JwtInv'
  <2>1. \/ UNCHANGED pc
        \/ \E step \in Steps \ {"jwtPost"} : pc' = [pc EXCEPT ![a] = step]
    BY <1>6 DEF Abort, Cleanup, Stop, AgentCrash, StartRequest, WaitForReady, Read, Outcome,
                Goto, Steps, Resting, StartSteps
  <2>2. UNCHANGED <<store, jwt>>
    BY <1>6 DEF Abort, Cleanup, Stop, AgentCrash, StartRequest, WaitForReady
  <2> QED
    BY <1>t, <2>1, <2>2, JwtKept DEF TypeOK
<1>7. CASE HostCrash
  BY <1>7, JwtKept DEF HostCrash
<1>8. ASSUME NEW i \in Slots, ServerUp(i) \/ ServerCrash(i)
      PROVE  JwtInv'
  BY <1>8, JwtKept DEF ServerUp, ServerCrash
<1>9. CASE UserLosesData \/ UserRestoresOldData
  BY <1>9 DEF UserLosesData, UserRestoresOldData, JwtInv
<1>10. CASE UserLosesCustody \/ UserRestoresCustody \/ UNCHANGED vars
  BY <1>10, JwtKept DEF UserLosesCustody, UserRestoresCustody, vars
<1>11. CASE UserMountsTransit
  <2>1. store'.gen = store.gen /\ store'.secret = store.secret
    BY <1>11, <1>t DEF UserMountsTransit, WithTransit, TypeOK, StoreType
  <2> QED
    BY <1>11, <2>1, JwtKept DEF UserMountsTransit
<1>12. ASSUME NEW a \in Agents, JwtGet(a)
       PROVE  JwtInv'
  <2>1. GetAnswered \/ UNCHANGED vars
    OBVIOUS
  <2> QED
    BY <1>1, <1>10, <1>12, <2>1 DEF GetAnswered
<1> QED
  BY <1>2, <1>3, <1>4, <1>5, <1>6, <1>7, <1>8, <1>9, <1>10, <1>11, <1>12
     DEF Next, InitStep, StartStep, UserStep

\* "... without replacing transit keys or the KV v2 data used by consumers"
\* (LOCAL-PERSISTENCE.md), of the JWT signing key: true of every behaviour in which
\* the GET before the POST is always answered, whatever else is lost, crashes or
\* restarts, and however many agents start.
THEOREM SeededOnce == Spec /\ [][GetAnswered]_vars => []JwtSeededOnce
<1>1. Init => JwtInv
  BY DEF Init, JwtInv
<1>2. IndInv /\ JwtInv /\ [Next]_vars /\ [GetAnswered]_vars => JwtInv'
  BY JwtStep
<1>3. JwtInv => JwtSeededOnce
  BY DEF JwtInv, JwtSeededOnce
<1> QED
  BY <1>1, <1>2, <1>3, IndInvariant, PTL DEF Spec
===============================================================================
