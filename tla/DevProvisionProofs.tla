-------------------------- MODULE DevProvisionProofs --------------------------
(***************************************************************************)
(* The safety invariants of DevProvision, for every set of requests,         *)
(* settings, tokens and keys and however many deployments and faults.        *)
(*                                                                          *)
(* A pod is ready only once its hook is through, so the argument follows the *)
(* hook: the store is this container's own and holds KV v2 from the start    *)
(* (PodInv), the mount is there before the key is worked on, and both are    *)
(* there when the hook ends (HookInv).  A deployment that changes the key    *)
(* ends the container, one that does not leaves it with the key in force.    *)
(***************************************************************************)
EXTENDS DevProvision, RenderingProofs, TLAPS

\* The Secret and the consumers got the same value.
AppliedInv == given = applied.secret

\* Without a container there is nothing; a container has the key in force, and
\* a store that takes the one token it was started with.
PodInv ==
    /\ pc = "off" => ~up /\ ~ready /\ target = "transit" /\ store = EmptyStore
    /\ pc # "off" => /\ container.key = applied.key
                     /\ store.tokens = {container.token}
                     /\ store.secret = "kv2"

\* How far the hook is says what is in the store.
HookInv ==
    /\ target = "key" => store.transit = "transit"
    /\ pc = "running" => store.transit = "transit" /\ store.key
    /\ ready => pc = "running" /\ up

\* The fields of a store.
StoreType == [gen : {0, 1}, root : BOOLEAN, tokens : SUBSET (Tokens \cup {""}),
              secret : SecretMounts, transit : TransitMounts, key : BOOLEAN]

IndInv == TypeOK /\ store \in StoreType /\ AppliedInv /\ PodInv /\ HookInv

-----------------------------------------------------------------------------

\* The bounds are numbers.
LEMMA Bounds == MaxApplies \in Nat /\ MaxFaults \in Nat
BY BoundsAssumption

\* An empty store is a store.
LEMMA EmptyStoreType == EmptyStore \in StoreType
BY DEF EmptyStore, StoreType, SecretMounts, TransitMounts

\* The store `server -dev` has set up with root token t.
LEMMA DevStoreFacts ==
    ASSUME NEW t \in Tokens \cup {""}
    PROVE  LET dev == [FreshStore(1) EXCEPT !.tokens = {t}, !.secret = "kv2"]
           IN  dev \in StoreType /\ dev.tokens = {t} /\ dev.secret = "kv2"
<1>1. FreshStore(1) \in StoreType
  BY EmptyStoreType DEF FreshStore, StoreType
<1>2. "kv2" \in SecretMounts
  BY DEF SecretMounts
<1> QED
  BY <1>1, <1>2 DEF StoreType

\* Whenever a container ends, what is left satisfies the invariant.
LEMMA EndsInv ==
    ASSUME Ends, applied' \in [key : KeyNames \cup {""}, secret : Tokens \cup {""}],
           given' = applied'.secret, applies' \in 0..MaxApplies, faults' \in 0..MaxFaults
    PROVE  IndInv'
<1>1. TypeOK'
  <2>1. given' \in Tokens \cup {""}
    OBVIOUS
  <2> QED
    BY <2>1, EmptyStoreType DEF Ends, TypeOK, NoPod, StoreType
<1>2. (store \in StoreType)'
  BY EmptyStoreType DEF Ends
<1>3. AppliedInv' /\ PodInv' /\ HookInv'
  BY DEF Ends, AppliedInv, PodInv, HookInv
<1> QED
  BY <1>1, <1>2, <1>3 DEF IndInv

\* A fault is counted within its bound.
LEMMA FaultType ==
    ASSUME faults \in 0..MaxFaults, Fault \/ UNCHANGED faults
    PROVE  faults' \in 0..MaxFaults
BY BoundsAssumption DEF Fault

\* A deployment of a dev server puts a plain key name in the pod template, and
\* the same token, which is not blank, into the Secret its root token is taken
\* from and the configuration.
LEMMA ApplyFacts ==
    ASSUME NEW settings, NEW req \in RequestValues,
           Parameters(settings, req).shape = "dev",
           Deployed(settings, req).succeeds
    PROVE  /\ Deployed(settings, req).manifest.command[3] \in KeyNames \cup {""}
           /\ RootToken(Deployed(settings, req).manifest) = req.token
           /\ Deployed(settings, req).configuration.token = req.token
           /\ req.token \in Tokens
<1> DEFINE p == Parameters(settings, req)
           c == Configuration(settings, p, NewDeployment(req), req)
           m == Manifest(PreparedParameters(p, req), PreparedDeployment(p, NewDeployment(req), c))
<1>1. /\ Deployed(settings, req).manifest = m
      /\ Deployed(settings, req).configuration = c
      /\ Prepares(settings, p, NewDeployment(req), req)
  BY DEF Deployed
<1>2. ParametersFit(p, req)
  BY ParametersFacts
<1>3. ManifestFits(p, req, m)
  BY PreparedFacts, ManifestFacts
<1>4. ConfigurationFits(settings, p, req, c)
  BY ConfigurationFacts
<1>5. p.shape = "dev"
  OBVIOUS
<1> HIDE DEF p, c, m
<1>6. ~restrictedOutput(req.profile)
  BY <1>2, <1>5 DEF ParametersFit
<1>7. req.token \in Tokens
  BY <1>1, <1>5, <1>6, RequestsAssumption DEF Prepares, TokenConfigured, NewDeployment
<1>8. /\ m.command[3] \in KeyNames \cup {""}
      /\ m.secret = {req.token} /\ m.env # {}
  BY <1>2, <1>3, <1>5, <1>6 DEF ParametersFit, ManifestFits
<1>9. RootToken(m) = req.token
  <2>1. (CHOOSE t \in {req.token} : TRUE) = req.token
    OBVIOUS
  <2> QED
    BY <1>8, <2>1 DEF RootToken
<1>10. c.token = req.token
  BY <1>4, <1>5, <1>6 DEF ConfigurationFits
<1> QED
  BY <1>1, <1>7, <1>8, <1>9, <1>10

\* Every step of the cluster, the server and the hook keeps the invariant.
LEMMA IndStep == IndInv /\ [Next]_vars => IndInv'
<1> SUFFICES ASSUME IndInv, [Next]_vars
             PROVE  IndInv'
  OBVIOUS
<1> USE DEF IndInv
<1>1. CASE Apply
  <2>1. PICK settings \in SettingsFiles, req \in RequestValues :
          /\ Parameters(settings, req).shape = "dev"
          /\ Deployed(settings, req).succeeds
          /\ applied' = [key |-> Deployed(settings, req).manifest.command[3],
                         secret |-> RootToken(Deployed(settings, req).manifest)]
          /\ given' = Deployed(settings, req).configuration.token
          /\ IF Deployed(settings, req).manifest.command[3] # applied.key
             THEN Ends ELSE UNCHANGED podVars
    BY <1>1 DEF Apply
  <2> DEFINE key == Deployed(settings, req).manifest.command[3]
  <2>2. /\ key \in KeyNames \cup {""}
        /\ RootToken(Deployed(settings, req).manifest) = req.token
        /\ given' = req.token
        /\ req.token \in Tokens
    BY <2>1, ApplyFacts
  <2>3. applied' = [key |-> key, secret |-> req.token]
    BY <2>1, <2>2
  <2>4. IF key # applied.key THEN Ends ELSE UNCHANGED podVars
    BY <2>1
  <2> HIDE DEF key
  <2>5. /\ applied' \in [key : KeyNames \cup {""}, secret : Tokens \cup {""}]
        /\ given' = applied'.secret
    BY <2>2, <2>3
  <2>6. applies' \in 0..MaxApplies /\ faults' \in 0..MaxFaults
    <3>1. applies \in 0..MaxApplies /\ faults \in 0..MaxFaults
      BY DEF TypeOK
    <3>2. applies < MaxApplies /\ applies' = applies + 1 /\ faults' = faults
      BY <1>1 DEF Apply
    <3> QED
      BY <3>1, <3>2, Bounds
  <2>7. CASE key # applied.key
    BY <2>4, <2>5, <2>6, <2>7, EndsInv
  <2>8. CASE key = applied.key
    <3>1. UNCHANGED podVars /\ applied'.key = applied.key
      BY <2>3, <2>4, <2>8
    <3>2. TypeOK'
      BY <2>2, <2>5, <2>6, <3>1 DEF TypeOK, podVars
    <3>3. store' \in StoreType /\ AppliedInv' /\ PodInv' /\ HookInv'
      BY <2>5, <3>1 DEF podVars, AppliedInv, PodInv, HookInv
    <3> QED
      BY <3>2, <3>3
  <2> QED
    BY <2>7, <2>8
<1>2. CASE StartContainer
  <2>1. store' \in StoreType /\ store'.tokens = {applied.secret} /\ store'.secret = "kv2"
    <3>1. applied.secret \in Tokens \cup {""}
      BY DEF TypeOK
    <3> QED
      BY <1>2, <3>1, DevStoreFacts DEF StartContainer
  <2>2. TypeOK'
    BY <1>2, <2>1 DEF StartContainer, TypeOK, StoreType
  <2>3. store' \in StoreType /\ AppliedInv' /\ PodInv' /\ HookInv'
    BY <1>2, <2>1 DEF StartContainer, AppliedInv, PodInv, HookInv
  <2> QED
    BY <2>2, <2>3
<1>3. CASE Listen
  BY <1>3 DEF Listen, TypeOK, AppliedInv, PodInv, HookInv
<1>4. CASE Crash
  BY <1>4, EndsInv, FaultType DEF Crash, TypeOK, AppliedInv
<1>5. CASE ReadinessProbe
  BY <1>5 DEF ReadinessProbe, TypeOK, AppliedInv, PodInv, HookInv
<1>6. CASE Validate
  <2>1. CASE Ends
    BY <1>6, <2>1, EndsInv DEF Validate, TypeOK, AppliedInv
  <2>2. CASE GoesOn("wait")
    BY <1>6, <2>2 DEF Validate, GoesOn, TypeOK, AppliedInv, PodInv, HookInv
  <2> QED
    BY <1>6, <2>1, <2>2 DEF Validate
<1>7. CASE WaitForServer
  <2>1. CASE Ends /\ Fault
    BY <1>7, <2>1, EndsInv, FaultType DEF WaitForServer, TypeOK, AppliedInv
  <2>2. CASE GoesOn("probe") /\ UNCHANGED faults
    BY <1>7, <2>2 DEF WaitForServer, GoesOn, TypeOK, AppliedInv, PodInv, HookInv
  <2> QED
    BY <1>7, <2>1, <2>2 DEF WaitForServer
<1>8. CASE Probe
  <2>1. CASE Ends
    <3>1. faults' \in 0..MaxFaults
      BY <1>8, FaultType DEF Probe, TypeOK
    <3> QED
      BY <1>8, <2>1, <3>1, EndsInv DEF Probe, TypeOK, AppliedInv
  <2>2. CASE pc = "probe" /\ GoesOn("enable")
    <3>1. faults' \in 0..MaxFaults
      BY <1>8, FaultType DEF Probe, TypeOK
    <3> QED
      BY <1>8, <2>2, <3>1 DEF Probe, GoesOn, TypeOK, AppliedInv, PodInv, HookInv
  <2>3. CASE Present /\ Advance /\ UNCHANGED faults
    <3>1. CASE target = "transit"
      BY <1>8, <2>3, <3>1 DEF Probe, Present, Advance, TypeOK, AppliedInv, PodInv, HookInv
    <3>2. CASE target = "key"
      BY <1>8, <2>3, <3>2 DEF Probe, Present, Advance, GoesOn, TypeOK, AppliedInv, PodInv, HookInv
    <3> QED
      BY <3>1, <3>2 DEF TypeOK
  <2> QED
    BY <1>8, <2>1, <2>2, <2>3 DEF Probe
<1>9. CASE Enable
  <2>1. faults' \in 0..MaxFaults
    BY <1>9, FaultType DEF Enable, TypeOK
  <2>2. /\ store'.tokens = store.tokens
        /\ store'.secret = store.secret
        /\ store'.transit \in {store.transit, "transit"}
        /\ store'.key \in BOOLEAN
        /\ store' \in StoreType
    <3>1. CASE UNCHANGED store
      BY <3>1 DEF StoreType
    <3>2. CASE store' = Enabled
      BY <3>2 DEF Enabled, WithTransit, WithKey, StoreType, TransitMounts
    <3> QED
      BY <1>9, <3>1, <3>2 DEF Enable
  <2>3. TypeOK'
    BY <1>9, <2>1, <2>2 DEF Enable, TypeOK, TransitMounts
  <2>4. AppliedInv' /\ PodInv' /\ HookInv'
    BY <1>9, <2>2 DEF Enable, AppliedInv, PodInv, HookInv
  <2> QED
    BY <2>2, <2>3, <2>4
<1>10. CASE UNCHANGED vars
  BY <1>10 DEF vars, TypeOK, AppliedInv, PodInv, HookInv
<1> QED
  BY <1>1, <1>2, <1>3, <1>4, <1>5, <1>6, <1>7, <1>8, <1>9, <1>10 DEF Next, HookStep

\* The inductive invariant holds in every behaviour.
LEMMA IndInvariant == Spec => []IndInv
<1>1. Init => IndInv
  <2> SUFFICES ASSUME Init PROVE IndInv
    OBVIOUS
  <2>1. 0 \in 0..MaxApplies /\ 0 \in 0..MaxFaults
    BY Bounds
  <2>2. store \in StoreType
    BY EmptyStoreType DEF Init
  <2>3. TypeOK
    BY <2>1, <2>2 DEF Init, TypeOK, StoreType, NoPod
  <2>4. AppliedInv /\ PodInv /\ HookInv
    BY DEF Init, AppliedInv, PodInv, HookInv
  <2> QED
    BY <2>2, <2>3, <2>4 DEF IndInv
<1> QED
  BY <1>1, IndStep, PTL DEF Spec

-----------------------------------------------------------------------------
(* The theorems *)

\* Every variable has its type: what is applied and started is a plain key name
\* and a token that is not blank, whatever was requested.
THEOREM TypeCorrect == Spec => []TypeOK
<1>1. IndInv => TypeOK
  BY DEF IndInv
<1> QED
  BY <1>1, IndInvariant, PTL

\* The readiness probe lets traffic through only to a Vault whose hook has found
\* every mount and the key, under the key name of the deployment in force.
THEOREM ReadyProvisioned == Spec => []ReadyIsProvisioned
<1>1. IndInv => ReadyIsProvisioned
  BY DEF IndInv, PodInv, HookInv, ReadyIsProvisioned, Provisioned
<1> QED
  BY <1>1, IndInvariant, PTL

\* Consumers come to be refused by a running Vault only through a deployment that
\* changes the token alone: a start takes the Secret's token, which is the one
\* consumers got (AppliedInv), a container keeps it (PodInv), and a change of key
\* replaces the pod.
THEOREM StrandedByTokenAlone == Spec => OnlyTokenChangeStrands
<1>1. IndInv /\ IndInv' /\ [Next]_vars =>
        [~Stranded /\ Stranded' =>
            /\ UNCHANGED podVars
            /\ applied'.key = applied.key /\ applied'.secret # applied.secret]_vars
  <2> SUFFICES ASSUME IndInv, IndInv', [Next]_vars, ~Stranded, Stranded'
               PROVE  /\ UNCHANGED podVars
                      /\ applied'.key = applied.key /\ applied'.secret # applied.secret
    OBVIOUS
  <2>1. pc' # "off" /\ store'.tokens = {container'.token} /\ given' = applied'.secret
        /\ container'.token # given'
    BY DEF IndInv, PodInv, AppliedInv, Stranded
  <2>2. pc # "off" => store.tokens = {container.token} /\ container.token = applied.secret
    BY DEF IndInv, PodInv, AppliedInv, Stranded
  <2>3. ~Ends
    BY <2>1 DEF Ends
  <2>4. CASE Apply
    <3>1. UNCHANGED podVars
      BY <2>3, <2>4 DEF Apply
    <3>2. pc # "off" /\ container' = container /\ pc' = pc
      BY <2>1, <3>1 DEF podVars
    <3>3. applied'.key = applied.key
      BY <2>1, <3>2 DEF IndInv, PodInv
    <3> QED
      BY <2>1, <2>2, <3>1, <3>2, <3>3
  <2>5. CASE ~Apply
    <3>1. UNCHANGED <<applied, given>>
      BY <2>5 DEF Next, HookStep, StartContainer, Listen, Crash, ReadinessProbe, Validate,
                  WaitForServer, Probe, Enable, vars
    <3>2. CASE pc = "off"
      <4>1. StartContainer
        BY <2>1, <2>3, <2>5, <3>2 DEF Next, HookStep, Listen, Crash, ReadinessProbe, Validate,
                                      WaitForServer, Probe, Enable, vars
      <4> QED
        BY <2>1, <3>1, <4>1 DEF StartContainer
    <3>3. CASE pc # "off"
      <4>1. UNCHANGED container
        BY <2>3, <2>5, <3>3 DEF Next, HookStep, StartContainer, Listen, Crash, ReadinessProbe, Validate,
                                WaitForServer, Probe, Enable, GoesOn, Advance, vars
      <4> QED
        BY <2>1, <2>2, <3>1, <3>3, <4>1
    <3> QED
      BY <3>2, <3>3
  <2> QED
    BY <2>4, <2>5
<1> QED
  BY <1>1, IndInvariant, PTL DEF Spec, OnlyTokenChangeStrands
===============================================================================
