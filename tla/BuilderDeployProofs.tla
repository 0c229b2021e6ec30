------------------------- MODULE BuilderDeployProofs -------------------------
(***************************************************************************)
(* The safety invariants of BuilderDeploy, for every set of requests, what  *)
(* they carry and whatever the settings file holds.                         *)
(*                                                                          *)
(* The argument has two halves.  What a single request computes is right:   *)
(* RenderingProofs.  And what a request has computed stays what it         *)
(* would compute now, although all requests share one Service: no request   *)
(* is under way when Load replaces the settings, and Create, which may run  *)
(* beside them, changes nothing (CallInv, LoadedInv).                       *)
(***************************************************************************)
EXTENDS BuilderDeploy, RenderingProofs, TLAPS

\* The tables have an entry for every call.
TablesInv ==
    /\ parameters = [r \in Requests |-> parameters[r]]
    /\ deployment = [r \in Requests |-> deployment[r]]
    /\ configuration = [r \in Requests |-> configuration[r]]
    /\ destination = [r \in Requests |-> destination[r]]
    /\ response = [r \in Requests |-> response[r]]

\* Nothing is deployed before Load, and a service that is being created has
\* its default settings.
LoadedInv ==
    /\ loaded = "new" => \A r \in Requests : pc[r] = "idle"
    /\ loaded # "loaded" => settings = DefaultSettings

\* What call r has computed so far is what the shared settings make of its own
\* request, and nothing but its own Prepare has written to its parameters and its
\* deployment since.
Own(r) == Parameters(settings, req[r])
Decided(r) == /\ parameters[r] = Own(r)
              /\ deployment[r] = NewDeployment(req[r])
              /\ Own(r).shape # "error"
Prepared(r) == LET d == NewDeployment(req[r])
               IN  /\ Own(r).shape # "error"
                   /\ Prepares(settings, Own(r), d, req[r])
                   /\ configuration[r] = Configuration(settings, Own(r), d, req[r])
                   /\ parameters[r] = PreparedParameters(Own(r), req[r])
                   /\ deployment[r] = PreparedDeployment(Own(r), d, configuration[r])
Rendered(r) == /\ Prepared(r)
               /\ destination[r] = Manifest(parameters[r], deployment[r])

CallInv(r) ==
    /\ pc[r] \in {"idle", "prepare", "render", "respond"} => response[r] = NoResponse
    /\ pc[r] = "prepare" => Decided(r)
    /\ pc[r] = "render" => Prepared(r)
    /\ pc[r] = "respond" => Rendered(r)
    /\ pc[r] = "done" =>
          \/ response[r] = DeployError
          \/ /\ Rendered(r)
             /\ response[r] = [state |-> "SUCCESS", configuration |-> configuration[r]]

IndInv == /\ TypeOK
          /\ TablesInv
          /\ LoadedInv
          /\ \A r \in Requests : CallInv(r)

-----------------------------------------------------------------------------
(* The inductive invariant *)

\* Calls see the same settings before and after a step that keeps them, and a
\* call that does not move keeps what it has computed.
LEMMA CallKept ==
    ASSUME NEW r \in Requests, CallInv(r), settings' = settings,
           req'[r] = req[r], pc'[r] = pc[r], parameters'[r] = parameters[r],
           deployment'[r] = deployment[r], configuration'[r] = configuration[r],
           destination'[r] = destination[r], response'[r] = response[r]
    PROVE  CallInv(r)'
BY DEF CallInv, Rendered, Prepared, Decided, Own

\* A call that fails leaves nothing but the error.
LEMMA FailsInv ==
    ASSUME IndInv, NEW r \in Requests, pc[r] # "idle", Fails(r)
    PROVE  IndInv'
<1> USE DEF IndInv, service
<1>1. TypeOK'
  BY DEF TypeOK, Fails, DeployError, TablesInv
<1>2. TablesInv' /\ LoadedInv'
  BY DEF TablesInv, LoadedInv, Fails
<1>3. ASSUME NEW q \in Requests
      PROVE  CallInv(q)'
  <2>1. CASE q = r
    BY <2>1 DEF CallInv, Fails, TypeOK, TablesInv
  <2>2. CASE q # r
    BY <2>2, CallKept DEF Fails, TypeOK, TablesInv
  <2> QED
    BY <2>1, <2>2
<1> QED
  BY <1>1, <1>2, <1>3

\* Every step of Load, Create and the calls keeps the invariant.
LEMMA IndStep == IndInv /\ [Next]_vars => IndInv'
<1> SUFFICES ASSUME IndInv, [Next]_vars
             PROVE  IndInv'
  OBVIOUS
<1> USE DEF IndInv, service
<1>1. CASE Load
  <2>1. TypeOK' /\ TablesInv' /\ LoadedInv'
    BY <1>1 DEF Load, TypeOK, TablesInv, LoadedInv
  <2>2. \A r \in Requests : CallInv(r)'
    BY <1>1 DEF Load, LoadedInv, CallInv
  <2> QED
    BY <2>1, <2>2
<1>2. CASE Create
  <2>1. settings' = settings
    <3>1. settings = DefaultSettings
      BY <1>2 DEF Create, LoadedInv
    <3>2. settings' = [DefaultSettings EXCEPT !.transitKey = DefaultKey]
      BY <1>2, <3>1 DEF Create, KeyOrDefault, DefaultSettings
    <3> QED
      BY <3>1, <3>2 DEF DefaultSettings
  <2>2. TypeOK' /\ TablesInv' /\ LoadedInv'
    BY <1>2, <2>1 DEF Create, TypeOK, TablesInv, LoadedInv
  <2>3. \A r \in Requests : CallInv(r)'
    BY <1>2, <2>1, CallKept DEF Create
  <2> QED
    BY <2>2, <2>3
<1>3. ASSUME NEW r \in Requests, Deploy(r)
      PROVE  IndInv'
  <2>1. PICK v \in RequestValues :
          /\ req' = [req EXCEPT ![r] = v]
          /\ parameters' = [parameters EXCEPT ![r] = Parameters(settings, v)]
          /\ deployment' = [deployment EXCEPT ![r] = NewDeployment(v)]
          /\ IF Parameters(settings, v).shape = "error"
             THEN /\ pc' = [pc EXCEPT ![r] = "done"]
                  /\ response' = [response EXCEPT ![r] = DeployError]
             ELSE /\ pc' = [pc EXCEPT ![r] = "prepare"]
                  /\ UNCHANGED response
    BY <1>3 DEF Deploy
  <2>2. /\ pc[r] = "idle" /\ loaded # "new"
        /\ UNCHANGED <<loaded, settings, endpoint, configuration, destination>>
    BY <1>3 DEF Deploy
  <2>3. TypeOK'
    <3>1. /\ req' \in [Requests -> RequestValues]
          /\ pc' \in [Requests -> {"idle", "prepare", "render", "respond", "done"}]
      BY <2>1 DEF TypeOK
    <3>2. \A q \in Requests :
            /\ parameters'[q].shape \in {"error", "external", "durable", "dev"}
            /\ parameters'[q].command[3] \in KeyNames \cup {""}
      <4> DEFINE p == Parameters(settings, v)
      <4>1. /\ p.shape \in {"error", "external", "durable", "dev"}
            /\ p.command[3] \in KeyNames \cup {""}
        BY ParametersFacts DEF ParametersFit
      <4>2. \A q \in Requests : parameters'[q] = IF q = r THEN p ELSE parameters[q]
        BY <2>1 DEF TablesInv
      <4> HIDE DEF p
      <4> QED
        BY <4>1, <4>2 DEF TypeOK
    <3>3. \A q \in Requests : response'[q].state \in {"none", "ERROR", "SUCCESS"}
      <4>1. UNCHANGED response \/ response' = [response EXCEPT ![r] = DeployError]
        BY <2>1
      <4>2. \A q \in Requests : response'[q] \in {response[q], DeployError}
        BY <4>1 DEF TablesInv
      <4>3. DeployError.state = "ERROR"
        BY DEF DeployError
      <4> QED
        BY <4>2, <4>3 DEF TypeOK
    <3> QED
      BY <2>2, <3>1, <3>2, <3>3 DEF TypeOK
  <2>4. TablesInv' /\ LoadedInv'
    BY <2>1, <2>2 DEF TablesInv, LoadedInv
  <2>5. ASSUME NEW q \in Requests
        PROVE  CallInv(q)'
    <3>1. CASE q = r
      BY <2>1, <2>2, <3>1 DEF CallInv, Decided, Own, TypeOK, TablesInv
    <3>2. CASE q # r
      BY <2>1, <2>2, <3>2, CallKept DEF TypeOK, TablesInv
    <3> QED
      BY <3>1, <3>2
  <2> QED
    BY <2>3, <2>4, <2>5
<1>4. ASSUME NEW r \in Requests, Prepare(r)
      PROVE  IndInv'
  <2>1. CASE Fails(r)
    BY <1>4, <2>1, FailsInv DEF Prepare
  <2>2. CASE /\ Prepares(settings, parameters[r], deployment[r], req[r])
             /\ configuration' = [configuration EXCEPT
                    ![r] = Configuration(settings, parameters[r], deployment[r], req[r])]
             /\ Writes(r, Configuration(settings, parameters[r], deployment[r], req[r]))
             /\ pc' = [pc EXCEPT ![r] = "render"]
             /\ UNCHANGED <<service, req, destination, response>>
    <3> DEFINE c == Configuration(settings, parameters[r], deployment[r], req[r])
    <3>1. Decided(r) /\ pc[r] = "prepare"
      BY <1>4 DEF Prepare, CallInv
    <3>2. /\ parameters' = [parameters EXCEPT ![r] = PreparedParameters(parameters[r], req[r])]
          /\ deployment' = [deployment EXCEPT ![r] = PreparedDeployment(parameters[r], deployment[r], c)]
      BY <2>2 DEF Writes, TablesInv
    <3>3. Prepared(r)' /\ pc'[r] = "render" /\ response'[r] = response[r]
      <4>1. /\ configuration'[r] = c
            /\ parameters'[r] = PreparedParameters(parameters[r], req[r])
            /\ deployment'[r] = PreparedDeployment(parameters[r], deployment[r], c)
            /\ settings' = settings /\ req' = req /\ response' = response
            /\ pc'[r] = "render"
        BY <2>2, <3>2 DEF TablesInv, TypeOK
      <4> QED
        BY <2>2, <3>1, <4>1 DEF Decided, Prepared, Own
    <3>4. \A q \in Requests : /\ parameters'[q].shape = parameters[q].shape
                              /\ parameters'[q].command = parameters[q].command
      BY <3>2 DEF TablesInv, PreparedParameters
    <3> HIDE DEF c
    <3>5. TypeOK' /\ TablesInv' /\ LoadedInv'
      <4>1. TypeOK'
        BY <2>2, <3>4 DEF TypeOK
      <4>2. TablesInv' /\ LoadedInv'
        BY <1>4, <2>2, <3>2 DEF Prepare, TablesInv, LoadedInv, TypeOK
      <4> QED
        BY <4>1, <4>2
    <3>6. ASSUME NEW q \in Requests
          PROVE  CallInv(q)'
      <4>1. CASE q = r
        BY <3>1, <3>3, <4>1 DEF CallInv
      <4>2. CASE q # r
        BY <2>2, <3>2, <4>2, CallKept DEF TypeOK, TablesInv
      <4> QED
        BY <4>1, <4>2
    <3> QED
      BY <3>5, <3>6
  <2> QED
    BY <1>4, <2>1, <2>2 DEF Prepare
<1>5. ASSUME NEW r \in Requests, Render(r)
      PROVE  IndInv'
  <2>1. TypeOK' /\ TablesInv' /\ LoadedInv'
    BY <1>5 DEF Render, TypeOK, TablesInv, LoadedInv
  <2>2. ASSUME NEW q \in Requests
        PROVE  CallInv(q)'
    <3>1. CASE q = r
      BY <1>5, <3>1 DEF Render, CallInv, Prepared, Rendered, Own, TypeOK, TablesInv
    <3>2. CASE q # r
      BY <1>5, <3>2, CallKept DEF Render, TypeOK, TablesInv
    <3> QED
      BY <3>1, <3>2
  <2> QED
    BY <2>1, <2>2
<1>6. ASSUME NEW r \in Requests, CoreFails(r)
      PROVE  IndInv'
  BY <1>6, FailsInv DEF CoreFails
<1>7. ASSUME NEW r \in Requests, Respond(r)
      PROVE  IndInv'
  <2>1. TypeOK' /\ TablesInv' /\ LoadedInv'
    BY <1>7 DEF Respond, TypeOK, TablesInv, LoadedInv
  <2>2. ASSUME NEW q \in Requests
        PROVE  CallInv(q)'
    <3>1. CASE q = r
      BY <1>7, <3>1 DEF Respond, CallInv, Prepared, Rendered, Own, TypeOK, TablesInv
    <3>2. CASE q # r
      BY <1>7, <3>2, CallKept DEF Respond, TypeOK, TablesInv
    <3> QED
      BY <3>1, <3>2
  <2> QED
    BY <2>1, <2>2
<1>8. CASE UNCHANGED vars
  <2>1. TypeOK' /\ TablesInv' /\ LoadedInv'
    BY <1>8 DEF vars, TypeOK, TablesInv, LoadedInv
  <2>2. \A r \in Requests : CallInv(r)'
    BY <1>8, CallKept DEF vars
  <2> QED
    BY <2>1, <2>2
<1> QED
  BY <1>1, <1>2, <1>3, <1>4, <1>5, <1>6, <1>7, <1>8 DEF Next

\* The inductive invariant holds in every behaviour.
LEMMA IndInvariant == Spec => []IndInv
<1>1. Init => IndInv
  <2> SUFFICES ASSUME Init PROVE IndInv
    OBVIOUS
  <2>1. (CHOOSE v \in RequestValues : TRUE) \in RequestValues
    BY RequestsAssumption
  <2>2. TypeOK
    BY <2>1 DEF Init, TypeOK, NoParameters, NoCommand, NoResponse
  <2>3. TablesInv /\ LoadedInv
    BY DEF Init, TablesInv, LoadedInv
  <2>4. \A r \in Requests : CallInv(r)
    BY DEF Init, CallInv
  <2> QED
    BY <2>2, <2>3, <2>4 DEF IndInv
<1> QED
  BY <1>1, IndStep, PTL DEF Spec

-----------------------------------------------------------------------------
(* What follows *)

\* A call that succeeded was answered with what its own request computes.
LEMMA SucceededFacts ==
    ASSUME IndInv, NEW r \in Requests, Succeeded(r)
    PROVE  /\ req[r] \in RequestValues
           /\ Own(r).shape # "error"
           /\ ParametersFit(Own(r), req[r])
           /\ BindingFits(settings, Own(r), req[r])
           /\ Prepares(settings, Own(r), NewDeployment(req[r]), req[r])
           /\ ConfigurationFits(settings, Own(r), req[r], response[r].configuration)
           /\ ManifestFits(Own(r), req[r], destination[r])
<1>1. DeployError.state # "SUCCESS" /\ NoResponse.state # "SUCCESS"
  BY DEF DeployError, NoResponse
<1>2. CallInv(r) /\ req[r] \in RequestValues
  BY DEF IndInv, TypeOK
<1>3. pc[r] = "done"
  BY <1>1, <1>2 DEF IndInv, TypeOK, CallInv, Succeeded
<1>4. Rendered(r) /\ response[r].configuration = configuration[r]
  BY <1>1, <1>2, <1>3 DEF CallInv, Succeeded
<1>5. ParametersFit(Own(r), req[r]) /\ BindingFits(settings, Own(r), req[r])
  BY ParametersFacts, BindingFacts DEF Own
<1>6. ConfigurationFits(settings, Own(r), req[r], response[r].configuration)
  BY <1>4, ConfigurationFacts DEF Rendered, Prepared
<1>7. ManifestFits(Own(r), req[r], destination[r])
  <2>1. PreparedFits(Own(r), req[r], parameters[r], deployment[r])
    BY <1>4, PreparedFacts DEF Rendered, Prepared
  <2> QED
    BY <1>4, <2>1, ManifestFacts DEF Rendered
<1> QED
  BY <1>2, <1>4, <1>5, <1>6, <1>7 DEF Rendered, Prepared

\* Every variable keeps its type: in particular a key that reaches a command is
\* a plain Vault path segment.
THEOREM TypeCorrect == Spec => []TypeOK
BY IndInvariant, PTL DEF IndInv

\* No deployment that is not ephemeral, of a profile nobody knows included,
\* carries the value of a token, a Secret, a Namespace or a dev server.
THEOREM RestrictedIsTokenless == Spec => []RestrictedHoldsNoToken
<1>1. IndInv => RestrictedHoldsNoToken
  <2> SUFFICES ASSUME IndInv, NEW r \in Requests, Succeeded(r), req[r].profile # "ephemeral"
               PROVE  /\ response[r].configuration.token \in {"", "absent"}
                      /\ destination[r].secret = {}
                      /\ ~destination[r].namespace
                      /\ destination[r].workload # "dev"
    BY DEF RestrictedHoldsNoToken
  <2>1. restrictedOutput(req[r].profile)
    BY DEF restrictedOutput
  <2>2. response[r].configuration.token \in {"", "absent"}
    BY <2>1, SucceededFacts DEF ConfigurationFits
  <2>3. Own(r).shape \in {"external", "durable"}
    BY <2>1, SucceededFacts DEF ParametersFit
  <2>4. destination[r].secret = {} /\ ~destination[r].namespace /\ destination[r].workload # "dev"
    BY <2>1, <2>3, SucceededFacts DEF ManifestFits
  <2> QED
    BY <2>2, <2>4
<1> QED
  BY <1>1, IndInvariant, PTL

\* One external binding is enough: no deployment of any environment runs a
\* Vault of its own, and a successful one points at its own binding over TLS.
THEOREM BoundStaysExternal == Spec => []BoundNeverRunsVault
<1>1. IndInv => BoundNeverRunsVault
  <2> SUFFICES ASSUME IndInv, NEW r \in Requests, Succeeded(r), Bindings(settings) # {}
               PROVE  /\ destination[r].workload = "none"
                      /\ destination[r].secret = {} /\ destination[r].env = {}
                      /\ req[r].environment \in Bindings(settings)
                      /\ response[r].configuration.address.url = "https://vault"
                      /\ response[r].configuration.tokenFile =
                             settings.externalInstances[req[r].environment].tokenFile
    BY DEF BoundNeverRunsVault
  <2> DEFINE b == settings.externalInstances[req[r].environment]
  <2>1. /\ Own(r).shape = "external"
        /\ req[r].environment \in Bindings(settings)
        /\ validate(b)
    BY SucceededFacts DEF BindingFits
  <2>2. /\ destination[r].workload = "none"
        /\ destination[r].secret = {} /\ destination[r].env = {}
    BY <2>1, SucceededFacts DEF ManifestFits
  <2>3. /\ response[r].configuration.address.url = TrimSuffix(b.address)
        /\ response[r].configuration.tokenFile = b.tokenFile
    BY <2>1, SucceededFacts DEF ConfigurationFits
  <2>4. TrimSuffix(b.address) = "https://vault"
    BY <2>1 DEF validate, TrimSuffix
  <2> QED
    BY <2>1, <2>2, <2>3, <2>4
<1> QED
  BY <1>1, IndInvariant, PTL

\* Consumers of a successful deployment dial the port its Service publishes and
\* have exactly one way to authenticate, the one its Vault is given.
THEOREM ConsumersFit == Spec => []ConsumersFitTheRender
<1>1. IndInv => ConsumersFitTheRender
  <2> SUFFICES ASSUME IndInv, NEW r \in Requests, Succeeded(r)
               PROVE  LET given == response[r].configuration
                          made == destination[r]
                      IN  /\ (given.tokenFile # "") # (given.token # "absent")
                          /\ made.workload # "none" =>
                                /\ made.port = IF given.address.port = 0 THEN NativePort
                                               ELSE given.address.port
                                /\ made.headless <=> made.port = NativePort
                                /\ made.command[2] = made.workload
                          /\ made.workload = "dev" =>
                                /\ made.secret = {given.token}
                                /\ given.token \notin BlankTokens
                                /\ made.env = {Variable("VAULT_DEV_ROOT_TOKEN_ID", "secret", FALSE)}
                          /\ made.workload = "durable" =>
                                /\ made.env = {Variable("VAULT_ACCESS_TOKEN", "reference", FALSE)}
                                /\ req[r].references = [s \in {"canonical"} |-> FALSE]
    BY DEF ConsumersFitTheRender
  <2> DEFINE given == response[r].configuration
             made == destination[r]
             p == Own(r)
             b == settings.externalInstances[req[r].environment]
  <2>1. /\ req[r] \in RequestValues
        /\ p.shape \in {"external", "durable", "dev"}
        /\ Prepares(settings, p, NewDeployment(req[r]), req[r])
    BY SucceededFacts DEF ParametersFit
  <2>2. /\ req[r].token # "absent"
        /\ req[r].references \in [DOMAIN req[r].references -> BOOLEAN]
    BY <2>1, RequestsAssumption
  <2>3. (given.tokenFile # "") <=> (given.token = "absent")
    <3>1. CASE p.shape = "external"
      <4>1. /\ given.tokenFile = b.tokenFile
            /\ given.token = IF b.tokenFile # "" THEN "absent"
                             ELSE IF restrictedOutput(req[r].profile) THEN "" ELSE req[r].token
        BY <3>1, SucceededFacts DEF ConfigurationFits
      <4> QED
        BY <2>2, <4>1
    <3>2. CASE p.shape # "external"
      <4>1. /\ given.tokenFile = ""
            /\ given.token = IF restrictedOutput(req[r].profile) THEN "" ELSE req[r].token
        BY <3>2, SucceededFacts DEF ConfigurationFits
      <4> QED
        BY <2>2, <4>1
    <3> QED
      BY <3>1, <3>2
  <2>4. made.workload = IF p.shape = "external" THEN "none" ELSE p.shape
    BY <2>1, SucceededFacts DEF ManifestFits
  <2>5. made.workload # "none" =>
          /\ made.port = IF given.address.port = 0 THEN NativePort ELSE given.address.port
          /\ made.headless <=> made.port = NativePort
          /\ made.command[2] = made.workload
    <3> SUFFICES ASSUME p.shape # "external"
                 PROVE  /\ made.port = IF given.address.port = 0 THEN NativePort
                                       ELSE given.address.port
                        /\ made.headless <=> made.port = NativePort
                        /\ made.command[2] = made.workload
      BY <2>4
    <3>1. /\ given.address.port = req[r].port
          /\ made.port = ServicePort(req[r].port)
          /\ made.headless <=> made.port = NativePort
          /\ made.command = p.command
      BY SucceededFacts DEF ConfigurationFits, ManifestFits
    <3>2. ServicePort(req[r].port) = IF req[r].port = 0 THEN NativePort ELSE req[r].port
      BY DEF ServicePort
    <3>3. p.command[2] = p.shape
      BY <2>1, SucceededFacts DEF ParametersFit
    <3> QED
      BY <2>4, <3>1, <3>2, <3>3
  <2>6. made.workload = "dev" =>
          /\ made.secret = {given.token}
          /\ given.token \notin BlankTokens
          /\ made.env = {Variable("VAULT_DEV_ROOT_TOKEN_ID", "secret", FALSE)}
    <3> SUFFICES ASSUME p.shape = "dev"
                 PROVE  /\ made.secret = {given.token}
                        /\ given.token \notin BlankTokens
                        /\ made.env = {Variable("VAULT_DEV_ROOT_TOKEN_ID", "secret", FALSE)}
      BY <2>1, <2>4
    <3>1. ~restrictedOutput(req[r].profile)
      BY SucceededFacts DEF ParametersFit
    <3>2. /\ given.token = req[r].token /\ made.secret = {req[r].token}
          /\ made.env = {Variable("VAULT_DEV_ROOT_TOKEN_ID", "secret", FALSE)}
      BY <3>1, SucceededFacts DEF ConfigurationFits, ManifestFits
    <3>3. TokenConfigured(req[r])
      BY <2>1, <3>1 DEF Prepares, NewDeployment
    <3> QED
      BY <3>2, <3>3 DEF TokenConfigured
  <2>7. made.workload = "durable" =>
          /\ made.env = {Variable("VAULT_ACCESS_TOKEN", "reference", FALSE)}
          /\ req[r].references = [s \in {"canonical"} |-> FALSE]
    <3> SUFFICES ASSUME p.shape = "durable"
                 PROVE  /\ made.env = {Variable("VAULT_ACCESS_TOKEN", "reference", FALSE)}
                        /\ req[r].references = [s \in {"canonical"} |-> FALSE]
      BY <2>1, <2>4
    <3>1. restrictedOutput(req[r].profile)
      BY SucceededFacts DEF ParametersFit
    <3>2. made.env = {Variable("VAULT_ACCESS_TOKEN", "reference", req[r].references["canonical"])}
      BY <3>1, SucceededFacts DEF ManifestFits
    <3>3. vaultRestrictedSecretReferences(req[r].references)
      BY <2>1, <3>1 DEF Prepares, NewDeployment
    <3>4. req[r].references = [s \in {"canonical"} |-> FALSE]
      BY <2>2, <3>3 DEF vaultRestrictedSecretReferences
    <3> QED
      BY <3>2, <3>4
  <2> QED
    BY <2>3, <2>5, <2>6, <2>7
<1> QED
  BY <1>1, IndInvariant, PTL

\* However many deployments run at once, a token in a response or its manifests
\* is the one of that very request.
THEOREM TokensStayInTheirRequest == Spec => []TokensRequestScoped
<1>1. IndInv => TokensRequestScoped
  <2> SUFFICES ASSUME IndInv, NEW r \in Requests, Succeeded(r)
               PROVE  /\ response[r].configuration.token \in {"", "absent", req[r].token}
                      /\ destination[r].secret \subseteq {req[r].token}
    BY DEF TokensRequestScoped
  <2>1. response[r].configuration.token \in {"", "absent", req[r].token}
    BY SucceededFacts DEF ConfigurationFits
  <2>2. destination[r].secret \subseteq {req[r].token}
    BY SucceededFacts DEF ManifestFits
  <2> QED
    BY <2>1, <2>2
<1> QED
  BY <1>1, IndInvariant, PTL
===============================================================================
