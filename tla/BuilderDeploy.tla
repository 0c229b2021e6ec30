---------------------------- MODULE BuilderDeploy ----------------------------
(***************************************************************************)
(* The Builder agent serving Deploy requests, several at a time: Load and   *)
(* Create set up the one Service all requests share; every request goes     *)
(* through the decision, core's call of Prepare, core's rendering and the   *)
(* response.  What a request computes is in Rendering.                      *)
(***************************************************************************)
EXTENDS Rendering

CONSTANTS
    Requests,       \* Deploy calls
    RequestValues,  \* what a call may carry
    SettingsFiles   \* what service.codefly.yaml may hold

\* A call carries something; a reference is optional or it is not; "absent" is
\* no token but stands for a key that is left out of a configuration.
ASSUME RequestsAssumption ==
    /\ RequestValues # {}
    /\ \A v \in RequestValues : /\ v.references \in [DOMAIN v.references -> BOOLEAN]
                                /\ v.token # "absent"

VARIABLES
    loaded,         \* "new", "creating" (Load in creation mode) or "loaded"
    settings,       \* s.Settings
    endpoint,       \* s.HttpEndpoint is set
    req,            \* the request of each call
    pc,             \* where each call is
    parameters,     \* its deploymentTemplateParameters
    deployment,     \* its KustomizeDeploymentContext
    configuration,  \* its configuration: from Prepare or exported by it
    destination,    \* the manifests rendered for it
    response        \* its state and configuration

vars == <<loaded, settings, endpoint, req, pc, parameters, deployment, configuration, destination,
          response>>
service == <<loaded, settings, endpoint>>

NoValues == [address |-> [url |-> "", port |-> 0], caFile |-> "", tokenFile |-> "", token |-> "absent"]
NoResponse == [state |-> "none", configuration |-> NoValues]
DefaultSettings == [transitKey |-> DefaultKey, externalInstances |-> <<>>]
DeployError == [state |-> "ERROR", configuration |-> NoValues]

\* NewBuilder, NewService.
Init ==
    /\ loaded = "new"
    /\ settings = DefaultSettings
    /\ endpoint = FALSE
    /\ req \in [Requests -> {CHOOSE v \in RequestValues : TRUE}]
    /\ pc = [r \in Requests |-> "idle"]
    /\ parameters = [r \in Requests |-> NoParameters]
    /\ deployment = [r \in Requests |-> NewDeployment(req[r])]
    /\ configuration = [r \in Requests |-> NoValues]
    /\ destination = [r \in Requests |-> NoManifest]
    /\ response = [r \in Requests |-> NoResponse]

-----------------------------------------------------------------------------

\* Load: the settings and the HTTP endpoint of an existing service; a service
\* that is being created has neither yet.
Load ==
    /\ loaded = "new"
    /\ \/ /\ loaded' = "loaded"
          /\ settings' \in SettingsFiles
          /\ endpoint' = TRUE
       \/ /\ loaded' = "creating"
          /\ UNCHANGED <<settings, endpoint>>
    /\ UNCHANGED <<req, pc, parameters, deployment, configuration, destination, response>>

\* Create, with CreateEndpoints; the factory templates may fail before it.
Create ==
    /\ loaded = "creating"
    /\ settings' = [settings EXCEPT !.transitKey = KeyOrDefault(@)]
    /\ \/ endpoint' = TRUE /\ loaded' = "loaded"
       \/ UNCHANGED <<endpoint, loaded>>
    /\ UNCHANGED <<req, pc, parameters, deployment, configuration, destination, response>>

\* Deploy up to DeployKustomize.
Deploy(r) ==
    /\ loaded # "new"
    /\ pc[r] = "idle"
    /\ \E v \in RequestValues :
          LET p == Parameters(settings, v)
          IN  /\ req' = [req EXCEPT ![r] = v]
              /\ parameters' = [parameters EXCEPT ![r] = p]
              /\ deployment' = [deployment EXCEPT ![r] = NewDeployment(v)]
              /\ IF p.shape = "error"
                 THEN /\ pc' = [pc EXCEPT ![r] = "done"]
                      /\ response' = [response EXCEPT ![r] = DeployError]
                 ELSE /\ pc' = [pc EXCEPT ![r] = "prepare"]
                      /\ UNCHANGED response
    /\ UNCHANGED <<service, configuration, destination>>

\* core or Prepare fails: nothing is rendered, and what Prepare may have written
\* before it failed goes with the call.
Fails(r) ==
    /\ pc' = [pc EXCEPT ![r] = "done"]
    /\ response' = [response EXCEPT ![r] = DeployError]
    /\ UNCHANGED <<service, req, parameters, deployment, configuration, destination>>

\* What Prepare leaves in the call's parameters and deployment, having made c.
Writes(r, c) ==
    /\ parameters' = [parameters EXCEPT ![r] = PreparedParameters(@, req[r])]
    /\ deployment' = [deployment EXCEPT ![r] = PreparedDeployment(parameters[r], @, c)]

\* Mutant: the configuration is a field of the Builder.
Mutant_SharedConfiguration(r) ==
    /\ pc[r] = "prepare"
    /\ IF endpoint /\ Prepares(settings, parameters[r], deployment[r], req[r])
       THEN LET c == Configuration(settings, parameters[r], deployment[r], req[r])
            IN  /\ configuration' = [q \in Requests |-> c]
                /\ Writes(r, c)
                /\ pc' = [pc EXCEPT ![r] = "render"]
                /\ UNCHANGED <<service, req, destination, response>>
       ELSE Fails(r)

\* DeployKustomize calls Prepare; without the endpoint it finds no instance.
Prepare(r) ==
    /\ pc[r] = "prepare"
    /\ IF endpoint /\ Prepares(settings, parameters[r], deployment[r], req[r])
       THEN LET c == Configuration(settings, parameters[r], deployment[r], req[r])
            IN  /\ configuration' = [configuration EXCEPT ![r] = c]
                /\ Writes(r, c)
                /\ pc' = [pc EXCEPT ![r] = "render"]
                /\ UNCHANGED <<service, req, destination, response>>
       ELSE Fails(r)

\* core fills the templates (external).
Render(r) ==
    /\ pc[r] = "render"
    /\ destination' = [destination EXCEPT ![r] = Manifest(parameters[r], deployment[r])]
    /\ pc' = [pc EXCEPT ![r] = "respond"]
    /\ UNCHANGED <<service, req, parameters, deployment, configuration, response>>

\* core refuses, before Prepare (an unknown profile, say) or on the rendered
\* text.
CoreFails(r) == pc[r] \in {"prepare", "render"} /\ Fails(r)

\* The configuration joins a successful response.
Respond(r) ==
    /\ pc[r] = "respond"
    /\ response' = [response EXCEPT ![r] = [state |-> "SUCCESS", configuration |-> configuration[r]]]
    /\ pc' = [pc EXCEPT ![r] = "done"]
    /\ UNCHANGED <<service, req, parameters, deployment, configuration, destination>>

Next ==
    \/ Load \/ Create
    \/ \E r \in Requests : Deploy(r) \/ Prepare(r) \/ Render(r) \/ CoreFails(r) \/ Respond(r)

Spec == Init /\ [][Next]_vars

-----------------------------------------------------------------------------
(* Properties *)

Succeeded(r) == response[r].state = "SUCCESS"

\* Every variable has its type.
TypeOK ==
    /\ loaded \in {"new", "creating", "loaded"}
    /\ settings \in SettingsFiles \cup {DefaultSettings}
    /\ endpoint \in BOOLEAN
    /\ req \in [Requests -> RequestValues]
    /\ pc \in [Requests -> {"idle", "prepare", "render", "respond", "done"}]
    /\ \A r \in Requests : /\ parameters[r].shape \in {"error", "external", "durable", "dev"}
                           /\ parameters[r].command[3] \in KeyNames \cup {""}
    /\ \A r \in Requests : response[r].state \in {"none", "ERROR", "SUCCESS"}

\* A restricted deployment, and one of a profile nobody knows, carries no token
\* value: not in the consumers' configuration, not in the manifests, which hold
\* no Secret and no Namespace either (builder.go: "the other direction would
\* hand a restricted render the secrets it exists to refuse").
RestrictedHoldsNoToken ==
    \A r \in Requests : Succeeded(r) /\ req[r].profile # "ephemeral" =>
        /\ response[r].configuration.token \in {"", "absent"}
        /\ destination[r].secret = {}
        /\ ~destination[r].namespace
        /\ destination[r].workload # "dev"

\* Once any environment is bound to an external Vault, no deployment of any
\* environment runs a Vault or creates a Secret of its own, and a successful
\* one sends its consumers to its own environment's binding over TLS.
BoundNeverRunsVault ==
    \A r \in Requests : Succeeded(r) /\ Bindings(settings) # {} =>
        /\ destination[r].workload = "none"
        /\ destination[r].secret = {} /\ destination[r].env = {}
        /\ req[r].environment \in Bindings(settings)
        /\ response[r].configuration.address.url = "https://vault"
        /\ response[r].configuration.tokenFile =
               settings.externalInstances[req[r].environment].tokenFile

\* A deployment that succeeds is one its consumers can use.  They dial the port
\* its Service publishes (headless only where nothing has to be translated; the
\* container's own port if core allocated none), the script provisions in the
\* mode of the server it runs beside, and they are handed exactly one way to
\* authenticate, which is the one the rendered Vault is given: the value of its
\* Secret, or the capability whose reference the container cannot start without.
ConsumersFitTheRender ==
    \A r \in Requests : Succeeded(r) =>
        LET given == response[r].configuration
            made == destination[r]
        IN  /\ (given.tokenFile # "") # (given.token # "absent")
            /\ made.workload # "none" =>
                  /\ made.port = IF given.address.port = 0 THEN NativePort ELSE given.address.port
                  /\ made.headless <=> made.port = NativePort
                  /\ made.command[2] = made.workload
            /\ made.workload = "dev" =>
                  /\ made.secret = {given.token}
                  /\ given.token \notin BlankTokens
                  /\ made.env = {Variable("VAULT_DEV_ROOT_TOKEN_ID", "secret", FALSE)}
            /\ made.workload = "durable" =>
                  /\ made.env = {Variable("VAULT_ACCESS_TOKEN", "reference", FALSE)}
                  /\ req[r].references = [s \in {"canonical"} |-> FALSE]

\* Concurrent deployments keep their tokens to themselves: a token value in a
\* response or in its manifests is the one of that very request.
TokensRequestScoped ==
    \A r \in Requests : Succeeded(r) =>
        /\ response[r].configuration.token \in {"", "absent", req[r].token}
        /\ destination[r].secret \subseteq {req[r].token}
===============================================================================
