------------------------------ MODULE Rendering ------------------------------
(***************************************************************************)
(* What Builder.Deploy decides and renders, as operators on one request and *)
(* the service's settings: builder.go, external.go, provision.go, the       *)
(* connection configurations of main.go and the kustomize templates.        *)
(* core's DeployKustomize is external: it calls Prepare and then fills the  *)
(* templates.                                                               *)
(*                                                                          *)
(* A request is a record: the environment's name, the output profile, the   *)
(* secret references (a function from source names to whether the reference *)
(* is optional), the configured VAULT_TOKEN and the port of the container   *)
(* network instance: 0 if it has none, NoInstance if the mappings hold no   *)
(* such instance.  Prepare finds the request in core's deployment context   *)
(* and leaves there, and in the parameters, what the templates are filled   *)
(* with.                                                                    *)
(***************************************************************************)
EXTENDS Integers

CONSTANTS
    KeyNames,     \* names that are one plain Vault path segment
    BlankTokens   \* values TrimSpace empties; a missing VAULT_TOKEN is one

CONSTANT DefaultKey
ASSUME DefaultKeyAssumption == DefaultKey \in KeyNames

NoInstance == -1
NativePort == 8200

\* "" stands for a setting that is not given.
KeyOrDefault(key) == IF key = "" THEN DefaultKey ELSE key

\* Mutant: any name will do.
Mutant_AnyName(key) == TRUE

\* The name matches transitKeyNamePattern.
ValidKeyName(key) == key \in KeyNames

-----------------------------------------------------------------------------

\* Mutant: an unknown profile is not the restricted one.
Mutant_UnknownIsEphemeral(profile) == profile = "restricted"

\* A profile ParseOutputProfile refuses is read as restricted.
restrictedOutput(profile) == \/ profile \notin {"ephemeral", "restricted"}
                             \/ profile = "restricted"

\* An https://host[:port] base URL, with or without a trailing slash; the two
\* files, where given, are clean absolute paths.
validate(binding) == /\ binding.address \in {"https://vault", "https://vault/"}
                     /\ {binding.caFile, binding.tokenFile} \subseteq {"", "/path"}

Bindings(settings) == DOMAIN settings.externalInstances

\* Mutant: an environment without a binding gets a Vault of its own.
Mutant_FallsBack(settings, environment) ==
    IF environment \notin Bindings(settings) THEN "none"
    ELSE IF \E e \in Bindings(settings) : ~validate(settings.externalInstances[e]) THEN "error"
    ELSE "bound"

\* externalInstance: every binding is checked, not only the one in use.
externalInstance(settings, environment) ==
    IF Bindings(settings) = {} THEN "none"
    ELSE IF \/ \E e \in Bindings(settings) : ~validate(settings.externalInstances[e])
            \/ environment \notin Bindings(settings) THEN "error"
    ELSE "bound"

\* The container's command and the hook's: which script, the mode in which
\* provision.sh will run, and the key, which stays an argument of its own.
NoCommand == <<"", "", "">>
serverCommand(key) == <<"server.sh", "durable", key>>
provisionCommand(mode, key) == <<"provision.sh", mode, key>>

NoParameters == [shape |-> "error", command |-> NoCommand, servicePort |-> 0]

\* The parameters Deploy hands to DeployKustomize; "error" if it answers
\* DeployError before it gets there.
Parameters(settings, req) ==
    LET binding == externalInstance(settings, req.environment)
        key == KeyOrDefault(settings.transitKey)
    IN  CASE binding = "error" -> NoParameters
          [] binding = "bound" -> [NoParameters EXCEPT !.shape = "external"]
          [] binding = "none" /\ ~ValidKeyName(key) -> NoParameters
          [] OTHER -> IF restrictedOutput(req.profile)
                      THEN [shape |-> "durable", command |-> serverCommand(key), servicePort |-> 0]
                      ELSE [shape |-> "dev", command |-> provisionCommand("dev", key),
                            servicePort |-> 0]

-----------------------------------------------------------------------------
(* Prepare *)

\* The context core calls Prepare with: the profile and the references of the
\* request, and no exported secret yet.
NewDeployment(req) == [profile |-> req.profile, references |-> req.references, secretMap |-> {}]

\* The references hold the canonical, mandatory Vault token reference and
\* nothing else.
vaultRestrictedSecretReferences(references) ==
    /\ DOMAIN references = {"canonical"}
    /\ ~references["canonical"]

\* VaultTokenFromConfiguration finds a token.
TokenConfigured(req) == req.token \notin BlankTokens

\* Prepare returns no error.
Prepares(settings, parameters, deployment, req) ==
    LET restricted == restrictedOutput(deployment.profile)
        canonical == vaultRestrictedSecretReferences(deployment.references)
        withoutFile == settings.externalInstances[req.environment].tokenFile = ""
    IN  /\ req.port # NoInstance
        /\ IF parameters.shape = "external"
           THEN IF restricted
                THEN withoutFile \/ DOMAIN deployment.references # {} => canonical
                ELSE withoutFile => TokenConfigured(req)
           ELSE IF restricted THEN canonical ELSE TokenConfigured(req)

\* The values consumers receive under `vault`.  token: "absent", the empty
\* capability "", or the configured value.
Values(address, caFile, tokenFile, token) ==
    [address |-> address, caFile |-> caFile, tokenFile |-> tokenFile, token |-> token]

TrimSuffix(address) == IF address = "https://vault/" THEN "https://vault" ELSE address

\* A token file takes the place of the token.
externalConnectionConfiguration(binding, token) ==
    Values([url |-> TrimSuffix(binding.address), port |-> 0], binding.caFile, binding.tokenFile,
           IF binding.tokenFile # "" THEN "absent" ELSE token)

\* createConnectionConfiguration: the instance's own address.
createConnectionConfiguration(port, token) ==
    Values([url |-> "http://service", port |-> port], "", "", token)

\* The configuration Prepare makes; in an external ephemeral render without a
\* configured token the binding has a token file.
Configuration(settings, parameters, deployment, req) ==
    LET token == IF restrictedOutput(deployment.profile) THEN "" ELSE req.token
    IN  IF parameters.shape = "external"
        THEN externalConnectionConfiguration(settings.externalInstances[req.environment], token)
        ELSE createConnectionConfiguration(req.port, token)

\* Mutant: Prepare does not pass the allocated port on.
Mutant_PortNotPassedOn(parameters, req) == parameters

\* parameters.ServicePort = instance.GetPort(), for a Vault of its own.
PreparedParameters(parameters, req) ==
    [shape |-> parameters.shape, command |-> parameters.command,
     servicePort |-> IF parameters.shape = "external" THEN parameters.servicePort ELSE req.port]

\* A restricted deployment's canonical reference becomes the variable the
\* container reads; an external Vault has no container, and drops it.
PreparedReferences(parameters, deployment) ==
    IF ~restrictedOutput(deployment.profile) THEN deployment.references
    ELSE IF parameters.shape = "external" THEN [v \in {} |-> FALSE]
    ELSE [v \in {"VAULT_ACCESS_TOKEN"} |-> deployment.references["canonical"]]

\* Mutant: the configuration joins the response, as under the restricted
\* profile, but is not exported to the templates.
Mutant_NotExported(parameters, deployment, configuration) ==
    [deployment EXCEPT !.references = PreparedReferences(parameters, deployment)]

\* ExportConfiguration hands the token of an ephemeral Vault's configuration to
\* the templates as the one secret.
PreparedDeployment(parameters, deployment, configuration) ==
    [profile |-> deployment.profile,
     references |-> PreparedReferences(parameters, deployment),
     secretMap |-> IF parameters.shape = "external" \/ restrictedOutput(deployment.profile)
                   THEN deployment.secretMap
                   ELSE {configuration.token}]

-----------------------------------------------------------------------------
(* The manifests *)

NoManifest ==
    [workload |-> "none", namespace |-> FALSE, port |-> 0, headless |-> FALSE,
     command |-> NoCommand, secret |-> {}, env |-> {}]

\* $port in service.yaml: the ServicePort parameter, 8200 when it is not set.
ServicePort(port) == IF port = 0 THEN NativePort ELSE port

\* A variable of the container, and where it comes from.
Variable(name, source, optional) == [name |-> name, source |-> source, optional |-> optional]

\* What the templates make of the parameters and the deployment as Prepare left
\* them.  secret: the values of the Secret manifest.
Manifest(parameters, deployment) ==
    LET restricted == restrictedOutput(deployment.profile)
        port == ServicePort(parameters.servicePort)
    IN  IF parameters.shape = "external"
        THEN [NoManifest EXCEPT !.namespace = ~restricted]
        ELSE [workload |-> parameters.shape,
              namespace |-> ~restricted,
              port |-> port,
              headless |-> port = NativePort,
              command |-> parameters.command,
              secret |-> IF restricted THEN {} ELSE deployment.secretMap,
              env |-> IF restricted
                      THEN {Variable(v, "reference", deployment.references[v]) :
                                v \in DOMAIN deployment.references}
                      ELSE {Variable("VAULT_DEV_ROOT_TOKEN_ID", "secret", FALSE) :
                                t \in deployment.secretMap}]
===============================================================================
