--------------------------- MODULE RenderingProofs ---------------------------
(***************************************************************************)
(* What one request makes of the settings, for any settings and any request: *)
(* facts about the operators of Rendering that the proofs about the         *)
(* deployments and about the pod they start both rest on.  Each fact is an  *)
(* operator of its own, so that a proof can cite it for a given request     *)
(* without the expressions behind it.                                       *)
(***************************************************************************)
EXTENDS Rendering, TLAPS

\* Parameters p of request v: one of four shapes, and the key passed on is a
\* plain name.  A Vault of its own is durable exactly under the restricted
\* profile, and the script beside it runs in that mode.
ParametersFit(p, v) ==
    /\ p.shape \in {"error", "external", "durable", "dev"}
    /\ p.command[3] \in KeyNames \cup {""}
    /\ p.shape = "durable" => restrictedOutput(v.profile) /\ p.command[2] = "durable"
    /\ p.shape = "dev" => ~restrictedOutput(v.profile) /\ p.command[2] = "dev"

\* With a binding anywhere, a decision that is no error is for the binding of
\* the request's own environment, which is valid.
BindingFits(s, p, v) ==
    Bindings(s) # {} /\ p.shape # "error" =>
        /\ p.shape = "external"
        /\ v.environment \in Bindings(s)
        /\ validate(s.externalInstances[v.environment])

\* A configuration c holds the value of a token only under the ephemeral
\* profile, and a token file takes its place.
ConfigurationFits(s, p, v, c) ==
    LET b == s.externalInstances[v.environment]
        token == IF restrictedOutput(v.profile) THEN "" ELSE v.token
    IN  /\ p.shape = "external" =>
              /\ c.address.url = TrimSuffix(b.address)
              /\ c.tokenFile = b.tokenFile
              /\ c.token = IF b.tokenFile # "" THEN "absent" ELSE token
        /\ p.shape # "external" =>
              c.address.port = v.port /\ c.tokenFile = "" /\ c.token = token

\* What Prepare leaves of parameters p in q and of request v in deployment e: the
\* allocated port, the token as the one secret of an ephemeral Vault, and the
\* canonical reference of a durable one under the container's own variable.
PreparedFits(p, v, q, e) ==
    /\ q.shape = p.shape /\ q.command = p.command
    /\ p.shape # "external" => q.servicePort = v.port
    /\ e.profile = v.profile
    /\ p.shape # "external" /\ ~restrictedOutput(v.profile) => e.secretMap = {v.token}
    /\ p.shape # "external" /\ restrictedOutput(v.profile) =>
          e.references = [x \in {"VAULT_ACCESS_TOKEN"} |-> v.references["canonical"]]

\* A manifest m holds a token only under the ephemeral profile and only the
\* request's; an external one holds nothing at all.
ManifestFits(p, v, m) ==
    /\ m.namespace = ~restrictedOutput(v.profile)
    /\ p.shape = "external" => m.workload = "none" /\ m.secret = {} /\ m.env = {}
    /\ p.shape # "external" =>
          /\ m.workload = p.shape /\ m.command = p.command
          /\ m.port = ServicePort(v.port)
          /\ m.headless <=> m.port = NativePort
          /\ restrictedOutput(v.profile) =>
                /\ m.secret = {}
                /\ m.env = {Variable("VAULT_ACCESS_TOKEN", "reference", v.references["canonical"])}
          /\ ~restrictedOutput(v.profile) =>
                /\ m.secret = {v.token}
                /\ m.env = {Variable("VAULT_DEV_ROOT_TOKEN_ID", "secret", FALSE)}

\* Deploy's decision is as described.
LEMMA ParametersFacts ==
    ASSUME NEW s, NEW v
    PROVE  ParametersFit(Parameters(s, v), v)
BY DEF ParametersFit, Parameters, NoParameters, NoCommand, serverCommand, provisionCommand,
       ValidKeyName, externalInstance

\* externalInstance checks every binding and falls back for none.
LEMMA BindingFacts ==
    ASSUME NEW s, NEW v
    PROVE  BindingFits(s, Parameters(s, v), v)
<1> SUFFICES ASSUME Bindings(s) # {}, Parameters(s, v).shape # "error"
             PROVE  /\ Parameters(s, v).shape = "external"
                    /\ v.environment \in Bindings(s)
                    /\ validate(s.externalInstances[v.environment])
  BY DEF BindingFits
<1>1. externalInstance(s, v.environment) = "bound"
  BY DEF Parameters, NoParameters, externalInstance
<1>2. Parameters(s, v).shape = "external"
  BY <1>1 DEF Parameters, NoParameters
<1>3. /\ v.environment \in Bindings(s)
      /\ \A e \in Bindings(s) : validate(s.externalInstances[e])
  BY <1>1 DEF externalInstance
<1> QED
  BY <1>2, <1>3

\* Prepare's configuration is as described, whatever the parameters.
LEMMA ConfigurationFacts ==
    ASSUME NEW s, NEW p, NEW v
    PROVE  ConfigurationFits(s, p, v, Configuration(s, p, NewDeployment(v), v))
<1> USE DEF NewDeployment
<1>1. CASE p.shape = "external"
  BY <1>1 DEF ConfigurationFits, Configuration, externalConnectionConfiguration, Values
<1>2. CASE p.shape # "external"
  BY <1>2 DEF ConfigurationFits, Configuration, createConnectionConfiguration, Values
<1> QED
  BY <1>1, <1>2

\* Prepare leaves what is described, whatever the parameters it was given.
LEMMA PreparedFacts ==
    ASSUME NEW s, NEW p, NEW v
    PROVE  PreparedFits(p, v, PreparedParameters(p, v),
               PreparedDeployment(p, NewDeployment(v), Configuration(s, p, NewDeployment(v), v)))
<1> DEFINE c == Configuration(s, p, NewDeployment(v), v)
<1>1. p.shape # "external" /\ ~restrictedOutput(v.profile) => c.token = v.token
  <2>1. ConfigurationFits(s, p, v, c)
    BY ConfigurationFacts
  <2> HIDE DEF c
  <2> QED
    BY <2>1 DEF ConfigurationFits
<1> HIDE DEF c
<1>2. PreparedFits(p, v, PreparedParameters(p, v), PreparedDeployment(p, NewDeployment(v), c))
  BY <1>1 DEF PreparedFits, PreparedParameters, PreparedDeployment, PreparedReferences, NewDeployment
<1> QED
  BY <1>2 DEF c

\* The templates make what is described of what Prepare left.
LEMMA ManifestFacts ==
    ASSUME NEW p, NEW v, NEW q, NEW e, PreparedFits(p, v, q, e)
    PROVE  ManifestFits(p, v, Manifest(q, e))
<1>1. CASE p.shape = "external"
  BY <1>1 DEF PreparedFits, ManifestFits, Manifest, NoManifest
<1>2. CASE p.shape # "external"
  <2> DEFINE restricted == restrictedOutput(v.profile)
             env == IF restricted
                    THEN {Variable(x, "reference", e.references[x]) : x \in DOMAIN e.references}
                    ELSE {Variable("VAULT_DEV_ROOT_TOKEN_ID", "secret", FALSE) : t \in e.secretMap}
  <2>1. restricted =>
          env = {Variable("VAULT_ACCESS_TOKEN", "reference", v.references["canonical"])}
    <3> SUFFICES ASSUME restricted
                 PROVE  env = {Variable("VAULT_ACCESS_TOKEN", "reference", v.references["canonical"])}
      OBVIOUS
    <3>1. /\ DOMAIN e.references = {"VAULT_ACCESS_TOKEN"}
          /\ e.references["VAULT_ACCESS_TOKEN"] = v.references["canonical"]
      BY <1>2 DEF PreparedFits
    <3> QED
      BY <3>1
  <2>2. ~restricted => env = {Variable("VAULT_DEV_ROOT_TOKEN_ID", "secret", FALSE)}
    BY <1>2 DEF PreparedFits
  <2>3. /\ Manifest(q, e).env = env
        /\ Manifest(q, e).secret = IF restricted THEN {} ELSE e.secretMap
        /\ Manifest(q, e).namespace = ~restricted
        /\ Manifest(q, e).workload = p.shape
        /\ Manifest(q, e).command = p.command
        /\ Manifest(q, e).port = ServicePort(v.port)
        /\ Manifest(q, e).headless <=> ServicePort(v.port) = NativePort
    BY <1>2 DEF PreparedFits, Manifest
  <2> HIDE DEF env
  <2> QED
    BY <1>2, <2>1, <2>2, <2>3 DEF PreparedFits, ManifestFits
<1> QED
  BY <1>1, <1>2
===============================================================================
