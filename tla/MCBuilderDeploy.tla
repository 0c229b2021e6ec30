---------------------------- MODULE MCBuilderDeploy ----------------------------
(* BuilderDeploy with two calls, two environments and two tokens, for TLC. *)
EXTENDS BuilderDeploy, TLC

CONSTANTS r1, r2, t1, t2, blank

Binding(address, tokenFile) == [address |-> address, caFile |-> "/path", tokenFile |-> tokenFile]
MCBindings ==
    {<<>>,
     "prod" :> Binding("https://vault/", "/path"),
     "prod" :> Binding("https://vault", ""),
     "prod" :> Binding("https://vault", "/path") @@ "test" :> Binding("https://vault/", ""),
     "prod" :> Binding("https://vault", "/path") @@ "test" :> Binding("http://vault", ""),
     "test" :> Binding("https://vault", "../path")}

MCSettingsFiles == [transitKey : {"", "k", "a/b"}, externalInstances : MCBindings]

\* core allocates the production endpoint a port of its own; an instance may
\* have no port, and mappings may hold no container instance.
MCRequestValues ==
    {v \in [environment : {"prod", "test"}, profile : {"ephemeral", "restricted", "unknown"},
            references : {<<>>, "canonical" :> FALSE, "canonical" :> TRUE, "other" :> FALSE},
            token : {t1, t2, blank}, port : {NoInstance, 0, NativePort, 8301}] :
        v.port \in {NoInstance, 0} => v.environment = "test" /\ v.references = "canonical" :> FALSE}

MCSymmetry == Permutations(Requests)
===============================================================================
