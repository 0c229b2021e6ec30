----------------------------- MODULE VaultStore -----------------------------
(***************************************************************************)
(* What a Vault server keeps in its storage backend (raft on the data       *)
(* volume, or the local file backend), seen from the calls this repository  *)
(* makes.  Vault itself is not part of the repository: every operator here  *)
(* is an external assumption, taken from how provision/provision.sh,        *)
(* localstate.go and runtime.go use the API.                                *)
(*                                                                          *)
(* An initialization mints a new GENERATION of keys: a keyring, its unseal  *)
(* or recovery keys and one initial root token.  Generations are numbered   *)
(* from 1; 0 means "none".  The root token and the unseal key of generation *)
(* g are represented by g itself, so a credential kept outside Vault is     *)
(* just the number of the generation it belongs to.                         *)
(***************************************************************************)
EXTENDS Naturals

CONSTANT Tokens      \* the access token ids a composition may configure

\* What may be mounted at secret/ and at transit/.  "kv1" is a KV mount that
\* is not version 2 (it stores whatever is written below its path), "other"
\* an engine that refuses such writes.
SecretMounts == {"none", "kv1", "kv2", "other"}
TransitMounts == {"none", "transit", "kv1", "other"}

\* Storage no server has initialized.
EmptyStore ==
    [gen |-> 0, root |-> FALSE, tokens |-> {},
     secret |-> "none", transit |-> "none", key |-> FALSE]

\* Storage right after sys/init minted generation g: only the root token.
FreshStore(g) == [EmptyStore EXCEPT !.gen = g, !.root = TRUE]

Initialized(s) == s.gen # 0

\* The root token of generation g authenticates: it is this store's, unrevoked.
RootAccepted(s, g) == /\ g # 0
                      /\ s.gen = g
                      /\ s.root

\* auth/token/create-orphan with an explicit id: an id that exists is
\* rejected, so the store is the same either way.
WithToken(s, t) == [s EXCEPT !.tokens = @ \cup {t}]

\* token revoke -self, presented with the root token.
WithoutRoot(s) == [s EXCEPT !.root = FALSE]

\* secrets enable / sys/mounts: a path already mounted is left as it is.
WithSecret(s, kind) == IF s.secret = "none" THEN [s EXCEPT !.secret = kind] ELSE s
WithTransit(s, kind) == IF s.transit = "none" THEN [s EXCEPT !.transit = kind] ELSE s

\* transit/keys/<key>: creates the key once, in a transit engine only.
WithKey(s) == IF s.transit = "transit" THEN [s EXCEPT !.key = TRUE] ELSE s

\* The state consumers depend on: KV v2 at secret/, transit at transit/, and
\* the named key.
Provisioned(s) == /\ s.secret = "kv2"
                  /\ s.transit = "transit"
                  /\ s.key
=============================================================================
