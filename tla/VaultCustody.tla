----------------------------- MODULE VaultCustody -----------------------------
(***************************************************************************)
(* What the deployed script and the local runtime both promise about keys,  *)
(* whatever files, calls and processes they use: keys are minted only where *)
(* neither storage nor custody of earlier keys exists, and custody is only  *)
(* ever taken of the keys the storage has.  DurableProvision and            *)
(* LocalRuntime implement this specification.                               *)
(***************************************************************************)
EXTENDS Naturals

VARIABLES
    keys,       \* generation of the keys the storage is encrypted with, 0: empty
    kept,       \* generation whose credentials are in custody, 0: none
    minted      \* generations minted so far

custodyVars == <<keys, kept, minted>>

Init == keys = 0 /\ kept = 0 /\ minted = 0

\* An empty Vault is initialized; nobody has the response yet.
Mint ==
    /\ keys = 0 /\ kept = 0
    /\ minted' = minted + 1
    /\ keys' = minted'
    /\ UNCHANGED kept

\* The response, or a backup of it, is put where the next start finds it.
Keep ==
    /\ keys # 0
    /\ kept' = keys
    /\ UNCHANGED <<keys, minted>>

\* Storage, custody or both are lost or deleted.
Lose ==
    /\ keys' \in {keys, 0}
    /\ kept' \in {kept, 0}
    /\ UNCHANGED minted

Next == Mint \/ Keep \/ Lose

Spec == Init /\ [][Next]_custodyVars
===============================================================================
