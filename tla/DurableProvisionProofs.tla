------------------------ MODULE DurableProvisionProofs ------------------------
(***************************************************************************)
(* The safety invariants of DurableProvision, for every set of tokens and   *)
(* every bound.  None of them is inductive by itself: what the script may   *)
(* assume at a step is what the steps before it established, and IndInv     *)
(* writes that down per step.                                               *)
(***************************************************************************)
EXTENDS DurableProvision, TLAPS

\* Past its validation the script holds a real token id; only such an id can
\* be installed in the store.
TokenChecked == pc \notin {"down", "validate", "stopping"} => token \in Tokens

TypeInv == TypeOK /\ TokenChecked

\* Steps before install_access_token(): $root is still unset.
EarlySteps == {"validate", "waitSealed", "readInit", "operatorInit",
               "response", "publish", "waitUnsealed"}

\* Steps taken only after the access token was seen to be accepted.
InstalledSteps == {"probe", "enable", "reprobe", "options", "retire",
                   "revoke", "revokeCheck", "scrub", "serving"}

\* Steps taken only after provision_kv and provision_transit succeeded.
ProvisionedSteps == {"retire", "revoke", "revokeCheck", "scrub", "serving"}

\* A partial response and a published record never exist side by side, and a
\* missing record holds no root token.
FilesInv == /\ partial.exists => record.gen = 0
            /\ record.gen = 0 => ~record.root

\* While initialize() runs there is no record; from the moment the server
\* committed until the response is published the store is fresh.
InitializeInv ==
    /\ pc = "operatorInit" =>
          ~Initialized(store) /\ record.gen = 0 /\ partial.exists
    /\ pc \in {"response", "publish"} =>
          /\ Initialized(store)
          /\ record.gen = 0
          /\ partial.exists
    /\ pc = "publish" => partial.gen = store.gen

\* $root is the root token the record held when the script read it.
RootInv == /\ pc \in EarlySteps => root = 0
           /\ pc # "down" /\ root # 0 => root = record.gen

\* How far provisioning has come.
ProgressInv ==
    /\ pc \in EarlySteps \cup {"lookup", "createToken", "relookup", "options"}
          => target = "secret"
    /\ pc \in InstalledSteps => token \in store.tokens
    /\ pc # "down" /\ target # "secret" => store.secret = "kv2"
    /\ pc # "down" /\ target = "key" => store.transit = "transit"
    /\ pc \in ProvisionedSteps => target = "key" /\ store.key
    /\ pc = "serving" => ~record.root

IndInv == /\ TypeInv
          /\ FilesInv
          /\ InitializeInv
          /\ RootInv
          /\ ProgressInv
          /\ RecordMatchesStore
          /\ NeverLockedOut
          /\ UnrecordedHoldsNothing

-----------------------------------------------------------------------------
(* Type correctness *)

\* The calls of VaultStore map a store to a store.
LEMMA StoreTypes ==
    ASSUME NEW s \in StoreType
    PROVE  /\ EmptyStore \in StoreType
           /\ \A g \in Generations : FreshStore(g) \in StoreType
           /\ \A t \in Tokens : WithToken(s, t) \in StoreType
           /\ WithoutRoot(s) \in StoreType
           /\ \A k \in SecretMounts : WithSecret(s, k) \in StoreType
           /\ \A k \in TransitMounts : WithTransit(s, k) \in StoreType
           /\ WithKey(s) \in StoreType
<1> USE BoundsAssumption
        DEF StoreType, Generations, SecretMounts, TransitMounts, EmptyStore
<1>1. EmptyStore \in StoreType
  OBVIOUS
<1>2. \A g \in Generations : FreshStore(g) \in StoreType
  BY DEF FreshStore
<1>3. \A t \in Tokens : WithToken(s, t) \in StoreType
  BY DEF WithToken
<1>4. WithoutRoot(s) \in StoreType
  BY DEF WithoutRoot
<1>5. \A k \in SecretMounts : WithSecret(s, k) \in StoreType
  BY DEF WithSecret
<1>6. \A k \in TransitMounts : WithTransit(s, k) \in StoreType
  BY DEF WithTransit
<1>7. WithKey(s) \in StoreType
  BY DEF WithKey
<1> QED
  BY <1>1, <1>2, <1>3, <1>4, <1>5, <1>6, <1>7

\* A step that spends a fault, or none, stays within the budget.
LEMMA FaultsType ==
    ASSUME faults \in 0..MaxFaults, Fault \/ UNCHANGED faults
    PROVE  faults' \in 0..MaxFaults
BY BoundsAssumption DEF Fault

\* Every step of the script, the platform or the environment keeps every
\* variable in its type.
LEMMA TypeStep == TypeInv /\ [Next]_vars => TypeInv'
<1> SUFFICES ASSUME TypeInv, [Next]_vars
             PROVE  TypeInv'
  OBVIOUS
<1> USE DEF TypeInv, TokenChecked, TypeOK, volumeVars, serverVars, scriptVars, configVars
<1>1. CASE Validate
  BY <1>1 DEF Validate, Steps, ScriptSteps
<1>2. CASE WaitSealed
  <2>1. faults' \in 0..MaxFaults
    BY <1>2, FaultsType DEF WaitSealed, WaitForServer
  <2> QED
    BY <1>2, <2>1 DEF WaitSealed, WaitForServer, Steps, ScriptSteps
<1>3. CASE ReadInit
  <2>1. partial' \in [exists: BOOLEAN, gen: Generations]
    <3>1. UNCHANGED partial \/ partial' = [exists |-> TRUE, gen |-> 0]
      BY <1>3 DEF ReadInit
    <3>2. [exists |-> TRUE, gen |-> 0] \in [exists: BOOLEAN, gen: Generations]
      BY BoundsAssumption DEF Generations
    <3> QED
      BY <3>1, <3>2
  <2>2. faults' \in 0..MaxFaults
    BY <1>3, FaultsType DEF ReadInit
  <2> QED
    BY <1>3, <2>1, <2>2 DEF ReadInit, Steps, ScriptSteps
<1>4. CASE OperatorInit
  <2>1. store' \in StoreType
    BY <1>4, StoreTypes, BoundsAssumption DEF OperatorInit, Generations
  <2> QED
    BY <1>4, <2>1, BoundsAssumption DEF OperatorInit, Steps, ScriptSteps, Generations
<1>5. CASE OperatorInitFails
  <2>1. faults' \in 0..MaxFaults
    BY <1>5, FaultsType DEF OperatorInitFails
  <2> QED
    BY <1>5, <2>1 DEF OperatorInitFails, Steps, ScriptSteps
<1>6. CASE RecordResponse
  BY <1>6, BoundsAssumption DEF RecordResponse, Steps, ScriptSteps, Generations, StoreType
<1>7. CASE LoseResponse
  <2>1. faults' \in 0..MaxFaults
    BY <1>7, FaultsType DEF LoseResponse
  <2> QED
    BY <1>7, <2>1 DEF LoseResponse, Steps, ScriptSteps
<1>8. CASE Publish
  BY <1>8, BoundsAssumption DEF Publish, NoPartial, Steps, ScriptSteps, Generations
<1>9. CASE WaitUnsealed
  <2>1. faults' \in 0..MaxFaults
    BY <1>9, FaultsType DEF WaitUnsealed, WaitForServer
  <2> QED
    BY <1>9, <2>1 DEF WaitUnsealed, WaitForServer, Steps, ScriptSteps
<1>10. CASE Lookup
  <2>1. faults' \in 0..MaxFaults
    BY <1>10, FaultsType DEF Lookup, Read, RecordedRoot
  <2> QED
    BY <1>10, <2>1, BoundsAssumption DEF Lookup, Read, RecordedRoot, Steps, ScriptSteps, Generations
<1>11. CASE CreateToken
  <2>1. store' \in StoreType
    BY <1>11, StoreTypes DEF CreateToken, Write
  <2>2. faults' \in 0..MaxFaults
    BY <1>11, FaultsType DEF CreateToken, Write
  <2> QED
    BY <1>11, <2>1, <2>2 DEF CreateToken, Write, Steps, ScriptSteps
<1>12. CASE Relookup
  <2>1. faults' \in 0..MaxFaults
    BY <1>12, FaultsType DEF Relookup, Read
  <2> QED
    BY <1>12, <2>1 DEF Relookup, Read, Steps, ScriptSteps
<1>13. CASE Probe
  <2>1. faults' \in 0..MaxFaults
    BY <1>13, FaultsType DEF Probe, Checked, Advance
  <2> QED
    BY <1>13, <2>1 DEF Probe, Checked, Advance, Steps, ScriptSteps
<1>14. CASE Enable
  <2>1. store' \in StoreType
    BY <1>14, StoreTypes DEF Enable, Write, SecretMounts, TransitMounts
  <2>2. faults' \in 0..MaxFaults
    BY <1>14, FaultsType DEF Enable, Write
  <2> QED
    BY <1>14, <2>1, <2>2 DEF Enable, Write, Steps, ScriptSteps
<1>15. CASE Options
  <2>1. faults' \in 0..MaxFaults
    BY <1>15, FaultsType DEF Options, Advance
  <2> QED
    BY <1>15, <2>1 DEF Options, Advance, Steps, ScriptSteps
<1>16. CASE Retire
  BY <1>16, BoundsAssumption DEF Retire, RecordedRoot, Steps, ScriptSteps, Generations
<1>17. CASE Revoke
  <2>1. store' \in StoreType
    BY <1>17, StoreTypes DEF Revoke, Write
  <2>2. faults' \in 0..MaxFaults
    BY <1>17, FaultsType DEF Revoke, Write
  <2> QED
    BY <1>17, <2>1, <2>2 DEF Revoke, Write, Steps, ScriptSteps
<1>18. CASE RevokeCheck
  <2>1. faults' \in 0..MaxFaults
    BY <1>18, FaultsType DEF RevokeCheck, Read
  <2> QED
    BY <1>18, <2>1 DEF RevokeCheck, Read, Steps, ScriptSteps
<1>19. CASE Scrub
  BY <1>19 DEF Scrub, Steps, ScriptSteps
<1>20. CASE StartContainer
  BY <1>20, BoundsAssumption DEF StartContainer, Steps, ScriptSteps, Generations
<1>21. CASE ServerUp
  BY <1>21 DEF ServerUp
<1>22. CASE AutoUnseal
  BY <1>22 DEF AutoUnseal
<1>23. CASE ContainerExit
  BY <1>23 DEF ContainerExit, ContainerGone, Steps, ScriptSteps
<1>24. CASE Crash
  <2>1. faults' \in 0..MaxFaults
    BY <1>24, FaultsType DEF Crash, ContainerGone
  <2> QED
    BY <1>24, <2>1 DEF Crash, ContainerGone, Steps, ScriptSteps
<1>25. CASE ServerCrash
  <2>1. faults' \in 0..MaxFaults
    BY <1>25, FaultsType DEF ServerCrash
  <2> QED
    BY <1>25, <2>1 DEF ServerCrash
<1>26. CASE ReadinessProbe
  BY <1>26 DEF ReadinessProbe
<1>27. CASE ConsumerMounts
  <2>1. store' \in StoreType
    BY <1>27, StoreTypes DEF ConsumerMounts, SecretMounts, TransitMounts
  <2> QED
    BY <1>27, <2>1 DEF ConsumerMounts
<1>28. CASE OperatorCreatesToken
  <2>1. store' \in StoreType
    BY <1>28, StoreTypes DEF OperatorCreatesToken
  <2> QED
    BY <1>28, <2>1 DEF OperatorCreatesToken
<1>29. CASE OperatorChangesSecret
  BY <1>29 DEF OperatorChangesSecret
<1>30. CASE OperatorChangesSeal
  BY <1>30 DEF OperatorChangesSeal
<1>31. CASE StorageLost
  <2>1. store' \in StoreType
    BY <1>31, StoreTypes DEF StorageLost
  <2> QED
    BY <1>31, <2>1 DEF StorageLost
<1>32. CASE OperatorDeletesVolume
  <2>1. store' \in StoreType
    BY <1>32, StoreTypes DEF OperatorDeletesVolume, NoRecord, NoPartial
  <2> QED
    BY <1>32, <2>1, BoundsAssumption DEF OperatorDeletesVolume, NoRecord, NoPartial, Generations
<1>33. CASE OperatorMovesRecordAside
  BY <1>33, BoundsAssumption DEF OperatorMovesRecordAside, NoRecord, Generations
<1>34. CASE UNCHANGED vars
  BY <1>34 DEF vars
<1> QED
  BY <1>1, <1>2, <1>3, <1>4, <1>5, <1>6, <1>7, <1>8, <1>9, <1>10, <1>11, <1>12, <1>13,
     <1>14, <1>15, <1>16, <1>17, <1>18, <1>19, <1>20, <1>21, <1>22, <1>23, <1>24, <1>25,
     <1>26, <1>27, <1>28, <1>29, <1>30, <1>31, <1>32, <1>33, <1>34
     DEF Next, ScriptStep, PlatformStep, EnvironmentStep

\* The initial states are well typed.
LEMMA InitTypes == Init => TypeInv
<1> SUFFICES ASSUME Init PROVE TypeInv
  OBVIOUS
<1>1. store \in StoreType
  BY BoundsAssumption
     DEF Init, StoreType, EmptyStore, Generations, SecretMounts, TransitMounts
<1>2. /\ record \in [gen: Generations, root: BOOLEAN]
      /\ partial \in [exists: BOOLEAN, gen: Generations]
  BY BoundsAssumption DEF Init, NoRecord, NoPartial, Generations
<1>3. minted \in Generations /\ root \in Generations /\ faults \in 0..MaxFaults
  BY BoundsAssumption DEF Init, Generations
<1>4. pc \in Steps /\ TokenChecked
  BY DEF Init, Steps, TokenChecked
<1> QED
  BY <1>1, <1>2, <1>3, <1>4 DEF Init, TypeInv, TypeOK

\* Every variable keeps its type in every behaviour of the container, the
\* script, the server and the operators.
THEOREM TypeCorrect == Spec => []TypeOK
<1>1. TypeInv => TypeOK
  BY DEF TypeInv
<1> QED
  BY <1>1, InitTypes, TypeStep, PTL DEF Spec

-----------------------------------------------------------------------------
(* The inductive invariant *)

\* Every step keeps the inductive invariant.
LEMMA IndStep == IndInv /\ [Next]_vars => IndInv'
<1> SUFFICES ASSUME IndInv, [Next]_vars
             PROVE  IndInv'
  OBVIOUS
<1>t. TypeInv'
  BY TypeStep DEF IndInv
<1> USE DEF IndInv, FilesInv, InitializeInv, RootInv, ProgressInv,
            RecordMatchesStore, NeverLockedOut, UnrecordedHoldsNothing,
            EarlySteps, InstalledSteps, ProvisionedSteps,
            Initialized, RootAccepted, FreshStore, EmptyStore,
            TypeInv, TypeOK, StoreType, Generations,
            volumeVars, serverVars, scriptVars, configVars
<1>1. CASE Validate
  BY <1>1, <1>t, BoundsAssumption DEF Validate
<1>2. CASE WaitSealed
  BY <1>2, <1>t, BoundsAssumption DEF WaitSealed, WaitForServer
<1>3. CASE ReadInit
  BY <1>3, <1>t, BoundsAssumption DEF ReadInit
<1>4. CASE OperatorInit
  BY <1>4, <1>t, BoundsAssumption DEF OperatorInit
<1>5. CASE OperatorInitFails
  BY <1>5, <1>t, BoundsAssumption DEF OperatorInitFails
<1>6. CASE RecordResponse
  BY <1>6, <1>t, BoundsAssumption DEF RecordResponse
<1>7. CASE LoseResponse
  BY <1>7, <1>t, BoundsAssumption DEF LoseResponse
<1>8. CASE Publish
  BY <1>8, <1>t, BoundsAssumption DEF Publish, NoPartial
<1>9. CASE WaitUnsealed
  BY <1>9, <1>t, BoundsAssumption DEF WaitUnsealed, WaitForServer
<1>10. CASE Lookup
  BY <1>10, <1>t, BoundsAssumption DEF Lookup, Read, RecordedRoot, TokenAccepted
<1>11. CASE CreateToken
  <2>1. \/ UNCHANGED store
        \/ \E t \in Tokens : /\ store' = WithToken(store, t)
                               /\ ~(partial.exists /\ Initialized(store))
    BY <1>11 DEF CreateToken, Write, TokenChecked
  <2>2. /\ store'.gen = store.gen /\ store'.root = store.root
        /\ store'.secret = store.secret /\ store'.transit = store.transit
        /\ store'.key = store.key
        /\ store.tokens \subseteq store'.tokens
        /\ partial.exists /\ Initialized(store) => UNCHANGED store
    BY <2>1 DEF WithToken
  <2>3. FilesInv' /\ InitializeInv' /\ RootInv'
    BY <1>11, <1>t, <2>2 DEF CreateToken
  <2>4. ProgressInv'
    BY <1>11, <1>t, <2>2 DEF CreateToken
  <2>5. RecordMatchesStore' /\ NeverLockedOut'
    BY <1>11, <1>t, <2>2 DEF CreateToken
  <2>6. UnrecordedHoldsNothing'
    BY <1>11, <1>t, <2>2 DEF CreateToken
  <2> QED
    BY <1>t, <2>3, <2>4, <2>5, <2>6 DEF IndInv
<1>12. CASE Relookup
  BY <1>12, <1>t, BoundsAssumption DEF Relookup, Read, TokenAccepted
<1>13. CASE Probe
  BY <1>13, <1>t, BoundsAssumption DEF Probe, Checked, Advance, RightType, Present, TokenAccepted
<1>14. CASE Enable
  <2>1. /\ store'.gen = store.gen /\ store'.root = store.root
        /\ store'.tokens = store.tokens
        /\ store.secret # "none" => store'.secret = store.secret
        /\ store.transit # "none" => store'.transit = store.transit
        /\ store.key => store'.key
    BY <1>14 DEF Enable, Write, WithSecret, WithTransit, WithKey
  <2>2. partial.exists /\ Initialized(store) => UNCHANGED store
    BY <1>14 DEF Enable, Write, TokenAccepted
  <2>3. FilesInv' /\ InitializeInv' /\ RootInv'
    BY <1>14, <1>t, <2>1, <2>2 DEF Enable
  <2>4. ProgressInv'
    BY <1>14, <1>t, <2>1, <2>2 DEF Enable
  <2>5. RecordMatchesStore' /\ NeverLockedOut'
    BY <1>14, <1>t, <2>1, <2>2 DEF Enable
  <2>6. UnrecordedHoldsNothing'
    BY <1>14, <1>t, <2>1, <2>2 DEF Enable
  <2> QED
    BY <1>t, <2>3, <2>4, <2>5, <2>6 DEF IndInv
<1>15. CASE Options
  BY <1>15, <1>t, BoundsAssumption DEF Options, Advance, TokenAccepted
<1>16. CASE Retire
  BY <1>16, <1>t, BoundsAssumption DEF Retire, RecordedRoot
<1>17. CASE Revoke
  BY <1>17, <1>t, BoundsAssumption DEF Revoke, Write, WithoutRoot, RootAccepted
<1>18. CASE RevokeCheck
  BY <1>18, <1>t, BoundsAssumption DEF RevokeCheck, Read
<1>19. CASE Scrub
  BY <1>19, <1>t, BoundsAssumption DEF Scrub
<1>20. CASE StartContainer
  BY <1>20, <1>t, BoundsAssumption DEF StartContainer
<1>21. CASE ServerUp
  BY <1>21, <1>t, BoundsAssumption DEF ServerUp
<1>22. CASE AutoUnseal
  BY <1>22, <1>t, BoundsAssumption DEF AutoUnseal
<1>23. CASE ContainerExit
  BY <1>23, <1>t, BoundsAssumption DEF ContainerExit, ContainerGone
<1>24. CASE Crash
  BY <1>24, <1>t, BoundsAssumption DEF Crash, ContainerGone
<1>25. CASE ServerCrash
  BY <1>25, <1>t, BoundsAssumption DEF ServerCrash
<1>26. CASE ReadinessProbe
  BY <1>26, <1>t, BoundsAssumption DEF ReadinessProbe
<1>27. CASE ConsumerMounts
  <2>1. /\ store'.gen = store.gen /\ store'.root = store.root
        /\ store'.tokens = store.tokens
        /\ store.secret # "none" => store'.secret = store.secret
        /\ store.transit # "none" => store'.transit = store.transit
        /\ store.key => store'.key
    BY <1>27 DEF ConsumerMounts, WithSecret, WithTransit
  <2>2. partial.exists /\ Initialized(store) => UNCHANGED store
    BY <1>27 DEF ConsumerMounts
  <2>3. FilesInv' /\ InitializeInv' /\ RootInv'
    BY <1>27, <1>t, <2>1, <2>2 DEF ConsumerMounts
  <2>4. ProgressInv'
    BY <1>27, <1>t, <2>1, <2>2 DEF ConsumerMounts
  <2>5. RecordMatchesStore' /\ NeverLockedOut'
    BY <1>27, <1>t, <2>1, <2>2 DEF ConsumerMounts
  <2>6. UnrecordedHoldsNothing'
    BY <1>27, <1>t, <2>1, <2>2 DEF ConsumerMounts
  <2> QED
    BY <1>t, <2>3, <2>4, <2>5, <2>6 DEF IndInv
<1>28. CASE OperatorCreatesToken
  <2>1. \/ UNCHANGED store
        \/ \E t \in Tokens : /\ store' = WithToken(store, t)
                               /\ ~(partial.exists /\ Initialized(store))
    BY <1>28 DEF OperatorCreatesToken
  <2>2. /\ store'.gen = store.gen /\ store'.root = store.root
        /\ store'.secret = store.secret /\ store'.transit = store.transit
        /\ store'.key = store.key
        /\ store.tokens \subseteq store'.tokens
        /\ partial.exists /\ Initialized(store) => UNCHANGED store
    BY <2>1 DEF WithToken
  <2>3. FilesInv' /\ InitializeInv' /\ RootInv'
    BY <1>28, <1>t, <2>2 DEF OperatorCreatesToken
  <2>4. ProgressInv'
    BY <1>28, <1>t, <2>2 DEF OperatorCreatesToken
  <2>5. RecordMatchesStore' /\ NeverLockedOut'
    BY <1>28, <1>t, <2>2 DEF OperatorCreatesToken
  <2>6. UnrecordedHoldsNothing'
    BY <1>28, <1>t, <2>2 DEF OperatorCreatesToken
  <2> QED
    BY <1>t, <2>3, <2>4, <2>5, <2>6 DEF IndInv
<1>29. CASE OperatorChangesSecret
  BY <1>29, <1>t, BoundsAssumption DEF OperatorChangesSecret
<1>30. CASE OperatorChangesSeal
  BY <1>30, <1>t, BoundsAssumption DEF OperatorChangesSeal
<1>31. CASE StorageLost
  BY <1>31, <1>t, BoundsAssumption DEF StorageLost
<1>32. CASE OperatorDeletesVolume
  BY <1>32, <1>t, BoundsAssumption DEF OperatorDeletesVolume, NoRecord, NoPartial
<1>33. CASE OperatorMovesRecordAside
  BY <1>33, <1>t, BoundsAssumption DEF OperatorMovesRecordAside, NoRecord
<1>34. CASE UNCHANGED vars
  BY <1>34, <1>t DEF vars
<1> QED
  BY <1>1, <1>2, <1>3, <1>4, <1>5, <1>6, <1>7, <1>8, <1>9, <1>10, <1>11, <1>12, <1>13,
     <1>14, <1>15, <1>16, <1>17, <1>18, <1>19, <1>20, <1>21, <1>22, <1>23, <1>24, <1>25,
     <1>26, <1>27, <1>28, <1>29, <1>30, <1>31, <1>32, <1>33, <1>34
     DEF Next, ScriptStep, PlatformStep, EnvironmentStep

\* The inductive invariant holds in every behaviour.
LEMMA IndInvariant == Spec => []IndInv
<1>1. Init => IndInv
  <2> SUFFICES ASSUME Init PROVE IndInv
    OBVIOUS
  <2>1. TypeInv
    BY InitTypes
  <2> QED
    BY <2>1 DEF Init, IndInv, FilesInv, InitializeInv, RootInv, ProgressInv,
       RecordMatchesStore, NeverLockedOut, UnrecordedHoldsNothing, EarlySteps,
       InstalledSteps, ProvisionedSteps, Initialized, EmptyStore, NoRecord, NoPartial
<1> QED
  BY <1>1, IndStep, PTL DEF Spec

\* initialize() never mints keys over a lost store: in every behaviour the
\* record and the storage beside it are of the same generation.
THEOREM RecordsMatch == Spec => []RecordMatchesStore
BY IndInvariant, PTL DEF IndInv

\* Wherever the script is cut off, a Vault whose response was recorded keeps a
\* working recorded root token or an installed access token.
THEOREM NobodyLockedOut == Spec => []NeverLockedOut
BY IndInvariant, PTL DEF IndInv

\* Whenever a failure message may advise deleting the data volume, the
\* storage holds nothing beyond its initialization.
THEOREM AdviceIsSafe == Spec => []UnrecordedHoldsNothing
BY IndInvariant, PTL DEF IndInv

\* server.sh reports "provisioned" only over a store that has both mounts, the
\* key and the consumers' token, and with the root token scrubbed.
THEOREM ServingProvisioned == Spec => []ServingIsProvisioned
<1>1. IndInv => ServingIsProvisioned
  BY DEF IndInv, ProgressInv, InstalledSteps, ProvisionedSteps,
         ServingIsProvisioned, Provisioned
<1> QED
  BY <1>1, IndInvariant, PTL

-----------------------------------------------------------------------------
(* Refinement *)

\* A step that leaves the generations of storage and record, and the number of
\* generations, alone is a stuttering step of VaultCustody.
LEMMA CustodyStutters ==
    ASSUME store'.gen = store.gen, record'.gen = record.gen, minted' = minted
    PROVE  [Custody!Next]_(Custody!custodyVars)
BY DEF Custody!custodyVars

\* Calls that change the storage of an initialized Vault keep its generation.
LEMMA CallsKeepGeneration ==
    ASSUME NEW s \in StoreType
    PROVE  /\ \A t \in Tokens : WithToken(s, t).gen = s.gen
           /\ WithoutRoot(s).gen = s.gen
           /\ \A k \in SecretMounts : WithSecret(s, k).gen = s.gen
           /\ \A k \in TransitMounts : WithTransit(s, k).gen = s.gen
           /\ WithKey(s).gen = s.gen
BY DEF StoreType, WithToken, WithoutRoot, WithSecret, WithTransit, WithKey

\* initialize() mints where neither storage nor record exists and publishes
\* the record of what it minted; operators and faults only lose things.
LEMMA CustodyStep == IndInv /\ [Next]_vars => [Custody!Next]_(Custody!custodyVars)
<1> SUFFICES ASSUME IndInv, [Next]_vars
             PROVE  [Custody!Next]_(Custody!custodyVars)
  OBVIOUS
<1> USE DEF IndInv, volumeVars, serverVars, scriptVars, configVars
<1>t. /\ store \in StoreType /\ token \in Tokens \cup {NoToken}
      /\ record \in [gen: Generations, root: BOOLEAN]
      /\ minted \in Nat
  BY BoundsAssumption DEF TypeInv, TypeOK, Generations
<1>1. CASE OperatorInit
  <2>1. store.gen = 0 /\ record.gen = 0
    BY <1>1 DEF OperatorInit, InitializeInv, Initialized
  <2>2. store'.gen = minted + 1
    BY <1>1 DEF OperatorInit, FreshStore, EmptyStore
  <2> QED
    BY <1>1, <2>1, <2>2 DEF OperatorInit, Custody!Next, Custody!Mint
<1>2. CASE Publish
  <2>1. store.gen # 0 /\ partial.gen = store.gen
    BY <1>2 DEF Publish, InitializeInv, Initialized
  <2> QED
    BY <1>2, <2>1 DEF Publish, Custody!Next, Custody!Keep
<1>3. CASE StorageLost \/ OperatorDeletesVolume \/ OperatorMovesRecordAside
  BY <1>3 DEF StorageLost, OperatorDeletesVolume, OperatorMovesRecordAside,
              EmptyStore, NoRecord, Custody!Next, Custody!Lose
<1>4. CASE CreateToken
  <2>1. store'.gen = store.gen
    BY <1>4, <1>t, CallsKeepGeneration DEF CreateToken, Write, TypeInv, TokenChecked
  <2> QED
    BY <1>4, <2>1, CustodyStutters DEF CreateToken
<1>5. CASE Enable
  <2>1. store'.gen = store.gen
    BY <1>5, <1>t, CallsKeepGeneration
       DEF Enable, Write, TypeInv, TypeOK, SecretMounts, TransitMounts
  <2> QED
    BY <1>5, <2>1, CustodyStutters DEF Enable
<1>6. CASE Revoke
  <2>1. store'.gen = store.gen
    BY <1>6, <1>t, CallsKeepGeneration DEF Revoke, Write
  <2> QED
    BY <1>6, <2>1, CustodyStutters DEF Revoke
<1>7. CASE ConsumerMounts \/ OperatorCreatesToken
  <2>1. store'.gen = store.gen
    BY <1>7, <1>t, CallsKeepGeneration DEF ConsumerMounts, OperatorCreatesToken
  <2> QED
    BY <1>7, <2>1, CustodyStutters DEF ConsumerMounts, OperatorCreatesToken
<1>8. CASE Scrub
  <2>1. record'.gen = record.gen
    BY <1>8, <1>t DEF Scrub
  <2> QED
    BY <1>8, <2>1, CustodyStutters DEF Scrub
<1>9. CASE \/ Validate \/ WaitSealed \/ ReadInit \/ OperatorInitFails
           \/ RecordResponse \/ LoseResponse \/ WaitUnsealed \/ Lookup
           \/ Relookup \/ Probe \/ Options \/ Retire \/ RevokeCheck
  BY <1>9, CustodyStutters
     DEF Validate, WaitSealed, WaitForServer, ReadInit, OperatorInitFails,
         RecordResponse, LoseResponse, WaitUnsealed, Lookup, Relookup, Probe,
         Options, Retire, RevokeCheck
<1>10. CASE PlatformStep
  BY <1>10, CustodyStutters
     DEF PlatformStep, StartContainer, ServerUp, AutoUnseal, ContainerExit,
         ContainerGone, Crash, ServerCrash, ReadinessProbe
<1>11. CASE OperatorChangesSecret \/ OperatorChangesSeal
  BY <1>11, CustodyStutters DEF OperatorChangesSecret, OperatorChangesSeal
<1>12. CASE UNCHANGED vars
  BY <1>12, CustodyStutters DEF vars
<1> QED
  BY <1>1, <1>2, <1>3, <1>4, <1>5, <1>6, <1>7, <1>8, <1>9, <1>10, <1>11, <1>12
     DEF Next, ScriptStep, EnvironmentStep

\* The durable Vault keeps the custody promise in every behaviour: keys are
\* minted only where neither storage nor init.json exists, and init.json only
\* ever appears for the keys in use.
THEOREM ImplementsCustody == Spec => KeepsCustody
<1>1. Init => Custody!Init
  BY DEF Init, Custody!Init, EmptyStore, NoRecord
<1> QED
  BY <1>1, CustodyStep, IndInvariant, PTL DEF Spec, KeepsCustody, Custody!Spec

-----------------------------------------------------------------------------
(* When the record is scrubbed too early *)

\* retire_initial_root() has a root token to revoke, and from the check on, and
\* for as long as the record is scrubbed, that token is revoked.
RetiredInv ==
    /\ pc \in {"revoke", "revokeCheck"} => root # 0
    /\ pc = "scrub" \/ ~record.root =>
          (Initialized(store) /\ record.gen = store.gen => ~store.root)

\* The lookup of the root token after its revocation reaches the server.
CheckAnswered == RevokeCheck => Usable /\ UNCHANGED faults

\* Steps that touch neither the record, nor the root token, nor the script's way
\* to the scrubbing.
LEMMA RetiredFrame ==
    ASSUME RetiredInv, record' = record, store'.gen = store.gen, store'.root = store.root,
           pc' \notin {"revoke", "revokeCheck", "scrub"} \/ (pc' = pc /\ root' = root)
    PROVE  RetiredInv'
BY DEF RetiredInv, Initialized

\* Calls other than the revocation leave the root token alone.
LEMMA CallsKeepRoot ==
    ASSUME NEW s \in StoreType
    PROVE  /\ \A t \in Tokens : WithToken(s, t).root = s.root
           /\ \A k \in SecretMounts : WithSecret(s, k).root = s.root
           /\ \A k \in TransitMounts : WithTransit(s, k).root = s.root
           /\ WithKey(s).root = s.root
BY DEF StoreType, WithToken, WithSecret, WithTransit, WithKey

\* A check that is answered lets only a revoked token be scrubbed.
LEMMA RetiredStep == IndInv /\ RetiredInv /\ [Next]_vars /\ [CheckAnswered]_vars => RetiredInv'
<1> SUFFICES ASSUME IndInv, RetiredInv, [Next]_vars, [CheckAnswered]_vars
             PROVE  RetiredInv'
  OBVIOUS
<1> USE DEF volumeVars, serverVars, scriptVars, configVars
<1>t. /\ store \in StoreType /\ token \in Tokens \cup {NoToken}
      /\ record \in [gen: Generations, root: BOOLEAN]
      /\ TokenChecked /\ faults \in Nat
      /\ pc # "down" /\ root # 0 => root = record.gen
  BY BoundsAssumption DEF IndInv, TypeInv, TypeOK, RootInv
<1>1. CASE OperatorInit
  BY <1>1 DEF OperatorInit, IndInv, InitializeInv, Initialized, RetiredInv, FreshStore, EmptyStore
<1>2. CASE Publish
  BY <1>2 DEF Publish, RetiredInv
<1>3. CASE StorageLost \/ OperatorDeletesVolume \/ OperatorMovesRecordAside
  BY <1>3 DEF StorageLost, OperatorDeletesVolume, OperatorMovesRecordAside,
              EmptyStore, NoRecord, Initialized, RetiredInv
<1>4. CASE CreateToken
  <2>1. store'.gen = store.gen /\ store'.root = store.root
    BY <1>4, <1>t, CallsKeepGeneration, CallsKeepRoot
       DEF CreateToken, Write, TokenChecked
  <2> QED
    BY <1>4, <2>1, RetiredFrame DEF CreateToken
<1>5. CASE Enable
  <2>1. store'.gen = store.gen /\ store'.root = store.root
    BY <1>5, <1>t, CallsKeepGeneration, CallsKeepRoot
       DEF Enable, Write, IndInv, TypeInv, TypeOK, SecretMounts, TransitMounts
  <2> QED
    BY <1>5, <2>1, RetiredFrame DEF Enable
<1>6. CASE Revoke
  <2>1. store'.gen = store.gen /\ (store'.root => store.root)
    BY <1>6, <1>t DEF Revoke, Write, WithoutRoot, StoreType
  <2> QED
    BY <1>6, <2>1 DEF Revoke, RetiredInv, Initialized
<1>7. CASE ConsumerMounts \/ OperatorCreatesToken
  <2>1. store'.gen = store.gen /\ store'.root = store.root
    BY <1>7, <1>t, CallsKeepGeneration, CallsKeepRoot DEF ConsumerMounts, OperatorCreatesToken
  <2> QED
    BY <1>7, <2>1, RetiredFrame DEF ConsumerMounts, OperatorCreatesToken
<1>8. CASE Scrub
  <2>1. record'.gen = record.gen
    BY <1>8, <1>t DEF Scrub
  <2> QED
    BY <1>8, <2>1 DEF Scrub, RetiredInv
<1>9. CASE RevokeCheck
  <2>1. pc' \in {"stopping", "scrub"} /\ UNCHANGED <<store, record, root>>
    BY <1>9 DEF RevokeCheck, Read
  <2>2. CASE pc' = "stopping"
    BY <2>1, <2>2, RetiredFrame
  <2>3. CASE pc' = "scrub"
    <3>1. pc' # pc /\ pc = "revokeCheck"
      BY <1>9, <2>3 DEF RevokeCheck
    <3>2. Usable /\ UNCHANGED faults
      BY <1>9, <3>1 DEF CheckAnswered, vars
    <3>3. ~RootAccepted(store, root)
      BY <1>9, <1>t, <2>3, <3>2 DEF RevokeCheck, Read, Fault
    <3>4. root # 0 /\ root = record.gen
      BY <1>t, <3>1 DEF RetiredInv
    <3> QED
      BY <2>1, <2>3, <3>3, <3>4 DEF RootAccepted, RetiredInv
  <2> QED
    BY <2>1, <2>2, <2>3
<1>10. CASE Retire
  BY <1>10 DEF Retire, RetiredInv
<1>11. CASE \/ Validate \/ WaitSealed \/ ReadInit \/ OperatorInitFails
            \/ RecordResponse \/ LoseResponse \/ WaitUnsealed \/ Lookup
            \/ Relookup \/ Probe \/ Options
  BY <1>11, RetiredFrame
     DEF Validate, WaitSealed, WaitForServer, ReadInit, OperatorInitFails,
         RecordResponse, LoseResponse, WaitUnsealed, Lookup, Relookup, Probe,
         Options, Read, Checked, Advance
<1>12. CASE PlatformStep
  BY <1>12, RetiredFrame
     DEF PlatformStep, StartContainer, ServerUp, AutoUnseal, ContainerExit,
         ContainerGone, Crash, ServerCrash, ReadinessProbe
<1>13. CASE OperatorChangesSecret \/ OperatorChangesSeal
  BY <1>13, RetiredFrame DEF OperatorChangesSecret, OperatorChangesSeal
<1>14. CASE UNCHANGED vars
  BY <1>14, RetiredFrame DEF vars
<1> QED
  BY <1>1, <1>2, <1>3, <1>4, <1>5, <1>6, <1>7, <1>8, <1>9, <1>10, <1>11, <1>12, <1>13, <1>14
     DEF Next, ScriptStep, EnvironmentStep

\* Where every check of the revocation is answered, "revoked, and only then
\* scrubbed" holds, whatever else crashes or gets lost, the revocation itself
\* included: the one cause of what the run durable_scrub shows is that
\* retire_initial_root takes a failed call for a refused token.
THEOREM ScrubbedAfterAnswer ==
    Spec /\ [][CheckAnswered]_vars => []ScrubbedOnlyOnceRevoked
<1>1. Init => RetiredInv
  BY DEF Init, RetiredInv, Initialized, EmptyStore
<1>2. RetiredInv => ScrubbedOnlyOnceRevoked
  BY DEF RetiredInv, ScrubbedOnlyOnceRevoked
<1> QED
  BY <1>1, <1>2, RetiredStep, IndInvariant, PTL DEF Spec
===============================================================================
