SPECIFICATION FairSpec
CONSTANTS
    t1 = t1
    t2 = t2
    Tokens <- MCTokens
    NoToken = NoToken
    MaxInits = 2
    MaxFaults = 3
CHECK_DEADLOCK TRUE
INVARIANTS
    TypeOK
    RecordMatchesStore
    NeverLockedOut
    UnrecordedHoldsNothing
    ServingIsProvisioned
PROPERTIES Converges KeepsCustody
