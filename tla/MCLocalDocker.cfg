SPECIFICATION FairSpec
CONSTANTS
    a1 = a1
    a2 = a2
    t1 = t1
    t2 = t2
    p1 = p1
    p2 = p2
    Agents <- MCAgents
    NoAgent = NoAgent
    Tokens <- OneToken
    NoToken = NoToken
    RootToken = RootToken
    Ports <- OnePort
    Kinds = {"docker"}
    TransitFound = {"kv1", "other"}
    MaxServers = 1
    MaxInits = 2
    MaxFaults = 2
INVARIANTS
    TypeOK
    PublishedHoldsLock
    PublishedTokenAccepted
    CustodyMatchesStore
    CustodySurvives
    StartedIsProvisioned
    LockCoversServer
PROPERTIES
    KeepsCustody
    RetriedInitSucceeds
