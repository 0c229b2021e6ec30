SPECIFICATION Spec
CONSTANTS
    a1 = a1
    a2 = a2
    t1 = t1
    t2 = t2
    p1 = p1
    p2 = p2
    Agents <- MCAgents
    NoAgent = NoAgent
    Tokens <- OneToken
    NoToken = NoToken
    RootToken = RootToken
    Ports <- OnePort
    Kinds = {"nix"}
    TransitFound = {}
    MaxServers = 2
    MaxInits = 2
    MaxFaults = 1
SYMMETRY AgentSymmetry
INVARIANTS
    PublishedHoldsLock
    PublishedTokenAccepted
    CustodyMatchesStore
PROPERTY KeepsCustody
