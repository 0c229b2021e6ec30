SPECIFICATION Spec
CONSTANTS
    a1 = a1
    a2 = a2
    t1 = t1
    t2 = t2
    p1 = p1
    p2 = p2
    Agents <- MCAgents
    NoAgent = NoAgent
    Tokens <- OneToken
    NoToken = NoToken
    RootToken = RootToken
    Ports <- OnePort
    Kinds = {"docker"}
    TransitFound = {}
    MaxServers = 1
    MaxInits = 1
    MaxFaults = 1
SYMMETRY AgentSymmetry
INVARIANT JwtSeededOnce
