SPECIFICATION Spec
CONSTANTS
    t1 = t1
    t2 = t2
    Tokens <- MCTokens
    NoToken = NoToken
    MaxInits = 1
    MaxFaults = 1
CHECK_DEADLOCK TRUE
INVARIANT ScrubbedOnlyOnceRevoked
