SPECIFICATION Spec
CONSTANTS
    a = a
    b = b
    LF = LF
    Star = Star
    Tokens <- MCTokens
    Text = {a, b, Star}
    AgentLine <- MCAgentLine
    MaxOutput = 6
    MaxChunk = 3
    MaxFaults = 1
CHECK_DEADLOCK FALSE
INVARIANTS
    TypeOK
    LogIsTheStream
    NoTokenLogged
