SPECIFICATION FairSpec
CONSTANTS
    t1 = t1
    t2 = t2
    spaced = spaced
    blank = blank
    KeyNames = {"api-keys", "k"}
    DefaultKey = "api-keys"
    BlankTokens = {blank}
    Tokens = {t1, t2, spaced}
    TokenIds = {t1, t2}
    RequestValues <- MCRequestValues
    SettingsFiles <- MCSettingsFiles
    MaxApplies = 3
    MaxFaults = 3
CHECK_DEADLOCK FALSE
INVARIANTS
    TypeOK
    ReadyIsProvisioned
PROPERTY
    OnlyTokenChangeStrands
    Settles
