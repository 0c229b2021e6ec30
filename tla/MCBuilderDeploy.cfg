SPECIFICATION Spec
CONSTANTS
    t1 = t1
    t2 = t2
    blank = blank
    r1 = r1
    r2 = r2
    KeyNames = {"api-keys", "k"}
    DefaultKey = "api-keys"
    BlankTokens = {blank}
    Requests = {r1, r2}
    RequestValues <- MCRequestValues
    SettingsFiles <- MCSettingsFiles
SYMMETRY MCSymmetry
CHECK_DEADLOCK FALSE
INVARIANTS
    TypeOK
    RestrictedHoldsNoToken
    BoundNeverRunsVault
    ConsumersFitTheRender
    TokensRequestScoped
