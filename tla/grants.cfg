\* OAuth grants and API tokens: two calls at a time of each mix.
SPECIFICATION MixSpec
SYMMETRY Symmetry
CONSTANTS
    None = None
    Requests = {r1, r2}
    Users = {u1}
    CodeLife = 1
    AccessLife = 2
    RefreshLife = 2
    GrantLife = 3
    TouchAfter = 1
    Lag = TRUE
    Offered = {"approveOauthAuthorization", "authorization_code", "refresh_token", "mcp",
               "revokeOauthGrant"}
    MaxTime = 4
    MaxCalls = 5
CHECK_DEADLOCK FALSE
INVARIANTS
    OneSuccessor
    VerdictsAreCurrent
PROPERTIES
    GrantsEndForGood
