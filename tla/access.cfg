\* Login codes and sessions, and passkeys: two calls at a time of each mix.
SPECIFICATION AccessSpec
SYMMETRY Symmetry
CONSTANTS
    ann = ann
    bob = bob
    u1 = u1
    None = None
    Nobody = Nobody
    Requests = {r1, r2}
    Users = {u1}
    Addresses = {ann, bob}
    Instances = {i1}
    Public = {i1}
    AccountOf <- TwoAddresses
    ResendAfter = 1
    MaxAttempts = 2
    CodeLife = 2
    TokenLife = 2
    SessionLife = 3
    TouchAfter = 1
    Lag = TRUE
    Offered = {"requestAuthCode", "verifyAuthCode", "query", "logout", "updateUser"}
    MaxTime = 3
    MaxCodes = 1
    MaxSessions = 1
    MaxCalls = 4
    Devices = {d1, d2, d3}
    Names = {n1, n2}
CHECK_DEADLOCK FALSE
INVARIANTS
    CodesBuyTheirOwn
    RefusalsJustified
    LoginAttemptsKept
    UseKeepsAlive
    CapAlmostHolds
    RenamesKept
    AccessTypeOK
PROPERTIES
    EndedStaysEnded
