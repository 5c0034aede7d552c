\* A worker fails after its claim.
SPECIFICATION MailMixSpec
SYMMETRY InboundSymmetry
CONSTANTS
    A = A
    B = B
    u1 = u1
    u2 = u2
    None = None
    Nobody = Nobody
    Star = "*"
    Support = "support"
    Instances <- TwoInstances
    Users <- OneUser
    Members <- OnlyInA
    MailboxOf <- OneMailbox
    Locals <- MCLocals
    Domains <- MailDomains
    Customers <- TwoCustomers
    Routes <- Table
    Subjects <- NoTags
    Opened <- TwoTickets
    Requests = {r1}
    Offered = {}
    Attempts = 2
    MaxCalls = 0
    Incoming = {m1}
    Workers = {w1}
    Fresh <- JustPlain
    Keeps <- KeepAll
    Defunct <- NoneDefunct
    MaxReceives = 3
    MaxCopies = 1
    Lag = FALSE
CHECK_DEADLOCK FALSE
INVARIANTS
    LostIsInDlq
