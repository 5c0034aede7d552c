\* Redelivery with a failure after any step, answers, senders that join a
\* ticket at once, and an agent at work meanwhile.
SPECIFICATION MailMixSpec
SYMMETRY InboundSymmetry
CONSTANTS
    A = A
    B = B
    u1 = u1
    u2 = u2
    None = None
    Nobody = Nobody
    Star = "*"
    Support = "support"
    Instances <- TwoInstances
    Users <- OneUser
    Members <- OnlyInA
    MailboxOf <- OneMailbox
    Locals <- MCLocals
    Domains <- MailDomains
    Customers <- TwoCustomers
    Routes <- Table
    Subjects <- NoTags
    Requests = {r1}
    Opened <- TwoTickets
    Offered = {}
    Attempts = 2
    MaxCalls = 0
    Incoming = {m1, m2}
    Workers = {w1, w2}
    Fresh <- Letters
    Keeps <- KeepAll
    Defunct <- NoneDefunct
    MaxReceives = 2
    MaxCopies = 2
    Lag = TRUE
CHECK_DEADLOCK FALSE
INVARIANTS
    TicketsHoldTogether
    NoLoops
    SenderHears
    InboundTypeOK
PROPERTIES
    ImplementsInbox
