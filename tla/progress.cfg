\* Mails and calls come to an end, whatever fails.
SPECIFICATION FairProgressSpec
CONSTANTS
    A = A
    B = B
    u1 = u1
    u2 = u2
    None = None
    Nobody = Nobody
    Star = "*"
    Support = "support"
    Instances <- TwoInstances
    Users <- OneUser
    Members <- OnlyInA
    MailboxOf <- OneMailbox
    Locals <- MCLocals
    Domains <- MailDomains
    Customers <- TwoCustomers
    Routes <- Table
    Subjects <- NoTags
    Opened <- TwoTickets
    Requests = {r1}
    Offered = {}
    Attempts = 2
    MaxCalls = 0
    Incoming = {m1}
    Workers = {w1, w2}
    Fresh <- JustPlain
    Keeps <- KeepAll
    Defunct <- NoneDefunct
    MaxReceives = 2
    MaxCopies = 2
    Lag = FALSE
CHECK_DEADLOCK FALSE
PROPERTIES
    Drains
    CallsEnd
