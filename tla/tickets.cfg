\* Status, assignee, recipients, replies, notes, submissions and notices: two
\* calls at a time of each mix.
SPECIFICATION MixSpec
SYMMETRY Symmetry
CONSTANTS
    A = A
    B = B
    u1 = u1
    u2 = u2
    None = None
    Nobody = Nobody
    Star = "*"
    Support = "support"
    Instances <- TwoInstances
    Users <- TwoUsers
    Members <- BothInA
    MailboxOf <- Mailboxes
    Locals <- LocalParts
    Domains <- MailDomains
    Customers <- TwoCustomers
    Routes <- Table
    Subjects <- NoTags
    Incoming = {}
    Requests = {r1, r2}
    Opened <- OneTicket
    Offered = {"setTicketStatus", "assignTicket"}
    Attempts = 2
    MaxCalls = 2
CHECK_DEADLOCK FALSE
INVARIANTS
    RepliesAsRecorded
    MailsNameTheirTicket
    MarkersAgree
    NoticesConcernTheReader
