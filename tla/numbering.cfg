\* Three finalizes, the counter set forward, and the u32 limit in reach.
SPECIFICATION Spec
SYMMETRY Symmetry
CONSTANTS
    None = None
    Items = {a, b, x}
    Invoices = {I1, I2, I3}
    Projects = {p, q}
    Clients = {c}
    Amounts = {4}
    Requests = {r1, r2, r3}
    Opened = {p}
    Recorded = {a, b, x}
    Offered = {"createProject", "createInvoice", "finalizeInvoice", "setNextInvoiceNumber"}
    MaxRequests = 8
    MaxInvoiceItems = 1
    MaxTotal = 99
    MaxNumber = 4
    MaxNext = 3
CHECK_DEADLOCK FALSE
INVARIANTS
    UniqueNumbers
