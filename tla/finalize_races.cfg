\* Editing, attaching and detaching against two finalizes.
SPECIFICATION Spec
SYMMETRY Symmetry
CONSTANTS
    None = None
    Items = {a, b}
    Invoices = {I1, I2}
    Projects = {p}
    Clients = {c}
    Amounts = {4, 5}
    Requests = {r1, r2}
    Opened = {p}
    Recorded = {a, b}
    Offered = {"createInvoice", "finalizeInvoice", "updateBillableItem",
               "addInvoiceItems", "removeInvoiceItems"}
    MaxRequests = 5
    MaxInvoiceItems = 2
    MaxTotal = 10
    MaxNumber = 9
    MaxNext = 0
CHECK_DEADLOCK FALSE
INVARIANTS
    SnapshotMatchesItems
    FinalizedTotalsFit
    BilledOnce
PROPERTIES
    FinalizedIsFinal
    ImplementsLedger
