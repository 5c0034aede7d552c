\* Items attached, detached and deleted by racing calls, drafts deleted, and PDFs
\* rendered while the project and the settings change.
SPECIFICATION Spec
SYMMETRY Symmetry
CONSTANTS
    None = None
    Items = {a, b, x}
    Invoices = {I1, I2}
    Projects = {p}
    Clients = {c, d}
    Amounts = {4}
    Requests = {r1, r2}
    Opened = {p}
    Recorded = {a, b}
    Offered = {"createBillableItem", "deleteBillableItem", "createInvoice", "addInvoiceItems",
               "removeInvoiceItems", "deleteInvoice",
               "finalizeInvoice", "downloadInvoicePdf", "setInvoicePaid",
               "updateProject", "updateInvoicingSettings"}
    MaxRequests = 5
    MaxInvoiceItems = 2
    MaxTotal = 99
    MaxNumber = 9
    MaxNext = 0
CHECK_DEADLOCK FALSE
INVARIANTS
    TypeOK
    MembershipAgrees
    ItemCapHolds
    PdfMatchesSnapshot
