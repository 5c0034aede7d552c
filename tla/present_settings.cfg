\* Is the instance read of finalizeInvoice strongly consistent?
SPECIFICATION Spec
SYMMETRY Symmetry
CONSTANTS
    None = None
    Items = {a}
    Invoices = {I1}
    Projects = {p}
    Clients = {c}
    Amounts = {4}
    Requests = {r1}
    Opened = {p}
    Recorded = {a}
    Offered = {"createInvoice", "finalizeInvoice", "updateInvoicingSettings"}
    MaxRequests = 4
    MaxInvoiceItems = 1
    MaxTotal = 99
    MaxNumber = 9
    MaxNext = 0
CHECK_DEADLOCK FALSE
PROPERTIES
    FinalizeReadsPresentSettings
