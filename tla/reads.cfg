\* Listings of tickets, items and invoices, batch reads, and a ticket's thread,
\* while others write.
SPECIFICATION ReadsSpec
SYMMETRY Symmetry
CONSTANTS
    None = None
    Ids <- FourRows
    Kind = "ticket"
    PageSize = 2
    Ways = {"first_after", "last"}
    OldTimes = {1}
    MaxTime = 2
    MaxChanges = 2
    Keys = {k1, k2, k3}
CHECK_DEADLOCK FALSE
INVARIANTS
    WalksAreFaithful
    NoneMeansMissing
    ReadsTypeOK
PROPERTIES
    ThreadsAreReadWhole
