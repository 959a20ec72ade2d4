SPECIFICATION Spec
CONSTANTS
    Invoices = {i1, i2}
    NoInvoice = NoInvoice
    Requests = {p1, p2}
    NoRequest = NoRequest
    MaxRank = 2
    MaxTime = 0
    MaxNumber = 2
SYMMETRY Symmetry
VIEW Read
PROPERTIES PurchaseImproves
CHECK_DEADLOCK FALSE
