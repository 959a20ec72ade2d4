SPECIFICATION Spec
CONSTANTS
    Invoices = {i1, i2}
    NoInvoice = NoInvoice
    Requests = {p1, p2}
    NoRequest = NoRequest
    MaxRank = 1
    MaxTime = 1
    MaxNumber = 2
SYMMETRY Symmetry
VIEW Read
INVARIANTS TypeOK ActivatedOnce PaidMeansGranted NeverOverGranted
PROPERTIES ImplementsPurchases
CHECK_DEADLOCK FALSE
