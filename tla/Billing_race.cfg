SPECIFICATION FairSpec
CONSTANTS
    i1 = i1
    i2 = i2
    p1 = p1
    p2 = p2
    p3 = p3
    april = april
    None = None
    Invoice <- TwoInvoices
    SlotOf <- SameSlot
    Total <- TwoAndOnes
    Payment <- TwoPayments
    InvoiceOf <- BothOnOne
    Amount <- UnitAmounts
    Key = {k1, k2}
    Request = {r1, r2}
    Overlap = TRUE
    AuditErrs = FALSE
VIEW AllButJobs
INVARIANTS
    OneLiveInvoicePerSlot
    IdempotentCreate
    NoPaymentOnDraft
    StatusIsEarned
PROPERTIES
    EveryRequestEnds
