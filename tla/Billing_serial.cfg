SPECIFICATION Spec
CONSTANTS
    i1 = i1
    i2 = i2
    p1 = p1
    p2 = p2
    p3 = p3
    april = april
    None = None
    Invoice <- TwoInvoices
    SlotOf <- SameSlot
    Total <- ZeroTotal
    Payment <- ThreePayments
    InvoiceOf <- TwoAndOne
    Amount <- MixedAmounts
    Key = {k1, k2, k3}
    Request = {r1, r2}
    Overlap = FALSE
    AuditErrs = TRUE
SYMMETRY Symmetric
VIEW AllThatCounts
INVARIANTS
    RollupAgrees
PROPERTIES
    ImplementsIdeal
