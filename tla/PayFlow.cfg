SPECIFICATION PayFairSpec
CONSTANTS
    nok = nok
    b1 = b1
    Nil = Nil
    Tab = {nok}
    Bill = {b1}
    BillOf <- MCBillOf
    Upload = {x1, x2}
    Row = {x1}
    Desk = {d1}
    MaxMounts = 3
    MaxFetches = 1
INVARIANTS
    PagesTell
PROPERTIES
    SlipIsFinal
    DecisionIsShown
CHECK_DEADLOCK FALSE
