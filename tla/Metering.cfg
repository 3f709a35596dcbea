SPECIFICATION MeterFairSpec
CONSTANTS
    water = water
    electric = electric
    k1 = k1
    k2 = k2
    ann = ann
    other = other
    Unset = Unset
    Meter = {water, electric}
    UnitServed <- MCUnitOf
    Installed = {water}
    Contract = {k1, k2}
    Period = {1, 2, 3}
    Billed = {2}
    Value = {1, 2}
    Client = {ann, other}
    Operator = ann
    Batcher = {1, 2}
    MaxInputs = 4
INVARIANTS
    MeterTypeOK
    ReadingsAddUp
    InvoiceIsComplete
    SavedWasRecorded
PROPERTIES
    EveryBatchEnds
CHECK_DEADLOCK FALSE
