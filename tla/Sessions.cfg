SPECIFICATION FairSpec
CONSTANTS
    ca = ca
    cb = cb
    ann = ann
    bob = bob
    None = None
    Company = {ca, cb}
    User = {ann, bob}
    CompanyOf <- MCCompanyOf
    RolesOf <- MCRolesOf
    Browser = {1, 2}
    Revocable <- MCRevocable
INVARIANTS
    RowsAreOwn
PROPERTIES
    ClosedDoor
    SwitchedOffLosesAccess
CHECK_DEADLOCK FALSE
