SPECIFICATION Spec
CONSTANTS
    ann = ann
    bob = bob
    eve = eve
    nok = nok
    som = som
    p1 = p1
    p2 = p2
    u1 = u1
    u2 = u2
    None = None
    Ticket = {t1}
    Staff = {ann, bob}
    Viewer = {ann}
    Tenant = {nok, som}
    Photo = {p1, p2}
    PrefixOf <- MCPrefixOf
    User = {ann, eve}
    Colleague = {ann}
    Unit = {u1, u2}
    RentedBy <- MCRentedBy
    PhotoMax = 2
    MaxRequests = 4
INVARIANTS
    TicketsAreSound
PROPERTIES
    FinalAndKept
CHECK_DEADLOCK FALSE
