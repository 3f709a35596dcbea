SPECIFICATION FairSpec
CONSTANTS
    i1 = i1
    i2 = i2
    t1 = t1
    t2 = t2
    u1 = u1
    u2 = u2
    p1 = p1
    p2 = p2
    None = None
    Invite = {i1, i2}
    Tenant = {t1, t2}
    User = {u1, u2}
    Page = {p1, p2}
    c1 = c1
    c2 = c2
    Call = {c1, c2}
    Of <- OneEach
    Owner <- OwnPage
    Links <- Forwarded
    Short = {i1}
INVARIANTS
    SuccessIsTrue
PROPERTIES
    ImplementsIdeal
    EveryCallEnds
CHECK_DEADLOCK FALSE
