SPECIFICATION Spec
CONSTANTS
    ca = ca
    cb = cb
    pa = pa
    pb = pb
    pn = pn
    ua = ua
    un = un
    ta = ta
    tn = tn
    k1 = k1
    k2 = k2
    ann = ann
    bob = bob
    a1 = a1
    a2 = a2
    None = None
    Id = {pa, pb, pn, ua, un, ta, tn, k1, k2}
    KindOf <- MCKindOf
    Staff = {ann, bob}
    Viewer = {ann}
    Company = {ca, cb}
    CompanyOf <- MCCompanyOf
    Rows0 <- MCRows0
    Key = {a1, a2}
    Day = {1, 2}
    NoEnd = 3
    StatusOf <- MCStatusOf
    Limit = 1
    MaxOf <- MCMaxOf
INVARIANTS
    TypeOK
    RowsAgree
    WarningIsTrue
    ShownWasTrue
CHECK_DEADLOCK FALSE
