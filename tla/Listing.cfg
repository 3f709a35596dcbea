SPECIFICATION ListSpec
CONSTANTS
    Id <- MCId
    Time <- MCTime
    Value = {pending, draft}
    Pending = pending
    Hidden = {draft}
    Page <- MCPage
    Limit <- MCLimit
    MaxWrites = 4
    None = None
    Any = Any
INVARIANTS
    NothingTwice
    NothingSkipped
CHECK_DEADLOCK FALSE
