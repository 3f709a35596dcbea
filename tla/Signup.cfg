SPECIFICATION FairSpec
CONSTANTS
    ann = ann
    bob = bob
    easy = easy
    thai = thai
    short = short
    admin = admin
    lengthy = lengthy
    None = None
    Person = {ann, bob}
    Slug = {short, admin, lengthy}
    Kind <- MCKind
    Name = {easy, thai}
    Suggested <- MCSuggested
    Founded = {}
    MaxEdits <- MCEdits
    MaxTries <- MCTries
INVARIANTS
    BadgeIsOfSlug
    SessionIsOwn
PROPERTIES
    FormSettles
CHECK_DEADLOCK FALSE
