SPECIFICATION Spec
CONSTANTS
    u1 = u1
    u2 = u2
    v1 = v1
    r1 = r1
    r2 = r2
    x1 = x1
    x2 = x2
    Users = {u1, u2}
    Socials = {u2}
    Reviews = {v1}
    Author <- AuthorOf
    Email <- EmailOf
    Requests = {r1, r2}
    Contents = {x1, x2}
    MaxFailures = 1
    MaxRetries = 2
    Unwritten = Unwritten
    None = None
SYMMETRY Symmetry
INVARIANTS TypeOK SearchShowsRow SignedUpIsFound ShownPremiumIsStored
PROPERTY RemovalIsShown
CHECK_DEADLOCK FALSE
