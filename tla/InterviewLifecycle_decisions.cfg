SPECIFICATION FairSpec
CONSTANTS
    i1 = i1
    i2 = i2
    r1 = r1
    r2 = r2
    None = None
    Unwritten = Unwritten
    Interviews = {i1, i2}
    Requests = {r1, r2}
    Rows <- StartRows
    Edits <- ResultOrDate
    MaxFailures = 1
    MaxRetries = 2
CHECK_DEADLOCK FALSE
INVARIANTS TypeOK DecisionsAnnounced NoOrphan
PROPERTIES NoKnownReversal RequestsEnd
