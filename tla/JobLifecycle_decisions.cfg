SPECIFICATION Spec
CONSTANTS
    j1 = j1
    j2 = j2
    r1 = r1
    r2 = r2
    c1 = c1
    c2 = c2
    x1 = x1
    None = None
    Unwritten = Unwritten
    Edits <- Updates
    Rank <- RankOf
    Jobs = {j1}
    Requests = {r1, r2}
    Crons = {c1}
    Contents = {x1}
    MaxDay = 1
    MaxFailures = 1
    MaxRetries = 2
    Rows <- AnyRow
    JobLimit = 1
CHECK_DEADLOCK FALSE
INVARIANTS TypeOK DecisionsAnnounced
PROPERTIES ClosingIsExplained NoKnownReversal
SYMMETRY Symmetry
