SPECIFICATION FairSpec
CONSTANTS
    j1 = j1
    j2 = j2
    r1 = r1
    r2 = r2
    c1 = c1
    c2 = c2
    x1 = x1
    None = None
    Unwritten = Unwritten
    Edits <- Reopenings
    Rank <- RankOf
    Jobs = {j1, j2}
    Requests = {r1}
    Crons = {c1, c2}
    Contents = {x1}
    MaxDay = 1
    MaxFailures = 1
    MaxRetries = 2
    Rows <- Expiring
    JobLimit = 1
CHECK_DEADLOCK FALSE
PROPERTIES RequestsEnd ExpiredJobsClose
