SPECIFICATION FairSpec
CONSTANTS
  Candidates = {c1}
  Jobs = {j1}
  Applies = {r1, r2}
  Reviews = {v1, v2}
  Workers = {}
  Payers = {}
  Limit = 1
  PremiumLimit = 1
  MaxRetries = 2
  ReviewScope <- EveryJob
  Batches <- TwoRows
  None = None
PROPERTIES ApplyEnds ReviewEnds
CHECK_DEADLOCK FALSE
