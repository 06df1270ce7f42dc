SPECIFICATION Spec
CONSTANTS
  Candidates = {c1}
  Jobs = {j1}
  Applies = {r1, r2}
  Reviews = {v1}
  Workers = {w1, w2}
  Payers = {c1}
  Limit = 1
  PremiumLimit = 2
  MaxRetries = 1
  ReviewScope <- EveryJob
  Batches <- AnyBatch
  None = None
SYMMETRY Identities
INVARIANTS TypeOK NeverOvercharged NeverOvercredited RejectionIsRefunded IndexFollowsRows
CHECK_DEADLOCK FALSE
