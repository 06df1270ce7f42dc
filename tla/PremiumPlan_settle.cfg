SPECIFICATION FewSpec
CONSTANTS
    u1 = u1
    k1 = k1
    k2 = k2
    None = None
    Users = {u1}
    Checkouts = {k1, k2}
    Term = 1
    Window = 0
    Lag = 1
    MaxRetries = 2
    MaxDay = 1
    MaxDeliveries <- OneTwice
    MaxFailures = 3
    MaxLosses = 1
CHECK_DEADLOCK FALSE
INVARIANTS TypeOK PremiumIsPaid
PROPERTIES PaymentGrants
