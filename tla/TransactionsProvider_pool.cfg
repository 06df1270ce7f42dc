SPECIFICATION AttemptSpec
CONSTANTS
    o1 = o1
    o2 = o2
    o3 = o3
    n1 = n1
    n2 = n2
    None = None
    Executions = {o1, o2, o3, n1, n2}
    Parent <- ParentOf
    PoolSize = 3
    MaxRetries = 2
CHECK_DEADLOCK FALSE
INVARIANTS TypeOK NestedOncePerAttempt PoolBalanced
PROPERTIES KeepsPromise CallsEnd
