SPECIFICATION FairSpec
CONSTANTS
    l1 = l1
    t1 = t1
    p1 = p1
    w1 = w1
    w2 = w2
    w3 = w3
    w4 = w4
    w5 = w5
    None = None
    Letters = {l1}
    Texts = {t1}
    Reports = {p1}
    Workers = {w1, w2, w3, w4, w5}
    Serves <- ServesOne
    RetryLimit = 2
    MaxData = 2
    MaxMishaps = 0
CHECK_DEADLOCK FALSE

PROPERTY ReportArrives
