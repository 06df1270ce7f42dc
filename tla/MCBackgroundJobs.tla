--------------------------- MODULE MCBackgroundJobs ---------------------------
EXTENDS BackgroundJobs

CONSTANTS l1, t1, p1, w1, w2, w3, w4, w5

\* One worker of each kind; there are two, and the second adds only that the files of
\* two reports can be made at the same time.
ServesOne == [w \in Workers |-> CASE w = w1 -> "emails"
                                  [] w = w2 -> "report emails"
                                  [] w = w3 -> "reports"
                                  [] w = w4 -> "uploads"
                                  [] w = w5 -> "sms"]
=============================================================================
