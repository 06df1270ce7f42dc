------------------------ MODULE MCInterviewLifecycle ------------------------
EXTENDS InterviewLifecycle

CONSTANTS i1, i2, r1, r2

\* An interview that waits for an approval, and one that is approved.
Undecided == [status |-> "scheduled", approval |-> "pending", result |-> FALSE,
              cancelled |-> FALSE, recruiter |-> TRUE]
StartRows == {Undecided, [Undecided EXCEPT !.approval = "approved"]}

\* The interview has been held, or its date is changed.
ResultOrDate == {[status |-> "finished", result |-> TRUE], [status |-> None, result |-> FALSE]}
=============================================================================
