--------------------------- MODULE MCJobLifecycle ---------------------------
EXTENDS JobLifecycle, TLC

CONSTANTS j1, j2, r1, r2, c1, c2, x1

\* The updates that differ: close the job; reopen it until the last day; change
\* its content; change it and name a new requirement; name one only.
Updates == {[NoEdit EXCEPT !.status = "closed"],
            [NoEdit EXCEPT !.status = "open", !.deadline = MaxDay + 1],
            [NoEdit EXCEPT !.content = x1],
            [NoEdit EXCEPT !.content = x1, !.requirement = TRUE],
            [NoEdit EXCEPT !.requirement = TRUE]}

AnyRow  == Row

\* Undecided jobs whose deadline is the first day.
Expiring == {x \in Row : x.status = "open" /\ x.deadline = 0 /\ ~x.approved /\ ~x.cancelled}

\* The updates that keep a job from expiring, or lock it twice.
Reopenings == {[NoEdit EXCEPT !.status = "open", !.deadline = MaxDay + 1],
               [NoEdit EXCEPT !.requirement = TRUE]}

\* Both cron jobs find the jobs in the order of the primary key.
RankOf  == [j \in Jobs |-> IF j = j1 THEN 1 ELSE 2]

Symmetry == Permutations(Requests) \cup Permutations(Crons)
=============================================================================
