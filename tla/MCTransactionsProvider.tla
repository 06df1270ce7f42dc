----------------------- MODULE MCTransactionsProvider -----------------------
EXTENDS TransactionsProvider

CONSTANTS o1, o2, o3, n1, n2

\* Two handlers that call another one, and one that does not.
ParentOf == [e \in Executions |-> CASE e = n1 -> o1 [] e = n2 -> o2 [] OTHER -> None]

\* Once the third has come there is one attempt.
OneAttempt == pc'[o3] # "idle" => \A e \in Executions : attempt'[e] = 0 /\ error'[e] # "retryable"

AttemptSpec ==
    Init /\ [][Next /\ OneAttempt]_vars /\ \A e \in Executions : WF_vars(Step(e))
=============================================================================
