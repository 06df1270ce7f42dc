------------------------ MODULE TransactionsProvider ------------------------
(***************************************************************************)
(* executeTransaction, the function every handler runs its work in: it     *)
(* takes a connection from the pool, begins a transaction, runs the        *)
(* handler's operation, commits, and after a lock conflict starts again.   *)
(*                                                                         *)
(* An execution is one call of it.  An operation may call another handler  *)
(* of its service, whose executeTransaction takes a second connection while*)
(* the first one is held: that nested execution has a Parent, commits on   *)
(* its own, and is run again whenever its parent is retried.               *)
(*                                                                         *)
(* The pool (mysql2's, external) hands out PoolSize connections, in the    *)
(* order they were asked for, and lets a caller wait for one without limit.*)
(* What fails before the try block is not rolled back, retried or released.*)
(***************************************************************************)
EXTENDS Integers, Sequences, FiniteSets

CONSTANTS
    Executions,   \* calls of executeTransaction, one identity each
    Parent,       \* Parent[e]: the execution whose operation calls e, or None
    PoolSize,     \* connections of the pool
    MaxRetries,   \* maxRetries
    None

Tops     == {e \in Executions : Parent[e] = None}
Nested   == Executions \ Tops
Below(e) == {n \in Executions : Parent[n] = e}

\* No operation that is called from another one makes nested calls itself.
ASSUME PoolAssumption ==
    /\ IsFiniteSet(Executions)
    /\ PoolSize \in Nat \ {0}
    /\ MaxRetries \in Nat \ {0}
    /\ None \notin Executions
    /\ Parent \in [Executions -> Executions \cup {None}]
    /\ \A e \in Executions : Parent[e] # None => Parent[Parent[e]] = None

VARIABLES
    pc,        \* pc[e]: where execution e is
    attempt,   \* attempt[e]
    error,     \* error[e]: what e's operation, commit or nested call has thrown
    waiting,   \* the pool's queue of executions that wait for a connection
    free,      \* connections nobody holds
    commits    \* history: commits[e]: how often e's transaction was committed

vars == <<pc, attempt, error, waiting, free, commits>>

Error == {"none", "retryable", "fatal"}

\* "return", "retry" and "throw" are the three ways into the finally block; "stranded"
\* is a call that has failed and kept its connection.
Leaving == {"return", "retry", "throw"}
Failed  == {"failed", "stranded"}
Pc      == {"idle", "connect", "begin", "run", "commit", "rollback", "done"}
           \cup Leaving \cup Failed

Stranded == {e \in Executions : pc[e] = "stranded"}
Holders  == {e \in Executions : pc[e] \in {"begin", "run", "commit", "rollback"} \cup Leaving}
            \cup Stranded

Init ==
    /\ pc = [e \in Executions |-> "idle"]
    /\ attempt = [e \in Executions |-> 0]
    /\ error = [e \in Executions |-> "none"]
    /\ waiting = <<>>
    /\ free = PoolSize
    /\ commits = [e \in Executions |-> 0]

-----------------------------------------------------------------------------
\* A handler starts: the request has come, or the operation of the parent has
\* reached the call.
Call(e) ==
    /\ pc[e] = "idle"
    /\ e \in Nested => /\ pc[Parent[e]] = "run"
                       /\ \A n \in Below(Parent[e]) : pc[n] \in {"idle", "done"}
    /\ pc' = [pc EXCEPT ![e] = "connect"]
    /\ waiting' = Append(waiting, e)
    /\ UNCHANGED <<attempt, error, free, commits>>

\* queryRunner.connect(): the pool hands out a connection,
Connect(e) ==
    /\ waiting # <<>>
    /\ e = Head(waiting)
    /\ free > 0
    /\ waiting' = Tail(waiting)
    /\ free' = free - 1
    /\ pc' = [pc EXCEPT ![e] = "begin"]
    /\ UNCHANGED <<attempt, error, commits>>

\* or cannot open one: the call ends there, whichever attempt it is.
FailConnect(e) ==
    /\ waiting # <<>>
    /\ e = Head(waiting)
    /\ free > 0
    /\ waiting' = Tail(waiting)
    /\ error' = [error EXCEPT ![e] = "fatal"]
    /\ pc' = [pc EXCEPT ![e] = "failed"]
    /\ UNCHANGED <<attempt, free, commits>>

\* queryRunner.startTransaction()
Begin(e) ==
    /\ pc[e] = "begin"
    /\ pc' = [pc EXCEPT ![e] = "run"]
    /\ UNCHANGED <<attempt, error, waiting, free, commits>>

\* It throws.  Nothing releases the connection: the pool makes room for another one if it
\* notices that this one was lost, and has one less to hand out if it does not.
FailBegin(e) ==
    /\ pc[e] = "begin"
    /\ error' = [error EXCEPT ![e] = "fatal"]
    /\ \/ pc' = [pc EXCEPT ![e] = "stranded"] /\ UNCHANGED free
       \/ pc' = [pc EXCEPT ![e] = "failed"] /\ free' = free + 1
    /\ UNCHANGED <<attempt, waiting, commits>>

\* The operation returns: every nested call it made has returned.
Finish(e) ==
    /\ pc[e] = "run"
    /\ \A n \in Below(e) : pc[n] = "done"
    /\ pc' = [pc EXCEPT ![e] = "commit"]
    /\ UNCHANGED <<attempt, error, waiting, free, commits>>

\* The operation throws, on its own account or what a nested call has thrown.
\* It does not while a nested call is awaited.
Throw(e, err) ==
    /\ pc[e] = "run"
    /\ \A n \in Below(e) : pc[n] \in {"idle", "done"} \cup Failed
    /\ \A n \in Below(e) : pc[n] \in Failed => err = error[n]
    /\ err \in Error \ {"none"}
    /\ error' = [error EXCEPT ![e] = err]
    /\ pc' = [pc EXCEPT ![e] = "rollback"]
    /\ UNCHANGED <<attempt, waiting, free, commits>>

Commit(e) ==
    /\ pc[e] = "commit"
    /\ commits' = [commits EXCEPT ![e] = @ + 1]
    /\ pc' = [pc EXCEPT ![e] = "return"]
    /\ UNCHANGED <<attempt, error, waiting, free>>

\* The connection is lost while COMMIT is on its way: the database may have
\* committed or not, and the error that is thrown is not one that is retried.
LoseCommit(e) ==
    /\ pc[e] = "commit"
    /\ \/ commits' = [commits EXCEPT ![e] = @ + 1]
       \/ UNCHANGED commits
    /\ error' = [error EXCEPT ![e] = "fatal"]
    /\ pc' = [pc EXCEPT ![e] = "rollback"]
    /\ UNCHANGED <<attempt, waiting, free>>

\* Mutation: whatever was thrown is retried.
RetryAnything(e) == attempt[e] < MaxRetries - 1

\* Mutation: the attempts are not bounded.
RetryForever(e) == error[e] = "retryable"

\* isRetryableError(error) && attempt < maxRetries - 1
Retryable(e) == error[e] = "retryable" /\ attempt[e] < MaxRetries - 1

\* The catch block: roll back, then count the attempt or throw again.
Rollback(e) ==
    /\ pc[e] = "rollback"
    /\ IF Retryable(e)
       THEN /\ attempt' = [attempt EXCEPT ![e] = @ + 1]
            /\ error' = [error EXCEPT ![e] = "none"]
            /\ pc' = [pc EXCEPT ![e] = "retry"]
       ELSE /\ pc' = [pc EXCEPT ![e] = "throw"]
            /\ UNCHANGED <<attempt, error>>
    /\ UNCHANGED <<waiting, free, commits>>

\* The rollback itself throws, as it does on a lost connection: that error is no lock
\* conflict, and it leaves the catch block at once.
FailRollback(e) ==
    /\ pc[e] = "rollback"
    /\ error' = [error EXCEPT ![e] = "fatal"]
    /\ pc' = [pc EXCEPT ![e] = "throw"]
    /\ UNCHANGED <<attempt, waiting, free, commits>>

\* Mutation: the connection goes back only after success.
ReleaseOnReturn(e) ==
    /\ pc[e] \in {"return", "throw"}
    /\ free' = IF pc[e] = "return" THEN free + 1 ELSE free
    /\ pc' = [pc EXCEPT ![e] = IF @ = "return" THEN "done" ELSE "failed"]
    /\ UNCHANGED <<attempt, error, waiting, commits>>

\* The finally block gives the connection back, and the call ends.
Release(e) ==
    /\ pc[e] \in {"return", "throw"}
    /\ free' = free + 1
    /\ pc' = [pc EXCEPT ![e] = IF @ = "return" THEN "done" ELSE "failed"]
    /\ UNCHANGED <<attempt, error, waiting, commits>>

\* Or it gives the connection back and the loop asks for another one; the
\* operation will make its nested calls again.
Again(e) ==
    /\ pc[e] = "retry"
    /\ free' = free + 1
    /\ waiting' = Append(waiting, e)
    /\ pc' = [n \in Executions |-> IF n = e THEN "connect"
                                  ELSE IF n \in Below(e) THEN "idle" ELSE pc[n]]
    /\ attempt' = [n \in Executions |-> IF n \in Below(e) THEN 0 ELSE attempt[n]]
    /\ error' = [n \in Executions |-> IF n \in Below(e) THEN "none" ELSE error[n]]
    /\ UNCHANGED commits

\* The service restarts with a new pool; the database rolls back what was open.
Restart ==
    /\ \E e \in Executions : pc[e] \notin {"idle", "done", "failed"}
    /\ pc' = [e \in Executions |-> IF pc[e] \in {"idle", "done"} THEN pc[e] ELSE "failed"]
    /\ error' = [e \in Executions |-> IF pc[e] \in {"idle", "done"} THEN error[e]
                                     ELSE "fatal"]
    /\ free' = PoolSize
    /\ waiting' = <<>>
    /\ UNCHANGED <<attempt, commits>>

Step(e) ==
    \/ e \in Nested /\ Call(e)
    \/ Connect(e) \/ FailConnect(e)
    \/ Begin(e) \/ FailBegin(e)
    \/ Finish(e)
    \/ \E err \in Error : Throw(e, err)
    \/ Commit(e)
    \/ LoseCommit(e)
    \/ Rollback(e) \/ FailRollback(e)
    \/ Release(e)
    \/ Again(e)

Next ==
    \/ \E e \in Tops : Call(e)
    \/ \E e \in Executions : Step(e)
    \/ Restart

Spec == Init /\ [][Next]_vars

\* A handler that runs goes on, whatever its statements answer, and the pool serves the
\* first in its queue once a connection is free.  Nobody has to call, and nothing has to
\* restart.
FairSpec == Spec /\ \A e \in Executions : WF_vars(Step(e))

-----------------------------------------------------------------------------
(* Properties.                                                             *)

\* Every variable keeps the shape of what the code stores in it.
TypeOK ==
    /\ pc \in [Executions -> Pc]
    /\ attempt \in [Executions -> 0 .. MaxRetries - 1]
    /\ error \in [Executions -> Error]
    /\ waiting \in Seq(Executions)
    /\ free \in 0 .. PoolSize
    /\ commits \in [Executions -> Nat]

\* The answer a request gets, and whether its transaction took effect, as a
\* caller sees them: CommitOnce says what a request may count on.
answers == [e \in Tops |-> CASE pc[e] = "done"      -> "ok"
                             [] pc[e] \in Failed -> "error"
                             [] OTHER             -> "none"]
effects == [e \in Tops |-> commits[e]]

Promise == INSTANCE CommitOnce WITH Requests <- Tops, answer <- answers,
                                    applied <- effects

\* A request's transaction takes effect at most once, before its answer, and
\* "ok" is answered only after it did; retries and a lost COMMIT change nothing.
KeepsPromise == Promise!Spec

\* What a nested call does takes effect once for each attempt of the call around
\* it at most, for the surrounding rollback does not undo it.
NestedOncePerAttempt ==
    \A e \in Nested : commits[e] <= attempt[Parent[e]] + 1

\* A connection is given back once, and lost only by a call that could not begin: what is
\* not free is held by one execution, which has not ended or was stranded.
PoolBalanced == free + Cardinality(Holders) = PoolSize

\* The pool is short when it has no more connections left than there are requests under
\* way that hold one while they call another handler.
UnderWay == {e \in Tops : Below(e) # {} /\ pc[e] \notin {"idle", "done"} \cup Failed}
Short    == PoolSize - Cardinality(Stranded) <= Cardinality(UnderWay)

\* Every call is answered, unless the pool has become short and stays so.
CallsEnd ==
    \A e \in Tops : \/ pc[e] # "idle" ~> pc[e] \in {"done"} \cup Failed
                    \/ <>[]Short
=============================================================================
