---------------------- MODULE TransactionsProviderProofs ----------------------
(***************************************************************************)
(* Proofs about TransactionsProvider, for every pool size, number of       *)
(* retries and set of calls.                                               *)
(***************************************************************************)
EXTENDS TransactionsProvider, FiniteSetTheorems, TLAPS

Shapes ==
    /\ pc \in [Executions -> Pc]
    /\ attempt \in [Executions -> 0 .. MaxRetries - 1]
    /\ error \in [Executions -> Error]
    /\ waiting \in Seq(Executions)
    /\ free \in Nat
    /\ commits \in [Executions -> Nat]

\* A nested execution works only while its parent's operation runs.
NestedInside ==
    \A e \in Nested : pc[Parent[e]] # "run" => pc[e] \in {"idle", "done"} \cup Failed

\* Who stands in the pool's queue waits for a connection, and stands there once.
QueueSound ==
    /\ \A i \in 1 .. Len(waiting) : pc[waiting[i]] = "connect"
    /\ \A i, j \in 1 .. Len(waiting) : waiting[i] = waiting[j] => i = j

\* An execution that has not committed in its present attempt, and may still.
Open(e) == \/ pc[e] \in {"idle", "connect", "begin", "run", "commit", "retry"}
           \/ pc[e] = "rollback" /\ error[e] = "retryable"

\* The commits an execution had when its present attempt started: none for a
\* request, at most one for each earlier attempt of the parent for a nested one.
Earlier(e) == IF e \in Tops THEN 0 ELSE attempt[Parent[e]]

CommitsSound ==
    /\ \A e \in Executions : commits[e] <= Earlier(e) + 1
    /\ \A e \in Executions : Open(e) => commits[e] <= Earlier(e)
    /\ \A e \in Tops : pc[e] \in {"return", "done"} => commits[e] = 1
    /\ \A e \in Nested : pc[Parent[e]] = "retry" => commits[e] <= Earlier(e)

\* A nested call that is stranded ends the request around it, which is not tried again and
\* so never forgets who holds the connection.
StrandedEnds ==
    \A n \in Nested :
        pc[n] = "stranded" =>
            /\ error[n] = "fatal"
            /\ \/ pc[Parent[n]] \in {"run", "throw", "failed"}
               \/ pc[Parent[n]] = "rollback" /\ error[Parent[n]] = "fatal"

Inv == /\ Shapes /\ NestedInside /\ QueueSound /\ CommitsSound /\ StrandedEnds
       /\ PoolBalanced

THEOREM InvInit == Init => Inv
<1> SUFFICES ASSUME Init PROVE Inv
    OBVIOUS
<1> USE PoolAssumption DEF PoolAssumption, Init
<1>1. Shapes
    BY DEF Shapes, Pc, Error, Leaving, Failed
<1>2. NestedInside /\ QueueSound
    BY DEF NestedInside, Nested, Tops, QueueSound
<1>6. StrandedEnds
    BY DEF StrandedEnds, Nested
<1>3. CommitsSound
    BY DEF CommitsSound, Nested, Tops, Earlier, Open
<1>4. Holders = {}
    BY DEF Holders, Leaving, Stranded
<1>5. PoolBalanced
    BY <1>4, FS_EmptySet DEF PoolBalanced
<1> QED
    BY <1>1, <1>2, <1>3, <1>5, <1>6 DEF Inv

LEMMA ShapesNext == Inv /\ [Next]_vars => Shapes'
<1> SUFFICES ASSUME Inv, [Next]_vars PROVE Shapes'
    OBVIOUS
<1> USE PoolAssumption DEF Inv, Shapes, Pc, Error, Leaving, Failed
<1>1. ASSUME NEW e \in Executions, Call(e) PROVE Shapes'
    <2>1. waiting' \in Seq(Executions)
        BY <1>1 DEF Call
    <2>2. pc' \in [Executions -> Pc]
        BY <1>1 DEF Call
    <2> QED
        BY <1>1, <2>1, <2>2 DEF Call
<1>2. ASSUME NEW e \in Executions, Connect(e) \/ FailConnect(e) PROVE Shapes'
    <2>1. waiting' \in Seq(Executions)
        <3>1. waiting \in Seq(Executions) /\ waiting # <<>> /\ waiting' = Tail(waiting)
            BY <1>2 DEF Connect, FailConnect
        <3> HIDE DEF Inv, Shapes
        <3> QED
            BY <3>1
    <2>2. free' \in Nat
        BY <1>2 DEF Connect, FailConnect
    <2>3. pc' \in [Executions -> Pc] /\ error' \in [Executions -> Error]
        BY <1>2 DEF Connect, FailConnect
    <2> QED
        BY <1>2, <2>1, <2>2, <2>3 DEF Connect, FailConnect
<1>b. ASSUME NEW e \in Executions, Begin(e) PROVE Shapes'
    BY <1>b DEF Begin
<1>f. ASSUME NEW e \in Executions, FailBegin(e) PROVE Shapes'
    <2>1. pc' \in [Executions -> Pc] /\ error' \in [Executions -> Error]
        BY <1>f DEF FailBegin
    <2>2. free' \in Nat /\ UNCHANGED <<attempt, waiting, commits>>
        BY <1>f DEF FailBegin
    <2> QED
        BY <2>1, <2>2
<1>r. ASSUME NEW e \in Executions, FailRollback(e) PROVE Shapes'
    BY <1>r DEF FailRollback
<1>3. ASSUME NEW e \in Executions, Finish(e) PROVE Shapes'
    BY <1>3 DEF Finish
<1>4. ASSUME NEW e \in Executions, NEW err \in Error, Throw(e, err) PROVE Shapes'
    BY <1>4 DEF Throw
<1>5. ASSUME NEW e \in Executions, Commit(e) \/ LoseCommit(e) PROVE Shapes'
    <2>1. commits[e] + 1 \in Nat
        OBVIOUS
    <2>2. commits' \in [Executions -> Nat]
        BY <1>5, <2>1 DEF Commit, LoseCommit
    <2> QED
        BY <1>5, <2>2 DEF Commit, LoseCommit
<1>6. ASSUME NEW e \in Executions, Rollback(e) PROVE Shapes'
    <2>1. attempt[e] \in 0 .. MaxRetries - 1 /\ MaxRetries \in Nat
        BY DEF PoolAssumption
    <2>2. attempt[e] < MaxRetries - 1 => attempt[e] + 1 \in 0 .. MaxRetries - 1
        BY <2>1
    <2>3. attempt' \in [Executions -> 0 .. MaxRetries - 1]
        BY <1>6, <2>2 DEF Rollback, Retryable
    <2> QED
        BY <1>6, <2>3 DEF Rollback
<1>7. ASSUME NEW e \in Executions, Release(e) PROVE Shapes'
    BY <1>7 DEF Release
<1>8. ASSUME NEW e \in Executions, Again(e) PROVE Shapes'
    <2>1. 0 \in 0 .. MaxRetries - 1
        BY DEF PoolAssumption
    <2> QED
        BY <1>8, <2>1 DEF Again
<1>9. CASE Restart
    BY <1>9 DEF Restart, PoolAssumption
<1>10. CASE UNCHANGED vars
    BY <1>10 DEF vars
<1> QED
    BY <1>1, <1>2, <1>3, <1>4, <1>5, <1>6, <1>7, <1>8, <1>9, <1>10, <1>b, <1>f, <1>r
    DEF Next, Step, Tops

LEMMA Parents ==
    /\ \A n \in Nested : Parent[n] \in Tops /\ Parent[n] \in Executions /\ n \in Executions
    /\ \A e \in Executions : Below(e) \subseteq Nested
    /\ \A e \in Nested : Below(e) = {}
    /\ \A n \in Nested : n \in Below(Parent[n])
    /\ \A e \in Executions : \A n \in Below(e) : Parent[n] = e
    /\ \A e \in Tops : e \notin Nested
BY PoolAssumption DEF PoolAssumption, Nested, Tops, Below

LEMMA NestedNext == Inv /\ [Next]_vars => NestedInside'
<1> SUFFICES ASSUME Inv, [Next]_vars PROVE NestedInside'
    OBVIOUS
<1> USE Parents DEF Inv, Shapes, NestedInside, Failed
<1>1. ASSUME NEW e \in Executions, Call(e) PROVE NestedInside'
    BY <1>1 DEF Call, Nested, Tops
<1>2. ASSUME NEW e \in Executions, Connect(e) \/ FailConnect(e) PROVE NestedInside'
    <2>1. pc[e] = "connect"
        <3>1. e = waiting[1] /\ 1 \in 1 .. Len(waiting)
            BY <1>2 DEF Connect, FailConnect
        <3> QED
            BY <3>1 DEF QueueSound
    <2>2. /\ pc'[e] \in {"begin", "failed"} /\ \A x \in Executions : x # e => pc'[x] = pc[x]
        BY <1>2 DEF Connect, FailConnect
    <2>3. e \in Nested => pc[Parent[e]] = "run"
        BY <2>1
    <2> QED
        BY <2>1, <2>2, <2>3
<1>b. ASSUME NEW e \in Executions, Begin(e) \/ FailBegin(e) PROVE NestedInside'
    BY <1>b DEF Begin, FailBegin, Failed
<1>3. ASSUME NEW e \in Executions, Finish(e) PROVE NestedInside'
    BY <1>3 DEF Finish
<1>4. ASSUME NEW e \in Executions, NEW err \in Error, Throw(e, err) PROVE NestedInside'
    BY <1>4 DEF Throw
<1>5. ASSUME NEW e \in Executions, Commit(e) \/ LoseCommit(e) PROVE NestedInside'
    BY <1>5 DEF Commit, LoseCommit
<1>6. ASSUME NEW e \in Executions, Rollback(e) \/ FailRollback(e) PROVE NestedInside'
    <2>1. /\ pc[e] = "rollback" /\ pc'[e] \in {"retry", "throw"}
          /\ \A x \in Executions : x # e => pc'[x] = pc[x]
        BY <1>6 DEF Rollback, FailRollback
    <2> SUFFICES ASSUME NEW n \in Nested, pc'[Parent[n]] # "run"
                 PROVE  pc'[n] \in {"idle", "done"} \cup Failed
        OBVIOUS
    <2>2. n # e
        BY <2>1
    <2> QED
        BY <2>1, <2>2
<1>7. ASSUME NEW e \in Executions, Release(e) PROVE NestedInside'
    BY <1>7 DEF Release
<1>8. ASSUME NEW e \in Executions, Again(e) PROVE NestedInside'
    BY <1>8 DEF Again
<1>9. CASE Restart
    BY <1>9 DEF Restart
<1>10. CASE UNCHANGED vars
    BY <1>10 DEF vars
<1> QED
    BY <1>1, <1>2, <1>3, <1>4, <1>5, <1>6, <1>7, <1>8, <1>9, <1>10, <1>b
    DEF Next, Step, Tops

LEMMA QueueNext == Inv /\ [Next]_vars => QueueSound'
<1> SUFFICES ASSUME Inv, [Next]_vars PROVE QueueSound'
    OBVIOUS
<1> USE DEF Inv, Shapes, QueueSound
<1>0. \A i \in 1 .. Len(waiting) : waiting[i] \in Executions
    OBVIOUS
<1>a. ASSUME NEW e \in Executions, pc[e] # "connect", pc'[e] = "connect",
             waiting' = Append(waiting, e),
             \A x \in Executions : pc[x] = "connect" => pc'[x] = "connect"
      PROVE  QueueSound'
    <2>1. /\ Len(waiting') = Len(waiting) + 1
          /\ \A i \in 1 .. Len(waiting) : waiting'[i] = waiting[i] /\ waiting[i] # e
          /\ waiting'[Len(waiting')] = e
        BY <1>a
    <2> QED
        BY <1>0, <1>a, <2>1
<1>b. ASSUME UNCHANGED waiting,
             \A x \in Executions : pc[x] = "connect" => pc'[x] = "connect"
      PROVE  QueueSound'
    BY <1>0, <1>b
<1>1. ASSUME NEW e \in Executions, Call(e) PROVE QueueSound'
    <2>1. /\ pc[e] # "connect" /\ pc'[e] = "connect"
          /\ waiting' = Append(waiting, e)
          /\ \A x \in Executions : pc[x] = "connect" => pc'[x] = "connect"
        BY <1>1 DEF Call
    <2> QED
        BY <1>a, <2>1
<1>2. ASSUME NEW e \in Executions, Connect(e) \/ FailConnect(e) PROVE QueueSound'
    <2>1. /\ waiting' = Tail(waiting) /\ waiting # <<>> /\ e = waiting[1]
          /\ \A x \in Executions : x # e => pc'[x] = pc[x]
        BY <1>2 DEF Connect, FailConnect
    <2>2. /\ Len(waiting') = Len(waiting) - 1
          /\ \A i \in 1 .. Len(waiting') : /\ waiting'[i] = waiting[i + 1]
                                           /\ i + 1 \in 1 .. Len(waiting)
                                           /\ waiting[i + 1] # e
        BY <2>1
    <2> QED
        BY <1>0, <2>1, <2>2
<1>3. ASSUME NEW e \in Executions,
             \/ Begin(e) \/ FailBegin(e) \/ Finish(e) \/ Commit(e) \/ LoseCommit(e)
             \/ Rollback(e) \/ FailRollback(e) \/ Release(e)
             \/ \E err \in Error : Throw(e, err)
      PROVE  QueueSound'
    <2>1. /\ UNCHANGED waiting
          /\ \A x \in Executions : pc[x] = "connect" => pc'[x] = "connect"
        BY <1>3 DEF Begin, FailBegin, Finish, Commit, LoseCommit, Rollback, FailRollback,
                    Release, Throw
    <2> QED
        BY <1>b, <2>1
<1>8. ASSUME NEW e \in Executions, Again(e) PROVE QueueSound'
    <2>1. /\ pc[e] # "connect" /\ pc'[e] = "connect" /\ waiting' = Append(waiting, e)
          /\ \A x \in Executions : x \notin Below(e) /\ x # e => pc'[x] = pc[x]
        BY <1>8 DEF Again
    <2>2. \A x \in Below(e) : pc[x] # "connect"
        BY <1>8, Parents DEF Again, NestedInside, Failed
    <2>3. \A x \in Executions : pc[x] = "connect" => pc'[x] = "connect"
        BY <2>1, <2>2
    <2> QED
        BY <1>a, <2>1, <2>3
<1>9. CASE Restart
    BY <1>9 DEF Restart
<1>10. CASE UNCHANGED vars
    BY <1>b, <1>10 DEF vars
<1> QED
    BY <1>1, <1>2, <1>3, <1>8, <1>9, <1>10 DEF Next, Step, Tops

LEMMA CommitsNext == Inv /\ [Next]_vars => CommitsSound'
<1> SUFFICES ASSUME Inv, [Next]_vars PROVE CommitsSound'
    OBVIOUS
<1> USE DEF Inv, Shapes
<1>t. \A e \in Executions : /\ commits[e] \in Nat
                            /\ Earlier(e) \in Nat
                            /\ attempt[e] \in Nat
    BY Parents, PoolAssumption DEF Earlier, Nested, PoolAssumption
<1>0. ASSUME UNCHANGED <<commits, attempt>>,
             \A e \in Executions : Open(e)' => Open(e),
             \A e \in Tops : pc'[e] \in {"return", "done"} => pc[e] \in {"return", "done"},
             \A e \in Executions : pc'[e] = "retry" => pc[e] = "retry"
      PROVE  CommitsSound'
    BY <1>0, Parents DEF CommitsSound, Earlier
<1>1. ASSUME NEW e \in Executions, Call(e) PROVE CommitsSound'
    BY <1>0, <1>1 DEF Call, Open, Tops
<1>2. ASSUME NEW e \in Executions, Connect(e) \/ FailConnect(e) PROVE CommitsSound'
    BY <1>0, <1>2 DEF Connect, FailConnect, Open, Tops, QueueSound
<1>b. ASSUME NEW e \in Executions, Begin(e) \/ FailBegin(e) \/ FailRollback(e)
      PROVE  CommitsSound'
    BY <1>0, <1>b DEF Begin, FailBegin, FailRollback, Open, Tops
<1>3. ASSUME NEW e \in Executions, Finish(e) PROVE CommitsSound'
    BY <1>0, <1>3 DEF Finish, Open, Tops
<1>4. ASSUME NEW e \in Executions, NEW err \in Error, Throw(e, err) PROVE CommitsSound'
    BY <1>0, <1>4 DEF Throw, Open, Tops
<1>5. ASSUME NEW e \in Executions, Commit(e) \/ LoseCommit(e) PROVE CommitsSound'
    <2>1. commits[e] <= Earlier(e) /\ pc[e] = "commit"
        BY <1>5 DEF Commit, LoseCommit, CommitsSound, Open
    <2>2. /\ UNCHANGED attempt
          /\ \A x \in Executions : x # e => commits'[x] = commits[x] /\ pc'[x] = pc[x]
                                            /\ error'[x] = error[x]
          /\ commits'[e] \in {commits[e], commits[e] + 1}
          /\ pc'[e] \in {"return", "rollback"}
          /\ pc'[e] = "return" => commits'[e] = commits[e] + 1
          /\ pc'[e] = "rollback" => error'[e] = "fatal"
        BY <1>5 DEF Commit, LoseCommit
    <2>3. \A x \in Executions : Earlier(x)' = Earlier(x)
        BY <2>2 DEF Earlier
    <2>4. ASSUME NEW x \in Executions
          PROVE  commits'[x] <= Earlier(x) + 1
        <3>1. CASE x = e
            <4>1. commits'[e] \in {commits[e], commits[e] + 1}
                BY <2>2
            <4>2. commits[e] \in Nat /\ Earlier(e) \in Nat /\ commits[e] <= Earlier(e)
                BY <1>t, <2>1
            <4>3. commits'[e] <= Earlier(e) + 1
                BY <4>1, <4>2
            <4> QED
                BY <3>1, <4>3
        <3>2. CASE x # e
            BY <2>2, <3>2 DEF CommitsSound
        <3> QED
            BY <3>1, <3>2
    <2>5. \A x \in Executions : Open(x)' => x # e /\ Open(x)
        BY <2>2 DEF Open
    <2>6. e \in Tops => commits[e] = 0
        BY <1>t, <2>1 DEF Earlier
    <2>7. \A x \in Nested : pc'[Parent[x]] = "retry" => pc[Parent[x]] = "retry" /\ x # e
        BY <2>1, <2>2, Parents DEF NestedInside, Failed
    <2>8. \A x \in Executions : Open(x)' => commits'[x] <= Earlier(x)'
        BY <2>2, <2>3, <2>5 DEF CommitsSound
    <2>9. \A x \in Tops : pc'[x] \in {"return", "done"} => commits'[x] = 1
        BY <2>2, <2>6 DEF CommitsSound, Tops
    <2>10. \A x \in Nested : pc'[Parent[x]] = "retry" => commits'[x] <= Earlier(x)'
        BY <2>2, <2>3, <2>7, Parents DEF CommitsSound
    <2>11. \A x \in Executions : commits'[x] <= Earlier(x)' + 1
        BY <2>3, <2>4
    <2> QED
        BY <2>8, <2>9, <2>10, <2>11 DEF CommitsSound
<1>6. ASSUME NEW e \in Executions, Rollback(e) PROVE CommitsSound'
    <2>1. /\ UNCHANGED commits /\ pc[e] = "rollback"
          /\ \A x \in Executions : x # e => attempt'[x] = attempt[x] /\ pc'[x] = pc[x]
                                            /\ error'[x] = error[x]
          /\ pc'[e] = "retry" => error[e] = "retryable" /\ attempt'[e] = attempt[e] + 1
          /\ pc'[e] # "retry" => pc'[e] = "throw" /\ attempt'[e] = attempt[e]
        BY <1>6 DEF Rollback, Retryable
    <2>2. \A x \in Executions : /\ Earlier(x)' \in Nat
                                /\ Earlier(x) <= Earlier(x)'
        <3>1. \A y \in Executions : attempt'[y] \in {attempt[y], attempt[y] + 1}
            BY <2>1
        <3>2. \A y \in Executions : attempt[y] \in Nat
            BY <1>t
        <3>3. \A y \in Executions : attempt'[y] \in Nat /\ attempt[y] <= attempt'[y]
            BY <3>1, <3>2
        <3>4. \A x \in Executions : x \notin Tops => Parent[x] \in Executions
            BY Parents DEF Nested
        <3> QED
            BY <3>3, <3>4 DEF Earlier
    <2>3. \A x \in Executions : Open(x)' => Open(x)
        BY <2>1 DEF Open
    <2>4. ASSUME NEW n \in Nested, pc'[Parent[n]] = "retry"
          PROVE  commits'[n] <= Earlier(n)'
        <3>1. CASE Parent[n] = e
            <4>1. Earlier(n)' = Earlier(n) + 1
                BY <2>1, <2>4, <3>1, Parents DEF Earlier
            <4> QED
                BY <2>1, <4>1, Parents DEF CommitsSound
        <3>2. CASE Parent[n] # e
            <4>1. pc[Parent[n]] = "retry" /\ n \in Executions
                BY <2>1, <2>4, <3>2, Parents
            <4>2. commits[n] <= Earlier(n)
                BY <4>1 DEF CommitsSound
            <4> QED
                BY <1>t, <2>1, <2>2, <4>1, <4>2
        <3> QED
            BY <3>1, <3>2
    <2>5. \A x \in Executions : commits'[x] <= Earlier(x)' + 1
        BY <1>t, <2>1, <2>2 DEF CommitsSound
    <2>6. \A x \in Executions : Open(x)' => commits'[x] <= Earlier(x)'
        BY <1>t, <2>1, <2>2, <2>3 DEF CommitsSound
    <2>7. \A x \in Tops : pc'[x] \in {"return", "done"} => commits'[x] = 1
        BY <2>1 DEF CommitsSound, Tops
    <2> QED
        BY <2>4, <2>5, <2>6, <2>7 DEF CommitsSound
<1>7. ASSUME NEW e \in Executions, Release(e) PROVE CommitsSound'
    BY <1>0, <1>7 DEF Release, Open, Tops
<1>8. ASSUME NEW e \in Executions, Again(e) PROVE CommitsSound'
    <2>1. /\ UNCHANGED commits /\ pc[e] = "retry" /\ pc'[e] = "connect"
          /\ \A x \in Executions : x \notin Below(e) /\ x # e =>
                pc'[x] = pc[x] /\ attempt'[x] = attempt[x] /\ error'[x] = error[x]
          /\ \A x \in Below(e) : pc'[x] = "idle"
          /\ \A x \in Executions : x \notin Below(e) => attempt'[x] = attempt[x]
          /\ e \notin Below(e)
        BY <1>8, PoolAssumption DEF Again, Below, PoolAssumption
    <2>2. \A x \in Executions : Earlier(x)' = Earlier(x)
        BY <2>1, Parents DEF Earlier, Nested
    <2>3. \A x \in Below(e) : commits[x] <= Earlier(x)
        BY <2>1, Parents DEF CommitsSound
    <2>4. \A x \in Executions : Open(x)' => commits[x] <= Earlier(x)
        BY <2>1, <2>3 DEF CommitsSound, Open
    <2>5. \A x \in Tops : pc'[x] \in {"return", "done"} => pc[x] \in {"return", "done"}
        BY <2>1 DEF Tops
    <2>6. \A x \in Nested : pc'[Parent[x]] = "retry" => pc[Parent[x]] = "retry"
        BY <2>1, Parents
    <2>7. \A x \in Executions : Open(x)' => commits'[x] <= Earlier(x)'
        BY <2>1, <2>2, <2>4
    <2>8. \A x \in Tops : pc'[x] \in {"return", "done"} => commits'[x] = 1
        BY <2>1, <2>5 DEF CommitsSound
    <2>9. \A x \in Nested : pc'[Parent[x]] = "retry" => commits'[x] <= Earlier(x)'
        BY <2>1, <2>2, <2>6, Parents DEF CommitsSound
    <2>10. \A x \in Executions : commits'[x] <= Earlier(x)' + 1
        BY <2>1, <2>2 DEF CommitsSound
    <2> QED
        BY <2>7, <2>8, <2>9, <2>10 DEF CommitsSound
<1>9. CASE Restart
    BY <1>0, <1>9 DEF Restart, Open, Tops
<1>10. CASE UNCHANGED vars
    BY <1>0, <1>10 DEF vars, Open
<1> QED
    BY <1>1, <1>2, <1>3, <1>4, <1>5, <1>6, <1>7, <1>8, <1>9, <1>10, <1>b
    DEF Next, Step, Tops

LEMMA StrandedNext == Inv /\ [Next]_vars => StrandedEnds'
<1> SUFFICES ASSUME Inv, [Next]_vars PROVE StrandedEnds'
    OBVIOUS
<1> USE Parents DEF Inv, Shapes, StrandedEnds
<1>1. ASSUME NEW e \in Executions, Call(e) PROVE StrandedEnds'
    BY <1>1 DEF Call
<1>2. ASSUME NEW e \in Executions, Connect(e) \/ FailConnect(e) PROVE StrandedEnds'
    <2>1. pc[e] = "connect"
        <3>1. e = waiting[1] /\ 1 \in 1 .. Len(waiting)
            BY <1>2 DEF Connect, FailConnect
        <3> QED
            BY <3>1 DEF QueueSound
    <2>2. /\ pc'[e] \in {"begin", "failed"}
          /\ \A x \in Executions : x # e => pc'[x] = pc[x] /\ error'[x] = error[x]
        BY <1>2 DEF Connect, FailConnect
    <2> QED
        BY <2>1, <2>2
<1>3. ASSUME NEW e \in Executions, Begin(e) PROVE StrandedEnds'
    BY <1>3 DEF Begin
<1>4. ASSUME NEW e \in Executions, FailBegin(e) PROVE StrandedEnds'
    <2>1. e \in Nested => pc[Parent[e]] = "run"
        BY <1>4 DEF FailBegin, NestedInside, Failed
    <2> QED
        BY <1>4, <2>1 DEF FailBegin
<1>5. ASSUME NEW e \in Executions, Finish(e) PROVE StrandedEnds'
    BY <1>5 DEF Finish
<1>6. ASSUME NEW e \in Executions, NEW err \in Error, Throw(e, err) PROVE StrandedEnds'
    <2>1. \A n \in Below(e) : pc[n] = "stranded" => err = "fatal"
        BY <1>6 DEF Throw, Failed
    <2>2. /\ pc'[e] = "rollback" /\ error'[e] = err
          /\ \A x \in Executions : x # e => pc'[x] = pc[x] /\ error'[x] = error[x]
        BY <1>6 DEF Throw
    <2> QED
        BY <2>1, <2>2
<1>7. ASSUME NEW e \in Executions, Commit(e) \/ LoseCommit(e) PROVE StrandedEnds'
    <2>1. /\ pc[e] = "commit" /\ pc'[e] \in {"return", "rollback"}
          /\ \A x \in Executions : x # e => pc'[x] = pc[x] /\ error'[x] = error[x]
        BY <1>7 DEF Commit, LoseCommit
    <2> QED
        BY <2>1
<1>8. ASSUME NEW e \in Executions, Rollback(e) \/ FailRollback(e) PROVE StrandedEnds'
    BY <1>8 DEF Rollback, FailRollback, Retryable
<1>9. ASSUME NEW e \in Executions, Release(e) PROVE StrandedEnds'
    BY <1>9 DEF Release
<1>10. ASSUME NEW e \in Executions, Again(e) PROVE StrandedEnds'
    BY <1>10 DEF Again
<1>11. CASE Restart
    BY <1>11 DEF Restart
<1>12. CASE UNCHANGED vars
    BY <1>12 DEF vars
<1> QED
    BY <1>1, <1>2, <1>3, <1>4, <1>5, <1>6, <1>7, <1>8, <1>9, <1>10, <1>11, <1>12
    DEF Next, Step, Tops

LEMMA PoolNext == Inv /\ [Next]_vars => PoolBalanced'
<1> SUFFICES ASSUME Inv, [Next]_vars PROVE PoolBalanced'
    OBVIOUS
<1> USE DEF Inv, Shapes
<1>f. IsFiniteSet(Holders) /\ Cardinality(Holders) \in Nat
    BY FS_Subset, FS_CardinalityType, PoolAssumption DEF Holders, Stranded, PoolAssumption
<1>p. free \in Nat /\ PoolSize \in Nat
    BY PoolAssumption DEF PoolAssumption
<1>0. ASSUME Holders' = Holders, UNCHANGED free PROVE PoolBalanced'
    BY <1>0 DEF PoolBalanced
<1>1. ASSUME NEW e \in Executions, Call(e) PROVE PoolBalanced'
    <2>1. Holders' = Holders
        BY <1>1 DEF Call, Holders, Leaving, Stranded
    <2> QED
        BY <1>0, <1>1, <2>1 DEF Call
<1>2. ASSUME NEW e \in Executions, Connect(e) PROVE PoolBalanced'
    <2>1. Holders' = Holders \cup {e} /\ e \notin Holders
        BY <1>2 DEF Connect, Holders, Leaving, Stranded, QueueSound
    <2>2. Cardinality(Holders \cup {e}) = Cardinality(Holders) + 1
        BY <1>f, <2>1, FS_AddElement
    <2> QED
        BY <1>2, <1>f, <1>p, <2>1, <2>2 DEF Connect, PoolBalanced
<1>3. ASSUME NEW e \in Executions,
             \/ FailConnect(e) \/ Begin(e) \/ Finish(e) \/ Commit(e) \/ LoseCommit(e)
             \/ Rollback(e) \/ FailRollback(e)
             \/ \E err \in Error : Throw(e, err)
      PROVE  PoolBalanced'
    <2>1. Holders' = Holders
        BY <1>3 DEF FailConnect, Begin, Finish, Commit, LoseCommit, Rollback, FailRollback,
                    Throw, Holders, Leaving, Stranded, QueueSound
    <2>2. UNCHANGED free
        BY <1>3 DEF FailConnect, Begin, Finish, Commit, LoseCommit, Rollback, FailRollback,
                    Throw
    <2> QED
        BY <1>0, <2>1, <2>2
<1>7. ASSUME NEW e \in Executions, e \in Holders, Holders' = Holders \ {e}, free' = free + 1
      PROVE  PoolBalanced'
    <2>1. Cardinality(Holders \ {e}) = Cardinality(Holders) - 1
        BY <1>f, <1>7, FS_RemoveElement
    <2> QED
        BY <1>7, <1>f, <1>p, <2>1 DEF PoolBalanced
<1>b. ASSUME NEW e \in Executions, FailBegin(e) PROVE PoolBalanced'
    <2>2. e \in Holders
        BY <1>b DEF FailBegin, Holders
    <2>3. CASE pc'[e] = "stranded"
        <3>1. Holders' = Holders /\ UNCHANGED free
            BY <1>b, <2>3 DEF FailBegin, Holders, Leaving, Stranded
        <3> QED
            BY <1>0, <3>1
    <2>4. CASE pc'[e] # "stranded"
        <3>1. Holders' = Holders \ {e} /\ free' = free + 1
            BY <1>b, <2>4 DEF FailBegin, Holders, Leaving, Stranded
        <3> QED
            BY <1>7, <2>2, <3>1
    <2> QED
        BY <2>3, <2>4
<1>8. ASSUME NEW e \in Executions, Release(e) \/ Again(e) PROVE PoolBalanced'
    <2>1. \A n \in Below(e) :
              pc[e] = "retry" => pc[n] \in {"idle", "done", "failed"}
        BY Parents DEF NestedInside, StrandedEnds, Failed
    <2>2. e \in Holders /\ free' = free + 1
        BY <1>8 DEF Release, Again, Holders, Leaving, Stranded
    <2>3. CASE Release(e)
        BY <1>7, <2>2, <2>3 DEF Release, Holders, Leaving, Stranded
    <2>4. CASE Again(e)
        <3>1. Holders' = Holders \ {e}
            BY <2>1, <2>4 DEF Again, Holders, Leaving, Stranded
        <3> QED
            BY <1>7, <2>2, <3>1
    <2> QED
        BY <1>8, <2>3, <2>4
<1>9. CASE Restart
    <2>1. Holders' = {}
        BY <1>9 DEF Restart, Holders, Leaving, Stranded
    <2> QED
        BY <1>9, <1>p, <2>1, FS_EmptySet DEF Restart, PoolBalanced
<1>10. CASE UNCHANGED vars
    BY <1>0, <1>10 DEF vars, Holders, Stranded
<1> QED
    BY <1>1, <1>2, <1>3, <1>8, <1>9, <1>10, <1>b DEF Next, Step, Tops

\* The invariant the results below rest on.
THEOREM InvCorrect == Spec => []Inv
<1>1. Inv /\ [Next]_vars => Inv'
    BY ShapesNext, NestedNext, QueueNext, CommitsNext, StrandedNext, PoolNext DEF Inv
<1> QED
    BY InvInit, <1>1, PTL DEF Spec

\* The pool never gets a connection back twice, and loses one only to a call whose BEGIN
\* failed, for every number of calls, however they fail.
THEOREM PoolKept == Spec => []PoolBalanced
BY InvCorrect, PTL DEF Inv

\* A nested call takes effect at most once for each attempt of the call around it.
THEOREM NestedBounded == Spec => []NestedOncePerAttempt
<1>1. Inv => NestedOncePerAttempt
    BY Parents DEF Inv, CommitsSound, Earlier, NestedOncePerAttempt
<1> QED
    BY <1>1, InvCorrect, PTL

THEOREM ProviderTyped == Spec => []TypeOK
<1>1. Inv => TypeOK
    <2> SUFFICES ASSUME Inv PROVE free \in 0 .. PoolSize
        BY DEF Inv, Shapes, TypeOK
    <2>1. Cardinality(Holders) \in Nat
        BY FS_Subset, FS_CardinalityType, PoolAssumption DEF Holders, Stranded, PoolAssumption
    <2> QED
        BY <2>1, PoolAssumption DEF Inv, Shapes, PoolBalanced, PoolAssumption
<1> QED
    BY <1>1, InvCorrect, PTL

-----------------------------------------------------------------------------
(* The provider implements CommitOnce.                                     *)

LEMMA InitPromises == Init => Promise!Init
BY DEF Init, Promise!Init, effects, answers, Tops, Failed

LEMMA AnswerStutters ==
    ASSUME effects' = effects, answers' = answers
    PROVE  [Promise!Next]_<<effects, answers>>
BY DEF Promise!Next

LEMMA StepPromises ==
    ASSUME Inv, [Next]_vars
    PROVE  [Promise!Next]_<<effects, answers>>
<1> USE DEF Inv, Shapes
<1>t. Tops \subseteq Executions
    BY DEF Tops
<1>0. ASSUME UNCHANGED commits,
             \A e \in Tops : /\ pc'[e] = "done" <=> pc[e] = "done"
                             /\ pc'[e] \in Failed <=> pc[e] \in Failed
      PROVE  [Promise!Next]_<<effects, answers>>
    <2>1. effects' = effects
        BY <1>0 DEF effects
    <2>2. answers' = answers
        BY <1>0 DEF answers
    <2> QED
        BY <2>1, <2>2, AnswerStutters
<1>1. ASSUME NEW e \in Executions, Commit(e) \/ LoseCommit(e)
      PROVE  [Promise!Next]_<<effects, answers>>
    <2>1. /\ \A x \in Tops : /\ pc'[x] = "done" <=> pc[x] = "done"
                             /\ pc'[x] \in Failed <=> pc[x] \in Failed
        BY <1>1, <1>t DEF Commit, LoseCommit, Failed
    <2>2. answers' = answers
        BY <2>1 DEF answers
    <2>3. CASE e \in Tops /\ commits' = [commits EXCEPT ![e] = @ + 1]
        <3>1. commits[e] = 0 /\ answers[e] = "none"
            <4>1. pc[e] = "commit"
                BY <1>1 DEF Commit, LoseCommit
            <4>2. commits[e] <= 0 /\ commits[e] \in Nat
                BY <2>3, <4>1 DEF CommitsSound, Open, Earlier
            <4>3. answers[e] = "none"
                BY <2>3, <4>1 DEF answers, Failed
            <4> QED
                BY <4>2, <4>3
        <3>2. effects' = [effects EXCEPT ![e] = 1]
            <4>1. \A x \in Tops : commits'[x] = IF x = e THEN 1 ELSE commits[x]
                BY <1>t, <2>3, <3>1
            <4>2. effects' = [x \in Tops |-> commits'[x]]
                BY DEF effects
            <4>3. [effects EXCEPT ![e] = 1] = [x \in Tops |-> IF x = e THEN 1 ELSE commits[x]]
                BY <2>3 DEF effects
            <4> QED
                BY <4>1, <4>2, <4>3
        <3>3. effects[e] = 0
            BY <2>3, <3>1 DEF effects
        <3>4. Promise!Apply(e)
            BY <2>2, <3>1, <3>2, <3>3 DEF Promise!Apply
        <3> QED
            BY <2>3, <3>4 DEF Promise!Next
    <2>4. CASE e \notin Tops \/ UNCHANGED commits
        <3>1. effects' = effects
            BY <1>1, <1>t, <2>4 DEF effects, Commit, LoseCommit
        <3> QED
            BY <2>2, <3>1, AnswerStutters
    <2> QED
        BY <1>1, <2>3, <2>4 DEF Commit, LoseCommit
<1>2. ASSUME UNCHANGED commits,
             \A e \in Tops : \/ pc'[e] = pc[e]
                             \/ pc[e] \notin {"done"} \cup Failed /\ pc'[e] # "done"
                             \/ pc[e] \in Failed /\ pc'[e] \in Failed
                             \/ pc[e] = "return" /\ pc'[e] = "done"
      PROVE  [Promise!Next]_<<effects, answers>>
    <2>1. effects' = effects
        BY <1>2 DEF effects
    <2>2. ASSUME NEW r \in Tops
          PROVE  \/ answers'[r] = answers[r]
                 \/ answers[r] = "none" /\ answers'[r] = "error"
                 \/ answers[r] = "none" /\ answers'[r] = "ok" /\ effects[r] = 1
        BY <1>2 DEF answers, effects, CommitsSound, Failed
    <2>3. Promise!Answer
        BY <2>1, <2>2 DEF Promise!Answer
    <2> QED
        BY <2>3 DEF Promise!Next
<1>3. ASSUME NEW e \in Executions, Release(e)
      PROVE  [Promise!Next]_<<effects, answers>>
    BY <1>2, <1>3, <1>t DEF Release, Failed
<1>4. CASE Restart
    BY <1>2, <1>4, <1>t DEF Restart, Failed
<1>5. ASSUME NEW e \in Executions, Again(e)
      PROVE  [Promise!Next]_<<effects, answers>>
    <2>1. \A x \in Tops : x \notin Below(e)
        BY Parents
    <2> QED
        BY <1>0, <1>5, <1>t, <2>1 DEF Again, Failed
<1>6. ASSUME NEW e \in Executions,
             \/ Call(e) \/ Connect(e) \/ Begin(e) \/ Finish(e)
             \/ Rollback(e) \/ FailRollback(e)
             \/ \E err \in Error : Throw(e, err)
      PROVE  [Promise!Next]_<<effects, answers>>
    <2>1. Connect(e) => pc[e] = "connect"
        BY DEF Connect, QueueSound
    <2> QED
        BY <1>0, <1>6, <1>t, <2>1 DEF Call, Connect, Begin, Finish, Rollback,
                                         FailRollback, Throw, Failed
<1>8. ASSUME NEW e \in Executions, FailConnect(e) \/ FailBegin(e)
      PROVE  [Promise!Next]_<<effects, answers>>
    <2>1. pc[e] \in {"connect", "begin"}
        BY <1>8 DEF FailConnect, FailBegin, QueueSound
    <2> QED
        BY <1>2, <1>8, <1>t, <2>1 DEF FailConnect, FailBegin, Failed
<1>7. CASE UNCHANGED vars
    BY <1>0, <1>7 DEF vars
<1> QED
    BY <1>1, <1>3, <1>4, <1>5, <1>6, <1>7, <1>8 DEF Next, Step, Tops

\* Retries, lock conflicts, restarts and a lost COMMIT are invisible to a caller,
\* except that an error leaves open whether the transaction took effect.
THEOREM ProviderImplementsCommitOnce == Spec => KeepsPromise
<1>1. Inv /\ [Next]_vars => [Promise!Next]_<<effects, answers>>
    BY StepPromises
<1> QED
    BY InitPromises, <1>1, InvCorrect, PTL DEF Spec, KeepsPromise, Promise!Spec
=============================================================================
