-------------------------- MODULE ApplicationQuota --------------------------
(***************************************************************************)
(* Job applications and the candidates' application quota.                 *)
(*                                                                         *)
(* Two services share the work.  The applications service owns the         *)
(* application rows and runs handleCreateApplication (an "apply" request)  *)
(* and handleProcessApplications (a "review" request); the users service   *)
(* owns users.application_applied_count, the number of applications a      *)
(* candidate may still send, and changes it in handleUpdateUserLimit, the  *)
(* handler of the update-user-limit event that the first service emits.    *)
(* Every handler is an async function, so other handlers run at each of    *)
(* its awaits: one action is one stretch between two awaits that matter.   *)
(*                                                                         *)
(* A row of the reviewed tables is uncommitted while its transaction is    *)
(* open: review[v].writes are the rows a review has updated and so holds   *)
(* locked, and they reach "status" when it commits.                        *)
(***************************************************************************)
EXTENDS Integers, FiniteSets

CONSTANTS
    Candidates,     \* users whose role is candidate
    Jobs,           \* job postings
    Applies,        \* apply requests the gateway forwards, one identity each; a
                    \* row of the applications table is named after the request
                    \* that inserted it, and a request inserts at most one
    Reviews,        \* process-applications requests, one identity each
    Payers,         \* candidates that buy the premium package
    Workers,        \* update-user-limit handlers that may run at the same time
    Limit,          \* CANDIDATE_APPLICATION_LIMIT
    PremiumLimit,   \* CANDIDATE_PREMIUM_LIMIT
    MaxRetries,     \* executeTransaction's maxRetries
    ReviewScope,    \* ReviewScope[v]: the jobs whose applications v may decide
    Batches,        \* bound: the ids a review request may approve and reject
    None

ASSUME QuotaAssumption ==
    /\ IsFiniteSet(Applies) /\ IsFiniteSet(Reviews)
    /\ Payers \subseteq Candidates
    /\ Limit \in Nat
    /\ PremiumLimit \in Nat
    /\ Limit <= PremiumLimit
    /\ MaxRetries \in Nat \ {0}
    /\ ReviewScope \in [Reviews -> SUBSET Jobs]
    /\ None \notin Candidates \cup Jobs \cup Applies

VARIABLES
    status,       \* status[a]: the committed row's status; "none": no such row
    index,        \* index[a]: status in the search index; "none": no document
    accepting,    \* accepting[j]: open, approved and not past its expiry date
    count,        \* count[c]: users.application_applied_count
    apply,        \* apply[r]: progress of an apply request
    review,       \* review[v]: progress of a review request
    queue,        \* update-user-limit events the broker holds
    worker,       \* worker[w]: the event a handler is working on, what it read
    filed,        \* history: apply requests whose nested transaction committed
    emitted,      \* history: events handed to the broker
    handled,      \* history: events whose new count was committed
    upgraded      \* history: candidates whose update-premium was handled

vars == <<status, index, accepting, count, apply, review,
          queue, worker, filed, emitted, handled, upgraded>>

eventVars == <<queue, emitted>>
quotaVars == <<count, worker, handled, upgraded>>

-----------------------------------------------------------------------------
Decision == {"approved", "rejected"}
Status   == {"none", "pending", "approved", "rejected", "deleted"}

\* One update-user-limit event.  "origin" names the request that emitted it and
\* keeps two events with the same payload apart, as two messages are.
Event == [candidate: Candidates, type: {"decrease"}, origin: Applies]
         \cup [candidate: Candidates, type: {"increase"},
               origin: Reviews \X Applies]

ASSUME NoneIsNoEvent == None \notin Event

ApplyPc  == {"idle", "verify", "quota", "find", "upload", "file", "emit", "index",
             "done", "refused", "failed"}
ReviewPc == {"idle", "open", "loop", "commit", "done", "failed"}

Apply == [pc: ApplyPc, candidate: Candidates \cup {None},
          job: Jobs \cup {None}, row: Applies \cup {None},
          attempt: 0 .. MaxRetries - 1]

Review == [pc: ReviewPc, approve: SUBSET Applies, reject: SUBSET Applies,
           decision: Decision, todo: SUBSET Applies, writes: SUBSET Applies,
           snapshot: [Applies -> Status],
           attempt: 0 .. MaxRetries - 1, outer: 0 .. MaxRetries - 1]

Worker == [event: Event \cup {None}, seen: Int]

IdleApply  == [pc |-> "idle", candidate |-> None, job |-> None, row |-> None,
               attempt |-> 0]
NoSnapshot == [a \in Applies |-> "none"]
IdleWorker == [event |-> None, seen |-> 0]
IdleReview == [pc |-> "idle", approve |-> {}, reject |-> {},
               decision |-> "approved", todo |-> {}, writes |-> {},
               snapshot |-> NoSnapshot, attempt |-> 0, outer |-> 0]

Exists(a) == status[a] \in {"pending", "approved", "rejected"}

\* What a review keeps when its open transaction is rolled back or committed, and
\* what is left of a request that has ended.
Closed(rv)      == [rv EXCEPT !.todo = {}, !.writes = {}, !.snapshot = NoSnapshot]
EndedReview(pc) == [IdleReview EXCEPT !.pc = pc]
Ended(ap, pc)   == [ap EXCEPT !.pc = pc, !.row = None, !.attempt = 0]
Retried(ap)     == [ap EXCEPT !.pc = "verify", !.row = None, !.attempt = @ + 1]

\* Rows that satisfy handleCreateApplication's findOne.
Found(r) == {a \in Applies : /\ Exists(a)
                             /\ apply[a].candidate = apply[r].candidate
                             /\ apply[a].job = apply[r].job}

\* Row locks: a row updated inside an open transaction is locked until it ends.
LockedBy(v, a) == a \in review[v].writes
Unlocked(a)    == \A v \in Reviews : ~LockedBy(v, a)

-----------------------------------------------------------------------------
Init ==
    /\ status = [a \in Applies |-> "none"]
    /\ index = [a \in Applies |-> "none"]
    /\ accepting = [j \in Jobs |-> TRUE]
    /\ count = [c \in Candidates |-> Limit]
    /\ apply = [r \in Applies |-> IdleApply]
    /\ review = [v \in Reviews |-> IdleReview]
    /\ queue = {}
    /\ worker = [w \in Workers |-> IdleWorker]
    /\ filed = {}
    /\ emitted = {}
    /\ handled = {}
    /\ upgraded = {}

-----------------------------------------------------------------------------
(* handleCreateApplication, in the applications service.                   *)

Submit(r, c, j) ==
    /\ apply[r].pc = "idle"
    /\ apply' = [apply EXCEPT ![r].pc = "verify", ![r].candidate = c, ![r].job = j]
    /\ UNCHANGED <<status, index, accepting, quotaVars, review, eventVars, filed>>

\* The verify-job RPC: a closed, unapproved or expired job refuses the request.
VerifyJob(r) ==
    /\ apply[r].pc = "verify"
    /\ apply' = [apply EXCEPT ![r] = IF accepting[apply[r].job]
                                     THEN [@ EXCEPT !.pc = "quota"]
                                     ELSE Ended(@, "refused")]
    /\ UNCHANGED <<status, index, accepting, quotaVars, review, eventVars, filed>>

\* The get-user-jwt RPC and the gate "!user.application_applied_count", which
\* refuses zero and lets every other number through.
ReadQuota(r) ==
    /\ apply[r].pc = "quota"
    /\ apply' = [apply EXCEPT ![r] = IF count[apply[r].candidate] = 0
                                     THEN Ended(@, "refused")
                                     ELSE [@ EXCEPT !.pc = "find"]]
    /\ UNCHANGED <<status, index, accepting, quotaVars, review, eventVars, filed>>

\* findOne by candidate and job.  Of several rows the database returns any one.
FindExisting(r) ==
    /\ apply[r].pc = "find"
    /\ \/ /\ Found(r) = {}
          /\ apply' = [apply EXCEPT ![r].pc = "upload"]
       \/ \E a \in Found(r) :
             apply' = [apply EXCEPT ![r] =
                          IF status[a] = "rejected"
                          THEN [@ EXCEPT !.pc = "upload", !.row = a]
                          ELSE Ended(@, "refused")]
    /\ UNCHANGED <<status, index, accepting, quotaVars, review, eventVars, filed>>

\* The upload-files RPC, answered with the links or with an error.
Upload(r) ==
    /\ apply[r].pc = "upload"
    /\ \/ apply' = [apply EXCEPT ![r].pc = "file"]
       \/ apply' = [apply EXCEPT ![r] = Ended(@, "failed")]
    /\ UNCHANGED <<status, index, accepting, quotaVars, review, eventVars, filed>>

\* createApplication: a nested transaction of its own that inserts the row and
\* commits, whatever becomes of the surrounding one.
CreateRow(r) ==
    /\ apply[r].pc = "file"
    /\ apply[r].row = None
    /\ status' = [status EXCEPT ![r] = "pending"]
    /\ apply' = [apply EXCEPT ![r].pc = "emit", ![r].row = r]
    /\ filed' = filed \cup {r}
    /\ UNCHANGED <<index, accepting, quotaVars, review, eventVars>>

\* Mutation: an UPDATE that expects to find the row.
ReopenExistingRow(r) ==
    LET a == apply[r].row IN
    /\ apply[r].pc = "file"
    /\ a # None
    /\ Unlocked(a) /\ Exists(a)
    /\ status' = [status EXCEPT ![a] = "pending"]
    /\ apply' = [apply EXCEPT ![r].pc = "emit"]
    /\ filed' = filed \cup {r}
    /\ UNCHANGED <<index, accepting, quotaVars, review, eventVars>>

\* updateApplication: the same for a row found rejected; the UPDATE waits for
\* the row's lock and does not look at its status again.  If the row has been
\* deleted it changes nothing, and the handler goes on without an application.
ReopenRow(r) ==
    LET a == apply[r].row IN
    /\ apply[r].pc = "file"
    /\ a # None
    /\ Unlocked(a)
    /\ status' = [status EXCEPT ![a] = IF Exists(a) THEN "pending" ELSE @]
    /\ apply' = [apply EXCEPT ![r].pc = "emit",
                              ![r].row = IF Exists(a) THEN a ELSE None]
    /\ filed' = filed \cup {r}
    /\ UNCHANGED <<index, accepting, quotaVars, review,
                   eventVars>>

\* The lock does not come: ER_LOCK_WAIT_TIMEOUT ends the nested call after its
\* own retries, and the surrounding executeTransaction runs the handler again.
GiveUpReopen(r) ==
    /\ apply[r].pc = "file"
    /\ apply[r].row # None
    /\ ~Unlocked(apply[r].row)
    /\ apply' = [apply EXCEPT ![r] =
          IF apply[r].attempt < MaxRetries - 1 THEN Retried(@) ELSE Ended(@, "failed")]
    /\ UNCHANGED <<status, index, accepting, quotaVars, review, eventVars, filed>>

\* Mutation: the event is emitted before the application is stored.
EmitDecreaseFirst(r) ==
    LET e == [candidate |-> apply[r].candidate, type |-> "decrease", origin |-> r] IN
    /\ apply[r].pc = "upload"
    /\ queue' = queue \cup {e}
    /\ emitted' = emitted \cup {e}
    /\ apply' = [apply EXCEPT ![r].pc = "file"]
    /\ UNCHANGED <<status, index, accepting, quotaVars, review, filed>>

\* The decrease event, emitted after the nested commit; then the notification,
\* where the handler throws if the nested call found no row to return.
EmitDecrease(r) ==
    LET e == [candidate |-> apply[r].candidate, type |-> "decrease", origin |-> r] IN
    /\ apply[r].pc = "emit"
    /\ queue' = queue \cup {e}
    /\ emitted' = emitted \cup {e}
    /\ apply' = [apply EXCEPT ![r] = IF apply[r].row = None THEN Ended(@, "failed")
                                     ELSE [@ EXCEPT !.pc = "index"]]
    /\ UNCHANGED <<status, index, accepting, quotaVars, review, filed>>

\* Mutation: the index is written before the row.
IndexRowFirst(r) ==
    /\ apply[r].pc = "file"
    /\ index' = [index EXCEPT ![r] = "pending"]
    /\ UNCHANGED <<status, accepting, quotaVars, apply, review, eventVars, filed>>

\* Mutation: the row is read again for the document.
IndexRowAsRead(r) ==
    /\ apply[r].pc = "index"
    /\ index' = [index EXCEPT ![apply[r].row] = status[apply[r].row]]
    /\ apply' = [apply EXCEPT ![r] = Ended(@, "done")]
    /\ UNCHANGED <<status, accepting, quotaVars, review, eventVars, filed>>

\* The search index is written last, with the row as the nested transaction
\* returned it; a failure here fails the request and undoes nothing.
IndexRow(r) ==
    /\ apply[r].pc = "index"
    /\ \/ /\ index' = [index EXCEPT ![apply[r].row] = "pending"]
          /\ apply' = [apply EXCEPT ![r] = Ended(@, "done")]
       \/ /\ apply' = [apply EXCEPT ![r] = Ended(@, "failed")]
          /\ UNCHANGED index
    /\ UNCHANGED <<status, accepting, quotaVars, review, eventVars, filed>>

ApplyStep(r) ==
    \/ VerifyJob(r)
    \/ ReadQuota(r)
    \/ FindExisting(r)
    \/ Upload(r)
    \/ CreateRow(r)
    \/ ReopenRow(r)
    \/ GiveUpReopen(r)
    \/ EmitDecrease(r)
    \/ IndexRow(r)

-----------------------------------------------------------------------------
(* handleProcessApplications: the approved ids are decided in one nested   *)
(* transaction, then the rejected ids in a second one.                     *)

FirstDecision(yes) == IF yes # {} THEN "approved" ELSE "rejected"

StartReview(v, yes, no) ==
    /\ review[v].pc = "idle"
    /\ yes \cup no # {}
    /\ <<yes, no>> \in Batches
    /\ \A a \in yes \cup no : status[a] # "none"
    /\ review' = [review EXCEPT ![v].pc = "open", ![v].approve = yes,
                                ![v].reject = no,
                                ![v].decision = FirstDecision(yes)]
    /\ UNCHANGED <<status, index, accepting, quotaVars, apply, eventVars, filed>>

\* The first findOne of a nested transaction fixes what its reads will see.
OpenBatch(v) ==
    /\ review[v].pc = "open"
    /\ review' = [review EXCEPT
                     ![v].pc = "loop",
                     ![v].todo = IF review[v].decision = "approved"
                                 THEN review[v].approve ELSE review[v].reject,
                     ![v].snapshot = status]
    /\ UNCHANGED <<status, index, accepting, quotaVars, apply, eventVars, filed>>

\* A row that has the decision already is skipped.
SkipRow(v, a) ==
    /\ review[v].pc = "loop"
    /\ a \in review[v].todo
    /\ review[v].snapshot[a] = review[v].decision
    /\ review' = [review EXCEPT ![v].todo = @ \ {a}]
    /\ UNCHANGED <<status, index, accepting, quotaVars, apply, eventVars, filed>>

\* A missing row, or one the reviewer may not decide, throws: the nested
\* transaction rolls back, the surrounding one too, the other batch stands.
RejectBatch(v, a) ==
    /\ review[v].pc = "loop"
    /\ a \in review[v].todo
    /\ \/ review[v].snapshot[a] = "deleted"
       \/ /\ review[v].snapshot[a] # review[v].decision
          /\ apply[a].job \notin ReviewScope[v]
    /\ review' = [review EXCEPT ![v] = EndedReview("failed")]
    /\ UNCHANGED <<status, index, accepting, quotaVars, apply, eventVars, filed>>

\* A row the loop is about to update: found, undecided so far, in scope.
Wants(v, a) ==
    /\ review[v].pc = "loop"
    /\ a \in review[v].todo
    /\ review[v].snapshot[a] \in {"pending", "approved", "rejected"}
    /\ review[v].snapshot[a] # review[v].decision
    /\ apply[a].job \in ReviewScope[v]

\* The UPDATE of one row.  It waits for the row's lock, and sets the status
\* whatever another transaction has committed since the snapshot.
DecideRow(v, a) ==
    /\ Wants(v, a)
    /\ Unlocked(a)
    /\ review' = [review EXCEPT ![v].todo = @ \ {a}, ![v].writes = @ \cup {a}]
    /\ UNCHANGED <<status, index, accepting, quotaVars, apply, eventVars, filed>>

\* ER_LOCK_DEADLOCK or ER_LOCK_WAIT_TIMEOUT: executeTransaction rolls back and
\* tries again, first the nested call, then, that exhausted, the outer one, which
\* starts over with the approved ids.
Relocked(rv) ==
    LET closed == Closed(rv) IN
    IF closed.attempt < MaxRetries - 1
    THEN [closed EXCEPT !.pc = "open", !.attempt = @ + 1]
    ELSE IF closed.outer < MaxRetries - 1
         THEN [closed EXCEPT !.pc = "open", !.attempt = 0, !.outer = @ + 1,
                             !.decision = FirstDecision(closed.approve)]
         ELSE EndedReview("failed")

LoseLock(v, a) ==
    /\ Wants(v, a)
    /\ ~Unlocked(a)
    /\ review' = [review EXCEPT ![v] = Relocked(@)]
    /\ UNCHANGED <<status, index, accepting, quotaVars, apply, eventVars, filed>>

\* Mutation: only applications that were pending are refunded.
EmitDecisionOfPending(v) ==
    LET refunded == {a \in review[v].writes : /\ review[v].decision = "rejected"
                                              /\ review[v].snapshot[a] = "pending"}
        events == {[candidate |-> apply[a].candidate, type |-> "increase",
                    origin |-> <<v, a>>] : a \in refunded} IN
    /\ review[v].pc = "loop"
    /\ review[v].todo = {}
    /\ queue' = queue \cup events
    /\ emitted' = emitted \cup events
    /\ review' = [review EXCEPT ![v].pc = "commit"]
    /\ UNCHANGED <<status, index, accepting, quotaVars, apply, filed>>

\* After the loop, before the commit: one increase event for every row that was
\* decided "rejected".
EmitDecision(v) ==
    LET refunded == IF review[v].decision = "rejected" THEN review[v].writes ELSE {}
        events == {[candidate |-> apply[a].candidate, type |-> "increase",
                    origin |-> <<v, a>>] : a \in refunded} IN
    /\ review[v].pc = "loop"
    /\ review[v].todo = {}
    /\ queue' = queue \cup events
    /\ emitted' = emitted \cup events
    /\ review' = [review EXCEPT ![v].pc = "commit"]
    /\ UNCHANGED <<status, index, accepting, quotaVars, apply, filed>>

\* Mutation: the second batch is run with the first one's decision.
SameBatchAgain(rv) ==
    IF rv.decision = "approved" /\ rv.reject # {}
    THEN [Closed(rv) EXCEPT !.attempt = 0, !.pc = "open"]
    ELSE EndedReview("done")

\* After an approved batch comes the rejected one, then the request ends.
NextBatch(rv) ==
    IF rv.decision = "approved" /\ rv.reject # {}
    THEN [Closed(rv) EXCEPT !.attempt = 0, !.pc = "open", !.decision = "rejected"]
    ELSE EndedReview("done")

\* COMMIT, then the next batch or the end of the request.
CommitBatch(v) ==
    LET rv == review[v] IN
    /\ rv.pc = "commit"
    /\ status' = [a \in Applies |-> IF a \in rv.writes /\ Exists(a)
                                   THEN rv.decision ELSE status[a]]
    /\ review' = [review EXCEPT ![v] = NextBatch(@)]
    /\ UNCHANGED <<index, accepting, quotaVars, apply, eventVars, filed>>

ReviewStep(v) ==
    \/ OpenBatch(v)
    \/ \E a \in Applies : \/ SkipRow(v, a)
                         \/ RejectBatch(v, a)
                         \/ DecideRow(v, a)
                         \/ LoseLock(v, a)
    \/ EmitDecision(v)
    \/ CommitBatch(v)

-----------------------------------------------------------------------------
(* The users service.                                                      *)

\* handleUpdateUserLimit reads the user without a lock ...
ReadCount(w, e) ==
    /\ worker[w].event = None
    /\ e \in queue
    /\ queue' = queue \ {e}
    /\ worker' = [worker EXCEPT ![w] = [event |-> e, seen |-> count[e.candidate]]]
    /\ UNCHANGED <<status, index, accepting, count, handled, upgraded, apply,
                   review, emitted, filed>>

\* ... and writes what it read plus or minus one.
WriteCount(w) ==
    LET e == worker[w].event
        delta == IF e.type = "increase" THEN 1 ELSE -1 IN
    /\ e # None
    /\ count' = [count EXCEPT ![e.candidate] = worker[w].seen + delta]
    /\ handled' = handled \cup {e}
    /\ worker' = [worker EXCEPT ![w] = IdleWorker]
    /\ UNCHANGED <<status, index, accepting, upgraded, apply, review, eventVars, filed>>

\* Mutation: the premium quota is added to what is left.
AddPremium(c) ==
    /\ c \in Payers \ upgraded
    /\ count' = [count EXCEPT ![c] = @ + PremiumLimit]
    /\ upgraded' = upgraded \cup {c}
    /\ UNCHANGED <<status, index, accepting, worker, handled, apply, review,
                   eventVars, filed>>

\* handleUpdatePremium refills the quota of a candidate that has paid.  (Its
\* other effects are modelled in the payments module.)
UpgradePremium(c) ==
    /\ c \in Payers \ upgraded
    /\ count' = [count EXCEPT ![c] = PremiumLimit]
    /\ upgraded' = upgraded \cup {c}
    /\ UNCHANGED <<status, index, accepting, worker, handled, apply, review,
                   eventVars, filed>>

-----------------------------------------------------------------------------
(* What else changes this state.                                           *)

\* A recruiter or the nightly job closes the posting, or it is edited and waits
\* for a new approval.
CloseJob(j) ==
    /\ accepting[j]
    /\ accepting' = [accepting EXCEPT ![j] = FALSE]
    /\ UNCHANGED <<status, index, quotaVars, apply, review, eventVars, filed>>

\* handleDeleteUserFromApplication: the row goes, its search document and the
\* candidate's quota stay as they are.
RemoveApplication(a) ==
    /\ Exists(a)
    /\ Unlocked(a)
    /\ status' = [status EXCEPT ![a] = "deleted"]
    /\ UNCHANGED <<index, accepting, quotaVars, apply, review,
                   eventVars, filed>>

\* The applications service restarts: requests in progress are gone, their open
\* transactions roll back, and onModuleInit indexes every row again.
RestartApplications ==
    /\ \/ \E r \in Applies : apply[r].pc \notin {"idle", "done", "refused", "failed"}
       \/ \E v \in Reviews : review[v].pc \notin {"idle", "done", "failed"}
    /\ apply' = [r \in Applies |->
                    IF apply[r].pc \in {"idle", "done", "refused"} THEN apply[r]
                    ELSE Ended(apply[r], "failed")]
    /\ review' = [v \in Reviews |->
                    IF review[v].pc \in {"idle", "done"} THEN review[v]
                    ELSE EndedReview("failed")]
    /\ index' = [a \in Applies |-> IF Exists(a) THEN status[a] ELSE index[a]]
    /\ UNCHANGED <<status, accepting, quotaVars, eventVars, filed>>

\* The users service restarts: queues do not acknowledge, so the events its
\* handlers had taken are lost.
RestartUsers ==
    /\ \E w \in Workers : worker[w].event # None
    /\ worker' = [w \in Workers |-> IdleWorker]
    /\ UNCHANGED <<status, index, accepting, count, handled, upgraded, apply,
                   review, eventVars, filed>>

-----------------------------------------------------------------------------
Next ==
    \/ \E r \in Applies :
          \/ \E c \in Candidates, j \in Jobs : Submit(r, c, j)
          \/ ApplyStep(r)
    \/ \E v \in Reviews :
          \/ \E yes, no \in SUBSET Applies : StartReview(v, yes, no)
          \/ ReviewStep(v)
    \/ \E w \in Workers : WriteCount(w) \/ \E e \in queue : ReadCount(w, e)
    \/ \E c \in Candidates : UpgradePremium(c)
    \/ \E j \in Jobs : CloseJob(j)
    \/ \E a \in Applies : RemoveApplication(a)
    \/ RestartApplications
    \/ RestartUsers

Spec == Init /\ [][Next]_vars

\* Node resumes a handler when the answer it awaits arrives, and the broker hands
\* every queued event to the users service.  Nobody has to submit, review, pay,
\* close a job, remove an application or restart a service.
Fairness ==
    /\ \A r \in Applies : WF_vars(ApplyStep(r))
    /\ \A v \in Reviews : WF_vars(ReviewStep(v))
    /\ \A w \in Workers : WF_vars(WriteCount(w))
    /\ WF_vars(\E w \in Workers, e \in queue : ReadCount(w, e))

FairSpec == Spec /\ Fairness

-----------------------------------------------------------------------------
(* Properties.                                                             *)

\* Every variable keeps the shape of what the code stores in it.
TypeOK ==
    /\ status \in [Applies -> Status]
    /\ index \in [Applies -> Status \ {"deleted"}]
    /\ accepting \in [Jobs -> BOOLEAN]
    /\ count \in [Candidates -> Int]
    /\ apply \in [Applies -> Apply]
    /\ review \in [Reviews -> Review]
    /\ queue \subseteq Event
    /\ worker \in [Workers -> Worker]
    /\ filed \subseteq Applies
    /\ emitted \subseteq Event
    /\ handled \subseteq Event
    /\ upgraded \subseteq Candidates

FiledBy(c)     == {r \in filed : apply[r].candidate = c}
RefundsOf(c)   == {e \in handled : e.type = "increase" /\ e.candidate = c}
BaseLimit(c)   == IF c \in upgraded THEN PremiumLimit ELSE Limit

\* A candidate is never charged more than once for an application that was
\* filed: however events are handled at the same time, lost or delayed, the
\* count stays at or above the limit minus the requests whose nested transaction
\* committed. (To file again an application whose row has been deleted since it was
\* read stores nothing, and is charged.)
NeverOvercharged ==
    \A c \in Candidates : count[c] >= Limit - Cardinality(FiledBy(c))

\* And never credited twice for one refund: the count stays at or below the limit
\* (the premium limit once premium was handled) plus the refunds handled.
NeverOvercredited ==
    \A c \in Candidates : count[c] <= BaseLimit(c) + Cardinality(RefundsOf(c))

\* A rejected application has been refunded: handleGenerateProcessApplications
\* emits the increase event before it commits the status, so no crash can leave
\* a rejection without the event.
RejectionIsRefunded ==
    \A a \in Applies : status[a] = "rejected" =>
        \E v \in Reviews : [candidate |-> apply[a].candidate, type |-> "increase",
                            origin |-> <<v, a>>] \in emitted

\* The search index has no document of an application whose row was never stored:
\* the document is written after the nested transaction has committed the row.
IndexFollowsRows ==
    \A a \in Applies : index[a] # "none" => status[a] # "none"

\* Every apply request ends: lock waits end by timeout and retries are bounded.
ApplyEnds == []<>(\A r \in Applies : apply[r].pc \in {"idle", "done", "refused", "failed"})

\* Every review request ends, although two of them can lock each other's rows.
ReviewEnds == []<>(\A v \in Reviews : review[v].pc \in {"idle", "done", "failed"})

\* What the refusal "No more applications allowed." says: without a refund or a
\* premium package, at most Limit applications of a candidate are stored.
WithinLimit ==
    \A c \in Candidates :
        (c \notin upgraded /\ RefundsOf(c) = {}) => Cardinality(FiledBy(c)) <= Limit
=============================================================================
