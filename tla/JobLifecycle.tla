---------------------------- MODULE JobLifecycle ----------------------------
(***************************************************************************)
(* Job postings of the jobs service: a recruiter creates, updates and      *)
(* deletes them, an administrator approves or rejects them, and a cron job *)
(* closes the expired ones.  Every handler is one transaction on MySQL:    *)
(* its reads come from the snapshot of its first read, overlaid with what  *)
(* it has written itself, its UPDATEs lock a row and change the last       *)
(* committed version of it.  Notifications and the search index are written*)
(* inside the transaction and stay when it is rolled back.                 *)
(*                                                                         *)
(* A content stands for what the recruiter typed; the jobs are those of one*)
(* recruiter; a deadline (expired_at) is a day.                            *)
(***************************************************************************)
EXTENDS Integers, FiniteSets

CONSTANTS
    Jobs,          \* job ids
    Requests,      \* requests of recruiters and administrators
    Rank,          \* Rank[j]: the order in which a SELECT returns the jobs
    Crons,         \* the registrations of the cron job: main.ts makes two
    Contents,      \* contents of a posting
    Edits,         \* bound: what the update requests of a run provide
    Rows,          \* bound: the rows earlier requests may have left
    MaxDay,        \* bound: the days of a run
    MaxFailures,   \* bound: transactions that fail for an outside reason
    MaxRetries,    \* maxRetries of executeTransaction
    JobLimit,      \* job_posted_count of the recruiter, which nothing decreases
    Unwritten,     \* a transaction has not written a row
    None           \* a row, a document or a field that is not there

ASSUME JobAssumption ==
    /\ MaxDay \in Nat /\ MaxFailures \in Nat /\ JobLimit \in Nat
    /\ MaxRetries \in Nat \ {0}
    /\ Requests \cap Crons = {}
    /\ Rank \in [Jobs -> Nat] /\ \A j, k \in Jobs : Rank[j] = Rank[k] => j = k
    /\ None \notin Jobs \cup Contents \cup {"open", "closed"}

VARIABLES
    now,        \* the day
    row,        \* row[j]: the committed row of j, or None
    doc,        \* doc[j]: the content in j's document in the index, or None
    born,       \* the ids that were given to a job
    tx,         \* tx[t]: the transaction of request or cron t
    notices,    \* the notifications that were sent
    failures

vars == <<now, row, doc, born, tx, notices, failures>>

Tx     == Requests \cup Crons
Days   == 0 .. MaxDay + 1
Row    == [status : {"open", "closed"}, approved : BOOLEAN, cancelled : BOOLEAN,
           deadline : Days, content : Contents]
Notice == {"approved", "rejected", "expired", "recommended"} \X Jobs

\* UpdateJobDto: None stands for a field that is left out; requirement says that
\* the request names a requirement the job does not have.
Edit   == [content : Contents \cup {None}, status : {"open", "closed", None},
           deadline : Days \cup {None}, requirement : BOOLEAN]
NoEdit == [content |-> None, status |-> None, deadline |-> None, requirement |-> FALSE]

ASSUME BoundsAssumption == Edits \subseteq Edit \ {NoEdit} /\ Rows \subseteq Row
ASSUME ValuesDiffer == None \notin Row /\ Unwritten \notin Row \cup {None}

Kind      == {"create", "process", "update", "delete", "expire"}
Ended     == {"idle", "done", "refused", "failed"}
Pc        == Ended \cup {"begin", "insert", "approve", "recommend", "reject", "change",
                         "restore", "index", "drop", "erase", "close", "commit"}

ASSUME KindAssumption == None \notin Kind

Untouched == [j \in Jobs |-> Unwritten]
NoRows    == [j \in Jobs |-> None]
NoTx      == [pc |-> "idle", kind |-> None, job |-> None, edit |-> NoEdit,
              approve |-> {}, reject |-> {}, todo |-> {}, day |-> 0, attempt |-> 0,
              snap |-> NoRows, own |-> Untouched]

\* What earlier requests may have left: any jobs, in the index, with the
\* notifications of what was decided.
Init ==
    /\ now = 0
    /\ row \in [Jobs -> Rows \cup {None}]
    /\ doc = [j \in Jobs |-> IF row[j] = None THEN None ELSE row[j].content]
    /\ born = {j \in Jobs : row[j] # None}
    /\ tx = [t \in Tx |-> NoTx]
    /\ notices = {<<"approved", j>> : j \in {i \in born : row[i].approved}}
                 \cup {<<"rejected", j>> : j \in {i \in born : row[i].cancelled}}
    /\ failures = 0

-----------------------------------------------------------------------------
(* Transactions.                                                           *)

\* Row j as a SELECT of t shows it, and as an UPDATE of t finds it.
View(t, j)    == IF tx[t].own[j] = Unwritten THEN tx[t].snap[j] ELSE tx[t].own[j]
Current(t, j) == IF tx[t].own[j] = Unwritten THEN row[j] ELSE tx[t].own[j]

\* Another transaction has written j and not ended: an UPDATE of t waits for it.
Locked(t, j) == \E s \in Tx \ {t} : tx[s].own[j] # Unwritten

\* UPDATE ... WHERE id = j changes the row there is, or nothing.
Written(t, j, new) ==
    [tx[t].own EXCEPT ![j] = IF Current(t, j) = None THEN tx[t].own[j] ELSE new]

Over(t, pc) == [NoTx EXCEPT !.pc = IF t \in Crons THEN "idle" ELSE pc]

\* The handler throws: the transaction is rolled back and nothing else is.
Refuse(t) ==
    /\ tx' = [tx EXCEPT ![t] = Over(t, "refused")]
    /\ UNCHANGED <<now, row, doc, born, notices, failures>>

\* Mutation: the cron job looks for the jobs of the day only.
DueThatDay(x, day) == x # None /\ x.status = "open" /\ x.deadline = day

\* What the cron job looks for: status: 'open', expired_at: LessThan(now).
Due(x, day) == x # None /\ x.status = "open" /\ x.deadline < day

\* The first statement: it takes the snapshot.
FirstPc(t) == CASE tx[t].kind = "create" -> "insert"
                [] tx[t].kind = "update" -> "change"
                [] tx[t].kind = "delete" -> "drop"
                [] tx[t].kind = "expire" -> "close"
                [] tx[t].kind = "process" ->
                      IF tx[t].approve # {} THEN "approve" ELSE "reject"

FirstTodo(t) == IF tx[t].kind = "expire" THEN {j \in Jobs : Due(row[j], tx[t].day)}
                ELSE IF tx[t].approve # {} THEN tx[t].approve ELSE tx[t].reject

Read(t) ==
    /\ tx[t].pc = "begin"
    /\ tx' = [tx EXCEPT ![t] = [tx[t] EXCEPT !.snap = row, !.pc = FirstPc(t),
                                             !.todo = FirstTodo(t)]]
    /\ UNCHANGED <<now, row, doc, born, notices, failures>>

Commit(t) ==
    /\ tx[t].pc = "commit"
    /\ row' = [j \in Jobs |-> Current(t, j)]
    /\ tx' = [tx EXCEPT ![t] = Over(t, "done")]
    /\ UNCHANGED <<now, doc, born, notices, failures>>

\* The connection, the index or the service is lost in the middle of t.
Fail(t) ==
    /\ tx[t].pc \notin Ended
    /\ failures < MaxFailures
    /\ failures' = failures + 1
    /\ tx' = [tx EXCEPT ![t] = Over(t, "failed")]
    /\ UNCHANGED <<now, row, doc, born, notices>>

\* The rows t's next statement may have to lock.
Wanted(t) == CASE tx[t].pc \in {"approve", "reject"}          -> tx[t].todo
               [] tx[t].pc = "close" -> {j \in tx[t].todo :
                                           \A k \in tx[t].todo : Rank[j] <= Rank[k]}
               [] tx[t].pc \in {"change", "erase"}            -> {tx[t].job}
               [] OTHER                                       -> {}

\* Mutation: a lock is waited for until it is free.
WaitForever(t) == FALSE /\ UNCHANGED vars

\* Mutation: one attempt too many.
ConflictOnceMore(t) ==
    /\ \E j \in Wanted(t) : Locked(t, j)
    /\ tx' = [tx EXCEPT ![t] =
         IF tx[t].attempt < MaxRetries
         THEN [tx[t] EXCEPT !.pc = "begin", !.attempt = tx[t].attempt + 1, !.todo = {},
                            !.snap = NoRows, !.own = Untouched]
         ELSE Over(t, "failed")]
    /\ UNCHANGED <<now, row, doc, born, notices, failures>>

\* A lock wait that ends in a deadlock or a timeout: once more, or an error.
Conflict(t) ==
    /\ \E j \in Wanted(t) : Locked(t, j)
    /\ tx' = [tx EXCEPT ![t] =
         IF tx[t].attempt < MaxRetries - 1
         THEN [tx[t] EXCEPT !.pc = "begin", !.attempt = tx[t].attempt + 1, !.todo = {},
                            !.snap = NoRows, !.own = Untouched]
         ELSE Over(t, "failed")]
    /\ UNCHANGED <<now, row, doc, born, notices, failures>>

-----------------------------------------------------------------------------
(* handleCreateJob                                                         *)

AskCreate(r) ==
    /\ tx[r].pc = "idle"
    /\ JobLimit # 0
    /\ \E c \in Contents, d \in now .. MaxDay + 1, j \in Jobs \ born :
         /\ born' = born \cup {j}
         /\ tx' = [tx EXCEPT ![r] = [tx[r] EXCEPT
                      !.pc = "begin", !.kind = "create", !.job = j,
                      !.edit = [NoEdit EXCEPT !.content = c, !.deadline = d]]]
    /\ UNCHANGED <<now, row, doc, notices, failures>>

\* "This job has been posted by you": refused if the recruiter has such a job.
Posted(r) == \E k \in Jobs : /\ View(r, k) # None
                             /\ View(r, k).content = tx[r].edit.content

NewRow(e) == [status |-> "open", approved |-> FALSE, cancelled |-> FALSE,
              deadline |-> e.deadline, content |-> e.content]

Insert(r) ==
    /\ tx[r].pc = "insert"
    /\ IF Posted(r) THEN Refuse(r)
       ELSE /\ tx' = [tx EXCEPT ![r] = [tx[r] EXCEPT
                         !.own = [tx[r].own EXCEPT ![tx[r].job] = NewRow(tx[r].edit)],
                         !.pc = "index"]]
            /\ UNCHANGED <<now, row, doc, born, notices, failures>>

\* The document is written before the commit, in create and in update.
Index(r) ==
    /\ tx[r].pc = "index"
    /\ doc' = [doc EXCEPT ![tx[r].job] = View(r, tx[r].job).content]
    /\ tx' = [tx EXCEPT ![r].pc = "commit"]
    /\ UNCHANGED <<now, row, born, notices, failures>>

-----------------------------------------------------------------------------
(* handleProcessJobs                                                       *)

AskProcess(r) ==
    /\ tx[r].pc = "idle"
    /\ \E A, R \in SUBSET Jobs :
         /\ A \cup R # {}
         /\ tx' = [tx EXCEPT ![r] = [tx[r] EXCEPT !.pc = "begin", !.kind = "process",
                                                  !.approve = A, !.reject = R]]
    /\ UNCHANGED <<now, row, doc, born, notices, failures>>

\* "has already been processed and cannot be processed again"
Processed(x) == x.approved \/ x.cancelled

\* Mutation: a rejected job is one that is not approved.
DecidableByFlag(r, j) == View(r, j) # None /\ ~View(r, j).approved

Decidable(r, j) == View(r, j) # None /\ ~Processed(View(r, j))

Approved(x) == [x EXCEPT !.approved = TRUE]

\* One pass of the first loop: check the row, update it.
Approve(r) ==
    /\ tx[r].pc = "approve"
    /\ \E j \in tx[r].todo :
         IF ~Decidable(r, j) THEN Refuse(r)
         ELSE /\ ~Locked(r, j)
              /\ tx' = [tx EXCEPT ![r] = [tx[r] EXCEPT
                   !.own = Written(r, j, Approved(Current(r, j))),
                   !.todo = tx[r].todo \ {j}]]
              /\ UNCHANGED <<now, row, doc, born, notices, failures>>

\* JOB_APPROVED goes to the recruiters once the first loop is through.
AnnounceApproved(r) ==
    /\ tx[r].pc = "approve"
    /\ tx[r].todo = {}
    /\ notices' = notices \cup ({"approved"} \X tx[r].approve)
    /\ tx' = [tx EXCEPT ![r] = [tx[r] EXCEPT !.pc = "recommend", !.todo = tx[r].approve]]
    /\ UNCHANGED <<now, row, doc, born, failures>>

\* The users service answers, and RECOMMENDED_JOB goes to the matching users.
Recommend(r) ==
    /\ tx[r].pc = "recommend"
    /\ \E j \in tx[r].todo :
         /\ notices' \in {notices, notices \cup {<<"recommended", j>>}}
         /\ tx' = [tx EXCEPT ![r] = [tx[r] EXCEPT
              !.todo = IF tx[r].todo = {j} THEN tx[r].reject ELSE tx[r].todo \ {j},
              !.pc = IF tx[r].todo = {j} THEN "reject" ELSE "recommend"]]
    /\ UNCHANGED <<now, row, doc, born, failures>>

Rejected(x) == [x EXCEPT !.approved = FALSE, !.cancelled = TRUE]

\* One pass of the second loop.
Reject(r) ==
    /\ tx[r].pc = "reject"
    /\ \E j \in tx[r].todo :
         IF ~Decidable(r, j) THEN Refuse(r)
         ELSE /\ ~Locked(r, j)
              /\ tx' = [tx EXCEPT ![r] = [tx[r] EXCEPT
                   !.own = Written(r, j, Rejected(Current(r, j))),
                   !.todo = tx[r].todo \ {j}]]
              /\ UNCHANGED <<now, row, doc, born, notices, failures>>

\* Mutation: the second block sends what the first one has prepared.
AnnounceApprovedAgain(r) ==
    /\ tx[r].pc = "reject"
    /\ tx[r].todo = {}
    /\ notices' = notices \cup ({"approved"} \X tx[r].reject)
    /\ tx' = [tx EXCEPT ![r].pc = "commit"]
    /\ UNCHANGED <<now, row, doc, born, failures>>

\* JOB_REJECTED, and the handler returns.
AnnounceRejected(r) ==
    /\ tx[r].pc = "reject"
    /\ tx[r].todo = {}
    /\ notices' = notices \cup ({"rejected"} \X tx[r].reject)
    /\ tx' = [tx EXCEPT ![r].pc = "commit"]
    /\ UNCHANGED <<now, row, doc, born, failures>>

-----------------------------------------------------------------------------
(* handleUpdateJob                                                         *)

AskUpdate(r) ==
    /\ tx[r].pc = "idle"
    /\ \E j \in born, e \in Edits :
         tx' = [tx EXCEPT ![r] = [tx[r] EXCEPT !.pc = "begin", !.kind = "update",
                                               !.job = j, !.edit = e]]
    /\ UNCHANGED <<now, row, doc, born, notices, failures>>

\* The job exists, the new deadline is ahead, and the status is another one.
Editable(r, e, x) ==
    /\ x # None
    /\ e.deadline # None => e.deadline >= now
    /\ e.status # x.status

\* {...res, is_approved: false}: cancel_reason and cancelled_by stay.
Edited(x, e) ==
    [x EXCEPT !.content  = IF e.content = None THEN x.content ELSE e.content,
              !.status   = IF e.status = None THEN x.status ELSE e.status,
              !.deadline = IF e.deadline = None THEN x.deadline ELSE e.deadline,
              !.approved = FALSE]

Change(r) ==
    /\ tx[r].pc = "change"
    /\ LET j == tx[r].job  e == tx[r].edit
       IN  IF ~Editable(r, e, View(r, j)) THEN Refuse(r)
           ELSE /\ ~Locked(r, j)
                /\ tx' = [tx EXCEPT ![r] = [tx[r] EXCEPT
                     !.own = Written(r, j, Edited(Current(r, j), e)),
                     !.pc = IF e.requirement THEN "restore" ELSE "index"]]
                /\ UNCHANGED <<now, row, doc, born, notices, failures>>

\* A requirement the job did not have: job.requirements.push, then save(job) of
\* the entity that was read before the UPDATE.  It writes back every column that
\* differs from the row, and fails on the foreign key if the job is gone.
Restore(r) ==
    /\ tx[r].pc = "restore"
    /\ IF tx[r].own[tx[r].job] = Unwritten THEN Refuse(r)
       ELSE /\ tx' = [tx EXCEPT ![r] = [tx[r] EXCEPT
                         !.own = Written(r, tx[r].job, tx[r].snap[tx[r].job]),
                         !.pc = "index"]]
            /\ UNCHANGED <<now, row, doc, born, notices, failures>>

-----------------------------------------------------------------------------
(* handleDeleteJob                                                         *)

AskDelete(r) ==
    /\ tx[r].pc = "idle"
    /\ \E j \in born :
         tx' = [tx EXCEPT ![r] = [tx[r] EXCEPT !.pc = "begin", !.kind = "delete", !.job = j]]
    /\ UNCHANGED <<now, row, doc, born, notices, failures>>

\* The document goes first; a document that is not there is an error (404).
Drop(r) ==
    /\ tx[r].pc = "drop"
    /\ IF View(r, tx[r].job) = None \/ doc[tx[r].job] = None THEN Refuse(r)
       ELSE /\ doc' = [doc EXCEPT ![tx[r].job] = None]
            /\ tx' = [tx EXCEPT ![r].pc = "erase"]
            /\ UNCHANGED <<now, row, born, notices, failures>>

Erase(r) ==
    /\ tx[r].pc = "erase"
    /\ ~Locked(r, tx[r].job)
    /\ tx' = [tx EXCEPT ![r] = [tx[r] EXCEPT !.own = Written(r, tx[r].job, None),
                                             !.pc = "commit"]]
    /\ UNCHANGED <<now, row, doc, born, notices, failures>>

-----------------------------------------------------------------------------
(* handleUpdateExpiredJobs                                                 *)

Midnight(c) ==
    /\ tx[c].pc = "idle"
    /\ tx' = [tx EXCEPT ![c] = [tx[c] EXCEPT !.pc = "begin", !.kind = "expire", !.day = now]]
    /\ UNCHANGED <<now, row, doc, born, notices, failures>>

\* The jobs the cron job has found: those its snapshot shows open and expired.
Expired(c) == {j \in Jobs : Due(tx[c].snap[j], tx[c].day)}

Closed(x) == [x EXCEPT !.status = "closed"]

\* One pass of the loop over the jobs found, which both cron jobs find in the same
\* order: save(job) of an entity of the same snapshot, where only the status differs.
Close(c) ==
    /\ tx[c].pc = "close"
    /\ \E j \in tx[c].todo :
         /\ \A k \in tx[c].todo : Rank[j] <= Rank[k]
         /\ ~Locked(c, j)
         /\ tx' = [tx EXCEPT ![c] = [tx[c] EXCEPT
              !.own = Written(c, j, Closed(Current(c, j))),
              !.todo = tx[c].todo \ {j}]]
    /\ UNCHANGED <<now, row, doc, born, notices, failures>>

\* Mutation: the recruiters are not told.
CloseQuietly(c) ==
    /\ tx[c].pc = "close"
    /\ tx[c].todo = {}
    /\ tx' = [tx EXCEPT ![c].pc = "commit"]
    /\ UNCHANGED <<now, row, doc, born, notices, failures>>

\* JOB_EXPIRED, one notification to the recruiters of all the jobs found.
AnnounceExpired(c) ==
    /\ tx[c].pc = "close"
    /\ tx[c].todo = {}
    /\ notices' = notices \cup ({"expired"} \X Expired(c))
    /\ tx' = [tx EXCEPT ![c].pc = "commit"]
    /\ UNCHANGED <<now, row, doc, born, failures>>

Tick ==
    /\ now < MaxDay
    /\ now' = now + 1
    /\ UNCHANGED <<row, doc, born, tx, notices, failures>>

-----------------------------------------------------------------------------
Step(t) ==
    \/ Read(t)
    \/ Insert(t) \/ Index(t)
    \/ Approve(t) \/ AnnounceApproved(t) \/ Recommend(t)
    \/ Reject(t) \/ AnnounceRejected(t)
    \/ Change(t) \/ Restore(t)
    \/ Drop(t) \/ Erase(t)
    \/ Close(t) \/ AnnounceExpired(t)
    \/ Conflict(t) \/ Commit(t)

Next ==
    \/ \E r \in Requests : AskCreate(r) \/ AskProcess(r) \/ AskUpdate(r) \/ AskDelete(r)
    \/ \E c \in Crons : Midnight(c)
    \/ \E t \in Tx : Step(t) \/ Fail(t)
    \/ Tick

Spec == Init /\ [][Next]_vars

\* A handler that runs goes on: its awaits end, a lock wait by a timeout.  The
\* cron job starts every midnight.  Nobody has to ask, fail, or let a day pass.
FairSpec == /\ Spec
            /\ \A t \in Tx : WF_vars(Step(t))
            /\ \A c \in Crons : WF_vars(Midnight(c))

-----------------------------------------------------------------------------
(* Properties.                                                             *)

\* Every variable keeps the shape of what the code stores in it.
TypeOK ==
    /\ now \in 0 .. MaxDay
    /\ row \in [Jobs -> Row \cup {None}]
    /\ doc \in [Jobs -> Contents \cup {None}]
    /\ born \in SUBSET Jobs
    /\ tx \in [Tx -> [pc : Pc,
                     kind : Kind \cup {None},
                     job : Jobs \cup {None}, edit : Edit, approve : SUBSET Jobs,
                     reject : SUBSET Jobs, todo : SUBSET Jobs, day : 0 .. MaxDay,
                     attempt : 0 .. MaxRetries - 1,
                     snap : [Jobs -> Row \cup {None}],
                     own : [Jobs -> Row \cup {None, Unwritten}]]]
    /\ notices \in SUBSET Notice
    /\ failures \in 0 .. MaxFailures

\* Whoever looks at a decided job can have read of it: the recruiter is told of an
\* approval and of a rejection before it takes effect, whatever transactions
\* overlap, are retried, or write back what they have read earlier.
DecisionsAnnounced ==
    \A j \in Jobs : row[j] # None =>
        /\ row[j].approved => <<"approved", j>> \in notices
        /\ row[j].cancelled => <<"rejected", j>> \in notices

\* No job is closed behind its recruiter's back: a row that was open is committed
\* as closed only by a cron job whose own snapshot showed it open past its deadline
\* and whose recruiter has been told that it expired, or by an update that asks for
\* it or writes back the status it has read. (The deadline may have been extended,
\* or the job reopened, after that snapshot.)
ClosingIsExplained ==
    [][\A j \in Jobs :
          (/\ row[j] # None /\ row'[j] # None
           /\ row[j].status = "open" /\ row'[j].status = "closed")
          => \/ \E c \in Crons :
                   /\ tx[c].pc = "commit" /\ tx'[c].pc # "commit"
                   /\ j \in Expired(c) /\ <<"expired", j>> \in notices
             \/ \E r \in Requests :
                   /\ tx[r].pc = "commit" /\ tx'[r].pc # "commit"
                   /\ tx[r].kind = "update" /\ tx[r].job = j
                   /\ \/ tx[r].edit.status = "closed"
                      \/ tx[r].snap[j].status = "closed"]_vars

\* Every request is answered, although two of them can hold each other's rows.
RequestsEnd ==
    []<>(\A r \in Requests : tx[r].pc \in {"idle", "done", "refused", "failed"})

\* A job does not stay open after its deadline, whatever the requests, the lock
\* conflicts and the failures of one night do to the cron job.
ExpiredJobsClose ==
    \A j \in Jobs :
        (row[j] # None /\ row[j].status = "open" /\ row[j].deadline < now)
        ~> (row[j] = None \/ row[j].status = "closed" \/ row[j].deadline >= now)

\* "has already been processed and cannot be processed again": a decision may
\* replace another one only if that one was committed after the request began; a
\* request never takes back what it could read, retried or not.
NoKnownReversal ==
    [][\A r \in Requests :
          (tx[r].pc = "commit" /\ tx[r].kind = "process" /\ tx'[r].pc = "done") =>
          \A j \in tx[r].approve \cup tx[r].reject :
              (row[j] # None /\ Processed(row[j])) => row[j] # tx[r].snap[j]]_vars
=============================================================================
