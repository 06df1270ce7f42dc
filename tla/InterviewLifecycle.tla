-------------------------- MODULE InterviewLifecycle --------------------------
(***************************************************************************)
(* Interviews of one recruiter with one candidate: the recruiter creates,  *)
(* updates and deletes them, an administrator approves or rejects them, and*)
(* the candidate does.  Transactions read a snapshot and write the rows    *)
(* there are, as in JobLifecycle; notifications and documents do not wait  *)
(* for the commit.  An administrator's request is two transactions.        *)
(***************************************************************************)
EXTENDS Integers, FiniteSets

CONSTANTS
    Interviews,    \* interview ids
    Requests,      \* requests of the recruiter, the candidate and administrators
    Rows,          \* bound: the interviews that are there at first
    Edits,         \* bound: what the updates of a run provide
    MaxFailures,   \* bound: transactions that fail for an outside reason
    MaxRetries,    \* maxRetries of executeTransaction
    Unwritten,     \* a transaction has not written a row
    None           \* a row or a field that is not there

ASSUME InterviewAssumption ==
    /\ MaxFailures \in Nat /\ MaxRetries \in Nat \ {0}
    /\ None \notin Interviews /\ Unwritten # None

VARIABLES
    row,        \* row[i]: the committed row of i, or None
    doc,        \* does i have a document in the index?
    tx,         \* tx[r]: the transaction of request r
    notices,    \* the notifications that were sent
    failures

vars == <<row, doc, tx, notices, failures>>

Statuses  == {"scheduled", "cancelled", "finished"}
Approvals == {"pending", "approved", "rejected"}
Row == [status : Statuses, approval : Approvals, result : BOOLEAN, cancelled : BOOLEAN,
        recruiter : BOOLEAN]

\* UpdateInterviewDto, as far as it matters: a new status, and a result with a score.
Edit   == [status : Statuses \cup {None}, result : BOOLEAN]
NoEdit == [status |-> None, result |-> FALSE]

ASSUME RowsAssumption == /\ Rows \subseteq {x \in Row : x.recruiter}
                         /\ Edits \subseteq Edit
                         /\ None \notin Row /\ Unwritten \notin Row

\* INTERVIEW_SCHEDULED, INTERVIEW_CANCELED_BY_ADMIN, INTERVIEW_RESPONSE_RECEIVED,
\* INTERVIEW_RESULT, INTERVIEW_DELETED_BY_ADMIN, INTERVIEW_CANCELLED
Notice == {"scheduled", "cancelled by admin", "response", "result", "deleted by admin",
           "cancelled"} \X Interviews

Ended == {"idle", "done", "refused", "failed"}
Pc    == Ended \cup {"begin", "insert", "link", "decide", "announce", "accept", "decline",
                     "change", "tell", "index", "drop", "erase", "commit"}
Kind  == {"create", "approve", "reject", "update", "delete", "respond"}

ASSUME KindAssumption == None \notin Kind

NoTx == [pc |-> "idle", kind |-> None, item |-> None, edit |-> NoEdit, admin |-> FALSE,
         approve |-> {}, reject |-> {}, todo |-> {}, attempt |-> 0,
         snap |-> [i \in Interviews |-> None],
         own |-> [i \in Interviews |-> Unwritten]]

\* What was decided and told of an interview whose row is x.
Told(i, x) ==
    (IF x.approval = "approved" THEN {<<"scheduled", i>>} ELSE {})
    \cup (IF x.approval = "rejected" THEN {<<"cancelled by admin", i>>} ELSE {})
    \cup (IF x.cancelled THEN {<<"response", i>>} ELSE {})
    \cup (IF x.result THEN {<<"result", i>>} ELSE {})

Init ==
    /\ row \in [Interviews -> Rows \cup {None}]
    /\ doc = [i \in Interviews |-> row[i] # None]
    /\ tx = [r \in Requests |-> NoTx]
    /\ notices = UNION {Told(i, row[i]) : i \in {j \in Interviews : row[j] # None}}
    /\ failures = 0

-----------------------------------------------------------------------------
(* Transactions.                                                           *)

Seen(r, i)    == IF tx[r].own[i] = Unwritten THEN tx[r].snap[i] ELSE tx[r].own[i]
Current(r, i) == IF tx[r].own[i] = Unwritten THEN row[i] ELSE tx[r].own[i]

\* Another transaction has written i and not ended: an UPDATE of r waits for it.
Locked(r, i)  == \E s \in Requests \ {r} : tx[s].own[i] # Unwritten

\* UPDATE ... WHERE id = i changes the row there is, or nothing.
Written(r, i, new) ==
    [tx[r].own EXCEPT ![i] = IF Current(r, i) = None THEN tx[r].own[i] ELSE new]

Over(pc) == [NoTx EXCEPT !.pc = pc]

Refuse(r) ==
    /\ tx' = [tx EXCEPT ![r] = Over("refused")]
    /\ UNCHANGED <<row, doc, notices, failures>>

\* The first statement takes the snapshot.
FirstPc(r) == CASE tx[r].kind = "create"                -> "insert"
                [] tx[r].kind \in {"approve", "reject"} -> "decide"
                [] tx[r].kind = "update"                -> "change"
                [] tx[r].kind = "delete"                -> "drop"
                [] tx[r].kind = "respond"               -> "accept"

Begin(r) ==
    /\ tx[r].pc = "begin"
    /\ tx' = [tx EXCEPT ![r] = [tx[r] EXCEPT
                 !.snap = row, !.pc = FirstPc(r),
                 !.todo = IF tx[r].kind = "reject" THEN tx[r].reject ELSE tx[r].approve]]
    /\ UNCHANGED <<row, doc, notices, failures>>

\* What follows a commit: the rejections of an administrator's request are a
\* transaction of their own.
Following(r) == IF tx[r].kind = "approve" /\ tx[r].reject # {}
                THEN [NoTx EXCEPT !.pc = "begin", !.kind = "reject", !.reject = tx[r].reject]
                ELSE Over("done")

Commit(r) ==
    /\ tx[r].pc = "commit"
    /\ row' = [i \in Interviews |-> Current(r, i)]
    /\ tx' = [tx EXCEPT ![r] = Following(r)]
    /\ UNCHANGED <<doc, notices, failures>>

Fail(r) ==
    /\ tx[r].pc \notin Ended
    /\ failures < MaxFailures
    /\ failures' = failures + 1
    /\ tx' = [tx EXCEPT ![r] = Over("failed")]
    /\ UNCHANGED <<row, doc, notices>>

\* The next statement of r waits for a lock.  The recruiter of a new interview is set
\* on another connection, which waits for the row that r itself has inserted.
Waits(r) ==
    \/ tx[r].pc = "link"
    \/ tx[r].pc \in {"decide", "accept", "decline"} /\ \E i \in tx[r].todo : Locked(r, i)
    \/ tx[r].pc \in {"change", "erase"} /\ Locked(r, tx[r].item)

\* Mutation: a lock is waited for until it is free.
WaitForever(r) == FALSE /\ UNCHANGED vars

\* Mutation: one attempt too many.
ConflictOnceMore(r) ==
    /\ Waits(r)
    /\ tx' = [tx EXCEPT ![r] =
         IF tx[r].attempt < MaxRetries
         THEN [tx[r] EXCEPT !.pc = "begin", !.attempt = tx[r].attempt + 1, !.todo = {},
                            !.snap = NoTx.snap, !.own = NoTx.own]
         ELSE Over("failed")]
    /\ UNCHANGED <<row, doc, notices, failures>>

\* A lock wait ends in a deadlock or a timeout: once more, or an error.
Conflict(r) ==
    /\ Waits(r)
    /\ tx' = [tx EXCEPT ![r] =
         IF tx[r].attempt < MaxRetries - 1
         THEN [tx[r] EXCEPT !.pc = "begin", !.attempt = tx[r].attempt + 1, !.todo = {},
                            !.snap = NoTx.snap, !.own = NoTx.own]
         ELSE Over("failed")]
    /\ UNCHANGED <<row, doc, notices, failures>>

\* A new request.
Ask(r, t) ==
    /\ tx[r].pc = "idle"
    /\ tx' = [tx EXCEPT ![r] = t]
    /\ UNCHANGED <<row, doc, notices, failures>>

Asked(kind) == [NoTx EXCEPT !.pc = "begin", !.kind = kind]

-----------------------------------------------------------------------------
(* handleCreateInterview                                                   *)

AskCreate(r) == \E i \in Interviews, admin \in BOOLEAN :
    /\ row[i] = None /\ ~doc[i] /\ \A s \in Requests : tx[s].item # i
    /\ Ask(r, [Asked("create") EXCEPT !.item = i, !.admin = admin])

\* "You have already created an interview": an administrator's request looks for the
\* candidate in the place of the recruiter, and finds nothing.
Existing(r) == ~tx[r].admin /\ \E i \in Interviews : Seen(r, i) # None

NewRow == [status |-> "scheduled", approval |-> "pending", result |-> FALSE,
           cancelled |-> FALSE, recruiter |-> FALSE]

Inserted(r) == [tx[r].own EXCEPT ![tx[r].item] = NewRow]

\* Mutation: the interview is committed, and its recruiter is set afterwards.
InsertUnlinked(r) ==
    /\ tx[r].pc = "insert"
    /\ tx' = [tx EXCEPT ![r].own = Inserted(r), ![r].pc = "commit"]
    /\ UNCHANGED <<row, doc, notices, failures>>

Insert(r) ==
    /\ tx[r].pc = "insert"
    /\ IF Existing(r) THEN Refuse(r)
       ELSE /\ tx' = [tx EXCEPT ![r] = [tx[r] EXCEPT !.own = Inserted(r), !.pc = "link"]]
            /\ UNCHANGED <<row, doc, notices, failures>>

-----------------------------------------------------------------------------
(* handleProcessInterviews, handleGenerateProcessInterviews                *)

AskProcess(r) == \E A, R \in SUBSET Interviews :
    /\ A \cup R # {}
    /\ Ask(r, [Asked(IF A # {} THEN "approve" ELSE "reject")
                  EXCEPT !.approve = A, !.reject = R])

Decided(x, kind) == [x EXCEPT !.approval = IF kind = "approve" THEN "approved"
                                                               ELSE "rejected"]

\* One pass of the loop.  Nothing is asked of the row but that it is there.
Decide(r) ==
    /\ tx[r].pc = "decide"
    /\ \E i \in tx[r].todo :
         IF Seen(r, i) = None THEN Refuse(r)
         ELSE /\ ~Locked(r, i)
              /\ tx' = [tx EXCEPT ![r] = [tx[r] EXCEPT
                   !.own = Written(r, i, Decided(Current(r, i), tx[r].kind)),
                   !.todo = tx[r].todo \ {i},
                   !.pc = IF tx[r].todo = {i} THEN "announce" ELSE "decide"]]
              /\ UNCHANGED <<row, doc, notices, failures>>

\* Mutation: the second call announces what the first one has announced.
AnnounceApproval(r) ==
    /\ tx[r].pc = "announce"
    /\ notices' = notices \cup ({"scheduled"} \X (tx[r].approve \cup tx[r].reject))
    /\ tx' = [tx EXCEPT ![r].pc = "commit"]
    /\ UNCHANGED <<row, doc, failures>>

\* The candidates of approved interviews, or the recruiters of rejected ones, are told.
Announce(r) ==
    /\ tx[r].pc = "announce"
    /\ notices' = notices \cup (IF tx[r].kind = "approve"
                                THEN {"scheduled"} \X tx[r].approve
                                ELSE {"cancelled by admin"} \X tx[r].reject)
    /\ tx' = [tx EXCEPT ![r].pc = "commit"]
    /\ UNCHANGED <<row, doc, failures>>

-----------------------------------------------------------------------------
(* handleProcessInterviewsOfCandidates                                     *)

AskRespond(r) == \E A, R \in SUBSET Interviews :
    /\ A \cup R # {}
    /\ Ask(r, [Asked("respond") EXCEPT !.approve = A, !.reject = R])

\* Mutation: an interview is open as long as it has not been held or cancelled.
OpenByStatus(x) == x # None /\ x.status = "scheduled"

\* Interviews that are gone, cancelled, finished or decided are skipped.
Open(x) == x # None /\ x.status = "scheduled" /\ x.approval = "pending"

Answered(x, new) == [x EXCEPT !.approval = new,
                              !.cancelled = x.cancelled \/ new = "rejected"]

\* One pass of a loop of the candidate's request.
Respond(r, new) ==
    \E i \in tx[r].todo :
       IF ~Open(Seen(r, i))
       THEN /\ tx' = [tx EXCEPT ![r].todo = tx[r].todo \ {i}]
            /\ UNCHANGED notices
       ELSE /\ ~Locked(r, i)
            /\ tx' = [tx EXCEPT ![r] = [tx[r] EXCEPT
                 !.own = Written(r, i, Answered(Current(r, i), new)),
                 !.todo = tx[r].todo \ {i}]]
            /\ notices' = notices \cup {<<"response", i>>}

Accept(r) ==
    /\ tx[r].pc = "accept"
    /\ IF tx[r].todo # {} THEN Respond(r, "approved")
       ELSE /\ tx' = [tx EXCEPT ![r] = [tx[r] EXCEPT !.pc = "decline",
                                                     !.todo = tx[r].reject]]
            /\ UNCHANGED notices
    /\ UNCHANGED <<row, doc, failures>>

Decline(r) ==
    /\ tx[r].pc = "decline"
    /\ IF tx[r].todo # {} THEN Respond(r, "rejected")
       ELSE tx' = [tx EXCEPT ![r].pc = "commit"] /\ UNCHANGED notices
    /\ UNCHANGED <<row, doc, failures>>

-----------------------------------------------------------------------------
(* handleUpdateInterview                                                   *)

AskUpdate(r) == \E i \in Interviews, e \in Edits :
    Ask(r, [Asked("update") EXCEPT !.item = i, !.edit = e])

\* Mutation: an update leaves the approval as it was.
EditedQuietly(x, e) == [x EXCEPT !.status = IF e.status = None THEN x.status ELSE e.status,
                                 !.result = x.result \/ e.result]

\* {...updateInterviewDto, approval_status: PENDING}
Edited(x, e) == [x EXCEPT !.status = IF e.status = None THEN x.status ELSE e.status,
                          !.result = x.result \/ e.result,
                          !.approval = "pending"]

Change(r) ==
    /\ tx[r].pc = "change"
    /\ LET i == tx[r].item
       IN  IF Seen(r, i) = None THEN Refuse(r)
           ELSE /\ ~Locked(r, i)
                /\ tx' = [tx EXCEPT ![r] = [tx[r] EXCEPT
                     !.own = Written(r, i, Edited(Current(r, i), tx[r].edit)),
                     !.pc = IF tx[r].edit.result THEN "tell" ELSE "index"]]
                /\ UNCHANGED <<row, doc, notices, failures>>

\* The candidate is told that there is a result.
TellResult(r) ==
    /\ tx[r].pc = "tell"
    /\ notices' = notices \cup {<<"result", tx[r].item>>}
    /\ tx' = [tx EXCEPT ![r].pc = "index"]
    /\ UNCHANGED <<row, doc, failures>>

Index(r) ==
    /\ tx[r].pc = "index"
    /\ doc' = [doc EXCEPT ![tx[r].item] = TRUE]
    /\ tx' = [tx EXCEPT ![r].pc = "commit"]
    /\ UNCHANGED <<row, notices, failures>>

-----------------------------------------------------------------------------
(* handleDeleteInterview                                                   *)

AskDelete(r) == \E i \in Interviews, admin \in BOOLEAN :
    Ask(r, [Asked("delete") EXCEPT !.item = i, !.admin = admin])

\* The recruiter is told first, if an administrator deletes; then the document goes,
\* and one that is not there is an error; then the candidate is told.
Drop(r) ==
    /\ tx[r].pc = "drop"
    /\ LET i == tx[r].item
       IN  IF Seen(r, i) = None THEN Refuse(r)
           ELSE /\ notices' = notices
                       \cup (IF tx[r].admin THEN {<<"deleted by admin", i>>} ELSE {})
                       \cup (IF doc[i] THEN {<<"cancelled", i>>} ELSE {})
                /\ doc' = [doc EXCEPT ![i] = FALSE]
                /\ tx' = [tx EXCEPT ![r] = IF doc[i] THEN [tx[r] EXCEPT !.pc = "erase"]
                                                     ELSE Over("refused")]
                /\ UNCHANGED <<row, failures>>

Erase(r) ==
    /\ tx[r].pc = "erase"
    /\ ~Locked(r, tx[r].item)
    /\ tx' = [tx EXCEPT ![r] = [tx[r] EXCEPT !.own = Written(r, tx[r].item, None),
                                             !.pc = "commit"]]
    /\ UNCHANGED <<row, doc, notices, failures>>

-----------------------------------------------------------------------------
(* handleSyncInterviewsToElasticSearch, at the start of the service.       *)
Sync ==
    /\ doc' = [i \in Interviews |-> doc[i] \/ row[i] # None]
    /\ doc' # doc
    /\ UNCHANGED <<row, tx, notices, failures>>

Step(r) ==
    \/ Begin(r) \/ Insert(r)
    \/ Decide(r) \/ Announce(r) \/ Accept(r) \/ Decline(r)
    \/ Change(r) \/ TellResult(r) \/ Index(r) \/ Drop(r) \/ Erase(r)
    \/ Conflict(r) \/ Commit(r)

Next ==
    \/ \E r \in Requests : \/ AskCreate(r) \/ AskProcess(r) \/ AskRespond(r)
                           \/ AskUpdate(r) \/ AskDelete(r)
                           \/ Step(r) \/ Fail(r)
    \/ Sync

Spec == Init /\ [][Next]_vars

\* A handler that runs goes on; a lock wait ends by a timeout.
FairSpec == Spec /\ \A r \in Requests : WF_vars(Step(r))

-----------------------------------------------------------------------------
(* Properties.                                                             *)

TypeOK ==
    /\ row \in [Interviews -> Row \cup {None}]
    /\ doc \in [Interviews -> BOOLEAN]
    /\ tx \in [Requests ->
                  [pc : Pc, kind : Kind \cup {None}, item : Interviews \cup {None},
                   edit : Edit, admin : BOOLEAN, approve : SUBSET Interviews,
                   reject : SUBSET Interviews, todo : SUBSET Interviews,
                   attempt : 0 .. MaxRetries - 1,
                   snap : [Interviews -> Row \cup {None}],
                   own : [Interviews -> Row \cup {None, Unwritten}]]]
    /\ notices \in SUBSET Notice
    /\ failures \in 0 .. MaxFailures

\* A decision or a result that is stored was told to somebody.  Notifications do not wait
\* for the commit, a request is retried, and two may decide of the same interview.
DecisionsAnnounced ==
    \A i \in Interviews :
        row[i] # None =>
            /\ row[i].approval = "approved" =>
                   <<"scheduled", i>> \in notices \/ <<"response", i>> \in notices
            /\ row[i].approval = "rejected" =>
                   <<"cancelled by admin", i>> \in notices \/ <<"response", i>> \in notices
            /\ row[i].cancelled => <<"response", i>> \in notices
            /\ row[i].result    => <<"result", i>> \in notices

\* Nobody ever sees an interview without a recruiter, although the recruiter is set by
\* another connection than the one that inserts the interview.
NoOrphan == \A i \in Interviews : row[i] # None => row[i].recruiter

\* An answer of the candidate overrides a decision only if that was taken after the
\* candidate's transaction had begun.
NoKnownReversal ==
    [][\A i \in Interviews, r \in Requests :
          /\ tx[r].kind = "respond" /\ tx[r].pc = "commit" /\ tx'[r].pc = "done"
          /\ tx[r].own[i] # Unwritten /\ row[i].approval # "pending"
          => tx[r].snap[i] # row[i]]_vars

\* No handler waits for ever, and whatever is deleted or decided meanwhile, it answers.
RequestsEnd == []<>(\A r \in Requests : tx[r].pc \in Ended)
=============================================================================
