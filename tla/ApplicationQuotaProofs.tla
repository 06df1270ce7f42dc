----------------------- MODULE ApplicationQuotaProofs -----------------------
(***************************************************************************)
(* Proofs about ApplicationQuota, for every number of candidates, jobs,    *)
(* requests and handlers.                                                  *)
(***************************************************************************)
EXTENDS ApplicationQuota, FiniteSetTheorems, TLAPS

-----------------------------------------------------------------------------
(* TypeOK is not inductive: an event is well typed only if the application *)
(* it is about has been submitted, and so has every row a handler knows.   *)

Submitted(r) == apply[r].pc # "idle"

SubmissionsTyped ==
    \A r \in Applies : Submitted(r) => /\ apply[r].candidate \in Candidates
                                       /\ apply[r].job \in Jobs

RowsSubmitted ==
    /\ \A a \in Applies : status[a] # "none" => Submitted(a)
    /\ \A a \in filed : Submitted(a)
    /\ \A v \in Reviews, a \in Applies :
          review[v].snapshot[a] # "none" => Submitted(a)
    /\ \A v \in Reviews : \A a \in review[v].writes : Submitted(a)

TypeInv == TypeOK /\ SubmissionsTyped /\ RowsSubmitted

(* What the handlers' helpers make of the records they are given.          *)

LEMMA EndedTyped ==
    ASSUME NEW ap \in Apply, NEW pc \in ApplyPc
    PROVE  /\ Ended(ap, pc) \in Apply
           /\ Ended(ap, pc).pc = pc
           /\ Ended(ap, pc).row = None
           /\ Ended(ap, pc).candidate = ap.candidate
           /\ Ended(ap, pc).job = ap.job
<1>1. 0 \in 0 .. MaxRetries - 1
    BY QuotaAssumption DEF QuotaAssumption
<1> QED
    BY <1>1 DEF Ended, Apply

LEMMA EndedReviewTyped ==
    ASSUME NEW pc \in ReviewPc
    PROVE  /\ EndedReview(pc) \in Review
           /\ EndedReview(pc).snapshot = NoSnapshot
           /\ EndedReview(pc).writes = {}
BY QuotaAssumption DEF QuotaAssumption, EndedReview, IdleReview, NoSnapshot, Review, ReviewPc,
                       Decision, Status

LEMMA ClosedTyped ==
    ASSUME NEW rv \in Review
    PROVE  /\ Closed(rv) \in Review
           /\ Closed(rv).snapshot = NoSnapshot
           /\ Closed(rv).writes = {}
           /\ \A f \in {"pc", "approve", "reject", "decision", "attempt", "outer"} :
                 Closed(rv)[f] = rv[f]
BY DEF Closed, NoSnapshot, Review, Status

THEOREM TypeInit == Init => TypeInv
<1> SUFFICES ASSUME Init PROVE TypeInv
    OBVIOUS
<1>1. IdleApply \in Apply
    BY QuotaAssumption DEF IdleApply, Apply, ApplyPc
<1>2. IdleReview \in Review
    BY QuotaAssumption DEF IdleReview, NoSnapshot, Review, ReviewPc, Decision, Status
<1>3. IdleWorker \in Worker
    BY DEF IdleWorker, Worker
<1> QED
    BY <1>1, <1>2, <1>3, QuotaAssumption
    DEF QuotaAssumption, Init, TypeInv, TypeOK, Status, SubmissionsTyped,
        RowsSubmitted, Submitted, IdleApply, IdleReview, NoSnapshot

\* An apply request moves on: it stays submitted, for the same job.
MovesTo(r, ap) ==
    /\ ap \in Apply
    /\ ap.pc # "idle"
    /\ ap.candidate = apply[r].candidate
    /\ ap.job = apply[r].job
    /\ apply' = [apply EXCEPT ![r] = ap]

\* A step of a submitted request leaves the other parts of TypeInv alone.
LEMMA ApplyFrame ==
    ASSUME TypeInv, NEW r \in Applies, Submitted(r), NEW ap, MovesTo(r, ap),
           \A a \in Applies : status'[a] # "none" => status[a] # "none" \/ a = r,
           filed' \in {filed, filed \cup {r}},
           UNCHANGED review
    PROVE  /\ apply' \in [Applies -> Apply]
           /\ review' \in [Reviews -> Review]
           /\ filed' \subseteq Applies
           /\ SubmissionsTyped'
           /\ RowsSubmitted'
<1> USE DEF TypeInv, TypeOK, MovesTo
<1>1. \A a \in Applies : Submitted(a) => Submitted(a)'
    BY DEF Submitted
<1>2. SubmissionsTyped'
    BY DEF SubmissionsTyped, Submitted
<1>3. Submitted(r)'
    BY DEF Submitted
<1>4. RowsSubmitted'
    BY <1>1, <1>3 DEF RowsSubmitted, Submitted
<1> QED
    BY <1>2, <1>4

\* A request that ends keeps what was submitted.
LEMMA EndsTyped ==
    ASSUME TypeInv, NEW r \in Applies, NEW pc \in ApplyPc \ {"idle"},
           apply' = [apply EXCEPT ![r] = Ended(@, pc)]
    PROVE  MovesTo(r, Ended(apply[r], pc))
BY EndedTyped DEF MovesTo, TypeInv, TypeOK

LEMMA RetriedTyped ==
    ASSUME NEW ap \in Apply, ap.attempt < MaxRetries - 1
    PROVE  /\ Retried(ap) \in Apply
           /\ Retried(ap).pc = "verify"
           /\ Retried(ap).candidate = ap.candidate
           /\ Retried(ap).job = ap.job
<1>1. /\ ap.attempt \in 0 .. MaxRetries - 1
      /\ MaxRetries \in Nat
    BY QuotaAssumption DEF Apply, QuotaAssumption
<1>2. ap.attempt + 1 \in 0 .. MaxRetries - 1
    BY <1>1
<1> QED
    BY <1>2 DEF Retried, Apply, ApplyPc

LEMMA ApplyStepMoves ==
    ASSUME TypeInv, NEW r \in Applies, ApplyStep(r)
    PROVE  Submitted(r) /\ \E ap : MovesTo(r, ap)
<1> USE DEF TypeInv, TypeOK
<1>0. apply[r] \in Apply
    OBVIOUS
<1> DEFINE To(pc) == [apply[r] EXCEPT !.pc = pc]
<1>a. \A pc \in ApplyPc : To(pc) \in Apply
    BY <1>0 DEF Apply
<1>b. ASSUME NEW pc \in ApplyPc \ {"idle"}, apply' = [apply EXCEPT ![r].pc = pc]
      PROVE  MovesTo(r, To(pc))
    BY <1>0, <1>a, <1>b DEF MovesTo, Apply
<1>1. CASE VerifyJob(r)
    BY <1>0, <1>1, <1>b, EndsTyped DEF VerifyJob, Submitted, ApplyPc
<1>2. CASE ReadQuota(r)
    BY <1>0, <1>2, <1>b, EndsTyped DEF ReadQuota, Submitted, ApplyPc
<1>3. CASE FindExisting(r)
    <2>1. CASE apply' = [apply EXCEPT ![r].pc = "upload"]
        BY <1>3, <1>b, <2>1 DEF FindExisting, Submitted, ApplyPc
    <2>2. ASSUME NEW a \in Applies,
                 apply' = [apply EXCEPT ![r] =
                              IF status[a] = "rejected"
                              THEN [@ EXCEPT !.pc = "upload", !.row = a]
                              ELSE Ended(@, "refused")]
          PROVE  \E ap : MovesTo(r, ap)
        <3>1. MovesTo(r, [apply[r] EXCEPT !.pc = "upload", !.row = a]) 
                \/ MovesTo(r, Ended(apply[r], "refused"))
            BY <1>0, <2>2, EndedTyped DEF MovesTo, Apply, ApplyPc
        <3> QED
            BY <3>1
    <2> QED
        BY <1>3, <2>1, <2>2 DEF FindExisting, Found, Submitted
<1>4. CASE Upload(r)
    BY <1>0, <1>4, <1>b, EndsTyped DEF Upload, Submitted, ApplyPc
<1>5. CASE CreateRow(r)
    <2>1. MovesTo(r, [apply[r] EXCEPT !.pc = "emit", !.row = r])
        BY <1>0, <1>5 DEF CreateRow, MovesTo, Apply, ApplyPc
    <2> QED
        BY <1>5, <2>1 DEF CreateRow, Submitted
<1>6. CASE ReopenRow(r)
    <2>1. \E a \in Applies \cup {None} :
             MovesTo(r, [apply[r] EXCEPT !.pc = "emit", !.row = a])
        BY <1>0, <1>6 DEF ReopenRow, MovesTo, Apply, ApplyPc
    <2> QED
        BY <1>6, <2>1 DEF ReopenRow, Submitted
<1>7. CASE GiveUpReopen(r)
    <2>1. MovesTo(r, Retried(apply[r])) \/ MovesTo(r, Ended(apply[r], "failed"))
        BY <1>0, <1>7, RetriedTyped, EndsTyped, EndedTyped
        DEF GiveUpReopen, MovesTo, ApplyPc
    <2> QED
        BY <1>7, <2>1 DEF GiveUpReopen, Submitted
<1>8. CASE EmitDecrease(r)
    BY <1>0, <1>8, <1>b, EndsTyped DEF EmitDecrease, Submitted, ApplyPc
<1>9. CASE IndexRow(r)
    BY <1>0, <1>9, <1>b, EndsTyped DEF IndexRow, Submitted, ApplyPc
<1> QED
    BY <1>1, <1>2, <1>3, <1>4, <1>5, <1>6, <1>7, <1>8, <1>9,
       ApplyStep(r) DEF ApplyStep

LEMMA ApplyStepTyped ==
    ASSUME TypeInv, NEW r \in Applies, ApplyStep(r)
    PROVE  TypeInv'
<1> USE DEF TypeInv, TypeOK, quotaVars, eventVars
<1>0. PICK ap : MovesTo(r, ap)
    BY ApplyStepMoves
<1>1. Submitted(r)
    BY ApplyStepMoves
<1>2. CASE VerifyJob(r) \/ ReadQuota(r) \/ FindExisting(r) \/ Upload(r) \/ GiveUpReopen(r)
    BY <1>0, <1>1, <1>2, ApplyFrame
    DEF VerifyJob, ReadQuota, FindExisting, Upload, GiveUpReopen
<1>5. CASE CreateRow(r)
    <2>1. status' \in [Applies -> Status]
        BY <1>5 DEF CreateRow, Status
    <2> QED
        BY <1>0, <1>1, <1>5, <2>1, ApplyFrame DEF CreateRow
<1>6. CASE ReopenRow(r)
    <2>1. status' \in [Applies -> Status]
        BY <1>6 DEF ReopenRow, Status
    <2>2. \A a \in Applies : status'[a] # "none" => status[a] # "none"
        BY <1>6 DEF ReopenRow, Exists
    <2> QED
        BY <1>0, <1>1, <1>6, <2>1, <2>2, ApplyFrame DEF ReopenRow
<1>8. CASE EmitDecrease(r)
    <2>1. [candidate |-> apply[r].candidate, type |-> "decrease", origin |-> r]
            \in Event
        BY <1>1 DEF SubmissionsTyped, Event
    <2> QED
        BY <1>0, <1>1, <1>8, <2>1, ApplyFrame DEF EmitDecrease
<1>9. CASE IndexRow(r)
    <2>1. index' \in [Applies -> Status \ {"deleted"}]
        BY <1>9 DEF IndexRow, Status
    <2> QED
        BY <1>0, <1>1, <1>9, <2>1, ApplyFrame DEF IndexRow
<1> QED
    BY <1>2, <1>5, <1>6, <1>8, <1>9, ApplyStep(r) DEF ApplyStep

\* A review moves on: the rows it has read or updated are submitted ones.
ReviewsTo(v, rv) ==
    /\ rv \in Review
    /\ \A a \in Applies : rv.snapshot[a] # "none" => Submitted(a)
    /\ \A a \in rv.writes : Submitted(a)
    /\ review' = [review EXCEPT ![v] = rv]

LEMMA ReviewFrame ==
    ASSUME TypeInv, NEW v \in Reviews, NEW rv, ReviewsTo(v, rv),
           \A a \in Applies : status'[a] # "none" => status[a] # "none",
           UNCHANGED <<apply, filed>>
    PROVE  /\ apply' \in [Applies -> Apply]
           /\ review' \in [Reviews -> Review]
           /\ filed' \subseteq Applies
           /\ SubmissionsTyped'
           /\ RowsSubmitted'
<1> USE DEF TypeInv, TypeOK, ReviewsTo
<1>1. \A a \in Applies : Submitted(a)' <=> Submitted(a)
    BY DEF Submitted
<1>2. SubmissionsTyped'
    BY DEF SubmissionsTyped, Submitted
<1>3. review' \in [Reviews -> Review]
    OBVIOUS
<1>4. \A u \in Reviews : review'[u] = IF u = v THEN rv ELSE review[u]
    OBVIOUS
<1>5. \A u \in Reviews, a \in Applies : review'[u].snapshot[a] # "none" => Submitted(a)'
    BY <1>1, <1>4 DEF RowsSubmitted
<1>6. \A u \in Reviews : \A a \in review'[u].writes : Submitted(a)'
    <2>1. \A u \in Reviews : review[u].writes \subseteq Applies /\ rv.writes \subseteq Applies
        BY DEF Review
    <2> QED
        BY <1>1, <1>4, <2>1 DEF RowsSubmitted
<1>7. RowsSubmitted'
    BY <1>1, <1>5, <1>6 DEF RowsSubmitted
<1> QED
    BY <1>2, <1>3, <1>7

LEMMA ReviewEndsTyped ==
    ASSUME TypeInv, NEW v \in Reviews, NEW pc \in ReviewPc
    PROVE  /\ EndedReview(pc) \in Review
           /\ \A a \in Applies : EndedReview(pc).snapshot[a] = "none"
           /\ EndedReview(pc).writes = {}
BY EndedReviewTyped DEF NoSnapshot

LEMMA ReviewClosedTyped ==
    ASSUME TypeInv, NEW rv \in Review
    PROVE  /\ Closed(rv) \in Review
           /\ \A a \in Applies : Closed(rv).snapshot[a] = "none"
           /\ Closed(rv).writes = {}
BY ClosedTyped DEF NoSnapshot

LEMMA RelockedTyped ==
    ASSUME TypeInv, NEW rv \in Review
    PROVE  /\ Relocked(rv) \in Review
           /\ \A a \in Applies : Relocked(rv).snapshot[a] = "none"
           /\ Relocked(rv).writes = {}
           /\ Relocked(rv).pc \in {"open", "failed"}
<1> DEFINE cl == Closed(rv)
<1>1. /\ cl \in Review
      /\ \A a \in Applies : cl.snapshot[a] = "none"
      /\ cl.writes = {}
    BY ReviewClosedTyped
<1>2. /\ cl.attempt \in 0 .. MaxRetries - 1
      /\ cl.outer \in 0 .. MaxRetries - 1
      /\ MaxRetries \in Nat \ {0}
    BY <1>1, QuotaAssumption DEF Review, QuotaAssumption
<1>3. Relocked(rv) = IF cl.attempt < MaxRetries - 1
                     THEN [cl EXCEPT !.pc = "open", !.attempt = @ + 1]
                     ELSE IF cl.outer < MaxRetries - 1
                          THEN [cl EXCEPT !.pc = "open", !.attempt = 0,
                                          !.outer = @ + 1,
                                          !.decision = FirstDecision(cl.approve)]
                          ELSE EndedReview("failed")
    BY DEF Relocked
<1> HIDE DEF cl
<1>4. CASE cl.attempt < MaxRetries - 1
    <2>1. cl.attempt + 1 \in 0 .. MaxRetries - 1
        BY <1>2, <1>4
    <2>2. Relocked(rv) = [cl EXCEPT !.pc = "open", !.attempt = cl.attempt + 1]
        BY <1>3, <1>4
    <2>3. [cl EXCEPT !.pc = "open", !.attempt = cl.attempt + 1] \in Review
        BY <1>1, <2>1 DEF Review, ReviewPc
    <2> QED
        BY <1>1, <2>2, <2>3 DEF Review
<1>5. CASE cl.attempt >= MaxRetries - 1 /\ cl.outer < MaxRetries - 1
    <2>1. cl.outer + 1 \in 0 .. MaxRetries - 1 /\ 0 \in 0 .. MaxRetries - 1
        BY <1>2, <1>5
    <2>2. FirstDecision(cl.approve) \in Decision
        BY DEF FirstDecision, Decision
    <2>3. ~(cl.attempt < MaxRetries - 1)
        BY <1>2, <1>5
    <2>4. Relocked(rv) = [cl EXCEPT !.pc = "open", !.attempt = 0,
                                    !.outer = cl.outer + 1,
                                    !.decision = FirstDecision(cl.approve)]
        BY <1>3, <1>5, <2>3
    <2>5. Relocked(rv) \in Review
        BY <1>1, <2>1, <2>2, <2>4 DEF Review, ReviewPc
    <2> QED
        BY <1>1, <2>4, <2>5 DEF Review
<1>6. CASE cl.attempt >= MaxRetries - 1 /\ cl.outer >= MaxRetries - 1
    <2>1. Relocked(rv) = EndedReview("failed")
        BY <1>2, <1>3, <1>6
    <2> QED
        BY <2>1, EndedReviewTyped DEF ReviewPc, NoSnapshot, EndedReview, IdleReview
<1> QED
    BY <1>2, <1>4, <1>5, <1>6

LEMMA NextBatchTyped ==
    ASSUME TypeInv, NEW rv \in Review
    PROVE  /\ NextBatch(rv) \in Review
           /\ \A a \in Applies : NextBatch(rv).snapshot[a] = "none"
           /\ NextBatch(rv).writes = {}
           /\ NextBatch(rv).pc \in {"open", "done"}
<1>1. /\ Closed(rv) \in Review
      /\ \A a \in Applies : Closed(rv).snapshot[a] = "none"
      /\ Closed(rv).writes = {}
    BY ReviewClosedTyped
<1>2. 0 \in 0 .. MaxRetries - 1
    BY QuotaAssumption DEF QuotaAssumption
<1>3. CASE rv.decision = "approved" /\ rv.reject # {}
    <2>1. NextBatch(rv) = [Closed(rv) EXCEPT !.attempt = 0, !.pc = "open",
                                            !.decision = "rejected"]
        BY <1>3 DEF NextBatch
    <2> QED
        BY <1>1, <1>2, <2>1 DEF Review, ReviewPc, Decision
<1>4. CASE ~(rv.decision = "approved" /\ rv.reject # {})
    <2>1. NextBatch(rv) = EndedReview("done")
        BY <1>4 DEF NextBatch
    <2> QED
        BY <2>1, EndedReviewTyped DEF ReviewPc, NoSnapshot, EndedReview, IdleReview
<1> QED
    BY <1>3, <1>4

LEMMA ReviewStepMoves ==
    ASSUME TypeInv, NEW v \in Reviews, ReviewStep(v)
    PROVE  \E rv : ReviewsTo(v, rv)
<1> USE DEF TypeInv, TypeOK
<1>0. review[v] \in Review
    OBVIOUS
<1>1. CASE OpenBatch(v)
    <2> DEFINE rv == [review[v] EXCEPT
                         !.pc = "loop",
                         !.todo = IF review[v].decision = "approved"
                                  THEN review[v].approve ELSE review[v].reject,
                         !.snapshot = status]
    <2>1. rv \in Review
        BY <1>0 DEF Review, ReviewPc
    <2>2. rv.snapshot = status /\ rv.writes = review[v].writes
        BY <1>0 DEF Review
    <2>3. review' = [review EXCEPT ![v] = rv]
        BY <1>1 DEF OpenBatch
    <2> HIDE DEF rv
    <2>4. ReviewsTo(v, rv)
        BY <2>1, <2>2, <2>3 DEF ReviewsTo, RowsSubmitted
    <2> QED
        BY <2>4
<1>2. ASSUME NEW a \in Applies, SkipRow(v, a)
      PROVE  \E rv : ReviewsTo(v, rv)
    <2> DEFINE rv == [review[v] EXCEPT !.todo = @ \ {a}]
    <2>1. rv \in Review
        BY <1>0 DEF Review
    <2>2. rv.snapshot = review[v].snapshot /\ rv.writes = review[v].writes
        BY <1>0 DEF Review
    <2>3. review' = [review EXCEPT ![v] = rv]
        BY <1>2 DEF SkipRow
    <2> HIDE DEF rv
    <2>4. ReviewsTo(v, rv)
        BY <2>1, <2>2, <2>3 DEF ReviewsTo, RowsSubmitted
    <2> QED
        BY <2>4
<1>3. ASSUME NEW a \in Applies, RejectBatch(v, a)
      PROVE  \E rv : ReviewsTo(v, rv)
    <2>1. ReviewsTo(v, EndedReview("failed"))
        BY <1>3, ReviewEndsTyped DEF RejectBatch, ReviewsTo, ReviewPc
    <2> QED
        BY <2>1
<1>4. ASSUME NEW a \in Applies, DecideRow(v, a)
      PROVE  \E rv : ReviewsTo(v, rv)
    <2> DEFINE rv == [review[v] EXCEPT !.todo = @ \ {a}, !.writes = @ \cup {a}]
    <2>1. rv \in Review
        BY <1>0 DEF Review
    <2>2. rv.snapshot = review[v].snapshot /\ rv.writes = review[v].writes \cup {a}
        BY <1>0 DEF Review
    <2>3. review' = [review EXCEPT ![v] = rv]
        BY <1>4 DEF DecideRow
    <2>4. Submitted(a)
        BY <1>4 DEF DecideRow, Wants, RowsSubmitted
    <2> HIDE DEF rv
    <2>5. ReviewsTo(v, rv)
        BY <2>1, <2>2, <2>3, <2>4 DEF ReviewsTo, RowsSubmitted
    <2> QED
        BY <2>5
<1>5. ASSUME NEW a \in Applies, LoseLock(v, a)
      PROVE  \E rv : ReviewsTo(v, rv)
    <2>1. ReviewsTo(v, Relocked(review[v]))
        BY <1>0, <1>5, RelockedTyped DEF LoseLock, ReviewsTo
    <2> QED
        BY <2>1
<1>6. CASE EmitDecision(v)
    <2> DEFINE rv == [review[v] EXCEPT !.pc = "commit"]
    <2>1. rv \in Review
        BY <1>0 DEF Review, ReviewPc
    <2>2. rv.snapshot = review[v].snapshot /\ rv.writes = review[v].writes
        BY <1>0 DEF Review
    <2>3. review' = [review EXCEPT ![v] = rv]
        BY <1>6 DEF EmitDecision
    <2> HIDE DEF rv
    <2>4. ReviewsTo(v, rv)
        BY <2>1, <2>2, <2>3 DEF ReviewsTo, RowsSubmitted
    <2> QED
        BY <2>4
<1>7. CASE CommitBatch(v)
    <2>1. ReviewsTo(v, NextBatch(review[v]))
        BY <1>0, <1>7, NextBatchTyped DEF CommitBatch, ReviewsTo
    <2> QED
        BY <2>1
<1> QED
    BY <1>1, <1>2, <1>3, <1>4, <1>5, <1>6, <1>7, ReviewStep(v) DEF ReviewStep


LEMMA ReviewStepTyped ==
    ASSUME TypeInv, NEW v \in Reviews, ReviewStep(v)
    PROVE  TypeInv'
<1> USE DEF TypeInv, TypeOK, quotaVars, eventVars
<1>0. PICK rv : ReviewsTo(v, rv)
    BY ReviewStepMoves
<1>r. review[v] \in Review
    OBVIOUS
<1>1. CASE OpenBatch(v) \/ \E a \in Applies : SkipRow(v, a) \/ RejectBatch(v, a)
                                              \/ DecideRow(v, a) \/ LoseLock(v, a)
    BY <1>0, <1>1, ReviewFrame
    DEF OpenBatch, SkipRow, RejectBatch, DecideRow, LoseLock
<1>2. CASE EmitDecision(v)
    <2> DEFINE refunded == IF review[v].decision = "rejected"
                           THEN review[v].writes ELSE {}
               events == {[candidate |-> apply[a].candidate, type |-> "increase",
                           origin |-> <<v, a>>] : a \in refunded}
    <2>1. \A a \in refunded : a \in Applies /\ Submitted(a)
        BY <1>r DEF Review, RowsSubmitted
    <2>2. events \subseteq Event
        BY <2>1 DEF SubmissionsTyped, Event
    <2>3. queue' = queue \cup events /\ emitted' = emitted \cup events
        BY <1>2 DEF EmitDecision
    <2> HIDE DEF events
    <2> QED
        BY <1>0, <1>2, <2>2, <2>3, ReviewFrame DEF EmitDecision
<1>3. CASE CommitBatch(v)
    <2>1. status' \in [Applies -> Status]
        BY <1>3, <1>r DEF CommitBatch, Review, Status, Decision
    <2>2. \A a \in Applies : status'[a] # "none" => status[a] # "none"
        BY <1>3 DEF CommitBatch, Exists
    <2> QED
        BY <1>0, <1>3, <2>1, <2>2, ReviewFrame DEF CommitBatch
<1> QED
    BY <1>1, <1>2, <1>3, ReviewStep(v) DEF ReviewStep

THEOREM TypeNext == TypeInv /\ [Next]_vars => TypeInv'
<1> SUFFICES ASSUME TypeInv, [Next]_vars PROVE TypeInv'
    OBVIOUS
<1> USE DEF TypeInv, TypeOK, quotaVars, eventVars
<1>1. ASSUME NEW r \in Applies, NEW c \in Candidates, NEW j \in Jobs, Submit(r, c, j)
      PROVE  TypeInv'
    <2>1. apply' \in [Applies -> Apply]
        <3>1. [apply[r] EXCEPT !.pc = "verify", !.candidate = c, !.job = j] \in Apply
            BY DEF Apply, ApplyPc
        <3>2. apply' = [apply EXCEPT ![r] =
                           [apply[r] EXCEPT !.pc = "verify", !.candidate = c, !.job = j]]
            BY <1>1 DEF Submit
        <3> QED
            BY <3>1, <3>2
    <2>2. \A a \in Applies : Submitted(a) => Submitted(a)'
        BY <1>1 DEF Submit, Submitted, Apply
    <2>3. SubmissionsTyped'
        BY <1>1 DEF Submit, SubmissionsTyped, Submitted, Apply
    <2>4. RowsSubmitted'
        BY <1>1, <2>2 DEF Submit, RowsSubmitted, Submitted, Review
    <2> QED
        BY <1>1, <2>1, <2>3, <2>4 DEF Submit
<1>2. ASSUME NEW r \in Applies, ApplyStep(r)
      PROVE  TypeInv'
    BY <1>2, ApplyStepTyped
<1>3. ASSUME NEW v \in Reviews, NEW yes \in SUBSET Applies, NEW no \in SUBSET Applies,
             StartReview(v, yes, no)
      PROVE  TypeInv'
    <2> DEFINE rv == [review[v] EXCEPT !.pc = "open", !.approve = yes, !.reject = no,
                                       !.decision = FirstDecision(yes)]
    <2>1. rv \in Review
        BY <1>3 DEF Review, ReviewPc, Decision, FirstDecision
    <2>2. rv.snapshot = review[v].snapshot /\ rv.writes = review[v].writes
        BY DEF Review
    <2>3. review' = [review EXCEPT ![v] = rv]
        BY <1>3 DEF StartReview
    <2> HIDE DEF rv
    <2>4. ReviewsTo(v, rv)
        BY <2>1, <2>2, <2>3 DEF ReviewsTo, RowsSubmitted
    <2> QED
        BY <1>3, <2>4, ReviewFrame DEF StartReview
<1>4. ASSUME NEW v \in Reviews, ReviewStep(v)
      PROVE  TypeInv'
    BY <1>4, ReviewStepTyped
<1>u. ASSUME UNCHANGED <<apply, review, filed>>,
             \A a \in Applies : status'[a] # "none" => status[a] # "none"
      PROVE  SubmissionsTyped' /\ RowsSubmitted'
    BY <1>u DEF SubmissionsTyped, RowsSubmitted, Submitted
<1>5. ASSUME NEW w \in Workers, WriteCount(w)
      PROVE  TypeInv'
    <2>1. worker[w] \in Worker /\ worker[w].event \in Event
        BY <1>5 DEF WriteCount, Worker
    <2>2. worker[w].seen \in Int /\ worker[w].event.candidate \in Candidates
        BY <2>1 DEF Worker, Event
    <2>3. count' \in [Candidates -> Int]
        BY <1>5, <2>2 DEF WriteCount
    <2>4. worker' \in [Workers -> Worker] /\ handled' \subseteq Event
        BY <1>5, <2>1 DEF WriteCount, Worker, IdleWorker
    <2> QED
        BY <1>5, <1>u, <2>3, <2>4 DEF WriteCount
<1>6. ASSUME NEW w \in Workers, NEW e \in queue, ReadCount(w, e)
      PROVE  TypeInv'
    <2>1. e \in Event /\ e.candidate \in Candidates
        BY DEF Event
    <2>2. worker' \in [Workers -> Worker]
        BY <1>6, <2>1 DEF ReadCount, Worker
    <2> QED
        BY <1>6, <1>u, <2>2 DEF ReadCount
<1>7. ASSUME NEW c \in Candidates, UpgradePremium(c)
      PROVE  TypeInv'
    BY <1>7, <1>u, QuotaAssumption DEF UpgradePremium, QuotaAssumption
<1>8. ASSUME NEW j \in Jobs, CloseJob(j)
      PROVE  TypeInv'
    BY <1>8, <1>u DEF CloseJob
<1>9. ASSUME NEW a \in Applies, RemoveApplication(a)
      PROVE  TypeInv'
    BY <1>9, <1>u DEF RemoveApplication, Exists, Status
<1>10. CASE RestartApplications
    <2>1. apply' \in [Applies -> Apply]
        BY <1>10, EndedTyped DEF RestartApplications, ApplyPc
    <2>2. \A a \in Applies : /\ apply'[a].candidate = apply[a].candidate
                             /\ apply'[a].job = apply[a].job
                             /\ Submitted(a)' <=> Submitted(a)
        BY <1>10, EndedTyped DEF RestartApplications, ApplyPc, Submitted
    <2>3. /\ review' \in [Reviews -> Review]
          /\ \A v \in Reviews : review'[v] = review[v] \/ review'[v] = EndedReview("failed")
        BY <1>10, EndedReviewTyped DEF RestartApplications, ReviewPc
    <2>4. SubmissionsTyped'
        BY <2>2 DEF SubmissionsTyped
    <2>5. RowsSubmitted'
        <3>1. \A v \in Reviews, a \in Applies :
                 review'[v].snapshot[a] # "none" => Submitted(a)
            BY <2>3, ReviewEndsTyped DEF RowsSubmitted, ReviewPc
        <3>2. \A v \in Reviews : \A a \in review'[v].writes : Submitted(a) /\ a \in Applies
            BY <2>3, ReviewEndsTyped DEF RowsSubmitted, ReviewPc, Review
        <3> QED
            BY <1>10, <2>2, <3>1, <3>2 DEF RestartApplications, RowsSubmitted
    <2>6. index' \in [Applies -> Status \ {"deleted"}]
        BY <1>10 DEF RestartApplications, Exists, Status
    <2> QED
        BY <1>10, <2>1, <2>3, <2>4, <2>5, <2>6 DEF RestartApplications
<1>11. CASE RestartUsers
    BY <1>11, <1>u DEF RestartUsers, Worker, IdleWorker
<1>12. CASE UNCHANGED vars
    BY <1>12, <1>u DEF vars
<1> QED
    BY <1>1, <1>2, <1>3, <1>4, <1>5, <1>6, <1>7, <1>8, <1>9, <1>10, <1>11, <1>12
    DEF Next

\* In every reachable state the variables hold what the code stores in them, and
\* nobody works on an application that was not submitted.
THEOREM TypeCorrect == Spec => []TypeInv
BY TypeInit, TypeNext, PTL DEF Spec


-----------------------------------------------------------------------------
(* Every event is emitted once, for an application that was stored or a    *)
(* review that rejected one, and is in one place at a time: with the       *)
(* broker, with one handler, handled, or lost.                             *)

NotYetCharged(r) == apply[r].pc \notin {"index", "done", "failed"}

NotYetRefunded(v) == \/ review[v].pc \in {"idle", "open", "loop"}
                     \/ review[v].pc = "commit" /\ review[v].decision = "approved"

EventsSound ==
    /\ \A r \in Applies : apply[r].pc = "emit" => r \in filed
    /\ \A r \in Applies : NotYetCharged(r) =>
          \A e \in emitted : e.type = "decrease" => e.origin # r
    /\ \A v \in Reviews : NotYetRefunded(v) =>
          \A e \in emitted : e.type = "increase" => e.origin[1] # v
    /\ \A e \in emitted : e.type = "decrease" =>
          e.origin \in filed /\ e.candidate = apply[e.origin].candidate

Holds(w, e) == worker[w].event = e /\ e # None

Delivery ==
    /\ queue \subseteq emitted
    /\ handled \subseteq emitted
    /\ queue \cap handled = {}
    /\ \A w \in Workers : worker[w].event # None =>
          worker[w].event \in emitted \ (queue \cup handled)
    /\ \A w, u \in Workers : worker[w].event = worker[u].event /\ w # u
                                => worker[w].event = None

EventInv == EventsSound /\ Delivery

LEMMA EventInit == Init => EventInv
BY DEF Init, EventInv, EventsSound, Delivery, IdleApply, IdleWorker, NotYetCharged,
       NotYetRefunded

\* Which steps emit: the rest leave the events and the stored applications alone.
LEMMA ApplyStepSound ==
    ASSUME TypeInv, EventsSound, NEW r \in Applies, ApplyStep(r)
    PROVE  EventsSound'
<1> USE DEF TypeInv, TypeOK, eventVars
<1>0. PICK ap : MovesTo(r, ap)
    BY ApplyStepMoves
<1>a. /\ \A s \in Applies : apply'[s].candidate = apply[s].candidate
      /\ \A s \in Applies : s # r => apply'[s] = apply[s]
      /\ apply'[r] = ap
    BY <1>0 DEF MovesTo
<1>1. CASE /\ apply[r].pc \notin {"index", "done", "failed"}
           /\ apply'[r].pc # "emit"
           /\ UNCHANGED <<filed, emitted, review>>
    BY <1>a, <1>1 DEF EventsSound, NotYetCharged, NotYetRefunded, Event
<1>2. CASE /\ apply[r].pc = "index"
           /\ apply'[r].pc \in {"done", "failed"}
           /\ UNCHANGED <<filed, emitted, review>>
    BY <1>a, <1>2 DEF EventsSound, NotYetCharged, NotYetRefunded, Event
<1>3. CASE /\ apply[r].pc = "file"
           /\ filed' = filed \cup {r}
           /\ UNCHANGED <<emitted, review>>
    BY <1>a, <1>3 DEF EventsSound, NotYetCharged, NotYetRefunded, Event
<1>4. CASE EmitDecrease(r)
    <2>1. apply'[r].pc \in {"index", "failed"} /\ apply[r].pc = "emit"
        BY <1>4, EndedTyped DEF EmitDecrease, ApplyPc, Apply
    <2> DEFINE e == [candidate |-> apply[r].candidate, type |-> "decrease", origin |-> r]
    <2>2. emitted' = emitted \cup {e} /\ UNCHANGED <<filed, review>>
        BY <1>4 DEF EmitDecrease
    <2>3. e.type = "decrease" /\ e.origin = r /\ e.candidate = apply[r].candidate
        OBVIOUS
    <2> HIDE DEF e
    <2> QED
        BY <1>a, <2>1, <2>2, <2>3 DEF EventsSound, NotYetCharged, NotYetRefunded, Event
<1>5. CASE VerifyJob(r) \/ ReadQuota(r) \/ Upload(r)
    <2>1. apply'[r].pc \in {"quota", "find", "file", "refused", "failed"}
        BY <1>5, EndedTyped DEF VerifyJob, ReadQuota, Upload, Apply, ApplyPc
    <2> QED
        BY <1>1, <1>5, <2>1 DEF VerifyJob, ReadQuota, Upload
<1>6. CASE FindExisting(r)
    <2>1. ASSUME NEW a,
                 apply' = [apply EXCEPT ![r] =
                              IF status[a] = "rejected"
                              THEN [@ EXCEPT !.pc = "upload", !.row = a]
                              ELSE Ended(@, "refused")]
          PROVE  apply'[r].pc \in {"upload", "refused"}
        BY <2>1, EndedTyped DEF Apply, ApplyPc
    <2>2. ASSUME apply' = [apply EXCEPT ![r].pc = "upload"]
          PROVE  apply'[r].pc = "upload"
        BY <2>2 DEF Apply
    <2>3. apply'[r].pc \in {"upload", "refused"}
        BY <1>6, <2>1, <2>2 DEF FindExisting
    <2> QED
        BY <1>1, <1>6, <2>3 DEF FindExisting
<1>9. CASE GiveUpReopen(r)
    <2>1. apply'[r].pc \in {"verify", "failed"}
        BY <1>9, EndedTyped DEF GiveUpReopen, Retried, Apply, ApplyPc
    <2> QED
        BY <1>1, <1>9, <2>1 DEF GiveUpReopen
<1>7. CASE IndexRow(r)
    BY <1>2, <1>7, EndedTyped DEF IndexRow, Apply, ApplyPc
<1>8. CASE CreateRow(r) \/ ReopenRow(r)
    BY <1>3, <1>8 DEF CreateRow, ReopenRow
<1> QED
    BY <1>4, <1>5, <1>6, <1>7, <1>8, <1>9, ApplyStep(r) DEF ApplyStep


LEMMA ReviewStepSound ==
    ASSUME TypeInv, EventsSound, NEW v \in Reviews, ReviewStep(v)
    PROVE  EventsSound'
<1> USE DEF TypeInv, TypeOK, eventVars
<1>0. PICK rv : ReviewsTo(v, rv)
    BY ReviewStepMoves
<1>a. /\ \A u \in Reviews : u # v => review'[u] = review[u]
      /\ review'[v] = rv
      /\ review[v] \in Review
    BY <1>0 DEF ReviewsTo
<1>1. CASE /\ NotYetRefunded(v)' => NotYetRefunded(v)
           /\ UNCHANGED <<apply, filed, emitted>>
    BY <1>a, <1>1 DEF EventsSound, NotYetCharged, NotYetRefunded, Event
<1>2. CASE OpenBatch(v) \/ \E a \in Applies : SkipRow(v, a) \/ RejectBatch(v, a)
                                              \/ DecideRow(v, a) \/ LoseLock(v, a)
    <2>1. NotYetRefunded(v)
        BY <1>2 DEF OpenBatch, SkipRow, RejectBatch, DecideRow, LoseLock, Wants,
                    NotYetRefunded
    <2> QED
        BY <1>1, <1>2, <2>1
        DEF OpenBatch, SkipRow, RejectBatch, DecideRow, LoseLock
<1>3. CASE CommitBatch(v)
    <2>1. CASE review[v].decision = "approved"
        BY <1>1, <1>3, <2>1 DEF CommitBatch, NotYetRefunded
    <2>2. CASE review[v].decision # "approved"
        <3>1. review'[v] = EndedReview("done")
            BY <1>3, <2>2 DEF CommitBatch, NextBatch
        <3>2. ~NotYetRefunded(v)'
            BY <3>1 DEF NotYetRefunded, EndedReview, IdleReview
        <3> QED
            BY <1>1, <1>3, <3>2 DEF CommitBatch
    <2> QED
        BY <2>1, <2>2
<1>4. CASE EmitDecision(v)
    <2> DEFINE refunded == IF review[v].decision = "rejected"
                           THEN review[v].writes ELSE {}
               events == {[candidate |-> apply[a].candidate, type |-> "increase",
                           origin |-> <<v, a>>] : a \in refunded}
    <2>1. \A e \in events : e.type = "increase" /\ e.origin[1] = v
        OBVIOUS
    <2>2. emitted' = emitted \cup events /\ UNCHANGED <<apply, filed>>
        BY <1>4 DEF EmitDecision
    <2>3. review'[v].pc = "commit" /\ review'[v].decision = review[v].decision
        BY <1>4, <1>a DEF EmitDecision, Review
    <2>4. NotYetRefunded(v)
        BY <1>4 DEF EmitDecision, NotYetRefunded
    <2>5. review[v].decision = "approved" => events = {}
        OBVIOUS
    <2> HIDE DEF events
    <2>6. CASE review[v].decision = "approved"
        BY <1>1, <2>2, <2>4, <2>5, <2>6
    <2>7. CASE review[v].decision # "approved"
        <3>1. ~NotYetRefunded(v)'
            BY <2>3, <2>7 DEF NotYetRefunded
        <3> QED
            BY <1>a, <2>1, <2>2, <3>1 DEF EventsSound, NotYetCharged, NotYetRefunded, Event
    <2> QED
        BY <2>6, <2>7
<1> QED
    BY <1>2, <1>3, <1>4, ReviewStep(v) DEF ReviewStep

LEMMA EmittingDelivers ==
    ASSUME Delivery, NEW E, E \cap emitted = {},
           queue' = queue \cup E, emitted' = emitted \cup E,
           UNCHANGED <<worker, handled>>
    PROVE  Delivery'
BY DEF Delivery

LEMMA StepDelivers ==
    ASSUME TypeInv, EventInv, [Next]_vars
    PROVE  Delivery'
<1> USE DEF TypeInv, TypeOK, EventInv, quotaVars, eventVars
<1>0. ASSUME UNCHANGED <<queue, emitted, worker, handled>>
      PROVE  Delivery'
    BY <1>0 DEF Delivery
<1>1. ASSUME NEW r \in Applies, EmitDecrease(r)
      PROVE  Delivery'
    <2> DEFINE e == [candidate |-> apply[r].candidate, type |-> "decrease", origin |-> r]
    <2>1. e.type = "decrease" /\ e.origin = r /\ NotYetCharged(r)
        BY <1>1 DEF EmitDecrease, NotYetCharged
    <2>2. {e} \cap emitted = {}
        BY <2>1 DEF EventsSound
    <2> QED
        BY <1>1, <2>2, EmittingDelivers DEF EmitDecrease
<1>2. ASSUME NEW v \in Reviews, EmitDecision(v)
      PROVE  Delivery'
    <2> DEFINE events == {[candidate |-> apply[a].candidate, type |-> "increase",
                           origin |-> <<v, a>>] :
                              a \in IF review[v].decision = "rejected"
                                    THEN review[v].writes ELSE {}}
    <2>1. \A e \in events : e.type = "increase" /\ e.origin[1] = v
        OBVIOUS
    <2>2. NotYetRefunded(v)
        BY <1>2 DEF EmitDecision, NotYetRefunded
    <2>3. queue' = queue \cup events /\ emitted' = emitted \cup events
          /\ UNCHANGED <<worker, handled>>
        BY <1>2 DEF EmitDecision
    <2> HIDE DEF events
    <2>4. events \cap emitted = {}
        BY <2>1, <2>2 DEF EventsSound
    <2> QED
        BY <2>3, <2>4, EmittingDelivers
<1>3. ASSUME NEW w \in Workers, WriteCount(w)
      PROVE  Delivery'
    BY <1>3 DEF WriteCount, Delivery, IdleWorker
<1>4. ASSUME NEW w \in Workers, NEW e \in queue, ReadCount(w, e)
      PROVE  Delivery'
    BY <1>4 DEF ReadCount, Delivery
<1>5. CASE RestartUsers
    BY <1>5 DEF RestartUsers, Delivery, IdleWorker
<1>6. ASSUME NEW r \in Applies, ApplyStep(r)
      PROVE  Delivery'
    BY <1>0, <1>1, <1>6
    DEF ApplyStep, VerifyJob, ReadQuota, FindExisting, Upload, CreateRow, ReopenRow,
        GiveUpReopen, IndexRow
<1>7. ASSUME NEW v \in Reviews, ReviewStep(v)
      PROVE  Delivery'
    BY <1>0, <1>2, <1>7
    DEF ReviewStep, OpenBatch, SkipRow, RejectBatch, DecideRow, LoseLock, CommitBatch
<1>8. CASE \/ \E r \in Applies, c \in Candidates, j \in Jobs : Submit(r, c, j)
           \/ \E v \in Reviews : \E yes, no \in SUBSET Applies : StartReview(v, yes, no)
           \/ \E c \in Candidates : UpgradePremium(c)
           \/ \E j \in Jobs : CloseJob(j)
           \/ \E a \in Applies : RemoveApplication(a)
           \/ RestartApplications
           \/ UNCHANGED vars
    BY <1>0, <1>8 DEF Submit, StartReview, UpgradePremium, CloseJob, RemoveApplication,
                     RestartApplications, vars
<1> QED
    BY <1>3, <1>4, <1>5, <1>6, <1>7, <1>8 DEF Next


LEMMA EventNext == TypeInv /\ EventInv /\ [Next]_vars => EventInv'
<1> SUFFICES ASSUME TypeInv, EventInv, [Next]_vars PROVE EventsSound'
    BY StepDelivers DEF EventInv
<1> USE DEF TypeInv, TypeOK, EventInv, quotaVars, eventVars
<1>0. ASSUME UNCHANGED <<apply, review, filed, emitted>>
      PROVE  EventsSound'
    BY <1>0 DEF EventsSound, NotYetCharged, NotYetRefunded
<1>1. ASSUME NEW r \in Applies, NEW c \in Candidates, NEW j \in Jobs, Submit(r, c, j)
      PROVE  EventsSound'
    <2>1. r \notin filed
        BY <1>1 DEF Submit, RowsSubmitted, Submitted
    <2>2. /\ apply'[r].pc = "verify"
          /\ \A s \in Applies : s # r => apply'[s] = apply[s]
          /\ NotYetCharged(r)
          /\ UNCHANGED <<review, filed, emitted>>
        BY <1>1 DEF Submit, NotYetCharged, Apply
    <2> QED
        BY <2>1, <2>2 DEF EventsSound, NotYetCharged, NotYetRefunded, Event
<1>2. ASSUME NEW v \in Reviews, NEW yes \in SUBSET Applies, NEW no \in SUBSET Applies,
             StartReview(v, yes, no)
      PROVE  EventsSound'
    <2>1. /\ NotYetRefunded(v)
          /\ \A u \in Reviews : u # v => review'[u] = review[u]
          /\ UNCHANGED <<apply, filed, emitted>>
        BY <1>2 DEF StartReview, NotYetRefunded
    <2> QED
        BY <2>1 DEF EventsSound, NotYetCharged, NotYetRefunded, Event
<1>3. CASE RestartApplications
    <2>1. \A r \in Applies :
             /\ apply'[r].candidate = apply[r].candidate
             /\ apply'[r].pc # "emit"
             /\ NotYetCharged(r)' => NotYetCharged(r)
        BY <1>3, EndedTyped DEF RestartApplications, NotYetCharged, ApplyPc
    <2>2. \A v \in Reviews : NotYetRefunded(v)' => NotYetRefunded(v)
        BY <1>3, EndedReviewTyped
        DEF RestartApplications, NotYetRefunded, EndedReview, IdleReview
    <2>3. UNCHANGED <<filed, emitted>>
        BY <1>3 DEF RestartApplications
    <2> QED
        BY <2>1, <2>2, <2>3 DEF EventsSound, Event
<1>4. CASE \/ \E w \in Workers : WriteCount(w) \/ \E e \in queue : ReadCount(w, e)
           \/ \E c \in Candidates : UpgradePremium(c)
           \/ \E j \in Jobs : CloseJob(j)
           \/ \E a \in Applies : RemoveApplication(a)
           \/ RestartUsers
           \/ UNCHANGED vars
    BY <1>0, <1>4 DEF WriteCount, ReadCount, UpgradePremium, CloseJob,
                     RemoveApplication, RestartUsers, vars
<1> QED
    BY <1>1, <1>2, <1>3, <1>4, ApplyStepSound, ReviewStepSound DEF Next

-----------------------------------------------------------------------------
(* The count, and what a handler has read of it, stays between the limit   *)
(* minus the charges handled and the limit plus the refunds handled: both  *)
(* sets only grow, so a stale read is still between them when it is used.  *)

Debit(c, r) == [candidate |-> c, type |-> "decrease", origin |-> r]
Charged(c)  == {r \in Applies : Debit(c, r) \in handled}

Bounded(n, c) ==
    /\ n >= Limit - Cardinality(Charged(c))
    /\ n <= BaseLimit(c) + Cardinality(RefundsOf(c))

CountsBounded ==
    /\ \A c \in Candidates : Bounded(count[c], c)
    /\ \A w \in Workers : worker[w].event # None =>
          Bounded(worker[w].seen, worker[w].event.candidate)

LEMMA ChargedFinite ==
    ASSUME NEW c
    PROVE  IsFiniteSet(Charged(c)) /\ Cardinality(Charged(c)) \in Nat
<1>1. IsFiniteSet(Charged(c))
    BY FS_Subset, QuotaAssumption DEF Charged, QuotaAssumption
<1> QED
    BY <1>1, FS_CardinalityType

LEMMA RefundsFinite ==
    ASSUME NEW c, NEW H \in SUBSET Event,
           NEW R, R = {e \in H : e.type = "increase" /\ e.candidate = c}
    PROVE  IsFiniteSet(R) /\ Cardinality(R) \in Nat
<1> DEFINE Pairs == Reviews \X Applies
           All   == {[candidate |-> c, type |-> "increase", origin |-> o] : o \in Pairs}
           f     == [o \in Pairs |-> [candidate |-> c, type |-> "increase", origin |-> o]]
<1>1. IsFiniteSet(Pairs)
    BY FS_Product, QuotaAssumption DEF QuotaAssumption
<1>2. f \in Surjection(Pairs, All)
    BY DEF Surjection
<1>3. IsFiniteSet(All)
    BY <1>1, <1>2, FS_Surjection
<1>4. R \subseteq All
    BY DEF Event
<1>5. IsFiniteSet(R)
    BY <1>3, <1>4, FS_Subset
<1> QED
    BY <1>5, FS_CardinalityType

LEMMA RefundsOfFinite ==
    ASSUME TypeOK, NEW c
    PROVE  IsFiniteSet(RefundsOf(c)) /\ Cardinality(RefundsOf(c)) \in Nat
BY RefundsFinite DEF TypeOK, RefundsOf

\* The bounds only widen while events are handled and premium is bought.
LEMMA BoundsWiden ==
    ASSUME TypeInv, TypeInv', handled \subseteq handled', upgraded \subseteq upgraded',
           NEW c, NEW n \in Int, Bounded(n, c)
    PROVE  Bounded(n, c)'
<1>1. Charged(c) \subseteq Charged(c)' /\ RefundsOf(c) \subseteq RefundsOf(c)'
    BY DEF Charged, RefundsOf
<1>2. /\ IsFiniteSet(Charged(c)') /\ Cardinality(Charged(c)') \in Nat
      /\ IsFiniteSet(Charged(c)) /\ Cardinality(Charged(c)) \in Nat
    BY ChargedFinite, FS_Subset, FS_CardinalityType, QuotaAssumption
    DEF Charged, QuotaAssumption
<1>3. /\ IsFiniteSet(RefundsOf(c)') /\ Cardinality(RefundsOf(c)') \in Nat
      /\ IsFiniteSet(RefundsOf(c)) /\ Cardinality(RefundsOf(c)) \in Nat
    BY RefundsFinite DEF TypeInv, TypeOK, RefundsOf
<1>4. /\ Cardinality(Charged(c)) <= Cardinality(Charged(c)')
      /\ Cardinality(RefundsOf(c)) <= Cardinality(RefundsOf(c)')
    BY <1>1, <1>2, <1>3, FS_Subset
<1>5. BaseLimit(c) <= BaseLimit(c)' /\ BaseLimit(c) \in Nat /\ BaseLimit(c)' \in Nat
    BY QuotaAssumption DEF BaseLimit, QuotaAssumption
<1>6. Limit \in Nat
    BY QuotaAssumption DEF QuotaAssumption
<1>7. n >= Limit - Cardinality(Charged(c)')
    BY <1>2, <1>4, <1>6 DEF Bounded
<1>8. n <= BaseLimit(c)' + Cardinality(RefundsOf(c)')
    BY <1>3, <1>4, <1>5 DEF Bounded
<1> QED
    BY <1>7, <1>8 DEF Bounded


\* The count a handler writes, one more or one less than it read, is between the
\* bounds that count the event it has now handled.
LEMMA WriteBounded ==
    ASSUME TypeInv, TypeInv', EventInv, CountsBounded, NEW w \in Workers, WriteCount(w),
           NEW e, e = worker[w].event, NEW c, c = e.candidate
    PROVE  Bounded(count[c], c)'
<1> USE DEF TypeInv, TypeOK
<1>1. /\ e \in Event
      /\ e \notin handled
      /\ c \in Candidates
      /\ worker[w].seen \in Int
    BY DEF WriteCount, Worker, Event, EventInv, Delivery
<1> DEFINE n == worker[w].seen
<1>2. handled' = handled \cup {e} /\ upgraded' = upgraded
    BY DEF WriteCount
<1>3. Bounded(n, c)
    BY <1>1 DEF CountsBounded, WriteCount
<1>4. /\ IsFiniteSet(Charged(c)) /\ Cardinality(Charged(c)) \in Nat
      /\ IsFiniteSet(RefundsOf(c)) /\ Cardinality(RefundsOf(c)) \in Nat
    BY ChargedFinite, RefundsOfFinite
<1>5. /\ Limit \in Nat
      /\ BaseLimit(c) \in Nat
      /\ BaseLimit(c)' = BaseLimit(c)
    BY <1>2, QuotaAssumption DEF BaseLimit, QuotaAssumption
<1>6. CASE e.type = "increase"
    <2>1. count'[c] = n + 1
        BY <1>1, <1>6 DEF WriteCount
    <2>2. Charged(c)' = Charged(c)
        BY <1>2, <1>6 DEF Charged, Debit
    <2>3. RefundsOf(c)' = RefundsOf(c) \cup {e} /\ e \notin RefundsOf(c)
        BY <1>1, <1>2, <1>6 DEF RefundsOf
    <2>4. Cardinality(RefundsOf(c)') = Cardinality(RefundsOf(c)) + 1
        <3>1. Cardinality(RefundsOf(c) \cup {e}) = Cardinality(RefundsOf(c)) + 1
            BY <1>4, <2>3, FS_AddElement
        <3> QED
            BY <2>3, <3>1
    <2> QED
        BY <1>1, <1>3, <1>4, <1>5, <2>1, <2>2, <2>4 DEF Bounded
<1>7. CASE e.type # "increase"
    <2>1. count'[c] = n - 1
        BY <1>1, <1>7 DEF WriteCount
    <2>2. RefundsOf(c)' = RefundsOf(c)
        BY <1>2, <1>7 DEF RefundsOf
    <2>3. PICK r \in Applies : e = Debit(c, r)
        BY <1>1, <1>7 DEF Event, Debit
    <2>4. Charged(c)' = Charged(c) \cup {r} /\ r \notin Charged(c)
        BY <1>1, <1>2, <2>3 DEF Charged, Debit
    <2>5. Cardinality(Charged(c)') = Cardinality(Charged(c)) + 1
        <3>1. Cardinality(Charged(c) \cup {r}) = Cardinality(Charged(c)) + 1
            BY <1>4, <2>4, FS_AddElement
        <3> QED
            BY <2>4, <3>1
    <2> QED
        BY <1>1, <1>3, <1>4, <1>5, <2>1, <2>2, <2>5 DEF Bounded
<1> QED
    BY <1>6, <1>7

LEMMA CountInit == Init => CountsBounded
<1> SUFFICES ASSUME Init PROVE CountsBounded
    OBVIOUS
<1>1. \A c \in Candidates : Charged(c) = {} /\ RefundsOf(c) = {} /\ BaseLimit(c) = Limit
    BY DEF Init, Charged, RefundsOf, BaseLimit
<1>2. \A c \in Candidates : count[c] = Limit
    BY DEF Init
<1>3. Cardinality({}) = 0 /\ Limit \in Nat
    BY FS_EmptySet, QuotaAssumption DEF QuotaAssumption
<1>4. \A c \in Candidates : Bounded(count[c], c)
    BY <1>1, <1>2, <1>3 DEF Bounded
<1>5. \A w \in Workers : worker[w].event = None
    BY DEF Init, IdleWorker
<1> QED
    BY <1>4, <1>5 DEF CountsBounded

LEMMA CountNext == TypeInv /\ TypeInv' /\ EventInv /\ CountsBounded /\ [Next]_vars
                       => CountsBounded'
<1> SUFFICES ASSUME TypeInv, TypeInv', EventInv, CountsBounded, [Next]_vars
             PROVE  CountsBounded'
    OBVIOUS
<1> USE DEF TypeInv, TypeOK, quotaVars, eventVars
<1>0. ASSUME NEW c \in Candidates, count'[c] = count[c],
             handled \subseteq handled', upgraded \subseteq upgraded'
      PROVE  Bounded(count[c], c)'
    <2>1. Bounded(count[c], c) /\ count[c] \in Int
        BY DEF CountsBounded
    <2> QED
        BY <1>0, <2>1, BoundsWiden DEF Bounded
<1>w. ASSUME NEW w \in Workers, worker'[w] = worker[w], worker[w].event # None,
             handled \subseteq handled', upgraded \subseteq upgraded'
      PROVE  Bounded(worker[w].seen, worker[w].event.candidate)'
    <2>1. Bounded(worker[w].seen, worker[w].event.candidate) /\ worker[w].seen \in Int
        BY <1>w DEF CountsBounded, Worker
    <2> QED
        BY <1>w, <2>1, BoundsWiden DEF Bounded
<1>1. ASSUME NEW w \in Workers, WriteCount(w)
      PROVE  CountsBounded'
    <2>1. /\ handled \subseteq handled' /\ upgraded \subseteq upgraded'
          /\ \A u \in Workers : u # w => worker'[u] = worker[u]
          /\ worker'[w].event = None
        BY <1>1 DEF WriteCount, IdleWorker
    <2>2. ASSUME NEW c \in Candidates
          PROVE  Bounded(count[c], c)'
        <3>1. CASE c = worker[w].event.candidate
            BY <1>1, <3>1, WriteBounded
        <3>2. CASE c # worker[w].event.candidate
            BY <1>0, <1>1, <2>1, <3>2 DEF WriteCount
        <3> QED
            BY <3>1, <3>2
    <2>3. ASSUME NEW u \in Workers, worker'[u].event # None
          PROVE  Bounded(worker[u].seen, worker[u].event.candidate)'
        BY <1>w, <2>1, <2>3
    <2> QED
        BY <2>2, <2>3 DEF CountsBounded
<1>2. ASSUME NEW w \in Workers, NEW e \in queue, ReadCount(w, e)
      PROVE  CountsBounded'
    <2>1. /\ UNCHANGED <<count, handled, upgraded>>
          /\ \A u \in Workers : u # w => worker'[u] = worker[u]
          /\ worker'[w] = [event |-> e, seen |-> count[e.candidate]]
          /\ e.candidate \in Candidates
        BY <1>2 DEF ReadCount, Event
    <2>2. \A c \in Candidates : Bounded(count[c], c)'
        BY <1>0, <2>1
    <2>3. ASSUME NEW u \in Workers, worker'[u].event # None
          PROVE  Bounded(worker[u].seen, worker[u].event.candidate)'
        <3>1. CASE u = w
            BY <2>1, <2>2, <3>1 DEF Bounded
        <3>2. CASE u # w
            BY <1>w, <2>1, <2>3, <3>2
        <3> QED
            BY <3>1, <3>2
    <2> QED
        BY <2>2, <2>3 DEF CountsBounded
<1>3. ASSUME NEW d \in Candidates, UpgradePremium(d)
      PROVE  CountsBounded'
    <2>1. /\ UNCHANGED <<handled, worker>> /\ upgraded' = upgraded \cup {d}
          /\ \A c \in Candidates : c # d => count'[c] = count[c]
          /\ count'[d] = PremiumLimit
        BY <1>3 DEF UpgradePremium
    <2>2. Bounded(count[d], d)'
        <3>1. BaseLimit(d)' = PremiumLimit
            BY <2>1 DEF BaseLimit
        <3>2. /\ Cardinality(Charged(d)) \in Nat /\ Charged(d)' = Charged(d)
              /\ Cardinality(RefundsOf(d)) \in Nat /\ RefundsOf(d)' = RefundsOf(d)
            BY <2>1, ChargedFinite, RefundsFinite DEF Charged, RefundsOf
        <3> QED
            BY <2>1, <3>1, <3>2, QuotaAssumption DEF Bounded, QuotaAssumption
    <2>3. \A c \in Candidates : Bounded(count[c], c)'
        BY <1>0, <2>1, <2>2
    <2>4. \A u \in Workers : worker'[u].event # None =>
             Bounded(worker[u].seen, worker[u].event.candidate)'
        BY <1>w, <2>1
    <2> QED
        BY <2>3, <2>4 DEF CountsBounded
<1>4. CASE RestartUsers
    <2>1. /\ UNCHANGED <<count, handled, upgraded>>
          /\ \A u \in Workers : worker'[u].event = None
        BY <1>4 DEF RestartUsers, IdleWorker
    <2> QED
        BY <1>0, <2>1 DEF CountsBounded
<1>5. CASE UNCHANGED <<count, worker, handled, upgraded>>
    BY <1>0, <1>w, <1>5 DEF CountsBounded
<1>6. CASE \/ \E r \in Applies, c \in Candidates, j \in Jobs : Submit(r, c, j)
           \/ \E v \in Reviews : \E yes, no \in SUBSET Applies : StartReview(v, yes, no)
           \/ \E r \in Applies : ApplyStep(r)
           \/ \E v \in Reviews : ReviewStep(v)
           \/ \E j \in Jobs : CloseJob(j)
           \/ \E a \in Applies : RemoveApplication(a)
           \/ RestartApplications
           \/ UNCHANGED vars
    <2>1. ASSUME NEW r \in Applies, ApplyStep(r)
          PROVE  UNCHANGED <<count, worker, handled, upgraded>>
        BY <2>1 DEF ApplyStep, VerifyJob, ReadQuota, FindExisting, Upload, CreateRow,
                    ReopenRow, GiveUpReopen, EmitDecrease, IndexRow
    <2>2. ASSUME NEW v \in Reviews, ReviewStep(v)
          PROVE  UNCHANGED <<count, worker, handled, upgraded>>
        BY <2>2 DEF ReviewStep, OpenBatch, SkipRow, RejectBatch, DecideRow, LoseLock,
                    EmitDecision, CommitBatch
    <2> QED
        BY <1>5, <1>6, <2>1, <2>2
        DEF Submit, StartReview, CloseJob, RemoveApplication, RestartApplications, vars
<1> QED
    BY <1>1, <1>2, <1>3, <1>4, <1>6 DEF Next

\* What is charged was stored, so the lower bound is the one promised.
LEMMA BoundedMeans ==
    ASSUME TypeInv, EventInv, CountsBounded
    PROVE  NeverOvercharged /\ NeverOvercredited
<1> SUFFICES ASSUME NEW c \in Candidates
             PROVE  /\ count[c] >= Limit - Cardinality(FiledBy(c))
                    /\ count[c] <= BaseLimit(c) + Cardinality(RefundsOf(c))
    BY DEF NeverOvercharged, NeverOvercredited
<1>1. Charged(c) \subseteq FiledBy(c)
    BY DEF Charged, Debit, FiledBy, EventInv, EventsSound, Delivery
<1>2. IsFiniteSet(FiledBy(c)) /\ Cardinality(FiledBy(c)) \in Nat
    BY FS_Subset, FS_CardinalityType, QuotaAssumption
    DEF FiledBy, QuotaAssumption, TypeInv, TypeOK
<1>3. Cardinality(Charged(c)) \in Nat /\ Cardinality(Charged(c)) <= Cardinality(FiledBy(c))
    BY <1>1, <1>2, ChargedFinite, FS_Subset
<1>4. Bounded(count[c], c) /\ count[c] \in Int /\ Limit \in Nat
    BY QuotaAssumption DEF CountsBounded, TypeInv, TypeOK, QuotaAssumption
<1> QED
    BY <1>2, <1>3, <1>4 DEF Bounded

THEOREM EventCorrect == Spec => [](EventInv /\ CountsBounded)
<1>1. Init => EventInv /\ CountsBounded
    BY EventInit, CountInit
<1>2. TypeInv /\ TypeInv' /\ EventInv /\ CountsBounded /\ [Next]_vars
         => EventInv' /\ CountsBounded'
    BY EventNext, CountNext
<1> QED
    BY <1>1, <1>2, TypeCorrect, PTL DEF Spec

\* No candidate is charged more than once for a filed application, however many
\* handlers work at the same time and whatever is lost.
THEOREM ChargedOnce == Spec => []NeverOvercharged
BY TypeCorrect, EventCorrect, BoundedMeans, PTL

\* No candidate is credited more than the refunds handled.
THEOREM CreditedOnce == Spec => []NeverOvercredited
BY TypeCorrect, EventCorrect, BoundedMeans, PTL


-----------------------------------------------------------------------------
(* Rejections and their refunds.                                           *)

RefundOf(v, a) == [candidate |-> apply[a].candidate, type |-> "increase",
                   origin |-> <<v, a>>]

\* A review that is about to commit a rejection has emitted the refund.
CommitsRefunded ==
    \A v \in Reviews : \A a \in Applies :
        /\ review[v].pc = "commit"
        /\ review[v].decision = "rejected"
        /\ a \in review[v].writes
        => RefundOf(v, a) \in emitted

RefundInv == RejectionIsRefunded /\ CommitsRefunded

\* What no step undoes.
LEMMA Lasting ==
    ASSUME TypeInv, [Next]_vars
    PROVE  /\ emitted \subseteq emitted'
           /\ \A a \in Applies : Submitted(a) => apply'[a].candidate = apply[a].candidate
<1> USE DEF TypeInv, TypeOK, quotaVars, eventVars
<1>1. ASSUME NEW r \in Applies, ApplyStep(r)
      PROVE  emitted \subseteq emitted'
    BY <1>1 DEF ApplyStep, VerifyJob, ReadQuota, FindExisting, Upload, CreateRow,
                ReopenRow, GiveUpReopen, EmitDecrease, IndexRow
<1>2. ASSUME NEW v \in Reviews, ReviewStep(v)
      PROVE  emitted \subseteq emitted' /\ UNCHANGED apply
    BY <1>2 DEF ReviewStep, OpenBatch, SkipRow, RejectBatch, DecideRow, LoseLock,
                EmitDecision, CommitBatch
<1>3. ASSUME NEW r \in Applies, ApplyStep(r)
      PROVE  \A a \in Applies : apply'[a].candidate = apply[a].candidate
    BY <1>3, ApplyStepMoves DEF MovesTo
<1>4. ASSUME NEW r \in Applies, NEW c \in Candidates, NEW j \in Jobs, Submit(r, c, j)
      PROVE  /\ emitted \subseteq emitted'
             /\ \A a \in Applies : Submitted(a) => apply'[a].candidate = apply[a].candidate
    BY <1>4 DEF Submit, Submitted
<1>5. CASE RestartApplications
    BY <1>5, EndedTyped DEF RestartApplications, ApplyPc
<1>6. CASE \/ \E v \in Reviews : \E yes, no \in SUBSET Applies : StartReview(v, yes, no)
           \/ \E w \in Workers : WriteCount(w) \/ \E e \in queue : ReadCount(w, e)
           \/ \E c \in Candidates : UpgradePremium(c)
           \/ \E j \in Jobs : CloseJob(j)
           \/ \E a \in Applies : RemoveApplication(a)
           \/ RestartUsers
           \/ UNCHANGED vars
    BY <1>6 DEF StartReview, WriteCount, ReadCount, UpgradePremium, CloseJob,
                RemoveApplication, RestartUsers, vars
<1> QED
    BY <1>1, <1>2, <1>3, <1>4, <1>5, <1>6 DEF Next

\* Only CommitBatch stores a rejection.
LEMMA RejectedByCommit ==
    ASSUME TypeInv, [Next]_vars, NEW a \in Applies,
           status'[a] = "rejected", status[a] # "rejected"
    PROVE  \E v \in Reviews : /\ CommitBatch(v)
                              /\ a \in review[v].writes
                              /\ review[v].decision = "rejected"
<1> USE DEF TypeInv, TypeOK, quotaVars, eventVars
<1>1. ASSUME NEW r \in Applies, ApplyStep(r)
      PROVE  FALSE
    BY <1>1 DEF ApplyStep, VerifyJob, ReadQuota, FindExisting, Upload, CreateRow,
                ReopenRow, GiveUpReopen, EmitDecrease, IndexRow
<1>2. ASSUME NEW v \in Reviews, ReviewStep(v)
      PROVE  /\ CommitBatch(v)
             /\ a \in review[v].writes
             /\ review[v].decision = "rejected"
    BY <1>2 DEF ReviewStep, OpenBatch, SkipRow, RejectBatch, DecideRow, LoseLock,
                EmitDecision, CommitBatch
<1>3. CASE \/ \E r \in Applies, c \in Candidates, j \in Jobs : Submit(r, c, j)
           \/ \E v \in Reviews : \E yes, no \in SUBSET Applies : StartReview(v, yes, no)
           \/ \E w \in Workers : WriteCount(w) \/ \E e \in queue : ReadCount(w, e)
           \/ \E c \in Candidates : UpgradePremium(c)
           \/ \E j \in Jobs : CloseJob(j)
           \/ \E x \in Applies : RemoveApplication(x)
           \/ RestartApplications
           \/ RestartUsers
           \/ UNCHANGED vars
    BY <1>3 DEF Submit, StartReview, WriteCount, ReadCount, UpgradePremium, CloseJob,
                RemoveApplication, RestartApplications, RestartUsers, vars
<1> QED
    BY <1>1, <1>2, <1>3 DEF Next

LEMMA RefundNext == TypeInv /\ RefundInv /\ [Next]_vars => RefundInv'
<1> SUFFICES ASSUME TypeInv, RefundInv, [Next]_vars
             PROVE  RejectionIsRefunded' /\ CommitsRefunded'
    BY DEF RefundInv
<1> USE DEF TypeInv, TypeOK, RefundInv
<1>1. ASSUME NEW a \in Applies, NEW v \in Reviews, Submitted(a), RefundOf(v, a) \in emitted
      PROVE  RefundOf(v, a)' \in emitted'
    BY <1>1, Lasting DEF RefundOf
<1>2. ASSUME NEW a \in Applies, status'[a] = "rejected"
      PROVE  \E v \in Reviews : RefundOf(v, a)' \in emitted'
    <2>1. CASE status[a] = "rejected"
        BY <1>1, <2>1 DEF RejectionIsRefunded, RefundOf, RowsSubmitted
    <2>2. CASE status[a] # "rejected"
        <3>1. PICK v \in Reviews : /\ CommitBatch(v)
                                   /\ a \in review[v].writes
                                   /\ review[v].decision = "rejected"
            BY <1>2, <2>2, RejectedByCommit
        <3>2. Submitted(a) /\ RefundOf(v, a) \in emitted
            BY <3>1 DEF CommitsRefunded, CommitBatch, RowsSubmitted
        <3> QED
            BY <1>1, <3>2
    <2> QED
        BY <2>1, <2>2
<1>3. RejectionIsRefunded'
    BY <1>2 DEF RejectionIsRefunded, RefundOf
<1>4. ASSUME NEW v \in Reviews, review'[v] = review[v], NEW a \in Applies,
             review'[v].pc = "commit", review'[v].decision = "rejected",
             a \in review'[v].writes
      PROVE  RefundOf(v, a)' \in emitted'
    BY <1>1, <1>4 DEF CommitsRefunded, RowsSubmitted
<1>5. ASSUME NEW v \in Reviews, ReviewStep(v)
      PROVE  CommitsRefunded'
    <2>1. \A u \in Reviews : u # v => review'[u] = review[u]
        BY <1>5, ReviewStepMoves DEF ReviewsTo
    <2>2. CASE EmitDecision(v)
        <3>1. ASSUME NEW a \in Applies, review'[v].decision = "rejected",
                     a \in review'[v].writes
              PROVE  RefundOf(v, a)' \in emitted'
            <4>1. review[v].decision = "rejected" /\ a \in review[v].writes
                BY <2>2, <3>1 DEF EmitDecision, Review
            <4>2. RefundOf(v, a) \in emitted' /\ apply' = apply
                BY <2>2, <4>1 DEF EmitDecision, RefundOf
            <4> QED
                BY <4>2 DEF RefundOf
        <3> QED
            BY <1>4, <2>1, <3>1 DEF CommitsRefunded
    <2>3. CASE review'[v].pc # "commit"
        BY <1>4, <2>1, <2>3 DEF CommitsRefunded
    <2>4. EmitDecision(v) \/ review'[v].pc # "commit"
        <3>0. review[v] \in Review
            OBVIOUS
        <3>1. CASE \E a \in Applies : LoseLock(v, a)
            BY <3>0, <3>1, RelockedTyped DEF LoseLock
        <3>2. CASE CommitBatch(v)
            BY <3>0, <3>2, NextBatchTyped DEF CommitBatch
        <3>3. CASE \E a \in Applies : RejectBatch(v, a)
            BY <3>3, EndedReviewTyped DEF RejectBatch, EndedReview, IdleReview
        <3>4. CASE OpenBatch(v)
            BY <3>0, <3>4 DEF OpenBatch, Review
        <3>5. CASE \E a \in Applies : SkipRow(v, a) \/ DecideRow(v, a)
            BY <3>0, <3>5 DEF SkipRow, DecideRow, Wants, Review
        <3> QED
            BY <1>5, <3>1, <3>2, <3>3, <3>4, <3>5 DEF ReviewStep
    <2> QED
        BY <2>2, <2>3, <2>4
<1>6. ASSUME RestartApplications
      PROVE  CommitsRefunded'
    <2>1. \A v \in Reviews : review'[v] = review[v] \/ review'[v].pc = "failed"
        BY <1>6 DEF RestartApplications, EndedReview, IdleReview
    <2> SUFFICES ASSUME NEW v \in Reviews, NEW a \in Applies,
                        review'[v].pc = "commit", review'[v].decision = "rejected",
                        a \in review'[v].writes
                 PROVE  RefundOf(v, a)' \in emitted'
        BY DEF CommitsRefunded
    <2> QED
        BY <1>4, <2>1
<1>7. ASSUME NEW v \in Reviews, NEW yes \in SUBSET Applies, NEW no \in SUBSET Applies,
             StartReview(v, yes, no)
      PROVE  CommitsRefunded'
    <2>1. /\ review'[v].pc = "open"
          /\ \A u \in Reviews : u # v => review'[u] = review[u]
        BY <1>7 DEF StartReview, Review
    <2> QED
        BY <1>4, <2>1 DEF CommitsRefunded
<1>8. ASSUME UNCHANGED review
      PROVE  CommitsRefunded'
    <2> SUFFICES ASSUME NEW v \in Reviews, NEW a \in Applies,
                        review'[v].pc = "commit", review'[v].decision = "rejected",
                        a \in review'[v].writes
                 PROVE  RefundOf(v, a)' \in emitted'
        BY DEF CommitsRefunded
    <2> QED
        BY <1>4, <1>8
<1>9. ASSUME NEW r \in Applies, ApplyStep(r)
      PROVE  UNCHANGED review
    BY <1>9
    DEF ApplyStep, VerifyJob, ReadQuota, FindExisting, Upload, CreateRow, ReopenRow,
        GiveUpReopen, EmitDecrease, IndexRow
<1>10. ASSUME \/ \E r \in Applies, c \in Candidates, j \in Jobs : Submit(r, c, j)
              \/ \E w \in Workers : WriteCount(w) \/ \E e \in queue : ReadCount(w, e)
              \/ \E c \in Candidates : UpgradePremium(c)
              \/ \E j \in Jobs : CloseJob(j)
              \/ \E a \in Applies : RemoveApplication(a)
              \/ RestartUsers
              \/ UNCHANGED vars
       PROVE  UNCHANGED review
    BY <1>10 DEF Submit, WriteCount, ReadCount, UpgradePremium, CloseJob,
                 RemoveApplication, RestartUsers, vars
<1>11. CommitsRefunded'
    BY <1>5, <1>6, <1>7, <1>8, <1>9, <1>10 DEF Next
<1> QED
    BY <1>3, <1>11

\* Every stored rejection has had its refund emitted, whatever failed or restarted.
THEOREM RejectionsRefunded == Spec => []RejectionIsRefunded
<1>1. Init => RefundInv
    BY DEF Init, RefundInv, RejectionIsRefunded, CommitsRefunded, IdleReview
<1>2. RefundInv => RejectionIsRefunded
    BY DEF RefundInv
<1> QED
    BY <1>1, <1>2, RefundNext, TypeCorrect, PTL DEF Spec


-----------------------------------------------------------------------------
(* The search index.                                                       *)

\* A request that holds a row holds one that was stored.
HeldRowsStored ==
    \A r \in Applies :
        /\ apply[r].row # None => status[apply[r].row] # "none"
        /\ apply[r].pc = "index" => apply[r].row # None

IndexInv == IndexFollowsRows /\ HeldRowsStored

LEMMA RowsStay ==
    ASSUME TypeInv, [Next]_vars, NEW a \in Applies, status[a] # "none"
    PROVE  status'[a] # "none"
<1> USE DEF TypeInv, TypeOK
<1>1. ASSUME NEW r \in Applies, ApplyStep(r)
      PROVE  status'[a] # "none"
    BY <1>1 DEF ApplyStep, VerifyJob, ReadQuota, FindExisting, Upload, CreateRow,
                ReopenRow, GiveUpReopen, EmitDecrease, IndexRow
<1>2. ASSUME NEW v \in Reviews, ReviewStep(v)
      PROVE  status'[a] # "none"
    <2>1. review[v].decision # "none"
        BY DEF Review, Decision
    <2> QED
        BY <1>2, <2>1 DEF ReviewStep, OpenBatch, SkipRow, RejectBatch, DecideRow,
                          LoseLock, EmitDecision, CommitBatch
<1>3. CASE \/ \E r \in Applies, c \in Candidates, j \in Jobs : Submit(r, c, j)
           \/ \E v \in Reviews : \E yes, no \in SUBSET Applies : StartReview(v, yes, no)
           \/ \E w \in Workers : WriteCount(w) \/ \E e \in queue : ReadCount(w, e)
           \/ \E c \in Candidates : UpgradePremium(c)
           \/ \E j \in Jobs : CloseJob(j)
           \/ \E x \in Applies : RemoveApplication(x)
           \/ RestartApplications
           \/ RestartUsers
           \/ UNCHANGED vars
    BY <1>3 DEF Submit, StartReview, WriteCount, ReadCount, UpgradePremium, CloseJob,
                RemoveApplication, RestartApplications, RestartUsers, vars
<1> QED
    BY <1>1, <1>2, <1>3 DEF Next

LEMMA HeldNext ==
    ASSUME TypeInv, HeldRowsStored, [Next]_vars
    PROVE  HeldRowsStored'
<1> USE DEF TypeInv, TypeOK
<1>1. ASSUME NEW r \in Applies, apply'[r].row \in {apply[r].row, None},
             apply'[r].pc = "index" => apply'[r].row # None
      PROVE  /\ apply'[r].row # None => status'[apply'[r].row] # "none"
             /\ apply'[r].pc = "index" => apply'[r].row # None
    <2>1. apply[r].row # None => apply[r].row \in Applies
        BY DEF Apply
    <2> QED
        BY <1>1, <2>1, RowsStay DEF HeldRowsStored
<1>2. ASSUME NEW r \in Applies, apply'[r].row \in Applies, status'[apply'[r].row] # "none"
      PROVE  /\ apply'[r].row # None => status'[apply'[r].row] # "none"
             /\ apply'[r].pc = "index" => apply'[r].row # None
    BY <1>2, QuotaAssumption DEF QuotaAssumption
<1>3. ASSUME NEW r \in Applies, ApplyStep(r)
      PROVE  /\ apply'[r].row # None => status'[apply'[r].row] # "none"
             /\ apply'[r].pc = "index" => apply'[r].row # None
    <2>0. apply[r] \in Apply
        OBVIOUS
    <2>1. CASE VerifyJob(r) \/ ReadQuota(r) \/ Upload(r) \/ IndexRow(r)
        <3>1. apply'[r].row \in {apply[r].row, None} /\ apply'[r].pc # "index"
            BY <2>0, <2>1, EndedTyped
            DEF VerifyJob, ReadQuota, Upload, IndexRow, Apply, ApplyPc
        <3> QED
            BY <1>1, <3>1
    <2>2. CASE EmitDecrease(r)
        <3>1. /\ apply'[r].row \in {apply[r].row, None}
              /\ apply'[r].pc = "index" => apply'[r].row # None
            BY <2>0, <2>2, EndedTyped DEF EmitDecrease, Apply, ApplyPc
        <3> QED
            BY <1>1, <3>1
    <2>3. CASE GiveUpReopen(r)
        <3>1. apply'[r].row = None /\ apply'[r].pc # "index"
            BY <2>0, <2>3 DEF GiveUpReopen, Ended, Retried, Apply
        <3> QED
            BY <1>1, <3>1
    <2>4. CASE CreateRow(r)
        <3>1. apply'[r].row = r /\ status'[r] = "pending"
            BY <2>0, <2>4 DEF CreateRow, Apply
        <3> QED
            BY <1>2, <3>1
    <2>5. CASE ReopenRow(r)
        <3>1. apply'[r].row \in {apply[r].row, None} /\ apply'[r].pc = "emit"
            BY <2>0, <2>5 DEF ReopenRow, Apply
        <3> QED
            BY <1>1, <3>1
    <2>6. CASE FindExisting(r)
        <3>1. ASSUME apply' = [apply EXCEPT ![r].pc = "upload"]
              PROVE  apply'[r].row = apply[r].row /\ apply'[r].pc # "index"
            BY <2>0, <3>1 DEF Apply
        <3>2. ASSUME NEW a \in Found(r),
                     apply' = [apply EXCEPT ![r] =
                                  IF status[a] = "rejected"
                                  THEN [@ EXCEPT !.pc = "upload", !.row = a]
                                  ELSE Ended(@, "refused")]
              PROVE  /\ apply'[r].row \in {a, None} /\ apply'[r].pc # "index"
                     /\ a \in Applies /\ status'[a] # "none"
            <4>1. a \in Applies /\ status[a] # "none" /\ UNCHANGED status
                BY <2>6 DEF Found, Exists, FindExisting
            <4>2. apply'[r].row \in {a, None} /\ apply'[r].pc # "index"
                BY <2>0, <3>2 DEF Ended, Apply
            <4> QED
                BY <4>1, <4>2
        <3> QED
            BY <1>1, <1>2, <2>6, <3>1, <3>2 DEF FindExisting
    <2> QED
        BY <1>3, <2>1, <2>2, <2>3, <2>4, <2>5, <2>6 DEF ApplyStep
<1>4. ASSUME NEW r \in Applies, ApplyStep(r), NEW s \in Applies, s # r
      PROVE  apply'[s] = apply[s]
    BY <1>4, ApplyStepMoves DEF MovesTo
<1>5. ASSUME NEW r \in Applies, NEW c \in Candidates, NEW j \in Jobs, Submit(r, c, j)
      PROVE  \A s \in Applies : /\ apply'[s].row = apply[s].row
                                /\ apply'[s].pc = "index" => apply[s].pc = "index"
    BY <1>5 DEF Submit, Apply
<1>6. ASSUME RestartApplications
      PROVE  \A s \in Applies : /\ apply'[s].row \in {apply[s].row, None}
                                /\ apply'[s].pc # "index"
    BY <1>6, EndedTyped DEF RestartApplications, Apply, ApplyPc
<1>7. ASSUME NEW v \in Reviews, ReviewStep(v)
      PROVE  UNCHANGED apply
    BY <1>7 DEF ReviewStep, OpenBatch, SkipRow, RejectBatch, DecideRow, LoseLock,
                EmitDecision, CommitBatch
<1>8. ASSUME \/ \E v \in Reviews : \E yes, no \in SUBSET Applies : StartReview(v, yes, no)
             \/ \E w \in Workers : WriteCount(w) \/ \E e \in queue : ReadCount(w, e)
             \/ \E c \in Candidates : UpgradePremium(c)
             \/ \E j \in Jobs : CloseJob(j)
             \/ \E a \in Applies : RemoveApplication(a)
             \/ RestartUsers
             \/ UNCHANGED vars
      PROVE  UNCHANGED apply
    BY <1>8 DEF StartReview, WriteCount, ReadCount, UpgradePremium, CloseJob,
                RemoveApplication, RestartUsers, vars
<1> SUFFICES ASSUME NEW s \in Applies
             PROVE  /\ apply'[s].row # None => status'[apply'[s].row] # "none"
                    /\ apply'[s].pc = "index" => apply'[s].row # None
    BY DEF HeldRowsStored
<1>9. CASE UNCHANGED apply
    BY <1>1, <1>9 DEF HeldRowsStored
<1>10. CASE \E r \in Applies : ApplyStep(r)
    <2>1. PICK r \in Applies : ApplyStep(r)
        BY <1>10
    <2>2. CASE s = r
        BY <1>3, <2>1, <2>2
    <2>3. CASE s # r
        BY <1>1, <1>4, <2>1, <2>3 DEF HeldRowsStored
    <2> QED
        BY <2>2, <2>3
<1>11. CASE \E r \in Applies, c \in Candidates, j \in Jobs : Submit(r, c, j)
    BY <1>1, <1>5, <1>11 DEF HeldRowsStored
<1>12. CASE RestartApplications
    BY <1>1, <1>6, <1>12
<1> QED
    BY <1>7, <1>8, <1>9, <1>10, <1>11, <1>12 DEF Next

LEMMA IndexNext == TypeInv /\ IndexInv /\ [Next]_vars => IndexInv'
<1> SUFFICES ASSUME TypeInv, IndexInv, [Next]_vars, NEW a \in Applies,
                    index'[a] # "none"
             PROVE  status'[a] # "none"
    BY HeldNext DEF IndexInv, IndexFollowsRows
<1> USE DEF TypeInv, TypeOK
<1>1. CASE index[a] # "none"
    BY <1>1, RowsStay DEF IndexInv, IndexFollowsRows
<1>2. ASSUME NEW r \in Applies, IndexRow(r), index[a] = "none"
      PROVE  status[a] # "none"
    BY <1>2 DEF IndexRow, IndexInv, HeldRowsStored
<1>3. ASSUME RestartApplications, index[a] = "none"
      PROVE  status[a] # "none"
    BY <1>3 DEF RestartApplications, Exists
<1>4. ASSUME NEW r \in Applies, ApplyStep(r), index[a] = "none"
      PROVE  status[a] # "none"
    BY <1>2, <1>4 DEF ApplyStep, VerifyJob, ReadQuota, FindExisting, Upload, CreateRow,
                      ReopenRow, GiveUpReopen, EmitDecrease
<1>5. ASSUME NEW v \in Reviews, ReviewStep(v)
      PROVE  UNCHANGED index
    BY <1>5 DEF ReviewStep, OpenBatch, SkipRow, RejectBatch, DecideRow, LoseLock,
                EmitDecision, CommitBatch
<1>6. ASSUME \/ \E r \in Applies, c \in Candidates, j \in Jobs : Submit(r, c, j)
             \/ \E v \in Reviews : \E yes, no \in SUBSET Applies : StartReview(v, yes, no)
             \/ \E w \in Workers : WriteCount(w) \/ \E e \in queue : ReadCount(w, e)
             \/ \E c \in Candidates : UpgradePremium(c)
             \/ \E j \in Jobs : CloseJob(j)
             \/ \E x \in Applies : RemoveApplication(x)
             \/ RestartUsers
             \/ UNCHANGED vars
      PROVE  UNCHANGED index
    BY <1>6 DEF Submit, StartReview, WriteCount, ReadCount, UpgradePremium, CloseJob,
                RemoveApplication, RestartUsers, vars
<1>7. CASE index[a] = "none"
    BY <1>3, <1>4, <1>5, <1>6, <1>7, RowsStay DEF Next
<1> QED
    BY <1>1, <1>7

\* An application is in the search index only if its row has been stored at some time.
THEOREM IndexSound == Spec => []IndexFollowsRows
<1>1. Init => IndexInv
    BY DEF Init, IndexInv, IndexFollowsRows, HeldRowsStored, IdleApply
<1>2. IndexInv => IndexFollowsRows
    BY DEF IndexInv
<1> QED
    BY <1>1, <1>2, IndexNext, TypeCorrect, PTL DEF Spec

\* The part of TypeCorrect that the runs check.
THEOREM ShapesKept == Spec => []TypeOK
BY TypeCorrect, PTL DEF TypeInv
=============================================================================
