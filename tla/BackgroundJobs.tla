----------------------------- MODULE BackgroundJobs -----------------------------
(***************************************************************************)
(* What BullMQ does for the services: emails, SMS, and the reports that    *)
(* three jobs generate, upload and send, each waiting for the one before.  *)
(* The emails service and the reports service both serve the emails queue, *)
(* and either takes jobs that are meant for the other.                     *)
(*                                                                         *)
(* A report's file is named by the day and the format, so that the reports *)
(* of a day share the file and its place in the store.  What a file shows  *)
(* is the version of the data it was made from.                            *)
(***************************************************************************)
EXTENDS Integers

CONSTANTS
    Letters, Texts, Reports,   \* emails and SMS of other services, and requests for reports
    Workers,      \* BullMQ workers
    Serves,       \* the processor a worker runs
    RetryLimit,   \* BULLMQ_RETRY_LIMIT
    MaxData,      \* bound: versions of the data
    MaxMishaps,   \* bound: failures, crashes of a worker, lost events
    None          \* no worker, no format

Formats    == {"csv", "pdf"}
Processors == {"emails", "report emails", "reports", "uploads", "sms"}

ASSUME JobsAssumption ==
    /\ Serves \in [Workers -> Processors]
    /\ RetryLimit \in Nat \ {0} /\ MaxData \in Nat \ {0} /\ MaxMishaps \in Nat
    /\ None \notin Workers \cup Formats

\* The jobs of a report, and the email it ends with; a second one after a crash.
Parts == {"generate", "upload", "send", "mail", "mail again"}
Jobs  == Letters \cup Texts \cup Reports \X Parts
Mails == Letters \cup Reports \X {"mail", "mail again"}

\* An email of another service, an SMS and a job of a report are different jobs.
ASSUME KindsAssumption ==
    /\ Letters \cap Texts = {}
    /\ (Letters \cup Texts) \cap (Reports \X Parts) = {}

VARIABLES
    state,     \* state[j]: where job j is
    made,      \* made[j]: failed attempts
    by,        \* by[j]: the worker that runs j
    stalled,   \* jobs whose worker crashed
    format,    \* format[p]: what report p was asked for, None if it was not
    asked,     \* history: the version of the data when p was asked for
    data,      \* the version of the data
    held,      \* held[p]: the version its generator has read
    flushing,  \* reports whose PDF is still being written
    file,      \* file[f]: the version in the file of the day, 0 if it is an older one
    store,     \* store[f]: the version that was uploaded
    sent,      \* history: what was sent
    mishaps

vars == <<state, made, by, stalled, format, asked, data, held, flushing, file, store,
          sent, mishaps>>

Queue   == <<made, by, stalled>>
Request == <<format, asked, data>>
Files   == <<held, flushing, file, store>>
Past    == <<sent, mishaps>>

States == {"none", "announced", "lost", "waiting", "children", "active", "writing",
           "worked", "delayed", "completed", "failed"}

Init ==
    /\ state = [j \in Jobs |-> "none"]
    /\ made = [j \in Jobs |-> 0]
    /\ by = [j \in Jobs |-> None]
    /\ stalled = {}
    /\ format = [p \in Reports |-> None]
    /\ asked = [p \in Reports |-> 0]
    /\ data = 1
    /\ held = [p \in Reports |-> 0]
    /\ flushing = {}
    /\ file = [f \in Formats |-> 0] /\ store = [f \in Formats |-> 0]
    /\ sent = {}
    /\ mishaps = 0

\* The jobs added by the emails and the sms producer are tried again, those of a flow
\* are not.
Attempts(j) == IF j \in Mails \cup Texts THEN RetryLimit ELSE 1

\* The processor that j is meant for, and those that may take it.
Takers(j) ==
    IF j \in Texts THEN {"sms"}
    ELSE IF j \in Mails THEN {"emails", "report emails"}
    ELSE CASE j[2] = "generate" -> {"reports"}
           [] j[2] = "upload"   -> {"uploads"}
           [] j[2] = "send"     -> {"emails", "report emails"}

Mishap == /\ mishaps < MaxMishaps
          /\ mishaps' = mishaps + 1

\* j runs in a worker of this kind, which has not done its work yet.
Runs(j, processor) == state[j] = "active" /\ Serves[by[j]] = processor

-----------------------------------------------------------------------------
(* Requests and events.                                                    *)

Becomes(j, from, to) ==
    /\ state[j] = from
    /\ state' = [state EXCEPT ![j] = to]
    /\ UNCHANGED <<Queue, Request, Files, Past>>

\* A service emits 'send-email', or 'send-sms'.
AskLetter(j) == j \in Letters /\ Becomes(j, "none", "announced")
AskText(j)   == j \in Texts /\ Becomes(j, "none", "announced")

\* EmailsProducer.sendEmail, SmsProducer.handleSendSMS
AddLetter(j) == j \in Mails /\ Becomes(j, "announced", "waiting")
AddText(j)   == j \in Texts /\ Becomes(j, "announced", "waiting")

\* createReportFlow: the three jobs are added at once; the children come first.
Flow(p) == state' = [state EXCEPT ![<<p, "generate">>] = "waiting",
                                  ![<<p, "upload">>] = "children",
                                  ![<<p, "send">>] = "children"]

AskReport(p, f) ==
    /\ format[p] = None
    /\ format' = [format EXCEPT ![p] = f]
    /\ asked' = [asked EXCEPT ![p] = data]
    /\ Flow(p)
    /\ UNCHANGED <<Queue, data, Files, Past>>

\* Jobs, applications and payments change what a report shows.
ChangeData ==
    /\ data < MaxData
    /\ data' = data + 1
    /\ UNCHANGED <<state, Queue, format, asked, Files, Past>>

-----------------------------------------------------------------------------
(* BullMQ.                                                                 *)

Take(j) ==
    /\ state[j] = "waiting"
    /\ \E w \in Workers : /\ Serves[w] \in Takers(j)
                          /\ \A i \in Jobs : by[i] # w
                          /\ by' = [by EXCEPT ![j] = w]
    /\ state' = [state EXCEPT ![j] = "active"]
    /\ UNCHANGED <<made, stalled, Request, Files, Past>>

\* Mutation: one attempt too many.
FailOnceMore(j) ==
    /\ state' = [state EXCEPT ![j] = IF made[j] < Attempts(j) THEN "delayed" ELSE "failed"]
    /\ made' = [made EXCEPT ![j] = @ + 1]
    /\ by' = [by EXCEPT ![j] = None]
    /\ UNCHANGED stalled

\* Mutation: a processor that fails adds its job anew, with all of its attempts.
AddAgain(j) ==
    /\ state' = [state EXCEPT ![j] = "waiting"]
    /\ made' = [made EXCEPT ![j] = 0]
    /\ by' = [by EXCEPT ![j] = None]
    /\ UNCHANGED stalled

\* The processor throws: after a delay the job is tried again, or it has failed.
FailJob(j) ==
    /\ state' = [state EXCEPT ![j] = IF made[j] + 1 < Attempts(j) THEN "delayed" ELSE "failed"]
    /\ made' = [made EXCEPT ![j] = @ + 1]
    /\ by' = [by EXCEPT ![j] = None]
    /\ UNCHANGED stalled

Promote(j) == Becomes(j, "delayed", "waiting")

\* The job that waits for j.
Parent(j) == CASE j[2] = "generate" -> <<j[1], "upload">>
               [] j[2] = "upload"   -> <<j[1], "send">>

Child(j)  == CASE j[2] = "upload" -> <<j[1], "generate">>
               [] j[2] = "send"   -> <<j[1], "upload">>

IsChild(j) == j \in Reports \X {"generate", "upload"}

Complete(j) ==
    /\ state[j] = "worked"
    /\ by' = [by EXCEPT ![j] = None]
    /\ state' = [i \in Jobs |-> IF i = j THEN "completed"
                                ELSE IF IsChild(j) /\ i = Parent(j) THEN "waiting"
                                ELSE state[i]]
    /\ UNCHANGED <<made, stalled, Request, Files, Past>>

-----------------------------------------------------------------------------
(* Processors.                                                             *)

\* handleSendEmail: an email of a report carries what is in the store by then.
SendLetter(j) ==
    /\ j \in Mails /\ Runs(j, "emails")
    /\ sent' = sent \cup {<<j, IF j \in Letters THEN 0 ELSE store[format[j[1]]]>>}
    /\ state' = [state EXCEPT ![j] = "worked"]
    /\ UNCHANGED <<Queue, Request, Files, mishaps>>

\* The email that the last job of a flow stands for has no template: an error, or an
\* empty email, and the job is through.
SendBlank(j) ==
    /\ j \in Reports \X {"send"} /\ Runs(j, "emails")
    /\ \/ state' = [state EXCEPT ![j] = "worked"] /\ UNCHANGED Queue
       \/ FailJob(j)
    /\ UNCHANGED <<Request, Files, Past>>

\* Mutation: a job without children values is taken for a report without a file.
TakenForReport(j) ==
    /\ j \in Mails /\ Runs(j, "report emails")
    /\ state' = [state EXCEPT ![j] = "worked"]
    /\ UNCHANGED <<Queue, Request, Files, Past>>

\* "Job ... doesn't have children values."
NoChildren(j) ==
    /\ j \in Mails /\ Runs(j, "report emails")
    /\ FailJob(j)
    /\ UNCHANGED <<Request, Files, Past>>

\* ReportsService.sendEmail: the file is announced to the emails service.
SendReport(p) ==
    LET j == <<p, "send">>
        m == IF state[<<p, "mail">>] = "none" THEN <<p, "mail">> ELSE <<p, "mail again">>
    IN  /\ Runs(j, "report emails")
        /\ state' = [state EXCEPT ![j] = "worked", ![m] = "announced"]
        /\ UNCHANGED <<Queue, Request, Files, Past>>

SendText(j) ==
    /\ j \in Texts /\ Runs(j, "sms")
    /\ sent' = sent \cup {<<j, 0>>}
    /\ state' = [state EXCEPT ![j] = "worked"]
    /\ UNCHANGED <<Queue, Request, Files, mishaps>>

\* get-report-data
ReadData(p) ==
    LET j == <<p, "generate">>
    IN  /\ Runs(j, "reports")
        /\ held' = [held EXCEPT ![p] = data]
        /\ state' = [state EXCEPT ![j] = "writing"]
        /\ UNCHANGED <<Queue, Request, flushing, file, store, Past>>

\* Mutation: nobody waits for the file.
NeverAwaited(f) == FALSE

\* writeRecords is awaited; of a PDF, nothing but that its writing has begun.
Awaited(f) == f = "csv"

Generate(p) ==
    LET j == <<p, "generate">>
    IN  /\ state[j] = "writing"
        /\ state' = [state EXCEPT ![j] = "worked"]
        /\ IF Awaited(format[p])
           THEN /\ file' = [file EXCEPT ![format[p]] = held[p]]
                /\ UNCHANGED flushing
           ELSE /\ flushing' = flushing \cup {p}
                /\ UNCHANGED file
        /\ UNCHANGED <<Queue, Request, held, store, Past>>

Flush(p) ==
    /\ p \in flushing
    /\ flushing' = flushing \ {p}
    /\ file' = [file EXCEPT ![format[p]] = held[p]]
    /\ UNCHANGED <<state, Queue, Request, held, store, Past>>

\* upload-filepath: a file of the same name is replaced.
Upload(p) ==
    LET j == <<p, "upload">>
    IN  /\ Runs(j, "uploads")
        /\ store' = [store EXCEPT ![format[p]] = file[format[p]]]
        /\ state' = [state EXCEPT ![j] = "worked"]
        /\ UNCHANGED <<Queue, Request, held, flushing, file, Past>>

-----------------------------------------------------------------------------
(* Mishaps.                                                                *)

\* No data, a service that does not answer, an upload or an email that fails.
Error(j) ==
    /\ state[j] \in {"active", "writing"}
    /\ Mishap
    /\ FailJob(j)
    /\ UNCHANGED <<Request, Files, sent>>

\* The job of a worker that is gone stalls, and is run again the first time; what its
\* process was still writing may be gone as well.
Crash(j) ==
    /\ by[j] # None
    /\ Mishap
    /\ flushing' \in {flushing, {}}
    /\ state' = [state EXCEPT ![j] = IF j \in stalled THEN "failed" ELSE "waiting"]
    /\ stalled' = stalled \cup {j}
    /\ by' = [by EXCEPT ![j] = None]
    /\ UNCHANGED <<made, Request, held, file, store, sent>>

\* An event that its service had taken when it crashed.
Lose(j) ==
    /\ state[j] = "announced"
    /\ Mishap
    /\ state' = [state EXCEPT ![j] = "lost"]
    /\ UNCHANGED <<Queue, Request, Files, sent>>

Step(j) == AddLetter(j) \/ AddText(j) \/ Take(j) \/ Promote(j) \/ Complete(j)
           \/ SendLetter(j) \/ SendBlank(j) \/ NoChildren(j) \/ SendText(j)

Report(p) == SendReport(p) \/ ReadData(p) \/ Generate(p) \/ Flush(p) \/ Upload(p)

Next ==
    \/ \E j \in Letters \cup Texts : AskLetter(j) \/ AskText(j)
    \/ \E p \in Reports, f \in Formats : AskReport(p, f)
    \/ ChangeData
    \/ \E j \in Jobs : Step(j) \/ Error(j) \/ Crash(j) \/ Lose(j)
    \/ \E p \in Reports : Report(p)

Spec == Init /\ [][Next]_vars

\* Workers take what waits for them and go on, delays end, events are delivered.
FairSpec == /\ Spec
            /\ \A j \in Jobs : WF_vars(Step(j))
            /\ \A p \in Reports : WF_vars(Report(p))

-----------------------------------------------------------------------------
(* Properties.                                                             *)

TypeOK ==
    /\ state \in [Jobs -> States]
    /\ \A j \in Jobs : made[j] \in 0 .. Attempts(j)
    /\ by \in [Jobs -> Workers \cup {None}]
    /\ stalled \in SUBSET Jobs
    /\ format \in [Reports -> Formats \cup {None}]
    /\ asked \in [Reports -> 0 .. MaxData] /\ data \in 1 .. MaxData
    /\ held \in [Reports -> 0 .. MaxData]
    /\ flushing \in SUBSET Reports
    /\ file \in [Formats -> 0 .. MaxData] /\ store \in [Formats -> 0 .. MaxData]
    /\ sent \in SUBSET (Jobs \X (0 .. MaxData))
    /\ mishaps \in 0 .. MaxMishaps

\* An email or SMS whose job has completed was sent, whichever worker had the job and
\* however often it was run: workers of two services take it from the same queue.
CompletedIsSent ==
    \A j \in Mails \cup Texts : state[j] = "completed" => \E v \in 0 .. MaxData : <<j, v>> \in sent

\* A CSV report that shares its file with no other shows nothing older than what was
\* there when it was asked for, in spite of crashes between generating, uploading, sending.
FreshUnlessShared ==
    \A p \in Reports, part \in {"mail", "mail again"}, v \in 0 .. MaxData :
        (/\ <<<<p, part>>, v>> \in sent
         /\ format[p] = "csv" /\ \A q \in Reports \ {p} : format[q] # "csv")
        => v >= asked[p]

\* Whatever was added comes to an end, although a job may be taken by the wrong worker
\* again and again; what waits for ever waits for a job of its own flow that failed.
Over(j) == state[j] \in {"none", "lost", "completed", "failed"}
Stuck(j) == /\ j \in Reports \X {"upload", "send"} /\ state[j] = "children"
            /\ \/ state[Child(j)] = "failed"
               \/ state[Child(j)] = "children" /\ state[Child(Child(j))] = "failed"
QueuesSettle == []<>(\A j \in Jobs : Over(j) \/ Stuck(j))

\* "Please check your email to receive report file."
ReportArrives ==
    \A p \in Reports :
        format[p] # None ~> \E v \in 1 .. MaxData : <<<<p, "mail">>, v>> \in sent
=============================================================================
