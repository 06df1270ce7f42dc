------------------------- MODULE BackgroundJobsProofs -------------------------
(***************************************************************************)
(* Proofs about BackgroundJobs, for any jobs, reports, workers, versions of *)
(* the data and mishaps.                                                    *)
(***************************************************************************)
EXTENDS BackgroundJobs, TLAPS

-----------------------------------------------------------------------------
(* The inductive invariant.                                                *)

\* The shape of the variables, but for the bound on the failed attempts.
Shape ==
    /\ state \in [Jobs -> States]
    /\ made \in [Jobs -> Nat]
    /\ by \in [Jobs -> Workers \cup {None}]
    /\ stalled \in SUBSET Jobs
    /\ format \in [Reports -> Formats \cup {None}]
    /\ asked \in [Reports -> 0 .. MaxData] /\ data \in 1 .. MaxData
    /\ held \in [Reports -> 0 .. MaxData]
    /\ flushing \in SUBSET Reports
    /\ file \in [Formats -> 0 .. MaxData] /\ store \in [Formats -> 0 .. MaxData]
    /\ sent \in SUBSET (Jobs \X (0 .. MaxData))
    /\ mishaps \in 0 .. MaxMishaps

\* Where the job of a part of report p is.
At(p, part) == state[<<p, part>>]

\* A report that nobody asked for has no jobs; a job of a flow waits for the one before it
\* and starts when that is completed.
FlowKept(p) ==
    /\ \A part \in Parts : At(p, part) # "none" => format[p] # None
    /\ At(p, "upload") = "none" => At(p, "generate") = "none"
    /\ At(p, "send") = "none" => At(p, "upload") = "none"
    /\ At(p, "upload") \notin {"none", "children"} => At(p, "generate") = "completed"
    /\ At(p, "send") \notin {"none", "children"} => At(p, "upload") = "completed"

\* The job that announces the report's file does so once, and once more after a crash.
MailsKept(p) ==
    /\ At(p, "mail") # "none" \/ At(p, "mail again") # "none" =>
          At(p, "send") \notin {"none", "children"}
    /\ At(p, "mail") # "none" =>
          At(p, "send") \in {"worked", "completed"} \/ <<p, "send">> \in stalled
    /\ At(p, "mail again") # "none" =>
          At(p, "send") \in {"worked", "completed", "failed"} /\ <<p, "send">> \in stalled

FlowsKept == \A p \in Reports : FlowKept(p) /\ MailsKept(p)

\* A job that has not failed has an attempt left, and a worker has what it runs.
JobKept(j) ==
    /\ made[j] <= Attempts(j)
    /\ state[j] # "failed" => made[j] < Attempts(j)
    /\ by[j] # None => state[j] \in {"active", "writing", "worked"}

JobsKept == \A j \in Jobs : JobKept(j)

\* An email or SMS is through when it was sent.
WorkedIsSent ==
    \A j \in Mails \cup Texts :
        state[j] \in {"worked", "completed"} => \E v \in 0 .. MaxData : <<j, v>> \in sent

\* Report p shares its file with no other.
Alone(p) == format[p] = "csv" /\ \A q \in Reports \ {p} : format[q] # "csv"

\* What p was asked to show has got as far as its jobs have.
FreshKept(p) ==
    /\ At(p, "generate") = "writing" => held[p] >= asked[p]
    /\ At(p, "generate") \in {"worked", "completed"} => file["csv"] >= asked[p]
    /\ At(p, "upload") \in {"worked", "completed"} => store["csv"] >= asked[p]
    /\ \A part \in Parts, v \in 0 .. MaxData : <<<<p, part>>, v>> \in sent => v >= asked[p]

FreshAlone == \A p \in Reports : Alone(p) => FreshKept(p)

\* The data only grow, what is still being written is a PDF, and nothing is sent of a
\* report that was not asked for.
HistoryKept ==
    /\ \A p \in Reports : asked[p] <= data
    /\ \A p \in flushing : format[p] = "pdf"
    /\ \A p \in Reports, part \in Parts, v \in 0 .. MaxData :
          <<<<p, part>>, v>> \in sent => format[p] # None

JobsInv == /\ Shape /\ FlowsKept /\ JobsKept /\ WorkedIsSent
           /\ FreshAlone /\ HistoryKept

-----------------------------------------------------------------------------
(* The jobs and their kinds.                                               *)

LEMMA PartsAreJobs ==
    ASSUME NEW p \in Reports, NEW part \in Parts
    PROVE  /\ <<p, part>> \in Jobs /\ <<p, part>> \notin Letters \cup Texts
           /\ <<p, part>> \in Mails <=> part \in {"mail", "mail again"}
<1>1. <<p, part>> \in Reports \X Parts
    OBVIOUS
<1>2. <<p, part>> \in Jobs /\ <<p, part>> \notin Letters \cup Texts
    BY <1>1, KindsAssumption DEF KindsAssumption, Jobs
<1>3. <<p, part>> \in Reports \X {"mail", "mail again"} <=> part \in {"mail", "mail again"}
    OBVIOUS
<1> QED
    BY <1>2, <1>3 DEF Mails

LEMMA MailsAreJobs == Mails \subseteq Jobs /\ Texts \subseteq Jobs /\ Letters \subseteq Jobs
BY DEF Mails, Jobs, Parts

LEMMA SomeAttempts == \A j \in Jobs : Attempts(j) \in Nat \ {0}
BY JobsAssumption DEF JobsAssumption, Attempts

-----------------------------------------------------------------------------
(* A job that moves from one place to another.                             *)

\* Job j goes from where it can be moved to s; after a crash it is run again, once.
Moves(j, s) ==
    /\ state' = [state EXCEPT ![j] = s]
    /\ state[j] \in {"announced", "waiting", "active", "writing", "worked", "delayed"}
    /\ s \in States \ {"none", "children", "completed"}
    /\ state[j] = "worked" => j \in stalled' /\ (j \in stalled => s = "failed")
    /\ stalled \subseteq stalled' /\ UNCHANGED format

LEMMA FlowsMove ==
    ASSUME Shape, FlowsKept, NEW j \in Jobs, NEW s, Moves(j, s)
    PROVE  FlowsKept'
<1> SUFFICES ASSUME NEW p \in Reports PROVE FlowKept(p)' /\ MailsKept(p)'
    BY DEF FlowsKept
<1>1. \A part \in Parts : IF <<p, part>> = j THEN At(p, part)' = s
                                            ELSE At(p, part)' = At(p, part)
    BY PartsAreJobs DEF Moves, Shape, At
<1>2. FlowKept(p) /\ MailsKept(p)
    BY DEF FlowsKept
<1>3. \A part \in Parts : <<p, part>> = j => At(p, part) = state[j]
    BY DEF At
<1>4. FlowKept(p)'
    BY <1>1, <1>2, <1>3 DEF FlowKept, Moves, Parts
<1>5. MailsKept(p)'
    BY <1>1, <1>2, <1>3 DEF MailsKept, Moves, Parts
<1> QED
    BY <1>4, <1>5

\* A job that moves without a worker or an attempt, or in the hands of its worker.
LEMMA JobsMove ==
    ASSUME Shape, JobsKept, NEW j \in Jobs, NEW s, state' = [state EXCEPT ![j] = s],
           state[j] # "failed", s # "failed", UNCHANGED <<made, by>>,
           by[j] # None => s \in {"active", "writing", "worked"}
    PROVE  JobsKept'
<1> SUFFICES ASSUME NEW i \in Jobs PROVE JobKept(i)'
    BY DEF JobsKept
<1> QED
    BY DEF Shape, JobsKept, JobKept, Attempts

LEMMA JobsFail ==
    ASSUME Shape, JobsKept, NEW j \in Jobs, FailJob(j), state[j] \in {"active", "writing"}
    PROVE  /\ JobsKept' /\ \E s \in {"delayed", "failed"} : state' = [state EXCEPT ![j] = s]
           /\ made' \in [Jobs -> Nat] /\ by' \in [Jobs -> Workers \cup {None}]
           /\ UNCHANGED stalled
<1>1. Attempts(j) \in Nat /\ made[j] \in Nat /\ made[j] < Attempts(j)
    BY SomeAttempts DEF Shape, JobsKept, JobKept
<1>2. PICK s \in {"delayed", "failed"} :
          /\ state' = [state EXCEPT ![j] = s]
          /\ s # "failed" => made[j] + 1 < Attempts(j)
    BY DEF FailJob
<1>3. /\ made' = [made EXCEPT ![j] = made[j] + 1] /\ by' = [by EXCEPT ![j] = None]
      /\ UNCHANGED stalled
    BY DEF FailJob
<1>4. ASSUME NEW i \in Jobs PROVE JobKept(i)'
    <2>1. CASE i = j
        <3>1. state'[i] = s /\ made'[i] = made[j] + 1 /\ by'[i] = None
            BY <1>2, <1>3, <2>1 DEF Shape
        <3>2. made[j] + 1 <= Attempts(j) /\ (s # "failed" => made[j] + 1 < Attempts(j))
            BY <1>1, <1>2
        <3> QED
            BY <2>1, <3>1, <3>2 DEF JobKept, Attempts
    <2>2. CASE i # j
        <3>1. state'[i] = state[i] /\ made'[i] = made[i] /\ by'[i] = by[i]
            BY <1>2, <1>3, <2>2 DEF Shape
        <3> QED
            BY <3>1 DEF JobsKept, JobKept, Attempts
    <2> QED
        BY <2>1, <2>2
<1>5. made' \in [Jobs -> Nat] /\ by' \in [Jobs -> Workers \cup {None}]
    BY <1>1, <1>3 DEF Shape
<1> QED
    BY <1>2, <1>3, <1>4, <1>5 DEF JobsKept

\* What was sent stays so; a job that is not an email or SMS, or is not through, needs
\* nothing more.
LEMMA SentMove ==
    ASSUME Shape, WorkedIsSent, NEW j \in Jobs, NEW s, state' = [state EXCEPT ![j] = s],
           sent \subseteq sent',
           j \notin Mails \cup Texts \/ s \notin {"worked", "completed"}
    PROVE  WorkedIsSent'
<1>1. \A i \in Mails \cup Texts :
          state'[i] \in {"worked", "completed"} => state[i] \in {"worked", "completed"}
    BY MailsAreJobs DEF Shape
<1> QED
    BY <1>1 DEF WorkedIsSent

\* A job that does not begin to write and is not through adds nothing to what a file shows.
LEMMA FreshMove ==
    ASSUME Shape, FreshAlone, NEW j \in Jobs, NEW s, state' = [state EXCEPT ![j] = s],
           \/ s \notin {"writing", "worked", "completed"}
           \/ j \notin Reports \X {"generate", "upload"},
           UNCHANGED <<format, asked, held, file, store, sent>>
    PROVE  FreshAlone'
<1> SUFFICES ASSUME NEW p \in Reports, Alone(p)' PROVE FreshKept(p)'
    BY DEF FreshAlone
<1>1. FreshKept(p)
    BY DEF FreshAlone, Alone
<1>2. \A part \in {"generate", "upload"} :
          \/ At(p, part)' = At(p, part)
          \/ At(p, part)' \notin {"writing", "worked", "completed"}
    <2> TAKE part \in {"generate", "upload"}
    <2>1. <<p, part>> \in Jobs
        BY PartsAreJobs DEF Parts
    <2> QED
        BY <2>1 DEF Shape, At
<1> QED
    BY <1>1, <1>2 DEF FreshKept

LEMMA HistoryMove ==
    ASSUME HistoryKept, UNCHANGED <<format, asked, data, sent>>, flushing' \subseteq flushing
    PROVE  HistoryKept'
BY DEF HistoryKept

-----------------------------------------------------------------------------
(* The steps of the queue.                                                 *)

\* A step of one job that the files and what was sent have no part in.
LEMMA QuietMove ==
    ASSUME JobsInv, NEW j \in Jobs, NEW s \in States, Moves(j, s),
           s \notin {"writing", "worked"},
           UNCHANGED <<format, asked, data, held, file, store, sent>>,
           flushing' \subseteq flushing,
           JobsKept', made' \in [Jobs -> Nat], by' \in [Jobs -> Workers \cup {None}],
           stalled' \in SUBSET Jobs, mishaps' \in 0 .. MaxMishaps
    PROVE  JobsInv'
<1>1. /\ Shape /\ FlowsKept /\ JobsKept /\ WorkedIsSent /\ FreshAlone /\ HistoryKept
      /\ state' = [state EXCEPT ![j] = s] /\ s # "completed"
    BY DEF JobsInv, Moves
<1>2. Shape'
    BY <1>1 DEF Shape
<1>3. FlowsKept'
    BY <1>1, FlowsMove
<1>4. WorkedIsSent'
    BY <1>1, SentMove
<1>5. FreshAlone'
    BY <1>1, FreshMove
<1>6. HistoryKept'
    BY <1>1, HistoryMove
<1> QED
    BY <1>2, <1>3, <1>4, <1>5, <1>6 DEF JobsInv

LEMMA BecomesStep ==
    ASSUME JobsInv, NEW j \in Jobs, NEW from \in {"announced", "delayed"},
           Becomes(j, from, "waiting")
    PROVE  JobsInv'
<1>1. Shape /\ JobsKept /\ UNCHANGED <<made, by, stalled, format, asked, data, held, flushing,
                                       file, store, sent, mishaps>>
    BY DEF JobsInv, Becomes, Queue, Request, Files, Past
<1>2. state[j] = from /\ state' = [state EXCEPT ![j] = "waiting"]
    BY DEF Becomes
<1>3. by[j] = None
    BY <1>1, <1>2 DEF JobsKept, JobKept
<1>4. JobsKept'
    BY <1>1, <1>2, <1>3, JobsMove
<1>5. Moves(j, "waiting")
    BY <1>1, <1>2 DEF Moves, States
<1>6. "waiting" \in States
    BY DEF States
<1> QED
    BY <1>1, <1>4, <1>5, <1>6, QuietMove DEF Shape

\* A letter or an SMS is asked for.
LEMMA AskStep ==
    ASSUME JobsInv, NEW j \in Letters \cup Texts, Becomes(j, "none", "announced")
    PROVE  JobsInv'
<1>1. /\ UNCHANGED <<made, by, stalled, format, asked, data, held, flushing,
                     file, store, sent, mishaps>>
      /\ state[j] = "none" /\ state' = [state EXCEPT ![j] = "announced"]
      /\ Shape /\ FlowsKept /\ JobsKept /\ WorkedIsSent /\ FreshAlone /\ HistoryKept
    BY DEF JobsInv, Becomes, Queue, Request, Files, Past
<1>2. j \in Jobs /\ by[j] = None
    BY <1>1, MailsAreJobs DEF JobsKept, JobKept
<1>3. Shape'
    BY <1>1 DEF Shape, States
<1>4. JobsKept'
    BY <1>1, <1>2, JobsMove
<1>5. \A p \in Reports, part \in Parts : At(p, part)' = At(p, part)
    BY <1>1, PartsAreJobs DEF Shape, At
<1>6. FlowsKept'
    BY <1>1, <1>5 DEF FlowsKept, FlowKept, MailsKept, Parts
<1>7. WorkedIsSent'
    BY <1>1, <1>2, SentMove
<1>8. FreshAlone'
    BY <1>1, <1>2, FreshMove
<1>9. HistoryKept'
    BY <1>1, HistoryMove
<1> QED
    BY <1>3, <1>4, <1>6, <1>7, <1>8, <1>9 DEF JobsInv

LEMMA TakeStep ==
    ASSUME JobsInv, NEW j \in Jobs, Take(j)
    PROVE  JobsInv'
<1>1. /\ UNCHANGED <<made, stalled, format, asked, data, held, flushing, file, store,
                     sent, mishaps>>
      /\ state[j] = "waiting" /\ state' = [state EXCEPT ![j] = "active"]
      /\ Shape /\ JobsKept
    BY DEF JobsInv, Take, Request, Files, Past
<1>2. PICK w \in Workers : by' = [by EXCEPT ![j] = w]
    BY DEF Take
<1>3. by' \in [Jobs -> Workers \cup {None}]
    BY <1>1, <1>2 DEF Shape
<1>4. JobsKept'
    <2> SUFFICES ASSUME NEW i \in Jobs PROVE JobKept(i)'
        BY DEF JobsKept
    <2> QED
        BY <1>1, <1>2 DEF Shape, JobsKept, JobKept, Attempts
<1>5. Moves(j, "active") /\ "active" \in States
    BY <1>1 DEF Moves, States
<1> QED
    BY <1>1, <1>3, <1>4, <1>5, QuietMove DEF Shape

\* A processor throws, with or without a mishap.
LEMMA FailStep ==
    ASSUME JobsInv, NEW j \in Jobs, FailJob(j), state[j] \in {"active", "writing"},
           UNCHANGED <<format, asked, data, held, flushing, file, store, sent>>,
           mishaps' \in 0 .. MaxMishaps
    PROVE  JobsInv'
<1>1. Shape /\ JobsKept
    BY DEF JobsInv
<1>2. PICK s \in {"delayed", "failed"} : state' = [state EXCEPT ![j] = s]
    BY <1>1, JobsFail
<1>3. /\ JobsKept' /\ made' \in [Jobs -> Nat] /\ by' \in [Jobs -> Workers \cup {None}]
      /\ UNCHANGED stalled
    BY <1>1, JobsFail
<1>4. Moves(j, s) /\ s \in States
    BY <1>2, <1>3 DEF Moves, States
<1> QED
    BY <1>1, <1>2, <1>3, <1>4, QuietMove DEF Shape

LEMMA CrashStep ==
    ASSUME JobsInv, NEW j \in Jobs, Crash(j)
    PROVE  JobsInv'
<1> DEFINE s == IF j \in stalled THEN "failed" ELSE "waiting"
<1>1. /\ UNCHANGED <<made, format, asked, data, held, file, store, sent>>
      /\ by[j] # None /\ state' = [state EXCEPT ![j] = s]
      /\ stalled' = stalled \cup {j} /\ by' = [by EXCEPT ![j] = None]
      /\ Shape /\ JobsKept
    BY DEF JobsInv, Crash, Request
<1>2. flushing' \subseteq flushing /\ mishaps' \in 0 .. MaxMishaps
    BY <1>1, JobsAssumption DEF Crash, Mishap, Shape, JobsAssumption
<1>3. state[j] \in {"active", "writing", "worked"}
    BY <1>1 DEF JobsKept, JobKept
<1>4. Moves(j, s) /\ s \in States /\ s \notin {"writing", "worked"}
    BY <1>1, <1>3 DEF Moves, States
<1>5. stalled' \in SUBSET Jobs /\ by' \in [Jobs -> Workers \cup {None}]
    BY <1>1 DEF Shape
<1>6. JobsKept'
    <2> SUFFICES ASSUME NEW i \in Jobs PROVE JobKept(i)'
        BY DEF JobsKept
    <2> QED
        BY <1>1, <1>3 DEF Shape, JobsKept, JobKept, Attempts
<1> HIDE DEF s
<1> QED
    BY <1>1, <1>2, <1>4, <1>5, <1>6, QuietMove DEF Shape

LEMMA LoseStep ==
    ASSUME JobsInv, NEW j \in Jobs, Lose(j)
    PROVE  JobsInv'
<1>1. /\ UNCHANGED <<made, by, stalled, format, asked, data, held, flushing, file, store, sent>>
      /\ state[j] = "announced" /\ state' = [state EXCEPT ![j] = "lost"]
      /\ Shape /\ JobsKept
    BY DEF JobsInv, Lose, Queue, Request, Files
<1>2. mishaps' \in 0 .. MaxMishaps
    BY <1>1, JobsAssumption DEF Lose, Mishap, Shape, JobsAssumption
<1>3. JobsKept'
    <2>1. by[j] = None
        BY <1>1 DEF JobsKept, JobKept
    <2> QED
        BY <1>1, <2>1, JobsMove
<1>4. Moves(j, "lost") /\ "lost" \in States
    BY <1>1 DEF Moves, States
<1> QED
    BY <1>1, <1>2, <1>3, <1>4, QuietMove DEF Shape

LEMMA ErrorStep ==
    ASSUME JobsInv, NEW j \in Jobs, Error(j)
    PROVE  JobsInv'
<1>1. mishaps' \in 0 .. MaxMishaps
    BY JobsAssumption DEF JobsInv, Error, Mishap, Shape, JobsAssumption
<1> QED
    BY <1>1, FailStep DEF Error, Request, Files

\* A job completes, and the one that waits for it starts.
LEMMA CompleteStep ==
    ASSUME JobsInv, NEW j \in Jobs, Complete(j)
    PROVE  JobsInv'
<1>1. /\ UNCHANGED <<made, stalled, format, asked, data, held, flushing, file, store,
                     sent, mishaps>>
      /\ state[j] = "worked" /\ by' = [by EXCEPT ![j] = None]
      /\ Shape /\ FlowsKept /\ JobsKept /\ WorkedIsSent /\ FreshAlone /\ HistoryKept
    BY DEF JobsInv, Complete, Request, Files, Past
<1>2. /\ state'[j] = "completed"
      /\ \A i \in Jobs : i # j => \/ state'[i] = state[i]
                                  \/ IsChild(j) /\ i = Parent(j) /\ state'[i] = "waiting"
      /\ \A i \in Jobs : i # j /\ IsChild(j) /\ i = Parent(j) => state'[i] = "waiting"
      /\ DOMAIN state' = Jobs
    BY DEF Complete
<1>3. ASSUME NEW p \in Reports, j = <<p, "generate">>
      PROVE  IsChild(j) /\ Parent(j) = <<p, "upload">>
    BY <1>3 DEF IsChild, Parent
<1>4. ASSUME NEW p \in Reports, j = <<p, "upload">>
      PROVE  IsChild(j) /\ Parent(j) = <<p, "send">>
    BY <1>4 DEF IsChild, Parent
<1>5. IsChild(j) => \E p \in Reports : \/ j = <<p, "generate">>
                                       \/ j = <<p, "upload">>
    BY DEF IsChild
<1>6. ASSUME IsChild(j)
      PROVE  Parent(j) \in Jobs /\ state[Parent(j)] = "children" /\ Parent(j) # j
             /\ Parent(j) \notin Mails \cup Texts
    <2>1. PICK p \in Reports : j = <<p, "generate">> \/ j = <<p, "upload">>
        BY <1>5, <1>6
    <2>2. FlowKept(p)
        BY <1>1 DEF FlowsKept
    <2>3. CASE j = <<p, "generate">>
        BY <1>1, <1>3, <2>2, <2>3, PartsAreJobs DEF FlowKept, At, Parts
    <2>4. CASE j = <<p, "upload">>
        BY <1>1, <1>4, <2>2, <2>4, PartsAreJobs DEF FlowKept, At, Parts
    <2> QED
        BY <2>1, <2>3, <2>4
<1>7. \A i \in Jobs : \/ i = j /\ state'[i] = "completed"
                      \/ i # j /\ state'[i] = state[i]
                      \/ /\ i # j /\ IsChild(j) /\ i = Parent(j)
                         /\ state[i] = "children" /\ state'[i] = "waiting"
    BY <1>2, <1>6
<1>8. Shape'
    <2>1. state' \in [Jobs -> States]
        BY <1>1, <1>7 DEF Complete, Shape, States
    <2> QED
        BY <1>1, <2>1 DEF Shape
<1>9. JobsKept'
    <2> SUFFICES ASSUME NEW i \in Jobs PROVE JobKept(i)'
        BY DEF JobsKept
    <2>1. by'[i] = (IF i = j THEN None ELSE by[i]) /\ JobKept(i)
        BY <1>1 DEF Shape, JobsKept
    <2>2. state'[i] # state[i] /\ i # j => by[i] = None
        BY <1>7, <2>1 DEF JobKept
    <2> QED
        BY <1>1, <1>7, <2>1, <2>2 DEF JobKept, Attempts
<1>10. FlowsKept'
    <2> SUFFICES ASSUME NEW p \in Reports PROVE FlowKept(p)' /\ MailsKept(p)'
        BY DEF FlowsKept
    <2>1. FlowKept(p) /\ MailsKept(p)
        BY <1>1 DEF FlowsKept
    <2>2. /\ <<p, "generate">> \in Jobs /\ <<p, "upload">> \in Jobs /\ <<p, "send">> \in Jobs
          /\ <<p, "mail">> \in Jobs /\ <<p, "mail again">> \in Jobs
        BY PartsAreJobs DEF Parts
    <2>3. CASE j = <<p, "generate">>
        <3>1. /\ At(p, "generate") = "worked" /\ At(p, "generate")' = "completed"
              /\ At(p, "upload") = "children" /\ At(p, "upload")' = "waiting"
              /\ \A part \in {"send", "mail", "mail again"} : At(p, part)' = At(p, part)
            <4>1. IsChild(j) /\ Parent(j) = <<p, "upload">>
                BY <1>3, <2>3
            <4>2. /\ state[j] = "worked" /\ state'[j] = "completed"
                  /\ state[<<p, "upload">>] = "children" /\ state'[<<p, "upload">>] = "waiting"
                BY <1>1, <1>2, <1>6, <2>2, <4>1
            <4>3. \A part \in {"send", "mail", "mail again"} :
                      state'[<<p, part>>] = state[<<p, part>>]
                <5> TAKE part \in {"send", "mail", "mail again"}
                <5>1. <<p, part>> \in Jobs
                    BY <2>2
                <5>2. <<p, part>> # <<p, "generate">> /\ <<p, part>> # <<p, "upload">>
                    OBVIOUS
                <5> QED
                    BY <1>7, <2>3, <4>1, <5>1, <5>2
            <4> QED
                BY <2>3, <4>2, <4>3 DEF At
        <3> QED
            BY <1>1, <2>1, <3>1 DEF FlowKept, MailsKept, Parts
    <2>4. CASE j = <<p, "upload">>
        <3>1. /\ At(p, "upload") = "worked" /\ At(p, "upload")' = "completed"
              /\ At(p, "send") = "children" /\ At(p, "send")' = "waiting"
              /\ \A part \in {"generate", "mail", "mail again"} : At(p, part)' = At(p, part)
            <4>1. IsChild(j) /\ Parent(j) = <<p, "send">>
                BY <1>4, <2>4
            <4>2. /\ state[j] = "worked" /\ state'[j] = "completed"
                  /\ state[<<p, "send">>] = "children" /\ state'[<<p, "send">>] = "waiting"
                BY <1>1, <1>2, <1>6, <2>2, <4>1
            <4>3. \A part \in {"generate", "mail", "mail again"} :
                      state'[<<p, part>>] = state[<<p, part>>]
                <5> TAKE part \in {"generate", "mail", "mail again"}
                <5>1. <<p, part>> \in Jobs
                    BY <2>2
                <5>2. <<p, part>> # <<p, "upload">> /\ <<p, part>> # <<p, "send">>
                    OBVIOUS
                <5> QED
                    BY <1>7, <2>4, <4>1, <5>1, <5>2
            <4> QED
                BY <2>4, <4>2, <4>3 DEF At
        <3> QED
            BY <1>1, <2>1, <3>1 DEF FlowKept, MailsKept, Parts
    <2>5. CASE j \notin {<<p, "generate">>, <<p, "upload">>}
        <3>1. IsChild(j) => Parent(j)[1] # p
            BY <1>3, <1>4, <1>5, <2>5
        <3>2. \A part \in Parts : <<p, part>> # j => At(p, part)' = At(p, part)
            <4> TAKE part \in Parts
            <4>1. <<p, part>> \in Jobs /\ <<p, part>>[1] = p
                BY PartsAreJobs
            <4> QED
                BY <1>7, <3>1, <4>1 DEF At
        <3>3. \A part \in Parts : <<p, part>> = j => /\ At(p, part)' = "completed"
                                                     /\ At(p, part) = "worked"
            BY <1>1, <1>2 DEF At
        <3> QED
            BY <1>1, <2>1, <2>5, <3>2, <3>3 DEF FlowKept, MailsKept, Parts
    <2> QED
        BY <2>3, <2>4, <2>5
<1>11. WorkedIsSent'
    <2>1. \A i \in Mails \cup Texts :
              state'[i] \in {"worked", "completed"} => state[i] \in {"worked", "completed"}
        BY <1>1, <1>7, MailsAreJobs
    <2> QED
        BY <1>1, <2>1 DEF WorkedIsSent
<1>12. FreshAlone'
    <2> SUFFICES ASSUME NEW p \in Reports, Alone(p)' PROVE FreshKept(p)'
        BY DEF FreshAlone
    <2>1. FreshKept(p)
        BY <1>1 DEF FreshAlone, Alone
    <2>2. \A part \in {"generate", "upload"} :
              \/ At(p, part)' = At(p, part)
              \/ At(p, part)' = "completed" /\ At(p, part) = "worked"
              \/ At(p, part)' = "waiting"
        <3> TAKE part \in {"generate", "upload"}
        <3>1. <<p, part>> \in Jobs
            BY PartsAreJobs DEF Parts
        <3> QED
            BY <1>1, <1>7, <3>1 DEF At
    <2> QED
        BY <1>1, <2>1, <2>2 DEF FreshKept
<1>13. HistoryKept'
    BY <1>1, HistoryMove
<1> QED
    BY <1>8, <1>9, <1>10, <1>11, <1>12, <1>13 DEF JobsInv

-----------------------------------------------------------------------------
(* The steps of the processors.                                            *)

\* A running job that has done its work, or is about to write.
LEMMA WorkMove ==
    ASSUME Shape, FlowsKept, JobsKept, NEW j \in Jobs, NEW s \in {"writing", "worked"},
           state[j] \in {"active", "writing"}, state' = [state EXCEPT ![j] = s],
           UNCHANGED <<made, by, stalled, format>>
    PROVE  state' \in [Jobs -> States] /\ FlowsKept' /\ JobsKept'
<1>1. Moves(j, s)
    BY DEF Moves, States
<1>2. FlowsKept'
    BY <1>1, FlowsMove
<1>3. JobsKept'
    BY JobsMove
<1>4. state' \in [Jobs -> States]
    BY DEF Shape, States
<1> QED
    BY <1>2, <1>3, <1>4

LEMMA SendLetterStep ==
    ASSUME JobsInv, NEW j \in Jobs, SendLetter(j)
    PROVE  JobsInv'
<1> DEFINE v == IF j \in Letters THEN 0 ELSE store[format[j[1]]]
<1>1. /\ UNCHANGED <<made, by, stalled, format, asked, data, held, flushing, file, store, mishaps>>
      /\ j \in Mails /\ state[j] = "active" /\ state' = [state EXCEPT ![j] = "worked"]
      /\ sent' = sent \cup {<<j, v>>}
      /\ Shape /\ FlowsKept /\ JobsKept /\ WorkedIsSent /\ FreshAlone /\ HistoryKept
    BY DEF JobsInv, SendLetter, Runs, Queue, Request, Files
<1>2. ASSUME NEW p \in Reports, NEW part \in Parts, j = <<p, part>>
      PROVE  /\ v = store[format[p]] /\ format[p] \in Formats
             /\ Alone(p) => v >= asked[p]
    <2>1. part \in {"mail", "mail again"} /\ j \notin Letters /\ j[1] = p
        BY <1>1, <1>2, PartsAreJobs
    <2>2. FlowKept(p) /\ MailsKept(p)
        BY <1>1 DEF FlowsKept
    <2>3. At(p, part) = "active"
        BY <1>1, <1>2 DEF At
    <2>4. format[p] # None /\ At(p, "upload") = "completed"
        BY <2>1, <2>2, <2>3 DEF FlowKept, MailsKept
    <2>5. Alone(p) => store["csv"] >= asked[p] /\ format[p] = "csv"
        BY <1>1, <2>4 DEF FreshAlone, FreshKept, Alone
    <2> QED
        BY <1>1, <2>1, <2>4, <2>5 DEF Shape
<1>3. v \in 0 .. MaxData
    <2>1. CASE j \in Letters
        BY <2>1, JobsAssumption DEF JobsAssumption
    <2>2. CASE j \notin Letters
        <3>1. PICK p \in Reports, part \in Parts : j = <<p, part>>
            <4> DEFINE MailParts == {"mail", "mail again"}
            <4>1. j \in Reports \X MailParts /\ MailParts \subseteq Parts
                BY <1>1, <2>2 DEF Mails, Parts
            <4> HIDE DEF MailParts
            <4> QED
                BY <4>1
        <3> QED
            BY <1>1, <1>2, <3>1 DEF Shape
    <2> QED
        BY <2>1, <2>2
<1> HIDE DEF v
<1>4. state' \in [Jobs -> States] /\ FlowsKept' /\ JobsKept'
    BY <1>1, WorkMove
<1>5. Shape'
    BY <1>1, <1>3, <1>4 DEF Shape
<1>6. WorkedIsSent'
    <2>1. \A i \in Mails \cup Texts : i # j =>
              (state'[i] \in {"worked", "completed"} => state[i] \in {"worked", "completed"})
        BY <1>1, MailsAreJobs DEF Shape
    <2> QED
        BY <1>1, <1>3, <2>1 DEF WorkedIsSent
<1>7. FreshAlone'
    <2> SUFFICES ASSUME NEW p \in Reports, Alone(p)' PROVE FreshKept(p)'
        BY DEF FreshAlone
    <2>1. FreshKept(p) /\ Alone(p)
        BY <1>1 DEF FreshAlone, Alone
    <2>2. At(p, "generate")' = At(p, "generate") /\ At(p, "upload")' = At(p, "upload")
        <3>1. <<p, "generate">> # j /\ <<p, "upload">> # j
            BY <1>1, PartsAreJobs DEF Parts
        <3> QED
            BY <1>1, <3>1, PartsAreJobs DEF At, Shape, Parts
    <2>3. ASSUME NEW part \in Parts, NEW w \in 0 .. MaxData, <<<<p, part>>, w>> \in sent'
          PROVE  w >= asked[p]
        <3>1. CASE <<<<p, part>>, w>> \in sent
            BY <2>1, <3>1 DEF FreshKept
        <3>2. CASE <<<<p, part>>, w>> \notin sent
            <4>1. <<<<p, part>>, w>> = <<j, v>>
                BY <1>1, <2>3, <3>2
            <4>2. j = <<p, part>> /\ w = v
                BY <4>1
            <4>3. v >= asked[p]
                BY <1>2, <2>1, <4>2
            <4> QED
                BY <4>2, <4>3
        <3> QED
            BY <3>1, <3>2
    <2> QED
        BY <1>1, <2>1, <2>2, <2>3 DEF FreshKept
<1>8. HistoryKept'
    <2>1. ASSUME NEW p \in Reports, NEW part \in Parts, NEW w \in 0 .. MaxData,
                 <<<<p, part>>, w>> \in sent'
          PROVE  format[p] # None
        <3>1. CASE <<<<p, part>>, w>> \in sent
            BY <1>1, <3>1 DEF HistoryKept
        <3>2. CASE <<<<p, part>>, w>> \notin sent
            <4>1. <<p, part>> = j
                BY <1>1, <2>1, <3>2
            <4> QED
                BY <1>2, <4>1, JobsAssumption DEF JobsAssumption
        <3> QED
            BY <3>1, <3>2
    <2> QED
        BY <1>1, <2>1 DEF HistoryKept
<1> QED
    BY <1>4, <1>5, <1>6, <1>7, <1>8 DEF JobsInv

LEMMA SendTextStep ==
    ASSUME JobsInv, NEW j \in Jobs, SendText(j)
    PROVE  JobsInv'
<1>1. /\ UNCHANGED <<made, by, stalled, format, asked, data, held, flushing, file, store, mishaps>>
      /\ j \in Texts /\ state[j] = "active" /\ state' = [state EXCEPT ![j] = "worked"]
      /\ sent' = sent \cup {<<j, 0>>}
      /\ Shape /\ FlowsKept /\ JobsKept /\ WorkedIsSent /\ FreshAlone /\ HistoryKept
    BY DEF JobsInv, SendText, Runs, Queue, Request, Files
<1>2. \A p \in Reports, part \in Parts : <<p, part>> # j
    BY <1>1, PartsAreJobs
<1>3. 0 \in 0 .. MaxData
    BY JobsAssumption DEF JobsAssumption
<1>4. state' \in [Jobs -> States] /\ FlowsKept' /\ JobsKept'
    BY <1>1, WorkMove
<1>5. Shape'
    BY <1>1, <1>3, <1>4 DEF Shape
<1>6. WorkedIsSent'
    <2>1. \A i \in Mails \cup Texts : i # j =>
              (state'[i] \in {"worked", "completed"} => state[i] \in {"worked", "completed"})
        BY <1>1, MailsAreJobs DEF Shape
    <2> QED
        BY <1>1, <1>3, <2>1 DEF WorkedIsSent
<1>7. \A p \in Reports, part \in Parts, w \in 0 .. MaxData :
          <<<<p, part>>, w>> \in sent' => <<<<p, part>>, w>> \in sent
    BY <1>1, <1>2
<1>8. FreshAlone'
    <2> SUFFICES ASSUME NEW p \in Reports, Alone(p)' PROVE FreshKept(p)'
        BY DEF FreshAlone
    <2>1. FreshKept(p)
        BY <1>1 DEF FreshAlone, Alone
    <2>2. At(p, "generate")' = At(p, "generate") /\ At(p, "upload")' = At(p, "upload")
        BY <1>1, <1>2, PartsAreJobs DEF At, Shape, Parts
    <2> QED
        BY <1>1, <1>7, <2>1, <2>2 DEF FreshKept
<1>9. HistoryKept'
    BY <1>1, <1>7 DEF HistoryKept
<1> QED
    BY <1>4, <1>5, <1>6, <1>8, <1>9 DEF JobsInv

LEMMA SendBlankStep ==
    ASSUME JobsInv, NEW j \in Jobs, SendBlank(j)
    PROVE  JobsInv'
<1>1. /\ UNCHANGED <<format, asked, data, held, flushing, file, store, sent, mishaps>>
      /\ state[j] = "active"
      /\ Shape /\ FlowsKept /\ JobsKept /\ WorkedIsSent /\ FreshAlone /\ HistoryKept
    BY DEF JobsInv, SendBlank, Runs, Request, Files, Past
<1>2. CASE FailJob(j)
    BY <1>1, <1>2, FailStep DEF Shape
<1>3. CASE state' = [state EXCEPT ![j] = "worked"] /\ UNCHANGED Queue
    <2>1. UNCHANGED <<made, by, stalled>>
        BY <1>3 DEF Queue
    <2>2. PICK p \in Reports : j = <<p, "send">>
        BY DEF SendBlank
    <2>3. j \notin Mails \cup Texts /\ j \notin Reports \X {"generate", "upload"}
        BY <2>2, PartsAreJobs DEF Parts
    <2>4. state' \in [Jobs -> States] /\ FlowsKept' /\ JobsKept'
        BY <1>1, <1>3, <2>1, WorkMove
    <2>5. Shape'
        BY <1>1, <2>1, <2>4 DEF Shape
    <2>6. WorkedIsSent' /\ FreshAlone' /\ HistoryKept'
        BY <1>1, <1>3, <2>3, SentMove, FreshMove, HistoryMove
    <2> QED
        BY <2>4, <2>5, <2>6 DEF JobsInv
<1> QED
    BY <1>2, <1>3 DEF SendBlank

LEMMA NoChildrenStep ==
    ASSUME JobsInv, NEW j \in Jobs, NoChildren(j)
    PROVE  JobsInv'
BY FailStep DEF NoChildren, Runs, JobsInv, Shape, Request, Files, Past

\* The job of a part of a flow that is through with its work.
LEMMA PartMoves ==
    ASSUME JobsInv, NEW p \in Reports, NEW part \in {"generate", "upload", "send"},
           NEW s \in {"writing", "worked"}, At(p, part) \in {"active", "writing"},
           state' = [state EXCEPT ![<<p, part>>] = s],
           UNCHANGED <<made, by, stalled, format, asked, data, sent, mishaps>>
    PROVE  /\ state' \in [Jobs -> States] /\ FlowsKept' /\ JobsKept' /\ WorkedIsSent'
           /\ \A q \in Reports, x \in Parts :
                 At(q, x)' = IF q = p /\ x = part THEN s ELSE At(q, x)
           /\ format[p] \in Formats
<1>1. Shape /\ FlowsKept /\ JobsKept /\ WorkedIsSent
    BY DEF JobsInv
<1>2. part \in Parts /\ part \notin {"mail", "mail again"}
    BY DEF Parts
<1>3. <<p, part>> \in Jobs /\ <<p, part>> \notin Mails /\ <<p, part>> \notin Texts
    BY <1>2, PartsAreJobs
<1>4. state[<<p, part>>] \in {"active", "writing"}
    BY DEF At
<1>5. state' \in [Jobs -> States] /\ FlowsKept' /\ JobsKept'
    BY <1>1, <1>3, <1>4, WorkMove
<1>6. WorkedIsSent'
    BY <1>1, <1>3, SentMove
<1>7. ASSUME NEW q \in Reports, NEW x \in Parts
      PROVE  At(q, x)' = IF q = p /\ x = part THEN s ELSE At(q, x)
    <2>1. <<q, x>> \in Jobs
        BY PartsAreJobs
    <2> QED
        BY <1>1, <2>1 DEF At, Shape
<1>8. format[p] \in Formats
    BY <1>1, <1>2, <1>4 DEF FlowsKept, FlowKept, At, Shape
<1> QED
    BY <1>5, <1>6, <1>7, <1>8

LEMMA ReadDataStep ==
    ASSUME JobsInv, NEW p \in Reports, ReadData(p)
    PROVE  JobsInv'
<1>1. /\ UNCHANGED <<made, by, stalled, format, asked, data, flushing, file, store, sent, mishaps>>
      /\ At(p, "generate") = "active"
      /\ state' = [state EXCEPT ![<<p, "generate">>] = "writing"]
      /\ held' = [held EXCEPT ![p] = data]
      /\ Shape /\ FreshAlone /\ HistoryKept
    BY DEF JobsInv, ReadData, Runs, Queue, Request, Past, At
<1>2. /\ state' \in [Jobs -> States] /\ FlowsKept' /\ JobsKept' /\ WorkedIsSent'
      /\ \A q \in Reports, x \in Parts :
            At(q, x)' = IF q = p /\ x = "generate" THEN "writing" ELSE At(q, x)
    BY <1>1, PartMoves
<1>3. Shape'
    BY <1>1, <1>2, JobsAssumption DEF Shape, JobsAssumption
<1>4. FreshAlone'
    <2> SUFFICES ASSUME NEW q \in Reports, Alone(q)' PROVE FreshKept(q)'
        BY DEF FreshAlone
    <2>1. FreshKept(q)
        BY <1>1 DEF FreshAlone, Alone
    <2>2. q = p => held'[q] >= asked[q]
        BY <1>1 DEF Shape, HistoryKept
    <2> QED
        BY <1>1, <1>2, <2>1, <2>2 DEF FreshKept, Shape, Parts
<1>5. HistoryKept'
    BY <1>1, HistoryMove
<1> QED
    BY <1>2, <1>3, <1>4, <1>5 DEF JobsInv

LEMMA GenerateStep ==
    ASSUME JobsInv, NEW p \in Reports, Generate(p)
    PROVE  JobsInv'
<1>1. /\ UNCHANGED <<made, by, stalled, format, asked, data, held, store, sent, mishaps>>
      /\ At(p, "generate") = "writing"
      /\ state' = [state EXCEPT ![<<p, "generate">>] = "worked"]
      /\ Shape /\ FreshAlone /\ HistoryKept
    BY DEF JobsInv, Generate, Queue, Request, Past, At
<1>2. /\ state' \in [Jobs -> States] /\ FlowsKept' /\ JobsKept' /\ WorkedIsSent'
      /\ \A q \in Reports, x \in Parts :
            At(q, x)' = IF q = p /\ x = "generate" THEN "worked" ELSE At(q, x)
      /\ format[p] \in Formats
    BY <1>1, PartMoves
<1>3. \/ /\ format[p] = "csv" /\ UNCHANGED flushing
         /\ file' = [file EXCEPT !["csv"] = held[p]]
      \/ /\ format[p] = "pdf" /\ UNCHANGED file
         /\ flushing' = flushing \cup {p}
    BY <1>2 DEF Generate, Awaited, Formats
<1>4. Shape'
    BY <1>1, <1>2, <1>3 DEF Shape, Formats
<1>5. FreshAlone'
    <2> SUFFICES ASSUME NEW q \in Reports, Alone(q)' PROVE FreshKept(q)'
        BY DEF FreshAlone
    <2>1. FreshKept(q) /\ Alone(q)
        BY <1>1 DEF FreshAlone, Alone
    <2>2. CASE q = p
        <3>1. file'["csv"] = held[p] /\ held[p] >= asked[p]
            BY <1>1, <1>3, <2>1, <2>2 DEF Shape, Formats, Alone, FreshKept
        <3> QED
            BY <1>1, <1>2, <2>1, <2>2, <3>1 DEF FreshKept, Parts
    <2>3. CASE q # p
        <3>1. UNCHANGED file
            BY <1>3, <2>1, <2>3 DEF Alone
        <3> QED
            BY <1>1, <1>2, <2>1, <2>3, <3>1 DEF FreshKept, Parts
    <2> QED
        BY <2>2, <2>3
<1>6. HistoryKept'
    BY <1>1, <1>3 DEF HistoryKept
<1> QED
    BY <1>2, <1>4, <1>5, <1>6 DEF JobsInv

LEMMA UploadStep ==
    ASSUME JobsInv, NEW p \in Reports, Upload(p)
    PROVE  JobsInv'
<1>1. /\ UNCHANGED <<made, by, stalled, format, asked, data, held, flushing, file, sent, mishaps>>
      /\ At(p, "upload") = "active"
      /\ state' = [state EXCEPT ![<<p, "upload">>] = "worked"]
      /\ store' = [store EXCEPT ![format[p]] = file[format[p]]]
      /\ Shape /\ FlowsKept /\ FreshAlone /\ HistoryKept
    BY DEF JobsInv, Upload, Runs, Queue, Request, Past, At
<1>2. /\ state' \in [Jobs -> States] /\ FlowsKept' /\ JobsKept' /\ WorkedIsSent'
      /\ \A q \in Reports, x \in Parts :
            At(q, x)' = IF q = p /\ x = "upload" THEN "worked" ELSE At(q, x)
      /\ format[p] \in Formats
    BY <1>1, PartMoves
<1>3. Shape'
    BY <1>1, <1>2 DEF Shape
<1>4. FreshAlone'
    <2> SUFFICES ASSUME NEW q \in Reports, Alone(q)' PROVE FreshKept(q)'
        BY DEF FreshAlone
    <2>1. FreshKept(q) /\ Alone(q)
        BY <1>1 DEF FreshAlone, Alone
    <2>2. CASE q = p
        <3>1. At(p, "generate") = "completed"
            BY <1>1 DEF FlowsKept, FlowKept
        <3>2. store'["csv"] = file["csv"] /\ file["csv"] >= asked[p]
            BY <1>1, <2>1, <2>2, <3>1 DEF Shape, Formats, Alone, FreshKept
        <3> QED
            BY <1>1, <1>2, <2>1, <2>2, <3>2 DEF FreshKept, Parts
    <2>3. CASE q # p
        <3>1. store'["csv"] = store["csv"]
            BY <1>1, <1>2, <2>1, <2>3 DEF Alone, Shape, Formats
        <3> QED
            BY <1>1, <1>2, <2>1, <2>3, <3>1 DEF FreshKept, Parts
    <2> QED
        BY <2>2, <2>3
<1>5. HistoryKept'
    BY <1>1, HistoryMove
<1> QED
    BY <1>2, <1>3, <1>4, <1>5 DEF JobsInv

\* What is still written when its job is through is a PDF: no CSV is touched.
LEMMA FlushStep ==
    ASSUME JobsInv, NEW p \in Reports, Flush(p)
    PROVE  JobsInv'
<1>1. /\ UNCHANGED <<state, made, by, stalled, format, asked, data, held, store, sent, mishaps>>
      /\ p \in flushing /\ flushing' = flushing \ {p}
      /\ file' = [file EXCEPT ![format[p]] = held[p]]
      /\ Shape /\ FlowsKept /\ JobsKept /\ WorkedIsSent /\ FreshAlone /\ HistoryKept
    BY DEF JobsInv, Flush, Queue, Request, Past
<1>2. format[p] = "pdf" /\ file'["csv"] = file["csv"]
    BY <1>1 DEF HistoryKept, Shape, Formats
<1>3. Shape'
    BY <1>1, <1>2 DEF Shape, Formats
<1>4. FlowsKept' /\ JobsKept' /\ WorkedIsSent'
    BY <1>1 DEF FlowsKept, FlowKept, MailsKept, JobsKept, JobKept, WorkedIsSent, At, Attempts
<1>5. FreshAlone'
    BY <1>1, <1>2 DEF FreshAlone, FreshKept, Alone, At
<1>6. HistoryKept'
    BY <1>1, HistoryMove
<1> QED
    BY <1>3, <1>4, <1>5, <1>6 DEF JobsInv

\* A crash makes the last job of a flow announce the report a second time, never a third.
LEMMA SendReportStep ==
    ASSUME JobsInv, NEW p \in Reports, SendReport(p)
    PROVE  JobsInv'
<1>1. /\ UNCHANGED <<made, by, stalled, format, asked, data, held, flushing, file, store,
                     sent, mishaps>>
      /\ At(p, "send") = "active"
      /\ Shape /\ FlowsKept /\ JobsKept /\ WorkedIsSent /\ FreshAlone /\ HistoryKept
    BY DEF JobsInv, SendReport, Runs, Queue, Request, Files, Past, At
<1>2. FlowKept(p) /\ MailsKept(p)
    BY <1>1 DEF FlowsKept
<1>3. PICK m \in {"mail", "mail again"} :
          /\ state' = [state EXCEPT ![<<p, "send">>] = "worked", ![<<p, m>>] = "announced"]
          /\ m = "mail again" => At(p, "mail") # "none"
          /\ At(p, m) = "none"
    <2>1. At(p, "mail again") = "none"
        BY <1>1, <1>2 DEF MailsKept
    <2>2. CASE At(p, "mail") = "none"
        BY <2>2 DEF SendReport, At
    <2>3. CASE At(p, "mail") # "none"
        BY <2>1, <2>3 DEF SendReport, At
    <2> QED
        BY <2>2, <2>3
<1>4. /\ <<p, "send">> \in Jobs /\ <<p, m>> \in Jobs /\ m \in Parts
      /\ <<p, "send">> \notin Mails \cup Texts
    BY PartsAreJobs DEF Parts
<1>5. <<p, m>> # <<p, "send">>
    OBVIOUS
<1>6. /\ state'[<<p, "send">>] = "worked" /\ state'[<<p, m>>] = "announced"
      /\ \A j \in Jobs : j # <<p, "send">> /\ j # <<p, m>> => state'[j] = state[j]
    BY <1>1, <1>3, <1>4, <1>5 DEF Shape
<1>7. \A q \in Reports, x \in Parts :
          At(q, x)' = IF q = p /\ x = "send" THEN "worked"
                      ELSE IF q = p /\ x = m THEN "announced" ELSE At(q, x)
    <2> TAKE q \in Reports, x \in Parts
    <2>1. <<q, x>> \in Jobs
        BY PartsAreJobs
    <2> QED
        BY <1>5, <1>6, <2>1 DEF At
<1>8. Shape'
    <2>1. state' \in [Jobs -> States]
        BY <1>1, <1>3 DEF Shape, States
    <2> QED
        BY <1>1, <2>1 DEF Shape
<1>9. FlowsKept'
    <2> SUFFICES ASSUME NEW q \in Reports PROVE FlowKept(q)' /\ MailsKept(q)'
        BY DEF FlowsKept
    <2>1. FlowKept(q) /\ MailsKept(q)
        BY <1>1 DEF FlowsKept
    <2>2. FlowKept(q)'
        BY <1>1, <1>2, <1>7, <2>1 DEF FlowKept, Parts
    <2>3. MailsKept(q)'
        BY <1>1, <1>2, <1>3, <1>7, <2>1 DEF MailsKept, Parts
    <2> QED
        BY <2>2, <2>3
<1>10. JobsKept'
    <2> SUFFICES ASSUME NEW j \in Jobs PROVE JobKept(j)'
        BY DEF JobsKept
    <2>1. JobKept(j) /\ JobKept(<<p, m>>) /\ JobKept(<<p, "send">>)
        BY <1>1, <1>4 DEF JobsKept
    <2>2. state[<<p, m>>] = "none" /\ state[<<p, "send">>] = "active"
        BY <1>1, <1>3 DEF At
    <2> QED
        BY <1>1, <1>6, <2>1, <2>2 DEF JobKept, Attempts
<1>11. WorkedIsSent'
    <2>1. \A i \in Mails \cup Texts :
              state'[i] \in {"worked", "completed"} => state[i] \in {"worked", "completed"}
        BY <1>4, <1>6, MailsAreJobs
    <2> QED
        BY <1>1, <2>1 DEF WorkedIsSent
<1>12. FreshAlone'
    BY <1>1, <1>7 DEF FreshAlone, FreshKept, Alone, Parts
<1>13. HistoryKept'
    BY <1>1, HistoryMove
<1> QED
    BY <1>8, <1>9, <1>10, <1>11, <1>12, <1>13 DEF JobsInv

\* A report is asked for.
LEMMA AskReportStep ==
    ASSUME JobsInv, NEW p \in Reports, NEW f \in Formats, AskReport(p, f)
    PROVE  JobsInv'
<1>1. /\ UNCHANGED <<made, by, stalled, data, held, flushing, file, store, sent, mishaps>>
      /\ format[p] = None /\ format' = [format EXCEPT ![p] = f]
      /\ asked' = [asked EXCEPT ![p] = data]
      /\ state' = [state EXCEPT ![<<p, "generate">>] = "waiting",
                                ![<<p, "upload">>] = "children",
                                ![<<p, "send">>] = "children"]
      /\ Shape /\ FlowsKept /\ JobsKept /\ WorkedIsSent /\ FreshAlone /\ HistoryKept
    BY DEF JobsInv, AskReport, Flow, Queue, Files, Past
<1>2. FlowKept(p) /\ f # None
    BY <1>1, JobsAssumption DEF FlowsKept, JobsAssumption
<1>3. \A part \in Parts : At(p, part) = "none"
    BY <1>1, <1>2 DEF FlowKept
<1>4. /\ <<p, "generate">> \in Jobs /\ <<p, "upload">> \in Jobs /\ <<p, "send">> \in Jobs
      /\ {<<p, "generate">>, <<p, "upload">>, <<p, "send">>} \cap (Mails \cup Texts) = {}
    BY PartsAreJobs DEF Parts
<1>5. /\ state'[<<p, "generate">>] = "waiting"
      /\ state'[<<p, "upload">>] = "children" /\ state'[<<p, "send">>] = "children"
      /\ \A j \in Jobs : j \notin {<<p, "generate">>, <<p, "upload">>, <<p, "send">>}
                         => state'[j] = state[j]
      /\ state' \in [Jobs -> States]
    BY <1>1, <1>4 DEF Shape, States
<1>6. ASSUME NEW q \in Reports, NEW x \in Parts
      PROVE  At(q, x)' = IF q = p /\ x = "generate" THEN "waiting"
                         ELSE IF q = p /\ x \in {"upload", "send"} THEN "children"
                         ELSE At(q, x)
    <2>1. <<q, x>> \in Jobs
        BY PartsAreJobs
    <2> QED
        BY <1>5, <2>1 DEF At
<1>7. Shape'
    BY <1>1, <1>5 DEF Shape
<1>8. FlowsKept'
    <2> SUFFICES ASSUME NEW q \in Reports PROVE FlowKept(q)' /\ MailsKept(q)'
        BY DEF FlowsKept
    <2>1. FlowKept(q) /\ MailsKept(q)
        BY <1>1 DEF FlowsKept
    <2>2. format'[q] = IF q = p THEN f ELSE format[q]
        BY <1>1 DEF Shape
    <2>3. CASE q = p
        BY <1>1, <1>2, <1>3, <1>6, <2>2, <2>3 DEF FlowKept, MailsKept, Parts
    <2>4. CASE q # p
        BY <1>1, <1>6, <2>1, <2>2, <2>4 DEF FlowKept, MailsKept, Parts
    <2> QED
        BY <2>3, <2>4
<1>9. JobsKept'
    <2> SUFFICES ASSUME NEW j \in Jobs PROVE JobKept(j)'
        BY DEF JobsKept
    <2>1. JobKept(j)
        BY <1>1 DEF JobsKept
    <2>2. CASE j \in {<<p, "generate">>, <<p, "upload">>, <<p, "send">>}
        <3>1. state[j] = "none" /\ state'[j] # "failed"
            BY <1>3, <1>5, <2>2 DEF At, Parts
        <3> QED
            BY <1>1, <2>1, <3>1 DEF JobKept, Attempts
    <2>3. CASE j \notin {<<p, "generate">>, <<p, "upload">>, <<p, "send">>}
        BY <1>1, <1>5, <2>1, <2>3 DEF JobKept, Attempts
    <2> QED
        BY <2>2, <2>3
<1>10. WorkedIsSent'
    <2>1. \A i \in Mails \cup Texts : state'[i] = state[i]
        BY <1>4, <1>5, MailsAreJobs
    <2> QED
        BY <1>1, <2>1 DEF WorkedIsSent
<1>11. FreshAlone'
    <2> SUFFICES ASSUME NEW q \in Reports, Alone(q)' PROVE FreshKept(q)'
        BY DEF FreshAlone
    <2>1. CASE q = p
        <3>1. \A part \in Parts, v \in 0 .. MaxData : <<<<p, part>>, v>> \notin sent
            BY <1>1 DEF HistoryKept
        <3> QED
            BY <1>1, <1>3, <1>6, <2>1, <3>1 DEF FreshKept, Parts
    <2>2. CASE q # p
        <3>1. Alone(q)
            <4>1. format'[q] = format[q]
                BY <1>1, <2>2 DEF Shape
            <4>2. \A r \in Reports \ {q} : format[r] = "csv" => format'[r] = "csv"
                BY <1>1, JobsAssumption DEF Shape, JobsAssumption, Formats
            <4> QED
                BY <4>1, <4>2 DEF Alone
        <3>2. FreshKept(q) /\ asked'[q] = asked[q]
            BY <1>1, <2>2, <3>1 DEF FreshAlone, Shape
        <3> QED
            BY <1>1, <1>6, <2>2, <3>2 DEF FreshKept, Parts
    <2> QED
        BY <2>1, <2>2
<1>12. HistoryKept'
    <2>1. \A q \in Reports : asked'[q] <= data'
        BY <1>1 DEF HistoryKept, Shape
    <2>2. \A q \in flushing' : format'[q] = "pdf"
        BY <1>1, JobsAssumption DEF HistoryKept, Shape, JobsAssumption, Formats
    <2>3. \A q \in Reports : format[q] # None => format'[q] # None
        BY <1>1, <1>2 DEF Shape
    <2> QED
        BY <1>1, <2>1, <2>2, <2>3 DEF HistoryKept
<1> QED
    BY <1>7, <1>8, <1>9, <1>10, <1>11, <1>12 DEF JobsInv

LEMMA ChangeDataStep ==
    ASSUME JobsInv, ChangeData
    PROVE  JobsInv'
<1>1. /\ UNCHANGED <<state, made, by, stalled, format, asked, held, flushing, file, store,
                     sent, mishaps>>
      /\ data' = data + 1 /\ data < MaxData
      /\ Shape /\ FlowsKept /\ JobsKept /\ WorkedIsSent /\ FreshAlone /\ HistoryKept
    BY DEF JobsInv, ChangeData, Queue, Files, Past
<1>2. Shape'
    BY <1>1, JobsAssumption DEF Shape, JobsAssumption
<1>3. FlowsKept' /\ JobsKept' /\ WorkedIsSent'
    BY <1>1 DEF FlowsKept, FlowKept, MailsKept, JobsKept, JobKept, WorkedIsSent, At, Attempts
<1>4. FreshAlone'
    BY <1>1 DEF FreshAlone, FreshKept, Alone, At
<1>5. HistoryKept'
    BY <1>1 DEF HistoryKept, Shape
<1> QED
    BY <1>2, <1>3, <1>4, <1>5 DEF JobsInv

-----------------------------------------------------------------------------
(* The theorems.                                                           *)

LEMMA JobsInit == Init => JobsInv
<1> SUFFICES ASSUME Init PROVE JobsInv
    OBVIOUS
<1>1. Shape
    BY JobsAssumption DEF JobsAssumption, Init, Shape, States
<1>2. FlowsKept
    BY PartsAreJobs DEF Init, FlowsKept, FlowKept, MailsKept, At, Parts
<1>3. JobsKept
    BY SomeAttempts DEF Init, JobsKept, JobKept
<1>4. WorkedIsSent
    BY MailsAreJobs DEF Init, WorkedIsSent
<1>5. FreshAlone
    BY JobsAssumption DEF Init, FreshAlone, Alone, JobsAssumption, Formats
<1>6. HistoryKept
    BY DEF Init, HistoryKept
<1> QED
    BY <1>1, <1>2, <1>3, <1>4, <1>5, <1>6 DEF JobsInv

LEMMA JobsNext == JobsInv /\ [Next]_vars => JobsInv'
<1> SUFFICES ASSUME JobsInv, [Next]_vars PROVE JobsInv'
    OBVIOUS
<1>1. CASE UNCHANGED vars
    <2>1. Shape'
        BY <1>1 DEF vars, JobsInv, Shape
    <2>2. FlowsKept'
        BY <1>1 DEF vars, JobsInv, FlowsKept, FlowKept, MailsKept, At
    <2>3. JobsKept' /\ WorkedIsSent'
        BY <1>1 DEF vars, JobsInv, JobsKept, JobKept, Attempts, WorkedIsSent
    <2>4. FreshAlone' /\ HistoryKept'
        BY <1>1 DEF vars, JobsInv, FreshAlone, FreshKept, HistoryKept, Alone, At
    <2> QED
        BY <2>1, <2>2, <2>3, <2>4 DEF JobsInv
<1>2. ASSUME NEW j \in Letters \cup Texts, AskLetter(j) \/ AskText(j) PROVE JobsInv'
    BY <1>2, AskStep DEF AskLetter, AskText
<1>3. ASSUME NEW j \in Jobs, Step(j) \/ Error(j) \/ Crash(j) \/ Lose(j) PROVE JobsInv'
    <2>1. ASSUME AddLetter(j) \/ AddText(j) \/ Promote(j) PROVE JobsInv'
        BY <2>1, BecomesStep DEF AddLetter, AddText, Promote
    <2> QED
        BY <1>3, <2>1, TakeStep, CompleteStep, SendLetterStep, SendBlankStep, NoChildrenStep,
           SendTextStep, ErrorStep, CrashStep, LoseStep DEF Step
<1>4. ASSUME NEW p \in Reports, Report(p) PROVE JobsInv'
    BY <1>4, SendReportStep, ReadDataStep, GenerateStep, FlushStep, UploadStep DEF Report
<1> QED
    BY <1>1, <1>2, <1>3, <1>4, AskReportStep, ChangeDataStep DEF Next

LEMMA JobsAlways == Spec => []JobsInv
BY JobsInit, JobsNext, PTL DEF Spec

\* Every variable keeps its type; in particular no job is tried more often than it may be.
THEOREM TypeCorrect == Spec => []TypeOK
<1>1. JobsInv => TypeOK
    <2> SUFFICES ASSUME JobsInv PROVE TypeOK
        OBVIOUS
    <2>1. \A j \in Jobs : made[j] \in 0 .. Attempts(j)
        BY SomeAttempts DEF JobsInv, Shape, JobsKept, JobKept
    <2> QED
        BY <2>1 DEF JobsInv, Shape, TypeOK
<1> QED
    BY <1>1, JobsAlways, PTL

\* An email or SMS whose job has completed was sent, however many workers of either service
\* there are, and however often they fail, crash or take each other's jobs.
THEOREM CompletedJobsWereSent == Spec => []CompletedIsSent
<1>1. JobsInv => CompletedIsSent
    BY DEF JobsInv, WorkedIsSent, CompletedIsSent
<1> QED
    BY <1>1, JobsAlways, PTL

\* A CSV report that shares its file with no other shows nothing older than what was there
\* when it was asked for, whatever else is generated, crashes or is tried again.
THEOREM UnsharedReportsAreFresh == Spec => []FreshUnlessShared
<1>1. JobsInv => FreshUnlessShared
    BY DEF JobsInv, FreshAlone, FreshKept, Alone, FreshUnlessShared, Parts
<1> QED
    BY <1>1, JobsAlways, PTL
=============================================================================
