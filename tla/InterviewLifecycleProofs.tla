------------------------ MODULE InterviewLifecycleProofs ------------------------
(***************************************************************************)
(* Proofs about InterviewLifecycle, for any interviews, requests, edits and *)
(* failures.                                                               *)
(***************************************************************************)
EXTENDS InterviewLifecycle, TLAPS

-----------------------------------------------------------------------------
(* The inductive invariant.                                                *)

TxRec == [pc : Pc, kind : Kind \cup {None}, item : Interviews \cup {None},
          edit : Edit, admin : BOOLEAN, approve : SUBSET Interviews,
          reject : SUBSET Interviews, todo : SUBSET Interviews,
          attempt : 0 .. MaxRetries - 1,
          snap : [Interviews -> Row \cup {None}],
          own : [Interviews -> Row \cup {None, Unwritten}]]

Shape ==
    /\ row \in [Interviews -> Row \cup {None}]
    /\ doc \in [Interviews -> BOOLEAN]
    /\ tx \in [Requests -> TxRec]
    /\ notices \in SUBSET Notice
    /\ failures \in 0 .. MaxFailures

\* The statements of a transaction are those of its kind of request; a creation never
\* gets to its commit, and nothing is written before the first statement.
Fits(t) ==
    /\ t.pc \notin Ended => t.kind \in Kind
    /\ t.kind = "create" => t.pc \in {"begin", "insert", "link"}
    /\ t.pc \in {"insert", "link"} => t.kind = "create"
    /\ t.pc \in {"decide", "announce"} => t.kind \in {"approve", "reject"}
    /\ t.pc \in {"accept", "decline"} => t.kind = "respond"
    /\ t.pc \in {"change", "tell", "index"} => t.kind = "update"
    /\ t.pc \in {"drop", "erase"} => t.kind = "delete"
    /\ t.kind \in {"create", "update", "delete"} => t.item \in Interviews
    /\ t.pc \in Ended \cup {"begin"} => t.own = NoTx.own
    /\ t.pc = "decide" =>
          t.todo \subseteq (IF t.kind = "approve" THEN t.approve ELSE t.reject)

\* What row x of interview i says was told, or will be by the transaction that wrote it;
\* n are the notifications.
ToldAt(n, t, i, x) ==
    /\ x.approval = "approved" =>
          \/ <<"scheduled", i>> \in n \/ <<"response", i>> \in n
          \/ t.kind = "approve" /\ t.pc \in {"decide", "announce"} /\ i \in t.approve
    /\ x.approval = "rejected" =>
          \/ <<"cancelled by admin", i>> \in n \/ <<"response", i>> \in n
          \/ t.kind = "reject" /\ t.pc \in {"decide", "announce"} /\ i \in t.reject
    /\ x.cancelled => <<"response", i>> \in n
    /\ x.result => <<"result", i>> \in n \/ (t.pc = "tell" /\ t.item = i)

\* The rows that a transaction has written: told, and with a recruiter unless it is the one
\* that creates the interview; an answer was given to an interview that the snapshot of its
\* transaction showed open.
OwnKept(n, t) ==
    \A i \in Interviews :
        t.own[i] \notin {None, Unwritten} =>
            ToldAt(n, t, i, t.own[i]) /\ (t.kind # "create" => t.own[i].recruiter)

AnswersKept(t) ==
    t.kind = "respond" =>
        \A i \in Interviews : t.own[i] # Unwritten => Open(t.snap[i])

TxKept(n, t) == Fits(t) /\ OwnKept(n, t) /\ AnswersKept(t)

TxsKept == \A r \in Requests : TxKept(notices, tx[r])

InterviewInv == Shape /\ TxsKept /\ DecisionsAnnounced /\ NoOrphan

-----------------------------------------------------------------------------
(* Rows and transactions.                                                  *)

LEMMA NotRows == None \notin Row /\ Unwritten \notin Row /\ Unwritten # None
BY RowsAssumption, InterviewAssumption DEF RowsAssumption, InterviewAssumption

LEMMA NoTxTyped ==
    /\ NoTx \in TxRec /\ NoTx.kind = None /\ NoTx.pc = "idle"
    /\ \A i \in Interviews : NoTx.own[i] = Unwritten
BY InterviewAssumption
   DEF InterviewAssumption, NoTx, TxRec, Pc, Ended, Edit, NoEdit

LEMMA NoticesTyped ==
    ASSUME NEW i \in Interviews
    PROVE  /\ <<"response", i>> \in Notice /\ <<"result", i>> \in Notice
           /\ <<"deleted by admin", i>> \in Notice /\ <<"cancelled", i>> \in Notice
           /\ <<"scheduled", i>> \in Notice /\ <<"cancelled by admin", i>> \in Notice
BY DEF Notice

\* A transaction that is over has written nothing.
LEMMA OverKept ==
    ASSUME NEW pc \in Ended, NEW n
    PROVE  Over(pc) \in TxRec /\ TxKept(n, Over(pc))
<1>1. /\ Over(pc) \in TxRec /\ Over(pc).pc = pc /\ Over(pc).kind = None
      /\ Over(pc).own = NoTx.own
    BY NoTxTyped DEF Over, TxRec, Pc
<1>2. pc \notin {"begin", "insert", "link", "decide", "announce", "accept", "decline", "change",
                 "tell", "index", "drop", "erase", "commit"}
    BY DEF Ended
<1>3. Fits(Over(pc))
    BY <1>1, <1>2, KindAssumption DEF KindAssumption, Kind, Fits
<1>4. OwnKept(n, Over(pc)) /\ AnswersKept(Over(pc))
    BY <1>1, NoTxTyped, KindAssumption DEF OwnKept, AnswersKept, KindAssumption, Kind
<1> QED
    BY <1>1, <1>3, <1>4 DEF TxKept

\* Nor has one that begins.
LEMMA BegunKept ==
    ASSUME NEW n, NEW t \in TxRec, t.pc = "begin", t.kind \in Kind, t.own = NoTx.own,
           t.kind \in {"create", "update", "delete"} => t.item \in Interviews
    PROVE  TxKept(n, t)
<1>1. Fits(t)
    BY DEF Fits, Ended
<1>2. OwnKept(n, t) /\ AnswersKept(t)
    BY NoTxTyped DEF OwnKept, AnswersKept
<1> QED
    BY <1>1, <1>2 DEF TxKept

\* What was told stays told.
LEMMA ToldStays ==
    ASSUME NEW n, NEW m, n \subseteq m
    PROVE  \A t \in TxRec : TxKept(n, t) => TxKept(m, t)
<1>1. ASSUME NEW t, NEW i, NEW x \in Row, ToldAt(n, t, i, x) PROVE ToldAt(m, t, i, x)
    <2>1. x.cancelled \in BOOLEAN /\ x.result \in BOOLEAN
        BY DEF Row
    <2>2. \A z : z \in n => z \in m
        OBVIOUS
    <2> QED
        BY <1>1, <2>1, <2>2 DEF ToldAt
<1>2. \A t \in TxRec, i \in Interviews : t.own[i] \in Row \cup {None, Unwritten}
    BY DEF TxRec
<1>3. \A t \in TxRec : OwnKept(n, t) => OwnKept(m, t)
    BY <1>1, <1>2 DEF OwnKept
<1> QED
    BY <1>3 DEF TxKept

\* A step of one request.
LEMMA OneStep ==
    ASSUME InterviewInv, NEW r \in Requests, NEW t \in TxRec,
           tx' = [tx EXCEPT ![r] = t], TxKept(notices', t),
           notices \subseteq notices', notices' \in SUBSET Notice,
           doc' \in [Interviews -> BOOLEAN], failures' \in 0 .. MaxFailures,
           UNCHANGED row
    PROVE  InterviewInv'
<1>1. Shape'
    BY DEF InterviewInv, Shape
<1>2. TxsKept'
    <2> SUFFICES ASSUME NEW s \in Requests PROVE TxKept(notices', tx'[s])
        BY DEF TxsKept
    <2>1. tx'[s] = IF s = r THEN t ELSE tx[s]
        BY DEF InterviewInv, Shape
    <2>2. TxKept(notices', tx[s])
        BY ToldStays DEF InterviewInv, TxsKept, Shape
    <2> QED
        BY <2>1, <2>2
<1>3. DecisionsAnnounced' /\ NoOrphan'
    BY DEF InterviewInv, DecisionsAnnounced, NoOrphan
<1> QED
    BY <1>1, <1>2, <1>3 DEF InterviewInv

\* The row that a statement changes is typed, told and has its recruiter.
LEMMA CurrentKept ==
    ASSUME InterviewInv, NEW r \in Requests, NEW i \in Interviews, Current(r, i) # None
    PROVE  /\ Current(r, i) \in Row /\ ToldAt(notices, tx[r], i, Current(r, i))
           /\ tx[r].kind # "create" => Current(r, i).recruiter
<1>1. TxKept(notices, tx[r]) /\ tx[r] \in TxRec
    BY DEF InterviewInv, TxsKept, Shape
<1>2. CASE tx[r].own[i] = Unwritten
    <2>1. Current(r, i) = row[i]
        BY <1>2 DEF Current
    <2>2. row[i] \in Row
        BY <2>1 DEF InterviewInv, Shape
    <2>3. ToldAt(notices, tx[r], i, row[i]) /\ row[i].recruiter
        BY <2>1, NotRows DEF InterviewInv, DecisionsAnnounced, NoOrphan, ToldAt
    <2> QED
        BY <2>1, <2>2, <2>3
<1>3. CASE tx[r].own[i] # Unwritten
    <2>1. Current(r, i) = tx[r].own[i]
        BY <1>3 DEF Current
    <2>2. tx[r].own[i] \in Row
        BY <1>1, <1>3, <2>1 DEF TxRec
    <2> QED
        BY <1>1, <1>3, <2>1, <2>2, NotRows DEF TxKept, OwnKept
<1> QED
    BY <1>2, <1>3

\* An UPDATE writes x to the row of i, or nothing.
LEMMA WrittenKept ==
    ASSUME InterviewInv, NEW r \in Requests, NEW i \in Interviews, NEW x \in Row \cup {None}
    PROVE  /\ Written(r, i, x) \in [Interviews -> Row \cup {None, Unwritten}]
           /\ \A j \in Interviews :
                 Written(r, i, x)[j] = IF j = i /\ Current(r, i) # None THEN x
                                                                       ELSE tx[r].own[j]
           /\ Current(r, i) = None => tx[r].own[i] \in {None, Unwritten}
<1>1. tx[r] \in TxRec
    BY DEF InterviewInv, Shape
<1>2. tx[r].own \in [Interviews -> Row \cup {None, Unwritten}]
    BY <1>1 DEF TxRec
<1> QED
    BY <1>2 DEF Written, Current

-----------------------------------------------------------------------------
(* The steps.                                                              *)

LEMMA OverStep ==
    ASSUME InterviewInv, NEW r \in Requests, NEW pc \in Ended,
           tx' = [tx EXCEPT ![r] = Over(pc)],
           notices \subseteq notices', notices' \in SUBSET Notice,
           doc' \in [Interviews -> BOOLEAN], failures' \in 0 .. MaxFailures,
           UNCHANGED row
    PROVE  InterviewInv'
<1>1. Over(pc) \in TxRec /\ TxKept(notices', Over(pc))
    BY OverKept
<1> QED
    BY <1>1, OneStep

LEMMA RefuseStep ==
    ASSUME InterviewInv, NEW r \in Requests, Refuse(r)
    PROVE  InterviewInv'
<1>1. "refused" \in Ended
    BY DEF Ended
<1> QED
    BY <1>1, OverStep DEF Refuse, InterviewInv, Shape

LEMMA FailStep ==
    ASSUME InterviewInv, NEW r \in Requests, Fail(r)
    PROVE  InterviewInv'
<1>1. "failed" \in Ended
    BY DEF Ended
<1>2. failures' \in 0 .. MaxFailures
    BY InterviewAssumption DEF Fail, InterviewInv, Shape, InterviewAssumption
<1> QED
    BY <1>1, <1>2, OverStep DEF Fail, InterviewInv, Shape

\* A request of any kind is made.
LEMMA AskStep ==
    ASSUME InterviewInv, NEW r \in Requests, NEW t \in TxRec, Ask(r, t),
           t.pc = "begin", t.kind \in Kind, t.own = NoTx.own,
           t.kind \in {"create", "update", "delete"} => t.item \in Interviews
    PROVE  InterviewInv'
<1>1. TxKept(notices', t)
    BY BegunKept
<1> QED
    BY <1>1, OneStep DEF Ask, InterviewInv, Shape

LEMMA AskedTyped ==
    ASSUME NEW kind \in Kind
    PROVE  /\ Asked(kind) \in TxRec /\ Asked(kind).pc = "begin" /\ Asked(kind).kind = kind
           /\ Asked(kind).own = NoTx.own
BY NoTxTyped DEF Asked, TxRec, Pc

LEMMA AskSteps ==
    ASSUME InterviewInv, NEW r \in Requests,
           AskCreate(r) \/ AskProcess(r) \/ AskRespond(r) \/ AskUpdate(r) \/ AskDelete(r)
    PROVE  InterviewInv'
<1>1. CASE AskCreate(r)
    <2>1. PICK i \in Interviews, admin \in BOOLEAN :
              Ask(r, [Asked("create") EXCEPT !.item = i, !.admin = admin])
        BY <1>1 DEF AskCreate
    <2> DEFINE t == [Asked("create") EXCEPT !.item = i, !.admin = admin]
    <2>2. t \in TxRec /\ t.pc = "begin" /\ t.kind = "create" /\ t.own = NoTx.own /\ t.item = i
        BY AskedTyped DEF TxRec, Kind
    <2> HIDE DEF t
    <2>3. Ask(r, t)
        BY <2>1 DEF t
    <2> QED
        BY <2>2, <2>3, AskStep DEF Kind
<1>2. CASE AskProcess(r)
    <2>1. PICK A \in SUBSET Interviews, R \in SUBSET Interviews :
              Ask(r, [Asked(IF A # {} THEN "approve" ELSE "reject")
                         EXCEPT !.approve = A, !.reject = R])
        BY <1>2 DEF AskProcess
    <2> DEFINE kind == IF A # {} THEN "approve" ELSE "reject"
               t == [Asked(kind) EXCEPT !.approve = A, !.reject = R]
    <2>2. kind \in Kind /\ kind \in {"approve", "reject"}
        BY DEF Kind
    <2> HIDE DEF kind
    <2>3. /\ Asked(kind) \in TxRec /\ Asked(kind).pc = "begin" /\ Asked(kind).kind = kind
          /\ Asked(kind).own = NoTx.own
        BY <2>2, AskedTyped
    <2>5. t \in TxRec /\ t.pc = "begin" /\ t.kind = kind /\ t.own = NoTx.own
        BY <2>3 DEF TxRec
    <2> HIDE DEF t
    <2>4. Ask(r, t)
        BY <2>1 DEF t, kind
    <2> QED
        BY <2>2, <2>4, <2>5, AskStep
<1>3. CASE AskRespond(r)
    <2>1. PICK A \in SUBSET Interviews, R \in SUBSET Interviews :
              Ask(r, [Asked("respond") EXCEPT !.approve = A, !.reject = R])
        BY <1>3 DEF AskRespond
    <2> DEFINE t == [Asked("respond") EXCEPT !.approve = A, !.reject = R]
    <2>2. t \in TxRec /\ t.pc = "begin" /\ t.kind = "respond" /\ t.own = NoTx.own
        BY AskedTyped DEF TxRec, Kind
    <2> HIDE DEF t
    <2>3. Ask(r, t)
        BY <2>1 DEF t
    <2> QED
        BY <2>2, <2>3, AskStep DEF Kind
<1>4. CASE AskUpdate(r)
    <2>1. PICK i \in Interviews, e \in Edits :
              Ask(r, [Asked("update") EXCEPT !.item = i, !.edit = e])
        BY <1>4 DEF AskUpdate
    <2> DEFINE t == [Asked("update") EXCEPT !.item = i, !.edit = e]
    <2>2. e \in Edit
        BY RowsAssumption DEF RowsAssumption
    <2>3. t \in TxRec /\ t.pc = "begin" /\ t.kind = "update" /\ t.own = NoTx.own /\ t.item = i
        BY <2>2, AskedTyped DEF TxRec, Kind
    <2> HIDE DEF t
    <2>4. Ask(r, t)
        BY <2>1 DEF t
    <2> QED
        BY <2>3, <2>4, AskStep DEF Kind
<1>5. CASE AskDelete(r)
    <2>1. PICK i \in Interviews, admin \in BOOLEAN :
              Ask(r, [Asked("delete") EXCEPT !.item = i, !.admin = admin])
        BY <1>5 DEF AskDelete
    <2> DEFINE t == [Asked("delete") EXCEPT !.item = i, !.admin = admin]
    <2>2. t \in TxRec /\ t.pc = "begin" /\ t.kind = "delete" /\ t.own = NoTx.own /\ t.item = i
        BY AskedTyped DEF TxRec, Kind
    <2> HIDE DEF t
    <2>3. Ask(r, t)
        BY <2>1 DEF t
    <2> QED
        BY <2>2, <2>3, AskStep DEF Kind
<1> QED
    BY <1>1, <1>2, <1>3, <1>4, <1>5

LEMMA BeginStep ==
    ASSUME InterviewInv, NEW r \in Requests, Begin(r)
    PROVE  InterviewInv'
<1> DEFINE todo == IF tx[r].kind = "reject" THEN tx[r].reject ELSE tx[r].approve
           t == [tx[r] EXCEPT !.snap = row, !.pc = FirstPc(r), !.todo = todo]
<1>1. /\ tx[r] \in TxRec /\ Fits(tx[r]) /\ tx[r].pc = "begin"
      /\ row \in [Interviews -> Row \cup {None}]
    BY DEF InterviewInv, TxsKept, TxKept, Shape, Begin
<1>2. tx[r].kind \in Kind /\ tx[r].own = NoTx.own
    BY <1>1 DEF Fits, Ended
<1>3. /\ FirstPc(r) \in Pc /\ FirstPc(r) \notin Ended \cup {"begin", "link", "announce", "decline",
                                                        "tell", "index", "erase", "commit"}
      /\ FirstPc(r) = "insert" <=> tx[r].kind = "create"
      /\ FirstPc(r) = "decide" => tx[r].kind \in {"approve", "reject"}
      /\ FirstPc(r) = "accept" => tx[r].kind = "respond"
      /\ FirstPc(r) = "change" => tx[r].kind = "update"
      /\ FirstPc(r) = "drop" => tx[r].kind = "delete"
    BY <1>2 DEF FirstPc, Kind, Pc, Ended
<1>4. /\ t \in TxRec /\ t.pc = FirstPc(r) /\ t.kind = tx[r].kind /\ t.own = NoTx.own
      /\ t.item = tx[r].item /\ t.todo = todo /\ t.approve = tx[r].approve
      /\ t.reject = tx[r].reject
    BY <1>1, <1>2, <1>3 DEF TxRec
<1>5. tx' = [tx EXCEPT ![r] = t]
    BY DEF Begin
<1> HIDE DEF t
<1>6. Fits(t)
    BY <1>1, <1>2, <1>3, <1>4 DEF Fits
<1>7. TxKept(notices', t)
    BY <1>4, <1>6, NoTxTyped DEF TxKept, OwnKept, AnswersKept
<1> QED
    BY <1>4, <1>5, <1>7, OneStep DEF Begin, InterviewInv, Shape

\* A request is tried again, or has failed.
LEMMA ConflictStep ==
    ASSUME InterviewInv, NEW r \in Requests, Conflict(r)
    PROVE  InterviewInv'
<1>1. tx[r] \in TxRec /\ Fits(tx[r])
    BY DEF InterviewInv, TxsKept, TxKept, Shape
<1>2. tx[r].kind \in Kind
    BY <1>1 DEF Conflict, Waits, Fits, Ended
<1>3. CASE tx[r].attempt < MaxRetries - 1
    <2> DEFINE t == [tx[r] EXCEPT !.pc = "begin", !.attempt = tx[r].attempt + 1, !.todo = {},
                                  !.snap = NoTx.snap, !.own = NoTx.own]
    <2>1. tx[r].attempt + 1 \in 0 .. MaxRetries - 1
        BY <1>1, <1>3, InterviewAssumption DEF TxRec, InterviewAssumption
    <2>2. /\ t \in TxRec /\ t.pc = "begin" /\ t.kind = tx[r].kind /\ t.own = NoTx.own
          /\ t.item = tx[r].item
        BY <1>1, <2>1, NoTxTyped DEF TxRec, Pc
    <2>3. tx' = [tx EXCEPT ![r] = t]
        BY <1>3 DEF Conflict
    <2> HIDE DEF t
    <2>4. TxKept(notices', t)
        BY <1>1, <1>2, <2>2, BegunKept DEF Fits
    <2> QED
        BY <2>2, <2>3, <2>4, OneStep DEF Conflict, InterviewInv, Shape
<1>4. CASE ~(tx[r].attempt < MaxRetries - 1)
    BY <1>4, OverStep DEF Conflict, InterviewInv, Shape, Ended
<1> QED
    BY <1>3, <1>4

\* A commit: what the transaction has written becomes the rows.
LEMMA CommitStep ==
    ASSUME InterviewInv, NEW r \in Requests, Commit(r)
    PROVE  InterviewInv'
<1>1. /\ tx[r] \in TxRec /\ Fits(tx[r]) /\ tx[r].pc = "commit"
      /\ row' = [i \in Interviews |-> Current(r, i)]
      /\ tx' = [tx EXCEPT ![r] = Following(r)] /\ UNCHANGED <<doc, notices, failures>>
      /\ Shape /\ TxsKept
    BY DEF InterviewInv, TxsKept, TxKept, Shape, Commit
<1>2. tx[r].kind # "create"
    BY <1>1 DEF Fits
<1>3. ASSUME NEW i \in Interviews, row'[i] # None
      PROVE  row'[i] \in Row /\ ToldAt(notices, tx[r], i, row'[i]) /\ row'[i].recruiter
    BY <1>1, <1>2, <1>3, CurrentKept
<1>4. Following(r) \in TxRec /\ TxKept(notices, Following(r))
    <2>1. CASE tx[r].kind = "approve" /\ tx[r].reject # {}
        <3> DEFINE t == [NoTx EXCEPT !.pc = "begin", !.kind = "reject", !.reject = tx[r].reject]
        <3>1. t \in TxRec /\ t.pc = "begin" /\ t.kind = "reject" /\ t.own = NoTx.own
            BY <1>1, NoTxTyped DEF TxRec, Pc, Kind
        <3>2. Following(r) = t
            BY <2>1 DEF Following
        <3> HIDE DEF t
        <3> QED
            BY <3>1, <3>2, BegunKept DEF Kind
    <2>2. CASE ~(tx[r].kind = "approve" /\ tx[r].reject # {})
        BY <2>2, OverKept DEF Following, Ended
    <2> QED
        BY <2>1, <2>2
<1>5. Shape'
    BY <1>1, <1>3, <1>4 DEF Shape
<1>6. TxsKept'
    <2> SUFFICES ASSUME NEW s \in Requests PROVE TxKept(notices', tx'[s])
        BY DEF TxsKept
    <2> QED
        BY <1>1, <1>4 DEF TxsKept, Shape
<1>7. DecisionsAnnounced'
    BY <1>1, <1>3 DEF DecisionsAnnounced, ToldAt
<1>8. NoOrphan'
    BY <1>1, <1>3 DEF NoOrphan
<1> QED
    BY <1>5, <1>6, <1>7, <1>8 DEF InterviewInv

LEMMA InsertStep ==
    ASSUME InterviewInv, NEW r \in Requests, Insert(r)
    PROVE  InterviewInv'
<1>1. CASE Refuse(r)
    BY <1>1, RefuseStep
<1>2. CASE /\ tx' = [tx EXCEPT ![r] = [tx[r] EXCEPT !.own = Inserted(r), !.pc = "link"]]
           /\ UNCHANGED <<row, doc, notices, failures>>
    <2> DEFINE t == [tx[r] EXCEPT !.own = Inserted(r), !.pc = "link"]
    <2>1. tx[r] \in TxRec /\ TxKept(notices, tx[r]) /\ tx[r].pc = "insert"
        BY DEF InterviewInv, TxsKept, Shape, Insert
    <2>2. tx[r].kind = "create" /\ tx[r].item \in Interviews
        BY <2>1 DEF TxKept, Fits
    <2>3. NewRow \in Row /\ NewRow.approval = "pending" /\ ~NewRow.cancelled /\ ~NewRow.result
        BY DEF NewRow, Row, Statuses, Approvals
    <2>4. /\ Inserted(r) \in [Interviews -> Row \cup {None, Unwritten}]
          /\ \A i \in Interviews : Inserted(r)[i] = IF i = tx[r].item THEN NewRow
                                                                    ELSE tx[r].own[i]
        BY <2>1, <2>2, <2>3 DEF Inserted, TxRec
    <2> HIDE DEF NewRow, Inserted
    <2>5. /\ t \in TxRec /\ t.pc = "link" /\ t.kind = "create" /\ t.item = tx[r].item
          /\ t.own = Inserted(r) /\ t.approve = tx[r].approve /\ t.reject = tx[r].reject
        BY <2>1, <2>2, <2>4 DEF TxRec, Pc
    <2>6. tx' = [tx EXCEPT ![r] = t]
        BY <1>2
    <2> HIDE DEF t
    <2>7. Fits(t)
        BY <2>2, <2>5 DEF Fits, Ended, Kind
    <2>8. OwnKept(notices, t)
        <3> SUFFICES ASSUME NEW i \in Interviews, t.own[i] \notin {None, Unwritten}
                     PROVE  ToldAt(notices, t, i, t.own[i])
            BY <2>5 DEF OwnKept
        <3>1. CASE i = tx[r].item
            BY <2>3, <2>4, <2>5, <3>1 DEF ToldAt
        <3>2. CASE i # tx[r].item
            BY <2>1, <2>2, <2>4, <2>5, <3>2 DEF TxKept, OwnKept, ToldAt
        <3> QED
            BY <3>1, <3>2
    <2>9. TxKept(notices', t)
        BY <1>2, <2>5, <2>7, <2>8 DEF TxKept, AnswersKept
    <2> QED
        BY <1>2, <2>5, <2>6, <2>9, OneStep DEF InterviewInv, Shape
<1> QED
    BY <1>1, <1>2 DEF Insert

\* An administrator's decision is told after the loop that takes it.
LEMMA DecideStep ==
    ASSUME InterviewInv, NEW r \in Requests, Decide(r)
    PROVE  InterviewInv'
<1>1. /\ tx[r] \in TxRec /\ TxKept(notices, tx[r]) /\ tx[r].pc = "decide"
    BY DEF InterviewInv, TxsKept, Shape, Decide
<1>2. tx[r].kind \in {"approve", "reject"}
    BY <1>1 DEF TxKept, Fits
<1>3. PICK i \in tx[r].todo :
          \/ Refuse(r)
          \/ /\ tx' = [tx EXCEPT ![r] = [tx[r] EXCEPT
                         !.own = Written(r, i, Decided(Current(r, i), tx[r].kind)),
                         !.todo = tx[r].todo \ {i},
                         !.pc = IF tx[r].todo = {i} THEN "announce" ELSE "decide"]]
             /\ UNCHANGED <<row, doc, notices, failures>>
    BY DEF Decide
<1>4. CASE Refuse(r)
    BY <1>4, RefuseStep
<1>5. CASE /\ tx' = [tx EXCEPT ![r] = [tx[r] EXCEPT
                       !.own = Written(r, i, Decided(Current(r, i), tx[r].kind)),
                       !.todo = tx[r].todo \ {i},
                       !.pc = IF tx[r].todo = {i} THEN "announce" ELSE "decide"]]
           /\ UNCHANGED <<row, doc, notices, failures>>
    <2> DEFINE x == Decided(Current(r, i), tx[r].kind)
               own == Written(r, i, x)
               pc == IF tx[r].todo = {i} THEN "announce" ELSE "decide"
               t == [tx[r] EXCEPT !.own = own, !.todo = tx[r].todo \ {i}, !.pc = pc]
    <2>1. /\ i \in Interviews
          /\ i \in (IF tx[r].kind = "approve" THEN tx[r].approve ELSE tx[r].reject)
        BY <1>1 DEF TxKept, Fits, TxRec
    <2>2. Current(r, i) # None =>
              /\ x \in Row /\ x.recruiter = Current(r, i).recruiter
              /\ x.cancelled = Current(r, i).cancelled /\ x.result = Current(r, i).result
              /\ x.approval = IF tx[r].kind = "approve" THEN "approved" ELSE "rejected"
        BY <2>1, CurrentKept DEF Decided, Row, Approvals
    <2>3. /\ own \in [Interviews -> Row \cup {None, Unwritten}]
          /\ \A j \in Interviews : own[j] = IF j = i /\ Current(r, i) # None THEN x
                                                                           ELSE tx[r].own[j]
          /\ Current(r, i) = None => tx[r].own[i] \in {None, Unwritten}
        <3>1. tx[r].own \in [Interviews -> Row \cup {None, Unwritten}]
            BY <1>1 DEF TxRec
        <3> HIDE DEF x
        <3> QED
            BY <2>2, <3>1 DEF Written, Current
    <2>4. pc \in {"announce", "decide"}
        OBVIOUS
    <2>5. tx' = [tx EXCEPT ![r] = t]
        BY <1>5
    <2> HIDE DEF x, own, pc
    <2>6. /\ t \in TxRec /\ t.pc = pc /\ t.kind = tx[r].kind /\ t.own = own
          /\ t.approve = tx[r].approve /\ t.reject = tx[r].reject /\ t.item = tx[r].item
          /\ t.todo \subseteq tx[r].todo
        BY <1>1, <2>3, <2>4 DEF TxRec, Pc
    <2> HIDE DEF t
    <2>7. Fits(t)
        BY <1>1, <1>2, <2>4, <2>6 DEF TxKept, Fits, Ended
    <2>8. OwnKept(notices, t)
        <3> SUFFICES ASSUME NEW j \in Interviews, t.own[j] \notin {None, Unwritten}
                     PROVE  ToldAt(notices, t, j, t.own[j]) /\ t.own[j].recruiter
            BY DEF OwnKept
        <3>1. CASE j = i
            <4>1. Current(r, i) # None /\ t.own[j] = x
                BY <2>3, <2>6, <3>1
            <4>2. /\ ToldAt(notices, tx[r], i, Current(r, i)) /\ Current(r, i).recruiter
                  /\ Current(r, i) \in Row
                BY <1>2, <2>1, <4>1, CurrentKept
            <4>3. ToldAt(notices, t, i, x)
                <5>1. x.cancelled => <<"response", i>> \in notices
                    BY <2>2, <4>1, <4>2 DEF ToldAt
                <5>2. x.result => <<"result", i>> \in notices
                    BY <1>1, <2>2, <4>1, <4>2 DEF ToldAt
                <5> QED
                    BY <1>2, <2>1, <2>2, <2>4, <2>6, <4>1, <5>1, <5>2 DEF ToldAt
            <4> QED
                BY <2>2, <3>1, <4>1, <4>2, <4>3
        <3>2. CASE j # i
            <4>1. t.own[j] = tx[r].own[j] /\ t.own[j] \in Row
                BY <2>3, <2>6, <3>2
            <4>2. ToldAt(notices, tx[r], j, t.own[j]) /\ t.own[j].recruiter
                BY <1>1, <1>2, <4>1 DEF TxKept, OwnKept
            <4> QED
                BY <1>1, <2>4, <2>6, <4>1, <4>2 DEF ToldAt, Row
        <3> QED
            BY <3>1, <3>2
    <2>9. TxKept(notices', t)
        BY <1>2, <1>5, <2>6, <2>7, <2>8 DEF TxKept, AnswersKept
    <2> QED
        BY <1>5, <2>5, <2>6, <2>9, OneStep DEF InterviewInv, Shape
<1> QED
    BY <1>3, <1>4, <1>5

LEMMA AnnounceStep ==
    ASSUME InterviewInv, NEW r \in Requests, Announce(r)
    PROVE  InterviewInv'
<1> DEFINE new == IF tx[r].kind = "approve" THEN {"scheduled"} \X tx[r].approve
                                            ELSE {"cancelled by admin"} \X tx[r].reject
           t == [tx[r] EXCEPT !.pc = "commit"]
<1>1. /\ tx[r] \in TxRec /\ TxKept(notices, tx[r]) /\ tx[r].pc = "announce"
      /\ UNCHANGED <<row, doc, failures>> /\ Shape
    BY DEF InterviewInv, TxsKept, Shape, Announce
<1>2. tx[r].kind \in {"approve", "reject"}
    BY <1>1 DEF TxKept, Fits
<1>3. notices' = notices \cup new /\ tx' = [tx EXCEPT ![r] = t]
    BY DEF Announce
<1>4. new \subseteq Notice
    BY <1>1 DEF TxRec, Notice
<1>5. /\ t \in TxRec /\ t.pc = "commit" /\ t.kind = tx[r].kind /\ t.own = tx[r].own
    BY <1>1 DEF TxRec, Pc
<1>6. /\ \A i \in tx[r].approve : tx[r].kind = "approve" => <<"scheduled", i>> \in new
      /\ \A i \in tx[r].reject : tx[r].kind = "reject" => <<"cancelled by admin", i>> \in new
    OBVIOUS
<1> HIDE DEF new, t
<1>7. Fits(t)
    BY <1>1, <1>2, <1>5 DEF TxKept, Fits, Ended, Kind
<1>8. OwnKept(notices', t)
    <2> SUFFICES ASSUME NEW i \in Interviews, t.own[i] \notin {None, Unwritten}
                 PROVE  ToldAt(notices', t, i, t.own[i]) /\ t.own[i].recruiter
        BY DEF OwnKept
    <2>1. ToldAt(notices, tx[r], i, t.own[i]) /\ t.own[i].recruiter /\ t.own[i] \in Row
        BY <1>1, <1>2, <1>5 DEF TxKept, OwnKept, TxRec
    <2>2. t.own[i].cancelled \in BOOLEAN /\ t.own[i].result \in BOOLEAN
        BY <2>1 DEF Row
    <2> QED
        BY <1>1, <1>3, <1>5, <1>6, <2>1, <2>2 DEF ToldAt
<1>9. TxKept(notices', t)
    BY <1>2, <1>5, <1>7, <1>8 DEF TxKept, AnswersKept
<1> QED
    BY <1>1, <1>3, <1>4, <1>5, <1>9, OneStep DEF Shape

\* A candidate's answer is told in the pass that takes it, and only to what was open.
LEMMA RespondStep ==
    ASSUME InterviewInv, NEW r \in Requests, NEW new \in {"approved", "rejected"},
           tx[r].pc \in {"accept", "decline"}, Respond(r, new),
           UNCHANGED <<row, doc, failures>>
    PROVE  InterviewInv'
<1>1. /\ tx[r] \in TxRec /\ TxKept(notices, tx[r]) /\ Shape
    BY DEF InterviewInv, TxsKept, Shape
<1>2. tx[r].kind = "respond"
    BY <1>1 DEF TxKept, Fits
<1>3. PICK i \in tx[r].todo :
          \/ /\ tx' = [tx EXCEPT ![r].todo = tx[r].todo \ {i}] /\ UNCHANGED notices
          \/ /\ Open(Seen(r, i))
             /\ tx' = [tx EXCEPT ![r] = [tx[r] EXCEPT
                         !.own = Written(r, i, Answered(Current(r, i), new)),
                         !.todo = tx[r].todo \ {i}]]
             /\ notices' = notices \cup {<<"response", i>>}
    BY DEF Respond
<1>4. i \in Interviews
    BY <1>1 DEF TxRec
<1>5. CASE tx' = [tx EXCEPT ![r].todo = tx[r].todo \ {i}] /\ UNCHANGED notices
    <2> DEFINE t == [tx[r] EXCEPT !.todo = tx[r].todo \ {i}]
    <2>1. /\ t \in TxRec /\ t.pc = tx[r].pc /\ t.kind = tx[r].kind /\ t.own = tx[r].own
          /\ t.snap = tx[r].snap /\ t.item = tx[r].item
          /\ t.approve = tx[r].approve /\ t.reject = tx[r].reject
        BY <1>1 DEF TxRec
    <2>2. tx' = [tx EXCEPT ![r] = t]
        BY <1>5
    <2> HIDE DEF t
    <2>3. TxKept(notices', t)
        <3>1. Fits(t) /\ AnswersKept(t)
            BY <1>1, <1>2, <2>1 DEF TxKept, Fits, AnswersKept
        <3>2. OwnKept(notices', t)
            BY <1>1, <1>5, <2>1 DEF TxKept, OwnKept, ToldAt
        <3> QED
            BY <3>1, <3>2 DEF TxKept
    <2> QED
        BY <1>1, <1>5, <2>1, <2>2, <2>3, OneStep DEF Shape
<1>6. CASE /\ Open(Seen(r, i))
           /\ tx' = [tx EXCEPT ![r] = [tx[r] EXCEPT
                       !.own = Written(r, i, Answered(Current(r, i), new)),
                       !.todo = tx[r].todo \ {i}]]
           /\ notices' = notices \cup {<<"response", i>>}
    <2> DEFINE x == Answered(Current(r, i), new)
               own == Written(r, i, x)
               t == [tx[r] EXCEPT !.own = own, !.todo = tx[r].todo \ {i}]
    <2>1. Current(r, i) # None =>
              /\ x \in Row /\ x.recruiter = Current(r, i).recruiter
              /\ x.result = Current(r, i).result
        BY <1>4, CurrentKept DEF Answered, Row, Approvals
    <2>2. /\ own \in [Interviews -> Row \cup {None, Unwritten}]
          /\ \A j \in Interviews : own[j] = IF j = i /\ Current(r, i) # None THEN x
                                                                           ELSE tx[r].own[j]
          /\ Current(r, i) = None => tx[r].own[i] \in {None, Unwritten}
        <3>1. tx[r].own \in [Interviews -> Row \cup {None, Unwritten}]
            BY <1>1 DEF TxRec
        <3> HIDE DEF x
        <3> QED
            BY <2>1, <3>1 DEF Written, Current
    <2>3. tx' = [tx EXCEPT ![r] = t]
        BY <1>6
    <2> HIDE DEF x, own
    <2>4. /\ t \in TxRec /\ t.pc = tx[r].pc /\ t.kind = tx[r].kind /\ t.own = own
          /\ t.snap = tx[r].snap /\ t.item = tx[r].item
          /\ t.approve = tx[r].approve /\ t.reject = tx[r].reject
        BY <1>1, <2>2 DEF TxRec
    <2> HIDE DEF t
    <2>5. Fits(t)
        BY <1>1, <1>2, <2>4 DEF TxKept, Fits, Ended, Kind
    <2>6. OwnKept(notices', t)
        <3> SUFFICES ASSUME NEW j \in Interviews, t.own[j] \notin {None, Unwritten}
                     PROVE  ToldAt(notices', t, j, t.own[j]) /\ t.own[j].recruiter
            BY DEF OwnKept
        <3>1. CASE j = i
            <4>1. Current(r, i) # None /\ t.own[j] = x
                BY <2>2, <2>4, <3>1
            <4>2. /\ ToldAt(notices, tx[r], i, Current(r, i)) /\ Current(r, i).recruiter
                  /\ Current(r, i) \in Row
                BY <1>2, <1>4, <4>1, CurrentKept
            <4>3. x.result => <<"result", i>> \in notices'
                BY <1>6, <2>1, <4>1, <4>2 DEF ToldAt
            <4>4. <<"response", i>> \in notices'
                BY <1>6
            <4> QED
                BY <2>1, <3>1, <4>1, <4>2, <4>3, <4>4 DEF ToldAt
        <3>2. CASE j # i
            <4>1. t.own[j] = tx[r].own[j] /\ t.own[j] \in Row
                BY <2>2, <2>4, <3>2
            <4>2. ToldAt(notices, tx[r], j, t.own[j]) /\ t.own[j].recruiter
                BY <1>1, <1>2, <4>1 DEF TxKept, OwnKept
            <4>3. \A z : z \in notices => z \in notices'
                BY <1>6
            <4> QED
                BY <2>4, <4>1, <4>2, <4>3 DEF ToldAt, Row
        <3> QED
            BY <3>1, <3>2
    <2>7. AnswersKept(t)
        <3> SUFFICES ASSUME NEW j \in Interviews, t.own[j] # Unwritten
                     PROVE  Open(t.snap[j])
            BY DEF AnswersKept
        <3>1. CASE tx[r].own[j] # Unwritten
            BY <1>1, <1>2, <2>4, <3>1 DEF TxKept, AnswersKept
        <3>2. CASE tx[r].own[j] = Unwritten
            BY <1>6, <2>2, <2>4, <3>2 DEF Seen
        <3> QED
            BY <3>1, <3>2
    <2>8. TxKept(notices', t)
        BY <2>5, <2>6, <2>7 DEF TxKept
    <2>9. notices' \in SUBSET Notice /\ notices \subseteq notices'
        BY <1>1, <1>4, <1>6, NoticesTyped DEF Shape
    <2> QED
        BY <1>1, <2>3, <2>4, <2>8, <2>9, OneStep DEF Shape
<1> QED
    BY <1>3, <1>5, <1>6

\* A step that changes a transaction's place only.
LEMMA PlaceStep ==
    ASSUME InterviewInv, NEW r \in Requests, NEW t \in TxRec, tx' = [tx EXCEPT ![r] = t],
           t.kind = tx[r].kind, t.item = tx[r].item, t.own = tx[r].own, t.snap = tx[r].snap,
           t.approve = tx[r].approve, t.reject = tx[r].reject,
           Fits(t), tx[r].pc \notin {"decide", "announce"},
           tx[r].pc = "tell" => <<"result", tx[r].item>> \in notices',
           notices \subseteq notices', notices' \in SUBSET Notice,
           doc' \in [Interviews -> BOOLEAN], UNCHANGED <<row, failures>>
    PROVE  InterviewInv'
<1>1. tx[r] \in TxRec /\ TxKept(notices, tx[r]) /\ Shape
    BY DEF InterviewInv, TxsKept, Shape
<1>2. OwnKept(notices', t)
    <2> SUFFICES ASSUME NEW i \in Interviews, t.own[i] \notin {None, Unwritten}
                 PROVE  /\ ToldAt(notices', t, i, t.own[i])
                        /\ t.kind # "create" => t.own[i].recruiter
        BY DEF OwnKept
    <2>1. /\ ToldAt(notices, tx[r], i, t.own[i]) /\ t.own[i] \in Row
          /\ t.kind # "create" => t.own[i].recruiter
        BY <1>1 DEF TxKept, OwnKept, TxRec
    <2>2. \A z : z \in notices => z \in notices'
        OBVIOUS
    <2>3. t.own[i].cancelled \in BOOLEAN /\ t.own[i].result \in BOOLEAN
        BY <2>1 DEF Row
    <2> QED
        BY <2>1, <2>2, <2>3 DEF ToldAt
<1>3. TxKept(notices', t)
    BY <1>1, <1>2 DEF TxKept, AnswersKept
<1> QED
    BY <1>1, <1>3, OneStep DEF Shape

LEMMA AcceptStep ==
    ASSUME InterviewInv, NEW r \in Requests, Accept(r)
    PROVE  InterviewInv'
<1>1. tx[r] \in TxRec /\ Fits(tx[r]) /\ tx[r].pc = "accept" /\ Shape
    BY DEF InterviewInv, TxsKept, TxKept, Shape, Accept
<1>2. CASE tx[r].todo # {}
    BY <1>1, <1>2, RespondStep DEF Accept
<1>3. CASE tx[r].todo = {}
    <2> DEFINE t == [tx[r] EXCEPT !.pc = "decline", !.todo = tx[r].reject]
    <2>1. tx' = [tx EXCEPT ![r] = t] /\ UNCHANGED <<row, doc, notices, failures>>
        BY <1>3 DEF Accept
    <2>2. /\ t \in TxRec /\ t.pc = "decline" /\ t.kind = tx[r].kind /\ t.own = tx[r].own
          /\ t.snap = tx[r].snap /\ t.item = tx[r].item
          /\ t.approve = tx[r].approve /\ t.reject = tx[r].reject
        BY <1>1 DEF TxRec, Pc
    <2> HIDE DEF t
    <2>3. Fits(t)
        BY <1>1, <2>2 DEF Fits, Ended, Kind
    <2> QED
        BY <1>1, <2>1, <2>2, <2>3, PlaceStep DEF Shape
<1> QED
    BY <1>2, <1>3

LEMMA DeclineStep ==
    ASSUME InterviewInv, NEW r \in Requests, Decline(r)
    PROVE  InterviewInv'
<1>1. tx[r] \in TxRec /\ Fits(tx[r]) /\ tx[r].pc = "decline" /\ Shape
    BY DEF InterviewInv, TxsKept, TxKept, Shape, Decline
<1>2. CASE tx[r].todo # {}
    BY <1>1, <1>2, RespondStep DEF Decline
<1>3. CASE tx[r].todo = {}
    <2> DEFINE t == [tx[r] EXCEPT !.pc = "commit"]
    <2>1. tx' = [tx EXCEPT ![r] = t] /\ UNCHANGED <<row, doc, notices, failures>>
        BY <1>3 DEF Decline
    <2>2. /\ t \in TxRec /\ t.pc = "commit" /\ t.kind = tx[r].kind /\ t.own = tx[r].own
          /\ t.snap = tx[r].snap /\ t.item = tx[r].item
          /\ t.approve = tx[r].approve /\ t.reject = tx[r].reject
        BY <1>1 DEF TxRec, Pc
    <2> HIDE DEF t
    <2>3. Fits(t)
        BY <1>1, <2>2 DEF Fits, Ended, Kind
    <2> QED
        BY <1>1, <2>1, <2>2, <2>3, PlaceStep DEF Shape
<1> QED
    BY <1>2, <1>3

LEMMA EditedTyped ==
    ASSUME NEW x \in Row, NEW e \in Edit
    PROVE  /\ Edited(x, e) \in Row /\ Edited(x, e).recruiter = x.recruiter
           /\ Edited(x, e).cancelled = x.cancelled /\ Edited(x, e).approval = "pending"
           /\ Edited(x, e).result => x.result \/ e.result
<1> DEFINE status == IF e.status = None THEN x.status ELSE e.status
           result == x.result \/ e.result
           y == [x EXCEPT !.status = status, !.result = result, !.approval = "pending"]
<1>1. Edited(x, e) = y
    BY DEF Edited
<1>2. status \in Statuses
    BY DEF Row, Edit
<1>3. result \in BOOLEAN
    OBVIOUS
<1>4. result => x.result \/ e.result
    OBVIOUS
<1> HIDE DEF status, result
<1>5. /\ y \in Row /\ y.recruiter = x.recruiter /\ y.cancelled = x.cancelled
      /\ y.approval = "pending" /\ y.result = result
    BY <1>2, <1>3 DEF Row, Approvals
<1> HIDE DEF y
<1> QED
    BY <1>1, <1>4, <1>5

\* An update asks for a new decision; its result is told by the next statement.
LEMMA ChangeStep ==
    ASSUME InterviewInv, NEW r \in Requests, Change(r)
    PROVE  InterviewInv'
<1> DEFINE i == tx[r].item
           x == Edited(Current(r, i), tx[r].edit)
           own == Written(r, i, x)
           pc == IF tx[r].edit.result THEN "tell" ELSE "index"
           t == [tx[r] EXCEPT !.own = own, !.pc = pc]
<1>1. /\ tx[r] \in TxRec /\ TxKept(notices, tx[r]) /\ tx[r].pc = "change" /\ Shape
    BY DEF InterviewInv, TxsKept, Shape, Change
<1>2. tx[r].kind = "update" /\ i \in Interviews /\ tx[r].edit \in Edit
    BY <1>1 DEF TxKept, Fits, TxRec
<1>3. CASE Refuse(r)
    BY <1>3, RefuseStep
<1>4. CASE ~Refuse(r)
    <2>1. tx' = [tx EXCEPT ![r] = t] /\ UNCHANGED <<row, doc, notices, failures>>
        BY <1>4 DEF Change
    <2>2. Current(r, i) # None =>
              /\ x \in Row /\ x.recruiter = Current(r, i).recruiter
              /\ x.cancelled = Current(r, i).cancelled /\ x.approval = "pending"
              /\ x.result => Current(r, i).result \/ tx[r].edit.result
        BY <1>2, CurrentKept, EditedTyped
    <2>3. /\ own \in [Interviews -> Row \cup {None, Unwritten}]
          /\ \A j \in Interviews : own[j] = IF j = i /\ Current(r, i) # None THEN x
                                                                           ELSE tx[r].own[j]
          /\ Current(r, i) = None => tx[r].own[i] \in {None, Unwritten}
        <3>1. tx[r].own \in [Interviews -> Row \cup {None, Unwritten}]
            BY <1>1 DEF TxRec
        <3> HIDE DEF x, i
        <3> QED
            BY <1>2, <2>2, <3>1 DEF Written, Current
    <2>4. pc \in {"tell", "index"} /\ (tx[r].edit.result => pc = "tell")
        OBVIOUS
    <2> HIDE DEF x, own, pc
    <2>5. /\ t \in TxRec /\ t.pc = pc /\ t.kind = "update" /\ t.own = own /\ t.item = i
        BY <1>1, <1>2, <2>3, <2>4 DEF TxRec, Pc
    <2> HIDE DEF t
    <2>6. Fits(t)
        BY <1>2, <2>4, <2>5 DEF Fits, Ended, Kind
    <2>7. OwnKept(notices, t)
        <3> SUFFICES ASSUME NEW j \in Interviews, t.own[j] \notin {None, Unwritten}
                     PROVE  ToldAt(notices, t, j, t.own[j]) /\ t.own[j].recruiter
            BY DEF OwnKept
        <3>1. CASE j = i
            <4>1. Current(r, i) # None /\ t.own[j] = x
                BY <2>3, <2>5, <3>1
            <4>2. /\ ToldAt(notices, tx[r], i, Current(r, i)) /\ Current(r, i).recruiter
                  /\ Current(r, i) \in Row
                BY <1>2, <4>1, CurrentKept
            <4>3. Current(r, i).result => <<"result", i>> \in notices
                BY <1>1, <4>2 DEF ToldAt
            <4>4. Current(r, i).cancelled => <<"response", i>> \in notices
                BY <4>2 DEF ToldAt
            <4>5. x.result => Current(r, i).result \/ tx[r].edit.result
                BY <2>2, <4>1
            <4>6. x.result => <<"result", i>> \in notices \/ (t.pc = "tell" /\ t.item = i)
                BY <2>4, <2>5, <4>3, <4>5
            <4>7. x.cancelled => <<"response", i>> \in notices
                BY <2>2, <4>1, <4>4
            <4>8. ToldAt(notices, t, i, x)
                BY <2>2, <4>1, <4>6, <4>7 DEF ToldAt
            <4> QED
                BY <2>2, <3>1, <4>1, <4>2, <4>8
        <3>2. CASE j # i
            <4>1. t.own[j] = tx[r].own[j] /\ t.own[j] \in Row
                BY <2>3, <2>5, <3>2
            <4>2. ToldAt(notices, tx[r], j, t.own[j]) /\ t.own[j].recruiter
                BY <1>1, <1>2, <4>1 DEF TxKept, OwnKept
            <4> QED
                BY <1>1, <1>2, <2>5, <4>1, <4>2 DEF ToldAt, Row
        <3> QED
            BY <3>1, <3>2
    <2>8. TxKept(notices', t)
        BY <2>1, <2>5, <2>6, <2>7 DEF TxKept, AnswersKept
    <2> QED
        BY <1>1, <2>1, <2>5, <2>8, OneStep DEF Shape
<1> QED
    BY <1>3, <1>4

LEMMA TellResultStep ==
    ASSUME InterviewInv, NEW r \in Requests, TellResult(r)
    PROVE  InterviewInv'
<1> DEFINE t == [tx[r] EXCEPT !.pc = "index"]
<1>1. /\ tx[r] \in TxRec /\ Fits(tx[r]) /\ tx[r].pc = "tell" /\ Shape
      /\ notices' = notices \cup {<<"result", tx[r].item>>}
      /\ tx' = [tx EXCEPT ![r] = t] /\ UNCHANGED <<row, doc, failures>>
    BY DEF InterviewInv, TxsKept, TxKept, Shape, TellResult
<1>2. tx[r].kind = "update" /\ tx[r].item \in Interviews
    BY <1>1 DEF Fits
<1>3. /\ t \in TxRec /\ t.pc = "index" /\ t.kind = tx[r].kind /\ t.own = tx[r].own
      /\ t.snap = tx[r].snap /\ t.item = tx[r].item
      /\ t.approve = tx[r].approve /\ t.reject = tx[r].reject
    BY <1>1 DEF TxRec, Pc
<1> HIDE DEF t
<1>4. Fits(t)
    BY <1>1, <1>2, <1>3 DEF Fits, Ended, Kind
<1>5. notices' \in SUBSET Notice /\ notices \subseteq notices'
    BY <1>1, <1>2, NoticesTyped DEF Shape
<1> QED
    BY <1>1, <1>3, <1>4, <1>5, PlaceStep DEF Shape

LEMMA IndexStep ==
    ASSUME InterviewInv, NEW r \in Requests, Index(r)
    PROVE  InterviewInv'
<1> DEFINE t == [tx[r] EXCEPT !.pc = "commit"]
<1>1. /\ tx[r] \in TxRec /\ Fits(tx[r]) /\ tx[r].pc = "index" /\ Shape
      /\ doc' = [doc EXCEPT ![tx[r].item] = TRUE]
      /\ tx' = [tx EXCEPT ![r] = t] /\ UNCHANGED <<row, notices, failures>>
    BY DEF InterviewInv, TxsKept, TxKept, Shape, Index
<1>2. tx[r].kind = "update"
    BY <1>1 DEF Fits
<1>3. /\ t \in TxRec /\ t.pc = "commit" /\ t.kind = tx[r].kind /\ t.own = tx[r].own
      /\ t.snap = tx[r].snap /\ t.item = tx[r].item
      /\ t.approve = tx[r].approve /\ t.reject = tx[r].reject
    BY <1>1 DEF TxRec, Pc
<1> HIDE DEF t
<1>4. Fits(t)
    BY <1>1, <1>2, <1>3 DEF Fits, Ended, Kind
<1>5. doc' \in [Interviews -> BOOLEAN]
    BY <1>1 DEF Shape
<1> QED
    BY <1>1, <1>3, <1>4, <1>5, PlaceStep DEF Shape

\* A deletion tells before it deletes.
LEMMA DropStep ==
    ASSUME InterviewInv, NEW r \in Requests, Drop(r)
    PROVE  InterviewInv'
<1> DEFINE i == tx[r].item
           new == (IF tx[r].admin THEN {<<"deleted by admin", i>>} ELSE {})
                    \cup (IF doc[i] THEN {<<"cancelled", i>>} ELSE {})
           t == [tx[r] EXCEPT !.pc = "erase"]
<1>1. /\ tx[r] \in TxRec /\ Fits(tx[r]) /\ tx[r].pc = "drop" /\ Shape
    BY DEF InterviewInv, TxsKept, TxKept, Shape, Drop
<1>2. tx[r].kind = "delete" /\ i \in Interviews
    BY <1>1 DEF Fits
<1>3. CASE Refuse(r)
    BY <1>3, RefuseStep
<1>4. CASE ~Refuse(r)
    <2>1. /\ notices' = notices \cup new
          /\ doc' = [doc EXCEPT ![i] = FALSE]
          /\ tx' = [tx EXCEPT ![r] = IF doc[i] THEN t ELSE Over("refused")]
          /\ UNCHANGED <<row, failures>>
        <3>1. notices' = notices
                       \cup (IF tx[r].admin THEN {<<"deleted by admin", i>>} ELSE {})
                       \cup (IF doc[i] THEN {<<"cancelled", i>>} ELSE {})
            BY <1>4 DEF Drop
        <3>2. notices' = notices \cup new
            BY <3>1
        <3> QED
            BY <1>4, <3>2 DEF Drop
    <2>2. new \subseteq Notice
        BY <1>2, NoticesTyped
    <2>3. /\ notices' \in SUBSET Notice /\ notices \subseteq notices'
          /\ doc' \in [Interviews -> BOOLEAN]
        BY <1>1, <2>1, <2>2 DEF Shape
    <2> HIDE DEF new
    <2>4. CASE doc[i]
        <3>1. /\ t \in TxRec /\ t.pc = "erase" /\ t.kind = tx[r].kind /\ t.own = tx[r].own
              /\ t.snap = tx[r].snap /\ t.item = tx[r].item
              /\ t.approve = tx[r].approve /\ t.reject = tx[r].reject
            BY <1>1 DEF TxRec, Pc
        <3>2. tx' = [tx EXCEPT ![r] = t]
            BY <2>1, <2>4
        <3> HIDE DEF t
        <3>3. Fits(t)
            BY <1>1, <1>2, <3>1 DEF Fits, Ended, Kind
        <3> QED
            BY <1>1, <2>1, <2>3, <3>1, <3>2, <3>3, PlaceStep
    <2>5. CASE ~doc[i]
        <3>1. "refused" \in Ended
            BY DEF Ended
        <3>2. tx' = [tx EXCEPT ![r] = Over("refused")]
            BY <2>1, <2>5
        <3> QED
            BY <1>1, <2>1, <2>3, <3>1, <3>2, OverStep DEF Shape
    <2> QED
        BY <2>4, <2>5
<1> QED
    BY <1>3, <1>4

LEMMA EraseStep ==
    ASSUME InterviewInv, NEW r \in Requests, Erase(r)
    PROVE  InterviewInv'
<1> DEFINE i == tx[r].item
           own == Written(r, i, None)
           t == [tx[r] EXCEPT !.own = own, !.pc = "commit"]
<1>1. /\ tx[r] \in TxRec /\ TxKept(notices, tx[r]) /\ tx[r].pc = "erase" /\ Shape
      /\ tx' = [tx EXCEPT ![r] = t] /\ UNCHANGED <<row, doc, notices, failures>>
    BY DEF InterviewInv, TxsKept, Shape, Erase
<1>2. tx[r].kind = "delete" /\ i \in Interviews
    BY <1>1 DEF TxKept, Fits
<1>3. /\ own \in [Interviews -> Row \cup {None, Unwritten}]
      /\ \A j \in Interviews : own[j] \in {None, Unwritten} \/ own[j] = tx[r].own[j]
    BY <1>2, WrittenKept
<1> HIDE DEF own
<1>4. /\ t \in TxRec /\ t.pc = "commit" /\ t.kind = tx[r].kind /\ t.own = own
      /\ t.item = tx[r].item
    BY <1>1, <1>3 DEF TxRec, Pc
<1> HIDE DEF t
<1>5. Fits(t)
    BY <1>1, <1>2, <1>4 DEF TxKept, Fits, Ended, Kind
<1>6. OwnKept(notices, t)
    <2> SUFFICES ASSUME NEW j \in Interviews, t.own[j] \notin {None, Unwritten}
                 PROVE  ToldAt(notices, t, j, t.own[j]) /\ t.own[j].recruiter
        BY DEF OwnKept
    <2>1. t.own[j] = tx[r].own[j] /\ t.own[j] \in Row
        BY <1>3, <1>4 DEF TxRec
    <2>2. ToldAt(notices, tx[r], j, t.own[j]) /\ t.own[j].recruiter
        BY <1>1, <1>2, <2>1 DEF TxKept, OwnKept
    <2> QED
        BY <1>1, <1>2, <1>4, <2>1, <2>2 DEF ToldAt, Row
<1>7. TxKept(notices', t)
    BY <1>1, <1>2, <1>4, <1>5, <1>6 DEF TxKept, AnswersKept
<1> QED
    BY <1>1, <1>4, <1>7, OneStep DEF Shape

LEMMA SyncStep ==
    ASSUME InterviewInv, Sync
    PROVE  InterviewInv'
<1>1. /\ Shape /\ TxsKept /\ DecisionsAnnounced /\ NoOrphan
      /\ doc' = [i \in Interviews |-> doc[i] \/ row[i] # None]
      /\ UNCHANGED <<row, tx, notices, failures>>
    BY DEF InterviewInv, Sync
<1>2. doc' \in [Interviews -> BOOLEAN]
    BY <1>1, Zenon
<1>3. Shape'
    BY <1>1, <1>2 DEF Shape
<1>4. TxsKept'
    BY <1>1 DEF TxsKept
<1>5. DecisionsAnnounced' /\ NoOrphan'
    BY <1>1 DEF DecisionsAnnounced, NoOrphan
<1> QED
    BY <1>3, <1>4, <1>5 DEF InterviewInv

-----------------------------------------------------------------------------
(* The invariant holds at first and is kept.                               *)

LEMMA InterviewInit == Init => InterviewInv
<1> SUFFICES ASSUME Init PROVE InterviewInv
    OBVIOUS
<1>1. /\ row \in [Interviews -> Rows \cup {None}]
      /\ doc = [i \in Interviews |-> row[i] # None]
      /\ tx = [r \in Requests |-> NoTx]
      /\ notices = UNION {Told(i, row[i]) : i \in {j \in Interviews : row[j] # None}}
      /\ failures = 0
    BY DEF Init
<1>2. row \in [Interviews -> Row \cup {None}]
    BY <1>1, RowsAssumption DEF RowsAssumption
<1>3. doc \in [Interviews -> BOOLEAN]
    BY <1>1
<1>4. notices \in SUBSET Notice
    <2>1. \A i \in Interviews : \A x : Told(i, x) \subseteq Notice
        BY NoticesTyped DEF Told
    <2> QED
        BY <1>1, <2>1
<1>5. failures \in 0 .. MaxFailures
    BY <1>1, InterviewAssumption DEF InterviewAssumption
<1>6. Shape
    BY <1>1, <1>2, <1>3, <1>4, <1>5, NoTxTyped DEF Shape
<1>7. TxsKept
    <2>1. TxKept(notices, NoTx)
        <3>1. Fits(NoTx)
            BY NoTxTyped, KindAssumption DEF KindAssumption, Kind, Ended, Fits
        <3>2. OwnKept(notices, NoTx) /\ AnswersKept(NoTx)
            BY NoTxTyped, KindAssumption DEF OwnKept, AnswersKept, KindAssumption, Kind
        <3> QED
            BY <3>1, <3>2 DEF TxKept
    <2> QED
        BY <1>1, <2>1 DEF TxsKept
<1>8. DecisionsAnnounced
    <2> SUFFICES ASSUME NEW i \in Interviews, row[i] # None
                 PROVE  /\ row[i].approval = "approved" => <<"scheduled", i>> \in notices
                        /\ row[i].approval = "rejected" => <<"cancelled by admin", i>> \in notices
                        /\ row[i].cancelled => <<"response", i>> \in notices
                        /\ row[i].result => <<"result", i>> \in notices
        BY DEF DecisionsAnnounced
    <2>1. Told(i, row[i]) \subseteq notices
        BY <1>1
    <2>2. /\ row[i].approval = "approved" => <<"scheduled", i>> \in Told(i, row[i])
          /\ row[i].approval = "rejected" => <<"cancelled by admin", i>> \in Told(i, row[i])
          /\ row[i].cancelled => <<"response", i>> \in Told(i, row[i])
          /\ row[i].result => <<"result", i>> \in Told(i, row[i])
        BY Zenon DEF Told
    <2> QED
        BY <2>1, <2>2, Zenon
<1>9. NoOrphan
    BY <1>1, RowsAssumption DEF RowsAssumption, NoOrphan
<1> QED
    BY <1>6, <1>7, <1>8, <1>9 DEF InterviewInv

LEMMA InterviewNext == InterviewInv /\ [Next]_vars => InterviewInv'
<1> SUFFICES ASSUME InterviewInv, [Next]_vars PROVE InterviewInv'
    OBVIOUS
<1>1. ASSUME NEW r \in Requests,
             AskCreate(r) \/ AskProcess(r) \/ AskRespond(r) \/ AskUpdate(r) \/ AskDelete(r)
      PROVE  InterviewInv'
    BY <1>1, AskSteps
<1>2. ASSUME NEW r \in Requests, Step(r) PROVE InterviewInv'
    <2>1. CASE Begin(r)       BY <2>1, BeginStep
    <2>2. CASE Insert(r)      BY <2>2, InsertStep
    <2>3. CASE Decide(r)      BY <2>3, DecideStep
    <2>4. CASE Announce(r)    BY <2>4, AnnounceStep
    <2>5. CASE Accept(r)      BY <2>5, AcceptStep
    <2>6. CASE Decline(r)     BY <2>6, DeclineStep
    <2>7. CASE Change(r)      BY <2>7, ChangeStep
    <2>8. CASE TellResult(r)  BY <2>8, TellResultStep
    <2>9. CASE Index(r)       BY <2>9, IndexStep
    <2>10. CASE Drop(r)       BY <2>10, DropStep
    <2>11. CASE Erase(r)      BY <2>11, EraseStep
    <2>12. CASE Conflict(r)   BY <2>12, ConflictStep
    <2>13. CASE Commit(r)     BY <2>13, CommitStep
    <2> QED
        BY <1>2, <2>1, <2>2, <2>3, <2>4, <2>5, <2>6, <2>7, <2>8, <2>9, <2>10, <2>11, <2>12,
           <2>13 DEF Step
<1>3. ASSUME NEW r \in Requests, Fail(r) PROVE InterviewInv'
    BY <1>3, FailStep
<1>4. CASE Sync
    BY <1>4, SyncStep
<1>5. CASE UNCHANGED vars
    <2>1. Shape'
        BY <1>5 DEF vars, InterviewInv, Shape
    <2>2. TxsKept'
        BY <1>5 DEF vars, InterviewInv, TxsKept
    <2>3. DecisionsAnnounced' /\ NoOrphan'
        BY <1>5 DEF vars, InterviewInv, DecisionsAnnounced, NoOrphan
    <2> QED
        BY <2>1, <2>2, <2>3 DEF InterviewInv
<1> QED
    BY <1>1, <1>2, <1>3, <1>4, <1>5 DEF Next

LEMMA InterviewAlways == Spec => []InterviewInv
BY InterviewInit, InterviewNext, PTL DEF Spec

-----------------------------------------------------------------------------
(* The theorems.                                                           *)

\* Every variable keeps its type.
THEOREM TypeCorrect == Spec => []TypeOK
<1>1. InterviewInv => TypeOK
    BY DEF InterviewInv, Shape, TypeOK, TxRec
<1> QED
    BY <1>1, InterviewAlways, PTL

\* A decision or a result that the interviews table shows has been told to somebody:
\* whatever the order in which the recruiter, the candidate and the administrators write,
\* and whichever of their transactions fail or are tried again.
THEOREM StoredDecisionsWereTold == Spec => []DecisionsAnnounced
<1>1. InterviewInv => DecisionsAnnounced
    BY DEF InterviewInv
<1> QED
    BY <1>1, InterviewAlways, PTL

\* Nobody sees an interview without a recruiter: the transaction that inserts one waits for
\* itself, and never commits.
THEOREM EveryInterviewHasRecruiter == Spec => []NoOrphan
<1>1. InterviewInv => NoOrphan
    BY DEF InterviewInv
<1> QED
    BY <1>1, InterviewAlways, PTL

\* The candidate's answer replaces only a decision that its transaction could not see.
THEOREM AnswersReplaceUnseenDecisions == Spec => NoKnownReversal
<1> DEFINE Unseen ==
        \A i \in Interviews, r \in Requests :
            /\ tx[r].kind = "respond" /\ tx[r].pc = "commit" /\ tx'[r].pc = "done"
            /\ tx[r].own[i] # Unwritten /\ row[i].approval # "pending"
            => tx[r].snap[i] # row[i]
<1>1. InterviewInv => Unseen
    <2> SUFFICES ASSUME InterviewInv, NEW i \in Interviews, NEW r \in Requests,
                        tx[r].kind = "respond", tx[r].own[i] # Unwritten,
                        row[i].approval # "pending"
                 PROVE  tx[r].snap[i] # row[i]
        BY DEF Unseen
    <2>1. Open(tx[r].snap[i])
        BY DEF InterviewInv, TxsKept, TxKept, AnswersKept
    <2> QED
        BY <2>1 DEF Open
<1>2. InterviewInv => [Unseen]_vars
    BY <1>1
<1>3. Spec => [][Unseen]_vars
    BY <1>2, InterviewAlways, PTL
<1> QED
    BY <1>3 DEF NoKnownReversal
=============================================================================
