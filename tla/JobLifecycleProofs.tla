-------------------------- MODULE JobLifecycleProofs --------------------------
(***************************************************************************)
(* Proofs about JobLifecycle, for any jobs, requests, cron jobs, contents, *)
(* days and failures.                                                      *)
(***************************************************************************)
EXTENDS JobLifecycle, TLAPS

-----------------------------------------------------------------------------
(* The inductive invariant.  Its parts speak of the record x of one         *)
(* transaction, of the notifications n and of the committed rows w.         *)

TxRec == [pc : Pc, kind : Kind \cup {None}, job : Jobs \cup {None}, edit : Edit,
          approve : SUBSET Jobs, reject : SUBSET Jobs, todo : SUBSET Jobs,
          day : 0 .. MaxDay, attempt : 0 .. MaxRetries - 1,
          snap : [Jobs -> Row \cup {None}],
          own : [Jobs -> Row \cup {None, Unwritten}]]

Shape ==
    /\ now \in 0 .. MaxDay
    /\ row \in [Jobs -> Row \cup {None}]
    /\ doc \in [Jobs -> Contents \cup {None}]
    /\ born \in SUBSET Jobs
    /\ tx \in [Tx -> TxRec]
    /\ notices \in SUBSET Notice
    /\ failures \in 0 .. MaxFailures

\* The statements of a transaction are those of its kind; nothing is written before the
\* first one; a document is written of a row that is there.
Fits(t, x) ==
    /\ x.pc \notin Ended => x.kind \in Kind
    /\ x.pc \in Ended \cup {"begin", "change"} => x.own = Untouched
    /\ x.pc = "insert" => x.kind = "create"
    /\ x.pc \in {"approve", "recommend", "reject"} => x.kind = "process"
    /\ x.pc \in {"change", "restore"} => x.kind = "update"
    /\ x.pc = "index" => x.kind \in {"create", "update"}
    /\ x.pc \in {"drop", "erase"} => x.kind = "delete"
    /\ x.pc = "close" => x.kind = "expire"
    /\ x.kind = "update" => t \in Requests
    /\ x.kind = "expire" => t \in Crons
    /\ x.kind \in {"create", "update", "delete"} => x.job \in Jobs
    /\ x.kind = "create" => x.edit.content \in Contents /\ x.edit.deadline \in Days
    /\ x.pc \in {"index", "restore"} =>
          x.own[x.job] # None /\ (x.own[x.job] = Unwritten => x.snap[x.job] # None)
    /\ x.pc = "restore" => x.snap[x.job] # None

\* What a row says was decided of job j was told, or will be by the transaction that has
\* written it.
ToldAt(n, x, j, y) ==
    /\ y.approved =>
          <<"approved", j>> \in n
          \/ (x.kind = "process" /\ x.pc = "approve" /\ j \in x.approve)
    /\ y.cancelled =>
          <<"rejected", j>> \in n
          \/ (x.kind = "process" /\ x.pc = "reject" /\ j \in x.reject)

\* An open decision, as the transaction has read it.
Undecided(y) == y # None /\ ~Processed(y)

ExpiredOf(x) == {j \in Jobs : Due(x.snap[j], x.day)}

\* Transaction x has written y to the row of job j, which is w[j].
Wrote(n, w, x, j, y) ==
    /\ y # None => ToldAt(n, x, j, y)
    /\ x.kind # "create" => w[j] # None
    /\ x.kind = "create" => j = x.job /\ y # None /\ y.status = "open"
    /\ x.kind = "process" => y # None /\ y.status = w[j].status /\ Undecided(x.snap[j])
    /\ x.kind = "update" => /\ j = x.job /\ y # None
                            /\ \/ y.status = w[j].status
                               \/ y.status = x.edit.status
                               \/ y.status = x.snap[j].status
    /\ x.kind = "delete" => y = None
    /\ x.kind = "expire" => j \in ExpiredOf(x)

OwnKept(n, w, x) == \A j \in Jobs : x.own[j] # Unwritten => Wrote(n, w, x, j, x.own[j])

\* What it has read had been told.
SnapKept(n, x) ==
    \A j \in Jobs : x.snap[j] # None =>
        /\ x.snap[j].approved => <<"approved", j>> \in n
        /\ x.snap[j].cancelled => <<"rejected", j>> \in n

\* The jobs that the loops of a decision are through with were undecided when it read them.
ChecksKept(x) ==
    x.kind = "process" =>
        /\ x.pc = "approve" => /\ x.todo \subseteq x.approve
                               /\ \A j \in x.approve \ x.todo : Undecided(x.snap[j])
        /\ x.pc \in {"recommend", "reject", "commit"} =>
              \A j \in x.approve : Undecided(x.snap[j])
        /\ x.pc = "reject" => /\ x.todo \subseteq x.reject
                              /\ \A j \in x.reject \ x.todo : Undecided(x.snap[j])
        /\ x.pc = "commit" => \A j \in x.reject : Undecided(x.snap[j])

\* The cron job closes what it has found expired, and has told it when it commits.
ExpiryKept(n, x) ==
    x.kind = "expire" =>
        /\ x.pc = "close" => x.todo \subseteq ExpiredOf(x)
        /\ x.pc = "commit" => \A j \in ExpiredOf(x) : <<"expired", j>> \in n

TxKept(n, w, t, x) ==
    Fits(t, x) /\ OwnKept(n, w, x) /\ SnapKept(n, x) /\ ChecksKept(x) /\ ExpiryKept(n, x)

TxsKept == \A t \in Tx : TxKept(notices, row, t, tx[t])

\* A row is written by one transaction at a time.
Exclusive ==
    \A s, t \in Tx, j \in Jobs :
        tx[s].own[j] # Unwritten /\ tx[t].own[j] # Unwritten => s = t

\* Nobody else knows of a job that is being created.
Reserved ==
    /\ \A j \in Jobs : row[j] # None => j \in born
    /\ \A t \in Tx : tx[t].kind = "create" =>
          /\ tx[t].job \in born /\ row[tx[t].job] = None
          /\ \A s \in Tx \ {t} : /\ tx[s].own[tx[t].job] = Unwritten
                                 /\ tx[s].kind = "create" => tx[s].job # tx[t].job

JobInv == Shape /\ TxsKept /\ Exclusive /\ Reserved /\ DecisionsAnnounced

-----------------------------------------------------------------------------
(* Rows and transactions.                                                  *)

LEMMA NotRows == None \notin Row /\ Unwritten \notin Row /\ Unwritten # None
BY ValuesDiffer DEF ValuesDiffer

LEMMA NoTxTyped ==
    /\ NoTx \in TxRec /\ NoTx.kind = None /\ NoTx.pc = "idle" /\ NoTx.own = Untouched
    /\ NoTx.snap = NoRows /\ NoEdit \in Edit
    /\ \A j \in Jobs : Untouched[j] = Unwritten /\ NoRows[j] = None
<1>1. Untouched \in [Jobs -> Row \cup {None, Unwritten}] /\ NoRows \in [Jobs -> Row \cup {None}]
    BY DEF Untouched, NoRows
<1>2. NoEdit \in Edit
    BY DEF NoEdit, Edit
<1>3. \A j \in Jobs : Untouched[j] = Unwritten /\ NoRows[j] = None
    BY DEF Untouched, NoRows
<1>4. 0 \in 0 .. MaxDay /\ 0 \in 0 .. MaxRetries - 1
    BY JobAssumption DEF JobAssumption
<1> QED
    BY <1>1, <1>2, <1>3, <1>4 DEF NoTx, TxRec, Pc, Ended

\* A transaction that is over, or has not begun, has done nothing.
LEMMA EndedKept ==
    ASSUME NEW t, NEW n, NEW w, NEW x \in TxRec, x.pc \in Ended, x.kind = None,
           x.own = Untouched, x.snap = NoRows
    PROVE  TxKept(n, w, t, x)
<1>1. x.pc \notin {"begin", "insert", "approve", "recommend", "reject", "change", "restore",
                   "index", "drop", "erase", "close", "commit"}
    BY DEF Ended
<1>2. x.kind \notin Kind
    BY KindAssumption DEF KindAssumption
<1>3. Fits(t, x)
    BY <1>1, <1>2 DEF Kind, Fits
<1>4. OwnKept(n, w, x) /\ SnapKept(n, x)
    BY NoTxTyped DEF OwnKept, SnapKept
<1>5. ChecksKept(x) /\ ExpiryKept(n, x)
    BY <1>2 DEF ChecksKept, ExpiryKept, Kind
<1> QED
    BY <1>3, <1>4, <1>5 DEF TxKept

LEMMA OverKept ==
    ASSUME NEW t, NEW pc \in Ended
    PROVE  /\ Over(t, pc) \in TxRec /\ Over(t, pc).kind = None /\ Over(t, pc).own = Untouched
           /\ Over(t, pc).pc \in Ended
           /\ \A n, w : TxKept(n, w, t, Over(t, pc))
<1> DEFINE p == IF t \in Crons THEN "idle" ELSE pc
           x == [NoTx EXCEPT !.pc = p]
<1>1. p \in Ended
    BY DEF Ended
<1> HIDE DEF p
<1>2. x \in TxRec /\ x.pc = p /\ x.kind = None /\ x.own = Untouched /\ x.snap = NoRows
    BY <1>1, NoTxTyped DEF TxRec, Pc
<1>3. Over(t, pc) = x
    BY DEF Over, p
<1> HIDE DEF x
<1>4. \A n, w : TxKept(n, w, t, x)
    BY <1>1, <1>2, EndedKept
<1> QED
    BY <1>1, <1>2, <1>3, <1>4

\* Nor has one that begins, or begins again.
LEMMA BegunKept ==
    ASSUME NEW t, NEW n, NEW w, NEW x \in TxRec, x.pc = "begin", x.kind \in Kind,
           x.own = Untouched, SnapKept(n, x),
           x.kind = "update" => t \in Requests, x.kind = "expire" => t \in Crons,
           x.kind \in {"create", "update", "delete"} => x.job \in Jobs,
           x.kind = "create" => x.edit.content \in Contents /\ x.edit.deadline \in Days
    PROVE  TxKept(n, w, t, x)
<1>1. Fits(t, x)
    BY DEF Fits, Ended
<1>2. OwnKept(n, w, x)
    BY NoTxTyped DEF OwnKept
<1>3. ChecksKept(x) /\ ExpiryKept(n, x)
    BY DEF ChecksKept, ExpiryKept
<1> QED
    BY <1>1, <1>2, <1>3 DEF TxKept

\* What was told stays told.
LEMMA ToldStays ==
    ASSUME NEW n, NEW m, n \subseteq m, NEW t, NEW w, NEW x \in TxRec, TxKept(n, w, t, x)
    PROVE  TxKept(m, w, t, x)
<1>0. \A z : z \in n => z \in m
    OBVIOUS
<1>1. ASSUME NEW j, NEW y \in Row, ToldAt(n, x, j, y) PROVE ToldAt(m, x, j, y)
    <2>1. y.approved \in BOOLEAN /\ y.cancelled \in BOOLEAN
        BY DEF Row
    <2> QED
        BY <1>0, <1>1, <2>1 DEF ToldAt
<1>2. ASSUME NEW j \in Jobs, x.own[j] # Unwritten PROVE Wrote(m, w, x, j, x.own[j])
    <2>1. Wrote(n, w, x, j, x.own[j])
        BY <1>2 DEF TxKept, OwnKept
    <2>2. x.own[j] # None => x.own[j] \in Row
        BY <1>2 DEF TxRec
    <2> QED
        BY <1>1, <2>1, <2>2 DEF Wrote
<1>3. ASSUME NEW j \in Jobs, x.snap[j] # None
      PROVE  /\ x.snap[j].approved => <<"approved", j>> \in m
             /\ x.snap[j].cancelled => <<"rejected", j>> \in m
    <2>1. /\ x.snap[j].approved => <<"approved", j>> \in n
          /\ x.snap[j].cancelled => <<"rejected", j>> \in n
        BY <1>3 DEF TxKept, SnapKept
    <2>2. x.snap[j].approved \in BOOLEAN /\ x.snap[j].cancelled \in BOOLEAN
        BY <1>3 DEF TxRec, Row
    <2> QED
        BY <1>0, <2>1, <2>2
<1>4. OwnKept(m, w, x) /\ SnapKept(m, x)
    BY <1>2, <1>3 DEF OwnKept, SnapKept
<1>5. ExpiryKept(m, x)
    BY <1>0 DEF TxKept, ExpiryKept
<1> QED
    BY <1>4, <1>5 DEF TxKept

\* A step of one transaction, that changes no row and creates no job.
LEMMA OneStep ==
    ASSUME JobInv, NEW t \in Tx, NEW x \in TxRec, tx' = [tx EXCEPT ![t] = x],
           TxKept(notices', row, t, x),
           x.kind = "create" => tx[t].kind = "create" /\ tx[t].job = x.job,
           \A j \in Jobs : x.own[j] # Unwritten =>
              \/ tx[t].own[j] # Unwritten
              \/ row[j] # None /\ ~Locked(t, j)
              \/ x.kind = "create" /\ j = x.job,
           notices \subseteq notices', notices' \in SUBSET Notice,
           doc' \in [Jobs -> Contents \cup {None}], failures' \in 0 .. MaxFailures,
           UNCHANGED <<now, row, born>>
    PROVE  JobInv'
<1>0. /\ Shape /\ TxsKept /\ Exclusive /\ Reserved /\ DecisionsAnnounced
      /\ row' = row /\ born' = born /\ now' = now
    BY DEF JobInv
<1>1. \A s \in Tx : tx'[s] = IF s = t THEN x ELSE tx[s]
    BY <1>0 DEF Shape
<1>2. Shape'
    BY <1>0 DEF Shape
<1>3. TxsKept'
    <2> SUFFICES ASSUME NEW s \in Tx PROVE TxKept(notices', row', s, tx'[s])
        BY DEF TxsKept
    <2>1. TxKept(notices', row, s, tx[s])
        BY <1>0, ToldStays DEF TxsKept, Shape
    <2> QED
        BY <1>0, <1>1, <2>1
<1>4. ASSUME NEW s \in Tx \ {t}, NEW j \in Jobs, tx[s].own[j] # Unwritten
      PROVE  x.own[j] = Unwritten
    <2>1. ~(tx[t].own[j] # Unwritten)
        BY <1>0, <1>4 DEF Exclusive
    <2>2. Locked(t, j)
        BY <1>4 DEF Locked
    <2>3. ~(x.kind = "create" /\ j = x.job)
        BY <1>0, <1>4 DEF Reserved
    <2> QED
        BY <2>1, <2>2, <2>3
<1>5. Exclusive'
    <2> SUFFICES ASSUME NEW s \in Tx, NEW u \in Tx, NEW j \in Jobs,
                        tx'[s].own[j] # Unwritten, tx'[u].own[j] # Unwritten
                 PROVE  s = u
        BY DEF Exclusive
    <2> QED
        BY <1>0, <1>1, <1>4 DEF Exclusive
<1>6. Reserved'
    <2>1. \A j \in Jobs : row'[j] # None => j \in born'
        BY <1>0 DEF Reserved
    <2>2. ASSUME NEW s \in Tx, tx'[s].kind = "create"
          PROVE  /\ tx'[s].job \in born' /\ row'[tx'[s].job] = None
                 /\ tx[s].kind = "create" /\ tx[s].job = tx'[s].job
        BY <1>0, <1>1, <2>2 DEF Reserved
    <2>3. ASSUME NEW s \in Tx, tx'[s].kind = "create", NEW u \in Tx \ {s}
          PROVE  tx'[u].own[tx'[s].job] = Unwritten
        <3>1. /\ tx[s].kind = "create" /\ tx[s].job = tx'[s].job /\ row[tx[s].job] = None
              /\ tx[s].job \in born /\ tx[u].own[tx[s].job] = Unwritten
              /\ tx[u].kind = "create" => tx[u].job # tx[s].job
            BY <1>0, <2>2, <2>3 DEF Reserved
        <3>2. tx[s].job \in Jobs
            BY <1>0, <3>1 DEF Shape
        <3>3. u = t => x.own[tx[s].job] = Unwritten
            BY <3>1, <3>2
        <3> QED
            BY <1>1, <3>1, <3>3
    <2>4. ASSUME NEW s \in Tx, tx'[s].kind = "create", NEW u \in Tx \ {s},
                 tx'[u].kind = "create"
          PROVE  tx'[u].job # tx'[s].job
        BY <1>0, <2>2, <2>4 DEF Reserved
    <2> QED
        BY <2>1, <2>2, <2>3, <2>4 DEF Reserved
<1>7. DecisionsAnnounced'
    <2> SUFFICES ASSUME NEW j \in Jobs, row[j] # None
                 PROVE  /\ row[j].approved => <<"approved", j>> \in notices'
                        /\ row[j].cancelled => <<"rejected", j>> \in notices'
        BY <1>0 DEF DecisionsAnnounced
    <2>1. row[j].approved \in BOOLEAN /\ row[j].cancelled \in BOOLEAN
        BY <1>0 DEF Shape, Row
    <2> QED
        BY <1>0, <2>1 DEF DecisionsAnnounced
<1> QED
    BY <1>2, <1>3, <1>5, <1>6, <1>7 DEF JobInv

\* The row that a statement changes is typed, and what it says was told.
LEMMA CurrentKept ==
    ASSUME JobInv, NEW t \in Tx, NEW j \in Jobs, Current(t, j) # None, tx[t].kind # "create"
    PROVE  /\ Current(t, j) \in Row /\ ToldAt(notices, tx[t], j, Current(t, j))
           /\ row[j] # None
           /\ tx[t].kind = "process" => Current(t, j).status = row[j].status
<1>1. TxKept(notices, row, t, tx[t]) /\ tx[t] \in TxRec /\ Shape /\ DecisionsAnnounced
    BY DEF JobInv, TxsKept, Shape
<1>2. CASE tx[t].own[j] = Unwritten
    <2>1. Current(t, j) = row[j]
        BY <1>2 DEF Current
    <2>2. row[j] \in Row
        BY <1>1, <2>1 DEF Shape
    <2>3. ToldAt(notices, tx[t], j, row[j])
        BY <1>1, <2>1, NotRows DEF DecisionsAnnounced, ToldAt
    <2> QED
        BY <2>1, <2>2, <2>3
<1>3. CASE tx[t].own[j] # Unwritten
    <2>1. Current(t, j) = tx[t].own[j]
        BY <1>3 DEF Current
    <2>2. tx[t].own[j] \in Row
        BY <1>1, <1>3, <2>1 DEF TxRec
    <2>3. Wrote(notices, row, tx[t], j, tx[t].own[j])
        BY <1>1, <1>3 DEF TxKept, OwnKept
    <2> QED
        BY <2>1, <2>2, <2>3, NotRows DEF Wrote
<1> QED
    BY <1>2, <1>3

\* An UPDATE or DELETE makes the row of j be y, if it is there.
LEMMA WriteStep ==
    ASSUME JobInv, NEW t \in Tx, NEW j \in Jobs, NEW y, NEW x \in TxRec,
           tx[t].kind # "create", tx' = [tx EXCEPT ![t] = x],
           UNCHANGED <<now, row, doc, born, notices, failures>>,
           x.own = Written(t, j, y), tx[t].own[j] # Unwritten \/ ~Locked(t, j),
           x.kind = tx[t].kind, x.job = tx[t].job, x.edit = tx[t].edit, x.day = tx[t].day,
           x.snap = tx[t].snap, x.approve = tx[t].approve, x.reject = tx[t].reject,
           x.pc = tx[t].pc \/ tx[t].pc \notin {"approve", "reject"},
           Fits(t, x), ChecksKept(x), ExpiryKept(notices, x),
           Current(t, j) # None => Wrote(notices, row, x, j, y)
    PROVE  JobInv'
<1>1. Shape /\ TxKept(notices, row, t, tx[t]) /\ tx[t] \in TxRec
    BY DEF JobInv, TxsKept, Shape
<1>2. \A k \in Jobs : x.own[k] = IF k = j /\ Current(t, j) # None THEN y ELSE tx[t].own[k]
    BY <1>1 DEF Written, TxRec
<1>3. Current(t, j) # None => tx[t].own[j] # Unwritten \/ row[j] # None
    BY DEF Current
<1>4. ASSUME NEW k \in Jobs, x.own[k] # Unwritten
      PROVE  Wrote(notices, row, x, k, x.own[k])
    <2>1. CASE k = j /\ Current(t, j) # None
        BY <1>2, <2>1
    <2>2. CASE ~(k = j /\ Current(t, j) # None)
        <3>1. x.own[k] = tx[t].own[k] /\ Wrote(notices, row, tx[t], k, x.own[k])
            BY <1>1, <1>2, <1>4, <2>2 DEF TxKept, OwnKept
        <3>2. x.own[k] # None => ToldAt(notices, x, k, x.own[k])
            <4> SUFFICES ASSUME x.own[k] # None PROVE ToldAt(notices, x, k, x.own[k])
                OBVIOUS
            <4>1. x.own[k] \in Row
                BY <1>4 DEF TxRec
            <4>2. x.own[k].approved \in BOOLEAN /\ x.own[k].cancelled \in BOOLEAN
                BY <4>1 DEF Row
            <4>3. ToldAt(notices, tx[t], k, x.own[k])
                BY <3>1 DEF Wrote
            <4> QED
                BY <4>2, <4>3 DEF ToldAt
        <3>3. ExpiredOf(x) = ExpiredOf(tx[t])
            BY DEF ExpiredOf
        <3> QED
            BY <3>1, <3>2, <3>3 DEF Wrote
    <2> QED
        BY <2>1, <2>2
<1>5. OwnKept(notices, row, x)
    BY <1>4 DEF OwnKept
<1>6. SnapKept(notices, x)
    BY <1>1 DEF TxKept, SnapKept
<1>7. TxKept(notices', row, t, x)
    BY <1>5, <1>6 DEF TxKept
<1>8. ASSUME NEW k \in Jobs, x.own[k] # Unwritten
      PROVE  tx[t].own[k] # Unwritten \/ (row[k] # None /\ ~Locked(t, k))
    BY <1>2, <1>3, <1>8
<1>9. /\ notices \subseteq notices' /\ notices' \in SUBSET Notice
      /\ doc' \in [Jobs -> Contents \cup {None}] /\ failures' \in 0 .. MaxFailures
      /\ UNCHANGED <<now, row, born>> /\ x.kind # "create"
    BY <1>1 DEF Shape
<1> HIDE DEF Locked
<1> QED
    BY <1>7, <1>8, <1>9, OneStep

\* A statement that writes no row.
LEMMA PlaceStep ==
    ASSUME JobInv, NEW t \in Tx, NEW x \in TxRec, tx' = [tx EXCEPT ![t] = x],
           UNCHANGED <<now, row, born, failures>>,
           notices \subseteq notices', notices' \in SUBSET Notice,
           doc' \in [Jobs -> Contents \cup {None}],
           x.own = tx[t].own, x.kind = tx[t].kind, x.job = tx[t].job, x.edit = tx[t].edit,
           x.day = tx[t].day, x.snap = tx[t].snap, x.approve = tx[t].approve,
           x.reject = tx[t].reject,
           x.pc = tx[t].pc \/
              /\ tx[t].pc = "approve" => \A j \in x.approve : <<"approved", j>> \in notices'
              /\ tx[t].pc = "reject" => \A j \in x.reject : <<"rejected", j>> \in notices',
           Fits(t, x), ChecksKept(x), ExpiryKept(notices', x)
    PROVE  JobInv'
<1>1. Shape /\ TxKept(notices, row, t, tx[t]) /\ tx[t] \in TxRec
    BY DEF JobInv, TxsKept, Shape
<1>2. TxKept(notices', row, t, tx[t])
    BY <1>1, ToldStays
<1>3. ASSUME NEW j \in Jobs, x.own[j] # Unwritten
      PROVE  Wrote(notices', row, x, j, x.own[j])
    <2>1. Wrote(notices', row, tx[t], j, x.own[j])
        BY <1>2, <1>3 DEF TxKept, OwnKept
    <2>2. x.own[j] # None => ToldAt(notices', x, j, x.own[j])
        <3> SUFFICES ASSUME x.own[j] # None PROVE ToldAt(notices', x, j, x.own[j])
            OBVIOUS
        <3>1. x.own[j] \in Row
            BY <1>3 DEF TxRec
        <3>2. x.own[j].approved \in BOOLEAN /\ x.own[j].cancelled \in BOOLEAN
            BY <3>1 DEF Row
        <3>3. ToldAt(notices', tx[t], j, x.own[j])
            BY <2>1 DEF Wrote
        <3> QED
            BY <3>2, <3>3 DEF ToldAt
    <2>3. ExpiredOf(x) = ExpiredOf(tx[t])
        BY DEF ExpiredOf
    <2> QED
        BY <2>1, <2>2, <2>3 DEF Wrote
<1>4. OwnKept(notices', row, x)
    BY <1>3 DEF OwnKept
<1>5. SnapKept(notices', x)
    BY <1>2 DEF TxKept, SnapKept
<1>6. TxKept(notices', row, t, x)
    BY <1>4, <1>5 DEF TxKept
<1>7. \A j \in Jobs : x.own[j] # Unwritten => tx[t].own[j] # Unwritten
    OBVIOUS
<1>8. failures' \in 0 .. MaxFailures /\ UNCHANGED <<now, row, born>>
    BY <1>1 DEF Shape
<1> QED
    BY <1>6, <1>7, <1>8, OneStep

-----------------------------------------------------------------------------
(* The steps.                                                              *)

LEMMA OverStep ==
    ASSUME JobInv, NEW t \in Tx, NEW pc \in Ended, tx' = [tx EXCEPT ![t] = Over(t, pc)],
           UNCHANGED <<now, row, doc, born, notices>>, failures' \in 0 .. MaxFailures
    PROVE  JobInv'
<1>1. /\ Over(t, pc) \in TxRec /\ TxKept(notices', row, t, Over(t, pc))
      /\ Over(t, pc).kind # "create" /\ Over(t, pc).own = Untouched
    BY OverKept, KindAssumption DEF KindAssumption, Kind
<1>2. \A j \in Jobs : Over(t, pc).own[j] = Unwritten
    BY <1>1, NoTxTyped
<1>3. Shape
    BY DEF JobInv
<1> QED
    BY <1>1, <1>2, <1>3, OneStep DEF Shape

LEMMA RefuseStep ==
    ASSUME JobInv, NEW t \in Tx, Refuse(t)
    PROVE  JobInv'
<1>1. "refused" \in Ended /\ Shape
    BY DEF Ended, JobInv
<1> QED
    BY <1>1, OverStep DEF Refuse, Shape

LEMMA FailStep ==
    ASSUME JobInv, NEW t \in Tx, Fail(t)
    PROVE  JobInv'
<1>1. "failed" \in Ended /\ Shape
    BY DEF Ended, JobInv
<1>2. failures' \in 0 .. MaxFailures
    BY <1>1, JobAssumption DEF Fail, Shape, JobAssumption
<1> QED
    BY <1>1, <1>2, OverStep DEF Fail

\* A transaction begins, or begins again.
LEMMA BeginStep ==
    ASSUME JobInv, NEW t \in Tx, NEW x \in TxRec, tx' = [tx EXCEPT ![t] = x],
           UNCHANGED <<now, row, doc, born, notices, failures>>,
           x.pc = "begin", x.kind \in Kind, x.own = Untouched,
           x.snap = tx[t].snap \/ x.snap = NoRows,
           x.kind = "create" => tx[t].kind = "create" /\ tx[t].job = x.job,
           x.kind = "update" => t \in Requests, x.kind = "expire" => t \in Crons,
           x.kind \in {"create", "update", "delete"} => x.job \in Jobs,
           x.kind = "create" => x.edit.content \in Contents /\ x.edit.deadline \in Days
    PROVE  JobInv'
<1>1. Shape /\ SnapKept(notices, tx[t])
    BY DEF JobInv, TxsKept, TxKept
<1>2. SnapKept(notices, x)
    BY <1>1, NoTxTyped DEF SnapKept
<1>3. TxKept(notices', row, t, x)
    BY <1>2, BegunKept
<1>4. \A j \in Jobs : x.own[j] = Unwritten
    BY NoTxTyped
<1> QED
    BY <1>1, <1>3, <1>4, OneStep DEF Shape

LEMMA ConflictStep ==
    ASSUME JobInv, NEW t \in Tx, Conflict(t)
    PROVE  JobInv'
<1>1. tx[t] \in TxRec /\ Fits(t, tx[t]) /\ Shape
    BY DEF JobInv, TxsKept, TxKept, Shape
<1>2. tx[t].kind \in Kind
    <2>1. tx[t].pc \in {"approve", "reject", "close", "change", "erase"}
        BY DEF Conflict, Wanted
    <2> QED
        BY <1>1, <2>1 DEF Fits, Ended
<1>3. CASE tx[t].attempt < MaxRetries - 1
    <2> DEFINE x == [tx[t] EXCEPT !.pc = "begin", !.attempt = tx[t].attempt + 1, !.todo = {},
                                  !.snap = NoRows, !.own = Untouched]
    <2>1. tx[t].attempt + 1 \in 0 .. MaxRetries - 1
        BY <1>1, <1>3, JobAssumption DEF TxRec, JobAssumption
    <2>2. /\ x \in TxRec /\ x.pc = "begin" /\ x.kind = tx[t].kind /\ x.own = Untouched
          /\ x.snap = NoRows /\ x.job = tx[t].job /\ x.edit = tx[t].edit
        BY <1>1, <2>1, NoTxTyped DEF TxRec, Pc, NoTx
    <2>3. tx' = [tx EXCEPT ![t] = x] /\ UNCHANGED <<now, row, doc, born, notices, failures>>
        BY <1>3 DEF Conflict
    <2> HIDE DEF x
    <2> QED
        BY <1>1, <1>2, <2>2, <2>3, BeginStep DEF Fits
<1>4. CASE ~(tx[t].attempt < MaxRetries - 1)
    <2>1. "failed" \in Ended
        BY DEF Ended
    <2> QED
        BY <1>1, <1>4, <2>1, OverStep DEF Conflict, Shape
<1> QED
    BY <1>3, <1>4

\* What is idle has nothing of an earlier request.
LEMMA IdleKept ==
    ASSUME JobInv, NEW t \in Tx, tx[t].pc = "idle"
    PROVE  tx[t] \in TxRec /\ tx[t].own = Untouched
BY DEF JobInv, TxsKept, TxKept, Fits, Shape, Ended

LEMMA AskSteps ==
    ASSUME JobInv, NEW r \in Requests, AskProcess(r) \/ AskUpdate(r) \/ AskDelete(r)
    PROVE  JobInv'
<1>0. r \in Tx /\ tx[r] \in TxRec /\ tx[r].own = Untouched /\ Shape
    BY IdleKept DEF AskProcess, AskUpdate, AskDelete, Tx, JobInv
<1>1. CASE AskProcess(r)
    <2>1. PICK A \in SUBSET Jobs, R \in SUBSET Jobs :
              tx' = [tx EXCEPT ![r] = [tx[r] EXCEPT !.pc = "begin", !.kind = "process",
                                                    !.approve = A, !.reject = R]]
        BY <1>1 DEF AskProcess
    <2> DEFINE x == [tx[r] EXCEPT !.pc = "begin", !.kind = "process", !.approve = A,
                                  !.reject = R]
    <2>2. /\ x \in TxRec /\ x.pc = "begin" /\ x.kind = "process" /\ x.own = Untouched
          /\ x.snap = tx[r].snap
        BY <1>0 DEF TxRec, Pc, Kind
    <2>3. tx' = [tx EXCEPT ![r] = x] /\ UNCHANGED <<now, row, doc, born, notices, failures>>
        BY <1>1, <2>1 DEF AskProcess
    <2> HIDE DEF x
    <2> QED
        BY <1>0, <2>2, <2>3, BeginStep DEF Kind
<1>2. CASE AskUpdate(r)
    <2>1. PICK j \in born, e \in Edits :
              tx' = [tx EXCEPT ![r] = [tx[r] EXCEPT !.pc = "begin", !.kind = "update",
                                                    !.job = j, !.edit = e]]
        BY <1>2 DEF AskUpdate
    <2> DEFINE x == [tx[r] EXCEPT !.pc = "begin", !.kind = "update", !.job = j, !.edit = e]
    <2>2. j \in Jobs /\ e \in Edit
        BY <1>0, BoundsAssumption DEF Shape, BoundsAssumption
    <2>3. /\ x \in TxRec /\ x.pc = "begin" /\ x.kind = "update" /\ x.own = Untouched
          /\ x.snap = tx[r].snap /\ x.job = j
        BY <1>0, <2>2 DEF TxRec, Pc, Kind
    <2>4. tx' = [tx EXCEPT ![r] = x] /\ UNCHANGED <<now, row, doc, born, notices, failures>>
        BY <1>2, <2>1 DEF AskUpdate
    <2> HIDE DEF x
    <2> QED
        BY <1>0, <2>2, <2>3, <2>4, BeginStep DEF Kind
<1>3. CASE AskDelete(r)
    <2>1. PICK j \in born :
              tx' = [tx EXCEPT ![r] = [tx[r] EXCEPT !.pc = "begin", !.kind = "delete", !.job = j]]
        BY <1>3 DEF AskDelete
    <2> DEFINE x == [tx[r] EXCEPT !.pc = "begin", !.kind = "delete", !.job = j]
    <2>2. j \in Jobs
        BY <1>0 DEF Shape
    <2>3. /\ x \in TxRec /\ x.pc = "begin" /\ x.kind = "delete" /\ x.own = Untouched
          /\ x.snap = tx[r].snap /\ x.job = j
        BY <1>0, <2>2 DEF TxRec, Pc, Kind
    <2>4. tx' = [tx EXCEPT ![r] = x] /\ UNCHANGED <<now, row, doc, born, notices, failures>>
        BY <1>3, <2>1 DEF AskDelete
    <2> HIDE DEF x
    <2> QED
        BY <1>0, <2>2, <2>3, <2>4, BeginStep DEF Kind
<1> QED
    BY <1>1, <1>2, <1>3

LEMMA MidnightStep ==
    ASSUME JobInv, NEW c \in Crons, Midnight(c)
    PROVE  JobInv'
<1> DEFINE x == [tx[c] EXCEPT !.pc = "begin", !.kind = "expire", !.day = now]
<1>1. c \in Tx /\ tx[c] \in TxRec /\ tx[c].own = Untouched /\ Shape
    BY IdleKept DEF Midnight, Tx, JobInv
<1>2. /\ x \in TxRec /\ x.pc = "begin" /\ x.kind = "expire" /\ x.own = Untouched
      /\ x.snap = tx[c].snap
    BY <1>1 DEF TxRec, Pc, Kind, Shape
<1>3. tx' = [tx EXCEPT ![c] = x] /\ UNCHANGED <<now, row, doc, born, notices, failures>>
    BY DEF Midnight
<1> HIDE DEF x
<1> QED
    BY <1>1, <1>2, <1>3, BeginStep DEF Kind

LEMMA ReadStep ==
    ASSUME JobInv, NEW t \in Tx, Read(t)
    PROVE  JobInv'
<1> DEFINE pc == FirstPc(t)
           todo == FirstTodo(t)
           x == [tx[t] EXCEPT !.snap = row, !.pc = pc, !.todo = todo]
<1>1. /\ tx[t] \in TxRec /\ Fits(t, tx[t]) /\ tx[t].pc = "begin" /\ Shape
      /\ DecisionsAnnounced /\ row \in [Jobs -> Row \cup {None}]
      /\ tx' = [tx EXCEPT ![t] = x] /\ UNCHANGED <<now, row, doc, born, notices, failures>>
    BY DEF JobInv, TxsKept, TxKept, Shape, Read
<1>2. tx[t].kind \in Kind /\ tx[t].own = Untouched
    BY <1>1 DEF Fits, Ended
<1>3. /\ pc \in {"insert", "approve", "reject", "change", "drop", "close"}
      /\ pc = "insert" <=> tx[t].kind = "create"
      /\ pc = "change" <=> tx[t].kind = "update"
      /\ pc = "drop" <=> tx[t].kind = "delete"
      /\ pc = "close" <=> tx[t].kind = "expire"
      /\ pc \in {"approve", "reject"} <=> tx[t].kind = "process"
      /\ pc = "approve" => todo = tx[t].approve
      /\ pc = "reject" => tx[t].approve = {} /\ todo = tx[t].reject
      /\ pc = "close" => todo = {j \in Jobs : Due(row[j], tx[t].day)}
    BY <1>2 DEF FirstPc, FirstTodo, Kind
<1>4. todo \in SUBSET Jobs
    BY <1>1 DEF FirstTodo, TxRec
<1> HIDE DEF pc, todo
<1>5. /\ x \in TxRec /\ x.pc = pc /\ x.todo = todo /\ x.kind = tx[t].kind /\ x.own = Untouched
      /\ x.snap = row /\ x.job = tx[t].job /\ x.edit = tx[t].edit /\ x.day = tx[t].day
      /\ x.approve = tx[t].approve /\ x.reject = tx[t].reject
    BY <1>1, <1>2, <1>3, <1>4 DEF TxRec, Pc
<1> HIDE DEF x
<1>6. Fits(t, x)
    BY <1>1, <1>2, <1>3, <1>5 DEF Fits, Ended
<1>7. OwnKept(notices, row, x)
    BY <1>5, NoTxTyped DEF OwnKept
<1>8. SnapKept(notices, x)
    BY <1>1, <1>5 DEF DecisionsAnnounced, SnapKept
<1>9. ChecksKept(x)
    BY <1>3, <1>5 DEF ChecksKept
<1>10. ExpiryKept(notices, x)
    BY <1>3, <1>5 DEF ExpiryKept, ExpiredOf
<1>11. TxKept(notices', row, t, x)
    BY <1>1, <1>6, <1>7, <1>8, <1>9, <1>10 DEF TxKept
<1>12. \A j \in Jobs : x.own[j] = Unwritten
    BY <1>5, NoTxTyped
<1>13. /\ notices \subseteq notices' /\ notices' \in SUBSET Notice
       /\ doc' \in [Jobs -> Contents \cup {None}] /\ failures' \in 0 .. MaxFailures
       /\ UNCHANGED <<now, row, born>>
    BY <1>1 DEF Shape
<1>14. x.kind = "create" => tx[t].kind = "create" /\ tx[t].job = x.job
    BY <1>5
<1>15. x \in TxRec /\ tx' = [tx EXCEPT ![t] = x]
    BY <1>1, <1>5
<1> QED
    BY <1>11, <1>12, <1>13, <1>14, <1>15, OneStep

\* A job is created under an id that no row and no transaction has.
LEMMA AskCreateStep ==
    ASSUME JobInv, NEW r \in Requests, AskCreate(r)
    PROVE  JobInv'
<1>1. PICK c \in Contents, d \in now .. MaxDay + 1, j \in Jobs \ born :
          /\ born' = born \cup {j}
          /\ tx' = [tx EXCEPT ![r] = [tx[r] EXCEPT
                       !.pc = "begin", !.kind = "create", !.job = j,
                       !.edit = [NoEdit EXCEPT !.content = c, !.deadline = d]]]
    BY DEF AskCreate
<1> DEFINE e == [NoEdit EXCEPT !.content = c, !.deadline = d]
           x == [tx[r] EXCEPT !.pc = "begin", !.kind = "create", !.job = j, !.edit = e]
<1>2. /\ r \in Tx /\ tx[r] \in TxRec /\ tx[r].own = Untouched
      /\ Shape /\ TxsKept /\ Exclusive /\ Reserved /\ DecisionsAnnounced
      /\ SnapKept(notices, tx[r])
      /\ UNCHANGED <<now, row, doc, notices, failures>>
    BY IdleKept DEF AskCreate, Tx, JobInv, TxsKept, TxKept
<1>3. d \in Days
    BY <1>2, JobAssumption DEF Shape, Days, JobAssumption
<1>4. e \in Edit /\ e.content = c /\ e.deadline = d
    BY <1>3, NoTxTyped DEF Edit, NoEdit
<1>5. tx' = [tx EXCEPT ![r] = x] /\ born' = born \cup {j}
    BY <1>1
<1> HIDE DEF e
<1>6. /\ x \in TxRec /\ x.pc = "begin" /\ x.kind = "create" /\ x.own = Untouched
      /\ x.snap = tx[r].snap /\ x.job = j /\ x.edit = e
    BY <1>2, <1>4 DEF TxRec, Pc, Kind
<1> HIDE DEF x
<1>7. TxKept(notices, row, r, x)
    <2>1. SnapKept(notices, x)
        BY <1>2, <1>6 DEF SnapKept
    <2> QED
        BY <1>3, <1>4, <1>6, <2>1, BegunKept DEF Kind
<1>8. \A s \in Tx : tx'[s] = IF s = r THEN x ELSE tx[s]
    BY <1>2, <1>5 DEF Shape
<1>9. row[j] = None
    BY <1>2 DEF Reserved
<1>10. ASSUME NEW s \in Tx PROVE tx[s].own[j] = Unwritten
    <2> SUFFICES ASSUME tx[s].own[j] # Unwritten PROVE FALSE
        OBVIOUS
    <2>1. Wrote(notices, row, tx[s], j, tx[s].own[j])
        BY <1>2 DEF TxsKept, TxKept, OwnKept
    <2>2. tx[s].kind = "create" /\ tx[s].job = j
        BY <1>9, <2>1 DEF Wrote
    <2> QED
        BY <1>2, <2>2 DEF Reserved
<1>11. Shape'
    BY <1>2, <1>5, <1>6 DEF Shape
<1>12. TxsKept'
    BY <1>2, <1>7, <1>8 DEF TxsKept
<1>13. Exclusive'
    BY <1>2, <1>6, <1>8, NoTxTyped DEF Exclusive
<1>14. Reserved'
    <2>1. \A k \in Jobs : row'[k] # None => k \in born'
        BY <1>2, <1>5 DEF Reserved
    <2>2. ASSUME NEW s \in Tx, tx'[s].kind = "create"
          PROVE  /\ tx'[s].job \in born' /\ row'[tx'[s].job] = None
                 /\ \A u \in Tx \ {s} : /\ tx'[u].own[tx'[s].job] = Unwritten
                                        /\ tx'[u].kind = "create" => tx'[u].job # tx'[s].job
        <3>1. CASE s = r
            <4>1. tx'[s].job = j
                BY <1>6, <1>8, <3>1
            <4>2. ASSUME NEW u \in Tx \ {s}
                  PROVE  tx'[u].own[j] = Unwritten /\ (tx'[u].kind = "create" => tx'[u].job # j)
                BY <1>2, <1>8, <1>10, <3>1 DEF Reserved
            <4> QED
                BY <1>2, <1>5, <1>9, <4>1, <4>2
        <3>2. CASE s # r
            <4>1. /\ tx'[s] = tx[s] /\ tx[s].job \in born /\ tx[s].job \in Jobs
                  /\ row[tx[s].job] = None
                BY <1>2, <1>8, <2>2, <3>2 DEF Reserved, Shape
            <4>2. ASSUME NEW u \in Tx \ {s}
                  PROVE  /\ tx'[u].own[tx[s].job] = Unwritten
                         /\ tx'[u].kind = "create" => tx'[u].job # tx[s].job
                <5>1. CASE u = r
                    BY <1>6, <1>8, <4>1, <5>1, NoTxTyped
                <5>2. CASE u # r
                    BY <1>2, <1>8, <2>2, <4>1, <5>2 DEF Reserved
                <5> QED
                    BY <5>1, <5>2
            <4> QED
                BY <1>2, <1>5, <4>1, <4>2
        <3> QED
            BY <3>1, <3>2
    <2> QED
        BY <2>1, <2>2 DEF Reserved
<1>15. DecisionsAnnounced'
    BY <1>2 DEF DecisionsAnnounced
<1> QED
    BY <1>11, <1>12, <1>13, <1>14, <1>15 DEF JobInv

LEMMA InsertStep ==
    ASSUME JobInv, NEW r \in Tx, Insert(r)
    PROVE  JobInv'
<1>1. CASE Refuse(r)
    BY <1>1, RefuseStep
<1>2. CASE ~Refuse(r)
    <2> DEFINE new == NewRow(tx[r].edit)
               own == [tx[r].own EXCEPT ![tx[r].job] = new]
               x == [tx[r] EXCEPT !.own = own, !.pc = "index"]
    <2>1. /\ tx[r] \in TxRec /\ TxKept(notices, row, r, tx[r]) /\ tx[r].pc = "insert" /\ Shape
          /\ tx' = [tx EXCEPT ![r] = x]
          /\ UNCHANGED <<now, row, doc, born, notices, failures>>
        BY <1>2 DEF JobInv, TxsKept, Shape, Insert
    <2>2. /\ tx[r].kind = "create" /\ tx[r].job \in Jobs
          /\ tx[r].edit.content \in Contents /\ tx[r].edit.deadline \in Days
        BY <2>1 DEF TxKept, Fits
    <2>3. new \in Row /\ new.status = "open" /\ ~new.approved /\ ~new.cancelled
        BY <2>2 DEF NewRow, Row
    <2> HIDE DEF new
    <2>4. /\ own \in [Jobs -> Row \cup {None, Unwritten}]
          /\ \A j \in Jobs : own[j] = IF j = tx[r].job THEN new ELSE tx[r].own[j]
        BY <2>1, <2>2, <2>3 DEF TxRec
    <2> HIDE DEF own
    <2>5. /\ x \in TxRec /\ x.pc = "index" /\ x.kind = "create" /\ x.job = tx[r].job
          /\ x.own = own /\ x.edit = tx[r].edit /\ x.snap = tx[r].snap
        BY <2>1, <2>2, <2>4 DEF TxRec, Pc
    <2> HIDE DEF x
    <2>6. Fits(r, x)
        BY <2>2, <2>3, <2>4, <2>5, NotRows DEF Fits, Ended, Kind
    <2>7. OwnKept(notices, row, x)
        <3> SUFFICES ASSUME NEW j \in Jobs, x.own[j] # Unwritten
                     PROVE  Wrote(notices, row, x, j, x.own[j])
            BY DEF OwnKept
        <3>1. CASE j = tx[r].job
            BY <2>3, <2>4, <2>5, <3>1, NotRows DEF Wrote, ToldAt
        <3>2. CASE j # tx[r].job
            BY <2>1, <2>2, <2>4, <2>5, <3>2 DEF TxKept, OwnKept, Wrote
        <3> QED
            BY <3>1, <3>2
    <2>8. SnapKept(notices, x) /\ ChecksKept(x) /\ ExpiryKept(notices, x)
        BY <2>1, <2>5 DEF TxKept, SnapKept, ChecksKept, ExpiryKept
    <2>9. TxKept(notices', row, r, x)
        BY <2>1, <2>6, <2>7, <2>8 DEF TxKept
    <2>10. \A j \in Jobs : x.own[j] # Unwritten => tx[r].own[j] # Unwritten \/ j = x.job
        BY <2>4, <2>5
    <2> QED
        BY <2>1, <2>2, <2>5, <2>9, <2>10, OneStep DEF Shape
<1> QED
    BY <1>1, <1>2

\* The row there is becomes another row.
LEMMA WrittenRow ==
    ASSUME JobInv, NEW t \in Tx, NEW j \in Jobs, NEW y,
           Current(t, j) # None => y \in Row \cup {None}
    PROVE  /\ Written(t, j, y) \in [Jobs -> Row \cup {None, Unwritten}]
           /\ \A k \in Jobs :
                 Written(t, j, y)[k] = IF k = j /\ Current(t, j) # None THEN y ELSE tx[t].own[k]
<1>1. tx[t].own \in [Jobs -> Row \cup {None, Unwritten}]
    BY DEF JobInv, Shape, TxRec
<1> QED
    BY <1>1 DEF Written

\* What a row is made.
LEMMA RowsMade ==
    ASSUME NEW x \in Row
    PROVE  /\ Approved(x) \in Row /\ Approved(x).status = x.status
           /\ Approved(x).cancelled = x.cancelled
           /\ Rejected(x) \in Row /\ Rejected(x).status = x.status /\ ~Rejected(x).approved
           /\ Closed(x) \in Row /\ Closed(x).approved = x.approved
           /\ Closed(x).cancelled = x.cancelled
BY DEF Row, Approved, Rejected, Closed

LEMMA EditedTyped ==
    ASSUME NEW x \in Row, NEW e \in Edit
    PROVE  /\ Edited(x, e) \in Row /\ ~Edited(x, e).approved
           /\ Edited(x, e).cancelled = x.cancelled
           /\ Edited(x, e).status = x.status \/ Edited(x, e).status = e.status
<1> DEFINE content == IF e.content = None THEN x.content ELSE e.content
           status == IF e.status = None THEN x.status ELSE e.status
           deadline == IF e.deadline = None THEN x.deadline ELSE e.deadline
           y == [x EXCEPT !.content = content, !.status = status, !.deadline = deadline,
                          !.approved = FALSE]
<1>1. Edited(x, e) = y
    BY DEF Edited
<1>2. content \in Contents /\ deadline \in Days
    BY DEF Row, Edit
<1>3. status \in {"open", "closed"} /\ (status = x.status \/ status = e.status)
    BY DEF Row, Edit
<1> HIDE DEF content, status, deadline
<1>4. y \in Row /\ ~y.approved /\ y.cancelled = x.cancelled /\ y.status = status
    BY <1>2, <1>3 DEF Row
<1> HIDE DEF y
<1> QED
    BY <1>1, <1>3, <1>4

LEMMA NoticesTyped ==
    ASSUME NEW S \in SUBSET Jobs
    PROVE  /\ {"approved"} \X S \subseteq Notice /\ {"rejected"} \X S \subseteq Notice
           /\ {"expired"} \X S \subseteq Notice
           /\ \A j \in S : <<"recommended", j>> \in Notice
BY DEF Notice

LEMMA ApproveStep ==
    ASSUME JobInv, NEW r \in Tx, Approve(r)
    PROVE  JobInv'
<1>1. /\ tx[r] \in TxRec /\ TxKept(notices, row, r, tx[r]) /\ tx[r].pc = "approve" /\ Shape
    BY DEF JobInv, TxsKept, Shape, Approve
<1>2. tx[r].kind = "process"
    BY <1>1 DEF TxKept, Fits
<1>3. PICK j \in tx[r].todo :
          \/ Refuse(r)
          \/ /\ Decidable(r, j) /\ ~Locked(r, j)
             /\ tx' = [tx EXCEPT ![r] = [tx[r] EXCEPT
                         !.own = Written(r, j, Approved(Current(r, j))),
                         !.todo = tx[r].todo \ {j}]]
             /\ UNCHANGED <<now, row, doc, born, notices, failures>>
    BY DEF Approve
<1>4. CASE Refuse(r)
    BY <1>4, RefuseStep
<1>5. CASE ~Refuse(r)
    <2> DEFINE y == Approved(Current(r, j))
               own == Written(r, j, y)
               x == [tx[r] EXCEPT !.own = own, !.todo = tx[r].todo \ {j}]
    <2>1. /\ Decidable(r, j) /\ ~Locked(r, j) /\ tx' = [tx EXCEPT ![r] = x]
          /\ UNCHANGED <<now, row, doc, born, notices, failures>>
        BY <1>3, <1>5
    <2>2. j \in Jobs /\ j \in tx[r].approve /\ tx[r].kind # "create"
        BY <1>1, <1>2 DEF TxKept, ChecksKept, TxRec
    <2>3. Undecided(tx[r].snap[j])
        <3>1. CASE tx[r].own[j] = Unwritten
            BY <2>1, <3>1 DEF Decidable, View, Undecided
        <3>2. CASE tx[r].own[j] # Unwritten
            BY <1>1, <1>2, <2>2, <3>2 DEF TxKept, OwnKept, Wrote
        <3> QED
            BY <3>1, <3>2
    <2>4. Current(r, j) # None =>
              /\ y \in Row /\ y.status = row[j].status /\ row[j] # None
              /\ Current(r, j) \in Row /\ ToldAt(notices, tx[r], j, Current(r, j))
              /\ y.cancelled = Current(r, j).cancelled
        BY <1>2, <2>2, CurrentKept, RowsMade
    <2> HIDE DEF y
    <2>5. own \in [Jobs -> Row \cup {None, Unwritten}]
        BY <2>2, <2>4, WrittenRow
    <2>6. own = Written(r, j, y)
        OBVIOUS
    <2> HIDE DEF own
    <2>7. /\ x \in TxRec /\ x.own = own /\ x.pc = tx[r].pc /\ x.kind = tx[r].kind
          /\ x.job = tx[r].job /\ x.edit = tx[r].edit /\ x.day = tx[r].day
          /\ x.snap = tx[r].snap /\ x.approve = tx[r].approve /\ x.reject = tx[r].reject
          /\ x.todo = tx[r].todo \ {j}
        BY <1>1, <2>5 DEF TxRec
    <2> HIDE DEF x
    <2>8. Fits(r, x)
        BY <1>1, <1>2, <2>7 DEF TxKept, Fits, Ended, Kind
    <2>9. ChecksKept(x) /\ ExpiryKept(notices, x)
        BY <1>1, <1>2, <2>2, <2>3, <2>7 DEF TxKept, ChecksKept, ExpiryKept
    <2>10. Current(r, j) # None => Wrote(notices, row, x, j, y)
        <3> SUFFICES ASSUME Current(r, j) # None PROVE Wrote(notices, row, x, j, y)
            OBVIOUS
        <3>1. Current(r, j).cancelled => <<"rejected", j>> \in notices
            BY <1>1, <2>4 DEF ToldAt
        <3>2. ToldAt(notices, x, j, y)
            BY <1>1, <1>2, <2>2, <2>4, <2>7, <3>1 DEF ToldAt
        <3> QED
            BY <1>2, <2>3, <2>4, <2>7, <3>2, NotRows DEF Wrote
    <2> QED
        BY <2>1, <2>2, <2>6, <2>7, <2>8, <2>9, <2>10, WriteStep
<1> QED
    BY <1>4, <1>5

LEMMA RejectStep ==
    ASSUME JobInv, NEW r \in Tx, Reject(r)
    PROVE  JobInv'
<1>1. /\ tx[r] \in TxRec /\ TxKept(notices, row, r, tx[r]) /\ tx[r].pc = "reject" /\ Shape
    BY DEF JobInv, TxsKept, Shape, Reject
<1>2. tx[r].kind = "process"
    BY <1>1 DEF TxKept, Fits
<1>3. PICK j \in tx[r].todo :
          \/ Refuse(r)
          \/ /\ Decidable(r, j) /\ ~Locked(r, j)
             /\ tx' = [tx EXCEPT ![r] = [tx[r] EXCEPT
                         !.own = Written(r, j, Rejected(Current(r, j))),
                         !.todo = tx[r].todo \ {j}]]
             /\ UNCHANGED <<now, row, doc, born, notices, failures>>
    BY DEF Reject
<1>4. CASE Refuse(r)
    BY <1>4, RefuseStep
<1>5. CASE ~Refuse(r)
    <2> DEFINE y == Rejected(Current(r, j))
               own == Written(r, j, y)
               x == [tx[r] EXCEPT !.own = own, !.todo = tx[r].todo \ {j}]
    <2>1. /\ Decidable(r, j) /\ ~Locked(r, j) /\ tx' = [tx EXCEPT ![r] = x]
          /\ UNCHANGED <<now, row, doc, born, notices, failures>>
        BY <1>3, <1>5
    <2>2. j \in Jobs /\ j \in tx[r].reject /\ tx[r].kind # "create"
        BY <1>1, <1>2 DEF TxKept, ChecksKept, TxRec
    <2>3. Undecided(tx[r].snap[j])
        <3>1. CASE tx[r].own[j] = Unwritten
            BY <2>1, <3>1 DEF Decidable, View, Undecided
        <3>2. CASE tx[r].own[j] # Unwritten
            BY <1>1, <1>2, <2>2, <3>2 DEF TxKept, OwnKept, Wrote
        <3> QED
            BY <3>1, <3>2
    <2>4. Current(r, j) # None =>
              /\ y \in Row /\ y.status = row[j].status /\ row[j] # None /\ ~y.approved
        BY <1>2, <2>2, CurrentKept, RowsMade
    <2> HIDE DEF y
    <2>5. own \in [Jobs -> Row \cup {None, Unwritten}]
        BY <2>2, <2>4, WrittenRow
    <2>6. own = Written(r, j, y)
        OBVIOUS
    <2> HIDE DEF own
    <2>7. /\ x \in TxRec /\ x.own = own /\ x.pc = tx[r].pc /\ x.kind = tx[r].kind
          /\ x.job = tx[r].job /\ x.edit = tx[r].edit /\ x.day = tx[r].day
          /\ x.snap = tx[r].snap /\ x.approve = tx[r].approve /\ x.reject = tx[r].reject
          /\ x.todo = tx[r].todo \ {j}
        BY <1>1, <2>5 DEF TxRec
    <2> HIDE DEF x
    <2>8. Fits(r, x)
        BY <1>1, <1>2, <2>7 DEF TxKept, Fits, Ended, Kind
    <2>9. ChecksKept(x) /\ ExpiryKept(notices, x)
        BY <1>1, <1>2, <2>2, <2>3, <2>7 DEF TxKept, ChecksKept, ExpiryKept
    <2>10. Current(r, j) # None => Wrote(notices, row, x, j, y)
        <3> SUFFICES ASSUME Current(r, j) # None PROVE Wrote(notices, row, x, j, y)
            OBVIOUS
        <3>1. ToldAt(notices, x, j, y)
            BY <1>1, <1>2, <2>2, <2>4, <2>7 DEF ToldAt
        <3> QED
            BY <1>2, <2>3, <2>4, <2>7, <3>1, NotRows DEF Wrote
    <2> QED
        BY <2>1, <2>2, <2>6, <2>7, <2>8, <2>9, <2>10, WriteStep
<1> QED
    BY <1>4, <1>5

\* The approvals are told when all of them are taken.
LEMMA AnnounceApprovedStep ==
    ASSUME JobInv, NEW r \in Tx, AnnounceApproved(r)
    PROVE  JobInv'
<1> DEFINE x == [tx[r] EXCEPT !.pc = "recommend", !.todo = tx[r].approve]
           new == {"approved"} \X tx[r].approve
<1>1. /\ tx[r] \in TxRec /\ TxKept(notices, row, r, tx[r]) /\ tx[r].pc = "approve" /\ Shape
      /\ tx[r].todo = {} /\ notices' = notices \cup new
      /\ tx' = [tx EXCEPT ![r] = x] /\ UNCHANGED <<now, row, doc, born, failures>>
    BY DEF JobInv, TxsKept, Shape, AnnounceApproved
<1>2. tx[r].kind = "process"
    BY <1>1 DEF TxKept, Fits
<1>3. new \subseteq Notice /\ \A j \in tx[r].approve : <<"approved", j>> \in new
    BY <1>1, NoticesTyped DEF TxRec
<1> HIDE DEF new
<1>4. /\ x \in TxRec /\ x.own = tx[r].own /\ x.pc = "recommend" /\ x.kind = tx[r].kind
      /\ x.job = tx[r].job /\ x.edit = tx[r].edit /\ x.day = tx[r].day
      /\ x.snap = tx[r].snap /\ x.approve = tx[r].approve /\ x.reject = tx[r].reject
      /\ x.todo = tx[r].approve
    BY <1>1 DEF TxRec, Pc
<1> HIDE DEF x
<1>5. Fits(r, x)
    BY <1>1, <1>2, <1>4 DEF TxKept, Fits, Ended, Kind
<1>6. ChecksKept(x) /\ ExpiryKept(notices', x)
    BY <1>1, <1>2, <1>4 DEF TxKept, ChecksKept, ExpiryKept
<1>7. /\ notices \subseteq notices' /\ notices' \in SUBSET Notice
      /\ doc' \in [Jobs -> Contents \cup {None}]
      /\ \A j \in x.approve : <<"approved", j>> \in notices'
    BY <1>1, <1>3, <1>4 DEF Shape
<1> QED
    BY <1>1, <1>4, <1>5, <1>6, <1>7, PlaceStep

LEMMA RecommendStep ==
    ASSUME JobInv, NEW r \in Tx, Recommend(r)
    PROVE  JobInv'
<1>1. /\ tx[r] \in TxRec /\ TxKept(notices, row, r, tx[r]) /\ tx[r].pc = "recommend" /\ Shape
      /\ UNCHANGED <<now, row, doc, born, failures>>
    BY DEF JobInv, TxsKept, Shape, Recommend
<1>2. tx[r].kind = "process"
    BY <1>1 DEF TxKept, Fits
<1>3. PICK j \in tx[r].todo :
          /\ notices' \in {notices, notices \cup {<<"recommended", j>>}}
          /\ tx' = [tx EXCEPT ![r] = [tx[r] EXCEPT
               !.todo = IF tx[r].todo = {j} THEN tx[r].reject ELSE tx[r].todo \ {j},
               !.pc = IF tx[r].todo = {j} THEN "reject" ELSE "recommend"]]
    BY DEF Recommend
<1> DEFINE todo == IF tx[r].todo = {j} THEN tx[r].reject ELSE tx[r].todo \ {j}
           pc == IF tx[r].todo = {j} THEN "reject" ELSE "recommend"
           x == [tx[r] EXCEPT !.todo = todo, !.pc = pc]
<1>4. tx' = [tx EXCEPT ![r] = x]
    BY <1>3
<1>5. /\ todo \in SUBSET Jobs /\ pc \in {"reject", "recommend"}
      /\ pc = "reject" => todo = tx[r].reject
    BY <1>1 DEF TxRec
<1> HIDE DEF todo, pc
<1>6. /\ x \in TxRec /\ x.own = tx[r].own /\ x.pc = pc /\ x.kind = tx[r].kind
      /\ x.job = tx[r].job /\ x.edit = tx[r].edit /\ x.day = tx[r].day
      /\ x.snap = tx[r].snap /\ x.approve = tx[r].approve /\ x.reject = tx[r].reject
      /\ x.todo = todo
    BY <1>1, <1>5 DEF TxRec, Pc
<1> HIDE DEF x
<1>7. Fits(r, x)
    BY <1>1, <1>2, <1>5, <1>6 DEF TxKept, Fits, Ended, Kind
<1>8. ChecksKept(x) /\ ExpiryKept(notices', x)
    BY <1>1, <1>2, <1>5, <1>6 DEF TxKept, ChecksKept, ExpiryKept
<1>9. /\ notices \subseteq notices' /\ notices' \in SUBSET Notice
      /\ doc' \in [Jobs -> Contents \cup {None}]
    <2>1. <<"recommended", j>> \in Notice
        BY <1>1, NoticesTyped DEF TxRec
    <2> QED
        BY <1>1, <1>3, <2>1 DEF Shape
<1> QED
    BY <1>1, <1>4, <1>6, <1>7, <1>8, <1>9, PlaceStep

LEMMA AnnounceRejectedStep ==
    ASSUME JobInv, NEW r \in Tx, AnnounceRejected(r)
    PROVE  JobInv'
<1> DEFINE x == [tx[r] EXCEPT !.pc = "commit"]
           new == {"rejected"} \X tx[r].reject
<1>1. /\ tx[r] \in TxRec /\ TxKept(notices, row, r, tx[r]) /\ tx[r].pc = "reject" /\ Shape
      /\ tx[r].todo = {} /\ notices' = notices \cup new
      /\ tx' = [tx EXCEPT ![r] = x] /\ UNCHANGED <<now, row, doc, born, failures>>
    BY DEF JobInv, TxsKept, Shape, AnnounceRejected
<1>2. tx[r].kind = "process"
    BY <1>1 DEF TxKept, Fits
<1>3. new \subseteq Notice /\ \A j \in tx[r].reject : <<"rejected", j>> \in new
    BY <1>1, NoticesTyped DEF TxRec
<1> HIDE DEF new
<1>4. /\ x \in TxRec /\ x.own = tx[r].own /\ x.pc = "commit" /\ x.kind = tx[r].kind
      /\ x.job = tx[r].job /\ x.edit = tx[r].edit /\ x.day = tx[r].day
      /\ x.snap = tx[r].snap /\ x.approve = tx[r].approve /\ x.reject = tx[r].reject
    BY <1>1 DEF TxRec, Pc
<1> HIDE DEF x
<1>5. Fits(r, x)
    BY <1>1, <1>2, <1>4 DEF TxKept, Fits, Ended, Kind
<1>6. ChecksKept(x) /\ ExpiryKept(notices', x)
    BY <1>1, <1>2, <1>4 DEF TxKept, ChecksKept, ExpiryKept
<1>7. /\ notices \subseteq notices' /\ notices' \in SUBSET Notice
      /\ doc' \in [Jobs -> Contents \cup {None}]
      /\ \A j \in x.reject : <<"rejected", j>> \in notices'
    BY <1>1, <1>3, <1>4 DEF Shape
<1> QED
    BY <1>1, <1>4, <1>5, <1>6, <1>7, PlaceStep

\* The document is written of a row that the transaction sees.
LEMMA IndexStep ==
    ASSUME JobInv, NEW r \in Tx, Index(r)
    PROVE  JobInv'
<1> DEFINE x == [tx[r] EXCEPT !.pc = "commit"]
           y == View(r, tx[r].job)
<1>1. /\ tx[r] \in TxRec /\ TxKept(notices, row, r, tx[r]) /\ tx[r].pc = "index" /\ Shape
      /\ doc' = [doc EXCEPT ![tx[r].job] = y.content]
      /\ tx' = [tx EXCEPT ![r] = x] /\ UNCHANGED <<now, row, born, notices, failures>>
    BY DEF JobInv, TxsKept, Shape, Index
<1>2. /\ tx[r].kind \in {"create", "update"} /\ tx[r].job \in Jobs
      /\ tx[r].own[tx[r].job] # None
      /\ tx[r].own[tx[r].job] = Unwritten => tx[r].snap[tx[r].job] # None
    BY <1>1 DEF TxKept, Fits
<1>3. y \in Row
    BY <1>1, <1>2 DEF View, TxRec
<1>4. doc' \in [Jobs -> Contents \cup {None}]
    BY <1>1, <1>2, <1>3 DEF Shape, Row
<1> HIDE DEF y
<1>5. /\ x \in TxRec /\ x.own = tx[r].own /\ x.pc = "commit" /\ x.kind = tx[r].kind
      /\ x.job = tx[r].job /\ x.edit = tx[r].edit /\ x.day = tx[r].day
      /\ x.snap = tx[r].snap /\ x.approve = tx[r].approve /\ x.reject = tx[r].reject
    BY <1>1 DEF TxRec, Pc
<1> HIDE DEF x
<1>6. Fits(r, x)
    BY <1>1, <1>2, <1>5 DEF TxKept, Fits, Ended, Kind
<1>7. ChecksKept(x) /\ ExpiryKept(notices', x)
    BY <1>2, <1>5 DEF ChecksKept, ExpiryKept
<1>8. notices \subseteq notices' /\ notices' \in SUBSET Notice
    BY <1>1 DEF Shape
<1> QED
    BY <1>1, <1>4, <1>5, <1>6, <1>7, <1>8, PlaceStep

LEMMA ChangeStep ==
    ASSUME JobInv, NEW r \in Tx, Change(r)
    PROVE  JobInv'
<1> DEFINE j == tx[r].job
           e == tx[r].edit
           y == Edited(Current(r, j), e)
           own == Written(r, j, y)
           pc == IF e.requirement THEN "restore" ELSE "index"
           x == [tx[r] EXCEPT !.own = own, !.pc = pc]
<1>1. /\ tx[r] \in TxRec /\ TxKept(notices, row, r, tx[r]) /\ tx[r].pc = "change" /\ Shape
    BY DEF JobInv, TxsKept, Shape, Change
<1>2. tx[r].kind = "update" /\ j \in Jobs /\ e \in Edit /\ tx[r].own = Untouched
    BY <1>1 DEF TxKept, Fits, TxRec
<1>3. CASE Refuse(r)
    BY <1>3, RefuseStep
<1>4. CASE ~Refuse(r)
    <2>1. /\ Editable(r, e, View(r, j)) /\ ~Locked(r, j) /\ tx' = [tx EXCEPT ![r] = x]
          /\ UNCHANGED <<now, row, doc, born, notices, failures>>
        BY <1>4 DEF Change
    <2>2. tx[r].own[j] = Unwritten /\ tx[r].snap[j] # None
        BY <1>2, <2>1, NoTxTyped DEF Editable, View
    <2>3. Current(r, j) = row[j]
        BY <2>2 DEF Current
    <2>4. Current(r, j) # None =>
              /\ y \in Row /\ ~y.approved /\ row[j] # None
              /\ Current(r, j) \in Row /\ ToldAt(notices, tx[r], j, Current(r, j))
              /\ y.cancelled = Current(r, j).cancelled
              /\ y.status = row[j].status \/ y.status = e.status
        BY <1>2, <2>3, CurrentKept, EditedTyped DEF Kind
    <2> HIDE DEF y
    <2>5. /\ own \in [Jobs -> Row \cup {None, Unwritten}]
          /\ \A k \in Jobs : own[k] = IF k = j /\ Current(r, j) # None THEN y
                                                                      ELSE tx[r].own[k]
        BY <1>2, <2>4, WrittenRow
    <2>6. own = Written(r, j, y) /\ pc \in {"restore", "index"}
        OBVIOUS
    <2> HIDE DEF own, pc
    <2>7. /\ x \in TxRec /\ x.own = own /\ x.pc = pc /\ x.kind = tx[r].kind
          /\ x.job = j /\ x.edit = e /\ x.day = tx[r].day
          /\ x.snap = tx[r].snap /\ x.approve = tx[r].approve /\ x.reject = tx[r].reject
        BY <1>1, <2>5, <2>6 DEF TxRec, Pc
    <2> HIDE DEF x
    <2>8. x.own[j] # None
        BY <1>2, <2>2, <2>4, <2>5, <2>7, NotRows
    <2>9. Fits(r, x)
        BY <1>1, <1>2, <2>2, <2>6, <2>7, <2>8 DEF TxKept, Fits, Ended, Kind
    <2>10. ChecksKept(x) /\ ExpiryKept(notices, x)
        BY <1>2, <2>7 DEF ChecksKept, ExpiryKept
    <2>11. Current(r, j) # None => Wrote(notices, row, x, j, y)
        <3> SUFFICES ASSUME Current(r, j) # None PROVE Wrote(notices, row, x, j, y)
            OBVIOUS
        <3>1. Current(r, j).cancelled => <<"rejected", j>> \in notices
            BY <1>2, <2>4 DEF ToldAt
        <3>2. ToldAt(notices, x, j, y)
            BY <2>4, <3>1 DEF ToldAt
        <3> QED
            BY <1>2, <2>4, <2>7, <3>2, NotRows DEF Wrote
    <2>12. x.job = tx[r].job /\ x.edit = tx[r].edit /\ tx[r].kind # "create"
        BY <1>2, <2>7
    <2> HIDE DEF j, e
    <2> QED
        BY <1>1, <1>2, <2>1, <2>6, <2>7, <2>9, <2>10, <2>11, <2>12, WriteStep
<1> QED
    BY <1>3, <1>4

\* The row that is written back is one that had been read.
LEMMA RestoreStep ==
    ASSUME JobInv, NEW r \in Tx, Restore(r)
    PROVE  JobInv'
<1> DEFINE j == tx[r].job
           y == tx[r].snap[j]
           own == Written(r, j, y)
           x == [tx[r] EXCEPT !.own = own, !.pc = "index"]
<1>1. /\ tx[r] \in TxRec /\ TxKept(notices, row, r, tx[r]) /\ tx[r].pc = "restore" /\ Shape
    BY DEF JobInv, TxsKept, Shape, Restore
<1>2. /\ tx[r].kind = "update" /\ j \in Jobs /\ tx[r].own[j] # None /\ y # None
    BY <1>1 DEF TxKept, Fits
<1>3. CASE Refuse(r)
    BY <1>3, RefuseStep
<1>4. CASE ~Refuse(r)
    <2>1. /\ tx[r].own[j] # Unwritten /\ tx' = [tx EXCEPT ![r] = x]
          /\ UNCHANGED <<now, row, doc, born, notices, failures>>
        BY <1>4 DEF Restore
    <2>2. /\ y.approved => <<"approved", j>> \in notices
          /\ y.cancelled => <<"rejected", j>> \in notices
        BY <1>1, <1>2 DEF TxKept, SnapKept
    <2>3. y \in Row
        BY <1>1, <1>2 DEF TxRec
    <2>4. row[j] # None
        BY <1>1, <1>2, <2>1 DEF TxKept, OwnKept, Wrote
    <2>5. /\ own \in [Jobs -> Row \cup {None, Unwritten}]
          /\ \A k \in Jobs : own[k] = IF k = j /\ Current(r, j) # None THEN y
                                                                      ELSE tx[r].own[k]
        BY <1>2, <2>3, WrittenRow
    <2>6. own = Written(r, j, y)
        OBVIOUS
    <2> HIDE DEF own
    <2>7. /\ x \in TxRec /\ x.own = own /\ x.pc = "index" /\ x.kind = tx[r].kind
          /\ x.job = j /\ x.edit = tx[r].edit /\ x.day = tx[r].day
          /\ x.snap = tx[r].snap /\ x.approve = tx[r].approve /\ x.reject = tx[r].reject
        BY <1>1, <2>5 DEF TxRec, Pc
    <2> HIDE DEF x
    <2>8. x.own[j] # None
        BY <1>2, <2>5, <2>7
    <2>9. Fits(r, x)
        BY <1>1, <1>2, <2>7, <2>8 DEF TxKept, Fits, Ended, Kind
    <2>10. ChecksKept(x) /\ ExpiryKept(notices, x)
        BY <1>2, <2>7 DEF ChecksKept, ExpiryKept
    <2>11. Wrote(notices, row, x, j, y)
        <3>1. ToldAt(notices, x, j, y)
            BY <2>2, Zenon DEF ToldAt
        <3> QED
            BY <1>2, <2>4, <2>7, <3>1 DEF Wrote
    <2>12. x.job = tx[r].job /\ tx[r].kind # "create"
        BY <1>2, <2>7
    <2> HIDE DEF j, y
    <2> QED
        BY <1>1, <1>2, <2>1, <2>6, <2>7, <2>9, <2>10, <2>11, <2>12, WriteStep
<1> QED
    BY <1>3, <1>4

LEMMA DropStep ==
    ASSUME JobInv, NEW r \in Tx, Drop(r)
    PROVE  JobInv'
<1> DEFINE x == [tx[r] EXCEPT !.pc = "erase"]
<1>1. /\ tx[r] \in TxRec /\ TxKept(notices, row, r, tx[r]) /\ tx[r].pc = "drop" /\ Shape
    BY DEF JobInv, TxsKept, Shape, Drop
<1>2. tx[r].kind = "delete"
    BY <1>1 DEF TxKept, Fits
<1>3. CASE Refuse(r)
    BY <1>3, RefuseStep
<1>4. CASE ~Refuse(r)
    <2>1. /\ doc' = [doc EXCEPT ![tx[r].job] = None] /\ tx' = [tx EXCEPT ![r] = x]
          /\ UNCHANGED <<now, row, born, notices, failures>>
        BY <1>4 DEF Drop
    <2>2. /\ x \in TxRec /\ x.own = tx[r].own /\ x.pc = "erase" /\ x.kind = tx[r].kind
          /\ x.job = tx[r].job /\ x.edit = tx[r].edit /\ x.day = tx[r].day
          /\ x.snap = tx[r].snap /\ x.approve = tx[r].approve /\ x.reject = tx[r].reject
        BY <1>1 DEF TxRec, Pc
    <2> HIDE DEF x
    <2>3. Fits(r, x)
        BY <1>1, <1>2, <2>2 DEF TxKept, Fits, Ended, Kind
    <2>4. ChecksKept(x) /\ ExpiryKept(notices', x)
        BY <1>2, <2>2 DEF ChecksKept, ExpiryKept
    <2>5. /\ notices \subseteq notices' /\ notices' \in SUBSET Notice
          /\ doc' \in [Jobs -> Contents \cup {None}]
        BY <1>1, <2>1 DEF Shape
    <2> QED
        BY <1>1, <2>1, <2>2, <2>3, <2>4, <2>5, PlaceStep
<1> QED
    BY <1>3, <1>4

LEMMA EraseStep ==
    ASSUME JobInv, NEW r \in Tx, Erase(r)
    PROVE  JobInv'
<1> DEFINE j == tx[r].job
           own == Written(r, j, None)
           x == [tx[r] EXCEPT !.own = own, !.pc = "commit"]
<1>1. /\ tx[r] \in TxRec /\ TxKept(notices, row, r, tx[r]) /\ tx[r].pc = "erase" /\ Shape
      /\ ~Locked(r, j) /\ tx' = [tx EXCEPT ![r] = x]
      /\ UNCHANGED <<now, row, doc, born, notices, failures>>
    BY DEF JobInv, TxsKept, Shape, Erase
<1>2. tx[r].kind = "delete" /\ j \in Jobs
    BY <1>1 DEF TxKept, Fits
<1>3. own \in [Jobs -> Row \cup {None, Unwritten}]
    BY <1>2, WrittenRow
<1>4. own = Written(r, j, None)
    OBVIOUS
<1> HIDE DEF own
<1>5. /\ x \in TxRec /\ x.own = own /\ x.pc = "commit" /\ x.kind = tx[r].kind
      /\ x.job = tx[r].job /\ x.edit = tx[r].edit /\ x.day = tx[r].day
      /\ x.snap = tx[r].snap /\ x.approve = tx[r].approve /\ x.reject = tx[r].reject
    BY <1>1, <1>3 DEF TxRec, Pc
<1> HIDE DEF x
<1>6. Fits(r, x)
    BY <1>1, <1>2, <1>5 DEF TxKept, Fits, Ended, Kind
<1>7. ChecksKept(x) /\ ExpiryKept(notices, x)
    BY <1>2, <1>5 DEF ChecksKept, ExpiryKept
<1>8. Current(r, j) # None => Wrote(notices, row, x, j, None)
    BY <1>2, <1>5, CurrentKept DEF Wrote
<1> HIDE DEF j
<1> QED
    BY <1>1, <1>2, <1>4, <1>5, <1>6, <1>7, <1>8, WriteStep DEF j

LEMMA CloseStep ==
    ASSUME JobInv, NEW c \in Tx, Close(c)
    PROVE  JobInv'
<1>1. /\ tx[c] \in TxRec /\ TxKept(notices, row, c, tx[c]) /\ tx[c].pc = "close" /\ Shape
      /\ UNCHANGED <<now, row, doc, born, notices, failures>>
    BY DEF JobInv, TxsKept, Shape, Close
<1>2. tx[c].kind = "expire"
    BY <1>1 DEF TxKept, Fits
<1>3. PICK j \in tx[c].todo :
          /\ ~Locked(c, j)
          /\ tx' = [tx EXCEPT ![c] = [tx[c] EXCEPT
               !.own = Written(c, j, Closed(Current(c, j))),
               !.todo = tx[c].todo \ {j}]]
    BY DEF Close
<1> DEFINE y == Closed(Current(c, j))
           own == Written(c, j, y)
           x == [tx[c] EXCEPT !.own = own, !.todo = tx[c].todo \ {j}]
<1>4. j \in Jobs /\ j \in ExpiredOf(tx[c]) /\ tx[c].kind # "create"
    BY <1>1, <1>2 DEF TxKept, ExpiryKept, TxRec
<1>5. Current(c, j) # None =>
          /\ y \in Row /\ row[j] # None
          /\ Current(c, j) \in Row /\ ToldAt(notices, tx[c], j, Current(c, j))
          /\ y.approved = Current(c, j).approved /\ y.cancelled = Current(c, j).cancelled
    BY <1>4, CurrentKept, RowsMade
<1> HIDE DEF y
<1>6. own \in [Jobs -> Row \cup {None, Unwritten}]
    BY <1>4, <1>5, WrittenRow
<1>7. own = Written(c, j, y) /\ tx' = [tx EXCEPT ![c] = x]
    BY <1>3 DEF y
<1> HIDE DEF own
<1>8. /\ x \in TxRec /\ x.own = own /\ x.pc = tx[c].pc /\ x.kind = tx[c].kind
      /\ x.job = tx[c].job /\ x.edit = tx[c].edit /\ x.day = tx[c].day
      /\ x.snap = tx[c].snap /\ x.approve = tx[c].approve /\ x.reject = tx[c].reject
      /\ x.todo = tx[c].todo \ {j}
    BY <1>1, <1>6 DEF TxRec
<1> HIDE DEF x
<1>9. Fits(c, x)
    BY <1>1, <1>2, <1>8 DEF TxKept, Fits, Ended, Kind
<1>10. ExpiredOf(x) = ExpiredOf(tx[c])
    BY <1>8 DEF ExpiredOf
<1>11. ChecksKept(x) /\ ExpiryKept(notices, x)
    BY <1>1, <1>2, <1>8, <1>10 DEF TxKept, ChecksKept, ExpiryKept
<1>12. Current(c, j) # None => Wrote(notices, row, x, j, y)
    <2> SUFFICES ASSUME Current(c, j) # None PROVE Wrote(notices, row, x, j, y)
        OBVIOUS
    <2>1. y.approved \in BOOLEAN /\ y.cancelled \in BOOLEAN
        BY <1>5 DEF Row
    <2>2. ToldAt(notices, x, j, y)
        BY <1>2, <1>5, <2>1 DEF ToldAt
    <2> QED
        BY <1>2, <1>4, <1>5, <1>8, <1>10, <2>2 DEF Wrote
<1> QED
    BY <1>1, <1>3, <1>4, <1>7, <1>8, <1>9, <1>11, <1>12, WriteStep

\* The recruiters are told of all jobs the cron job has found, before it commits.
LEMMA AnnounceExpiredStep ==
    ASSUME JobInv, NEW c \in Tx, AnnounceExpired(c)
    PROVE  JobInv'
<1> DEFINE x == [tx[c] EXCEPT !.pc = "commit"]
           new == {"expired"} \X Expired(c)
<1>1. /\ tx[c] \in TxRec /\ TxKept(notices, row, c, tx[c]) /\ tx[c].pc = "close" /\ Shape
      /\ tx[c].todo = {} /\ notices' = notices \cup new
      /\ tx' = [tx EXCEPT ![c] = x] /\ UNCHANGED <<now, row, doc, born, failures>>
    BY DEF JobInv, TxsKept, Shape, AnnounceExpired
<1>2. tx[c].kind = "expire"
    BY <1>1 DEF TxKept, Fits
<1>3. new \subseteq Notice /\ \A j \in ExpiredOf(tx[c]) : <<"expired", j>> \in new
    <2>1. Expired(c) = ExpiredOf(tx[c]) /\ Expired(c) \in SUBSET Jobs
        BY DEF Expired, ExpiredOf
    <2> QED
        BY <2>1, NoticesTyped
<1> HIDE DEF new
<1>4. /\ x \in TxRec /\ x.own = tx[c].own /\ x.pc = "commit" /\ x.kind = tx[c].kind
      /\ x.job = tx[c].job /\ x.edit = tx[c].edit /\ x.day = tx[c].day
      /\ x.snap = tx[c].snap /\ x.approve = tx[c].approve /\ x.reject = tx[c].reject
    BY <1>1 DEF TxRec, Pc
<1> HIDE DEF x
<1>5. Fits(c, x)
    BY <1>1, <1>2, <1>4 DEF TxKept, Fits, Ended, Kind
<1>6. ExpiredOf(x) = ExpiredOf(tx[c])
    BY <1>4 DEF ExpiredOf
<1>7. ChecksKept(x) /\ ExpiryKept(notices', x)
    BY <1>1, <1>2, <1>3, <1>4, <1>6 DEF ChecksKept, ExpiryKept
<1>8. /\ notices \subseteq notices' /\ notices' \in SUBSET Notice
      /\ doc' \in [Jobs -> Contents \cup {None}]
    BY <1>1, <1>3 DEF Shape
<1> QED
    BY <1>1, <1>4, <1>5, <1>7, <1>8, PlaceStep

\* What a commit makes of a row was told, and belongs to a job that was created.
LEMMA CommittedKept ==
    ASSUME JobInv, NEW t \in Tx, tx[t].pc = "commit", NEW j \in Jobs, Current(t, j) # None
    PROVE  /\ Current(t, j) \in Row /\ j \in born
           /\ Current(t, j).approved => <<"approved", j>> \in notices
           /\ Current(t, j).cancelled => <<"rejected", j>> \in notices
<1>1. /\ TxKept(notices, row, t, tx[t]) /\ tx[t] \in TxRec /\ Shape /\ DecisionsAnnounced
      /\ Reserved
    BY DEF JobInv, TxsKept, Shape
<1>2. CASE tx[t].own[j] = Unwritten
    <2>1. Current(t, j) = row[j]
        BY <1>2 DEF Current
    <2>2. row[j] \in Row /\ j \in born
        BY <1>1, <2>1 DEF Shape, Reserved
    <2>3. /\ row[j].approved => <<"approved", j>> \in notices
          /\ row[j].cancelled => <<"rejected", j>> \in notices
        BY <1>1, <2>1 DEF DecisionsAnnounced
    <2> QED
        BY <2>1, <2>2, <2>3, Zenon
<1>3. CASE tx[t].own[j] # Unwritten
    <2>1. Current(t, j) = tx[t].own[j]
        BY <1>3 DEF Current
    <2>2. tx[t].own[j] \in Row
        BY <1>1, <1>3, <2>1 DEF TxRec
    <2>3. Wrote(notices, row, tx[t], j, tx[t].own[j])
        BY <1>1, <1>3 DEF TxKept, OwnKept
    <2>4. j \in born
        BY <1>1, <2>3 DEF Wrote, Reserved
    <2>5. ToldAt(notices, tx[t], j, tx[t].own[j])
        BY <2>3, <2>2, NotRows DEF Wrote
    <2>6. tx[t].own[j].approved \in BOOLEAN /\ tx[t].own[j].cancelled \in BOOLEAN
        BY <2>2 DEF Row
    <2> QED
        BY <2>1, <2>2, <2>4, <2>5, <2>6 DEF ToldAt
<1> QED
    BY <1>2, <1>3

LEMMA CommitStep ==
    ASSUME JobInv, NEW t \in Tx, Commit(t)
    PROVE  JobInv'
<1> DEFINE x == Over(t, "done")
<1>1. /\ tx[t].pc = "commit" /\ Shape /\ TxsKept /\ Exclusive /\ Reserved
      /\ row' = [j \in Jobs |-> Current(t, j)]
      /\ tx' = [tx EXCEPT ![t] = x] /\ UNCHANGED <<now, doc, born, notices, failures>>
    BY DEF JobInv, Commit
<1>2. /\ x \in TxRec /\ x.kind # "create" /\ x.own = Untouched
      /\ \A n, w : TxKept(n, w, t, x)
    <2>1. "done" \in Ended
        BY DEF Ended
    <2> QED
        BY <2>1, OverKept, KindAssumption DEF KindAssumption, Kind
<1> HIDE DEF x
<1>3. \A j \in Jobs : x.own[j] = Unwritten
    BY <1>2, NoTxTyped
<1>4. \A s \in Tx : tx'[s] = IF s = t THEN x ELSE tx[s]
    BY <1>1 DEF Shape
<1>5. ASSUME NEW j \in Jobs, row'[j] # None
      PROVE  /\ row'[j] \in Row /\ j \in born
             /\ row'[j].approved => <<"approved", j>> \in notices
             /\ row'[j].cancelled => <<"rejected", j>> \in notices
    <2>1. row'[j] = Current(t, j)
        BY <1>1
    <2> QED
        BY <1>1, <1>5, <2>1, CommittedKept
<1>6. ASSUME NEW s \in Tx \ {t}, NEW j \in Jobs, tx[s].own[j] # Unwritten
      PROVE  row'[j] = row[j]
    <2>1. tx[t].own[j] = Unwritten
        BY <1>1, <1>6 DEF Exclusive
    <2> QED
        BY <1>1, <2>1 DEF Current
<1>7. Shape'
    BY <1>1, <1>2, <1>5 DEF Shape
<1>8. TxsKept'
    <2> SUFFICES ASSUME NEW s \in Tx PROVE TxKept(notices', row', s, tx'[s])
        BY DEF TxsKept
    <2>1. CASE s = t
        BY <1>2, <1>4, <2>1
    <2>2. CASE s # t
        <3>1. tx'[s] = tx[s] /\ notices' = notices /\ TxKept(notices, row, s, tx[s])
            BY <1>1, <1>4, <2>2 DEF TxsKept
        <3>2. ASSUME NEW j \in Jobs, tx[s].own[j] # Unwritten
              PROVE  Wrote(notices, row', tx[s], j, tx[s].own[j])
            <4>1. Wrote(notices, row, tx[s], j, tx[s].own[j])
                BY <3>1, <3>2 DEF TxKept, OwnKept
            <4>2. row'[j] = row[j]
                BY <1>6, <2>2, <3>2
            <4> QED
                BY <4>1, <4>2 DEF Wrote
        <3>3. OwnKept(notices, row', tx[s])
            BY <3>2 DEF OwnKept
        <3> QED
            BY <3>1, <3>3 DEF TxKept
    <2> QED
        BY <2>1, <2>2
<1>9. Exclusive'
    <2> SUFFICES ASSUME NEW s \in Tx, NEW u \in Tx, NEW j \in Jobs,
                        tx'[s].own[j] # Unwritten, tx'[u].own[j] # Unwritten
                 PROVE  s = u
        BY DEF Exclusive
    <2> QED
        BY <1>1, <1>3, <1>4 DEF Exclusive
<1>10. Reserved'
    <2>1. \A j \in Jobs : row'[j] # None => j \in born'
        BY <1>1, <1>5
    <2>2. ASSUME NEW s \in Tx, tx'[s].kind = "create"
          PROVE  /\ tx'[s].job \in born' /\ row'[tx'[s].job] = None
                 /\ \A u \in Tx \ {s} : /\ tx'[u].own[tx'[s].job] = Unwritten
                                        /\ tx'[u].kind = "create" => tx'[u].job # tx'[s].job
        <3>1. s # t /\ tx'[s] = tx[s]
            BY <1>2, <1>4, <2>2
        <3>2. /\ tx[s].job \in born /\ tx[s].job \in Jobs /\ row[tx[s].job] = None
              /\ tx[t].own[tx[s].job] = Unwritten
            BY <1>1, <2>2, <3>1 DEF Reserved, Shape
        <3>3. row'[tx[s].job] = None
            BY <1>1, <3>2 DEF Current
        <3>4. ASSUME NEW u \in Tx \ {s}
              PROVE  /\ tx'[u].own[tx[s].job] = Unwritten
                     /\ tx'[u].kind = "create" => tx'[u].job # tx[s].job
            <4>1. CASE u = t
                BY <1>2, <1>3, <1>4, <3>2, <4>1
            <4>2. CASE u # t
                BY <1>1, <1>4, <2>2, <3>1, <4>2 DEF Reserved
            <4> QED
                BY <4>1, <4>2
        <3> QED
            BY <1>1, <3>1, <3>2, <3>3, <3>4
    <2> QED
        BY <2>1, <2>2 DEF Reserved
<1>11. DecisionsAnnounced'
    BY <1>1, <1>5 DEF DecisionsAnnounced
<1> QED
    BY <1>7, <1>8, <1>9, <1>10, <1>11 DEF JobInv

LEMMA TickStep ==
    ASSUME JobInv, Tick
    PROVE  JobInv'
<1>1. /\ Shape /\ TxsKept /\ Exclusive /\ Reserved /\ DecisionsAnnounced
      /\ now < MaxDay /\ now' = now + 1 /\ UNCHANGED <<row, doc, born, tx, notices, failures>>
    BY DEF JobInv, Tick
<1>2. Shape'
    BY <1>1, JobAssumption DEF Shape, JobAssumption
<1>3. TxsKept'
    BY <1>1 DEF TxsKept
<1>4. Exclusive' /\ Reserved'
    BY <1>1 DEF Exclusive, Reserved
<1>5. DecisionsAnnounced'
    BY <1>1 DEF DecisionsAnnounced
<1> QED
    BY <1>2, <1>3, <1>4, <1>5 DEF JobInv

-----------------------------------------------------------------------------
(* The invariant holds at first and is kept.                               *)

LEMMA JobInit == Init => JobInv
<1> SUFFICES ASSUME Init PROVE JobInv
    OBVIOUS
<1>1. /\ now = 0 /\ failures = 0
      /\ row \in [Jobs -> Row \cup {None}]
      /\ doc = [j \in Jobs |-> IF row[j] = None THEN None ELSE row[j].content]
      /\ born = {j \in Jobs : row[j] # None}
      /\ tx = [t \in Tx |-> NoTx]
      /\ notices = {<<"approved", j>> : j \in {i \in born : row[i].approved}}
                    \cup {<<"rejected", j>> : j \in {i \in born : row[i].cancelled}}
    BY BoundsAssumption DEF Init, BoundsAssumption
<1>2. notices \in SUBSET Notice
    <2>1. \A j \in Jobs : <<"approved", j>> \in Notice /\ <<"rejected", j>> \in Notice
        BY DEF Notice
    <2> QED
        BY <1>1, <2>1
<1>3. doc \in [Jobs -> Contents \cup {None}]
    <2>1. \A j \in Jobs : row[j] # None => row[j].content \in Contents
        BY <1>1 DEF Row
    <2> QED
        BY <1>1, <2>1
<1>4. 0 \in 0 .. MaxDay /\ 0 \in 0 .. MaxFailures
    BY JobAssumption DEF JobAssumption
<1>5. Shape
    BY <1>1, <1>2, <1>3, <1>4, NoTxTyped DEF Shape
<1>6. TxsKept
    <2>1. "idle" \in Ended
        BY DEF Ended
    <2> QED
        BY <1>1, <2>1, NoTxTyped, EndedKept DEF TxsKept
<1>7. Exclusive
    BY <1>1, NoTxTyped DEF Exclusive
<1>8. Reserved
    BY <1>1, NoTxTyped, KindAssumption DEF Reserved, KindAssumption, Kind
<1>9. DecisionsAnnounced
    BY <1>1 DEF DecisionsAnnounced
<1> QED
    BY <1>5, <1>6, <1>7, <1>8, <1>9 DEF JobInv

LEMMA JobNext == JobInv /\ [Next]_vars => JobInv'
<1> SUFFICES ASSUME JobInv, [Next]_vars PROVE JobInv'
    OBVIOUS
<1>1. ASSUME NEW r \in Requests, AskCreate(r) \/ AskProcess(r) \/ AskUpdate(r) \/ AskDelete(r)
      PROVE  JobInv'
    BY <1>1, AskCreateStep, AskSteps
<1>2. ASSUME NEW c \in Crons, Midnight(c) PROVE JobInv'
    BY <1>2, MidnightStep
<1>3. ASSUME NEW t \in Tx, Step(t) PROVE JobInv'
    <2>1. CASE Read(t)               BY <2>1, ReadStep
    <2>2. CASE Insert(t)             BY <2>2, InsertStep
    <2>3. CASE Index(t)              BY <2>3, IndexStep
    <2>4. CASE Approve(t)            BY <2>4, ApproveStep
    <2>5. CASE AnnounceApproved(t)   BY <2>5, AnnounceApprovedStep
    <2>6. CASE Recommend(t)          BY <2>6, RecommendStep
    <2>7. CASE Reject(t)             BY <2>7, RejectStep
    <2>8. CASE AnnounceRejected(t)   BY <2>8, AnnounceRejectedStep
    <2>9. CASE Change(t)             BY <2>9, ChangeStep
    <2>10. CASE Restore(t)           BY <2>10, RestoreStep
    <2>11. CASE Drop(t)              BY <2>11, DropStep
    <2>12. CASE Erase(t)             BY <2>12, EraseStep
    <2>13. CASE Close(t)             BY <2>13, CloseStep
    <2>14. CASE AnnounceExpired(t)   BY <2>14, AnnounceExpiredStep
    <2>15. CASE Conflict(t)          BY <2>15, ConflictStep
    <2>16. CASE Commit(t)            BY <2>16, CommitStep
    <2> QED
        BY <1>3, <2>1, <2>2, <2>3, <2>4, <2>5, <2>6, <2>7, <2>8, <2>9, <2>10, <2>11, <2>12,
           <2>13, <2>14, <2>15, <2>16 DEF Step
<1>4. ASSUME NEW t \in Tx, Fail(t) PROVE JobInv'
    BY <1>4, FailStep
<1>5. CASE Tick
    BY <1>5, TickStep
<1>6. CASE UNCHANGED vars
    <2>1. Shape'
        BY <1>6 DEF vars, JobInv, Shape
    <2>2. TxsKept'
        BY <1>6 DEF vars, JobInv, TxsKept
    <2>3. Exclusive' /\ Reserved'
        BY <1>6 DEF vars, JobInv, Exclusive, Reserved
    <2>4. DecisionsAnnounced'
        BY <1>6 DEF vars, JobInv, DecisionsAnnounced
    <2> QED
        BY <2>1, <2>2, <2>3, <2>4 DEF JobInv
<1> QED
    BY <1>1, <1>2, <1>3, <1>4, <1>5, <1>6 DEF Next

LEMMA JobAlways == Spec => []JobInv
BY JobInit, JobNext, PTL DEF Spec

-----------------------------------------------------------------------------
(* The theorems.                                                           *)

\* Every variable keeps its type.
THEOREM TypeCorrect == Spec => []TypeOK
<1>1. JobInv => TypeOK
    BY DEF JobInv, Shape, TypeOK, TxRec
<1> QED
    BY <1>1, JobAlways, PTL

\* The recruiter has been told of every approval and rejection that the jobs table shows,
\* whatever transactions overlap, are tried again, or write back an entity read earlier.
THEOREM StoredDecisionsWereTold == Spec => []DecisionsAnnounced
<1>1. JobInv => DecisionsAnnounced
    BY DEF JobInv
<1> QED
    BY <1>1, JobAlways, PTL

\* Rows change by commits only.
LEMMA OnlyCommits ==
    ASSUME [Next]_vars, row' # row
    PROVE  \E t \in Tx : Commit(t)
<1>1. ASSUME NEW t, Step(t) PROVE Commit(t)
    BY <1>1 DEF Step, Read, Insert, Index, Approve, AnnounceApproved, Recommend, Reject,
                AnnounceRejected, Change, Restore, Drop, Erase, Close, AnnounceExpired,
                Conflict, Refuse
<1> QED
    BY <1>1 DEF Next, vars, AskCreate, AskProcess, AskUpdate, AskDelete, Midnight, Fail, Tick

\* A job that was open is closed only by the commit of a cron job whose snapshot showed it
\* open past its deadline and that has told its recruiter, or of an update that asks for it
\* or had read the job closed: each transaction that commits has kept the row locked since
\* it wrote it, so the others left the status as it was.
THEOREM ClosingsAreExplained == Spec => ClosingIsExplained
<1> DEFINE Explained ==
        \A j \in Jobs :
          (/\ row[j] # None /\ row'[j] # None
           /\ row[j].status = "open" /\ row'[j].status = "closed")
          => \/ \E c \in Crons :
                   /\ tx[c].pc = "commit" /\ tx'[c].pc # "commit"
                   /\ j \in Expired(c) /\ <<"expired", j>> \in notices
             \/ \E r \in Requests :
                   /\ tx[r].pc = "commit" /\ tx'[r].pc # "commit"
                   /\ tx[r].kind = "update" /\ tx[r].job = j
                   /\ \/ tx[r].edit.status = "closed"
                      \/ tx[r].snap[j].status = "closed"
<1>1. JobInv /\ [Next]_vars => Explained
    <2> SUFFICES ASSUME JobInv, [Next]_vars, NEW j \in Jobs,
                        row'[j] # None, row[j].status = "open", row'[j].status = "closed"
                 PROVE  \/ \E c \in Crons :
                              /\ tx[c].pc = "commit" /\ tx'[c].pc # "commit"
                              /\ j \in Expired(c) /\ <<"expired", j>> \in notices
                        \/ \E r \in Requests :
                              /\ tx[r].pc = "commit" /\ tx'[r].pc # "commit"
                              /\ tx[r].kind = "update" /\ tx[r].job = j
                              /\ \/ tx[r].edit.status = "closed"
                                 \/ tx[r].snap[j].status = "closed"
        BY DEF Explained
    <2>1. PICK t \in Tx : Commit(t)
        BY OnlyCommits
    <2>2. /\ TxKept(notices, row, t, tx[t]) /\ tx[t].pc = "commit" /\ row'[j] = Current(t, j)
        BY <2>1 DEF JobInv, TxsKept, Commit
    <2>3. tx[t].own[j] # Unwritten /\ row'[j] = tx[t].own[j]
        BY <2>2 DEF Current
    <2>4. Wrote(notices, row, tx[t], j, tx[t].own[j])
        BY <2>2, <2>3 DEF TxKept, OwnKept
    <2>5. tx[t].kind \in Kind
        BY <2>2 DEF TxKept, Fits, Ended
    <2>6. tx'[t].pc # "commit"
        <3>1. tx \in [Tx -> TxRec]
            BY DEF JobInv, Shape
        <3>2. tx'[t] = Over(t, "done")
            BY <2>1, <3>1 DEF Commit
        <3>3. Over(t, "done").pc \in Ended
            <4>1. "done" \in Ended
                BY DEF Ended
            <4> QED
                BY <4>1, OverKept
        <3> QED
            BY <3>2, <3>3 DEF Ended
    <2>7. CASE tx[t].kind = "expire"
        <3>1. t \in Crons
            BY <2>2, <2>7 DEF TxKept, Fits
        <3>2. j \in Expired(t)
            BY <2>4, <2>7 DEF Wrote, Expired, ExpiredOf
        <3>3. <<"expired", j>> \in notices
            BY <2>2, <2>4, <2>7 DEF TxKept, ExpiryKept, Wrote
        <3> QED
            BY <2>2, <2>6, <3>1, <3>2, <3>3
    <2>8. CASE tx[t].kind # "expire"
        <3>1. tx[t].kind = "update"
            BY <2>3, <2>4, <2>5, <2>8 DEF Wrote, Kind
        <3>2. t \in Requests
            BY <2>2, <3>1 DEF TxKept, Fits
        <3>3. \/ tx[t].edit.status = "closed"
              \/ tx[t].snap[j].status = "closed"
            BY <2>3, <2>4, <3>1 DEF Wrote
        <3> QED
            BY <2>2, <2>4, <2>6, <3>1, <3>2, <3>3 DEF Wrote
    <2> QED
        BY <2>7, <2>8
<1>2. JobInv /\ [Next]_vars => [Explained]_vars
    BY <1>1
<1>3. Spec => [][Explained]_vars
    BY <1>2, JobAlways, PTL DEF Spec
<1> QED
    BY <1>3 DEF ClosingIsExplained

\* A decision that a committing request finds taken is one its snapshot did not show.
THEOREM DecisionsReplaceUnseenOnes == Spec => NoKnownReversal
<1> DEFINE Unseen ==
        \A r \in Requests :
          (tx[r].pc = "commit" /\ tx[r].kind = "process" /\ tx'[r].pc = "done") =>
          \A j \in tx[r].approve \cup tx[r].reject :
              (row[j] # None /\ Processed(row[j])) => row[j] # tx[r].snap[j]
<1>1. JobInv => Unseen
    <2> SUFFICES ASSUME JobInv, NEW r \in Requests, tx[r].pc = "commit", tx[r].kind = "process",
                        NEW j \in tx[r].approve \cup tx[r].reject, Processed(row[j])
                 PROVE  row[j] # tx[r].snap[j]
        BY DEF Unseen
    <2>1. TxKept(notices, row, r, tx[r])
        BY DEF JobInv, TxsKept, Tx
    <2>2. Undecided(tx[r].snap[j])
        BY <2>1 DEF TxKept, ChecksKept
    <2> QED
        BY <2>2 DEF Undecided
<1>2. JobInv => [Unseen]_vars
    BY <1>1
<1>3. Spec => [][Unseen]_vars
    BY <1>2, JobAlways, PTL
<1> QED
    BY <1>3 DEF NoKnownReversal
=============================================================================
