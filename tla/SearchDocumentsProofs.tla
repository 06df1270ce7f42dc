----------------------- MODULE SearchDocumentsProofs -----------------------
(***************************************************************************)
(* Proofs about SearchDocuments, for any users, reviews, authors, emails,  *)
(* handlers, contents, failures and attempts.                              *)
(***************************************************************************)
EXTENDS SearchDocuments, TLAPS

-----------------------------------------------------------------------------
(* The inductive invariant.  Its first parts speak of the record x of one   *)
(* transaction, of the committed rows w and of the documents d.             *)

TxRec == [pc : Pc, kind : Kind \cup {None}, item : Items \cup {None},
          content : Contents \cup {None}, attempt : 0 .. MaxRetries - 1, wrote : BOOLEAN,
          snap : [Items -> Row \cup {None}],
          own : [Items -> Row \cup {None, Unwritten}]]

Creators == {"register", "enlist", "social", "review"}
Editors  == {"profile", "edit"}
Removers == {"remove", "retract"}

Shape ==
    /\ row \in [Items -> Row \cup {None}]
    /\ doc \in [Items -> Row \cup {None}]
    /\ born \in SUBSET Items
    /\ tx \in [Requests -> TxRec]
    /\ stale \in SUBSET Items
    /\ failures \in 0 .. MaxFailures

\* What a handler of kind k is about.
ItemFits(k, i, c) ==
    /\ k \in Kind => i \in Items
    /\ k \in {"register", "enlist"} => i \in Users \ Socials
    /\ k = "social" => i \in Socials
    /\ k \in {"profile", "upgrade", "remove"} => i \in Users
    /\ k \in {"review", "edit", "retract"} => i \in Reviews
    /\ k \in Creators \cup Editors => c \in Contents

\* The statements of a transaction are those of its kind, and it writes nothing before
\* the statement that does.
Fits(x) ==
    /\ ItemFits(x.kind, x.item, x.content)
    /\ x.pc = "idle" => x.kind = None /\ ~x.wrote
    /\ x.pc # "idle" => x.kind \in Kind
    /\ x.pc \in {"idle", "begin", "insert", "change", "look", "take", "erase"}
          => x.own = Untouched
    /\ x.pc = "begin" => x.kind # "remove"
    /\ x.pc = "insert" => x.kind \in Creators
    /\ x.pc = "change" => x.kind \in Editors \cup {"upgrade"}
    /\ x.pc = "index" => x.kind \in {"register", "enlist"} \cup Editors
    /\ x.pc = "notify" => x.kind = "enlist"
    /\ x.pc = "take" => x.kind = "retract"
    /\ x.pc = "erase" => x.kind \in Removers
    /\ x.pc \in {"look", "unindex"} => x.kind = "remove"
    /\ x.pc = "commit" => x.kind # "enlist"
    /\ x.kind = "upgrade" => ~x.wrote
    /\ x.kind \in Creators /\ x.pc \in {"index", "notify", "commit"}
          => x.own[x.item] # Unwritten

\* What transaction x has written to the row of y, which is w[y].
Wrote(w, x, y) ==
    /\ x.kind \in Kind
    /\ x.kind \in Creators => y = x.item /\ x.own[y] # None /\ x.own[y].premium = FALSE
    /\ x.kind \in Kind \ Creators => w[y] # None
    /\ x.kind \in Editors =>
          y = x.item /\ x.own[y] # None /\ x.own[y].premium = w[y].premium
    /\ x.kind = "upgrade" =>
          /\ y = x.item /\ x.own[y] # None
          /\ x.own[y].content = w[y].content /\ x.own[y].premium = TRUE
    /\ x.kind \in Removers => x.own[y] = None
    /\ x.kind = "remove" => y = x.item \/ y \in Reviews
    /\ x.kind = "retract" => y = x.item

OwnKept(w, x) == \A y \in Items : x.own[y] # Unwritten => Wrote(w, x, y)

\* A transaction that has changed nothing where it wanted to has found the row gone; an
\* update had read it before.
GoneKept(w, x) ==
    /\ x.kind \in Editors /\ x.pc \in {"index", "commit"} =>
          \/ x.own[x.item] # Unwritten
          \/ w[x.item] = None /\ x.snap[x.item] # None
    /\ x.kind \in Removers /\ x.pc \in {"unindex", "commit"} =>
          x.own[x.item] # Unwritten \/ w[x.item] = None

\* A transaction that commits what it has written has brought the index up to date, but
\* the document of a review can go before the review does.
IndexKept(d, x) ==
    x.pc = "commit" /\ x.item \in Items /\ x.own[x.item] # Unwritten =>
        /\ x.kind \in {"register", "profile"} => d[x.item] = x.own[x.item]
        /\ x.kind = "edit" => d[x.item] \in {None, x.own[x.item]}
        /\ x.kind = "remove" => d[x.item] = None

TxKept(w, d, x) == Fits(x) /\ OwnKept(w, x) /\ GoneKept(w, x) /\ IndexKept(d, x)

TxsKept == \A r \in Requests : TxKept(row, doc, tx[r])

\* A row is written by one transaction at a time.
Exclusive ==
    \A r, s \in Requests, y \in Items :
        tx[r].own[y] # Unwritten /\ tx[s].own[y] # Unwritten => r = s

\* What another transaction z can know of the item of x while x creates it: it has read
\* and written nothing, and is not past the statement that waits for the insert.
Apart(z, x) ==
    /\ z.own[x.item] = Unwritten /\ z.snap[x.item] = None
    /\ z.kind \in Creators => z.item # x.item
    /\ z.item = x.item => /\ z.pc \notin {"index", "unindex", "commit"}
                          /\ x.pc \in {"begin", "insert"} => z.pc # "erase"

\* An item that is being created has no row; until it is indexed, it has no document.
Created(r) ==
    tx[r].kind \in Creators =>
        /\ tx[r].item \in born /\ row[tx[r].item] = None
        /\ tx[r].pc \in {"begin", "insert"} \/ tx[r].kind \in {"social", "review"}
              => doc[tx[r].item] = None
        /\ \A s \in Requests \ {r} : Apart(tx[s], tx[r])

Creation == \A r \in Requests : Created(r)

\* Nothing is known of an id that was not given.
Unborn ==
    \A y \in Items \ born :
        /\ row[y] = None /\ doc[y] = None
        /\ \A s \in Requests : /\ tx[s].own[y] = Unwritten /\ tx[s].snap[y] = None
                               /\ tx[s].item # y

\* The document of y differs from the row only while an update that has written both is
\* not committed, or after one was rolled back.
Match ==
    \A y \in Items :
        row[y] # None /\ doc[y] # None /\ y \notin stale =>
            \/ doc[y].content = row[y].content
            \/ \E r \in Requests : /\ tx[r].own[y] # Unwritten /\ tx[r].wrote
                                   /\ tx[r].kind \in Editors

\* The document is missing only while a deletion that has taken it is not committed.
Found ==
    \A u \in Users \ Socials :
        row[u] # None /\ u \notin stale =>
            \/ doc[u] # None
            \/ \E r \in Requests : tx[r].own[u] = None /\ tx[r].wrote

Upheld ==
    \A y \in Items :
        row[y] # None /\ doc[y] # None /\ doc[y].premium = TRUE => row[y].premium = TRUE

SearchInv ==
    Shape /\ TxsKept /\ Exclusive /\ Creation /\ Unborn /\ Match /\ Found /\ Upheld

-----------------------------------------------------------------------------
(* Rows and transactions.                                                  *)

LEMMA Distinct ==
    /\ None \notin Row /\ Unwritten \notin Row /\ Unwritten # None
    /\ None \notin Kind /\ None \notin Items
BY ValuesDiffer, SearchAssumption DEF ValuesDiffer, SearchAssumption

LEMMA Kinds ==
    /\ Kind = Creators \cup Editors \cup Removers \cup {"upgrade"}
    /\ Creators \cap Editors = {} /\ Creators \cap Removers = {} /\ Editors \cap Removers = {}
    /\ "upgrade" \notin Creators \cup Editors \cup Removers
BY DEF Kind, Creators, Editors, Removers

LEMMA NoTxTyped ==
    /\ NoTx \in TxRec /\ NoTx.pc = "idle" /\ NoTx.kind = None /\ NoTx.item = None
    /\ NoTx.own = Untouched /\ NoTx.snap = Nothing /\ NoTx.wrote = FALSE
    /\ \A y \in Items : Untouched[y] = Unwritten /\ Nothing[y] = None
<1>1. Untouched \in [Items -> Row \cup {None, Unwritten}] /\ Nothing \in [Items -> Row \cup {None}]
    BY DEF Untouched, Nothing
<1>2. \A y \in Items : Untouched[y] = Unwritten /\ Nothing[y] = None
    BY DEF Untouched, Nothing
<1>3. 0 \in 0 .. MaxRetries - 1
    BY SearchAssumption DEF SearchAssumption
<1> QED
    BY <1>1, <1>2, <1>3 DEF NoTx, TxRec, Pc

\* x is the record of a transaction of kind k that begins.
Begins(x, k, i, c) ==
    /\ x \in TxRec /\ x.pc = FirstPc(k) /\ x.kind = k /\ x.item = i /\ x.content = c
    /\ x.own = Untouched /\ x.snap = Nothing /\ x.wrote = FALSE

LEMMA BegunTyped ==
    ASSUME NEW k \in Kind, NEW i \in Items, NEW c \in Contents \cup {None}
    PROVE  /\ Begins(Begun(k, i, c), k, i, c)
           /\ \A n \in 0 .. MaxRetries - 1 :
                 Begins([Begun(k, i, c) EXCEPT !.attempt = n], k, i, c)
<1>1. FirstPc(k) \in Pc
    BY DEF FirstPc, Pc
<1> QED
    BY <1>1, NoTxTyped DEF Begun, Begins, TxRec

\* A transaction that has not begun, or begins, has done nothing.
LEMMA FreshKept ==
    ASSUME NEW w, NEW d, NEW x \in TxRec, x.own = Untouched, x.wrote = FALSE,
           \/ x.pc = "idle" /\ x.kind = None
           \/ x.pc = FirstPc(x.kind) /\ x.kind \in Kind /\ ItemFits(x.kind, x.item, x.content)
    PROVE  TxKept(w, d, x)
<1>1. ItemFits(x.kind, x.item, x.content)
    BY Distinct, Kinds DEF ItemFits, Kind
<1>2. x.pc \in {"idle", "begin", "look"}
    BY DEF FirstPc
<1>3. Fits(x)
    BY <1>1, Distinct DEF Fits, FirstPc
<1>4. OwnKept(w, x)
    BY NoTxTyped DEF OwnKept
<1>5. GoneKept(w, x) /\ IndexKept(d, x)
    BY <1>2 DEF GoneKept, IndexKept
<1> QED
    BY <1>3, <1>4, <1>5 DEF TxKept

\* Who has written to a row that another transaction creates would have locked it.
LEMMA OthersUnwritten ==
    ASSUME Shape, Exclusive, Creation, NEW r \in Requests, NEW s \in Requests \ {r},
           NEW y \in Items, tx[s].own[y] # Unwritten
    PROVE  /\ tx[r].own[y] = Unwritten
           /\ Locked(r, y)
           /\ ~(tx[r].kind \in Creators /\ tx[r].item = y)
BY DEF Exclusive, Creation, Created, Apart, Locked

\* A step of transaction r that changes neither rows nor documents.
LEMMA OneStep ==
    ASSUME SearchInv, NEW r \in Requests, NEW x \in TxRec, tx' = [tx EXCEPT ![r] = x],
           TxKept(row, doc, x), UNCHANGED <<row, doc, born, stale, failures>>,
           x.kind = tx[r].kind, x.item = tx[r].item, x.wrote = tx[r].wrote,
           \A y \in Items : tx[r].own[y] # Unwritten => x.own[y] = tx[r].own[y],
           \A y \in Items : x.own[y] # Unwritten =>
              \/ tx[r].own[y] # Unwritten
              \/ row[y] # None /\ ~Locked(r, y)
              \/ tx[r].kind \in Creators /\ tx[r].item = y,
           \A y \in Items : x.snap[y] \in {None, tx[r].snap[y], row[y]},
           x.pc \in {"begin", "insert"} => tx[r].pc \in {"begin", "insert"},
           \A s \in Requests \ {r} : tx[s].kind \in Creators /\ tx[s].item = x.item =>
              /\ x.pc \notin {"index", "unindex", "commit"}
              /\ tx[s].pc \in {"begin", "insert"} => x.pc # "erase"
    PROVE  SearchInv'
<1>0. /\ Shape /\ TxsKept /\ Exclusive /\ Creation /\ Unborn /\ Match /\ Found /\ Upheld
      /\ row' = row /\ doc' = doc /\ born' = born /\ stale' = stale /\ failures' = failures
    BY DEF SearchInv
<1>1. \A s \in Requests : tx'[s] = IF s = r THEN x ELSE tx[s]
    BY <1>0 DEF Shape
<1>2. Shape'
    BY <1>0 DEF Shape
<1>3. TxsKept'
    BY <1>0, <1>1 DEF TxsKept
<1>4. ASSUME NEW s \in Requests \ {r}, NEW y \in Items, tx[s].own[y] # Unwritten
      PROVE  x.own[y] = Unwritten
    BY <1>0, <1>4, OthersUnwritten
<1>5. Exclusive'
    <2> SUFFICES ASSUME NEW s \in Requests, NEW t \in Requests, NEW y \in Items,
                        tx'[s].own[y] # Unwritten, tx'[t].own[y] # Unwritten
                 PROVE  s = t
        BY DEF Exclusive
    <2> QED
        BY <1>0, <1>1, <1>4 DEF Exclusive
<1>6. Creation'
    <2> SUFFICES ASSUME NEW s \in Requests, tx'[s].kind \in Creators
                 PROVE  /\ tx'[s].item \in born /\ row[tx'[s].item] = None
                        /\ \/ tx'[s].pc \in {"begin", "insert"}
                           \/ tx'[s].kind \in {"social", "review"}
                           => doc[tx'[s].item] = None
                        /\ \A t \in Requests \ {s} : Apart(tx'[t], tx'[s])
        BY <1>0 DEF Creation, Created
    <2>1. /\ tx[s].kind \in Creators /\ tx'[s].kind = tx[s].kind /\ tx'[s].item = tx[s].item
          /\ tx'[s].pc \in {"begin", "insert"} => tx[s].pc \in {"begin", "insert"}
        BY <1>1
    <2>2. Created(s)
        BY <1>0 DEF Creation
    <2>3. tx[s].item \in born /\ row[tx[s].item] = None /\ tx[s].item \in Items
        BY <1>0, <2>1, <2>2 DEF Created, Shape
    <2>4. \/ tx'[s].pc \in {"begin", "insert"} \/ tx'[s].kind \in {"social", "review"}
          => doc[tx[s].item] = None
        BY <2>1, <2>2 DEF Created
    <2>5. ASSUME NEW t \in Requests \ {s} PROVE Apart(tx'[t], tx'[s])
        <3>1. Apart(tx[t], tx[s])
            BY <2>1, <2>2 DEF Created
        <3>2. CASE t # r
            <4>1. tx'[t] = tx[t]
                BY <1>1, <3>2
            <4> QED
                BY <3>1, <4>1, <2>1 DEF Apart
        <3>3. CASE t = r
            <4>1. tx'[t] = x /\ s # r /\ tx'[s] = tx[s]
                BY <1>1, <3>3
            <4>2. x.own[tx[s].item] = Unwritten
                BY <3>1, <3>3, <2>1, <2>3 DEF Apart
            <4>3. x.snap[tx[s].item] = None
                BY <3>1, <3>3, <2>3 DEF Apart
            <4> QED
                BY <3>1, <3>3, <4>1, <4>2, <4>3, <2>1 DEF Apart
        <3> QED
            BY <3>2, <3>3
    <2> QED
        BY <2>1, <2>3, <2>4, <2>5
<1>7. Unborn'
    <2> SUFFICES ASSUME NEW y \in Items \ born
                 PROVE  /\ row[y] = None /\ doc[y] = None
                        /\ \A s \in Requests : /\ tx'[s].own[y] = Unwritten
                                               /\ tx'[s].snap[y] = None /\ tx'[s].item # y
        BY <1>0 DEF Unborn
    <2>1. row[y] = None /\ doc[y] = None
        BY <1>0 DEF Unborn
    <2>2. \A s \in Requests : tx[s].own[y] = Unwritten /\ tx[s].snap[y] = None /\ tx[s].item # y
        BY <1>0 DEF Unborn
    <2>3. x.own[y] = Unwritten /\ x.snap[y] = None /\ x.item # y
        BY <2>1, <2>2
    <2> QED
        BY <1>1, <2>1, <2>2, <2>3
<1>8. ASSUME NEW y \in Items, NEW s \in Requests, tx[s].own[y] # Unwritten, tx[s].wrote
      PROVE  tx'[s].own[y] = tx[s].own[y] /\ tx'[s].wrote /\ tx'[s].kind = tx[s].kind
    BY <1>1, <1>8
<1>9. Match'
    <2> SUFFICES ASSUME NEW y \in Items, row[y] # None, doc[y] # None, y \notin stale
                 PROVE  \/ doc[y].content = row[y].content
                        \/ \E s \in Requests : /\ tx'[s].own[y] # Unwritten /\ tx'[s].wrote
                                               /\ tx'[s].kind \in Editors
        BY <1>0 DEF Match
    <2> QED
        BY <1>0, <1>8 DEF Match
<1>10. Found'
    <2> SUFFICES ASSUME NEW u \in Users \ Socials, row[u] # None, u \notin stale
                 PROVE  \/ doc[u] # None
                        \/ \E s \in Requests : tx'[s].own[u] = None /\ tx'[s].wrote
        BY <1>0 DEF Found
    <2> QED
        BY <1>0, <1>8, Distinct DEF Found, Items
<1>11. Upheld'
    BY <1>0 DEF Upheld
<1> QED
    BY <1>2, <1>3, <1>5, <1>6, <1>7, <1>9, <1>10, <1>11 DEF SearchInv

\* A transaction begins, begins again, or is rolled back.
LEMMA FreshStep ==
    ASSUME SearchInv, NEW r \in Requests, NEW x \in TxRec, tx' = [tx EXCEPT ![r] = x],
           x.own = Untouched, x.snap = Nothing, x.wrote = FALSE,
           \/ x.pc = "idle" /\ x.kind = None
           \/ x.pc = FirstPc(x.kind) /\ x.kind \in Kind /\ ItemFits(x.kind, x.item, x.content),
           x.item \in born' \cup {None}, born \subseteq born', born' \in SUBSET Items,
           x.kind \in Creators =>
              \/ /\ tx[r].kind \in Creators /\ tx[r].item = x.item
                 /\ tx[r].pc \in {"begin", "insert"}
              \/ x.item \in Items \ born,
           stale \cup Left(r) \subseteq stale', stale' \in SUBSET Items,
           failures' \in 0 .. MaxFailures, UNCHANGED <<row, doc>>
    PROVE  SearchInv'
<1>0. /\ Shape /\ TxsKept /\ Exclusive /\ Creation /\ Unborn /\ Match /\ Found /\ Upheld
      /\ row' = row /\ doc' = doc
    BY DEF SearchInv
<1>1. \A s \in Requests : tx'[s] = IF s = r THEN x ELSE tx[s]
    BY <1>0 DEF Shape
<1>2. \A y \in Items : x.own[y] = Unwritten /\ x.snap[y] = None
    BY NoTxTyped
<1>3. x.pc \in {"idle", "begin", "look"} /\ (x.kind \in Creators => x.pc = "begin")
    BY Distinct, Kinds DEF FirstPc, Creators
<1>4. Shape'
    BY <1>0 DEF Shape
<1>5. TxsKept'
    <2>1. TxKept(row, doc, x)
        BY FreshKept
    <2> QED
        BY <1>0, <1>1, <2>1 DEF TxsKept
<1>6. Exclusive'
    BY <1>0, <1>1, <1>2 DEF Exclusive
<1>7. \A s \in Requests : Created(s)
    BY <1>0 DEF Creation
<1>8. ASSUME NEW s \in Requests \ {r}, tx[s].kind \in Creators PROVE Created(s)'
    <2>1. tx'[s] = tx[s] /\ tx[s].item \in born /\ tx[s].item \in Items
        BY <1>0, <1>1, <1>7, <1>8 DEF Created, Shape
    <2>2. ASSUME NEW t \in Requests \ {s, r} PROVE Apart(tx'[t], tx[s])
        BY <1>1, <1>7, <1>8, <2>2 DEF Created
    <2>3. Apart(tx[r], tx[s])
        BY <1>7, <1>8 DEF Created
    <2>4. Apart(x, tx[s])
        BY <1>2, <1>3, <2>1, <2>3 DEF Apart
    <2> QED
        BY <1>0, <1>1, <1>7, <1>8, <2>1, <2>2, <2>4 DEF Created
<1>9. ASSUME x.kind \in Creators PROVE Created(r)'
    <2>1. CASE /\ tx[r].kind \in Creators /\ tx[r].item = x.item
               /\ tx[r].pc \in {"begin", "insert"}
        <3>1. /\ x.item \in born /\ row[x.item] = None /\ doc[x.item] = None
              /\ \A t \in Requests \ {r} : Apart(tx[t], tx[r])
            BY <1>7, <2>1 DEF Created
        <3>2. \A t \in Requests \ {r} : Apart(tx[t], x)
            BY <2>1, <3>1 DEF Apart
        <3> QED
            BY <1>0, <1>1, <3>1, <3>2 DEF Created
    <2>2. CASE x.item \in Items \ born
        <3>1. /\ row[x.item] = None /\ doc[x.item] = None
              /\ \A t \in Requests : /\ tx[t].own[x.item] = Unwritten
                                     /\ tx[t].snap[x.item] = None /\ tx[t].item # x.item
            BY <1>0, <2>2 DEF Unborn
        <3>2. \A t \in Requests \ {r} : Apart(tx[t], x)
            BY <3>1 DEF Apart
        <3>3. x.item \in born'
            BY <2>2, Distinct
        <3> QED
            BY <1>0, <1>1, <3>1, <3>2, <3>3 DEF Created
    <2> QED
        BY <1>9, <2>1, <2>2
<1>10. Creation'
    <2> SUFFICES ASSUME NEW s \in Requests PROVE Created(s)'
        BY DEF Creation
    <2>1. CASE tx'[s].kind \notin Creators
        BY <2>1 DEF Created
    <2> QED
        BY <1>1, <1>8, <1>9, <2>1
<1>11. Unborn'
    <2> SUFFICES ASSUME NEW y \in Items \ born'
                 PROVE  /\ row[y] = None /\ doc[y] = None
                        /\ \A s \in Requests : /\ tx'[s].own[y] = Unwritten
                                               /\ tx'[s].snap[y] = None /\ tx'[s].item # y
        BY <1>0 DEF Unborn
    <2>1. /\ row[y] = None /\ doc[y] = None
          /\ \A s \in Requests : tx[s].own[y] = Unwritten /\ tx[s].snap[y] = None /\ tx[s].item # y
        BY <1>0 DEF Unborn
    <2>2. x.item # y
        BY Distinct
    <2> QED
        BY <1>1, <1>2, <2>1, <2>2
<1>12. ASSUME NEW y \in Items, y \notin stale', NEW s \in Requests, tx[s].own[y] # Unwritten,
              tx[s].wrote, tx[s].kind \in Editors \/ (tx[s].own[y] = None /\ y \in Users)
       PROVE  tx'[s] = tx[s]
    <2>1. CASE s = r
        <3>1. TxKept(row, doc, tx[r])
            BY <1>0 DEF TxsKept
        <3>2. Wrote(row, tx[r], y)
            BY <1>12, <2>1, <3>1 DEF TxKept, OwnKept
        <3>3. y \notin Reviews \/ tx[r].kind \in Editors
            BY <1>12, <2>1, SearchAssumption DEF SearchAssumption
        <3>4. y = tx[r].item
            BY <1>12, <2>1, <3>2, <3>3, Kinds DEF Wrote, Removers
        <3> QED
            BY <1>12, <2>1, <3>4 DEF Left
    <2> QED
        BY <1>1, <2>1
<1>13. Match'
    <2> SUFFICES ASSUME NEW y \in Items, row[y] # None, doc[y] # None, y \notin stale'
                 PROVE  \/ doc[y].content = row[y].content
                        \/ \E s \in Requests : /\ tx'[s].own[y] # Unwritten /\ tx'[s].wrote
                                               /\ tx'[s].kind \in Editors
        BY <1>0 DEF Match
    <2> QED
        BY <1>0, <1>12 DEF Match
<1>14. Found'
    <2> SUFFICES ASSUME NEW u \in Users \ Socials, row[u] # None, u \notin stale'
                 PROVE  \/ doc[u] # None
                        \/ \E s \in Requests : tx'[s].own[u] = None /\ tx'[s].wrote
        BY <1>0 DEF Found
    <2> QED
        BY <1>0, <1>12, Distinct DEF Found, Items
<1>15. Upheld'
    BY <1>0 DEF Upheld
<1> QED
    BY <1>4, <1>5, <1>6, <1>10, <1>11, <1>13, <1>14, <1>15 DEF SearchInv

\* Transaction r may become x when it writes v to the document of its item i: no other
\* has written the row or creates it, and v shows what r has written, if there is a row.
MayShow(r, x, i, v) ==
    /\ x.kind = tx[r].kind /\ x.item = i /\ tx[r].item = i
    /\ x.own = tx[r].own /\ x.snap = tx[r].snap
    /\ x.wrote = TRUE /\ x.pc \notin {"begin", "insert"} /\ x.kind \notin {"social", "review"}
    /\ \A s \in Requests \ {r} :
          /\ tx[s].own[i] = Unwritten \/ (i \in Reviews /\ v = None)
          /\ tx[s].kind \in Creators => tx[s].item # i
    /\ row[i] # None /\ v # None =>
          /\ x.kind \in Editors /\ x.own[i] # Unwritten
          /\ v.premium = TRUE => row[i].premium = TRUE
    /\ v # None \/ row[i] = None \/ i \in Reviews \/ x.own[i] = None

LEMMA DocStep ==
    ASSUME SearchInv, NEW r \in Requests, NEW x \in TxRec, tx' = [tx EXCEPT ![r] = x],
           NEW v \in Row \cup {None}, NEW i \in Items, doc' = [doc EXCEPT ![i] = v],
           TxKept(row, doc', x), MayShow(r, x, i, v), UNCHANGED <<row, born, stale, failures>>
    PROVE  SearchInv'
<1> USE DEF MayShow
<1>0. /\ Shape /\ TxsKept /\ Exclusive /\ Creation /\ Unborn /\ Match /\ Found /\ Upheld
      /\ row' = row /\ born' = born /\ stale' = stale /\ failures' = failures
    BY DEF SearchInv
<1>1. \A s \in Requests : tx'[s] = IF s = r THEN x ELSE tx[s]
    BY <1>0 DEF Shape
<1>2. \A y \in Items : doc'[y] = IF y = i THEN v ELSE doc[y]
    BY <1>0 DEF Shape
<1>3. Shape'
    BY <1>0 DEF Shape
<1>4. TxsKept'
    <2> SUFFICES ASSUME NEW s \in Requests \ {r} PROVE TxKept(row, doc', tx[s])
        BY <1>0, <1>1 DEF TxsKept
    <2>1. TxKept(row, doc, tx[s])
        BY <1>0 DEF TxsKept
    <2>2. IndexKept(doc', tx[s])
        <3>1. CASE tx[s].item # i
            BY <1>2, <2>1, <3>1 DEF TxKept, IndexKept
        <3>2. CASE tx[s].item = i /\ tx[s].own[i] = Unwritten
            BY <3>2 DEF IndexKept
        <3>3. CASE tx[s].item = i /\ i \in Reviews /\ v = None
            <4>1. tx[s].kind \notin {"register", "profile", "remove"}
                BY <2>1, <3>3, SearchAssumption DEF TxKept, Fits, ItemFits, SearchAssumption
            <4> QED
                BY <1>2, <3>3, <4>1 DEF IndexKept
        <3> QED
            BY <3>1, <3>2, <3>3
    <2> QED
        BY <2>1, <2>2 DEF TxKept
<1>5. Exclusive'
    BY <1>0, <1>1 DEF Exclusive
<1>6. \A s \in Requests : Created(s)
    BY <1>0 DEF Creation
<1>7. ASSUME NEW s \in Requests \ {r}, tx[s].kind \in Creators PROVE Created(s)'
    <2>1. tx'[s] = tx[s] /\ tx[s].item \in born /\ tx[s].item \in Items /\ tx[s].item # i
        BY <1>0, <1>1, <1>6, <1>7 DEF Created, Shape
    <2>2. ASSUME NEW t \in Requests \ {s} PROVE Apart(tx'[t], tx[s])
        <3>1. Apart(tx[t], tx[s])
            BY <1>6, <1>7, <2>2 DEF Created
        <3>2. t = r => Apart(x, tx[s])
            BY <2>1, <3>1 DEF Apart
        <3> QED
            BY <1>1, <3>1, <3>2
    <2>3. doc'[tx[s].item] = doc[tx[s].item]
        BY <1>2, <2>1
    <2> QED
        BY <1>0, <1>6, <1>7, <2>1, <2>2, <2>3 DEF Created
<1>8. ASSUME x.kind \in Creators PROVE Created(r)'
    <2>1. /\ x.item \in born /\ row[x.item] = None
          /\ \A t \in Requests \ {r} : Apart(tx[t], tx[r])
        BY <1>6, <1>8 DEF Created
    <2>2. \A t \in Requests \ {r} : Apart(tx[t], x)
        BY <2>1 DEF Apart
    <2> QED
        BY <1>0, <1>1, <2>1, <2>2 DEF Created
<1>9. Creation'
    <2> SUFFICES ASSUME NEW s \in Requests PROVE Created(s)'
        BY DEF Creation
    <2>1. CASE tx'[s].kind \notin Creators
        BY <2>1 DEF Created
    <2> QED
        BY <1>1, <1>7, <1>8, <2>1
<1>10. Unborn'
    <2> SUFFICES ASSUME NEW y \in Items \ born
                 PROVE  /\ row[y] = None /\ doc'[y] = None
                        /\ \A s \in Requests : /\ tx'[s].own[y] = Unwritten
                                               /\ tx'[s].snap[y] = None /\ tx'[s].item # y
        BY <1>0 DEF Unborn
    <2>1. /\ row[y] = None /\ doc[y] = None
          /\ \A s \in Requests : tx[s].own[y] = Unwritten /\ tx[s].snap[y] = None /\ tx[s].item # y
        BY <1>0 DEF Unborn
    <2>2. y # i
        BY <2>1
    <2> QED
        BY <1>1, <1>2, <2>1, <2>2
<1>11. ASSUME NEW s \in Requests, tx[s].wrote
       PROVE  tx'[s].own = tx[s].own /\ tx'[s].kind = tx[s].kind /\ tx'[s].wrote
    BY <1>1, <1>11
<1>12. Match'
    <2> SUFFICES ASSUME NEW y \in Items, row[y] # None, doc'[y] # None, y \notin stale
                 PROVE  \/ doc'[y].content = row[y].content
                        \/ \E s \in Requests : /\ tx'[s].own[y] # Unwritten /\ tx'[s].wrote
                                               /\ tx'[s].kind \in Editors
        BY <1>0 DEF Match
    <2>1. CASE y = i
        BY <1>1, <1>2, <2>1
    <2>2. CASE y # i
        BY <1>0, <1>2, <1>11, <2>2 DEF Match
    <2> QED
        BY <2>1, <2>2
<1>13. Found'
    <2> SUFFICES ASSUME NEW u \in Users \ Socials, row[u] # None, u \notin stale
                 PROVE  \/ doc'[u] # None
                        \/ \E s \in Requests : tx'[s].own[u] = None /\ tx'[s].wrote
        BY <1>0 DEF Found
    <2>1. CASE u = i
        BY <1>1, <1>2, <2>1, SearchAssumption DEF SearchAssumption
    <2>2. CASE u # i
        BY <1>0, <1>2, <1>11, <2>2 DEF Found, Items
    <2> QED
        BY <2>1, <2>2
<1>14. Upheld'
    <2> SUFFICES ASSUME NEW y \in Items, row[y] # None, doc'[y] # None, doc'[y].premium = TRUE
                 PROVE  row[y].premium = TRUE
        BY <1>0 DEF Upheld
    <2> QED
        BY <1>0, <1>2 DEF Upheld
<1> QED
    BY <1>3, <1>4, <1>5, <1>9, <1>10, <1>12, <1>13, <1>14 DEF SearchInv

\* A commit changes the rows that the transaction has written, and no others.
LEMMA CommitRows ==
    ASSUME SearchInv, NEW r \in Requests, Commit(r)
    PROVE  /\ \A y \in Items : row'[y] = IF tx[r].own[y] = Unwritten THEN row[y]
                                                                    ELSE tx[r].own[y]
           /\ row' \in [Items -> Row \cup {None}]
<1>1. Shape
    BY DEF SearchInv
<1>2. row' = [y \in Items |-> Current(r, y)]
    BY DEF Commit
<1>3. \A y \in Items : Current(r, y) = IF tx[r].own[y] = Unwritten THEN row[y] ELSE tx[r].own[y]
    BY DEF Current
<1>4. \A y \in Items : row[y] \in Row \cup {None} /\ tx[r].own[y] \in Row \cup {None, Unwritten}
    BY <1>1 DEF Shape, TxRec
<1> QED
    BY <1>2, <1>3, <1>4

LEMMA CommitKeeps ==
    ASSUME SearchInv, NEW r \in Requests, Commit(r)
    PROVE  SearchInv'
<1>0. /\ Shape /\ TxsKept /\ Exclusive /\ Creation /\ Unborn /\ Match /\ Found /\ Upheld
    BY DEF SearchInv
<1>1. /\ tx' = [tx EXCEPT ![r] = NoTx] /\ stale' = stale \ Left(r)
      /\ doc' = doc /\ born' = born /\ failures' = failures /\ tx[r].pc = "commit"
    BY DEF Commit
<1>2. \A s \in Requests : tx'[s] = IF s = r THEN NoTx ELSE tx[s]
    BY <1>0, <1>1 DEF Shape
<1>3. \A y \in Items : row'[y] = IF tx[r].own[y] = Unwritten THEN row[y] ELSE tx[r].own[y]
    BY CommitRows
<1>4. TxKept(row, doc, tx[r]) /\ tx[r].kind \in Kind /\ tx[r].item \in Items
    BY <1>0, <1>1 DEF TxsKept, TxKept, Fits, ItemFits
<1>5. \A y \in Items : tx[r].own[y] # Unwritten => Wrote(row, tx[r], y)
    BY <1>4 DEF TxKept, OwnKept
<1>6. Shape'
    <2>1. stale' \in SUBSET Items
        BY <1>0, <1>1 DEF Shape
    <2>2. tx' \in [Requests -> TxRec]
        BY <1>0, <1>1, NoTxTyped DEF Shape
    <2> QED
        BY <1>0, <1>1, <2>1, <2>2, CommitRows DEF Shape
<1>7. \A s \in Requests : Created(s)
    BY <1>0 DEF Creation
\* A row that is gone stays so for whoever has found it gone.
<1>8. ASSUME NEW s \in Requests \ {r}, NEW y \in Items, row[y] = None, tx[s].item = y,
             \/ tx[s].snap[y] # None
             \/ tx[s].pc \in {"unindex", "commit"}
      PROVE  row'[y] = None
    <2>1. CASE tx[r].own[y] # Unwritten
        <3>1. tx[r].kind \in Creators => tx[r].item = y /\ Apart(tx[s], tx[r])
            BY <1>5, <1>7, <2>1 DEF Wrote, Created
        <3>2. tx[r].kind \notin Creators
            BY <1>8, <3>1 DEF Apart
        <3> QED
            BY <1>4, <1>5, <1>8, <2>1, <3>2 DEF Wrote
    <2> QED
        BY <1>3, <1>8, <2>1
<1>9. TxsKept'
    <2> SUFFICES ASSUME NEW s \in Requests PROVE TxKept(row', doc, tx'[s])
        BY <1>1 DEF TxsKept
    <2>1. CASE s = r
        BY <1>2, <2>1, FreshKept, NoTxTyped
    <2>2. CASE s # r
        <3>1. TxKept(row, doc, tx[s]) /\ tx'[s] = tx[s] /\ tx[s] \in TxRec
            BY <1>0, <1>2, <2>2 DEF TxsKept, Shape
        <3>2. ASSUME NEW y \in Items, tx[s].own[y] # Unwritten PROVE Wrote(row', tx[s], y)
            <4>1. row'[y] = row[y]
                BY <1>0, <1>3, <2>2, <3>2 DEF Exclusive
            <4>2. Wrote(row, tx[s], y)
                BY <3>1, <3>2 DEF TxKept, OwnKept
            <4> QED
                BY <4>1, <4>2 DEF Wrote
        <3>3. GoneKept(row', tx[s])
            <4>1. CASE tx[s].kind \in Editors /\ tx[s].pc \in {"index", "commit"}
                       /\ tx[s].own[tx[s].item] = Unwritten
                <5>1. row[tx[s].item] = None /\ tx[s].snap[tx[s].item] # None
                    BY <3>1, <4>1 DEF TxKept, GoneKept
                <5>2. tx[s].item \in Items
                    BY <3>1, <4>1, Kinds DEF TxKept, Fits, ItemFits
                <5>3. row'[tx[s].item] = None
                    BY <1>8, <2>2, <5>1, <5>2
                <5> QED
                    BY <4>1, <5>1, <5>3, Kinds DEF GoneKept
            <4>2. CASE tx[s].kind \in Removers /\ tx[s].pc \in {"unindex", "commit"}
                       /\ tx[s].own[tx[s].item] = Unwritten
                <5>1. row[tx[s].item] = None
                    BY <3>1, <4>2 DEF TxKept, GoneKept
                <5>2. tx[s].item \in Items
                    BY <3>1, <4>2, Kinds DEF TxKept, Fits, ItemFits
                <5>3. row'[tx[s].item] = None
                    BY <1>8, <2>2, <4>2, <5>1, <5>2
                <5> QED
                    BY <4>2, <5>3, Kinds DEF GoneKept
            <4> QED
                BY <4>1, <4>2 DEF GoneKept
        <3> QED
            BY <3>1, <3>2, <3>3 DEF TxKept, OwnKept
    <2> QED
        BY <2>1, <2>2
<1>10. Exclusive'
    BY <1>0, <1>2, NoTxTyped DEF Exclusive
<1>11. Creation'
    <2> SUFFICES ASSUME NEW s \in Requests, tx'[s].kind \in Creators PROVE Created(s)'
        BY DEF Creation, Created
    <2>1. s # r /\ tx'[s] = tx[s] /\ tx[s].kind \in Creators
        BY <1>2, NoTxTyped, Distinct, Kinds
    <2>2. /\ tx[s].item \in born /\ row[tx[s].item] = None /\ Apart(tx[r], tx[s])
          /\ tx[s].item \in Items
        BY <1>0, <1>7, <2>1 DEF Created, Shape
    <2>3. row'[tx[s].item] = None
        BY <1>3, <2>2 DEF Apart
    <2>4. Apart(NoTx, tx[s])
        BY <2>2, NoTxTyped, Distinct, Kinds DEF Apart
    <2>5. \A t \in Requests \ {s} : Apart(tx'[t], tx[s])
        BY <1>2, <1>7, <2>1, <2>4 DEF Created
    <2> QED
        BY <1>1, <1>7, <2>1, <2>2, <2>3, <2>5 DEF Created
<1>12. Unborn'
    <2> SUFFICES ASSUME NEW y \in Items \ born
                 PROVE  /\ row'[y] = None /\ doc[y] = None
                        /\ \A s \in Requests : /\ tx'[s].own[y] = Unwritten
                                               /\ tx'[s].snap[y] = None /\ tx'[s].item # y
        BY <1>1 DEF Unborn
    <2>1. /\ row[y] = None /\ doc[y] = None
          /\ \A s \in Requests : tx[s].own[y] = Unwritten /\ tx[s].snap[y] = None /\ tx[s].item # y
        BY <1>0 DEF Unborn
    <2>2. NoTx.own[y] = Unwritten /\ NoTx.snap[y] = None /\ NoTx.item # y
        BY NoTxTyped, Distinct
    <2> QED
        BY <1>2, <1>3, <2>1, <2>2
<1>13. ASSUME NEW y \in Items, tx[r].own[y] # Unwritten,
              NEW s \in Requests, tx[s].own[y] # Unwritten
       PROVE  s = r
    BY <1>0, <1>13 DEF Exclusive
\* Where nothing is written, nothing that was stale is made good.
<1>14. ASSUME NEW y \in Items, tx[r].own[y] = Unwritten, row[y] # None, y \notin stale'
       PROVE  y \notin stale
    <2> SUFFICES ASSUME y \in Left(r) PROVE FALSE
        BY <1>1, <1>14
    <2>1. tx[r].wrote /\ y = tx[r].item
        BY DEF Left
    <2>2. tx[r].kind \notin Creators
        BY <1>1, <1>4, <1>14, <2>1 DEF TxKept, Fits
    <2>3. tx[r].kind # "upgrade"
        BY <1>4, <2>1 DEF TxKept, Fits
    <2> QED
        BY <1>1, <1>4, <1>14, <2>1, <2>2, <2>3, Kinds DEF TxKept, GoneKept
<1>15. ASSUME NEW y \in Items, tx[r].own[y] # Unwritten, row'[y] # None
       PROVE  /\ row'[y] = tx[r].own[y] /\ tx[r].kind \notin Removers /\ y = tx[r].item
              /\ tx[r].kind # "enlist"
              /\ tx[r].kind \in {"register", "profile"} => doc[y] = row'[y]
              /\ tx[r].kind = "edit" => doc[y] \in {None, row'[y]}
              /\ tx[r].kind \in {"social", "review"} => doc[y] = None
              /\ tx[r].kind = "upgrade" =>
                    /\ ~tx[r].wrote /\ row[y] # None
                    /\ row'[y].content = row[y].content /\ row'[y].premium = TRUE
    <2>1. row'[y] = tx[r].own[y] /\ Wrote(row, tx[r], y)
        BY <1>3, <1>5, <1>15
    <2>2. tx[r].kind \notin Removers /\ y = tx[r].item
        BY <1>4, <1>15, <2>1, Kinds DEF Wrote
    <2>3. tx[r].kind # "enlist" /\ (tx[r].kind = "upgrade" => ~tx[r].wrote)
        BY <1>1, <1>4 DEF TxKept, Fits
    <2>4. /\ tx[r].kind \in {"register", "profile"} => doc[y] = row'[y]
          /\ tx[r].kind = "edit" => doc[y] \in {None, row'[y]}
        BY <1>1, <1>4, <1>15, <2>1, <2>2 DEF TxKept, IndexKept
    <2>5. tx[r].kind \in {"social", "review"} => doc[y] = None
        BY <1>7, <2>2 DEF Created, Creators
    <2>6. tx[r].kind = "upgrade" => /\ row[y] # None /\ row'[y].premium = TRUE
                                    /\ row'[y].content = row[y].content
        BY <1>4, <2>1, Kinds DEF Wrote
    <2> QED
        BY <2>1, <2>2, <2>3, <2>4, <2>5, <2>6
<1>16. Match'
    <2> SUFFICES ASSUME NEW y \in Items, row'[y] # None, doc[y] # None, y \notin stale'
                 PROVE  \/ doc[y].content = row'[y].content
                        \/ \E s \in Requests : /\ tx'[s].own[y] # Unwritten /\ tx'[s].wrote
                                               /\ tx'[s].kind \in Editors
        BY <1>1 DEF Match
    <2>1. CASE tx[r].own[y] = Unwritten
        <3>1. row'[y] = row[y] /\ y \notin stale
            BY <1>3, <1>14, <2>1
        <3>2. CASE doc[y].content = row[y].content
            BY <3>1, <3>2
        <3>3. ASSUME NEW s \in Requests, tx[s].own[y] # Unwritten, tx[s].wrote,
                     tx[s].kind \in Editors
              PROVE  \E t \in Requests : /\ tx'[t].own[y] # Unwritten /\ tx'[t].wrote
                                         /\ tx'[t].kind \in Editors
            BY <1>2, <2>1, <3>3
        <3> QED
            BY <1>0, <3>1, <3>2, <3>3 DEF Match
    <2>2. CASE tx[r].own[y] # Unwritten /\ tx[r].kind = "upgrade"
        <3>1. Left(r) = {} /\ row[y] # None /\ row'[y].content = row[y].content
            BY <1>15, <2>2 DEF Left
        <3>2. y \notin stale
            BY <1>1, <3>1
        <3>3. ~\E s \in Requests : tx[s].own[y] # Unwritten /\ tx[s].kind \in Editors
            BY <1>13, <2>2, Kinds
        <3> QED
            BY <1>0, <3>1, <3>2, <3>3 DEF Match
    <2>3. CASE tx[r].own[y] # Unwritten /\ tx[r].kind # "upgrade"
        <3>1. tx[r].kind \in {"register", "social", "review", "profile", "edit"}
            BY <1>4, <1>15, <2>3, Kinds DEF Creators, Editors
        <3> QED
            BY <1>15, <2>3, <3>1
    <2> QED
        BY <2>1, <2>2, <2>3
<1>17. Found'
    <2> SUFFICES ASSUME NEW u \in Users \ Socials, row'[u] # None, u \notin stale'
                 PROVE  \/ doc[u] # None
                        \/ \E s \in Requests : tx'[s].own[u] = None /\ tx'[s].wrote
        BY <1>1 DEF Found
    <2>0. u \in Items
        BY DEF Items
    <2>1. CASE tx[r].own[u] = Unwritten
        <3>1. row'[u] = row[u] /\ u \notin stale
            BY <1>3, <1>14, <2>0, <2>1
        <3>2. ASSUME NEW s \in Requests, tx[s].own[u] = None, tx[s].wrote
              PROVE  \E t \in Requests : tx'[t].own[u] = None /\ tx'[t].wrote
            BY <1>2, <2>1, <3>2, Distinct
        <3> QED
            BY <1>0, <3>1, <3>2 DEF Found
    <2>2. CASE tx[r].own[u] # Unwritten /\ tx[r].kind = "upgrade"
        <3>1. Left(r) = {} /\ row[u] # None
            BY <1>15, <2>0, <2>2 DEF Left
        <3>2. u \notin stale
            BY <1>1, <3>1
        <3>3. \A s \in Requests : tx[s].own[u] # None
            BY <1>13, <1>15, <2>0, <2>2, Distinct
        <3> QED
            BY <1>0, <3>1, <3>2, <3>3 DEF Found
    <2>3. CASE tx[r].own[u] # Unwritten /\ tx[r].kind # "upgrade"
        <3>1. tx[r].kind \in {"register", "social", "review", "profile", "edit"} /\ u = tx[r].item
            BY <1>4, <1>15, <2>0, <2>3, Kinds DEF Creators, Editors
        <3>2. tx[r].kind \notin {"social", "review", "edit"}
            BY <1>4, <3>1, SearchAssumption DEF TxKept, Fits, ItemFits, SearchAssumption
        <3> QED
            BY <1>15, <2>0, <2>3, <3>1, <3>2
    <2> QED
        BY <2>1, <2>2, <2>3
<1>18. Upheld'
    <2> SUFFICES ASSUME NEW y \in Items, row'[y] # None, doc[y] # None, doc[y].premium = TRUE
                 PROVE  row'[y].premium = TRUE
        BY <1>1 DEF Upheld
    <2>1. CASE tx[r].own[y] = Unwritten
        BY <1>0, <1>3, <2>1 DEF Upheld
    <2>2. CASE tx[r].own[y] # Unwritten /\ tx[r].kind = "upgrade"
        BY <1>15, <2>2
    <2>3. CASE tx[r].own[y] # Unwritten /\ tx[r].kind # "upgrade"
        <3>1. tx[r].kind \in {"register", "social", "review", "profile", "edit"}
            BY <1>4, <1>15, <2>3, Kinds DEF Creators, Editors
        <3> QED
            BY <1>15, <2>3, <3>1
    <2> QED
        BY <2>1, <2>2, <2>3
<1> QED
    BY <1>6, <1>9, <1>10, <1>11, <1>12, <1>16, <1>17, <1>18 DEF SearchInv

\* A service starts again: its handlers are gone and its documents are those of the rows.
LEMMA RestartKeeps ==
    ASSUME SearchInv, NEW items, items \in {Users, Reviews}, Restart(items)
    PROVE  SearchInv'
<1>0. /\ Shape /\ TxsKept /\ Exclusive /\ Creation /\ Unborn /\ Match /\ Found /\ Upheld
    BY DEF SearchInv
<1>1. /\ tx' = [r \in Requests |-> IF r \in Handlers(items) THEN NoTx ELSE tx[r]]
      /\ doc' = [x \in Items |-> IF x \in items /\ row[x] # None THEN row[x] ELSE doc[x]]
      /\ stale' = stale \ items /\ row' = row /\ born' = born
      /\ failures' = failures + 1 /\ failures < MaxFailures
    BY DEF Restart
<1>2. \A s \in Requests : tx'[s] = IF s \in Handlers(items) THEN NoTx ELSE tx[s]
    BY <1>1
<1>3. \A y \in Items : doc'[y] = IF y \in items /\ row[y] # None THEN row[y] ELSE doc[y]
    BY <1>1
<1>4. Shape'
    <2>1. failures' \in 0 .. MaxFailures
        BY <1>0, <1>1, SearchAssumption DEF Shape, SearchAssumption
    <2>2. \A s \in Requests : tx'[s] \in TxRec
        BY <1>0, <1>2, NoTxTyped DEF Shape
    <2>3. \A y \in Items : doc'[y] \in Row \cup {None}
        BY <1>0, <1>3 DEF Shape
    <2>4. tx' \in [Requests -> TxRec] /\ doc' \in [Items -> Row \cup {None}]
        BY <1>1, <2>2, <2>3
    <2>5. stale' \in SUBSET Items
        BY <1>0, <1>1 DEF Shape
    <2> QED
        BY <1>0, <1>1, <2>1, <2>4, <2>5 DEF Shape
\* A handler that goes on is about an item of the other service, unless it has not begun.
<1>5. ASSUME NEW s \in Requests, s \notin Handlers(items)
      PROVE  tx'[s] = tx[s] /\ (tx[s].item \notin items \/ tx[s].pc = "idle")
    BY <1>2, <1>5 DEF Handlers
<1>6. TxsKept'
    <2> SUFFICES ASSUME NEW s \in Requests PROVE TxKept(row, doc', tx'[s])
        BY <1>1 DEF TxsKept
    <2>1. CASE s \in Handlers(items)
        BY <1>2, <2>1, FreshKept, NoTxTyped
    <2>2. CASE s \notin Handlers(items)
        <3>1. TxKept(row, doc, tx[s])
            BY <1>0 DEF TxsKept
        <3>2. IndexKept(doc', tx[s])
            BY <1>3, <1>5, <2>2, <3>1 DEF TxKept, IndexKept
        <3> QED
            BY <1>5, <2>2, <3>1, <3>2 DEF TxKept
    <2> QED
        BY <2>1, <2>2
<1>7. Exclusive'
    BY <1>0, <1>2, NoTxTyped DEF Exclusive
<1>8. Creation'
    <2> SUFFICES ASSUME NEW s \in Requests, tx'[s].kind \in Creators PROVE Created(s)'
        BY DEF Creation, Created
    <2>1. s \notin Handlers(items) /\ tx'[s] = tx[s] /\ tx[s].kind \in Creators
        BY <1>2, NoTxTyped, Distinct, Kinds
    <2>2. Created(s)
        BY <1>0 DEF Creation
    <2>3. tx[s].item \in born /\ row[tx[s].item] = None /\ tx[s].item \in Items
        BY <1>0, <2>1, <2>2 DEF Created, Shape
    <2>4. doc'[tx[s].item] = doc[tx[s].item]
        BY <1>3, <2>3
    <2>5. Apart(NoTx, tx[s])
        BY <2>3, NoTxTyped, Distinct, Kinds DEF Apart
    <2>6. \A t \in Requests \ {s} : Apart(tx'[t], tx[s])
        BY <1>2, <2>1, <2>2, <2>5 DEF Created
    <2> QED
        BY <1>1, <2>1, <2>2, <2>3, <2>4, <2>6 DEF Created
<1>9. Unborn'
    <2> SUFFICES ASSUME NEW y \in Items \ born
                 PROVE  /\ row[y] = None /\ doc'[y] = None
                        /\ \A s \in Requests : /\ tx'[s].own[y] = Unwritten
                                               /\ tx'[s].snap[y] = None /\ tx'[s].item # y
        BY <1>1 DEF Unborn
    <2>1. /\ row[y] = None /\ doc[y] = None
          /\ \A s \in Requests : tx[s].own[y] = Unwritten /\ tx[s].snap[y] = None /\ tx[s].item # y
        BY <1>0 DEF Unborn
    <2>2. NoTx.own[y] = Unwritten /\ NoTx.snap[y] = None /\ NoTx.item # y
        BY NoTxTyped, Distinct
    <2> QED
        BY <1>2, <1>3, <2>1, <2>2
\* Who has written the row and the document of an item of the other service goes on.
<1>10. ASSUME NEW y \in Items \ items, NEW s \in Requests, tx[s].own[y] # Unwritten,
              tx[s].kind \in Editors \/ (tx[s].own[y] = None /\ y \in Users)
       PROVE  tx'[s] = tx[s]
    <2>1. Wrote(row, tx[s], y)
        BY <1>0, <1>10 DEF TxsKept, TxKept, OwnKept
    <2>2. y \notin Reviews \/ tx[s].kind \in Editors
        BY <1>10, SearchAssumption DEF SearchAssumption
    <2>3. y = tx[s].item
        BY <1>10, <2>1, <2>2, Kinds DEF Wrote, Removers
    <2> QED
        BY <1>2, <1>10, <2>3 DEF Handlers
<1>11. Match'
    <2> SUFFICES ASSUME NEW y \in Items, row[y] # None, doc'[y] # None, y \notin stale'
                 PROVE  \/ doc'[y].content = row[y].content
                        \/ \E s \in Requests : /\ tx'[s].own[y] # Unwritten /\ tx'[s].wrote
                                               /\ tx'[s].kind \in Editors
        BY <1>1 DEF Match
    <2>1. CASE y \in items
        BY <1>3, <2>1
    <2>2. CASE y \notin items
        <3>1. doc'[y] = doc[y] /\ y \notin stale
            BY <1>1, <1>3, <2>2
        <3> QED
            BY <1>0, <1>10, <2>2, <3>1 DEF Match
    <2> QED
        BY <2>1, <2>2
<1>12. Found'
    <2> SUFFICES ASSUME NEW u \in Users \ Socials, row[u] # None, u \notin stale'
                 PROVE  \/ doc'[u] # None
                        \/ \E s \in Requests : tx'[s].own[u] = None /\ tx'[s].wrote
        BY <1>1 DEF Found
    <2>0. u \in Items
        BY DEF Items
    <2>1. CASE u \in items
        BY <1>3, <2>0, <2>1
    <2>2. CASE u \notin items
        <3>1. doc'[u] = doc[u] /\ u \notin stale
            BY <1>1, <1>3, <2>0, <2>2
        <3> QED
            BY <1>0, <1>10, <2>0, <2>2, <3>1, Distinct DEF Found
    <2> QED
        BY <2>1, <2>2
<1>13. Upheld'
    <2> SUFFICES ASSUME NEW y \in Items, row[y] # None, doc'[y] # None, doc'[y].premium = TRUE
                 PROVE  row[y].premium = TRUE
        BY <1>1 DEF Upheld
    <2> QED
        BY <1>0, <1>3 DEF Upheld
<1> QED
    BY <1>4, <1>6, <1>7, <1>8, <1>9, <1>11, <1>12, <1>13 DEF SearchInv

-----------------------------------------------------------------------------
(* The steps.                                                              *)

\* What a handler that runs is known to do.
LEMMA Running ==
    ASSUME SearchInv, NEW r \in Requests, tx[r].pc # "idle"
    PROVE  /\ Shape /\ Fits(tx[r]) /\ TxKept(row, doc, tx[r]) /\ tx[r] \in TxRec
           /\ tx[r].kind \in Kind /\ tx[r].item \in Items /\ tx[r].item \in born
           /\ Created(r) /\ row \in [Items -> Row \cup {None}]
<1>1. Shape /\ TxsKept /\ Creation /\ Unborn
    BY DEF SearchInv
<1>2. Fits(tx[r]) /\ TxKept(row, doc, tx[r]) /\ tx[r] \in TxRec /\ Created(r)
    BY <1>1 DEF TxsKept, TxKept, Shape, Creation
<1>3. tx[r].kind \in Kind /\ tx[r].item \in Items
    BY <1>2 DEF Fits, ItemFits
<1>4. tx[r].item \in born
    BY <1>1, <1>3 DEF Unborn
<1> QED
    BY <1>1, <1>2, <1>3, <1>4 DEF Shape

LEMMA LeftTyped ==
    ASSUME SearchInv, NEW r \in Requests, tx[r].pc # "idle"
    PROVE  stale \cup Left(r) \in SUBSET Items /\ failures \in 0 .. MaxFailures
BY Running DEF Left, Shape

LEMMA OverKeeps ==
    ASSUME SearchInv, NEW r \in Requests, tx[r].pc # "idle", tx' = [tx EXCEPT ![r] = NoTx],
           stale' = stale \cup Left(r), failures' \in 0 .. MaxFailures,
           UNCHANGED <<row, doc, born>>
    PROVE  SearchInv'
<1>1. born' = born /\ born \in SUBSET Items
    BY Running DEF Shape
<1>2. NoTx.kind \notin Creators
    BY NoTxTyped, Distinct, Kinds
<1> QED
    BY <1>1, <1>2, NoTxTyped, LeftTyped, FreshStep

LEMMA RefuseKeeps ==
    ASSUME SearchInv, NEW r \in Requests, tx[r].pc # "idle", Refuse(r)
    PROVE  SearchInv'
BY OverKeeps, LeftTyped DEF Refuse

LEMMA FailKeeps ==
    ASSUME SearchInv, NEW r \in Requests, Fail(r)
    PROVE  SearchInv'
<1>1. tx[r].pc # "idle" /\ failures' \in 0 .. MaxFailures
    BY LeftTyped, SearchAssumption DEF Fail, SearchAssumption
<1> QED
    BY <1>1, OverKeeps DEF Fail

LEMMA ConflictKeeps ==
    ASSUME SearchInv, NEW r \in Requests, Conflict(r)
    PROVE  SearchInv'
<1> DEFINE x == [Begun(tx[r].kind, tx[r].item, tx[r].content)
                    EXCEPT !.attempt = tx[r].attempt + 1]
<1>1. tx[r].pc \in {"insert", "change", "erase"}
    BY DEF Conflict, Blocked
<1>2. /\ stale' = stale \cup Left(r) /\ row' = row /\ doc' = doc /\ born' = born
      /\ failures' = failures
    BY DEF Conflict
<1>3. CASE tx[r].attempt < MaxRetries - 1 /\ tx' = [tx EXCEPT ![r] = x]
    <2>1. /\ tx[r].kind \in Kind /\ tx[r].item \in Items \cap born /\ Fits(tx[r])
          /\ tx[r].content \in Contents \cup {None} /\ tx[r].attempt \in 0 .. MaxRetries - 1
        BY <1>1, Running DEF TxRec
    <2>2. tx[r].attempt + 1 \in 0 .. MaxRetries - 1
        BY <1>3, <2>1, SearchAssumption DEF SearchAssumption
    <2>3. Begins(x, tx[r].kind, tx[r].item, tx[r].content)
        BY <2>1, <2>2, BegunTyped
    <2> HIDE DEF x
    <2>4. ItemFits(x.kind, x.item, x.content)
        BY <2>1, <2>3 DEF Begins, Fits
    <2>5. x.kind \in Creators => tx[r].pc = "insert"
        BY <1>1, <2>1, <2>3, Kinds DEF Fits, Begins
    <2>6. born \in SUBSET Items
        BY <1>1, Running DEF Shape
    <2> QED
        BY <1>1, <1>2, <1>3, <2>1, <2>3, <2>4, <2>5, <2>6, LeftTyped, FreshStep DEF Begins
<1>4. CASE tx' = [tx EXCEPT ![r] = NoTx]
    BY <1>1, <1>2, <1>4, LeftTyped, OverKeeps
<1> QED
    BY <1>3, <1>4 DEF Conflict

LEMMA EnterKeeps ==
    ASSUME SearchInv, NEW r \in Requests, NEW kind \in Creators, NEW items, items \subseteq Items,
           Enter(r, kind, items), \A i \in items, c \in Contents : ItemFits(kind, i, c)
    PROVE  SearchInv'
<1>1. PICK i \in items \ born, c \in Contents :
          born' = born \cup {i} /\ tx' = [tx EXCEPT ![r] = Begun(kind, i, c)]
    BY DEF Enter
<1>2. Begins(Begun(kind, i, c), kind, i, c) /\ kind \in Kind
    BY Kinds, BegunTyped
<1>3. /\ tx[r].pc = "idle" /\ row' = row /\ doc' = doc /\ stale' = stale /\ failures' = failures
      /\ Shape
    BY DEF Enter, SearchInv
<1>4. Left(r) = {}
    BY <1>3 DEF Left, SearchInv, TxsKept, TxKept, Fits
<1>5. /\ born' \in SUBSET Items /\ stale \cup Left(r) \subseteq stale'
      /\ stale' \in SUBSET Items /\ failures' \in 0 .. MaxFailures /\ born \subseteq born'
      /\ i \in born' /\ i \in Items \ born
    BY <1>1, <1>3, <1>4 DEF Shape
<1> DEFINE x == Begun(kind, i, c)
<1>6. tx' = [tx EXCEPT ![r] = x] /\ Begins(x, kind, i, c)
    BY <1>1, <1>2
<1> HIDE DEF x
<1> QED
    BY <1>2, <1>3, <1>5, <1>6, FreshStep DEF Begins

LEMMA AskKeeps ==
    ASSUME SearchInv, NEW r \in Requests, NEW kind \in Kind \ Creators, NEW items,
           NEW contents, items \subseteq Items, contents \subseteq Contents \cup {None},
           Ask(r, kind, items, contents),
           \A i \in items, c \in contents : ItemFits(kind, i, c)
    PROVE  SearchInv'
<1>1. PICK i \in items \cap born, c \in contents : tx' = [tx EXCEPT ![r] = Begun(kind, i, c)]
    BY DEF Ask
<1>2. Begins(Begun(kind, i, c), kind, i, c)
    BY BegunTyped
<1>3. /\ tx[r].pc = "idle" /\ row' = row /\ doc' = doc /\ stale' = stale /\ failures' = failures
      /\ born' = born /\ Shape
    BY DEF Ask, SearchInv
<1>4. Left(r) = {}
    BY <1>3 DEF Left, SearchInv, TxsKept, TxKept, Fits
<1>5. /\ born' \in SUBSET Items /\ stale \cup Left(r) \subseteq stale'
      /\ stale' \in SUBSET Items /\ failures' \in 0 .. MaxFailures /\ i \in born'
    BY <1>1, <1>3, <1>4 DEF Shape
<1> DEFINE x == Begun(kind, i, c)
<1>6. tx' = [tx EXCEPT ![r] = x] /\ Begins(x, kind, i, c)
    BY <1>1, <1>2
<1> HIDE DEF x
<1> QED
    BY <1>3, <1>5, <1>6, FreshStep DEF Begins

LEMMA ReadKeeps ==
    ASSUME SearchInv, NEW r \in Requests, Read(r)
    PROVE  SearchInv'
<1> DEFINE snap == [y \in Items |-> IF y \in Wanted(r) THEN row[y] ELSE None]
           x == [tx[r] EXCEPT !.snap = snap, !.pc = NextPc(tx[r].kind)]
<1>1. /\ tx[r].pc = "begin" /\ tx' = [tx EXCEPT ![r] = x]
      /\ UNCHANGED <<row, doc, born, stale, failures>>
    BY DEF Read
<1>2. /\ Fits(tx[r]) /\ TxKept(row, doc, tx[r]) /\ tx[r] \in TxRec /\ tx[r].kind \in Kind
      /\ row \in [Items -> Row \cup {None}]
    BY <1>1, Running
<1>3. snap \in [Items -> Row \cup {None}] /\ \A y \in Items : snap[y] \in {None, row[y]}
    BY <1>2
<1> HIDE DEF snap
<1>4. /\ NextPc(tx[r].kind) \in {"insert", "change", "take"} /\ tx[r].kind # "remove"
      /\ tx[r].kind \in Creators => NextPc(tx[r].kind) = "insert"
      /\ tx[r].kind \in Editors \cup {"upgrade"} => NextPc(tx[r].kind) = "change"
      /\ tx[r].kind = "retract" => NextPc(tx[r].kind) = "take"
    BY <1>1, <1>2 DEF NextPc, Kind, Creators, Editors, Fits
<1>5. /\ x \in TxRec /\ x.pc = NextPc(tx[r].kind) /\ x.kind = tx[r].kind /\ x.snap = snap
      /\ x.item = tx[r].item /\ x.content = tx[r].content /\ x.wrote = tx[r].wrote
      /\ x.own = tx[r].own
    BY <1>2, <1>3, <1>4 DEF TxRec, Pc
<1> HIDE DEF x
<1>6. tx[r].own = Untouched
    BY <1>1, <1>2 DEF Fits
<1>7. Fits(x)
    BY <1>2, <1>4, <1>5, <1>6, Kinds DEF Fits, Removers
<1>8. OwnKept(row, x)
    BY <1>5, <1>6, NoTxTyped DEF OwnKept
<1>9. GoneKept(row, x) /\ IndexKept(doc, x)
    BY <1>4, <1>5 DEF GoneKept, IndexKept
<1>10. TxKept(row, doc, x)
    BY <1>7, <1>8, <1>9 DEF TxKept
<1>11. /\ \A y \in Items : x.own[y] = Unwritten /\ tx[r].own[y] = Unwritten
       /\ \A y \in Items : x.snap[y] \in {None, tx[r].snap[y], row[y]}
    BY <1>3, <1>5, <1>6, NoTxTyped
<1>12. x.pc \notin {"index", "unindex", "commit", "erase"}
    BY <1>4, <1>5
<1>13. x.kind = tx[r].kind /\ x.item = tx[r].item /\ x.wrote = tx[r].wrote
    BY <1>5
<1> QED
    BY <1>1, <1>2, <1>5, <1>10, <1>11, <1>12, <1>13, OneStep

LEMMA InsertKeeps ==
    ASSUME SearchInv, NEW r \in Requests, NEW taken, NEW rejected, NEW pc,
           Insert(r, taken, rejected, pc),
           \/ pc = "index" /\ tx[r].kind \in {"register", "enlist"}
           \/ pc = "commit" /\ tx[r].kind \in {"social", "review"}
    PROVE  SearchInv'
<1> DEFINE i == tx[r].item
           own == [tx[r].own EXCEPT ![tx[r].item] = NewRow(tx[r].content)]
           x == [tx[r] EXCEPT !.own = own, !.pc = pc]
<1>1. tx[r].pc = "insert"
    BY DEF Insert
<1>2. CASE Refuse(r)
    BY <1>1, <1>2, RefuseKeeps
<1>3. CASE tx' = [tx EXCEPT ![r] = x] /\ UNCHANGED <<row, doc, born, stale, failures>>
    <2>1. /\ Fits(tx[r]) /\ TxKept(row, doc, tx[r]) /\ tx[r] \in TxRec /\ i \in Items
          /\ tx[r].kind \in Creators /\ Created(r) /\ tx[r].own = Untouched
          /\ tx[r].content \in Contents
        BY <1>1, Running DEF Fits, ItemFits
    <2>2. NewRow(tx[r].content) \in Row /\ NewRow(tx[r].content).premium = FALSE
        BY <2>1 DEF NewRow, Row
    <2>3. /\ own \in [Items -> Row \cup {None, Unwritten}] /\ own[i] = NewRow(tx[r].content)
          /\ \A y \in Items \ {i} : own[y] = Unwritten
        BY <2>1, <2>2, NoTxTyped DEF TxRec
    <2> HIDE DEF own
    <2>4. /\ x \in TxRec /\ x.pc = pc /\ x.kind = tx[r].kind /\ x.snap = tx[r].snap
          /\ x.item = i /\ x.content = tx[r].content /\ x.wrote = tx[r].wrote /\ x.own = own
        BY <2>1, <2>3 DEF TxRec, Pc
    <2> HIDE DEF x
    <2>5. own[i] # Unwritten /\ own[i] # None /\ own[i].premium = FALSE
        BY <2>2, <2>3, Distinct
    <2>6. Fits(x)
        BY <2>1, <2>4, <2>5, Kinds DEF Fits, Creators, Editors
    <2>7. OwnKept(row, x)
        BY <2>1, <2>3, <2>4, <2>5, Kinds DEF OwnKept, Wrote
    <2>8. GoneKept(row, x) /\ IndexKept(doc, x)
        BY <2>1, <2>4, Kinds DEF GoneKept, IndexKept
    <2>9. TxKept(row, doc, x)
        BY <2>6, <2>7, <2>8 DEF TxKept
    <2>10. \A s \in Requests \ {r} : tx[s].kind \in Creators => tx[s].item # i
        BY <2>1 DEF Created, Apart
    <2>11. \A y \in Items :
              /\ tx[r].own[y] = Unwritten /\ x.snap[y] = tx[r].snap[y]
              /\ x.own[y] # Unwritten => y = i
        BY <2>1, <2>3, <2>4, NoTxTyped
    <2>12. x.pc \notin {"begin", "insert"}
        BY <2>4
    <2>13. \A s \in Requests \ {r} : ~(tx[s].kind \in Creators /\ tx[s].item = x.item)
        BY <2>4, <2>10
    <2>14. tx[r].kind \in Creators /\ tx[r].item = i
        BY <2>1
    <2>15. \A y \in Items : tx[r].own[y] # Unwritten => x.own[y] = tx[r].own[y]
        BY <2>11
    <2>16. \A y \in Items : x.own[y] # Unwritten =>
              \/ tx[r].own[y] # Unwritten
              \/ row[y] # None /\ ~Locked(r, y)
              \/ tx[r].kind \in Creators /\ tx[r].item = y
        BY <2>11, <2>14
    <2>17. \A y \in Items : x.snap[y] \in {None, tx[r].snap[y], row[y]}
        BY <2>11
    <2>18. x.kind = tx[r].kind /\ x.item = tx[r].item /\ x.wrote = tx[r].wrote
        BY <2>4
    <2> HIDE DEF i
    <2> QED
        BY <1>3, <2>4, <2>9, <2>12, <2>13, <2>15, <2>16, <2>17, <2>18, OneStep
<1> QED
    BY <1>2, <1>3 DEF Insert

\* Who is about to write the document of an item is the only one to have written or to
\* create it.
LEMMA Alone ==
    ASSUME SearchInv, NEW r \in Requests, tx[r].pc \in {"index", "unindex"}
    PROVE  /\ \A s \in Requests \ {r} : tx[s].own[tx[r].item] = Unwritten
           /\ \A s \in Requests \ {r} : tx[s].kind \in Creators => tx[s].item # tx[r].item
           /\ tx[r].own[tx[r].item] = Unwritten =>
                 /\ row[tx[r].item] = None
                 /\ tx[r].kind \in Editors => tx[r].snap[tx[r].item] # None
<1>1. TxKept(row, doc, tx[r]) /\ Fits(tx[r]) /\ tx[r].kind \in Kind /\ tx[r].item \in Items
    BY Running
<1>2. /\ \A s \in Requests : Created(s) /\ TxKept(row, doc, tx[s])
      /\ Exclusive
    BY DEF SearchInv, Creation, TxsKept
<1>3. \A s \in Requests \ {r} : tx[s].kind \in Creators => tx[s].item # tx[r].item
    BY <1>2 DEF Created, Apart
<1>4. ASSUME tx[r].own[tx[r].item] = Unwritten
      PROVE  /\ row[tx[r].item] = None
             /\ tx[r].kind \in Editors => tx[r].snap[tx[r].item] # None
    BY <1>1, <1>4, Kinds DEF TxKept, Fits, GoneKept, Removers, Editors, Creators
<1>5. ASSUME NEW s \in Requests \ {r}, tx[s].own[tx[r].item] # Unwritten PROVE FALSE
    <2>1. Wrote(row, tx[s], tx[r].item)
        BY <1>1, <1>2, <1>5 DEF TxKept, OwnKept
    <2>2. tx[r].own[tx[r].item] = Unwritten
        BY <1>1, <1>2, <1>5 DEF Exclusive
    <2> QED
        BY <1>3, <1>4, <2>1, <2>2 DEF Wrote
<1> QED
    BY <1>3, <1>4, <1>5

LEMMA IndexKeeps ==
    ASSUME SearchInv, NEW r \in Requests, NEW pc, Index(r, pc),
           \/ pc = "commit" /\ tx[r].kind \in {"register"} \cup Editors
           \/ pc = "notify" /\ tx[r].kind = "enlist"
    PROVE  SearchInv'
<1> DEFINE i == tx[r].item
           v == View(r, i)
           x == [tx[r] EXCEPT !.wrote = TRUE, !.pc = pc]
<1>1. /\ tx[r].pc = "index" /\ doc' = [doc EXCEPT ![i] = v] /\ tx' = [tx EXCEPT ![r] = x]
      /\ UNCHANGED <<row, born, stale, failures>>
    BY DEF Index
<1>2. /\ Fits(tx[r]) /\ TxKept(row, doc, tx[r]) /\ tx[r] \in TxRec /\ i \in Items /\ Created(r)
      /\ tx[r].kind \in Kind /\ Shape
    BY <1>1, Running
<1>3. /\ x \in TxRec /\ x.pc = pc /\ x.kind = tx[r].kind /\ x.snap = tx[r].snap
      /\ x.item = i /\ x.content = tx[r].content /\ x.wrote = TRUE /\ x.own = tx[r].own
    BY <1>2 DEF TxRec, Pc
<1> HIDE DEF x
<1>4. v = IF tx[r].own[i] = Unwritten THEN tx[r].snap[i] ELSE tx[r].own[i]
    BY DEF View
<1> HIDE DEF v
<1>5. /\ tx[r].kind \in Creators \cup Editors
      /\ tx[r].kind \in Creators => row[i] = None /\ tx[r].own[i] # Unwritten
    BY <1>1, <1>2 DEF Creators, Editors, Fits, Created
<1>6. tx[r].own[i] # Unwritten =>
         /\ tx[r].own[i] # None
         /\ tx[r].kind \in Editors => tx[r].own[i].premium = row[i].premium
    BY <1>2, <1>5 DEF TxKept, OwnKept, Wrote
<1>7. tx[r].own[i] = Unwritten => row[i] = None /\ tx[r].snap[i] # None
    BY <1>1, <1>5, Alone
<1>8. v \in Row /\ v # None /\ v \in Row \cup {None}
    BY <1>2, <1>4, <1>6, <1>7 DEF TxRec
<1>9. doc'[i] = v
    BY <1>1, <1>2 DEF Shape
<1> HIDE DEF i
<1>0. i = tx[r].item /\ x.item = tx[r].item
    BY <1>3 DEF i
<1>10. Fits(x)
    BY <1>0, <1>1, <1>2, <1>3, <1>5, Kinds DEF Fits, Editors
<1>11. OwnKept(row, x)
    BY <1>0, <1>2, <1>3 DEF TxKept, OwnKept, Wrote
<1>12. GoneKept(row, x)
    BY <1>3, <1>5, <1>7, Kinds DEF GoneKept
<1>13. IndexKept(doc', x)
    BY <1>3, <1>4, <1>5, <1>9, Kinds DEF IndexKept, Editors
<1>14. TxKept(row, doc', x)
    BY <1>10, <1>11, <1>12, <1>13 DEF TxKept
<1>15. /\ \A s \in Requests \ {r} : tx[s].own[i] = Unwritten
       /\ \A s \in Requests \ {r} : tx[s].kind \in Creators => tx[s].item # i
    BY <1>1, Alone DEF i
<1>16. row[i] # None => /\ x.kind \in Editors /\ x.own[i] # Unwritten
                        /\ v.premium = TRUE => row[i].premium = TRUE
    BY <1>3, <1>4, <1>5, <1>6, <1>7
<1>17. x.kind \notin {"social", "review"} /\ x.pc \notin {"begin", "insert"}
    BY <1>3 DEF Editors
<1>18. MayShow(r, x, i, v)
    BY <1>0, <1>3, <1>8, <1>15, <1>16, <1>17 DEF MayShow
<1>19. /\ tx' = [tx EXCEPT ![r] = x] /\ doc' = [doc EXCEPT ![i] = v] /\ x \in TxRec
       /\ UNCHANGED <<row, born, stale, failures>> /\ i \in Items
    BY <1>1, <1>2, <1>3 DEF i
<1> QED
    BY <1>8, <1>14, <1>18, <1>19, DocStep

LEMMA UpdateKeeps ==
    ASSUME SearchInv, NEW r \in Requests, NEW new, NEW pc, Update(r, new, pc),
           row[tx[r].item] # None => new \in Row,
           \/ /\ pc = "index" /\ tx[r].kind \in Editors
              /\ row[tx[r].item] # None => new.premium = row[tx[r].item].premium
           \/ /\ pc = "commit" /\ tx[r].kind = "upgrade"
              /\ row[tx[r].item] # None => /\ new.premium = TRUE
                                           /\ new.content = row[tx[r].item].content
    PROVE  SearchInv'
<1> DEFINE i == tx[r].item
           own == [tx[r].own EXCEPT ![i] = IF row[i] = None THEN tx[r].own[i] ELSE new]
           x == [tx[r] EXCEPT !.own = own, !.pc = pc]
<1>1. tx[r].pc = "change"
    BY DEF Update
<1>2. CASE Refuse(r)
    BY <1>1, <1>2, RefuseKeeps
<1>3. CASE /\ View(r, i) # None /\ ~Blocked(r) /\ tx' = [tx EXCEPT ![r] = x]
           /\ UNCHANGED <<row, doc, born, stale, failures>>
    <2>1. /\ Fits(tx[r]) /\ TxKept(row, doc, tx[r]) /\ tx[r] \in TxRec /\ i \in Items
          /\ tx[r].kind \in Kind /\ tx[r].own = Untouched
        BY <1>1, Running DEF Fits
    <2>2. \A y \in Items : tx[r].own[y] = Unwritten
        BY <2>1, NoTxTyped
    <2>3. tx[r].snap[i] # None
        BY <1>3, <2>1, <2>2 DEF View
    <2>4. ~Locked(r, i)
        BY <1>1, <1>3 DEF Blocked
    <2>5. /\ own \in [Items -> Row \cup {None, Unwritten}]
          /\ row[i] # None => own[i] = new
          /\ row[i] = None => own[i] = Unwritten
          /\ \A y \in Items \ {i} : own[y] = Unwritten
        BY <2>1, <2>2 DEF TxRec
    <2> HIDE DEF own
    <2>6. /\ x \in TxRec /\ x.pc = pc /\ x.kind = tx[r].kind /\ x.snap = tx[r].snap
          /\ x.item = i /\ x.content = tx[r].content /\ x.wrote = tx[r].wrote /\ x.own = own
        BY <2>1, <2>5 DEF TxRec, Pc
    <2> HIDE DEF x
    <2>7. x.kind = tx[r].kind /\ x.item = tx[r].item /\ x.wrote = tx[r].wrote
        BY <2>6
    <2> HIDE DEF i
    <2>8. i = tx[r].item
        BY DEF i
    <2>9. tx[r].kind \in Editors \cup {"upgrade"} /\ pc \in {"index", "commit"}
        OBVIOUS
    <2>10. Fits(x)
        BY <2>1, <2>6, <2>8, <2>9, Kinds DEF Fits
    <2>11. ASSUME NEW y \in Items, x.own[y] # Unwritten
           PROVE  y = i /\ row[y] # None /\ x.own[y] = new /\ new \in Row
        BY <2>5, <2>6, <2>8, <2>11
    <2>12. OwnKept(row, x)
        <3> SUFFICES ASSUME NEW y \in Items, x.own[y] # Unwritten PROVE Wrote(row, x, y)
            BY DEF OwnKept
        <3>1. y = i /\ row[i] # None /\ x.own[y] = new /\ new # None
            BY <2>11, Distinct
        <3>2. /\ x.kind \in Editors => new.premium = row[i].premium
              /\ x.kind = "upgrade" => new.premium = TRUE /\ new.content = row[i].content
            BY <2>6, <2>8, <3>1, Kinds
        <3> QED
            BY <2>1, <2>6, <2>9, <3>1, <3>2, Kinds DEF Wrote
    <2>13. GoneKept(row, x)
        <3>1. x.kind \notin Removers
            BY <2>6, <2>9, Kinds
        <3>2. x.own[x.item] # Unwritten \/ (row[x.item] = None /\ x.snap[x.item] # None)
            <4>1. row[i] # None => own[i] # Unwritten
                BY <2>5, <2>8, Distinct
            <4> QED
                BY <2>3, <2>6, <4>1
        <3> QED
            BY <3>1, <3>2 DEF GoneKept
    <2>14. IndexKept(doc, x)
        BY <2>6, Kinds DEF IndexKept, Editors
    <2>15. TxKept(row, doc, x)
        BY <2>10, <2>12, <2>13, <2>14 DEF TxKept
    <2>16. \A s \in Requests \ {r} : ~(tx[s].kind \in Creators /\ tx[s].item = x.item)
        BY <2>3, <2>6, <2>8 DEF SearchInv, Creation, Created, Apart
    <2>17. \A y \in Items : tx[r].own[y] # Unwritten => x.own[y] = tx[r].own[y]
        BY <2>2
    <2>18. \A y \in Items : x.own[y] # Unwritten =>
              \/ tx[r].own[y] # Unwritten
              \/ row[y] # None /\ ~Locked(r, y)
              \/ tx[r].kind \in Creators /\ tx[r].item = y
        BY <2>4, <2>11
    <2>19. \A y \in Items : x.snap[y] \in {None, tx[r].snap[y], row[y]}
        BY <2>6
    <2>20. x.pc \notin {"begin", "insert"}
        BY <2>6
    <2>21. /\ tx' = [tx EXCEPT ![r] = x] /\ x \in TxRec
           /\ UNCHANGED <<row, doc, born, stale, failures>>
        BY <1>3, <2>6
    <2> QED
        BY <2>7, <2>15, <2>16, <2>17, <2>18, <2>19, <2>20, <2>21, OneStep
<1> QED
    BY <1>2, <1>3 DEF Update

LEMMA LookKeeps ==
    ASSUME SearchInv, NEW r \in Requests, Look(r)
    PROVE  SearchInv'
<1> DEFINE x == [tx[r] EXCEPT !.pc = "erase"]
<1>1. tx[r].pc = "look"
    BY DEF Look
<1>2. CASE Refuse(r)
    BY <1>1, <1>2, RefuseKeeps
<1>3. CASE /\ doc[tx[r].item] # None /\ tx' = [tx EXCEPT ![r].pc = "erase"]
           /\ UNCHANGED <<row, doc, born, stale, failures>>
    <2>1. /\ Fits(tx[r]) /\ TxKept(row, doc, tx[r]) /\ tx[r] \in TxRec /\ tx[r].kind \in Kind
          /\ tx[r].kind = "remove" /\ Shape
        BY <1>1, Running DEF Fits
    <2>2. tx' = [tx EXCEPT ![r] = x]
        BY <1>3, <2>1 DEF Shape
    <2>3. /\ x \in TxRec /\ x.pc = "erase" /\ x.kind = tx[r].kind /\ x.snap = tx[r].snap
          /\ x.item = tx[r].item /\ x.content = tx[r].content /\ x.wrote = tx[r].wrote
          /\ x.own = tx[r].own
        BY <2>1 DEF TxRec, Pc
    <2> HIDE DEF x
    <2>4. TxKept(row, doc, x)
        <3>1. Fits(x)
            BY <1>1, <2>1, <2>3, Kinds DEF Fits, Removers
        <3>2. OwnKept(row, x)
            BY <2>1, <2>3 DEF TxKept, OwnKept, Wrote
        <3> QED
            BY <2>3, <3>1, <3>2 DEF TxKept, GoneKept, IndexKept
    <2>5. \A s \in Requests \ {r} : tx[s].kind \in Creators /\ tx[s].item = x.item =>
             tx[s].pc \notin {"begin", "insert"}
        BY <1>3, <2>3 DEF SearchInv, Creation, Created
    <2>6. x.pc \notin {"begin", "insert", "index", "unindex", "commit"}
        BY <2>3
    <2>7. x.kind = tx[r].kind /\ x.item = tx[r].item /\ x.wrote = tx[r].wrote
        BY <2>3
    <2>8. \A y \in Items : x.own[y] = tx[r].own[y] /\ x.snap[y] = tx[r].snap[y]
        BY <2>3
    <2>9. x \in TxRec /\ UNCHANGED <<row, doc, born, stale, failures>>
        BY <1>3, <2>3
    <2> QED
        BY <2>2, <2>4, <2>5, <2>6, <2>7, <2>8, <2>9, OneStep
<1> QED
    BY <1>2, <1>3 DEF Look

\* A handler of a deletion takes the document of its item.
LEMMA DropKeeps ==
    ASSUME SearchInv, NEW r \in Requests, tx[r].pc \in {"take", "unindex"}, NEW pc,
           tx[r].pc = "take" => pc = "erase" /\ View(r, tx[r].item) # None,
           tx[r].pc = "unindex" => pc = "commit",
           doc' = [doc EXCEPT ![tx[r].item] = None],
           tx' = [tx EXCEPT ![r] = [tx[r] EXCEPT !.wrote = TRUE, !.pc = pc]],
           UNCHANGED <<row, born, stale, failures>>
    PROVE  SearchInv'
<1> DEFINE i == tx[r].item
           x == [tx[r] EXCEPT !.wrote = TRUE, !.pc = pc]
<1>1. /\ Fits(tx[r]) /\ TxKept(row, doc, tx[r]) /\ tx[r] \in TxRec /\ i \in Items /\ Shape
      /\ tx[r].kind \in Kind
    BY Running
<1>2. pc \in {"erase", "commit"}
    OBVIOUS
<1>3. /\ x \in TxRec /\ x.pc = pc /\ x.kind = tx[r].kind /\ x.snap = tx[r].snap
      /\ x.item = i /\ x.content = tx[r].content /\ x.wrote = TRUE /\ x.own = tx[r].own
    BY <1>1, <1>2 DEF TxRec, Pc
<1>4. tx' = [tx EXCEPT ![r] = x] /\ doc' = [doc EXCEPT ![i] = None]
    OBVIOUS
<1> HIDE DEF x
<1>5. doc'[i] = None
    BY <1>1 DEF Shape
<1>6. /\ tx[r].pc = "take" => tx[r].kind = "retract" /\ i \in Reviews /\ tx[r].own = Untouched
      /\ tx[r].pc = "unindex" => tx[r].kind = "remove"
    BY <1>1 DEF Fits, ItemFits
<1>7. Fits(x)
    BY <1>1, <1>3, <1>6, Kinds DEF Fits, Removers
<1>8. OwnKept(row, x)
    BY <1>1, <1>3 DEF TxKept, OwnKept, Wrote
<1>9. GoneKept(row, x)
    BY <1>1, <1>3, <1>6, Kinds DEF TxKept, GoneKept, Removers, Editors
<1>10. IndexKept(doc', x)
    BY <1>3, <1>5, <1>6 DEF IndexKept
<1>11. TxKept(row, doc', x)
    BY <1>7, <1>8, <1>9, <1>10 DEF TxKept
<1>12. ASSUME NEW s \in Requests \ {r}
       PROVE  /\ tx[s].own[i] = Unwritten \/ i \in Reviews
              /\ tx[s].kind \in Creators => tx[s].item # i
    <2>1. CASE tx[r].pc = "unindex"
        BY <2>1, Alone
    <2>2. CASE tx[r].pc = "take"
        <3>1. tx[r].snap[i] # None
            BY <1>1, <1>6, <2>2, NoTxTyped DEF View
        <3> QED
            BY <1>6, <2>2, <3>1 DEF SearchInv, Creation, Created, Apart
    <2> QED
        BY <2>1, <2>2
<1>13. row[i] = None \/ i \in Reviews \/ x.own[i] = None
    <2>1. CASE tx[r].pc = "unindex"
        <3>1. tx[r].own[i] = Unwritten => row[i] = None
            BY <2>1, Alone
        <3>2. tx[r].own[i] # Unwritten => tx[r].own[i] = None
            BY <1>1, <1>6, <2>1 DEF TxKept, OwnKept, Wrote, Removers
        <3> QED
            BY <1>3, <3>1, <3>2
    <2> QED
        BY <1>6, <2>1
<1>14. MayShow(r, x, i, None)
    BY <1>2, <1>3, <1>6, <1>12, <1>13 DEF MayShow
<1>15. x \in TxRec /\ None \in Row \cup {None}
    BY <1>3
<1> QED
    BY <1>1, <1>4, <1>11, <1>14, <1>15, DocStep

LEMMA TakeKeeps ==
    ASSUME SearchInv, NEW r \in Requests, Take(r)
    PROVE  SearchInv'
<1>1. tx[r].pc = "take"
    BY DEF Take
<1>2. CASE Refuse(r)
    BY <1>1, <1>2, RefuseKeeps
<1>3. CASE ~Refuse(r)
    BY <1>1, <1>3, DropKeeps DEF Take
<1> QED
    BY <1>2, <1>3

LEMMA UnindexKeeps ==
    ASSUME SearchInv, NEW r \in Requests, Unindex(r)
    PROVE  SearchInv'
<1>1. tx[r].pc = "unindex"
    BY DEF Unindex
<1>2. CASE Refuse(r)
    BY <1>1, <1>2, RefuseKeeps
<1>3. CASE ~Refuse(r)
    BY <1>1, <1>3, DropKeeps DEF Unindex
<1> QED
    BY <1>2, <1>3

LEMMA EraseKeeps ==
    ASSUME SearchInv, NEW r \in Requests, NEW pc, Erase(r, pc),
           \/ tx[r].kind = "remove" /\ pc = "unindex"
           \/ tx[r].kind = "retract" /\ pc = "commit"
    PROVE  SearchInv'
<1> DEFINE i == tx[r].item
           own == [y \in Items |-> IF y \in Cascade(tx[r].item) /\ row[y] # None
                                   THEN None ELSE tx[r].own[y]]
           x == [tx[r] EXCEPT !.own = own, !.pc = pc]
<1>1. /\ tx[r].pc = "erase" /\ ~Blocked(r) /\ tx' = [tx EXCEPT ![r] = x]
      /\ UNCHANGED <<row, doc, born, stale, failures>>
    BY DEF Erase
<1>2. /\ Fits(tx[r]) /\ TxKept(row, doc, tx[r]) /\ tx[r] \in TxRec /\ i \in Items
      /\ tx[r].kind \in Kind /\ tx[r].own = Untouched
    BY <1>1, Running DEF Fits
<1>3. \A y \in Items : tx[r].own[y] = Unwritten
    BY <1>2, NoTxTyped
<1>4. \A y \in Cascade(i) : ~Locked(r, y)
    BY <1>1 DEF Blocked
<1>5. own \in [Items -> Row \cup {None, Unwritten}]
    BY <1>3
<1>6. \A y \in Items : own[y] = IF y \in Cascade(i) /\ row[y] # None THEN None ELSE Unwritten
    BY <1>3
<1>7. /\ i \in Cascade(i) /\ \A y \in Cascade(i) : y = i \/ y \in Reviews
      /\ i \in Reviews => Cascade(i) = {i}
    BY SearchAssumption DEF Cascade, SearchAssumption
<1> HIDE DEF own
<1>8. /\ x \in TxRec /\ x.pc = pc /\ x.kind = tx[r].kind /\ x.snap = tx[r].snap
      /\ x.item = i /\ x.content = tx[r].content /\ x.wrote = tx[r].wrote /\ x.own = own
    BY <1>2, <1>5 DEF TxRec, Pc
<1> HIDE DEF x
<1>9. tx[r].kind = "retract" => i \in Reviews
    BY <1>2 DEF Fits, ItemFits
<1>10. Fits(x)
    BY <1>2, <1>8, Kinds DEF Fits, Removers
<1>11. OwnKept(row, x)
    <2> SUFFICES ASSUME NEW y \in Items, x.own[y] # Unwritten PROVE Wrote(row, x, y)
        BY DEF OwnKept
    <2>1. x.own[y] = None /\ row[y] # None /\ y \in Cascade(i)
        BY <1>6, <1>8
    <2>2. y = i \/ (x.kind = "remove" /\ y \in Reviews)
        BY <1>7, <1>8, <1>9, <2>1
    <2> QED
        BY <1>2, <1>8, <2>1, <2>2, Kinds DEF Wrote, Removers
<1>12. GoneKept(row, x)
    BY <1>6, <1>7, <1>2, <1>8, Kinds, Distinct DEF GoneKept, Removers
<1>13. IndexKept(doc, x)
    BY <1>8 DEF IndexKept
<1>14. TxKept(row, doc, x)
    BY <1>10, <1>11, <1>12, <1>13 DEF TxKept
<1>15. ASSUME NEW s \in Requests \ {r}, tx[s].kind \in Creators, tx[s].item = i
       PROVE  FALSE
    <2>1. tx[s].own[i] = Unwritten
        BY <1>4, <1>7 DEF Locked
    <2>2. Fits(tx[s]) /\ Created(s) /\ tx[s] \in TxRec
        BY DEF SearchInv, TxsKept, TxKept, Creation, Shape
    <2>3. tx[s].pc \in {"begin", "insert"}
        <3>1. tx[s].pc \notin {"index", "notify", "commit"}
            BY <1>15, <2>1, <2>2 DEF Fits
        <3>2. tx[s].pc \notin {"idle", "change", "take", "erase", "look", "unindex"}
            BY <1>15, <2>2, Kinds, Distinct DEF Fits, Removers
        <3> QED
            BY <2>2, <3>1, <3>2 DEF TxRec, Pc
    <2> QED
        BY <1>1, <1>15, <2>2, <2>3 DEF Created, Apart
<1>16. \A s \in Requests \ {r} : ~(tx[s].kind \in Creators /\ tx[s].item = x.item)
    BY <1>8, <1>15
<1>17. \A y \in Items : /\ tx[r].own[y] # Unwritten => x.own[y] = tx[r].own[y]
                        /\ x.snap[y] \in {None, tx[r].snap[y], row[y]}
    BY <1>3, <1>8
<1>18. \A y \in Items : x.own[y] # Unwritten =>
           \/ tx[r].own[y] # Unwritten
           \/ row[y] # None /\ ~Locked(r, y)
           \/ tx[r].kind \in Creators /\ tx[r].item = y
    BY <1>4, <1>6, <1>8
<1>19. x.kind = tx[r].kind /\ x.item = tx[r].item /\ x.wrote = tx[r].wrote /\ x \in TxRec
    BY <1>8
<1>20. x.pc \notin {"begin", "insert"}
    BY <1>8
<1> QED
    BY <1>1, <1>14, <1>16, <1>17, <1>18, <1>19, <1>20, OneStep

LEMMA InitKeeps == Init => SearchInv
<1> SUFFICES ASSUME Init PROVE SearchInv
    OBVIOUS
<1>1. \A r \in Requests : tx[r] = NoTx
    BY DEF Init
<1>2. \A y \in Items : row[y] = None /\ doc[y] = None
    BY NoTxTyped DEF Init
<1>3. Shape
    BY NoTxTyped, SearchAssumption DEF Init, Shape, Nothing, SearchAssumption
<1>4. TxsKept
    BY <1>1, NoTxTyped, FreshKept DEF TxsKept
<1>5. Exclusive
    BY <1>1, NoTxTyped DEF Exclusive
<1>6. Creation
    BY <1>1, NoTxTyped, Distinct, Kinds DEF Creation, Created
<1>7. Unborn
    BY <1>1, <1>2, NoTxTyped, Distinct DEF Unborn
<1>8. Match /\ Found /\ Upheld
    BY <1>2 DEF Match, Found, Upheld, Items
<1> QED
    BY <1>3, <1>4, <1>5, <1>6, <1>7, <1>8 DEF SearchInv

\* The requests.
LEMMA AskedKeeps ==
    ASSUME SearchInv, NEW r \in Requests,
           \/ AskSignUp(r) \/ AskEnlist(r) \/ AskSocial(r) \/ AskReview(r)
           \/ AskProfile(r) \/ AskUpgrade(r) \/ AskEdit(r) \/ AskRemove(r) \/ AskRetract(r)
    PROVE  SearchInv'
<1>0. Users \subseteq Items /\ Reviews \subseteq Items /\ Socials \subseteq Items
      /\ Contents \subseteq Contents \cup {None} /\ {None} \subseteq Contents \cup {None}
    BY SearchAssumption DEF Items, SearchAssumption
<1>1. \A k \in {"register", "enlist", "social", "review"} : k \in Creators
    BY DEF Creators
<1>2. \A k \in {"profile", "upgrade", "edit", "remove", "retract"} : k \in Kind \ Creators
    BY DEF Creators, Kind
<1>3. /\ \A i \in Users \ Socials, c \in Contents :
             ItemFits("register", i, c) /\ ItemFits("enlist", i, c)
      /\ \A i \in Socials, c \in Contents : ItemFits("social", i, c)
      /\ \A i \in Reviews, c \in Contents : ItemFits("review", i, c) /\ ItemFits("edit", i, c)
      /\ \A i \in Users, c \in Contents : ItemFits("profile", i, c)
    BY <1>0 DEF ItemFits
<1>4. /\ \A i \in Users, c \in {None} : ItemFits("upgrade", i, c) /\ ItemFits("remove", i, c)
      /\ \A i \in Reviews, c \in {None} : ItemFits("retract", i, c)
    BY <1>0, Kinds DEF ItemFits, Creators, Editors
<1>5. CASE AskSignUp(r)
    BY <1>0, <1>1, <1>3, <1>5, EnterKeeps DEF AskSignUp
<1>6. CASE AskEnlist(r)
    BY <1>0, <1>1, <1>3, <1>6, EnterKeeps DEF AskEnlist
<1>7. CASE AskSocial(r)
    BY <1>0, <1>1, <1>3, <1>7, EnterKeeps DEF AskSocial
<1>8. CASE AskReview(r)
    BY <1>0, <1>1, <1>3, <1>8, EnterKeeps DEF AskReview
<1>9. CASE AskProfile(r)
    BY <1>0, <1>2, <1>3, <1>9, AskKeeps DEF AskProfile
<1>10. CASE AskUpgrade(r)
    BY <1>0, <1>2, <1>4, <1>10, AskKeeps DEF AskUpgrade
<1>11. CASE AskEdit(r)
    BY <1>0, <1>2, <1>3, <1>11, AskKeeps DEF AskEdit
<1>12. CASE AskRemove(r)
    BY <1>0, <1>2, <1>4, <1>12, AskKeeps DEF AskRemove
<1>13. CASE AskRetract(r)
    BY <1>0, <1>2, <1>4, <1>13, AskKeeps DEF AskRetract
<1> QED
    BY <1>5, <1>6, <1>7, <1>8, <1>9, <1>10, <1>11, <1>12, <1>13

\* The statements of the handlers.
LEMMA EditedKeeps ==
    ASSUME SearchInv, NEW r \in Requests, tx[r].kind \in Editors, Edited(r)
    PROVE  SearchInv'
<1> DEFINE new == [row[tx[r].item] EXCEPT !.content = tx[r].content]
<1>1. tx[r].pc = "change" /\ Update(r, new, "index")
    BY DEF Edited, Update
<1>2. /\ tx[r].content \in Contents /\ tx[r].item \in Items
      /\ row \in [Items -> Row \cup {None}]
    BY <1>1, Running DEF Fits, ItemFits
<1>3. row[tx[r].item] # None => new \in Row /\ new.premium = row[tx[r].item].premium
    BY <1>2 DEF Row
<1> HIDE DEF new
<1> QED
    BY <1>1, <1>3, UpdateKeeps

LEMMA UpgradeKeeps ==
    ASSUME SearchInv, NEW r \in Requests, Upgrade(r)
    PROVE  SearchInv'
<1>1. tx[r].pc = "change" /\ tx[r].kind = "upgrade" /\ Update(r, Premium(r), "commit")
    BY DEF Upgrade, Update
<1>2. tx[r].item \in Items /\ row \in [Items -> Row \cup {None}]
    BY <1>1, Running
<1>3. row[tx[r].item] # None =>
         /\ Premium(r) \in Row /\ Premium(r).premium = TRUE
         /\ Premium(r).content = row[tx[r].item].content
    BY <1>2 DEF Row, Premium
<1> QED
    BY <1>1, <1>3, UpdateKeeps

LEMMA UserStepKeeps ==
    ASSUME SearchInv, NEW r \in Requests, UserStep(r)
    PROVE  SearchInv'
<1>1. CASE Register(r)
    BY <1>1, InsertKeeps DEF Register
<1>2. CASE RegisterSocial(r)
    BY <1>2, InsertKeeps DEF RegisterSocial
<1>3. CASE IndexUser(r)
    BY <1>3, IndexKeeps DEF IndexUser
<1>4. CASE Notify(r)
    BY <1>4, RefuseKeeps DEF Notify
<1>5. CASE UpdateProfile(r)
    BY <1>5, EditedKeeps DEF UpdateProfile, Editors
<1>6. CASE IndexProfile(r)
    BY <1>6, IndexKeeps DEF IndexProfile, Editors
<1>7. CASE Upgrade(r)
    BY <1>7, UpgradeKeeps
<1>8. CASE Look(r)
    BY <1>8, LookKeeps
<1>9. CASE EraseUser(r)
    BY <1>9, EraseKeeps DEF EraseUser
<1>10. CASE Unindex(r)
    BY <1>10, UnindexKeeps
<1> QED
    BY <1>1, <1>2, <1>3, <1>4, <1>5, <1>6, <1>7, <1>8, <1>9, <1>10 DEF UserStep

LEMMA ReviewStepKeeps ==
    ASSUME SearchInv, NEW r \in Requests, ReviewStep(r)
    PROVE  SearchInv'
<1>1. CASE WriteReview(r)
    BY <1>1, InsertKeeps DEF WriteReview
<1>2. CASE EditReview(r)
    BY <1>2, EditedKeeps DEF EditReview, Editors
<1>3. CASE IndexReview(r)
    BY <1>3, IndexKeeps DEF IndexReview, Editors
<1>4. CASE Take(r)
    BY <1>4, TakeKeeps
<1>5. CASE EraseReview(r)
    BY <1>5, EraseKeeps DEF EraseReview
<1> QED
    BY <1>1, <1>2, <1>3, <1>4, <1>5 DEF ReviewStep

LEMMA NextKeeps == SearchInv /\ [Next]_vars => SearchInv'
<1> SUFFICES ASSUME SearchInv, [Next]_vars PROVE SearchInv'
    OBVIOUS
<1>1. CASE UNCHANGED vars
    <2>1. /\ row' = row /\ doc' = doc /\ born' = born /\ tx' = tx /\ stale' = stale
          /\ failures' = failures
        BY <1>1 DEF vars
    <2>2. Shape' /\ TxsKept' /\ Exclusive'
        BY <2>1 DEF SearchInv, Shape, TxsKept, Exclusive
    <2>3. Creation' /\ Unborn'
        BY <2>1 DEF SearchInv, Creation, Created, Unborn
    <2>4. Match' /\ Found' /\ Upheld'
        BY <2>1 DEF SearchInv, Match, Found, Upheld
    <2> QED
        BY <2>2, <2>3, <2>4 DEF SearchInv
<1>2. ASSUME NEW r \in Requests, Step(r) PROVE SearchInv'
    BY <1>2, ReadKeeps, UserStepKeeps, ReviewStepKeeps, ConflictKeeps, CommitKeeps DEF Step
<1>3. ASSUME NEW r \in Requests, Fail(r) PROVE SearchInv'
    BY <1>3, FailKeeps
<1>4. ASSUME NEW r \in Requests,
             \/ AskSignUp(r) \/ AskEnlist(r) \/ AskSocial(r) \/ AskReview(r)
             \/ AskProfile(r) \/ AskUpgrade(r) \/ AskEdit(r) \/ AskRemove(r) \/ AskRetract(r)
      PROVE  SearchInv'
    BY <1>4, AskedKeeps
<1>5. CASE RestartUsers
    BY <1>5, RestartKeeps DEF RestartUsers
<1>6. CASE RestartReviews
    BY <1>6, RestartKeeps DEF RestartReviews
<1> QED
    BY <1>1, <1>2, <1>3, <1>4, <1>5, <1>6 DEF Next

LEMMA Invariant == Spec => []SearchInv
BY InitKeeps, NextKeeps, PTL DEF Spec

-----------------------------------------------------------------------------
(* The theorems.                                                           *)

\* Rows, documents, ids and transactions keep their shape through every statement of
\* the users and reviews services, conflicts, failures and restarts included.
THEOREM TypeCorrect == Spec => []TypeOK
<1>1. SearchInv => TypeOK
    BY DEF SearchInv, Shape, TxRec, TypeOK
<1> QED
    BY <1>1, Invariant, PTL

\* The content search shows of a profile or review is the row's, whenever no transaction
\* on it is open and none was rolled back after it had indexed it: updates, deletions and
\* restarts that overlap never leave the older content in the index.
THEOREM ShownContentIsStored == Spec => []SearchShowsRow
<1>1. SearchInv => SearchShowsRow
    <2> SUFFICES ASSUME SearchInv, NEW x \in Items,
                        row[x] # None, doc[x] # None, x \notin stale, Quiet(x)
                 PROVE  doc[x].content = row[x].content
        BY DEF SearchShowsRow
    <2> QED
        BY DEF SearchInv, Match, Quiet
<1> QED
    BY <1>1, Invariant, PTL

\* Who has signed up by email has a document, as long as the account is there: an update
\* that indexes late, a deletion that is refused and a restart never lose it.
THEOREM EmailAccountsAreFound == Spec => []SignedUpIsFound
<1>1. SearchInv => SignedUpIsFound
    <2> SUFFICES ASSUME SearchInv, NEW u \in Users \ Socials,
                        row[u] # None, u \notin stale, Quiet(u), doc[u] = None
                 PROVE  FALSE
        BY DEF SignedUpIsFound
    <2>1. PICK r \in Requests : tx[r].own[u] = None
        BY DEF SearchInv, Found
    <2> QED
        BY <2>1, Distinct DEF Quiet
<1> QED
    BY <1>1, Invariant, PTL

\* Search shows nobody as premium whose row is not, although the upgrade commits without
\* the index and updates index what they read before it.
THEOREM PremiumIsNeverMadeUp == Spec => []ShownPremiumIsStored
<1>1. SearchInv => ShownPremiumIsStored
    <2> SUFFICES ASSUME SearchInv, NEW u \in Users,
                        row[u] # None, doc[u] # None, doc[u].premium
                 PROVE  row[u].premium
        BY DEF ShownPremiumIsStored
    <2>1. u \in Items
        BY DEF Items
    <2>2. row[u] \in Row /\ doc[u] \in Row
        BY <2>1 DEF SearchInv, Shape
    <2>3. doc[u].premium = TRUE
        BY <2>2 DEF Row
    <2>4. row[u].premium = TRUE
        BY <2>1, <2>3 DEF SearchInv, Upheld
    <2> QED
        BY <2>4
<1> QED
    BY <1>1, Invariant, PTL

\* Rows change when a transaction commits, and then only.
LEMMA OnlyCommits ==
    ASSUME [Next]_vars, row' # row
    PROVE  \E r \in Requests : Commit(r)
<1>1. ASSUME NEW r \in Requests, Step(r), ~Commit(r) PROVE row' = row
    <2>1. CASE UserStep(r)
        BY <2>1 DEF UserStep, Register, IndexUser, Notify, RegisterSocial, UpdateProfile,
                    IndexProfile, Upgrade, Look, EraseUser, Unindex, Insert, Index, Edited,
                    Update, Erase, Refuse
    <2>2. CASE ReviewStep(r)
        BY <2>2 DEF ReviewStep, WriteReview, EditReview, IndexReview, Take, EraseReview,
                    Insert, Index, Edited, Update, Erase, Refuse
    <2> QED
        BY <1>1, <2>1, <2>2 DEF Step, Read, Conflict
<1>2. ASSUME NEW r \in Requests,
             \/ AskSignUp(r) \/ AskEnlist(r) \/ AskSocial(r) \/ AskReview(r)
             \/ AskProfile(r) \/ AskUpgrade(r) \/ AskEdit(r) \/ AskRemove(r) \/ AskRetract(r)
             \/ Fail(r)
      PROVE  row' = row
    BY <1>2 DEF AskSignUp, AskEnlist, AskSocial, AskReview, AskProfile, AskUpgrade, AskEdit,
                AskRemove, AskRetract, Enter, Ask, Fail
<1>3. RestartUsers \/ RestartReviews => row' = row
    BY DEF RestartUsers, RestartReviews, Restart
<1> QED
    BY <1>1, <1>2, <1>3 DEF Next, vars

\* The deletion of a user is committed with the document gone, and an update of the
\* profile that has read the user before does not bring it back before that.
THEOREM RemovedUsersAreHidden == Spec => RemovalIsShown
<1> DEFINE Hidden == \A u \in Users : row[u] # None /\ row'[u] = None => doc'[u] = None
<1>1. SearchInv /\ [Next]_vars => Hidden
    <2> SUFFICES ASSUME SearchInv, [Next]_vars, NEW u \in Users,
                        row[u] # None, row'[u] = None
                 PROVE  doc'[u] = None
        OBVIOUS
    <2>1. PICK r \in Requests : Commit(r)
        BY OnlyCommits
    <2>2. u \in Items /\ u \notin Reviews
        BY SearchAssumption DEF SearchAssumption, Items
    <2>3. /\ tx[r].pc = "commit" /\ row'[u] = Current(r, u) /\ doc' = doc
          /\ TxKept(row, doc, tx[r])
        BY <2>1, <2>2 DEF Commit, SearchInv, TxsKept
    <2>4. tx[r].own[u] = None
        BY <2>3 DEF Current
    <2>5. tx[r].own[u] # Unwritten
        BY <2>4, Distinct
    <2>6. Wrote(row, tx[r], u)
        BY <2>2, <2>3, <2>5 DEF TxKept, OwnKept
    <2>7. tx[r].kind \in Removers
        BY <2>4, <2>6, Kinds DEF Wrote
    <2>8. tx[r].kind = "remove" /\ tx[r].item = u
        <3>1. tx[r].kind # "retract"
            BY <2>2, <2>3, <2>6 DEF Wrote, TxKept, Fits, ItemFits
        <3> QED
            BY <2>2, <2>6, <2>7, <3>1 DEF Wrote, Removers
    <2> QED
        BY <2>2, <2>3, <2>5, <2>8 DEF TxKept, IndexKept
<1>2. SearchInv /\ [Next]_vars => [Hidden]_vars
    BY <1>1
<1>3. Spec => [][Hidden]_vars
    BY <1>2, Invariant, PTL DEF Spec
<1> QED
    BY <1>3 DEF RemovalIsShown
=============================================================================
