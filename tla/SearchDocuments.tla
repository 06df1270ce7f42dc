-------------------------- MODULE SearchDocuments --------------------------
(***************************************************************************)
(* The users and reviews services: the rows of users and reviews, and the  *)
(* documents that show them in the search indexes.  Every handler is one   *)
(* transaction on MySQL (see JobLifecycle); the index is written inside it *)
(* and stays as written when it is rolled back.  At startup each service   *)
(* indexes all its rows again, and removes no document.                    *)
(*                                                                         *)
(* A content stands for what the user typed; premium for the columns that  *)
(* are in the document and change without it being written again.          *)
(***************************************************************************)
EXTENDS Integers, FiniteSets

CONSTANTS
    Users,         \* user ids
    Socials,       \* the users who register by a social login
    Reviews,       \* review ids
    Author,        \* Author[v]: the candidate who writes review v
    Email,         \* Email[u]: the email u registers with
    Requests,      \* bound: the handlers that run at the same time
    Contents,      \* contents of a profile or a review
    MaxFailures,   \* bound: outside failures and restarts of a service
    MaxRetries,    \* maxRetries of executeTransaction
    Unwritten,     \* a transaction has not written a row
    None           \* a row or document that is not there

Items == Users \cup Reviews

ASSUME SearchAssumption ==
    /\ Users \cap Reviews = {} /\ None \notin Items \cup Contents
    /\ Socials \subseteq Users
    /\ Author \in [Reviews -> Users] /\ DOMAIN Email = Users
    /\ MaxFailures \in Nat /\ MaxRetries \in Nat \ {0}

VARIABLES
    row,        \* row[x]: the committed row of x, or None
    doc,        \* doc[x]: the document of x, or None
    born,       \* the ids that were given
    tx,         \* tx[r]: the transaction of handler r
    stale,      \* the items whose document a transaction wrote that was rolled back
    failures

vars == <<row, doc, born, tx, stale, failures>>

Row   == [content : Contents, premium : BOOLEAN]
Kind  == {"register", "enlist", "social", "profile", "upgrade", "remove",
          "review", "edit", "retract"}
Pc    == {"idle", "begin", "insert", "change", "index", "notify", "look", "take", "erase",
          "unindex", "commit"}

ASSUME ValuesDiffer ==
    /\ None \notin Row /\ Unwritten \notin Row \cup {None}
    /\ None \notin Kind

Untouched == [x \in Items |-> Unwritten]
Nothing   == [x \in Items |-> None]
NoTx      == [pc |-> "idle", kind |-> None, item |-> None, content |-> None,
              attempt |-> 0, wrote |-> FALSE, snap |-> Nothing, own |-> Untouched]

Init ==
    /\ row = Nothing
    /\ doc = Nothing
    /\ born = {}
    /\ tx = [r \in Requests |-> NoTx]
    /\ stale = {}
    /\ failures = 0

-----------------------------------------------------------------------------
(* Transactions.                                                           *)

\* Row x as a SELECT of r shows it, and as an UPDATE of r finds it.
View(r, x)    == IF tx[r].own[x] = Unwritten THEN tx[r].snap[x] ELSE tx[r].own[x]
Current(r, x) == IF tx[r].own[x] = Unwritten THEN row[x] ELSE tx[r].own[x]

\* Another transaction has written x and not ended.
Locked(r, x) == \E s \in Requests \ {r} : tx[s].own[x] # Unwritten

\* Another transaction has inserted or deleted user w: who inserts a user with the
\* same email waits for its end.
Pending(r, w) == \E s \in Requests \ {r} :
                    /\ tx[s].own[w] # Unwritten
                    /\ row[w] = None \/ tx[s].own[w] = None

\* Another transaction has inserted a review of u: the foreign key locks u.
Referenced(r, u) == \E s \in Requests \ {r}, v \in Reviews :
                       /\ Author[v] = u
                       /\ tx[s].kind = "review" /\ tx[s].own[v] # Unwritten

SameEmail(u) == {w \in Users : Email[w] = Email[u]}

\* ON DELETE CASCADE: the reviews of a user go with the user.
Cascade(x) == {x} \cup {v \in Reviews : Author[v] = x /\ row[v] # None}

\* The next statement of r waits for another transaction.
Blocked(r) ==
    LET x == tx[r].item
    IN  CASE tx[r].pc = "insert" /\ x \in Users   -> \E w \in SameEmail(x) : Pending(r, w)
          [] tx[r].pc = "insert" /\ x \in Reviews -> Locked(r, Author[x])
          [] tx[r].pc = "change" -> Locked(r, x) \/ Referenced(r, x)
          [] tx[r].pc = "erase"  -> Referenced(r, x) \/ \E y \in Cascade(x) : Locked(r, y)
          [] OTHER               -> FALSE

\* The documents that a rollback of r leaves behind.
Left(r) == IF tx[r].wrote THEN {tx[r].item} ELSE {}

\* The handler throws: its rows are as before, the document it wrote is not.
Refuse(r) ==
    /\ tx' = [tx EXCEPT ![r] = NoTx]
    /\ stale' = stale \cup Left(r)
    /\ UNCHANGED <<row, doc, born, failures>>

\* The connection, the index or the broker is lost in the middle of r.
Fail(r) ==
    /\ tx[r].pc # "idle"
    /\ failures < MaxFailures
    /\ failures' = failures + 1
    /\ tx' = [tx EXCEPT ![r] = NoTx]
    /\ stale' = stale \cup Left(r)
    /\ UNCHANGED <<row, doc, born>>

FirstPc(kind) == IF kind = "remove" THEN "look" ELSE "begin"

Begun(kind, x, c) == [NoTx EXCEPT !.pc = FirstPc(kind), !.kind = kind, !.item = x,
                                  !.content = c]

\* Mutation: one attempt too many.
ConflictOnceMore(r) ==
    /\ Blocked(r)
    /\ tx' = [tx EXCEPT ![r] =
         IF tx[r].attempt < MaxRetries
         THEN [Begun(tx[r].kind, tx[r].item, tx[r].content)
                  EXCEPT !.attempt = tx[r].attempt + 1]
         ELSE NoTx]
    /\ stale' = stale \cup Left(r)
    /\ UNCHANGED <<row, doc, born, failures>>

\* A lock wait that ends in a deadlock or a timeout: once more, or an error.
Conflict(r) ==
    /\ Blocked(r)
    /\ tx' = [tx EXCEPT ![r] =
         IF tx[r].attempt < MaxRetries - 1
         THEN [Begun(tx[r].kind, tx[r].item, tx[r].content)
                  EXCEPT !.attempt = tx[r].attempt + 1]
         ELSE NoTx]
    /\ stale' = stale \cup Left(r)
    /\ UNCHANGED <<row, doc, born, failures>>

\* The rows the SELECTs of r look for: those with the email, the author's, its own.
Wanted(r) ==
    LET x == tx[r].item
    IN  CASE tx[r].kind \in {"register", "enlist", "social"} -> SameEmail(x)
          [] tx[r].kind = "review" -> {v \in Reviews : Author[v] = Author[x]}
          [] OTHER                 -> {x}

NextPc(kind) == CASE kind \in {"register", "enlist", "social", "review"} -> "insert"
                  [] kind \in {"profile", "upgrade", "edit"}             -> "change"
                  [] kind = "retract"                                    -> "take"

\* The first SELECT takes the snapshot.
Read(r) ==
    /\ tx[r].pc = "begin"
    /\ tx' = [tx EXCEPT ![r] = [tx[r] EXCEPT
         !.snap = [x \in Items |-> IF x \in Wanted(r) THEN row[x] ELSE None],
         !.pc = NextPc(tx[r].kind)]]
    /\ UNCHANGED <<row, doc, born, stale, failures>>

Commit(r) ==
    /\ tx[r].pc = "commit"
    /\ row' = [x \in Items |-> Current(r, x)]
    /\ tx' = [tx EXCEPT ![r] = NoTx]
    /\ stale' = stale \ Left(r)
    /\ UNCHANGED <<doc, born, failures>>

-----------------------------------------------------------------------------
(* Users and reviews come: createUser, with the metadata of the client when *)
(* the sign-up page asks ("register") and without it when an administrator  *)
(* does ("enlist"), handleCreateSocialAccount and handleCreateReview.       *)

\* A request for one of the items that are not there yet.
Enter(r, kind, items) ==
    /\ tx[r].pc = "idle"
    /\ \E x \in items \ born, c \in Contents :
         /\ born' = born \cup {x}
         /\ tx' = [tx EXCEPT ![r] = Begun(kind, x, c)]
    /\ UNCHANGED <<row, doc, stale, failures>>

AskSignUp(r) == Enter(r, "register", Users \ Socials)
AskEnlist(r) == Enter(r, "enlist", Users \ Socials)
AskSocial(r) == Enter(r, "social", Socials)
AskReview(r) == Enter(r, "review", Reviews)

NewRow(c) == [content |-> c, premium |-> FALSE]

\* The INSERT of a handler that has found nothing against it; the database can
\* still reject it.
Insert(r, taken, rejected, pc) ==
    /\ tx[r].pc = "insert"
    /\ IF taken THEN Refuse(r)
       ELSE /\ ~Blocked(r)
            /\ IF rejected THEN Refuse(r)
               ELSE /\ tx' = [tx EXCEPT ![r] = [tx[r] EXCEPT
                         !.own = [tx[r].own EXCEPT ![tx[r].item] = NewRow(tx[r].content)],
                         !.pc = pc]]
                    /\ UNCHANGED <<row, doc, born, stale, failures>>

\* "Email has been existed.", and the unique key of the column.
EmailRead(r)   == \E w \in SameEmail(tx[r].item) : View(r, w) # None
EmailStored(r) == \E w \in SameEmail(tx[r].item) : row[w] # None

Register(r) ==
    /\ tx[r].kind \in {"register", "enlist"}
    /\ Insert(r, EmailRead(r), EmailStored(r), "index")

\* A social account is not indexed.
RegisterSocial(r) ==
    /\ tx[r].kind = "social"
    /\ Insert(r, EmailRead(r), EmailStored(r), "commit")

\* "You have already reviewed ...": the author has a review of this content.
Reviewed(r) == \E v \in Reviews : /\ Author[v] = Author[tx[r].item]
                                  /\ View(r, v) # None
                                  /\ View(r, v).content = tx[r].content

\* Nor is a new review.
WriteReview(r) ==
    /\ tx[r].kind = "review"
    /\ Insert(r, Reviewed(r), row[Author[tx[r].item]] = None, "commit")

\* The document becomes what the transaction sees.
Index(r, pc) ==
    /\ tx[r].pc = "index"
    /\ doc' = [doc EXCEPT ![tx[r].item] = View(r, tx[r].item)]
    /\ tx' = [tx EXCEPT ![r] = [tx[r] EXCEPT !.wrote = TRUE, !.pc = pc]]
    /\ UNCHANGED <<row, born, stale, failures>>

IndexUser(r) ==
    \/ tx[r].kind = "register" /\ Index(r, "commit")
    \/ tx[r].kind = "enlist" /\ Index(r, "notify")

\* const { ip, forwardedFor, userAgent } = requestMetadata: the gateway sends none
\* for an administrator, and the handler throws.
Notify(r) == tx[r].pc = "notify" /\ Refuse(r)

-----------------------------------------------------------------------------
(* They change: handleUpdateUser, handleUpdatePremium, handleUpdateReview. *)

\* A request that is about one of the items that have come.
Ask(r, kind, items, contents) ==
    /\ tx[r].pc = "idle"
    /\ \E x \in items \cap born, c \in contents : tx' = [tx EXCEPT ![r] = Begun(kind, x, c)]
    /\ UNCHANGED <<row, doc, born, stale, failures>>

AskProfile(r) == Ask(r, "profile", Users, Contents)
AskUpgrade(r) == Ask(r, "upgrade", Users, {None})
AskEdit(r)    == Ask(r, "edit", Reviews, Contents)

\* The UPDATE changes the row there is; if it is gone, nothing, and the handler
\* goes on with what its snapshot shows.
Update(r, new, pc) ==
    /\ tx[r].pc = "change"
    /\ LET x == tx[r].item
       IN  IF View(r, x) = None THEN Refuse(r)
           ELSE /\ ~Blocked(r)
                /\ tx' = [tx EXCEPT ![r] = [tx[r] EXCEPT
                     !.own = [tx[r].own EXCEPT ![x] = IF row[x] = None THEN tx[r].own[x]
                                                                       ELSE new],
                     !.pc = pc]]
                /\ UNCHANGED <<row, doc, born, stale, failures>>

\* Mutation: the UPDATE goes through the data source, not through the transaction.
EditedAtOnce(r) ==
    /\ tx[r].pc = "change"
    /\ LET x == tx[r].item
       IN  IF View(r, x) = None THEN Refuse(r)
           ELSE /\ ~Blocked(r)
                /\ row' = [row EXCEPT ![x] = IF @ = None THEN @
                                            ELSE [@ EXCEPT !.content = tx[r].content]]
                /\ tx' = [tx EXCEPT ![r].snap[x] = row'[x], ![r].pc = "index"]
                /\ UNCHANGED <<doc, born, stale, failures>>

Edited(r) ==
    Update(r, [row[tx[r].item] EXCEPT !.content = tx[r].content], "index")

UpdateProfile(r) == tx[r].kind = "profile" /\ Edited(r)
IndexProfile(r)  == tx[r].kind = "profile" /\ Index(r, "commit")
EditReview(r)    == tx[r].kind = "edit" /\ Edited(r)
IndexReview(r)   == tx[r].kind = "edit" /\ Index(r, "commit")

Premium(r) == [row[tx[r].item] EXCEPT !.premium = TRUE]

\* Mutation: the upgrade is shown in search.
UpgradeAndShow(r) ==
    /\ tx[r].kind = "upgrade"
    /\ Update(r, Premium(r), "index") \/ Index(r, "commit")

\* The premium columns, like roles and the second factor, change without the document.
Upgrade(r) ==
    /\ tx[r].kind = "upgrade"
    /\ Update(r, Premium(r), "commit")

-----------------------------------------------------------------------------
(* They go: handleDeleteUser and handleDeleteReview of an administrator.   *)

AskRemove(r)  == Ask(r, "remove", Users, {None})
AskRetract(r) == Ask(r, "retract", Reviews, {None})

\* Mutation: the document goes before the row, as in reviews.
LookAndUnindex(r) ==
    /\ tx[r].pc = "look"
    /\ IF doc[tx[r].item] = None THEN Refuse(r)
       ELSE /\ doc' = [doc EXCEPT ![tx[r].item] = None]
            /\ tx' = [tx EXCEPT ![r] = [tx[r] EXCEPT !.wrote = TRUE, !.pc = "erase"]]
            /\ UNCHANGED <<row, born, stale, failures>>

\* A user is looked for in the index, and is sent the farewell email.
Look(r) ==
    /\ tx[r].pc = "look"
    /\ IF doc[tx[r].item] = None THEN Refuse(r)
       ELSE /\ tx' = [tx EXCEPT ![r].pc = "erase"]
            /\ UNCHANGED <<row, doc, born, stale, failures>>

\* The document of a review goes before its row.
Take(r) ==
    /\ tx[r].pc = "take"
    /\ IF View(r, tx[r].item) = None \/ doc[tx[r].item] = None THEN Refuse(r)
       ELSE /\ doc' = [doc EXCEPT ![tx[r].item] = None]
            /\ tx' = [tx EXCEPT ![r] = [tx[r] EXCEPT !.wrote = TRUE, !.pc = "erase"]]
            /\ UNCHANGED <<row, born, stale, failures>>

\* The DELETE of x and of what goes with it.
Erase(r, pc) ==
    /\ tx[r].pc = "erase"
    /\ ~Blocked(r)
    /\ tx' = [tx EXCEPT ![r] = [tx[r] EXCEPT
         !.own = [x \in Items |-> IF x \in Cascade(tx[r].item) /\ row[x] # None
                                  THEN None ELSE tx[r].own[x]],
         !.pc = pc]]
    /\ UNCHANGED <<row, doc, born, stale, failures>>

EraseUser(r)   == tx[r].kind = "remove" /\ Erase(r, "unindex")
EraseReview(r) == tx[r].kind = "retract" /\ Erase(r, "commit")

\* A document that is not there is an error (404), and undoes the deletion.
Unindex(r) ==
    /\ tx[r].pc = "unindex"
    /\ IF doc[tx[r].item] = None THEN Refuse(r)
       ELSE /\ doc' = [doc EXCEPT ![tx[r].item] = None]
            /\ tx' = [tx EXCEPT ![r] = [tx[r] EXCEPT !.wrote = TRUE, !.pc = "commit"]]
            /\ UNCHANGED <<row, born, stale, failures>>

-----------------------------------------------------------------------------
(* onModuleInit: all rows of the service are indexed before it listens.    *)
(* The handlers that ran are gone.                                         *)

Handlers(items) == {r \in Requests : tx[r].pc # "idle" /\ tx[r].item \in items}

Restart(items) ==
    /\ failures < MaxFailures
    /\ failures' = failures + 1
    /\ tx' = [r \in Requests |-> IF r \in Handlers(items) THEN NoTx ELSE tx[r]]
    /\ doc' = [x \in Items |-> IF x \in items /\ row[x] # None THEN row[x] ELSE doc[x]]
    /\ stale' = stale \ items
    /\ UNCHANGED <<row, born>>

RestartUsers   == Restart(Users)
RestartReviews == Restart(Reviews)

-----------------------------------------------------------------------------
UserStep(r) ==
    \/ Register(r) \/ IndexUser(r) \/ Notify(r) \/ RegisterSocial(r)
    \/ UpdateProfile(r) \/ IndexProfile(r) \/ Upgrade(r)
    \/ Look(r) \/ EraseUser(r) \/ Unindex(r)

ReviewStep(r) ==
    \/ WriteReview(r) \/ EditReview(r) \/ IndexReview(r) \/ Take(r) \/ EraseReview(r)

Step(r) == Read(r) \/ UserStep(r) \/ ReviewStep(r) \/ Conflict(r) \/ Commit(r)

Next ==
    \/ \E r \in Requests : \/ AskSignUp(r) \/ AskEnlist(r) \/ AskSocial(r) \/ AskReview(r)
                           \/ AskProfile(r) \/ AskUpgrade(r) \/ AskEdit(r)
                           \/ AskRemove(r) \/ AskRetract(r)
                           \/ Step(r) \/ Fail(r)
    \/ RestartUsers \/ RestartReviews

Spec == Init /\ [][Next]_vars

-----------------------------------------------------------------------------
(* Properties.                                                             *)

\* Every variable keeps the shape of what the code stores in it.
TypeOK ==
    /\ row \in [Items -> Row \cup {None}]
    /\ doc \in [Items -> Row \cup {None}]
    /\ born \in SUBSET Items
    /\ tx \in [Requests -> [pc : Pc, kind : Kind \cup {None}, item : Items \cup {None},
                            content : Contents \cup {None},
                            attempt : 0 .. MaxRetries - 1, wrote : BOOLEAN,
                            snap : [Items -> Row \cup {None}],
                            own : [Items -> Row \cup {None, Unwritten}]]]
    /\ stale \in SUBSET Items
    /\ failures \in 0 .. MaxFailures

\* No transaction that has not ended has written x.
Quiet(x) == \A r \in Requests : tx[r].own[x] = Unwritten

\* What search shows of a profile or a review is what the row holds: two updates, an
\* update and a deletion, or an update and a restart never leave the older of two
\* contents in the index, unless a transaction was rolled back after it had written
\* the document, and then only until the next update or start.
SearchShowsRow ==
    \A x \in Items :
        (row[x] # None /\ doc[x] # None /\ x \notin stale /\ Quiet(x))
        => doc[x].content = row[x].content

\* Who has signed up by email is found, so that the profile can be opened and the
\* account deleted, whatever updates, deletions and restarts overlap; accounts of
\* social logins are indexed with their first update or at the next start.
SignedUpIsFound ==
    \A u \in Users \ Socials :
        (row[u] # None /\ u \notin stale /\ Quiet(u)) => doc[u] # None

\* Nobody is found as premium who is not, whatever fails between the index and the row.
ShownPremiumIsStored ==
    \A u \in Users : (row[u] # None /\ doc[u] # None /\ doc[u].premium) => row[u].premium

\* When the deletion of a user is committed search no longer shows the user, although
\* an update of the profile may have been under way.
RemovalIsShown ==
    [][\A u \in Users : row[u] # None /\ row'[u] = None => doc'[u] = None]_vars
=============================================================================
