----------------------------- MODULE PremiumPlan -----------------------------
(***************************************************************************)
(* The premium package: the payments service opens a Stripe checkout       *)
(* session and keeps a transaction row for it, Stripe reports the outcome  *)
(* to a webhook of the gateway, which passes it on as an event and answers *)
(* at once; the payments service settles the row and sends an event to the *)
(* users service, which extends the user's premium.  A cron job reminds    *)
(* users of the expiry.                                                    *)
(*                                                                         *)
(* A checkout request, its session and the row it may create share one     *)
(* identity.  What an upgrade does to the user's quotas is modelled in     *)
(* ApplicationQuota.                                                       *)
(***************************************************************************)
EXTENDS Integers, FiniteSets

CONSTANTS
    Users,
    Checkouts,    \* checkout requests
    Term,         \* days of a package: 30
    Window,       \* days before the expiry in which it can be renewed: 3
    Lag,          \* days the cron job looks back: 2
    MaxRetries,   \* maxRetries of executeTransaction
    MaxDay,       \* bound: the days of a run
    MaxDeliveries,\* bound: how often Stripe delivers the event of each session
    MaxFailures,  \* bound: handlers that fail for an outside reason
    MaxLosses,    \* bound: events that are lost with the service that took them
    None

ASSUME PremiumAssumption ==
    /\ IsFiniteSet(Checkouts)
    /\ Term \in Nat \ {0} /\ Window \in Nat /\ Lag \in Nat
    /\ MaxRetries \in Nat \ {0} /\ MaxDay \in Nat /\ MaxFailures \in Nat
    /\ MaxDeliveries \in [Checkouts -> Nat \ {0}] /\ MaxLosses \in Nat
    /\ Window < Term
    /\ None \notin Users \cup Checkouts \cup Int

VARIABLES
    today,
    user,       \* user[u]: is_premium and premium_expiry
    trans,      \* trans[k]: the transaction row created by checkout k, or None
    checkout,   \* checkout[k]: the request, and the session at Stripe
    hook,       \* hook[h]: a delivery of an event on its way through the services
    upgrade,    \* upgrade[e]: the handling of update-premium event e
    reminded,   \* the reminders that were sent: user and day
    failures,
    losses

vars == <<today, user, trans, checkout, hook, upgrade, reminded, failures, losses>>

Hooks == UNION {{k} \X (1 .. MaxDeliveries[k]) : k \in Checkouts}

\* A retried handler sends its event again: one event for each attempt.
Events == Hooks \X (0 .. MaxRetries - 1)

Days     == 0 .. MaxDay
Expiry   == 0 .. MaxDay + Term * (Cardinality(Events) + Cardinality(Checkouts) + 1)
Status   == {"PENDING", "SUCCESS", "FAILED"}
Outcome  == {"paid", "unpaid"}

\* A transaction row; no row, and no session.
Trans == [user : Users, status : Status, expiry : Nat]
ASSUME NoneAssumption == None \notin Trans \cup Outcome \cup {"open", "expired"}

Init ==
    /\ today = 0
    /\ user = [u \in Users |-> [premium |-> FALSE, expiry |-> None]]
    /\ trans = [k \in Checkouts |-> None]
    /\ checkout = [k \in Checkouts |->
                      [pc |-> "idle", user |-> None, row |-> None, expiry |-> None,
                       session |-> None]]
    /\ hook = [h \in Hooks |-> [pc |-> "idle", attempt |-> 0]]
    /\ upgrade = [e \in Events |-> [pc |-> "none", user |-> None, expiry |-> None,
                                   attempt |-> 0]]
    /\ reminded = {}
    /\ failures = 0
    /\ losses = 0

Rows(u) == {k \in Checkouts : trans[k] # None /\ trans[k].user = u}

-----------------------------------------------------------------------------
(* handleCreateCheckoutSession                                             *)

\* "it's not yet time for renewal": more than Window days are left.
TooEarly(u) == /\ user[u].premium /\ user[u].expiry # None
               /\ user[u].expiry - today > Window

Ask(k) ==
    /\ checkout[k].pc = "idle"
    /\ \E u \in Users :
         /\ ~TooEarly(u)
         /\ checkout' = [checkout EXCEPT ![k] = [@ EXCEPT !.pc = "find", !.user = u]]
    /\ UNCHANGED <<today, user, trans, hook, upgrade, reminded, failures, losses>>

\* findOne of the user's transactions: any of them, or none.
Find(k) ==
    /\ checkout[k].pc = "find"
    /\ LET u == checkout[k].user
       IN  \/ /\ Rows(u) = {}
              /\ checkout' = [checkout EXCEPT ![k] = [@ EXCEPT !.pc = "save", !.row = k,
                                                           !.expiry = today + Term]]
           \/ \E r \in Rows(u) :
                checkout' = [checkout EXCEPT ![k] = [@ EXCEPT !.pc = "save", !.row = r,
                                                             !.expiry = trans[r].expiry + Term]]
    /\ UNCHANGED <<today, user, trans, hook, upgrade, reminded, failures, losses>>

\* The row is inserted, or its expiry moved on, before anything is paid; Stripe
\* opens the session; the transaction commits.
Open(k) ==
    /\ checkout[k].pc = "save"
    /\ trans' = [trans EXCEPT ![checkout[k].row] =
                   IF @ = None
                   THEN [user |-> checkout[k].user, status |-> "PENDING",
                         expiry |-> checkout[k].expiry]
                   ELSE [@ EXCEPT !.expiry = checkout[k].expiry]]
    /\ checkout' = [checkout EXCEPT ![k] = [@ EXCEPT !.pc = "done", !.session = "open"]]
    /\ UNCHANGED <<today, user, hook, upgrade, reminded, failures, losses>>

\* The row or the session cannot be written: nothing is kept.
FailCheckout(k) ==
    /\ checkout[k].pc \in {"find", "save"}
    /\ failures < MaxFailures
    /\ failures' = failures + 1
    /\ checkout' = [checkout EXCEPT ![k] = [@ EXCEPT !.pc = "failed", !.row = None,
                                                    !.expiry = None]]
    /\ UNCHANGED <<today, user, trans, hook, upgrade, reminded, losses>>

\* Stripe: the customer completes the session within its 45 minutes, or it ends.
Complete(k) ==
    /\ checkout[k].session = "open"
    /\ \E o \in Outcome \cup {"expired"} :
         checkout' = [checkout EXCEPT ![k].session = o]
    /\ UNCHANGED <<today, user, trans, hook, upgrade, reminded, failures, losses>>

-----------------------------------------------------------------------------
(* handleStripeWebhook                                                     *)

\* Stripe delivers checkout.session.completed, and may deliver it again; the
\* gateway emits the event and answers "received" without waiting for more.
Receive(h) ==
    /\ hook[h].pc = "idle"
    /\ checkout[h[1]].session \in Outcome
    /\ hook' = [hook EXCEPT ![h].pc = "queued"]
    /\ UNCHANGED <<today, user, trans, checkout, upgrade, reminded, failures, losses>>

\* Mutation: the event is sent whatever the payment status is.
UpgradeAlways(k) == TRUE

\* payment_status === 'paid' || 'no_payment_required'
Upgrades(k) == checkout[k].session = "paid"

\* Mutation: a delivery is ignored when another one of the session was taken before.
EmitFirst(h) ==
    /\ hook[h].pc = "queued"
    /\ hook' = [hook EXCEPT ![h].pc = "settle"]
    /\ upgrade' = IF Upgrades(h[1]) /\ \A g \in Hooks \ {h} : hook[g].pc \in {"idle", "queued"}
                  THEN [upgrade EXCEPT ![<<h, hook[h].attempt>>] =
                          [pc |-> "queued", user |-> checkout[h[1]].user,
                           expiry |-> None, attempt |-> 0]]
                  ELSE upgrade
    /\ UNCHANGED <<today, user, trans, checkout, reminded, failures, losses>>

\* update-premium is sent before the row is looked up.
Emit(h) ==
    /\ hook[h].pc = "queued"
    /\ hook' = [hook EXCEPT ![h].pc = "settle"]
    /\ upgrade' = IF Upgrades(h[1])
                  THEN [upgrade EXCEPT ![<<h, hook[h].attempt>>] =
                          [pc |-> "queued", user |-> checkout[h[1]].user,
                           expiry |-> None, attempt |-> 0]]
                  ELSE upgrade
    /\ UNCHANGED <<today, user, trans, checkout, reminded, failures, losses>>

\* The transaction cannot be begun, or the handler fails before it has sent the
\* event: Stripe was answered when the gateway passed it on, and asks no more.
Drop(h) ==
    /\ hook[h].pc = "queued"
    /\ failures < MaxFailures
    /\ failures' = failures + 1
    /\ hook' = [hook EXCEPT ![h].pc = "dropped"]
    /\ UNCHANGED <<today, user, trans, checkout, upgrade, reminded, losses>>

\* Mutation: the row is given Stripe's word for it.
SessionStatus(k) == checkout[k].session

SettleStatus(k) == IF checkout[k].session = "paid" THEN "SUCCESS" ELSE "FAILED"

\* The row of the session's metadata is settled, indexed and committed.
Settle(h) ==
    /\ hook[h].pc = "settle"
    /\ trans' = [trans EXCEPT ![checkout[h[1]].row].status =
                                SettleStatus(h[1])]
    /\ hook' = [hook EXCEPT ![h].pc = "done"]
    /\ UNCHANGED <<today, user, checkout, upgrade, reminded, failures, losses>>

Retries(h) == hook[h].attempt < MaxRetries - 1

\* The save, the index or the commit fails: a lock conflict starts the handler
\* again, another error drops the event.
FailSettle(h) ==
    /\ hook[h].pc = "settle"
    /\ failures < MaxFailures
    /\ failures' = failures + 1
    /\ \/ /\ Retries(h)
          /\ hook' = [hook EXCEPT ![h] = [pc |-> "queued", attempt |-> @.attempt + 1]]
       \/ hook' = [hook EXCEPT ![h].pc = "failed"]
    /\ UNCHANGED <<today, user, trans, checkout, upgrade, reminded, losses>>

-----------------------------------------------------------------------------
(* handleUpdatePremium of the users service                                *)

\* The user is read: premium_expiry, even a past one, plus the term.
ReadUser(e) ==
    /\ upgrade[e].pc = "queued"
    /\ LET old == user[upgrade[e].user].expiry
       IN  upgrade' = [upgrade EXCEPT ![e] = [@ EXCEPT
             !.pc = "write",
             !.expiry = IF old # None THEN old + Term ELSE today + Term]]
    /\ UNCHANGED <<today, user, trans, checkout, hook, reminded, failures, losses>>

\* UPDATE with the value computed from what was read, and PREMIUM_PAID_SUCCESS.
WriteUser(e) ==
    /\ upgrade[e].pc = "write"
    /\ user' = [user EXCEPT ![upgrade[e].user] =
                  [premium |-> TRUE, expiry |-> upgrade[e].expiry]]
    /\ upgrade' = [upgrade EXCEPT ![e].pc = "done"]
    /\ UNCHANGED <<today, trans, checkout, hook, reminded, failures, losses>>

\* The user is gone, the database fails, or its lock conflicts use up the retries:
\* the event was acknowledged and is lost.  Another conflict of the UPDATE starts
\* the handler again.
FailPremium(e) ==
    /\ upgrade[e].pc \in {"queued", "write"}
    /\ failures < MaxFailures
    /\ failures' = failures + 1
    /\ \/ /\ upgrade[e].pc = "write" /\ upgrade[e].attempt < MaxRetries - 1
          /\ upgrade' = [upgrade EXCEPT ![e] = [@ EXCEPT !.pc = "queued", !.expiry = None,
                                            !.attempt = upgrade[e].attempt + 1]]
       \/ upgrade' = [upgrade EXCEPT ![e].pc = "lost"]
    /\ UNCHANGED <<today, user, trans, checkout, hook, reminded, losses>>

-----------------------------------------------------------------------------
(* handleNotifyExpiredPremiumPackage                                       *)

\* expiry_date within the day that was Lag days before d: subDays(now, 2).
Lapsed(d) == {k \in Checkouts : trans[k] # None /\ trans[k].expiry = d - Lag}

\* A new day begins, and at midnight the cron job runs.
Midnight ==
    /\ today < MaxDay
    /\ today' = today + 1
    /\ reminded' = reminded \cup
                     {<<trans[k].user, today + 1>> : k \in Lapsed(today + 1)}
    /\ UNCHANGED <<user, trans, checkout, hook, upgrade, failures, losses>>

-----------------------------------------------------------------------------
\* A service crashes: the events it has taken and not handled are gone, for
\* they were acknowledged when they were delivered.
Lose ==
    /\ losses < MaxLosses
    /\ losses' = losses + 1
    /\ \/ \E h \in Hooks : /\ hook[h].pc \in {"queued", "settle"}
                           /\ hook' = [hook EXCEPT ![h].pc = IF @ = "queued" THEN "dropped"
                                                                           ELSE "failed"]
                           /\ UNCHANGED upgrade
       \/ \E e \in Events : /\ upgrade[e].pc \in {"queued", "write"}
                            /\ upgrade' = [upgrade EXCEPT ![e].pc = "lost"]
                            /\ UNCHANGED hook
    /\ UNCHANGED <<today, user, trans, checkout, reminded, failures>>

Checkout(k) == Find(k) \/ Open(k)
Webhook(h)  == Emit(h) \/ Settle(h)
Premium(e)  == ReadUser(e) \/ WriteUser(e)

Next ==
    \/ \E k \in Checkouts : Ask(k) \/ Checkout(k) \/ FailCheckout(k) \/ Complete(k)
    \/ \E h \in Hooks : Receive(h) \/ Webhook(h) \/ Drop(h) \/ FailSettle(h)
    \/ \E e \in Events : Premium(e) \/ FailPremium(e)
    \/ Midnight
    \/ Lose

Spec == Init /\ [][Next]_vars

\* Handlers that have started go on, the broker delivers, and Stripe delivers
\* each event once at least.  Nobody has to pay.
Fairness ==
    /\ \A k \in Checkouts : WF_vars(Checkout(k)) /\ WF_vars(Receive(<<k, 1>>))
    /\ \A h \in Hooks : WF_vars(Webhook(h))
    /\ \A e \in Events : WF_vars(Premium(e))

FairSpec == Spec /\ Fairness

-----------------------------------------------------------------------------
(* Properties.                                                             *)

\* Every variable keeps the shape of what the code stores in it.
TypeOK ==
    /\ today \in Days
    /\ user \in [Users -> [premium : BOOLEAN, expiry : Expiry \cup {None}]]
    /\ trans \in [Checkouts -> [user : Users, status : Status, expiry : Expiry] \cup {None}]
    /\ checkout \in [Checkouts ->
           [pc : {"idle", "find", "save", "done", "failed"}, user : Users \cup {None},
            row : Checkouts \cup {None}, expiry : Expiry \cup {None},
            session : Outcome \cup {"open", "expired", None}]]
    /\ hook \in [Hooks -> [pc : {"idle", "queued", "settle", "done", "failed", "dropped"},
                          attempt : 0 .. MaxRetries - 1]]
    /\ upgrade \in [Events -> [pc : {"none", "queued", "write", "done", "lost"},
                              user : Users \cup {None}, expiry : Expiry \cup {None},
                              attempt : 0 .. MaxRetries - 1]]
    /\ reminded \in SUBSET (Users \X Days)
    /\ failures \in 0 .. MaxFailures
    /\ losses \in 0 .. MaxLosses

Paid(u) == {k \in Checkouts : checkout[k].user = u /\ checkout[k].session = "paid"}

\* Nobody is premium who has not paid, and no row says SUCCESS that no paid session
\* belongs to, whatever is delivered twice, retried, lost or settled out of order.
PremiumIsPaid ==
    /\ \A u \in Users : user[u].premium => Paid(u) # {}
    /\ \A k \in Checkouts :
          (trans[k] # None /\ trans[k].status = "SUCCESS") =>
             \E p \in Paid(trans[k].user) : checkout[p].row = k

\* A delivery that came to nothing: no upgrade that it sent was carried out, and
\* it was dropped before the event was sent or the event was lost.
Missed(h) ==
    LET sent == {upgrade[<<h, a>>].pc : a \in 0 .. MaxRetries - 1}
    IN  sent \subseteq {"none", "lost"} /\ (hook[h].pc = "dropped" \/ "lost" \in sent)

\* Who has paid becomes premium, unless every delivery of the payment was dropped
\* before update-premium was sent, or its upgrade was lost in the users service: a
\* failure to settle the transaction does not take the upgrade away.
PaymentGrants ==
    <>[](\A k \in Checkouts :
             checkout[k].session = "paid" =>
                 \/ \E u \in Users : checkout[k].user = u /\ user[u].premium
                 \/ /\ hook[<<k, 1>>].pc # "idle"
                    /\ \A i \in 1 .. MaxDeliveries[k] :
                          hook[<<k, i>>].pc # "idle" => Missed(<<k, i>>))
=============================================================================
