-------------------------- MODULE PremiumPlanProofs --------------------------
(***************************************************************************)
(* Proofs about PremiumPlan, for any users, checkouts, days and failures.  *)
(***************************************************************************)
EXTENDS PremiumPlan, FiniteSetTheorems, FunctionTheorems, TLAPS

-----------------------------------------------------------------------------
(* The deliveries and the events are finite in number.                     *)

LEMMA HookParts ==
    ASSUME NEW h \in Hooks
    PROVE  h[1] \in Checkouts
BY DEF Hooks

LEMMA EventParts ==
    ASSUME NEW e \in Events
    PROVE  /\ e[1] \in Hooks /\ e[2] \in 0 .. MaxRetries - 1
           /\ e = <<e[1], e[2]>>
BY DEF Events

LEMMA HooksFinite == IsFiniteSet(Hooks)
<1> DEFINE Of(k) == {k} \X (1 .. MaxDeliveries[k])
           All   == {Of(k) : k \in Checkouts}
           f     == [k \in Checkouts |-> Of(k)]
<1>1. f \in Surjection(Checkouts, All)
    BY DEF Surjection
<1>2. IsFiniteSet(All)
    BY <1>1, FS_Surjection, PremiumAssumption DEF PremiumAssumption
<1>3. \A T \in All : IsFiniteSet(T)
    <2> SUFFICES ASSUME NEW k \in Checkouts PROVE IsFiniteSet(Of(k))
        OBVIOUS
    <2>1. MaxDeliveries[k] \in Int
        BY PremiumAssumption DEF PremiumAssumption
    <2>2. IsFiniteSet(1 .. MaxDeliveries[k])
        BY <2>1, FS_Interval
    <2>3. IsFiniteSet({k})
        BY FS_Singleton
    <2> QED
        BY <2>2, <2>3, FS_Product
<1>4. IsFiniteSet(UNION All)
    <2> HIDE DEF All
    <2> QED
        BY <1>2, <1>3, FS_UNION
<1> QED
    BY <1>4 DEF Hooks

LEMMA EventsFinite == IsFiniteSet(Events)
<1>1. IsFiniteSet(0 .. MaxRetries - 1)
    BY FS_Interval, PremiumAssumption DEF PremiumAssumption
<1> QED
    BY <1>1, HooksFinite, FS_Product DEF Events

-----------------------------------------------------------------------------
(* The inductive invariant.                                                *)

\* The shape of the variables, but for the bound on the days of an expiry.
CheckoutRec == [pc : {"idle", "find", "save", "done", "failed"}, user : Users \cup {None},
                row : Checkouts \cup {None}, expiry : Nat \cup {None},
                session : Outcome \cup {"open", "expired", None}]
HookRec     == [pc : {"idle", "queued", "settle", "done", "failed", "dropped"},
                attempt : 0 .. MaxRetries - 1]
UpgradeRec  == [pc : {"none", "queued", "write", "done", "lost"},
                user : Users \cup {None}, expiry : Nat \cup {None},
                attempt : 0 .. MaxRetries - 1]
UserRec     == [premium : BOOLEAN, expiry : Nat \cup {None}]

Shape ==
    /\ today \in Days
    /\ user \in [Users -> UserRec]
    /\ trans \in [Checkouts -> Trans \cup {None}]
    /\ checkout \in [Checkouts -> CheckoutRec]
    /\ hook \in [Hooks -> HookRec]
    /\ upgrade \in [Events -> UpgradeRec]
    /\ reminded \in SUBSET (Users \X Days)
    /\ failures \in 0 .. MaxFailures
    /\ losses \in 0 .. MaxLosses

\* What a checkout has done at each point of the handler: a row that it has found belongs
\* to its user, a row that it will create is not there yet.
CheckoutKept(k) ==
    /\ checkout[k].pc # "idle" => checkout[k].user \in Users
    /\ checkout[k].pc \notin {"save", "done"} => checkout[k].row = None
    /\ checkout[k].session # None => checkout[k].pc = "done"
    /\ checkout[k].pc = "save" =>
          /\ checkout[k].row \in Checkouts /\ checkout[k].expiry # None
          /\ checkout[k].row # k => trans[checkout[k].row] # None
    /\ checkout[k].pc = "done" =>
          checkout[k].row \in Checkouts /\ trans[checkout[k].row] # None
    /\ checkout[k].row # None /\ trans[checkout[k].row] # None =>
          trans[checkout[k].row].user = checkout[k].user
    /\ trans[k] # None => checkout[k].pc = "done" /\ checkout[k].user = trans[k].user

CheckoutsKept == \A k \in Checkouts : CheckoutKept(k)

\* Stripe delivers only what has ended.
HooksFollowSessions ==
    \A h \in Hooks : hook[h].pc # "idle" => checkout[h[1]].session \in Outcome

\* An upgrade is that of a user who has paid, ...
UpgradePaid(e) ==
    upgrade[e].pc # "none" =>
        /\ upgrade[e].user = checkout[e[1][1]].user
        /\ checkout[e[1][1]].session = "paid"
        /\ upgrade[e].pc = "write" => upgrade[e].expiry # None

UpgradesPaid == \A e \in Events : UpgradePaid(e)

\* ... and an attempt of the webhook's handler sends it once.
SentOnce ==
    \A h \in Hooks, a \in 0 .. MaxRetries - 1 :
        (\/ hook[h].attempt < a
         \/ hook[h].attempt = a /\ hook[h].pc \in {"idle", "queued"})
        => upgrade[<<h, a>>].pc = "none"

PaidInv == /\ Shape /\ CheckoutsKept /\ HooksFollowSessions
           /\ UpgradesPaid /\ SentOnce /\ PremiumIsPaid

-----------------------------------------------------------------------------
(* What a step leaves of a session, of a checkout's user and of a row.     *)

\* A session that was completed stays so, and so does the user of a request.
SessionsKept ==
    \A k \in Checkouts :
        /\ checkout[k].session \in Outcome => checkout'[k].session = checkout[k].session
        /\ checkout[k].pc # "idle" => checkout'[k].user = checkout[k].user
        /\ checkout[k].pc = "done" => checkout'[k].row = checkout[k].row

\* What a request finds: a row and the expiry it will have.
LEMMA Finds ==
    ASSUME PaidInv, NEW k \in Checkouts, Find(k)
    PROVE  \E r \in Checkouts, x \in Nat :
              /\ checkout' = [checkout EXCEPT ![k] = [@ EXCEPT !.pc = "save", !.row = r,
                                                               !.expiry = x]]
              /\ \/ r = k /\ x = today + Term
                 \/ /\ trans[r] # None /\ trans[r].user = checkout[k].user
                    /\ x = trans[r].expiry + Term
<1>1. today + Term \in Nat
    BY PremiumAssumption DEF PaidInv, Shape, Days, PremiumAssumption
<1>2. \A r \in Rows(checkout[k].user) :
          /\ r \in Checkouts /\ trans[r] # None /\ trans[r].user = checkout[k].user
          /\ trans[r].expiry + Term \in Nat
    BY PremiumAssumption DEF Rows, PaidInv, Shape, Trans, PremiumAssumption
<1> QED
    BY <1>1, <1>2 DEF Find

LEMMA KeepsSessions == PaidInv /\ [Next]_vars => SessionsKept
<1> SUFFICES ASSUME PaidInv, [Next]_vars PROVE SessionsKept
    OBVIOUS
<1>0. Shape /\ CheckoutsKept
    BY DEF PaidInv
<1>1. ASSUME NEW k \in Checkouts, Ask(k) PROVE SessionsKept
    BY <1>0, <1>1 DEF Ask, Shape, CheckoutRec, SessionsKept
<1>2. ASSUME NEW k \in Checkouts, Find(k) PROVE SessionsKept
    <2>1. PICK r \in Checkouts, x \in Nat :
              checkout' = [checkout EXCEPT ![k] = [@ EXCEPT !.pc = "save", !.row = r,
                                                            !.expiry = x]]
        BY <1>2, Finds
    <2> QED
        BY <1>0, <1>2, <2>1 DEF Find, Shape, CheckoutRec, SessionsKept
<1>3. ASSUME NEW k \in Checkouts, Open(k) PROVE SessionsKept
    BY <1>0, <1>3, NoneAssumption
    DEF Open, CheckoutsKept, CheckoutKept, Shape, CheckoutRec, SessionsKept, Outcome, NoneAssumption
<1>4. ASSUME NEW k \in Checkouts, FailCheckout(k) PROVE SessionsKept
    BY <1>0, <1>4 DEF FailCheckout, Shape, CheckoutRec, SessionsKept
<1>5. ASSUME NEW k \in Checkouts, Complete(k) PROVE SessionsKept
    BY <1>0, <1>5 DEF Complete, Shape, CheckoutRec, SessionsKept, Outcome
<1>6. CASE UNCHANGED checkout
    BY <1>6 DEF SessionsKept
<1> QED
    BY <1>1, <1>2, <1>3, <1>4, <1>5, <1>6
    DEF Next, Checkout, Webhook, Premium, Receive, Emit, Drop, Settle, FailSettle, ReadUser,
        WriteUser, FailPremium, Midnight, Lose, vars

\* Who has paid has paid for good.
LEMMA PaidStays ==
    ASSUME PaidInv, SessionsKept, NEW u
    PROVE  \A p \in Paid(u) : p \in Paid(u)' /\ checkout'[p].row = checkout[p].row
BY NoneAssumption
   DEF NoneAssumption, PaidInv, CheckoutsKept, CheckoutKept, SessionsKept, Paid, Outcome

\* What a step leaves alone stays right, whatever happens to the sessions.
LEMMA PaidFrame ==
    ASSUME PaidInv, SessionsKept
    PROVE  /\ UNCHANGED <<user, trans>> => PremiumIsPaid'
           /\ UNCHANGED hook => HooksFollowSessions'
           /\ UNCHANGED upgrade => UpgradesPaid'
           /\ UNCHANGED <<hook, upgrade>> => SentOnce'
           /\ UNCHANGED <<checkout, trans>> => CheckoutsKept'
<1>1. ASSUME UNCHANGED <<user, trans>> PROVE PremiumIsPaid'
    BY <1>1, PaidStays DEF PaidInv, PremiumIsPaid
<1>2. ASSUME UNCHANGED hook PROVE HooksFollowSessions'
    BY <1>2, HookParts DEF PaidInv, HooksFollowSessions, SessionsKept
<1>3. ASSUME UNCHANGED upgrade PROVE UpgradesPaid'
    <2> SUFFICES ASSUME NEW e \in Events PROVE UpgradePaid(e)'
        BY DEF UpgradesPaid
    <2>1. e[1][1] \in Checkouts
        BY EventParts, HookParts
    <2> QED
        BY <1>3, <2>1, NoneAssumption
        DEF PaidInv, UpgradesPaid, UpgradePaid, SessionsKept, Outcome, CheckoutsKept,
            CheckoutKept, NoneAssumption
<1>4. UNCHANGED <<hook, upgrade>> => SentOnce'
    BY DEF PaidInv, SentOnce
<1>5. UNCHANGED <<checkout, trans>> => CheckoutsKept'
    BY DEF PaidInv, CheckoutsKept, CheckoutKept
<1> QED
    BY <1>1, <1>2, <1>3, <1>4, <1>5

-----------------------------------------------------------------------------
(* The steps of the handlers.                                              *)

\* A checkout changes itself only; what is to be shown is that it is kept itself.
LEMMA OneCheckout ==
    ASSUME Shape, CheckoutsKept, UNCHANGED trans,
           NEW k \in Checkouts, NEW c, checkout' = [checkout EXCEPT ![k] = c],
           checkout'[k] = c => CheckoutKept(k)'
    PROVE  CheckoutsKept'
<1> SUFFICES ASSUME NEW j \in Checkouts, j # k PROVE CheckoutKept(j)'
    BY DEF CheckoutsKept, Shape
<1>1. checkout'[j] = checkout[j]
    BY DEF Shape
<1> QED
    BY <1>1 DEF CheckoutsKept, CheckoutKept

\* Likewise for an upgrade that has been sent, and is neither sent again nor another's.
LEMMA OneUpgrade ==
    ASSUME Shape, UpgradesPaid, SentOnce, UNCHANGED <<checkout, hook>>,
           NEW e \in Events, upgrade[e].pc # "none",
           NEW c, upgrade' = [upgrade EXCEPT ![e] = c], c.user = upgrade[e].user,
           c.pc # "none", c.pc = "write" => c.expiry # None
    PROVE  UpgradesPaid' /\ SentOnce'
<1>1. upgrade'[e] = c /\ \A f \in Events : f # e => upgrade'[f] = upgrade[f]
    BY DEF Shape
<1>2. UpgradesPaid'
    BY <1>1 DEF UpgradesPaid, UpgradePaid
<1>3. SentOnce'
    BY <1>1 DEF SentOnce, Events
<1> QED
    BY <1>2, <1>3

LEMMA AskStep ==
    ASSUME PaidInv, SessionsKept, NEW k \in Checkouts, Ask(k)
    PROVE  PaidInv'
<1>1. /\ UNCHANGED <<today, user, trans, hook, upgrade, reminded, failures, losses>>
      /\ checkout[k].pc = "idle" /\ Shape /\ CheckoutsKept
    BY DEF Ask, PaidInv
<1>2. PICK u \in Users :
          checkout' = [checkout EXCEPT ![k] = [@ EXCEPT !.pc = "find", !.user = u]]
    BY DEF Ask
<1> DEFINE c == [checkout[k] EXCEPT !.pc = "find", !.user = u]
<1>3. /\ c \in CheckoutRec /\ c.pc = "find" /\ c.user = u
      /\ c.row = checkout[k].row /\ c.session = checkout[k].session
    BY <1>1 DEF Shape, CheckoutRec
<1>4. /\ checkout[k].row = None /\ checkout[k].session = None /\ trans[k] = None
    BY <1>1 DEF CheckoutsKept, CheckoutKept
<1>5. checkout' = [checkout EXCEPT ![k] = c]
    BY <1>2
<1> HIDE DEF c
<1>6. Shape'
    BY <1>1, <1>3, <1>5 DEF Shape
<1>7. CheckoutsKept'
    <2>1. ASSUME checkout'[k] = c PROVE CheckoutKept(k)'
        BY <1>1, <1>3, <1>4, <2>1 DEF CheckoutKept
    <2> QED
        BY <1>1, <1>5, <2>1, OneCheckout
<1> QED
    BY <1>1, <1>6, <1>7, PaidFrame DEF PaidInv

LEMMA FindStep ==
    ASSUME PaidInv, SessionsKept, NEW k \in Checkouts, Find(k)
    PROVE  PaidInv'
<1>1. /\ UNCHANGED <<today, user, trans, hook, upgrade, reminded, failures, losses>>
      /\ checkout[k].pc = "find" /\ Shape /\ CheckoutsKept
    BY DEF Find, PaidInv
<1>2. PICK r \in Checkouts, x \in Nat :
          /\ checkout' = [checkout EXCEPT ![k] = [@ EXCEPT !.pc = "save", !.row = r,
                                                           !.expiry = x]]
          /\ r = k \/ (trans[r] # None /\ trans[r].user = checkout[k].user)
    BY Finds
<1> DEFINE c == [checkout[k] EXCEPT !.pc = "save", !.row = r, !.expiry = x]
<1>3. /\ c \in CheckoutRec /\ c.pc = "save" /\ c.row = r /\ c.expiry = x
      /\ c.user = checkout[k].user /\ c.session = checkout[k].session
    BY <1>1 DEF Shape, CheckoutRec
<1>4. /\ checkout[k].session = None /\ trans[k] = None /\ checkout[k].user \in Users
      /\ x # None
    BY <1>1, PremiumAssumption DEF CheckoutsKept, CheckoutKept, PremiumAssumption
<1>5. checkout' = [checkout EXCEPT ![k] = c]
    BY <1>2
<1> HIDE DEF c
<1>6. Shape'
    BY <1>1, <1>3, <1>5 DEF Shape
<1>7. CheckoutsKept'
    <2>1. ASSUME checkout'[k] = c PROVE CheckoutKept(k)'
        BY <1>1, <1>2, <1>3, <1>4, <2>1 DEF CheckoutKept
    <2> QED
        BY <1>1, <1>5, <2>1, OneCheckout
<1> QED
    BY <1>1, <1>6, <1>7, PaidFrame DEF PaidInv

LEMMA FailCheckoutStep ==
    ASSUME PaidInv, SessionsKept, NEW k \in Checkouts, FailCheckout(k)
    PROVE  PaidInv'
<1>1. /\ UNCHANGED <<today, user, trans, hook, upgrade, reminded, losses>>
      /\ failures' = failures + 1 /\ failures < MaxFailures
      /\ checkout[k].pc \in {"find", "save"} /\ Shape /\ CheckoutsKept
    BY DEF FailCheckout, PaidInv
<1> DEFINE c == [checkout[k] EXCEPT !.pc = "failed", !.row = None, !.expiry = None]
<1>3. /\ c \in CheckoutRec /\ c.pc = "failed" /\ c.row = None
      /\ c.user = checkout[k].user /\ c.session = checkout[k].session
    BY <1>1 DEF Shape, CheckoutRec
<1>4. checkout[k].session = None /\ trans[k] = None /\ checkout[k].user \in Users
    BY <1>1 DEF CheckoutsKept, CheckoutKept
<1>5. checkout' = [checkout EXCEPT ![k] = c]
    BY DEF FailCheckout
<1> HIDE DEF c
<1>6. Shape'
    <2>1. failures' \in 0 .. MaxFailures
        BY <1>1, PremiumAssumption DEF Shape, PremiumAssumption
    <2> QED
        BY <1>1, <1>3, <1>5, <2>1 DEF Shape
<1>7. CheckoutsKept'
    <2>1. ASSUME checkout'[k] = c PROVE CheckoutKept(k)'
        BY <1>1, <1>3, <1>4, <2>1 DEF CheckoutKept
    <2> QED
        BY <1>1, <1>5, <2>1, OneCheckout
<1> QED
    BY <1>1, <1>6, <1>7, PaidFrame DEF PaidInv

LEMMA CompleteStep ==
    ASSUME PaidInv, SessionsKept, NEW k \in Checkouts, Complete(k)
    PROVE  PaidInv'
<1>1. /\ UNCHANGED <<today, user, trans, hook, upgrade, reminded, failures, losses>>
      /\ checkout[k].session = "open" /\ Shape /\ CheckoutsKept
    BY DEF Complete, PaidInv
<1>2. PICK o \in Outcome \cup {"expired"} : checkout' = [checkout EXCEPT ![k].session = o]
    BY DEF Complete
<1> DEFINE c == [checkout[k] EXCEPT !.session = o]
<1>3. /\ c \in CheckoutRec /\ c.session = o
      /\ c.pc = checkout[k].pc /\ c.user = checkout[k].user /\ c.row = checkout[k].row
    BY <1>1 DEF Shape, CheckoutRec
<1>4. checkout[k].pc = "done"
    BY <1>1, NoneAssumption DEF CheckoutsKept, CheckoutKept, NoneAssumption
<1>5. checkout' = [checkout EXCEPT ![k] = c]
    BY <1>2
<1> HIDE DEF c
<1>6. Shape'
    BY <1>1, <1>3, <1>5 DEF Shape
<1>7. CheckoutsKept'
    <2>1. ASSUME checkout'[k] = c PROVE CheckoutKept(k)'
        BY <1>1, <1>3, <1>4, <2>1 DEF CheckoutsKept, CheckoutKept
    <2> QED
        BY <1>1, <1>5, <2>1, OneCheckout
<1> QED
    BY <1>1, <1>6, <1>7, PaidFrame DEF PaidInv

LEMMA OpenStep ==
    ASSUME PaidInv, SessionsKept, NEW k \in Checkouts, Open(k)
    PROVE  PaidInv'
<1> DEFINE r == checkout[k].row
           c == [checkout[k] EXCEPT !.pc = "done", !.session = "open"]
<1>0. Shape /\ CheckoutsKept /\ PremiumIsPaid
    BY DEF PaidInv
<1>1. /\ UNCHANGED <<today, user, hook, upgrade, reminded, failures, losses>>
      /\ checkout[k].pc = "save" /\ r \in Checkouts /\ trans[k] = None
      /\ trans[r] = None => r = k
      /\ checkout[k].user \in Users /\ checkout[k].expiry \in Nat
      /\ trans[r] # None => trans[r].user = checkout[k].user
      /\ r # None
    <2>1. checkout[k].pc = "save"
        BY DEF Open
    <2>2. r \in Checkouts /\ checkout[k].expiry # None /\ checkout[k].user \in Users
        BY <1>0, <2>1 DEF CheckoutsKept, CheckoutKept
    <2>3. r # None /\ checkout[k].expiry \in Nat
        BY <1>0, <2>2, PremiumAssumption DEF Shape, CheckoutRec, PremiumAssumption
    <2> QED
        BY <1>0, <2>1, <2>2, <2>3 DEF Open, CheckoutsKept, CheckoutKept
<1>2. PICK x \in Trans :
          /\ trans' = [trans EXCEPT ![r] = x]
          /\ x.user = checkout[k].user
          /\ IF trans[r] = None THEN x.status = "PENDING" ELSE x.status = trans[r].status
    <2>1. CASE trans[r] = None
        <3> DEFINE x == [user |-> checkout[k].user, status |-> "PENDING",
                         expiry |-> checkout[k].expiry]
        <3>1. x \in Trans
            BY <1>1 DEF Trans, Status
        <3>2. trans' = [trans EXCEPT ![r] = x]
            BY <2>1 DEF Open
        <3> QED
            BY <2>1, <3>1, <3>2
    <2>2. CASE trans[r] # None
        <3> DEFINE x == [trans[r] EXCEPT !.expiry = checkout[k].expiry]
        <3>1. trans[r] \in Trans
            BY <1>0, <1>1, <2>2 DEF Shape
        <3>2. x \in Trans /\ x.user = trans[r].user /\ x.status = trans[r].status
            BY <1>1, <3>1 DEF Trans
        <3>3. trans' = [trans EXCEPT ![r] = x]
            BY <2>2 DEF Open
        <3> QED
            BY <1>1, <2>2, <3>2, <3>3
    <2> QED
        BY <2>1, <2>2
<1>3. checkout' = [checkout EXCEPT ![k] = c]
    BY DEF Open
<1>4. /\ c \in CheckoutRec /\ c.pc = "done" /\ c.session = "open" /\ c.row = r
      /\ c.user = checkout[k].user
    BY <1>0 DEF Shape, CheckoutRec
<1>5. x # None
    BY <1>2, NoneAssumption DEF NoneAssumption
<1> HIDE DEF c, r
<1>6. Shape'
    BY <1>0, <1>1, <1>2, <1>3, <1>4 DEF Shape
<1>7. CheckoutsKept'
    <2>1. /\ checkout'[k] = c /\ trans'[r] = x
          /\ \A j \in Checkouts : j # k => checkout'[j] = checkout[j]
          /\ \A j \in Checkouts : j # r => trans'[j] = trans[j]
        BY <1>0, <1>1, <1>2, <1>3 DEF Shape
    <2>2. CheckoutKept(k)'
        BY <1>1, <1>2, <1>4, <1>5, <2>1 DEF CheckoutKept
    <2>3. ASSUME NEW j \in Checkouts, j # k PROVE CheckoutKept(j)'
        <3>1. CheckoutKept(j) /\ checkout'[j] = checkout[j]
            BY <1>0, <2>1, <2>3 DEF CheckoutsKept
        <3>2. checkout[j].row = r => trans[r] # None /\ trans[r].user = checkout[j].user
            BY <1>0, <1>1, <2>3, <3>1 DEF CheckoutKept
        <3>3. trans[r] # None => x.user = trans[r].user
            BY <1>0, <1>1, <1>2, <3>1 DEF r
        <3> QED
            BY <1>1, <1>2, <1>5, <2>1, <2>3, <3>1, <3>2, <3>3 DEF CheckoutKept
    <2> QED
        BY <2>2, <2>3 DEF CheckoutsKept
<1>8. PremiumIsPaid'
    <2>1. \A u \in Users : user'[u].premium => Paid(u)' # {}
        BY <1>0, <1>1, PaidStays DEF PremiumIsPaid
    <2>2. ASSUME NEW j \in Checkouts, trans'[j] # None, trans'[j].status = "SUCCESS"
          PROVE  /\ trans[j] # None /\ trans[j].status = "SUCCESS"
                 /\ trans'[j].user = trans[j].user
        BY <1>0, <1>1, <1>2, <2>2 DEF Shape, r
    <2> QED
        BY <1>0, <2>1, <2>2, PaidStays DEF PremiumIsPaid
<1> QED
    BY <1>1, <1>6, <1>7, <1>8, PaidFrame DEF PaidInv

\* A session is delivered when it has ended.
LEMMA ReceiveStep ==
    ASSUME PaidInv, SessionsKept, NEW h \in Hooks, Receive(h)
    PROVE  PaidInv'
<1>1. /\ UNCHANGED <<today, user, trans, checkout, upgrade, reminded, failures, losses>>
      /\ hook[h].pc = "idle" /\ checkout[h[1]].session \in Outcome
      /\ hook' = [hook EXCEPT ![h].pc = "queued"]
      /\ Shape /\ HooksFollowSessions /\ SentOnce
    BY DEF Receive, PaidInv
<1>2. Shape'
    BY <1>1 DEF Shape, HookRec
<1>3. HooksFollowSessions' /\ SentOnce'
    BY <1>1 DEF Shape, HookRec, HooksFollowSessions, SentOnce
<1> QED
    BY <1>1, <1>2, <1>3, PaidFrame DEF PaidInv

LEMMA EmitStep ==
    ASSUME PaidInv, SessionsKept, NEW h \in Hooks, Emit(h)
    PROVE  PaidInv'
<1> DEFINE e == <<h, hook[h].attempt>>
           x == [pc |-> "queued", user |-> checkout[h[1]].user, expiry |-> None,
                 attempt |-> 0]
<1>1. /\ UNCHANGED <<today, user, trans, checkout, reminded, failures, losses>>
      /\ hook[h].pc = "queued" /\ hook' = [hook EXCEPT ![h].pc = "settle"]
      /\ Shape /\ HooksFollowSessions /\ SentOnce /\ UpgradesPaid /\ CheckoutsKept
    BY DEF Emit, PaidInv
<1>2. h[1] \in Checkouts /\ e \in Events /\ e[1] = h
    BY <1>1, HookParts DEF Shape, HookRec, Events
<1>3. checkout[h[1]].session \in Outcome /\ x \in UpgradeRec
    BY <1>1, <1>2, PremiumAssumption
    DEF HooksFollowSessions, Shape, CheckoutRec, UpgradeRec, PremiumAssumption
<1>4. \/ UNCHANGED upgrade
      \/ upgrade' = [upgrade EXCEPT ![e] = x] /\ checkout[h[1]].session = "paid"
    BY DEF Emit, Upgrades
<1>5. Shape'
    <2>1. hook' \in [Hooks -> HookRec]
        BY <1>1 DEF Shape, HookRec
    <2>2. upgrade' \in [Events -> UpgradeRec]
        BY <1>1, <1>2, <1>3, <1>4 DEF Shape
    <2> QED
        BY <1>1, <2>1, <2>2 DEF Shape
<1>6. HooksFollowSessions'
    BY <1>1, <1>3 DEF HooksFollowSessions, Shape, HookRec
<1>7. UpgradesPaid'
    <2> SUFFICES ASSUME NEW f \in Events PROVE UpgradePaid(f)'
        BY DEF UpgradesPaid
    <2>1. CASE f = e /\ upgrade' # upgrade
        BY <1>1, <1>2, <1>4, <2>1 DEF UpgradePaid, Shape
    <2>2. CASE f # e \/ upgrade' = upgrade
        <3>1. upgrade'[f] = upgrade[f]
            BY <1>1, <1>2, <1>4, <2>2 DEF Shape
        <3> QED
            BY <1>1, <3>1 DEF UpgradesPaid, UpgradePaid
    <2> QED
        BY <2>1, <2>2
<1>8. SentOnce'
    <2> SUFFICES ASSUME NEW g \in Hooks, NEW a \in 0 .. MaxRetries - 1,
                        \/ hook'[g].attempt < a
                        \/ hook'[g].attempt = a /\ hook'[g].pc \in {"idle", "queued"}
                 PROVE  upgrade'[<<g, a>>].pc = "none"
        BY DEF SentOnce
    <2>1. upgrade[<<g, a>>].pc = "none"
        BY <1>1 DEF SentOnce, Shape, HookRec
    <2>2. <<g, a>> # e
        BY <1>1 DEF Shape, HookRec
    <2>3. <<g, a>> \in Events
        BY DEF Events
    <2> QED
        BY <1>1, <1>4, <2>1, <2>2, <2>3 DEF Shape
<1> QED
    BY <1>1, <1>5, <1>6, <1>7, <1>8, PaidFrame DEF PaidInv

LEMMA SettleStep ==
    ASSUME PaidInv, SessionsKept, NEW h \in Hooks, Settle(h)
    PROVE  PaidInv'
<1> DEFINE k == h[1]
           r == checkout[k].row
<1>1. /\ UNCHANGED <<today, user, checkout, upgrade, reminded, failures, losses>>
      /\ hook[h].pc = "settle" /\ hook' = [hook EXCEPT ![h].pc = "done"]
      /\ trans' = [trans EXCEPT ![r].status = SettleStatus(k)]
      /\ Shape /\ HooksFollowSessions /\ SentOnce /\ CheckoutsKept /\ PremiumIsPaid
    BY DEF Settle, PaidInv
<1>2. k \in Checkouts /\ checkout[k].session \in Outcome
    BY <1>1, HookParts DEF HooksFollowSessions
<1>3. checkout[k].pc = "done"
    BY <1>1, <1>2, NoneAssumption DEF CheckoutsKept, CheckoutKept, NoneAssumption
<1>4. r \in Checkouts /\ trans[r] # None /\ trans[r] \in Trans /\ r # None
    BY <1>1, <1>2, <1>3, PremiumAssumption
    DEF CheckoutsKept, CheckoutKept, Shape, PremiumAssumption
<1>5. trans[r].user = checkout[k].user
    BY <1>1, <1>2, <1>4 DEF CheckoutsKept, CheckoutKept
<1> DEFINE x == [trans[r] EXCEPT !.status = SettleStatus(k)]
<1>6. /\ x \in Trans /\ x # None /\ x.user = trans[r].user
      /\ x.status = "SUCCESS" => checkout[k].session = "paid"
    <2>1. x \in Trans /\ x.user = trans[r].user /\ x.status = SettleStatus(k)
        BY <1>4 DEF Trans, Status, SettleStatus
    <2> QED
        BY <2>1, NoneAssumption DEF NoneAssumption, SettleStatus
<1>7. trans' = [trans EXCEPT ![r] = x]
    BY <1>1
<1> HIDE DEF x, r
<1>8. Shape'
    <2>1. hook' \in [Hooks -> HookRec]
        BY <1>1 DEF Shape, HookRec
    <2>2. trans' \in [Checkouts -> Trans \cup {None}]
        BY <1>1, <1>4, <1>6, <1>7 DEF Shape
    <2> QED
        BY <1>1, <2>1, <2>2 DEF Shape
<1>9. /\ trans'[r] = x
      /\ \A j \in Checkouts : j # r => trans'[j] = trans[j]
    BY <1>1, <1>4, <1>7 DEF Shape
<1>10. CheckoutsKept'
    <2> SUFFICES ASSUME NEW j \in Checkouts PROVE CheckoutKept(j)'
        BY DEF CheckoutsKept
    <2>1. CheckoutKept(j) /\ checkout'[j] = checkout[j]
        BY <1>1 DEF CheckoutsKept
    <2>2. checkout[j].row # None => checkout[j].row \in Checkouts
        BY <1>1 DEF Shape, CheckoutRec
    <2> QED
        BY <1>4, <1>6, <1>9, <2>1, <2>2 DEF CheckoutKept
<1>11. PremiumIsPaid'
    <2>1. \A u \in Users : user'[u].premium => Paid(u)' # {}
        BY <1>1, PaidStays DEF PremiumIsPaid
    <2>2. ASSUME NEW j \in Checkouts, trans'[j] # None, trans'[j].status = "SUCCESS"
          PROVE  \E p \in Paid(trans'[j].user) : checkout[p].row = j
        <3>1. CASE j = r
            <4>1. k \in Paid(trans'[j].user)
                BY <1>2, <1>5, <1>6, <1>9, <2>2, <3>1 DEF Paid
            <4> QED
                BY <3>1, <4>1 DEF r
        <3>2. CASE j # r
            BY <1>1, <1>9, <2>2, <3>2 DEF PremiumIsPaid
        <3> QED
            BY <3>1, <3>2
    <2> QED
        BY <2>1, <2>2, PaidStays DEF PremiumIsPaid
<1>12. HooksFollowSessions' /\ SentOnce'
    BY <1>1 DEF Shape, HookRec, HooksFollowSessions, SentOnce
<1> QED
    BY <1>1, <1>8, <1>10, <1>11, <1>12, PaidFrame DEF PaidInv

LEMMA DropStep ==
    ASSUME PaidInv, SessionsKept, NEW h \in Hooks, Drop(h)
    PROVE  PaidInv'
<1>1. /\ UNCHANGED <<today, user, trans, checkout, upgrade, reminded, losses>>
      /\ failures' = failures + 1 /\ failures < MaxFailures /\ hook[h].pc = "queued"
      /\ hook' = [hook EXCEPT ![h].pc = "dropped"]
      /\ Shape /\ HooksFollowSessions /\ SentOnce
    BY DEF Drop, PaidInv
<1>2. failures' \in 0 .. MaxFailures
    BY <1>1, PremiumAssumption DEF Shape, PremiumAssumption
<1>3. Shape'
    BY <1>1, <1>2 DEF Shape, HookRec
<1>4. HooksFollowSessions' /\ SentOnce'
    BY <1>1 DEF Shape, HookRec, HooksFollowSessions, SentOnce
<1> QED
    BY <1>1, <1>3, <1>4, PaidFrame DEF PaidInv

LEMMA FailSettleStep ==
    ASSUME PaidInv, SessionsKept, NEW h \in Hooks, FailSettle(h)
    PROVE  PaidInv'
<1>1. /\ UNCHANGED <<today, user, trans, checkout, upgrade, reminded, losses>>
      /\ failures' = failures + 1 /\ failures < MaxFailures /\ hook[h].pc = "settle"
      /\ Shape /\ HooksFollowSessions /\ SentOnce
    BY DEF FailSettle, PaidInv
<1>2. hook[h].attempt \in 0 .. MaxRetries - 1 /\ MaxRetries \in Nat
    BY <1>1, PremiumAssumption DEF Shape, HookRec, PremiumAssumption
<1>3. PICK x \in HookRec :
          /\ hook' = [hook EXCEPT ![h] = x] /\ x.pc # "idle"
          /\ \/ x.attempt = hook[h].attempt + 1
             \/ x.attempt = hook[h].attempt /\ x.pc = "failed"
    <2>1. CASE /\ Retries(h)
               /\ hook' = [hook EXCEPT ![h] = [pc |-> "queued", attempt |-> @.attempt + 1]]
        <3> DEFINE x == [pc |-> "queued", attempt |-> hook[h].attempt + 1]
        <3>1. hook[h].attempt + 1 \in 0 .. MaxRetries - 1
            BY <1>2, <2>1 DEF Retries
        <3>2. x \in HookRec /\ x.pc = "queued" /\ x.attempt = hook[h].attempt + 1
            BY <1>1, <3>1 DEF Shape, HookRec
        <3>3. hook' = [hook EXCEPT ![h] = x]
            BY <2>1
        <3> HIDE DEF x
        <3> QED
            BY <3>2, <3>3
    <2>2. CASE hook' = [hook EXCEPT ![h].pc = "failed"]
        <3> DEFINE x == [hook[h] EXCEPT !.pc = "failed"]
        <3>1. x \in HookRec /\ x.pc = "failed" /\ x.attempt = hook[h].attempt
            BY <1>1 DEF Shape, HookRec
        <3>2. hook' = [hook EXCEPT ![h] = x]
            BY <2>2
        <3> HIDE DEF x
        <3> QED
            BY <3>1, <3>2
    <2> QED
        BY <2>1, <2>2 DEF FailSettle
<1>4. Shape'
    <2>1. failures' \in 0 .. MaxFailures
        BY <1>1, PremiumAssumption DEF Shape, PremiumAssumption
    <2> QED
        BY <1>1, <1>3, <2>1 DEF Shape
<1>5. hook'[h] = x /\ \A g \in Hooks : g # h => hook'[g] = hook[g]
    BY <1>1, <1>3 DEF Shape
<1>6. HooksFollowSessions'
    BY <1>1, <1>5 DEF HooksFollowSessions
<1>7. SentOnce'
    BY <1>1, <1>2, <1>3, <1>5 DEF SentOnce
<1> QED
    BY <1>1, <1>4, <1>6, <1>7, PaidFrame DEF PaidInv

LEMMA ReadUserStep ==
    ASSUME PaidInv, SessionsKept, NEW e \in Events, ReadUser(e)
    PROVE  PaidInv'
<1>1. /\ UNCHANGED <<today, user, trans, checkout, hook, reminded, failures, losses>>
      /\ upgrade[e].pc = "queued" /\ Shape /\ UpgradesPaid /\ SentOnce /\ CheckoutsKept
    BY DEF ReadUser, PaidInv
<1>2. e[1][1] \in Checkouts
    BY EventParts, HookParts
<1>3. upgrade[e].user \in Users
    <2>1. upgrade[e].user = checkout[e[1][1]].user /\ checkout[e[1][1]].session = "paid"
        BY <1>1 DEF UpgradesPaid, UpgradePaid
    <2> QED
        BY <1>1, <1>2, <2>1, NoneAssumption
        DEF CheckoutsKept, CheckoutKept, NoneAssumption, Outcome
<1>4. PICK x \in Nat : upgrade' = [upgrade EXCEPT ![e] = [@ EXCEPT !.pc = "write",
                                                                  !.expiry = x]]
    <2> DEFINE old == user[upgrade[e].user].expiry
    <2>1. (IF old # None THEN old + Term ELSE today + Term) \in Nat
        BY <1>1, <1>3, PremiumAssumption DEF Shape, UserRec, Days, PremiumAssumption
    <2> QED
        BY <2>1 DEF ReadUser
<1> DEFINE c == [upgrade[e] EXCEPT !.pc = "write", !.expiry = x]
<1>5. c \in UpgradeRec /\ c.pc = "write" /\ c.user = upgrade[e].user /\ c.expiry = x
    BY <1>1 DEF Shape, UpgradeRec
<1>6. x # None
    BY PremiumAssumption DEF PremiumAssumption
<1>7. upgrade' = [upgrade EXCEPT ![e] = c]
    BY <1>4
<1> HIDE DEF c
<1>8. Shape'
    BY <1>1, <1>5, <1>7 DEF Shape
<1>9. UpgradesPaid' /\ SentOnce'
    BY <1>1, <1>5, <1>6, <1>7, OneUpgrade
<1> QED
    BY <1>1, <1>8, <1>9, PaidFrame DEF PaidInv

LEMMA WriteUserStep ==
    ASSUME PaidInv, SessionsKept, NEW e \in Events, WriteUser(e)
    PROVE  PaidInv'
<1> DEFINE u == upgrade[e].user
           x == [premium |-> TRUE, expiry |-> upgrade[e].expiry]
           c == [upgrade[e] EXCEPT !.pc = "done"]
<1>1. /\ UNCHANGED <<today, trans, checkout, hook, reminded, failures, losses>>
      /\ upgrade[e].pc = "write" /\ user' = [user EXCEPT ![u] = x]
      /\ Shape /\ UpgradesPaid /\ SentOnce /\ CheckoutsKept /\ PremiumIsPaid
    BY DEF WriteUser, PaidInv
<1>2. e[1][1] \in Checkouts
    BY EventParts, HookParts
<1>3. u = checkout[e[1][1]].user /\ checkout[e[1][1]].session = "paid"
    BY <1>1 DEF UpgradesPaid, UpgradePaid
<1>4. c \in UpgradeRec /\ c.pc = "done" /\ c.user = u /\ c.expiry = upgrade[e].expiry
    BY <1>1 DEF Shape, UpgradeRec
<1>5. upgrade' = [upgrade EXCEPT ![e] = c]
    BY DEF WriteUser
<1>6. x \in UserRec
    BY <1>1 DEF Shape, UpgradeRec, UserRec
<1> HIDE DEF c, x
<1>7. Shape'
    BY <1>1, <1>4, <1>5, <1>6 DEF Shape
<1>8. UpgradesPaid' /\ SentOnce'
    BY <1>1, <1>4, <1>5, OneUpgrade
<1>9. PremiumIsPaid'
    <2>1. ASSUME NEW v \in Users, user'[v].premium PROVE Paid(v)' # {}
        <3>1. CASE v = u
            BY <1>1, <1>2, <1>3, <3>1 DEF Paid
        <3>2. CASE v # u
            BY <1>1, <2>1, <3>2, PaidStays DEF PremiumIsPaid, Shape
        <3> QED
            BY <3>1, <3>2
    <2> QED
        BY <1>1, <2>1, PaidStays DEF PremiumIsPaid
<1> QED
    BY <1>1, <1>7, <1>8, <1>9, PaidFrame DEF PaidInv

\* A failed upgrade begins again or is lost; either way it is the same user's.
LEMMA FailPremiumStep ==
    ASSUME PaidInv, SessionsKept, NEW e \in Events, FailPremium(e)
    PROVE  PaidInv'
<1>1. /\ UNCHANGED <<today, user, trans, checkout, hook, reminded, losses>>
      /\ failures' = failures + 1 /\ failures < MaxFailures
      /\ upgrade[e].pc \in {"queued", "write"}
      /\ Shape /\ UpgradesPaid /\ SentOnce
    BY DEF FailPremium, PaidInv
<1>2. failures' \in 0 .. MaxFailures
    BY <1>1, PremiumAssumption DEF Shape, PremiumAssumption
<1>3. upgrade[e] \in UpgradeRec
    BY <1>1 DEF Shape
<1>4. PICK c \in UpgradeRec :
          /\ upgrade' = [upgrade EXCEPT ![e] = c]
          /\ c.user = upgrade[e].user /\ c.pc \in {"queued", "lost"}
    <2>1. CASE /\ upgrade[e].attempt < MaxRetries - 1
               /\ upgrade' = [upgrade EXCEPT ![e] =
                      [@ EXCEPT !.pc = "queued", !.expiry = None,
                                !.attempt = upgrade[e].attempt + 1]]
        <3> DEFINE c == [upgrade[e] EXCEPT !.pc = "queued", !.expiry = None,
                                           !.attempt = upgrade[e].attempt + 1]
        <3>1. upgrade[e].attempt + 1 \in 0 .. MaxRetries - 1
            BY <1>3, <2>1, PremiumAssumption DEF UpgradeRec, PremiumAssumption
        <3>2. c \in UpgradeRec /\ c.user = upgrade[e].user /\ c.pc = "queued"
            BY <1>3, <3>1 DEF UpgradeRec
        <3>3. upgrade' = [upgrade EXCEPT ![e] = c]
            BY <2>1
        <3> HIDE DEF c
        <3> QED
            BY <3>2, <3>3
    <2>2. CASE upgrade' = [upgrade EXCEPT ![e].pc = "lost"]
        <3> DEFINE c == [upgrade[e] EXCEPT !.pc = "lost"]
        <3>1. c \in UpgradeRec /\ c.user = upgrade[e].user /\ c.pc = "lost"
            BY <1>3 DEF UpgradeRec
        <3>2. upgrade' = [upgrade EXCEPT ![e] = c]
            BY <2>2
        <3> HIDE DEF c
        <3> QED
            BY <3>1, <3>2
    <2> QED
        BY <2>1, <2>2 DEF FailPremium
<1>5. Shape'
    BY <1>1, <1>2, <1>4 DEF Shape
<1>6. UpgradesPaid' /\ SentOnce'
    BY <1>1, <1>4, OneUpgrade
<1> QED
    BY <1>1, <1>5, <1>6, PaidFrame DEF PaidInv

LEMMA MidnightStep ==
    ASSUME PaidInv, SessionsKept, Midnight
    PROVE  PaidInv'
<1>1. /\ UNCHANGED <<user, trans, checkout, hook, upgrade, failures, losses>> /\ Shape
    BY DEF Midnight, PaidInv
<1>2. today' \in Days /\ today' = today + 1
    BY <1>1, PremiumAssumption DEF Midnight, Shape, Days, PremiumAssumption
<1>3. \A k \in Lapsed(today + 1) : trans[k].user \in Users
    BY <1>1 DEF Lapsed, Shape, Trans
<1>4. reminded' \in SUBSET (Users \X Days)
    BY <1>1, <1>2, <1>3 DEF Midnight, Shape
<1>5. Shape'
    BY <1>1, <1>2, <1>4 DEF Shape
<1> QED
    BY <1>1, <1>5, PaidFrame DEF PaidInv

LEMMA LoseStep ==
    ASSUME PaidInv, SessionsKept, Lose
    PROVE  PaidInv'
<1>1. /\ UNCHANGED <<today, user, trans, checkout, reminded, failures>>
      /\ Shape /\ HooksFollowSessions /\ SentOnce /\ UpgradesPaid
    BY DEF Lose, PaidInv
<1>2. losses' \in 0 .. MaxLosses
    BY <1>1, PremiumAssumption DEF Lose, Shape, PremiumAssumption
<1>3. ASSUME NEW h \in Hooks, hook[h].pc \in {"queued", "settle"},
             NEW p \in {"dropped", "failed"}, hook' = [hook EXCEPT ![h].pc = p],
             UNCHANGED upgrade
      PROVE  PaidInv'
    <2>1. Shape'
        BY <1>1, <1>2, <1>3 DEF Shape, HookRec
    <2>2. HooksFollowSessions' /\ SentOnce'
        BY <1>1, <1>3 DEF Shape, HookRec, HooksFollowSessions, SentOnce
    <2> QED
        BY <1>1, <1>3, <2>1, <2>2, PaidFrame DEF PaidInv
<1>4. ASSUME NEW e \in Events, upgrade[e].pc \in {"queued", "write"},
             upgrade' = [upgrade EXCEPT ![e].pc = "lost"], UNCHANGED hook
      PROVE  PaidInv'
    <2> DEFINE c == [upgrade[e] EXCEPT !.pc = "lost"]
    <2>1. c \in UpgradeRec /\ c.pc = "lost" /\ c.user = upgrade[e].user
        BY <1>1 DEF Shape, UpgradeRec
    <2>2. upgrade' = [upgrade EXCEPT ![e] = c]
        BY <1>4
    <2> HIDE DEF c
    <2>3. Shape'
        BY <1>1, <1>2, <1>4, <2>1, <2>2 DEF Shape
    <2>4. UpgradesPaid' /\ SentOnce'
        BY <1>1, <1>4, <2>1, <2>2, OneUpgrade
    <2> QED
        BY <1>1, <1>4, <2>3, <2>4, PaidFrame DEF PaidInv
<1> QED
    BY <1>3, <1>4 DEF Lose

-----------------------------------------------------------------------------
(* The theorems.                                                           *)

LEMMA PaidInit == Init => PaidInv
<1> SUFFICES ASSUME Init PROVE PaidInv
    OBVIOUS
<1>1. Shape
    BY PremiumAssumption
    DEF PremiumAssumption, Init, Shape, Days, UserRec, CheckoutRec, HookRec, UpgradeRec
<1>2. CheckoutsKept
    BY DEF Init, CheckoutsKept, CheckoutKept
<1>3. HooksFollowSessions /\ UpgradesPaid /\ PremiumIsPaid
    BY DEF Init, HooksFollowSessions, UpgradesPaid, UpgradePaid, PremiumIsPaid
<1>4. SentOnce
    BY DEF Init, SentOnce, Events
<1> QED
    BY <1>1, <1>2, <1>3, <1>4 DEF PaidInv

LEMMA PaidNext == PaidInv /\ [Next]_vars => PaidInv'
<1> SUFFICES ASSUME PaidInv, [Next]_vars PROVE PaidInv'
    OBVIOUS
<1>1. SessionsKept
    BY KeepsSessions
<1>2. CASE UNCHANGED vars
    BY <1>1, <1>2, PaidFrame DEF vars, PaidInv, Shape
<1>3. CASE Next
    <2>1. ASSUME NEW k \in Checkouts,
                 Ask(k) \/ Checkout(k) \/ FailCheckout(k) \/ Complete(k)
          PROVE  PaidInv'
        BY <1>1, <2>1, AskStep, FindStep, OpenStep, FailCheckoutStep, CompleteStep
        DEF Checkout
    <2>2. ASSUME NEW h \in Hooks, Receive(h) \/ Webhook(h) \/ Drop(h) \/ FailSettle(h)
          PROVE  PaidInv'
        BY <1>1, <2>2, ReceiveStep, EmitStep, DropStep, SettleStep, FailSettleStep
        DEF Webhook
    <2>3. ASSUME NEW e \in Events, Premium(e) \/ FailPremium(e)
          PROVE  PaidInv'
        BY <1>1, <2>3, ReadUserStep, WriteUserStep, FailPremiumStep DEF Premium
    <2> QED
        BY <1>1, <1>3, <2>1, <2>2, <2>3, MidnightStep, LoseStep DEF Next
<1> QED
    BY <1>2, <1>3

LEMMA PaidAlways == Spec => []PaidInv
BY PaidInit, PaidNext, PTL DEF Spec

\* Nobody is premium who has not paid and no row says SUCCESS without a paid session of
\* its user: proved for any number of sessions, deliveries, retries, failures and losses.
THEOREM PremiumIsAlwaysPaid == Spec => []PremiumIsPaid
<1>1. PaidInv => PremiumIsPaid
    BY DEF PaidInv
<1> QED
    BY <1>1, PaidAlways, PTL

-----------------------------------------------------------------------------
(* How far an expiry can get: a term for each request that drew one up, and *)
(* for each event that extended a premium; a handler under way is one ahead.*)

Drawn    == {k \in Checkouts : checkout[k].pc \in {"save", "done", "failed"}}
Extended == {e \in Events : upgrade[e].pc = "done"}

Until(n) == MaxDay + Term * n

RowsBounded(m) ==
    /\ \A k \in Checkouts : checkout[k].expiry # None => checkout[k].expiry <= m
    /\ \A k \in Checkouts : trans[k] # None => trans[k].expiry <= m

PremiumsBounded(m) ==
    /\ \A u \in Users : user[u].expiry # None => user[u].expiry <= m
    /\ \A e \in Events : upgrade[e].expiry # None => upgrade[e].expiry <= m + Term

ExpiryBounded == /\ RowsBounded(Until(Cardinality(Drawn)))
                 /\ PremiumsBounded(Until(Cardinality(Extended)))

LEMMA UntilGrows ==
    /\ \A n \in Nat : Until(n) \in Nat /\ MaxDay <= Until(n) /\ Until(n + 1) = Until(n) + Term
    /\ \A n, m \in Nat : n <= m => Until(n) <= Until(m)
<1>1. Term \in Nat /\ MaxDay \in Nat
    BY PremiumAssumption DEF PremiumAssumption
<1>2. \A n \in Nat : Term * n \in Nat /\ Term * (n + 1) = Term * n + Term
    BY <1>1
<1>3. ASSUME NEW n \in Nat, NEW m \in Nat, n <= m PROVE Until(n) <= Until(m)
    <2>1. PICK d \in Nat : m = n + d
        BY <1>3, m - n \in Nat
    <2>2. Term * m = Term * n + Term * d /\ Term * d \in Nat /\ Term * n \in Nat
        BY <1>1, <2>1
    <2> QED
        BY <1>1, <2>2 DEF Until
<1> QED
    BY <1>1, <1>2, <1>3 DEF Until

\* A set that grows, and by one element.
LEMMA Growth ==
    ASSUME NEW S, NEW T, NEW All, IsFiniteSet(All), S \subseteq T, T \subseteq All
    PROVE  /\ Cardinality(S) \in Nat /\ Cardinality(T) \in Nat
           /\ Cardinality(S) <= Cardinality(T)
           /\ \A x \in T : x \notin S => Cardinality(S) + 1 <= Cardinality(T)
<1>1. IsFiniteSet(S) /\ IsFiniteSet(T)
    BY FS_Subset
<1>2. /\ Cardinality(S) \in Nat /\ Cardinality(T) \in Nat
      /\ Cardinality(S) <= Cardinality(T)
    BY <1>1, FS_Subset, FS_CardinalityType
<1>3. ASSUME NEW x \in T, x \notin S PROVE Cardinality(S) + 1 <= Cardinality(T)
    <2>1. Cardinality(S \cup {x}) = Cardinality(S) + 1
        BY <1>1, <1>3, FS_AddElement
    <2>2. S \cup {x} \subseteq T
        BY <1>3
    <2> QED
        BY <1>1, <2>1, <2>2, FS_Subset
<1> QED
    BY <1>2, <1>3

LEMMA Grows ==
    ASSUME PaidInv, [Next]_vars
    PROVE  Drawn \subseteq Drawn' /\ Extended \subseteq Extended'
<1>0. Shape
    BY DEF PaidInv
<1>1. ASSUME NEW k \in Checkouts, Ask(k) PROVE Drawn \subseteq Drawn' /\ UNCHANGED upgrade
    BY <1>0, <1>1 DEF Ask, Shape, CheckoutRec, Drawn
<1>2. ASSUME NEW k \in Checkouts, Find(k) PROVE Drawn \subseteq Drawn' /\ UNCHANGED upgrade
    <2>1. PICK r \in Checkouts, x \in Nat :
              checkout' = [checkout EXCEPT ![k] = [@ EXCEPT !.pc = "save", !.row = r,
                                                            !.expiry = x]]
        BY <1>2, Finds
    <2> QED
        BY <1>0, <1>2, <2>1 DEF Find, Shape, CheckoutRec, Drawn
<1>3. ASSUME NEW k \in Checkouts, Open(k) PROVE Drawn \subseteq Drawn' /\ UNCHANGED upgrade
    BY <1>0, <1>3 DEF Open, Shape, CheckoutRec, Drawn
<1>4. ASSUME NEW k \in Checkouts, FailCheckout(k)
      PROVE  Drawn \subseteq Drawn' /\ UNCHANGED upgrade
    BY <1>0, <1>4 DEF FailCheckout, Shape, CheckoutRec, Drawn
<1>5. ASSUME NEW k \in Checkouts, Complete(k) PROVE Drawn \subseteq Drawn' /\ UNCHANGED upgrade
    BY <1>0, <1>5 DEF Complete, Shape, CheckoutRec, Drawn
<1>6. ASSUME NEW h \in Hooks, Emit(h) PROVE Extended \subseteq Extended' /\ UNCHANGED checkout
    <2>1. SentOnce /\ hook[h].pc = "queued" /\ hook[h].attempt \in 0 .. MaxRetries - 1
        BY <1>6 DEF PaidInv, Shape, HookRec, Emit
    <2>2. upgrade[<<h, hook[h].attempt>>].pc = "none"
        BY <2>1 DEF SentOnce
    <2>3. \A e \in Events : e # <<h, hook[h].attempt>> => upgrade'[e] = upgrade[e]
        BY <1>0, <1>6 DEF Emit, Shape
    <2> QED
        BY <1>6, <2>2, <2>3 DEF Emit, Extended
<1>7. ASSUME NEW e \in Events, Premium(e) \/ FailPremium(e)
      PROVE  Extended \subseteq Extended' /\ UNCHANGED checkout
    BY <1>0, <1>7
    DEF Premium, ReadUser, WriteUser, FailPremium, Shape, UpgradeRec, Extended
<1>8. ASSUME Lose PROVE Extended \subseteq Extended' /\ UNCHANGED checkout
    BY <1>0, <1>8 DEF Lose, Shape, UpgradeRec, Extended
<1>9. UNCHANGED checkout => Drawn \subseteq Drawn'
    BY DEF Drawn
<1>10. UNCHANGED upgrade => Extended \subseteq Extended'
    BY DEF Extended
<1>11. ASSUME NEW h \in Hooks, Receive(h) \/ Drop(h) \/ Settle(h) \/ FailSettle(h)
       PROVE  UNCHANGED <<checkout, upgrade>>
    BY <1>11 DEF Receive, Drop, Settle, FailSettle
<1>12. ASSUME Midnight \/ UNCHANGED vars PROVE UNCHANGED <<checkout, upgrade>>
    BY <1>12 DEF Midnight, vars
<1> QED
    BY <1>1, <1>2, <1>3, <1>4, <1>5, <1>6, <1>7, <1>8, <1>9, <1>10, <1>11, <1>12
    DEF Next, Checkout, Webhook

\* A higher bound is a bound.
LEMMA BoundsGrow ==
    ASSUME Shape, NEW m \in Nat, NEW n \in Nat, m <= n
    PROVE  /\ RowsBounded(m) => RowsBounded(n)
           /\ PremiumsBounded(m) => PremiumsBounded(n)
<1>1. /\ \A k \in Checkouts : checkout[k].expiry # None => checkout[k].expiry \in Nat
      /\ \A k \in Checkouts : trans[k] # None => trans[k].expiry \in Nat
    BY DEF Shape, CheckoutRec, Trans
<1>2. /\ \A u \in Users : user[u].expiry # None => user[u].expiry \in Nat
      /\ \A e \in Events : upgrade[e].expiry # None => upgrade[e].expiry \in Nat
    BY DEF Shape, UserRec, UpgradeRec
<1>3. Term \in Nat
    BY PremiumAssumption DEF PremiumAssumption
<1> QED
    BY <1>1, <1>2, <1>3 DEF RowsBounded, PremiumsBounded

\* What a request adds to the rows.
LEMMA RowsNext ==
    ASSUME PaidInv, NEW m \in Nat, NEW n \in Nat, RowsBounded(m), m <= n,
           [Next]_vars,
           \A k \in Checkouts : Find(k) => m + Term <= n /\ MaxDay + Term <= n
    PROVE  RowsBounded(n)'
<1>0. Shape /\ CheckoutsKept /\ HooksFollowSessions /\ RowsBounded(n)
    BY BoundsGrow DEF PaidInv
<1>1. ASSUME NEW k \in Checkouts, Ask(k) PROVE RowsBounded(n)'
    BY <1>0, <1>1 DEF Ask, Shape, CheckoutRec, RowsBounded
<1>2. ASSUME NEW k \in Checkouts, Find(k) PROVE RowsBounded(n)'
    <2>1. PICK r \in Checkouts, x \in Nat :
              /\ checkout' = [checkout EXCEPT ![k] = [@ EXCEPT !.pc = "save", !.row = r,
                                                               !.expiry = x]]
              /\ \/ x = today + Term
                 \/ trans[r] # None /\ x = trans[r].expiry + Term
        BY <1>2, Finds
    <2>2. x <= n
        <3>1. CASE x = today + Term
            BY <1>0, <1>2, <3>1, PremiumAssumption DEF Shape, Days, PremiumAssumption
        <3>2. CASE trans[r] # None /\ x = trans[r].expiry + Term
            <4>1. trans[r].expiry \in Nat /\ trans[r].expiry <= m
                BY <1>0, <3>2 DEF Shape, Trans, RowsBounded
            <4> QED
                BY <1>2, <3>2, <4>1, PremiumAssumption DEF PremiumAssumption
        <3> QED
            BY <2>1, <3>1, <3>2
    <2>3. UNCHANGED trans
        BY <1>2 DEF Find
    <2> QED
        BY <1>0, <2>1, <2>2, <2>3 DEF Shape, CheckoutRec, RowsBounded
<1>3. ASSUME NEW k \in Checkouts, Open(k) PROVE RowsBounded(n)'
    <2> DEFINE r == checkout[k].row
    <2>1. /\ checkout[k].pc = "save" /\ r \in Checkouts /\ checkout[k].expiry # None
        BY <1>0, <1>3 DEF Open, CheckoutsKept, CheckoutKept
    <2>2. checkout[k].expiry <= n
        BY <1>0, <2>1 DEF RowsBounded
    <2>3. trans'[r].expiry = checkout[k].expiry
        <3>1. CASE trans[r] = None
            BY <1>0, <1>3, <2>1, <3>1 DEF Open, Shape
        <3>2. CASE trans[r] # None
            <4>1. trans[r] \in Trans
                BY <1>0, <2>1, <3>2 DEF Shape
            <4> QED
                BY <1>0, <1>3, <2>1, <3>2, <4>1 DEF Open, Shape, Trans
        <3> QED
            BY <3>1, <3>2
    <2>4. \A j \in Checkouts : j # r => trans'[j] = trans[j]
        BY <1>0, <1>3, <2>1 DEF Open, Shape
    <2>5. \A j \in Checkouts : checkout'[j].expiry = checkout[j].expiry
        BY <1>0, <1>3 DEF Open, Shape, CheckoutRec
    <2> QED
        BY <1>0, <2>2, <2>3, <2>4, <2>5 DEF RowsBounded
<1>4. ASSUME NEW k \in Checkouts, FailCheckout(k) PROVE RowsBounded(n)'
    BY <1>0, <1>4 DEF FailCheckout, Shape, CheckoutRec, RowsBounded
<1>5. ASSUME NEW k \in Checkouts, Complete(k) PROVE RowsBounded(n)'
    BY <1>0, <1>5 DEF Complete, Shape, CheckoutRec, RowsBounded
<1>6. ASSUME NEW h \in Hooks, Settle(h) PROVE RowsBounded(n)'
    <2> DEFINE r == checkout[h[1]].row
    <2>1. h[1] \in Checkouts /\ checkout[h[1]].session \in Outcome
        BY <1>0, <1>6, HookParts DEF Settle, HooksFollowSessions
    <2>2. r \in Checkouts /\ trans[r] # None
        BY <1>0, <2>1, NoneAssumption DEF CheckoutsKept, CheckoutKept, NoneAssumption
    <2>3. trans[r] \in Trans
        BY <1>0, <2>2 DEF Shape
    <2>4. \A j \in Checkouts :
              trans'[j] # None => trans[j] # None /\ trans'[j].expiry = trans[j].expiry
        BY <1>0, <1>6, <2>2, <2>3 DEF Settle, Shape, Trans
    <2>5. UNCHANGED checkout
        BY <1>6 DEF Settle
    <2> QED
        BY <1>0, <2>4, <2>5 DEF RowsBounded
<1>7. CASE UNCHANGED <<checkout, trans>>
    BY <1>0, <1>7 DEF RowsBounded
<1> QED
    BY <1>1, <1>2, <1>3, <1>4, <1>5, <1>6, <1>7
    DEF Next, Checkout, Webhook, Premium, Receive, Emit, Drop, FailSettle, ReadUser,
        WriteUser, FailPremium, Midnight, Lose, vars

\* What an event adds to a premium.
LEMMA PremiumsNext ==
    ASSUME PaidInv, NEW m \in Nat, NEW n \in Nat, PremiumsBounded(m), m <= n,
           [Next]_vars, MaxDay <= m,
           \A e \in Events : WriteUser(e) => m + Term <= n
    PROVE  PremiumsBounded(n)'
<1>0. Shape /\ UpgradesPaid /\ CheckoutsKept /\ PremiumsBounded(n)
    BY BoundsGrow DEF PaidInv
<1>1. ASSUME NEW h \in Hooks, Emit(h) PROVE PremiumsBounded(n)'
    <2> DEFINE e == <<h, hook[h].attempt>>
    <2>1. /\ UNCHANGED user
          /\ \/ UNCHANGED upgrade
             \/ upgrade' = [upgrade EXCEPT ![e] = [pc |-> "queued", expiry |-> None,
                                                   user |-> checkout[h[1]].user,
                                                   attempt |-> 0]]
        BY <1>1 DEF Emit
    <2> QED
        BY <1>0, <2>1 DEF PremiumsBounded, Shape
<1>2. ASSUME NEW e \in Events, ReadUser(e) PROVE PremiumsBounded(n)'
    <2>1. upgrade[e].user \in Users
        <3>1. upgrade[e].user = checkout[e[1][1]].user /\ checkout[e[1][1]].session = "paid"
            BY <1>0, <1>2 DEF ReadUser, UpgradesPaid, UpgradePaid
        <3> QED
            BY <1>0, <3>1, EventParts, HookParts, NoneAssumption
            DEF CheckoutsKept, CheckoutKept, NoneAssumption, Outcome
    <2> DEFINE old == user[upgrade[e].user].expiry
               x == IF old # None THEN old + Term ELSE today + Term
    <2>2. x <= n + Term
        <3>1. CASE old # None
            BY <1>0, <1>2, <2>1, <3>1, PremiumAssumption
            DEF Shape, UserRec, PremiumAssumption, PremiumsBounded
        <3>2. CASE old = None
            BY <1>0, <1>2, <3>2, PremiumAssumption DEF Shape, Days, PremiumAssumption
        <3> QED
            BY <3>1, <3>2
    <2>3. /\ UNCHANGED user
          /\ upgrade' = [upgrade EXCEPT ![e] = [@ EXCEPT !.pc = "write", !.expiry = x]]
        BY <1>2 DEF ReadUser
    <2> HIDE DEF x
    <2> QED
        BY <1>0, <2>2, <2>3 DEF PremiumsBounded, Shape, UpgradeRec
<1>3. ASSUME NEW e \in Events, WriteUser(e) PROVE PremiumsBounded(n)'
    <2>1. \A f \in Events : upgrade'[f].expiry = upgrade[f].expiry
        BY <1>0, <1>3 DEF WriteUser, Shape, UpgradeRec
    <2>2. \A u \in Users : user'[u].expiry \in {user[u].expiry, upgrade[e].expiry}
        BY <1>0, <1>3 DEF WriteUser, Shape
    <2>3. upgrade[e].expiry # None /\ upgrade[e].expiry \in Nat
        BY <1>0, <1>3 DEF WriteUser, UpgradesPaid, UpgradePaid, Shape, UpgradeRec
    <2>4. upgrade[e].expiry <= n
        BY <1>3, <2>3, PremiumAssumption DEF PremiumsBounded, PremiumAssumption
    <2> QED
        BY <1>0, <2>1, <2>2, <2>4 DEF PremiumsBounded
<1>4. ASSUME NEW e \in Events, UNCHANGED user, upgrade' = [upgrade EXCEPT ![e].pc = "lost"]
      PROVE  PremiumsBounded(n)'
    BY <1>0, <1>4 DEF Shape, UpgradeRec, PremiumsBounded
<1>5. ASSUME NEW e \in Events, FailPremium(e)
      PROVE  PremiumsBounded(n)'
    <2>1. UNCHANGED user
        BY <1>5 DEF FailPremium
    <2>2. \A f \in Events : upgrade'[f].expiry \in {upgrade[f].expiry, None}
        <3>1. CASE upgrade' = [upgrade EXCEPT ![e] =
                      [@ EXCEPT !.pc = "queued", !.expiry = None,
                                !.attempt = upgrade[e].attempt + 1]]
            BY <1>0, <3>1 DEF Shape, UpgradeRec
        <3>2. CASE upgrade' = [upgrade EXCEPT ![e].pc = "lost"]
            BY <1>0, <3>2 DEF Shape, UpgradeRec
        <3> QED
            BY <1>5, <3>1, <3>2 DEF FailPremium
    <2> QED
        BY <1>0, <2>1, <2>2 DEF PremiumsBounded
<1>6. CASE UNCHANGED <<user, upgrade>>
    BY <1>0, <1>6 DEF PremiumsBounded
<1> QED
    BY <1>1, <1>2, <1>3, <1>4, <1>5, <1>6
    DEF Next, Checkout, Webhook, Premium, Receive, Drop, Settle, FailSettle, Ask, Find, Open,
        FailCheckout, Complete, Midnight, Lose, vars

LEMMA BoundedInit == Init => ExpiryBounded
BY DEF Init, ExpiryBounded, RowsBounded, PremiumsBounded

LEMMA BoundedNext == PaidInv /\ ExpiryBounded /\ [Next]_vars => ExpiryBounded'
<1> SUFFICES ASSUME PaidInv, ExpiryBounded, [Next]_vars PROVE ExpiryBounded'
    OBVIOUS
<1>0. Shape
    BY DEF PaidInv
<1>1. RowsBounded(Until(Cardinality(Drawn)))'
    <2>1. /\ IsFiniteSet(Checkouts)
          /\ Drawn \subseteq Drawn' /\ Drawn' \subseteq Checkouts
        BY Grows, PremiumAssumption DEF Drawn, PremiumAssumption
    <2>2. PICK a \in Nat, b \in Nat :
              a = Cardinality(Drawn) /\ b = Cardinality(Drawn') /\ a <= b
        BY <2>1, Growth
    <2>3. ASSUME NEW k \in Checkouts, Find(k) PROVE a + 1 <= b
        <3>1. PICK r \in Checkouts, x \in Nat :
                  checkout' = [checkout EXCEPT ![k] = [@ EXCEPT !.pc = "save", !.row = r,
                                                                !.expiry = x]]
            BY <2>3, Finds
        <3>2. k \in Drawn' /\ k \notin Drawn
            BY <1>0, <2>3, <3>1 DEF Find, Shape, CheckoutRec, Drawn
        <3> QED
            BY <2>1, <2>2, <3>2, Growth
    <2>4. /\ Until(a) \in Nat /\ Until(b) \in Nat /\ Until(a) <= Until(b)
          /\ \A k \in Checkouts : Find(k) => /\ Until(a) + Term <= Until(b)
                                            /\ MaxDay + Term <= Until(b)
        <3>1. ASSUME a + 1 <= b PROVE Until(a) + Term <= Until(b) /\ MaxDay + Term <= Until(b)
            <4>1. Until(a) + Term <= Until(b) /\ MaxDay <= Until(a) /\ Until(a) \in Nat
                  /\ Until(b) \in Nat
                BY <2>2, <3>1, UntilGrows
            <4> QED
                BY <4>1, PremiumAssumption DEF PremiumAssumption
        <3> QED
            BY <2>2, <2>3, <3>1, UntilGrows
    <2>5. RowsBounded(Until(a))
        BY <2>2 DEF ExpiryBounded
    <2>6. RowsBounded(Until(b))'
        BY <2>4, <2>5, RowsNext
    <2> QED
        BY <2>2, <2>6
<1>2. PremiumsBounded(Until(Cardinality(Extended)))'
    <2>1. Extended \subseteq Extended' /\ Extended' \subseteq Events
        BY Grows DEF Extended
    <2>2. PICK a \in Nat, b \in Nat :
              a = Cardinality(Extended) /\ b = Cardinality(Extended') /\ a <= b
        BY <2>1, Growth, EventsFinite
    <2>3. ASSUME NEW e \in Events, WriteUser(e) PROVE a + 1 <= b
        <3>1. e \in Extended' /\ e \notin Extended
            BY <1>0, <2>3 DEF WriteUser, Shape, UpgradeRec, Extended
        <3> QED
            BY <2>1, <2>2, <3>1, Growth, EventsFinite
    <2>4. /\ Until(a) \in Nat /\ Until(b) \in Nat /\ Until(a) <= Until(b)
          /\ MaxDay <= Until(a)
          /\ \A e \in Events : WriteUser(e) => Until(a) + Term <= Until(b)
        <3>1. ASSUME a + 1 <= b PROVE Until(a) + Term <= Until(b)
            BY <2>2, <3>1, UntilGrows
        <3> QED
            BY <2>2, <2>3, <3>1, UntilGrows
    <2>5. PremiumsBounded(Until(a))
        BY <2>2 DEF ExpiryBounded
    <2>6. PremiumsBounded(Until(b))'
        BY <2>4, <2>5, PremiumsNext
    <2> QED
        BY <2>2, <2>6
<1> QED
    BY <1>1, <1>2 DEF ExpiryBounded

LEMMA BoundedIsTyped == PaidInv /\ ExpiryBounded => TypeOK
<1> SUFFICES ASSUME PaidInv, ExpiryBounded PROVE TypeOK
    OBVIOUS
<1> DEFINE d == Cardinality(Drawn)
           x == Cardinality(Extended)
           c == Cardinality(Checkouts)
           v == Cardinality(Events)
           top == MaxDay + Term * (v + c + 1)
<1>0. Shape
    BY DEF PaidInv
<1>1. d \in Nat /\ c \in Nat /\ d <= c /\ x \in Nat /\ v \in Nat /\ x <= v
    <2>1. Drawn \subseteq Checkouts /\ Extended \subseteq Events
        BY DEF Drawn, Extended
    <2>2. d \in Nat /\ c \in Nat /\ d <= c
        BY <2>1, Growth, PremiumAssumption DEF PremiumAssumption
    <2>3. x \in Nat /\ v \in Nat /\ x <= v
        BY <2>1, Growth, EventsFinite
    <2> QED
        BY <2>2, <2>3
<1> HIDE DEF d, x, c, v
<1>2. top \in Nat /\ top = Until(v + c + 1)
    BY <1>1, UntilGrows DEF Until
<1>3. /\ Until(d) \in Nat /\ Until(d) <= top
      /\ Until(x) \in Nat /\ Until(x) + Term <= top
    <2>1. /\ d <= v + c + 1 /\ x + 1 <= v + c + 1
          /\ x + 1 \in Nat /\ v + c + 1 \in Nat
        BY <1>1
    <2>2. Until(x + 1) = Until(x) + Term
        BY <1>1, UntilGrows
    <2>3. Until(d) <= top /\ Until(x + 1) <= top
        BY <1>1, <1>2, <2>1, UntilGrows
    <2> QED
        BY <1>1, <2>2, <2>3, UntilGrows
<1> HIDE DEF top
<1>4. /\ RowsBounded(top)
      /\ \A u \in Users : user[u].expiry # None => user[u].expiry <= top
      /\ \A e \in Events : upgrade[e].expiry # None => upgrade[e].expiry <= top
    <2>1. RowsBounded(Until(d)) /\ PremiumsBounded(Until(x))
        BY DEF ExpiryBounded, d, x
    <2>2. RowsBounded(top)
        BY <1>0, <1>2, <1>3, <2>1, BoundsGrow
    <2>3. /\ \A u \in Users : user[u].expiry # None => user[u].expiry \in Nat
          /\ \A e \in Events : upgrade[e].expiry # None => upgrade[e].expiry \in Nat
        BY <1>0 DEF Shape, UserRec, UpgradeRec
    <2> QED
        BY <1>2, <1>3, <2>1, <2>2, <2>3, PremiumAssumption
        DEF PremiumsBounded, PremiumAssumption
<1>5. Expiry = 0 .. top
    BY DEF Expiry, top, v, c
<1>6. user \in [Users -> [premium : BOOLEAN, expiry : Expiry \cup {None}]]
    <2> SUFFICES ASSUME NEW u \in Users
                 PROVE  user[u] \in [premium : BOOLEAN, expiry : Expiry \cup {None}]
        BY <1>0 DEF Shape
    <2> QED
        BY <1>0, <1>2, <1>4, <1>5 DEF Shape, UserRec
<1>7. trans \in [Checkouts -> [user : Users, status : Status, expiry : Expiry] \cup {None}]
    <2> SUFFICES ASSUME NEW k \in Checkouts, trans[k] # None
                 PROVE  trans[k] \in [user : Users, status : Status, expiry : Expiry]
        BY <1>0 DEF Shape
    <2> QED
        BY <1>0, <1>2, <1>4, <1>5 DEF Shape, Trans, RowsBounded
<1>8. checkout \in [Checkouts ->
           [pc : {"idle", "find", "save", "done", "failed"}, user : Users \cup {None},
            row : Checkouts \cup {None}, expiry : Expiry \cup {None},
            session : Outcome \cup {"open", "expired", None}]]
    <2> SUFFICES ASSUME NEW k \in Checkouts
                 PROVE  checkout[k] \in
           [pc : {"idle", "find", "save", "done", "failed"}, user : Users \cup {None},
            row : Checkouts \cup {None}, expiry : Expiry \cup {None},
            session : Outcome \cup {"open", "expired", None}]
        BY <1>0 DEF Shape
    <2> QED
        BY <1>0, <1>2, <1>4, <1>5 DEF Shape, CheckoutRec, RowsBounded
<1>9. upgrade \in [Events -> [pc : {"none", "queued", "write", "done", "lost"},
                              user : Users \cup {None}, expiry : Expiry \cup {None},
                              attempt : 0 .. MaxRetries - 1]]
    <2> SUFFICES ASSUME NEW e \in Events
                 PROVE  upgrade[e] \in [pc : {"none", "queued", "write", "done", "lost"},
                              user : Users \cup {None}, expiry : Expiry \cup {None},
                              attempt : 0 .. MaxRetries - 1]
        BY <1>0 DEF Shape
    <2> QED
        BY <1>0, <1>2, <1>4, <1>5 DEF Shape, UpgradeRec
<1> QED
    BY <1>0, <1>6, <1>7, <1>8, <1>9 DEF Shape, HookRec, TypeOK

\* Every variable keeps its type; in particular no expiry gets further than one term for
\* each request or upgrade that extended it.
THEOREM TypeCorrect == Spec => []TypeOK
<1>1. Spec => []ExpiryBounded
    BY BoundedInit, BoundedNext, PaidAlways, PTL DEF Spec
<1> QED
    BY <1>1, BoundedIsTyped, PaidAlways, PTL
=============================================================================
