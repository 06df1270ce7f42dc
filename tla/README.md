# Jobify: a TLA+ model of its services

Jobify is a job board: a NestJS gateway in front of eighteen microservices that
talk over RabbitMQ and share one MySQL database, Elasticsearch indexes, Redis,
Stripe and Twilio. Its handlers are ordinary `async` functions. What makes them
hard is what lies between two `await`s: other handlers of the same service, other
services, the cron jobs (each registered twice), and the failures of a broker, a
database and an index that share no transaction.

This directory holds TLA+ modules for the parts of the system that decide
something, TLC configurations that check them on small instances, and TLAPS proofs
about them for instances of any size.

## 1. Inventory

Facts of the whole system that every module relies on:

* **Handlers interleave at every `await`.** RabbitMQ delivers without a prefetch
  limit and without acknowledgements, so a service runs any number of handlers at
  the same time and loses what it has taken when it crashes.
* **`send` is a call, `emit` is not.** `lastValueFrom(client.send(...))` waits for
  the answer without a timeout; `client.emit(...)` only puts an event in a
  non-durable queue. Events sent inside a transaction are not undone by its
  rollback and are sent again by a retry.
* **Every handler is one transaction** (`executeTransaction`), at InnoDB's
  REPEATABLE READ: its reads come from the snapshot of its first read, overlaid with
  its own writes, its `UPDATE`s lock rows and change their last committed version.
* **Each service is initialised twice** (`createApplicationContext` and
  `createMicroservice` in `main.ts`): cron jobs and startup syncs exist twice.

| Component | State | Operations | Talks to | What is hard | Correct when |
|---|---|---|---|---|---|
| Transactions provider | connections, attempts | `executeTransaction` | every service | nested calls, lost `COMMIT`, pool | effects at most once, every call answered, no connection lost |
| Applications | application rows, index | apply, review, edit, delete | jobs, users (calls), users (quota events), notifications | check-then-insert, quota in another service, batches that lock each other | one live application per job, quota charged and refunded once, index follows rows |
| Jobs | job rows, index, saved jobs, companies | create, process, update, delete, expire (cron) | users, notifications | concurrent decisions, stale `save`, notifications before commit | a job is decided once, updates are stored, expired jobs close |
| Payments | transaction rows, index | checkout, webhook, reminder (cron) | Stripe, users, notifications | webhook answered before it is handled, repeated deliveries, renewal races | premium exactly for what was paid, as long as was paid |
| Users | user rows, quotas, premium, roles, index | register, verify, update, delete, premium, limits, roles | all | events applied concurrently, rows and documents without a common transaction, parallel saves on one connection | counts and premium follow the events, search shows the rows |
| Auth | OTPs, attempts, devices, refresh tokens, TOTP secrets | sign-up, login, OTP, devices, 2FA, refresh, sign out | users, redis, emails, sms | keys in a cache without transactions, rows set by unordered events | who persists gets in, no old code revives, who is logged in stays so |
| Interviews | interview rows, index | create, update, delete, admin's and candidate's decisions, reminder (cron) | users, jobs, notifications | two connections in one handler, two transactions in one request | decisions announced, an answer never overrides what it could have seen |
| Messages | conversations, messages, index | create, read, update, delete | users, notifications | read-modify-write of documents | document equals row |
| Notifications | notifications, user notifications | create, read, delete | users | find-or-create | one notification per kind |
| Reviews | review rows, index | create, update, delete | jobs (companies), notifications | document written before the row, deletion of the author | index follows rows |
| Reports | BullMQ flow | generate, upload, send | jobs, uploads, emails | queue shared by two services, files shared by a day, a failed step | what completed was sent, a report is as new as its request |
| Startup sync | indexes | bulk index at start | Elasticsearch | against the handlers and itself | index follows rows |
| Redis, gateway cache | keys | set, get, delete | gateway, auth | patterns that match nothing | no stale answer after a change |
| Emails, SMS, uploads | BullMQ jobs, files | send, upload | Twilio, mail, object store | stalled jobs, retries | what completed was sent, every job ends |
| Admin, search, health | none | queries | | | |

`PROJECT.json` lists the components with their status, and the hazards with the line
where each one bites and the property that would catch it.

## 2. Plan

Order of work, most important behaviour first; what is marked done is in this directory.

1. `ApplicationQuota` - applying, reviewing and the quota events (done, proved).
2. `TransactionsProvider`, an implementation of the abstract `CommitOnce` (done, proved).
3. `JobLifecycle` - the life of a job (done, proved).
4. `PremiumPlan` - checkout, webhook, upgrade, reminder (done, proved).
5. `SearchDocuments` - users and reviews, their documents and the startup sync against the
   handlers (done, proved).
6. `AccountAccess` - codes, attempts, devices, two-factor authentication, refresh tokens
   (done, proved).
7. `InterviewLifecycle` - the decisions of recruiter, administrator and candidate, and the
   insert over two connections (done, proved).
8. `BackgroundJobs` - the BullMQ queues of emails, SMS and reports, and the workers of two
   services that share one of them (done, proved).
9. (Open, as are the next ones.) `RoleAssignment` - parallel saves of a batch on one connection.
10. `FindOrCreate` - the check-then-insert handlers: saved jobs, companies,
    requirements, notifications.
11. `GatewayCache`, and the rest of the applications, jobs and payments services (editing and
    deleting applications, companies, saved jobs, their sync).
12. A composition of `JobLifecycle` and `ApplicationQuota` over the closing of a job.

Theorems: every invariant and every action property that a passing run checks, and the
refinement of `CommitOnce`, are proved for any values of the constants (section 6); liveness
stays with TLC. What is worth proving next: that the rows and transactions of `JobLifecycle`,
`InterviewLifecycle` and `SearchDocuments` implement one abstract specification of
InnoDB's row locks, which would state once what the three invariants repeat.

## 3. Modules

### ApplicationQuota

Models `handleCreateApplication` (with `createApplication` and `updateApplication`, the
nested transactions), `handleProcessApplications` with
`handleGenerateProcessApplications`, the search index, and `handleUpdateUserLimit` and
the quota part of `handleUpdatePremium` in the users service.

| Variable | In the code |
|---|---|
| `status`, `index` | the `application` table and its Elasticsearch index |
| `accepting` | what `verify-job` answers of a job |
| `count` | `application_applied_count` of a user |
| `apply`, `review` | the handlers that run, with what they have read |
| `queue`, `worker` | `update-user-limit` and premium events, and their handlers |
| `filed`, `emitted`, `handled`, `upgraded` | histories the properties speak of |

An action is the code between two `await`s that others can observe. Lock waits end in a
retry (three attempts) or an error. A review sends its refunds after the last row lock of the
batch and right before the commit, so that an attempt which is retried has sent none. A refund
is identified by its review and application (`origin`), and `NeverOvercredited` counts those
that were handled. `filed` are the requests whose nested transaction committed: to file again an
application whose row was deleted after it was read stores nothing, and is charged all the same.

### TransactionsProvider and CommitOnce

`executeTransaction`, statement by statement, for any number of concurrent executions;
an execution with a `Parent` is a handler called from another one's operation. The pool
(mysql2) is first come first served, without a limit on the wait. `connect()` and
`startTransaction()` come before the `try` block, and both can fail: a call whose connect fails
ends there (`FailConnect`), and one whose begin fails ends without giving its connection back
(`FailBegin`, "stranded"), unless the pool itself notices that the connection was lost. What
fails inside the block is rolled back, which can fail again (`FailRollback`), and released.
`CommitOnce` is what a caller may count on: the transaction takes effect at most once, before
the answer, and "ok" is answered only after it did. The refinement mapping takes the
executions without a parent as the requests, `commits` as the effects, and the `done`, `failed`
and `stranded` states as the answers.

### JobLifecycle

`handleCreateJob`, `handleProcessJobs`, `handleUpdateJob`, `handleDeleteJob` and the cron
job `handleUpdateExpiredJobs`. `row` is the committed table, `tx[t].snap` the snapshot of
transaction `t` and `tx[t].own` the rows it has written and locked; `View` is what its
`SELECT` returns and `Current` what its `UPDATE` changes. `Restore` is the `save(job)` of the
entity that was read before the `UPDATE`: TypeORM compares it with the row and writes
back every column that differs. `Init` allows any rows earlier requests can have left.
The content of a posting is one value; requirements appear only as the fact that an
update names a new one, for that is when the stale `save` happens. `Rank` is the order in
which a `SELECT` returns jobs: both cron jobs close what they find in that order, while the
batch of an administrator comes in any order.

### PremiumPlan

`handleCreateCheckoutSession`, the gateway's webhook, `handleStripeWebhook`,
`handleUpdatePremium` and the reminder. A checkout, its Stripe session and the row it may
create share an identity. Every delivery of an event is a `hook`, every attempt of its
handler sends its own `update-premium` event. Stripe is external: it completes or ends a
session and delivers an event up to `MaxDeliveries` times. It is answered by the gateway, before
anything is done: a delivery whose transaction cannot be begun is dropped (`Drop`), and an
upgrade that fails in the users service (`FailPremium`: no such user, a database error, or a
lock conflict of the last attempt) is lost. Failures (`MaxFailures`) need no crash; a crash
(`Lose`) is counted apart. That "no such user" strikes at any time allows for deletions, which the
module does not have.

### SearchDocuments

`createUser`, `handleCreateSocialAccount`, `handleUpdateUser`, `handleUpdatePremium` (for
what it leaves out of the index), `handleDeleteUser`, `handleCreateReview`,
`handleUpdateReview`, `handleDeleteReview`, and the sync of both services at their start.
Transactions are as in `JobLifecycle`, one handler of a `kind` at a time in each of
`Requests`; a slot is used again when its handler has ended, so that a run contains
sequences of any length.

| Variable | In the code |
|---|---|
| `row` | the `user` and `review` tables |
| `doc` | the `users` and `reviews` indexes |
| `born` | the ids that were given, by `save` |
| `tx` | the handlers that run: program point, kind, item, snapshot, own writes |
| `stale` | history: items whose document was written by a transaction that was rolled back |

What an item shows is a `content` (what was typed) and `premium` (a column in the document
that changes without it). Three locks matter and are in `Blocked`: the unique key of
the email makes an insert wait for another insert or deletion (`Pending`), the foreign key of
a review makes the author's row wait (`Referenced`), and a deletion takes the reviews of
the user with it (`Cascade`). Signing up by the page is `register`, by an administrator `enlist`,
by a social login `social`; only the first two are indexed.

### AccountAccess

`createUser` as the gateway's `handleSignup` calls it, `handleLogin`, `verifyOtp` with its two
callers `handleVerifyOtp` and `handleVerifyNewDevice`, `handleCreateDevice`,
`handleForgetPassword` as the way to have a code sent again, `handleRefreshToken`,
`handleSignout`, `generateSecret`, `handleVerify2Fa` and `handleLogin2Fa`, and the events by which
the users service learns of them.

| Variable | In the code |
|---|---|
| `account`, `devices` | the `user` row (`is_email_verified`, `is_two_factor_enabled`) and its trusted devices, with the one seen last |
| `otp`, `tries`, `session` | the keys `<email>:otp`, `<email>:otp-attempts`, `<email>:refresh-token` |
| `redis` | messages to the redis service, which handles them one by one |
| `mail`, `inbox` | codes on their way, and the last one a user has read |
| `events` | `create-new-device`, email verified, 2FA enabled or disabled: handled in any order |
| `secret`, `app` | the TOTP secret that is stored, and the one in the authenticator |
| `req` | the request of a client; of a user, also what the last answer asked for (`aim`) |
| `entitled` | history: who has been given a refresh token and has not signed out |

A read of a key and the write that depends on it are two actions, for the cache manager has no
transactions. The auth service writes keys by the cache manager and the redis service by its
own client, and whether the two agree on the name and encoding of a key depends on the
store's version: the model allows both. The redis service is taken to be up. A user's
sign-up is taken for the device `Origin[u]`, which need not be the one the user logs in with
(`Own[u]`), and a code goes by the channel of the device seen last (`Channel`).

### InterviewLifecycle

`handleCreateInterview`, `handleUpdateInterview`, `handleDeleteInterview`,
`handleProcessInterviews` (the administrator: one transaction for the approvals, one for the
rejections), the candidate's answers, and the sync at the start. `row`, `tx[r].snap` and
`tx[r].own` are as in `JobLifecycle`; `doc` says which interviews are in the index;
`notices` are the notifications sent, which no rollback takes back. The recruiter of a new
interview is set by the query builder over another connection than the one of the transaction
that inserts it: that statement waits for the lock of the insert, the handler waits for the statement,
and only the lock timeout ends it (`Insert`, `Conflict`). `NoOrphan` therefore holds at a price:
nobody sees an interview without a recruiter, because no insert gets as far as its commit.

### BackgroundJobs

The queues of emails, SMS, reports and uploads, `createReportFlow`, the processors of the four
services, and the emails processor of the reports service, which serves the same queue as
the one of the emails service.

| Variable | In the code |
|---|---|
| `state`, `made`, `by`, `stalled` | where a BullMQ job is, its failed attempts, its worker, whether it stalled before |
| `format`, `asked`, `data` | the request for a report, the version of the data then and now |
| `held`, `flushing`, `file`, `store` | what a generator has read, PDFs still being written, the file of the day and the uploaded one |
| `sent` | history: emails and SMS sent, with the version attached |

BullMQ itself is external: a worker takes a waiting job, an error counts an attempt and delays
the job, a stalled job is run again once, a parent waits for its children and goes on waiting
when one has failed. `Serves` gives each worker its processor.

## 4. Runs

Bounds are small but let every interesting overlap happen; two of everything suffices
for a race between two handlers, and the third party of each race (cron job, pool,
event handler, redis queue) is present where the code has it.

| Run | Shows | Instance |
|---|---|---|
| `quota_events` | quota charged and refunded at most as often as it should, a rejection is refunded, index follows rows | one candidate, two requests, a review of any two batches, events handled by two workers, an upgrade, restarts |
| `quota_end` | apply and review requests end in spite of deadlocks | two apply requests, two reviews of the rows in any order, two attempts; no event is handled |
| `quota_exceeded` | violation: more applications than the limit | two requests, limit one |
| `tx_commit_once` | the provider implements `CommitOnce`; nested calls once per attempt; no connection lost but by a begin that fails; every call is answered unless the pool stays short | two calls with a nested one each, pool of three, two attempts; a third call without a nested one, and then one attempt |
| `job_decisions` | decisions are announced, and replaced only by requests that began before; a job is closed only by who asked for it or found it expired, or by an update that restores what it read | one job in any state, two requests, a cron job, a failure, two attempts |
| `job_end` | requests end; expired jobs close | two jobs, both cron registrations, one request that locks the same rows, a failure |
| `premium` | premium and SUCCESS only for a paid session; who pays becomes premium, unless every delivery was dropped or its upgrade lost | one user, one session announced twice, two attempts; two checkouts and a failure or a crash, or one checkout with three failures and a crash |
| `search_found` | search shows the stored content; who signed up is found; nobody is shown as premium who is not; a deleted user is gone when the deletion commits | two users who want one email, one of them by a social login, a review, two handlers at a time, a failure or restart |
| `account_access` | no false refusal of a refresh; a code that is gone stays gone; who persists gets in | one user, three devices (email, SMS, no channel), two attempts, two secrets; a sign-up with one other client, three codes and a mishap, or an old account with two others and four codes |
| `interviews` | decisions and results were announced, nobody is without a recruiter, answers respect what they have seen, requests end | two interviews, two requests of any kind and role, a failure, two attempts |
| `jobs_settle` | what completed was sent, a CSV report is as new as its request, every job ends or waits for one that failed | an email, an SMS, a report, a worker of each of the five processors, two attempts, a change of data, a mishap |
| `report_lost` | violation: a report that is never sent | the same without a mishap |

Deadlock is not checked: requests are finite in number, and when all have been
answered the model stops, as the system does when nobody asks. That everything
ends that should is what the liveness properties show.

Days in `PremiumPlan` are scaled (a term and a lag of one day, a window of none): the
properties compare them and never count on thirty. In `AccountAccess` five attempts are scaled
to two, in `BackgroundJobs` and the transactions three attempts to two: the last attempt,
the one before it and the refusal after it are all there.

**Fairness.** A handler that has started goes on (its awaits end; a lock wait ends by
`innodb_lock_wait_timeout`; the broker delivers), the pool and the redis service serve their
queues, workers take the jobs that wait for them and delays end, the cron jobs run every
midnight, Stripe delivers an event once at least. No other request has to come, no
failure has to happen, and no time has to pass. Failures are bounded by constants,
for a system that always fails promises nothing. `GetsIn` alone assumes something of a person:
a user who wants in reads the mail and does what the last answer asks for (with a code of the
authenticator that is refused, the user logs in again, for somebody may have switched
two-factor authentication off meanwhile); the other clients of the account are under no
obligation. What it promises excludes the three ways to be locked out that the code has
(`LockedOut`): a device that was never stored, a code with no channel, and an authenticator whose
secret was never stored. Signing up is checked against one other client, an account that is there
already against two (`company` in `MCAccountAccess`), since one of them can switch two-factor
authentication off while the other replaces the secret; a sign-up against two has more states
than TLC gets through in the time of a run. `FewMishaps` and `OneAttempt` are bounds of the same
kind: what is rare on its own is checked in full, its combinations only in part.

**The pool.** `CallsEnd` promises an answer unless the pool becomes and stays `Short`: what
failing begins have left of it is no more than the calls under way that nest. Each of those can
keep a connection while it waits for the nested call's; no timeout ends that wait (mysql2's
queue has none), and no attempt is counted. With three connections and two such calls the
pool is never short until a begin fails; after two of them one connection is left, and
calls are still answered as long as none of them nests. `PoolSize` must therefore exceed the number
of nesting calls for the promise to hold at all, and nothing in the code sees to that.

## 5. Where the code disagrees with its own texts

The violation runs show two disagreements; `PROJECT.json` quotes each text and names
the line: `quota_exceeded`, where two requests that read the quota before either is charged
are both accepted, and `report_lost`, where the emails service, which serves the same queue
as the reports service, takes the last job of a report and has no template for it.

The behaviours below were met on the way. Those of the handlers that section 3 names are
behaviours of the modules as well; they take a few steps, and no run is spent on them.

* `applications.service.ts:117` "You have applied for this position." Two requests that
  both reach the `findOne` of line 105 before either inserts are both stored.
* `applications.service.ts:81` "... has been closed or has expired, so you cannot apply for
  this job." The job can be closed between `verify-job` (line 61) and the insert (line 903).
* `jobs.service.ts:320` "... has already been processed and cannot be processed again."
  Two overlapping requests both read the job undecided, and the second decision overturns
  the first one. `NoKnownReversal` states what does hold.
* `notificationTypes.constant.ts:125` "Please review and update your job details." The update
  (`jobs.service.ts:756`) leaves `cancel_reason` and `cancelled_by`, so a rejected job can
  never be decided again.
* `notificationTypes.constant.ts:119` "... has been approved by an admin and is now live." It is
  sent (`jobs.service.ts:368`) before the rejections of the same request are checked; a refusal
  there rolls the approvals back.
* `jobs.controller.ts:284` "Update existing job with some provided data." An update writes the columns
  and then saves the entity it had read before (`jobs.service.ts:811`), when it names a new
  requirement: TypeORM writes back every column that differs, so the update undoes itself.
* `jobs.service.ts:155` "You have exhausted your job posting limit." Nothing decreases
  `job_posted_count` when a job is posted.
* `notificationTypes.constant.ts:164` "valid for 30 days from today!" `handleUpdatePremium`
  (`users.service.ts:969`) extends the old expiry, even one in the past.
* `notificationTypes.constant.ts:170` "about to expire". The cron job (`payments.service.ts:60`)
  looks for the packages that expired two days ago.
* `payments.service.ts:120` "Please wait at least 3 days before the expiration date". The window is
  checked when a session is opened, not when it is paid; two sessions opened first both pass.
* `notificationTypes.constant.ts:170` "Please renew to continue enjoying exclusive benefits."
  `premium.guard.ts:22` looks at `is_premium`, which nothing resets.
* `payments.controller.ts:58` "Updated transaction from Stripe Webhook successfully." The gateway
  emits the event and answers Stripe at once (`payments/payments.service.ts:21`). If the settlement
  fails (`payments.service.ts:259`) the row stays PENDING, and Stripe does not deliver again.
* `payments.service.ts:174` "duration: '1 month'" is what every package is sold with. Two `update-premium`
  events that overlap read the same expiry (`users.service.ts:953`) and write the same one (line
  979): the second package that was paid for adds nothing.
* The gateway (`payments/payments.service.ts:21`) answers Stripe before the payments service has begun. If the
  transaction there cannot be begun (`payments.service.ts:206`) or `update-premium` fails in the users
  service (line 949), nothing tries again, and what was paid for is never granted, although
  no service has crashed. `PaymentGrants` states what does hold.
* `transactions.provider.ts:18` `startTransaction()` is outside the `try` block: when it fails, `release()`
  is not called, and the pool has one connection less until the service is started again. A
  failing `ROLLBACK` (line 25) hides the error that led to it, so that a lock conflict is then not
  retried.
* `users.controller.ts:182` "User created successfully." The gateway (`users.service.ts:29`) sends no
  metadata of the client, and `createUser` destructures it (line 319) after it has indexed the
  user: the handler throws, the row is rolled back, and the document of a user who
  does not exist stays (`Notify` in `SearchDocuments`).
* `users.service.ts:838` "deleted successfully." An update that read the user before goes on
  after the deletion: its `UPDATE` changes no row, and line 699 indexes the user again.
* `reviews.controller.ts:233` "Review deleted successfully!" The handler does not load the author whom it
  compares (`reviews.service.ts:326`), so that it throws for a candidate; for an administrator
  it needs the document, which a new review does not have until it is updated or the
  service is started again.
* `reviews.service.ts:350` deletes the row after the document (line 345): if a lock conflict or a failure
  comes between them, the review has no document and its deletion is refused as not found.
* `messages.service.ts:203` reads `newMessage.conversation.id`, a relation that was not loaded: no
  message can be stored, which is why there is no module of messages.
* `auth.service.ts:783` "attempt(s) remaining". After the fourth wrong code one attempt is said to remain, but
  the fifth is refused even if it is right (line 757 comes first, lines 788-797 are never
  reached). Attempts that overlap are counted once, and two requests that overlap can both use
  one code; the deletes of lines 728 and 730 can take out a newer code.
* `auth.controller.ts` of the gateway, forgot password: a code is sent, and no route sets a new password.
* Sign-up stores its code by the redis service (`users.service.ts:347`), with a TTL of 600000 that
  is in seconds there, and without the encoding the cache manager of the auth service
  expects; the user needs a second code.
* A second `2fa/generate` shows a secret that is not the stored one: codes from it are refused.
  `create-new-device` lost on its way leaves a user with "No last known device", and a last
  device that is a telephone without a number, or neither kind, a code that is stored and not sent.
* An OTP is used up before the transaction that trusts the device (`auth.service.ts:534`): a retry of that
  transaction is told that the code has expired.
* A social login stores no refresh token the second time; sign-up takes the fingerprint from
  another address than the login (`users.service.ts:323`).
* `interviews.service.ts:68` looks for the interviews of two days ago, in place of those two days ahead, and
  sends the reminder twice, once for each instance of the service.
* `interviews.service.ts:232` sets the recruiter over another connection than the insert: creating an
  interview ends in a lock timeout. For an administrator the check for an existing interview
  (line 196) looks for the candidate's id as the recruiter, and an update (line 391) asks that the
  administrator be the recruiter.
* `interviews.service.ts:553` sends `description` where the notifications service reads `message`; the
  notification of a cancelled interview cannot be stored.
* The approvals of an administrator's request stay when its rejections fail: they are two
  transactions. Decisions on interviews have no status guard and do not reach the index, and an
  update leaves `cancel_reason` and `cancelled_by`. An update that overlaps a deletion indexes an
  interview that is gone; a deletion retried after its document has gone is refused.
* `pdf-report.strategy.ts` returns the path before the file is written. Reports of a day share their file
  and its name in the store. A report whose generation failed leaves its parent waiting for ever, and an email
  of any service can use up its attempts in the worker of the reports service. The sums of a report
  (`jobs.service.ts:1364`) count a row once per joined row.
* `users.service.ts:1487` and 1489: the saves of a batch of roles run in parallel on one connection. One that is
  refused makes the transaction roll back, and a save still pending runs after the `ROLLBACK` and is
  committed on its own.
* `applications.controller.ts:41` does not take the user of `delete-application` from the message, so
  that the handler has none and deleting an application fails.
* `jobs.service.ts:646` deletes the document of a job before its row, as the deletion of a review does, and
  an update that overlaps a deletion (line 827) indexes a job that is gone. Two requests that
  create the same job (line 185) both find none.
* `notifications.service.ts:67`: one user of an event who has been deleted makes the whole event fail, and
  nobody is notified.
* `premium_expiry` and `is_premium` change at `users.service.ts:981` without the document.
  `ShownPremiumIsStored` states what does hold: search never shows more than there is.

## 6. Proofs

Each module has its proofs in a module of its own (`ApplicationQuotaProofs`,
`TransactionsProviderProofs`, `JobLifecycleProofs`, `PremiumPlanProofs`, `SearchDocumentsProofs`,
`AccountAccessProofs`, `InterviewLifecycleProofs`, `BackgroundJobsProofs`), checked by TLAPS. They
assume only the named assumptions on the constants: finite sets where something is counted,
positive bounds, sets of ids that are disjoint, `None` and `Unwritten` different from the values.
Every proof has the same shape: an inductive invariant, which TLC has checked on the
instance of the run; a lemma for each kind of step (a statement of one transaction, a
commit, a rollback); one case per action; and the properties as consequences.

* **ApplicationQuota.** `TypeCorrect` first. The quota theorems need an invariant that the
  runs do not state: every event in the queue or with a worker was emitted once and by a
  request that is past its emission (`EventCorrect`), and a count read by a worker bounds
  the count it will write. From it `ChargedOnce`, `CreditedOnce` and, with the order of
  emission and commit, `RejectionsRefunded` follow; `IndexSound` rests on the order of the
  nested commit and the index request, and says only that a document's row was stored once.
* **TransactionsProvider.** The invariant says which program points hold a connection,
  that `waiting` lists exactly those that wait and each once, and how commits relate to
  program points; `free + |holders| = PoolSize` needs the cardinality lemmas of the library.
  The holders include the calls that were stranded, whose connection nobody gives back; a nested
  one ends the call around it with an error that is not retried (`StrandedEnds`), for a retry would
  make the nested call anew and forget who holds the connection.
  `ProviderImplementsCommitOnce` maps every step to a step of `CommitOnce` or a stutter;
  only `Commit` and `LoseCommit` of a top-level execution apply, and a restart is one
  `Answer` for all that ran.

* **JobLifecycle.** `JobInv` says, for each program point of a transaction, what it has written
  and why (`Wrote`): a decision in a row it holds is one it has announced, or one it found
  there. Locks make this inductive: a row that one transaction has written is written by no
  other (`Exclusive`), so that what was true of the committed row when it was written is
  true when it is committed. `StoredDecisionsWereTold` follows at once. For `ClosingsAreExplained`
  and `DecisionsReplaceUnseenOnes` the step must be a commit, and `Wrote` tells whose: a cron
  job that closes a row has found it expired in its own snapshot, although its deadline can
  have been extended since.
* **InterviewLifecycle.** `InterviewInv` says of each transaction what its own rows were told of
  (`OwnKept`), by itself or before it, and that an answer is given to an interview its snapshot
  shows open. `EveryInterviewHasRecruiter` needs that only the row of an insert lacks a recruiter,
  and that the insert holds the lock its own second connection waits for, and so never gets to
  its commit. A decision can be announced by a request that is rolled back: the theorem says that
  what is stored was told, not the reverse.
* **PremiumPlan.** `PaidInv` relates a session, the event Stripe delivers, the row of the transaction and
  the event to the users service: each exists only after the one before it. The type of an
  expiry needs more: each payment adds a term, and no bound on one step bounds the sum.
  `ExpiryBounded` does: an expiry in the payments service is at most the last day and a term for each
  checkout that has drawn one, one in the users service the same for each event that was carried
  out, and what a handler is about to write one term more. Those are sets that only grow, and why
  the checkouts must be finite in number.
* **SearchDocuments.** The properties speak of rows on which nothing is open (`Quiet`). `SearchInv` says what
  holds meanwhile: a document differs from the row only while an update that has written both is not
  committed (`Match`), and is missing only while a deletion that has taken it is not (`Found`).
  That an update or deletion which is still under way cannot spoil this later needs three more facts: a row is written
  by one transaction at a time (`Exclusive`); a transaction that indexes or deletes and has
  written nothing found the row gone (`GoneKept`); and nobody knows of an item before the
  transaction that creates it commits (`Creation`, `Apart`), except by its document, which a
  deletion looks for first.
  `RemovalIsShown` speaks of the commit of a deletion. In an instance of four handlers or more the document
  of a user can come back before the row goes: one handler removes the document and is about to commit
  while another that found the user gone writes it; the proof shows that at the commit itself
  the document is not there.
* **AccountAccess.** A refresh that waits for Redis has exactly one question in the queue, and if its
  user may count on a token, the token is stored or its message is ahead of the question
  (`Kept`). Since the redis service serves its queue in order, `EntitledAreServed` follows.
  `TypeCorrect` contains the limit of the attempts: a request that counts has read a number
  below the limit, whatever others have written since. `OldCodesStayInvalid` looks at each of the
  writers of the key.
* **BackgroundJobs.** `JobsInv` says how the jobs of a flow wait for each other (`FlowsKept`), how many
  attempts each has left (`JobsKept`), and that an email or SMS was sent before its job is
  through, so that `CompletedJobsWereSent`. For a CSV report that shares its file with no other, what
  its jobs have read, written, stored and sent is no older than the report's request
  (`FreshAlone`), from which `UnsharedReportsAreFresh`; a PDF is still being written when its job completes.

What is left to TLC is liveness: `CallsEnd`, `ApplyEnds`, `ReviewEnds`, `RequestsEnd`,
`ExpiredJobsClose`, `PaymentGrants`, `GetsIn`, `QueuesSettle`. TLAPS cannot treat them, for they need
fairness and `ENABLED`.

## 7. Not modelled

* **Messages.** `messages.service.ts:203` throws for every message, after which everything is rolled
  back: conversations and messages are never stored, and their routes work on nothing.
* **Notifications.** They are stored as their events come, and no route of the gateway reads or
  deletes them; the modules that send them keep them as histories. The find-or-create of a
  notification, of requirements, companies and saved jobs is the same check-then-insert as
  that of applications, in `ApplicationQuota`.
* **The interview reminder** sends notifications and changes no row (the one of payments is in
  `PremiumPlan`).
* **Users and accounts:** changing the password, the tokens of social logins, roles and permissions
  (the guards are taken as granted).
* **Jobs, applications, payments:** companies, saved jobs, editing and deleting an application, and the
  startup sync of their three indexes (the sync of users, reviews and interviews is modelled).
* **The gateway's response cache**: responses are kept by their URL and end by their time to live.
* **Admin, search and health**, queries and statistics, which only read.
* Formatting, templates, validation of DTOs and Swagger texts carry no state; files, emails and SMS
  leave the system when they are sent.
