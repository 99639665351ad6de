# YoDevMail: a TLA+ model of the platform

YoDevMail is a multi-tenant transactional email platform: a Next.js application
(API, console, Stripe and Postmark webhooks), PostgreSQL, SQS queues and Lambda
workers, with Postmark or SES behind it and Stripe for billing. Its hard part is
that nearly everything is at-least-once and concurrent: workers run twice,
events overtake the transactions they are about, connections die around a
COMMIT, and what a request checked may be gone when it writes. These modules
model that part, TLC checks it on small instances, and TLAPS proves most of its
safety for all instances: the send path, the daily limit, the outbox, usage
reporting, the subscription state, and the parts around them.

All paths below are relative to the repository.

## 1. Inventory

| Component | State | Operations | Hard behaviours | What makes it correct | Module |
|---|---|---|---|---|---|
| Acceptance (`features/emails/accept.ts`, `app/v1/emails/route.ts`, `console-test-send.ts`) | messages, usage_days, outbox_jobs, idempotency keys, attachments, rate windows | gates, replay, rate limit, checks, one transaction | same-key twins; two requests for the last place; checks before the lock | one message per key; truthful answers; limits hold | `Acceptance`, `Delivery` |
| Send worker (`workers/send-email.ts`) | messages.status, message_attempts, events | claim, evaluate, load content, call, one of four closing transactions, fallback | redelivery, ambiguous calls, failed and unacknowledged COMMITs | never taken twice; billed iff accepted; a verdict is final | `Delivery`, `ProviderCall`, `RuntimeSecrets` |
| Stale claims and expiry (`recover-stale-sending.ts`, `expire-queued.ts`) | the same rows | `sending` to `unknown`; `queued` to `failed` | they run against live workers | every message is settled; nothing is undone | `Delivery` |
| Provider events (`providers/ingest-event.ts`, `workers/ses-events.ts`, Postmark webhook) | status, ledger, reservation, suppressions, queue and dead letters | receive, batch, ingest, redrive | late, repeated, out of order, before the worker's own commit | outcomes only advance; applied once; only the unreadable is buried | `Delivery`, `EventPipeline` |
| Usage ledger (`billing/usage-ledger.ts`) | usage_ledger, usage_days, report jobs | record an acceptance, release a reservation | called by three racing components | counters equal the rows they count | `Delivery` |
| Outbox (`workers/outbox-dispatch.ts`) | outbox_jobs | scan, claim, send, mark | overlapping and killed invocations, updates without a claim check | one dispatcher per row; every row is sent | `Outbox` |
| Customer webhooks (`workers/deliver-webhook.ts`, `features/webhooks/*`) | webhook_deliveries, endpoint, queue, audit trail | fan-out, claim, POST, retry, terminal; switch, rotate, test, delete | attempt read before the claim; retries that must not get lost | one sender; bounded calls; always settled | `WebhookDelivery`, `Endpoints` |
| Usage reporting (`workers/report-stripe-usage.ts`) | report jobs, aggregates, Stripe's memory | recover, expire, group, claim, submit, finalize, settle | lost answers, death between statements, Stripe forgets identifiers | never counted twice; always closed | `UsageReporting` |
| Stripe subscription state (`app/api/stripe/webhook/route.ts`, `billing/stripe-state.ts`) | stripe_events, subscriptions | claim, retrieve, locked transition, failure | snapshot read before the lock; events in any order | converges to Stripe's state | `WorkspaceBilling`, `StripeCatalog` |
| Checkout (`billing/actions.ts`, `stripe-catalog.ts`, `stripe-tax.ts`) | stripe_checkout_attempts, sessions at Stripe, prices, tax | open or reuse a session, expire, pay | session created outside the transaction; configuration deployed meanwhile | one payable session; what is paid is accepted | `Checkout`, `StripeCatalog` |
| Workspace lifecycle (`admin/actions.ts`, `onboarding/actions.ts`) | workspaces.status, pause_reason | onboarding, review, pauses, restoration | check-then-act by several deciders | nobody's decision is undone by another's | `WorkspaceBilling`, `Warmup` |
| Warmup and daily limit (`workers/warmup-progress.ts`, `sending/*`) | warmup stage, daily_limit, override, usage_days | daily progress, pin, review, suspension | read, decide, update by overlapping invocations | a limit is earned; a pin is kept | `Warmup` |
| Domain provisioning and health (`workers/provider-provisioning.ts`, `providers/provision-*`, `domain-health.ts`) | bindings, accounts, resources at the provider | create server, domain, webhook; check; activate | lost answers, lost advisory lock, two environments in one account | nothing created twice or taken from another | `Provisioning`, `SesDomain` |
| Attachments (`app/v1/attachments/route.ts`, `attachment-scan.ts`, `purge-attachments.ts`) | attachments, objects | sign, upload, scan, claim, load, erase, purge | scan events repeated and reordered, re-uploads | clean was verified; condemned is never sent; erased in time | `Attachments` |
| Retention, deletion, export (`workspace-data/*`, `purge-retention.ts`) | every table | delete, purge in batches, sweep, export in pages | what is still under way; foreign keys; failing tenants; pages over moving rows | usage is reported first; nothing left, nothing refused; exact export | `WorkspaceDeletion`, `Erasure`, `Schema`, `Retention`, `Export` |
| Members, access, sessions (`members/*`, `lib/current-workspace.ts`, `reconcile-owner.ts`) | members, invitations, organizations | invite, deliver, accept, reconcile, adopt | counts before writes; deliveries recorded after the acceptance | seats hold; the owner is bound; who was removed stays out | `Membership`, `Access` |
| Domains, applications, templates, profiles | domains, beta_applications, templates, versions | claim a name, apply, edit, review, serve | locks of different scope; stale decisions | names are disjoint; throttles hold; served was approved | `Domains`, `Applications`, `Templates` |
| Secrets of a process (`workers/runtime-secrets.ts`) | environment, loads | load, share, forget | concurrent callers, failures | loaded before use | `RuntimeSecrets` |
| Infrastructure (`infra/*`) | queues, timeouts, schedules | | | the numbers the modules assume | constants, `EventPipeline` |
| Console, localisation, addresses and signatures, operator scripts | | presentation, pure input and output, run by hand | | | not modelled |

How they interact: acceptance commits a message with its outbox row; the outbox puts
a job on the queue; the send worker closes the message and, in the same transaction,
writes ledger, counters and public events; public events fan out to webhook
deliveries, whose retries are outbox rows again; provider events come in through a
queue and change the rows the worker may be about to change; a ledger row of a
workspace with a meterable subscription has a report job, which the hourly reporter
groups and submits; Stripe's events move the subscription, and with it the workspace
that acceptance and the eligibility check read; bounces and complaints move the
reputation that warmup and suspension read; the deletion of a workspace stops all of
them, and the purge then removes their rows in the order the foreign keys allow.

## 2. Modules

| Module | Models | Granularity |
|---|---|---|
| `MessageContract` | what the platform promises about one message: pending, then accepted, refused or in doubt; counted exactly once, when accepted | abstract |
| `Delivery` | acceptance's transaction, send worker, recovery, expiry, provider events, ledger | a transaction or a provider call |
| `Outbox` | the dispatcher | a statement |
| `WebhookDelivery` | fan-out, delivery worker, retries, the administrator | a statement or request |
| `UsageReporting` | one invocation of the hourly reporter, Stripe's deduplication | a statement or request |
| `WorkspaceBilling` | Stripe's events and their handlers, local subscription, workspace status, its other deciders | a transaction; a read before it apart |
| `Acceptance` | whole requests of one workspace, up to the answer | a gate or check; the transaction |
| `Attachments` | rows and objects of one message's attachments, their scan, use and purge | a statement or a call of the bucket |
| `Warmup` | one workspace's stage, limit, override and reputation | a read, a decision, an update |
| `Checkout` | overlapping clicks, the attempt, its session, the events | a statement or a call of Stripe |
| `StripeCatalog` | prices and tax modes checked before a checkout and again after the payment | a deploy, an action, an event |
| `Provisioning` | the Postmark resources of one workspace under jobs that overlap | a call of Postmark or a transaction |
| `SesDomain` | the SES sequence of two environments in one account | a call of SES |
| `ProviderCall` | one message, one credential, the repetitions of SDK, adapter and queue | a try of the job |
| `RuntimeSecrets` | the promise cache of secrets in one process | a call, a load |
| `Membership` | the owner's invitation and its courier, members' invitations and seats | a statement or an email |
| `Access` | how a console request finds its workspace | a statement |
| `Domains`, `Applications` | forms under an advisory lock | read, lock, commit |
| `Templates` | one template, its versions, its reviews, its profile | an action; an edit's read apart |
| `Endpoints` | one endpoint under requests that overlap, of one administrator or several | a statement |
| `EventPipeline` | webhook or bus, queue, batch, dead letters | a record, a batch's end, a tick |
| `WorkspaceDeletion` | deletion against requests, keys, workers, events, reporter, purges | a transaction |
| `Schema`, `Erasure` | every table's foreign keys, and what each deletion of the code makes of them | a statement with its cascade |
| `Retention` | the retention worker's rotation over workspaces | a batch |
| `Export` | sections, pages and cursor of an export | a read |
| `Parts` | the modules from `WebhookDelivery` and `Acceptance` on, side by side on shared variables, and the properties of all | that of the part |
| `*Proofs` | theorems, see section 4 | |
| `MC*` | model values and small definitions for the `.cfg` files; `MCPartsSafe` and `MCPartsLive` see section 3 | |

Each VARIABLE names its column in a comment; an action has the name of its
function where there is one. Conditions of guarded UPDATE statements are operators
of their own (`Claimable`, `StillSending`, `StaleFor`, `StillMine`, ...): they are
what the properties depend on. A `...Bug` definition above one is a plausible mistake in
it that a property must notice; PROJECT.json says which run finds it, and maps every
definition to its lines.

Conventions. A PostgreSQL transaction that locks the row it decides on is one
action; what is read before it, or in another transaction, is an action of its own.
A COMMIT can fail (nothing is written, the caller sees an error); with
`LostAcks` it can also succeed and look failed. Being killed is `Crash`: the
process forgets, the rows stay. `faults` bounds how often these happen. Clocks are
relative ages where they can be (`Outbox`, `WebhookDelivery`, `UsageReporting`,
`EventPipeline`), so those models have no time horizon; `Delivery`, `Warmup`,
`Checkout`, `Applications`, `Endpoints` and `Export` compare dates and have a bounded
clock.

### Delivery

`status[m]`, `queuedAt`, `ambiguousAt`, `lastEventAt` are the message's columns;
`ledger`, `usageJobs`, `reserved`, `accepted` those of the ledger and of
usage_days. `handed[m]`, the number of times a provider took the message, is what
no column knows. The queue in front of the worker is the worst one that
at-least-once allows: any worker may `Claim` any queued message at any time, and
need not. The lease of `recoverStaleSending` (15 minutes) is *not* used as a
guarantee: recovery may happen the moment a message is `sending`, so the results
do not depend on the Lambda being dead. `Evaluate` may refuse at any time, which
stands for the workspace, domain, binding and billing checks that other components
own. `ingestProviderEvent` may come before the worker's own commit.

`recordAcceptedUsage` always writes the ledger row, but a report job only if the
transaction finds a subscription that is meterable and has its Stripe ids. The
constant `Metered` says of every tick which of the two a transaction may find, so that
a workspace can be billed before, during and after it has a subscription.

The refinement mapping (`PhaseOf`) reads "accepted" from the ledger, not from the
status: the ledger is the authority on what is billed.

### Outbox

A dispatcher takes its `now`, reads a page of `Limit` rows without an order, and
then claims each in turn under the same `now`; `elapsed` is how old that `now` is.
Its last updates have no condition on the claim. That this is safe rests on one
number, `Timeout <= Lease` (60 s Lambda timeout, 5 minute lease), and
`LeaseAssumption` states it.

### WebhookDelivery

Outbox and queue together are one queue of visible-from delays per delivery. A
failed record becomes visible again after `Visibility`; the dead-letter queue that
would take it after five receives is not modelled, so `EventuallySettled` holds up
to that many infrastructure failures in a row. Events and their deliveries are
committed apart from the reading of the endpoints (`ReadEndpoints`,
`queuePublicEmailEvent`), as in the code.

### UsageReporting

`settleReportJobs` runs after the aggregate's own update in a statement of its
own, which is why several properties are about the pair. `counted[r]` is Stripe's
side; Stripe remembers an identifier for `Memory` and then forgets it, the worst
case of what it documents. `WindowAssumption` is the arithmetic that the safe retry window (20 h)
and the Lambda timeout leave room in Stripe's 24 hours.

### WorkspaceBilling

A handler claims the event's row, retrieves the subscription as Stripe has it
*now*, and then runs the locked transaction; two handlers can do all that in any
interleaving, and a claim may be older than five minutes at any time. A workspace
is also decided about by the administrator (`OpenReview` is the status check
before the transaction, `approveWorkspace` the transaction), the onboarding form
(`OpenForm`, `completeOnboarding`) and a reputation pause. `vetted` remembers
whether the last human or reputation decision was an approval. Grace period,
plan and billing periods are columns nothing else here reads and are left out;
`trialing` behaves as `active` does.

### Acceptance

A request passes its gates, replays, takes a place in the minute's rate, checks what
it reads without a lock, and runs the transaction. The transaction is one action because its
first write to a shared row, the day's counter or the unique key, makes a twin wait
for it. The answer of a COMMIT may be lost, the client tries again with its key.
Rendering and the checks of other components' rows are refusals that may happen at
any time.

### Attachments

The row and the object are separate state and every call touches one of them. Of the
clock only two instants count: the end of the signed URL and `expiresAt`. Until the
first the client may upload again, whatever has become of the row. The sender's erasure
(`EraseObject`, `EraseRow`) and the purge (`PurgeObject`, `PurgeRow`) can fail before, in
and after each of their two calls. `BucketExpires`, the bucket's rule of one day, may
erase what is left, and no property relies on it. The same
module is instantiated twice in `Parts_safe`: two attachments with one verdict each,
and one attachment with two.

### Warmup

The worker reads the workspace and its days, decides, and updates what is still as
read (`StillFree`); operator, review, reputation and billing act in between. Rates are
"one email in so many", as `reputationPolicy` has them.

### Checkout and StripeCatalog

`Checkout` is about time: an attempt's hour, the half hour Stripe wants an expiry to
be ahead, the idempotency key that makes two clicks get one session. Sessions and
events are Stripe's side, external, as the code uses them. `StripeCatalog` is about
configuration: what `validateStripeCatalog` and the tax checks accept, what the
event's snapshot check accepts, and a deploy or an archived price between them.

### Provisioning and SesDomain

A creation at Postmark is not idempotent: `Provisioning` marks before it creates and
looks at the mark afterwards, so that an answer that never came ends in `uncertain`
and an operator. The calls hold an advisory lock of a connection, which a second
instance ("lock lost") may lose. SES calls are idempotent, so that `SesDomain` repeats
them from the start; its hazard is the other environment in the same AWS account.

### ProviderCall and RuntimeSecrets

`ProviderCall` is the inside of `Delivery`'s one action `Transmit`: what of an
answer proves that nothing was sent, and which layer may then repeat the call.
`RuntimeSecrets` is the cache in front of it.

### Membership and Access

The owner's invitation has a courier that records its delivery after it was sent,
while the owner may already have accepted; a reconciliation run binds owners whose
hook failed. The authentication library's own part (sessions, `membershipLimit`) is
external. `Access` has the reads of `current-workspace.ts` one by one.

### EventPipeline

The queue of `infra/yodev-mail-stack.ts` with its visibility, batch size, receive count
and dead letters; SES events additionally depend on the rule that standby disables.
`applied` counts what `Delivery.ingestProviderEvent` would do. Which message an event is
of (`Located`) is told by its tag or, without one, by the provider's identifier, which
is `stored` by the worker's commit (`StoreId`) or by an earlier event. An event that
locates no message, or one with another identifier (`Matches`), is skipped: its record
is consumed like the others, without effects and without a row in email_events.
`MaySkip` says of which records the properties accept this.

### WorkspaceDeletion, Schema, Erasure, Retention, Export

`WorkspaceDeletion` is the protocol: what the deletion refuses under its lock, and
what requests past their checks still do after it. `Schema` has the foreign keys of
every table and `Erasure` computes what each deletion of the code makes of them, so a
key added without an `onDelete`, or a table left out of the purge's order, is a
violation. `Retention` is only about fairness between workspaces, `Export` only about
the cursor.

### Templates, Domains, Applications, Endpoints

Four forms with four kinds of lock: a row lock (`Templates`, `Endpoints`), one advisory
lock for all workspaces (`Domains`), one that is waited for after the time was taken
(`Applications`). The test of an endpoint has none: it reads the trail and then adds to
it. The processes of `Endpoints` are therefore requests, and each entry of the trail
remembers how much of it was read when it was decided on (`seen`).

## 3. Runs

| Run | Expect | What it asks |
|---|---|---|
| `Delivery_race` | pass | Two workers over one message, every SES event in any order, two faults, two days of two ticks. `NeverTakenTwice`: no provider takes a message twice. `BillingMatchesOutcome`: ledger, counter and status agree whoever wins the race, and a ledger row has a report job if the workspace had a meterable subscription, and none if it had not. `VerdictIsFinal`: after `email.failed` or `email.suppressed` of the platform's own nothing is sent or billed. `ClaimsHold`: the inductive invariants of the proofs, and that an attempt is conclusive once. `KeepsContract`: each step is a step of `MessageContract` or none, and outcomes never go back. |
| `Delivery_day` | pass | Two messages and a limit of one, a fault, events that confirm an acceptance. `CountersHold`: the day's counter is exactly the reservations held, and they with the accepted stay within the limit. With fairness of the clock and the schedules only, `KeepsFairContract`: every message leaves pending, and is settled. |
| `Delivery_sent_event` | violation | `AcceptancePublished`, see findings. |
| `Delivery_lost_ack` | violation | `NeverTakenTwice` when a COMMIT's acknowledgement may be lost. |
| `Outbox` | pass | Three rows, pages of two, two overlapping dispatchers, one fault. `OneDispatcher`: the updates without a claim check never meet; `DuplicatesNeedFaults`, `EventuallySent`. |
| `WebhookDelivery_disabled` | violation | `DisabledIsAbandoned`, see findings. |
| `UsageReporting` | pass | Two overlapping reporters, one fault, lost answers. `NeverCountedTwice`; `ReportsAreSound`: what is reported was counted, by one reporter at a time; `ReportsAreFinal`; `EventuallyClosed`. |
| `UsageReporting_stranded` | violation | `NoJobStranded`, see findings. |
| `WorkspaceBilling_safe` | pass | Two subscriptions, three events in any order, two overlapping handlers, one fault, and every other decider in between. `Reconciled`: once all events of the local subscription have been handled, its status is Stripe's. `WorkspaceFollows`: nobody's late write leaves a canceled workspace approved, or an approved one with a reason that would let billing lift a later pause. `RestoredByAnother`: while the local subscription is canceled, only another one or an administrator approves the workspace. |
| `WorkspaceBilling_vetted` | violation | `ApprovedWasVetted`, see findings. |
| `Parts_safe` | pass | The safety of the twenty modules around the send path, below. |
| `Parts_live` | pass | The liveness of seven of them, below. |

Every property of a passing run has a mutant in PROJECT.json, one plausible mistake in
one guard, under which TLC finds it violated.

### The two runs of the parts

`Parts` and `MCPartsLive` instantiate each module once or twice on the shared
variables `v1` ... `v16` and let the initial state choose the `part`; nothing else
couples them. The state space is the disjoint union of theirs, so an invariant of the
run is the conjunction of theirs, and one run with one set of properties covers
modules that are too small to deserve one each. The substitutions in the two modules
are the table of which variable is which. `Parts` leaves the constants open, for the
proofs; `MCPartsSafe` gives them values. The properties are grouped by the hazard:

| Property | Parts | What it says |
|---|---|---|
| `AcceptedOnce` | acceptance | one message per key, whatever overlaps, is retried or purged; a 202 names the request's message; attachments go to one message, all of them; the counter is the live messages; the rate of a minute holds |
| `LimitIsEarned` | warmup | a limit nobody pinned is the stage's, whichever race the worker lost |
| `OneOpenSession` | checkout | at most one session of a workspace can be paid at a time, and what an attempt says of it is true |
| `ProviderResourcesAreOurs` | postmark, lock lost, ses | no second server or webhook while the lock holds; even without it, an account never names a server whose token it lacks; an SES identity is changed by the environment that created it only |
| `TakenOnce` | call | over all repetitions: taken once at most; requeued or failed means not taken |
| `ConfigurationHolds` | catalog, secrets | what was paid under the current configuration is accepted; secrets are loaded before use, once at a time, and a failed load is tried again |
| `ServedWasApproved` | templates | what is served existed when an administrator approved |
| `HandledOnce` | webhook, events, attachments | one sender per delivery, which counts every call; effects of an event once, to a message of its identifier; a record is consumed without them only if its message could not be told when it was published, or has another identifier; only the unreadable is buried; clean means scanned and verified |
| `DeletionIsClean` | deletion, erasure | no usage is purged unreported; late inserts go too; no statement of a purge is refused or removes an unbounded cascade; nothing refers to what is gone |
| `ExportIsExact` | export | every row that stays is exported once |
| `ChecksStillHold` | access, members, domains, applications, endpoints | organizations keep a workspace, the removed stay out, seats, names and throttles hold; the audit trail is true, and two tests within the interval are of requests that overlapped |
| `DecisionsStand` | acceptance, attachments, warmup, postmark, applications, webhook, deletion, erasure | no step undoes a decision: a lowered limit, a verdict, a pin, a disabled binding, a settled delivery, a deletion, a person's rows, the ledger |

| Property of `Parts_live` | Parts | What it says |
|---|---|---|
| `EventuallySettled` | webhook | until it is settled a delivery has a message or a worker, and it is settled |
| `EventuallyIngested` | events | an event that can be read, and whose message can be told when it is published, is applied, or the platform is in standby |
| `OwnerIsBound` | members | an owner who accepted ends up bound |
| `ErasedInTime` | attachments | an object past its date is erased by the application, whatever fails first and however often it was uploaded, unless the sender has set its row to `deleted` |
| `SweptInTurn` | retention | a workspace whose sweep always fails keeps neither the others' rows nor their deletion |
| `DeletedIsGone` | deletion, erasure | an accepted deletion ends with the last row |

### Findings

- `Delivery_sent_event`: a provider event that arrives before the worker's
  transaction moves the message out of `sending`; the worker rolls back, and
  `email.sent` is never created, although the message is billed
  (`send-email.ts:347`, `docs/architecture.md:14`).
- `Delivery_lost_ack`: the fallback after a failed persistence returns the message
  to `queued` if it is `sending`, without asking whose claim that is. After a COMMIT
  that succeeded and looked failed it can be another worker's, in the middle of its
  call (`send-email.ts:298`, `docs/architecture.md:52`).
- `WebhookDelivery_disabled`: an event transaction that read an endpoint before it
  was disabled inserts a pending delivery after the pending ones were abandoned
  (`public-email-event.ts:54`).
- `UsageReporting_stranded`: dying between an aggregate's outcome and its jobs'
  leaves the jobs in `processing` for good (`report-stripe-usage.ts:360`).
- `WorkspaceBilling_vetted`: a cancellation overwrites the reason of an
  administrator's or a reputation pause by `billing`; a checkout session opened
  earlier, or a second subscription, then restores the workspace to `approved`
  without an administrator (`route.ts:173`, `docs/architecture.md:28`).

Noticed while modelling, without a run of their own. Sending:

- An SES Reject that overtakes the worker's transaction makes the message `failed`
  and neither side releases the reservation of the day (`ingest-event.ts:95`, `102`).
  `CountersHold` is therefore checked for the events that confirm an
  acceptance; with `failed` in `TransportEvents` TLC refutes it.
- An error of the object or parameter store before the call is recorded as an
  ambiguous transmission (`send-email.ts:270`), where `docs/architecture.md:50`
  says retry. An attachment that expired or was rejected after acceptance ends the
  same way, or is dropped (`send-email.ts:46`).
- The daily limit and the eligibility are read before the call and not again
  (`send-email.ts:199`).
- One candidate whose transaction always fails stops the recovery's loop for those
  after it (`recover-stale-sending.ts:36`).
- Of two requests with one key that run together at the limit, the loser may be told
  `daily_limit_reached` although its message exists (`accept.ts:210`, before the key).
- The sample of the warmup is of the last days with a row of usage, however long ago
  they are (`warmup-progress.ts:23`).
- The signed URL outlives the sender's erasure. Bytes uploaded again after the row was
  set to `deleted` are never selected by the purge (`attachments/route.ts:55`,
  `purge-attachments.ts:16`), where `route.ts:44` counts on its margin for "storage never
  exceeds 24 hours"; they are left to the bucket's own rule, whose day counts from the
  last upload (`infra/yodev-mail-stack.ts:121`). `Overdue` leaves these rows out.
- An administrator's decision on a template names the template and not the version it
  read (`admin/actions.ts:536`): an edit committed in between is approved unseen, where
  `versioning.ts:63` says that unreviewed content can never be delivered.

Events and webhooks:

- An event without a tag that comes before the worker has stored the provider's
  identifier is skipped, and its record acknowledged (`ingest-event.ts:49`,
  `ses-events.ts:102`): it is lost, and so is one whose tag names no message.
  `HandledOnce` and `EventuallyIngested` say which events this may happen to (`MaySkip`).
- The redrive runbook's "not lost" holds for the four days the queue keeps a record;
  standby disables the rule of SES events.
- With `Skew > 0`, a delivery whose event is dated ahead of the worker's clock is
  dropped before it is due (`deliver-webhook.ts:86`), and TLC refutes
  `PendingIsPursued`. So is one that was inserted while its endpoint was disabled and is
  enabled again after its message was consumed; `Parts_live` keeps `Toggling` FALSE.
- The throttle of tests reads the trail without a lock (`webhooks/actions.ts:229`):
  requests that overlap, of two administrators or of one who clicks twice, each send
  theirs. `TrailIsTrue` says that only those do.
- A delivery that read the endpoint before a rotation signs with the old secret
  (`webhooks/actions.ts:66`).

Billing:

- Emails accepted while a workspace has no meterable subscription are in the ledger
  without a report job, and are never reported, also after one is bought
  (`usage-ledger.ts:39`).
- The messages of one hour are one meter event of their number
  (`report-stripe-usage.ts:153`); `docs/architecture.md:36` still says quantity one.
- Two Stripe events of the same second are both current. If their handlers overlap,
  the older snapshot can be committed last, and stays until the next event: with
  `SameSecond = TRUE` TLC refutes `Reconciled`. The passing run and the theorem
  `BillingConverges` keep it FALSE.
- The test for stale events compares dates across subscriptions: an event of a
  second, paid subscription that is older than the first one's cancellation is ignored
  (`stripe-state.ts:113`).
- Stripe's retry of an event that another request holds gets a 200, after which
  Stripe stops (`route.ts:91`).
- The review and the Stripe handler lock the same rows in different orders
  (`admin/actions.ts:488`); PostgreSQL breaks the deadlock by failing one.
- A second checkout can be opened after the first was paid and before its event
  (`billing/actions.ts:133`); an attempt killed before its session blocks the next
  beyond its expiry (`:177`); the locale is not part of the idempotency key.
- New prices deployed between a checkout and its event make the event refuse the paid
  subscription (`actions.ts:186`, `route.ts:129`).

Workspaces:

- A late event may confirm an `unknown` message after the deletion counted the
  unreported usage (`deletion.ts:93`), a subscription paid through a session left
  open may bill or revive a deleted workspace (`deletion.ts:84`, `route.ts:181`).
  `Parts_safe` keeps `LateEvents` and `Checkouts` FALSE; `Parts_live` has both TRUE.
- The activation of a binding reads what it decides on before its transaction.
- A removed member whose session remembers the organization is refused everywhere;
  the administrator's first request may attach an organization to a workspace deleted
  meanwhile.

### Bounds

- Two processes of each kind: the claims are on single rows, and a third process
  can only do to the second what the second does to the first. One message where
  the races are about one row; two where they share a counter. Three where order or
  environment matters: pages of two over three outbox rows or export rows, three
  invocations of two environments in `ses`, three editors, three submissions under a
  limit of two, three tenants of which one always fails.
- `Delivery_race` has two days of two ticks, so that a message can be accepted on one
  day, be billed on the next, and have events older and newer than another's. Its
  subscription is bought on the second day (`BoughtLater`): before it no transaction
  finds one, in its first tick either may be found, afterwards one is. The other runs
  of `Delivery` have no property of report jobs and no subscription.
- Faults: two where a failing fallback after a failing transaction matters
  (`Delivery_race`, webhooks, provisioning, ses, secrets, events), else one. Liveness
  has a bounded number of faults as a premise anyway.
- The relative clocks saturate beyond every threshold they are compared with, so no
  run is cut off in time. `Lease`, `Timeout`, `Visibility` keep the order and about
  the ratios of `infra/yodev-mail-stack.ts`. `UsageReporting` shrinks 15 min, 20 h,
  24 h, 35 d to 2, 3, 4, 5 ticks and keeps what `WindowAssumption` demands.
- Bounded clocks: warmup four days with waits of one; a checkout two ticks with a
  lifetime of one; applications two hours, endpoints two intervals with three requests, exports three
  instants for three rows, so that rows share an instant and do not.
- `MaxAttempts` is 3 instead of 8 for webhooks: one attempt to begin with, one
  retry, one last. In `Outbox` the retry delay grows to the first step only.
- `MaxEvents = 3` is enough for bought, canceled and a late third event of either
  subscription; the violation run needs the same three and has five.
- `warmup` has three of the code's stages, with limits 1 to 3 and a window of two days;
  seats are 2, the workspace limit of domains is the code's.
- Both runs of the parts together fire every action and every branch of every part
  but one: a sweep of a workspace that another invocation has deleted since, which
  takes a second invocation of the retention.

### Fairness

- `Delivery`: time passes, and the two schedules of five minutes keep running
  (EventBridge). Nothing is assumed of the queue, the workers or the provider; that
  every message is settled nevertheless is the point.
- `Outbox`: the minute schedule starts some invocation again and again, an
  invocation that is not killed takes its next step, time passes. That a page without
  an order reaches every row needs no fairness of its own: sent rows leave the
  candidates.
- `WebhookDelivery`: SQS keeps offering a visible message (strong fairness: the
  message disappears and comes back), workers proceed, time passes.
- `UsageReporting`: the hourly schedule starts invocations, which proceed.
- `EventPipeline`: the queue is polled, invocations proceed, time passes.
- `Membership`: the reconciliation schedule runs; a courier that was not killed records.
- `Attachments`: the half-hourly purge runs, and the two instants come; the bucket's
  rule owes nothing.
- `Retention`, `WorkspaceDeletion`, `Erasure`: the retention schedule runs. Requests,
  customers, operators and providers owe nothing anywhere.
- `WorkspaceBilling` states no liveness: Stripe stops delivering an event that got a
  200 while another request held it, so "every event is handled" is false.

Deadlock is checked where the system cannot stop; the configurations of `Delivery`,
`WorkspaceBilling` and the parts say `CHECK_DEADLOCK FALSE` because their clock, their
events or their requests are bounded.

## 4. Proofs

Eight modules hold the proofs. They use the named assumptions on the constants, the
premises a theorem states, and nothing else. The argument is the same everywhere:
the property is not inductive as it stands, an invariant that implies it is, and one
step per action shows that the invariant is preserved.

### The send path

`DeliveryProofs`, for every finite set of messages, any workers, limits, clock bound
and number of faults:

- `TypeCorrect`: `Spec => []TypeOK`.
- `TakenAtMostOnce`: if `LostAcks = FALSE`, then `Spec => []NeverTakenTwice`.

`NeverTakenTwice` rests on `SendPathInvariant`: (`OneHolder`) a message has at most
one worker; (`HeldIsClaimed`) while a worker has it, the row is neither `none` nor
`queued`, so nobody else can claim it, and before the provider's answer it has not
been handed over; (`HandedIsClaimed`) what was handed over is never claimable again.
Only three actions put a row to `queued`: `Requeue` and `GiveBack`, both after a
refusal or before a call, and `Accept`, which starts from `none`. Most actions only
move a worker along or a status forward, and one lemma, `SendPathQuietStep`, serves
them all. The premise is needed: the run `Delivery_lost_ack` violates the conclusion
without it, because `GiveBack` may then act on another worker's claim. TLC checks
`SendPathInvariant` in `Delivery_race`, as a part of `ClaimsHold`.

Then what the worker and the ledger agree on, if `LostAcks = FALSE`:

- `OutcomeAgrees`: `Spec => [](SendPathInvariant /\ OutcomeInvariant)`.
- `BilledAsAccepted`: `Spec => []BillingMatchesOutcome`.
- `JobsAreFound`: `Spec => []JobsFollowSubscription`, without the premise.
- `RefusalIsFinal`: `Spec => []VerdictIsFinal`.
- `ClaimsAlwaysHold`: `Spec => []ClaimsHold`.

`OutcomeInvariant` has three parts. `RowAgrees`: a message's status, ledger row,
published verdicts, applied events and the date of the last of them tell one
story. `HolderAgrees`: a message in a worker's hands has no verdict yet, and a worker
that closes it as accepted has handed it over. `CountersAgree`: a day's `accepted` is
the number of its ledger rows. `ClaimsHold` adds that at most one attempt is conclusive,
by `AttemptAgrees`: what is recorded of an attempt is what the worker that made it is
still to write, or what the row says. The report job is apart from all this: it depends
on what the recording transaction found, so that `JobsAreFound` has an invariant of its
own: a worker holds no date later than the clock's (`HeldDates`), so the tick of the
transaction lies between the row's date and now.

The refinement, under the same premise:

- `ContractKept`: `Spec => KeepsContract`, that is, `Delivery` implements
  `MessageContract` under the mapping `PhaseOf`, and outcomes only advance.

Every step writes the status and the ledger of one message at most and moves them as
`RowMoves` lists; a row for which `RowAgrees` holds can only be moved along the
contract.

The daily limit, with lost acknowledgements:

- `QuotaKept`: `Spec => []QuotaInvariant`.
- `ReservationsCover`: `Spec => []ReservationsCoverInFlight`.
- `LimitKept`: `Spec => []WithinDailyLimit`.

`QuotaHolds` is the heart: a day's `reserved` covers the messages that hold a reservation,
and `reserved` plus those accepted without ever having been in doubt (`Sure`) stay
within `DailyLimit`. A reservation becomes an acceptance in one step, so neither sum
can slip.

- `CountersAlwaysHold`: if `LostAcks = FALSE` and `"failed" \notin TransportEvents`,
  then `Spec => []CountersHold`, in which `reserved` *equals* the messages that hold a
  reservation.

Both premises are needed: a lost acknowledgement, or an SES reject that overtakes the
worker it belongs to, leaves a reservation that nobody gives back (`NothingLeaks` names
the row that would show it). The limit itself holds without them, as above.

### Outbox, customer webhooks, usage reporting, subscriptions

`OutboxProofs`, for every set of rows and invocations, every page size and number of
faults, and every lease no shorter than the timeout:

- `TypeCorrect`: `Spec => []TypeOK`.
- `RowHasOneDispatcher`: `Spec => []OneDispatcher`.
- `ClaimsAreInTheTable`: `Spec => []HeldIsProcessing`.
- `OneMessageAndTheFaults`: `Spec => []DuplicatesNeedFaults`.
- `NothingIsMarkedUnsent`: `Spec => []DeliveredWasSent`.

They need each other, and two facts more: `MarkIsSent`, an invocation that is about to
mark a row has sent it, and `SentNoMore`, the message beyond the faults is one
that is about to be marked or is marked. The heart is `HeldIsNotClaimable`: by
`HeldIsProcessing` a held row was claimed when its holder took its `now`, the holder
is younger than `Timeout`, so to no other invocation, however old its own `now`, is
the claim older than `Lease`. This is the one place where `Timeout <= Lease` is used.
The delay of a retry is a power of two, of which the provers know only values: since
`backoff` caps the exponent at nine, `TypeCorrect` goes through the ten of them.

`WebhookDeliveryProofs`, for every set of deliveries and workers, every number of
attempts and every clock skew, if a claim outlives its worker and no retry is due
before the worker that recorded it is gone (`WebhookAssumption`, true of the code's two
minutes, one minute and first delay, and of both instances):

- `WebhookHolds`: `Spec => []WebhookInvariant`.
- `SendersAreAlone`: `Spec => []OneSender`.
- `AttemptsAreCurrent`: `Spec => []AttemptIsCurrent`.
- `CallsStayBounded`: `Spec => []CallsAreBounded`.
- `SettledForGood`: `Spec => [][SettledIsFinal /\ NotBeforeDue]_vars`.
- `TypeCorrect`: `Spec => []TypeOK`.

The attempt is read before the claim and written after it. `WorkerHolds` says why this
is safe: whoever is past its claim still holds it, and the claim is as old as the worker
has been running; or the delivery is settled; or the retry is recorded and not due
before the worker is gone. `CallsCounted` relates the requests made to the attempts in the row, those
in the hands of workers, and the faults. `AttemptIsCurrent`, `OneSender` and
`CallsAreBounded` are parts of `HandledOnce`, the two action properties of
`DecisionsStand`, both of `Parts_safe`. The bounds of the clocks in `TypeOK` need the
largest of the configured delays, which exists because a finite set of numbers has as
many members as its largest has members up to it (`LargestExists`).

`UsageReportingProofs`, for every set of messages, aggregates and invocations, every
number of faults, and all timeouts and windows that fit (`WindowAssumption`: an
invocation ends before its claim is stale, and Stripe remembers an identifier for
longer than the safe window and an invocation together):

- `TypeCorrect`: `Spec => []TypeOK`.
- `SubmissionHolds`: `Spec => []SubmissionInvariant`.
- `CountedOnce`: `Spec => []NeverCountedTwice`.
- `ReportsSound`: `Spec => []ReportsAreSound`.
- `ReportsFinal`: `Spec => ReportsAreFinal`.

Stripe can have forgotten an identifier only long after the first attempt. What was
attempted that long ago is given up by `expire` before anything is submitted, and no
invocation lives long enough for the rest to grow that old while it works:
`AggregateHolds` says what a row and Stripe have in common, `InWindow` how old the
reports of an invocation may be, `AtWork` and `OneEach` who is busy with which, and
`ReportedWasCounted` what a row may say in the end.

`WorkspaceBillingProofs`, for every set of subscriptions and handlers and every number
of events and faults:

- `TypeCorrect`: `Spec => []TypeOK`.
- `WorkspaceAlwaysFollows`: `Spec => []WorkspaceFollows`.
- `CanceledRestoresNothing`: `Spec => RestoredByAnother`.
- `BillingConverges`: if `SameSecond = FALSE`, then `Spec => []Reconciled`.

`BillingConverges` follows the handler of a subscription's last event. It sees the
subscription as it is, because nothing changes after the last event (`SeenIsTrue`);
the local date is that of an event (`LocalIsOfAnEvent`), so it is never later than the
last one's; and once that one has settled (`LastHasSettled`), an older one can no longer
overtake it, nor was it ignored for a newer one, nor refused as an event of a canceled
subscription. Without the premise, two events of the same second refute it.

### The parts

Two modules prove the parts one by one, from the assumptions each part names:
`MessageProofs` what happens to a message on its way, `WorkspaceProofs` what happens to a
workspace. For each part there is an invariant that names the part's program counters
and says what whoever is there has read, taken or written.

| Theorem | Says | Rests on |
| --- | --- | --- |
| `AcceptanceHolds`, `MessagesAreOnce` | a key has one message, answers name it, files and reservations follow it, no minute beyond the rate | a key's row is of the one request that inserted it; the requests a minute let pass are no more than its counter |
| `BeyondTheLimit` | the counter passes a limit only through a request that read a higher one | the same invariant; an action property |
| `TemplatesServeApproved` | what is served was approved | the row's lock: one edit at a time, whose number is the next |
| `WarmupHolds`, `LimitsAreEarned` | an unpinned limit was earned by its stage | what a worker holds is no newer than the row, and is the row's while the stage is |
| `PinsAreKept`, `StagesAreWaitedFor` | no worker moves a pinned limit, no stage before its days | the same invariant; action properties |
| `SamplesAreClean` | no stage after a day with a complaint in its sample | a sum of days without negative terms is zero only if each is; the sums are folds over sets of days, of which the sum over a subset is no larger |
| `CallTakesOnce` | a call takes the message once at most, and the worker never believes the contrary | an answer that proves something tells the truth |
| `CallersGetSecrets` | a call that returns has its secrets | a caller that waits lacks only what it waits for |
| `ResourcesAreCreatedOnce` | one server, one webhook per binding while the lock holds; the token is of the account's server | what is late to be created does not exist yet and is already named in the row |
| `DecisionsOfOperators` | a job under way does not undo an operator's decision | the same invariant; an action property |
| `IdentitiesHaveOneOwner` | one environment changes an identity | what a run has passed is in place |
| `AttachmentsAreScanned`, `VerdictsStand` | a clean file was scanned and verified; what was condemned is not loaded, nor revived | a row's status says which verdicts its file can have had; the second is an action property |
| `EventsAreHandledOnce` | one invocation per record, effects written once and to the right message, skipped only what `MaySkip` allows, nothing readable buried early | `Timeout < Visibility`: a record is not seen again while its invocation lives; an identifier once stored stays |
| `OneSessionIsOpen` | one session can be paid at a time | one attempt is pending, and a session that is open is of it |
| `PaymentsAreAccepted` | what is paid under a configuration is accepted by its event | unless it changed, the attempt is of the prices configured |
| `MembersEnter` | no organization without a workspace; the removed stay out | what a request found was so when it began |
| `SeatsAreKept` | members and live invitations fit in the seats | whoever holds a live invitation has a seat kept |
| `DomainsStayDisjoint` | no name below another workspace's | under the lock names may go, none is added |
| `HoursAreThrottled` | no hour with more applications than allowed | what was counted under the lock stays until the insertion |
| `FirstReviewersAreKept` | an application keeps its first reviewer | the statement writes only where nobody stands; an action property |
| `TrailTellsTheTruth` | the audit trail tells what happened; tests within the interval are of requests that overlapped | what was read under the row's lock is still so; what a test has read of the trail is old enough and only gets older |
| `DeletionsAreClean`, `GoneForGood`, `EveryWayIsClosed` | a deletion loses no usage (`~LateEvents`, `~Checkouts`); of what is gone nothing is left or comes back (no premise); nothing is sent or begun after its request (`~Checkouts`) | while a job is open or a worker has a message the workspace is live; afterwards its gate stays paused, for no subscription runs and no checkout can start one |
| `PurgesAreClean`, `OthersAreKept` | no statement of a purge is refused or unbounded, and rows of others stay | `SchemaFits`: what a statement takes with it by cascade was purged before, what refers to it without a cascade is gone |
| `ExportsAreExact` | every row that stays is exported once | rows up to the cursor were exported, the others come after it, in every order of equal instants |

`PartsProofs` carries them over to the module that `Parts_safe` runs. A behaviour of
`Parts` is a behaviour of the part it starts in (the lemmas `...Runs`, by an invariant
that the part never changes), and that part is the same part in the module of its proof
(`...IsSame`, definition by definition), with constants that meet its assumptions
(`...Fits`). The proof modules declare every part's variables
and constants together; where two parts use a name for two things, the second carries
the part's name as a prefix. Two bounds differ between parts that share a constant, the
jobs that lose the lock and the repeated verdicts, and are of a second instance, `Lsg`.
The results are the thirteen theorems `TypesHold`, `OneMessagePerRequest`, `LimitsAreEarned`,
`ServedAfterApproval`, `ProvidersTakeOnce`, `CheckoutsAreOne`, `ConfigurationsHold`,
`ResourcesAreOurs`, `DeliveriesAreHandledOnce`, `ChecksKeepHolding`,
`DeletionsStayClean`, `ExportsStayExact` and `DecisionsAlwaysStand`, each the statement
of one property of `Parts_safe`.

Two of them have premises: `DecisionsAlwaysStand`, that no checkout session is left open
when a deletion is asked for (`~Checkouts`), and `DeletionsStayClean`, that no provider
confirms a message as sent that was given up as unknown either (`~LateEvents`; section 3
says what happens otherwise). Only the part of the deletion needs them, and of it
neither the types nor that nothing is left of a workspace that is gone (`GoneForGood`).

The purge of a workspace deletes from tables that refer to each other, so its proof needs
the schema. `WorkspaceProofs` proves `PurgesAreClean` and `OthersAreKept` of any schema
with `SchemaFits`, and then `SchemaFits` of the one in `Schema`: which tables there are,
what each refers to, and what a deletion takes with it by cascade, which is two steps of
references at the most (`CascadesAre`). That `Parts` has this schema is `SchemaIsSame`.

`ExportsAreExact` needs that a finite set of rows can be listed from the oldest to the
newest: `SortedExists` ranks a row by the number of those before it,
and a map of a finite set into itself that is one-to-one reaches every rank. A page is
then a beginning of what lies after the cursor, and a page that is not full is all of it.

### Only model-checked

- Everything under fairness (`KeepsFairContract`, `EventuallySent`, `EventuallyClosed`,
  `Parts_live`), which is beyond the prover.
- Nothing else: every invariant and every action property of a passing run is stated by a
  theorem, under premises that the run's constants meet. What a premise excludes is
  described in section 3.

## 5. Not modelled

- The text of requests, mails, signatures and payloads; of a provider's answer its
  class remains, of a payload whether a schema accepts it.
- Endpoint addresses and signatures: the parsing of addresses, the refusal of private
  ones, the computation of a signature. Pure input and output.
- Console, queries, settings and localisation: presentation, and one upsert.
- Operator scripts, run by hand and one at a time; the billing portal, a redirect.
- The dead-letter queue of the webhook deliveries (that of the provider's events is
  modelled); lock-order deadlocks, which PostgreSQL resolves by failing one
  transaction, a failure the modules have anyway.
- The reporter's repair of claims from before aggregates existed.
- Grace periods, plans and billing periods of a subscription.
- Sign-in, sessions and tokens of the authentication library, which are external, and
  the hashing of keys.
- Policies, alarms and networks in `infra/`, which are declarative; its queues,
  timeouts and schedules are constants and fairness.
- DNS records and the validation of forms.

## 6. Plan

What is left, in the order of what it would add:

1. The composition of `Checkout` with `WorkspaceBilling`, so that the second session
   before the first one's event becomes a step of one specification.
2. Two live invocations of `Retention` over three tenants, for the one branch no run
   takes.
3. Stripe's schedule of retries, which would allow a liveness property of
   `WorkspaceBilling` with the events that got an early 200 as its exception.
