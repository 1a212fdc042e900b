# Marginly: TLA+ models and proofs

Marginly is a NestJS backend (Prisma on PostgreSQL, BullMQ on Redis) with a React front end. It receives
Stripe and Shopify webhooks, chases failed payments, offers save deals to customers who cancel, collects
dispute evidence, copies charges into QuickBooks or Xero and renders branded invoices, for many tenants in
one database. This directory holds TLA+ models of its control logic, the TLC runs that check them and
the TLAPS proofs of what matters most. `PROJECT.json` is the index: components, runs, mutants, the map from
definitions to source lines, findings, hazards and theorems.

Paths below are relative to `src/backend/src/` unless they start with `src/`.

## 1. Inventory

| Component | State it keeps | Operations that change it | Talks to |
|---|---|---|---|
| Webhook monitor (`modules/webhook-monitor`) | `WebhookEvent`, `AlertRule` rows; queues `webhook-processing`, `webhook-dlq` | two inbound handlers, worker, `failed` handler, `moveToDlq`, replay, rule creation and deletion | providers, BullMQ, Slack, audit log |
| Dunning (`modules/dunning`) | `FailedPayment`, `RecoverySequence`, `RecoveryAttempt` rows; queue `dunning-retries` | payment_failed and payment_succeeded handlers, worker, 5-minute scheduler, sequence editing | BullMQ, SES, SNS, audit log |
| Accounting sync (`modules/accounting-sync`) | `AccountingConnection`, `SyncedTransaction` rows | connect, disconnect, manual and nightly sync, token refresh | QuickBooks, Xero, Stripe, KMS |
| Branded invoices (`modules/branded-invoices`) | `InvoiceTemplate`, `GeneratedInvoice` rows, PDFs | template editing, generation | S3, Puppeteer |
| Dispute evidence (`modules/dispute-evidence`) | `Dispute`, `EvidenceBundle` rows | created and updated events, submission | Stripe |
| Save-flow (`modules/cancellation-saveflow`) | `SaveOffer`, `CancellationAttempt` rows | offer editing, outcomes from the widget | browsers of the merchant's customers |
| Authentication (`core/auth`) | `Tenant`, `User`, `RefreshToken` rows, the session variable of the row-level policies | sign-up, login with lockout, refresh, logout | front end, audit log |
| Connections (`core/connections`) | `Connection` rows | OAuth start and callback, disconnect | Stripe, Shopify, KMS |
| Front-end session (`src/frontend/src/api/client.ts`, `contexts/AuthContext.tsx`) | tokens in localStorage, `isRefreshing`, `failedQueue` | request and response interceptors, login, logout | Authentication |
| Tenants, audit log, KMS, Prisma service (`core/*`) | one row per call | single reads and inserts | database, AWS |
| Demo (`demo`, `src/backend/prisma/seed.ts`) | rows of all modules | seed, reset, simulate | database |
| Front-end pages (`src/frontend/src/pages`, `api`, `router`) | the query cache of react-query | queries, mutations and the keys they invalidate | every controller |
| Processes (`main.ts`, `worker/main.ts`, `pdf/main.ts`) | none | start-up | all of the above |

How they interact. The API process (`app.module.ts`) and the worker process (`worker/main.ts`) import the
same modules, so *both* run a BullMQ worker for each queue and both run the dunning scheduler; only the API
process serves HTTP. Handlers share nothing but the database and the queues. Every `await` is a point where
another handler, in the same process or another, may run: that is where the difficulty of this code lies,
together with what a crash between two awaits leaves behind. Nothing in `src/` calls the event handlers of dunning or
of dispute evidence except tests: `routeEvent` of the webhook monitor only logs, so these modules do not compose yet.

Hard behaviours and the properties that make each component correct:

- *Webhook monitor*: duplicate and concurrent deliveries (an event is queued once, an acknowledged event is
  stored), a crash or failing enqueue after the row is written, the un-awaited `failed` handler, replay of an
  event whose job still runs, exhaustion (every event is in the end processed, or failed and dead-lettered).
- *Dunning*: duplicate and out-of-order payment events, jobs that wait for days (a message goes out once, is
  recorded, has the right text, and does not chase a payment that has been made), overlapping schedulers.
- *Accounting sync*: two runs at once, a crash between the external create and the local upsert (one entry
  per charge), rotating refresh tokens (the saved pair is the valid one).
- *Authentication and front-end session*: the lockout counter under concurrent logins, one refresh in flight
  for many failing requests, a logout during a refresh.
- *Invoices, disputes, save-flow, connections*: a default per tenant under concurrent edits, events in any
  order, rows deleted while in use, an external call that succeeded followed by a local write that failed.
- *Demo*: two programs of many statements and no transaction, which may overlap, die and be run again, and one
  of which deletes the tenants under the other (a run that succeeds has left its data whole).
- *Front-end pages*: a mutation answered while its list is being fetched (the user's own change is shown).

`PROJECT.json` lists the hazards one by one, each at its line. What goes wrong with certainty in a single order of events,
and no property could exclude, is in section 9.

## 2. Plan

| Step | Module | Composition, abstract specification | Theorems |
|---|---|---|---|
| 1, done | `WebhookMonitor` | implements `EventLedger` (who owes the next step of an event) | type, inductive invariant, six safety theorems, an action property, the refinement |
| 2, done | `Dunning`, `DunningPickUps` (extends it) | sequences, payments, queue, worker and schedulers in one module; the same with a history of its due times | type, two inductive invariants, eight safety theorems |
| 3, done | `Connections`, `AccountingSync` (extends it) | the sync reads the credentials that the OAuth round trip writes | inductive invariant, type, entries, stored token, connection, an action property |
| 4, done | `Auth`, `Session` | the server's accounts; the browser's tokens, composed with what the server answers | inductive invariants, types, lock, counter, duplicates, log-out; what the two are together |
| 5, done | `Invoices`, `Disputes`, `SaveFlow`, `DemoData`, `Pages` | five parts of one run, `MCBackOffice` | inductive invariants, types, nine safety theorems; what the five are together |
| 6, done | `*Proofs` | one proof module per component, one for the three small ones of the back office | every safety invariant and action property of the passing runs |

Every module is written to be proved about: parameters are CONSTANTS with named assumptions, one action per
stretch of code between two awaits, invariants as conjunctions of named parts, no RECURSIVE operator.

The runs are kept few: small components that share no state are parts of one run, which starts in one of them and
stays there. What a larger instance could add to a finished component is proved instead.

## 3. The webhook monitor

`WebhookMonitor.tla` models `modules/webhook-monitor/webhook-monitor.{controller,service}.ts`.

| Model | Code |
|---|---|
| `delivery[d]`, `Deliver` … `EnqueueDelivered` | one run of an inbound handler: signature accepted, `isEventDuplicate`, `storeEvent`, `enqueueEvent`, 200. The two controllers' handlers are the same but for the signature |
| `Carries[d]` | what the delivery carries: `[provider, eventId, eventType, tenantId]` |
| `row[d]` | the `WebhookEvent` row delivery `d` has stored: its status and whether `processedAt` is set |
| `job[c]`, `StartJob` … `FinishJob` | the job queued by delivery or replay `c`; `pc` is the next statement of `processEvent` and `checkAndFireAlerts`, `seen` the status read at its start |
| `handler[c][n]`, `RetryHandler`, `DlqAdd`, `DlqMark`, `DlqAudit` | the listener on the worker's `failed` event for attempt `n`, and `moveToDlq` |
| `replay[r]`, `ReplayFind`, `ReplayMark`, `ReplayEnqueue` | `replayEvent` |
| `rules`, `fired` | active `AlertRule` rows, Slack alerts posted |
| `Crash(p)` | process `p` ends: its jobs stall, its handlers are dead, and requests (of the API process) end where they are |

A row is named by the delivery that stored it and a job by the request that queued it, since a request makes at
most one of either. A request that ends between its row and its job is *stranded*: the row stays, the answer is
a 500 or none.

What is assumed of the libraries (marked external in the map):

- BullMQ fails a job's attempt, moves the job to delayed (5 s, 10 s) or failed, and then emits `failed`; nobody
  awaits the listener. A job whose process died is found stalled, put back once (`maxStalledCount` 1), and failed
  the second time without using up its attempts.
- A rejection of `moveToDlq` is unhandled in the listener and ends the process (Node's default): that is `Crash` between its
  steps.
- The database commits each Prisma call atomically, and enforces `@@unique([provider, eventId])` and the foreign
  key to `tenants`.

Abstracted: payloads, signatures (a bad one is answered 400 and changes nothing), error texts, timestamps other
than "set", the `isActive` flag of a rule (`rules` holds the active ones; nothing but deletion ends a rule), e-mail alerts
(they only log). Rows are never deleted but by the demo's reset.

`PromptHandlers` is an assumption on timing. TRUE says that the one UPDATE of the listener for a failed attempt
is over before the backoff of that job, 5 seconds at least. Runs and theorems that use it say so; the run
`webhook_late_handler` shows what happens without it. `ProcessingMeansLiveJob` does not need it: it names the two other
ways in which PROCESSING comes to be written, a job given up as stalled and one that has outrun a late handler.

`EventLedger.tla` is the abstract specification: a stored event is open until somebody who took a duty for it
closes it, and without faults an open event always has a duty. `ImplementsLedger` maps `phase` to the status of
the row, and `duties` to `Owners(id)`: the requests, jobs and handlers that still have a step to take
that settles the row. A step that wrote an open status without owning the row, or dropped the last duty of an
open row, would be no step of the ledger.

## 4. Dunning

`Dunning.tla` models `modules/dunning/dunning.service.ts` and `dunning.scheduler.ts`.

| Model | Code |
|---|---|
| `failure[f]`, `UpsertPayment`, `ReadSequence`, `AddStep`, `StampRetry` | `handleFailedPayment` and `scheduleRetries`: the upsert, the read of a default sequence, then for every step `queue.add`, and after the first one the update of `nextRetryAt` |
| `success[s]`, `FindPaid`, `MarkRecovered` | `handlePaymentSucceeded` |
| `payment[i]` | the `FailedPayment` row of invoice `i`, ABSENT before its first failure; retries and due time |
| `sequence[s]`, `edit[e]`, `BeginEdit`, `WriteSequence` | `RecoverySequence` rows and the two writes of `createSequence` and `updateSequence` |
| `job[j]`, `PromoteDelayed` … `FinishJob` | jobs of `dunning-retries`. `StepJob(i, k)` is `recovery:<payment>:step:<k>`, `SchedulerJob(i, t)` is `scheduler-retry:<payment>:<ms>` |
| `sent[j]`, `attempt[j]` | messages SES or SNS took for the job, `RecoveryAttempt` rows created for it |
| `tick[r]`, `StartTick` … `ClearRetry` | a run of `fireOverdueRetries`; every process has a timer, and runs may overlap |
| `Crash(p)` | process `p` ends: its jobs stall; its scheduler runs are gone, and, in the API process, handlers and requests too |

Assumptions. BullMQ ignores an `add` with an id it knows, also when that job has ended: the queue keeps ended
jobs. The queue's jobs have one attempt. An `add` may fail (`AddStepFails`, `FireRetryFails`); BullMQ releases
differ in whether they refuse a custom id with three or more colons, such as `recovery:<payment>:step:<k>`: for
a release that does, the failing branch is the only one. A message that SES or SNS has taken counts as sent even
if the answer is lost.

Abstracted: texts (a sequence's own text is the id of the sequence, the built-in notices are three values), audit
rows, amounts, the statistics. Statuses PENDING and WRITTEN_OFF are written by the demo only. Times beyond
`Horizon` are not told apart; a unit of time stands for any stretch within which two clock readings are not told
apart. `Edits` and `Failures` are finite sets of requests that may or may not happen. Nothing in `src/` calls the
two event handlers yet; they are modelled as what any caller could do with them, concurrently and in any order.

`DunningPickUps.tla` watches the same system with a history: `stamps` counts the due times written for an invoice,
`crowded` the times a run read it as overdue while another run had it on its list, and `owed` holds the invoices whose due
time was written while no run had them on its list and that have been given no job since. `History` follows every step of
`Dunning` and constrains none: `PickUpsInit` and `History` fix the values of the three variables and mention no other in
the next state. With it one can say what the unconditional clearing (`dunning.scheduler.ts:61`) costs. Section 9 shows that a
due time may bring two messages; `PickUpsAccounted` says that nothing but an overlap or a fault makes more jobs than due times,
and `DueTimeKept` that the only due time cleared without a job is one written while a run had the payment on its list.

## 5. The other modules

**`Connections`, `AccountingSync`** (`core/connections`, `modules/accounting-sync`). A flow is an OAuth round trip
(`stripeOauthInit`, then a callback while the signed state is good, the exchange of the code, the upsert, the audit
entry); a disconnect reads the row, updates it by id and audits. `run[r]` is a run of `syncTransactions`, by hand or
from the scheduler's loop over the tenants (`todo`); `seen` is what it read of the `AccountingConnection` row, `cur`
the charge it works on. Each external call is a step of its own between the read before it and the write after
it. `RefreshTokens` spends the refresh token it presents and is answered a new one, `SaveTokens` stores that. The answer may
be lost after the provider has taken the token (`RefreshAnswerLost`), the new pair may fail to be encrypted or
stored (`SaveTokensFails`); the tenant's run then ends in an error and the nightly loop goes on (`Failed`). `Dies` may
come anywhere. History variables name the occasions that may cost an entry or a token: `excuse[c]` counts
the creates of charge `c` that began while another run was inside `c`, whose answer was lost, or whose row could not
be written; `lost` holds the tokens the provider has taken without their successor being stored. `EntriesAccounted` says that
nothing else ever makes a second entry, and `SyncedIsLasting` that the table takes nothing back: an id stays, and SYNCED gives way
to FAILED only for a charge with such an occasion. `StoredTokenAccepted` says that only such a loss costs a tenant its
token: neither overlapping runs nor a reconnect or disconnect during a refresh do. A tenant has one accounting connection
here; the code takes the first.

**`Auth`, `Session`** (`core/auth`; `src/frontend/src/api/client.ts`, `AuthContext.tsx`, `DemoPage.tsx`). `Auth`
follows one e-mail address: sign-ups between lookup and transaction, log-ins between the read of the user, the slow
comparison and the write of the sum, log-outs. A lock is open, locked or expired (its 15 minutes are over; the row keeps
`lockedUntil` and the counter). Three history variables watch: `wrong[u]` counts comparisons that failed, independently
of what any log-in wrote, `since[u]` those since the counter was reset last, and `lapsed` the log-ins since then that
began while another of the account was in flight. `LockNeedsFailures` bounds the lock from one side, `FailuresAreCounted`
from the other: the counter misses at most one wrong password for each such log-in. `Session` is one tab: `store` is localStorage, `call[r]` a request (a page's, or one of AuthContext's
own) with the token it carries, `refresh` the single refresh in flight, with `queued` requests behind it. A token is
good until it expires or is deleted, which may happen at any moment. A refresh begins with a 401 to a page's request, to
AuthContext's own, to a wrong password, or to a log-out whose refresh token the server does not find (`Unauthorized`). `raced` records that the user logged out while
a refresh, or the demo page's log-in, was on the wire: both store what they are answered, whenever it comes.

**`Invoices`, `Disputes`, `SaveFlow`.** Small modules with one step per statement. In `Invoices` the object in S3 lies at
a key that does not change, so a second generation overwrites it, and what a template says is abstracted (an edit during a rendering changes no more than that); `excused` names the three ways in which the tenant
may lose or double its default. In `Disputes` Stripe may give an open dispute any status, a review nobody here asked for
too, and is assumed to close it for good; its events are handled late, in any order and again, or never. `submitEvidence`
writes UNDER_REVIEW whatever happened since it read the row, and each of its three writes may fail. `stale` says that the
row was last written by a submission or by an event older than one it had been given. `RowFollowsStripe` says what the row
may show and when, and that evidence, bundles and the answers of requests agree (`EvidenceAccounted`). In `SaveFlow` the
queries of a report run one beside the other. The widget posts the id of any offer, which only the foreign key checks, so
that the offers of other tenants (`Foreign`) belong to the model; a post may be refused for whatever reason
(`OutcomeRefused`), and is posted again. The kind of outcome is abstracted.

**`DemoData`** (`seed.ts`, `demo.service.ts`). The seed and the reset are sequences of statements (`SeedProgram`,
`ResetProgram`): the row, the tenant it belongs to, how an existing row is looked for (by unique key, by id, by id with a
separate create, not at all) and the row it refers to. Rows that both programs treat alike stand for each
other. `Accepted` has the unique and foreign keys of `schema.prisma`, with cascading deletes. A simulation that creates a
row is refused without a tenant id, and rejected by the database for an id that is of no tenant or for a name another
call has taken in the same millisecond (`SimulateRejected`); one that updates a row finds it and writes it.

**`Pages`** (`src/frontend/src/pages`, `api`, `router`). Tables of the code: which queries a page shows under a filter,
which route each calls, which table that route reads, which keys a mutation invalidates. A behaviour follows one query and
one mutation, any pair that meet in a table, through the cache: stale after 30 s, refetched on focus, on mount and by
interval, dropped when unused. `missed` is the case that react-query leaves open: an invalidation does not stop a fetch
that runs for a query without data or out of view, and its older answer then counts as fresh. `Overlooked` lists the two keys a
page shows, its own mutation changes, and its `onSuccess` leaves out.

## 6. Runs

Every `.cfg` is one question. `CHECK_DEADLOCK FALSE` is set throughout, because each run has finitely many requests, after
which the system has nothing to do.

| Run | Instance | What it shows |
|---|---|---|
| `webhook_redelivery` | 3 deliveries: twice the same Stripe event, a Shopify event with the same id; a rule; 1 attempt, 1 fault | `IngestedOnce`, `AckedIsStored`, `AlertsFollowProcessing` |
| `webhook_replay` | 1 event, 2 replays, 2 attempts, no fault, fair | the ledger with `Lossy` false; `EveryEventSettles`; `ProcessingMeansLiveJob` |
| `webhook_crash` | 1 event, 1 replay, 2 attempts, 2 faults, fair | dead letters (`DlqOnlyExhausted`, `FailedIsDeadLettered`), ownership (`UnsettledIsOwned`), `JobsEnd` |
| `dunning_crash` | 1 invoice, 1 delayed step, a scheduler, 2 processes, 2 faults, fair | `AttemptsMatchMessages`, `RetryHasJob`, `OverdueIsPickedUp`, `PlannedStepsEnd` |
| `dunning_tenants` | 2 overlapping failures and a success of 1 invoice; 2 tenants, 3 sequences, 2 edits, 1 fault; the worker, or 2 runs of the scheduler in one process with the history of `DunningPickUps` | `MessagesNotRepeated`, `DoneIsScheduled`, `OwnTenantsText`, `DefaultKept`; `PickUpsAccounted`, `DueTimeKept` |
| `accounting` | a manual and a nightly run over 1 charge (2 tokens), or over 3 tokens with reconnects; a nightly run, 1 flow and 1 disconnect; a nightly run over 2 tenants (3 tokens); 1 fault, fair | `EntriesAccounted`, `SyncedIsLasting`, `StoredTokenAccepted`, `ConnectedIsActive`, `NightlyTakesAll` |
| `back_office` | 3 templates, 2 edits, 2 generations; 4 events, each handled any number of times, 2 submissions; 2 offers and 1 of another tenant, 1 change, 1 visit with 2 posts, 1 report; 2 of 2 seeds and 2 resets, 1 simulation, 1 death; every query and mutation that meet, 2 changes, 1 network fault | type and the invariants of `Invoices`, `Disputes`, `SaveFlow`, `DemoData`, `Pages` |
| `sign_in` | 2 sign-ups, 2 log-ins with a limit of 2, 1 log-out; 1 user, 1 page request beside AuthContext's own and the demo's, 4 tokens, fair | `LockNeedsFailures`, `FailuresAreCounted`, `DuplicateNeedsOverlap`, `SignedOutStaysOut`, `QueuedSettles` |
| `webhook_late_handler`, `webhook_acked_not_queued`, `dunning_after_recovery`, `dunning_two_schedulers` | as small as the case allows | one violated statement each: section 9 |

Types are proved of every module for all values of the constants (section 8); a run spends its properties on other things, and
only `back_office` checks the types of its five parts as well. In `dunning_tenants` a behaviour has steps of the worker or of
the scheduler, not of both (`MCPickUps`): what the scheduler reads, payments and the ids of jobs, no worker writes.
`dunning_crash` has both.

Why the bounds are enough to be interesting. Two deliveries of one event reach the race between lookup and
insert, a third with the same id needs the provider in the key. Two attempts have one that is the last and one
that is not, which is all `isLastAttempt` tells apart. Two replays race with the first job and with each other.
Two faults are a crash during the recovery from a crash, and two stalls of one job, one more than `MaxStalls`.
Two failures of one invoice overlap in every order; two steps have a first (stamped, due at once) and a later
one. A horizon of 1 has a time before and one after a delay, and 2 in `dunning_two_schedulers` gives two runs
different readings. In `dunning_tenants` a horizon of 1 gives a payment up to two jobs of the scheduler, and two failures two due times,
so that jobs fall short of, meet and exceed the due times; the fault falls before, between or after a run's two statements. Two
runs of the sync overlap on one charge in every order, and 2 tokens are a pair and its
successor; a third lets a tenant reconnect while its token is being refreshed. Two tenants have one before and one after
the other in the night. Four events are a dispute's opening, a step forth, a step back and an end, of which the older ones may
be handled last, and two submissions overlap. A limit of 2 failures and 2 log-ins reach the lock when
one comes after the other, and a counter that lags behind when they overlap; more of them are left to the proof. Four tokens are two log-ins, or one and two refreshes, with an expiry anywhere.
Two programs of the demo are any pair that overlaps, or one after the other's remains; all of a page's
queries and mutations are finite tables and are taken whole. What holds for all sizes is proved (section 8).

## 7. Fairness

`FairSpec` adds weak fairness for what the code's scheduling drives: a request, handler or scheduler run that
has started takes its next step (the Node event loop resumes an `await` whose call has answered); the queue
hands out, promotes and requeues jobs; time passes and interval timers fire. Nothing is owed by
providers, users, failing calls or crashes. Weak fairness is enough: the step of a
request, handler or run stays enabled until it is taken, and a waiting job that finds all slots taken gets one in the
end, because the jobs that hold them are finitely many and each is fair (`webhook_replay` has one slot per worker and up to
three jobs). Liveness is checked under bounded faults: with a crash for ever repeated nothing would be
promised.

`AccountingFairness`: a run that has begun takes its next step, as each external call and each statement answers or
fails; nothing is owed by the provider beyond that, and that a run starts is owed by nobody. What `NightlyTakesAll` shows
is that the loop goes on, also after a tenant's error, until it has come to the last tenant it set out with. `SessionFairness`: a request and a refresh are answered or
fail, because a connection that is closed or times out is a failure to axios. That a token expires, and who reloads or logs
in, is never fair.

## 8. Proofs

Every invariant and every action property of the passing runs is proved for all values of the constants the
assumptions allow (any number of deliveries, tenants, processes, attempts, runs, charges, requests,
templates, offers, programs of the demo, faults). So is the refinement of `EventLedger`.

| Module | Theorems | Assumes |
|---|---|---|
| `WebhookMonitorProofs` | `Invariance` (`[]IInv`), `TypeCorrect`, `DeadLettersExhausted`, `FailedHasDeadLetter`, `AtMostOneIngest`, `AcknowledgedIsStored`, `AlertsAreOwed`, `ProcessingIsLive` (`ProcessingMeansLiveJob`) | `WebhookAssumption` |
| | `NothingForgotten` (`UnsettledIsOwned`), `MonitorImplementsLedger` (`ImplementsLedger`) | and `PromptHandlers` |
| `DunningProofs` | `Invariance`, `TypeCorrect`, `NoMessageRepeated`, `AttemptsAreHistory`, `DueIsPlanned`, `WholeSequenceQueued`, `TextIsOwn`, `DefaultSurvives` | `DunningAssumption`, `TextAssumption` |
| | `PickUpsInvariance`, `PickUpsBounded` (`PickUpsAccounted`), `DueTimesSurvive` (`DueTimeKept`), of `PickUpsSpec` | the same |
| `AccountingSyncProofs` | `AccountingInvariance`, `AccountingTypeCorrect`, `EntriesAreAccounted`, `StoredTokenIsAccepted`, `ConnectedStaysActive`, `SyncedLasts` | `ConnectionsAssumption`, `AccountingAssumption` |
| `AuthProofs` | `AuthInvariance`, `AuthTypeCorrect`, `LockIsDeserved`, `FailuresCounted`, `DuplicatesOverlapped` | `AuthAssumption` |
| `SessionProofs` | `SessionInvariance`, `SessionTypeCorrect`, `SignedOutForGood` | `SessionAssumption` |
| | `SidesTypeCorrect`, `SidesKeepPromises`, of `MCSignIn` | and `AuthAssumption` |
| `BackOfficeProofs` | `InvoicesInvariance`, `InvoicesTypeCorrect`, `OneDefault`, `GeneratedHasBacking`; `DisputesInvariance`, `DisputesTypeCorrect`, `RowIsTrue`; `SaveFlowInvariance`, `SaveFlowTypeCorrect`, `UnknownHasReason`, `OutcomeIsKept` | `InvoicesAssumption`, `DisputesAssumption`, `SaveFlowAssumption` |
| | `PartsTypeCorrect`, `PartsKeepPromises`, of `MCBackOffice` | and those of the next two rows |
| `PagesProofs` | `PagesInvariance`, `PagesTypeCorrect`, `OwnChangeShows` | `PagesAssumption` |
| `DemoDataProofs` | `DemoInvariance`, `DemoTypeCorrect`, `SuccessIsWhole`, `FailureHasReason`, `SeedsMakeNoDoubles` | `DemoAssumption`, `NamesAssumption` |

The assumptions say that sets of different things are disjoint, that a "none" value is none of the things it stands
beside, and that bounds are numbers. Where a theorem counts log-ins or runs of the scheduler, the set of them is finite
(`LogIns`, `Ticks`): a server has taken finitely many requests and started finitely many runs. `TextAssumption` keeps the ids of sequences apart from the built-in notices, and
`NamesAssumption` the names of the simulations from the keys in the two programs of the demo. `PromptHandlers` is the
assumption on timing of section 3. The bounds on faults and retries are parameters; no theorem fixes one.

Why the invariants need strengthening. In the monitor, that a FAILED row has a dead letter is kept by `DlqMark`
only because a handler at `mark` has added its entry (`HandlerAt`); that only exhausted jobs are dead-lettered
is kept by a later attempt only because a handler at `dlq` belongs to a job that has failed for good, which no
action revives; that one delivery queues an event follows from the unique key (`RowsUnique`) and from a queued
delivery having its row (`RequestInv`). An alert is about a processed event because a job at its rules has written
`processedAt` and holds only rules of its row's tenant (`AlertInv`). The refinement takes one lemma per action
(`LedgerSteps`: it keeps the ledger, moves one duty of one row, or is a fault) and needs `StallInv`: only where a process
can die is a job found stalled or given up with attempts left. In dunning, `MessagesNotRepeated` is kept by
`SendMessage` only because a run that is about to send has sent nothing since its last stall (`JobOK`, with `HasSent`);
an attempt row is backed by a message because a run at `record` is one message ahead; a handler that ends has queued
every step because a handler in the loop has queued all earlier ones (`FailureOK`), which needs that no queued job
becomes unknown again (`JobsKept`); a due time implies a queued first step because the stamp comes after the add.
`DefaultKept` is inductive once it says of each *tenant* that it has a default or a request of its own that
excuses it (`HasDefault`, `Excused`).

How often a payment is picked up is a matter of bookkeeping that no single step shows. `CountOK` counts, besides the jobs of
the scheduler, the runs that have yet to add theirs (`Waiting`) and a due time that nobody has on a list (`Due`): a stamp
makes the last, a run's query turns it into one of the second, `FireRetry` that into one of the first, and `ClearRetry` takes
none away. A query that finds a payment somebody else has on the list is paid for by `crowded`, a list that dies with its run by
the fault, because the due time it leaves counts anew. `DueTimeKept` is kept by `ClearRetry` because no run that is about to clear an
owed invoice exists (`Clearing`): the stamp came when nobody had it on a list, and whoever has fired since has met the debt.

In the sync, `EntriesAccounted` speaks of entries made, and a run about to create one has not made it yet: `BooksAt`
therefore bounds `books[c]` plus the number of runs at `create`, and knows that where no occasion is left a row already
says SYNCED or a run is about to write it, so that nobody starts another create. `StoredTokenAccepted` needs
that no two tenants, runs or grants hold one token and that a token not yet stored is accepted and held
nowhere else, and that a token known to be stored of one tenant is not another's (`TokenInv`): a run that fails to store
a successor then costs its own tenant, and only the token it has named in `lost`. In `Auth`, a lock follows from a number read some time ago, so that `SeenIsAccounted` bounds what
every log-in has read by `wrong`; that duplicates overlapped follows from `TwoPastLookup`, the same statement
for sign-ups that have not yet committed. `FailuresAreCounted` compares a counter with what log-ins are about to write into it:
`CountedAt` allows for the wrong passwords still being compared, bounds what each log-in in flight has read by what the lapsed ones may
have hidden from it, and knows that of the log-ins in flight all but one have lapsed, for which a reset must forget the lapsed that
are over and keep those that still may write. In `Session`, a tab stays signed out because nothing that could sign it in is
under way (`NothingLeft`), which rests on the single refresh (`OneRefresh`: queued requests wait only while somebody
refreshes) and on AuthContext doing one thing at a time (`OneAtATime`).

In `Invoices`, until two requests have overlapped there is at most one default, and none while the one request that may
be between its two statements is there (`DefaultOK`, `Between`); in `Disputes`, the events sent end where the dispute was closed
(`EventsInv`), so that a handled WON is the last word; `RowWarranted` follows the row's status through events handled again,
and `SubmissionOK` a submission's evidence and bundle to the statement it stands at. In `SaveFlow`, `ReportOK` says, offer by
offer, of a report half read that its half is still what the table holds of an offer of the tenant that neither came nor
went, which needs that attempts name stored offers or none. In `Pages` data may be fresh and older than the change only if its fetch was left to run:
`ShowsOwn` says so of the fetch before it is answered, and `InvalidatesWhatItWrites`, which goes through the tables of
all pages, that a mutation invalidates every key its page shows of the table it changes, but for the two overlooked.
In `DemoData` rows carry the name of their maker in their id (`RowOK`) and lie in a tenant that lives (`Homed`); what a
program has behind it is still there while its tenant lives (`MineOK`, `WorkOK`), and nobody owns a row of a statement
he has not come to (`MakersPast`). `FailedHasReason` needs what a program that nobody has crossed can count on
(`Pristine`, `AloneOK`, `CallOK`), `SeedsNeverDouble` that seeds that do not overlap make one bundle (`OneBundle`). The
texts of the two programs enter through lemmas that read them once (`SeedKeys`, `SeedTenants`, `SeedRefs` and their like
for the reset): each key once, after its tenant and after what it refers to.

The proofs go action by action. Dunning sorts the actions into those that do at most one `queue.add`
(`FailureQueue`, `TickQueue`, from `AddEffect`), those of one job (`JobStepEffect`, `JobStepKinds`) and `Crash`,
and treats each kind once for all conjuncts. `DemoData` treats a statement by its effect, a row found or a row made
(`MadeRow`, `AdvanceMade`), for rows and programs in turn.

The compositions are proved from their parts. A step of `MCBackOffice` or `MCSignIn` is a step of one part and leaves the
variables of the others alone, or stutters, so that its behaviours are, seen by each part, behaviours of that part alone
(the lemmas `PartsRunAsAlone` and `SidesRunAsAlone`); what is proved of each then holds of all together, and the invariants need no second proof.
`DunningPickUps` takes `Invariance` over from `Dunning` in the same way (`PickUpsIsDunning`).

What the proofs changed in the models. `Found` of `DemoData` was a CASE whose guards overlapped (a bundle is looked for by
content, and by a separate read): TLC takes the first arm, the logic takes any, so that nothing followed from it; it is
an IF now. `DefaultKept` was strengthened: it says in which of its steps an edit of the tenant's own may leave the tenant
without a default. `DefaultAccounted` speaks of the set of defaults and not of its size.

Only model-checked, because liveness is beyond the prover: `EveryEventSettles`, `JobsEnd`, `OverdueIsPickedUp`,
`PlannedStepsEnd`, `NightlyTakesAll` and `QueuedSettles`.

## 9. Where the code and its documents disagree

Shown by a run that finds a violation:

1. `webhook_late_handler`: the un-awaited listener may write PROCESSING after the next attempt wrote PROCESSED;
   the row then shows PROCESSING for good (`webhook-monitor.service.ts:62` against its comment on line 58).
2. `webhook_acked_not_queued`: a row whose `add` failed makes every redelivery a duplicate, answered 200 and never
   queued (`src/docs/security-architecture.md:168`, "Queue immediately and ack").
3. `dunning_after_recovery`: messages go out after the payment has been made (`demo.service.ts:39`, "if still unpaid").
4. `dunning_two_schedulers`: two processes pick one due time up twice (`dunning.scheduler.ts:60`).

Met while modelling, without a run of their own:

- A process that dies after the last attempt and before `moveToDlq` has written FAILED leaves the row PROCESSING
  and, at the earliest point, no dead letter (`webhook-monitor.service.ts:54`); `UnsettledIsOwned` lists it in `Abandoned`.
- Alert conditions see the status read before the attempt, so a rule on FAILED never fires
  (`src/docs/demo-walkthrough.md:188` describes one).
- A genuine delivery without `metadata.tenantId` violates the foreign key and gets a 500 every time.
- A `payment_failed` handled after `payment_succeeded` sets a paid invoice back to RECOVERING, and a success
  before the row exists is dropped (`dunning.service.ts:106`, `:128`).
- Nothing writes a new `nextRetryAt` after the scheduler has cleared one (`dunning.scheduler.ts:60` expects the
  processor to reschedule).
- The scheduler picks up payments by their due time alone: those that the seed and the demo insert carry one and have no
  first step queued (`src/backend/prisma/seed.ts:131`, `demo.service.ts:413`); `RetryHasJob` speaks of what dunning writes.
- An event whose alert query fails in every attempt ends FAILED and dead-lettered, though it was processed
  (`webhook-monitor.service.ts:141`).
- After a `queue.add` that fails, a payment is RECOVERING with a part of its steps, or none, for good
  (`dunning.service.ts:165`); the text of a step is looked up by position in whatever sequence is the default when its job
  runs (`:190`).
- The scheduler's job names no channel and is sent as a text message, also for a sequence of e-mails only
  (`dunning.scheduler.ts:56`; `src/docs/demo-walkthrough.md:40` lists one text message in four steps).
- A seed after a reset fails: the reset's payments keep the unique key the seed upserts by, under other ids, and the seed's
  recovery attempts name the ids (`src/backend/prisma/seed.ts:216`; line 7 says "Safe to re-run at any time").
  `FailedHasReason` excuses a seed after a reset.
- No route serves `GET /accounting/sync`, `GET /accounting/reconciliation` (`src/frontend/src/api/accounting.ts:45`; the
  controller has `sync-status` and `reconciliation-report`) and `GET /audit-log`: those parts of the pages stay empty
  (`NoRoute` in `Pages`; `src/docs/demo-walkthrough.md:148` describes the table). `updateSequence` and `updateOffer` send
  PATCH where the server has PUT; no page calls them.
- The pages' simulations send no tenant: those that create a row are refused, the two that update one take the first row
  of any tenant. The scenario `replay` does not exist.
- Submitting evidence leaves `['dispute-stats']` as it is and a replay leaves `['webhooks', 'stats']` until its next poll
  (`Overlooked`). Nothing clears the query cache at a log-out.
- The OAuth callback stores the credential as `accessToken` (`core/connections/connections.controller.ts:123`), the sync
  reads `secretKey` (`accounting-sync.service.ts:179`), which only the seed writes: a tenant that connected by
  itself cannot sync. `FindStripe` of `AccountingSync` ends its runs in an error.
- The sync looks back 24 hours from whenever it runs and asks for 100 charges: a late run or a busy day leaves charges
  out for good (`accounting-sync.service.ts:183`).
- Nothing checks the offer id the widget posts (`widget.controller.ts:33`): it need not be the one shown, nor of the same
  tenant, and an offer of another tenant is of type UNKNOWN in every report. An outcome posted again counts twice.
- A dispute's update handled before its row exists is dropped, and an old one handled late moves a decided dispute back
  (`dispute-evidence.service.ts:49`); so does a submission that ends after the decision (`:175`).
- A log-out while a refresh is on the wire is undone by its answer; so is one beside the demo page's log-in, which moreover
  leaves the refresh token and the user id of the session before in the storage (`raced` in `Session`): once the demo's
  access token has expired, a refresh goes on as that user.

## 10. Not modelled

Reads and reports (they change nothing; the report of the save-flow, which is several queries, is modelled), rendering,
forms and e-mail layout, encryption and signatures (pure functions of libraries), start-up, infrastructure, the
placeholders (`pdf/main.ts`, `health`, `webhook-monitor.processor.ts`). The row-level policies of the database are not
modelled: their setting is made on whichever pooled connection serves the statement
(`core/auth/middleware/tenant-context.middleware.ts:35`), and whether they are in force at all depends on the role the
deployment connects with, which the repository does not fix; every query of the services names its tenant itself, but for ids
that come with a request (the widget's offer, section 9). The
hazards without a property are listed in `PROJECT.json` with a note.
