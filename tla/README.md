# TLA+ verification of Lodariq

Lodariq is a pnpm monorepo in TypeScript: customers author guided experiences
("documents"), publish them to environments, and an SDK in their pages shows
what is live.  This directory holds TLA+ modules of its release core and of
the asynchronous parts around it, the TLC configurations that check them and
TLAPS proofs about them.

Contents: [the system](#the-system), [modules](#modules),
[from code to model](#from-code-to-model), [runs](#runs),
[disagreements](#disagreements-between-the-code-and-its-documents),
[proofs](#proofs), [what is left out](#what-is-left-out), [plan](#plan).

## The system

| Component | State | Operations | Interacts with | Hard behaviour | What makes it correct |
|---|---|---|---|---|---|
| Document releases (`packages/database/src/drizzle/{activation,promotion,release-checks,recovery}.ts`, `packages/schema/src/release-recovery.ts`) | deployment pointers, publications, release operations, approvals, verifications | publish, verify, promote, approve/reject, roll back, unpublish | policies, plan, schedules; API routes call it | stale generations, retries with idempotency keys, approvals racing resubmission, a pending operation kept by five transactions | the pointer moves only by compare-and-set; history accounts for it; production shows only what was verified on staging; four eyes; rejection is final |
| Environment policy, roles, plan (`drizzle/environments.ts`, `schema/src/environment-policy.ts`, `drizzle/state.ts`) | one policy row per environment, membership roles, subscription | update policy, change a role, change the plan | read by every release transaction | policy changes between request, approval and completion | the properties above hold while it changes |
| Delivery schedules (`drizzle/delivery-orchestration.ts`, `apps/api/src/delivery-schedule-worker.ts`) | schedules, jobs with leases, claims in a worker's memory | create, cancel, claim, process, retry | moves the same pointer as releases | two workers, expired leases, a process that dies between claim and settlement, cancellation of a leased job, retries at their limit | each generation has one cause; settled is final; an end undoes its own start; due jobs settle |
| Release routes (`apps/api/src/routes/control-plane`) | none | read policy and pointer, then call a transaction | releases | two steps with a gap between them | whatever was read is compared again in the transaction |
| Auth e-mail outbox (`apps/api/src/auth/auth-email-outbox.ts`, `drizzle/identity-outbox.ts`, `drizzle/identity-password.ts`) | four outbox tables with leases and attempts; a batch in each worker | request, supersede, claim, send, acknowledge, retry, stop | mail provider; accounts and passwords | a lease that runs out under a send, a supersession during a send, a lost answer, a stop that uses up attempts | one claim settles a mail; only what the provider took is recorded as sent; a mail is dropped for a reason; every mail is settled |
| Identity, sessions, assurance (`drizzle/identity-*.ts`, `apps/api/src/auth`) | accounts, sessions, passkeys, recovery codes | sign in, rotate, revoke, step up | every route | rotation races, revocation | a revoked session is never revived |
| Enterprise identity (`drizzle/enterprise-identity.ts`) | connections, domains, SCIM users | provision, deprovision | identity provider | provider retries | seats stay within the plan |
| Outbound webhooks (`apps/api/src/outbound-webhooks.ts`, `drizzle/webhooks.ts`) | endpoints, events, deliveries with leases; a batch in each worker | create/disable an endpoint, enqueue, lease, deliver, settle, replay, retain | customers' servers; governance events | leases against clocks, an endpoint disabled under a leased delivery, enqueueing and retention in two statements | no delivery is sent by two workers at once; repetitions come from faults; every delivery is settled |
| Commercial billing (`apps/api/src/commercial-billing-worker.ts`, `drizzle/commercial-entitlements.ts`) | subscription, entitlements, usage meters | provider events, meter batches | payment provider | events out of order and repeated | the newest event wins; usage counted once |
| Analytics export and warehouse | exports, cursors, leases | generate, deliver | object storage | crash between upload and cursor | no gap in a cursor |
| Data residency (`apps/api/src/data-residency-worker.ts`, `data-residency-neon-r2.ts`, `drizzle/data-residency.ts`, `packages/database/src/residency-data-plane.ts`) | placement, migrations with evidence, a copy of the rows per region | request, cancel, claim, copy, verify, cut over, settle | regional databases and object stores | two workers copying at once, pages read by offset while rows are written, a cutover without a lock | placement and migrations agree; a workspace moves only on proof and leaves nothing behind; every migration ends |
| Concurrent authoring (`packages/sdk-authoring/src/authoring/panel.ts`, `apps/editor/src/authoring-frame-app.ts`, `register-authoring-documents.ts`, `drizzle/documents.ts`) | the autosave queue of each panel, the document and `updatedAt` of each frame, the draft, step locks | edit, autosave, retry, Save & exit, discard, claim a step, acknowledge a Brand version, compile | API | overlapping attempts, timeouts while a save is under way, lost answers, two authors, lock check and write in three transactions | nobody overwrites what they have not seen; "Draft saved" is true; no autosave gets stuck |
| SDK runtime (`packages/sdk-runtime`) | activation, active experience, progress | boot, arbitrate, resolve, render, kill | browser page, API | SPA navigation during loading, teardown | one experience at a time, no work after the kill switch |
| Document compiler (`packages/compiler`) | none | compile | API | none | deterministic artifact |
| In-memory repository | the test double of the Postgres repository | same | tests | none | agrees with Postgres |
| Dashboard, editor, marketing, playgrounds | user interface | | API | | |

Releases, policies, schedules, the mail outbox, webhooks, residency and the
hosted editor's authoring are modelled, in the modules below; `PROJECT.json`
says of each other component why it is not.

### How the modelled parts interact

Every release mutation is one Postgres transaction that takes an advisory lock
on (workspace, environment, document) before it reads the deployment row, so
one transaction is one atomic action of the model.  Transactions of people
(through the API) and of the schedule workers meet only in those tables:
the *pointer* `document_deployments` (what is live, what is pending, and a
generation that counts moves), the *history* `publications` and
`release_operations`, and `release_approvals`.  Concurrency therefore happens
*between* transactions: a person acts on a generation read earlier, an approval
arrives after the policy changed, a worker settles a job it claimed before its
lease ran out.  Those interleavings are what the modules explore.

The other four parts touch the release tables only through what they are told:
releases and settings emit governance events that become webhook deliveries,
accounts request mails, authoring writes the draft that a publish compiles.
Their concurrency is their own.  Schedules, webhooks, mails and residency have
*leased workers*: every API process polls, claims rows under a lease, does something
slow, and settles the rows in a second transaction that must find out whether the
claim is still good.  They tell by a lease version (schedules, mails) or by the owner
and the status of the row (webhooks, residency), and they bound attempts in four different ways, which
is why each has a module of its own.

## Modules

| Module | What it is |
|---|---|
| `ReleaseLog` | Abstract specification: per environment, a log with one entry for every generation; what may be appended to it, a promotion only of what staging shows and the latest report vouches for. |
| `DocumentRelease` | The release tables of one document in staging and production, one action per transaction, with policy, role and plan changes. |
| `DeliverySchedule` | Extends `DocumentRelease` with schedules, jobs and workers; composes both into one next-state relation. |
| `ReleaseLocks` | Inside the transactions that the two modules above take as atomic: the row and advisory locks of twelve operations, statement by statement, and the live-experience limit they protect. |
| `SerialReleases` | Abstract specification: what those locks are for. An operation looks up and takes effect in one step, at its end. |
| `WebhookDelivery` | Endpoints, enqueueing, leased batches against discrete clocks, settlement, replay, retention. |
| `MailPromise` | Abstract specification: what the outbox promises for each mail. |
| `AuthEmailOutbox` | The mail outbox and its workers; implements `MailPromise`. |
| `DataResidency` | Placement, migrations, workers, and the regional databases they copy row by row. |
| `DraftAuthoring` | Panels with their autosave queues, editor frames, the save route, step locks, Brand acknowledgements, dashboard writes. |
| `...Proofs` | Theorems about the module of that name and their proofs; those of `DocumentRelease` fill two modules, `DocumentReleaseProofs` and `ReleaseHistoryProofs`. |
| `MC...` | Small instances of a module for TLC. |

Three refinements are stated with `INSTANCE ... WITH`.  `DocumentRelease`
implements `ReleaseLog`: the mapping `Promise` reads each entry of the log off
the completed operation of that generation (`ImplementsReleaseLog`, checked and proved).
`AuthEmailOutbox` implements `MailPromise`: a row's outcome is open until it is
sent or terminal (`KeepsPromise`, checked and proved).  `ReleaseLocks` implements
`SerialReleases` as long as all plans have the same limit: the variables map to
themselves, a commit to the one step of its operation, the statements before it
to stutters (`ImplementsSerialReleases`, checked and proved).

## From code to model

### Releases and schedules

Variables of `DocumentRelease` are tables: `deployments`, `publications`,
`operations`, `approvals`; `verified` and `everVerified` keep of the
verification reports what is asked about them (the latest passed; some passed);
`policies`, `roles` and `plan` are the rows that authorise.  Row ids are
positions in the sequences and `None` (0) is SQL's null.

| Action | Code |
|---|---|
| `ActivateCompiledArtifact` | `activateCompiledArtifact`; the API calls it only for staging |
| `CreatePublicationVerification` | `createPublicationVerification` |
| `RequestPromotion`, `ResumePromotion` | `promoteVerifiedPublication`: first request with a key; the key's operation awaits approval |
| `ApproveRelease`, `RejectRelease` | `createReleaseApproval` |
| `RecoverDocumentRelease` | `recoverDocumentRelease` with `evaluateReleaseRecovery` |
| `UpdateEnvironmentPolicy`, `UpdateMemberRole`, `ChangePlan` | the governance updates that releases read |
| `CreateDeploymentSchedule`, `CancelDeploymentSchedule` | the functions of those names |
| `ClaimDueJobs` | the claiming transaction of `runDueDeliveryScheduleJobs` |
| `ProcessClaimedJob` | `processClaimedJob` with `completeClaimedJob`/`failClaimedJob` |
| `RetryClaimedJob` | `retryClaimedJob` |
| `ProcessingFails`, `LoseBatch` | a database error in a transaction; a process that dies, or `retryClaimedJob` throwing |
| `TimeReaches`, `LeaseExpires` | the clock passing `availableAt` and `leasedUntil` |

Abstractions a reader should know:

- A request that writes nothing (the replay of a finished operation, a key used
  for another request, a refusal that throws) is a stuttering step.
- The policy's `updatedAt` snapshot is left out: a stale snapshot is refused
  without a write, and the model takes the requests whose snapshot is current.
  Callers pass any generation from 0 to the current one.
- `activating` is written and overwritten inside one transaction and is not a
  status of the model.
- A missing deployment row and one at generation 0 are the same state.
- The code's branches for a changed artifact pin, a rejection found on resuming
  and a changed publication pin of a schedule need rows no transaction writes;
  they have no disjunct.
- The live-experience limit belongs to the workspace.  `ProcessClaimedJob` lets
  it refuse a scheduled start whenever the document is not live yet;
  publishing with the limit exhausted throws and writes nothing.
- Schedules: the revision changes with the status and is left out; `leaseOwner`
  adds nothing to `leaseVersion`; the claim's `skipLocked` and batch limit let
  it take any due jobs.  The schedule's idempotency key is left out (a
  repetition returns the row).  `createdUnderApproval` is a history field, read
  only by a property.

### Locks of the release transactions

`ReleaseLocks` gives every operation the list of statements it runs, in the
order of the code: `Exclusive(l)` and `Share(l)` take a lock, `CountStock`,
`ReadActive` and `CompareGeneration` read what later statements rely on.  `AcquireLock`
runs a locking statement when no conflicting lock is held, `CountLiveStock` and
`FindDocumentDeployment` run the reads, `Commit` applies what the operation writes
and lets go of its locks, `Rollback` stands for every refusal and for the victim
PostgreSQL picks in a deadlock.  Left out because they add no order among the
operations: the key-share locks of foreign keys, the share lock of the document
row, rows that are only locked under the document lock (deployment, operation,
schedule, job), and the wait of two requests with one idempotency key.  Promotions
do not raise the live count: they need an active source, which is the same
document.

### Webhooks

| Action | Code |
|---|---|
| `CreateWebhookEndpoint`, `DisableWebhookEndpoint`, `ReplayWebhookDelivery` | the functions of those names |
| `EnqueueReadsEndpoints`, `EnqueueWebhookEvent` | the two statements of `enqueueWebhookEvent` |
| `LeaseWebhookDeliveries` | the leasing transaction, with the deliveries it finds unroutable |
| `StartDelivery`, `FinishBatch` | the loop of `runOnce`, which compares the lease with a delivery's budget |
| `RefuseEndpoint`, `SendRequest`, `AnswerIsSuccess`, `AnswerIsFailure` | `deliverWebhook`: lookup, POST, answer |
| `CompleteWebhookDelivery`, `FailWebhookDelivery`, `SettlementFails` | the settling transactions, and one that throws |
| `SelectFinishedDeliveries`, `PruneWebhookDeliveries`, `RetentionPasses` | the retention sweep's two statements and its age limit |
| `Tick`, `Crash` | clocks; the death of a process |

Times are numbers of ticks still to go, so the model needs no horizon.  The
environment ends a lookup within `LookupTime` and a settlement within `WriteTime`;
the theorems assume that both together fit the slack (`EnvironmentFits`).
`accepted` is a history variable that counts the customer's positive answers.
Signatures and the address rules of endpoints are left out.

### Mail outbox

The four outbox tables differ in their columns and are one here.  `ClaimDue`
leases a batch, `Begin` or `RejectClaim` takes its next mail, `Send` asks the
provider, whose answer may be lost although it took the mail, `Acknowledge` and
`RecordFailure` settle it against row state and lease version.
`RequestMail` and `SupersedeMail` are the person's doing; `Stop`, `LeaveBatch`
and `LoseBatch` end a worker's batch early.  Clocks are left out: a retry delay
ends at any moment, and so does a lease; one that ends under a worker still at its
batch counts as a loss, because two minutes are meant to cover five sends of ten
seconds.

### Data residency

One workspace and one table, read in pages of one row, with the order of primary
keys as in the code.  `RequestDataResidencyMigration`,
`CancelDataResidencyMigration`, `ClaimDataResidencyMigration`,
`CompleteDataResidencyMigrationPhase` and `RetryDataResidencyMigrationPhase` are the
five transactions; `ReadPage`, `InsertRows`, `TakeDigest` and `ProviderFails` the
statements of the provider, which no transaction spans.  Leases and retry delays
end at any time, since nothing bounds a provider call.  The workspace writes to
the source until the placement moves; nothing in the repository reads
`resolveWorkspaceDataRoute` yet, so a writer does not follow the placement.
What the copied tables are like is a variable that never changes (`schema`).  `scoped` says
that every listed table has the column `workspace_id` by which all queries filter, which
is false of the list as it stands; where it is, `StatementThrows` is all a worker gets of
a copy or a digest.  `keyless` are rows of tables without a primary key, of which the copy
takes none though the digests see them; `orphans` refer to a row that no listed table
copies (`users`), so that inserting them throws; `own` are rows that the migration's own
transactions write, which there are when the control plane's database is one of the regional
ones.  The run takes four such schemas, the list as it stands, one without any of these flaws
and two with some of them; `UnscopedListKeepsTheWorkspace` and `OwnRowsKeepTheWorkspace`
say what follows from the first and the last for any number of rows.  Object storage and route configuration
are left out.

### Authoring

| Action | Code |
|---|---|
| `OpenSession`, `EditStep` | `establishHostedEditorSession`; an edit in the frame and `scheduleAutoSave` |
| `FlushAutoSave` | `flushAutoSave`, by its timer or the author's Retry |
| `ReceiveAnswer`, `GiveUp` | the answer of the save route in frame and panel; `requestIframeSave` timing out |
| `SaveAndExit`, `CloseSession`, `CloseFails` | `saveAndCloseIframeOwned` and its `requestHostedSessionClose`, which throws at once while a discard is closing (`ExitSaved`) |
| `DiscardAndClose`, `Discarded`, `DiscardFails` | `discardAndCloseIframeOwned`: it forgets the timer and what was pending, and its close is answered or fails |
| `ReadDraft`, `CheckStepLocks`, `SaveDocument` | the three transactions of `POST /v1/authoring/document` |
| `LoseRequest` | a request or its answer that gets lost |
| `ClaimStepLock`, `FreeStepLock` | claim with takeover; release or lapse |
| `CheckBrand`, `SendAcknowledgement`, `AcknowledgeDocumentTheme` | `checkAuthoringBrandDrift`, `acknowledgeAsync`, the transaction of that name |
| `ReadForRewrite`, `ChangeForRewrite`, `Rewrite` | the compile and theme-binding routes, which read and write the document in two transactions; `POST /v1/documents`, which writes what its client made of the draft |

A document is the set of edits it contains, so that "overwritten" means that an
edit is gone.  A promise chain of the panel is data (`chain`, `waits`, `exit`):
`Advanced` is what the chain does next, and `Continue` sends the requests that
follow at once.  There is no time: timers and timeouts fire in any state in which
they run, and messages between a panel and its own frame take none.
`unchecked` counts the writes of acknowledgements and dashboard routes, for the
properties.  Left out: the lease protocol of step locks in the frame (here anybody
may claim, and a lock may lapse at any time), presence and heartbeats,
host-owned persistence, preview transactions, expired sessions, refusals to
compile, and two writes in one millisecond.  An edit that `queuePreview` refuses for a presence lock or
an old revision (`panel.ts:1679`) is left out too: the frame takes the authoritative document back
(`controller-bridge.ts:89`), and neither the document nor the queue changes.  `mutations/queue.ts` and
`presence/conflict.ts` are used by tests only.

## Runs

Nine runs pass.

| Run | Question | Instance |
|---|---|---|
| `release_core` | Are the pending promotion, rejection and four eyes kept while policies, roles and the plan change under the operations? | 2 administrators, 2 artifacts, 2 keys, 3 operations, 1 recorded refusal, staging on or off, production with or without approval, two plans |
| `release_log` | Does the history account for the pointer, can recovery always act on it, does production show only verified artifacts, do the tables implement `ReleaseLog`? | 1 owner who approves promotions, 2 artifacts, 3 keys, 5 operations |
| `schedule_workers` | Does every generation have one cause, is a settled job final and a closed schedule never revived, and does every due job and schedule settle? | 2 workers, 1 schedule with or without end, 2 release operations, 2 attempts, 1 lost batch |
| `schedule_overlap` | Does an end only take down what its start put up, and is a promotion that awaits approval pending or overtaken? | 1 worker, 2 schedules, 2 release operations, 1 attempt, approvals that come and go |
| `webhook_delivery` | Is a delivery sent by one worker at a time, repeated only for a fault, and settled in the end? | 2 workers, 1 event, 1 endpoint, batch 2, POST 1 tick, slack 2, lookup 1, leasing 1, 2 attempts, 1 replay, 1 fault |
| `email_outbox` | Does one claim settle a mail, does the outbox keep `MailPromise`, is every mail settled? | 2 mails, 2 workers, batch 2, 2 attempts, 3 claims, 2 losses |
| `residency` | Do placement and migrations agree, does a workspace move on proof and with all its rows, how does every migration end? | 1 migration, 2 workers, 2 keys, 4 schemas, 2 attempts, 1 write, 1 provider failure, 1 fault |
| `release_locks` | Do waits for locks form a circle, is the live limit kept, and does each operation commit as if it had run alone? | every pair of the 12 operations on 2 documents, limit 1 |
| `authoring` | Are edits overwritten, are "Draft saved" and Save & exit true, does an autosave get stuck? | 2 authors of 1 step, 2 edits, 1 retry, one kind of disturbance per behaviour: 1 takeover, 1 lost or late answer, 2 Brand requests, 1 dashboard write, or 1 discard, which may come during an exit, fail, or meet an exit begun beside it |

Why these bounds are enough for what they show.  Publishing to staging and
promoting takes two operations, so three reach: publish, promotion awaiting
approval, and a second publish that makes it stale or a third party's request or
recovery; five reach a rollback to a rolled-back entry and an unpublish after it.
A key is unique per environment only, so two serve three operations.  A second
artifact tells "the artifact verified" from "the artifact live", and it is one that
cannot be deployed any more, so rollback is refused for that reason too.  Two workers and one lost batch give every race on a
lease, and the least number of attempts with both a retry and a last one is two.
Two schedules give an end overlapping a foreign start, and two operations a promotion that a
scheduled job overtakes while it awaits approval; one attempt each keeps that run small, since
`schedule_workers` has the retries.  A deadlock of more than two
transactions needs a chain of waits, which the theorems of `ReleaseLocksProofs` cover for any
number.  One delivery is enough for the races on its lease, and the theorems
cover batches of any size, in which the lease of a later delivery must outlast the earlier ones.
Two edits give an autosave that overtakes another, and two Brand requests a check
and its acknowledgement; kinds of disturbance are not mixed in one behaviour,
since the state space does not fit otherwise, and the theorems about authoring have no
such bound.  Where every symmetric element is alike, and only in runs that
check no liveness, symmetry of keys, users, transactions or sessions is used.
Deadlock checking is off where the bounds make the model stop; `release_locks`
has no bound and checks it.

What the properties say beyond types:

- `PendingIsTheAwaitedPromotion`: the operation in `awaiting_approval` is the one
  production's row names, and still applies to the generation in force.
- `FourEyes`, `RejectionIsFinal`: what approvals and rejections guarantee once
  resubmissions and several approvers interleave.
- `RecoveryIsNeverStuck`: the integrity checks of recovery, which look at the
  whole history, never fail on what the other transactions write.
- `HistoryAccountsForPointer`, `PointerMovesByOneOperation`,
  `EveryMoveHasOneCause`: no lost update on the pointer, whoever moves it.
- `ProductionWasVerifiedOnStaging`: provenance through promotion and rollback.
- `HistoryIsAppendOnly`, `SettledIsFinal`, `ClosedIsFinal`: what is finished never
  changes, also when a worker with an old claim comes late.  The exception is a cancelled
  schedule, which `failClaimedJob` may still turn into a failed one; it is never revived.
- `EndUndoesItsOwnStart`, `UndisturbedJobsSettle`, `SchedulesSettle`: the schedules'
  own promises.
- `AwaitedIsPendingOrOvertaken`: what is left of `PendingIsTheAwaitedPromotion` beside workers,
  who clear the pending column without settling the operation it names.  That operation stays in
  `awaiting_approval` and a newer one may await beside it, but the pointer is past the generation
  it expects, and what the column does name can always be decided.
- `OneRequestAtATime`, `RepetitionsAreFaults`, `AcceptedIsRecorded`,
  `GivesUpForAReason`, `OnlyReplaysAreSweptUnsent`, `EveryDeliverySettles`: when a customer sees a
  delivery, how often, and when not at all.
- `OneSettler`, `DroppedForAReason`, `KeepsPromise`, `EveryMailSettles`: the same for mails.
- `PlacementMatchesMigrations`, `MovesOnProof`, `CutoverMissesOnlyLateWrites`,
  `EveryMigrationEnds`, `QuietMigrationOutcome`: where a workspace is, and that a
  copy by offset under two workers still ends with the same rows on both sides when the schema lets it, and
  gives the placement back when it does not.
- `DocumentLocksNeverCycle`, `DocumentFirstNeverDeadlocks`, `LiveStockWithinLimit`:
  what sorting the environment ids and the order of locks buy.
- `ImplementsSerialReleases`: the locks hold long enough that nothing an operation
  looked up has changed when it commits, which `DocumentRelease` takes for granted.
- `EditsSurviveSaves`, `LockChecksStayValid`: the compare-and-swap makes the
  unlocked read of the step locks good enough.
- `PromisesAreKept`, `AutosavesAreUnderWay`, `ConflictsHaveACause`: what an author is
  shown is true, goes on, and blames others only with reason.

Fairness.  Workers are weakly fair in all four leased modules, because each sets
its timer again whatever the last poll did (`schedule` in the workers' files, after
`finally` or `catch`), and so are clocks, leases and delays, because time passes.  `WebhookDelivery` also has strong
fairness of `StartDelivery`: a worker that keeps finding its lease too short for
another delivery leaves it, leases it again and has a fresh lease then; without
strong fairness the model could let every lease lapse before its first delivery
starts.  Nothing is assumed of people, of customers or of providers, and nothing
against failures: bounds on faults and attempt limits make those end.
Some liveness is conditional, and the property says so: no lost batch
(`UndisturbedJobsSettle`), no fault (`EveryMigrationEnds`), no replay between the two statements of the sweep
(`EveryDeliverySettles`).  Authoring has no fairness: `AutosavesAreUnderWay` is the
safety property that someone is always due to go on.

Each property of a passing run has a mutant in `PROJECT.json`: a change of one
definition as a plausible bug would make it (a guard dropped, a generation not
advanced, a lease compared loosely) that the run then detects.  Mutants are
defined just before the definition they replace.

## Disagreements between the code and its documents

Three runs end in a violation, each of one property stating what a document or
a test promises:

1. `scheduled_recovery` / `LiveCanBeTakenOffline`.  A scheduled start advances
   the generation without a completed release operation;
   `evaluateReleaseRecovery` looks for one and answers `internal_error` to every
   rollback and unpublish while the scheduled publication is live.
2. `scheduling_approval` / `SchedulingHonoursApproval`.  Scheduling tests the
   approval policy only for a publication of another environment.  One that an
   earlier schedule pinned in production while no approval was required can be
   scheduled after the policy asks for approval, although nobody approved it.
3. `schedule_crash` / `DueJobsSettle`.  A batch lost during a job's last attempt
   leaves a job whose next claim breaks the CHECK on `attempts`.  The claiming
   transaction fails at every poll, and the jobs it took along wait too.

Others came up while modelling.  The properties of the passing runs are stated
around them, in the words given here, and no run shows them by itself.  Paths are of the
repository; `drizzle/` is `packages/database/src/drizzle/`.

- *Deadlock of publish and scheduled start* (`drizzle/activation.ts:116`).  A publish locks subscription
  and live stock before the document, a scheduled start (`drizzle/delivery-orchestration.ts:469`, 812)
  after it.  PostgreSQL aborts one.  `docs/reviews/code-review-cursor-on-popup-editor.md:524`:
  "`lockSortedReleaseDocumentEnvironments` deliberately locks in sorted order to avoid deadlock."
  `DocumentFirstNeverDeadlocks` is about the operations that lock the document first.
- *Live stock above the limit* (`drizzle/activation.ts:173`).  A publish does not count a document that is live
  in another environment, and a scheduled end may take that deployment down before the
  publish commits.  After a downgrade the stock then grows above the limit.
  `docs/plans/authoring-and-plan-feature-roadmap.md:257`: "Count live experiences as current serving stock.
  Enforce only on the next publish".  `LiveStockWithinLimit` is checked for a limit that stays.
- *Concurrent delivery* (`apps/api/src/outbound-webhooks.ts:174`).  The host is looked up before the abort timer is armed.
  A lookup longer than the lease lets a second worker send the same delivery.
  `apps/api/src/outbound-webhooks.ts:60`: "Each delivery is hard-bounded by the abort timeout, so the batch's worst case is
  arithmetic rather than a guess."  Run and theorem assume lookups that fit the slack.
- *Retention* (`drizzle/webhooks.ts:162`).  The sweep deletes by ids it selected before; a delivery replayed in between
  is deleted while it is pending.
- *A migration nobody can end* (`drizzle/data-residency.ts:335`).  The claim counts the attempt and takes only migrations below
  the limit.  A worker that dies on the last one leaves a migration that is not
  claimable, cannot be cancelled and blocks every later request.
  `apps/api/src/routes/control-plane-governance.ts:647`: "Nothing will advance this migration, so it is refused rather than
  accepted as a pending row an admin waits on indefinitely."
- *Rows left behind* (`apps/api/src/data-residency-neon-r2.ts:150`).  A row written after the final digests and before the placement
  moves stays in the old region.  `docs/adr/0031-billing-residency-and-warehouse-providers.md:48`: "A residency migration
  copies, verifies, and cuts over the complete tenant data route".
- *A copy that never runs* (`packages/database/src/residency-data-plane.ts:38`, 103).  Copy and digest query every
  listed table by `workspace_id`, and the first, `workspaces` (`schema/tenant-scoping.ts:2`), has no such column
  (`schema/identity.ts:17`, `0000_initial_baseline.sql:26`): as the list stands no migration gets past
  `copying` (`UnscopedListKeepsTheWorkspace`), against the same line of ADR 0031.  Behind it wait two more:
  tables without a primary key (`authoring_style_recipes`, `authoring_draft_checkpoints`,
  `experience_measurement`, `experience_step_locks`) count as copied with no row
  (`residency-data-plane.ts:28`), so that their rows keep the digests apart; and rows with a foreign
  key to `users`, which no listed table copies, cannot be inserted.  `QuietMigrationOutcome` says what
  becomes of migrations in each of these cases.
- *Migrations that fail for nothing* (`packages/database/src/residency-data-plane.ts:82`,
  `apps/api/src/data-residency-neon-r2.ts:103`).  A row updated or deleted after it was
  copied is never brought up to date, so that the digests differ for good; and when the control
  plane's database is the source, the migration's own rows do the same: such a workspace
  can never move (`OwnRowsKeepTheWorkspace`).
- *An acknowledgement overwrites another author* (`packages/sdk-authoring/src/authoring/brand-drift-controller.ts:153`).
  It sends the frame's document with the `updatedAt` of the last Brand check.  A frame
  that has not seen what another author saved before that check overwrites it.
  `docs/adr/0026-step-partitioned-concurrent-authoring.md` promises a save that "fails compare-and-swap
  rather than overwriting".  `EditsSurviveSaves` leaves acknowledgements out.
- *Saves refused for nobody's change*.  After an acknowledgement the frame keeps the
  `updatedAt` of before it (`apps/editor/src/authoring-frame-app.ts:1975`), and after a lost answer it never learns the new one:
  every later save is refused with "The draft changed in another authoring session;
  reload before saving" (`register-authoring-documents.ts:193`), though nobody else wrote.  The
  request of Save & exit and a late autosave of the same panel may conflict in the same way, as may
  the two when a discard has cut the exit short.
  `ConflictsHaveACause` lists these causes.
- *Dashboard writes* (`register-documents.ts:296`, 262, 115).  The compile and theme-binding routes write back the
  document they read, and `POST /v1/documents` the one its client sent, without an expected
  `updatedAt`: a save in between is lost.
- *Edits typed during an acknowledgement* are dropped from the frame, which takes over the
  answer's document (`controller-snapshot.ts:517`).

## Proofs

Every theorem holds for every value of the constants that satisfies the `ASSUME`s of
its module: any number of people, workers, rows and attempts.

`DocumentReleaseProofs`:

- `TypeCorrect`: `Spec => []TypeOK`.  `TypeOK` holds the foreign keys (an active
  publication exists, a pending operation exists, approvals belong to an
  operation); without them it would not be inductive, because the type of a new
  publication rests on the rows it copies.  One lemma per operation shows that
  its rows are of their types, one per action that it preserves the invariant.
- `PendingPromotionSafe`: `Spec => []PendingIsTheAwaitedPromotion`.  The invariant is
  inductive relative to `TypeOK`; the argument is that a transaction which moves
  production's pointer or fails the pending operation settles the one operation
  that awaits, and that only `RequestPromotion` creates another, after it has
  found production's pending column empty or has failed the stale operation.
- `HistoryAppendOnly`: `Spec => HistoryIsAppendOnly`, an action property.  No
  strengthening beyond `TypeOK` is needed: every transaction either appends one
  operation to the rows it read or updates one that awaits approval, and the one
  that does both (`RequestPromotion`, over a stale pending operation) changes
  only that operation (`StepKeepsHistory`).
- `RejectionFinal`: `Spec => []RejectionIsFinal`.  Inductive with `TypeOK`; a
  rejected operation has failed, so by `StepKeepsHistory` no later step touches
  it.  The approvals' foreign key in `TypeOK` is what makes it apply.

`ReleaseHistoryProofs` goes on from there.  Its step lemma (`StepCaused`) says of every
transaction that it leaves the pointers alone or moves one of them by one generation and
completes the one operation that says so, that this operation agrees with its publication
(`Backed`), shows what it should (`Shows`) and, when it is a promotion, has its approvals, and
that an operation ends in `internal_error` only when no completed operation made what is live
(`Unexplained`).  Four invariants rest on it:

- `HistoryAccounts` and `OneOperationPerMove`, from `HInv`: a completed operation moved its
  environment to a generation that was reached, no two completed operations made the same one,
  every generation was made by one, and the last of them put live what is live now.
- `FourEyesHold`, from `EyesInv`: production's policy is one of those the instance may write,
  and if all of them separate requester and approver then no approval is its requester's own.
- `NeverStuck`, from `AInv`: a completed operation agrees with its publication for ever,
  because neither is ever changed, so that with `HInv` what is live is always explained.
- `VerifiedOnStaging`, from `VInv`: what production shows was promoted from a publication
  of staging that had been verified, or restores one that was.

`ReleasesKeepTheLog` is the refinement of `ReleaseLog`.  By `HInv` the entry of each generation
is read off one operation only; a step that completes none keeps every entry, and a
step that completes one appends its entry to one log.  For a promotion the log asks that staging
shows its source and the latest report vouches for it; both are read in the completing transaction.

`DeliveryScheduleProofs` proves of the composed module, for any number of schedules and workers:

- `ScheduleTypes`, from `TInv`, which adds the foreign keys of schedules, of jobs and of what
  workers hold.
- `SettledForGood` (settled jobs and completed schedules never change, cancelled and failed
  schedules are never revived) and `EndsUndoTheirStarts`, from `SInv`: one job per transition,
  a leased job knows its generation, an end that knows its own belongs to a start that
  completed with it, a completed schedule has no job left.
- `OneCausePerMove`, from `MInv`: completed operations and completed jobs together made each
  generation, each by one of them.  It uses `StepCaused` for the release
  transactions that run beside the workers.
- `HistoryAppendOnlyBesideWorkers`, `RejectionFinalBesideWorkers`, `FourEyesBesideWorkers`,
  `VerifiedBesideWorkers`: the promises of releases that survive the workers.  `StepWrites` says
  that a step of schedules or workers writes nothing of the release tables but publications pinned
  for a promotion and the pointers (`SchedulesWrite`), and keeps what schedules pin (`SchedulesPin`).  Four
  eyes and the history follow from the release steps' own lemmas; provenance needs `LiveIsOwn` and
  `PinsAreOwn` (an environment shows, and its schedules pin, only publications of its own), and
  that what is pinned for a promotion had been verified.
- `AwaitedOrOvertaken`: inductive with the types.  Whoever moves production leaves nothing
  pending and every waiting promotion behind; `RequestPromotion` appends one only after the column
  is empty or its operation has failed; the others settle only what the column names.

The remaining promises of releases do not survive, and are theorems of `DocumentRelease` alone:
`PendingIsTheAwaitedPromotion` (`AwaitedIsPendingOrOvertaken` is what is left of it),
`HistoryAccountsForPointer`, `PointerMovesByOneOperation` and `ImplementsReleaseLog` (jobs move the
pointer too: `EveryMoveHasOneCause`), and `RecoveryIsNeverStuck` (the first disagreement above).

`WebhookDeliveryProofs`: `WebhookTypes`, then `LeaseCoversTheBatch` and
`NoConcurrentRequests` under the assumption `EnvironmentFits` (a lookup and a
settlement together are shorter than the slack).  The invariant `LInv` says that what a
worker holds while its lease runs is leased to it in the rows for the same time
(`HeldAreLeased`) and held by nobody else (`HeldOnce`), and that its lease outlasts what is left
of the current delivery: the lookup with the POST and the settlement after it, then the POST,
then the settlement (`LeaseOutlasts`).  A tick shortens both sides by one; the comparison in
`StartDelivery` establishes it, and that comparison is what the slack is for.  The rest of `LInv` is about
enqueueing, which must not insert a row that has been leased already.  The outcomes rest on a
lemma that says what one step may do to one row (`StepShape`):

- `DeathsHaveReasons` and `SweepsSpareTheUnsent`, from `EInv`: a row has an endpoint, and what a
  sweep has selected is over unless somebody replayed a delivery since.
- `RepetitionsNeedFaults` and `AcceptedStaysRecorded`, from `CInv`, which adds counting to `LInv`
  and so needs `EnvironmentFits` too: a delivery accepted once more often than there were faults
  is succeeded, deleted, or about to be recorded by the one worker that holds its lease.

`AuthEmailOutboxProofs`: `OutboxTypes`, `SingleSettler`, `DropsHaveReasons`, and
`PromiseKept`, the refinement of `MailPromise`, all from one invariant: a claim never
runs ahead of its row, two claims differ in mail or lease version, and an answer
belongs to the current claim, whose mail the provider has when the answer is
"accepted".  Each action then maps to one step of the promise or to a stutter.

`DataResidencyProofs`: `ResidencyTypes`, `PlacementAgrees`, `MovedOnProof`,
`ClosedMigrationsAreFinal`, `CutoverIsComplete`, `OwnRowsKeepTheWorkspace`,
`UnscopedListKeepsTheWorkspace`.  The strengthening records what an open migration has
proved so far, what a busy worker works on, and that only open migrations are leased
or delayed; `SuccessorAgrees` carries it through every transaction at once.
The invariant `TInv` of `CutoverIsComplete`: a worker settles a phase that has digests only after taking both,
and while its migration is open the rows it found in the target stay there, since the copy only
inserts and the workspace writes only where it lives.  The migrations' own rows are what could
break that after a first move, so `HInv` shows that with such rows there is no first move: every
claim and phase raises them in the source, a copy of one never changes, and once a migration is
`cutover-ready` its copies are older than any digest taken since, which therefore never match.
`UInv` is simpler: while a listed table has no `workspace_id` no worker ever holds a digest, so no
migration is past `copying`.

`ReleaseLocksProofs`: `LocksTypes`, `SortingPreventsCycles`, `DocumentFirstIsSafe`,
`StockStaysWithinLargestLimit`, `StockStaysWithinLimit` and `LocksMakeReleasesSerial`, the
refinement of `SerialReleases`.
Locks have ranks (the two document locks in the order of the sorted ids, then the
subscription) and every operation takes ranked locks by rising rank.  Along a chain
of waits the rank awaited rises; in a set of transactions that all wait for each
other some rank is the highest, and who waits for it is waited for by nobody in order.
The stock never exceeds the largest limit of any plan, and `limit` itself while all plans have the
same one (after a downgrade it may).  The invariant `StockInv` says that no two
transactions hold conflicting locks, that one that has counted holds the live stock until it
commits, within the limit also with its own document, and that the source of a promotion stays
live under its document lock.  `ReadsInv` adds that whoever moves a deployment holds its document
lock, and so does whoever has compared its generation or found it live; two of them would be one.
So a commit finds everything as it was looked up, and maps to one step of `SerialReleases`; the
statements before it are stutters, and a rollback leaves.  This too assumes one limit: after a
downgrade a publish may rely on a live document that a scheduled end takes down.

`DraftAuthoringProofs`: `AuthoringTypes`, `NoEditIsOverwritten`, `LockChecksHold`,
`SavedMeansStored`, `NoAutosaveIsStuck`, `ConflictsAreExplained`.  The invariant
`SInv` says of every frame and request that, if its `updatedAt` is that of the draft,
it contains the draft's edits, what the route has read for it is the draft, and the steps
found free of other locks are those it changes.  A write makes all other `updatedAt`s old, which
is the whole argument for the draft; most of the proof is that queues only hold what frames sent.
`AInv` adds the promises of the panel.  A panel is `Sound`: it has a timer only with a
pending generation, which is its newest, no attempt in its chain is newer than its
generation, and while it says that it saves something is under way.  Its queue
`QueueFits`: one request for the head of the chain, one for an exit that saves.  And what it
promised is `Kept`: each awaited request carries the edits it stands for, in the store if it was
stored, in itself if its `updatedAt` is still current; and whenever the frame or one of its
requests has the newest `updatedAt`, the frame holds all its author's edits, so that what
it sends next does too.  The last part is what survives a late answer: a frame that gave a
request up only holds an old `updatedAt`, until the request's own answer brings the new one.
`CInv` is about calm runs, those without faults and unchecked writes.  In them every request of
an open panel is awaited, and the session that wrote the draft last, unless it is discarding, `Leads`: its frame, or the
answer on its way to it, has the newest `updatedAt`, and so has the autosave that is out; or an
exit wrote it.  Only the next writer ends that, and then the draft is no longer by this author.

Every safety property of a run that passes is a theorem.  Only model-checked are the six liveness properties, which
are beyond this prover: `UndisturbedJobsSettle`, `SchedulesSettle`, `EveryDeliverySettles`,
`EveryMigrationEnds`, `QuietMigrationOutcome` and `EveryMailSettles`.

## What is left out

Of the modelled components, besides what [from code to model](#from-code-to-model)
names: workspaces, other documents (except for locks and the live limit) and the
development environment; removal of members and deletion of accounts (an operation
whose requester is gone cannot be approved); the API's own checks before the release
transactions (callers are arbitrary, so the model has more behaviours); the fields
requests are compared by when a key is repeated; the transition history of schedules
and the data catalog that shares their file.

Of the repository: most of its 300,000 lines of implementation are user
interfaces (dashboard, authoring frame, runtime rendering, marketing), message catalogs,
schemas, styles, generated code and the in-memory test double.  The modules model the
transactions, workers and queues in which a step of somebody else makes what one has read
stale; identity sessions, billing, analytics and the runtime's activation are the parts of that kind
still missing.

## Plan

Next, in this order:

1. `BillingEvents`: provider events out of order and repeated, meter batches.
2. `WarehouseExport`: leased exports with a cursor, a crash between upload and commit.
3. `SessionRotation`: rotation and revocation of sessions, step-up assurance.
4. `StepLockClient`: the frame's lease protocol (claim, refresh, loss, takeover),
   composed with `DraftAuthoring`.
5. `PromotionHandlers`: the API's read-then-call steps composed with
   `DocumentRelease`.
6. `SdkActivation`: boot, arbitration and teardown of the runtime.
