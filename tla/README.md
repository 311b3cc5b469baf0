# Colophony: verification project

Colophony is a platform for literary magazines: writers submit, editors decide, accepted pieces go
through contract, copyediting and publication, and instances of different organizations exchange
writers and manuscripts. The code is a TypeScript monorepo; the state that matters is in PostgreSQL,
Redis (BullMQ), S3 (tusd) and Inngest, and in three services outside (Documenso, Stripe, Zitadel).
No transaction spans two of them. What can go wrong lies between them, and between two requests
that each read before they write: that is what these modules are about.

Contents

1. The system: parts, components, what is hard
2. Modules, and how they correspond to the code
3. Runs: what each checks and shows, bounds
4. Fairness
5. Proofs
6. Only model-checked
7. Known divergences
8. Further hazards
9. Not modelled
10. Plan

To check a run: `tlc -config Outbox.cfg MC_Outbox.tla`. To check the proofs: `tlapm OutboxProofs.tla`.
Paths below are relative to `src/apps/api/src/` unless they start with `packages/` or `docs/`.

## 1. The system

The repository names four parts: **Hopper** (submissions), **Slate** (contracts, pipeline,
publication), **Relay** (events, webhooks, notifications) and **Register** (identity, federation).

### How a request runs

Every API request that names an organization gets one PostgreSQL transaction
(`hooks/db-context.ts`): the hook begins it, sets the row-level-security variables, and commits in
`onResponse` - also when the response is an error, because tRPC turns a thrown error into a reply.
Isolation is READ COMMITTED. A service that must not race takes `FOR UPDATE` on the row; many read
first without a lock. Embedded forms, webhooks and workers use `withRls`, which rolls back when the
callback throws. The two differ exactly where a service throws after a write (section 7).

### Components

| Component | State it keeps | Operations | Talks to |
|---|---|---|---|
| Outbox (Relay) | `outbox_events.processed_at`: null, the epoch sentinel, a timestamp | enqueue, recover stale claims, fetch, claim, send, mark, unclaim | written by every service below, in the request's transaction; drained into Inngest |
| Submissions (Hopper) | `submissions.status`, `manuscript_version_id`, `submission_history` | create, import, submit, embed submit, resubmit, withdraw, editor move, batch, delete, withdrawal cascade | reads file scans; enqueues outbox events |
| Files and scans | `files.scan_status`, two S3 buckets, BullMQ jobs | post-finish hook, scan, delete | tusd, ClamAV, S3, BullMQ |
| Contracts (Slate) | `contracts.status`, `documenso_document_id`, `documenso_webhook_events` | send step, webhook handler, editors' send and void, waits | Documenso, Inngest |
| Pipeline (Slate) | `pipeline_items.stage`, `pipeline_history` | create, assign, move, workflow steps and waits | outbox, Inngest |
| Outgoing webhooks (Relay) | `webhook_endpoints.status`, `webhook_deliveries.status`, BullMQ jobs | fan-out, attempt, final failure, edit, delete, test, retry | Inngest, BullMQ, third parties' servers |
| Trust (Register) | `trusted_peers`: one row per organization and domain, on each instance its own | initiate, receive a request, accept, receive an accept, reject, revoke | other instances, by signed HTTP sent once |
| Migration (Register) | `identity_migrations` on both instances, `users.migrated_at`, imported `submissions` | request, approve, bundle, deliver, complete, reject, cancel | trust; the other instance |
| Piece transfer (Register) | `piece_transfers` at the origin, `inbound_transfers`, a draft and a fetch job at the destination | initiate, accept, fetch, serve, cancel | trust; the other instance, BullMQ, S3 |
| Simultaneous-submission checks (Register) | `sim_sub_override`, `sim_sub_policy_requirement`, fingerprints of versions, checks | look up or compute a fingerprint; check here, of sibling versions, of what was disclosed, of other instances; submit; override | submissions, trust |
| Zitadel webhooks and sign-in | `users`, `last_event_at`, `zitadel_webhook_events` | create, change, verify, deactivate, reactivate, remove; create on sign-in | Zitadel |
| Stripe webhooks | payments | checkout completed, checkout expired | Stripe |

The others (section 9) are edits of rows by one request, readers of events, or adapters.

### What is hard, and what makes each component correct

* **Outbox.** Pollers overlap, die between two statements, and judge a claim by the age of the row.
  Correct: a committed event reaches Inngest, once unless an attempt failed, and is never marked
  done without having been sent.
* **Submissions.** Two requests and a cascade race for one row, one of them acting on what it read
  earlier; the file scan changes under a submit. Correct: a decision is final and unique, the
  history is the path the status took, every announced change is announced once, the version an
  editor reads is not swapped, an infected file does not get in.
* **Files.** Row, job and object live in three systems; hooks repeat, and a stalled job has two
  runs at once. Correct: an infected object is never offered as clean, a clean file can be
  downloaded, a scan comes to a verdict.
* **Contracts.** Webhooks repeat, overlap and come before the workflow knows the document; the
  workflow's step repeats after its effect. Correct: a webhook acts once, the status has a signed
  document behind it, a signature reaches the contract.
* **Pipeline.** Editors and a workflow move the same item, each by id after an unlocked read.
  Correct: only valid moves, and no proofreading before the author has approved.
* **Webhooks.** A job waits for hours while its endpoint is edited, disabled or deleted; callbacks
  count failures in transactions that do not see each other. Correct: a disable takes effect, the
  auto-disable is justified, the row tells what the endpoint answered, deliveries end.
* **Trust.** Requests cross, get lost, and are answered while an admin decides otherwise on a row read
  before. Correct: an active row rests on the other side's grant.
* **Migration.** Two databases and messages sent once; every handler reads, works for up to half a minute and updates by
  id; the side that waits gives up before the side that works. Correct: whoever is held for moved has the
  work at the destination, and whose bundle was taken is moved.
* **Transfer.** The destination may fetch before the origin has a record, attempts overlap with
  cancellations and with each other, and start over. Correct: a complete transfer is complete, a failed one shows, and the files come.
* **Simultaneous submissions.** A check of several sources, one after the other, before a submit in a world that goes
  on, by fingerprints stored earlier. Correct: a conflict the records show all the time is not missed.
* **Identity.** Events come repeated and in any order, or never. Correct: the row is what the events it has
  applied make of it, and a removal stays.

## 2. Modules

| Module | Code | About |
|---|---|---|
| `Outbox` | `services/outbox.ts`, `workers/outbox-poller.worker.ts`, `queues/outbox-poller.queue.ts` | outbox and overlapping pollers |
| `SubmissionStatus` | `packages/types/src/submission.ts` | statuses, the two transition tables, what is announced |
| `SubmissionLedger` | the promise of `services/submission.service.ts` | abstract specification of a submission |
| `Submission` | `services/submission.service.ts`, `services/embed-submission.service.ts`, `hooks/db-context.ts` | requests with their unlocked reads, and the cascade |
| `Contract` | `services/contract.service.ts`, `inngest/functions/contract-workflow.ts`, `webhooks/documenso.webhook.ts` | contract, workflow and Documenso |
| `Pipeline` | `services/pipeline.service.ts`, `inngest/functions/pipeline-workflow.ts` | the item, editors and the workflow |
| `FileScan` | `webhooks/tusd.webhook.ts`, `queues/file-scan.queue.ts`, `workers/file-scan.worker.ts`, `services/file.service.ts` | one uploaded object |
| `WebhookDelivery` | `inngest/functions/webhook-delivery.ts`, `queues/webhook.queue.ts`, `workers/webhook.worker.ts`, `services/webhook.service.ts`, `trpc/routers/webhooks.ts` | fan-out, attempts, an admin |
| `Trust` | `services/trust.service.ts`, `federation/federation-auth.ts` | rows of all organizations of all instances, messages, admins |
| `Migration` | `services/migration.service.ts`, `services/migration-bundle.service.ts` | one writer's migrations; EXTENDS `Trust`: a composition |
| `Transfer` | `services/transfer.service.ts`, `queues/transfer-fetch.queue.ts`, `workers/transfer-fetch.worker.ts` | one piece's transfer on both instances |
| `SimSub` | `services/simsub.service.ts`, `trpc/routers/submissions.ts` | the check before a submit |
| `Identity` | `webhooks/zitadel.webhook.ts`, `hooks/auth.ts` | one user's row under events and sign-in |
| `RegisterProofs` | | theorems about `Transfer`, `SimSub` and `Identity` |
| `*Proofs` | | theorems about the module of that name |
| `MC_*` | | constants for TLC |

A definition whose comment begins with "Mutant:" is no part of a specification: it is the form the
definition after it would have with a plausible bug, and shows that a property is sensitive to it.

### Outbox

A row is inserted by `EnqueueOutboxEvent` (its commit); `Age` lets five minutes pass for the oldest
events, so `horizon` splits old rows from young ones. A poller's job is `RecoverStaleClaims`,
`FetchBatch` and then, for each row, `Claim`, `SendOk` or `SendFails`, `MarkProcessed`, and after an
error `Unclaim`. Every statement commits by itself in the code, so every statement is a step.
`MarkFails` is the mark that throws after a successful send, `Crash` a job that stops. The claim is
`WHERE id = ... AND processed_at IS NULL`; `SkipClaimed` is its empty result.

### Submission

A request is a READ COMMITTED transaction. One that locks the row before it looks is one step, its
commit (`Withdraw`, `EditorMove`, `Batch`, `Create`, `Import`, `Delete`). One that decides on
something unlocked takes a step per read: `SubmitChecks` (files) then `SubmitCommits`, `EmbedChecks`
then `EmbedCommits`, `ResubmitReads`, `ResubmitChecks`, `ResubmitCommits`. `Free(s)` is the row lock:
nobody else commits on a submission that a request has locked. The cascade of
`withdrawCascadeAsOwner` runs outside a transaction: `CascadeFinds` is the lookup, then
`CascadeWithdraws`, `CascadeLogs` and `CascadeAnnounces` commit separately for each sibling. `Crash`
ends a request anywhere. `ScanStarts`, `ScanEnds`, `Upload` and `RemoveFile` are the file side, as
much of `FileScan` as a submit reads. All versions belong to one writer and one manuscript, so that all
submissions are siblings; writers do not interact otherwise.

`SubmissionLedger` is what the service promises: one step per decision, its history row and its event
with it. `Submission` implements it with the identity on `status`, `history` and `events` (`Ledger ==
INSTANCE SubmissionLedger`): the request records, scans and versions are hidden.

### Contract

`CreateDocument`, `RecordDocument`, `StepReturns` are the phases of the step `send-to-documenso`;
`StepFails` fails it before or after any of them, and Inngest runs it again, each time making a document of
its own. `Sign` and `Complete` are the signer's; `due` holds the webhooks Documenso owes or repeats. A
handler is `HookBegins` (the insert of the key, which makes the second one wait), `HookCommits`,
`HookSends` (the Inngest event after the commit); `HookFails` cuts it off. `WaitTimesOut` is the 90 day
timeout, `SendReads`/`SendWrites` and `Void` are the editors'.

### Pipeline

`MoveReads`, `MoveChecks`, `MoveWrites` are an editor's move: the stage is read twice without a lock and
the row updated by id; the event is chosen from the first read. `Create` and `Assign` are single
commits. The workflow is `WfStarts`, `WfCreates`, `WfReads`, `WfWrites`, `WfReturns`, with
`WfRefused` for an invalid transition, `WfCrashes` for a lost result and `TryAgain` for Inngest's
retries; `EventArrives` hands it an event, or drops it when the workflow is not waiting for it.

### FileScan

`HookFinds`, `HookInserts`, `HookEnqueues` are the post-finish hook; `TakeJob`, `Stall`, `WorkerDies`
and `Ends` are BullMQ's. The worker's run is one action per statement: `Mark`, `Scan`, `Copy`,
`Drop`, `RecordClean`, `RecordInfected`, `Chain`, and `RecordFailed` with the rethrow for its catch
block; `StatementFails` throws at any of them. `DeleteReads`, `DeleteRemoves`, `DeleteCommits` are the
owner's delete, which holds the row's lock until it commits (`Unlocked`). What ClamAV says of the object
is fixed at the start (`infected`).

### WebhookDelivery

`FanLists` is the first memoized step; `FanCreates` and `FanEnqueues` loop over its endpoints, and
`FanFails` runs the second step again from its start - also when only its result was lost, after the last enqueue. An attempt runs in
a slot (`run[w]`): `Take`, `Check`, `Cancel`, `Mark`, `Post` or `Refuse`, `Answer`, `Complete` or `Throw`. `Stall` is a lock that
expires, under a dead worker or under one that is only slow: then the old run goes on in its slot beside the second, and since only the
lock's holder (`Holds`) moves the job, all the old run still does is to write the row. The final failure's callback `onFailed` is `FailureCounts`,
`FailureCommits`, beside the worker's slots. The admin's requests (`UpdateEndpoint`, `DeleteEndpoint`,
`SendTest`, `Retry`) enqueue before their transaction commits; `TestCommits` and `RetryCommits` are
the commits, and until then an inserted row is invisible and an updated one locked. `stranded` records the
deliveries nothing will run, and each action that adds to it says why.

### Trust and Migration

In `Trust` every organization has a row `peer[o][i]` per instance. `InitiateTrust` commits the row and puts the request in `mail`;
`ReceiveRequest` handles it for one organization after another, each a transaction, so that `Lose` may
strike in between. `ActReads` and `ActWrites` are the two statements of accept, reject and revoke (unlocked read,
update by id); `ReceiveAccept` and `ApplyAccept` the list of waiting rows and their updates. `granted` is a history
variable: who has granted what to whom. `Authenticated` and `Grants` are what the other protocols ask of a row.

`Migration` extends `Trust` and adds one writer's migrations. `AskChecks` and `AskInserts` are the origin's handler - it reads the account, its
records and the trust, and inserts later, when only the unique index looks again - and `AskAnswered` what the destination makes of its answer. A run of `approveMigration` is one record of `run`: `Approve`, `Pack`, `Deliver`, then at the
destination `Import` (once per part of the bundle) and `MarkProcessing`, and at the origin again `BundleSent` or
`BundleRefused`. `OriginGivesUp` clears `waiting`: the destination goes on, its answer goes nowhere. `HandlerFails` is an
error in the destination's handler. `DecideReads` and `DecideWrites` are rejection and cancellation on either side,
`Complete` and `CompleteWrites` the two statements of the completion. Nothing in `Migration` writes a row of trust; a revocation stops it at the
next message.

### Transfer

`Post`, `Record` and `InitiatorDies` are `initiateTransfer`, whose record comes after the answer. `Accept` commits draft and record
at the destination, `Enqueue` adds the job, `FallBack` fetches without one. `CancelReads` and `CancelWrites` are the unlocked read and the update by id of a cancellation. An attempt is `Start`, `Begin` (phase 1), `ResolvePeer`, `Fetch` or `FetchFails` per file
(they run concurrently), `WriteLinks`, `WriteStatus`, `Return` or `Throw`; `Errs` and `Dies` break it anywhere. `Stall` is a lock that expires, under a dead worker
or under one that is only slow: then the old run goes on beside the second, and since only the holder moves the job (`MoveJob`), all it still does is to fetch and to write.
`strayed` is a history variable: such a run, or the fallback, has written. `Serves` is what the origin answers to a request for a file: only with a record in PENDING or FILES_REQUESTED.

`AuditRefuses` stands for `services/audit.service.ts:276`. In the repository it is TRUE: the worker passes an `organizationId` to
`logDirect`, which throws when it is given one, so that every attempt ends where it begins (`transfer_audit`, section 7). The worker's tests replace the audit service,
and the run `transfer` does as they do: with FALSE it examines the protocol that the rest of the code implements. The proofs hold for both.

### SimSub

A submit request is one record of `req`: `BeginSubmit` reads draft and policy; `LookUp` takes the fingerprint stored with the version or, when there is none, goes on to
`Compute`, which stores that of the content as it is now; `Check` takes the four sources in any order (the code starts them together), `Unanswered` is a remote that fails or
takes more than two seconds, `Decide` acts on the verdict (`CheckVerdict`), `Submit` the transaction with requirement and status. What a source shows is `Local` (submissions of
versions with an equal STORED fingerprint), `Siblings`, `Disclosed` and `Abroad` (an instance that does not find the writer answers with no conflict). `Moves`, `Resubmits`, `Edits`,
`Discloses`, `MovesAbroad`, `AccountAbroad` and `GrantOverride` go on meanwhile; none of them touches a fingerprint. `steady` is a history variable: the conflicts there have been since the
request has its fingerprint.

### Identity

`Issue` makes an event at Zitadel, `Deliver` handles one: mark, guard and effect in one transaction, so one step. A delivery that finds the
address taken by a guest (`Clash`) fails and is repeated. `SignIn` makes the row from a token's claims or takes over the guest's.
`Effect` is what each handler sets; `Replay` applies a set of events in their true order: with all of them it is the user as Zitadel has it (`Truth`), with those
that were applied it is what the properties compare the row with.

## 3. Runs

Every run states its bounds in its .cfg. "States" are distinct states TLC finds. Deadlock is checked
only for `Outbox`; every other system may rightly stop: all statuses final, no request under way, no
fault left.

| Run | Configuration | States | What it shows |
|---|---|---|---|
| outbox | `Outbox.cfg`: 2 pollers, 3 events, batches of 2, the first event poison, 1 crash, 1 failure | 362k | two pollers exclude each other on young events; no event is marked done unsent, reopened while young, or starved |
| submission_requests | 1 submission, 2 versions with files, 2 requests, both resubmissions, crashes, at most 8 history rows, symmetry on requests | 213k | requests implement the ledger; histories link, versions frozen, infected drafts out |
| submission_cascade | 2 submissions, 2 cascades, API resubmission, batches of distinct ids, at most 5 history rows | 106k | cascades over each other and over editors: decisions final and unique, no event invented, withdrawals announced while nothing stops |
| contract | 2 handlers, 1 retry (so 2 documents), 2 faults, editors | 370k | a webhook acts once, no event before its commit, a document behind each status, COMPLETED given up at most to a late signature, signatures arrive |
| pipeline | 1 editor, the workflow, 1 retry, timeouts, 1 fault, at most 6 moves | 382k | only valid moves, the proofreader waits for the approval, an assignment advances |
| filescan | 2 rows of one object, 2 hooks, 2 workers, 2 attempts, 1 stall, 1 fault | 296k | infected stays contained, clean can be downloaded, scans come to a verdict |
| webhook | 1 endpoint, 3 deliveries, 2 slots, 2 attempts, threshold 2, 1 fan-out retry, 1 stall, 2 disturbances: admin requests or faults | 517k | disabling works and is justified, statuses are honest, deliveries settle |
| migration | `Trust` and `Migration` together: 2 instances with 1 organization each, 3 requests of admins, 2 migrations, 2 approvals, 1 piece, 1 disturbance | 1,277k | trust is never one-sided, nobody leaves without the work, a sent bundle moves the writer |
| transfer | 2 files, 2 workers, 3 attempts, 1 stall, 1 fault, the audit call as the tests have it | 1,394k | FILES_COMPLETE is honest, giving up shows, a cancellation stays, files arrive |
| transfer_audit | the same with no fault and the audit service as it is in the repository | - | every attempt throws before it fetches: the files never arrive |
| identity | 4 events with 4 timestamps, any order of delivery, repetitions, sign-ins, a guest | 573k | the row is the replay of what was applied, exact when in order; only what was overtaken is dropped; a removal stays |
| simsub | 2 submissions, 2 versions of one manuscript, 2 contents, 1 remote, 2 changes, symmetry on submissions, versions and contents | 4,955k | no submit misses a conflict the records have shown since its fingerprint look-up |

`transfer_audit` looks for one violation: the service and the queue's test say that the worker fetches the files, and the
first statement of every attempt throws. PROJECT.json quotes the lines, section 7 explains.

### The properties

Type invariants are called `TypeOK` (`SimSubTypeOK`, `IdentityTypeOK`: three modules share one proof module); TLAPS proves each of them
(section 5), and no run repeats them. The others:

* `YoungExclusive`, `YoungSentOnce`, `YoungDoneStays`, `DoneWasSent` - until five minutes after its
  creation an event has one poller at a time, Inngest gets at most one copy more than there were
  failed attempts, and done stays done; done means sent at any age. `EventuallyProcessed` - every
  event Inngest accepts is eventually done for good, provided that fewer events than a batch are
  refused for ever.
* `HistoryLinks`, `OneDecision`, `TerminalFinal` - the history is a path that ends at the status (with two exceptions that the code
  makes: divergences 6 and 7), with one decision at most, and a decision is never left. `NothingAnnouncedUnrecorded` - the outbox tells no
  more than the history says, with crashes and cascades.
  `VersionFrozen` - only a resubmission from REVISE_AND_RESUBMIT replaces the version; one by the API that is refused may, too,
  but only in a submission whose revision was asked for (divergence 4).
  `InfectedDraftBlocked` - a draft with a known infected file is not submitted. `ImplementsLedger` - the
  refinement. `WithdrawalAnnounced` - the organization of a withdrawn submission is told.
* `AppliedOnce`, `NoGhostEvents`, `SignedInDocumenso`, `CompletedReopened`, `SignatureArrives` - a delivery changes the
  contract once, an Inngest event follows its commit, SIGNED and COMPLETED have a recorded document
  that was signed, COMPLETED goes back to SIGNED only by the first handling of the webhook of a signature on a recorded document
  (that it can is divergence 9), and a signature on a recorded document reaches the contract.
* `MovesLegal`, `ProofreadNeedsApproval`, `AssignmentAdvances` - every history row is a valid move from a
  stage the item was in (not necessarily in last: section 7), the workflow sends to the proofreader
  only after an approval, and an assignment the workflow waits for ends COPYEDIT_PENDING.
* `InfectedContained`, `CleanDownloadable`, `ScanSettles` - an infected object is never in the
  clean bucket and never CLEAN; a CLEAN file has its object there unless deleted; a scan that was
  enqueued ends in a verdict, a deletion, or BullMQ's "stalled too often".
* `LateBounded`, `DisableJustified`, `OutcomeHonest`, `DeliverySettles` - after a disable at most the
  attempts already past their check are sent, so no more than there are slots; the worker disables only after
  as many failures as the threshold; DELIVERED was accepted, FAILED and CANCELLED were not (unless the
  delivery was sent again after a retry or a fault); every delivery ends, except those in `stranded` (divergences 15 to 18).
* `TrustAgreed`, `WorkArrived`, `ApprovedMoves` - an active row carries what the other side granted, or what its
  own organization granted to who asked; BUNDLE_SENT, COMPLETED and a deactivated account mean that all of a bundle
  assembled for the migration is imported; after BUNDLE_SENT the account is deactivated, unless the one notice got lost.
* `CompleteHonest`, `FailureShown`, `CancelFinal`, `FilesArrive` - FILES_COMPLETE means stored, and linked unless a run without the lock has written; a job that gave up with nothing broken left
  FAILED or links; a cancellation stays; a job that waits ends in FILES_COMPLETE, unless the transfer was cancelled or
  never recorded, trust or token ended, a file went, or a run without the lock has written (divergence 22).
* `NoUnseenConflict` - a submit does not miss a conflict that stored fingerprints, the manuscript, the writer's account or an instance that finds the writer have
  shown since the request had its fingerprint; PARTIAL alone lets one pass. What the records do not show is no conflict here: divergence 23 says what that leaves out.
* `ReplayOfApplied`, `InOrderExact`, `DroppedForNewer`, `RemovalSticks` - the row is the replay of what was applied; events in order, of different times, give the user
  as Zitadel has it; an event that was processed and left no trace was overtaken by a newer one (or one of the same time) that is in the row, or had itself
  overtaken an earlier one and is of a kind that makes no row; after a removal nothing changes the row.

### Why the bounds are enough

* Two actors of each kind: the races of this code are between two, each of which reads, is overtaken and
  writes. A third only repeats what the second does to the first; and every safety property is proved for any
  number (section 5), so that the bounds matter for the liveness properties only.
* One fault, or a crash and a failure, at ANY statement: each hazard listed needs one. Retries
  are cut from 3 to 1 or 2, which still gives a first run, a repeated one and a last one that fails.
* Outbox: 3 events and batches of 2 make a batch that does not take everything, with a poison event
  that always comes first. With a batch of poison events `EventuallyProcessed` fails: it assumes
  fewer.
* Submission: 8 history rows allow REVISE_AND_RESUBMIT to be reached and left twice; 5 for the
  cascade, whose hazards lie between an editor's move and the withdrawal. One submission in the first run, because
  only batches and cascades relate two; two in the second.
* Contract: a retry gives a second document, so webhooks for a replaced one exist. Pipeline: 6 moves reach READY_TO_PUBLISH,
  and come back from the author's review once.
* FileScan: two rows and two hooks are the duplicate the missing unique index allows; two attempts and
  one stall make runs overlap, one after it was given up.
* Migration: one organization on each side, three requests of admins (ask, accept, revoke), two migrations because a
  second one can begin while the first is overwritten, two approvals because an answer of one meets the effect of the other, one
  disturbance: new work, a decision against it, a request while another is between its check and its insert, a time-out or an error.
* Transfer: two files make an attempt partial; three attempts and a stall as in the code; two workers overlap two runs of the job (nothing else runs in this queue); one fault.
* Identity: four events are the shortest history with a change, a deactivation, its end and an event that overtakes; four
  timestamps let them all differ or coincide.
* SimSub: two submissions, of equal or sibling versions, one remote, and two changes: a conflict that begins and one that ends, or an edit between two look-ups. Drafts have one request
  each (of two, the second finds the draft submitted). `SiblingLimit` is 1 (50 in the code) with one sibling, so the limit is not passed in the run; the proof holds for any.
* WebhookDelivery: two deliveries to one endpoint reach the threshold of two, and a third lets a repeated fan-out step come after one that had served it.
  Two slots overlap two runs of one job. Two disturbances - requests of the admin (edit, disable, delete, test, retry) and faults (an error, a death, an expired lock) in any combination -
  are each hazard listed with one more event against it. A second endpoint would only
  add interleavings of independent rows (nothing in the code relates two), except that the fan-out lists several:
  `Orders` and the proofs treat any number of them.

## 4. Fairness

Weak fairness only, and only for what something in the system keeps doing:

* `Outbox`: `Age` (time passes) and each poller's `Job`: the scheduler repeats every five seconds and a statement returns
  or throws. Not: commits of requests, crashes, failures.
* `Submission`: a request past its first step (Node resumes a continuation once its query returns, and row
  locks end with commits that are continuations themselves), and the cascade's statements. Nobody has to begin a request.
* `Contract`: each handler (Documenso repeats a webhook until it gets a 200), the workflow's create,
  record and return. Nobody has to sign; waits need not time out.
* `Pipeline`: the workflow's steps (Inngest) and each event's arrival (the outbox, whose
  `EventuallyProcessed` is the ground for this). Editors need not act.
* `FileScan`: each worker's run, each job's being taken, the stalled check for jobs whose worker is gone,
  a delete that has begun. Hooks need not be repeated.
* `WebhookDelivery`: the end of a request, each job's being taken, each slot's run, the stalled check for jobs whose worker is
  gone, each callback, and the fan-out's enqueue. The admin's requests, the repeated steps, a lock that expires under a live run and the
  faults need not happen.
* `Migration`: each notice (`Noticing`) - a request that was sent arrives, is refused or is lost. Nobody has to approve.
* `Transfer`: a waiting job's being taken, each run's steps (`Working`: a statement or fetch returns or fails), the stalled check for a job whose worker is gone, and the end of the
  origin's request (`Initiating`: its fetch has a time-out). A lock need not expire under a live run.

## 5. Proofs

All theorems are about the specification with its constants left open, from the assumptions named in the
modules (`OutboxAssumption` and the like: bounds are naturals, the retry and attempt limits make sense, sets
that are counted are finite).

| Module | Theorem | Property |
|---|---|---|
| `OutboxProofs` | `TypeCorrect`, `ExclusiveWork`, `DeliveryCount`, `NothingLost`, `DoneStays` | `TypeOK`, `YoungExclusive`, `YoungSentOnce`, `DoneWasSent`, `YoungDoneStays` |
| `SubmissionProofs` | `TypeCorrect`, `DecisionIsFinal`, `NothingToldUnrecorded`, `HistoryStaysLinked`, `VersionStaysFrozen`, `InfectedStaysDraft` | `TypeOK`, `TerminalFinal`, `NothingAnnouncedUnrecorded`, `HistoryLinks`, `VersionFrozen`, `InfectedDraftBlocked` |
| | `DecidedAtMostOnce`: no batch repeats an id | `OneDecision` |
| | `RequestsImplementLedger`: no cascade, no batch repeats an id | `ImplementsLedger` |
| `ContractProofs` | `TypeCorrect`, `HandledOnce`, `EventsAfterCommit`, `StatusHasDocument`, `ReopenedOnlyLate` | `TypeOK`, `AppliedOnce`, `NoGhostEvents`, `SignedInDocumenso`, `CompletedReopened` |
| `PipelineProofs` | `TypeCorrect`, `HistoryIsLegal`, `ApprovalFirst` | `TypeOK`, `MovesLegal`, `ProofreadNeedsApproval` |
| `FileScanProofs` | `ScanTyped`, `InfectionContained`, `CleanIsThere` | `TypeOK`, `InfectedContained`, `CleanDownloadable` |
| `WebhookDeliveryProofs` | `TypeCorrect`, `DisableTakesEffect`, `DisablingJustified`, `AnswersRecorded` | `TypeOK`, `LateBounded`, `DisableJustified`, `OutcomeHonest` |
| `MigrationProofs` | `TrustIsAgreed`, `MigrationTyped`, `TrustStaysAgreed`, `NoWorkLeftBehind` | `TrustAgreed` of trust alone, `TypeOK`, `TrustAgreed` of the composition, `WorkArrived` |
| `RegisterProofs` | `TransferTyped`, `CompleteIsHonest`, `FailureIsShown`, `CancelledStays` | `TypeOK`, `CompleteHonest`, `FailureShown`, `CancelFinal` of `Transfer` |
| | `SimSubTyped`, `LastingConflictSeen` | `SimSubTypeOK`, `NoUnseenConflict` |
| | `IdentityTyped`, `AppliedInOrder`, `InOrderIsExact`, `DroppedWereOvertaken`, `RemovedForGood` | `IdentityTypeOK`, `ReplayOfApplied`, `InOrderExact`, `DroppedForNewer`, `RemovalSticks` |

Two theorems have a hypothesis on the constants: a batch that repeats an id decides twice (section 7, 7), and a cascade's statements commit apart (3), so without it the code
breaks the property; the run that checks the property has the same configuration. The others hold for every value of the constants. Where the code makes exceptions, as to
`HistoryLinks` and `VersionFrozen`, the property names them and the theorem is about all of the code.

The inductive invariants, and why the property alone does not carry itself:

* **Outbox.** `ExclusiveInv`: `cur` names a row exactly in the statements that work on one (`CurInv`), and a young row
  that somebody holds is `claimed` (`YoungHeldIsClaimed`). Without the second a claim could
  succeed on a held row. `YoungCount` refines the count by where the attempt is: before
  its send, and in every row that is null, copies do not exceed failures; so a claim leaves room for one more. `SentInv`:
  who is about to mark has sent.
* **Submission.** `Locks`: a request that has checked its files and will commit has the row in a status it
  may leave (`submit`: DRAFT or REVISE_AND_RESUBMIT; `embed`: not there yet), and two requests hold
  different rows. From that, every action that writes a status writes from a status that is not terminal.
  `RequestsImplementLedger` is the refinement, with two hypotheses the code makes necessary: no cascade runs
  (its statements commit apart) and no batch names a submission twice. Initial states map to initial states, and
  each action to the ledger's step of that name or to a stutter, by the same `Locks`.
  The other properties rest on what one step does to ONE submission: `Shape` says that it stays, begins, goes with
  the delete, moves by `updateStatus` (status, history row and event together), is withdrawn, logged or announced by a cascade (`RowSteps`), so that each
  property is about seven kinds of step instead of twenty actions. `OneWithdraws`: the submission of a withdrawing cascade is
  WITHDRAWN, and no two cascades withdraw the same. `Unborn`, `Untold`: no history before the creation, no event before
  the submit. `Owing`: of a submission a cascade has yet to announce, the history has one withdrawal more than was told;
  `NothingAnnouncedUnrecorded` alone does not survive the announcement, whose row was written in an earlier transaction.
  `Decided`: a submission that is not terminal, or whose withdrawal a cascade has yet to log, has no decision in its history.
  `Past`: a request that has read REVISE_AND_RESUBMIT holds a submission that is past its draft; `Remembered`: the history of such a submission, and of one that
  awaits a revision, shows that a revision was asked for, so a refused API resubmission exchanges the version of no other.
  `CurrentInv` carries `HistoryLinks` through cascades and repeated ids: a history ends at the status unless a cascade owes the row (`HistoryCurrent`); while it
  does, the last row is no decision (`Pending`), and what the cascade will write is a withdrawal from the active status its lookup found (`Looked`); with
  both, the row that does not join comes last and stays last (`Joined`).
* **Contract.** `KeyLocks`: while a transaction handles a key, no other does and the key is not processed; once an event
  is about to be sent, its key is processed and applied. `Recorded`: documents are created in order and
  only existing ones recorded; `Honest`: what is owed is true of its document, and a handler
  that found the contract serves a document recorded by now, if not the last. Documents only move on (`Forward`), so a
  status keeps its document.
* **Pipeline.** `Checked` and `Past`: what a request or the workflow is about to write is a valid move from a stage in the
  history. That the stage is *current* is not invariant, the code does not promise it. `ApprovedInv`:
  the workflow goes on from the review only after the approval was sent.
* **FileScan.** `Contained`: for an infected object no run is in a statement that a clean verdict leads to.
  `Shapes` are the types this needs. `Downloadable` carries `CleanDownloadable`: which runs may still move
  the object, and that a delete that removed it holds the row's lock until it commits.
* **WebhookDelivery.** `Sound`: types, the fan-out's bookkeeping (`FanOK`), that rows, jobs and callbacks go
  together (`Placed`), and that a slot at work has a delivery that was made (`SlotsOK`). `HonestInv`: a delivery without retry or fault is `Undisturbed` - its job is active
  exactly when one slot, the lock's holder, is at work on it, and one that was accepted is in the statements
  that lead to DELIVERED, or done. `JustInv`: an open callback that decided to disable
  stands on enough failures, its own included, and no retry undoes that a delivery has failed (`everFailed` only grows). `LateInv`:
  requests sent since the disabling and attempts past their check together never exceed the slots.
* **Migration.** `TrustInv`: a row was granted while the accept is on its way (`MailGranted`), a request names rows that
  were asked for (`RowsAskedFor`), an admin's pending decision is about an inbound row (`ActsOnInbound`) - so an accept cannot activate a row of the wrong
  kind however late it is written. `MigInv`: what a run has behind it (`RunsHonest`: past a part of its bundle, that part is
  imported; an acknowledged one has some bundle of its migration at the destination) and what is on its way or recorded is true
  (`ReportsTrue`: a notice, a PROCESSING record and an account being deactivated each have a bundle that arrived). `WorkArrived` alone says
  nothing about answers not yet written.
* **Transfer.** `Sequenced`: who has acted when - no record before `Record`, no job before the answer, no empty manifest. `JobRuns`: an active job has a holder, the holder's run counts
  the job's attempts, and without a fault nobody but the holder is at work. `Attempted`, of every run: what it has got is stored, and who is past the links has left some; of the
  lock's holder, while none has strayed: the links are its own between fetch and verdict, and FILES_COMPLETE is not set while it works. An attempt
  that throws as the last has shown its failure.
* **SimSub.** `Lasting`: what `steady` keeps still is a conflict by the fingerprint the request has. `LookedFor`: each of them has been found, or
  the source that shows it is still to be asked (a sibling by its manuscript, since the fingerprint of its version may yet be computed again), or its instance has not answered.
  `Judged`: a request that goes on to submit has no such conflict,
  has one and a policy that allows it, or lacks an answer. The verdict is then right about what lasted, though each source was asked at another time.
* **Identity.** `Newest`: `lastAt` is the time of the newest applied event, so the guard compares with all of them; a row made by a sign-in has none and the first
  event, once processed, has made a row. `LogOrdered`: later events bear later or equal times. With both, an event that is applied comes after all that were, and the row is again
  the replay (`ReplayOneMore`). `Erased`: an anonymized row has the time of the last event there is. `InOrder`: as long as nothing was processed ahead of an earlier event (`ahead`),
  what is processed has no gaps and, with distinct times, is all applied. `Replay` is a recursive function, and the prover has
  no induction rule that takes a predicate; the lemmas about it (`ReplayExists`, `ReplaysAgree`, `ReplayRests`) argue from the least number
  that breaks the claim instead (`LeastNumber`), which the library's theorem on well-founded relations gives.

## 6. Only model-checked

* Liveness: `EventuallyProcessed`, `WithdrawalAnnounced`, `SignatureArrives`, `AssignmentAdvances`, `ScanSettles`,
  `DeliverySettles`, `ApprovedMoves`, `FilesArrive`. Formulas with fairness or ENABLED are out of the prover's reach.
* What a proof does not say of liveness' ground: that no component stops where it should not. Deadlock is checked for `Outbox`.
* The hypotheses of section 5: that a cascade or a repeated id breaks the property is TLC's finding, not a theorem.

Every safety property that a run checks is also a theorem.

## 7. Known divergences

What the code does against a comment, a doc, or its own intention. The first is a property that TLC
finds violated; the rest follows from the actions of the modules and is why some property is stated as weakly as it is.

1. **transfer_audit**, `workers/transfer-fetch.worker.ts:57`. Every attempt begins with `logDirect` and an `organizationId`, which `services/audit.service.ts:276`
   refuses by throwing. The job fails three times before a request for a file is made; the inbound transfer stays RECEIVED, and an
   expired token (`:46`) is retried. Only the fallback for a missing Redis fetches anything. The tests mock the audit service.
2. Recovery in `workers/outbox-poller.worker.ts:27` compares `created_at`, not the time of the claim, against its comment "to avoid duplicate delivery": in a
   backlog older than five minutes a live claim is taken away and the event is sent twice. The properties of `Outbox` speak of young events.
3. The cascade's three statements commit separately (`services/submission.service.ts:1066`): a process that stops leaves a withdrawal without history row or event.
   `WithdrawalAnnounced` is checked without crashes.
4. An API resubmission writes the version before the locked check (`services/submission.service.ts:1244`), and the request commits
   on its error response: a refused one still replaces the manuscript, whatever the status is by then, a decided one included. `VersionFrozen` allows it, and only in a submission whose revision was asked for; the embed path is saved by the rollback of `withRls`.
5. A webhook with no contract yet is marked processed (`webhooks/documenso.webhook.ts:323`): a completion that comes before the document id is recorded
   is lost; `SignatureArrives` speaks of recorded documents. And `services/pipeline.service.ts:457` enqueues the event of the completed copyedit with the very move that the workflow then makes, and
   is refused for: without further editing every retry fails.
6. The cascade logs the status its lookup returned (`services/submission.service.ts:1083`): a
   sibling moved to UNDER_REVIEW in between has a last history row from SUBMITTED, which does not follow the row before. `HistoryLinks` allows this of the withdrawal a cascade writes, and that
   the row is missing when it stopped before it.
7. A batch with a repeated id decides it twice (`services/submission.service.ts:1338`): it reads all statuses first. `HistoryLinks` allows the repeated row; `OneDecision` and
   the ledger are checked with distinct ids, the ledger without cascades, too.
8. FAILED scans pass the file check of a submit (`services/submission.service.ts:690`), which refuses PENDING, SCANNING and
   INFECTED; `docs/form-builder-research.md:575` says otherwise. `InfectedDraftBlocked` speaks of INFECTED only.
9. A signed webhook handled after the completed one overwrites COMPLETED (`webhooks/documenso.webhook.ts:285`), against the order at
   `inngest/functions/contract-workflow.ts:23`.
10. Waits that time out are taken for the event: 90 days in `inngest/functions/contract-workflow.ts:121`, 30 days in
    `inngest/functions/pipeline-workflow.ts:48`. Only the author's review looks at what it got.
11. An editor's move chooses its event from an earlier read than the one it checked (`services/pipeline.service.ts:439`): the event of another move
    can be sent, and a history row's `fromStage` need not be the last `toStage`.
12. The pipeline's trigger `slate/submission.accepted` (`inngest/functions/pipeline-workflow.ts:25`) is never sent; the API enqueues
    `hopper/submission.accepted`. The module starts the workflow as if it were.
13. A scan that is retried, or overlaps another, after the object left quarantine turns CLEAN or INFECTED into FAILED
    (`workers/file-scan.worker.ts:71`).
14. Webhook auto-disable is late by more than the "±1" of `workers/webhook.worker.ts:249`: each final failure counts without the
    others that are open, and callbacks are not bounded by the slots. A URL that is refused fails the delivery without any check.
15. A test is enqueued before its row is committed (`trpc/routers/webhooks.ts:168`): an early attempt takes it for deleted (`workers/webhook.worker.ts:36`) and the
    row stays QUEUED. A retry of a delivery whose job is finishing (`trpc/routers/webhooks.ts:230`) leaves a QUEUED row without a job.
16. Repeats of the fan-out step create deliveries with new ids (`inngest/functions/webhook-delivery.ts:45`); an endpoint deleted between the two steps makes the
    second fail on every attempt, with a new round of deliveries for the endpoints before it.
17. A late `onFailed` after a retry overwrites DELIVERED with FAILED, and an attempt killed after its POST, or one whose lock has expired, sends an accepted delivery again:
    all are in `OutcomeHonest`'s exception `rerun`.
18. A worker whose lock has expired goes on. When its request ends it writes DELIVERING (`workers/webhook.worker.ts:140`, `:186`), or did at `:79`, over
    the outcome the second run has recorded; no job is left, and the row stays DELIVERING. `DeliverySettles` names it (`SetDelivering`).
19. Trust: two instances that ask at the same time each hold a pending_outbound row and skip the other's request (`services/trust.service.ts:418`), so neither can be
    accepted (`:514`) - a deadlock without an exit, as the row also refuses a new request. A request that was lost cannot be sent again for the same reason, although
    `:337` says "admin can retry". A slow accept activates a row rejected meanwhile (`:522`). Rejections and revocations are not told
    to the peer, and open mode activates the receiver's side only.
20. Hub-attested trust looks for `request.federationPeer`, but its route is registered without the plugin that sets it (`federation/trust.routes.ts:113`).
21. Migration: a completion overwrites CANCELLED and REJECTED, and BUNDLE_SENT overwrites COMPLETED (`services/migration.service.ts:692`). Submissions in
    REVISE_AND_RESUBMIT are in neither part of a bundle (`services/migration-bundle.service.ts:47`). "Origin will timeout" (`services/migration.service.ts:393`) has no
    timeout behind it: EXPIRED is never set. After the origin has rejected or failed a migration the destination's record stays PENDING, and its
    index refuses the retry that `:90` allows. A second approval can be acknowledged as "Already processed" with a newer bundle that nobody imported
    (`WorkArrived` asks for some bundle of the migration). Files of a bundle are served only before COMPLETED. A completion between the check and the insert of another request
    (`:510`, `:557`) leaves a PENDING_APPROVAL record of a writer who has moved, and the approval does not look at the account again.
22. Transfer: a partial attempt replaces the links of the one before it, which may have had more files; a job lost before its enqueue, a last attempt that was partial and the fallback leave RECEIVED or FILES_FETCHING
    for good; nothing sets the origin's record to COMPLETED; a piece may be transferred twice. A run whose lock expired while it was only slow writes FILES_FETCHING (`workers/transfer-fetch.worker.ts:66`) or its own, fewer
    links (`:153`) over a transfer that the second run has completed: `CompleteHonest` and `FilesArrive` name it (`strayed`).
23. Simultaneous submissions: two submits that overlap are both CLEAR (`services/simsub.service.ts:727`). Pieces are compared by a stored fingerprint (`:117`), which is NULL until a version's own
    full check - a version that came by a form, an import or a resubmission, or was submitted under a policy that allows it, has none - and is never computed again when the text, the title or a
    scan changes (`services/fingerprint.service.ts:206`); two requests that both find none compute it one after the other, and the second overwrites the first (`:175`). Such a piece is found as a sibling of its manuscript only. An
    instance looks the writer up by the local part of the address here under this instance's domain (`services/simsub.service.ts:541`, `:321`); a writer with another address there is not
    found, and the answer is `found: false` with status 200 (`:337`), not an error that would make the result PARTIAL. Of more than 50 siblings some are looked at (`:205`). REVISE_AND_RESUBMIT
    is not active (`:64`), a submission without a period is invisible to the join (`:143`), an embed form, a resubmission and an import are not checked at all.
    `NoUnseenConflict` speaks of the conflicts that the records do show.
24. Identity: an event that was overtaken by a later one of another kind is dropped whole (`webhooks/zitadel.webhook.ts:346`), so a deactivation or a verification can be lost; of two with equal times the
    second is. An event for a user without a row is marked processed: a removal before the first sign-in is forgotten, and the sign-in then makes the row.

## 8. Further hazards

PROJECT.json lists the hazards the properties are for, and those of the next components. Others met on the way,
at their lines:

* `workers/file-scan.worker.ts:143` - the extraction's enqueue fails after CLEAN was recorded: the catch block sets FAILED on a moved object.
* `queues/file-scan.queue.ts:24` - a job that stalls twice is given up with the row SCANNING.
* `services/file.service.ts:342` - the object is deleted before the row's delete commits. `:196` - two uploads check
  the limits before either is counted.
* `inngest/functions/pipeline-workflow.ts:67` - an event is lost while the workflow is not yet waiting for it. `EventArrives` models it; no property forbids it.
* `services/pipeline.service.ts:342` - creation races on a global unique index: mapped to a proper error. `:866`, `:1314` - a copyedit
  save retries inside an aborted transaction, and takes max + 1 as its version number.
* `webhooks/documenso.webhook.ts:226` - a failing Inngest send is only logged. `services/contract.service.ts:221` - the DRAFT check is
  unlocked. Both are actions of `Contract`.
* `services/submission.service.ts:692`, `services/embed-submission.service.ts:599` - scans and status are read unlocked; `SubmitChecks` and
  `ResubmitReads` model it.
* `inngest/functions/cms-publish.ts:158` - an issue is published before the result is saved: a repeated step publishes again.
* `services/submission-vote.service.ts:302` - a vote checks an unlocked status and may land after the decision.
* `services/invitation.service.ts:122`, `:413` - two re-sends revoke only what each sees; the email leaves before the commit.

* `webhooks/stripe.webhook.ts:356` - an expiry delivered after the payment succeeded overwrites SUCCEEDED.
* `services/pipeline.service.ts:439`, `:457`, `inngest/functions/pipeline-workflow.ts:25`, `:32`, `inngest/functions/contract-workflow.ts:121`, `webhooks/documenso.webhook.ts:319`, `hooks/db-context.ts:73` - see
  section 7; all are actions of the modules.
* `webhooks/zitadel.webhook.ts:222` - the mark is in the transaction of the effect: set apart from it, a rollback would lose the event.

## 9. Not modelled

| Part | Why not |
|---|---|
| Stripe, CMS publication, votes, invitations | small protocols worth modelling: section 10 |
| Forms and reading periods | edits of configuration by one request; the validation of form data is a pure function |
| Contests | row edits and sums; disbursement inserts a payment per winner |
| Issues and collections, rights agreements, manuscripts | ordered lists and tables edited by one transaction each. The version a submission refers to is in `Submission` |
| External submissions, portfolio, writer profile, CSR | a writer's own records, no other actor |
| Federation keys and signatures | cryptography: its verdict is an input of the protocols |
| Hub and managed hosting | registration and lookup without protocol state |
| Notifications, email, live updates, reminders | consumers of events; delivery up to Inngest is `Outbox` |
| Storage cleanup, content extraction, GDPR | idempotent deletes and conversions in queues like the one of `FileScan` |
| Reader feedback, status tokens, analytics, audit | appends and reads |
| tRPC, REST, GraphQL, plugins, SDKs, web front end | adapters and presentation. Of the adapters the request's transaction matters, and is in `Submission` |

Within the modelled components these are left out: edits of a draft's text, form validation and lists (Submission; the text is in `SimSub`, as what a fingerprint is made of);
templates, merge data and signer lookup (Contract; VIEWED and COUNTERSIGNED are statuses no code sets); comments, due dates and
copyedited versions (Pipeline); limits, uploads without scanning, hashes (FileScan); creating endpoints, secrets, signatures, URLs and the 24 hour window
of the failure count (WebhookDelivery: deliveries of one run live shorter than the window, so all failures are in it);
hub-attested trust, keys and metadata (Trust); the broadcast after completion, tokens and streams of files (Migration: the broadcast sets a field no protocol reads); the parts of a token but its age (Transfer); the hub
as a source, groups, the record of a check, the difference of the content and the federation fingerprint, which are computed and stored together (SimSub); names and events without a valid time (Identity).

Outside services are modelled from how the code uses them: Inngest runs a step again until it returns and hands an event to a
waiting workflow; BullMQ keeps an id once, retries, and hands over stalled jobs; Documenso and tusd repeat what was not answered.

## 10. Plan

Done, in this order: `Outbox`, `Submission` with its ledger, `Contract`, `Pipeline`, `FileScan`, `WebhookDelivery`, `Trust`
with `Migration`, `Transfer`, `Identity`, `SimSub`.

1. `Stripe` as a second module of externally ordered events, with `Identity`'s shape.
2. Compositions: `Submission` with `Outbox` (a decision reaches Inngest whatever poller dies), `SimSub`'s check as the guard of
   `Submission`'s submit, `FileScan` for the file steps of `Submission`, `Transfer` over `Trust` instead of a flag.
3. CMS publication, votes, invitations.
