# Vortex: TLA+ models of its durable work

Vortex is a multi-tenant application platform: a TypeScript monorepo whose
durable state lives in PostgreSQL. Most of its code is validation and reading
inside one request and one database transaction. The part that is hard to get
right is the work that *outlives* a request: record events delivered to
consumers, flows that run on the back end, uploads into an object store, and
the derived values of existing records after a release is installed. All are
done by any number of short-lived processes that share nothing but database
rows, may be suspended or stopped between two calls, and are started again by a
recurring wake-up. The page of the browser has the other concurrent part: flow
runs that queue, debounce, ask, time out and lock parts of the page. And a request
itself is concurrent where its callbacks issue statements they do not await, over
one connection that may end at any moment. This project models these six parts;
the plan below says what is left.

Paths below are relative to the repository root (`src/` in the file map of
`PROJECT.json`).

## 1. Inventory

| Component | State | Operations | Hard behaviour | What makes it correct |
|---|---|---|---|---|
| **Event outbox** (`supabase/schemas/vortex_platform/append_record_occurrence_set.sql`, `event_dispatch_backlog_status.sql`) | `event_outbox`: occurrences numbered per record | append with a save, list backlog, retention | no counter but the retained maximum; retention races with claims | numbers are consecutive and never reused; what is deleted was delivered |
| **Consumer progress** (`claim_consumer_occurrences.sql`, `renew_…_lease.sql`, `acknowledge_…`, `record_…_delivery_failure.sql`) | one row per consumer and occurrence: cursor, lease, attempts, failures, final times | sweep + claim, renew, acknowledge, report failure | leases that lapse under a slow holder, late settlements, the last attempt | per record in order, at most one settlement counts, final is final, everything ends |
| **Dispatcher and wake-up** (`packages/platform/src/events/dispatcher.ts`, `dispatcher-wakeup.ts`, `apps/web/app/api/events/dispatch/route.ts`) | a batch in memory | claim, renew, call consumer, settle; several passes per wake-up; then the back-end sweep | stops anywhere; interrupted calls; two dispatchers at a time | a lost batch is reclaimed; nothing is handed over twice under one claim |
| **Flow subscribers consumer** (`packages/platform/src/events/flow-subscriber-consumer.ts`) | none of its own | order subscribers, record and run each | one subscriber fails, occurrence is delivered again | each subscriber of an acknowledged occurrence has its run |
| **Back-end run history** (`packages/platform/src/workflows/backend-adapters.ts`, `request/claim/finish/list_…_backend_run(s).sql`) | `backend_runs`: state, `claimed_until` | request, claim, finish, sweep, refuse | a claim of two minutes lapses under a slow executor | every recorded run ends; final states stay; callers get one answer |
| **Effect ledger** (`begin_flow_effect.sql`, `complete_flow_effect.sql`, `packages/platform/src/definition/flow-effect-ledger.ts`) | `flow_effect_ledger`: one row per task of a run | begin, complete | effect committed and answer lost; two executors of one run | an effect is committed at most once, in task order |
| **Flow interpreter** (`packages/platform/src/rules/flow-interpreter-core.ts`) | serialised run | plan a task, resume with an outcome | replay of recorded outcomes | a run succeeds only when its tasks did |
| **Installation backfill** (`packages/platform/src/records/derived-field-consumer.ts`, `installation_backfill_progress.sql`, `enqueue_installation_backfill_internal.sql`) | a progress row with a checkpoint | enqueue with an activation, claim, commit a page, finish | a release is switched between two pages, or an earlier one activated again; many pages under one delivery budget | every record is worked out by the installed release; pages spend no budget |
| **File uploads** (`packages/platform/src/files`, `file_upload_operation.sql`, `attach_record_files_internal.sql`, `claim/finish_abandoned_file_upload(s).sql`) | file and upload rows, objects in a store, the record's field | begin, put, complete, save, claim and delete what was given up | the object store and the database share no transaction | an attached file keeps its bytes; what is removed leaves nothing |
| **Flow runs of a page** (`packages/ui/src/flow-runtime`) | runs per binding, exclusive scopes, tickets, timers | press, queue, debounce, settle, ask, time out, cancel, leave | a check that is old when the run starts, runs that wait for each other, aborted waits | scopes are exclusive, nothing is left behind, every run ends |
| **Request database** (`packages/platform/src/db/request-transaction.ts`, `request-lifetime.ts`, `request-owned-socket.ts`) | one connection, a queue of ≤ 64 statements, a tree of scopes, the request's lifetime | transaction, query, savepoint, commit, roll back, stop, settle | statements that are not awaited, caught failures, stop while work waits | what is committed is whole, callers are told the truth, nothing runs after the end |
| **Interactive segments, command receipts** | receipt per press and segment | begin, apply, answer again | repeated press, lost answer | one effect per press |
| **Record saves, totals, rules, deadlines** (`packages/platform/src/records`, `rules`) | record rows | save, total, transition | row locks, revision checks | a save is one transaction; it appends its occurrences |
| **Access** (`packages/platform/src/access`, `supabase/schemas/vortex_access`) | roles, groups, delegations, invitations, access version | change and ask | permissions that are stale when used | a check reads the current version |
| **Definitions, installation, runtime bundles** (`packages/platform/src/definition`, `catalogue`) | drafts, releases, installations | draft, publish, install, activate | concurrent drafts, switch of release | a release is immutable once published |
| **Connections** (`packages/platform/src/connections`) | configuration, leases of secrets | outbound calls | external services | a call is one protected task |
| **Identity, sessions, tenants** (`packages/platform/src/identity`) | sessions | sign-in is external | – | – |
| **Queries, search, pages, theme, Studio** | none shared | reading and rendering | – | – |

How they interact: a record save appends occurrences in its own transaction.
After the request, and every time the scheduled route is called, dispatchers
claim occurrences for each registered consumer
(`apps/web/app/_lib/event-consumers.ts`: installation-derived values, the
search documents, flow subscribers; a record event has the last two). The flow
subscribers consumer records one run per subscriber and runs it at once through
the back-end adapter; a *Run on back end* task records a run in the same table
and either waits for it or leaves it. The wake-up route ends with a sweep of the
runs nobody finished. Protected tasks of a run change records, which appends new
occurrences.

## 2. Modules

| Module | Models | Corresponds to |
|---|---|---|
| `ConsumerProgress` | one progress row and every write to it, as operators on a row | the four SQL functions of consumer progress |
| `EventDelivery` | outbox, progress rows, dispatchers, retention; extends `ConsumerProgress` | append, claim, the dispatcher's batch loop, retention |
| `OrderedDelivery` | abstract: the status of each occurrence for each consumer, nothing else | what the outbox promises (no rows, leases or processes) |
| `BackendRuns` | run rows, ledger, executors, the delivery of one occurrence, what callers were answered | adapter, run functions, ledger, flow subscribers consumer |
| `InstallationBackfill` | activations, the checkpoint, pages and dispatchers of one application; extends `ConsumerProgress` | the backfill consumer, its SQL functions, activation and detachment |
| `FileUploads` | rows, objects, credentials, completions, saves and cleaners of one attachment field | upload coordinator, attachment by the save, abandoned upload cleanup |
| `FlowRuns` | the flow runs of one page and everything they wait for | the flow runtime of the user interface |
| `RequestTransaction` | one transaction of one request: queue, scopes, the database's side, the end of the request | the request-owned database driver and its lifetime |
| `DurableRuns` | abstract: the state, the effects and the answers of each run | what a back-end run promises (no executors, claims, ledger or faults) |
| `AttachedFiles` | abstract: one store of files with the field's value | what attachments promise (no windows, credentials, cleaners or second store) |
| `NestedTransaction` | abstract: scopes in each other and the work asked of them | what a transaction with savepoints promises (no connection, queue or callbacks) |
| `EventDeliveryProofs`, `OrderedDeliveryProofs`, `BackendRunsProofs`, `InstallationBackfillProofs`, `FileUploadsProofs`, `FlowRunsProofs`, `RequestTransactionProofs`, `NestedTransactionProofs` | theorems | – |
| `MCEventDelivery`, `MCBackendRuns`, `MCFlowRuns` | instances for TLC: symmetry, subscriber lists, the bindings of a page | – |

The two consumers of the progress rows compose with them in the same way: they
extend `ConsumerProgress`, and an action of theirs applies one of its operators
to one row. A backfill occurrence is delivered by the same dispatcher as a
record event, but in a sequence of its own (the claim never mixes the two
kinds), so the two modules are separate systems over the same protocol.

### EventDelivery

`outbox` is `event_outbox`; `progress[c][o]` the row of
`consumer_occurrence_progress` (`status = "none"`: no row); `dispatcher[d]` the
local state of one dispatch (`waiting` the rest of the claimed batch, `current`
and `outcome` the occurrence in hand). `trimming` is what a retention statement
read in its snapshot and has not deleted yet. `appended` and `acknowledged` are
history. The names of mutants start like the definition they replace; nothing
else uses them.

Every action is one database transaction or one return of the consumer.
`Claim` is the whole of `claim_consumer_occurrences`: the sweep that fails
exhausted rows, and then the upsert of a batch with one fresh cursor. The sweep
and the batch are *subsets* of what qualifies, because both are bounded and skip
locked rows. `Renew` is the lease renewal that precedes each call of the
consumer, `Deliver` the return (or throw) of the consumer, `Acknowledge` and
`ReportFailure` the settlements with their different conditions (only the
acknowledgement asks for a live lease), `Interrupt` a failing call, `Crash` a
process that stops or a claim whose answer is lost, `LapseLease` the passing of
time. Retention is two actions, `ReadTrimmable` and `Trim`, since the statement
evaluates its conditions in one snapshot and deletes later.

Abstractions. Time: a lease is live or has lapsed, and may lapse at any moment;
a backoff is a live lease. Ages of 30 days: any trimmable occurrence may be the
old one. A cursor is a random uuid; one that nothing holds any more stands for a
fresh one, since cursors are only compared. One retention statement at a time.
The causation-chain filter of the claim is left out: no producer in the
repository sets a causation. An occurrence's payload, permissions and the
consumer's own effects are not looked at. The constants of the code
(`maximum_delivery_attempts` 20, `maxAttempts` 5, batch up to 100) are
parameters.

### BackendRuns

`rows` is `backend_runs` (`live`: `claimed_until` is in the future); `ledger`
is `flow_effect_ledger`; `executor[e]` one call chain of the adapter with the
runs it still has to serve (`queue`), the task it is at and how it was called
(an awaited or a scheduled request, a delivery, a sweep). `delivered` says how
the flow-subscribers consumer completed the occurrence; `applied`, `answers`
and `faults` are history and a bound.

A flow is a line of protected tasks; loops and branches are unrolled into it,
and `Refusable` are the tasks whose refusal the flow branches on. One executor
goes through `RecordRequest`, `ClaimRun`, for each task `BeginEffect`,
`ApplyEffect`, `CompleteEffect`, and `Finish`, every one a transaction of its
own. `EndTasks` is the end of the line, which is a success, or a failure the flow
declares or runs into there. `RefuseTask` is a refusal while the task is planned or while a recorded
outcome is replayed under current permissions: it touches no ledger row.
`RefuseRun` is the loss of account, flow or record before the first task.
`FailCall` and `FailEffect` are calls that fail before or after they committed,
`Crash` an executor that stops, `LapseClaim` the end of the two minutes.

Abstractions. The outcome "uncertain" ends a run as "failed" does. What is read
while a task is planned is a choice of refusing or not. A task whose save was
already seen replays its command receipt and never commits twice, so a replay
is the recorded outcome or a refusal. The list of an occurrence's subscribers
is the same at each delivery. `RefuseDelivery` leaves a refusal row that names
no flow: it is no run, so `delivered = "refused"` is all that is kept of it. The
deletion of finished rows after 90 days is left out: no source of theirs can be
retried by then. The sweep's limit is a choice of how many waiting runs it
lists.

### InstallationBackfill

`installed` is the release whose bindings are active; `progress[r]` and
`checkpoint[r]` the consumer's row of the occurrence that release `r` enqueued.
`workedOut` are the records that hold the derived values of the release that was
activated last, whoever wrote them; what the values are is left out. `missed` is
history: the last activation met an occurrence of its release of which nothing
was left.

`Activate` is an upgrade, an installation or the return to an earlier release:
detach and activate happen in one transaction under the binding locks, and
append the occurrence unless the outbox still has it (`on conflict do nothing`).
`DeliverPage` is the whole page transaction. It holds the row `for update`, the
bindings shared and the records of the page, from the claim test at its start to
the claim test of the checkpoint write, so activations, other dispatchers and
saves of these records come before or after it. A committed page sets attempts
and failures to zero and, unless it is the last one, gives the lease back: the
occurrence is claimed again for its next page. `DeliverNothing` is the early
return for a release that is not installed any more or is complete;
`FailDelivery` a transaction that fails; a lost answer of a committed page is the
second branch of `DeliverPage`. `Save` is any save, which works out its record
with the installed release.

Abstractions. One application; its occurrences are ordered by release revision,
which is the sequence number of the outbox. Every release has the same number of
record types with derived fields; without any, the first page is empty and the last
one. Deleted records are not told from active ones: a
page skips them, and a restore works them out as a save does. Cursors as in
`EventDelivery`. Of a finished row only its status is read again, so the model
forgets the rest (`Remembered`, `WriteRows`). A lease that ends under a working
dispatcher counts as a fault, since a page of a hundred records is meant to fit
into the minute. Retention is one step here: an acknowledged row of this consumer
is never claimed again and no other consumer claims these occurrences, so the
snapshot that `EventDelivery` models cannot grow stale.

### FileUploads

Two stores without a common transaction: the rows (`lifecycle`, `expired`,
`replaces`, `claimant`, `claimLive`, and `attached`, the value of the record's
field) and the objects (`object`). `credential[f]`: the browser still holds a
valid upload credential. `inspecting[f]` is what an open completion has read
while it holds the upload's row lock, from its first read to its commit and over
the inspection of the stored bytes.

`Admit` reserves a file, `Renew` issues one more credential, `Put` is the
browser's PUT (the storage policy grants INSERT only, checked together with the
write, so a stored object is never replaced), `Inspect` and `RecordInspection`
the two halves of a completion, `Save` the record save that activates files and
retires the ones that left the value. `WindowEnds` needs the credential to have
ended, since a grant never outlives the window. A cleaner claims a batch
(`ClaimBatch`), and for each file mints a delete credential under its own live
claim, deletes the object, and records the removal if its claim is still the last
one. `DeleteFails` is a call that fails before or after its effect,
`CleanerStops` a process that ends between two calls, `ClaimLapses` the end of
the five minutes; under a working cleaner that is a fault, since 25 deletes of
at most ten seconds fit into the claim.

Abstractions. Files are numbered in the order of their admission, in which their
windows end. Permissions, quotas and changed field settings only refuse steps, and
every step may be left out. `renewUpload` is exported although no route calls it
yet. The state `uploaded` is never stored. The completion's revision check is left out, since
its read and its write share one transaction and the row lock.

What happens to a soft-deleted file later is not in the model, because it is not in
the code. `docs/specification/11-files-and-attachments.md:22-23` draws
"SoftDeleted --> Active: restored in recovery period" and "SoftDeleted --> Removed:
retention period expires" (also `:84`, `:96`), and `file-metadata.ts:55` allows both
transitions; but `transitionFileLifecycleState` is called for the steps of a
completion only (`packages/platform/src/files/upload.ts:856-857`), the one SQL
statement that writes `soft_deleted` is `attach_record_files_internal.sql:67`, none
takes a file out of that state, and the restoration of a record does not touch its
files. (`removal-eligibility.ts:79` would let such a file be removed, but the one
caller of a removal is the cleanup of abandoned uploads; the purge of a whole
application, which deletes the rows of all its files, is outside the model.) So `AttachedBytesKept`, `NeverBesideItsReplacement` and the promise of
`AttachedFiles` are shown for the code as it is, in which a retired file neither
returns nor goes. A restoration, once written, has to be added as an action of both
modules; it would have to look at a replacement that is attached meanwhile.
`GivenUpForGood` speaks only of uploads that maintenance claimed or removed.

### FlowRuns

A run is one accepted start of a binding; `phase[r]` is where its scheduled
promise is, `result[r]` what its caller was told, which may come earlier.
`active` are the runs that hold a scope, `tickets` those that wait for one,
`allowed[r]` the pending changes that run `r` waits for and lets in, `stop[r]`
its abort, `heldBy[r]` the questions that stop its clock.

JavaScript runs to completion: an event (`Accept`, `DebounceEnds`,
`SettleDeadline`, `Finish`, `Ask`, `Answer`, `Timeout`, `Cancel`, `Dispose`)
happens only when no continuation is left to run (`Quiet`). The order of the
continuations themselves (`Go`, `Wake`, `Start`, `StopRunning`, `Return`) is left
open. `Accept` is the whole synchronous part of `run`: the conflict with active
scopes, the concurrency rule, the abort of predecessors, the ticket. `Go` is the
first continuation of `start`, which asks for the scope once more when the run
has none.

Abstractions. Starts that are refused or ignored change nothing and are left out.
What a flow does while it executes, page values, messages and retry keys are left
out. A run asks at most once (a bound). An abort withdraws the run's open
question (`flow-intent-host.tsx:51-85`). Bindings with an exclusive scope have a
timeout, which the code demands (`application-flow-bindings.ts:90`).

### RequestTransaction

`active` and `waiting` are the request's queue of statements, of which one is on
the wire; `phase[s]` is where the promise of a scope is (scope 1 is the
transaction, the others its savepoints), `within[s]` the scopes around it,
`failed[s]` its `firstQueryFailure`; `issuer[q]` and `answer[q]` a query and what
its promise became. The database's side is `remote`, the queries that are part of
the transaction (`effects`), its savepoints (`marks`) and what was done after each
(`since`). `stopped`, `closed` and `settled` are the lifetime, `outcome` what the
caller of the transaction was told.

`IssueQuery` asks what `checkpoint` of a scope asks: the request is not stopped,
the callback has not ended, no savepoint of the scope is open. A callback need not
await what it issues, so it may end (`EndCallback`) or open a savepoint
(`OpenSavepoint`) with queries under way. `Mark` sends SAVEPOINT when those have
settled; `Joined` is the wait of `run` for the queries and children of a scope,
`Conclude` what follows it: COMMIT or ROLLBACK, the success of a savepoint, or
ROLLBACK TO. `AnswerBegin` to `AnswerRollback` are the answers of the database with
what they make the queue (`Pump`) and the callers do at once: a statement that
fails in the database leaves the transaction aborted, one that fails before it is
sent leaves it open, and COMMIT of an aborted transaction is answered without an
error and rolls back. A failed COMMIT is followed by a ROLLBACK.

`Stop` is the synchronous fence of `stop`, possible at any moment: the deadline, an
abort, a lost connection or a failed rollback. Whatever waits is rejected. `Close`
is the end of the connection: the statement on the wire is rejected and may have
been carried out, a COMMIT too. `Unwind` ends a stopped scope, which sends nothing
any more, and `Settle` is the end of `joinResources`.

Abstractions. The transactions of a request wait for each other in a second queue
of the same kind and share nothing else but the end; this is one of them, and what
`transactions.settled()` waits for is its outcome. A queue moves up on a microtask
after an answer, before anything that the answer makes a callback do; a query that
another microtask issues in between meets the queue as it was before the answer.
The numbers of savepoints, of which there are 2^53, do not run out.
What a scope remembers of statements that the stop rejected is left alone, since
every scope of a stopped request ends as failed. A transaction that was in the
commit when the connection was lost may be committed and its caller told of the
stop: the code asserts nothing about it (`remoteOutcome: "not_asserted"`).
Establishing the connection and looking up its address, the arithmetic of the
deadline and failures of the end itself are left out, and so is the final deadline
that an end may miss (`request-lifetime.ts:194`): everything has settled by then and
only the report becomes an error.

### The abstract specifications

Four modules say what a component promises and nothing of how: each has its own
`Init` and `Next`, and the detailed module ends with its mapping (`Promise`, an
INSTANCE) and with `ImplementsPromise`, which TLC checks in the component's main
run and the proofs show for all constants. They collect in a few actions what
the invariants say one by one, and more: which changes may be seen at all.

| Abstract | Mapped from | What the mapping hides |
|---|---|---|
| `OrderedDelivery` | the status of a row; an acknowledged occurrence stays so when it is deleted, one deleted unacknowledged is `discarded` | leases, cursors, attempts, batches, dispatchers |
| `DurableRuns` | `state` of a row, `applied`, `answers` | `claimed_until`, the ledger, every executor and fault |
| `AttachedFiles` | `lifecycle`, with all states of an upload on its way as `offered`; the object of a file that was activated or removed; `attached` | credentials, windows, the open completion, claims and cleaners, and the object of a file nobody can read yet or any more |
| `NestedTransaction` | where the promise of a scope is, and for the transaction itself where the database is; `within`, `issuer`, the queries answered well, `effects` once committed, `outcome` | the queue, the wire, savepoints of the database, the stop |

What they leave open is what the code leaves open. In `DurableRuns` an effect may
take place after the end of its run, and a caller may be told the end of its own
attempt though another one is recorded (the finding `backend_answers`); a success
may not be told, in either way, before all that the flow insists on is done. In
`NestedTransaction` a caller that is told of the stop does not know how the
transaction ended. In `AttachedFiles` a replacement enters in the very step in
which the file it replaces leaves; it has no return and no removal of a retired file,
which the documentation describes and no code carries out (see FileUploads).

## 3. Runs

The six runs with a liveness property (`delivery_order`, `backend_effects`,
`installation_backfill`, `file_uploads`, `flow_runs`, `request_transaction`) take `FairSpec`, all others
the safety specification `Spec`.
`CHECK_DEADLOCK FALSE` stands where the system may really stop: in
EventDelivery when the bounded appends are made, everything is settled and
nothing can be trimmed; in the two runs of BackendRuns without requested runs,
when the occurrence is acknowledged and no run waits; in FileUploads when every
file is attached, retired or removed; in FlowRuns when every run of the page has
ended; in RequestTransaction when the request has settled. The other two runs of BackendRuns, where a task can always be pressed
again, and the run of InstallationBackfill, where releases can always be switched
and records saved, do check deadlock.

| Run | Question | Bounds |
|---|---|---|
| `delivery_order` | `TypeOK`, `RowsInOrder`, `HolderNotOvertaken`, `SequenceNeverReused`, `FinishedForGood`, `ImplementsPromise`, `EventuallySettled` | one record, 2 occurrences, one consumer, 2 dispatchers, batch 2, 2 attempts, 2 failures |
| `delivery_batches` | `OnePerRecord` | two records, 2 occurrences each, 2 dispatchers, batch 2 |
| `delivery_trim_race` | violates `TrimSparesClaims` | two consumers, one dispatcher |
| `backend_effects` | `TypeOK`, `EffectsAtMostOnce`, `SucceededMeansDone`, `EffectsInTaskOrder`, `FinalForGood`, `ImplementsPromise`, `RecordedRunsEnd` | one requested run, 2 tasks, the second refusable, 2 executors, 2 faults |
| `backend_subscribers` | `DeliveredMeansRecorded` | two subscribers, one task, 2 executors, 2 faults |
| `backend_order` | violates `SubscribersInOrder` | two subscribers, no fault |
| `backend_answers` | violates `AnswersAgree` | one requested run, one task, no fault |
| `installation_backfill` | `TypeOK`, `CaughtUp`, `FailuresAreFaults`, `EveryInstallationCatchesUp` | 2 releases, 2 record types of one record, pages of one record, 2 dispatchers, one attempt, 2 failures, one fault |
| `file_uploads` | `TypeOK`, `AttachedBytesKept`, `RemovedLeavesNothing`, `NeverBesideItsReplacement`, `GivenUpForGood`, `ImplementsPromise`, `EveryUploadEnds` | 2 files, a field for both, 2 cleaners, batch 2, 2 faults |
| `flow_runs` | `TypeOK`, `ScopesExclusive`, `SettledLeavesNothing`, `NothingElseStarts`, `NoLateStart`, `EveryRunSettles` | 3 runs of 5 bindings |
| `flow_queue` | violates `QueuedBehind` | the same page |
| `request_transaction` | `TypeOK`, `CommittedIsWhole`, `AnswersAreTrue`, `ControlsAlone`, `SettledIsFinal`, `ImplementsPromise`, `EverythingEnds` | 3 scopes, 3 queries, one waiting statement |

Why the bounds are enough to be interesting.

* *Delivery.* Two attempts are the least with which a claim is lost once, taken
  over once and exhausted; two failures the least with a retry and a terminal
  failure. Two occurrences are the least with a predecessor and with a retained
  maximum behind a deleted row. Two dispatchers are a stale and a current holder
  of one row. Two records make batches of more than one occurrence. With two
  consumers, one may have finished what the other never claimed: that takes place
  in the violating run only, not under the refinement in `delivery_order`: the order
  of every consumer and the refinement, with the state `discarded`, are proved for any
  number. Cursors are as many as can be held at once by rows
  and dispatchers, so the claim is never blocked for want of one.
* *Back-end runs.* Two executors and lapsing claims give a stale and a current
  executor of a run (a claim may lapse any number of times, with no fault spent);
  two faults lose one answer and stop one process; two tasks, the second one
  refusable, are the least with an order and with a branch.
* *Backfill.* Two releases give a switch forth and back; a type whose only record
  fills its page gives a full page, an empty last one and the step to the next
  type, so a release takes four pages and several claims. One attempt shows that
  pages do not spend the budget. The bounds are small because of liveness; the
  three safety properties are proved without any.
* *Uploads.* Two files in a field for two are the least in which a replacement and
  the replaced file could both be attached and one save keeps, adds and retires.
  Two cleaners are a stale and a current claim; two faults let a delete fail
  after its effect and the retry be stopped. Several uploads that replace the same
  file would need a third one: that they are never attached beside it is proved for
  any number.
* *Page.* The five bindings are a queued and debounced save that is exclusive to its
  form and asks, the changes of a field that it waits for, an exclusive bulk
  action on the page, a step of a guided form without a scope that waits for the
  same changes, and an exclusive action without a form. Three runs are the least
  with a wait, a waiter behind it and an earlier run of its own binding.
* *Request.* Three scopes are the transaction with two savepoints one after the other
  or one in the other, the least in which a scope is rolled back over one that had
  succeeded within it. Three queries with room for one waiting statement fill the wire
  and the queue and overflow it.

The safety properties are also proved, without any bound (section 5).

Fairness.

* `EventDelivery!FairSpec`: the recovery wake-up recurs and claims the oldest
  first, and whatever is claimed leaves the window after finitely many attempts,
  so an occurrence that is eligible or exhausted again and again is claimed or
  swept (strong fairness per consumer and occurrence); leases end; a dispatcher
  that runs goes on. Appends, crashes and retention are not fair: a dispatcher
  may crash in every batch, and `EventuallySettled` holds since attempts are
  counted when the claim is made.
* `BackendRuns!FairSpec`: a running executor goes on, claims end after two minutes,
  and the sweep, oldest first, comes back to every run that waits; faults are
  bounded by `MaxFaults`, which means that they stop. The requests, deliveries and
  refusals are not fair.
* `InstallationBackfill!FairSpec`: the same wake-up, per release; leases end; a
  dispatcher that runs goes on. Activations, detachments and saves are not fair,
  and never need to stop either: `EveryInstallationCatchesUp` is about a release
  that stays.
* `FileUploads!FairSpec`: clocks run (`WindowEnds`, strong since renewals put it
  off, `CredentialEnds`, `ClaimLapses`), an open completion ends, and the daily
  maintenance claims and goes through its batch. Nothing a person does is fair: an
  upload that is never completed or saved must end too.
* `FlowRuns!FairSpec`: the event loop runs continuations and timers, a flow ends
  because its requests are bounded, and the person answers a question. The last
  one is an assumption the code does not force: a question without an answer
  keeps its scope until its run is cancelled or the page is left. Presses, cancels and leaving are not
  fair.
* `RequestTransaction!FairSpec`: the database answers the statement on the wire or
  the connection is lost, which is a stop; continuations run; a closed connection
  reports its end. A callback ends once all it has issued has settled, and may wait
  for all of it: only database work is supported in it (`request-lifetime.ts:209-215`).
  Statements, savepoints and the stop are not fair.

Every property has a mutant in `PROJECT.json`: a definition changed the way a
plausible bug would change it, under which the same run fails.

## 4. What the runs showed

Four statements of the repository are not what its code does; each has a run
that TLC refutes.

* **Retention and a racing claim** (`delivery_trim_race`). The comment of
  `event_dispatch_backlog_status.sql:15-19` says that an occurrence goes once every
  consumer that claimed it acknowledged it, and that rows of a concurrent claim
  are skipped. The conditions are read in one snapshot; a first claim of another
  consumer that commits before the rows are locked is neither seen nor skipped,
  and its live row is deleted.
* **Run after** (`backend_order`). Subscribers are ordered so that each runs
  after those it names, but a subscriber that another executor is still running
  is skipped, and the next one starts.
* **One answer** (`backend_answers`). A slow executor whose claim lapsed and the
  one that took over each answer their own caller with their own outcome; the
  row keeps one of them.
* **A queue that overtakes** (`flow_queue`). A second start of a queueing binding
  is to be queued behind the running one
  (`component-semantic-events.ts:87-89`, `:146`, `flow-runtime.ts:424`). When a
  run is accepted (`flow-runtime.ts:271-317`) only active scopes are looked at,
  not the tickets of earlier runs. A newcomer that comes after the scope was
  given back and before the next waiter's debounce ends takes the scope, while
  its own turn comes after that waiter's: each waits for the other until a timeout
  ends one of them, and the form is locked meanwhile.

Four more statements are met by the properties with an exception that names the
case:

* `docs/specification/08-forms-actions-rules-and-events.md:200-202` deletes
  *delivered* rows, and no later event may discard an earlier undelivered one. A
  consumer without any progress row does not count in the code
  (`event_dispatch_backlog_status.sql:26`), and the later event is what makes the
  earlier one deletable: an occurrence that one consumer acknowledged goes though
  another never claimed it. The promise of `OrderedDelivery` has the state
  `discarded` for this case, and its `Discard` asks for one acknowledgement only.
* `component-semantic-events.ts:98` says that while an exclusive run is under way
  nothing else starts on its form or page. A run without a scope that waits for
  pending changes does not look again when they have finished
  (`flow-runtime.ts:384-389`), so it starts inside a scope that was taken
  meanwhile: the exception in `NothingElseStarts`.
* `component-semantic-events.ts:87-88` says that `latest_wins` replaces the running
  one. A new run of an exclusive `latest_wins` binding meets the scope of its own
  predecessor before it aborts it and is refused (`flow-runtime.ts:271-285`); in
  the model its start is simply not accepted.
* `derived-field-consumer.ts:48-50` says that the latest activation covers every
  stored derived field. When an earlier release is activated again, or the same one
  after a detachment, its occurrence is still in the outbox and nothing is enqueued
  (`enqueue_installation_backfill_internal.sql:26`); if that occurrence was
  acknowledged or partly worked through, records keep the values of the release
  between until they are saved. `CaughtUp` and `EveryInstallationCatchesUp`
  except exactly these activations (`missed`).

## 5. Theorems

Proved by TLAPS for all values of the constants that satisfy the seven
assumptions: `ConsumerProgressAssumption` (the absent cursor is no cursor,
budgets are positive), `EventDeliveryAssumption` (bounds are positive),
`BackendRunsAssumption` (the subscribers are a sequence of runs, the runs are
finite, `TaskCount` and `MaxFaults` are naturals, `Refusable` are tasks),
`InstallationBackfillAssumption` (bounds are naturals, a page holds at least one
record), `FileUploadsAssumption` (bounds are naturals, a field may hold a file
and a batch too), `FlowRunsAssumption` (settings are records of their type and
an exclusive binding has a timeout) and `RequestTransactionAssumption` (the number of
queries is a natural, there is a scope and room for a waiting statement). TLC evaluates them in every run.

| Theorem | States | Argument |
|---|---|---|
| `EventDeliveryProofs!TypeCorrect` | `TypeOK` | each row operator keeps the type of a row; attempts and failures stay within their budgets because only claimable rows are claimed and the last failure is terminal |
| `NumbersNeverReused` | `SequenceNeverReused` | it is part of `TypeInv`, together with `TrimmingFollowed`: whatever retention has read is followed by a later retained occurrence, so the newest one is never deleted |
| `FinishedRowsKept` | `FinishedForGood` | every write asks for an open or missing row; trims remove the occurrence too |
| `DeliveryInOrder` | `RowsInOrder` | `OrderInv`, with `RowsRetained` (a row exists only for a retained occurrence): a claim creates rows only behind acknowledged predecessors, acknowledged rows stay until they are trimmed together with their occurrence, and appends come after everything retained |
| `HolderKept` | `HolderNotOvertaken` | `HolderInv`, with `CursorsDistinct`: a dispatcher's cursor is in no other dispatcher's hands, and each of its occurrences is waiting or current but never both |
| `HoldsOnePerRecord` | `OnePerRecord` | what a dispatcher holds was claimed at once, and two occurrences of one record cannot be eligible at once |
| `OrderedDeliveryProofs!PromiseKept` | `ImplementsPromise` | `PromiseInv`: `OrderInv`, what is acknowledged in a row is recorded as such (`AckRecorded`), only appended occurrences are acknowledged (`AckAppended`), and what retention has read is acknowledged (`TrimmingAcknowledged`); one lemma per step that maps to an append, an acknowledgement, a failure or a discard, all other steps stutter |
| `BackendRunsProofs!TypeCorrect` | `TypeOK` | an executor that works has a run at the head of its queue |
| `EffectsHappenOnce` | `EffectsAtMostOnce` | `EffectInv`: the ledger says what may have been applied (`LedgerInv`), an executor that applies or records holds a started row (`ClaimInv`), and no two executors hold the same one (`OneClaim`) |
| `SuccessIsComplete`, `EffectsOrdered` | `SucceededMeansDone`, `EffectsInTaskOrder` | `RunInv`: an executor that reached a task left only committed, or refused and refusable, ones behind (`ReachedInv`); a recorded or answered success went through all (`SucceededInv`); effects are ordered (`OrderInv`) |
| `FinalStatesKept` | `FinalForGood` | each of the three writes of a row asks for a state that is not final |
| `AcknowledgedIsRecorded` | `DeliveredMeansRecorded` | `CoverInv`: a delivery that missed nothing has recorded every subscriber that is not in its queue any more, and past the request the one at the head too; rows are never taken back |
| `InstallationBackfillProofs!TypeCorrect` | `TypeOK` | with `RowsRetained`, `OpenMayFail`, `RowsRemembered` and `AtWork` (a row belongs to a retained occurrence, an open one may still fail, finished ones are forgotten, a dispatcher at work has a release) |
| `PassedIsCaughtUp` | `CaughtUp` | `CompletedKnows`: a dispatcher that is about to acknowledge the installed release's occurrence under its current claim has seen the checkpoint complete; the checkpoint moves only over records that the same transaction worked out, and an activation that starts from nothing has passed nothing |
| `PagesSpendNothing` | `FailuresAreFaults` | `Accounts`, with `CursorsDistinct`: since the last page each attempt but a clean one under way, and each failure reported or about to be, has cost a fault of its own |
| `RunsKeepPromise` | `ImplementsPromise` | with `EffectInv` and `RunInv`, and `StartedInv`: an executor past its claim works on a run that has started, whoever has ended it since; one lemma per step that the promise sees (record, start, perform, end, report), a lost answer being one of them too |
| `FileUploadsProofs!TypeCorrect` | `TypeOK` | – |
| `BytesOfAttachedFilesKept` | `AttachedBytesKept` | whatever waits for its save, is attached or retired was inspected clean (`VettedClean`), an object under inspection does not change (`LockedUnchanged`), and a cleaner's work is given up for good (`ClaimedGivenUp`) |
| `RemovedFilesLeaveNothing` | `RemovedLeavesNothing` | a cleaner that got past the delete leaves no object (`DeletedIsGone`); what is given up is past its window (`GivenUpExpired`), and past the window there is no credential (`NoLateCredential`) |
| `ReplacementsReplace` | `NeverBesideItsReplacement` | what a file replaces was active once (`ReplacedWasActive`), and no save takes in a file that has left the field |
| `GivenUpIsForGood` | `GivenUpForGood` | what is given up is past its window (`GivenUpExpired`), no save takes in and no completion changes such an upload (`LockedUnchanged`), and a claim or a late cleaner moves it only towards its removal |
| `FilesKeepPromise` | `ImplementsPromise` | from the same invariant: bytes change only where nobody reads them (`ObjectsHidden`), that is before the clean verdict or after the upload was given up; a save is one `Change`, the part of a batch that is claimed for the first time one `GiveUp` |
| `FlowRunsProofs!TypeCorrect` | `TypeOK` | – |
| `ScopesAreExclusive` | `ScopesExclusive` | holders and tickets belong to open runs (`Registered`, `HoldersOpen`); a scope is taken only when no blocker is there, and blockers are exactly the holders that do not let the run in |
| `SettledRunsLeaveNothing` | `SettledLeavesNothing` | `SettledEnded`: once the result is known the run is over or stopped, and a stopped run takes nothing |
| `NothingStartsInside` | `NothingElseStarts` | `SettlingHolds`: an exclusive run that waits for pending changes holds its scope meanwhile, so its exclusiveness is that of the scopes |
| `NothingStartsLate` | `NoLateStart` | every continuation looks at the stop first, and a settled result implies a stop or an end |
| `RequestTransactionProofs!TypeCorrect` | `TypeOK` | a control statement finds the wire free (see `ControlsAreAlone`), so only queries are held against the limit, and they are |
| `ControlsAreAlone` | `ControlsAlone` | the open scopes are a chain of which the innermost acts (`Tree`, `Chain`), and an unanswered query is of that scope or of the parent of a savepoint that waits for it (`Unanswered`); so whoever is `Joined`, or may `Mark`, finds nothing of anyone on the wire (`Wire`) |
| `CommittedWhole` | `CommittedIsWhole` | what is in the database is what scopes without a failed one around them were answered well, and a savepoint takes back exactly what its scope and the scopes within it have done (`Held`); a scope that succeeds was answered well in all (`Remembered`); when the root commits no other scope is open |
| `AnswersTold` | `AnswersAreTrue` | an aborted transaction has a scope that remembers a failure and has not ended (`Remembered`), and when COMMIT is on the wire no such scope is left (`Ends`) |
| `SettledForGood` | `SettledIsFinal` | a settled request is stopped and closed, has no open scope and has told its caller (`Ending`), so no action is enabled |
| `NestedTransactionProofs!NestedPromiseKept` | `ImplementsPromise` | `PromiseInv` adds that a closed connection holds no transaction (`Shut`) and that a transaction rolled back leaves nothing under way (`Idle`); the answer of a statement is the step at which the promise sees it done, the answer of COMMIT the one at which it takes effect, and the close of the connection the one at which what was open is rolled back, or committed if COMMIT was on the wire and got through |

The invariants are not inductive as a run states them: that effects are single
says nothing about a second executor that is about to apply one, that passed
records hold their values nothing about a dispatcher that is about to acknowledge.
The strengthenings name exactly the knowledge a process has between two of its
transactions.

The refinements are proved in the usual two parts: `Init => Promise!Init`, and
under the invariant every step of `Next` is a step of `Promise!Next` or leaves all
mapped variables unchanged; the temporal rest is one PTL step. The case of a
step is a lemma of its own wherever it is visible in the promise.

Only model-checked: the six liveness properties (`EventuallySettled`,
`RecordedRunsEnd`, `EveryInstallationCatchesUp`, `EveryUploadEnds`,
`EveryRunSettles`, `EverythingEnds`), since liveness under fairness and ENABLED are beyond the
prover. All specifications are written without RECURSIVE operators, which the
prover cannot handle either.

## 6. Plan

Done in this order, the durable work first: `ConsumerProgress`, `EventDelivery`
with `OrderedDelivery`, `BackendRuns`, `FileUploads`, `FlowRuns`,
`InstallationBackfill`, `RequestTransaction`, the proofs of their safety
properties, and the abstract specifications `DurableRuns`, `AttachedFiles` and
`NestedTransaction` with the proofs that they are implemented. Left:

1. Abstract specifications of the page's scopes (`FlowRuns`) and of derived values
   across releases (`InstallationBackfill`), which so far have invariants only.
2. `InteractiveSegments`: presses, receipts and the ledger shared with
   `BackendRuns`. Abstract specification: one effect per press.

Not modelled, and why:

* record saves, totals, rules and deadlines: a save is one transaction, seen here as
  the append of its occurrences, the attachment of its files and the derived values
  it works out;
* access changes: checks inside one transaction, seen here as the refusal they cause
  in a running flow or delivery;
* definitions and their publication: validation of data in one transaction; of
  installations the switch of the active release is modelled;
* connections: calls to external services, each the effect of one protected task;
* identity, sessions and tenants: delegated to an external service;
* queries, search, pages, theme and Studio: reading and rendering.
