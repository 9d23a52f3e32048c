# A TLA+ model of Sendrun

Sendrun sends email campaigns through a durable task queue that it implements itself on top of
PostgreSQL. This directory models the program from its schema to the figures a user is shown:
the queue and its workers, the handler that sends one email, the launch and the cancellation
of a campaign, provider webhooks, the address book, templates, sessions and organizations, the
rate limiter, the migrations, and the readers of a running campaign. The modules are checked
with TLC on small instances; every safety property they check is proved with TLAPS for every
instance. `PROJECT.json` maps every definition to the lines it models and lists the runs, the
findings, the hazards and the theorems.

## 1. The system

Two processes share one PostgreSQL database: the API (`services/api`, FastAPI) and any
number of workers (`services/worker`, built on `packages/durable`). A third, alembic, moves
the schema while they run.

| component | state it keeps | operations | hard part |
|---|---|---|---|
| durable queue, `packages/durable` | rows of `tasks`; in-flight coroutines; one reaper per worker | enqueue, dequeue (lease), heartbeat, complete, retry, kill, reap, SIGTERM drain | concurrent pollers, crashes, leases that expire under a live executor, database errors |
| send handler, `services/worker`, `packages/shared/job_store.py` | `email_jobs.send_status`, an open transaction, the provider's memory of keys | claim, provider call, record | crash between send and record, lost answers, concurrent executors, cancellation |
| campaign launch, `routers/campaigns.py` | `campaigns.status`, the jobs, the tasks | launch (three commits), cancel | overlapping requests, unguarded writes, requests that die half-way |
| webhooks, `services/api/webhooks` | `provider_events`, `delivery_status`, counters | insert, process, sweep, adopt | duplicates, reordering, events before their send is recorded, overlapping processing |
| progress, analytics, analysis, `routers/progress.py`, `analytics.py`, `agents.py` | what a reader has collected | poll, aggregate | several statements, each of another moment; figures defined by different columns |
| status tables, `packages/shared/transitions.py` | none | predecessor tables, ranks | nothing at run time consults them |
| address book, `routers/contacts.py`, `groups.py` | contacts, fields, suppression, groups | create, delete, import, resolve | an import writes what it read earlier |
| templates, `routers/templates.py` | templates and versions | create, edit, archive | overlapping edits; a campaign pins a version |
| rendering, preflight, `render.py`, `preflight.py`, `routers/preflight.py` | none | validate, render, audit | preflight and launch take values and the version from different places, at different times |
| accounts, organizations, audit, `auth.py`, `authz.py`, `audit.py`, `routers/auth.py`, `organizations.py` | sessions, members, settings, log | sign up, in, out; create, patch, invite | slug search, stale patches, sign-out against requests in flight |
| rate limiter, `packages/shared/rate_limit.py` | a token bucket in Redis or in memory | consume | the caller's clock is an argument |
| schema and migrations, `models.py`, `migrations` | tables, keys, the revision | upgrade, downgrade | refused statements, releases of another age |
| jobs inspector, LLM prompts, attachments, ML, web app, deployment | none that the others depend on | reads, pure functions, I/O | not modelled |

How they interact: an import fills the address book, an edit adds a template version, a
campaign pins one; the launch renders it for every contact that is not suppressed and inserts
jobs and tasks; the worker leases a task, runs the handler on its job and settles the task by
the handler's verdict; `mark_sent` also links the webhook events that came before it
(adoption); the webhooks update the same job rows on a separate axis, `delivery_status`; a
cancellation updates job rows that handlers may have locked; the readers aggregate the rows
all of them write. Coordination is by row locks, unique keys and guards in `WHERE` clauses.

What makes each component correct is the list of properties in section 3; where it can go
wrong is listed, line by line, under `hazards` in `PROJECT.json`.

## 2. Modules

| module | models | uses |
|---|---|---|
| `DurableQueue` | `tasks` rows, workers, executors, reapers, faults | |
| `EffectivelyOnce` | the abstract promise of a send, per recipient | |
| `SendPipeline` | the handler composed with the queue; refines `EffectivelyOnce` | `DurableQueue`, `Transitions`, `EffectivelyOnce` |
| `Transitions` | the status tables and delivery ranks | |
| `CampaignLaunch` | launch and cancel requests, workers in one step | `Transitions` |
| `Dashboard` | outcomes of sent jobs, and the readers of a campaign | `CampaignLaunch` |
| `Webhooks` | ingestion, processing, sweeper, adoption | `Transitions` |
| `Rendering` | validation, rendering, preflight, as functions | |
| `Directory` | contacts, groups, imports | `Rendering` |
| `Templates` | one template, its versions and edits | `Rendering` |
| `Workspace` | a campaign created and launched over both | `Directory`, `Templates` |
| `Access` | users, sessions, organizations, members, audit log | |
| `RateLimit` | the token bucket and its middleware | |
| `Tables`, `Models`, `Migrations` | what a table is; the ORM's schema; the revisions | |
| `SchemaChain` | alembic and releases of the program over one database | `Models`, `Migrations` |
| `*Proofs` | the theorems about the module they are named after; `CampaignProofs` those about `CampaignLaunch` and `Dashboard` | TLAPS |
| `MC*` | finite instances | |

Operators introduced by a comment `Bug:` are mutations of the definition that follows them.
No specification uses them; they exist so that each property can be shown to fail when the
code is broken in that way (`mutants` in `PROJECT.json`).

### DurableQueue

`row` is the table, `locks` the rows an open DEQUEUE has locked, `exec` the `_run_one`
coroutines in flight, `wstate` and `reaper` the process and its reap loop. Every statement
of `queue.py` runs in a transaction of its own and is one action. DEQUEUE is two,
`DequeueLock` and `DequeueCommit`, because other workers see its row locks (SKIP LOCKED)
before its commit. An executor carries the attempt it was started for; the rows it writes
are guarded by `HoldsLease`, which is exactly the `WHERE` clause: leased, and by this worker
id. Nothing compares the attempt.

Time is two bits of a row: `due` (`run_after` has passed) and `expired` (`lease_until` has
passed). A lease whose executor is gone lapses by itself; a lease that expires under a
running executor is a fault of kind `overrun`. The other faults are `crash` (SIGKILL),
`record` (a settling statement fails), `dequeue` and `reap` (the statement in that loop
fails), and `stop` (SIGTERM). `faults` counts them against `MaxFaults`.

A handler verdict is chosen freely here; `SendPipeline` replaces that choice by the handler.

### SendPipeline

`handle_send_email` opens one session, runs claim, provider call and record on it, and
commits in its `finally`. So the claim is an uncommitted row lock (`tx`), `sending` is never
seen by another transaction, and a crash restores the status the job had before. The
provider is modelled as `EmailProvider` prescribes it (`SharedCache = TRUE`) and as the
worker wires it (`SharedCache = FALSE`: `get_provider()` builds a new provider, with an empty
memory, for every call). What the claims and the queue guarantee alone is stated, checked and
proved for the latter (`DuplicatesAreBounded`); that nothing is ever sent twice, and the
refinement, for the former. An acceptance takes place while the handler that asked for it is
alive, as with the in-process provider the program ships.

`ImplementsOnce` is the refinement: `mailed` is the set of jobs with an accepted message and
`outcome` the committed status, with `queued` and `failed_transient` both `open`.

### CampaignLaunch and Dashboard

A request is a program counter. What a transaction writes becomes visible in one action, at
its commit; the unguarded ORM writes of `campaigns.status` are unguarded here. The cancel's
`UPDATE` and its commit are two actions, because the rows it updates are fixed (and locked)
by the first. `Die` is a request that ends between two transactions, of a database error or
with its process. Nothing in the code keeps requests apart, and nothing in the model does.
`met` is a history: the requests each request has been open beside. The properties say what
holds of all interleavings, and where the code promises more than it keeps they name the
launches that break the promise by whom those have met (`BesideLaunch`, `BesideCancel`).

`Dashboard` adds to each sent job the outcomes that the provider decides on (`coming`), which
are applied one by one in any order, and two readers that change nothing another one sees:
the stream, whose tick reads the campaign and then counts the jobs, and an analysis of three
counts. Only one reader is active in a behaviour, so that the instance stays small.

### Webhooks

`loads` holds an event from its insertion (a scheduled background task) over its load to its
commit; `sweep` is the sweeper's transaction, which loads all orphans, reads each job once
and commits everything together. A load remembers whether the job was found and whether the
event outranked the status read: the later `UPDATE` has no guard. `mark_sent` is two steps,
the adoption and the commit. All of them overlap, for the same job and for the same event. One
webhook carries one event, as the fake provider sends them.

Four histories serve the properties. `applied` and `lost` are the events that a transaction
has applied, and those whose background task failed or died. `raced` are the events that were
in processing while another transaction had an event of the same job in hand, `twice` those
that two transactions had in hand themselves. A background task has its event in hand from
the load that finds the job to its commit, the sweep all it has selected. `Sweeping` says
whether `sweep_loop` runs, which the program starts nowhere. `Fairness` does not depend on it.

### Directory, Templates, Workspace, Rendering

A request is one step, unless what it read may change before it writes: an import reads the
contacts of its addresses and writes them later, an edit reads `current_version` and inserts
the next version later, a launch resolves the ids of its recipients, loads those contacts that
are still there, and stages the jobs, in three steps; a preflight resolves, then loads and
answers. The unique keys and foreign keys refuse the losers, who leave nothing (`AbortImport`,
`AbortEdit`, `AbortLaunch`). A text is what the functions distinguish texts by: its declared,
plain and hidden variables, whether it parses, and whether the engine can run it (`runs`: an
unknown filter is well-formed, raises an error that the launch does not catch, and ends the
request; errors that the values of one contact cause are `AbortLaunch`).

### Access, RateLimit

`Access` has the requests that read before they write in two steps (creating an organization
searches a free slug, a patch loads the row) and the others in one. `RateLimit` follows one
bucket; a clock reading may be up to `MaxDelay` old when the script runs with it, `rewound`
sums what `updated_at` was moved back by.

### Tables, Models, Migrations, SchemaChain

A table is its columns, the required ones, its unique keys and its references. `Models` is
the schema the ORM inserts through, `Migrations` the statements of every revision, and
`SchemaChain` walks from revision to revision as alembic does: it executes the statements of
an `upgrade()` or a `downgrade()` one by one, stamps the version, goes on with the next
revision, and commits them all together, over asyncpg or as a script, while a release written
for some revision keeps inserting rows into the tables later ones alter. `SchemaAt` is the
schema of each revision, built by its statements from the one before.

## 3. Runs

| run | instance | states | shows |
|---|---|---|---|
| `queue_faults` | 2 tasks (the second of a kind without handler), 2 workers, 2 attempts, batch 2, any 2 of 6 kinds of fault | 48 500 | one executor per attempt, retry budget, fencing between workers, finality |
| `send_safety` | 1 job, 2 workers, any 3 faults but a dead reaper | 119 308 | at most one send, queue and job agree, the job keeps to SEND_TRANSITIONS, refinement of `EffectivelyOnce` |
| `send_liveness` | 1 job, 2 workers, any 3 faults, dead reapers included, a provider that forgets every key | 356 482 | every task is settled, and its job terminal or the task dead-lettered, unless its lease is lost when no reaper is left; duplicates are bounded by faults and by leases |
| `launch_overlapping` | 2 launches, 2 cancels, 1 contact, 1 death, all overlapping, one story of outcomes, a stream that closes after 2 terminal ticks | 335 322 | status table, nothing queued after a cancel, one job per contact, running means enqueued, each up to the launches that were open beside another request; no task without its job; figures add up, snapshots do not fall and are never ahead of the jobs, a closed stream was final |
| `webhooks_overlapping` | bounce, delivery and open of one message, duplicates, a loss or a give-up, background tasks beside each other and beside a running sweep | 97 807 | convergence, monotonicity, an engagement counts once, each up to the events that raced; nothing applied before the send is recorded; what is recorded in time is applied |
| `workspace` | 2 addresses, 2 imports, 2 edits, 4 contents, deletions, suppressions, preflights, one launch, 7 requests | 934 759 | imports, edits, suppressions and pinned versions keep their promises, a preflight report is what the launch does |
| `access` | 2 users, 2 sessions, 2 organizations, 3 overlapping requests, 3 audit entries | 629 345 | unique slugs, every organization reachable, final sign-out, patches compose, changes are on record |
| `rate_limit` | capacity 3, cost 2, readings up to 2 late, expiry, 9 time units | 66 158 | what is granted in any stretch of time is bounded, nobody within the rate is refused |
| `schema_chain` | all six revisions, both connections, releases of every age, rows in three altered tables | 47 789 | schema, revision and models stay in step; releases keep inserting |
| `queue_same_worker`, `launch_twice`, `webhooks_adopted` | as small as the behaviour allows | | section 4 |

Why the bounds suffice. Two workers give every pairwise race on a row; a third behaves as the
second. `MaxAttempts = 2` has a retry and an exhausted retry. Two faults allow a lease to be
lost twice, or a crash during the recovery from another fault; `send_safety` and `send_liveness`
allow a third, with which in the latter every reaper can die and a lease be lost after that. Two
tasks are needed for batches and for SKIP LOCKED; one suffices where tasks do not interact. Two launches
and two cancels contain every pair of requests, two of a kind included; in `launch_overlapping`
the second cancel comes in, and a request dies, only where nobody reads
(`ReadersWatchOneCancel`): a reader cannot tell a request that died from one that waits, nor two
cancels from one but by their number. One contact gives every launch a job; the theorems
are about any number. Three events of one message contain two delivery outcomes
that compete and an engagement beside them; the engagement arrives once the task of one of them
is over (`OpenedAfter`), because it shares the sweep with them and no column, and one event is
lost or given up, not one of each (`OneMishap`). The story of `launch_overlapping` is the one
whose events replace each other (a complaint after a delivery) beside an engagement; events of
one job are processed, the open first (`OneJobHasOutcomes`), because figures are sums over jobs
and the open has a column of its own; that outcomes belong to sent jobs is proved for every
story. Two terminal ticks have a first and a last; a stream of five repeats the last. Two
imports and two edits contain every pair that overlaps; a batch has an empty cell, two rows of
one address, rows that are skipped, or more rows than are allowed; of the four contents one is
plain, one hides an undeclared variable, one uses an unknown filter, and one an undeclared
variable. In `access` the second name equals what the suffix makes of the first. In `rate_limit`
the cost is less than the capacity and no divisor of it, a reading is late by up to a whole
refill of a request, and the key expires within the time that is followed. Worker, contact and
request identities are symmetric in the safety runs; liveness runs use no symmetry.

`CHECK_DEADLOCK FALSE` appears where nothing is left to happen once every bounded request has
been made and answered (`launch_*`, `workspace`, `access`, `rate_limit`), and in `send_liveness`,
where a lease that is lost when every reaper is dead leaves nothing but its own wait.

Fairness. `QueueFairness` and its pipeline counterpart assume that ready coroutines run,
timers fire, handlers return and the supervisor restarts a stopped process: weak fairness of
each worker's dispatch, settling, reaping and restarting and of the clock. No fault is ever
assumed to happen or not to happen; their number is bounded. `Webhooks` assumes that the
event loop runs the background tasks and goes on with a sweep that has begun, and that an
`UPDATE` which waits for the row lock of sweeps gets it when they end (PostgreSQL queues it:
strong fairness of `TaskCommit`). It assumes neither that a sweep ever begins nor that a send
is ever recorded. Only `webhooks_adopted` does, to show that an event is dropped even so. No
other module assumes fairness.

## 4. Findings

Each is a run in which TLC violates what a comment, a document or a test of the repository
says of the program.

| run | property | what the code does |
|---|---|---|
| `queue_same_worker` | `ReapedLosesLease` | the lease guard is the worker id alone: a superseded executor regains the lease when its own worker re-leases the task |
| `launch_twice` | `OneJobPerContact` | overlapping launches both create all jobs |
| `webhooks_adopted` | `StoredIsProcessed` | adoption hides an unapplied event from the sweeper |

The models contain further behaviour of the same kind, within what is checked. The properties
except it by name, and TLC refutes each of them without its exception:

- a database error ends `_reap_loop` for the life of the process (worker.py:224), and with
  every reaper dead a lost lease is never returned: the second alternative of
  `NothingIsLost`. Nothing restarts the worker either, which keeps polling;
- a job whose task is dead-lettered stays `failed_transient`, which is why `NothingIsLost`
  allows it; a crash after the send makes the job `queued` again, and a
  cancellation may then mark it cancelled, which is why `EffectivelyOnce` lets a mailed job
  be cancelled;
- a launch that is open beside a cancel overwrites CANCELLED, and leaves jobs queued that it
  committed behind the cancel's `UPDATE` (campaigns.py:230, 268, 310): `BesideCancel` in
  `StatusFollowsTable`, `CancelledLeavesNothingQueued`, `ShownStatusFits` and
  `ClosedStreamIsFinal`;
- a launch that is open beside another one takes a running campaign back to LAUNCHING, and one
  of them writes RUNNING for jobs of the other that have no task yet: `BesideLaunch` in
  `StatusFollowsTable`, `RunningIsEnqueued`, `ShownStatusFits` and `FiguresAddUp`;
- two transactions about one job compare with the status they read and write it without a
  guard, so that the lower of two outcomes may stay (processor.py:85-97): `raced` in
  `Converges` and `DeliveryIsMonotonic`. A sweep and the event's own task count an open twice:
  `twice` in `EngagementCountedOnce`.

Some of it is outside of what any property claims:

- the fake provider is rebuilt for every call, and with it its idempotency memory
  (main.py:76), so that `AtMostOneSend` fails with `SharedCache = FALSE`.
  `DuplicatesAreBounded` says how far that goes: a message per crash, lost answer or failed
  commit, and one per lease at most;
- no process starts `sweep_loop`. An event whose task is lost, or ran before its send was
  recorded without being adopted, stays unapplied for good: `EventsAreApplied` speaks of the
  events whose send is recorded before their task runs, which need no sweeper;
- a launch that dies after its first commit leaves the campaign LAUNCHING, which nothing
  re-drives (campaigns.py:255);
- a contact suppressed after a launch resolved its recipients is mailed, also if that happens
  before the launch loads it: the second statement asks for the ids only (campaigns.py:225).

What reading the code for the models showed, and how the models hold it:

- *Campaigns.* Nothing writes COMPLETED, so a successful campaign's stream never closes and the
  "history" of an analysis is always empty. A cancel only cancels queued jobs: retried
  (`failed_transient`) jobs of a cancelled campaign are still sent, also after the stream has
  closed, although SEND_TRANSITIONS would allow cancelling them; `ClosedStreamIsFinal` therefore
  speaks of queued jobs. `{{ x | upper }}` slips past `validate_template`; every contact is then
  skipped and the campaign runs without jobs, if `x` is not declared. A text with an unknown
  filter passes validation and preflight too, and every launch of it fails with an error that
  leaves a draft. Recipients with missing variables are mailed nevertheless.
- *Figures.* `sending` is never committed, so its counter is always 0. The per-campaign `sent`
  counts `sent` and `failed_permanent`, the per-domain one every job. The delivered count
  falls when a complaint replaces a delivery, so an analysis, which divides opens by
  deliveries, can exceed 100 %; `ShownNeverFalls` leaves that count out. An analysis of a
  campaign that is being launched may report opens of recipients it did not count, which is
  why `AnalysisAddsUp` compares them for running campaigns only. The docstring of the jobs
  inspector counts retried pending tasks as in flight; its query asks for `leased` and
  `failed` (jobs.py:101).
- *Address book.* Imports of the same address that overlap lose each other's field merges
  (groups.py:275): `ImportsAreApplied` claims only the values of the import that commits last.
  Even those may be missing after it. `contact.fields` is assigned the merge of what was
  loaded, and SQLAlchemy names no column whose value is the loaded one; an import whose row
  says what the contact had when it was loaded writes nothing, and keeps what another import
  has written over it. Three imports of one address do it: two load empty fields, the first
  writes `{a}`, the third loads that with `a` in its own row, the second commits `{b}`, and
  the third is answered with `a` gone. `ImportsAreApplied` excepts it.
  Deleting a contact and importing it again forgets its suppression.
- *Templates.* An archived template can be edited, and campaigns can be created from it.
- *Organizations.* The comment on `UpdateOrgRequest` says an explicit "" clears an address,
  which `EmailStr` refuses (organizations.py:62-67).
- *Preflight.* "This is what lets the UI say ... with an exact list" (preflight.py:136) is not
  quite so. The launch overrides `fields.first_name` with the first word of the name, or with
  "" (campaigns.py:233-239), preflight takes the field and the name only where there is none
  (preflight.py:143). So a contact with the field and without a name has a gap the report
  does not know of (`Overlooked`), and one with a name and an empty field is reported without
  having one (`Overstated`); `ReportIsRight` excepts exactly these two, and TLC shows that
  both are needed. Preflight looks at the current version of the template while the launch
  sends the pinned one, so the report is about the launch only where the two are the same, which
  is a premise of `ReportIsRight`. The personalization score rounds to 100 with one incomplete
  recipient in more than 200.
- *Rate limit.* Readings that reach the script late move `updated_at` back, and the interval is
  refilled twice (rate_limit.py:112): the term `rewound` of `BurstsAreBounded`. The throttle
  on the send rate that its docstring describes is not applied by the worker.
- *Migrations.* asyncpg refuses the several statements of `CREATE_TASKS_TABLE` in one call, so
  that an upgrade over asyncpg rolls back from there (`Refused`); the test suite migrates SQLite
  only. The snippet of DEPLOY.md (lines 40-54) that creates the table by hand passes the same
  statements in one call on the same driver: it is refused too, its transaction leaves nothing,
  and so it is no action of `SchemaChain`. The unique group name is refused where duplicates
  exist.

## 5. Proofs

| module | theorems | assuming |
|---|---|---|
| `DurableQueueProofs` | `QueueTyped`, `SingleExecutor`, `BudgetRespected`, `LeaseFences`, `SettledForGood` | |
| `SendPipelineProofs` | `QueueAgreesWithJobs`, `SendTableFollowed` | |
| | `PipelineKeepsBudget`, `PipelineKeepsFences` (the queue's guarantees under the handler) | |
| | `DuplicatesArePaidFor`, `LeasesBoundSends`, `DuplicatesBounded`, `DuplicatesAreBudgeted` | |
| | `ClaimsSuffice` (`AtMostOneSend` again) | no fault of `Interruptions` |
| | `NothingSentTwice`, `PipelineImplementsOnce` (the refinement) | `SharedCache` |
| `CampaignProofs` | `LaunchTyped`, `TasksExist`, `SettledJobsStay` | |
| | `OneJobPerOverlap`, `RunningHasTasks`, `CancelIsComplete`, `TableFollowed` | |
| | `LaunchUnaffected`, `RowsStayInAgreement`, `ShownOnlyGrows` | |
| | `FiguresDoAddUp`, `SnapshotsFit`, `StreamsEndFinally` | |
| `WebhooksProofs` | `WebhooksTyped`, `StatusConverges`, `StatusNeverFalls`, `EngagementsCountOnce` | |
| `WorkspaceProofs` | `WorkspaceTyped`, `ImportsDoApply`, `EditsAreKept`, `PinnedIsSent`, `ContactsAreRight`, `ReportDoesFit` | |
| `AccessProofs` | `OrganizationsStayReachable`, `SignOutIsEffective`, `PatchesDoCompose`, `ChangesStayOnRecord` | |
| `RateLimitProofs` | `BurstsBounded`, `RefusalsAreJust` | |
| `SchemaChainProofs` | `DowngradesUndo`, `LatestIsTheModels`, `ChainInvariant`, `SchemaAlwaysMatches`, `ReleasesAlwaysInsert` | |

All hold for any sets of tasks, workers, contacts, requests, messages, texts and events and any
bounds that the named assumptions of the modules (`QueueAssumption` and its like) admit. These
only say what the code's data are: bounds are natural numbers, the contacts of a campaign are
finitely many, and the rows of an import are a sequence. The conditions in the last column are
what the program must provide for the property; section 4 says what happens without them.

*Queue.* `OneExecutorPerAttempt` is not inductive: nothing in it says that the attempt a
dequeue is about to issue is new. `ClaimInv` adds that locked rows are pending and locked by
one worker only (`LocksExclusive`), that no executor has an attempt its row has not issued
(`AttemptsIssued`), and that a row not enqueued yet has neither lock nor executor
(`NothingBeforeEnqueue`). A commit of DEQUEUE then issues an attempt above every existing
one. `RetryBudget` needs `BudgetInv`: a pending row is below the budget that its reaps allow,
because only a transient verdict below `MaxAttempts` or a reap returns a row to pending.
Fencing follows from the type invariant and the guard alone; finality from the locks being
on pending rows.

*Send pipeline.* `SendInv` ties the two halves together: an open transaction is that of a
running executor, its job is claimable in the committed state, an executor's verdict is
allowed by the committed status of its job, and a settled task has a job that allows it.
`PipelineSteps` shows that the pipeline takes steps of the queue, except where a handler loses
an answer (`ProviderTimesOut`, `CommitFails`): these count a fault, which the queue alone does
not know of. `QueueInvStep` shows that they keep `ClaimInv` and `BudgetInv` too, so that the
guarantees of the queue hold with the handler on it (`PipelineKeepsBudget`,
`PipelineKeepsFences`).

What may be sent twice is argued on three levels. `KnownInv` says what a provider with a shared
memory knows: a key is known exactly when a message was accepted, and a job about to be
recorded as sent is known. Without that memory, `PaidInv` keeps a debt: an accepted message is
recorded, in the row or in the transaction that holds it, or a fault between acceptance and
commit has been counted for it; where no such fault is possible the debt is zero, and
`AtMostOneSend` holds of the claims alone (`ClaimsSuffice`). `CallsInv` bounds the messages by
the leases instead: an executor that has not called the provider yet (`Senders`) still holds
the call of its attempt, no two executors hold the same (`OneExecutorPerAttempt`), and only a
lease issues a new one. With the retry budget, a job is sent at most `MaxAttempts` times plus
once per reap (`DuplicatesAreBudgeted`).

The refinement maps an acceptance of a new key to `Mail`, the commit of a record to
`Conclude`, a cancellation to `CancelOpen`, and everything else to a stutter.

*Campaign.* `LaunchInv` says that jobs exist only for staged launches, tasks only for jobs, and
that an open cancel holds queued jobs that no other one holds. `OverlapInv` follows the requests
through each other. Once a job exists the campaign is not launchable (`LaunchPhases`), so a
launch that is open beside the jobs of another one was accepted before they existed, and the
two have met (`BesideStaged`, from `OpenHaveMet`): hence `OneJobPerOverlap`. A launch that is
open while the campaign is cancelled, or running, has met the cancel, or the launch, that
brought it there (`OpenIsBeside`): so the statuses it overwrites are those that
`TableFollowed` names. A cancel has locked whatever was queued at its `UPDATE`; what is queued
beside that was committed while it was open (`CancelPhases`). `LaunchUnaffected` shows that
every behaviour of `Dashboard` is one of `CampaignLaunch`, so the theorems hold of the
specification of `launch_overlapping` as well.

*Dashboard.* A snapshot is of the past, so nothing about the campaign as it is now implies
that its figures are right. `ReadersInv` keeps three facts: the figures of the last snapshot fit
each other, the campaign has at least as many jobs, attempts and outcomes as it shows
(`NoMore`), and the outcomes of an analysis are no more than its recipients.
Counting is done with cardinalities of sets of jobs: `DisjointCounts` and `FourCounts` turn
disjoint sets into sums, `CreatedStaysFinite` makes every count a number, and `OutcomesStay`
with `OutcomeSums` shows that the sets a figure counts only grow, a complaint that replaces a
delivery included; hence `ShownOnlyGrows`. `SeenInv` adds what a status that was read still says
once the jobs are counted, and ever after. After the campaign was running (`WasRunning`), jobs
are added only by launches that were open beside another one; after it was cancelled
(`WasCancelled`), only by launches that were open beside a cancel, and nothing else is queued.
The jobs of those launches are set apart (`JobsFrom`, `OthersThan`, `TwoParts`), and the others
are counted once and for all.

*Webhooks.* That the last `UPDATE` of a transaction writes the highest status is not visible
in the rows while it is open. `RaceInv` says what holds between a load and its commit of the
events nobody is beside. The comparison of a background task still holds (`TaskUpToDate`). A
sweep visits each event once (`SweepVisitsOnce`), and the status in its session is the highest
of the row's and those it is going to write (`SweepUpToDate`). `RacesMarked` is what makes the
exception of the properties exact: whatever is in hand beside something else has been marked
when the second of the two was taken. From `Fresh`, what both kinds of transaction owe at
their commit, `CommitStatus` shows that the job's status is above every event applied without
a race (`StatusHolds`) and is that of some applied event (`StatusIsOfApplied`). For the counts,
an event that is applied and still in hand is in hand for the second and last time
(`AppliedInHand`), so `CommitCounts` adds to the count no more than the events that become
applied and those of `twice` that are done with (`CountsHold`).

*Rate limit.* The bound on what is granted between two readings says nothing of what the
bucket can still grant. `BurstInv` counts, for every stretch of time in which anything was
granted, the tokens in the bucket as granted already: they and the grants stay below the
capacity, the refill up to `updated_at`, and what was rewound. A bucket that expires comes
back full, so the last conjunct has to show that it had been full before; this is where
`TTL >= Capacity + MaxDelay` is used.

That a refusal is just takes the opposite bound. `LackWasGranted` names a stretch up to now in
which at least what the bucket lacks was granted, counting only the refill up to
`updated_at`; `GrantsInOrder` says that longer stretches have more. A reading that comes late
shortens the refill and not the grants, which is why the property holds with late readings
too, and why a refused request must store its reading.

*Workspace.* What a request has read may be stale when it writes; the invariants say what of
it still holds. For edits, `TemplatesInv`: the version an edit loaded is one there is, so its
successor, if the key admits it, is the next one, and stored versions stand
(`VersionsStand`). For launches, `PinnedInv`, `RecipientsInv` and `LoadedInv`: the loaded text is
the pinned version, nobody resolved is barred, recipients were resolved and no contact is one
twice, each job shows the values of its recipient's row, and a resolved contact that was not
loaded has been deleted for good. For imports, `ImportsInv`: the loaded contacts still have
their rows, with the addresses they were loaded for, because no step takes back a row, an
address or a suppression (`ContactsStand`). `CommittedImport` turns the commit's choice of an
order into a bijection between the new rows and the addresses nobody was found for (an
injection between finite sets of one size is onto), from which follow both that addresses
stay unique (`BookInv`) and that every row of the batch is applied (`RowIsApplied`).
For preflights, `ReportInv`: the report is that of its version, which was stored and stands, and
of the rows it was made from. `ReportDoesFit` then compares two functions that share no
definition but `Named`: for variables other than `first_name` the launch and the audit find the
same value (`SameFields`) and call the same values empty (`EmptyOrUnfilled`), for `first_name`
they differ in the two cases of the property and in no other (`FirstNameDiffers`,
`MessageAndReport`). That no undeclared variable is found needs that every stored version was
validated (`TemplatesInv`).

*Access.* `AccessInv` adds to the reachability of organizations that whoever was told to be
signed out has a revoked session (`OutAreRevoked`) and that the capability a change was
checked for is still there when it commits (`ChangersManage`). The latter holds because
nothing in the code removes a member or lowers a role: an endpoint that does would break it,
and with it `ChangesAreOnRecord`, for a request in flight.

*Schema.* The statements of the six revisions are data, and the proof is about them: a column
that a `downgrade()` forgot, a default that a model lacks or a required column without one
would refute it. `After` replays statements and `SchemaAt` revisions, both recursive
functions; `AfterSteps` and `SchemaSteps` unroll them. The induction this takes is by least
counterexample (`Smallest`, from the well-foundedness of `<`), because the induction theorems
of the library take an operator as a parameter. `Phase1Schema`, `TablesFound` and `Schemas`
say what the revisions build; the `*Undone` lemmas, collected in `DowngradesUndo`, that each
`downgrade()` leads from the schema of its revision exactly to the one before;
`UnalteredModels`, `AlteredModels` and `OrganizationModel`, collected in `LatestIsTheModels`,
that the last schema is the one the models declare. `SchemaMatchesRevision` is not inductive,
because it does not say what an open transaction has done: `ChainInv` adds that its tables are
those of the revision it has stamped, carried through the first `done` statements of the step
it is in. A stamp is then the point where `DowngradesUndo`, or the definition of `SchemaAt`,
applies. For `ReleasesKeepInserting`, `RevisionsExtend` and `LaterExtends` show that a later
revision keeps every table and column and requires nothing more (`Grows`); the two tables
written by raw SQL are checked against their statements (`RawInserts`).

Each preservation proof has one step per action; lemmas about the constructors of rows and
records keep their arithmetic out of it. The invariants were checked with TLC on the
instances above, too.

Only model-checked is liveness (`NothingIsLost`, `EventsAreApplied`): it needs fairness and
ENABLED, which are outside the prover.

## 6. Not modelled

The wording of errors, logging and HTTP; password hashing and cookie signing; the ordering of
DEQUEUE (FIFO by due time) and the length of backoffs; the recovery branch of `send_email_task`
for a claimed job that already has a message id (both columns are written by one statement and
committed together, so the branch is not reached with the SQL store); `CANCEL_PENDING_CHILDREN`
and `QUEUE_DEPTH`, which nothing executes; the per-row `max_attempts`, which nothing reads;
PostgreSQL's deadlock detection; failures of Redis; column types, plain indexes and SQLite; the
hand-made `tasks` table of DEPLOY.md, which the driver refuses (section 4); markup, escaping and
sanitizing; what the preflight report says of links, subject and spam, which are functions of
the text alone, and its scores; the bounce model and the training code, which are numeric; the
per-domain rows of the analytics page; prompts and answers of language models; attachments, the
web application and deployment descriptors. `PROJECT.json` lists each with its reason.

## 7. What is left

The composition of `CampaignLaunch` with the per-job pipeline, so that cancellation, launch
and retries of one job meet in one module, and of `Webhooks` with `Dashboard`, whose outcomes
arrive in any order but one at a time.
