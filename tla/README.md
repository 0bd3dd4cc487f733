# A TLA+ model of SketchTest

SketchTest turns API descriptions into reviewed tests, and executes published
tests and workflows through runners that are separate processes. This directory
holds TLA+ modules for its parts, the TLC configurations that check them on small
instances, and TLAPS proofs of what holds for every instance. Paths below are
relative to the repository; `CP` stands for `apps/control-plane/src`.

1. [Inventory](#1-inventory)
2. [Modules and how they correspond to the code](#2-modules-and-how-they-correspond-to-the-code)
3. [What each run checks](#3-what-each-run-checks)
4. [Bounds](#4-bounds)
5. [Fairness](#5-fairness)
6. [What is proved](#6-what-is-proved)
7. [Where code and documents disagree](#7-where-code-and-documents-disagree)
8. [What is not modelled](#8-what-is-not-modelled)
9. [Plan](#9-plan)

## 1. Inventory

All state that outlives a request is in one PostgreSQL database (and an object
store for evidence and sources). Every other process may be started several times
and may die at any point; they only meet in the database and in HTTP requests.

| Component | State | Operations | Correct when |
|---|---|---|---|
| Run lease (`CP/modules/run/lease.*`) | `runs`: status, runner_id, created_at | `GET /runs/next` (30 s long poll over `claimNextRun`), `PUT /runs/:id/claim`, `PATCH /runs/:id` | a run is handed to one runner, once; its verdict is final |
| Evidence (`CP/modules/run/event.*`) | `step_events`, `evidence_manifests`, objects | `insertEvents`, `buildEvidenceManifest`, `persistEvidenceManifest` | a manifest covers all events of its run, and none comes later |
| Runner daemon (`apps/runner/src/daemon.ts`) | the run it executes; nothing on disk | poll, execute, upload, seal, report; heartbeat; shutdown | reports a verdict only after its evidence; ends every run it was given |
| Workflow compiler (`CP/modules/workflow/workflow-compiler.ts`) | – | a definition and published tests become a plan, or diagnostics | what is accepted can be resolved when it is executed |
| Plan executor (`apps/runner/src/index.ts`) | position, attempts, polls, variables, events | run the steps of a plan with conditions, retries, failure policies, teardown; judge and mask answers | nothing is sent again that must not be; the teardown is exhausted; the verdict follows from the steps |
| Report, quality gate, command line (`CP/modules/run`, `CP/modules/test-suite`, `apps/cli`) | – | report a run, evaluate a gate, start and await a run, exit code | what is told is what was logged |
| AI generation queue (`CP/modules/generation/ai-generation.*`) | `generation_jobs`, `ai_generation_tasks`, `generated_drafts` | enqueue, claim, renew, complete, fail, cancel, retry | bounded; one set of drafts, of the last lease; every job ends |
| AI worker (`apps/ai-worker/src/worker.ts`) | the lease it executes | claim, execute in a child process, renew every 8 s, submit up to three times, report failure | gives up what it no longer holds; submits idempotently |
| AI plan generation (`CP/modules/plan-generation`) | `ai_plan_jobs`, settings row | enqueue, suggest automatically, claim, renew, complete, fail, cancel; save, adjust, publish | a proposal is the last lease's; a change is suggested once; what is published was confirmed and is current |
| Scheduling (`CP/modules/run/schedule*`) | `schedule_configs`, `schedule_dispatches`, the dispatcher's timer | CRUD, dispatch every 5 s in every instance, trigger-now | a minute is dispatched once, exactly when its runs exist |
| Test authoring and deterministic generation (`CP/modules/test-authoring`, `CP/modules/generation`) | test cases, versions, drafts | save with and without expected revision, publish, delete; generate, accept, reject | an edit builds on the version it was made from; a draft becomes one case; what it claims is true of its schema |
| Versioned assets (environments, workflows, datasets, suites) | a row and its numbered versions | create, save, publish, delete, import | no version is lost or replaced |
| Importers and adapters (`packages/adapters`, `CP/modules/import`, `CP/modules/dataset`) | objects and rows of what was imported | OpenAPI, Arazzo, RAML, Postman, HAR, repositories, CSV and JSON | what is stored says what its source says, or says what it leaves out |
| Access (`CP/modules/iam`) | users, service accounts, tokens that clients hold | login, guest, authorize, add users and accounts, change roles, revoke | a request is judged by a role its user had while it was under way, in its user's workspace |
| Runner registry, secrets, audit, policies | runners, tokens, heartbeats, secrets, audit rows, policies | register, beat, delete; ask for a secret; evaluate a policy | a deleted runner is gone; a secret that was sent is in the log; the top rule decides |
| Migrations and start (`CP/db/db.ts`) | `schema_migrations` | apply in order under a lock; first workspace without authentication | each applied once, with its record; one first workspace |
| Web application (`apps/web`) | stores of the workflow editor, the environment page, the plan workbench | open, edit, save, publish, run, poll | what is shown and saved is what was edited |

How they interact:

    web, CLI ---HTTP---> control plane (n instances) <---> PostgreSQL, object store
                        |  dispatcher: schedules -> runs          ^
                        |                                         |
    runner daemons -----+-- GET next / POST events / POST manifest / PATCH
    AI workers ---------+-- POST claim / renew / complete / fail

Runs are created by users (one per request) and by schedules (several in one
transaction), are claimed by polls and executed by daemons. Generation jobs are
enqueued by users, plan jobs by users and by the workers' own claims, and executed by
workers.

What is hard about it, and what the properties are aimed at (the full list is in
`PROJECT.json` under `hazards`, each at its line):

- *Read, then act.* A claim selects and then updates; enqueue counts and then
  inserts; a version is numbered by one statement and inserted by another; a schedule
  is read, compiled over several queries, and only then locked, compared and fired.
- *Requests outlive their senders.* A daemon that crashed or timed out leaves a
  poll handler that still claims a run for it, an upload that is still being
  inserted, and a PATCH that is still to be applied.
- *Answers are lost, or overtake each other.* A claim commits and nobody learns of it;
  a result is posted again although it was stored; a browser's save is answered after
  a poll has shown what it saved.
- *A lease changes hands* while its former holder still runs, renews, and submits,
  and two clocks decide when it has expired.
- *Several statements, no transaction.* Events are inserted one at a time and the
  manifest is built from whatever rows are there; runners and workflows are deleted
  statement by statement.
- *No condition in the statement.* `updateRunStatus` looks at the owner only:
  what keeps a verdict final is the order in which a daemon does things.
- *Translations.* A definition becomes a plan, a plan events, events rows, rows a
  report, a gate's answer and an exit code; a document becomes a model, the model a
  document: each step can drop or redirect something in silence.

## 2. Modules and how they correspond to the code

| Module | Models |
|---|---|
| `RunDispatch`, `JobQueue`, `CronDispatch` | what run dispatch, both job queues, and scheduling promise (abstract) |
| `RunLease` | run lease, evidence, runner daemon, run creation, token deletion |
| `GenerationQueue` | AI generation queue and AI worker |
| `PlanQueue` | AI plan queue with its automatic suggestions, and the worker in plan mode |
| `PlanReview` | one generated plan on several screens: save, adjust, publish |
| `ScheduleDispatch` | schedules, dispatchers, trigger-now, publication as schedules see it |
| `RunnerProtocol` | the execution plan, shared by compiler and executor |
| `WorkflowCompiler` | `compileWorkflow` |
| `PlanExecutor` | `executePlan` and `executeStep` |
| `WorkflowRun` | composes these two: creation of runs, upload, quality gate |
| `RunClient` | adds the report and the command line |
| `Startup` | migrations and the first workspace |
| `TestAuthoring`, `DraftGenerator` | test cases and drafts; what the rule-driven generator writes |
| `VersionedAssets` | environments, workflows, datasets, suites and their versions |
| `ApiImport`, `Arazzo`, `Raml`, `Postman`, `Har`, `RepositoryImport`, `DatasetImport` | the importers, each beside a definition of what the source says |
| `Access`, `RunnerRegistry`, `Policies`, `CronExpression` | the boundary of requests; runners and secrets; policy decisions; cron fields |
| `AnswerJudge` | extraction, masking and assertions of one answer |
| `WorkflowEditor`, `EnvironmentPage` | two pages of the web application |
| `..._proofs` | theorems about the module of that name |
| `MC...` | instances and symmetries for TLC (`PlanReview` needs none); `MCServices` composes those that share no table, `MCInputs` lists the documents and rows they are given |

An operator marked `Mutant of X` has the parameters of `X` and the effect of a
plausible bug in the code `X` stands for. It is used by no specification: it
documents which property notices that bug, and `PROJECT.json` pairs them.

### RunLease

A step is one statement or transaction of the control plane, one message, or what
a daemon does between two `await`s. `status`, `owner` and `stamp` are columns of
`runs`. A poll handler (`phase`, `asker`, `pick`) is authenticated once, then
alternates `SELECT ... FOR UPDATE SKIP LOCKED` (`SelectPending`, `SelectNothing`)
and a sleep; between the SELECT and the UPDATE of one transaction
(`ClaimSelected`) it holds the row lock, so others skip that row. A handler goes
on after its daemon has gone (`PollBreaks`, `Crash`), which is how a run is claimed
for nobody (`DropReply`).

A daemon's `pc` follows `executeRun`: execute, upload the events, seal, report.
Executing is one step, `FinishPlan`, that picks any number of events and any
verdict; `FinishEmptyPlan` is the plan without step events, which uploads
nothing and still seals; `PlanThrows` is an exception. The requests are separate
from the daemon: `ingest` and `seal` per run, `patches` as a set of messages.
`InsertEvent` is one autocommitted INSERT. `ReportBreaks` models that `reportStatus`
swallows its errors; every other failure goes to `main`'s catch, which reports
`failed`.

A crash of the control plane, seen from the database and from the daemons, is a
failed statement of each handler it was running: `PollFails`, `IngestFails`,
`SealFails`, `LosePatch`. A handler authorizes the daemon that sent the request;
requests about a run come from the daemon it was handed to, so `Authorized` asks
whether the owner's token is left. A `Client` is a runner identity that somebody
drives by hand through the same API: it claims by id and reports any status,
in any order.

### GenerationQueue

One workspace. `enqueue`, `retry` and `cancel` take the workspace's advisory lock
first. Enqueue and retry count and then write: `open` holds the transactions in
between. Claim, renew, complete and fail take row locks and are one step, except
that they skip or wait for a row a retry holds (`RowFree`).

The lease token is a random UUID; here it is the number of the attempt it was
drawn for, which grows and so repeats no more than a UUID does. `leased_until`
is compared with two clocks, `now()` of the database in claim and `Date.now()` of
the process in `checkLease`; `lapsed` is the set of clocks by which it has
passed, each of which may do so first. A worker waits for one post at a time;
`net` holds posts that may be served long after the worker has given up.
A worker's `AbortController` is set by any failed renewal; it kills an execution
but not a post, after which the worker leaves without a `fail`.

### ScheduleDispatch

A cron expression is the set of minutes it matches. A dispatcher reads its clock,
the rows that are due (`ReadDue`), then for each its row again (`ReadSchedule`),
then suite and members (`ReadSuite`), then the environment (`ReadEnvironment`), and then opens the transaction:
lock and compare the row (`LockRow`), claim the minute (`ClaimMinute`), create runs,
commit (`Commit`). All the runs of a transaction are one batch. Every instance of
the control plane has a dispatcher and a clock. `trigger-now` is the same function
without lock, check and claim. `suite` and `version` number what was published;
the statements that read a suite version and each of its members are one step, since `suite`
counts the publications of all of them;
`suite = 0` is a suite that is not there or does not compile, and `gated` an
environment that has no version or may not be used by a schedule. Deleting a
schedule deletes its claims; ids are random and never reused.


### PlanQueue and PlanReview

`PlanQueue` is one workspace's `ai_plan_jobs` with its settings row and the workers in
plan mode. Enqueue and `autoSuggest` run under the advisory lock `plan:<workspace>`
and read the inventory, the settings and the active jobs by statements between which others
commit: `BeginSuggest`, `CheckFingerprint`, `Suggest`; `BeginEnqueue`, `CountActive`,
`Enqueue`. An inventory is a number, since only whether it changed matters; `lastHash`
is the fingerprint of the settings row. As in `GenerationQueue` the attempt stands for the
token, and a post of a worker may arrive at any time, several times, or never.

`PlanReview` begins where such a job has completed: `row` is what the database says of the
plan, `view`, `base` and `dirty` what a screen (`AiPlanWorkbench`) shows of it and what has
been edited there. A screen polls every 4 s (`AskList`, `ListArrives`), and the
answer to a save may overtake the answer to a poll. Publication reads row, tests and
workflows by separate SELECTs (`BeginPublish`, `FinishPublish`) while others republish and
delete them.

### WorkflowCompiler, PlanExecutor, WorkflowRun, RunClient

`WorkflowCompiler` has the checks of `compileWorkflow` as operators, one per diagnostic
(`ForwardReference`, `HasCycle`, `Unproduced`, `Unresolvable`), and `CompiledPlan`. Of a
request matters what each of its parts refers to, whether its address is blank, what it
extracts, and how many assertions it has; each part that a step has itself comes before its
test's (`ResolvedPart`).

`PlanExecutor` is `executePlan` as a state machine: `phase` and `at` are its program
counter, `attempt` and `poll` the loops of `executeStep`, `log` the events it returns. A
target may answer anything: `RequestBreaks`, `AnswerEvaluated` and `EvaluationThrows` choose
whether the request breaks, what can be extracted, and which of the assertions hold, each of
which has a severity, `block` or `warn`, and an event of its own. A variable is `"unset"`, `"false"` or `"true"`,
which is what a condition tells apart. An event has the part (main or teardown) and the
position of its step, which the runner's events do not, and the id, which they do: a teardown
step may have the id of a main step, a step may be named like the marker of the run or of the
teardown (`RunMark`, `TeardownMark`), and nothing tells such events apart once they are uploaded.

`WorkflowRun` composes them: every way in which a run gets a plan (`RunWorkflow`,
`RunScheduled`, `RunTest`, `RunScheduledTest`, `RunSteps`, `RunGiven`), the upload and the
verdict of the daemon (`Report`), and the gate (`GateResult`). The lease and all losses are
`RunLease`'s; there a plan is one step with any events, here the events are those of the
plan and they arrive. `RunClient` adds the report that is made of the rows and one command
of the CLI, from its arguments (`ParseArgs`) to its exit code, and another runner that
reports a status of its own (`ReportOther`).

### Startup, TestAuthoring, VersionedAssets, Access, RunnerRegistry

Each is a protocol on rows in which a step is one statement or transaction, and everything
between two statements of a handler may happen. `Startup`: an instance of some release
locks, reads `schema_migrations` once, applies what is missing, one transaction each, and
may die after any of them; releases may differ, or have been rebased. A caller is let in
without credentials while there is no workspace. `TestAuthoring`: a save reads the latest
version, compares it with the expected revision, and inserts the next number; a review
locks its draft, inserts a case and closes the draft; its steps are grouped by the request
they are part of (`CaseStep`, `DeletionStep`, `EditorStep`, `GenerationStep`, `ReviewStep`).
`VersionedAssets`: a save that finds its row, checks its members, numbers a version and
inserts it, publication, deletion in two statements or one, foreign keys, and the schedules
that refer to suites and environments. `Access`: users, service accounts (rows whose tokens no
route accepts) and the rows of other tables; a request is judged in three statements, which
read the row of its user, then the row it names, and last are its handler's own, and `held`
is every role its user had meanwhile. `RunnerRegistry`: registration, heartbeat and deletion
statement by statement, and a secret that is read, logged, and sent.

### Pure functions

`DraftGenerator`, `ApiImport`, `Arazzo`, `Raml`, `Postman`, `Har`, `RepositoryImport`,
`DatasetImport`, `CronExpression`, `Policies` and `AnswerJudge` translate functions. Each
also has a second definition that does not come from the function's text: which bodies a
schema accepts, what a document says of an endpoint, what a request of the imported
workflow sends, when an expression is due, which rule precedes which. The property
compares the two for every input of `MCInputs`. Where there is a process around the
function it is modelled too: the files of a repository arrive in any order and the
download may be cut short, objects are stored before their row.

### WorkflowEditor and EnvironmentPage

The stores of two pages as state machines: what is on the page, what is edited, and the
requests under way. Their answers arrive at any time, in any order, while the user goes on,
and a request may fail before or after the server has acted.

### MCServices

These modules share no table, so one run checks them all: a behaviour is a behaviour of
the one that `part` names, the others stay as they are. `Startup`, `TestAuthoring`, `Access`,
`RunnerRegistry` and `VersionedAssets` have names of their own and are extended, which lets
TLC evaluate their assumptions; the rest are instantiated.

## 3. What each run checks

| Run | Specification | Properties | Distinct states |
|---|---|---|---|
| `lease_safety` | `RunLease!Spec` | `OneHolder`, `FreshExecution`, `PassedHasEvidence`, `ManifestComplete`, `VerdictIsFinal`, `ImplementsDispatch` | 1,347,238 |
| `lease_live` | `RunLease!FairSpec` | `PendingEnds` | 141,240 |
| `queue_lease` | `GenerationQueue!Spec` | `DraftsOnce`, `DraftsOfLastLease` | 794,604 |
| `queue_service` | `GenerationQueue!FairSpec` | `ImplementsJobQueue`, `ActiveEnds` | 110,455 |
| `schedule_safety` | `ScheduleDispatch!Spec` | `OncePerMinute`, `ClaimedMeansRun`, `ImplementsCronDispatch` | 1,704,664 |
| `schedule_live` | `ScheduleDispatch!FairSpec` | `DueIsDispatched` | 362,222 |
| `plan_queue` | `PlanQueue!Spec` | `LastLeaseOnly`, `SuggestionIsDue`, `ImplementsJobQueue` | 1,052,400 |
| `plan_review` | `PlanReview!Spec` | `NoLostUpdate`, `SuiteIsConfirmed`, `PublishedStays` | 3,500,244 |
| `workflow_run` | `RunClient!FairClientSpec` | `VerdictIsTold`, `NothingIsSentAgain`, `TeardownIsExhausted`, `UnresolvedIsExcused`, `EvidenceIsTold`, `RunEnds` | 198,880 |
| `services` | `MCServices!ServicesSpec` | thirteen, below | 588,082 |
| `plan_shown`, `workflow_gate` | `PlanReview!Spec`, `RunClient!ClientSpec` | refuted, see section 7 | – |

**Runs.** `OneHolder`: a run is in one place, a daemon or an answer, and belongs to
it. `FreshExecution`: nothing had been uploaded, sealed or reported for a run a
daemon starts to execute; so a crash never leads to a second execution.
`PassedHasEvidence` and `ManifestComplete` hold although events and manifest share
no transaction, because of one chain: a daemon seals only after the upload was
*accepted*, and gives the run up otherwise. `VerdictIsFinal` holds although the
UPDATE is unconditional, because a daemon sends at most one verdict for a run and
no run is executed again. `ImplementsDispatch` says the same of the whole: one
grant, one seal, one verdict. `PendingEnds`: a pending run is claimed, by whoever
competes for it, and a daemon that claimed it ends it with a verdict as long as no fault
happens. With one, it may stay claimed for ever (section 7).

**Queue.** `DraftsOnce` and `DraftsOfLastLease` say that posts repeated, delayed and
overtaken by a new lease, of another worker or of the same one, leave exactly the
drafts of the last lease. `ImplementsJobQueue`: at most `Limit` jobs are active, which
needs the advisory lock; a completed job stays completed and an ended one is reopened by a
user only. `ActiveEnds`: every active job ends although the worker may die, renewals may
be lost and no request need arrive, because leases lapse and the budget of claims runs out.

**Schedules.** `OncePerMinute` and `ClaimedMeansRun`: whatever the races, crashes and
errors, one batch for a minute, and a claim for a minute exactly when the batch
exists. `ImplementsCronDispatch`: the batch appears in one instant in which the row
exists, is enabled, names the minute and the environment the runs were bound to,
though all of it was read before and may have been edited, edited back, or
deleted in between. `DueIsDispatched`: a broken schedule in the poll, and one failed
statement, do not keep another from its minute as long as the clock stays in it.

**Plans.** `LastLeaseOnly`: a proposal is there exactly when its job has completed and is
the one of its last lease. `SuggestionIsDue`: two workers do not both react to one change,
and a setting that was turned off stays respected, although inventory and settings were
read by earlier statements. The plan queue implements the same `JobQueue`.
`NoLostUpdate`: a save replaces the proposal its edits were made from, whatever polls and
answers overtook each other on the screen. `SuiteIsConfirmed`: a suite is made of the
revision its publisher confirmed, of members none of which had been republished or deleted
before the publication began. `PublishedStays`: nothing is saved over a published plan.

**Executions.** `NothingIsSentAgain`: at most `retries + 1` attempts, none after an answer
was judged, and nothing of a later step after a failure that stops the run.
`TeardownIsExhausted`: however the main steps end, an enabled teardown step has
passed or has had all its attempts, after them. `VerdictIsTold`: a run is `passed` exactly
when each main step is disabled, passed or was excused by its condition; an attempt
fails exactly when an assertion that blocks does not hold, whatever becomes of those that
warn; and the exit code of a command that waited says so, with a report that shows no error
but failed warnings. `EvidenceIsTold`: the stored rows of a step are what was
logged of it, in its order, and so is what the report shows, provided that ids differ; a step
that is named like the run or its teardown is given their markers besides (section 7).
`UnresolvedIsExcused`: a reference that is left in a request was to be produced by a step
before it, or came with a published test; so what the compiler promises of a workflow it
accepts without a warning holds when it is executed, whatever failed, was skipped or was
answered without the value. `RunEnds`: every run ends, and so does a process
that waits for it.

**Services.** `StartsOnce`: each migration takes effect once and is recorded, a listening
instance has all of its release, and one workspace is made without authentication.
`EditBuildsOnRead`: a checked save is stored on the very version its author opened;
`DraftsAreAccountedFor`: an accepted draft is the origin of one case.
`VersionsAreKept`: versions are numbered without a gap and none is replaced, suites name
published members, a schedule finds a version of its environment. `RoleIsCurrent`: a
request is served for a role that its user had while it was under way, however old its
token is, and for a row, user or account of its user's workspace only. `RunnersAreKnown`:
nothing is left of a deleted runner, and a secret is sent to runners of its workspace only,
with a value it had after the request came, once the log says so. `DraftsAreTrue`,
`ImportIsFaithful`, `FormatsAreFaithful`, `RepositoryIsFaithful`, `JudgementsAreRight`,
`AcceptedIsDue`: the functions of section 2 agree with their second definitions; each names
in its comment what is excepted, and section 7 why. `EditorIsFaithful`: a version that is
saved in the browser differs from the one it was made of by the edits, and by nothing else
(`EditsAreExact`); what the store holds of a version is what the server holds, whatever
answers overtook each other, and only published versions are run, one at a time
(`StoreIsTrue`).

`TypeOK` of each specification, and `OneLeaseHolder`, `BudgetRespected`, `QueueBound`, are
proved (section 6) and not in a run.

## 4. Bounds

The code's limits are CONSTANTS; the instances make them small enough for the limit
to be met. Counters that have no limit in the code have one in the model, named in
the module that declares it.

| Constant | Code | Instances | Why that is enough |
|---|---|---|---|
| `Run`, `Daemon`, `Poll` | any | 2, 2, 2 (1 daemon in `lease_live`) | a race needs two runs with equal `created_at`, two daemons, and a handler that outlives its daemon next to a live one; the proofs cover the rest |
| `Client` | any | 0 or 1 | one identity in competition with a daemon |
| `MaxBatch` | any | 1–2 | 2 is a batch that may stop in the middle |
| `MaxFaults` | any | 1–2 | two faults: a crash, and a lost answer on the way out of it |
| `Limit` | 10 active jobs | 1 | two enqueues and a retry race for the last place |
| `LeaseBudget` | 3 claims | 1–2 | 2: a lease is lost and taken over, then the budget is used up |
| `SubmitTries` | 3 | 1–2 | 2: a result is posted again |
| `MaxAttempt` | none | 0–1 | 1: a job is reopened after its budget was used up |
| `Instance` | any | 1–2 | two race for one row, one minute, or one migration |
| `Horizon` | none | 2 | a minute, and the next one on another clock |
| `MaxVersion`, `MaxEdits` | none | 1–2 | an edit and its reversal between read and lock |
| `MaxAssets` | none | 2 | two changes of the inventory between fingerprint and suggestion |
| `MaxRevision` | none | 4 | two users save and adjust while a third answer is under way |
| `Workflow` (of `WorkflowRun`) | any definition | 85 of two steps, most with a teardown step | a producer and a consumer, in both orders, with every policy; three ids, so that a teardown step may share one, and steps named like the markers |
| `MaxSteps`, `MaxTeardown` | 50, 20 | 2, 1 | as above; the proofs cover the rest |
| `MaxSaves`, `MaxWipes`, `MaxVersions`, `MaxDeletions`, `MaxActions` | none | 1–4 | two actors each act, and one of them again; the pages begin with versions, so there are more of them |
| `MaxRequests`, `MaxWrites` | none | 3, 3 | a login, and two requests of which one changes what the other is judged by; a secret that is written, deleted and written again while it is asked for |
| `Account`, `Runner`, `Secret` | any | 1, 1, 2 | an account that is revoked; a secret of the runner's workspace and another; the proofs cover the rest |
| `AllowedHosts`, `MaxRedirects`, `MaxFiles`, `MaxFileSize`, `MaxTotalSize` | configured | 1, 3, 4, 2, 4 | at, below and above every limit |

One `Model` per instance: jobs of another model are invisible to a worker, and two
independent queues in one workspace share only the limit.

Deadlock is checked where the system cannot stop. In `lease_safety` it can:
when all tokens are deleted and all runs created; in the queues when all
jobs have completed and polls find nothing; an execution that has its verdict is over; and
an import that is done stops.

## 5. Fairness

Weak fairness of what a process does next when nothing prevents it: the event loop
of Node.js runs every handler whose statement has returned, PostgreSQL answers, a
timer fires again, and `compose.yaml` restarts daemons (`restart: unless-stopped`).
An execution ends since it has a deadline (plan timeouts in the runner, the kill of
the worker's child). Of `Works(n)`, a daemon's fairness, crashes and broken
connections are not part; users, API clients, creations, deletions, renewals and the
arrival of any message of a worker are never required to happen. For `Lapse`, only the
database's clock is required to advance.

`ScheduleDispatch` asks strong fairness of the row lock
(`SF_vars(LockRow(i) \/ NotDueAnyMore(i))`): PostgreSQL queues waiters for a row
in the order they came, so a dispatcher cannot be overtaken for ever.

`FairClientSpec`: the runner goes on with its plan, a request that hangs is
aborted by its timer (so the answer of a target is never required), and the process of
the command line looks at its clock after every poll.

## 6. What is proved

Eight modules hold proofs. Nothing is assumed but the named ASSUMEs of the modules, which
say that sets that stand for different things are disjoint, that bounds are numbers, that
sets of rows are finite, and that inputs have passed the schemas their routes check
them with. Each `IInv` was first checked by TLC as an invariant of the instances above.

| Module | Theorems, for all values of the constants |
|---|---|
| `RunLease_proofs` | `Invariance`, `TypeCorrect`, `OneHolderAlways`, `FreshExecutionAlways`, `ManifestCompleteAlways`, `PassedHasEvidenceAlways`, `VerdictIsFinalAlways`; `LeaseImplementsDispatch` (when `Client = {}`) |
| `GenerationQueue_proofs` | `Invariance`, `TypeCorrect`, `QueueBoundAlways`, `DraftsOnceAlways`, `DraftsOfLastLeaseAlways`, `OneLeaseHolderAlways`, `BudgetRespectedAlways`, `QueueImplementsJobQueue` |
| `ScheduleDispatch_proofs` | `Invariance`, `TypeCorrect`, `OncePerMinuteAlways`, `ClaimedMeansRunAlways`, `DispatchImplementsCron` |
| `PlanQueue_proofs` | `Invariance`, `TypeCorrect`, `LastLeaseOnlyAlways`, `SuggestionIsDueAlways`, `PlansImplementJobQueue` |
| `PlanReview_proofs` | `Invariance`, `TypeCorrect`, `NoLostUpdateAlways`, `SuiteIsConfirmedAlways`, `PublishedStaysAlways` |
| `WorkflowRun_proofs` | `Invariance`, `ExecutorTypeCorrect`, `NothingIsSentAgainAlways`, `TeardownIsExhaustedAlways`, `VerdictIsDeservedAlways`, `ExitTellsStatusAlways`, `UnresolvedIsExcusedAlways` |
| `Services_proofs`: `Startup` | `StartupInvariance`, `StartupTypeCorrect`, `StartsOnceAlways` |
| `Services_proofs`: `Access` | `AccessInvariance`, `AccessTypeCorrect`, `RoleIsCurrentAlways` |
| `Services_proofs`: `RunnerRegistry` | `RegistryInvariance`, `RegistryTypeCorrect`, `RunnersAreKnownAlways` |
| `Services_proofs`: `VersionedAssets` | `AssetsInvariance`, `AssetsTypeCorrect`, `VersionsAreKeptAlways`, `NothingIsTakenBack` |
| `Authoring_proofs`: `TestAuthoring` | `Invariance`, `TypeCorrect`, `EditBuildsOnReadAlways`, `DraftsAreAccountedForAlways` |
| `Authoring_proofs`: `WorkflowEditor` | `EditorInvariance`, `StoreIsTrueAlways`, `StoredVersionsStay` |

### RunLease

None of the properties is inductive. `IInv` adds what they silently rely on:

- `PollInv`: a poll that has selected holds a *pending* run, alone;
- `DaemonInv`: a daemon waits for its own poll, and has work exactly while it works;
- `FreshInv`: to a run that is pending, or in an answer that nobody has read,
  nothing has happened yet;
- `WorkInv`: how far a run's evidence is, given what its daemon is doing; before the
  daemon reports there is no verdict in flight;
- `EvidenceInv`: rows, batch and manifest of a run agree with the state of the requests;
  a seal is requested only after the upload is done;
- `PatchInv`: one verdict in flight at most, of the owner, while the run is claimed, and
  `passed` is earned by a finished seal;
- `OwnerInv`: a run that left the queue has an owner, and a daemon's run ends as
  `passed` or `failed`.

The argument: `FreshInv` makes a claimed run untouched when execution starts, `WorkInv`
carries it through upload and seal, `EvidenceInv` turns "seal done" into "manifest
complete", and `PatchInv` turns "one verdict, while claimed" into finality. One lemma per
group of actions (`PollStepInv`, `PollingDaemonInv`, `WorkingDaemonInv`,
`RequestStepInv`, `PatchStepInv`, `OutsideStepInv`) proves that `IInv` is preserved.
The refinement has one lemma per action too (`StepRefines`); with API clients it does
not hold, because a client may report `running` or `cancelled`, or overwrite its own
verdict, which `RunDispatch` does not allow.

### GenerationQueue and PlanQueue

The invariant of `GenerationQueue` adds three parts to the properties. `OpenInv`: one
transaction has counted at a time, what it counted still leaves room, and its job is as it
was; workers may commit in between, but only claim (which leaves the count) or end jobs
(which lowers it), and that is `QueueBound`. `LeaseInv`: a running job has the token of its
last attempt, a pending one has none. `WorkerInv`: a busy worker's lease is of an attempt
that was made. So a claim draws a token nobody has (`OneLeaseHolder`), and a post that
passes `checkLease` carries the token of the last attempt (`DraftsOfLastLease`); it finds
the job running, hence without drafts (`DraftsOnce`). Nothing is needed about messages in
flight: the rows alone decide.

`PlanQueue` needs less of the rows and more of the transactions. `LockInv`: at most one
process is in a transaction under the advisory lock. `SuggestInv`: what that one has
checked, the setting, the fingerprint and the absence of active jobs, is still so, because
jobs are inserted under the same lock and claims and results only make them end;
`EnqueueInv` says the same of the count. `ClaimedInv` and `WorkInv` give
`LastLeaseOnly`. The proof shows what `SuggestionIsDue` hangs on: the update of the setting
waits for the settings row, which the suggestion has locked. Inventories change without it, so a suggestion may be made for an inventory that
has just changed again; only the fingerprint it was made from is claimed to be new.

### ScheduleDispatch

The parts added: `ProcessInv`, a dispatcher at work has a minute, a process past the poll
has a schedule that was created, and a request neither polls nor locks; `LockInv`, a
dispatcher in its transaction has locked a row that is there, due, and equal to what it
read, and past the claim the minute is still unclaimed by others; `BatchInv`, batches are
finitely many and of ids that were used, so a new row has no past. A commit therefore
meets a minute without a batch, and what it read long ago is what the row says
(`CommitFires`).

### PlanReview

`EditorInv`: the revision that a screen will name in its next save is the one its edits
were made from. It is maintained by *every* answer, in whatever order they arrive, since
each that changes the one resets the other; the comparison in the server protects an update
only because of it. `SaveInv` carries it over to the save under way. `PublishInv`: one
publication is under way at a time, and the row is as it found it, of the revision that was
confirmed and without a suite; this gives both `SuiteIsConfirmed` and `PublishedStays`.

### WorkflowRun

The properties are about the log of events, and the invariant follows the place of the
executor in its plan:

- `PlaceInv`: where it is, and that a step being sent is in the plan, enabled, and in an attempt;
- `SentInv`: nothing was logged of a later step; the step at hand was started as often as
  `attempt` says and never judged; what failed before it may be skipped;
- `VerdictInv`: the count of failures is 0 exactly when every step done so far is good;
- `CleanInv`: the same of the teardown, and that it came after the main steps;
- `LatestInv`: of the results of one step one is the latest, which makes its outcome
  a function of the log;
- `MissingInv`, `OriginInv`: what a request lacked was referred to by its step, and what the
  plan has to do with the definition it was compiled from;
- `StatusInv`, `ExitTellsStatus`: the status is the verdict or what another runner
  reported, and an exit code says so.

The end of an attempt appends one event for each assertion and the end of the step at once,
so the definitions take the log as an argument and lemmas say what each kind of event adds
to them (`AppendedEvent` and those that follow it; `LogAssertions` for the assertions, which
neither start nor end an attempt). What was judged is a `step.finished` without error
(`Answers`), not an assertion: a step need not have one. That a set of positions has
a last element is proved by the well-foundedness of finite sets, without induction over the
log. `UnresolvedIsExcused` needs that the step that produces a variable is before the one that
refers to it (`ProducerIsBefore`): `~ForwardReference` excludes later ones, and
`~HasCycle`, of the set of that step alone, itself.

Two things the attempts at this proof showed of the model: a teardown step with `attempt > 0`
is enabled (now in `PlaceInv`), without which the step that skips a disabled one breaks
the invariant; and a misplaced parenthesis in the type of a step's `extract`, which TLC's
instances did not notice. The assumption `InputsAreValid` was made explicit: posted steps
get different ids, and definitions have passed the schema of their route.

### Startup

An instance trusts what it has read once of `schema_migrations`, across the crash of any
other. `LockInv`: only the holder of the schema lock reads and migrates. `ProgressInv`: its
copy agrees with the table from its position on, and what is before has its checksum.
`TableInv`: effects and records go together, without gaps. `ListenInv`: what a listening
instance needs stays, since records are never removed. `BootstrapInv`: only the holder of the
bootstrap lock acts on having seen no workspace.

### TestAuthoring

A save reads the last number, compares it with the expected revision, and inserts the next
number one statement later. `EditBuildsOnRead` is about the id of the row, which nobody
compares. `VersionInv`: numbers are different, one is the last, and in a case whose versions
were never deleted they have no gaps. `EditInv`: what an editor has in hand is still the row
with that number, and a number that was computed follows one that is there. So, when the
INSERT does not violate the UNIQUE constraint, no number from the computed one on is taken,
the row before it is the last, and it is the one that was opened (`InsertBuildsOnRead`).
Without the constraint the comparison shows nothing. `DraftInv`: an accepted draft and its
case refer to each other, which the foreign key keeps from being deleted, and a draft that
is locked is pending and in one hand. The theorems are for any number of editors and
generations at once; the run has two editors or one and a generation (`FewAtATime`).

### Access

`AccessInv` has, beside the types, one part per request (`ClientInv`) that follows it through
its three statements. When it is sent, the role its user has is in `held`; every later
change of that role is added while it is under way. So the role that is read is one of
`held`, and the one it is compared with still is when the handler's statement runs, although
the user may have another by then. The row that was looked up may be gone when the handler
runs, but no row moves from one workspace to another, and neither does a user or an account
(`Owned`): what was compared stays true of whatever is left. `ServedInv` is the lemma about
the steps of others: answering one request only adds to what another knows.

### RunnerRegistry

The deletion of a runner needs no transaction for `DeletedIsGone`, and the proof shows what it
needs instead: tokens and heartbeats refer to their runner, so that none can be inserted
after its row, and the row cannot be deleted before its heartbeats. An id is drawn once, so
what is gone stays gone. `Informed` is what a request for a secret knows: the value that the
secret has, until it reads it; then the value it read, in the workspace that was compared,
which may have been replaced since.

### VersionedAssets

Three of the four statements of a save may be stale when the fourth runs. `RowsInv` is the
property with the counters of a row that was never inserted; `SaveInv` says what is left of
each statement: a number that was computed is not past the end (`numbered`, unless somebody
deleted the versions), a member that was found published is published (unless somebody
deleted its versions), a row whose versions are being deleted is not a suite or an
environment. The two keys do the rest: a number in use is refused, and a row with versions
is not deleted. The action property `NothingIsTakenBack` ([][Forward], of every step) is what lets a
request rely on what it read: rows do not come back, and without a deletion counts only
grow and a published workflow stays published.

### WorkflowEditor

The answers to what the editor asked come in any order, about workflows that may not be open any more.
`StoreIsTrue` holds all the same, because a version is known by its id. `StoredVersionsStay`
([][Grew]): the server only adds versions and publishes some, so what was once true of an id
(`IsTrue`, of a version in the store; `CallTrue`, of one in an answer under way) is true for
ever, and merging an answer replaces a version by what is true of the same one. `RunInv`: a
run or its poll is under way only while the store says `running`, which is why a second one
is not started.

### Only model-checked

- Liveness (`PendingEnds`, `ActiveEnds`, `DueIsDispatched`, `RunEnds`): the proof system
  does not reason about fairness and ENABLED.
- `EvidenceIsTold`, and what `VerdictIsTold` says of the report's marks: they are about
  `SelectSeq` and `SortSeq`, which take operators as arguments and are defined by recursion.
  `BlockingDecides`, the part of `VerdictIsTold` that relates the assertions of an attempt to
  its result, needs none of that and has no proof yet.
  The rest of `VerdictIsTold` is `VerdictIsDeservedAlways` and `ExitTellsStatusAlways`.
- `EditsAreExact`, the other half of `EditorIsFaithful`: it compares lists of assertions
  that are filtered, again with `SelectSeq`.
- The properties of functions over recursive data (`DraftsAreTrue`, `ImportIsFaithful`,
  `FormatsAreFaithful`, `RepositoryIsFaithful`, `JudgementsAreRight`, `AcceptedIsDue`):
  schemas, trees of a document and texts of any depth need induction over that data.

## 7. Where code and documents disagree

Two runs check what the repository says of the program, and TLC finds a behaviour of the
code that does otherwise.

- `plan_shown` / `SuiteIsWhatWasShown`. The publication dialog
  (`apps/web/src/pages/Plans/AiPlanWorkbench.tsx:620`) says that what is shown becomes the
  suite. The answer to a save clears `dirty` (line 110) although a poll has shown the saved
  revision meanwhile and the editor was changed again; what is then published is the saved
  proposal, not the one on the screen.
- `workflow_gate` / `PassedRunPassesGate`. `CP/modules/test-suite/test-suite.service.ts:356`
  says "5. PASSED — all gate criteria satisfied". The gate waits for a `run.finished` row
  (line 428), and `mapUploadEvents` (`apps/runner/src/event-upload.ts:8`) uploads no event
  whose `stepId` is not a step's, which that of `run.finished`, the word `run`, is only by
  chance: no run passes unless a step of its plan has the id `run`.

What follows was met while modelling. It is what the models do; the properties except it,
and no run refutes it.

**Runs.** `packages/contracts/runner-protocol/src/index.ts:230` says of
`VALID_RUN_TRANSITIONS` "Any transition not listed here is rejected", and nothing reads the
table (`OnlyValidTransitions` in `RunLease` states it). `docs/TECHNICAL_ARCHITECTURE.md:341`
and `:347` return a lost lease to the queue; nothing does, so one crash or one lost answer
leaves a run claimed for ever (`LeaseIsReleased`). `docs/PRD.md:451` separates business
failures from infrastructure failures; a passed run whose upload breaks is reported
`failed` by `main`'s catch (`PassedIsNotFailed`). Nothing in the repository makes a run
`cancelled` or `lost` but a runner's PATCH; the web client's `cancelRun` calls a route that
does not exist.

**Gate.** `blockOnInfraError` never fires; `step.finished.retries` is always 0; steps that
ended with `error` are not counted by `noNewFailures`; starts of attempts are counted as coverage; `requiredTags` is never satisfied; assertions over 64 KiB lose
their result.

**Names of steps.** The markers of the run and of its teardown have the `stepId` `run`
(`apps/runner/src/index.ts:879`, `:1034`) and `teardown` (`:979`), which are ids that a step
may have (`packages/contracts/common/src/index.ts:14`). Then they are uploaded as evidence of
that step: a step `teardown` that was never begun is reported `unknown` and not `not_run`,
the start of the teardown is counted as coverage, the report has `runEvents`, and a
step `run` makes the gate find `run.finished`.

**Severities.** An assertion that only warns fails no step, and a run that passed has the exit
code 0; but `--output github` prints `::error::Assertion failed` for it, like for one that blocks
(`apps/cli/src/index.ts:552`). Only posted steps, tests that are run by themselves and plans that are given
keep severities: a workflow makes every assertion block, of its own steps and of the tests it
uses, and of these it also drops the query and the authentication
(`CP/modules/workflow/workflow.service.ts:319`).

**Compiler and executor.** Conditions, polling and retry delays are dropped, `goto` becomes
`stop`, the teardown strategy is dropped, `retryOnNetworkError` and backoff are ignored. A
variable that is produced again is falsely rejected; what a published test refers to is not
checked. A teardown step with the id of a main step shares its evidence. An assertion that
throws counts as a network error and is retried; an extracted `null` becomes
`[object Object]`; an unresolved condition is true; `conditionOnFalse: fail` leaves no event.
Runs of a workflow are never bound to an environment.

**Judgement of answers.** The `jsonPath` operators `notEquals`, `notContains` and `schema`
always hold, and so do `body` operators but three; header operators other than `equals`
hold exactly when the header is there; `status` and `responseTime` ignore the operator.
`$[0].field` and `$.items[*].name`, both promised by the comment above `jsonPathGet`, find
nothing. `equals` depends on the order of keys; `greaterThan` takes null, an empty text
and an empty list for 0. The `actual` of an assertion event is not masked.

**Command line.** `blocked` has the exit code of a failure but does not end the wait; `lost` and a
timeout have the same code; `--no-wait <id>` swallows the id and `--wait=false` waits; a step
whose last attempt was an error is a warning in the report of a failed run; `runEvents` are
empty (but for a step named `run`).

**Scheduling.** `*/40` as day of month is accepted and may never be due; day of month and
weekday are both required; `0-30/10` is `0-30` and `5/15` is `5`; `0 0 31 2 *` is
accepted and never due. The next poll starts 5 s after the last one ended and looks at the
current minute only.

**Assets.** Workflows and datasets are deleted in two statements: when the second fails the
versions are gone and the row stays, and numbering starts again. A publication that races a
deletion answers "published". An environment can never be deleted, since version 1 refers to it,
nor a case that was made from a draft; the attempt wipes the case's versions first, and a
save that was numbered before leaves a gap. Members of a suite can be deleted afterwards.
A crash leaves a generation job `running` for ever with part of its drafts. No web client
sends `expectedRevision`.

**Generator.** Happy-path requests never carry required query or header parameters; negative
drafts of POST and DELETE are marked read-only; some bounds (`maximum` below 1 without
`minimum`, `minLength` over 100, conflicting `allOf`, `pattern`) give values that are not valid;
schemas that require themselves overflow the stack. Accepting a draft writes `mediaType`
`application/json` whatever its Content-Type is.

**Importers.** A parameter whose name has a character that `EntityIdSchema` forbids
(`ids[]`) makes the whole import fail, and so does a server with an empty URL.
OpenAPI: no reference is followed except that of a schema. A body that is a `$ref` is imported
as an optional one without content, and a header that is a `$ref`, or has `content` in place
of a schema, is dropped, and so is the schema `false` of a body or a header, all without a
diagnostic (`packages/adapters/openapi/src/index.ts:892` and `:1002`), though line 18 says that
warnings are never silently dropped; a parameter or a response that is a `$ref` makes the whole
import fail, and the operations of a path that is one are dropped with a warning. Parameters of one name in two places share a schema, headers of two statuses too; a
component that is only a reference becomes an empty object; QUERY operations lose
their server. Comparison: changes of schemas, bodies and responses are not seen; an
added required body is not breaking. Arazzo: a second cookie replaces the first; `:id` is
replaced inside `:idx`; `$inputs.a.b` is exported as an output of step `a`; failure actions, disabled
steps, teardown and conditions are dropped by export in silence. RAML: methods without a value,
bodies without a type, `User[]`, unions, ancestors' parameters and properties beside a
type's name are lost in silence, though `packages/adapters/raml/src/index.ts` says that warnings
are never dropped. Postman: authentication of an item is never used though `auth.ts:18` says that
it takes precedence; folders' authentication and variables are lost. HAR: an
entry without a method throws. Java: a mapping that no public method follows is dropped
without a diagnostic. Datasets: blanks inside quotes are trimmed, equal headers keep the
last, rows are split at line feeds only.

**Access and registry.** Service-account tokens are verified nowhere. A runner is registered by
two commits, so a crash leaves one without a token; a heartbeat between the statements of a
deletion makes it fail and leaves a runner without a token; a heartbeat makes a draining runner
online again, and the lease never looks at the status. Environment versions are listed with
their references to secrets, though the service's header says placeholders. A policy's
condition `methods` never matches the key `method`.

**Pages.** Workflow editor: two workflows opened one after the other and answered in the other
order show the steps of one under the id of the other, and saving puts them there; a save
answered after switching does the same to versions; polling of a run writes into the
workflow that is open by then; diagnostics of a publication are never shown because
the client throws on 422. Environment page: a list that arrives while the dialog is open
wipes what was typed, and a retry creates a second environment. All of
this can happen in the models; what `EditorIsFaithful` claims holds in spite of it, and it
does not claim that a saved version belongs to the workflow that was edited.

## 8. What is not modelled

- Contents that no property tells apart: hashes, canonical JSON, ciphers, names, formats of
  text, wording. Where a comparison of contents decides something, its outcome is
  modelled (`AlreadyDone` compares a result's hash: a lease has one result, so tokens decide).
- Time, except as lapses, expiries and clocks that advance: neither 30 s, 8 s nor 5 s.
  So "a poll is shorter than a minute" is a premise of `DueIsDispatched`, not a result.
- Read-only endpoints, the verification of stored evidence, metrics and health; the object
  store, whose failures are those of a statement.
- Read locks and isolation beyond row locks: every statement is atomic and reads
  committed data, as PostgreSQL's READ COMMITTED, which the code uses, gives it.
- The conversation of the AI worker's child with its model.
- What a service account's token could be used for, since no route accepts it; the detection
  of a format by its first lines.
- The pages of the web application that show queries; the hermetic fixture server and the
  scripts that test the product.

## 9. Plan

Done, in this order: `RunLease` (refines `RunDispatch`), `GenerationQueue` (refines
`JobQueue`), `ScheduleDispatch` (refines `CronDispatch`), `PlanQueue` (refines `JobQueue`),
`PlanReview`, the chain from `WorkflowCompiler` over `PlanExecutor` and `WorkflowRun` to
`RunClient`, `Startup`, `TestAuthoring`, `VersionedAssets`, `Access`, `RunnerRegistry`, the
importers and other pure functions, the two pages; and the proofs of section 6.

Left:

1. An abstract specification of evidence, from the events of an execution to the report,
   that `RunLease` and `WorkflowRun` both refine, in place of the agreement of their texts;
   stated with functions of positions instead of `SelectSeq`, it would be within the
   provers' reach.
2. What the editor does claim of the workflow that is open: which of the overlaps of
   section 7 one comparison of ids in the store would exclude.
3. The same rewriting of `EditsAreExact`, whose other half is proved.
