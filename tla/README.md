# A TLA+ model of EvalForge AI

EvalForge runs a suite of evaluation cases against a version of an LLM
application, stores one trace and a set of scores per case, compares two runs
statistically and gates a deployment on the result.  This directory models the
parts of it whose correctness depends on order, on failure, or on arithmetic at a
boundary.  Paths below are relative to `src/backend/app/` unless they start with
another directory.

## 1. Inventory

### Asynchronous run execution (`services/run_dispatcher.py`, `workers/`)

State: the `EvalRun` row (status, completed and errored counters), its
`EvalRunItem` rows (status, `worker_task_id`, `lease_expires_at`), their `Trace`
and `EvalResult` rows, the broker's messages, the chord's collected results.

Operations: `dispatch_run` creates the rows in one commit, submits a Celery chord
(one `run_eval_case` per item, `check_run_completion` as its body) and undoes the
run when submission fails.  `run_eval_case` claims its item with a conditional
UPDATE, clears what an earlier attempt left, calls adapter and evaluators, commits
item, trace and results, recounts the run's progress; on an exception it retries
or marks the item errored.  `check_run_completion` counts terminal items and
writes the run's final status.

Hard: late acknowledgement (`task_acks_late`) means a task may run again after the
death of its worker node and, with a lost broker connection, while it still runs, but
not after the death of its pool process alone: `task_reject_on_worker_lost` is set
nowhere, so such a task is acknowledged and failed.  A worker may die between any two
commits; retries, leases, hard time limits, a chord that calls back once or never.

Correct when: an item settles once, a completed item and only it has its
evidence, progress never overstates, a finished run has no open item and carries
their verdict, and a run always finishes.

### Synchronous run execution (`services/run_executor.py`, `api/runs.py`)

State: the same rows, all in one transaction that is committed at the end.
Operations: `execute_run`, `dispatch_run_sync`, selection and validation of cases.
Hard: a failure between the counter's increment and the rest of the case's work.
Correct when: each case ends completed or errored, the counters are those of measured
and of errored cases (one that raises after it was counted as completed is in both), the
status agrees with the items, and a completed case has its evidence.

### Comparison and gate (`services/comparison.py`, `services/statistics.py`, `services/ci_gate_report.py`, `cli/gate.py`)

State: none of its own; reads two finished runs, writes a `Comparison` and a
`RegressionReport`.  Operations: pair the samples of both runs, bootstrap
confidence intervals, apply the gate rules in order, render the CI report.
Hard: boundaries of tolerance and confidence interval, metrics with no paired
samples, which of several rules decides, what the report derives again.
Correct when: the verdict is the worst of the rules', no rule is lost, and the CI
report and exit code follow the stored verdict.  `services/flakiness.py` classifies
repeated scores of a case; no operation of the gate reads its result.

### Organisations and members (`api/organizations.py`, `core/tenancy.py`)

State: `Membership` rows (user, organisation, role).  Operations: create an
organisation, add, update and remove members.  Hard: each operation reads
its principal's role, the member, and the number of owners in separate statements,
without locks, and then writes.  Correct when: an organisation keeps an owner and
only owners make owners.

### Authentication (`api/auth.py`, `core/auth.py`, `services/authentication.py`)

State: `User` (password, failed attempts, lock), `AuthSession`, `PersonalApiKey`.
Operations: bootstrap, login, logout, change password, switch organisation, create
and revoke keys, authenticate a request.  Hard: concurrent logins share a counter,
locks expire, sessions are created while others are revoked, memberships go away
under a session.  Correct when: failures are all counted, a revoked or removed
credential is never accepted again.

### Registry (`api/apps.py`, `api/suites.py`, `api/evaluator_configs.py`, `api/gate_rules.py`)

State: apps, versions, suites, cases, evaluator configurations and gate rules of each
organisation.  Operations: create one (find the parent, validate, look the name up,
insert, commit), import cases, list page by page, get one.  Hard: the name is looked up
and inserted by two statements, with a unique constraint behind; an import flushes case
after case before it commits; rows become visible in another order than their
`created_at`; any id may be named by anyone.  Correct when: names are unique, nothing of
one organisation is stored under or shown to another, an answer says what happened, an
import is whole or absent, paging misses nothing.

### Evaluators and adapters (`evaluators/`, `adapters/`)

Pure scoring of one answer and the call to the application under test.  A failing
evaluator becomes an `errored` result of its case.  Hard: zero and negative
thresholds, empty texts, an exception in the middle of a list of evaluators.
Correct when: a case has a result for every evaluator, whichever raised, and a score is
in [0, 1].

### Dashboard (`services/dashboard_aggregation.py`, `services/dashboard_snapshot.py`, `api/dashboard.py`, `frontend/src/`)

Read-only aggregation, and a React client that loads it.  Hard: samples and failures
are derived again by other code than the gate's.  Correct when: what is shown
explains what was gated.

### Evaluation cycles (`cli/run.py`, `cli/seed.py`, `frontend/src/App.tsx`, `frontend/src/api/client.ts`)

State: what each command line or console has found, started and is waiting for; the
console's snapshot and a refresh on its way.  Operations: find or create a project,
start a baseline and a candidate run, poll each until it ends or a deadline passes,
compare, report; refresh.  Hard: clients run beside each other, beside users who import
cases between the two runs, and beside workers that may never finish; the command line
holds an uncommitted gate rule over a run; answers are applied in the order they
arrive.  Correct when: what is compared is comparable, a success that is reported is
stored, every cycle ends, and what it then shows is no older than its own comparison.

### Support

Calibration study (`calibration/`, `services/calibration.py`), caches
(`services/adapter_cache.py`, `services/embedding_cache.py`), cost simulation,
configuration, logging, metrics, health checks and database session handling.

## 2. Modules and plan

| Module | Models | Built on |
|---|---|---|
| `RunLifecycle` | what any executor promises: items settle once, a run ends with their verdict | |
| `WorkerRun` | dispatch, Celery tasks, chord, callback, faults | implements `RunLifecycle` |
| `Evaluators` | the ten evaluators and the engine, as operators | |
| `SyncRun` | the in-process executor | extends `Evaluators`, implements `RunLifecycle` |
| `Gates` | verdict of one metric, accumulation over rules, exit decision | |
| `Comparison` | sampling, pairing, bootstrap, the loop over rules, the CI report | extends `Gates` |
| `Dashboard` | what the dashboard derives again from runs and report | extends `Comparison` |
| `Membership` | concurrent membership requests | |
| `Credentials` | logins, sessions, API keys, the password | |
| `Registry` | concurrent creates, imports and listings of two organisations | |
| `EvalCycle` | command line, console and API users around runs and comparisons | abstracts `WorkerRun`, `SyncRun`, `Comparison`, `Dashboard` |
| `MC*` | constants of the TLC instances | the module they are named after |
| `*_proofs` | theorems | the module they are named after |

`RunLifecycle` is the abstract specification both executors implement, so what a
reader of a run may rely on (comparison, dashboard, command line) does not depend on
`run_mode`.  `Comparison` takes any finished runs, items marked errored that kept
measurements and results among them: duplicate delivery, an undone submission and a late
exception of the in-process executor leave such items.

`EvalCycle` is the composition: a run is what `RunLifecycle` promises (it starts and
may finish), a comparison is what `Comparison` accepts and stores, the console loads
what `Dashboard` derives.

The order was: the asynchronous executor, because everything else reads what it
writes and because its failures are the ones no test reaches; the gate, because it
is the product's decision; the components whose state several requests share
(members, credentials, registry); the in-process executor and the evaluators; the
dashboard; the clients that drive the rest.

What could follow: calibration and cost simulation as operators, against reference
definitions.

## 3. Modules and code

### WorkerRun

One worker executes `run_eval_case` in the steps `get`, `claim`, `clear`, `call`,
`count`, `write` (inside the `try`), then `final`, `mark` (the exception path),
`return`, `retried` and `acking`.  A step is what lies between two commits or two
statements that other processes can see between; adapter and evaluators are one step
that ends in `CompleteItem`, `FailTransient` or `FailPermanent`.  The soft time limit
is an exception like any other and is one of the failures.  `TaskFailure` is what Celery
itself fails and acknowledges: the hard limit, a lost pool process, an exception in the
handler; `failedTasks` remembers it as the result backend does.  `NodeCrash` takes the
consumer with it, and the broker redelivers.

- An item's task id is the item: `run_eval_case.s(...)` keeps its id over retries
  and redeliveries, which is why `_claim_run_item` lets a second delivery in.
- `lease` is `none`, `live` or `lapsed`.  It lapses (`LeaseLapses`) at any time at
  which no worker executes its item: 240 seconds of `TASK_LEASE_SECONDS` outlast the
  180 of the hard limit.
- `evidence` is trace and results together, since one transaction writes both.
  Latency, cost and attempt counters are left out; the statuses `timed_out` and
  `cancelled` are never written by the code.
- The progress update is two steps, the snapshot it counts in and the write.
- The chord counts header results until it has one per item, then publishes the
  callback once.  Redis keeps parts as a set of encoded (task, result) pairs, so the
  same result twice is one part, a different one (`already_completed` after
  `completed`) is two.
- Broker, chord and process pool are external: what they do follows from
  `task_acks_late` without `task_reject_on_worker_lost`, prefetch 1 and the two limits.

### RunLifecycle

`Start`, `Settle`, `Finish`, `Abort` over a phase and one outcome per item.  Its
fair version requires that a started run ends.

### SyncRun and Evaluators

`execute_run` is `CreateRun`, then `BeginCase` and `CompleteCase`, `FailCase` or
`FailCaseLate` per case, then `Commit`; all rows are the transaction's until then, and
`Lose` is its rollback.  `FailCase` is an adapter that raises; `FailCaseLate`, an exception
after `completed += 1`, which leaves the measurements, perhaps the trace and some first
results, and counts the case a second time.  `measured` are the items with a recorded
latency and cost.  Cases are taken in any order (the code's order is of creation times,
which the model does not have).  Rejections (`ResourceNotFoundError`, different
apps, duplicate or foreign case ids) are one action.

A text is the sequence of its tokens; "a phrase occurs in an answer" is that some
token of it contains the phrase, given by the constant `Within`.  Scores are
fractions.  F1 of overlap *o* and sets of *a* and *b* tokens is 2*o* / (*a* + *b*),
which the code's floating-point expression equals for the sizes checked; see the
hazards for where it does not.  The entailment and the embedding model are
constants that may also raise: `embedding_similarity` embeds both texts before it looks
at either, and only the empty text (here: the one without tokens) needs no model.  An
evaluator's exception is its errored result.

### Comparison, Gates and Dashboard

A run is a status, an origin (suite, app and evaluator configuration, which must
agree) and its items.  Deltas are integers: percentages, milliseconds and cost
units times `Scale` = 600, which every mean of up to three samples and every
percentile weight divides; the rounding to six digits is left out.  `Percentile95`
interpolates as `percentile` does.  The interval: the code draws 1000 resamples
with seed 42 and takes the order statistics 24 and 974.  For one to three pairs each
of the resamples (up to 27, most of them permutations with equal statistics) is drawn
at least 26 times with that seed, so the two order statistics are the least and the
greatest estimate over all resamples.  For more pairs they are some two estimates, in
order, and `Intervals` lets them be any two; `Exhaustive` = 3 is where one ends and the
other begins.  A report is therefore any member of `MetricReports`, and what is proved of
it holds for every number of cases and every seed; the runs have up to three cases, so in
them the report is determined.

`ApplyRule` is one iteration of the loop of `apply_gates`; `Store` commits;
`BuildCiReport` derives the report again and is the CI job's green or red exit
(`cli/gate.py`); `CiJobFails` is the job that is answered with an error at any other
moment.  Missing runs and rule books are part of
`Reject`.  `Dashboard` adds operators only: run rows, failure list, pages and tags,
computed from the same rows by the other file's conditions.

`semantic_similarity` and `token_f1_overlap` are two names of one evaluator and may both
be configured.  `ScoreSample` is the gate's choice, any of them that gave a score (they
give the same one); `DisplayScore` the dashboard's, `token_f1_overlap` if it has a result of
whatever outcome.  An item is errored by its status and not by what it lacks: the statuses
`timed_out` and `cancelled`, which the same conditions name, are set nowhere.

### Membership and Credentials

One action per SQL statement a request sends, under READ COMMITTED: each statement
sees what is committed when it runs, and a row locked by another transaction is
waited for.  In `Membership` the principal's role, the member's role and the number
of owners are read by three statements and the write follows; `MaxUpdates` bounds how
many of the concurrent requests update or remove.  In `Credentials`, `login` holds the
user's row from its `SELECT ... FOR UPDATE` to its commit; `change_password` takes the
same lock when autoflush writes the password before the sessions are listed
(`ChangeLock`), which is what orders it against logins.  An inserted session takes only
a key-share lock (`MayReference`), so `switch_organization` is not ordered against a
password change: `ChangeRevokesLogins` is stated of logins.  Passwords are compared,
not hashed; `locked_until` is none, ahead or past; expiry is a step of time.

### Registry

A request is `Begin` (`require_role`), `FindParent` (`_tenant_app`, `_tenant_suite`),
`CheckName`, `Insert`, `Commit`, `Respond`, or `ImportCase` per case, `Commit` and
`Respond`; validation
happens where each handler has it, before the lookup of the name for a version, after
it for a configuration or gate rule.  An `INSERT` waits for a transaction that has
flushed the same key (`HeldByAnother`) and fails when that commits; the handlers do not
catch the `IntegrityError`, so the loser of a race is answered 500 instead of the 409 it
would have got a moment later.  `Respond` is what follows the commit, the refresh and the
answer: should either fail, the request is `failed` and its row stays.  `Fail` is any other
failure before the commit, and rolls back.  `created_at` is the value of `clock` at the flush.
A reader notes what there is (`get_eval_suite_summary`) and then lists page after page;
cases are listed oldest first, everything else newest first.  Listings are consistent with
`READ COMMITTED`: each page is a statement of its own.  A configuration's content is the
set of the paths of its keys, which is what the search for inline secrets looks at.

### EvalCycle

A project is an app with its suite, versions and configuration; the command line finds
each of these by name alone, in any organisation, so that `LookUp` may mix projects and
`Runnable` then refuses.  `gateKey` is the gate rule `default-gates` of the default
organisation, whose uncommitted insertion makes another command line wait.  `Dispatch`
and `Execute` are the two run modes; `Finish` is the workers'; `GiveUp` is the deadline
of the client that polls.  `Die` ends a cycle at any step and rolls back what it had not
committed.  The console shows what `Load` or a refresh brought; `floor` records how new
the snapshot was when the refresh was asked for.

## 4. Runs

| Run | Instance | Shows |
|---|---|---|
| `worker_safe` | 2 items, 2 workers, 2 retries, 2 faults of node crash, API crash, task failure, callback error | with one live delivery per item, items settle once, evidence is of completed items, progress never overstates, `RunLifecycle` is implemented |
| `worker_duplicates` | 1 retry, 2 faults of lost connection, partial submission, task failure, node crash anywhere | what survives duplicate delivery: settled items stay settled, counters stay in bounds, only settled runs finish, and an open item has a message, an execution or a failed task on record |
| `worker_exact` | 2 retries, 1 node crash before the header result, fair | every run ends, final status and counters are the items' |
| `worker_duplicate_delivery` | lost connection | **violated**: a redelivered running task passes the lease, and a completed item is marked errored with its evidence in place |
| `worker_stuck_run` | task failure, or node crash before acknowledgement, fair | **violated**: the chord's callback never runs, or runs early and finds an open item; the run stays `running` |
| `comparison` | all pairs of runs of 2 cases of 8 kinds, and of 3 cases of 4 kinds; 6 rule books | verdict, CI report and CI exit tell the same story; the dashboard's run rows explain the gated deltas; equal samples pass; a failing metric of matched cases did regress; faults never improve the pass rate; failure pages and tags account for the cases |
| `membership` | 3 users, 3 requests, 1 update at a time | the organisation keeps an owner, only owners make and unseat owners |
| `membership_last_owner` | 2 updates at a time | **violated**: both owners are unseated |
| `credentials` | 2 passwords, 2 tokens, 1 key name, 3 requests, lock after 2 failures | failures all count, logins are current, a change reaches concurrent logins, ended credentials stay ended |
| `sync_run` | 3 of 4 cases, 5 outputs, 5 configurations | a stored run is whole and its counters are exact, scores are in [0, 1], `RunLifecycle` is implemented |
| `registry` | 2 organisations, 3 requests of 11 kinds, one reader with pages of 1 | names are unique, tenants are isolated, answers are true, imports are whole, paging misses nothing |
| `eval_cycle` | 2 clients of 4 kinds, 2 projects of one name in 2 organisations, 1 import, 1 console, fair | comparisons are comparable, reported success is stored, every cycle ends, a snapshot is no older than the comparison it follows |

Each violation is a finding with the sentence of the documentation it contradicts.

Bounds.  Two items are the least for which one can be open while the callback
counts the other; two workers the least for two executions of one item; two faults
let a second one hit the recovery from the first.  Three cases give the percentile
an interior point and let two cases disagree about a third; the kinds of item differ
in each condition the collectors test.  Three requests let one act between two steps
of a second while a third has just read.  Two failures replace the five of
`MAX_FAILED_LOGIN_ATTEMPTS`: the counter is compared with the bound and reset, nothing
else.  In `Registry`, two requests race for a name while the third
commits between two pages of the reader, and a page of one row makes every boundary a
page boundary; cases (oldest first) and versions (newest first) are the two orders.  In
`EvalCycle`, two cycles are the least for a key to be waited for, for one comparison to
replace another on the console, and for an API user to compare another's runs; one
import is enough to tell the two runs of a cycle apart; one refresh is in flight at a
time.  Five adapter outputs put latency and cost at, just above, at twice and beyond
twice the threshold.

Deadlock is not checked where a behaviour really ends (a finished run, a stored
comparison, exhausted tokens, ended cycles); `Membership` never ends and is checked, and
so is `Registry`, which may stop only when every request is answered.

Fairness is used in `worker_exact`, `worker_stuck_run` and `eval_cycle`.  In the first
two: weak fairness of a
dispatch that has begun, of each worker's next step, of the callback in progress and
of the delivery of a queued message to some worker.  A process that is alive executes
its next statement, and a consumer that is idle asks the broker for messages; nothing
is assumed of leases, faults, or of which message comes first.  In `eval_cycle`: weak
fairness of each client's next step, which includes its deadline (`_poll_run_status`,
`waitForTerminalRun`) and an `INSERT` whose key is free; neither workers nor users nor the
console's refresh owe anything.

Disagreements met while modelling that have no run of their own:

- An evaluator name with spaces around it passes `validate_evaluator_config`, which
  strips it, and is unknown to the engine, which does not (`docs/api.md:159` says an
  unknown name is rejected).
- A metric sampled in other cases of one run than of the other has its interval over
  the paired cases and its point over all: it may fail although its point is within
  tolerance (`docs/eval-metrics.md:131`).  `FailMeansRegressed` is stated of the others.
- `excluded_from_gate` of a flakiness analysis is returned to the caller and read nowhere.
- An import is not idempotent: a client that repeats one whose answer was lost stores the
  cases twice.
- A create request whose refresh fails after its commit is answered 500 and has its row; a
  client that repeats it gets 409.
- A case of the in-process executor that raises after `completed += 1` is in both counters,
  so they may add up to more than the cases.
- With `semantic_similarity` and `token_f1_overlap` both configured and only the first
  giving a score, the gate compares the score and the dashboard's run rows leave it out.
- An errored item that kept the passing results of another execution is listed as a
  failure, and counts as passed in the pass rate that is gated.
- A refresh that was answered before an evaluation ended, and arrives after it, replaces
  the newer snapshot; `SnapshotsAreCurrent` only bounds it by what was shown when it was
  asked for.

## 5. Proofs

All for every number of items, workers, retries, faults, cases, rules, users and
requests.

- `WorkerRun_proofs`, under every fault: `TypeOK`; `SettledStaysSettled`, from the claim's condition and
  from what each step may overwrite; `FinishedRunIsSettled`, from
  `FinalisesSettled`, which adds that a callback about to finish a run has counted
  items that are still settled; `CountersBounded`, from `BoundedInv` (each count is of
  one snapshot, in which no item is both completed and errored); `NoLostItem`, from `KeptInv`
  (a task only returns once its item has settled, and a running item is owned by its own
  task, so that no redelivery of it is refused): but for the tasks Celery has recorded as
  failed, whose items nothing takes up again, as `worker_stuck_run` shows.
  Under `OneDelivery` (no redelivery of a running task, no
  crash between publishing a retry and acknowledging, no partial submission) `UniqueDelivery`,
  `TerminalItemsFinal`, `EvidenceMatchesStatus`, `CountersNeverAhead` and the refinement of
  `RunLifecycle`.
  `UniqueDelivery` is not inductive by itself: `DeliveryInv` adds which item statuses
  each step of an execution can meet.  The refinement also needs `VerdictInv`: the tally
  a callback carries has the verdict of the items.  `worker_duplicate_delivery` shows that the
  assumption is needed.  `CountersNeverAhead` follows from `BehindInv`: what a worker or
  the callback has counted, and what the run shows, is no more than the items, whose
  settled sets only grow.  `FinalRunIsExact` needs `ExactDelivery` (moreover no task failure,
  and no node crash between recording a header result and acknowledging): by `ExactInv` the
  chord's parts are of different items that nothing will touch again, so as many parts as
  items mean that no worker can write the run after the callback.
- `RunLifecycle_proofs`: a finished run's phase agrees with its outcomes, so it does
  for every implementation.
- `Comparison_proofs`: of one metric, a verdict of `fail` is one-sided and a larger
  tolerance never makes a verdict worse; accumulation computes the worst.  From these,
  `VerdictIsWorst` and `CiReportAgrees`, with the loop invariant `LoopInv` (verdict and
  reasons so far are those of the rules so far); it leaves the report arbitrary, so neither
  depends on the bootstrap.  The other properties add
  `ReportInv` (what is gated is a report of the two stored runs), and arithmetic over cases:
  - `RunRowsExplainDeltas`: the dashboard's pass condition is the collector's, and unless
    the alias alone scored a case so is its choice between the two scorers (`SameScore`).
  - `SameSamplesPass`: equal samples give every resample the same statistic, so all
    estimates are 0 (`NoDelta`); it needs that a percentile exists (`OrderedExists`).
  - `FailMeansRegressed`: of metrics with up to `Exhaustive` cases, the sample itself is one
    of its resamples, so the point lies within the interval (`PointWithin`).
  - `FaultsNeverImprovePassRate`: a fault can only lower the sample of its case, if it
    changes it at all (`NoCaseBetter`), and an average is monotone in its samples (`AverageMonotone`).
  - `TagsAccountForFailures`: the pages joined are the failure list (`PagesJoin`,
    `FlattenSteps`), the failures counted per tag add up to its length (`SumOfParts`,
    `TraceCasesCount`), and rounding a failed share down never shows a tag worse than its
    executed and passed cases (`PassedDidNotFail`, `ShareRounds`).

  The community modules fold with a recursive function that `CHOOSE` introduces, so that
  it exists has to be shown: `PartialSums` builds it size by size, and `SumIsPartialSum` says
  that `SumFunction` is its last value (`FlattenSteps` does the same for `FlattenSeq`).
  Induction is over sets of naturals instead of predicates (`SetInduction`): one with 0 and
  every successor is `Nat`, because its complement has no least element.
- `Membership_proofs`: `TypeOK`, `GrantsByOwners` without restriction
  (`PrivilegeInv`: a request about to write has passed its role checks); with
  `MaxUpdates` = 1, `OwnerRetained` and `OwnersUnseatedByOwners` (`SerialInv`: what the
  one update read is still so).
- `Credentials_proofs`: `TypeOK`, `AttemptsCounted`, `LoginsAreCurrent`,
  `ChangeRevokesLogins`, from `CredInv`: who holds the row lock, what it has read is
  still so, every issued login session is in the list a password change works from.
  `CredentialsEndForGood` uses that what a request has drawn is not yet issued.
- `SyncRun_proofs`: `TypeOK`, `StoredRunIsExact` and the refinement of `RunLifecycle`,
  from `SyncInv` (rows by status, the counters as the cardinalities of the measured and the
  errored cases, phases).  `ExactMeansFullOverlap` and `ScoresInUnit` from `Evaluated`: the
  results a case has are the first ones, or all, of what its payload, its output and the
  configuration give.  What remains is then about the evaluators as operators: every one of the ten
  grades in the unit, and texts that are equal have full token overlap.
- `Registry_proofs`: `TypeOK` together with what a request has established when it
  reaches a step (`TypedFlow`: its parent was found in its organisation, and rows are never
  deleted); `NamesAreUnique`, from `KeyInv` (a flushed row shares its key with no committed and
  no other flushed row); `TenantIsolation`, from `Owned` (what is flushed, committed or
  shown hangs under the organisation of the request or reader).  `AnswersAreTrue` and
  `ImportsAreWhole`, from `Accounts`: for each request, what its step and its answer say of
  the rows and the cases that are stored.  `ReadersMissNothing`, from `TimesDiffer` (no two
  things are flushed at one time, so a listing is a total order) and `ReaderInv` (of what was
  there at the start, everything that now ranks below the reader's offset was shown; a commit
  between two pages can only raise ranks).
- `EvalCycle_proofs`: `ComparisonsAreComparable`, `OutcomesAreTrue` and the action property
  `SnapshotsAreCurrent`, from one invariant, `IInv`.  A comparison compares runs of other
  clients that may be lost at any step, so `Stage` says what each step of a client implies of
  its runs, its comparison and the key; `ProjectsBegun` and `RunsAgree` that a run's parts lie
  in its organisation, which a client's project has only once its cycle has begun;
  `ComparedRuns` that what was comparable still is; `ConsoleInv` how new the snapshots are
  that the console shows, a refresh carries and a client is about to apply.  Each action is
  first shown to be a `CycleStep` of one client, and then each part is kept by every such
  step.

The invariants of `Comparison`, `Registry` and `EvalCycle` were checked by TLC on the
components' instances before they were proved.

What the theorems assume of the constants is the `ASSUME` of each module.  Beyond types
these say: of `Comparison`, that a rule book names a metric once, as a JSON object does; of `Registry`, that the rows at the start
satisfy the foreign keys and unique constraints of the schema, were created before it, and
that rows of one kind and parent were created at different times (a tie would leave their order
to the database); of `SyncRun`, that the entailment model answers a probability and the embedding
model a number for the texts it can embed; of `EvalCycle`, that default organisation, projects and clients
are told apart.

Two proofs corrected the model.  The cases of `EmbeddingSimilarity` overlapped when there
was no expected text and the answer was empty, so that what it returned was left open; it
now follows the order of the code's early returns.  And a report was determined for any number of pairs,
which the bootstrap is not; `Intervals` replaces that.

Checked by TLC and not proved: liveness (`RunEventuallyFinished`, `LifecycleFairSpec`,
`CycleEnds`), which the prover does not reach.

## 6. Not modelled

- Adapters: network calls; any output or exception may come of them.
- Flakiness: its classification has no effect on any modelled state.
- Caches: no run path calls the adapter cache, and the evaluators embed without the
  embedding table.
- Calibration study and cost simulation: arithmetic on fixed input, called by an offline
  study and by tests.
- Demo snapshot: fixed data.  A console that falls back to it is in `EvalCycle`.
- The dashboard's metric and rule rows: they repeat the stored reasons, as the CI report
  does.
- An exception while the asynchronous executor's transaction adds its results: it rolls back,
  and is one of the failures.
- Views, labels, markdown and command-line arguments; configuration, logging, metrics and
  health; request schemas and migrations, except for the constraints the modules meet.
- An asynchronous run of no cases (an empty `case_ids`) is never finished by the
  code; the instances of `WorkerRun` have items.
- Bootstrap of the first user and creation of an organisation are initial states.
