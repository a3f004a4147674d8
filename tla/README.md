# Skill Factory in TLA+

Models, model-checking runs and machine-checked proofs for the Skill Factory: a
local control plane that imports, creates, evaluates, promotes and rolls back
versioned agent skills. Every definition is translated from the Python and SQL of
this repository; `PROJECT.json` maps each to its lines.

## The system

| Part | Code | State it keeps |
|---|---|---|
| Job queue and workers | `main.py` (`queue_job`), `migrations/0002, 0003`, `workers/main.py` | rows of `jobs`; the attempt each worker process is at |
| Production releases | `services.py` (`promote`, `rollback`), `migrations/0002` | `releases`, `skill_versions.status` and `promoted_at` |
| Evaluation and release gate | `services.py` (`EvaluationService`), `gating.py`, `main.py`, `migrations/0004, 0005` | `eval_datasets`, `eval_cases`, `eval_runs`, `eval_gate_decisions`, `skill_versions.status` |
| Package registration | `services.py` (`_store_import`), `artifacts.py`, `workers/main.py` | the artifact bucket; `skills`, `skill_versions`, `sources`, `skill_lineage`, `audit_events` |
| Package normalizer | `artifacts.py` | none |
| Benchmark runner | `benchmark.py`, `services.py` (`_run_codex`) | `eval_runs`, `eval_case_results`, evidence directories, temporary roots |
| Engine adapters | `adapters/`, `workers/main.py` | workspaces of a job's attempts, the external program of each |
| Executions, evidence, listing, export | `main.py`, `phoenix.py`, `repository.py` | single rows |
| Workbench | `apps/web/app/page.tsx` | what one browser page shows |
| Settings, doctor, migration script | `config.py`, `scripts/` | none |

The workbench and other clients call the FastAPI process; it and the workers call
Supabase (tables through PostgREST, artifacts through Storage) over HTTP. Almost
everything concurrent meets in the database, one HTTP call at a time, each with a 30
second timeout. A function of a migration is one transaction; a sequence of calls is
not. Beside it there are the programs the system starts: the Codex processes of a
benchmark and the engine of an authoring job, which share directories and can outlive
whoever started them. What is hard is therefore

- requests that interleave between two calls (evaluations, registrations, `queue_job`);
- transactions that interleave between two statements (promotion and rollback);
- workers that die, are stopped, or are overtaken by the expiry of their lease;
- calls that fail although the database executed them, and multi-call operations that
  stop half way;
- waiting: row locks that deadlock, jobs and runs that must be closed by somebody;
- programs that overrun, leave children holding their output, or survive their worker.

`PROJECT.json` lists these hazards line by line with the properties that watch them.

## Modules

| Module | Models | Proofs | TLC instance |
|---|---|---|---|
| `JobQueue` | the queue, its requests and its workers | `JobQueueProofs`, `SingleWorkerProofs` | `MCJobQueue` |
| `JobBoard` | what the queue promises to callers (abstract) | in `JobQueueProofs` | through `JobQueue` |
| `Releases` | promotion and rollback, statement by statement | `ReleasesProofs` | `MCReleases` |
| `ReleaseLedger` | what those transactions promise (abstract) | in `ReleasesProofs` | through `Releases` |
| `Evaluation` | evaluations, datasets, cases, the gate | `EvaluationProofs` | `MCEvaluation` |
| `Registry` | package registration over bucket and tables | `RegistryProofs` | `MCRegistry` |
| `SkillFamily` | what the registry promises to readers (abstract) | in `RegistryProofs` | through `Registry` |
| `Benchmark` | the cases, roles, evidence and rows of a run | `BenchmarkProofs` | `MCBenchmark` |
| `Comparison` | what a run promises, without blinding (abstract) | in `BenchmarkProofs` | through `Benchmark` |
| `Engines` | an attempt at an authoring job and its program | `EnginesProofs` | `MCEngines` |
| `Delivery` | `Evaluation` and `Releases` over one status column | `DeliveryProofs` | `MCDelivery` |

How they fit: `JobQueue` takes the outcome of an attempt and of its registration as
given; `Engines` is what happens between `OpenWorkspace` and `Register` there, and
`Registry` is `Register`. `Evaluation` takes the rates of a benchmark as given;
`Benchmark` is what happens between `CreateRun` and `Succeed` or `BenchmarkRaises`.
`Releases` leaves statuses to its environment (`SetStatus`); `Delivery` puts the
evaluations there.

Definitions whose comment begins with "Mutant:" are plausible faults of the code. They
are used by no specification; substituting one for the definition it stands beside
shows that a property can fail.

### JobQueue and JobBoard

`jobs` holds the rows, in the order of `created_at`; `requests` the callers of the
`POST /jobs/...` routes; `workers` the processes of `workers/main.py`; `registered` the
attempts whose package became a version; `lateCalls` and `latePosts` the calls that were
given up and may still be executed. `queue_job` is `Submit`, `Lookup`,
`CreateJob`, `AuditQueued`: lookup by key, insert (where the unique index on the key
decides), audit event. `run_once` is `Claim` (the whole of `claim_next_skill_job`),
`OpenWorkspace`, `Register` or `BodyFails` (the try block up to a registered version),
`FinishSucceeded`, `FinishRefused`, `FinishFailed`, `RecordInterrupted`.

- `Crash`, `Stop` and `CallFails` may hit a worker in any call, `RequestFails` a caller of
  `queue_job`. The database has then executed that call (`Perform`, `Post`), never will,
  or, with `"late"` in `Faults`, does so at any later time (`LateCall`, `LatePost`): a claim
  nobody works on, an outcome or a job written behind the back of everyone. A stop or an
  exception is handled only inside the try block (`InTry`), as in `run_once`.
- `created_at` is the start of the inserting transaction, so a row may come to stand before
  rows that were committed earlier (`Place`): only after those that were there when the
  insert was sent (`before`). The numbers that are left free are for inserts still under
  way.
- A lease is an abstract `live` or `expired`; `LeaseExpires` may happen at any time,
  because engines and leases have the same 300 seconds and nothing renews a lease.
- `skip locked`: a claim passes over a row only if another worker's call may hold it
  (`Contended`). The claim takes the oldest row otherwise.
- The key `""` is stored, unique, but falsy in Python: `EmptyKey` skips the lookup and
  is refused by the index the second time.

What a registration does inside is left to `Registry`.

`JobBoard` has no rows, leases, workers or faults. A job is posted once for a key, is
handed out while it is open, and is closed once, as succeeded only on a package of the
attempt that closes it; callers share a job only by its key. `Board` in `JobQueue` is the
mapping: a job is open while `queued` or `running`, a claim hands out the next attempt, and
a caller has an answer once `queue_job` has returned. Leases, logs, crashes and the calls in
between are stutters or invisible. A package may be delivered for a job that is closed:
a late worker registers before its finish is refused, and the board says so.

### Releases and ReleaseLedger

A call is `CallPromote`, `CheckPromote` (the check in `LifecycleService.promote`) and
then the transaction: `Begin`, `LockVersion`, `LockSkill`, `Supersede`, `Commit`, or
`Refuse`, `Abort`, `BreakDeadlock`. Variables hold committed rows; what a transaction
has superseded stays in its call (`mine`) until `Commit`. Row locks are variables; a
rollback takes the skill only, and its insert needs the version row through the
foreign key (`MayInsert`), which is how it can deadlock with a promotion. PostgreSQL
is modelled at `read committed`, from how the migrations use it, and marked external.
`SetStatus` is an evaluation writing a status, held back by a version lock.

`ReleaseLedger` is the promise: one production version per skill that changes only to a
version which passed at that moment, by an override, or back to a version already
shipped. `Ledger` in `Releases` is the refinement mapping: production is the active
row, shipped the versions of all rows.

### Evaluation

`RunOne` and `RunHoldouts` start an evaluation; then each await of
`EvaluationService.run` is one action: `ReadDataset`, `Lock`, `ListCases`,
`CreateRun`, `Succeed` or `BenchmarkRaises`/`FinishFailed`, `CollectRuns`,
`SurveyDatasets` (with `EvaluateGate`), `Decide`, `Mark`. `run_holdouts` takes its
datasets in any order, one after the other (`todo`). A benchmark is the pass rates it
ends with, in tenths, from `Scores`. `CollectRuns` copies rows (`seen`), and the gate judges
the copies one call later, whatever has become of the rows.
`CheckCase` and `InsertCase` are the two calls of `create_eval_case`. `Interrupt` is
the death of the process or a failing call outside the try block, `FinishLost` a lost
reply to the one `finish_eval_run` inside it. A write of a request that dies is made at once
or never here; that one may come later is modelled in `JobQueue` only. `cutShort` is a
history variable: the candidates whose last evaluation was interrupted before it wrote its
status.

### Registry and SkillFamily

A registration is named after its request, because each gets ids of its own; the
request also stands for the skill it may create, its version and its package. The
actions follow `_store_import` (`Put`, `CreateSkill`, `CreateVersion`, `CreateSource`,
`LinkSource`, `AuditImported`) and what a worker does around it: `ListVersions` before
a personalization, `CreateLineage` per parent and `AuditDerived` after. A version
number is a text: three numbers, written plainly or with leading zeros, which the pattern of
the API and of the table admits. Paths and rows hold the text, so `0.02.0` and `0.2.0` are
two versions; `Before` compares the parsed triples, and `NextMinor` is always plain. `CallFails` and `Crash` leave open
whether the call was executed. A retry is another request.

`SkillFamily` has no bucket, requests or calls: skills are founded under a free slug,
versions published under a free number with their package, descents added from older to
newer, and a registration reported only with all its parents. `Family` in `Registry` is the
mapping; the package of a published version is whatever the bucket holds at its path in
the state at hand, so that an object put there later would be a step no action of
`SkillFamily` allows.

### Benchmark and Comparison

`work` holds where the request of each run is and the results it has in memory; `roots`
the temporary root of each role of a case, with its process; `disk` the evidence
directory of a case; `runs` and `rows` the two tables. One action per await of
`_run_codex` and `run_case`: `Fetch`, `NextCase`, `Launch`, `Answers`, `DecideByChecks`
or `DrawOrder` or `RefuseCase`, `Grade`, `Keep`, `InsertRow`, `Finish`.

- `TimesOut` kills the role and goes to `drain`, because the code then waits for
  `communicate()`; what the role started may hold its output (`held`) until `Release`.
- The grader answers in labels (`Judgment`). `DrawOrder` decides what is shown as A and
  B, `NormalizeBlindVerdict` undoes it. `shown` is a history variable: what the prompt
  said, independent of the `order` kept beside it.
- `CallFails` is a failing call inside the except block's reach, executed or not; `Die`
  the end of the process anywhere, half-written evidence included.

`Comparison` has no labels, processes, files or calls: a case is assessed by its checks
or by an opinion on the two sides, and a run is reported with the tally of all its cases
or fails. `Open` is the mapping: a judgment on labels is read as one on what was shown
under them (`Unblinded`), a definition that does not use the code's order.

### Engines

Attempts at one job (jobs share nothing but the engines installed). `attempt` is what
the worker of each attempt does, `spaces` the `attempt-<n>` directories, `processes` the
external program of each attempt, `archives` the package it archived. `OpenWorkspace`,
`ExtractSource` per source, `WriteContext`, `CheckHealth`, then `RunFixture` or `Launch`
(staging and start), `Collect`, `Discard` or `TimesOut` and `Overdue`, `ReportFailed`.

- The program writes into its workspace as long as it, or what it started, is there
  (`EngineWrites`), also when its worker is gone and the job was taken again. What a program
  leaves behind may hold its output (`held`), for which the worker waits, or have closed it
  (`stray`), of which the worker knows nothing.
- `Stop` is the operator's: the `CancelledError` handler reports the job failed
  (`RecordInterrupted`, state `interrupted`) without waiting for the program and without
  logs. `Crash` is the end of the process without a report (`gone`); only then may another
  attempt follow while the program of this one lives on. After a stop the job is over, but
  the program may live on all the same.
- `Change` installs or removes an engine at any time, so also between the health check
  and the launch, which looks again.
- `Accepts` is what the `run` of each adapter asks of a job.

### Delivery

`Evaluation` and `Releases` with one `status`: the candidates of the former are the
versions of the latter. `Mark` is both `E!Mark` and `R!SetStatus`, so the last write of
an evaluation waits for the row a promotion has locked; the inserts into `eval_runs` and
`eval_gate_decisions` refer to the version and wait for it too (`RowFree`). All else is the
step of one part that leaves the variables of the other alone. `eval_runs` also refers to
the baseline, whose wait, of the same kind, is left out. In the other direction nothing
waits: each of these writes is a transaction of one statement.

## Runs

Deadlock checking is off in every run: all the systems may stop, with the queue empty
or the bound reached.

| Run | Instance | Shows |
|---|---|---|
| `queue_pool` | 2 workers, 2 callers, 2 jobs, 1 fault, late calls | attempts have one holder, success is backed by a registration, one key gets one answer, attempts and events are lost by faults only; implements the job board |
| `queue_single` | 1 worker, 3 jobs, 2 faults, fair | what only the one-worker deployment of the README has: last attempt ends the job and owns its logs, before a fault one registration per job and none of a failed one; every job ends if the worker does not stay in an engine for ever |
| `queue_stopped` | 1 worker, 1 stop | violation, see below |
| `releases_concurrent` | 2 callers, 2 versions and a second skill, 3 transactions | one production release, the row locks leave the unique index nothing to refuse, releases accountable, promotion on merit, append-only history, shape of deadlocks; implements the ledger |
| `evaluation_pair` | 2 evaluations, 3 datasets, 3 runs, 1 fault | runs are of locked data, a pass has evidence until a call fails, an evaluation heeds its own failure |
| `delivery` | 1 evaluation at a time and 2 callers over 1 version, 2 runs, 3 transactions, 1 fault, fair | production is earned by runs on record or an override; a passed version has no failing run, the status agrees with the decision, every run is closed; every evaluation ends, if its benchmarks come back, although three of its writes may wait |
| `evaluation_race`, `evaluation_late_case` | 1 or 2 evaluations | violations, see below |
| `registry_imports` | 3 registrations, 2 slugs, 2 faults | children are newer, done is complete, numbers are lost to faults only; implements the family of skills |
| `registry_orphan` | 2 registrations, 1 fault | violation, see below |
| `benchmark` | 2 runs that share a case, 2 cases, 3 judgments, 1 fault, fair | one role at a time, evidence and rows of one's own, the summary is the tally of the rows; a blind run implements the comparison that was never blind; every run ends |
| `engines` | 5 jobs, 2 attempts, 2 stops, 2 changes, fair | an attempt archives its own work only, engines fail closed, logs come before the report; every attempt reports |

Why the bounds suffice for the interesting cases:

- A conflict in any of the systems is between two actors over one row or directory. Two
  workers and one expiry let a late worker finish another's attempt; a third transaction
  (a first release, then two that conflict over it) gives the deadlock of a promotion
  with a rollback, in `releases_concurrent` and in `delivery`; three runs give
  functional, personal and a repeated evaluation.
- Two faults in `queue_single` let a fault hit the recovery of another. `MaxFaults = 2`
  in `registry_imports` lets one registration fail after its upload and another one
  that collides with it fail again.
- Three registrations are a skill, a derived version and a competitor for its number.
- `benchmark`: the run with two cases has one that must be decided by checks, so that it
  ends by checks, by grading and by refusal; the shared case lets evidence collide. The
  judgments are a winner under each label and a tie, with different pass decisions.
- `engines`: the second attempt starts while the program of the first lives on; two stops
  or deaths end both; two changes remove an engine and bring it back. The jobs are one of each
  external engine, one that engine cannot do, and an unknown one.
- `delivery`: a holdout run passes or regresses. `Reasons` leaves out the blank reason,
  which `releases_concurrent` has; an aborted transaction counts as a fault.
- `MaxJobs`, `MaxCalls`, `MaxRuns`, `MaxCases`, `MaxAttempts`, `MaxStops`, `MaxChanges`,
  `MaxFaults` only disable new jobs, calls, runs, cases, attempts, stops, changes and
  faults; they never cut a step of something under way (`planned` and `MayCall` reserve
  room for what has been started). `MaxCases` also stops `InsertCase`, whose request
  then just stays pending.
- Symmetry is over interchangeable processes and keys, in safety runs only.

### Fairness

What is assumed is what has a timeout in the code: a call to Supabase (30 seconds,
`repository.py:41`), the first wait for a program. Nothing is assumed of an engine or a Codex
process, or of the second wait after a kill, `communicate()` without a timeout
(`subprocess.py:35`, `benchmark.py:123`). Where a property needs those to end, it says so
as its hypothesis.

- `queue_single`: `WF` of starting a worker (the operator starts one that is down), of
  a worker's steps outside `working` (each is a call with a timeout) and of the expiry of
  leases (time passes). `EveryJobEnds` needs all three, since nothing else recovers a job,
  and has the hypothesis that no worker stays in `working` for ever: an engine whose output
  stays held makes a sole worker hang, and the queue with it. Requests are not fair.
- `delivery`: `WF` of the steps of an evaluation outside `benchmark`, its waiting writes
  included, and of a transaction's steps or its end by the deadlock detector.
  `EveryEvaluationEnds` has the hypothesis that no evaluation stays in `benchmark` for ever.
  With bounded calls no lock is taken for ever again, so that weak fairness is enough.
- `benchmark`, `engines`: `WF` of what the service does, timeouts among it. Roles and
  programs are under no obligation: they may never answer or exit. A process that a
  killed role or program left behind may hold its output for ever; `EveryRunEnds` and
  `EveryAttemptReports` except exactly that, and a service or worker that died.

## What is proved

For every value of the constants (any number of workers, callers, skills, versions,
datasets, evaluations, registrations, runs, cases, attempts and faults), by TLAPS. Each
module states an inductive invariant `IInv`, model-checked before it was proved, and its
proofs show `Init => IInv` and `IInv /\ [Next]_vars => IInv'`, one lemma per action or
group of actions; each theorem follows from `Invariance` (`QueueInvariant` in the queue).
The assumptions are the named ASSUMEs of the modules, which TLC evaluates in every run.
`TypeOK` is the first conjunct of each `IInv`.

- `JobQueueProofs`: `OneHolderPerAttempt`, `OutputWasRegistered`, `OneAnswerPerKey`,
  `TerminalIsFinal`. The strengthening says that the attempt of a worker, or of a late
  call of one, is one its row has counted, so a new claim gets a number nobody holds, and
  that who is about to report success has registered (`AttemptsHeld`); and that keys are
  unique. `NoWastedAttempt` and `LostEventsAreFaults` count with `Cardinality` and are inductive
  beside `IInv`, with the claims and inserts still to be executed counted in
  (`AttemptsAccounted`, `EventsAccounted`): a claim adds an attempt and a worker that is on
  it, a worker leaves its job only by ending it or by a fault. The lemmas about sets that
  gain or lose one member rest on `IsFiniteSet(Worker)` (an ASSUME) and on the finiteness
  of `JobId`.
  The refinement `ImplementsBoard` needs one more invariant, `UnkeyedAreOwned`: a caller
  that gave no key is the only one that knows its job. Each statement has a lemma that
  says what it is on the board (`BoardPosts`, `BoardHandsOut`, `BoardCloses`, ...), so that
  a crash in the middle of a call is covered by the statement it may have executed.
- `SingleWorkerProofs`: with the one worker that README.md:24-31 starts, and no call that is
  executed after its caller gave it up, stated as the hypotheses `SoleWorker` and
  `NoLateCalls` of each theorem: `EndedByLastAttempt`, `LogsMatchOutcome`,
  `RegisteredAtMostOnce`. Their invariant is `SoleInv`: while the worker is on a job nobody
  claims or ends it, and the row names the workspace of that attempt (`WorkerIsCurrent`);
  before the first fault a registered package is reported or about to be
  (`RegistrationsReported`).
- `ReleasesProofs`: `OneProductionRelease`, `IndexNeverRefuses`, `ReleasesAccountable`,
  `DeadlocksNeedOneVersion`, the action properties `PromotedOnMerit` and
  `HistoryGrows`, and `ImplementsLedger`. The strengthening ties each lock to the
  transaction at a statement where it has it (`LocksHeld`), from which follows that what
  a transaction asked and read is still so when it writes (`WritesSound`). `CommitShips`
  says once what a commit does to the releases; the refinement rests on it.
- `EvaluationProofs`: `RunsOnLockedData`, `OwnFailureCounts`, `PassedHadEvidence`,
  `RunsEndClosed`. The
  strengthening gives each run one owner (`RunsOwned`) and says that what an evaluation
  saw stays true while no call has failed (`ViewsStayTrue`). `PassedHadEvidence` is
  limited to `faults = 0` for the same reason: with two evaluations, a lost reply lets
  the except block turn a succeeded run, which the other one has already counted, into a
  failed one. The others hold with faults too, except `RunsEndClosed`. `SoleInvariant` is the
  invariant of behaviours in which the evaluations of a version come one at a time
  (`Spec => ([]OneAtATime => []SoleInv)`), however many evaluate other versions: what an
  evaluation has read is then all there is, whatever failed before, from which
  `PassedMeansPassing` and `DecisionMatchesStatus` follow, lost replies and failed
  benchmarks included. An evaluation that is cut short before its last write leaves a run
  nobody judged, or a decision without its status; both properties except such candidates
  (`cutShort`) until an evaluation reaches its end again, and no others.
- `RegistryProofs`: `ArtifactsMatchRows`, `UniqueNeverRefuses`, `DerivedIsNewer`,
  `CompleteWhenDone`, `RefusedLeavesNothing`. The strengthening says that a path holds
  one object, that the object belongs to the request working on the path, and what each
  step leaves for the next (`InOrder`). `OnlyFaultsTakeNumbers` needs to know every object
  without a row (`OrphansKnown`): without a fault it is on its way to one, or its skill was
  refused for its slug. `ImplementsFamily` rests on the same: since a path with a row holds
  only the object the row describes, the mapped family is a function of the rows
  (`FamilyIsRows`), before and after each step.
- `BenchmarkProofs`: `RolesIsolated`, `EvidenceIsOwn`, `SummaryIsItsRows` and the
  refinement `ImplementsComparison`. The invariant is one of each run (no run writes what
  belongs to another), so most steps only have to be looked at for the run that takes
  them. `CasesInOrder` says which cases are still to come, in progress or judged, and
  `VerdictJustified` what is known of the case in progress; that undoing the drawn order
  gives the opinion on the two sides is a lemma of its own, on which `Grade` rests.
- `EnginesProofs`: `OwnWorkOnly`, `NeverSubstituted`, `LogsBeforeReport`. The
  invariant is one of each attempt. `ProgramInTurn` says between which steps a program
  runs, and `SpaceIsOwn` that nobody else writes in the workspace; from both follows what
  is in the archive (`Concluded`).
- `DeliveryProofs`: the evaluations keep their invariant beside the releases
  (`EvaluationsUndisturbed`), `RunsEndClosed` and, while no call has failed,
  `EarnedProduction` hold for any number of concurrent evaluations (`ProductionEarned`). In
  behaviours where the evaluations of a version come one at a time `EarnedProduction` holds
  after faults too, as do `PassedMeansPassing` and `DecisionMatchesStatus` beside promotions
  and rollbacks. That each step is one of `Releases` is a lemma (`ReleasesStep`), on which
  `EarnedProduction` rests.
  `Delivery` takes the two parts as instances of their proof modules, so that a step of
  the whole is first shown to be a step of each part or none (`EvaluationStep`,
  `ReleasesStep`) and the lemmas of the parts do the rest. That a release stays earned
  rests on `SucceededRunsStand`: without a fault nothing writes a closed run again; with
  one evaluation at a time `SoleInvariant` takes its place.

`SoleWorker`, `NoLateCalls` and `OneAtATime` are hypotheses because the properties are false
without them: a second worker, or a late call, may end an attempt that is not the last, and
two evaluations of one version may finish in the wrong order (`evaluation_race`). The code
does not enforce them. The first two are how the system is deployed and what is assumed of
Supabase, the third is what callers of the evaluation routes have to see to. The runs
`queue_single` and `delivery` check the same properties on instances that satisfy them.

Proved and not among the properties of a run: `UniqueNeverRefuses`,
`RefusedLeavesNothing`, `TerminalIsFinal` (contained in `ImplementsBoard`) and
`ArtifactsMatchRows` (contained in `ImplementsFamily`).

Model-checked only: the liveness properties `EveryJobEnds`, `EveryEvaluationEnds`,
`EveryRunEnds` and `EveryAttemptReports`. They rest on fairness and
`ENABLED`, which are outside the prover. Every safety property of a passing run is proved.

## Where code and documents disagree

Each is a run that TLC ends with a counterexample.

- `queue_stopped`: a worker stopped between its claim and the try block leaves the job
  `running`; the README says a stopped worker records its job as failed. It is taken
  again when the lease has expired (`EveryJobEnds`).
- `evaluation_race`: two evaluations of one version finish in the wrong order between
  reading the runs and writing the status; the version is passed although a failing
  holdout run is on record.
- `evaluation_late_case`: a case checked before the lock and inserted after it; the
  trigger guards updates and deletions only.
- `registry_orphan`: an artifact whose version row was never written occupies the path
  of the skill's next number, so that personalizing the skill fails from then on.

Visible in the models, without a run:

- Of two evaluations that first use a dataset together, the second is refused by
  `lock_dataset` (`Lock`, label `lockRefused`), which the comment at `services.py:170-171`
  says it should tolerate.
- A failure after `create_version` is reported as "No existing Skill was changed"
  (`services.py:127`) while the new version stays (`Registry`).
- The timeout of an engine or of a Codex process does not bound its job or its run, as
  README.md:28 and 115 say it does: after the kill the code waits for the output without a
  timeout (`Overdue` and `Drain` wait for `held` to end).
- A worker that is stopped reports its job failed at once, while the program it started may
  go on writing into the workspace of that job, and writes no logs (`RecordInterrupted`).
- The API takes jobs that no adapter can do: a `distill_repo` job for SkillAlchemy fails
  at its launch for the want of a brief (`Accepts`, `LaunchFails`).

## Not modelled

- The contents of packages, prompts, cases and traces; scores, which travel with the pass
  decision of their side; the byte-level checks of the normalizer (it may refuse a
  package, `RejectPackage`).
- What the API reads to build the input of a personalization or a fusion.
- Promptfoo: `run_suite` has no caller in the application.
- Executions, evidence, listings and exports: single-row reads and writes without an
  interaction to get wrong.
- The workbench: it shows answers of an earlier selection that arrive late, but what it
  writes is checked again by the API.
- `released_at` and the order of the release list, which is that of the beginnings of the
  transactions, not of their commits.
- Configuration, `doctor.py`, `apply_migration.py`: one-off tools.

## Plan

Done, in this order, because the registry's promises rest on them: the job queue, the
releases with their ledger, evaluations with the gate, registrations; then what these
take as given, benchmarks with the comparison they implement and the engines; then the
composition of evaluations with releases; then the abstract board and family that queue
and registry implement, and the proofs of every safety property. What would come next:

1. The queue with the registry: an attempt that is repeated registers again, and the
   number it gets depends on what the first one left.
2. `Workbench` (`page.tsx`): selections whose answers arrive out of order, actions on a
   version that is no longer the one shown.
3. An abstract specification of an attempt for `Engines`, which `JobQueue` could use in the
   place of `Register` and `BodyFails`.
