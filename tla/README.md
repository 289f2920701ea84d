# Verification of Online Code Test

TLA+ models of the parts of Online Code Test whose correctness depends on
interleavings, failures and time, the TLC runs that check them, and proofs of
their main theorems. All paths are relative to the repository.

## 1. The system

| component | state | operations | interacts with |
|---|---|---|---|
| **API: submissions, custom runs** (`apps/api/src/modules/{submissions,custom-runs}`) | rows of `submissions`, `custom_runs` | insert a `queued` row, then enqueue its job | PostgreSQL, BullMQ; guarded by the exam |
| **Judge queue** (BullMQ on Redis; options in `packages/contracts`) | jobs: waiting, active (locked), delayed, completed, failed | add, hand out, ack, retry with backoff, stalled check | API, judge worker |
| **Judge worker** (`apps/judge-worker/src/{index,worker,repository,recovery-queue}.ts`) | row status, `judge_attempt_id`, `updated_at`; in memory: executions, recovery timestamps, ids still to enqueue | claim, execute, heartbeat, complete, recovery pass, startup sync, shutdown | PostgreSQL, BullMQ, executor |
| **Sandbox executor** (`executor.ts`) | child process, container, timer, collected output | compile, run each hidden test, enforce limits, score | Docker |
| **Exams** (`modules/assignments`, `postgres-store.ts`) | assignments with duration and start | assign, start, derive status, check access | submissions, problems |
| **Problem catalogue** (`modules/problems`) | problems, test cases, display numbers, archive flag | create, update, archive, impact check, delete | exams, submissions |
| **Accounts** (`modules/{users,auth,candidates}`) | users, password hashes | create, change password, delete if unreferenced | everything that references users |
| **Reviews, results** (`modules/{reviews,results}`) | one review per candidate, problem, interviewer | upsert, delete; read views | exams, submissions |
| **Bootstrap** (`postgres-{init,migrate,seed}.ts`) | applied migrations, seed rows | migrate, seed at every API start | all tables |
| **Candidate workspace** (`apps/web`: `App.tsx`, `CandidateWorkspace.tsx`, `lib/drafts.ts`) | session, address, exam gate, countdown, problem, editor, drafts in the browser, shown submission and run with their polls | log in and out, visit, start, type, choose, submit, run, poll | API |
| **Problem console** (`ProblemAdminWorkspace.tsx`) | inventory, modal, builder's form | create, edit, archive, delete after asking for the impact | API |
| **Interviewer workspace** (`InterviewerWorkspace.tsx`, `views/interviewer/`) | results and reviews of a candidate, review form | load, write, save and delete a review; assign; manage users | API |
| **Operations, deployment** (`ops-auth.ts`, `infra/`) | none of their own | health, metrics, scripts, templates | - |

Components interact through PostgreSQL rows (each statement or transaction is
atomic, see below), through BullMQ jobs (delivered at least once), and through HTTP
requests; inside one process, through callbacks of a single-threaded event loop
that interleave at every `await`.

### What is hard, and what makes each component correct

* **Judging pipeline.** Two stores (PostgreSQL, Redis) are updated without a
  common transaction; jobs are redelivered, workers die, answers are lost,
  executions outlive their lease. Correct means: an item is judged at most once,
  only by the holder of its lease; live work is not thrown away; no queued row
  is forgotten; every accepted item is eventually judged.
* **Executor.** Timer, output limit, `error` and `close` events race. Correct
  means: one result per run, time limits reported as such, no container left
  behind that could be removed, the score counts exactly the passed cases.
* **Exams.** Checks and the inserts they guard are separate statements, and the
  clock runs in between. Correct means: nothing is submitted outside the exam's
  window, the window of a started exam does not move, no problem is handed out
  before the start.
* **Problem catalogue.** The impact check precedes the deletion; foreign keys are
  the second line. Correct means: candidates' work only disappears by force;
  display numbers stay unique.
* **Accounts, reviews.** Reference checks precede deletions; concurrent upserts
  meet a unique key.
* **Bootstrap.** Runs at every start, possibly in two processes at once, must not
  change what users changed, and must not keep the API from starting.
* **Candidate workspace.** Answers arrive after the user moved on; the browser counts
  the exam's seconds next to the server. Correct means: the editor is never on
  another draft than the one it would overwrite, the page locks no exam that runs and
  does not show one for ever, every job is polled to its end.
* **Problem console.** One form and one modal serve every problem, and nothing cancels
  the handlers that await a call. Correct means: no form is saved over another problem,
  work is deleted only after the box was ticked for that problem.
* **Interviewer workspace.** Loads of two candidates overtake each other. Correct means:
  results and reviews on the page are of one candidate, notes are stored where they were
  written for.

`PROJECT.json` lists the concrete hazards at their lines. Smaller ones it leaves out: the
worker's startup sync and a graceful stop leave ids in memory (`index.ts:140`); an image
removed from the host is not pulled in advance again (`executor.ts:383`); containers
outlive a worker that dies (`executor.ts:318`); a seed problem deleted by force is back
after the next start (`postgres-seed.ts:26`), without a display number (`:20`);
`hasUserReferences` does not ask for reviews and runs (`postgres-store.ts:223`); two
processes may run one migration (`postgres-migrate.ts`); two tabs share one draft store
(`drafts.ts:55`); two administrators may save one problem, the later replacing the earlier;
a process that closes its stdin early can end the worker (`executor.ts:375`).

## 2. Modules

| module | what it is |
|---|---|
| `JudgeVerdict` | abstract: what somebody sees who only knows the public status of items |
| `JudgePipeline` | detailed: API, queue, rows, workers; refines `JudgeVerdict` |
| `MCJudgePipeline` | instances for TLC: symmetry of workers, lanes, leases, recovery job ids |
| `JudgePipelineProofs` | types, lease theorems, the refinement |
| `RecoveryProofs` | what the heartbeats guarantee, and which steps can lose queued work; extends `JudgePipelineProofs` |
| `Exam` | one candidate's assignments, clock and records under concurrent API handlers, and the deletion of problems |
| `MCExam` | instances for TLC: symmetry of problems and handlers |
| `ExamProofs` | types, the records' invariant, forced deletion, the clock |
| `SequentialJudge` | abstract: an execution that looks at one command per step |
| `SandboxRun` | one execution: its commands, their docker clients, containers, limits and events, the verdict; refines `SequentialJudge` |
| `Catalogue` | rows that outlive a start of the API: accounts, problems, their numbers and hidden tests, the assignments of the seed; administrators, the seed of every start, the claim that reads them |
| `MCCatalogue` | instances for TLC |
| `CatalogueProofs` | types, what rows refer to, numbers, what claims read, what starts keep, why they fail |
| `SandboxRunProofs` | types, that the verdict says what the programs and docker did, the refinement, what limits and containers rest on |
| `CandidateWorkspace` | one tab of a candidate or of an administrator's preview: session, addresses, the component with its effects, calls, countdown, polls and drafts |
| `CandidateWorkspaceProofs` | types, the countdown, late problems, the editor's draft |
| `ProblemConsole` | the console of one administrator: inventory, modal, builder, calls on their way |
| `ProblemConsoleProofs` | types, the form, the forced deletion, the inventory |
| `ReviewDesk` | the results page of one interviewer and the API's handlers of reviews |
| `ReviewDeskProofs` | types, results and reviews together, assigned reviews, where notes are stored |

`SandboxRun` is what `JudgePipeline` only knows as a choice of an outcome: its
`EnsureImage` is the moment after a claim, its verdict what the completion writes.
Whatever the execution does in between, the pipeline sees none of it.

The pipeline and the exam meet at the insert of a submission or custom run:
`Exam!InsertRecord` is the row of `JudgePipeline!Create`, and `Exam!CommitDelete` is how
`JudgePipeline!Delete` comes about. `Catalogue!ClaimSubmission` and `FetchHiddenTestCases`
are the two reads inside `JudgePipeline!Claim`, and `Catalogue!DeleteProblem` is the same
deletion as `Exam`'s, once nothing refers to the problem or by force. The three modules of
the web client have as much of the API in them as their handlers await: `CandidateWorkspace`
a server's exam, which is what `toCandidateExamSummary` makes of `Exam`'s rows (with all
that late assignments and forced deletions can make of a started one, `AssignmentsChange`),
and jobs, which are `JudgePipeline`'s rows without what judges them; `ProblemConsole` the
rows of problems and whether they carry work; `ReviewDesk` the upsert of a review in its
three statements, and the deletion of problems. Nothing else is shared, so the modules are
checked apart.

### JudgePipeline: state and actions

| variable | in the code |
|---|---|
| `row` | `submissions` / `custom_runs`: `status`, `judge_attempt_id`, time since `updated_at` (only kept for running rows) |
| `request` | API handlers between `create*` and `enqueue` |
| `job` | BullMQ: state, failed tries, stalls, lock holder per job id; an id is the item with the tag `Original` (`getJudgeJobId`) or a recovery tag (`getRecoveryJobOptions`) |
| `slot` | one per lane of a worker's `concurrency`: the position of `process*ById`, its lease, the time since its last heartbeat |
| `mode`, `boot` | process down, up or draining; position of the startup sequence `index.ts:162-165` |
| `pass` | a `runRecoveryPass` in flight: queries not answered, ids returned, whether one failed |
| `requeue` | ids in the loops of `recoverAndRequeue` and `syncQueued*` not yet added |
| `timer`, `last` | time since the recovery timer fired, and since `last*RecoveryAt` |
| `budget` | how many disruptions a behaviour may still contain |

Submissions and custom runs go through the same code twice, so an item is either;
they differ where the code keeps them apart: the recovery query and its timestamp
per kind, the two queries of a pass, the order of the startup sync.

Each handler is an action, split only where it awaits something another actor can
change: `Create`, `Enqueue` / `StartJob`, `StartJobRecovering`, `MaybeRecover`,
`Claim`, `ClaimNothing`, `Complete`, `DiscardLate`, then BullMQ's `Ack` or
`Reject` / `StartPass`, `PassQuery`, `Requeue`, `SyncQueued`. Every action that
awaits a database has a failing form (`ClaimFails`, `CompleteFails`,
`MaybeRecoverFails`, `PassQueryFails`, `SyncFails`); a failing claim or completion
may have committed. `LoseRequest`, `Delete`, `Stalled`, `Shutdown` and `Crash` are
the other disruptions.

Time is relative and saturates just past the last value the code can tell from
the next, so time bounds no behaviour. A tick is a fraction of the threshold;
`MaxBeatGap` is the longest time a live execution goes without renewing its lease.
It is a parameter because the code does not bound it: a heartbeat is an interval
timer whose query may fail or wait.

Abstractions, each with its reason:

* A verdict is one of `finished` and `failed`. Scores, case results and outputs are
  written in the same transaction and read by nothing in the pipeline.
* Local steps without an await between them are merged: the executor's result with
  the call of `complete*`, the last answer of a pass with the entry into its loop.
* A second recovery pass does not start while one is in flight (a pass is two
  queries, its period 30 seconds), and `requeue` is a set: the loops add the same
  id twice at most under different job ids, which the claim makes harmless.
* BullMQ is external: jobs are handed out in any order; adding a known id does
  nothing; an active job whose lock holder is gone is stalled; a lock can also be
  lost while its holder lives (disruption `stall`). The record of a finished
  recovery job is dropped at once because its id is never used again.
* Redis commands do not fail: `maxRetriesPerRequest: null` makes them wait for the
  connection. Loss of the Redis data is not modelled.
* The order `created_at` of the startup sync is any order: the model lists all
  queued rows, or any `SyncLimit` of them.
* A second SIGTERM, which exits at once (`index.ts:59`), is a `Crash`.

### Exam: state and actions

| variable | in the code |
|---|---|
| `catalogue` | `problems`: live, archived (`archived_at`) or deleted |
| `row` | the candidate's `assignments` row of each problem: `started_at`, `duration_minutes` |
| `records` | problems with a `submissions`, `custom_runs` or `interview_reviews` row of the candidate |
| `request` | for each API handler in progress, what it has read and still has to write |
| `now` | the clock |

A handler is its reads followed by one write, with any other handler in between:
`PostAssignments`, `ValidateProblem` for each problem, `BeginAssignments`,
`CommitAssignments` / `PostStart`, `CommitStart` / `PostRecord`, `ReadExam`,
`InsertRecord` / `RequestDelete`, `CommitDelete`. `Abandon` is every way to end
without the write: an early return whose condition is the negation of the next
action's guard, a constraint that fails, an error, the end of the API process.

PostgreSQL runs at READ COMMITTED. A transaction takes effect at its commit, where
its foreign keys and the unique index on (candidate, problem) hold against what
is committed by then. The two `UPDATE`s of assignments (`duration_minutes`,
`started_at`) also have a snapshot of their own, kept in `request[h].rows`: a row
inserted after it is not updated, and a row changed after it is updated only if it
still satisfies `started_at is null`. A deletion needs no such snapshot: a row it
did not see breaks its foreign key and rolls it back.

The exam's status is a function of the rows and the clock (`ExamStarted`,
`ExpiredBy`): the earliest start plus the longest duration, written without min
and max. `Date.now()` of the API and `now()` of the database are one clock. One
candidate is enough: handlers of other candidates share nothing with this one but the
problems, and can only make a deletion fail.

### SandboxRun: state and actions

| variable | in the code |
|---|---|
| `behaviour` | what the program of each command does, chosen at the start |
| `stage`, `at` | the point `executeSubmission` has reached, the number of the command; 0 is the compilation |
| `child`, `timer` | the docker client and the time limit of `runCommand` |
| `pipe`, `read` | output between the container and the worker, output the data events counted |
| `container`, `cleanup` | the container of each command, its `docker rm -f` |
| `passed`, `verdict`, `score` | `caseResults`, the result |

`EnsureImage` is `ensureDockerImage`, cached or not, `EnsureImageFails` its
failures and that of a host without room for the files. `ReadChunk`, `TimerFires`, `Close`
and `SpawnFails` are the data, timeout, close and error events of `runCommand`; what
`executeSubmission` does when the promise settles follows in the same action, since nothing
else of this execution runs in between. That includes its `finally`, whose `rm` may throw
and then puts `system_error` in the place of the verdict (`RemovalFails`). `Cleanup` is
`cleanupContainer`, which nobody waits for and which may be in vain (`CleanupFails`: docker
does not answer in 10 seconds, or answers with an error). The rest is external: the container
starts, prints and ends, with its client while that lives, on its own after the client was
killed. The client may also end by itself (`ClientFails`), with an exit code of its own,
before there is a container or with or without the one there is.

stdout and stderr are one stream. Output is counted in chunks; a program that exceeds
the limit prints one more than it, and then ends, hangs (`stalls`) or prints on for ever
(`floods`). Score rounding is
`IsScore`, which accepts both neighbours of a tie, because the code rounds a
double (23 of 40 gives 57). A custom run (`executeCustomRun`) takes the same steps
with one case.

Assumed of Docker: a container whose client is killed runs on, a `docker rm -f` that
succeeds has removed the container, and a request to start a container that is on its way
when the client ends has no effect. Not modelled: stdin, of which the code does not handle
an error, and the end of the worker in the middle, which leaves the containers to their
programs.

### Catalogue: state and actions

| variable | in the code |
|---|---|
| `account` | `users`: address, and whether the password is still the seed's |
| `problem` | `problems`: author, and the save its content is from |
| `tests` | hidden `test_cases` of each problem, as the saves they are from |
| `number` | `problem_display_numbers` |
| `assignment` | `assignments` of the seed's candidate and each seed problem: who assigned it, and whether its id is the seed's |
| `saves` | how many times a problem was saved; the seed's content is save 0 |
| `deleting` | the account whose references a deletion has checked |
| `request` | `createProblem` transactions in progress, with the number picked |
| `claim` | what a worker has read for a claimed submission |
| `api` | API processes: down, seeding (with the seed rows to come) or up |
| `lost` | kept for the property: starts that have lost a row they had seen or inserted |

The content of a problem (title, limits, tests) is the number of the save it came with:
what matters is only which reads and rows are of the same save. `SeedUserRow`,
`SeedProblemRow`, `SeedTestCases` and `SeedAssignmentRow` are the statements of
`seedPostgres`, which runs without a transaction before the process listens (`FinishSeed`);
`StartFails` is the rejection of `buildApp`. An assignment of the seed is inserted `on
conflict (id) do nothing`, but meets the unique candidate and problem of migration 008
(`MayBeAssigned`): `CreateAssignment` is an interviewer's insert of the same pair under
another id. `CheckUserReferences` and `DeleteUser` are the two statements of the deletion of
an account, with every other step in between; the foreign keys refuse the second one
(`ForeignKeysHold`, `DeleteUserFails`). `CreateProblem`, `PickNumber`, `CommitProblem` are the
statements of `createProblem` between which other transactions matter: `PickNumber` is
`LOCK TABLE` and the insert of the smallest missing number, and the lock
(`NumbersLocked`) holds up other creations and deletions, whose cascade writes the same
table, until the commit. `UpdateProblem` and `DeleteProblem` take effect at their commit.
Row locks are guards: a creation holds its author's account, a claim its submission
and so the problem.

Not modelled: a 500 where a constraint refuses what a check let pass, candidate deletion by
its second route (`candidates/routes.ts`, the same rows), the submissions and reviews that
refer to accounts, assignments of other candidates and problems, the roles, except that the
seed's candidate writes and assigns nothing.

### CandidateWorkspace: state and actions

| variable | in the code |
|---|---|
| `role`, `url`, `checking` | `session` of `App.tsx`, the router's address, `getMe` on its way |
| `exam`, `changes` | the server: ticks the started exam has left, and how often its assignments were changed since |
| `job` | the server: submissions and custom runs, created and judged |
| `drafts` | the draft store in `localStorage` (`lib/drafts.ts`) |
| `page` | the page of the assignments: the exam it shows |
| `ws` | the mounted component: `exam` (`view`), `remainingSeconds`, the interval's missed time (`lag`), `selectedProblemId`, `problem`, `language`, `sourceCode`, `submission` and `customRun` (`shown`), their polls, the history list, and each call on its way; for the property, `unsaved`: the problem and language whose last key could not be saved |

A callback runs to its end with the render and the effects it causes; that is one
action. `Select` is the effects on the selected problem (cleanup, load, draft, list),
`SetExam` the effect that starts and clears the interval, `Show` the effects that poll and
list. A call is three steps: sent by its handler, answered by the server
(`ExamAnswered`, `StartAnswered`, `CreateJob`, `PollAnswered`), arrived (`ExamArrives`,
...), and between any two of them everything else may happen. `CallFails` is its rejection
or loss. `Jump` is a move through the browser's history, which changes the address
under the mounted component. `Reload`, `Logout`, `MeFails` unmount it; the drafts stay.

`Grain` ticks are a second. The interval fires late by any time, and browsers make up for
at most one missed second (`MaxLag`). Texts are values of `Code`; what the editor shows
otherwise, its settings, panes, notices and the rendering of results are left out. An
answer of an exam or a start carries what the server knew when it answered, however old.

`AssignmentsChange` is what interviewers and administrators may do to an exam that runs: a late
assignment (`exam_late_assignment` shows how it comes about) lengthens it or opens it again,
a forced deletion shortens it or leaves one that has not started. Nothing tells the page.
`Type` saves the draft or fails to: `writeJson` swallows the error of a storage that is full
or not there (`drafts.ts:40`), and the editor goes on.

### ProblemConsole: state and actions

| variable | in the code |
|---|---|
| `row` | the API's rows: not there, live, archived, deleted; whether candidates worked on them |
| `problems`, `loading` | the inventory, and `getAdminProblems` on its way |
| `section`, `editingId`, `form`, `submitting` | the address, `editingProblemId`, whose content `form` and test cases are, `isSubmitting` |
| `modal`, `busy` | `operationMode`, `confirmId`, `confirmImpact`, `confirmLoading`, the two boxes; `lifecycleBusyId` |
| `call` | the handlers that wait, and what the API answered |
| `consent` | kept for the property: the problem whose box was ticked in the open modal |

A click is an action that sends its call; `Answered` is the API; `ImpactReturns`,
`DetailReturns`, `SaveReturns`, `CreateReturns`, `DeleteReturns` and `ArchiveReturns` are
what the handlers do after their `await`, with `ok` for an answer and its negation for a
rejection or loss. `LeaveEditing` is the effect on the section. A form is the problem it
was loaded from; its fields, and the rows of test cases with their batch import, are not
told apart.

### ReviewDesk: state and actions

| variable | in the code |
|---|---|
| `there`, `assigned`, `review` | `problems`, `assignments`, `interview_reviews` of one interviewer |
| `results`, `context`, `selected`, `form` | `results`, `reviewContext`, `selectedProblemId`, `reviewForm` |
| `saving` | `reviewSaving` with the PUT or DELETE it stands for and how far that is |
| `loading`, `load` | the skeleton; loads that wait for `Promise.all` of results and context |
| `astray` | kept for the property: an answer to a save met the reviews of another candidate |

A PUT is `HandleSaveReview`, `ReviewChecked` (target and assignment), `ReviewWritten` (the
upsert, which its foreign keys may refuse), `ReviewAnswered` (the row read back, which may
be another tab's by now or gone), `SavingReturns`. A review is abstracted to the
candidate and problem it was written for. `WriteElsewhere` is the same interviewer in
another tab.

## 3. Properties and runs

| property | says |
|---|---|
| `OneLeaseHolder` | of all executions of an item at most one can still write |
| `VerdictByLeaseHolder` | a verdict is written only by the execution whose lease the row carries |
| `JudgedOnce` | the pipeline implements `JudgeVerdict`: pending, one verdict, then only deletion |
| `BeatingLeaseKept` | an execution with timely heartbeats keeps its lease |
| `ExclusiveExecution` | with timely heartbeats, no two live executions have the same item |
| `NoWorkLost` | a queued row always has somebody who will bring it to a worker |
| `EveryItemJudged` | every accepted item is eventually judged or deleted |
| `RecordsOnAssignments` | a record of the candidate belongs to an assignment, an assignment to a problem |
| `UnforcedDeleteKeepsWork` | a problem with work of the candidate disappears only by force |
| `NoExtraTime` | no step that keeps the assignments postpones the expiry |
| `JudgesInOrder` | the execution implements `SequentialJudge`: as if each command were one step, it stops at the first that fails, gives its verdict once, and scores the nearest whole percentage; a verdict can only be wrong by a docker client that ends by itself, or replaced by `system_error` |
| `ExecutionEnds` | every execution ends, whatever its programs and containers do |
| `SandboxesEnd` | the containers left in the end are those of programs that never end and printed too much, lost their client, or could not be removed |
| `AccountsStand` | accounts do not disappear under problems, assignments and creations, nor problems under assignments; addresses are unique |
| `PickedNumbersStand` | a number picked by a creation stays the smallest free one until the commit |
| `JudgedByOneSave` | a claim reads the tests of exactly one save, not older than its limits |
| `SeedKeepsChanges` | a start changes no row that exists |
| `StartsSucceed` | a start fails only where the address of a seed account or an assignment of the seed is taken, or a row it had seen or inserted was deleted meanwhile |
| `EditorShowsDraft` | the editor of a candidate shows the draft of the problem and language it stands for, unless the last key typed for them could not be saved |
| `LockedOnlyWhenExpired` | a page whose exam was read after its last change locks only an exam that is over on the server |
| `LateProblemIgnored` | the answer for another problem does not replace the selected one once shown |
| `CountdownEnds` | a page does not show a running exam for ever |
| `EndShown` | a job shown as pending is shown with its end, or left, or its poll fails |
| `FormOfEdited` | a form that was loaded is the form of the problem being edited |
| `ForceOnlyWhenTicked` | a deletion carries `force` only if the box was ticked for its problem |
| `RemovedStaysRemoved` | a deleted problem that is no longer listed is never listed again |
| `LoadingEnds` | the modal does not analyse for ever |
| `ResultsTogether` | results and review context on the page are of one candidate |
| `NotesWhereWritten` | notes are stored for the candidate and problem they were written for |
| `ReviewsAssigned` | a stored review is about an assigned problem |
| `LoadEnds` | the skeleton goes away |

| run | instance | states | shows |
|---|---|---|---|
| `pipeline_leases` | 1 submission, 1 worker with 2 lanes, heartbeats up to 3 ticks apart with threshold 1, every disruption, one per behaviour | 190 000 | `TypeOK`, `OneLeaseHolder`, `VerdictByLeaseHolder`, `JudgedOnce` although executions are superseded |
| `pipeline_restarts` | 1 submission, 2 workers with 1 lane, timely heartbeats, one of stall, claim, complete, sync, shutdown, crash | 330 000 | `BeatingLeaseKept`, `ExclusiveExecution`, `NoWorkLost` |
| `pipeline_progress` | 1 custom run, 1 worker, two disruptions, fairness | 73 000 | `EveryItemJudged` |
| `pipeline_late_timer` | 2 submissions, late timer and failing completion | violation | `worker.ts:42` drops recovered ids |
| `exam_records` | 2 problems, 2 requests, 2 durations, submissions and runs | 1 020 000 | `TypeOK`, `RecordsOnAssignments`, `UnforcedDeleteKeepsWork`, `NoExtraTime` |
| `exam_late_assignment` | 2 problems, 2 requests | violation of `AssignmentsFrozen` | `assignments/routes.ts:64` checks the exam too early |
| `sandbox_verdicts` | compilation and 3 cases, limit of 1 chunk, pipe of 2, fairness | 446 000 | `TypeOK`, `JudgesInOrder`, `ExecutionEnds`, `SandboxesEnd` |
| `catalogue_rows` | 2 API processes, 3 accounts, 3 problems (1 account, 1 problem of the seed), 2 addresses, 2 creations, 1 claim, 2 saves, 1 crash, symmetry | 597 000 | `TypeOK`, `AccountsStand`, `PickedNumbersStand`, `JudgedByOneSave`, `SeedKeepsChanges`, `StartsSucceed` |
| `workspace` | 2 problems, 2 languages, 2 texts, an exam of 2 seconds with 2 ticks each, 1 change of it, 1 move through the history, 1 written draft, no jobs | 1 586 000 | `TypeOK`, `EditorShowsDraft`, `LockedOnlyWhenExpired`, `LateProblemIgnored` |
| `workspace_jobs` | the same component with submissions, runs and 1 job, an exam of 2 seconds, no drafts, no changes, fairness | 218 000 | `EndShown`, `CountdownEnds` |
| `console` | 2 problems, 2 calls on their way, 4 calls in all, fairness | 1 000 000 | `TypeOK`, `FormOfEdited`, `ForceOnlyWhenTicked`, `RemovedStaysRemoved`, `LoadingEnds` |
| `desk` | 2 candidates, 2 problems, 2 loads on their way, 2 assignments, fairness | 796 000 | `TypeOK`, `ResultsTogether`, `NotesWhereWritten`, `ReviewsAssigned`, `LoadEnds` |

Why the bounds are enough. Items only meet in the recovery and sync queries, so one
item shows everything about leases, and the violation needs two items (one to be
recovered, one whose job triggers the recovery). Two slots are the
smallest number with a superseded and a current execution; recovery needs no more
than that. With `StaleAfter = 1` a row can be fresh, at the threshold and past it;
heartbeats 3 ticks apart let a lease be lost twice during one execution. Two recovery
tags let two recovery jobs of one item live at once. The disruptions that need
an earlier one to matter are in the runs with budget 2. The lease theorems
below hold for all values.

A race around a record has a writer and a deleter, on one problem; who prepares the
ground has ended before, since requests are reused: two requests. The clock needs a row
that has started and one that has not, two durations and a time before, at and after an
expiry: two problems and three instants. Runs are written by both kinds of writer,
reviews by one of them in the same way, so the run leaves reviews out. The theorems
below hold for all of it.

Commands only meet in `passed`, in the first failure and in the containers they leave:
a compilation and three cases have a first, a middle and a last one, and a score
that is not whole. A limit of one chunk and a pipe of two let output wait behind
the end of a client, reach the limit exactly and exceed it by one.

Two creations and a problem of the seed fill and leave gaps in three numbers. A claim
meets an update only in its own problem, and two saves give it one before and one
after its first read. A seed account needs somebody who deletes it and somebody whose new
account takes its address, while an interviewer assigns: three accounts, two addresses. One
deletion of an account at a time is enough: two of them meet nothing of each other. A
crash lets a start fail in the middle and the next one meet what it left. The API is load
balanced (`infra/aws/deploy.sh:154`), so a process seeds while another one serves: two
processes.

The workspace needs a problem that is opened while another one loads, and a language that
changes under a draft: two of each, and one text that differs from the starter code, so
that every wrong draft is told from the right one. Two seconds have a last and an
earlier one, half seconds let an answer be late by less than one; a move through the
history meets the answers of the visit before, and a change of the exam those of before and
after it. Jobs meet the rest of the component only in what is shown, and liveness needs no
drafts: they have a run of their own, with an exam of the same length. It has no change of
the exam, because a lengthened one only ends later. In the
console every hazard is one late answer that meets one other modal or form, after at
most three calls that prepare it: two handlers at a time, four calls, two problems. At the
desk two loads overtake each other while a save of the one meets the context of the other:
two candidates, two problems, two loads. The theorems hold for all of these numbers.

`JudgedByOneSave` leaves the seed's tests out: a seed problem that was updated is judged by
its new tests and, after the next start, by the seed's old one as well, because
`insertSeedTestCases` misses the row the update deleted (`postgres-seed.ts:62`).
`StartsSucceed` names two hazards of the same statements, after which every start fails.
A seed account is deleted, which the reference check allows once its problems and assignments
are gone, and its address goes to a new account (`SeedEmailLost`): then `on conflict (id) do
nothing` does not help, and the insert fails on the unique address (`postgres-seed.ts:14`,
`app.ts:79`). And a seed problem is deleted by force, a start inserts it again, and before its
assignment follows, an interviewer assigns the problem to the seed's candidate through a
process that serves (`SeedAssignmentTaken`): the seed's assignment has another id and meets
the unique candidate and problem (`postgres-seed.ts:79`, migration 008). The third exception
(`lost`) is none of the next start's: a row deleted while a start runs is inserted by the next.

What `exam_late_assignment` shows has consequences that the model also reaches: the
late problem's duration can lengthen an exam that runs and reopen one that has
expired, and a forced deletion of the only problem started then makes the exam one
that has not started. `NoExtraTime` therefore speaks of steps that keep the
assignments. The archive check has the same gap (`routes.ts:77`).

`NoWorkLost` is checked without the disruptions that break it: a late timer (the
violation run), a failing recovery query, whose `Promise.all` drops the ids of the other
kind (`worker.ts:66`), and an API process that dies between insert and enqueue
(`submissions/routes.ts:58`), whose row waits for the sync of the next worker start.
Section 4 has the complete list of the steps that can break it.

`SandboxesEnd` names what an execution may leave for ever (`LeftBehind`). Exceeding the output
limit kills the docker client, not the container (`executor.ts:327`): a program that then prints
on or hangs keeps it, and nobody removes it, nor one whose client ended by itself. At the
time limit `docker rm -f` is tried once (`executor.ts:499`).

`JudgesInOrder` takes docker's failures as the code does. A `docker run` that ends by itself
(exit code 125: no container, no daemon) is told from a failing program by nobody, so a right
program may get `compile_error` or `runtime_error` (`executor.ts:110`, `242`, `275`), for good,
since a verdict is not retried. A working directory that cannot be removed turns any verdict into
`system_error` (`executor.ts:140`).

The properties of the web client name what its code does not do. `LockedOnlyWhenExpired`
speaks of an exam read after its last change: a page that counts when its exam is lengthened
locks at the old end, and shows the new one only when it is opened again. `EditorShowsDraft`
excepts a key that could not be saved, which the code prefers to a crash (`drafts.ts:41`):
what the editor shows is then gone with the next change of problem or language, or the next
visit. `EndShown` excepts a failed poll, which nobody repeats
(`CandidateWorkspace.tsx:505`), and a user who picks submissions again and again.
`LateProblemIgnored` speaks of a problem that is shown as selected: when the load of the
second problem fails, the first one stays, and Submit sends it with the second one's draft.
`FormOfEdited` leaves an emptied form out: a creation that is answered while a problem is
edited empties its form, and Save would send that. `RemovedStaysRemoved` excepts a creation
whose answer comes after the deletion, and a list that is still on its way.
`ForceOnlyWhenTicked` holds although the impact of one problem may arrive in the modal of
another. `NotesWhereWritten` ends with an answer to a save that meets the reviews of another
candidate (`astray`): from there on a form may hold notes of one candidate for another one
(`CandidateResults.tsx:129`).

Deadlock is checked in every run but that of `SandboxRun`, whose execution ends: the
service never stops, time passes, and a user can always reload or choose.

**Fairness** (`FairSpec`). Weak fairness of every local continuation of a process that
is up (the event loop runs pending callbacks), of BullMQ's promotion and stalled
check, of time, and of `Start`: ECS keeps `DesiredCount: 1` worker tasks running
(`infra/aws/templates/worker.yaml:227`). A slot's `StartJob` is strongly fair: a
concurrency slot polls the queue again whenever it is idle. No disruption is fair, and the
liveness run uses no symmetry. It leaves out the lost request, after which liveness
fails while the workers stay up, and has one item, for which the two losses named
above cannot happen (they need a second item).

In `SandboxRun`, weak fairness of the events (the event loop hands out what is due, timers
fire), of the end of a container whose program ends, and of the end of `docker rm -f` in one
way or the other (`runHostCommand` gives up after 10 seconds). Nothing makes a container
start or a program print: the time limit is what `ExecutionEnds` rests on.

In `CandidateWorkspace`, weak fairness of time and of the interval's callback, of the
answers to polls, and of the judge, which `EveryItemJudged` stands for; only
`workspace_jobs` assumes it, and `Catalogue` and `workspace` are safety only.
`CountdownEnds` needs nothing else: no answer has to arrive. In `ProblemConsole` and
`ReviewDesk`, weak fairness of the end of a call, with its answer or an error: the browser
ends a request at the latest with the connection. No click, no answer by the server and no
other user is fair.

## 4. Proofs

For all items, workers, lanes, thresholds and numbers of disruptions, from
`PipelineAssumption` only (kinds are disjoint, null values are no values, bounds are
natural numbers):

| theorem | states |
|---|---|
| `TypeCorrect` | `Spec => []TypeOK` |
| `OneLeaseHolderAlways` | `Spec => []OneLeaseHolder` |
| `VerdictsByLeaseHolder` | `Spec => VerdictByLeaseHolder` |
| `PipelineRefinesVerdict` | `Spec => JudgedOnce`, the refinement of `JudgeVerdict` |
| `HeartbeatsKeepLease` | `MaxBeatGap =< StaleAfter` gives `Spec => []BeatingLeaseKept` |
| `ExecutionIsExclusive` | `MaxBeatGap =< StaleAfter` gives `Spec => []ExclusiveExecution` |
| `LostOnlyByDrops` | `Spec => [][AllCarried /\ ~Drops => AllCarried']_vars` |
| `NoWorkLostWithoutDrops` | `Spec /\ [][~Drops]_vars => []NoWorkLost` |
| `GivenUpAfterStrikes` | `Spec => [][\A j \in JobId : Patience(j)]_vars` |
| `NoWorkIsLost` | `FewDisruptions` gives `Spec => []NoWorkLost` |
| `ExamProofs!TypeCorrect` | `Spec => []TypeOK` of `Exam` |
| `RecordsAlwaysOnAssignments` | `Spec => []RecordsOnAssignments` |
| `WorkNeedsForce` | `Spec => UnforcedDeleteKeepsWork` |
| `NoStepGivesTime` | `Spec => NoExtraTime` |
| `SandboxRunProofs!TypeCorrect` | `Spec => []TypeOK` of `SandboxRun` |
| `VerdictAlwaysFromRuns` | `Spec => []VerdictFromRuns` |
| `ExecutionJudgesInOrder` | `Spec => JudgesInOrder`, the refinement of `SequentialJudge` |
| `WatchedAlways` | `Spec => []Watched`: what the liveness of executions rests on |
| `CatalogueProofs!TypeCorrect` | `Spec => []TypeOK` of `Catalogue` |
| `AccountsCorrect` | `Spec => []AccountsStand` |
| `NumbersCorrect` | `Spec => []PickedNumbersStand` |
| `JudgedByOneSaveCorrect` | `Spec => []JudgedByOneSave` |
| `SeedKeepsChangesCorrect` | `Spec => SeedKeepsChanges` |
| `StartsSucceedCorrect` | `Spec => StartsSucceed` |
| `CandidateWorkspaceProofs!TypeCorrect` | `Spec => []TypeOK` of `CandidateWorkspace` |
| `LockedOnlyWhenExpiredCorrect` | `Spec => []LockedOnlyWhenExpired` |
| `LateProblemIgnoredCorrect` | `Spec => LateProblemIgnored` |
| `EditorShowsDraftCorrect` | `Spec => []EditorShowsDraft` |
| `ProblemConsoleProofs!TypeCorrect` | `Spec => []TypeOK` of `ProblemConsole` |
| `FormOfEditedCorrect` | `Spec => []FormOfEdited` |
| `ForceOnlyWhenTickedCorrect` | `Spec => []ForceOnlyWhenTicked` |
| `RemovedStaysRemovedCorrect` | `Spec => RemovedStaysRemoved` |
| `NothingWaitsAloneCorrect` | `Spec => []NothingWaitsAlone`: what waits has its call on its way |
| `ReviewDeskProofs!TypeCorrect` | `Spec => []TypeOK` of `ReviewDesk` |
| `ResultsTogetherCorrect` | `Spec => []ResultsTogether` |
| `ReviewsAssignedCorrect` | `Spec => []ReviewsAssigned` |
| `NotesWhereWrittenCorrect` | `Spec => []NotesWhereWritten` |

The theorems of `Exam` hold for all problems, handlers and durations, from
`ExamAssumption` (durations are positive, null is no time). `RecordsOnAssignments` is
not inductive: a handler between its check and its insert may write a record whose
assignment went away. `Granted` says it cannot have gone without its problem, in
which case the foreign key refuses the insert; `AssignmentsLast` is the step that
keeps it. `WorkNeedsForce` uses both: an unforced deletion checks assignments and
submissions only, and runs and reviews are safe because they have an assignment.
`NoStepGivesTime` rests on `started_at is null` in both `UPDATE`s (`SameClock`).

The theorems of `SandboxRun` hold for every output limit, pipe and number of cases below 200
(`SandboxAssumption`; `hiddenTestCaseCount` allows 50). From 200 cases on, all but one would
round to a score of 100. `VerdictFromRuns` speaks of an ended execution, so its induction
says what a running one knows: a client that exited stands for a program that ended and
printed all it had (`ExitedMeansPrinted`), a killed one for an exceeded limit
(`KilledMeansLimit`), one that failed says nothing of its program, only a program with more
output than the limit exceeds it (`PrintedAtMost`), and `passed` holds the right ones of the
commands before (`EarlierCommands`). `EndTellsBehaviour` draws the conclusion at close,
where it needs the empty pipe; `ScoreOfPassed` is the arithmetic of the score.

`VerdictFromRuns` says what a verdict means; the refinement of `SequentialJudge` says more:
how it comes about. The race of a command's data, exit, error and close events is hidden,
and the whole command is the one step of the judge that `Close` (or a failing spawn) takes;
only the time limit and the end of a client by itself keep steps of their own, because which
verdict a command gets depends on them (`late <- timer = "fired"`, `broken <- child =
"failed"`). `LimitOfCommand` (no limit fires before the first command, and one that
fired has ended its client) makes that mapping right,
`EndTellsBehaviour` turns what close sees into what the judge asks about the program, and
`NearestPercentage` shows that `Math.round` picks a percentage no other is closer than. A
judge that went on after a failure, gave a second verdict or rounded down would break it;
so would one that answered `runtime_error` although the program ended well and its client
with it.

`Watched` is what the two liveness properties of the run rest on, for any number of
cases: a running command has its limit armed or a client that is at its end
(`TimeLimited`), and the container of a program that never ends is under that limit or being
removed, whichever event ended its command, unless the removal failed or it is one that is
`LeftBehind` (`HangWatched`).

The theorems of `Catalogue` hold for all accounts, problems, processes, handlers, workers
and saves, from `CatalogueAssumption` (the seed's ids and author are ids, null values are
no rows). `AccountsStand` is inductive with the types: what stands is what the foreign keys
check when an account goes, not the check before, which says nothing by then. `NumbersInv` adds to
`PickedNumbersStand` that only one creation has picked, which is the lock. `SavesInv` adds
to `JudgedByOneSave` that the tests of a problem are those of its save and of the seed
(`TestsOfSave`), and that a claim that has yet to read them keeps its problem, saved at
most anew (`ClaimsHold`); `ProblemEffect` shows it from what a step may do to a problem:
keep it, remove it when no such claim needs it, save it, seed it. `StartsSucceed` rests on
`StartsInv`: what a start is past is there, unless a deletion has marked the start
(`RowsPast`). A statement that fails then finds its row's address or assignment taken.

The theorems of `CandidateWorkspace` hold for all problems, languages, texts and jobs, every
length of the exam and every grain of the clock, from `WorkspaceAssumption` (there is a
first problem, null is no value, an address is no problem). What a state of the component
may be is `Good`, and a lemma for each effect says that it keeps it (`SelectGood`,
`SetExamGood`, `ShowGood`, ...): the jobs on the page are on the server and a poll is
about a shown job (`Known`), only the load of the selected problem can arrive
(`LoadsSelected`), and the clock: `LockedOnlyWhenExpired` is not inductive, because it
says nothing of the second before the lock, nor of answers on their way. `Clock` says
that the exam has at most the shown seconds and a part of one left, with the part the
interval has not counted, and that the same holds of every answer on its way
(`ViewHolds`), as long as the exam it was read from was not changed (`changes`), which time
keeps. `OnePage` keeps the page of the assignments and the
workspace apart. `StepKept` then shows what a step does to the shown problem and to the
text in the editor: most leave both alone (`Same`), `Select` and `ChooseLanguage` load
the draft they change to, and a key writes its draft or is remembered as `unsaved`.

The theorems of `ProblemConsole` hold for all problems, handlers and calls, from
`ConsoleAssumption` and `NoneIsNoCall` (null is no call). An answer must fit its call for
the types to hold (`AnswersFit`). `FormOfEdited` is inductive. `ForceOnlyWhenTicked` rests
on `BoxOfModal`: a ticked box in an open modal for a deletion was ticked for the problem in
it, which holds because every opening unticks it, also when a late failure closed the modal
without doing so. `NothingWaitsAlone` is inductive because every handler ends its own kind
of waiting when it returns, whatever modal or form it meets, and none ends without
returning.

The theorems of `ReviewDesk` hold for all candidates, problems and loads, from
`DeskAssumption`. `PageInv` adds to `ResultsTogether` that an answer is of the load's
candidate. `CheckedAssigned` adds to `ReviewsAssigned` that a checked save whose problem is
still there is assigned. `NotesInv` says of everything that ends in a row, the context,
the answers on their way, the form and the save, that it is written for where it is, as
long as nothing went astray.

In the pipeline, the inductive invariant `IInv` joins to `TypeOK` that busy slots have a job
(`Busy`), that executions have a lease (`LeaseHeld`) and that no two executions, superseded
ones included, have the same one (`LeaseUnique`). `OneLeaseHolder` alone is not inductive:
it speaks of leases the row carries now, while a superseded execution's lease could come
back if claims did not draw fresh ones. `LeaseUnique` follows because `FreshAttempts` avoids
every lease in a row or a slot, which `randomUUID()` gives. For the refinement, `PublicStep`
classifies every step: it changes the public state of no item (`Quiet`), creates or deletes
one, or is the judgement of one item by its lease holder.

`HInv` adds what makes the heartbeats work: the row of a live execution is no older
than that execution's last heartbeat (`LeaseKept`), hence never stale when
`MaxBeatGap =< StaleAfter`, and no item has two live executions, so nobody else ends
or renews it.

**No queued work is lost.** `NoWorkLost` says of a queued row that something still stands
for it: its request, a job BullMQ will hand out, a slot that has not claimed it, an id in
a worker's loops, or a worker that has yet to list it. It is not inductive: an active job
says nothing about its row once its slot is past the claim, and a slot that claims may
have lost the lock of its job. `AllCarried` asks for a carrier that can still reach a claim
(`Carries(j)` for a job: it waits, or its lock holder is gone or not past the claim), and `WInv` adds what keeps them: a request of a row is
one before its job (`RequestFresh`), a pass without queries in flight has handed over its
ids (`PassOver`). Each step then either leaves every queued item a carrier or is one of
five (`Drops`):

| step | in the code |
|---|---|
| `LosesRequest` | the API dies between insert and enqueue (`submissions/routes.ts:58`) |
| `GivesUp` | BullMQ fails a job for good, out of tries (`attempts: 3`) or of stalls |
| `SlotDrops` | a job's own recovery finds stale rows and drops their ids (`worker.ts:42`) |
| `PassDrops` | one query of a pass fails after the other returned ids (`worker.ts:66`) |
| `SyncMisses` | the startup sync lists fewer rows than there are (`index.ts:84`, limit 100) |

That is `LostOnlyByDrops`, and the list is no longer than it has to be: with any of the
five left out of `Drops`, TLC finds a step that loses an item. `NoWorkLostWithoutDrops`
follows at once.

`NoWorkIsLost` replaces "no such step is taken" by hypotheses on the constants
(`FewDisruptions`) and proves that none can be: no disruption in an API handler, no late
timer and no failing recovery query among `Disruptions`; fewer disruptions than a job has
tries and at most as many as it is granted stalls; no more items of a kind than a sync
lists. `pipeline_restarts` is an instance. The step in between is that
BullMQ never runs out of patience, and it needs an account: the tries and the stalls of a
job, with the one its lock holder's fate will still make, are paid for by disruptions of
the budget (`StrikesPaid`), so that retries, restarts and crashes cannot add up to more
strikes than disruptions.
`GivenUpAfterStrikes` states that account on its own, without `FewDisruptions`: a healthy
system fails no job. `IdleFree` and `RecoveryWhole` are the two facts about slots and
passes the account and the other drops need.

The hypotheses are what the code needs. A handler that dies, a late timer or a
failed recovery query can each be what loses an item (`pipeline_late_timer` shows the
second). With BullMQ's defaults, `attempts: 3` (`packages/contracts/src/index.ts:29`) and a
`maxStalledCount` of 1, a job survives two failures or one stall, so in the deployed
configuration the theorem covers behaviours with one disruption of the other kinds. For
behaviours with more, `NoWorkLostWithoutDrops` says that nothing else than the five steps
has to be feared, and `GivenUpAfterStrikes` how many disruptions the second of them takes.

**Only model-checked.** Liveness under fairness is out of the prover's reach:
`EveryItemJudged`, `ExecutionEnds`, `SandboxesEnd`, `CountdownEnds`, `EndShown`, `LoadingEnds`,
`LoadEnds`. Every other property of a passing run is a theorem.

## 5. Not modelled, and plan

Not modelled:

* Web: the editor's settings and panes, the rendering of results and histories, the rows
  of test cases with their batch import, search and notices of the console,
  `AdminSubmissionHistory`, the forms of `AssignmentForm`, `UserManager` and
  `ChangePasswordButton`, each of which sends one call whose handler is in `Exam` or
  `Catalogue`, and `AssignmentDrawer`, which nothing uses. Several tabs of one candidate and
  several administrators at one problem: the code keeps no versions, the last write
  stays.
* API: result views, health, metrics and statistics only read. Migrations are done before
  `Catalogue!Init`.
* Deployment: scripts and templates, of which only the facts named under fairness are used.

In order of importance:

1. Safety cores of the liveness properties that have none yet: that a pending job on the
   page is polled, that a started exam on the page has its interval, that the skeleton has
   its load.
2. `SandboxRun`: the composition with `JudgePipeline`, with the end of the worker in the
   middle of an execution.
3. `Catalogue`: migrations by two processes at once, and the submissions and reviews that
   refer to accounts.
4. `ProblemConsole`: the rows of test cases and their import.
5. Result views over changing rows.
