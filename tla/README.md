# A formal model of phonton-cli

phonton-cli turns a goal into a plan of subtasks, lets language-model workers
write diffs for them, verifies every diff before it reaches the working tree,
and lets the user approve or reject the result.  This directory holds TLA+
models of the parts of it in which order, failure and concurrency decide
whether that promise is kept, the TLC runs that check them, and TLAPS proofs.

## Inventory

| part | source | state it keeps | operations | what is hard |
|---|---|---|---|---|
| orchestrator run loop | `phonton-orchestrator/src/lib.rs` 489-1377 | a `SubtaskRuntime` per subtask, a `JoinSet` of workers, checkpoints, `next_seq`, `failure`, `paused` | schedule, join, verify, retry/escalate, apply and checkpoint, budget, finish | workers finish between any two steps; aborts race results; failures half way |
| token accounting | same, 628-713, 875-930, 1122-1160 | `committed_tokens`, `tokens_used`, the bounded message channel | progress message, completion, charge | late or dropped messages, double billing over retries |
| plan normalisation | same, 1794-2014 | none | normalise, build graph | pure |
| headless goal | `phonton-cli/src/main.rs` 5912-6276 | the process, the store's task row and paused-run row | start, resume, time out, record | crash between two writes, stale snapshot |
| store | `phonton-store/src/lib.rs` | SQLite rows | upserts, reads | ignored errors, no transaction over two rows |
| diff applier | `phonton-diff/src/lib.rs` | worktree, index, checkpoint refs, pre-task snapshot | record, apply, commit, revert | the user edits the same files; partial writes |
| exact edits | `phonton-local/src/edit.rs` | none | materialise hunks | pure |
| worker | `phonton-worker/src/lib.rs` | attempt counter, diagnostics, MCP call count | one dispatch of at most 3 attempts | bounded retry, message channel |
| verify | `phonton-verify/src/lib.rs` | a cache root with a copy of the workspace and its lock file, a memo of verdicts per process | layered checks, a second run with the original tests, pruning | two processes in one cache root, "could not run" against "failed", stale verdicts |
| local run | `phonton-worker/src/local_run.rs`, `local_run/search.rs` | a receipt in memory and on disk, candidates, a budget of calls, tokens, checks and time | capture, baseline, generate, check, prepare, review | crash between two saves, stale source, budget arithmetic |
| local apply | `phonton-worker/src/local_run/apply.rs` | an apply journal | apply, recover, roll back | crash between two replacements, foreign edits |
| model settings | `phonton-cli/src/models_cli.rs`, `phonton-local/src/storage.rs`, `runtime.rs` | the settings file with its lease, the models in the runtimes | endpoint, folder, install, calibrate, select, remove, admit a goal | two processes, operations cut off half way, other programs in the runtime |
| managed runtime | `phonton-local/src/provision.rs`, `managed_store.rs` | the runtime's folder with its lease, staging directories, a launch receipt | download, resume, verify, unpack, publish, start, bind | kills between two moves, foreign files, reused process identifiers |
| local goals | `phonton-cli/src/local_goal_cli.rs` | per run an attempt, receipts and an end record; the sidecar's `State` | start, status, read, cancel, apply; `goal --local`, `--reviewed-plan`, `--request`; `run_goal` of the terminal | review and run are apart, three programs share settings, lease and evidence folders, kills and failing writes |
| sandbox, mcp, extensions, trust | `phonton-sandbox`, `phonton-mcp`, `phonton-extensions`, `phonton-cli/src/trust.rs` | approvals, a trust file | classify, approve, load | approval bound to what was shown |
| planner, providers, memory, index, context, handoff, types | the crates of these names | tables and values | pure functions, HTTP | nothing shared |
| interface and other commands | `phonton-cli/src/*.rs` | terminal state, configuration | render, report | the TUI repeats the goal flow |

How they interact: a command builds a plan and calls `run_task`.  `run_task`
spawns workers on a `JoinSet`; a worker answers by the value of its task and,
on the way, by progress messages.  The loop awaits verification, then writes
the diff through `DiffApplier` (or, without a repository, directly).  When it
returns, the command writes the task row and, for a pause, the resume
checkpoint.  `phonton goal --resume` starts a new process from that record, and
`phonton review reject` undoes a task through `DiffApplier`.

What makes each part correct:

- run loop: one worker per subtask; dependencies on disk before a dependent
  starts; a diff written at most once; consecutive checkpoints; failure final;
  bounded retries; the run returns; success means the plan was done.
- headless goal: a stored snapshot claims only what is on disk; resuming
  neither repeats nor forgets work; the two rows agree.
- diff applier: a reject removes the task's text and nothing of the user's.
- token accounting: every token is billed once; the ceiling is respected.
- worker: it calls the model a bounded number of times, claims success only for
  a diff that stood for verification, and ends once.
- verify: a Pass is earned on tests the candidate did not write, wherever it changes
  more than tests; a remembered verdict is a true one; nobody uses a copy that
  another one writes.
- local run: a receipt on disk never says more than was checked; what is spent is
  on disk before it is spent; no content is judged twice.
- model settings: no change is lost, a selected model is one that was measured,
  nothing that was asked for is forgotten.
- managed runtime: only the pinned tree is published; what is deleted is a finished
  download or carries the marker of an extraction (with whatever the user put into
  that directory); nothing an interruption leaves in the folder keeps the next setup
  out; and operations reach the process that was started.
- local goals: what runs is what its user saw; what is shown or applied as reviewed
  is what a finished run saved; evidence is never hidden or begun again.
- local apply: after any crash the journal leads to all-new or all-old, an
  acknowledged state survives a loss of power, and the user's edits are kept.

## Modules

| module | models |
|---|---|
| `Orchestrator` | one call of `Orchestrator::run_task` |
| `RunPromise` | abstract: what the caller of `run_task` may rely on; `Orchestrator` implements it |
| `HeadlessGoal` | `execute_headless_goal` and `--resume`; extends `Orchestrator` with the process and the store |
| `WorkerLoop` | the attempt loop of a dispatched worker and its messages |
| `WorkerPromise` | abstract: what the orchestrator may expect of a dispatch |
| `TokenMeter` | the loop's token accounts and budget guard; extends `WorkerLoop`, implements `WorkerPromise` |
| `Verification` | `verify_diff_with_checks` with its cache root and memo, in several processes |
| `DiffApplier` | `DiffApplier` against a user at the same files |
| `LocalSearch`, `LocalRun` | the decisions and the budget arithmetic of a local run; the run itself |
| `LocalApply` | `apply_selected` and `rollback_selected` against kills, power loss and a user at the same files |
| `ModelManager` | the settings of the local models, shared by the command line and the sidecar |
| `LocalGoals` | local goals of the sidecar, the command line and the terminal, from admission to their end record |
| `RuntimeSetup` | `models setup`: installing and starting the managed runtime |
| `OrchestratorProofs` | theorems of `Orchestrator` and `HeadlessGoal` |
| `DiffProofs` | theorems of `Verification` and `DiffApplier` |
| `TokenMeterProofs`, `LocalRunProofs`, `LocalApplyProofs`, `ModelManagerProofs`, `RuntimeProofs`, `LocalGoalsProofs` | theorems of the module each is named after |
| `MC*` | small instances for TLC |

`TokenMeter` and `Orchestrator` are two views of the same loop: `Orchestrator` has
the DAG, the ladder and the checkpoints, and a guard that trips when it likes;
`TokenMeter` has the channel, the accounts and the guard, and re-dispatches when
it likes.  What `WorkerLoop` answers is one of the outcomes `Orchestrator` lets a
worker have, and what `Verification` answers one of its verdicts.

### Orchestrator

`phase` is where the future of `run_task` stands; each action is the code
between two awaits or, in the checkpoint loop, one iteration.

| action | code |
|---|---|
| `ScheduleReady`, `SelectDrained` | the top of the loop and the exits from it |
| `WorkerFinishes`, `WorkerCancelled` | the worker task, on another thread |
| `JoinError` | a panic or a cancellation, which is only logged |
| `JoinDispatchErr`, `JoinFailed` | an `Err` of the dispatcher; a result without a usable diff |
| `JoinDone`, `VerifyDiff` | `handle_completion` before and after the await of the verification, and `apply_verdict` |
| `CheckpointTaken`, `ApplyFails`, `CommitFails`, `NoneNewlyDone` | the loop over what is newly Done |
| `CheckBudget` | the budget guard, then the hard-fail propagation |
| `EndRun` | the terminal status |

The content of diffs, prices and tokens are abstracted: how a worker ends, what
the verification says, whether a write or a commit works and whether the guard
asks for a pause are free choices.  `applied` and `refs` are the working tree
and the checkpoint refs as far as the properties look at them.

### HeadlessGoal

Adds the process (`running`, `recording`, `idle`), the task row, the snapshot
and two history variables (`interrupted`, `torn`) that say when the guarantees
may be off: after a failed, timed-out or killed run, and after a lost record.
`Orchestrate` is a step of `RunStep`; `TimeOut` and `Crash` drop the future.
One process at a time: nothing in the code keeps a second one away, and that is
not modelled.

### DiffApplier

A file is the set of its lines: HEAD's, the user's and the task's, where line n
is what subtask n adds.  Sets are enough for "is this text still there", which
is all the properties ask; line order and the exactness of hunks decide only
whether `Materialize` happens.  The user types and stages at any moment, also
in the middle of a write or a restore.  `SubtaskFails` is an error of any of the
three calls, `TaskEnds` also a kill.  A restore that fails (`RevertFails`) leaves
restored files against the old index; the next reject then refuses
(`RevertRefuses`).  `WriteFile` writes and stages a file in one step, though the
code reads the file back to stage it.

### LocalApply

One command at a time (the callers hold an exclusive storage lease), as the
sequence of its file-system steps.  The three kinds of journal share their
steps: a batch (schema 2) goes `WriteBackup`, `SavePrepared`, `Classify`, then
per file `OpenTemp`, `WriteTemp`, `LastCheck`, `Replace`, `ConfirmReplaced`; a
creation (schema 3) goes `WriteAnchor`, `SaveIdentity`, `LinkTemporary`,
`CheckStaged`, `MarkPublication`, `PublishNew`; a mixed changeset (schema 4)
stages every temporary (`StageOpen`, `StageWrite`), publishes, syncs
(`SyncTarget`) and then replaces.  `From`, `To` and `Temp` turn the same
replacement loop round for a rollback; `MarkDeletion` and `Dispose` then remove
the created file.

| state | code |
|---|---|
| `live`, `durable` | content of a source, its forward and its rollback temporary as processes see it, and as last synced |
| `backups`, `anchor`, `journal` | files of the run directory, synced when written |
| `cmd` | program counter, loop index, and what the command remembers from its first look (`done`, `published`) |
| `clean` | index, inventory, unchanged files and saved evidence are as reviewed |

Bytes are "before", "after" or "other", which is all the code compares; a
temporary is "torn" from its creation until its bytes are synced.  A check that
refuses, a failing call and a kill have the same effect, so one action, `Stop`,
ends a command anywhere.  `PowerLoss` makes each unsynced name fall back or not,
independently of the others; a rename may thus lose one of its two names, which
is more than a journaling file system does.  Modelled with the steps of the
Windows build, the one that can roll back a created file.  Not modelled:
`apply_one` (schema 1, no longer written), checks of paths and links.

### WorkerLoop and TokenMeter

`worker[s].stage` is where the attempt loop of `Worker::execute_with_prior_errors`
stands; `attempt` and `total` count attempts and tokens, one token per answer.
`ReportContext` waits for room in the channel, `TrySend` drops the message when
there is none.  `NoDiff` is an answer that is a tool call or asks for files,
`DiffFound` one with a diff, `VerdictArrives` what the verification says of it and
whether the loop goes on.  Text, prompts and diagnostics are choices.

`TokenMeter` adds the loop: `Receive` and the joins are the two arms of the biased
select, `Commit` moves what a dispatch spent into `committed_tokens`, `Account` sums,
charges the guard and decides.  While a diff is verified nothing is received, so
the channel fills.  `spent`, `late`, `dropped` and `estimated` are history: what was
really spent, and where the accounts may be off.  Not modelled: dollars,
`legacy_tokens_budget`, milestones.

### Verification

A copy is what it was patched with: the candidate's sources and, per package, the
candidate's tests or the original ones.  A candidate has the packages in which it
changes more than existing tests (`edits`), those whose existing tests it rewrites
(`rewrites`), and those whose original tests fail on its sources (`breaks`), which
need not be the ones it edits; in an `Untested` package no test completes.  A
verification locks the cache root or takes a throwaway one, copies, looks into the
memo, runs its layers on the packages its hunks touch (`Touched`), remembers, unlocks,
and after a Pass does it again without the edits of existing tests if there are any:
the second run has fewer hunks, and `Touched` is computed from those, as in the
code.  A process may be killed, which leaves its lock; a lock an hour old is removed
by name; a verification of another workspace prunes old cache roots.  A Rust workspace
is assumed, and that a candidate changes something besides existing tests: with no
hunk left the second run makes no copy.  Not modelled: the node and browser
layers, caller-selected checks (which run whatever the packages), the process
executor; a file that is being written while it is copied.

### LocalRun

`stage` is where `run_inner` stands; `receipt` is in memory and `disk` what a reader
finds, equal only after a save (`Saved`).  `LocalSearch` holds `search.rs` and the
arithmetic of the reservations as operators on the evidence of the candidates.
`Reserve` charges a call before it is sent, `Generate`, the checks, preparation and
`Conclusion` follow the code; the user, scripts and other programs change the source,
its index, the baseline or a candidate (`changed`, `tampered`); time runs out; the
process is killed.  A changed file does not change back.  Not modelled: admission
before the first receipt, the choice of context, the parsing of test reports.

### ModelManager

`file` is the settings file, `lease` its lock, `op[p]` the operation of process `p`
with the copy of the settings it loaded.  A command is a sequence of steps with
requests to the runtime in between: `Ask` (what the user was shown), the lease,
`Load`, then the steps of its kind, ending with a save.  `Stops` ends an operation
anywhere: an error, a cancellation, the end of the process.  `OtherPrograms` pull and
delete models in a runtime at any time.  A local goal is an operation that keeps
the lease.  `setup MODEL` of the command line is four operations, each with its own
lease, as in the code.  The sidecar's own mutex is "one operation per process".

### LocalGoals

An actor is a request in the sidecar, which is one process with one `State`
(`desk`), or a command line or terminal, a process each.  `task[a].pc` walks
`prepare_live_at` (`Confirm`, `Prepare`), `begin_attempt`, the run, its end record
(`WriteEnd`, or `RecordEnd` after an error or a cancellation), `Publish` and the
release of the lease.  `task[a].shown` is what the user of this invocation looked at
and allowed, `task[a].plan` what is carried to admission: they differ if a plan file
was edited.  `evidence` has, per place and run, the attempt, the ended attempt,
`receipt.json` and `end.json`; `Saved` is what a reader makes of them, in the sidecar
that knows whether the run is alive and elsewhere.  "review" stands for both reviewed
states, "stopped" for the final ones without a candidate; what is inside a run is
`LocalRun`, what Apply writes is `LocalApply`.  A process is killed, a write fails, a
folder is unplugged, and the selection, the runtime, a plan file and a saved candidate
change at any moment.  Not modelled: the index of recent runs, the comparison of
repositories, the arithmetic of a plan's budget.

### RuntimeSetup

The folder is `final` (the published directory), `archive` and `stages` (the staging
directories, each with what it holds, its marker and whether something in it is the
user's).  `setup[p].pc` walks `install_managed`, `download_runtime_archive`,
`publish_verified_archive` and `start_command`.  A setup is cancelled (`Cancel`) or its
process killed (`Kill`) at every step: a cancelled one kills its child and may leave a
blocking hash or extraction behind (`workers`), a killed one leaves its child and no
worker.  The user puts, changes and removes files (`UserChanges`); the origin may
send wrong bytes; other programs start, end, take the port and inherit process
identifiers.  `Bindable` is what `bind` accepts.  `FolderNeverBlocks` speaks of the
folder only; a runtime that a killed setup leaves on the port does keep the next
setup from beginning.  `RemovesOnlyItsOwn` names what a setup may remove: a directory
with the marker of an extraction goes with all it holds, files of the user included
(`Retiring`), as `cleanup_owned_stages` has it.  Not modelled: links, which are
refused everywhere, free space, and losses of power.

## Runs

| run | shows |
|---|---|
| `orchestrator` | safety of one run, the refinement of `RunPromise` (`RunKeepsPromise`), that every step uses up one of finitely many (`EveryStepCounts`), and that it returns and reports failures (`RunReturns`): 4 subtasks (one join, one independent), git, budget, one subtask that climbs all four tiers |
| `goal_resume` | three processes, a join of 3 subtasks, timeouts, crashes and lost records: the records agree (`GoalInv`), nothing is written twice (`ResumeRedoesNothing`) or missing (`DeliveredInFull`), no pause forgets another (`SnapshotNeverShrinks`) |
| `diff_applier` | two subtasks on two files (one tracked, one new), one line of the user: what a reject works from (`SnapshotInv`), what it removes and what it keeps |
| `local_apply` | two existing files, one new file, and both together: applied, rolled back, stopped and resumed without a bound on the number of commands; `JournalInv` collects what a journal may say |
| `token_meter` | two workers, a channel of one place, two attempts, three dispatches, a ceiling of three tokens: accounts (`MeterInv`), guard (`GuardInv`) and the refinement of `WorkerPromise` (`PromiseKept`) |
| `verification` | three verifications in two processes, three packages; candidates that rewrite the tests they break, in the package they edit or in another, and ones without tests, that do not build or bring a manifest; a memo of one entry: verdicts (`VerdictInv`) and lock (`LockInv`) |
| `local_run` | edits, creations and creations with an edit; three calls, 640 tokens, five check runs, preparation: `ReceiptInv`, `ChangesAreNoticed`, `BudgetInv`, `CheckedOnce` |
| `model_manager` | command line and sidecar, one model, two endpoints, two folders, at most four operations and two changes by other programs: `LeaseInv`, `SelectionInv`, `RecordInv` |
| `runtime_setup` | two setups, two staging names, two process identifiers used twice each, an archive of two chunks, one change by the user: `FilesInv`, `FolderNeverBlocks`, `RemovesOnlyItsOwn`, `RuntimeInv` |
| `local_goals` | two requests of the sidecar and a command line or terminal, two run ids, two calibrations, two folders, at most two operations and one change from outside: `GoalsInv`, `ReviewsAreFinished`, `RunsAsReviewed`, `EvidenceStays` |
| `originals_must_pass`, `batch_recoverable` | each refutes one sentence of the documentation or of a comment; see Findings |

Bounds.  Three or four subtasks give a chain, a fork and a join, so a dependent,
an independent peer and a second dependency all exist.  Three processes give a
resume of a resumed run.  Two subtasks on two files give a path touched twice, a
path touched by one of them and one not touched; one user line is enough because
no property relates two of them.  In `LocalApply` two files give "one replaced, one
not"; its state space is finite without any bound on commands, stops or edits.
`MaxRetriesPerTier` is 1 in the code; `goal_resume` uses 2 so that both
branches of the comparison are taken.  The passing runs
have a repository; the theorems hold with and without one.  In `token_meter` one place makes the channel
full as soon as one message waits, and three dispatches of two subtasks give a
re-dispatch beside a worker that runs.  Two verifications in one process and one
in another give both kinds of neighbour; a memo of one entry evicts at once.  Of the
three packages one is edited, one breaks because of it, and one has no tests; the
first two kinds of candidate are combined in every way, the others beside one of
each process (`Workloads`).  Three
calls give a candidate, its repair and a restart, or a new file, its edit and a
repair; 640 tokens and an output cap of 600 make every limit of the reserve
bite.  Four operations give every pair of kinds with one before and one after; an
`AttemptCap` of one (eight in the code) makes an install push another one out.  Two
staging names give the ambiguous resume, two starts under one identifier a reused
one.  In `local_goals` two operations give two
starts, a start and an Apply, and a start beside a change of the selection or the
folder; one candidate per run is enough for every kind of receipt.
`MaxRuns`, `MaxSubtasks`, `MaxDispatches`, `MaxOps`, `MaxAsks`, `MaxChanges` and
`MaxStarts` are bounds of the models; the other constants are values of the code.
Symmetry is used in `token_meter` (subtasks), `model_manager` (digests), `local_goals` (requests, ids,
calibrations, folders), `verification` (the two verifications of one process) and
`runtime_setup` (processes, staging names, identifiers), where nothing but equality is asked of these values.

Fairness (`Orchestrator` only): weak fairness of the loop and of each worker.
tokio polls a future that can make progress, and a worker's provider calls,
checks and attempts have time limits and a maximum.  Nothing is assumed of how a
worker ends.  The other modules have no fairness: a user need not resume, reject
nor apply again, and their properties are safety.

Modules whose system may really stop have an explicit step for "nothing moves any
more", so that every other dead end is reported as a deadlock.

## Findings

- `originals_must_pass`: the second run of a verification tests the packages touched
  by the hunks that are left when the edits of existing tests are taken out
  (`phonton-verify:121`, `:1451`).  A candidate that breaks a package and only rewrites
  the tests there keeps its Pass, and the originals never run, though the comment at
  `phonton-verify:109` says they must pass.  What does hold is `PassIsEarned`: the
  tests it did not write pass in every package in which it changes more than tests.
- `batch_recoverable`: a temporary of Apply gets its recorded name before its
  bytes; a kill or a full disk in between leaves a file that both Apply and
  Rollback refuse for good.  Every other interruption of a batch is recoverable
  (`InterruptionsRecoverable`, `CommandsCarryOn`).

Seen while reading, and built into the models as the code has it
(`orchestrator` is `phonton-orchestrator/src/lib.rs`, and so on):

- With `MAX_RETRIES_PER_TIER = 1` the first failed verification escalates; the
  retry that `orchestrator:40` describes never happens (`orchestrator:1270`).
  `DispatchesBounded` states the two attempts per tier of that comment as the bound
  they are meant to be; the code stays below it.
- A worker's panic is only logged (`orchestrator:721`): its subtask stays Dispatched,
  its dependents wait, and the run ends in Reviewing, which `phonton-types:293` and
  `orchestrator:483` call a run whose subtasks all finished.  `ReviewingIsAccounted`
  says what is left over then, `ReviewingCompletes` that without a lost worker the
  plan was done.
- After a budget pause, subtasks that become ready are still started: the guard at
  the top of the loop is `failure`, not `paused` (`orchestrator:629`, `:69`).
- `next_seq` is consumed when a write or commit fails (`orchestrator:778`).  When a
  pause hides that failure, the stored snapshot asks for a parent checkpoint that
  does not exist, and the resumed run can never commit.
- Without a repository nothing is checkpointed, and a resumed run fails on what was
  completed (`orchestrator:762`).
- A resumed run's guard counts from zero (`orchestrator:754`); the charge of a failed
  dispatch is a difference of totals that holds other workers' progress too
  (`orchestrator:903`).
- When a task puts a file back to its HEAD content, a reject does not restore the
  user's earlier edit, though it is in the snapshot (`phonton-diff:338`, `:116`).  What
  the user types while a task works on the file can be staged as the task's text
  and thrown away; `RejectKeepsUserWork` speaks of the edits before and after only.
- The stop after repeated verifier signatures is never reached: the counter goes to
  two at most (`phonton-worker:1093`).
- A stale lock is removed by name: two verifications that both find it stale may
  both take the cache root (`phonton-verify:480`); `LockProtects` and `PassIsEarned` leave
  that case out.  Tests are known by their path, so that assertions inside a source
  file can be rewritten by the candidate (`phonton-verify:113`).  The fingerprint knows
  linked dependencies by their target only (`:225`).  A store error of the decisions
  layer becomes Unavailable, not Escalate as `:834` says.
- A direct retry that `search.rs:33` decides on is refused by the reserve for a later
  call (`local_run.rs:1015`) when the tokens suffice for one call only.
- Weights replaced and put back during a calibration pass its last check
  (`runtime.rs:1444`); `SelectionInv` counts replacements and claims nothing beyond one.
  A kill between the deletion of a model and the save leaves its calibrations.
- A setup that passed its first look still starts a second runtime while the first
  one's runs, and only then refuses (`provision.rs:1686` says otherwise).  A cancelled extraction
  outlives the lease and, unlike a hash, is not waited for.  A staging directory cut
  off before its marker is never cleaned up.  The extracted files are not synced
  before they are published.  A runtime whose setup was killed blocks the next
  setup until somebody stops it.

`docs/local-harness-reference.md:360` admits the window between the last check and
the replacement of a file that `UserEditsKept` allows.

## Proofs

The theorems of eight modules hold for all values of the constants; TLC checks the same
definitions on the instances above.

`OrchestratorProofs` proves every safety property of the runs of `Orchestrator`
from `PlanAssumption` (the plan is finite and acyclic, as `build_graph` checks),
`TierAssumption` and `ModeAssumption`.  The inductive invariant is
`TypeOK /\ WorkersInv /\ DiskInv`.
`OneWorkerPerSubtask` is inductive only together with the phase of the loop
(`WorkersInv`: between the join and the verdict the subtask is Dispatched without
a task).  `DependenciesApplied` speaks of the disk while the scheduler looks at
`status`, so `DiskInv` links the two: outside the checkpoint loop a Done subtask
is checkpointed, and a checkpointed one that is Done was written once.  On top
of it stand `ChainInv` (refs, checkpoints and `nextSeq`), `ReportInv` (what can
be left over at the end), `SpawnedInv` and `LadderInv` (tier, escalations,
attempts and dispatches of one subtask).  `StepCases` reduces `Next` to the
actions, and `VerdictSettles`, `JoinSettles`, `VerifySettles` reduce every verdict
to one of three effects on one subtask, so that each invariant is checked
against few cases.

Two of its theorems are about whole runs.  `RunsAreFinite` gives what of termination needs
no fairness: `StepsLeft`, a natural number that starts below a bound computed from the size
of the plan and the height of the ladder, is lowered by every step.  It counts the workers
that may still be spawned or joined as a set of pairs (subtask, number), so that spawning
moves a pair from one set to the other; a join takes a pair out for good.  The bound on
dispatches (`LadderInv`) keeps every pair in the finite ladder, and `RunsInv` says that a
task in the set is not numbered beyond what its subtask was given, so that a new one is a
new pair.  `RunReturns` adds, for TLC, that under fairness the steps are taken.
`RunsKeepPromise` is the refinement of `RunPromise`: `DiskInv` gives the order of the writes
and that each comes once (`WritesShow`), `AnswerInv` that there is no answer before the end
and what a pause presupposes (`EndShows`); every other action is a failure or a stutter. The
promise lets a diff be written after a failure, since the checkpoint loop goes on with what
was verified before it, and a pause hide a failure, since the code does both.

The second half of `OrchestratorProofs` proves every safety property of the run of
`HeadlessGoal`: `GoalRecordsConsistent`, `GoalsDeliveredInFull`, `ProgressIsKept` and
`ResumeRedoesNothingEver`.  A run that starts from a snapshot is no run of
`Orchestrator`'s `Init`, so the invariants of the loop are restated in the form in which a
resume establishes them.  `WrittenInv` says what is Done and not written: only what the
checkpoint loop has still to write or left behind when it failed or was cut off.
`PauseInv` says why the snapshot of a paused run claims nothing that is missing on disk:
a run that paused has at most one diff to write, and writes it before anything else
can end it.  `RefsInv` ties the checkpoints to the subtasks that are Done and written,
`ResumedInv` keeps what the run was resumed with Done, `OnceInv` says that while nothing has
failed or was cut off whatever was written is Done in the run and then in the snapshot, and
`DeliveryInv` and `StoreInv` follow the end of the run into the task row and the snapshot.
`SnapshotAssumption` says that the absence of a snapshot is none.

`TokenMeterProofs` proves `WorkersKeepPromise`: the workers of `TokenMeter`, under
the loop that re-dispatches and loses them, implement `WorkerPromise`.  The initial
states correspond, and with the invariants `WorkersCounted` (calls and attempts
keep their bounds) and `VerifiedIsIdle` (the subtask in the hands of the loop has no
worker) every step is a step of the promise or changes nothing of it.
Its second half builds on that and proves `MeterStaysExact`.  Its invariant says where every
token is: what a worker has spent is in the meter or, unless a message was
dropped, in its last progress message in the channel; a worker that is gone and
not late has nothing in the channel; and while a worker runs, `committed` is what the
earlier dispatches spent.
The last part proves `GuardStaysExact` on top of that: `Charged` says that between a join and its
account the guard and the usage of that result together are the sum of what is committed,
that an estimate makes the guard no smaller than that sum, and that the guard is under the ceiling or
nothing was charged.  The exception for nothing is real: a `max_tokens` of 0 is accepted,
and a run whose workers were all lost before they spent anything ends without a pause.
`Sum` is recursive over the finite set of subtasks (`MeterAssumption`: a plan is a list), and
`SumGrows` and `SumAdded` are what the proof needs of it.

`DiffProofs` follows a diff through verification into the repository.  For `Verification` it
proves `LockFileProtects` and `VerdictsAreTrue`.  `HolderInv` says whose
the lock file is: a killed process's, or that of a verification on the cache root, and of the
only one there until a stale lock has been taken over.  `CopyInv` follows the copy from the
lock to the answer: undisturbed, a verification finds in it what it patched, and the
fingerprint it looks up and later stores was read from that, with the packages of the
hunks of this run.  What may disturb it (a
takeover, a pruning beside a use) is what the two properties exempt, and the run
`MCVerification` reaches those cases.

For `DiffApplier` it proves all three properties of the run: `SnapshotsAreOlder`,
`RejectsAreComplete` and `RejectsSpareTheUser`.  Neither of the first two is inductive.
`PathsInv` says which paths are the task's: a subtask at work has recorded its paths, so
checkpoints and a restore stay on recorded ones.  `TaskLinesInv` needs that to say that an unrecorded
path holds no line of the task in the file, in the index, or in the index that the applier
has in memory and will write back, and that a restore has taken the lines from the paths
it is done with.  `UserLinesInv` follows the user's lines: what is staged of an unrecorded path is in
its file too, so that the snapshot has every early line of a path, wherever it is found
later; and a checkpoint holds no line that was typed after it, so that a file equal to the
last checkpoint, which a restore requires, holds none of the late ones.
`ApplierAssumption` says that the lines of HEAD, of the user and of the task are different ones.

`LocalRunProofs` proves all four properties of the run of `LocalRun`: `ReviewsAreEarned`,
`NoReviewOfTheChanged`, `BudgetIsKept` and `NoContentTwice`, from `RunAssumption`, which says
what the admission of a run checks of its budget.  `CandidatesInv` collects the evidence: every
candidate comes from an earlier one, its content is known, and in a mixed creation a
candidate from which the search may go on has the new file.  `RoundInv` says what the round
under way relies on between the decision and the verdict, and `SelectionInv` that nothing is
selected before the loop is left, that a selection is of the last and complete
candidate, and that what had changed by then is found by the observations of the end.  `CallsInv` and
`ChecksInv` hold the calls, tokens and check runs that the stages ahead have been promised;
without them no reservation would be within the budget.  `Decides` states what
`search::next` may go on from, and `StepCases` reduces `Next` to the effects of the steps on
the fields of the receipt.

`LocalApplyProofs` proves `JournalAgreesWithDisk`, `EveryInterruptionRecovers` and
`EditsOfTheUserAreKept`, for every changeset.  `BatchInv` orders the edits of existing
files: before the journal nothing was written, with it every original is saved, and what the
journal's state says of all files holds of each, in memory and on the durable disk.
`CreationInv` does it for the new file: anchor, identity, attempt, link and marker are each
there only after the one before.  `ApplyAt`, `RollbackAt` and `FileAt` say what a command
relies on at each of its steps, between the check of a file and its replacement too.  A loss
of power keeps of each view what was synced, and the invariant is stated of both views so
that it survives that.  `InterruptionsRecoverable` promises the rollback of a created file
`OnWindows` only: elsewhere the code refuses it. `CommandsMeetTheirChecks` proves the first
part of `CommandsCarryOn`: a command left alone meets every later check of its own
(`StepAhead` lists the guards by where the command stands). `CarryInv` says what the
invariant above need not: which steps are whose (`OpAt`), that only the temporary being
written is torn (`TornAt`), that New is published when the command takes it to be (`NewAt`),
which files are replaced already (`DoneAt`), and that what is to be replaced has its
temporary (`TempAt`).

`ModelManagerProofs` proves `LeaseProtects`, `SelectionsAreMeasured` and
`NothingIsForgotten` from one
invariant about every process: an operation that works holds the lease and its copy
is the file, so no other operation can disturb it, and at each of its steps it knows
of its copy what its next save relies on.  For a calibration that is: without a
replacement so far the weights have the digest that was read first, after exactly
one they have another one, which the recheck sees.  `Recorded` adds what the file itself must
say: `Good` is a file that `load` takes, and `Formed` that a model whose download may have been asked for is
among the attempts until it is confirmed.  `WithoutKeeps` and `RecentKeeps` say
what the filter and the cap leave of that list.

`RuntimeProofs` proves `PublishesPinned`, `OnlyOwnIsRemoved`, `BindsTheStarted` and
`FolderIsReusable`.
`FolderInv` says that whoever works in the folder holds the lease, so that what a setup
found or wrote in its staging directory (`Fits`) is there when it uses it, and that
no worker of a cancelled setup writes into a directory that a later one unpacks
(`Apart`).  `LaunchInv` follows the programs: a child keeps its identifier until its setup
is over, a started runtime keeps the port until it ends, and the receipt's start
is the runtime's or past.  `ResumeInv` holds as long as the user changes nothing and the
right bytes come: at most one download can be resumed, and none while a setup, having found
none, is about to begin one (`Seeking`), which is what keeps the second one out.  `SetupAssumption` says besides the sizes only that `None`
is none of the names.

`LocalGoalsProofs` proves the four properties of its run: `RunsTheReviewed`,
`ShowsTheFinished`, `TellsTheTruth` and `EvidenceStaysPut`.  The invariant `IInv` has a part for the
disk, one for the sidecar's State, and `Own`, which says of one actor what its task relies
on.  `PlaceInv` is the reason that evidence stays: the evidence of a run is in one place, and a chosen folder
that has any is marked as used and remains the chosen one.  `StepOf` does the
argument about the others once: whoever works on a run holds the lease, so a step of
an actor that neither holds it nor finds it free changes nothing they rely on.  `FinishInv` links an end
record that says reviewed to what the run returned, and
`DeskInv` the State to the end record, so that both answers about a run agree; `StopInv`
does it for a run that stopped, on top of the fact that no step rewrites an end (`Kept`).
`GoalsAssumption` says that requests are no shells, that the state's own folder is none of the
chosen ones, and that `None` is none of the names.

No induction theorem with a predicate as its parameter can be used here.  The two lemmas about recursive
functions, `PartialExists` with `PartialAdded` for `Sum` and `KeepsExists` with `WithoutKeeps` for
`Without`, are proved by a smallest counterexample instead: the set of
counterexamples has a least number or a minimal set (`LeastNatural`, `SmallestSubset`, from
the library's well-foundedness theorems about sets), which the step refutes.

Only model-checked: liveness (`RunReturns`), and the second part of `CommandsCarryOn`, which
says that the guards listed in `StepAhead` are those of `ENABLED Command`.

## Plan

In this order:

1. The approval of a local plan, bound to the hash of what was shown.
2. `PlanNormalize`: the algorithm against a reference definition.
3. MCP approvals, the trust file.
4. Two processes on one working tree: two resumes of one paused run
   (`phonton-cli/src/main.rs:5955`), a verification that copies while a diff is
   written (`phonton-verify/src/lib.rs:525`), forced checkpoint refs
   (`phonton-diff/src/lib.rs:269`).
5. The goal flow of the terminal interface with a provider's model.

## Not modelled

Providers, indexing, memory ranking, rendering, configuration and reports hold
no state whose order matters, or are pure I/O.  `CrateLock` and the warm-crate
table have no caller outside their own crates.  The node and browser layers of
the verification run external programs one after the other.  npm packaging,
benchmarks and fixtures are not part of the program.
