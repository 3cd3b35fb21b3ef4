---------------------------- MODULE Orchestrator ----------------------------
(***************************************************************************)
(* The DAG executor of phonton-orchestrator: one call of                   *)
(* Orchestrator::run_task (src/phonton-orchestrator/src/lib.rs).           *)
(*                                                                         *)
(* run_task is one sequential future that keeps a map of SubtaskRuntime    *)
(* records and a JoinSet of worker tasks.  It dispatches every subtask     *)
(* whose dependencies are Done, waits for one worker to finish, verifies   *)
(* its diff, applies the verdict (done, escalate and re-dispatch, fail),   *)
(* writes and checkpoints what is newly Done, lets the budget guard pause  *)
(* the run, and goes round again.  The workers run on other threads, so    *)
(* they move between any two steps of the loop.                            *)
(*                                                                         *)
(* "phase" is the loop's program counter:                                  *)
(*   schedule    top of the loop: schedule_ready and the exit test         *)
(*   select      waiting in tokio::select! for a worker                    *)
(*   verifying   awaiting verify_diff_with_checks for "current"            *)
(*   checkpoint  the loop over the newly Done subtasks                     *)
(*   budget      the budget guard and the hard-fail propagation            *)
(*   finish      after the loop                                            *)
(*   ended       run_task has returned "terminal"                          *)
(*                                                                         *)
(* What a diff contains, what a check prints, prices and tokens are left   *)
(* out: a worker's outcome, a verdict, whether a write or a commit works   *)
(* and whether the guard asks for a pause are chosen nondeterministically. *)
(***************************************************************************)
EXTENDS Naturals, Sequences, FiniteSets

CONSTANTS
    Subtask,            \* the subtasks of the normalised plan
    NoSubtask,          \* "no subtask" (the None of the code's Options)
    Deps,               \* the edges of the DAG: what each subtask waits for
    PlannedTier,        \* the effective tier of each subtask: 0 = Local
    TopTier,            \* the last tier (Frontier)
    MaxRetriesPerTier,  \* MAX_RETRIES_PER_TIER
    MaxEscalations,     \* MAX_ESCALATIONS
    UseGit,             \* a DiffApplier is attached (the workspace is a repo)
    HasBudget           \* a BudgetGuard with a ceiling is attached

(***************************************************************************)
(* build_graph refuses a plan with an unknown dependency or a cycle, so a  *)
(* run starts only on a DAG: every non-empty set of subtasks has a member  *)
(* that waits for none of the others.  A plan is a list, so it is finite.  *)
(***************************************************************************)
AcyclicPlan ==
    \A S \in SUBSET Subtask : S # {} => \E s \in S : Deps[s] \cap S = {}

ASSUME PlanAssumption ==
    /\ IsFiniteSet(Subtask)
    /\ NoSubtask \notin Subtask
    /\ Deps \in [Subtask -> SUBSET Subtask]
    /\ AcyclicPlan

ASSUME TierAssumption ==
    /\ TopTier \in Nat
    /\ PlannedTier \in [Subtask -> 0 .. TopTier]
    /\ MaxRetriesPerTier \in Nat \ {0}
    /\ MaxEscalations \in Nat

ASSUME ModeAssumption == UseGit \in BOOLEAN /\ HasBudget \in BOOLEAN

VARIABLES
    phase,          \* where the run_task future stands
    status,         \* rt.status of each subtask
    tier,           \* rt.subtask.model_tier
    attempts,       \* rt.attempts_at_tier
    escalations,    \* rt.escalations
    dispatches,     \* length of rt.route: workers spawned in this run
    joinset,        \* the worker tasks not yet joined
    current,        \* the subtask whose diff is being verified
    checkpointed,   \* the subtasks the checkpoint loop has dealt with
    checkpoints,    \* the checkpoints taken, in order
    nextSeq,        \* next_seq
    failure,        \* the subtask the task failed on, or NoSubtask
    paused,         \* the budget guard paused the run
    terminal,       \* the TaskStatus run_task returned
    refs,           \* the checkpoint refs of the task in the repository
    applied         \* how often a verified diff of a subtask was written

runtimeVars == <<status, tier, attempts, escalations, dispatches>>
diskVars    == <<refs, applied>>
recordVars  == <<checkpointed, checkpoints, nextSeq>>
verdictVars == <<failure, paused, terminal>>
vars == <<phase, joinset, current, runtimeVars, recordVars, verdictVars, diskVars>>

-----------------------------------------------------------------------------
(***************************************************************************)
(* How a worker task ends.                                                 *)
(*   done         a SubtaskResult that is not Failed: to be verified       *)
(*   failed       a Failed SubtaskResult (no usable diff)                  *)
(*   unavailable  a Failed result whose own checks could not run           *)
(*   error        dispatch returned Err (provider error, I/O)              *)
(*   panicked     the task panicked: a JoinError                           *)
(*   cancelled    the task was aborted: a JoinError                        *)
(***************************************************************************)
Outcome == {"done", "failed", "unavailable", "error", "panicked"}

Task == [id : Subtask, run : Nat \ {0},
         state : {"running", "cancelled"} \cup Outcome, aborted : BOOLEAN]

NewTask(s, n) == [id |-> s, run |-> n, state |-> "running", aborted |-> FALSE]

\* JoinSet::abort_all reaches the tasks that have not finished yet.
AbortAll(js) ==
    {IF t.state = "running" THEN [t EXCEPT !.aborted = TRUE] ELSE t : t \in js}

(***************************************************************************)
(* The start of run_task on a ResumeCheckpoint r (NoResume for a new       *)
(* goal).  The runtimes are built afresh; a completed subtask is Done      *)
(* without a diff, a subtask all of whose dependencies are Done is Ready.  *)
(***************************************************************************)
NoResume == [completed |-> {}, checkpoints |-> <<>>, nextSeq |-> 1]

Completed(r) == r.completed \cap Subtask

\* Faulty: the completed subtasks of the checkpoint are not restored.
InitialStatusForgets(r) ==
    [s \in Subtask |-> IF Deps[s] = {} THEN "Ready" ELSE "Queued"]

InitialStatus(r) ==
    [s \in Subtask |-> IF s \in Completed(r) THEN "Done"
                       ELSE IF Deps[s] \subseteq Completed(r) THEN "Ready"
                       ELSE "Queued"]

CheckpointedSubtasks(cps) == {cps[i].subtask : i \in DOMAIN cps}

Zero == [s \in Subtask |-> 0]

(***************************************************************************)
(* The confidence gate: an under-specified goal fails before anything is   *)
(* dispatched.                                                             *)
(***************************************************************************)
Init ==
    /\ status = InitialStatus(NoResume)
    /\ tier = PlannedTier
    /\ attempts = Zero
    /\ escalations = Zero
    /\ dispatches = Zero
    /\ joinset = {}
    /\ current = NoSubtask
    /\ checkpointed = {}
    /\ checkpoints = <<>>
    /\ nextSeq = 1
    /\ failure = NoSubtask
    /\ paused = FALSE
    /\ refs = {}
    /\ applied = Zero
    /\ \/ phase = "schedule" /\ terminal = "None"
       \/ phase = "ended" /\ terminal = "Failed"

-----------------------------------------------------------------------------
(***************************************************************************)
(* The workers.                                                            *)
(***************************************************************************)
Running(t) == t \in joinset /\ t.state = "running" /\ phase # "ended"

Settle(t, o) == joinset' = (joinset \ {t}) \cup {[t EXCEPT !.state = o]}

WorkerFinishes(t) ==
    /\ Running(t)
    /\ \E o \in Outcome : Settle(t, o)
    /\ UNCHANGED <<phase, current, runtimeVars, recordVars, verdictVars, diskVars>>

\* An aborted task is cancelled at its next await, unless it finishes first.
WorkerCancelled(t) ==
    /\ Running(t)
    /\ t.aborted
    /\ Settle(t, "cancelled")
    /\ UNCHANGED <<phase, current, runtimeVars, recordVars, verdictVars, diskVars>>

-----------------------------------------------------------------------------
(***************************************************************************)
(* Top of the loop: while the task has not failed, schedule_ready promotes *)
(* every Queued subtask whose dependencies are Done and spawns a worker    *)
(* for every Ready one.  The loop is left when nothing is in flight.       *)
(***************************************************************************)
\* Faulty: any instead of all.
AnyDepDone(s) == Deps[s] = {} \/ \E d \in Deps[s] : status[d] = "Done"

DepsDone(s) == \A d \in Deps[s] : status[d] = "Done"

\* Faulty: an active subtask is taken for a runnable one.
RunnableAgain ==
    IF failure # NoSubtask THEN {}
    ELSE {s \in Subtask : status[s] \in {"Ready", "Queued", "Dispatched"} /\ DepsDone(s)}

\* Faulty: the scheduler does not look at the failure of the task.
RunnableAfterFailure ==
    {s \in Subtask : status[s] = "Ready" \/ (status[s] = "Queued" /\ DepsDone(s))}

Runnable ==
    IF failure # NoSubtask THEN {}
    ELSE {s \in Subtask : \/ status[s] = "Ready"
                          \/ status[s] = "Queued" /\ DepsDone(s)}

SpawnedTasks(S) == {NewTask(s, dispatches[s] + 1) : s \in S}

ScheduleReady ==
    /\ phase = "schedule"
    /\ status' = [s \in Subtask |-> IF s \in Runnable THEN "Dispatched" ELSE status[s]]
    /\ dispatches' = [s \in Subtask |->
                        IF s \in Runnable THEN dispatches[s] + 1 ELSE dispatches[s]]
    /\ joinset' = joinset \cup SpawnedTasks(Runnable)
    /\ phase' = IF joinset' # {} \/ \E s \in Subtask : status'[s] = "Dispatched"
                  THEN "select" ELSE "finish"
    /\ UNCHANGED <<tier, attempts, escalations, current, recordVars, verdictVars, diskVars>>

\* Faulty: the loop goes round instead of leaving.
SelectDrainedLoops ==
    /\ phase = "select"
    /\ joinset = {}
    /\ phase' = "schedule"
    /\ UNCHANGED <<joinset, current, runtimeVars, recordVars, verdictVars, diskVars>>

\* join_next on an empty JoinSet: the loop is left with a subtask still active.
SelectDrained ==
    /\ phase = "select"
    /\ joinset = {}
    /\ phase' = "finish"
    /\ UNCHANGED <<joinset, current, runtimeVars, recordVars, verdictVars, diskVars>>

-----------------------------------------------------------------------------
(***************************************************************************)
(* apply_verdict for subtask s, on top of the join set js (the joined task *)
(* taken out).                                                             *)
(***************************************************************************)
\* Faulty: the top tier is not a ceiling.
CanEscalateForever(s) == escalations[s] < MaxEscalations

CanEscalate(s) == tier[s] < TopTier /\ escalations[s] < MaxEscalations

Conclude(s, st, js) ==
    /\ status' = [status EXCEPT ![s] = st]
    /\ joinset' = js
    /\ UNCHANGED <<tier, escalations, dispatches>>

\* spawn_worker from inside apply_verdict: not guarded by failure or paused.
Redispatch(s, js) ==
    /\ status' = [status EXCEPT ![s] = "Dispatched"]
    /\ dispatches' = [dispatches EXCEPT ![s] = @ + 1]
    /\ joinset' = js \cup {NewTask(s, dispatches[s] + 1)}

EscalateAndRedispatch(s, js) ==
    /\ tier' = [tier EXCEPT ![s] = @ + 1]
    /\ attempts' = [attempts EXCEPT ![s] = 0]
    /\ escalations' = [escalations EXCEPT ![s] = @ + 1]
    /\ Redispatch(s, js)

VerdictPass(s, js) == Conclude(s, "Done", js) /\ UNCHANGED attempts

VerdictUnavailable(s, js) == Conclude(s, "Failed", js) /\ UNCHANGED attempts

\* Faulty: the tier is tried again as if its attempts had not been counted.
VerdictFailUncounted(s, js) ==
    \/ Redispatch(s, js) /\ UNCHANGED <<tier, attempts, escalations>>
    \/ CanEscalate(s) /\ EscalateAndRedispatch(s, js)
    \/ ~CanEscalate(s) /\ UNCHANGED attempts /\ Conclude(s, "Failed", js)

VerdictFail(s, js) ==
    LET attempt == attempts[s] + 1
    IN  \/ /\ attempt < MaxRetriesPerTier
           /\ attempts' = [attempts EXCEPT ![s] = attempt]
           /\ Redispatch(s, js)
           /\ UNCHANGED <<tier, escalations>>
        \/ /\ attempt >= MaxRetriesPerTier
           /\ CanEscalate(s)
           /\ EscalateAndRedispatch(s, js)
        \/ /\ attempt >= MaxRetriesPerTier
           /\ ~CanEscalate(s)
           /\ attempts' = [attempts EXCEPT ![s] = attempt]
           /\ Conclude(s, "Failed", js)

VerdictEscalate(s, js) ==
    \/ CanEscalate(s) /\ EscalateAndRedispatch(s, js)
    \/ ~CanEscalate(s) /\ Conclude(s, "Failed", js) /\ UNCHANGED attempts

-----------------------------------------------------------------------------
(***************************************************************************)
(* The select! of the loop joins a finished worker.                        *)
(***************************************************************************)
Joined(t, o) == phase = "select" /\ t \in joinset /\ t.state = o

\* A panic or a cancellation only logs a warning: the loop goes round, and
\* the runtime of the subtask stays Dispatched.
JoinError(t) ==
    /\ Joined(t, "panicked") \/ Joined(t, "cancelled")
    /\ joinset' = joinset \ {t}
    /\ phase' = "schedule"
    /\ UNCHANGED <<current, runtimeVars, recordVars, verdictVars, diskVars>>

\* dispatch returned Err: fail_subtask, without escalation.
JoinDispatchErr(t) ==
    /\ Joined(t, "error")
    /\ phase' = "checkpoint"
    /\ Conclude(t.id, "Failed", joinset \ {t})
    /\ UNCHANGED <<attempts, current, recordVars, verdictVars, diskVars>>

\* handle_completion of a Failed result: no diff to verify.
JoinFailed(t) ==
    /\ \/ Joined(t, "failed") /\ VerdictEscalate(t.id, joinset \ {t})
       \/ Joined(t, "unavailable") /\ VerdictUnavailable(t.id, joinset \ {t})
    /\ phase' = "checkpoint"
    /\ UNCHANGED <<current, recordVars, verdictVars, diskVars>>

\* handle_completion of a diff, up to the await of the verification.
JoinDone(t) ==
    /\ Joined(t, "done")
    /\ phase' = "verifying"
    /\ current' = t.id
    /\ joinset' = joinset \ {t}
    /\ UNCHANGED <<runtimeVars, recordVars, verdictVars, diskVars>>

\* The verification returns Pass, Fail, Unavailable or NotRun (never Escalate),
\* or Err, which fails the subtask as Unavailable does.
VerifyDiff ==
    /\ phase = "verifying"
    /\ \/ VerdictPass(current, joinset)
       \/ VerdictFail(current, joinset)
       \/ VerdictUnavailable(current, joinset)
    /\ current' = NoSubtask
    /\ phase' = "checkpoint"
    /\ UNCHANGED <<recordVars, verdictVars, diskVars>>

-----------------------------------------------------------------------------
(***************************************************************************)
(* The checkpoint loop: each iteration takes a newly Done subtask, gives   *)
(* it the next sequence number, writes its diff and (with git) commits a   *)
(* checkpoint.  A subtask that was completed before a resume has no diff   *)
(* in this run, and an empty diff cannot be applied.  A step that fails    *)
(* fails the subtask and the task and leaves the loop.                     *)
(***************************************************************************)
NewlyDone == {s \in Subtask : status[s] = "Done" /\ s \notin checkpointed}

HasDiff(s) == dispatches[s] > 0

\* Faulty: the previous ref is not looked up.
ParentRefIgnored == TRUE

\* commit_checkpoint builds on the previous checkpoint's ref, except for 1.
ParentRefExists == nextSeq = 1 \/ nextSeq - 1 \in refs

\* Faulty: the subtask is not marked as checkpointed.
TakeNextUnmarked(s) ==
    /\ phase = "checkpoint"
    /\ s \in NewlyDone
    /\ nextSeq' = nextSeq + 1
    /\ UNCHANGED <<checkpointed, joinset, current, tier, attempts, escalations,
                   dispatches, paused, terminal>>

TakeNext(s) ==
    /\ phase = "checkpoint"
    /\ s \in NewlyDone
    /\ nextSeq' = nextSeq + 1
    /\ checkpointed' = checkpointed \cup {s}
    /\ UNCHANGED <<joinset, current, tier, attempts, escalations, dispatches, paused, terminal>>

Write(s) == applied' = [applied EXCEPT ![s] = @ + 1]

CheckpointTaken(s) ==
    /\ TakeNext(s)
    /\ HasDiff(s)
    /\ Write(s)
    /\ IF UseGit
         THEN /\ ParentRefExists
              /\ refs' = refs \cup {nextSeq}
              /\ checkpoints' = Append(checkpoints, [subtask |-> s, seq |-> nextSeq])
         ELSE UNCHANGED <<refs, checkpoints>>
    /\ UNCHANGED <<phase, status, failure>>

\* Faulty: a failed write is logged and forgotten.
FailTaskSwallowed(s) ==
    /\ s \in Subtask
    /\ phase' = "budget"
    /\ UNCHANGED <<status, failure>>

FailTask(s) ==
    /\ status' = [status EXCEPT ![s] = "Failed"]
    /\ failure' = s
    /\ phase' = "budget"

\* record_pre_task_state or the application of the hunks fails.
ApplyFails(s) ==
    /\ TakeNext(s)
    /\ FailTask(s)
    /\ UNCHANGED <<checkpoints, diskVars>>

\* The hunks are written, and the checkpoint commit fails.
CommitFails(s) ==
    /\ TakeNext(s)
    /\ UseGit /\ HasDiff(s)
    /\ Write(s)
    /\ FailTask(s)
    /\ UNCHANGED <<checkpoints, refs>>

NoneNewlyDone ==
    /\ phase = "checkpoint"
    /\ NewlyDone = {}
    /\ phase' = "budget"
    /\ UNCHANGED <<joinset, current, runtimeVars, recordVars, verdictVars, diskVars>>

-----------------------------------------------------------------------------
(***************************************************************************)
(* End of the iteration: the budget guard may pause the run, then a Failed *)
(* subtask fails the task.  Both abort the workers in flight; a failure    *)
(* the checkpoint loop has already recorded does neither.                  *)
(***************************************************************************)
FailedSubtasks == {s \in Subtask : status[s] = "Failed"}

\* Faulty: no hard-fail propagation.
CheckBudgetOnly ==
    /\ phase = "budget"
    /\ \E pause \in BOOLEAN :
         /\ pause => HasBudget /\ failure = NoSubtask /\ ~paused
         /\ paused' = (paused \/ pause)
         /\ joinset' = IF pause THEN AbortAll(joinset) ELSE joinset
    /\ phase' = "schedule"
    /\ UNCHANGED <<current, runtimeVars, recordVars, failure, terminal, diskVars>>

CheckBudget ==
    /\ phase = "budget"
    /\ \E pause \in BOOLEAN :
         /\ pause => HasBudget /\ failure = NoSubtask /\ ~paused
         /\ paused' = (paused \/ pause)
         /\ LET fails == failure = NoSubtask /\ FailedSubtasks # {}
            IN  /\ IF fails THEN failure' \in FailedSubtasks ELSE UNCHANGED failure
                /\ joinset' = IF pause \/ fails THEN AbortAll(joinset) ELSE joinset
    /\ phase' = "schedule"
    /\ UNCHANGED <<current, runtimeVars, recordVars, terminal, diskVars>>

\* Faulty: a failure is not reported.
EndRunIgnoresFailure ==
    /\ phase = "finish"
    /\ terminal' = IF paused THEN "Paused" ELSE "Reviewing"
    /\ phase' = "ended"
    /\ UNCHANGED <<joinset, current, runtimeVars, recordVars, failure, paused, diskVars>>

\* A pause takes priority over a failure, and a failure over success.
EndRun ==
    /\ phase = "finish"
    /\ terminal' = IF paused THEN "Paused"
                   ELSE IF failure # NoSubtask THEN "Failed" ELSE "Reviewing"
    /\ phase' = "ended"
    /\ UNCHANGED <<joinset, current, runtimeVars, recordVars, failure, paused, diskVars>>

-----------------------------------------------------------------------------
WorkerStep(s) == \E t \in joinset : t.id = s /\ (WorkerFinishes(t) \/ WorkerCancelled(t))

JoinNext == \E t \in joinset :
    JoinError(t) \/ JoinDispatchErr(t) \/ JoinFailed(t) \/ JoinDone(t)

TakeCheckpoint == \E s \in Subtask :
    CheckpointTaken(s) \/ ApplyFails(s) \/ CommitFails(s)

LoopStep ==
    \/ ScheduleReady \/ SelectDrained \/ JoinNext \/ VerifyDiff
    \/ TakeCheckpoint \/ NoneNewlyDone \/ CheckBudget \/ EndRun

\* run_task has returned: nothing moves any more.
Returned == phase = "ended" /\ UNCHANGED vars

RunStep == LoopStep \/ \E s \in Subtask : WorkerStep(s)

Next == RunStep \/ Returned

(***************************************************************************)
(* tokio polls the run_task future and every worker task that can move; a  *)
(* worker's provider calls, checks and attempts (MAX_ATTEMPTS) are bounded *)
(* in time, and so is the verification.                                    *)
(***************************************************************************)
Fairness ==
    /\ WF_vars(LoopStep)
    /\ \A s \in Subtask : WF_vars(WorkerStep(s))

Spec == Init /\ [][Next]_vars /\ Fairness

-----------------------------------------------------------------------------
(***************************************************************************)
(* Type invariant.                                                         *)
(***************************************************************************)
SubtaskStatus == {"Queued", "Ready", "Dispatched", "Done", "Failed"}

Phase == {"schedule", "select", "verifying", "checkpoint", "budget", "finish", "ended"}

Checkpoint == [subtask : Subtask, seq : Nat \ {0}]

TypeOK ==
    /\ phase \in Phase
    /\ status \in [Subtask -> SubtaskStatus]
    /\ tier \in [Subtask -> 0 .. TopTier]
    /\ attempts \in [Subtask -> Nat]
    /\ escalations \in [Subtask -> 0 .. MaxEscalations]
    /\ dispatches \in [Subtask -> Nat]
    /\ joinset \subseteq Task
    /\ current \in Subtask \cup {NoSubtask}
    /\ checkpointed \subseteq Subtask
    /\ checkpoints \in Seq(Checkpoint)
    /\ nextSeq \in Nat \ {0}
    /\ failure \in Subtask \cup {NoSubtask}
    /\ paused \in BOOLEAN
    /\ terminal \in {"None", "Paused", "Failed", "Reviewing"}
    /\ refs \subseteq Nat \ {0}
    /\ applied \in [Subtask -> Nat]

-----------------------------------------------------------------------------
(***************************************************************************)
(* Safety.                                                                 *)
(***************************************************************************)

\* A subtask never has two workers: the JoinSet holds at most one task of it,
\* none while its diff is being verified, and only while it is Dispatched.  A
\* re-dispatch that raced the scheduler would bill and write it twice.
OneWorkerPerSubtask ==
    /\ \A t, u \in joinset : t.id = u.id => t = u
    /\ \A t \in joinset : status[t.id] = "Dispatched" /\ t.id # current
    /\ phase = "verifying" => current \in Subtask /\ status[current] = "Dispatched"

\* A worker only ever works on a workspace that holds the verified diffs of all
\* its dependencies, whatever failed, paused or escalated meanwhile.
DependenciesApplied ==
    \A t \in joinset : \A d \in Deps[t.id] : applied[d] > 0

\* The checkpoints form one unbroken chain of refs 1, 2, ... n, one per subtask,
\* each of a subtask that is Done and written: what a reject walks back over.
CheckpointChain ==
    /\ refs = 1 .. Len(checkpoints)
    /\ \A i \in DOMAIN checkpoints :
         LET cp == checkpoints[i]
         IN  cp.seq = i /\ status[cp.subtask] = "Done" /\ applied[cp.subtask] = 1
    /\ \A i, j \in DOMAIN checkpoints :
         checkpoints[i].subtask = checkpoints[j].subtask => i = j

\* The cheap-first ladder is bounded as the doc of MAX_RETRIES_PER_TIER says it
\* ("one retry, i.e. two total attempts at a tier"): a subtask climbs one tier per
\* escalation, and however its checks fail it is never given more workers than
\* MaxRetriesPerTier + 1 for each tier it was at.
DispatchesBounded ==
    \A s \in Subtask :
        /\ tier[s] = PlannedTier[s] + escalations[s]
        /\ dispatches[s] <= (MaxRetriesPerTier + 1) * (escalations[s] + 1)

\* A run that ends in Reviewing leaves no failure behind: every subtask is Done
\* and written, or its worker was lost (it is still Dispatched), or it waits
\* for one that is not Done.
ReviewingIsAccounted ==
    phase = "ended" /\ terminal = "Reviewing" =>
        \A s \in Subtask :
            \/ status[s] = "Done" /\ applied[s] = 1
            \/ status[s] = "Dispatched"
            \/ status[s] = "Queued" /\ ~DepsDone(s)

\* With no worker lost, Reviewing means that every subtask of the plan is Done.
ReviewingCompletes ==
    (phase = "ended" /\ terminal = "Reviewing" /\ \A s \in Subtask : status[s] # "Dispatched")
        => \A s \in Subtask : status[s] = "Done"

-----------------------------------------------------------------------------
(***************************************************************************)
(* Action properties.                                                      *)
(***************************************************************************)

\* A Failed subtask is never revived, and a task that has failed never gives a
\* subtask its first worker.
FailureIsFinal ==
    [][/\ \A s \in Subtask : status[s] = "Failed" => status'[s] = "Failed"
       /\ failure # NoSubtask =>
            /\ failure' # NoSubtask
            /\ \A s \in Subtask : dispatches[s] = 0 => dispatches'[s] = 0]_vars

(***************************************************************************)
(* How many steps a run can still take.  A worker that may still be        *)
(* spawned or has not been joined stands for one round of the loop (five   *)
(* steps), one that may still be spawned or has not finished for one step  *)
(* more, and so does a subtask the checkpoint loop has not dealt with.     *)
(***************************************************************************)
LadderHeight == MaxRetriesPerTier * (MaxEscalations + 1)

Unspawned == {w \in Subtask \X (1 .. LadderHeight) : w[2] > dispatches[w[1]]}

Workers(js) == {<<t.id, t.run>> : t \in js}

PhaseRank ==
    CASE phase = "verifying" -> 6 [] phase = "checkpoint" -> 5 [] phase = "budget" -> 4
      [] phase = "schedule" -> 3 [] phase = "select" -> 2 [] phase = "finish" -> 1
      [] OTHER -> 0

StepsLeft ==
    5 * Cardinality(Unspawned \cup Workers(joinset))
      + Cardinality(Unspawned \cup Workers({t \in joinset : t.state = "running"}))
      + Cardinality(Subtask \ checkpointed)
      + PhaseRank

\* A run cannot go on for ever, however its workers end, whatever is retried,
\* escalated, aborted or lost: every step of the loop and of a worker uses up one
\* of the steps that were left.
EveryStepCounts == [][StepsLeft' < StepsLeft]_vars

(***************************************************************************)
(* What the caller sees of a run: RunPromise.                              *)
(***************************************************************************)
Promise == INSTANCE RunPromise
    WITH written <- applied, failed <- (failure # NoSubtask), outcome <- terminal

\* Whatever fails, is lost, escalates or pauses meanwhile, the caller sees diffs
\* written once each and in the order of the plan, one answer, and nothing after it.
RunKeepsPromise == Promise!Spec

-----------------------------------------------------------------------------
(***************************************************************************)
(* Liveness.                                                               *)
(***************************************************************************)

\* run_task returns, whatever its workers do, and a subtask that failed is
\* reported: the run ends Failed, or Paused.
RunReturns ==
    <>[](phase = "ended" /\ (FailedSubtasks # {} => terminal \in {"Failed", "Paused"}))

=============================================================================
