---------------------------- MODULE HeadlessGoal ----------------------------
(***************************************************************************)
(* A goal run by `phonton goal`: execute_headless_goal in                  *)
(* src/phonton-cli/src/main.rs, around Orchestrator::run_task.             *)
(*                                                                         *)
(* A process runs the plan under a timeout, then records the outcome in    *)
(* the SQLite store: first the task row, then the paused-run snapshot,     *)
(* which a pause writes and a successful end deletes.  A later process     *)
(* (`phonton goal --resume`) starts from the stored snapshot.  The store,  *)
(* the checkpoint refs and the workspace outlive the process; everything   *)
(* else of the run is lost when it stops.                                  *)
(*                                                                         *)
(* "process" is the process that works on the goal:                        *)
(*   running     inside run_task                                           *)
(*   recording   the task row is written, the snapshot is not yet          *)
(*   idle        there is none                                             *)
(***************************************************************************)
EXTENDS Orchestrator

CONSTANTS
    NoSnapshot,     \* no paused run is stored for the task
    MaxRuns         \* bound: how many processes work on the goal

ASSUME RunAssumption == MaxRuns \in Nat \ {0}

\* A stored snapshot: a ResumeCheckpoint of the goal's plan.
Snapshot == [completed : SUBSET Subtask, checkpoints : Seq(Checkpoint), nextSeq : Nat \ {0}]

ASSUME SnapshotAssumption == NoSnapshot \notin Snapshot

VARIABLES
    process,
    runs,           \* processes started so far
    outcome,        \* final_state.task_status, in memory
    taskStatus,     \* status column of the task row
    snapshot,       \* the resume checkpoint of the paused_runs row
    interrupted,    \* history: a run of the goal failed or was cut off
    torn            \* history: a record of the last outcome was lost

storeVars == <<taskStatus, snapshot>>
goalVars  == <<vars, process, runs, outcome, storeVars, interrupted, torn>>

GoalInit ==
    /\ Init
    /\ process = "running"
    /\ runs = 1
    /\ outcome = "Planning"
    /\ taskStatus = "Planning"
    /\ snapshot = NoSnapshot
    /\ interrupted = FALSE
    /\ torn = FALSE

-----------------------------------------------------------------------------
Orchestrate ==
    /\ process = "running"
    /\ RunStep
    /\ UNCHANGED <<process, runs, outcome, storeVars, interrupted, torn>>

\* The task row takes the outcome; an error of the store is ignored.
UpsertTask(o) ==
    /\ outcome' = o
    /\ \/ taskStatus' = o /\ torn' = FALSE
       \/ taskStatus' = taskStatus /\ torn' = TRUE
    /\ process' = "recording"

\* run_task returned: its terminal status goes to the task row.
RecordStatus ==
    /\ process = "running"
    /\ phase = "ended"
    /\ UpsertTask(terminal)
    /\ UNCHANGED <<vars, runs, snapshot, interrupted>>

\* Faulty: an active subtask is recorded as completed.
ResumeCheckpointActive ==
    [completed |-> {s \in Subtask : status[s] \in {"Dispatched", "Done"}},
     checkpoints |-> checkpoints, nextSeq |-> nextSeq]

\* Faulty: only what this run did is recorded, not what it was resumed with.
ResumeCheckpointThisRun ==
    [completed |-> {s \in Subtask : status[s] = "Done" /\ HasDiff(s)},
     checkpoints |-> SelectSeq(checkpoints, LAMBDA cp : HasDiff(cp.subtask)),
     nextSeq |-> nextSeq]

\* build_resume_checkpoint, taken at the end of a paused run.
ResumeCheckpoint ==
    [completed |-> {s \in Subtask : status[s] = "Done"},
     checkpoints |-> checkpoints, nextSeq |-> nextSeq]

EndProcess ==
    /\ process' = "idle"
    /\ interrupted' = (interrupted \/ outcome # "Paused" \/ failure # NoSubtask)

\* Faulty: a successful end leaves the snapshot of an earlier pause.
RecordSnapshotKeeps ==
    /\ process = "recording"
    /\ snapshot' = IF outcome = "Paused" THEN ResumeCheckpoint ELSE snapshot
    /\ EndProcess
    /\ UNCHANGED <<vars, runs, outcome, taskStatus, torn>>

\* A pause stores the snapshot, a successful end deletes it, a failed one
\* leaves the snapshot of an earlier pause.
RecordSnapshot ==
    /\ process = "recording"
    /\ snapshot' = CASE outcome = "Paused"    -> ResumeCheckpoint
                     [] outcome = "Reviewing" -> NoSnapshot
                     [] OTHER                 -> snapshot
    /\ EndProcess
    /\ UNCHANGED <<vars, runs, outcome, taskStatus, torn>>

\* The store refuses the snapshot, and the error is ignored.
SnapshotLost ==
    /\ process = "recording"
    /\ torn' = TRUE
    /\ process' = "idle"
    /\ interrupted' = TRUE
    /\ UNCHANGED <<vars, runs, outcome, storeVars>>

\* The run_task future is dropped: its workers are aborted, its state is lost.
DropRun ==
    /\ phase' = "ended"
    /\ joinset' = {}
    /\ UNCHANGED <<current, runtimeVars, recordVars, verdictVars, refs>>

\* The timeout around run_task fires while it waits: the task is recorded as
\* Failed, and the snapshot of an earlier pause stays as it is.
TimeOut ==
    /\ process = "running"
    /\ phase \in {"select", "verifying"}
    /\ DropRun
    /\ UpsertTask("Failed")
    /\ UNCHANGED <<runs, snapshot, interrupted, applied>>

\* The process is killed, possibly between the write of a diff and the commit of
\* its checkpoint: nothing more is recorded.
Crash ==
    /\ process # "idle"
    /\ DropRun
    /\ \/ UNCHANGED applied
       \/ /\ process = "running" /\ phase = "checkpoint"
          /\ \E s \in NewlyDone : HasDiff(s) /\ Write(s)
    /\ process' = "idle"
    /\ interrupted' = TRUE
    /\ torn' = (torn \/ process = "recording")
    /\ UNCHANGED <<runs, outcome, storeVars>>

\* A new process resumes the goal from the stored snapshot: the start of
\* run_task on a ResumeCheckpoint.
Resume ==
    /\ process = "idle"
    /\ snapshot # NoSnapshot
    /\ runs < MaxRuns
    /\ status' = InitialStatus(snapshot)
    /\ tier' = PlannedTier
    /\ attempts' = Zero
    /\ escalations' = Zero
    /\ dispatches' = Zero
    /\ joinset' = {}
    /\ current' = NoSubtask
    /\ checkpointed' = CheckpointedSubtasks(snapshot.checkpoints)
    /\ checkpoints' = snapshot.checkpoints
    /\ nextSeq' = snapshot.nextSeq
    /\ failure' = NoSubtask
    /\ paused' = FALSE
    /\ terminal' = "None"
    /\ phase' = "schedule"
    /\ process' = "running"
    /\ runs' = runs + 1
    /\ outcome' = "Planning"
    /\ taskStatus' = "Planning"
    /\ UNCHANGED <<snapshot, interrupted, torn, diskVars>>

-----------------------------------------------------------------------------
\* Nothing is left to resume, or nobody resumes it any more.
Rest == process = "idle" /\ UNCHANGED goalVars

GoalNext ==
    \/ Orchestrate \/ RecordStatus \/ RecordSnapshot \/ SnapshotLost
    \/ TimeOut \/ Crash \/ Resume \/ Rest

GoalSpec == GoalInit /\ [][GoalNext]_goalVars

-----------------------------------------------------------------------------
GoalTypeOK ==
    /\ TypeOK
    /\ process \in {"running", "recording", "idle"}
    /\ runs \in 1 .. MaxRuns
    /\ {outcome, taskStatus} \subseteq {"Planning", "Paused", "Failed", "Reviewing"}
    /\ snapshot \in Snapshot \cup {NoSnapshot}
    /\ interrupted \in BOOLEAN
    /\ torn \in BOOLEAN

\* A stored snapshot claims nothing that is not on disk: the verified diff of
\* every completed subtask is in the workspace, and every checkpoint it lists is
\* a ref of the repository, whatever later runs of the goal did.
SnapshotIsOnDisk ==
    snapshot # NoSnapshot =>
        /\ \A s \in snapshot.completed : applied[s] > 0
        /\ \A i \in DOMAIN snapshot.checkpoints :
             snapshot.checkpoints[i].seq \in refs
        /\ UseGit =>
             CheckpointedSubtasks(snapshot.checkpoints) = snapshot.completed

\* Pausing and resuming, however often, writes the diff of a subtask once; a
\* second time only after a run of the goal that failed (the pause may have
\* hidden it), timed out, crashed, or whose snapshot the store lost.
ResumeRedoesNothing ==
    \A s \in Subtask : applied[s] > 1 => interrupted

\* A goal reported as Reviewing has the diff of every subtask of its plan in the
\* workspace, written by this run or an earlier one, unless a worker was lost.
DeliveredInFull ==
    outcome = "Reviewing" /\ process # "running" =>
        \/ \A s \in Subtask : applied[s] > 0
        \/ \E s \in Subtask : status[s] = "Dispatched"

\* Progress is never forgotten by a later pause: a snapshot is only replaced by
\* one that completes at least as much.
SnapshotNeverShrinks ==
    [][snapshot # NoSnapshot /\ snapshot' # NoSnapshot
         => snapshot.completed \subseteq snapshot'.completed]_goalVars

\* A task left as Paused can be resumed, and a delivered one cannot be resumed
\* into a second execution, unless the process died between the two records or
\* the store lost one of them.
StoreAgrees ==
    process = "idle" /\ ~torn =>
        /\ taskStatus = "Paused" => snapshot # NoSnapshot
        /\ taskStatus = "Reviewing" => snapshot = NoSnapshot

\* The records of a goal, its plan and its store are consistent at every moment:
\* a snapshot claims nothing that is not on disk, and also over resumes diffs are
\* written after those they depend on.
GoalInv ==
    /\ GoalTypeOK
    /\ SnapshotIsOnDisk
    /\ DependenciesApplied
    /\ StoreAgrees

=============================================================================
