---------------------------- MODULE DiffApplier ----------------------------
(***************************************************************************)
(* What a task does to the user's repository, and what a reject undoes:    *)
(* DiffApplier (src/phonton-diff/src/lib.rs) as run_task drives it (one    *)
(* verified subtask after the other: record, apply, commit) and as         *)
(* `phonton review reject` does (revert_task).                             *)
(*                                                                         *)
(* The user keeps editing and staging the same files in an editor and with *)
(* git.  A file is the set of its lines: the lines of HEAD, the lines the  *)
(* user types (each once) and the line subtask n adds, which is n.  Only   *)
(* the paths the task may touch are modelled.                              *)
(*                                                                         *)
(* "step" is where the applier stands:                                     *)
(*   idle        between two subtasks, and after the task                  *)
(*   recorded    record_pre_task_state is done                             *)
(*   writing     the hunks are materialised, the files are being written   *)
(*   staged      the index is written, the checkpoint is not committed     *)
(*   reverting   revert_task has checked, and is restoring the files       *)
(*                                                                         *)
(* Init, Next and Spec carry the applier's name: DiffProofs extends this   *)
(* module beside Verification.                                             *)
(***************************************************************************)
EXTENDS Naturals, Sequences, FiniteSets, SequencesExt

CONSTANTS
    Path,           \* the files the task may touch
    UserLine,       \* the lines the user may type (a bound)
    HeadLine,       \* the lines of the files at HEAD
    Eof,            \* the end of a file that exists
    HeadTree,       \* the tree at HEAD, which the user does not move
    MaxSubtasks     \* bound: how many subtasks reach the applier

TaskLine == 1 .. MaxSubtasks

Content == SUBSET (UserLine \cup HeadLine \cup TaskLine \cup {Eof})

\* No file, or no entry in the index.
NoFile == {}

Tree == [Path -> Content]

ASSUME ApplierAssumption ==
    /\ MaxSubtasks \in Nat
    /\ HeadTree \in [Path -> SUBSET (HeadLine \cup {Eof})]
    /\ \A p \in Path : HeadTree[p] # NoFile => Eof \in HeadTree[p]
    /\ Eof \notin UserLine \cup HeadLine \cup TaskLine
    /\ UserLine \cap TaskLine = {} /\ HeadLine \cap TaskLine = {}
    /\ UserLine \cap HeadLine = {}

VARIABLES
    worktree,       \* the files on disk
    index,          \* the index on disk
    loaded,         \* the index in the memory of the applier
    step,
    seq,            \* next_seq of run_task: subtasks that reached the applier
    touched,        \* the paths of the subtask at work
    todo,           \* the paths yet to be written, or yet to be restored
    pending,        \* what its hunks make of them
    checkpoints,    \* the trees of the checkpoint refs 1, 2, ...
    recorded,       \* the pre-task manifest: the paths recorded so far
    preWork,        \* the w/ entries of the pre-task commit
    preIndex,       \* the i/ entries of the pre-task commit
    over,           \* the task has ended, or its process was killed
    answer,         \* what the last reject said
    origin          \* history: when the user typed each line

taskVars == <<seq, checkpoints, recorded, preWork, preIndex>>
userVars == <<origin>>
applierVars == <<worktree, index, loaded, step, touched, todo, pending, over, answer, taskVars, userVars>>

\* The user may have uncommitted edits before the task begins.
ApplierInit ==
    /\ worktree = HeadTree
    /\ index = HeadTree
    /\ loaded = HeadTree
    /\ step = "idle"
    /\ seq = 0
    /\ touched = {}
    /\ todo = {}
    /\ pending = HeadTree
    /\ checkpoints = <<>>
    /\ recorded = {}
    /\ preWork = HeadTree
    /\ preIndex = HeadTree
    /\ over = FALSE
    /\ answer = "none"
    /\ origin = [u \in UserLine |-> "untyped"]

-----------------------------------------------------------------------------
(***************************************************************************)
(* The user.                                                               *)
(***************************************************************************)
Now == IF step = "reverting" THEN "racing"
       ELSE IF over THEN "late"
       ELSE IF seq = 0 THEN "early" ELSE "mid"

UserTypes(p, u) ==
    /\ origin[u] = "untyped"
    /\ worktree[p] # NoFile
    /\ worktree' = [worktree EXCEPT ![p] = @ \cup {u}]
    /\ origin' = [origin EXCEPT ![u] = Now]
    /\ UNCHANGED <<index, loaded, step, touched, todo, pending, over, answer, taskVars>>

\* git add, or git restore --staged.
UserStages(p) ==
    /\ \/ index' = [index EXCEPT ![p] = worktree[p]]
       \/ index' = [index EXCEPT ![p] = HeadTree[p]]
    /\ UNCHANGED <<worktree, loaded, step, touched, todo, pending, over, answer, taskVars, userVars>>

-----------------------------------------------------------------------------
(***************************************************************************)
(* One verified subtask: record_pre_task_state, apply_verified_hunks,      *)
(* commit_checkpoint.                                                      *)
(***************************************************************************)
\* Faulty: a path recorded before is recorded again.
NewlyTouchedAgain(P) == P

\* A path already in the manifest keeps its first snapshot.
NewlyTouched(P) == P \ recorded

Record(P) ==
    /\ step = "idle" /\ ~over
    /\ seq < MaxSubtasks
    /\ P # {}
    /\ seq' = seq + 1
    /\ touched' = P
    /\ loaded' = index
    /\ recorded' = recorded \cup P
    /\ preWork'  = [p \in Path |-> IF p \in NewlyTouched(P) THEN worktree[p] ELSE preWork[p]]
    /\ preIndex' = [p \in Path |-> IF p \in NewlyTouched(P) THEN index[p] ELSE preIndex[p]]
    /\ step' = "recorded"
    /\ UNCHANGED <<worktree, index, todo, pending, checkpoints, over, answer, userVars>>

\* The snapshot cannot be taken: the sequence number is spent all the same.
RecordFails ==
    /\ step = "idle" /\ ~over
    /\ seq < MaxSubtasks
    /\ seq' = seq + 1
    /\ UNCHANGED <<worktree, index, loaded, step, touched, todo, pending, over, answer,
                   checkpoints, recorded, preWork, preIndex, userVars>>

\* The exact hunks of subtask n on the current content c: a new file, or an
\* edit that adds the subtask's line, removes a line, or both.
Edited(c, n) ==
    IF c = NoFile THEN {{n, Eof}}
    ELSE LET lines == c \ {Eof}
         IN  {c \cup {n}} \cup {c \ {l} : l \in lines} \cup {(c \ {l}) \cup {n} : l \in lines}

Materialize ==
    /\ step = "recorded"
    /\ \E new \in [touched -> UNION {Edited(worktree[p], seq) : p \in touched}] :
         /\ \A p \in touched : new[p] \in Edited(worktree[p], seq)
         /\ pending' = [p \in Path |-> IF p \in touched THEN new[p] ELSE NoFile]
    /\ todo' = touched
    /\ step' = "writing"
    /\ UNCHANGED <<worktree, index, loaded, touched, over, answer, taskVars, userVars>>

WriteFile(p) ==
    /\ step = "writing"
    /\ p \in todo
    /\ todo' = todo \ {p}
    /\ worktree' = [worktree EXCEPT ![p] = pending[p]]
    /\ loaded' = [loaded EXCEPT ![p] = pending[p]]
    /\ UNCHANGED <<index, step, touched, pending, over, answer, taskVars, userVars>>

WriteIndex ==
    /\ step = "writing"
    /\ todo = {}
    /\ index' = loaded
    /\ step' = "staged"
    /\ UNCHANGED <<worktree, loaded, touched, todo, pending, over, answer, taskVars, userVars>>

Parent == IF seq = 1 THEN HeadTree ELSE checkpoints[seq - 1]

\* Faulty: the tree of the checkpoint is the whole index.
TreeOfIndex == index

\* The preceding checkpoint with the verified paths as they are staged now.
CheckpointTree == [p \in Path |-> IF p \in touched THEN index[p] ELSE Parent[p]]

\* The parent ref must exist, and every path must be staged still.
CommitCheckpoint ==
    /\ step = "staged"
    /\ Len(checkpoints) = seq - 1
    /\ \A p \in touched : index[p] # NoFile
    /\ checkpoints' = Append(checkpoints, CheckpointTree)
    /\ step' = "idle"
    /\ UNCHANGED <<worktree, index, loaded, touched, todo, pending, over, answer,
                   seq, recorded, preWork, preIndex, userVars>>

\* Any of the three calls fails half way: the sequence number is spent, what
\* was written stays, and the next finished subtask may still come.
SubtaskFails ==
    /\ step \in {"recorded", "writing", "staged"}
    /\ step' = "idle"
    /\ UNCHANGED <<worktree, index, loaded, touched, todo, pending, over, answer, taskVars, userVars>>

\* The task ends between two subtasks, or its process is killed anywhere.
TaskEnds ==
    /\ ~over
    /\ over' = TRUE
    /\ step' = "idle"
    /\ UNCHANGED <<worktree, index, loaded, touched, todo, pending, answer, taskVars, userVars>>

-----------------------------------------------------------------------------
(***************************************************************************)
(* revert_task.                                                            *)
(***************************************************************************)
\* Faulty: the paths the last step changed.
DeltaOfLastStep ==
    CASE Len(checkpoints) = 0 -> {}
      [] Len(checkpoints) = 1 -> {p \in Path : checkpoints[1][p] # HeadTree[p]}
      [] OTHER -> {p \in Path : Last(checkpoints)[p] # checkpoints[Len(checkpoints) - 1][p]}

\* The paths on which the last checkpoint differs from the first one's parent.
Delta == IF checkpoints = <<>> THEN {} ELSE {p \in Path : Last(checkpoints)[p] # HeadTree[p]}

\* Faulty: the worktree is not compared.
OwnedIndexOnly(p) == index[p] = Last(checkpoints)[p]

Owned(p) == index[p] = Last(checkpoints)[p] /\ worktree[p] = index[p]

Rejectable == over /\ step = "idle" /\ answer # "restored"

RevertRefuses ==
    /\ Rejectable
    /\ \E p \in Delta : ~Owned(p)
    /\ answer' = "refused"
    /\ UNCHANGED <<worktree, index, loaded, step, touched, todo, pending, over, taskVars, userVars>>

RevertStarts ==
    /\ Rejectable
    /\ \A p \in Delta : Owned(p)
    /\ loaded' = index
    /\ todo' = Delta
    /\ step' = "reverting"
    /\ UNCHANGED <<worktree, index, touched, pending, over, answer, taskVars, userVars>>

RevertFile(p) ==
    /\ step = "reverting"
    /\ p \in todo
    /\ todo' = todo \ {p}
    /\ worktree' = [worktree EXCEPT ![p] = preWork[p]]
    /\ loaded' = [loaded EXCEPT ![p] = preIndex[p]]
    /\ UNCHANGED <<index, step, touched, pending, over, answer, taskVars, userVars>>

RevertEnds ==
    /\ step = "reverting"
    /\ todo = {}
    /\ index' = loaded
    /\ answer' = "restored"
    /\ step' = "idle"
    /\ UNCHANGED <<worktree, loaded, touched, todo, pending, over, taskVars, userVars>>

\* An I/O error, or the end of the process: the index is not written.
RevertFails ==
    /\ step = "reverting"
    /\ step' = "idle"
    /\ answer' = "failed"
    /\ UNCHANGED <<worktree, index, loaded, touched, todo, pending, over, taskVars, userVars>>

-----------------------------------------------------------------------------
User == \E p \in Path : UserStages(p) \/ \E u \in UserLine : UserTypes(p, u)

TaskStep ==
    \/ \E P \in SUBSET Path : Record(P)
    \/ \E p \in Path : WriteFile(p)
    \/ RecordFails \/ Materialize \/ WriteIndex \/ CommitCheckpoint \/ SubtaskFails \/ TaskEnds

Revert ==
    \/ \E p \in Path : RevertFile(p)
    \/ RevertRefuses \/ RevertStarts \/ RevertEnds \/ RevertFails

ApplierNext == User \/ TaskStep \/ Revert

ApplierSpec == ApplierInit /\ [][ApplierNext]_applierVars

-----------------------------------------------------------------------------
ApplierTypeOK ==
    /\ {worktree, index, loaded, pending, preWork, preIndex} \subseteq Tree
    /\ step \in {"idle", "recorded", "writing", "staged", "reverting"}
    /\ seq \in 0 .. MaxSubtasks
    /\ touched \subseteq Path /\ todo \subseteq Path
    /\ checkpoints \in Seq(Tree)
    /\ recorded \subseteq Path
    /\ over \in BOOLEAN
    /\ answer \in {"none", "refused", "failed", "restored"}
    /\ origin \in [UserLine -> {"untyped", "early", "mid", "late", "racing"}]

\* The pre-task snapshot of a path never holds a line of the task, however many
\* subtasks touched the path, failed on it, or were cut off half way: it is what
\* a reject puts back.
SnapshotPredatesTask ==
    \A p \in recorded : (preWork[p] \cup preIndex[p]) \cap TaskLine = {}

\* A checkpoint differs from HEAD only on paths the task recorded first: what the
\* user staged elsewhere never enters it.
CheckpointsExcludeUnrelated ==
    \A n \in DOMAIN checkpoints : \A p \in Path \ recorded : checkpoints[n][p] = HeadTree[p]

\* What a reject works from: a snapshot that is older than the task, and
\* checkpoints of the task alone.
SnapshotInv ==
    /\ ApplierTypeOK
    /\ SnapshotPredatesTask
    /\ CheckpointsExcludeUnrelated

\* After a reject that succeeded, no path the checkpoints changed between them
\* holds a line of the task, on disk or in the index.
RejectRemovesTask ==
    answer = "restored" /\ checkpoints # <<>> =>
        \A p \in Path : Last(checkpoints)[p] # HeadTree[p]
                         => (worktree[p] \cup index[p]) \cap TaskLine = {}

\* A reject keeps what the user typed before the task began or after it ended.
\* What is typed while the task runs can be staged as the task's own text.
RejectKeepsUserWork ==
    [][step = "reverting" =>
         \A p \in Path, u \in UserLine :
           u \in worktree[p] /\ origin[u] \in {"early", "late"}
             => u \in worktree'[p]]_applierVars

=============================================================================
