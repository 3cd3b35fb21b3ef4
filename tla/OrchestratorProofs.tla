------------------------- MODULE OrchestratorProofs -------------------------
(***************************************************************************)
(* The safety of run_task (module Orchestrator), proved for every acyclic  *)
(* plan, every model ladder and every bound on retries and escalations,    *)
(* with or without a repository and a budget; and the records of a goal    *)
(* over pauses, failures, timeouts, crashes and resumes (module            *)
(* HeadlessGoal), for any number of processes on top of it.                *)
(***************************************************************************)
EXTENDS HeadlessGoal, FiniteSetTheorems, TLAPS

-----------------------------------------------------------------------------
(***************************************************************************)
(* Type correctness.                                                       *)
(***************************************************************************)

\* A worker's outcome leaves a well-typed join set.
LEMMA WorkerType ==
    ASSUME TypeOK, NEW t \in joinset, WorkerFinishes(t) \/ WorkerCancelled(t)
    PROVE  TypeOK'
<1>1. PICK o \in Outcome \cup {"cancelled"} : Settle(t, o)
  BY DEF WorkerFinishes, WorkerCancelled
<1>2. t \in Task
  BY DEF TypeOK
<1>3. [t EXCEPT !.state = o] \in Task
  BY <1>2 DEF Task
<1>4. joinset' \subseteq Task
  BY <1>1, <1>3 DEF Settle, TypeOK
<1>5. UNCHANGED <<phase, current, runtimeVars, recordVars, verdictVars, diskVars>>
  BY DEF WorkerFinishes, WorkerCancelled
<1> QED
  BY <1>4, <1>5 DEF TypeOK, runtimeVars, recordVars, verdictVars, diskVars

\* A new worker is a Task.
LEMMA NewTaskType ==
    ASSUME NEW s \in Subtask, NEW n \in Nat
    PROVE  /\ NewTask(s, n + 1) \in Task
           /\ NewTask(s, n + 1).id = s
           /\ NewTask(s, n + 1).state = "running"
  BY DEF NewTask, Task

LEMMA ScheduleType ==
    ASSUME TypeOK, ScheduleReady
    PROVE  TypeOK'
<1>1. Runnable \subseteq Subtask
  BY DEF Runnable
<1>2. SpawnedTasks(Runnable) \subseteq Task
  BY <1>1, NewTaskType DEF SpawnedTasks, TypeOK
<1>3. joinset' \subseteq Task
  BY <1>2 DEF ScheduleReady, TypeOK
<1>4. status' \in [Subtask -> SubtaskStatus]
  BY DEF ScheduleReady, TypeOK, SubtaskStatus
<1>5. dispatches' \in [Subtask -> Nat]
  <2>1. \A s \in Subtask : dispatches[s] \in Nat /\ dispatches[s] + 1 \in Nat
    BY DEF TypeOK
  <2>2. dispatches' = [s \in Subtask |->
                         IF s \in Runnable THEN dispatches[s] + 1 ELSE dispatches[s]]
    BY DEF ScheduleReady
  <2> QED
    BY <2>1, <2>2
<1>6. phase' \in Phase
  BY DEF ScheduleReady, Phase
<1> QED
  BY <1>3, <1>4, <1>5, <1>6
  DEF ScheduleReady, TypeOK, recordVars, verdictVars, diskVars

\* apply_verdict: one of its four branches.
Verdict(s, js) ==
    \/ VerdictPass(s, js) \/ VerdictFail(s, js)
    \/ VerdictUnavailable(s, js) \/ VerdictEscalate(s, js)

LEMMA ConcludeType ==
    ASSUME TypeOK, NEW s \in Subtask, NEW js \in SUBSET Task,
           NEW st \in {"Done", "Failed"}, Conclude(s, st, js)
    PROVE  /\ status' \in [Subtask -> SubtaskStatus]
           /\ joinset' \subseteq Task
           /\ tier' = tier /\ escalations' = escalations /\ dispatches' = dispatches
  BY DEF Conclude, TypeOK, SubtaskStatus

LEMMA RedispatchType ==
    ASSUME TypeOK, NEW s \in Subtask, NEW js \in SUBSET Task, Redispatch(s, js)
    PROVE  /\ status' \in [Subtask -> SubtaskStatus]
           /\ joinset' \subseteq Task
           /\ dispatches' \in [Subtask -> Nat]
<1>1. dispatches \in [Subtask -> Nat] /\ dispatches[s] \in Nat
  BY DEF TypeOK
<1>2. NewTask(s, dispatches[s] + 1) \in Task
  BY <1>1, NewTaskType
<1>3. status' \in [Subtask -> SubtaskStatus]
  BY DEF Redispatch, TypeOK, SubtaskStatus
<1>4. joinset' \subseteq Task
  BY <1>2 DEF Redispatch
<1>5. dispatches' \in [Subtask -> Nat]
  BY <1>1 DEF Redispatch
<1> QED
  BY <1>3, <1>4, <1>5

LEMMA EscalateType ==
    ASSUME TypeOK, NEW s \in Subtask, NEW js \in SUBSET Task,
           CanEscalate(s), EscalateAndRedispatch(s, js)
    PROVE  /\ tier' \in [Subtask -> 0 .. TopTier]
           /\ attempts' \in [Subtask -> Nat]
           /\ escalations' \in [Subtask -> 0 .. MaxEscalations]
<1>1. /\ tier \in [Subtask -> 0 .. TopTier]
      /\ attempts \in [Subtask -> Nat]
      /\ escalations \in [Subtask -> 0 .. MaxEscalations]
  BY DEF TypeOK
<1>2. TopTier \in Nat /\ MaxEscalations \in Nat
  BY TierAssumption
<1>3. tier[s] + 1 \in 0 .. TopTier /\ escalations[s] + 1 \in 0 .. MaxEscalations
  BY <1>1, <1>2 DEF CanEscalate
<1> QED
  BY <1>1, <1>3 DEF EscalateAndRedispatch

\* A verdict keeps the runtimes and the join set well typed.
LEMMA VerdictType ==
    ASSUME TypeOK, NEW s \in Subtask, NEW js \in SUBSET Task, Verdict(s, js)
    PROVE  /\ status' \in [Subtask -> SubtaskStatus]
           /\ joinset' \subseteq Task
           /\ tier' \in [Subtask -> 0 .. TopTier]
           /\ attempts' \in [Subtask -> Nat]
           /\ escalations' \in [Subtask -> 0 .. MaxEscalations]
           /\ dispatches' \in [Subtask -> Nat]
<1> DEFINE retried == [attempts EXCEPT ![s] = attempts[s] + 1]
<1>1. retried \in [Subtask -> Nat]
  <2>1. attempts \in [Subtask -> Nat]
    BY DEF TypeOK
  <2> QED
    BY <2>1
<1> HIDE DEF retried
<1>2. \/ CanEscalate(s) /\ EscalateAndRedispatch(s, js)
      \/ Redispatch(s, js) /\ attempts' = retried /\ UNCHANGED <<tier, escalations>>
      \/ /\ \E st \in {"Done", "Failed"} : Conclude(s, st, js)
         /\ attempts' = attempts \/ attempts' = retried
  BY DEF Verdict, VerdictPass, VerdictFail, VerdictUnavailable, VerdictEscalate, retried
<1>3. CASE CanEscalate(s) /\ EscalateAndRedispatch(s, js)
  <2>1. Redispatch(s, js)
    BY <1>3 DEF EscalateAndRedispatch
  <2> QED
    BY <1>3, <2>1, EscalateType, RedispatchType
<1>4. CASE Redispatch(s, js) /\ attempts' = retried /\ UNCHANGED <<tier, escalations>>
  BY <1>1, <1>4, RedispatchType DEF TypeOK
<1>5. CASE /\ \E st \in {"Done", "Failed"} : Conclude(s, st, js)
           /\ attempts' = attempts \/ attempts' = retried
  <2>1. PICK st \in {"Done", "Failed"} : Conclude(s, st, js)
    BY <1>5
  <2>2. /\ status' \in [Subtask -> SubtaskStatus]
        /\ joinset' \subseteq Task
        /\ tier' = tier /\ escalations' = escalations /\ dispatches' = dispatches
    BY <2>1, ConcludeType
  <2>3. attempts' \in [Subtask -> Nat]
    BY <1>1, <1>5 DEF TypeOK
  <2> QED
    BY <2>2, <2>3 DEF TypeOK
<1> QED
  BY <1>2, <1>3, <1>4, <1>5

LEMMA JoinType ==
    ASSUME TypeOK, NEW t \in joinset,
           JoinError(t) \/ JoinDispatchErr(t) \/ JoinFailed(t) \/ JoinDone(t)
    PROVE  TypeOK'
<1> DEFINE js == joinset \ {t}
<1>1. js \in SUBSET Task /\ t.id \in Subtask
  BY DEF TypeOK, Task
<1>2. CASE JoinError(t)
  BY <1>1, <1>2 DEF JoinError, TypeOK, Phase, runtimeVars, recordVars, verdictVars, diskVars
<1>3. CASE JoinDispatchErr(t)
  <2>1. Conclude(t.id, "Failed", js)
    BY <1>3 DEF JoinDispatchErr
  <2>2. /\ status' \in [Subtask -> SubtaskStatus]
        /\ joinset' \subseteq Task
        /\ tier' = tier /\ escalations' = escalations /\ dispatches' = dispatches
    BY <1>1, <2>1, ConcludeType
  <2> QED
    BY <1>3, <2>2 DEF JoinDispatchErr, TypeOK, Phase, recordVars, verdictVars, diskVars
<1>4. CASE JoinFailed(t)
  <2>1. Verdict(t.id, js)
    BY <1>4 DEF JoinFailed, Verdict
  <2> QED
    BY <1>1, <1>4, <2>1, VerdictType
    DEF JoinFailed, TypeOK, Phase, recordVars, verdictVars, diskVars
<1>5. CASE JoinDone(t)
  BY <1>1, <1>5 DEF JoinDone, TypeOK, Phase, runtimeVars, recordVars, verdictVars, diskVars
<1> QED
  BY <1>2, <1>3, <1>4, <1>5

LEMMA VerifyType ==
    ASSUME TypeOK, current \in Subtask, VerifyDiff
    PROVE  TypeOK'
<1>1. Verdict(current, joinset)
  BY DEF VerifyDiff, Verdict
<1>2. joinset \in SUBSET Task
  BY DEF TypeOK
<1> QED
  BY <1>1, <1>2, VerdictType
  DEF VerifyDiff, TypeOK, Phase, recordVars, verdictVars, diskVars

LEMMA CheckpointType ==
    ASSUME TypeOK, NEW s \in Subtask,
           CheckpointTaken(s) \/ ApplyFails(s) \/ CommitFails(s)
    PROVE  TypeOK'
<1>1. TakeNext(s)
  BY DEF CheckpointTaken, ApplyFails, CommitFails
<1>2. /\ nextSeq' \in Nat \ {0} /\ checkpointed' \subseteq Subtask
      /\ joinset' \subseteq Task /\ current' \in Subtask \cup {NoSubtask}
      /\ tier' \in [Subtask -> 0 .. TopTier] /\ attempts' \in [Subtask -> Nat]
      /\ escalations' \in [Subtask -> 0 .. MaxEscalations]
      /\ dispatches' \in [Subtask -> Nat]
      /\ paused' \in BOOLEAN /\ terminal' \in {"None", "Paused", "Failed", "Reviewing"}
  <2>1. nextSeq \in Nat \ {0} /\ checkpointed \subseteq Subtask
    BY DEF TypeOK
  <2>2. nextSeq' = nextSeq + 1 /\ checkpointed' = checkpointed \cup {s}
    BY <1>1 DEF TakeNext
  <2>3. nextSeq' \in Nat \ {0} /\ checkpointed' \subseteq Subtask
    BY <2>1, <2>2
  <2>4. /\ joinset' = joinset /\ current' = current /\ tier' = tier
        /\ attempts' = attempts /\ escalations' = escalations
        /\ dispatches' = dispatches /\ paused' = paused /\ terminal' = terminal
    BY <1>1 DEF TakeNext
  <2> QED
    BY <2>3, <2>4 DEF TypeOK
<1>3. [applied EXCEPT ![s] = @ + 1] \in [Subtask -> Nat]
  BY DEF TypeOK
<1>4. CASE CheckpointTaken(s)
  <2>1. [subtask |-> s, seq |-> nextSeq] \in Checkpoint
    BY DEF Checkpoint, TypeOK
  <2>2. checkpoints' \in Seq(Checkpoint)
    <3>1. checkpoints \in Seq(Checkpoint)
      BY DEF TypeOK
    <3>2. Append(checkpoints, [subtask |-> s, seq |-> nextSeq]) \in Seq(Checkpoint)
      BY <2>1, <3>1
    <3> QED
      BY <1>4, <3>1, <3>2 DEF CheckpointTaken
  <2>3. refs' \subseteq Nat \ {0}
    <3>1. refs \subseteq Nat \ {0} /\ nextSeq \in Nat \ {0}
      BY DEF TypeOK
    <3> QED
      BY <1>4, <3>1 DEF CheckpointTaken
  <2> QED
    BY <1>2, <1>3, <1>4, <2>2, <2>3 DEF CheckpointTaken, Write, TypeOK
<1>5. CASE ApplyFails(s)
  BY <1>2, <1>5 DEF ApplyFails, FailTask, TypeOK, SubtaskStatus, Phase, diskVars
<1>6. CASE CommitFails(s)
  BY <1>2, <1>3, <1>6 DEF CommitFails, Write, FailTask, TypeOK, SubtaskStatus, Phase
<1> QED
  BY <1>4, <1>5, <1>6

\* abort_all marks workers; it neither starts nor ends one.
LEMMA AbortAllType ==
    ASSUME NEW js \in SUBSET Task
    PROVE  AbortAll(js) \subseteq Task
<1>1. \A t \in Task : [t EXCEPT !.aborted = TRUE] \in Task
  BY DEF Task
<1> QED
  BY <1>1 DEF AbortAll

LEMMA BudgetType ==
    ASSUME TypeOK, CheckBudget
    PROVE  TypeOK'
<1>1. joinset' \in {joinset, AbortAll(joinset)}
  BY DEF CheckBudget
<1>2. joinset' \subseteq Task
  BY <1>1, AbortAllType DEF TypeOK
<1>3. failure' \in Subtask \cup {NoSubtask}
  BY DEF CheckBudget, FailedSubtasks, TypeOK
<1>4. paused' \in BOOLEAN
  BY DEF CheckBudget, TypeOK
<1> QED
  BY <1>2, <1>3, <1>4 DEF CheckBudget, TypeOK, Phase, runtimeVars, recordVars, diskVars

(***************************************************************************)
(* Who works on what.  A verification is only awaited for a Dispatched     *)
(* subtask whose worker has been joined; this is needed already for the    *)
(* types, because a verdict indexes the runtimes by "current".             *)
(***************************************************************************)
WorkersInv ==
    /\ OneWorkerPerSubtask
    /\ phase # "verifying" => current = NoSubtask

LEMMA TypeStep ==
    ASSUME TypeOK, WorkersInv, [Next]_vars
    PROVE  TypeOK'
<1>1. CASE ScheduleReady
  BY <1>1, ScheduleType
<1>2. CASE SelectDrained
  BY <1>2 DEF SelectDrained, TypeOK, Phase, runtimeVars, recordVars, verdictVars, diskVars
<1>3. CASE JoinNext
  BY <1>3, JoinType DEF JoinNext
<1>4. CASE VerifyDiff
  <2>1. current \in Subtask
    BY <1>4 DEF VerifyDiff, WorkersInv, OneWorkerPerSubtask
  <2> QED
    BY <1>4, <2>1, VerifyType
<1>5. CASE TakeCheckpoint
  BY <1>5, CheckpointType DEF TakeCheckpoint
<1>6. CASE NoneNewlyDone
  BY <1>6 DEF NoneNewlyDone, TypeOK, Phase, runtimeVars, recordVars, verdictVars, diskVars
<1>7. CASE CheckBudget
  BY <1>7, BudgetType
<1>8. CASE EndRun
  BY <1>8 DEF EndRun, TypeOK, Phase, runtimeVars, recordVars, diskVars
<1>9. CASE \E s \in Subtask : WorkerStep(s)
  BY <1>9, WorkerType DEF WorkerStep
<1>10. CASE UNCHANGED vars
  BY <1>10 DEF TypeOK, vars, runtimeVars, recordVars, verdictVars, diskVars
<1> QED
  BY <1>1, <1>2, <1>3, <1>4, <1>5, <1>6, <1>7, <1>8, <1>9, <1>10
  DEF Next, RunStep, LoopStep, Returned

\* What the end of a worker and its verdict do together: the worker of a
\* Dispatched subtask is gone, and the subtask is concluded or has a new one.
Settles(s, js) ==
    /\ phase # "ended" /\ status[s] = "Dispatched"
    /\ js \subseteq joinset /\ \A u \in js : u.id # s
    /\ Conclude(s, "Done", js) \/ Conclude(s, "Failed", js) \/ Redispatch(s, js)
    /\ phase' = "checkpoint" /\ current' = NoSubtask
    /\ UNCHANGED <<recordVars, verdictVars, diskVars>>

LEMMA VerdictSettles ==
    ASSUME NEW s, NEW js, Verdict(s, js)
    PROVE  Conclude(s, "Done", js) \/ Conclude(s, "Failed", js) \/ Redispatch(s, js)
  BY DEF Verdict, VerdictPass, VerdictFail, VerdictUnavailable, VerdictEscalate,
         EscalateAndRedispatch

LEMMA JoinSettles ==
    ASSUME TypeOK, WorkersInv, NEW t \in joinset, JoinDispatchErr(t) \/ JoinFailed(t)
    PROVE  t.id \in Subtask /\ Settles(t.id, joinset \ {t})
<1> DEFINE js == joinset \ {t}
<1>1. t.id \in Subtask
  BY DEF TypeOK, Task
<1>2. status[t.id] = "Dispatched" /\ \A u \in js : u.id # t.id
  BY DEF WorkersInv, OneWorkerPerSubtask
<1>3. current' = NoSubtask /\ phase' = "checkpoint"
  BY DEF JoinDispatchErr, JoinFailed, Joined, WorkersInv
<1>4. Conclude(t.id, "Failed", js) \/ Verdict(t.id, js)
  BY DEF JoinDispatchErr, JoinFailed, Verdict
<1>5. UNCHANGED <<recordVars, verdictVars, diskVars>> /\ phase # "ended"
  BY DEF JoinDispatchErr, JoinFailed, Joined
<1> QED
  BY <1>1, <1>2, <1>3, <1>4, <1>5, VerdictSettles DEF Settles

LEMMA VerifySettles ==
    ASSUME WorkersInv, VerifyDiff
    PROVE  current \in Subtask /\ Settles(current, joinset)
<1>1. /\ current \in Subtask /\ status[current] = "Dispatched"
      /\ \A u \in joinset : u.id # current
  BY DEF VerifyDiff, WorkersInv, OneWorkerPerSubtask
<1>2. Verdict(current, joinset)
  BY DEF VerifyDiff, Verdict
<1> QED
  BY <1>1, <1>2, VerdictSettles DEF VerifyDiff, Settles

\* The steps of run_task in the terms of the invariants below.
LEMMA StepCases ==
    ASSUME TypeOK, WorkersInv, [Next]_vars
    PROVE  \/ ScheduleReady
           \/ SelectDrained \/ NoneNewlyDone \/ EndRun
           \/ \E t \in joinset : JoinError(t) \/ JoinDone(t)
           \/ \E s \in Subtask, js \in SUBSET joinset : Settles(s, js)
           \/ \E s \in Subtask : CheckpointTaken(s)
           \/ \E s \in Subtask : ApplyFails(s) \/ CommitFails(s)
           \/ CheckBudget
           \/ \E t \in joinset : WorkerFinishes(t) \/ WorkerCancelled(t)
           \/ UNCHANGED vars
<1>1. CASE JoinNext
  BY <1>1, JoinSettles DEF JoinNext
<1>2. CASE VerifyDiff
  BY <1>2, VerifySettles
<1> QED
  BY <1>1, <1>2 DEF Next, RunStep, LoopStep, TakeCheckpoint, WorkerStep, Returned

\* Marking workers as aborted keeps their subtasks.
LEMMA AbortAllIds ==
    ASSUME NEW js \in SUBSET Task, NEW u \in AbortAll(js)
    PROVE  \E t \in js : /\ u.id = t.id
                         /\ u = IF t.state = "running" THEN [t EXCEPT !.aborted = TRUE] ELSE t
<1>1. PICK t \in js : u = IF t.state = "running" THEN [t EXCEPT !.aborted = TRUE] ELSE t
  BY DEF AbortAll
<1>2. [t EXCEPT !.aborted = TRUE].id = t.id
  BY DEF Task
<1> QED
  BY <1>1, <1>2

\* The same for a worker that ends.
LEMMA SettleIds ==
    ASSUME TypeOK, NEW t \in joinset, WorkerFinishes(t) \/ WorkerCancelled(t)
    PROVE  \E v : v.id = t.id /\ joinset' = (joinset \ {t}) \cup {v}
<1>1. PICK o \in Outcome \cup {"cancelled"} : Settle(t, o)
  BY DEF WorkerFinishes, WorkerCancelled
<1>2. [t EXCEPT !.state = o].id = t.id
  BY DEF TypeOK, Task
<1> QED
  BY <1>1, <1>2 DEF Settle

LEMMA WorkersStep ==
    ASSUME TypeOK, WorkersInv, [Next]_vars
    PROVE  WorkersInv'
<1>1. CASE ScheduleReady
  <2>1. current = NoSubtask /\ current' = NoSubtask /\ phase' # "verifying"
    BY <1>1 DEF ScheduleReady, WorkersInv
  <2>2. \A s \in Runnable : s \in Subtask /\ status[s] # "Dispatched" /\ status'[s] = "Dispatched"
    BY <1>1 DEF ScheduleReady, Runnable
  <2>3. \A s \in Subtask : status[s] = "Dispatched" => status'[s] = "Dispatched"
    BY <1>1 DEF ScheduleReady
  <2>4. \A u \in SpawnedTasks(Runnable) : u.id \in Runnable /\ u = NewTask(u.id, dispatches[u.id] + 1)
    <3> SUFFICES ASSUME NEW u \in SpawnedTasks(Runnable)
                 PROVE  u.id \in Runnable /\ u = NewTask(u.id, dispatches[u.id] + 1)
      OBVIOUS
    <3>1. PICK s \in Runnable : u = NewTask(s, dispatches[s] + 1)
      BY DEF SpawnedTasks
    <3>2. dispatches[s] \in Nat
      BY <2>2 DEF TypeOK
    <3>3. u.id = s
      BY <2>2, <3>1, <3>2, NewTaskType
    <3> QED
      BY <3>1, <3>3
  <2>5. \A t \in joinset : t.id \in Subtask /\ status[t.id] = "Dispatched"
    BY DEF WorkersInv, OneWorkerPerSubtask, TypeOK, Task
  <2>6. joinset' = joinset \cup SpawnedTasks(Runnable)
    BY <1>1 DEF ScheduleReady
  <2>7. \A t, u \in joinset' : t.id = u.id => t = u
    BY <2>2, <2>4, <2>5, <2>6 DEF WorkersInv, OneWorkerPerSubtask
  <2>8. \A t \in joinset' : t.id \in Subtask /\ status'[t.id] = "Dispatched"
    BY <2>2, <2>3, <2>4, <2>5, <2>6
  <2> QED
    BY <2>1, <2>7, <2>8, PlanAssumption DEF WorkersInv, OneWorkerPerSubtask
<1>2. CASE SelectDrained \/ NoneNewlyDone \/ EndRun
  BY <1>2 DEF SelectDrained, NoneNewlyDone, EndRun, WorkersInv, OneWorkerPerSubtask, runtimeVars
<1>3. ASSUME NEW t \in joinset, JoinError(t) \/ JoinDone(t)
      PROVE  WorkersInv'
  <2>1. joinset' = joinset \ {t} /\ status' = status
    BY <1>3 DEF JoinError, JoinDone, runtimeVars
  <2>2. CASE JoinError(t)
    BY <2>1, <2>2 DEF JoinError, Joined, WorkersInv, OneWorkerPerSubtask
  <2>3. CASE JoinDone(t)
    <3>1. t.id \in Subtask /\ status[t.id] = "Dispatched"
      BY DEF WorkersInv, OneWorkerPerSubtask, TypeOK, Task
    <3>2. \A u \in joinset' : u.id # t.id
      BY <2>1 DEF WorkersInv, OneWorkerPerSubtask
    <3> QED
      BY <2>1, <2>3, <3>1, <3>2 DEF JoinDone, WorkersInv, OneWorkerPerSubtask
  <2> QED
    BY <1>3, <2>2, <2>3
<1>4. ASSUME NEW s \in Subtask, NEW js \in SUBSET joinset, Settles(s, js)
      PROVE  WorkersInv'
  <2>1. \A u \in js : u.id # s /\ status'[u.id] = "Dispatched" /\ u.id \in Subtask
    BY <1>4 DEF Settles, Conclude, Redispatch, WorkersInv, OneWorkerPerSubtask, TypeOK, Task
  <2>2. \A t, u \in js : t.id = u.id => t = u
    BY <1>4 DEF WorkersInv, OneWorkerPerSubtask
  <2>3. current' = NoSubtask /\ phase' = "checkpoint"
    BY <1>4 DEF Settles
  <2>4. CASE joinset' = js
    BY <2>1, <2>2, <2>3, <2>4, PlanAssumption DEF WorkersInv, OneWorkerPerSubtask
  <2>5. CASE Redispatch(s, js)
    <3>1. NewTask(s, dispatches[s] + 1).id = s
      BY NewTaskType DEF TypeOK
    <3>2. status'[s] = "Dispatched"
      BY <2>5 DEF Redispatch, TypeOK
    <3> QED
      BY <2>1, <2>2, <2>3, <2>5, <3>1, <3>2, PlanAssumption
      DEF Redispatch, WorkersInv, OneWorkerPerSubtask
  <2> QED
    BY <1>4, <2>4, <2>5 DEF Settles, Conclude
<1>5. ASSUME NEW s \in Subtask, CheckpointTaken(s)
      PROVE  WorkersInv'
  BY <1>5 DEF CheckpointTaken, TakeNext, WorkersInv, OneWorkerPerSubtask
<1>6. ASSUME NEW s \in Subtask, ApplyFails(s) \/ CommitFails(s)
      PROVE  WorkersInv'
  <2>1. /\ status[s] = "Done" /\ status' = [status EXCEPT ![s] = "Failed"]
        /\ phase = "checkpoint" /\ phase' = "budget"
        /\ UNCHANGED <<joinset, current>>
    BY <1>6 DEF ApplyFails, CommitFails, TakeNext, NewlyDone, FailTask
  <2>2. \A t \in joinset : t.id # s
    BY <2>1 DEF WorkersInv, OneWorkerPerSubtask
  <2>3. \A t \in joinset : status'[t.id] = status[t.id]
    BY <2>1, <2>2 DEF TypeOK, Task
  <2> QED
    BY <2>1, <2>3 DEF WorkersInv, OneWorkerPerSubtask
<1>7. CASE CheckBudget
  <2>1. /\ phase = "budget" /\ phase' = "schedule" /\ UNCHANGED <<current, status>>
        /\ joinset' \in {joinset, AbortAll(joinset)}
    BY <1>7 DEF CheckBudget, runtimeVars
  <2>2. joinset \in SUBSET Task
    BY DEF TypeOK
  <2>3. CASE joinset' = joinset
    BY <2>1, <2>3 DEF WorkersInv, OneWorkerPerSubtask
  <2>4. CASE joinset' = AbortAll(joinset)
    <3>1. \A t, u \in joinset' : t.id = u.id => t = u
      <4> SUFFICES ASSUME NEW t \in AbortAll(joinset), NEW u \in AbortAll(joinset), t.id = u.id
                   PROVE  t = u
        BY <2>4
      <4> DEFINE Mark(v) == IF v.state = "running" THEN [v EXCEPT !.aborted = TRUE] ELSE v
      <4>1. PICK t0 \in joinset : t.id = t0.id /\ t = Mark(t0)
        BY <2>2, AbortAllIds
      <4>2. PICK u0 \in joinset : u.id = u0.id /\ u = Mark(u0)
        BY <2>2, AbortAllIds
      <4>3. t0 = u0
        BY <4>1, <4>2 DEF WorkersInv, OneWorkerPerSubtask
      <4> QED
        BY <4>1, <4>2, <4>3
    <3>2. \A t \in joinset' : status[t.id] = "Dispatched" /\ t.id # current
      BY <2>2, <2>4, AbortAllIds DEF WorkersInv, OneWorkerPerSubtask
    <3> QED
      BY <2>1, <3>1, <3>2 DEF WorkersInv, OneWorkerPerSubtask
  <2> QED
    BY <2>1, <2>3, <2>4
<1>8. ASSUME NEW t \in joinset, WorkerFinishes(t) \/ WorkerCancelled(t)
      PROVE  WorkersInv'
  <2>1. PICK v : v.id = t.id /\ joinset' = (joinset \ {t}) \cup {v}
    BY <1>8, SettleIds
  <2>2. UNCHANGED <<phase, current, status>>
    BY <1>8 DEF WorkerFinishes, WorkerCancelled, runtimeVars
  <2> QED
    BY <2>1, <2>2 DEF WorkersInv, OneWorkerPerSubtask
<1>9. CASE UNCHANGED vars
  BY <1>9 DEF vars, runtimeVars, WorkersInv, OneWorkerPerSubtask
<1> QED
  BY <1>1, <1>2, <1>3, <1>4, <1>5, <1>6, <1>7, <1>8, <1>9, StepCases

LEMMA InitTypeWorkers == Init => TypeOK /\ WorkersInv
<1> SUFFICES ASSUME Init PROVE TypeOK /\ WorkersInv
  OBVIOUS
<1>1. status \in [Subtask -> SubtaskStatus]
  BY DEF Init, InitialStatus, SubtaskStatus
<1>2. escalations \in [Subtask -> 0 .. MaxEscalations]
  BY TierAssumption DEF Init, Zero
<1>3. /\ attempts \in [Subtask -> Nat] /\ dispatches \in [Subtask -> Nat]
      /\ applied \in [Subtask -> Nat]
  BY DEF Init, Zero
<1>4. checkpoints \in Seq(Checkpoint)
  BY DEF Init
<1>5. phase \in Phase /\ terminal \in {"None", "Paused", "Failed", "Reviewing"}
  BY DEF Init, Phase
<1>6. tier \in [Subtask -> 0 .. TopTier] /\ joinset \subseteq Task /\ refs \subseteq Nat \ {0}
  BY TierAssumption DEF Init
<1>7. /\ current = NoSubtask /\ failure = NoSubtask /\ checkpointed = {}
      /\ nextSeq = 1 /\ paused = FALSE
  BY DEF Init
<1>8. WorkersInv
  BY DEF Init, WorkersInv, OneWorkerPerSubtask
<1>9. /\ current \in Subtask \cup {NoSubtask} /\ failure \in Subtask \cup {NoSubtask}
      /\ checkpointed \subseteq Subtask /\ paused \in BOOLEAN
  BY <1>7
<1>10. nextSeq \in Nat \ {0}
  BY <1>7
<1>11. TypeOK
  BY <1>1, <1>2, <1>3, <1>4, <1>5, <1>6, <1>9, <1>10, Zenon DEF TypeOK
<1> QED
  BY <1>8, <1>11

\* run_task keeps every record in its type.
THEOREM TypeCorrect == Spec => []TypeOK
<1>1. Init => TypeOK /\ WorkersInv
  BY InitTypeWorkers
<1>2. (TypeOK /\ WorkersInv) /\ [Next]_vars => (TypeOK /\ WorkersInv)'
  BY TypeStep, WorkersStep
<1> QED
  BY <1>1, <1>2, PTL DEF Spec

\* A subtask never has two workers, and none while its diff is verified,
\* whatever is aborted, lost, escalated or re-dispatched.
THEOREM OneWorker == Spec => [](TypeOK /\ WorkersInv /\ OneWorkerPerSubtask)
<1>1. Init => TypeOK /\ WorkersInv
  BY InitTypeWorkers
<1>2. (TypeOK /\ WorkersInv) /\ [Next]_vars => (TypeOK /\ WorkersInv)'
  BY TypeStep, WorkersStep
<1>3. WorkersInv => OneWorkerPerSubtask
  BY DEF WorkersInv
<1> QED
  BY <1>1, <1>2, <1>3, PTL DEF Spec

-----------------------------------------------------------------------------
(***************************************************************************)
(* What is in the workspace.  A worker starts on the Done-ness of its      *)
(* dependencies, which is weaker than their being written: a subtask that  *)
(* is Done but not yet written exists inside the checkpoint loop, and      *)
(* outside of it only once the task has failed, when nothing is scheduled. *)
(***************************************************************************)
DiskInv ==
    /\ \A s \in Subtask : status[s] = "Ready" => Deps[s] = {}
    /\ \A s \in Subtask : status[s] = "Dispatched" => \A d \in Deps[s] : applied[d] = 1
    /\ \A s \in Subtask : s \in checkpointed => status[s] \in {"Done", "Failed"}
    /\ \A s \in Subtask : status[s] = "Done" /\ s \in checkpointed => applied[s] = 1
    /\ \A s \in Subtask : status[s] = "Done" /\ s \notin checkpointed
                            => phase = "checkpoint" \/ failure # NoSubtask
    /\ \A s \in Subtask : applied[s] \in {0, 1} /\ (applied[s] = 1 => s \in checkpointed)

LEMMA DiskSchedule ==
    ASSUME TypeOK, DiskInv, ScheduleReady
    PROVE  DiskInv'
<1>1. /\ phase = "schedule" /\ UNCHANGED <<checkpointed, failure, applied>>
      /\ status' = [s \in Subtask |-> IF s \in Runnable THEN "Dispatched" ELSE status[s]]
  BY DEF ScheduleReady, recordVars, verdictVars, diskVars
<1>2. \A s \in Runnable : s \in Subtask /\ failure = NoSubtask
                          /\ status[s] \in {"Ready", "Queued"}
  BY DEF Runnable
<1>3. \A s \in Subtask : Deps[s] \subseteq Subtask
  BY PlanAssumption
<1>4. ASSUME NEW s \in Runnable, NEW d \in Deps[s]
      PROVE  applied[d] = 1
  <2>1. d \in Subtask /\ status[d] = "Done"
    BY <1>2, <1>3 DEF Runnable, DepsDone, DiskInv
  <2>2. d \in checkpointed
    BY <1>1, <1>2, <2>1 DEF DiskInv
  <2> QED
    BY <2>1, <2>2 DEF DiskInv
<1>5. \A s \in Subtask : status'[s] = "Dispatched" => \A d \in Deps[s] : applied[d] = 1
  BY <1>1, <1>4 DEF DiskInv
<1>6. \A s \in Subtask : s \in Runnable => s \notin checkpointed
  BY <1>2 DEF DiskInv
<1>7. \A s \in Subtask : status'[s] # "Dispatched" => status'[s] = status[s]
  BY <1>1
<1>8. \A s \in Subtask : s \notin Runnable => status'[s] = status[s]
  BY <1>1
<1>9. \A s \in Subtask : s \in checkpointed => status'[s] = status[s]
  BY <1>6, <1>8
<1> QED
  BY <1>1, <1>5, <1>7, <1>9 DEF DiskInv

LEMMA DiskSettles ==
    ASSUME TypeOK, DiskInv, NEW s \in Subtask, NEW js, Settles(s, js)
    PROVE  DiskInv'
<1>1. /\ status[s] = "Dispatched" /\ phase' = "checkpoint"
      /\ UNCHANGED <<checkpointed, failure, applied>>
  BY DEF Settles, recordVars, verdictVars, diskVars
<1>2. PICK st \in {"Done", "Failed", "Dispatched"} : status' = [status EXCEPT ![s] = st]
  BY DEF Settles, Conclude, Redispatch
<1>3. s \notin checkpointed
  BY <1>1 DEF DiskInv
<1>4. status'[s] = st /\ \A r \in Subtask \ {s} : status'[r] = status[r]
  BY <1>2 DEF TypeOK
<1> QED
  BY <1>1, <1>3, <1>4 DEF DiskInv

LEMMA DiskCheckpoint ==
    ASSUME TypeOK, DiskInv, NEW s \in Subtask, CheckpointTaken(s)
    PROVE  DiskInv'
<1>1. /\ phase = "checkpoint" /\ phase' = "checkpoint" /\ UNCHANGED <<status, failure>>
      /\ status[s] = "Done" /\ s \notin checkpointed
      /\ checkpointed' = checkpointed \cup {s}
      /\ applied' = [applied EXCEPT ![s] = applied[s] + 1]
  BY DEF CheckpointTaken, TakeNext, NewlyDone, Write
<1>2. applied[s] = 0
  BY <1>1 DEF DiskInv
<1>3. applied'[s] = 1 /\ \A r \in Subtask \ {s} : applied'[r] = applied[r]
  BY <1>1, <1>2 DEF TypeOK
<1>4. \A r \in Subtask : applied[r] = 1 => applied'[r] = 1
  BY <1>2, <1>3
<1>5. \A r \in Subtask : Deps[r] \subseteq Subtask
  BY PlanAssumption
<1>6. \A r \in Subtask : status'[r] = "Dispatched" => \A q \in Deps[r] : applied'[q] = 1
  BY <1>1, <1>4, <1>5 DEF DiskInv
<1> QED
  BY <1>1, <1>3, <1>6 DEF DiskInv

LEMMA DiskFails ==
    ASSUME TypeOK, DiskInv, NEW s \in Subtask, ApplyFails(s) \/ CommitFails(s)
    PROVE  DiskInv'
<1>1. /\ phase = "checkpoint" /\ status' = [status EXCEPT ![s] = "Failed"] /\ failure' = s
      /\ status[s] = "Done" /\ s \notin checkpointed
      /\ checkpointed' = checkpointed \cup {s}
      /\ applied' = applied \/ applied' = [applied EXCEPT ![s] = applied[s] + 1]
  BY DEF ApplyFails, CommitFails, TakeNext, FailTask, NewlyDone, Write, diskVars
<1>2. applied[s] = 0
  BY <1>1 DEF DiskInv
<1>3. applied'[s] \in {0, 1} /\ \A r \in Subtask \ {s} : applied'[r] = applied[r]
  BY <1>1, <1>2 DEF TypeOK
<1>4. \A r \in Subtask : applied[r] = 1 => applied'[r] = 1
  BY <1>2, <1>3
<1>5. status'[s] = "Failed" /\ \A r \in Subtask \ {s} : status'[r] = status[r]
  BY <1>1 DEF TypeOK
<1>6. \A r \in Subtask : Deps[r] \subseteq Subtask
  BY PlanAssumption
<1>7. \A r \in Subtask : status'[r] = "Dispatched" => \A q \in Deps[r] : applied'[q] = 1
  BY <1>1, <1>4, <1>5, <1>6 DEF DiskInv
<1>8. failure' # NoSubtask
  BY <1>1, PlanAssumption
<1> QED
  BY <1>1, <1>3, <1>5, <1>7, <1>8 DEF DiskInv

LEMMA DiskStep ==
    ASSUME TypeOK, WorkersInv, DiskInv, [Next]_vars
    PROVE  DiskInv'
<1>1. CASE SelectDrained \/ EndRun
  BY <1>1 DEF SelectDrained, EndRun, DiskInv, runtimeVars, recordVars, verdictVars, diskVars
<1>2. CASE NoneNewlyDone
  BY <1>2 DEF NoneNewlyDone, NewlyDone, DiskInv, runtimeVars, recordVars, verdictVars, diskVars
<1>3. ASSUME NEW t \in joinset, JoinError(t) \/ JoinDone(t)
      PROVE  DiskInv'
  BY <1>3 DEF JoinError, JoinDone, Joined, DiskInv, runtimeVars, recordVars, verdictVars, diskVars
<1>4. CASE CheckBudget
  <2>1. /\ phase = "budget" /\ UNCHANGED <<status, checkpointed, applied>>
        /\ failure # NoSubtask => failure' # NoSubtask
    BY <1>4 DEF CheckBudget, runtimeVars, recordVars, diskVars
  <2> QED
    BY <2>1 DEF DiskInv
<1>5. ASSUME NEW t \in joinset, WorkerFinishes(t) \/ WorkerCancelled(t)
      PROVE  DiskInv'
  BY <1>5 DEF WorkerFinishes, WorkerCancelled, DiskInv,
              runtimeVars, recordVars, verdictVars, diskVars
<1>6. CASE UNCHANGED vars
  BY <1>6 DEF vars, DiskInv, runtimeVars, recordVars, verdictVars, diskVars
<1> QED
  BY <1>1, <1>2, <1>3, <1>4, <1>5, <1>6, StepCases,
     DiskSchedule, DiskSettles, DiskCheckpoint, DiskFails

LEMMA InitDisk == Init => DiskInv
  BY DEF Init, InitialStatus, NoResume, Completed, Zero, DiskInv

\* The three inductive invariants together.
LEMMA Inductive == Spec => [](TypeOK /\ WorkersInv /\ DiskInv)
<1>1. Init => TypeOK /\ WorkersInv /\ DiskInv
  BY InitTypeWorkers, InitDisk
<1>2. (TypeOK /\ WorkersInv /\ DiskInv) /\ [Next]_vars => (TypeOK /\ WorkersInv /\ DiskInv)'
  BY TypeStep, WorkersStep, DiskStep
<1> QED
  BY <1>1, <1>2, PTL DEF Spec

\* A worker only ever works on a workspace that holds the verified diffs of all
\* its dependencies.
THEOREM WorkersSeeDependencies == Spec => []DependenciesApplied
<1>1. TypeOK /\ WorkersInv /\ DiskInv => DependenciesApplied
  <2> SUFFICES ASSUME TypeOK, WorkersInv, DiskInv, NEW t \in joinset, NEW d \in Deps[t.id]
               PROVE  applied[d] > 0
    BY DEF DependenciesApplied
  <2>1. t.id \in Subtask /\ status[t.id] = "Dispatched"
    BY DEF TypeOK, Task, WorkersInv, OneWorkerPerSubtask
  <2>2. applied[d] = 1
    BY <2>1 DEF DiskInv
  <2> QED
    BY <2>2
<1> QED
  BY <1>1, Inductive, PTL

-----------------------------------------------------------------------------
(***************************************************************************)
(* The checkpoint chain.  A failed write or commit consumes a sequence     *)
(* number, so nextSeq may run ahead of the chain; the chain grows only     *)
(* when the parent ref exists, that is when nextSeq does not run ahead.    *)
(***************************************************************************)
ChainInv ==
    /\ refs = 1 .. Len(checkpoints)
    /\ Len(checkpoints) < nextSeq
    /\ \A i \in DOMAIN checkpoints :
         LET cp == checkpoints[i]
         IN  /\ cp.seq = i
             /\ cp.subtask \in Subtask \cap checkpointed
             /\ status[cp.subtask] = "Done"
             /\ applied[cp.subtask] = 1
    /\ \A i, j \in DOMAIN checkpoints :
         checkpoints[i].subtask = checkpoints[j].subtask => i = j

\* A step that leaves the chain and its subtasks as they are keeps ChainInv.
LEMMA ChainKept ==
    ASSUME TypeOK, ChainInv, nextSeq' \in Nat, nextSeq <= nextSeq',
           UNCHANGED <<refs, checkpoints>>, checkpointed \subseteq checkpointed',
           \A s \in Subtask \cap checkpointed :
             status'[s] = status[s] /\ applied'[s] = applied[s]
    PROVE  ChainInv'
<1>1. Len(checkpoints) \in Nat /\ nextSeq \in Nat
  BY DEF TypeOK
<1>2. Len(checkpoints') < nextSeq'
  BY <1>1 DEF ChainInv
<1> QED
  BY <1>2 DEF ChainInv

LEMMA ChainTaken ==
    ASSUME TypeOK, DiskInv, ChainInv, NEW s \in Subtask, CheckpointTaken(s)
    PROVE  ChainInv'
<1>1. /\ UNCHANGED status /\ status[s] = "Done" /\ s \notin checkpointed
      /\ checkpointed' = checkpointed \cup {s} /\ nextSeq' = nextSeq + 1
      /\ applied' = [applied EXCEPT ![s] = applied[s] + 1]
  BY DEF CheckpointTaken, TakeNext, NewlyDone, Write
<1>2. applied[s] = 0
  BY <1>1 DEF DiskInv
<1>3. applied'[s] = 1 /\ \A r \in Subtask \ {s} : applied'[r] = applied[r]
  BY <1>1, <1>2 DEF TypeOK
<1>4. \A r \in Subtask \cap checkpointed : status'[r] = status[r] /\ applied'[r] = applied[r]
  BY <1>1, <1>3
<1>5. nextSeq \in Nat /\ nextSeq' \in Nat /\ nextSeq <= nextSeq'
  BY <1>1 DEF TypeOK
<1>6. CASE ~UseGit
  <2>1. UNCHANGED <<refs, checkpoints>>
    BY <1>6 DEF CheckpointTaken
  <2> QED
    BY <1>1, <1>4, <1>5, <2>1, ChainKept
<1>7. CASE UseGit
  <2> DEFINE cp == [subtask |-> s, seq |-> nextSeq]
             n  == Len(checkpoints)
  <2>1. /\ refs' = refs \cup {nextSeq} /\ checkpoints' = Append(checkpoints, cp)
        /\ nextSeq = 1 \/ nextSeq - 1 \in refs
    BY <1>7 DEF CheckpointTaken, ParentRefExists
  <2>2. checkpoints \in Seq(Checkpoint) /\ n \in Nat /\ cp \in Checkpoint
    BY DEF TypeOK, Checkpoint
  <2>3. nextSeq = n + 1
    BY <1>5, <2>1, <2>2 DEF ChainInv
  <2>4. /\ Len(checkpoints') = n + 1
        /\ checkpoints'[n + 1] = cp
        /\ \A i \in 1 .. n : checkpoints'[i] = checkpoints[i]
    BY <2>1, <2>2
  <2>5. DOMAIN checkpoints = 1 .. n /\ DOMAIN checkpoints' = 1 .. (n + 1)
    BY <2>1, <2>2, <2>4
  <2>6. refs' = 1 .. Len(checkpoints')
    BY <2>1, <2>2, <2>3, <2>4 DEF ChainInv
  <2>7. Len(checkpoints') < nextSeq'
    BY <1>1, <2>2, <2>3, <2>4
  <2>8. cp.seq = n + 1 /\ cp.subtask = s
    BY <2>3
  <2>9. \A i \in 1 .. n : /\ checkpoints[i].seq = i
                          /\ checkpoints[i].subtask \in Subtask \cap checkpointed
                          /\ status[checkpoints[i].subtask] = "Done"
                          /\ applied[checkpoints[i].subtask] = 1
    BY <2>5 DEF ChainInv
  <2> HIDE DEF cp, n
  <2>10. \A i \in 1 .. (n + 1) : i \in 1 .. n \/ i = n + 1
    BY <2>2
  <2>11. \A i \in DOMAIN checkpoints' :
           /\ checkpoints'[i].seq = i
           /\ checkpoints'[i].subtask \in Subtask \cap checkpointed'
           /\ status'[checkpoints'[i].subtask] = "Done"
           /\ applied'[checkpoints'[i].subtask] = 1
    BY <1>1, <1>3, <1>4, <2>4, <2>5, <2>8, <2>9, <2>10
  <2>12. \A i \in 1 .. n : checkpoints'[i].subtask # s
    BY <1>1, <2>4, <2>9
  <2>13. \A i, j \in 1 .. n : checkpoints[i].subtask = checkpoints[j].subtask => i = j
    BY <2>5 DEF ChainInv
  <2>14. \A i, j \in DOMAIN checkpoints' :
           checkpoints'[i].subtask = checkpoints'[j].subtask => i = j
    BY <2>4, <2>5, <2>8, <2>10, <2>12, <2>13
  <2> QED
    BY <2>6, <2>7, <2>11, <2>14 DEF ChainInv
<1> QED
  BY <1>6, <1>7

LEMMA ChainStep ==
    ASSUME TypeOK, WorkersInv, DiskInv, ChainInv, [Next]_vars
    PROVE  ChainInv'
<1>1. nextSeq \in Nat /\ nextSeq <= nextSeq /\ checkpointed \subseteq checkpointed
  BY DEF TypeOK
<1>2. CASE ScheduleReady
  <2>1. UNCHANGED <<recordVars, diskVars>>
    BY <1>2 DEF ScheduleReady
  <2>2. \A s \in Subtask \cap checkpointed : status'[s] = status[s]
    BY <1>2 DEF ScheduleReady, Runnable, DiskInv
  <2> QED
    BY <1>1, <2>1, <2>2, ChainKept DEF recordVars, diskVars
<1>3. ASSUME NEW s \in Subtask, NEW js, Settles(s, js)
      PROVE  ChainInv'
  <2>1. UNCHANGED <<recordVars, diskVars>>
    BY <1>3 DEF Settles
  <2>2. s \notin checkpointed
    BY <1>3 DEF Settles, DiskInv
  <2>3. \A r \in Subtask \ {s} : status'[r] = status[r]
    BY <1>3 DEF Settles, Conclude, Redispatch, TypeOK
  <2> QED
    BY <1>1, <2>1, <2>2, <2>3, ChainKept DEF recordVars, diskVars
<1>4. ASSUME NEW s \in Subtask, ApplyFails(s) \/ CommitFails(s)
      PROVE  ChainInv'
  <2>1. /\ UNCHANGED <<refs, checkpoints>> /\ nextSeq' = nextSeq + 1
        /\ checkpointed' = checkpointed \cup {s} /\ s \notin checkpointed
        /\ status' = [status EXCEPT ![s] = "Failed"]
        /\ applied' = applied \/ applied' = [applied EXCEPT ![s] = applied[s] + 1]
    BY <1>4 DEF ApplyFails, CommitFails, TakeNext, FailTask, NewlyDone, Write, diskVars
  <2>2. \A r \in Subtask \ {s} : status'[r] = status[r] /\ applied'[r] = applied[r]
    BY <2>1 DEF TypeOK
  <2>3. nextSeq' \in Nat /\ nextSeq <= nextSeq'
    BY <1>1, <2>1
  <2> QED
    BY <2>1, <2>2, <2>3, ChainKept
<1>5. CASE UNCHANGED <<status, recordVars, diskVars>>
  BY <1>1, <1>5, ChainKept DEF recordVars, diskVars
<1>6. ASSUME NEW t, \/ JoinError(t) \/ JoinDone(t)
                    \/ WorkerFinishes(t) \/ WorkerCancelled(t)
      PROVE  UNCHANGED <<status, recordVars, diskVars>>
  BY <1>6 DEF JoinError, JoinDone, WorkerFinishes, WorkerCancelled, runtimeVars
<1>7. CASE SelectDrained \/ NoneNewlyDone \/ EndRun \/ CheckBudget \/ UNCHANGED vars
  BY <1>5, <1>7 DEF SelectDrained, NoneNewlyDone, EndRun, CheckBudget, vars, runtimeVars
<1> QED
  BY <1>2, <1>3, <1>4, <1>5, <1>6, <1>7, ChainTaken, StepCases

\* The checkpoints of a run form one unbroken chain of refs, one per subtask,
\* each of a subtask that is Done and written.
THEOREM CheckpointsFormAChain == Spec => []CheckpointChain
<1>1. Init => ChainInv
  BY DEF Init, ChainInv
<1>2. (TypeOK /\ WorkersInv /\ DiskInv) /\ ChainInv /\ [Next]_vars => ChainInv'
  BY ChainStep
<1>3. ChainInv => CheckpointChain
  BY DEF ChainInv, CheckpointChain
<1> QED
  BY <1>1, <1>2, <1>3, Inductive, PTL DEF Spec

-----------------------------------------------------------------------------
(***************************************************************************)
(* What a run reports.  Until it has failed, no subtask is Failed outside  *)
(* the checkpoint loop and the budget step, and whatever the scheduler has *)
(* left Queued waits for a subtask that is not Done.                       *)
(***************************************************************************)
ReportInv ==
    /\ failure = NoSubtask /\ phase \notin {"checkpoint", "budget", "ended"} =>
         \A s \in Subtask : status[s] # "Failed"
    /\ failure = NoSubtask /\ phase \in {"select", "finish"} =>
         \A s \in Subtask : /\ status[s] # "Ready"
                            /\ status[s] = "Queued" => ~DepsDone(s)
    /\ ReviewingIsAccounted

LEMMA ReportSchedule ==
    ASSUME TypeOK, ReportInv, ScheduleReady
    PROVE  ReportInv'
<1>1. /\ phase = "schedule" /\ phase' \in {"select", "finish"} /\ UNCHANGED failure
      /\ status' = [s \in Subtask |-> IF s \in Runnable THEN "Dispatched" ELSE status[s]]
  BY DEF ScheduleReady, verdictVars
<1>2. ReviewingIsAccounted'
  BY <1>1 DEF ReviewingIsAccounted
<1>3. ASSUME failure = NoSubtask
      PROVE  \A s \in Subtask : status'[s] # "Failed" /\ status'[s] # "Ready"
  BY <1>1, <1>3 DEF ReportInv, Runnable
<1>4. ASSUME failure = NoSubtask, NEW s \in Subtask, status'[s] = "Queued"
      PROVE  ~DepsDone(s)'
  <2>1. s \notin Runnable /\ status[s] = "Queued"
    BY <1>1, <1>4
  <2>2. ~DepsDone(s)
    BY <1>4, <2>1 DEF Runnable
  <2>3. PICK d \in Deps[s] : status[d] # "Done"
    BY <2>2 DEF DepsDone
  <2>4. d \in Subtask
    BY PlanAssumption
  <2>5. status'[d] # "Done"
    BY <1>1, <2>3, <2>4
  <2> QED
    BY <2>3, <2>5 DEF DepsDone
<1> QED
  BY <1>1, <1>2, <1>3, <1>4 DEF ReportInv

LEMMA ReportEnd ==
    ASSUME TypeOK, DiskInv, ReportInv, EndRun
    PROVE  ReportInv'
<1>1. /\ phase = "finish" /\ phase' = "ended" /\ UNCHANGED <<failure, status, applied>>
      /\ terminal' = "Reviewing" => failure = NoSubtask
  BY DEF EndRun, runtimeVars, diskVars
<1>2. ASSUME failure = NoSubtask, NEW s \in Subtask
      PROVE  \/ status[s] = "Done" /\ applied[s] = 1
             \/ status[s] = "Dispatched"
             \/ status[s] = "Queued" /\ ~DepsDone(s)
  <2>1. status[s] \in {"Queued", "Dispatched", "Done"} /\ (status[s] = "Queued" => ~DepsDone(s))
    BY <1>1, <1>2 DEF ReportInv, TypeOK, SubtaskStatus
  <2>2. status[s] = "Done" => applied[s] = 1
    BY <1>1, <1>2 DEF DiskInv
  <2> QED
    BY <2>1, <2>2
<1>3. \A s \in Subtask : DepsDone(s)' <=> DepsDone(s)
  BY <1>1 DEF DepsDone
<1>4. ReviewingIsAccounted'
  BY <1>1, <1>2, <1>3 DEF ReviewingIsAccounted
<1> QED
  BY <1>1, <1>4 DEF ReportInv

LEMMA ReportStep ==
    ASSUME TypeOK, WorkersInv, DiskInv, ReportInv, [Next]_vars
    PROVE  ReportInv'
<1>1. ASSUME UNCHANGED <<status, failure, applied, terminal>>,
             \/ phase' = phase
             \/ phase = "select" /\ phase' \in {"finish", "schedule", "verifying"}
             \/ phase' \in {"checkpoint", "budget"}
      PROVE  ReportInv'
  <2>1. \A s \in Subtask : DepsDone(s)' <=> DepsDone(s)
    BY <1>1 DEF DepsDone
  <2> QED
    BY <1>1, <2>1 DEF ReportInv, ReviewingIsAccounted
<1>2. CASE SelectDrained \/ NoneNewlyDone
  BY <1>1, <1>2 DEF SelectDrained, NoneNewlyDone, runtimeVars, verdictVars, diskVars
<1>3. ASSUME NEW t \in joinset, JoinError(t) \/ JoinDone(t)
      PROVE  ReportInv'
  BY <1>1, <1>3 DEF JoinError, JoinDone, Joined, runtimeVars, verdictVars, diskVars
<1>4. ASSUME NEW s \in Subtask, NEW js, Settles(s, js)
      PROVE  ReportInv'
  BY <1>4 DEF Settles, ReportInv, ReviewingIsAccounted
<1>5. ASSUME NEW s \in Subtask,
             CheckpointTaken(s) \/ ApplyFails(s) \/ CommitFails(s)
      PROVE  ReportInv'
  <2>1. phase' \in {"checkpoint", "budget"}
    BY <1>5 DEF CheckpointTaken, ApplyFails, CommitFails, TakeNext, FailTask
  <2> QED
    BY <2>1 DEF ReportInv, ReviewingIsAccounted
<1>6. CASE CheckBudget
  <2>1. /\ phase' = "schedule" /\ UNCHANGED status
        /\ failure' = NoSubtask => FailedSubtasks = {}
    BY <1>6, PlanAssumption DEF CheckBudget, FailedSubtasks, runtimeVars
  <2> QED
    BY <2>1 DEF FailedSubtasks, ReportInv, ReviewingIsAccounted
<1>7. ASSUME NEW t \in joinset, WorkerFinishes(t) \/ WorkerCancelled(t)
      PROVE  ReportInv'
  BY <1>1, <1>7 DEF WorkerFinishes, WorkerCancelled, runtimeVars, verdictVars, diskVars
<1>8. CASE UNCHANGED vars
  BY <1>1, <1>8 DEF vars, runtimeVars, verdictVars, diskVars
<1> QED
  BY <1>2, <1>3, <1>4, <1>5, <1>6, <1>7, <1>8, StepCases, ReportSchedule, ReportEnd

\* A run that ends in Reviewing has every subtask Done and written, or lost its
\* worker, or waits for one that is not Done.
THEOREM ReviewingAccounts == Spec => []ReviewingIsAccounted
<1>1. Init => ReportInv
  BY DEF Init, InitialStatus, ReportInv, ReviewingIsAccounted
<1>2. (TypeOK /\ WorkersInv /\ DiskInv) /\ ReportInv /\ [Next]_vars => ReportInv'
  BY ReportStep
<1>3. ReportInv => ReviewingIsAccounted
  BY DEF ReportInv
<1> QED
  BY <1>1, <1>2, <1>3, Inductive, PTL DEF Spec

\* On an acyclic plan, Reviewing with no lost worker means that all is Done: a
\* subtask that is not, and waits for none that is not, has nothing to wait for.
THEOREM ReviewingIsComplete == Spec => []ReviewingCompletes
<1>1. TypeOK /\ ReviewingIsAccounted => ReviewingCompletes
  <2> SUFFICES ASSUME TypeOK, ReviewingIsAccounted, phase = "ended", terminal = "Reviewing",
                      \A s \in Subtask : status[s] # "Dispatched"
               PROVE  \A s \in Subtask : status[s] = "Done"
    BY DEF ReviewingCompletes
  <2> DEFINE S == {s \in Subtask : status[s] # "Done"}
  <2>1. SUFFICES ASSUME S # {} PROVE FALSE
    OBVIOUS
  <2>2. PICK s \in S : Deps[s] \cap S = {}
    <3>1. S \in SUBSET Subtask
      OBVIOUS
    <3> QED
      BY <2>1, <3>1, PlanAssumption DEF AcyclicPlan
  <2>3. ~DepsDone(s)
    BY DEF ReviewingIsAccounted
  <2>4. PICK d \in Deps[s] : status[d] # "Done"
    BY <2>3 DEF DepsDone
  <2>5. d \in Subtask
    BY PlanAssumption
  <2> QED
    BY <2>2, <2>4, <2>5
<1> QED
  BY <1>1, ReviewingAccounts, TypeCorrect, PTL

-----------------------------------------------------------------------------
(***************************************************************************)
(* Failure is final.                                                       *)
(***************************************************************************)
SpawnedInv == \A s \in Subtask : status[s] = "Dispatched" => dispatches[s] > 0

LEMMA SpawnedStep ==
    ASSUME TypeOK, WorkersInv, SpawnedInv, [Next]_vars
    PROVE  SpawnedInv'
<1>1. \A s \in Subtask : dispatches[s] \in Nat
  BY DEF TypeOK
<1>2. CASE ScheduleReady
  <2>1. /\ status' = [s \in Subtask |-> IF s \in Runnable THEN "Dispatched" ELSE status[s]]
        /\ dispatches' = [s \in Subtask |->
                            IF s \in Runnable THEN dispatches[s] + 1 ELSE dispatches[s]]
    BY <1>2 DEF ScheduleReady
  <2> QED
    BY <1>1, <2>1 DEF SpawnedInv
<1>3. ASSUME NEW s \in Subtask, NEW js, Settles(s, js)
      PROVE  SpawnedInv'
  <2>1. \A r \in Subtask \ {s} : status'[r] = status[r] /\ dispatches'[r] = dispatches[r]
    BY <1>3 DEF Settles, Conclude, Redispatch, TypeOK
  <2>2. dispatches'[s] > 0
    BY <1>1, <1>3 DEF Settles, Conclude, Redispatch, TypeOK, SpawnedInv
  <2> QED
    BY <2>1, <2>2 DEF SpawnedInv
<1>4. ASSUME NEW s \in Subtask, ApplyFails(s) \/ CommitFails(s)
      PROVE  SpawnedInv'
  <2>1. UNCHANGED dispatches /\ status' = [status EXCEPT ![s] = "Failed"]
    BY <1>4 DEF ApplyFails, CommitFails, TakeNext, FailTask
  <2>2. \A r \in Subtask : status'[r] = "Dispatched" => status[r] = "Dispatched"
    BY <2>1 DEF TypeOK
  <2> QED
    BY <2>1, <2>2 DEF SpawnedInv
<1>5. ASSUME NEW s \in Subtask, CheckpointTaken(s)
      PROVE  SpawnedInv'
  BY <1>5 DEF CheckpointTaken, TakeNext, SpawnedInv
<1>6. CASE UNCHANGED <<status, dispatches>>
  BY <1>6 DEF SpawnedInv
<1>7. ASSUME NEW t, \/ JoinError(t) \/ JoinDone(t)
                    \/ WorkerFinishes(t) \/ WorkerCancelled(t)
      PROVE  UNCHANGED <<status, dispatches>>
  BY <1>7 DEF JoinError, JoinDone, WorkerFinishes, WorkerCancelled, runtimeVars
<1>8. CASE SelectDrained \/ NoneNewlyDone \/ EndRun \/ CheckBudget \/ UNCHANGED vars
  BY <1>6, <1>8 DEF SelectDrained, NoneNewlyDone, EndRun, CheckBudget, vars, runtimeVars
<1> QED
  BY <1>2, <1>3, <1>4, <1>5, <1>6, <1>7, <1>8, StepCases

\* What FailureIsFinal asks of one step.
FinalStep ==
    /\ \A s \in Subtask : status[s] = "Failed" => status'[s] = "Failed"
    /\ failure # NoSubtask =>
         /\ failure' # NoSubtask
         /\ \A s \in Subtask : dispatches[s] = 0 => dispatches'[s] = 0

LEMMA FinalSteps ==
    ASSUME TypeOK, WorkersInv, SpawnedInv, [Next]_vars
    PROVE  FinalStep
<1>1. CASE ScheduleReady
  <2>1. /\ UNCHANGED failure
        /\ status' = [s \in Subtask |-> IF s \in Runnable THEN "Dispatched" ELSE status[s]]
        /\ dispatches' = [s \in Subtask |->
                            IF s \in Runnable THEN dispatches[s] + 1 ELSE dispatches[s]]
    BY <1>1 DEF ScheduleReady, verdictVars
  <2>2. \A s \in Runnable : status[s] # "Failed" /\ failure = NoSubtask
    BY DEF Runnable
  <2> QED
    BY <2>1, <2>2 DEF FinalStep
<1>2. ASSUME NEW s \in Subtask, NEW js, Settles(s, js)
      PROVE  FinalStep
  <2>1. status[s] = "Dispatched" /\ dispatches[s] # 0 /\ UNCHANGED failure
    BY <1>2 DEF Settles, SpawnedInv, TypeOK, verdictVars
  <2>2. \A r \in Subtask \ {s} : status'[r] = status[r] /\ dispatches'[r] = dispatches[r]
    BY <1>2 DEF Settles, Conclude, Redispatch, TypeOK
  <2> QED
    BY <2>1, <2>2 DEF FinalStep
<1>3. ASSUME NEW s \in Subtask, ApplyFails(s) \/ CommitFails(s)
      PROVE  FinalStep
  <2>1. /\ UNCHANGED dispatches /\ failure' = s
        /\ status' = [status EXCEPT ![s] = "Failed"]
    BY <1>3 DEF ApplyFails, CommitFails, TakeNext, FailTask
  <2> QED
    BY <2>1, PlanAssumption DEF FinalStep, TypeOK
<1>4. ASSUME NEW s \in Subtask, CheckpointTaken(s)
      PROVE  FinalStep
  BY <1>4 DEF CheckpointTaken, TakeNext, FinalStep
<1>5. CASE CheckBudget
  BY <1>5 DEF CheckBudget, runtimeVars, FinalStep
<1>6. CASE UNCHANGED <<status, dispatches, failure>>
  BY <1>6 DEF FinalStep
<1>7. ASSUME NEW t, \/ JoinError(t) \/ JoinDone(t)
                    \/ WorkerFinishes(t) \/ WorkerCancelled(t)
      PROVE  UNCHANGED <<status, dispatches, failure>>
  BY <1>7 DEF JoinError, JoinDone, WorkerFinishes, WorkerCancelled, runtimeVars, verdictVars
<1>8. CASE SelectDrained \/ NoneNewlyDone \/ EndRun \/ UNCHANGED vars
  BY <1>6, <1>8
  DEF SelectDrained, NoneNewlyDone, EndRun, vars, runtimeVars, verdictVars
<1> QED
  BY <1>1, <1>2, <1>3, <1>4, <1>5, <1>6, <1>7, <1>8, StepCases

\* A Failed subtask is never revived, and a task that has failed never gives a
\* subtask its first worker.
THEOREM FailuresAreFinal == Spec => FailureIsFinal
<1>1. Init => SpawnedInv
  BY DEF Init, InitialStatus, SpawnedInv
<1>2. (TypeOK /\ WorkersInv /\ DiskInv) /\ SpawnedInv /\ [Next]_vars => SpawnedInv'
  BY SpawnedStep
<1>3. (TypeOK /\ WorkersInv /\ DiskInv) /\ SpawnedInv /\ [Next]_vars => [FinalStep]_vars
  BY FinalSteps
<1>4. FailureIsFinal <=> [][FinalStep]_vars
  BY PTL DEF FailureIsFinal, FinalStep
<1> QED
  BY <1>1, <1>2, <1>3, <1>4, Inductive, PTL DEF Spec

-----------------------------------------------------------------------------
(***************************************************************************)
(* The ladder.  A subtask at work has used at most MaxRetriesPerTier       *)
(* workers at each tier it has left, and one more than its failed attempts *)
(* at the tier it is on.                                                   *)
(***************************************************************************)
LadderInv ==
    \A s \in Subtask :
        /\ tier[s] = PlannedTier[s] + escalations[s]
        /\ status[s] \in {"Ready", "Queued"} => dispatches[s] = 0 /\ attempts[s] = 0
        /\ status[s] = "Dispatched" =>
             /\ attempts[s] < MaxRetriesPerTier
             /\ dispatches[s] <= MaxRetriesPerTier * escalations[s] + attempts[s] + 1
        /\ status[s] \in {"Done", "Failed"} =>
             dispatches[s] <= MaxRetriesPerTier * (escalations[s] + 1)

\* One more escalation allows MaxRetriesPerTier more workers.
LEMMA LadderArithmetic ==
    ASSUME NEW m \in Nat, NEW e \in Nat
    PROVE  m * e \in Nat /\ m * (e + 1) \in Nat /\ m * (e + 1) = m * e + m
  OBVIOUS

\* What LadderInv says of a subtask depends on its own runtime only.
LEMMA LadderFrame ==
    ASSUME LadderInv, NEW s \in Subtask,
           \A r \in Subtask \ {s} :
             /\ tier'[r] = tier[r] /\ status'[r] = status[r] /\ attempts'[r] = attempts[r]
             /\ escalations'[r] = escalations[r] /\ dispatches'[r] = dispatches[r],
           tier'[s] = PlannedTier[s] + escalations'[s],
           status'[s] = "Dispatched" =>
             /\ attempts'[s] < MaxRetriesPerTier
             /\ dispatches'[s] <= MaxRetriesPerTier * escalations'[s] + attempts'[s] + 1,
           status'[s] \in {"Done", "Failed"} =>
             dispatches'[s] <= MaxRetriesPerTier * (escalations'[s] + 1),
           status'[s] \notin {"Ready", "Queued"}
    PROVE  LadderInv'
  BY DEF LadderInv

\* The three ways in which a settled subtask moves on the ladder.
LEMMA LadderMoves ==
    ASSUME TypeOK, NEW s \in Subtask, NEW js, Verdict(s, js)
    PROVE  \/ EscalateAndRedispatch(s, js)
           \/ /\ attempts[s] + 1 < MaxRetriesPerTier
              /\ attempts' = [attempts EXCEPT ![s] = attempts[s] + 1]
              /\ Redispatch(s, js) /\ UNCHANGED <<tier, escalations>>
           \/ /\ Conclude(s, "Done", js) \/ Conclude(s, "Failed", js)
              /\ \A r \in Subtask \ {s} : attempts'[r] = attempts[r]
<1>1. CASE VerdictFail(s, js)
  <2>1. \A r \in Subtask \ {s} : [attempts EXCEPT ![s] = attempts[s] + 1][r] = attempts[r]
    BY DEF TypeOK
  <2> QED
    BY <1>1, <2>1 DEF VerdictFail
<1>2. CASE VerdictPass(s, js) \/ VerdictUnavailable(s, js) \/ VerdictEscalate(s, js)
  BY <1>2 DEF VerdictPass, VerdictUnavailable, VerdictEscalate
<1> QED
  BY <1>1, <1>2 DEF Verdict

LEMMA LadderConclude ==
    ASSUME TypeOK, LadderInv, NEW s \in Subtask, NEW js, NEW st \in {"Done", "Failed"},
           status[s] = "Dispatched", Conclude(s, st, js),
           \A r \in Subtask \ {s} : attempts'[r] = attempts[r]
    PROVE  LadderInv'
<1>1. /\ status'[s] = st /\ \A r \in Subtask \ {s} : status'[r] = status[r]
      /\ UNCHANGED <<tier, escalations, dispatches>>
  BY DEF Conclude, TypeOK
<1>2. /\ dispatches[s] \in Nat /\ attempts[s] \in Nat /\ escalations[s] \in Nat
      /\ MaxRetriesPerTier \in Nat
  BY TierAssumption DEF TypeOK
<1>3. /\ tier[s] = PlannedTier[s] + escalations[s] /\ attempts[s] < MaxRetriesPerTier
      /\ dispatches[s] <= MaxRetriesPerTier * escalations[s] + attempts[s] + 1
  BY DEF LadderInv
<1>4. dispatches[s] <= MaxRetriesPerTier * (escalations[s] + 1)
  BY <1>2, <1>3, LadderArithmetic
<1> QED
  BY <1>1, <1>3, <1>4, LadderFrame

LEMMA LadderRedispatch ==
    ASSUME TypeOK, LadderInv, NEW s \in Subtask, NEW js,
           status[s] = "Dispatched", Redispatch(s, js),
           \/ EscalateAndRedispatch(s, js)
           \/ /\ attempts[s] + 1 < MaxRetriesPerTier
              /\ attempts' = [attempts EXCEPT ![s] = attempts[s] + 1]
              /\ UNCHANGED <<tier, escalations>>
    PROVE  LadderInv'
<1>1. /\ dispatches[s] \in Nat /\ attempts[s] \in Nat /\ escalations[s] \in Nat
      /\ tier[s] \in Nat /\ PlannedTier[s] \in Nat /\ MaxRetriesPerTier \in Nat \ {0}
  BY TierAssumption DEF TypeOK
<1>2. /\ status'[s] = "Dispatched" /\ dispatches'[s] = dispatches[s] + 1
      /\ \A r \in Subtask \ {s} : status'[r] = status[r] /\ dispatches'[r] = dispatches[r]
  BY DEF Redispatch, TypeOK
<1>3. /\ tier[s] = PlannedTier[s] + escalations[s] /\ attempts[s] < MaxRetriesPerTier
      /\ dispatches[s] <= MaxRetriesPerTier * escalations[s] + attempts[s] + 1
  BY DEF LadderInv
<1>4. CASE EscalateAndRedispatch(s, js)
  <2>1. /\ tier'[s] = tier[s] + 1 /\ attempts'[s] = 0 /\ escalations'[s] = escalations[s] + 1
        /\ \A r \in Subtask \ {s} : /\ tier'[r] = tier[r] /\ attempts'[r] = attempts[r]
                                    /\ escalations'[r] = escalations[r]
    BY <1>4 DEF EscalateAndRedispatch, TypeOK
  <2>2. dispatches'[s] <= MaxRetriesPerTier * escalations'[s] + attempts'[s] + 1
    BY <1>1, <1>2, <1>3, <2>1, LadderArithmetic
  <2>3. tier'[s] = PlannedTier[s] + escalations'[s] /\ attempts'[s] < MaxRetriesPerTier
    BY <1>1, <1>3, <2>1
  <2> QED
    BY <1>2, <2>1, <2>2, <2>3, LadderFrame
<1>5. CASE /\ attempts[s] + 1 < MaxRetriesPerTier
           /\ attempts' = [attempts EXCEPT ![s] = attempts[s] + 1]
           /\ UNCHANGED <<tier, escalations>>
  <2>1. /\ attempts'[s] = attempts[s] + 1
        /\ \A r \in Subtask \ {s} : attempts'[r] = attempts[r]
    BY <1>5 DEF TypeOK
  <2>2. dispatches'[s] <= MaxRetriesPerTier * escalations'[s] + attempts'[s] + 1
    BY <1>1, <1>2, <1>3, <1>5, <2>1, LadderArithmetic
  <2> QED
    BY <1>2, <1>3, <1>5, <2>1, <2>2, LadderFrame
<1> QED
  BY <1>4, <1>5

LEMMA LadderVerdict ==
    ASSUME TypeOK, LadderInv, NEW s \in Subtask, NEW js,
           status[s] = "Dispatched", Verdict(s, js)
    PROVE  LadderInv'
<1>1. CASE EscalateAndRedispatch(s, js)
  BY <1>1, LadderRedispatch DEF EscalateAndRedispatch
<1> QED
  BY <1>1, LadderMoves, LadderRedispatch, LadderConclude

LEMMA LadderStep ==
    ASSUME TypeOK, WorkersInv, LadderInv, [Next]_vars
    PROVE  LadderInv'
<1>1. CASE ScheduleReady
  <2>1. /\ status' = [s \in Subtask |-> IF s \in Runnable THEN "Dispatched" ELSE status[s]]
        /\ dispatches' = [s \in Subtask |->
                            IF s \in Runnable THEN dispatches[s] + 1 ELSE dispatches[s]]
        /\ UNCHANGED <<tier, attempts, escalations>>
    BY <1>1 DEF ScheduleReady
  <2>2. ASSUME NEW s \in Runnable
        PROVE  /\ s \in Subtask /\ attempts[s] = 0 /\ 0 < MaxRetriesPerTier
               /\ dispatches'[s] <= MaxRetriesPerTier * escalations[s] + attempts[s] + 1
    <3>1. s \in Subtask /\ dispatches[s] = 0 /\ attempts[s] = 0
      BY DEF Runnable, LadderInv
    <3>2. escalations[s] \in Nat /\ MaxRetriesPerTier \in Nat \ {0}
      BY <3>1, TierAssumption DEF TypeOK
    <3>3. dispatches'[s] = 1
      BY <2>1, <3>1
    <3> QED
      BY <3>1, <3>2, <3>3, LadderArithmetic
  <2>3. \A s \in Subtask \ Runnable : status'[s] = status[s] /\ dispatches'[s] = dispatches[s]
    BY <2>1
  <2>4. \A s \in Runnable : status'[s] = "Dispatched"
    BY <2>1, <2>2
  <2> QED
    BY <2>1, <2>2, <2>3, <2>4 DEF LadderInv
<1>2. ASSUME NEW t \in joinset, JoinDispatchErr(t) \/ JoinFailed(t)
      PROVE  LadderInv'
  <2>1. t.id \in Subtask /\ status[t.id] = "Dispatched"
    BY DEF TypeOK, Task, WorkersInv, OneWorkerPerSubtask
  <2>2. CASE JoinDispatchErr(t)
    BY <2>1, <2>2, LadderConclude DEF JoinDispatchErr
  <2>3. CASE JoinFailed(t)
    BY <2>1, <2>3, LadderVerdict DEF JoinFailed, Verdict
  <2> QED
    BY <1>2, <2>2, <2>3
<1>3. CASE VerifyDiff
  BY <1>3, LadderVerdict DEF VerifyDiff, Verdict, WorkersInv, OneWorkerPerSubtask
<1>4. ASSUME NEW s \in Subtask, ApplyFails(s) \/ CommitFails(s)
      PROVE  LadderInv'
  <2>1. /\ status[s] = "Done" /\ status' = [status EXCEPT ![s] = "Failed"]
        /\ UNCHANGED <<tier, attempts, escalations, dispatches>>
    BY <1>4 DEF ApplyFails, CommitFails, TakeNext, FailTask, NewlyDone
  <2>2. status'[s] = "Failed" /\ \A r \in Subtask \ {s} : status'[r] = status[r]
    BY <2>1 DEF TypeOK
  <2> QED
    BY <2>1, <2>2, LadderFrame DEF LadderInv
<1>5. ASSUME NEW s \in Subtask, CheckpointTaken(s)
      PROVE  LadderInv'
  BY <1>5 DEF CheckpointTaken, TakeNext, LadderInv
<1>6. CASE UNCHANGED runtimeVars
  BY <1>6 DEF runtimeVars, LadderInv
<1>7. ASSUME NEW t, \/ JoinError(t) \/ JoinDone(t)
                    \/ WorkerFinishes(t) \/ WorkerCancelled(t)
      PROVE  UNCHANGED runtimeVars
  BY <1>7 DEF JoinError, JoinDone, WorkerFinishes, WorkerCancelled
<1>8. CASE SelectDrained \/ NoneNewlyDone \/ EndRun \/ CheckBudget \/ UNCHANGED vars
  BY <1>6, <1>8 DEF SelectDrained, NoneNewlyDone, EndRun, CheckBudget, vars
<1> QED
  BY <1>1, <1>2, <1>3, <1>4, <1>5, <1>6, <1>7, <1>8
  DEF Next, RunStep, LoopStep, JoinNext, TakeCheckpoint, WorkerStep, Returned

\* A subtask climbs one tier per escalation and gets at most the two workers per
\* tier that the doc of MAX_RETRIES_PER_TIER allows, however often its checks fail.
THEOREM LadderIsBounded == Spec => []DispatchesBounded
<1>1. Init => LadderInv
  <2> SUFFICES ASSUME Init PROVE LadderInv
    OBVIOUS
  <2>1. \A s \in Subtask : /\ status[s] \in {"Ready", "Queued"} /\ tier[s] = PlannedTier[s]
                           /\ escalations[s] = 0 /\ dispatches[s] = 0 /\ attempts[s] = 0
    BY DEF Init, InitialStatus, NoResume, Completed, Zero
  <2>2. \A s \in Subtask : PlannedTier[s] \in Nat
    BY TierAssumption
  <2> QED
    BY <2>1, <2>2 DEF LadderInv
<1>2. (TypeOK /\ WorkersInv /\ DiskInv) /\ LadderInv /\ [Next]_vars => LadderInv'
  BY LadderStep
<1>3. TypeOK /\ LadderInv => DispatchesBounded
  <2> SUFFICES ASSUME TypeOK, LadderInv, NEW s \in Subtask
               PROVE  /\ tier[s] = PlannedTier[s] + escalations[s]
                      /\ dispatches[s] <= (MaxRetriesPerTier + 1) * (escalations[s] + 1)
    BY DEF DispatchesBounded
  <2>1. /\ dispatches[s] \in Nat /\ attempts[s] \in Nat /\ escalations[s] \in Nat
        /\ MaxRetriesPerTier \in Nat /\ status[s] \in SubtaskStatus
    BY TierAssumption DEF TypeOK
  <2>2. dispatches[s] <= MaxRetriesPerTier * (escalations[s] + 1)
    BY <2>1, LadderArithmetic DEF LadderInv, SubtaskStatus
  <2>3. \A m, k \in Nat : m * k \in Nat /\ (m + 1) * k = m * k + k
    OBVIOUS
  <2>4. MaxRetriesPerTier * (escalations[s] + 1)
          <= (MaxRetriesPerTier + 1) * (escalations[s] + 1)
    BY <2>1, <2>3
  <2>5. /\ (MaxRetriesPerTier + 1) * (escalations[s] + 1) \in Nat
        /\ MaxRetriesPerTier * (escalations[s] + 1) \in Nat
    BY <2>1, <2>3
  <2> QED
    BY <2>1, <2>2, <2>4, <2>5 DEF LadderInv
<1> QED
  BY <1>1, <1>2, <1>3, Inductive, PTL DEF Spec

-----------------------------------------------------------------------------
(***************************************************************************)
(* A run is finite.  Every step leaves the three sets that StepsLeft       *)
(* counts as they are or takes something out of one of them, and what a    *)
(* step adds to the rank of the phase is less than what it takes out.      *)
(***************************************************************************)

\* The run of a worker is among those its subtask was given.
RunsInv == \A t \in joinset : t.run <= dispatches[t.id]

\* The ladder's limit for one subtask.
SpawnLimit == \A s \in Subtask : dispatches[s] <= LadderHeight

InFlight == Unspawned \cup Workers(joinset)
Unfinished == Unspawned \cup Workers({t \in joinset : t.state = "running"})
Unwritten == Subtask \ checkpointed
Ladders == Subtask \X (1 .. LadderHeight)

LEMMA LadderLimits ==
    ASSUME TypeOK, LadderInv
    PROVE  SpawnLimit /\ LadderHeight \in Nat
<1>1. MaxRetriesPerTier \in Nat /\ MaxEscalations \in Nat
  BY TierAssumption
<1>2. \A m, e, k \in Nat : m * (e + 1) <= m * ((e + k) + 1)
  <2>1. \A m, e, k \in Nat : m * ((e + k) + 1) = m * (e + 1) + m * k /\ m * k \in Nat
                             /\ m * (e + 1) \in Nat
    OBVIOUS
  <2> QED
    BY <2>1
<1>3. ASSUME NEW s \in Subtask
      PROVE  dispatches[s] <= LadderHeight
  <2>1. /\ dispatches[s] \in Nat /\ attempts[s] \in Nat /\ status[s] \in SubtaskStatus
        /\ escalations[s] \in Nat /\ escalations[s] <= MaxEscalations
    BY <1>1 DEF TypeOK
  <2>2. dispatches[s] <= MaxRetriesPerTier * (escalations[s] + 1)
    BY <1>1, <2>1, LadderArithmetic DEF LadderInv, SubtaskStatus
  <2>3. PICK k \in Nat : MaxEscalations = escalations[s] + k
    <3>1. MaxEscalations - escalations[s] \in Nat
      BY <1>1, <2>1
    <3> QED
      BY <1>1, <2>1, <3>1
  <2>4. MaxRetriesPerTier * (escalations[s] + 1) <= LadderHeight
    BY <1>1, <1>2, <2>1, <2>3 DEF LadderHeight
  <2>5. MaxRetriesPerTier * (escalations[s] + 1) \in Nat /\ LadderHeight \in Nat
    BY <1>1, <2>1, LadderArithmetic DEF LadderHeight
  <2> QED
    BY <2>1, <2>2, <2>4, <2>5
<1> QED
  BY <1>1, <1>3, LadderArithmetic DEF SpawnLimit, LadderHeight

\* A worker on the ladder has not been joined yet, or was not spawned.
LEMMA WorkersOnLadders ==
    ASSUME TypeOK, RunsInv, SpawnLimit, LadderHeight \in Nat, NEW t \in joinset
    PROVE  /\ t.id \in Subtask /\ t.run \in 1 .. LadderHeight
           /\ t.run <= dispatches[t.id] /\ dispatches[t.id] \in Nat
           /\ <<t.id, t.run>> \in Ladders /\ <<t.id, t.run>> \notin Unspawned
<1>1. /\ t.id \in Subtask /\ t.run \in Nat \ {0} /\ t.run <= dispatches[t.id]
      /\ dispatches[t.id] \in Nat
  BY DEF TypeOK, Task, RunsInv
<1>2. t.run \in 1 .. LadderHeight
  BY <1>1 DEF SpawnLimit
<1>3. <<t.id, t.run>>[2] = t.run /\ <<t.id, t.run>>[1] = t.id
  OBVIOUS
<1> QED
  BY <1>1, <1>2, <1>3 DEF Ladders, Unspawned

LEMMA LaddersAreFinite ==
    ASSUME LadderHeight \in Nat
    PROVE  /\ IsFiniteSet(Ladders) /\ Cardinality(Subtask) \in Nat
           /\ Cardinality(Ladders) = Cardinality(Subtask) * LadderHeight
<1>1. IsFiniteSet(1 .. LadderHeight) /\ Cardinality(1 .. LadderHeight) = LadderHeight
  BY FS_Interval
<1> QED
  BY <1>1, PlanAssumption, FS_Product, FS_CardinalityType DEF Ladders

LEMMA CountedSets ==
    ASSUME TypeOK, RunsInv, SpawnLimit, LadderHeight \in Nat
    PROVE  /\ InFlight \subseteq Ladders /\ Unfinished \subseteq Ladders
           /\ IsFiniteSet(InFlight) /\ IsFiniteSet(Unfinished) /\ IsFiniteSet(Unwritten)
           /\ Cardinality(InFlight) <= Cardinality(Ladders)
           /\ Cardinality(Unfinished) <= Cardinality(Ladders)
           /\ Cardinality(Unwritten) <= Cardinality(Subtask)
           /\ Cardinality(InFlight) \in Nat /\ Cardinality(Unfinished) \in Nat
           /\ Cardinality(Unwritten) \in Nat /\ PhaseRank \in 0 .. 6
<1>1. \A js \in SUBSET joinset : Workers(js) \subseteq Ladders
  BY WorkersOnLadders DEF Workers
<1>2. Unspawned \subseteq Ladders
  BY DEF Unspawned, Ladders
<1>3. InFlight \in SUBSET Ladders /\ Unfinished \in SUBSET Ladders
  BY <1>1, <1>2 DEF InFlight, Unfinished
<1>4. Unwritten \in SUBSET Subtask
  BY DEF Unwritten
<1>5. PhaseRank \in 0 .. 6
  BY DEF PhaseRank
<1> QED
  BY <1>3, <1>4, <1>5, LaddersAreFinite, PlanAssumption, FS_Subset, FS_CardinalityType

\* Fewer of one set, no more of the others, and the phase does not make up for it.
StepShrinks ==
    /\ InFlight' \subseteq InFlight /\ Unfinished' \subseteq Unfinished
    /\ Unwritten' \subseteq Unwritten
    /\ \/ PhaseRank' < PhaseRank
       \/ InFlight' # InFlight /\ PhaseRank' < PhaseRank + 5
       \/ PhaseRank' = PhaseRank /\ (Unfinished' # Unfinished \/ Unwritten' # Unwritten)

LEMMA ShrinkingCounts ==
    ASSUME TypeOK, RunsInv, SpawnLimit, LadderHeight \in Nat, StepShrinks, PhaseRank' \in 0 .. 6
    PROVE  StepsLeft' < StepsLeft
<1>1. /\ IsFiniteSet(InFlight) /\ IsFiniteSet(Unfinished) /\ IsFiniteSet(Unwritten)
      /\ PhaseRank \in 0 .. 6
  BY CountedSets
<1>2. ASSUME NEW S, IsFiniteSet(S), NEW T, T \subseteq S
      PROVE  /\ Cardinality(T) \in Nat /\ Cardinality(S) \in Nat
             /\ Cardinality(T) <= Cardinality(S)
             /\ T # S => Cardinality(T) + 1 <= Cardinality(S)
  <2>1. T \in SUBSET S
    BY <1>2
  <2>2. IsFiniteSet(T) /\ Cardinality(T) <= Cardinality(S)
        /\ (Cardinality(S) = Cardinality(T) => S = T)
    BY <1>2, <2>1, FS_Subset
  <2>3. Cardinality(T) \in Nat /\ Cardinality(S) \in Nat
    BY <1>2, <2>2, FS_CardinalityType
  <2> QED
    BY <2>2, <2>3
<1> DEFINE a == Cardinality(InFlight)
           b == Cardinality(Unfinished)
           c == Cardinality(Unwritten)
<1>3. /\ a \in Nat /\ a' \in Nat /\ a' <= a
      /\ InFlight' # InFlight => a' + 1 <= a
  BY <1>1, <1>2 DEF StepShrinks
<1>4. /\ b \in Nat /\ b' \in Nat /\ b' <= b
      /\ Unfinished' # Unfinished => b' + 1 <= b
  BY <1>1, <1>2 DEF StepShrinks
<1>5. /\ c \in Nat /\ c' \in Nat /\ c' <= c
      /\ Unwritten' # Unwritten => c' + 1 <= c
  BY <1>1, <1>2 DEF StepShrinks
<1>6. StepsLeft = 5 * a + b + c + PhaseRank /\ StepsLeft' = 5 * a' + b' + c' + PhaseRank'
  BY DEF StepsLeft, InFlight, Unfinished, Unwritten
<1>7. PhaseRank \in Nat /\ PhaseRank' \in Nat
  BY <1>1
<1>8. \/ a' <= a /\ b' <= b /\ c' <= c /\ PhaseRank' < PhaseRank
      \/ a' + 1 <= a /\ b' <= b /\ c' <= c /\ PhaseRank' < PhaseRank + 5
      \/ a' <= a /\ b' + 1 <= b /\ c' <= c /\ PhaseRank' = PhaseRank
      \/ a' <= a /\ b' <= b /\ c' + 1 <= c /\ PhaseRank' = PhaseRank
  BY <1>3, <1>4, <1>5 DEF StepShrinks
<1>9. /\ a \in Nat /\ a' \in Nat /\ b \in Nat /\ b' \in Nat /\ c \in Nat /\ c' \in Nat
  BY <1>3, <1>4, <1>5
<1>10. \A x, x1, y, y1, z, z1, r, r1 \in Nat :
          \/ x1 <= x /\ y1 <= y /\ z1 <= z /\ r1 < r
          \/ x1 + 1 <= x /\ y1 <= y /\ z1 <= z /\ r1 < r + 5
          \/ x1 <= x /\ y1 + 1 <= y /\ z1 <= z /\ r1 = r
          \/ x1 <= x /\ y1 <= y /\ z1 + 1 <= z /\ r1 = r
          => 5 * x1 + y1 + z1 + r1 < 5 * x + y + z + r
  OBVIOUS
<1> HIDE DEF a, b, c
<1> QED
  BY <1>6, <1>7, <1>8, <1>9, <1>10

\* What a step that leaves the join set and the dispatches alone counts.
LEMMA SameWorkers ==
    ASSUME joinset' = joinset, dispatches' = dispatches
    PROVE  InFlight' = InFlight /\ Unfinished' = Unfinished
  BY DEF InFlight, Unfinished, Unspawned, Workers

\* Workers that are spawned come from those that could still be.
LEMMA SpawningShrinks ==
    ASSUME TypeOK, RunsInv, SpawnLimit', NEW js \in SUBSET joinset,
           dispatches' \in [Subtask -> Nat],
           \A s \in Subtask : dispatches[s] <= dispatches'[s],
           \A t \in joinset' \ js :
               /\ t.id \in Subtask
               /\ t.run = dispatches[t.id] + 1 /\ dispatches'[t.id] = dispatches[t.id] + 1
    PROVE  InFlight' \subseteq InFlight /\ Unfinished' \subseteq Unfinished
<1>1. \A s \in Subtask : dispatches[s] \in Nat /\ dispatches'[s] \in Nat
  BY DEF TypeOK
<1>2. LadderHeight \in Nat /\ LadderHeight' = LadderHeight
  BY TierAssumption DEF LadderHeight
<1>3. Unspawned' \subseteq Unspawned
  <2> SUFFICES ASSUME NEW w \in Unspawned'
               PROVE  w \in Unspawned
    OBVIOUS
  <2>1. w \in Subtask \X (1 .. LadderHeight) /\ w[2] > dispatches'[w[1]]
    BY DEF Unspawned
  <2>2. w[1] \in Subtask /\ w[2] \in Nat
    BY <1>2, <2>1
  <2>3. w[2] > dispatches[w[1]]
    BY <1>1, <2>1, <2>2
  <2> QED
    BY <2>1, <2>3 DEF Unspawned
<1>4. ASSUME NEW t \in joinset' \ js
      PROVE  <<t.id, t.run>> \in Unspawned
  <2>1. t.run \in 1 .. LadderHeight /\ t.run > dispatches[t.id] /\ t.id \in Subtask
    BY <1>1, <1>2 DEF SpawnLimit
  <2>2. <<t.id, t.run>>[1] = t.id /\ <<t.id, t.run>>[2] = t.run
    OBVIOUS
  <2> QED
    BY <2>1, <2>2 DEF Unspawned
<1>5. Workers(joinset') \subseteq InFlight
  BY <1>4 DEF Workers, InFlight
<1>6. Workers({t \in joinset' : t.state = "running"}) \subseteq Unfinished
  BY <1>4 DEF Workers, Unfinished
<1>7. /\ InFlight' = Unspawned' \cup Workers(joinset')
      /\ Unfinished' = Unspawned' \cup Workers({t \in joinset' : t.state = "running"})
  BY DEF InFlight, Unfinished, Workers
<1> QED
  BY <1>3, <1>5, <1>6, <1>7 DEF InFlight, Unfinished

LEMMA ScheduleShrinks ==
    ASSUME TypeOK, RunsInv, SpawnLimit', ScheduleReady
    PROVE  StepShrinks /\ RunsInv'
<1>1. /\ dispatches' = [s \in Subtask |->
                          IF s \in Runnable THEN dispatches[s] + 1 ELSE dispatches[s]]
      /\ joinset' = joinset \cup SpawnedTasks(Runnable)
      /\ phase = "schedule" /\ phase' \in {"select", "finish"} /\ checkpointed' = checkpointed
  BY DEF ScheduleReady, recordVars
<1>2. \A s \in Subtask : dispatches[s] \in Nat
  BY DEF TypeOK
<1>3. /\ dispatches' \in [Subtask -> Nat]
      /\ \A s \in Subtask : dispatches[s] <= dispatches'[s]
  BY <1>1, <1>2
<1>4. ASSUME NEW t \in SpawnedTasks(Runnable)
      PROVE  /\ t.id \in Subtask /\ t.run = dispatches[t.id] + 1
             /\ dispatches'[t.id] = dispatches[t.id] + 1
  <2>1. PICK s \in Runnable : t = NewTask(s, dispatches[s] + 1)
    BY DEF SpawnedTasks
  <2>2. s \in Subtask
    BY DEF Runnable
  <2>3. t.id = s /\ t.run = dispatches[s] + 1
    BY <2>1 DEF NewTask
  <2> QED
    BY <1>1, <2>2, <2>3
<1>5. InFlight' \subseteq InFlight /\ Unfinished' \subseteq Unfinished
  BY <1>1, <1>3, <1>4, SpawningShrinks
<1>6. PhaseRank' < PhaseRank /\ Unwritten' = Unwritten
  BY <1>1 DEF PhaseRank, Unwritten
<1>7. RunsInv'
  <2> SUFFICES ASSUME NEW t \in joinset'
               PROVE  t.run <= dispatches'[t.id]
    BY DEF RunsInv
  <2>1. CASE t \in joinset
    <3>1. t.id \in Subtask /\ t.run \in Nat /\ t.run <= dispatches[t.id]
      BY <2>1 DEF RunsInv, TypeOK, Task
    <3> QED
      BY <1>2, <1>3, <3>1
  <2>2. CASE t \in SpawnedTasks(Runnable)
    BY <1>2, <1>4, <2>2
  <2> QED
    BY <1>1, <2>1, <2>2
<1> QED
  BY <1>5, <1>6, <1>7 DEF StepShrinks

\* A verdict spawns at most one worker.
LEMMA SettlingShrinks ==
    ASSUME TypeOK, RunsInv, SpawnLimit', NEW s \in Subtask, NEW js \in SUBSET joinset,
           Settles(s, js)
    PROVE  /\ InFlight' \subseteq InFlight /\ Unfinished' \subseteq Unfinished
           /\ Unwritten' = Unwritten /\ RunsInv'
           /\ \A r \in Subtask : dispatches[r] <= dispatches'[r]
           /\ \A t \in joinset' \ js : t.run = dispatches[t.id] + 1
           /\ dispatches' \in [Subtask -> Nat]
<1>1. \A r \in Subtask : dispatches[r] \in Nat
  BY DEF TypeOK
<1>2. checkpointed' = checkpointed
  BY DEF Settles, recordVars
<1>3. \A t \in js : t.id \in Subtask /\ t.run \in Nat /\ t.run <= dispatches[t.id]
  BY DEF RunsInv, TypeOK, Task
<1>4. /\ dispatches' \in [Subtask -> Nat]
      /\ \A r \in Subtask : dispatches[r] <= dispatches'[r]
      /\ \A t \in joinset' \ js :
            /\ t.id \in Subtask /\ t.run = dispatches[t.id] + 1
            /\ dispatches'[t.id] = dispatches[t.id] + 1
      /\ js \subseteq joinset'
  <2>1. CASE joinset' = js /\ dispatches' = dispatches
    BY <1>1, <2>1 DEF TypeOK
  <2>2. CASE Redispatch(s, js)
    <3>1. /\ dispatches' = [dispatches EXCEPT ![s] = dispatches[s] + 1]
          /\ joinset' = js \cup {NewTask(s, dispatches[s] + 1)}
      BY <2>2 DEF Redispatch
    <3>2. /\ NewTask(s, dispatches[s] + 1).id = s
          /\ NewTask(s, dispatches[s] + 1).run = dispatches[s] + 1
      BY DEF NewTask
    <3>3. dispatches'[s] = dispatches[s] + 1 /\ dispatches' \in [Subtask -> Nat]
      BY <1>1, <3>1 DEF TypeOK
    <3>4. \A r \in Subtask \ {s} : dispatches'[r] = dispatches[r]
      BY <3>1 DEF TypeOK
    <3> QED
      BY <1>1, <3>1, <3>2, <3>3, <3>4
  <2> QED
    BY <2>1, <2>2 DEF Settles, Conclude
<1>5. InFlight' \subseteq InFlight /\ Unfinished' \subseteq Unfinished
  BY <1>4, SpawningShrinks
<1>6. RunsInv'
  <2> SUFFICES ASSUME NEW t \in joinset'
               PROVE  t.run <= dispatches'[t.id]
    BY DEF RunsInv
  <2>1. CASE t \in js
    BY <1>1, <1>3, <1>4, <2>1
  <2>2. CASE t \notin js
    BY <1>1, <1>4, <2>2
  <2> QED
    BY <2>1, <2>2
<1> QED
  BY <1>2, <1>4, <1>5, <1>6 DEF Unwritten

\* A worker that is joined was in flight and is no more.
LEMMA JoiningShrinks ==
    ASSUME TypeOK, WorkersInv, RunsInv, SpawnLimit, NEW t \in joinset,
           LadderHeight \in Nat,
           \A r \in Subtask : dispatches[r] <= dispatches'[r],
           dispatches' \in [Subtask -> Nat],
           \A u \in joinset' \ (joinset \ {t}) : u.run = dispatches[u.id] + 1
    PROVE  InFlight' # InFlight
<1>1. /\ t.id \in Subtask /\ t.run \in 1 .. LadderHeight /\ t.run <= dispatches[t.id]
      /\ dispatches[t.id] \in Nat
  BY WorkersOnLadders
<1>2. <<t.id, t.run>> \in InFlight
  BY DEF InFlight, Workers
<1>3. <<t.id, t.run>> \notin Unspawned'
  <2>1. ~(t.run > dispatches'[t.id])
    BY <1>1
  <2>2. <<t.id, t.run>>[1] = t.id /\ <<t.id, t.run>>[2] = t.run
    OBVIOUS
  <2> QED
    BY <2>1, <2>2 DEF Unspawned
<1>4. ASSUME NEW u \in joinset', <<u.id, u.run>> = <<t.id, t.run>>
      PROVE  FALSE
  <2>1. u.id = t.id /\ u.run = t.run
    BY <1>4
  <2>2. CASE u \in joinset \ {t}
    BY <2>1, <2>2 DEF WorkersInv, OneWorkerPerSubtask
  <2>3. CASE u \notin joinset \ {t}
    BY <1>1, <2>1, <2>3
  <2> QED
    BY <2>2, <2>3
<1>5. InFlight' = Unspawned' \cup Workers(joinset')
  BY DEF InFlight, Workers
<1> QED
  BY <1>2, <1>3, <1>4, <1>5 DEF Workers

LEMMA JoinShrinks ==
    ASSUME TypeOK, WorkersInv, RunsInv, SpawnLimit, SpawnLimit', LadderHeight \in Nat, JoinNext
    PROVE  StepShrinks /\ RunsInv'
<1>1. PICK t \in joinset : JoinError(t) \/ JoinDispatchErr(t) \/ JoinFailed(t) \/ JoinDone(t)
  BY DEF JoinNext
<1>2. phase = "select" /\ phase' \in {"schedule", "checkpoint", "verifying"}
  BY <1>1 DEF JoinError, JoinDispatchErr, JoinFailed, JoinDone, Joined
<1>3. PhaseRank' < PhaseRank + 5
  BY <1>2 DEF PhaseRank
<1>4. CASE JoinError(t) \/ JoinDone(t)
  <2>1. /\ joinset' = joinset \ {t} /\ dispatches' = dispatches
        /\ checkpointed' = checkpointed
    BY <1>4 DEF JoinError, JoinDone, runtimeVars, recordVars
  <2>2. \A r \in Subtask : dispatches[r] <= dispatches'[r]
    BY <2>1 DEF TypeOK
  <2>3. InFlight' \subseteq InFlight /\ Unfinished' \subseteq Unfinished
    BY <2>1 DEF InFlight, Unfinished, Unspawned, Workers
  <2>4. InFlight' # InFlight
    BY <2>1, <2>2, JoiningShrinks DEF TypeOK
  <2> QED
    BY <1>3, <2>1, <2>3, <2>4 DEF StepShrinks, Unwritten, RunsInv
<1>5. CASE JoinDispatchErr(t) \/ JoinFailed(t)
  <2>1. t.id \in Subtask /\ Settles(t.id, joinset \ {t})
    BY <1>5, JoinSettles
  <2>2. joinset \ {t} \in SUBSET joinset
    OBVIOUS
  <2>3. /\ InFlight' \subseteq InFlight /\ Unfinished' \subseteq Unfinished
        /\ Unwritten' = Unwritten /\ RunsInv'
        /\ \A r \in Subtask : dispatches[r] <= dispatches'[r]
        /\ \A u \in joinset' \ (joinset \ {t}) : u.run = dispatches[u.id] + 1
        /\ dispatches' \in [Subtask -> Nat]
    BY <2>1, <2>2, SettlingShrinks
  <2>4. InFlight' # InFlight
    BY <2>3, JoiningShrinks
  <2> QED
    BY <1>3, <2>3, <2>4 DEF StepShrinks
<1> QED
  BY <1>1, <1>4, <1>5

\* An abort marks workers, and leaves them where they are.
LEMMA AbortingKeeps ==
    ASSUME TypeOK
    PROVE  /\ Workers(AbortAll(joinset)) = Workers(joinset)
           /\ Workers({t \in AbortAll(joinset) : t.state = "running"})
                = Workers({t \in joinset : t.state = "running"})
           /\ RunsInv => \A u \in AbortAll(joinset) : u.run <= dispatches[u.id]
<1> DEFINE Mark(t) == IF t.state = "running" THEN [t EXCEPT !.aborted = TRUE] ELSE t
<1>1. \A t \in joinset : /\ Mark(t).id = t.id /\ Mark(t).run = t.run
                         /\ Mark(t).state = t.state
  BY DEF TypeOK, Task
<1>2. AbortAll(joinset) = {Mark(t) : t \in joinset}
  BY DEF AbortAll
<1> HIDE DEF Mark
<1>3. \A js : Workers(js) = {<<t.id, t.run>> : t \in js}
  BY DEF Workers
<1>4. Workers(AbortAll(joinset)) = Workers(joinset)
  <2>1. ASSUME NEW w \in Workers(AbortAll(joinset))  PROVE w \in Workers(joinset)
    <3>1. PICK t \in joinset : w = <<Mark(t).id, Mark(t).run>>
      BY <1>2, <1>3
    <3> QED
      BY <1>1, <1>3, <3>1
  <2>2. ASSUME NEW w \in Workers(joinset)  PROVE w \in Workers(AbortAll(joinset))
    <3>1. PICK t \in joinset : w = <<t.id, t.run>>
      BY <1>3
    <3>2. Mark(t) \in AbortAll(joinset) /\ w = <<Mark(t).id, Mark(t).run>>
      BY <1>1, <1>2, <3>1
    <3> QED
      BY <1>3, <3>2
  <2> QED
    BY <2>1, <2>2
<1> DEFINE Live(js) == {t \in js : t.state = "running"}
<1>5. Workers(Live(AbortAll(joinset))) = Workers(Live(joinset))
  <2>1. ASSUME NEW w \in Workers(Live(AbortAll(joinset)))  PROVE w \in Workers(Live(joinset))
    <3>1. PICK u \in Live(AbortAll(joinset)) : w = <<u.id, u.run>>
      BY <1>3
    <3>2. PICK t \in joinset : u = Mark(t)
      BY <1>2, <3>1
    <3>3. t \in Live(joinset) /\ w = <<t.id, t.run>>
      BY <1>1, <3>1, <3>2
    <3> QED
      BY <1>3, <3>3
  <2>2. ASSUME NEW w \in Workers(Live(joinset))  PROVE w \in Workers(Live(AbortAll(joinset)))
    <3>1. PICK t \in Live(joinset) : w = <<t.id, t.run>>
      BY <1>3
    <3>2. Mark(t) \in Live(AbortAll(joinset)) /\ w = <<Mark(t).id, Mark(t).run>>
      BY <1>1, <1>2, <3>1
    <3> QED
      BY <1>3, <3>2
  <2> QED
    BY <2>1, <2>2
<1> QED
  BY <1>1, <1>2, <1>4, <1>5 DEF RunsInv

LEMMA BudgetShrinks ==
    ASSUME TypeOK, RunsInv, CheckBudget
    PROVE  StepShrinks /\ RunsInv'
<1>1. /\ phase = "budget" /\ phase' = "schedule"
      /\ dispatches' = dispatches /\ checkpointed' = checkpointed
      /\ joinset' \in {joinset, AbortAll(joinset)}
  BY DEF CheckBudget, runtimeVars, recordVars
<1>2. Unspawned' = Unspawned /\ Unwritten' = Unwritten
  BY <1>1 DEF Unspawned, Unwritten
<1>3. /\ Workers(joinset') = Workers(joinset)
      /\ Workers({t \in joinset' : t.state = "running"})
           = Workers({t \in joinset : t.state = "running"})
  BY <1>1, AbortingKeeps
<1>4. /\ InFlight' = Unspawned' \cup Workers(joinset')
      /\ Unfinished' = Unspawned' \cup Workers({t \in joinset' : t.state = "running"})
  BY DEF InFlight, Unfinished, Workers
<1>5. InFlight' = InFlight /\ Unfinished' = Unfinished
  BY <1>2, <1>3, <1>4 DEF InFlight, Unfinished
<1>6. PhaseRank' < PhaseRank
  BY <1>1 DEF PhaseRank
<1>7. RunsInv'
  BY <1>1, AbortingKeeps DEF RunsInv
<1> QED
  BY <1>2, <1>5, <1>6, <1>7 DEF StepShrinks

\* A worker that ends is in flight still, and not unfinished any more.
LEMMA EndingShrinks ==
    ASSUME TypeOK, WorkersInv, RunsInv, SpawnLimit, LadderHeight \in Nat,
           NEW t \in joinset, WorkerFinishes(t) \/ WorkerCancelled(t)
    PROVE  StepShrinks /\ RunsInv'
<1>1. PICK o \in Outcome \cup {"cancelled"} : Settle(t, o)
  BY DEF WorkerFinishes, WorkerCancelled
<1>2. /\ t.state = "running" /\ phase' = phase /\ dispatches' = dispatches
      /\ checkpointed' = checkpointed
  BY DEF WorkerFinishes, WorkerCancelled, Running, runtimeVars, recordVars
<1> DEFINE v == [t EXCEPT !.state = o]
<1>3. /\ joinset' = (joinset \ {t}) \cup {v}
      /\ v.id = t.id /\ v.run = t.run /\ v.state # "running"
  BY <1>1 DEF Settle, Outcome, TypeOK, Task
<1> HIDE DEF v
<1>4. Workers(joinset') = Workers(joinset)
  BY <1>3 DEF Workers
<1>5. Unspawned' = Unspawned /\ Unwritten' = Unwritten /\ PhaseRank' = PhaseRank
  BY <1>2 DEF Unspawned, Unwritten, PhaseRank
<1>6. /\ InFlight' = Unspawned' \cup Workers(joinset')
      /\ Unfinished' = Unspawned' \cup Workers({u \in joinset' : u.state = "running"})
  BY DEF InFlight, Unfinished, Workers
<1>7. Unfinished' \subseteq Unfinished
  BY <1>3, <1>5, <1>6 DEF Unfinished, Workers
<1>8. <<t.id, t.run>> \in Unfinished
  BY <1>2 DEF Unfinished, Workers
<1>9. <<t.id, t.run>> \notin Unfinished'
  <2>1. <<t.id, t.run>> \notin Unspawned'
    BY <1>5, WorkersOnLadders
  <2>2. ASSUME NEW u \in joinset', u.state = "running", <<u.id, u.run>> = <<t.id, t.run>>
        PROVE  FALSE
    <3>1. u \in joinset /\ u # t /\ u.id = t.id
      BY <1>3, <2>2
    <3> QED
      BY <3>1 DEF WorkersInv, OneWorkerPerSubtask
  <2> QED
    BY <1>6, <2>1, <2>2 DEF Workers
<1>10. RunsInv'
  BY <1>2, <1>3 DEF RunsInv
<1> QED
  BY <1>4, <1>5, <1>6, <1>7, <1>8, <1>9, <1>10 DEF StepShrinks, InFlight

LEMMA EveryStepShrinks ==
    ASSUME TypeOK, WorkersInv, RunsInv, SpawnLimit, SpawnLimit', LadderHeight \in Nat, Next
    PROVE  (StepShrinks \/ UNCHANGED vars) /\ RunsInv'
<1>1. CASE ScheduleReady
  BY <1>1, ScheduleShrinks
<1>2. CASE SelectDrained \/ NoneNewlyDone \/ EndRun
  <2>1. joinset' = joinset /\ dispatches' = dispatches /\ checkpointed' = checkpointed
    BY <1>2 DEF SelectDrained, NoneNewlyDone, EndRun, runtimeVars, recordVars
  <2>2. PhaseRank' < PhaseRank
    BY <1>2 DEF SelectDrained, NoneNewlyDone, EndRun, PhaseRank
  <2> QED
    BY <2>1, <2>2, SameWorkers DEF StepShrinks, Unwritten, RunsInv
<1>3. CASE JoinNext
  BY <1>3, JoinShrinks
<1>4. CASE VerifyDiff
  <2>1. current \in Subtask /\ Settles(current, joinset)
    BY <1>4, VerifySettles
  <2>2. phase = "verifying" /\ phase' = "checkpoint"
    BY <1>4 DEF VerifyDiff
  <2>3. PhaseRank' < PhaseRank
    BY <2>2 DEF PhaseRank
  <2> QED
    BY <2>1, <2>3, SettlingShrinks DEF StepShrinks
<1>5. ASSUME NEW s \in Subtask, CheckpointTaken(s) \/ ApplyFails(s) \/ CommitFails(s)
      PROVE  StepShrinks /\ RunsInv'
  <2>1. /\ joinset' = joinset /\ dispatches' = dispatches
        /\ s \notin checkpointed /\ checkpointed' = checkpointed \cup {s}
        /\ phase = "checkpoint" /\ phase' \in {"checkpoint", "budget"}
    BY <1>5 DEF CheckpointTaken, ApplyFails, CommitFails, TakeNext, NewlyDone, FailTask
  <2>2. Unwritten' \subseteq Unwritten /\ Unwritten' # Unwritten
    BY <2>1 DEF Unwritten
  <2>3. PhaseRank' = PhaseRank \/ PhaseRank' < PhaseRank
    BY <2>1 DEF PhaseRank
  <2> QED
    BY <2>1, <2>2, <2>3, SameWorkers DEF StepShrinks, RunsInv
<1>6. CASE CheckBudget
  BY <1>6, BudgetShrinks
<1>7. CASE \E s \in Subtask : WorkerStep(s)
  BY <1>7, EndingShrinks DEF WorkerStep
<1>8. CASE Returned
  BY <1>8 DEF Returned, RunsInv, vars, runtimeVars
<1> QED
  BY <1>1, <1>2, <1>3, <1>4, <1>5, <1>6, <1>7, <1>8
  DEF Next, RunStep, LoopStep, TakeCheckpoint

\* What EveryStepCounts asks of one step.
CountedStep == StepsLeft' < StepsLeft

\* Every step of run_task and of its workers uses up one of finitely many: a run of
\* n subtasks takes at most 6 * n * LadderHeight + n + 6 steps, whatever is retried,
\* escalated, aborted, paused or lost.
THEOREM RunsAreFinite ==
    Spec => /\ EveryStepCounts
            /\ [](/\ StepsLeft \in Nat
                  /\ StepsLeft <= 6 * (Cardinality(Subtask) * LadderHeight)
                                    + Cardinality(Subtask) + 6)
<1> DEFINE Inv == TypeOK /\ WorkersInv /\ LadderInv /\ RunsInv
           Bounded == /\ StepsLeft \in Nat
                      /\ StepsLeft <= 6 * (Cardinality(Subtask) * LadderHeight)
                                        + Cardinality(Subtask) + 6
<1>1. Init => LadderInv /\ RunsInv
  <2> SUFFICES ASSUME Init PROVE LadderInv /\ RunsInv
    OBVIOUS
  <2>1. \A s \in Subtask : /\ status[s] \in {"Ready", "Queued"} /\ tier[s] = PlannedTier[s]
                           /\ escalations[s] = 0 /\ dispatches[s] = 0 /\ attempts[s] = 0
                           /\ PlannedTier[s] \in Nat
    BY TierAssumption DEF Init, InitialStatus, NoResume, Completed, Zero
  <2>2. joinset = {}
    BY DEF Init
  <2> QED
    BY <2>1, <2>2 DEF LadderInv, RunsInv
<1>2. Inv /\ [Next]_vars => Inv' /\ [CountedStep]_vars
  <2> SUFFICES ASSUME Inv, [Next]_vars
               PROVE  Inv' /\ [CountedStep]_vars
    OBVIOUS
  <2>1. TypeOK' /\ WorkersInv' /\ LadderInv'
    BY TypeStep, WorkersStep, LadderStep
  <2>2. SpawnLimit /\ LadderHeight \in Nat
    BY LadderLimits
  <2>3. SpawnLimit'
    BY <2>1, LadderLimits, PTL
  <2>4. PhaseRank' \in 0 .. 6
    BY DEF PhaseRank
  <2>5. CASE UNCHANGED vars
    BY <2>1, <2>5 DEF vars, runtimeVars, RunsInv
  <2>6. CASE Next
    BY <2>1, <2>2, <2>3, <2>4, <2>6, EveryStepShrinks, ShrinkingCounts DEF CountedStep
  <2> QED
    BY <2>5, <2>6
<1>3. Inv => Bounded
  <2> SUFFICES ASSUME Inv PROVE Bounded
    OBVIOUS
  <2>1. SpawnLimit /\ LadderHeight \in Nat
    BY LadderLimits
  <2>2. /\ Cardinality(Ladders) = Cardinality(Subtask) * LadderHeight
        /\ Cardinality(Subtask) \in Nat
    BY <2>1, LaddersAreFinite
  <2>3. Cardinality(Subtask) * LadderHeight \in Nat
    BY <2>1, <2>2
  <2>4. StepsLeft = 5 * Cardinality(InFlight) + Cardinality(Unfinished)
                      + Cardinality(Unwritten) + PhaseRank
    BY DEF StepsLeft, InFlight, Unfinished, Unwritten
  <2> QED
    BY <2>1, <2>2, <2>3, <2>4, CountedSets
<1>4. EveryStepCounts <=> [][CountedStep]_vars
  BY PTL DEF EveryStepCounts, CountedStep
<1> QED
  BY <1>1, <1>2, <1>3, <1>4, InitTypeWorkers, PTL DEF Spec

-----------------------------------------------------------------------------
(***************************************************************************)
(* What the caller of run_task sees implements RunPromise.  Beside what is *)
(* on disk this needs that what a subtask waits for is written by the time *)
(* it is Done, that only a budget pauses a run, and that there is no       *)
(* answer before the end.                                                  *)
(***************************************************************************)
AnswerInv ==
    /\ \A s \in Subtask : status[s] = "Done" => \A d \in Deps[s] : applied[d] = 1
    /\ paused => HasBudget
    /\ phase # "ended" => terminal = "None"

\* A diff is written at most once, and what is written stays written.
LEMMA WrittenStays ==
    ASSUME TypeOK, DiskInv, NEW s \in Subtask,
           CheckpointTaken(s) \/ ApplyFails(s) \/ CommitFails(s)
    PROVE  /\ applied[s] = 0
           /\ applied' \in {applied, [applied EXCEPT ![s] = 1]}
           /\ \A d \in Subtask : applied[d] = 1 => applied'[d] = 1
<1>1. /\ s \notin checkpointed
      /\ applied' = applied \/ applied' = [applied EXCEPT ![s] = applied[s] + 1]
  BY DEF CheckpointTaken, ApplyFails, CommitFails, TakeNext, NewlyDone, Write, diskVars
<1>2. applied[s] = 0
  BY <1>1 DEF DiskInv
<1>3. applied' \in {applied, [applied EXCEPT ![s] = 1]}
  BY <1>1, <1>2
<1> QED
  BY <1>2, <1>3 DEF TypeOK

\* A subtask becomes Done from Dispatched, on a workspace that holds what it waits
\* for, and nothing takes that away.
LEMMA AnswerStep ==
    ASSUME TypeOK, WorkersInv, DiskInv, AnswerInv, [Next]_vars
    PROVE  AnswerInv'
<1>1. CASE ScheduleReady
  <2>1. /\ phase = "schedule" /\ UNCHANGED <<paused, terminal, applied>>
        /\ \A s \in Subtask : status'[s] = "Done" => status[s] = "Done"
    BY <1>1 DEF ScheduleReady, diskVars, verdictVars
  <2> QED
    BY <2>1 DEF AnswerInv
<1>2. ASSUME NEW s \in Subtask, NEW js, Settles(s, js)
      PROVE  AnswerInv'
  <2>1. /\ status[s] = "Dispatched" /\ phase # "ended"
        /\ UNCHANGED <<paused, terminal, applied>>
        /\ \A r \in Subtask \ {s} : status'[r] = status[r]
    BY <1>2 DEF Settles, Conclude, Redispatch, TypeOK, diskVars, verdictVars
  <2> QED
    BY <2>1 DEF AnswerInv, DiskInv
<1>3. ASSUME NEW s \in Subtask, CheckpointTaken(s) \/ ApplyFails(s) \/ CommitFails(s)
      PROVE  AnswerInv'
  <2>1. /\ phase = "checkpoint" /\ UNCHANGED <<paused, terminal>>
        /\ \A r \in Subtask : status'[r] = "Done" => status[r] = "Done"
    BY <1>3 DEF CheckpointTaken, ApplyFails, CommitFails, TakeNext, FailTask, TypeOK
  <2>2. \A d \in Subtask : applied[d] = 1 => applied'[d] = 1
    BY <1>3, WrittenStays
  <2>3. \A r \in Subtask : Deps[r] \subseteq Subtask
    BY PlanAssumption
  <2> QED
    BY <2>1, <2>2, <2>3 DEF AnswerInv
<1>4. CASE CheckBudget
  BY <1>4 DEF CheckBudget, AnswerInv, runtimeVars, diskVars
<1>5. CASE EndRun
  BY <1>5 DEF EndRun, AnswerInv, runtimeVars, diskVars
<1>6. ASSUME UNCHANGED <<status, applied, paused, terminal>>, phase = "ended" => phase' = "ended"
      PROVE  AnswerInv'
  BY <1>6 DEF AnswerInv
<1>7. CASE SelectDrained \/ NoneNewlyDone \/ UNCHANGED vars
  BY <1>6, <1>7
  DEF SelectDrained, NoneNewlyDone, vars, runtimeVars, verdictVars, diskVars
<1>8. ASSUME NEW t, \/ JoinError(t) \/ JoinDone(t)
                    \/ WorkerFinishes(t) \/ WorkerCancelled(t)
      PROVE  AnswerInv'
  BY <1>6, <1>8
  DEF JoinError, JoinDone, Joined, WorkerFinishes, WorkerCancelled,
      runtimeVars, verdictVars, diskVars
<1> QED
  BY <1>1, <1>2, <1>3, <1>4, <1>5, <1>7, <1>8, StepCases

\* A step of the run as its caller sees it.
Shows == Promise!Next \/ UNCHANGED <<applied, failure, terminal>>

LEMMA WritesShow ==
    ASSUME TypeOK, DiskInv, AnswerInv, NEW s \in Subtask,
           CheckpointTaken(s) \/ ApplyFails(s) \/ CommitFails(s)
    PROVE  Shows
<1>1. /\ phase = "checkpoint" /\ status[s] = "Done" /\ UNCHANGED terminal
      /\ failure' \in {failure, s}
  BY DEF CheckpointTaken, ApplyFails, CommitFails, TakeNext, NewlyDone, FailTask
<1>2. terminal = "None" /\ \A d \in Deps[s] : applied[d] = 1
  BY <1>1 DEF AnswerInv
<1>3. applied[s] = 0 /\ applied' \in {applied, [applied EXCEPT ![s] = 1]}
  BY WrittenStays
<1>4. (failure' # NoSubtask) \in {failure # NoSubtask, TRUE}
  BY <1>1, PlanAssumption
<1>5. CASE applied' = [applied EXCEPT ![s] = 1]
  <2>1. Promise!Write(s)
    BY <1>1, <1>2, <1>3, <1>4, <1>5 DEF Promise!Write
  <2> QED
    BY <2>1 DEF Shows, Promise!Next
<1>6. CASE applied' = applied /\ failure' = s
  <2>1. Promise!Fail
    BY <1>1, <1>2, <1>6, PlanAssumption DEF Promise!Fail
  <2> QED
    BY <2>1 DEF Shows, Promise!Next
<1>7. CASE applied' = applied /\ failure' = failure
  BY <1>1, <1>7 DEF Shows
<1> QED
  BY <1>1, <1>3, <1>5, <1>6, <1>7

LEMMA BudgetShows ==
    ASSUME AnswerInv, CheckBudget
    PROVE  Shows
<1>1. /\ phase = "budget" /\ UNCHANGED <<applied, terminal>>
      /\ failure' = failure \/ failure' \in FailedSubtasks
  BY DEF CheckBudget, diskVars
<1>2. CASE failure' = failure
  BY <1>1, <1>2 DEF Shows
<1>3. CASE failure' \in FailedSubtasks
  <2>1. Promise!Fail
    BY <1>1, <1>3, PlanAssumption DEF Promise!Fail, FailedSubtasks, AnswerInv
  <2> QED
    BY <2>1 DEF Shows, Promise!Next
<1> QED
  BY <1>1, <1>2, <1>3

LEMMA EndShows ==
    ASSUME AnswerInv, EndRun
    PROVE  Shows
<1>1. /\ phase = "finish" /\ UNCHANGED <<applied, failure>>
      /\ terminal' = IF paused THEN "Paused"
                     ELSE IF failure # NoSubtask THEN "Failed" ELSE "Reviewing"
  BY DEF EndRun, diskVars
<1>2. terminal = "None" /\ (paused => HasBudget)
  BY <1>1 DEF AnswerInv
<1>3. terminal' \in Promise!Answers
  BY <1>1, <1>2 DEF Promise!Answers
<1>4. Promise!Return
  BY <1>1, <1>2, <1>3 DEF Promise!Return
<1> QED
  BY <1>4 DEF Shows, Promise!Next

LEMMA EveryStepShows ==
    ASSUME TypeOK, WorkersInv, DiskInv, AnswerInv, [Next]_vars
    PROVE  Shows
<1>1. ASSUME NEW s, NEW js, Settles(s, js)
      PROVE  UNCHANGED <<applied, failure, terminal>>
  BY <1>1 DEF Settles, verdictVars, diskVars
<1>2. ASSUME NEW t, \/ JoinError(t) \/ JoinDone(t)
                    \/ WorkerFinishes(t) \/ WorkerCancelled(t)
      PROVE  UNCHANGED <<applied, failure, terminal>>
  BY <1>2 DEF JoinError, JoinDone, WorkerFinishes, WorkerCancelled, verdictVars, diskVars
<1>3. CASE ScheduleReady \/ SelectDrained \/ NoneNewlyDone \/ UNCHANGED vars
  BY <1>3 DEF ScheduleReady, SelectDrained, NoneNewlyDone, vars, verdictVars, diskVars, Shows
<1> QED
  BY <1>1, <1>2, <1>3, WritesShow, BudgetShows, EndShows, StepCases DEF Shows

\* Every behaviour of run_task, as its caller sees it, is one of RunPromise: whatever
\* fails, is lost, escalates or pauses, the diffs are written once each and in the
\* order of the plan, and there is one answer and nothing after it.
THEOREM RunsKeepPromise == Spec => RunKeepsPromise
<1>1. Init => AnswerInv /\ Promise!Init
  <2> SUFFICES ASSUME Init PROVE AnswerInv /\ Promise!Init
    OBVIOUS
  <2>1. /\ \A s \in Subtask : status[s] # "Done"
        /\ paused = FALSE /\ failure = NoSubtask /\ terminal \in {"None", "Failed"}
        /\ phase # "ended" => terminal = "None"
        /\ applied = [s \in Subtask |-> 0]
    BY DEF Init, InitialStatus, NoResume, Completed, Zero
  <2> QED
    BY <2>1 DEF AnswerInv, Promise!Init
<1>2. (TypeOK /\ WorkersInv /\ DiskInv) /\ AnswerInv /\ [Next]_vars
        => AnswerInv' /\ [Promise!Next]_(Promise!vars)
  <2>1. UNCHANGED <<applied, failure, terminal>> => UNCHANGED Promise!vars
    BY DEF Promise!vars
  <2> QED
    BY <2>1, AnswerStep, EveryStepShows DEF Shows
<1> QED
  BY <1>1, <1>2, Inductive, PTL DEF Spec, RunKeepsPromise, Promise!Spec

-----------------------------------------------------------------------------
(***************************************************************************)
(* The records of a goal: the inductive invariant.                         *)
(***************************************************************************)

\* A process that is gone has no worker; one that runs has its own.
ProcessInv ==
    /\ GoalTypeOK
    /\ process = "running" => WorkersInv
    /\ \A t \in joinset : status[t.id] = "Dispatched"

\* What is Done is written, but for what the checkpoint loop has still to write
\* or left behind when it failed, or was cut off.
WrittenInv ==
    /\ \A s \in Subtask : status[s] \in {"Ready", "Dispatched"} =>
         \A d \in Deps[s] : applied[d] > 0
    /\ \A s \in checkpointed : /\ status[s] \in {"Done", "Failed"}
                               /\ status[s] = "Done" => applied[s] > 0
                               /\ failure = NoSubtask => status[s] = "Done"
    /\ \A s \in NewlyDone : applied[s] = 0 =>
         phase = "checkpoint" \/ failure # NoSubtask \/ process = "idle"

\* A paused run has at most one diff to write, and it has written it before it
\* goes on: a failure it meets later leaves nothing Done behind.
PauseInv ==
    /\ phase = "budget" /\ failure = NoSubtask => NewlyDone = {}
    /\ paused /\ process # "idle" =>
         /\ \A s, r \in NewlyDone : s = r
         /\ phase # "checkpoint" => NewlyDone = {}

\* The checkpoints are those of the subtasks that are Done and written.
RefsInv ==
    /\ \A i \in DOMAIN checkpoints : checkpoints[i].seq \in refs
    /\ UseGit => \A s \in Subtask : s \in CheckpointedSubtasks(checkpoints)
                                      <=> s \in checkpointed /\ status[s] = "Done"
    /\ ~UseGit => checkpoints = <<>>
    /\ ~UseGit /\ snapshot # NoSnapshot => snapshot.checkpoints = <<>>
    /\ SnapshotIsOnDisk

\* What a run was resumed with stays Done unless the run has failed.
ResumedInv ==
    process # "idle" /\ snapshot # NoSnapshot =>
        \A s \in snapshot.completed :
            /\ failure = NoSubtask => status[s] = "Done"
            /\ paused => status[s] = "Done" /\ s \in checkpointed

\* While nothing has failed or was cut off, what is written is Done for good, in
\* the run and then in the snapshot.
OnceInv ==
    ~interrupted =>
        /\ \A s \in Subtask : applied[s] <= 1
        /\ process # "idle" => \A s \in Subtask : applied[s] > 0 =>
              s \in checkpointed \/ (status[s] = "Done" /\ ~HasDiff(s))
        /\ process = "idle" => /\ snapshot # NoSnapshot
                               /\ \A s \in Subtask : applied[s] > 0 => s \in snapshot.completed

\* What a run that ends in Reviewing has delivered.
DeliveryInv ==
    /\ failure = NoSubtask /\ phase \notin {"checkpoint", "budget", "ended"} =>
         \A s \in Subtask : status[s] # "Failed"
    /\ failure = NoSubtask /\ phase \in {"select", "finish"} =>
         \A s \in Subtask : /\ status[s] # "Ready"
                            /\ status[s] = "Queued" => ~DepsDone(s)
    /\ process = "running" /\ phase = "ended" /\ terminal = "Reviewing" =>
         \A s \in Subtask : \/ status[s] = "Done" /\ applied[s] > 0
                            \/ status[s] = "Dispatched"
                            \/ status[s] = "Queued" /\ ~DepsDone(s)
    /\ DeliveredInFull

\* The task row and the snapshot follow the outcome, in this order.
StoreInv ==
    /\ process = "running" =>
         /\ outcome = "Planning" /\ taskStatus = "Planning"
         /\ phase = "ended" => terminal # "None" /\ (terminal = "Paused" => paused)
    /\ process = "recording" =>
         /\ outcome # "Planning" /\ phase = "ended"
         /\ outcome = "Paused" => paused
         /\ ~torn => taskStatus = outcome
    /\ StoreAgrees

IInv ==
    /\ ProcessInv /\ WrittenInv /\ PauseInv /\ RefsInv
    /\ ResumedInv /\ OnceInv /\ DeliveryInv /\ StoreInv

-----------------------------------------------------------------------------
(***************************************************************************)
(* The steps of run_task, by what they do to the records.                  *)
(***************************************************************************)
Scheduled ==
    /\ phase = "schedule" /\ phase' \in {"select", "finish"}
    /\ status' = [s \in Subtask |-> IF s \in Runnable THEN "Dispatched" ELSE status[s]]
    /\ \A s \in Subtask \ Runnable : dispatches'[s] = dispatches[s]
    /\ UNCHANGED <<failure, paused, terminal, checkpointed, checkpoints, refs, applied>>

Moved ==
    /\ \/ phase' = phase
       \/ phase = "select" /\ phase' \in {"finish", "schedule", "verifying"}
       \/ phase = "checkpoint" /\ NewlyDone = {} /\ phase' = "budget"
    /\ UNCHANGED <<status, dispatches, failure, paused, terminal, checkpointed,
                   checkpoints, refs, applied>>

Concluded(s) ==
    /\ phase \in {"select", "verifying"} /\ phase' = "checkpoint"
    /\ status[s] = "Dispatched"
    /\ \E st \in {"Done", "Failed", "Dispatched"} : status' = [status EXCEPT ![s] = st]
    /\ \A r \in Subtask \ {s} : dispatches'[r] = dispatches[r]
    /\ UNCHANGED <<failure, paused, terminal, checkpointed, checkpoints, refs, applied>>

Taken(s) ==
    /\ phase = "checkpoint" /\ s \in NewlyDone /\ HasDiff(s)
    /\ phase' = phase /\ checkpointed' = checkpointed \cup {s}
    /\ applied' = [applied EXCEPT ![s] = applied[s] + 1]
    /\ IF UseGit
         THEN /\ refs' = refs \cup {nextSeq}
              /\ checkpoints' = Append(checkpoints, [subtask |-> s, seq |-> nextSeq])
         ELSE UNCHANGED <<refs, checkpoints>>
    /\ UNCHANGED <<status, dispatches, failure, paused, terminal>>

Refused(s) ==
    /\ phase = "checkpoint" /\ s \in NewlyDone
    /\ phase' = "budget" /\ checkpointed' = checkpointed \cup {s}
    /\ status' = [status EXCEPT ![s] = "Failed"] /\ failure' = s
    /\ \/ applied' = applied
       \/ HasDiff(s) /\ applied' = [applied EXCEPT ![s] = applied[s] + 1]
    /\ UNCHANGED <<dispatches, paused, terminal, checkpoints, refs>>

Budgeted ==
    /\ phase = "budget" /\ phase' = "schedule"
    /\ failure # NoSubtask => failure' # NoSubtask
    /\ failure' = NoSubtask => \A s \in Subtask : status[s] # "Failed"
    /\ paused' \in BOOLEAN /\ (paused => paused')
    /\ paused' /\ ~paused => failure = NoSubtask
    /\ UNCHANGED <<status, dispatches, terminal, checkpointed, checkpoints, refs, applied>>

Finished ==
    /\ phase = "finish" /\ phase' = "ended"
    /\ terminal' \in {"Paused", "Failed", "Reviewing"}
    /\ terminal' = "Paused" => paused
    /\ terminal' = "Reviewing" => failure = NoSubtask
    /\ UNCHANGED <<status, dispatches, failure, paused, checkpointed, checkpoints, refs,
                   applied>>

RunCase ==
    \/ Scheduled \/ Moved \/ Budgeted \/ Finished
    \/ \E s \in Subtask : Concluded(s) \/ Taken(s) \/ Refused(s)

LEMMA SettlesConcludes ==
    ASSUME TypeOK, NEW s \in Subtask, NEW js, Settles(s, js), phase \in {"select", "verifying"}
    PROVE  Concluded(s)
<1>1. Conclude(s, "Done", js) \/ Conclude(s, "Failed", js) \/ Redispatch(s, js)
  BY DEF Settles
<1>2. \E st \in {"Done", "Failed", "Dispatched"} : status' = [status EXCEPT ![s] = st]
  BY <1>1 DEF Conclude, Redispatch
<1>3. \A r \in Subtask \ {s} : dispatches'[r] = dispatches[r]
  BY <1>1 DEF Conclude, Redispatch, TypeOK
<1> QED
  BY <1>2, <1>3 DEF Settles, Concluded, recordVars, verdictVars, diskVars

LEMMA RunCases ==
    ASSUME TypeOK, WorkersInv, RunStep
    PROVE  RunCase
<1>1. CASE ScheduleReady
  <2>1. \A s \in Subtask \ Runnable : dispatches'[s] = dispatches[s]
    BY <1>1 DEF ScheduleReady
  <2>2. Scheduled
    BY <1>1, <2>1 DEF ScheduleReady, Scheduled, recordVars, verdictVars, diskVars
  <2> QED
    BY <2>2 DEF RunCase
<1>2. CASE SelectDrained \/ NoneNewlyDone
  BY <1>2 DEF SelectDrained, NoneNewlyDone, RunCase, Moved, runtimeVars, recordVars,
              verdictVars, diskVars
<1>3. ASSUME NEW t \in joinset, JoinError(t) \/ JoinDone(t)
      PROVE  RunCase
  BY <1>3 DEF JoinError, JoinDone, Joined, RunCase, Moved, runtimeVars, recordVars,
              verdictVars, diskVars
<1>4. ASSUME NEW t \in joinset, JoinDispatchErr(t) \/ JoinFailed(t)
      PROVE  RunCase
  <2>1. phase = "select"
    BY <1>4 DEF JoinDispatchErr, JoinFailed, Joined
  <2> QED
    BY <1>4, <2>1, JoinSettles, SettlesConcludes DEF RunCase
<1>5. CASE VerifyDiff
  <2>1. phase = "verifying"
    BY <1>5 DEF VerifyDiff
  <2> QED
    BY <1>5, <2>1, VerifySettles, SettlesConcludes DEF RunCase
<1>6. ASSUME NEW s \in Subtask, CheckpointTaken(s)
      PROVE  RunCase
  BY <1>6 DEF CheckpointTaken, TakeNext, Write, Taken, RunCase
<1>7. ASSUME NEW s \in Subtask, ApplyFails(s) \/ CommitFails(s)
      PROVE  RunCase
  BY <1>7 DEF ApplyFails, CommitFails, TakeNext, FailTask, Write, Refused, RunCase, diskVars
<1>8. CASE CheckBudget
  <2>1. PICK pause \in BOOLEAN :
           /\ pause => HasBudget /\ failure = NoSubtask /\ ~paused
           /\ paused' = (paused \/ pause)
    BY <1>8 DEF CheckBudget
  <2>2. failure # NoSubtask => failure' # NoSubtask
    BY <1>8 DEF CheckBudget
  <2>3. failure' = NoSubtask => \A s \in Subtask : status[s] # "Failed"
    BY <1>8, PlanAssumption DEF CheckBudget, FailedSubtasks
  <2>4. paused \in BOOLEAN
    BY DEF TypeOK
  <2>5. paused' \in BOOLEAN /\ (paused => paused') /\ (paused' /\ ~paused => failure = NoSubtask)
    BY <2>1, <2>4
  <2> QED
    BY <1>8, <2>2, <2>3, <2>5 DEF CheckBudget, Budgeted, RunCase, runtimeVars, recordVars, diskVars
<1>9. CASE EndRun
  BY <1>9 DEF EndRun, Finished, RunCase, runtimeVars, recordVars, diskVars
<1>10. ASSUME NEW t \in joinset, WorkerFinishes(t) \/ WorkerCancelled(t)
       PROVE  RunCase
  BY <1>10 DEF WorkerFinishes, WorkerCancelled, RunCase, Moved, runtimeVars, recordVars,
               verdictVars, diskVars
<1> QED
  BY <1>1, <1>2, <1>3, <1>4, <1>5, <1>6, <1>7, <1>8, <1>9, <1>10
  DEF RunStep, LoopStep, JoinNext, TakeCheckpoint, WorkerStep

-----------------------------------------------------------------------------
(***************************************************************************)
(* The invariant over the steps of run_task.                               *)
(***************************************************************************)

\* What a step of run_task leaves alone.
Working ==
    /\ process = "running"
    /\ UNCHANGED <<process, runs, outcome, storeVars, interrupted, torn>>

LEMMA ProcessRuns ==
    ASSUME ProcessInv, Working, RunStep
    PROVE  ProcessInv'
<1>1. TypeOK /\ WorkersInv /\ [Next]_vars
  BY DEF ProcessInv, GoalTypeOK, Working, Next
<1>2. TypeOK' /\ WorkersInv'
  BY <1>1, TypeStep, WorkersStep
<1>3. \A t \in joinset' : status'[t.id] = "Dispatched"
  BY <1>2 DEF WorkersInv, OneWorkerPerSubtask
<1>4. GoalTypeOK'
  BY <1>2 DEF ProcessInv, GoalTypeOK, Working, storeVars
<1> QED
  BY <1>2, <1>3, <1>4 DEF ProcessInv

LEMMA WrittenRuns ==
    ASSUME TypeOK, WrittenInv, Working, RunCase
    PROVE  WrittenInv'
<1>1. /\ status \in [Subtask -> SubtaskStatus] /\ applied \in [Subtask -> Nat]
      /\ failure \in Subtask \cup {NoSubtask} /\ NoSubtask \notin Subtask
      /\ \A s \in Subtask : Deps[s] \subseteq Subtask
      /\ checkpointed \subseteq Subtask
  BY PlanAssumption DEF TypeOK
<1>2. CASE Scheduled
  <2>1. \A s \in Runnable : /\ s \in Subtask /\ status[s] \in {"Ready", "Queued"}
                            /\ failure = NoSubtask
                            /\ \A d \in Deps[s] : status[s] = "Ready" \/ status[d] = "Done"
    BY DEF Runnable, DepsDone
  <2>2. \A d \in Subtask : status[d] = "Done" /\ failure = NoSubtask => applied[d] > 0
    BY <1>1, <1>2 DEF WrittenInv, NewlyDone, Scheduled, Working
  <2>3. \A s \in Runnable : \A d \in Deps[s] : applied[d] > 0
    BY <1>1, <2>1, <2>2 DEF WrittenInv
  <2>4. /\ status' = [s \in Subtask |-> IF s \in Runnable THEN "Dispatched" ELSE status[s]]
        /\ UNCHANGED <<failure, checkpointed, applied>> /\ phase = "schedule"
    BY <1>2 DEF Scheduled
  <2>5. \A s \in Subtask : status'[s] \in {"Ready", "Dispatched"} =>
          \A d \in Deps[s] : applied'[d] > 0
    BY <1>1, <2>3, <2>4 DEF WrittenInv
  <2>6. \A s \in checkpointed : s \notin Runnable
    BY <1>1, <2>1 DEF WrittenInv
  <2>7. \A s \in checkpointed' : /\ status'[s] \in {"Done", "Failed"}
                                 /\ status'[s] = "Done" => applied'[s] > 0
                                 /\ failure' = NoSubtask => status'[s] = "Done"
    BY <1>1, <2>4, <2>6 DEF WrittenInv
  <2>8. \A s \in Subtask : status'[s] = "Done" => status[s] = "Done"
    BY <1>1, <2>4
  <2>9. \A s \in NewlyDone' : s \in NewlyDone
    BY <2>4, <2>8 DEF NewlyDone
  <2> QED
    BY <2>4, <2>5, <2>7, <2>9 DEF WrittenInv, Working
<1>3. CASE Moved
  BY <1>3 DEF WrittenInv, Moved, Working, NewlyDone
<1>4. CASE Budgeted
  BY <1>4 DEF WrittenInv, Budgeted, Working, NewlyDone
<1>5. CASE Finished
  BY <1>5 DEF WrittenInv, Finished, Working, NewlyDone
<1>6. ASSUME NEW s \in Subtask, Concluded(s)
      PROVE  WrittenInv'
  BY <1>1, <1>6 DEF WrittenInv, Concluded, NewlyDone
<1>7. ASSUME NEW s \in Subtask, Taken(s)
      PROVE  WrittenInv'
  BY <1>1, <1>7 DEF WrittenInv, Taken, NewlyDone
<1>8. ASSUME NEW s \in Subtask, Refused(s)
      PROVE  WrittenInv'
  <2>1. \A r \in Subtask : applied'[r] >= applied[r]
    BY <1>1, <1>8 DEF Refused
  <2> QED
    BY <1>1, <1>8, <2>1 DEF WrittenInv, Refused, NewlyDone
<1> QED
  BY <1>2, <1>3, <1>4, <1>5, <1>6, <1>7, <1>8 DEF RunCase

LEMMA PauseRuns ==
    ASSUME TypeOK, WrittenInv, PauseInv, Working, RunCase
    PROVE  PauseInv'
<1>1. /\ status \in [Subtask -> SubtaskStatus] /\ paused \in BOOLEAN
      /\ failure \in Subtask \cup {NoSubtask} /\ NoSubtask \notin Subtask
  BY PlanAssumption DEF TypeOK
<1>2. CASE Scheduled
  <2>1. \A s \in Subtask : status'[s] = "Done" => status[s] = "Done"
    BY <1>1, <1>2 DEF Scheduled
  <2>2. \A s \in NewlyDone' : s \in NewlyDone
    BY <1>2, <2>1 DEF Scheduled, NewlyDone
  <2> QED
    BY <1>2, <2>2 DEF Scheduled, PauseInv, Working
<1>3. CASE Moved
  BY <1>3 DEF PauseInv, Moved, Working, NewlyDone
<1>4. CASE Budgeted
  BY <1>1, <1>4 DEF PauseInv, Budgeted, Working, NewlyDone
<1>5. CASE Finished
  BY <1>5 DEF PauseInv, Finished, Working, NewlyDone
<1>6. ASSUME NEW s \in Subtask, Concluded(s)
      PROVE  PauseInv'
  BY <1>1, <1>6 DEF PauseInv, Concluded, NewlyDone, Working
<1>7. ASSUME NEW s \in Subtask, Taken(s)
      PROVE  PauseInv'
  BY <1>1, <1>7 DEF PauseInv, Taken, NewlyDone, Working
<1>8. ASSUME NEW s \in Subtask, Refused(s)
      PROVE  PauseInv'
  BY <1>1, <1>8 DEF PauseInv, Refused, NewlyDone, Working
<1> QED
  BY <1>2, <1>3, <1>4, <1>5, <1>6, <1>7, <1>8 DEF RunCase

\* The workspace and the refs only grow under a run.
LEMMA DiskGrows ==
    ASSUME TypeOK, RunCase
    PROVE  /\ \A s \in Subtask : applied'[s] >= applied[s]
           /\ refs \subseteq refs'
<1>1. applied \in [Subtask -> Nat]
  BY DEF TypeOK
<1>2. CASE \E s \in Subtask : Taken(s) \/ Refused(s)
  BY <1>1, <1>2 DEF Taken, Refused
<1>3. CASE Scheduled \/ Moved \/ Budgeted \/ Finished \/ \E s \in Subtask : Concluded(s)
  BY <1>1, <1>3 DEF Scheduled, Moved, Budgeted, Finished, Concluded
<1> QED
  BY <1>2, <1>3 DEF RunCase

LEMMA SnapshotFrame ==
    ASSUME TypeOK, RefsInv, snapshot \in Snapshot \cup {NoSnapshot}, snapshot' = snapshot,
           applied' \in [Subtask -> Nat],
           \A s \in Subtask : applied'[s] >= applied[s],
           refs \subseteq refs'
    PROVE  SnapshotIsOnDisk'
<1> SUFFICES ASSUME snapshot # NoSnapshot
             PROVE  /\ \A s \in snapshot.completed : applied'[s] > 0
                    /\ \A i \in DOMAIN snapshot.checkpoints : snapshot.checkpoints[i].seq \in refs'
                    /\ UseGit => CheckpointedSubtasks(snapshot.checkpoints) = snapshot.completed
  BY DEF SnapshotIsOnDisk
<1>1. snapshot.completed \subseteq Subtask
  BY DEF Snapshot
<1>2. applied \in [Subtask -> Nat]
  BY DEF TypeOK
<1> QED
  BY <1>1, <1>2 DEF RefsInv, SnapshotIsOnDisk

LEMMA AppendCheckpoint ==
    ASSUME checkpoints \in Seq(Checkpoint), NEW cp \in Checkpoint,
           checkpoints' = Append(checkpoints, cp)
    PROVE  /\ CheckpointedSubtasks(checkpoints)'
                = CheckpointedSubtasks(checkpoints) \cup {cp.subtask}
           /\ \A i \in DOMAIN checkpoints' : \/ i \in DOMAIN checkpoints
                                                /\ checkpoints'[i] = checkpoints[i]
                                             \/ checkpoints'[i] = cp
<1> DEFINE n == Len(checkpoints)
<1>1. /\ n \in Nat /\ DOMAIN checkpoints = 1 .. n
      /\ DOMAIN checkpoints' = 1 .. (n + 1)
      /\ checkpoints'[n + 1] = cp
      /\ \A i \in 1 .. n : checkpoints'[i] = checkpoints[i]
  OBVIOUS
<1>2. 1 .. (n + 1) = (1 .. n) \cup {n + 1}
  BY <1>1
<1> QED
  BY <1>1, <1>2 DEF CheckpointedSubtasks

LEMMA RefsRuns ==
    ASSUME GoalTypeOK, applied' \in [Subtask -> Nat], WrittenInv, RefsInv, Working, RunCase
    PROVE  RefsInv'
<1>1. /\ status \in [Subtask -> SubtaskStatus] /\ nextSeq \in Nat \ {0}
      /\ checkpoints \in Seq(Checkpoint) /\ checkpointed \subseteq Subtask
      /\ TypeOK
  BY DEF GoalTypeOK, TypeOK
<1>2. SnapshotIsOnDisk'
  BY <1>1, DiskGrows, SnapshotFrame DEF GoalTypeOK, Working, storeVars
<1>3. ~UseGit /\ snapshot' # NoSnapshot => snapshot'.checkpoints = <<>>
  BY DEF RefsInv, Working, storeVars
<1> DEFINE Listed == /\ \A i \in DOMAIN checkpoints : checkpoints[i].seq \in refs
                     /\ ~UseGit => checkpoints = <<>>
           Matched == UseGit => \A s \in Subtask : s \in CheckpointedSubtasks(checkpoints)
                                      <=> s \in checkpointed /\ status[s] = "Done"
<1> SUFFICES Listed' /\ Matched'
  BY <1>2, <1>3 DEF RefsInv
<1>9. Listed /\ Matched
  BY DEF RefsInv
<1>4. CASE Scheduled
  <2>1. \A s \in Runnable : status[s] \in {"Ready", "Queued"}
    BY DEF Runnable
  <2>2. \A s \in Subtask : s \in checkpointed => s \notin Runnable
    BY <2>1 DEF WrittenInv
  <2> QED
    BY <1>1, <1>9, <1>4, <2>2 DEF Scheduled, CheckpointedSubtasks
<1>5. CASE Moved \/ Budgeted \/ Finished
  BY <1>9, <1>5 DEF Moved, Budgeted, Finished, CheckpointedSubtasks
<1>6. ASSUME NEW s \in Subtask, Concluded(s)
      PROVE  Listed' /\ Matched'
  <2>1. s \notin checkpointed
    BY <1>6 DEF Concluded, WrittenInv
  <2> QED
    BY <1>1, <1>9, <1>6, <2>1 DEF Concluded, CheckpointedSubtasks
<1>7. ASSUME NEW s \in Subtask, Taken(s)
      PROVE  Listed' /\ Matched'
  <2> DEFINE cp == [subtask |-> s, seq |-> nextSeq]
  <2>1. cp \in Checkpoint /\ cp.subtask = s /\ cp.seq = nextSeq
    BY <1>1 DEF Checkpoint
  <2>2. /\ status' = status /\ checkpointed' = checkpointed \cup {s} /\ status[s] = "Done"
    BY <1>7 DEF Taken, NewlyDone
  <2>3. CASE UseGit
    <3>1. checkpoints' = Append(checkpoints, cp) /\ refs' = refs \cup {nextSeq}
      BY <1>7, <2>3 DEF Taken
    <3>2. /\ CheckpointedSubtasks(checkpoints)'
               = CheckpointedSubtasks(checkpoints) \cup {s}
          /\ \A i \in DOMAIN checkpoints' : \/ i \in DOMAIN checkpoints
                                               /\ checkpoints'[i] = checkpoints[i]
                                            \/ checkpoints'[i] = cp
      BY <1>1, <2>1, <3>1, AppendCheckpoint
    <3>3. Listed'
      BY <1>9, <2>1, <2>3, <3>1, <3>2
    <3>4. Matched'
      BY <1>9, <2>2, <3>2
    <3> QED
      BY <3>3, <3>4
  <2>4. CASE ~UseGit
    BY <1>9, <1>7, <2>4 DEF Taken
  <2> QED
    BY <2>3, <2>4
<1>8. ASSUME NEW s \in Subtask, Refused(s)
      PROVE  Listed' /\ Matched'
  <2>1. s \notin checkpointed /\ status[s] = "Done"
    BY <1>8 DEF Refused, NewlyDone
  <2> QED
    BY <1>1, <1>9, <1>8, <2>1 DEF Refused, CheckpointedSubtasks
<1> QED
  BY <1>4, <1>5, <1>6, <1>7, <1>8 DEF RunCase

LEMMA ResumedRuns ==
    ASSUME GoalTypeOK, PauseInv, ResumedInv, Working, RunCase
    PROVE  ResumedInv'
<1>1. /\ status \in [Subtask -> SubtaskStatus] /\ paused \in BOOLEAN
      /\ failure \in Subtask \cup {NoSubtask} /\ NoSubtask \notin Subtask
      /\ snapshot # NoSnapshot => snapshot.completed \subseteq Subtask
  BY PlanAssumption DEF GoalTypeOK, TypeOK, Snapshot
<1>2. process # "idle" /\ snapshot' = snapshot
  BY DEF Working, storeVars
<1> SUFFICES ASSUME snapshot # NoSnapshot, NEW r \in snapshot.completed
             PROVE  /\ failure' = NoSubtask => status'[r] = "Done"
                    /\ paused' => status'[r] = "Done" /\ r \in checkpointed'
  BY <1>2 DEF ResumedInv
<1>3. /\ r \in Subtask
      /\ failure = NoSubtask => status[r] = "Done"
      /\ paused => status[r] = "Done" /\ r \in checkpointed
  BY <1>1, <1>2 DEF ResumedInv
<1>4. CASE Scheduled
  <2>1. status[r] = "Done" => r \notin Runnable
    BY DEF Runnable
  <2> QED
    BY <1>1, <1>3, <1>4, <2>1 DEF Scheduled
<1>5. CASE Moved \/ Finished
  BY <1>3, <1>5 DEF Moved, Finished
<1>6. CASE Budgeted
  <2>1. failure = NoSubtask => NewlyDone = {}
    BY <1>6 DEF Budgeted, PauseInv
  <2>2. failure = NoSubtask => r \in checkpointed
    BY <1>3, <2>1 DEF NewlyDone
  <2> QED
    BY <1>1, <1>3, <1>6, <2>2 DEF Budgeted
<1>7. ASSUME NEW s \in Subtask, Concluded(s) \/ Taken(s) \/ Refused(s)
      PROVE  /\ failure' = NoSubtask => status'[r] = "Done"
             /\ paused' => status'[r] = "Done" /\ r \in checkpointed'
  BY <1>1, <1>3, <1>7 DEF Concluded, Taken, Refused, NewlyDone
<1> QED
  BY <1>4, <1>5, <1>6, <1>7 DEF RunCase

LEMMA OnceRuns ==
    ASSUME GoalTypeOK, WrittenInv, OnceInv, Working, RunCase
    PROVE  OnceInv'
<1>1. /\ status \in [Subtask -> SubtaskStatus] /\ applied \in [Subtask -> Nat]
      /\ dispatches \in [Subtask -> Nat]
  BY DEF GoalTypeOK, TypeOK
<1>2. process = "running" /\ process' = "running" /\ interrupted' = interrupted
  BY DEF Working
<1> SUFFICES ASSUME ~interrupted, NEW r \in Subtask
             PROVE  /\ applied'[r] <= 1
                    /\ applied'[r] > 0 =>
                         r \in checkpointed' \/ (status'[r] = "Done" /\ ~HasDiff(r)')
  BY <1>2 DEF OnceInv
<1>3. /\ applied[r] \in Nat /\ applied[r] <= 1
      /\ applied[r] > 0 => r \in checkpointed \/ (status[r] = "Done" /\ ~HasDiff(r))
      /\ r \in checkpointed => status[r] \in {"Done", "Failed"}
  BY <1>1, <1>2 DEF OnceInv, WrittenInv
<1>4. CASE Scheduled
  <2>1. r \in Runnable => status[r] \in {"Ready", "Queued"}
    BY DEF Runnable
  <2> QED
    BY <1>1, <1>3, <1>4, <2>1 DEF Scheduled, HasDiff
<1>5. CASE Moved
  BY <1>3, <1>5 DEF Moved, HasDiff
<1>6. CASE Budgeted
  BY <1>3, <1>6 DEF Budgeted, HasDiff
<1>7. CASE Finished
  BY <1>3, <1>7 DEF Finished, HasDiff
<1>8. ASSUME NEW s \in Subtask, Concluded(s)
      PROVE  /\ applied'[r] <= 1
             /\ applied'[r] > 0 =>
                  r \in checkpointed' \/ (status'[r] = "Done" /\ ~HasDiff(r)')
  BY <1>1, <1>3, <1>8 DEF Concluded, HasDiff
<1>9. ASSUME NEW s \in Subtask, Taken(s)
      PROVE  /\ applied'[r] <= 1
             /\ applied'[r] > 0 =>
                  r \in checkpointed' \/ (status'[r] = "Done" /\ ~HasDiff(r)')
  BY <1>1, <1>3, <1>9 DEF Taken, HasDiff, NewlyDone
<1>10. ASSUME NEW s \in Subtask, Refused(s)
       PROVE  /\ applied'[r] <= 1
              /\ applied'[r] > 0 =>
                   r \in checkpointed' \/ (status'[r] = "Done" /\ ~HasDiff(r)')
  BY <1>1, <1>3, <1>10 DEF Refused, HasDiff, NewlyDone
<1> QED
  BY <1>4, <1>5, <1>6, <1>7, <1>8, <1>9, <1>10 DEF RunCase

LEMMA DeliveryRuns ==
    ASSUME GoalTypeOK, WrittenInv, DeliveryInv, Working, RunCase
    PROVE  DeliveryInv'
<1>1. /\ status \in [Subtask -> SubtaskStatus] /\ applied \in [Subtask -> Nat]
      /\ failure \in Subtask \cup {NoSubtask} /\ NoSubtask \notin Subtask
      /\ \A s \in Subtask : Deps[s] \subseteq Subtask
  BY PlanAssumption DEF GoalTypeOK, TypeOK
<1>2. process = "running" /\ process' = "running"
  BY DEF Working
<1>3. DeliveredInFull'
  BY <1>2 DEF DeliveredInFull
<1>4. CASE Scheduled
  <2>1. \A s \in Subtask : /\ status[s] = "Ready" /\ failure = NoSubtask => s \in Runnable
                           /\ status[s] = "Queued" /\ failure = NoSubtask /\ DepsDone(s)
                                => s \in Runnable
                           /\ s \in Runnable => status[s] \in {"Ready", "Queued"}
    BY DEF Runnable
  <2>2. \A s \in Subtask : /\ status'[s] = "Done" <=> status[s] = "Done"
                           /\ status'[s] = "Failed" => status[s] = "Failed"
                           /\ status'[s] \in {"Ready", "Queued"} =>
                                status'[s] = status[s] /\ s \notin Runnable
    BY <1>1, <1>4, <2>1 DEF Scheduled
  <2>3. \A s \in Subtask : DepsDone(s)' <=> DepsDone(s)
    BY <1>1, <2>2 DEF DepsDone
  <2>4. failure' = failure /\ phase = "schedule" /\ phase' \in {"select", "finish"}
    BY <1>4 DEF Scheduled
  <2>5. failure' = NoSubtask => \A s \in Subtask : status'[s] # "Failed"
    BY <2>2, <2>4 DEF DeliveryInv
  <2>6. failure' = NoSubtask => \A s \in Subtask : status'[s] # "Ready"
    BY <2>1, <2>2, <2>4
  <2>7. failure' = NoSubtask => \A s \in Subtask : status'[s] = "Queued" => ~DepsDone(s)'
    BY <2>1, <2>2, <2>3, <2>4
  <2> QED
    BY <1>3, <2>4, <2>5, <2>6, <2>7 DEF DeliveryInv
<1>5. CASE Moved
  BY <1>2, <1>3, <1>5 DEF DeliveryInv, Moved, DepsDone
<1>6. CASE Budgeted
  BY <1>3, <1>6 DEF DeliveryInv, Budgeted, DepsDone
<1>7. CASE Finished
  <2>1. terminal' = "Reviewing" => failure = NoSubtask
    BY <1>7 DEF Finished
  <2>2. phase = "finish" /\ phase' = "ended" /\ status' = status /\ applied' = applied
    BY <1>7 DEF Finished
  <2>3. failure = NoSubtask => \A s \in Subtask : status[s] = "Done" => applied[s] > 0
    BY <1>1, <1>2, <2>2 DEF WrittenInv, NewlyDone
  <2>4. failure = NoSubtask =>
          \A s \in Subtask : \/ status[s] = "Done" /\ applied[s] > 0
                             \/ status[s] = "Dispatched"
                             \/ status[s] = "Queued" /\ ~DepsDone(s)
    BY <1>1, <2>2, <2>3 DEF DeliveryInv, SubtaskStatus
  <2>5. \A s \in Subtask : DepsDone(s)' <=> DepsDone(s)
    BY <2>2 DEF DepsDone
  <2> QED
    BY <1>3, <2>1, <2>2, <2>4, <2>5 DEF DeliveryInv
<1>8. ASSUME NEW s \in Subtask, Concluded(s) \/ Taken(s) \/ Refused(s)
      PROVE  DeliveryInv'
  BY <1>1, <1>3, <1>8 DEF DeliveryInv, Concluded, Taken, Refused
<1> QED
  BY <1>4, <1>5, <1>6, <1>7, <1>8 DEF RunCase

LEMMA StoreRuns ==
    ASSUME StoreInv, Working, RunCase
    PROVE  StoreInv'
<1>1. /\ process = "running" /\ process' = "running"
      /\ outcome' = outcome /\ taskStatus' = taskStatus
  BY DEF Working, storeVars
<1>2. phase' = "ended" => terminal' # "None" /\ (terminal' = "Paused" => paused')
  BY <1>1 DEF RunCase, Scheduled, Moved, Budgeted, Finished, Concluded, Taken, Refused, StoreInv
<1>3. StoreAgrees'
  BY <1>1 DEF StoreAgrees
<1> QED
  BY <1>1, <1>2, <1>3 DEF StoreInv

LEMMA InvariantRuns ==
    ASSUME IInv, Orchestrate
    PROVE  IInv'
<1>1. Working /\ RunStep
  BY DEF Orchestrate, Working
<1>2. TypeOK /\ WorkersInv /\ GoalTypeOK
  BY <1>1 DEF IInv, ProcessInv, GoalTypeOK, Working
<1>3. RunCase
  BY <1>1, <1>2, RunCases
<1>4. ProcessInv'
  BY <1>1, ProcessRuns DEF IInv
<1>5. applied' \in [Subtask -> Nat]
  BY <1>4 DEF ProcessInv, GoalTypeOK, TypeOK
<1>6. WrittenInv' /\ PauseInv'
  BY <1>1, <1>2, <1>3, WrittenRuns, PauseRuns DEF IInv
<1>7. RefsInv' /\ ResumedInv'
  BY <1>1, <1>2, <1>3, <1>5, RefsRuns, ResumedRuns DEF IInv
<1>8. OnceInv' /\ DeliveryInv' /\ StoreInv'
  BY <1>1, <1>2, <1>3, OnceRuns, DeliveryRuns, StoreRuns DEF IInv
<1> QED
  BY <1>4, <1>6, <1>7, <1>8 DEF IInv

-----------------------------------------------------------------------------
(***************************************************************************)
(* The invariant over the records of an outcome.                           *)
(***************************************************************************)

LEMMA SubtasksOfCheckpoints ==
    ASSUME NEW cps \in Seq(Checkpoint)
    PROVE  CheckpointedSubtasks(cps) \subseteq Subtask
<1>1. \A i \in DOMAIN cps : cps[i] \in Checkpoint
  OBVIOUS
<1> QED
  BY <1>1 DEF CheckpointedSubtasks, Checkpoint

\* In an acyclic plan something is left to do unless everything is.
LEMMA WaitingNeedsWorker ==
    ASSUME \A s \in Subtask : status[s] = "Queued" => ~DepsDone(s),
           \A s \in Subtask : status[s] \in {"Done", "Queued"}
    PROVE  \A s \in Subtask : status[s] = "Done"
<1> DEFINE S == {s \in Subtask : status[s] = "Queued"}
<1> SUFFICES ASSUME S # {}
             PROVE  FALSE
  OBVIOUS
<1>1. PICK s \in S : Deps[s] \cap S = {}
  <2>1. S \in SUBSET Subtask
    OBVIOUS
  <2> QED
    BY <2>1, PlanAssumption DEF AcyclicPlan
<1>2. Deps[s] \subseteq Subtask
  BY PlanAssumption
<1>3. DepsDone(s)
  BY <1>1, <1>2 DEF DepsDone
<1> QED
  BY <1>3

LEMMA InvariantAtStatus ==
    ASSUME IInv, RecordStatus
    PROVE  IInv'
<1>1. /\ process = "running" /\ process' = "recording" /\ phase = "ended"
      /\ outcome' = terminal /\ UNCHANGED vars /\ UNCHANGED <<runs, snapshot, interrupted>>
      /\ \/ taskStatus' = terminal /\ torn' = FALSE
         \/ taskStatus' = taskStatus /\ torn' = TRUE
  BY DEF RecordStatus, UpsertTask
<1>2. UNCHANGED <<phase, joinset, current, status, tier, attempts, escalations, dispatches,
                  checkpointed, checkpoints, nextSeq, failure, paused, terminal, refs, applied>>
  BY <1>1 DEF vars, runtimeVars, recordVars, verdictVars, diskVars
<1>3. /\ terminal \in {"Paused", "Failed", "Reviewing"}
      /\ terminal = "Paused" => paused
  BY <1>1 DEF IInv, StoreInv, ProcessInv, GoalTypeOK, TypeOK
<1>4. ProcessInv'
  BY <1>1, <1>2, <1>3 DEF IInv, ProcessInv, GoalTypeOK, TypeOK
<1>5. WrittenInv' /\ PauseInv'
  BY <1>1, <1>2 DEF IInv, WrittenInv, PauseInv, NewlyDone
<1>6. RefsInv' /\ ResumedInv'
  BY <1>1, <1>2 DEF IInv, RefsInv, ResumedInv, SnapshotIsOnDisk, CheckpointedSubtasks
<1>7. OnceInv'
  BY <1>1, <1>2 DEF IInv, OnceInv, HasDiff
<1>8. DeliveredInFull'
  <2> SUFFICES ASSUME terminal = "Reviewing", \A s \in Subtask : status[s] # "Dispatched"
               PROVE  \A s \in Subtask : applied[s] > 0
    BY <1>1, <1>2 DEF DeliveredInFull
  <2>1. \A s \in Subtask : \/ status[s] = "Done" /\ applied[s] > 0
                           \/ status[s] = "Queued" /\ ~DepsDone(s)
    BY <1>1 DEF IInv, DeliveryInv
  <2>2. \A s \in Subtask : status[s] = "Done"
    BY <2>1, WaitingNeedsWorker
  <2> QED
    BY <2>1, <2>2
<1>9. DeliveryInv'
  BY <1>1, <1>2, <1>8 DEF IInv, DeliveryInv
<1>10. StoreInv'
  BY <1>1, <1>2, <1>3 DEF IInv, StoreInv, StoreAgrees
<1> QED
  BY <1>4, <1>5, <1>6, <1>7, <1>9, <1>10 DEF IInv

LEMMA InvariantAtTimeOut ==
    ASSUME IInv, TimeOut
    PROVE  IInv'
<1>1. /\ process = "running" /\ process' = "recording"
      /\ phase \in {"select", "verifying"} /\ phase' = "ended" /\ joinset' = {}
      /\ outcome' = "Failed" /\ UNCHANGED <<runs, snapshot, interrupted>>
      /\ \/ taskStatus' = "Failed" /\ torn' = FALSE
         \/ taskStatus' = taskStatus /\ torn' = TRUE
      /\ UNCHANGED <<current, status, tier, attempts, escalations, dispatches,
                     checkpointed, checkpoints, nextSeq, failure, paused, terminal, refs, applied>>
  BY DEF TimeOut, UpsertTask, DropRun, runtimeVars, recordVars, verdictVars
<1>2. ProcessInv'
  BY <1>1 DEF IInv, ProcessInv, GoalTypeOK, TypeOK, Phase
<1>3. WrittenInv' /\ PauseInv'
  BY <1>1 DEF IInv, WrittenInv, PauseInv, NewlyDone
<1>4. RefsInv' /\ ResumedInv'
  BY <1>1 DEF IInv, RefsInv, ResumedInv, SnapshotIsOnDisk, CheckpointedSubtasks
<1>5. OnceInv'
  BY <1>1 DEF IInv, OnceInv, HasDiff
<1>6. DeliveryInv'
  BY <1>1 DEF DeliveryInv, DeliveredInFull
<1>7. StoreInv'
  BY <1>1 DEF StoreInv, StoreAgrees
<1> QED
  BY <1>2, <1>3, <1>4, <1>5, <1>6, <1>7 DEF IInv

\* What a pause leaves in the store.
LEMMA PausedIsOnDisk ==
    ASSUME IInv, process = "recording", outcome = "Paused"
    PROVE  /\ ResumeCheckpoint \in Snapshot /\ ResumeCheckpoint # NoSnapshot
           /\ \A s \in Subtask : status[s] = "Done" => s \in checkpointed /\ applied[s] > 0
<1>1. TypeOK
  BY DEF IInv, ProcessInv, GoalTypeOK
<1>2. ResumeCheckpoint \in Snapshot /\ ResumeCheckpoint # NoSnapshot
  BY <1>1, SnapshotAssumption DEF ResumeCheckpoint, Snapshot, TypeOK
<1>3. paused /\ phase = "ended"
  BY DEF IInv, StoreInv
<1>4. NewlyDone = {}
  BY <1>3 DEF IInv, PauseInv
<1>5. \A s \in Subtask : status[s] = "Done" => s \in checkpointed
  BY <1>4 DEF NewlyDone
<1> QED
  BY <1>2, <1>5 DEF IInv, WrittenInv

LEMMA InvariantAtSnapshot ==
    ASSUME IInv, RecordSnapshot
    PROVE  IInv'
<1>1. /\ process = "recording" /\ process' = "idle"
      /\ interrupted' = (interrupted \/ outcome # "Paused" \/ failure # NoSubtask)
      /\ UNCHANGED vars /\ UNCHANGED <<runs, outcome, taskStatus, torn>>
  BY DEF RecordSnapshot, EndProcess
<1>2. UNCHANGED <<phase, joinset, current, status, tier, attempts, escalations, dispatches,
                  checkpointed, checkpoints, nextSeq, failure, paused, terminal, refs, applied>>
  BY <1>1 DEF vars, runtimeVars, recordVars, verdictVars, diskVars
<1>3. \/ outcome = "Paused" /\ snapshot' = ResumeCheckpoint
      \/ outcome = "Reviewing" /\ snapshot' = NoSnapshot
      \/ outcome \notin {"Paused", "Reviewing"} /\ snapshot' = snapshot
  BY DEF RecordSnapshot
<1>4. TypeOK /\ GoalTypeOK
  BY DEF IInv, ProcessInv, GoalTypeOK
<1>5. outcome = "Paused" =>
        /\ ResumeCheckpoint \in Snapshot /\ ResumeCheckpoint # NoSnapshot
        /\ \A s \in Subtask : status[s] = "Done" => s \in checkpointed /\ applied[s] > 0
  BY <1>1, PausedIsOnDisk
<1>6. ProcessInv'
  BY <1>1, <1>2, <1>3, <1>5 DEF IInv, ProcessInv, GoalTypeOK, TypeOK
<1>7. WrittenInv' /\ PauseInv'
  BY <1>1, <1>2 DEF IInv, WrittenInv, PauseInv, NewlyDone
<1>8. SnapshotIsOnDisk'
  <2>1. CASE outcome = "Paused"
    <3>1. /\ ResumeCheckpoint.completed = {s \in Subtask : status[s] = "Done"}
          /\ ResumeCheckpoint.checkpoints = checkpoints
      BY DEF ResumeCheckpoint
    <3>2. \A s \in ResumeCheckpoint.completed : applied[s] > 0
      BY <1>5, <2>1, <3>1
    <3>3. \A i \in DOMAIN checkpoints : checkpoints[i].seq \in refs
      BY DEF IInv, RefsInv
    <3>4. CheckpointedSubtasks(checkpoints) \subseteq Subtask
      BY <1>4, SubtasksOfCheckpoints DEF TypeOK
    <3>5. UseGit => CheckpointedSubtasks(checkpoints) = ResumeCheckpoint.completed
      BY <1>5, <2>1, <3>1, <3>4 DEF IInv, RefsInv
    <3> QED
      BY <1>2, <1>3, <2>1, <3>1, <3>2, <3>3, <3>5 DEF SnapshotIsOnDisk, CheckpointedSubtasks
  <2>2. CASE outcome # "Paused"
    BY <1>2, <1>3, <2>2 DEF IInv, RefsInv, SnapshotIsOnDisk, CheckpointedSubtasks
  <2> QED
    BY <2>1, <2>2
<1>9. RefsInv'
  BY <1>2, <1>3, <1>8 DEF IInv, RefsInv, CheckpointedSubtasks, ResumeCheckpoint
<1>10. ResumedInv'
  BY <1>1 DEF ResumedInv
<1>11. OnceInv'
  <2> SUFFICES ASSUME ~interrupted, outcome = "Paused", failure = NoSubtask
               PROVE  /\ \A s \in Subtask : applied[s] <= 1
                      /\ snapshot' # NoSnapshot
                      /\ \A s \in Subtask : applied[s] > 0 => s \in snapshot'.completed
    BY <1>1, <1>2 DEF OnceInv
  <2>1. \A s \in Subtask : applied[s] > 0 => status[s] = "Done"
    BY <1>1 DEF IInv, OnceInv, WrittenInv
  <2>2. snapshot'.completed = {s \in Subtask : status[s] = "Done"}
    BY <1>3 DEF ResumeCheckpoint
  <2> QED
    BY <1>3, <1>5, <2>1, <2>2 DEF IInv, OnceInv
<1>12. DeliveryInv'
  BY <1>1, <1>2 DEF IInv, DeliveryInv, DeliveredInFull, DepsDone
<1>13. StoreInv'
  BY <1>1, <1>3, <1>5 DEF IInv, StoreInv, StoreAgrees
<1> QED
  BY <1>6, <1>7, <1>9, <1>10, <1>11, <1>12, <1>13 DEF IInv

LEMMA InvariantAtLoss ==
    ASSUME IInv, SnapshotLost
    PROVE  IInv'
<1>1. /\ process = "recording" /\ process' = "idle" /\ torn' = TRUE /\ interrupted' = TRUE
      /\ UNCHANGED vars /\ UNCHANGED <<runs, outcome, taskStatus, snapshot>>
  BY DEF SnapshotLost, storeVars
<1>2. UNCHANGED <<phase, joinset, current, status, tier, attempts, escalations, dispatches,
                  checkpointed, checkpoints, nextSeq, failure, paused, terminal, refs, applied>>
  BY <1>1 DEF vars, runtimeVars, recordVars, verdictVars, diskVars
<1>3. ProcessInv'
  BY <1>1, <1>2 DEF IInv, ProcessInv, GoalTypeOK, TypeOK
<1>4. WrittenInv' /\ PauseInv'
  BY <1>1, <1>2 DEF IInv, WrittenInv, PauseInv, NewlyDone
<1>5. RefsInv' /\ ResumedInv' /\ OnceInv'
  BY <1>1, <1>2 DEF IInv, RefsInv, ResumedInv, OnceInv, SnapshotIsOnDisk, CheckpointedSubtasks
<1>6. DeliveryInv' /\ StoreInv'
  BY <1>1, <1>2 DEF IInv, DeliveryInv, DeliveredInFull, DepsDone, StoreInv, StoreAgrees
<1> QED
  BY <1>3, <1>4, <1>5, <1>6 DEF IInv

LEMMA InvariantAtCrash ==
    ASSUME IInv, Crash
    PROVE  IInv'
<1>1. /\ process # "idle" /\ process' = "idle" /\ interrupted' = TRUE
      /\ torn' = (torn \/ process = "recording")
      /\ phase' = "ended" /\ joinset' = {}
      /\ UNCHANGED <<runs, outcome, taskStatus, snapshot>>
      /\ UNCHANGED <<current, status, tier, attempts, escalations, dispatches, checkpointed,
                     checkpoints, nextSeq, failure, paused, terminal, refs>>
  BY DEF Crash, DropRun, storeVars, runtimeVars, recordVars, verdictVars
<1>2. TypeOK /\ GoalTypeOK
  BY DEF IInv, ProcessInv, GoalTypeOK
<1>3. \/ applied' = applied
      \/ process = "running" /\ \E s \in Subtask : applied' = [applied EXCEPT ![s] = applied[s] + 1]
  BY DEF Crash, NewlyDone, Write
<1>4. applied' \in [Subtask -> Nat] /\ \A s \in Subtask : applied'[s] >= applied[s]
  <2>1. applied \in [Subtask -> Nat]
    BY <1>2 DEF TypeOK
  <2>2. CASE applied' = applied
    BY <2>1, <2>2
  <2>3. ASSUME NEW s \in Subtask, applied' = [applied EXCEPT ![s] = applied[s] + 1]
        PROVE  applied' \in [Subtask -> Nat] /\ \A r \in Subtask : applied'[r] >= applied[r]
    BY <2>1, <2>3
  <2> QED
    BY <1>3, <2>2, <2>3
<1>5. torn \in BOOLEAN /\ torn' \in BOOLEAN
  BY <1>1, <1>2 DEF GoalTypeOK
<1>6. ProcessInv'
  BY <1>1, <1>2, <1>4, <1>5 DEF IInv, ProcessInv, GoalTypeOK, TypeOK, Phase
<1>7. WrittenInv'
  <2>1. \A s \in Subtask : Deps[s] \subseteq Subtask
    BY PlanAssumption
  <2>2. applied \in [Subtask -> Nat] /\ checkpointed \subseteq Subtask
    BY <1>2 DEF TypeOK
  <2>3. \A s \in Subtask : applied[s] > 0 => applied'[s] > 0
    BY <1>4, <2>2
  <2> QED
    BY <1>1, <2>1, <2>2, <2>3 DEF IInv, WrittenInv, NewlyDone
<1>8. PauseInv'
  BY <1>1 DEF PauseInv
<1>9. SnapshotIsOnDisk'
  BY <1>1, <1>2, <1>4, SnapshotFrame DEF IInv, GoalTypeOK
<1>10. RefsInv'
  BY <1>1, <1>9 DEF IInv, RefsInv, CheckpointedSubtasks
<1>11. ResumedInv' /\ OnceInv'
  BY <1>1 DEF ResumedInv, OnceInv
<1>12. DeliveredInFull'
  <2>1. CASE process = "running"
    BY <1>1, <2>1 DEF IInv, StoreInv, DeliveredInFull
  <2>2. CASE process # "running"
    BY <1>1, <1>3, <2>2 DEF IInv, DeliveryInv, DeliveredInFull
  <2> QED
    BY <2>1, <2>2
<1>13. DeliveryInv'
  BY <1>1, <1>12 DEF DeliveryInv
<1>14. StoreInv'
  BY <1>1, <1>2 DEF IInv, StoreInv, StoreAgrees, GoalTypeOK
<1> QED
  BY <1>6, <1>7, <1>8, <1>10, <1>11, <1>13, <1>14 DEF IInv

LEMMA InvariantAtResume ==
    ASSUME IInv, Resume
    PROVE  IInv'
<1>1. /\ process = "idle" /\ process' = "running" /\ snapshot # NoSnapshot
      /\ phase' = "schedule" /\ runs < MaxRuns /\ runs' = runs + 1
      /\ outcome' = "Planning" /\ taskStatus' = "Planning" /\ terminal' = "None"
      /\ joinset' = {} /\ current' = NoSubtask /\ failure' = NoSubtask /\ paused' = FALSE
      /\ UNCHANGED <<snapshot, interrupted, torn, refs, applied>>
  BY DEF Resume, diskVars
<1>2. /\ status' = InitialStatus(snapshot) /\ dispatches' = Zero
      /\ tier' = PlannedTier /\ attempts' = Zero /\ escalations' = Zero
      /\ checkpointed' = CheckpointedSubtasks(snapshot.checkpoints)
      /\ checkpoints' = snapshot.checkpoints /\ nextSeq' = snapshot.nextSeq
  BY DEF Resume
<1>3. /\ snapshot \in Snapshot /\ snapshot.completed \subseteq Subtask
      /\ snapshot.checkpoints \in Seq(Checkpoint) /\ snapshot.nextSeq \in Nat \ {0}
      /\ TypeOK /\ runs \in 1 .. MaxRuns /\ interrupted \in BOOLEAN /\ torn \in BOOLEAN
  BY <1>1 DEF IInv, ProcessInv, GoalTypeOK, Snapshot
<1>4. checkpointed' \subseteq Subtask
  BY <1>2, <1>3, SubtasksOfCheckpoints
<1>5. /\ status' \in [Subtask -> SubtaskStatus]
      /\ \A s \in Subtask : /\ status'[s] = "Done" <=> s \in snapshot.completed
                            /\ status'[s] \in {"Done", "Ready", "Queued"}
                            /\ status'[s] = "Ready" => Deps[s] \subseteq snapshot.completed
  BY <1>2, <1>3 DEF InitialStatus, Completed, SubtaskStatus
<1>6. \A s \in snapshot.completed : applied[s] > 0
  BY <1>1 DEF IInv, RefsInv, SnapshotIsOnDisk
<1>7. checkpointed' \subseteq snapshot.completed /\ (UseGit => checkpointed' = snapshot.completed)
  <2>1. CASE UseGit
    BY <1>1, <1>2, <2>1 DEF IInv, RefsInv, SnapshotIsOnDisk
  <2>2. CASE ~UseGit
    BY <1>1, <1>2, <2>2 DEF IInv, RefsInv, CheckpointedSubtasks
  <2> QED
    BY <2>1, <2>2
<1>8. ProcessInv'
  <2>1. TypeOK'
    <3>1. Zero \in [Subtask -> Nat] /\ Zero \in [Subtask -> 0 .. MaxEscalations]
      BY TierAssumption DEF Zero
    <3>2. /\ dispatches' \in [Subtask -> Nat] /\ attempts' \in [Subtask -> Nat]
          /\ escalations' \in [Subtask -> 0 .. MaxEscalations]
          /\ tier' \in [Subtask -> 0 .. TopTier]
      BY <1>2, <3>1, TierAssumption
    <3>3. checkpoints' \in Seq(Checkpoint) /\ nextSeq' \in Nat \ {0}
      BY <1>2, <1>3
    <3>4. refs' \subseteq Nat \ {0} /\ applied' \in [Subtask -> Nat]
      BY <1>1, <1>3 DEF TypeOK
    <3>5. /\ phase' \in Phase /\ joinset' \subseteq Task /\ paused' \in BOOLEAN
          /\ current' \in Subtask \cup {NoSubtask} /\ failure' \in Subtask \cup {NoSubtask}
          /\ terminal' \in {"None", "Paused", "Failed", "Reviewing"}
      BY <1>1 DEF Phase
    <3> QED
      BY <1>4, <1>5, <3>2, <3>3, <3>4, <3>5 DEF TypeOK
  <2>2. runs' \in 1 .. MaxRuns
    BY <1>1, <1>3, RunAssumption
  <2>3. GoalTypeOK'
    BY <1>1, <1>3, <2>1, <2>2 DEF GoalTypeOK
  <2>4. WorkersInv'
    BY <1>1 DEF WorkersInv, OneWorkerPerSubtask
  <2> QED
    BY <1>1, <2>3, <2>4 DEF ProcessInv
<1>9. WrittenInv'
  <2>1. \A s \in Subtask : status'[s] \in {"Ready", "Dispatched"} => \A d \in Deps[s] : applied'[d] > 0
    BY <1>1, <1>5, <1>6
  <2>2. \A s \in checkpointed' : /\ status'[s] \in {"Done", "Failed"}
                                 /\ status'[s] = "Done" => applied'[s] > 0
                                 /\ failure' = NoSubtask => status'[s] = "Done"
    BY <1>1, <1>4, <1>5, <1>6, <1>7
  <2>3. \A s \in NewlyDone' : applied'[s] > 0
    BY <1>1, <1>5, <1>6 DEF NewlyDone
  <2>4. applied' \in [Subtask -> Nat] /\ NewlyDone' \subseteq Subtask
    BY <1>1, <1>3 DEF TypeOK, NewlyDone
  <2>5. \A s \in NewlyDone' : applied'[s] # 0
    BY <2>3, <2>4
  <2> QED
    BY <2>1, <2>2, <2>5 DEF WrittenInv
<1>10. PauseInv'
  BY <1>1 DEF PauseInv
<1>11. SnapshotIsOnDisk'
  BY <1>1 DEF IInv, RefsInv, SnapshotIsOnDisk, CheckpointedSubtasks
<1>12. RefsInv'
  <2>1. \A i \in DOMAIN checkpoints' : checkpoints'[i].seq \in refs'
    BY <1>1, <1>2 DEF IInv, RefsInv, SnapshotIsOnDisk
  <2>2. CheckpointedSubtasks(checkpoints)' = checkpointed'
    BY <1>2 DEF CheckpointedSubtasks
  <2>3. UseGit => \A s \in Subtask : s \in CheckpointedSubtasks(checkpoints)'
                                      <=> s \in checkpointed' /\ status'[s] = "Done"
    BY <1>5, <1>7, <2>2
  <2>4. ~UseGit => checkpoints' = <<>> /\ snapshot'.checkpoints = <<>>
    BY <1>1, <1>2 DEF IInv, RefsInv
  <2> QED
    BY <1>11, <2>1, <2>3, <2>4 DEF RefsInv
<1>13. ResumedInv'
  BY <1>1, <1>3, <1>5 DEF ResumedInv
<1>14. OnceInv'
  <2>1. \A s \in Subtask : ~HasDiff(s)'
    BY <1>2 DEF HasDiff, Zero
  <2> QED
    BY <1>1, <1>5, <2>1 DEF IInv, OnceInv
<1>15. DeliveryInv'
  <2>1. \A s \in Subtask : status'[s] # "Failed"
    BY <1>5
  <2> QED
    BY <1>1, <2>1 DEF DeliveryInv, DeliveredInFull
<1>16. StoreInv'
  BY <1>1 DEF StoreInv, StoreAgrees
<1> QED
  BY <1>8, <1>9, <1>10, <1>12, <1>13, <1>14, <1>15, <1>16 DEF IInv

LEMMA InvariantAtRest ==
    ASSUME IInv, UNCHANGED goalVars
    PROVE  IInv'
<1>1. UNCHANGED <<phase, joinset, current, status, tier, attempts, escalations, dispatches,
                  checkpointed, checkpoints, nextSeq, failure, paused, terminal, refs, applied>>
  BY DEF goalVars, vars, runtimeVars, recordVars, verdictVars, diskVars
<1>2. UNCHANGED <<process, runs, outcome, taskStatus, snapshot, interrupted, torn>>
  BY DEF goalVars, storeVars
<1>3. ProcessInv'
  BY <1>1, <1>2 DEF IInv, ProcessInv, GoalTypeOK, TypeOK, WorkersInv, OneWorkerPerSubtask
<1>4. WrittenInv' /\ PauseInv'
  BY <1>1, <1>2 DEF IInv, WrittenInv, PauseInv, NewlyDone
<1>5. RefsInv' /\ ResumedInv' /\ OnceInv'
  BY <1>1, <1>2 DEF IInv, RefsInv, ResumedInv, OnceInv, SnapshotIsOnDisk, CheckpointedSubtasks,
                    HasDiff
<1>6. DeliveryInv' /\ StoreInv'
  BY <1>1, <1>2 DEF IInv, DeliveryInv, DeliveredInFull, DepsDone, StoreInv, StoreAgrees
<1> QED
  BY <1>3, <1>4, <1>5, <1>6 DEF IInv

LEMMA InvariantAtStart == GoalInit => IInv
<1> SUFFICES ASSUME GoalInit
             PROVE  IInv
  OBVIOUS
<1>1. /\ TypeOK /\ WorkersInv
      /\ joinset = {} /\ checkpointed = {} /\ checkpoints = <<>> /\ failure = NoSubtask
      /\ paused = FALSE /\ refs = {} /\ applied = Zero
      /\ phase \in {"schedule", "ended"} /\ (phase = "ended" => terminal = "Failed")
      /\ status = InitialStatus(NoResume)
  BY InitTypeWorkers DEF GoalInit, Init
<1>2. /\ process = "running" /\ runs = 1 /\ outcome = "Planning" /\ taskStatus = "Planning"
      /\ snapshot = NoSnapshot /\ interrupted = FALSE /\ torn = FALSE
  BY DEF GoalInit
<1>3. \A s \in Subtask : /\ status[s] \in {"Ready", "Queued"}
                         /\ status[s] = "Ready" => Deps[s] = {}
  BY <1>1 DEF InitialStatus, Completed, NoResume
<1>4. ProcessInv
  <2>1. runs \in 1 .. MaxRuns
    BY <1>2, RunAssumption
  <2>2. GoalTypeOK
    BY <1>1, <1>2, <2>1 DEF GoalTypeOK
  <2> QED
    BY <1>1, <2>2 DEF ProcessInv
<1>5. NewlyDone = {}
  BY <1>3 DEF NewlyDone
<1>6. WrittenInv /\ PauseInv
  BY <1>1, <1>2, <1>3, <1>5 DEF WrittenInv, PauseInv
<1>7. RefsInv /\ ResumedInv
  BY <1>1, <1>2, <1>3 DEF RefsInv, ResumedInv, SnapshotIsOnDisk, CheckpointedSubtasks
<1>8. OnceInv
  BY <1>1, <1>2 DEF OnceInv, Zero
<1>9. DeliveryInv
  BY <1>1, <1>2, <1>3 DEF DeliveryInv, DeliveredInFull
<1>10. StoreInv
  BY <1>1, <1>2 DEF StoreInv, StoreAgrees
<1> QED
  BY <1>4, <1>6, <1>7, <1>8, <1>9, <1>10 DEF IInv

LEMMA GoalInductive == GoalSpec => []IInv
<1>1. IInv /\ [GoalNext]_goalVars => IInv'
  BY InvariantRuns, InvariantAtStatus, InvariantAtSnapshot, InvariantAtLoss, InvariantAtTimeOut,
     InvariantAtCrash, InvariantAtResume, InvariantAtRest DEF GoalNext, Rest
<1> QED
  BY InvariantAtStart, <1>1, PTL DEF GoalSpec

-----------------------------------------------------------------------------
(***************************************************************************)
(* The properties.                                                         *)
(***************************************************************************)

\* The records of a goal agree with the workspace and the refs at every moment,
\* over any number of pauses, failures, timeouts, crashes and resumes: a stored
\* snapshot claims nothing that is not on disk, a worker works on the diffs of its
\* dependencies, and the task row agrees with the snapshot.
THEOREM GoalRecordsConsistent == GoalSpec => []GoalInv
<1>1. IInv => GoalInv
  <2> SUFFICES ASSUME IInv
               PROVE  DependenciesApplied
    BY DEF GoalInv, IInv, ProcessInv, RefsInv, StoreInv
  <2> SUFFICES ASSUME NEW t \in joinset
               PROVE  \A d \in Deps[t.id] : applied[d] > 0
    BY DEF DependenciesApplied
  <2>1. t.id \in Subtask /\ status[t.id] = "Dispatched"
    BY DEF IInv, ProcessInv, GoalTypeOK, TypeOK, Task
  <2> QED
    BY <2>1 DEF IInv, WrittenInv
<1> QED
  BY GoalInductive, <1>1, PTL

\* A verified diff is written a second time only after a run of the goal that
\* failed, timed out, crashed or lost its snapshot.
THEOREM ResumeRedoesNothingEver == GoalSpec => []ResumeRedoesNothing
<1>1. IInv => ResumeRedoesNothing
  <2> SUFFICES ASSUME IInv, NEW s \in Subtask, applied[s] > 1
               PROVE  interrupted
    BY DEF ResumeRedoesNothing
  <2>1. applied[s] \in Nat
    BY DEF IInv, ProcessInv, GoalTypeOK, TypeOK
  <2>2. ~(applied[s] <= 1)
    BY <2>1
  <2> QED
    BY <2>2 DEF IInv, OnceInv
<1> QED
  BY GoalInductive, <1>1, PTL

\* A goal reported as Reviewing has all its diffs in the workspace, or has lost a
\* worker.
THEOREM GoalsDeliveredInFull == GoalSpec => []DeliveredInFull
<1>1. IInv => DeliveredInFull
  BY DEF IInv, DeliveryInv
<1> QED
  BY GoalInductive, <1>1, PTL

\* A snapshot is only replaced by one that completes at least as much.
THEOREM ProgressIsKept == GoalSpec => SnapshotNeverShrinks
<1> DEFINE Kept == snapshot # NoSnapshot /\ snapshot' # NoSnapshot
                     => snapshot.completed \subseteq snapshot'.completed
<1>1. IInv /\ [GoalNext]_goalVars => [Kept]_goalVars
  <2> SUFFICES ASSUME IInv, GoalNext, snapshot # NoSnapshot, snapshot' # NoSnapshot
               PROVE  snapshot.completed \subseteq snapshot'.completed
    OBVIOUS
  <2>1. CASE RecordSnapshot
    <3>1. CASE outcome = "Paused"
      <4>1. snapshot'.completed = {s \in Subtask : status[s] = "Done"}
        BY <2>1, <3>1 DEF RecordSnapshot, ResumeCheckpoint
      <4>2. process = "recording"
        BY <2>1 DEF RecordSnapshot
      <4>3. paused
        BY <3>1, <4>2 DEF IInv, StoreInv
      <4>4. snapshot.completed \subseteq Subtask
        BY DEF IInv, ProcessInv, GoalTypeOK, Snapshot
      <4> QED
        BY <4>1, <4>2, <4>3, <4>4 DEF IInv, ResumedInv
    <3>2. CASE outcome # "Paused"
      BY <2>1, <3>2 DEF RecordSnapshot
    <3> QED
      BY <3>1, <3>2
  <2>2. CASE Orchestrate \/ RecordStatus \/ SnapshotLost \/ TimeOut \/ Crash \/ Resume \/ Rest
    <3>1. snapshot' = snapshot
      BY <2>2 DEF Orchestrate, RecordStatus, SnapshotLost, TimeOut, Crash, Resume, Rest,
                  goalVars, storeVars
    <3> QED
      BY <3>1
  <2> QED
    BY <2>1, <2>2 DEF GoalNext
<1>2. SnapshotNeverShrinks <=> [][Kept]_goalVars
  BY DEF SnapshotNeverShrinks
<1> QED
  BY GoalInductive, <1>1, <1>2, PTL DEF GoalSpec

=============================================================================
