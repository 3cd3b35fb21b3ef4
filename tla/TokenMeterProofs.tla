-------------------------- MODULE TokenMeterProofs --------------------------
(***************************************************************************)
(* Every worker of a run keeps what WorkerPromise states, for every number *)
(* of subtasks, attempts, dispatches and channel places: module TokenMeter *)
(* (with the attempt loop of WorkerLoop) implements WorkerPromise.  Then   *)
(* the accounts of the loop (MeterInv) and the charges of its guard        *)
(* (GuardInv).                                                             *)
(***************************************************************************)
EXTENDS TokenMeter, FiniteSetTheorems, WellFoundedInduction, TLAPS

-----------------------------------------------------------------------------
(***************************************************************************)
(* What is known of a worker: its answers never outnumber its attempts,    *)
(* and what calls for an answer, or ends without a diff, had one.          *)
(***************************************************************************)
Worker == [stage : Stages, attempt : 0 .. MaxAttempts, total : 0 .. MaxAttempts,
           provided : BOOLEAN]

Counted(w) ==
    /\ w.total <= w.attempt
    /\ w.stage = "idle" => w.total = 0
    /\ w.stage = "calling" => w.total < w.attempt
    /\ w.stage = "prompt" => w.attempt < MaxAttempts
    /\ w.stage \in {"verifying", "failed", "unavailable"} => w.total > 0
    /\ w.stage = "context" /\ w.attempt > 0 => w.total > 0

WorkersCounted ==
    /\ worker \in [Subtask -> Worker]
    /\ \A s \in Subtask : Counted(worker[s])

\* The subtask whose diff is being verified has no worker.
VerifiedIsIdle ==
    phase = "verifying" => current \in Subtask /\ worker[current].stage = "idle"

IInv == WorkersCounted /\ VerifiedIsIdle

-----------------------------------------------------------------------------
(***************************************************************************)
(* One worker changes: what the promise sees of it.                        *)
(***************************************************************************)
Shows(w) == IF w.stage \in Results \cup {"idle"} THEN w.stage ELSE "running"

Stage     == [s \in Subtask |-> StageOf(s)]
Calls     == [s \in Subtask |-> worker[s].total]
Candidate == [s \in Subtask |-> worker[s].stage = "verifying"]

LEMMA StageShown ==
    ASSUME NEW s \in Subtask
    PROVE  StageOf(s) = Shows(worker[s])
BY DEF StageOf, Shows, Active, Ended

LEMMA OneChanges ==
    ASSUME worker \in [Subtask -> Worker], NEW s \in Subtask, NEW w,
           worker' = [worker EXCEPT ![s] = w]
    PROVE  /\ Stage' = [Stage EXCEPT ![s] = Shows(w)]
           /\ Calls' = [Calls EXCEPT ![s] = w.total]
           /\ Candidate' = [Candidate EXCEPT ![s] = (w.stage = "verifying")]
<1>1. \A t \in Subtask : worker'[t] = IF t = s THEN w ELSE worker[t]
  OBVIOUS
<1>2. \A t \in Subtask : StageOf(t)' = Shows(worker'[t]) /\ StageOf(t) = Shows(worker[t])
  BY DEF StageOf, Shows, Active, Ended
<1>3. Stage' = [Stage EXCEPT ![s] = Shows(w)]
  BY <1>1, <1>2 DEF Stage
<1>4. Calls' = [Calls EXCEPT ![s] = w.total]
  BY <1>1 DEF Calls
<1>5. Candidate' = [Candidate EXCEPT ![s] = (w.stage = "verifying")]
  BY <1>1 DEF Candidate
<1> QED
  BY <1>3, <1>4, <1>5

LEMMA NoneChanges ==
    ASSUME worker' = worker
    PROVE  UNCHANGED <<Stage, Calls, Candidate>>
BY DEF Stage, Calls, Candidate, StageOf, Active, Ended

(***************************************************************************)
(* The steps of the promise, over what is shown of the workers.            *)
(***************************************************************************)
Keeps == Promise!Next \/ UNCHANGED <<Stage, Calls, Candidate>>

-----------------------------------------------------------------------------
(***************************************************************************)
(* The invariant survives a step that gives one worker a counted state.    *)
(***************************************************************************)
LEMMA Becomes ==
    ASSUME WorkersCounted, NEW s \in Subtask, NEW w \in Worker, Counted(w),
           worker' = [worker EXCEPT ![s] = w]
    PROVE  WorkersCounted'
<1>1. worker' \in [Subtask -> Worker]
  BY DEF WorkersCounted
<1>2. ASSUME NEW t \in Subtask PROVE Counted(worker'[t])
  BY DEF WorkersCounted
<1> QED
  BY <1>1, <1>2 DEF WorkersCounted, Counted

\* A step of the worker's own is never that of a subtask being verified.
LEMMA OwnStep ==
    ASSUME IInv, NEW s \in Subtask, NEW w, worker' = [worker EXCEPT ![s] = w],
           worker[s].stage # "idle", UNCHANGED <<phase, current>>
    PROVE  VerifiedIsIdle'
BY DEF IInv, VerifiedIsIdle, WorkersCounted

\* What a record of a worker is made of.
LEMMA Fields ==
    ASSUME NEW w \in Worker
    PROVE  /\ w = [f \in {"stage", "attempt", "total", "provided"} |-> w[f]]
           /\ w.stage \in Stages /\ w.attempt \in 0 .. MaxAttempts
           /\ w.total \in 0 .. MaxAttempts /\ w.provided \in BOOLEAN
BY DEF Worker

LEMMA Staged ==
    ASSUME NEW w \in Worker, NEW x \in Stages
    PROVE  /\ [w EXCEPT !.stage = x] \in Worker
           /\ [w EXCEPT !.stage = x].stage = x
           /\ [w EXCEPT !.stage = x].total = w.total
           /\ [w EXCEPT !.stage = x].attempt = w.attempt
           /\ [w EXCEPT !.stage = x].provided = w.provided
BY DEF Worker

-----------------------------------------------------------------------------
(***************************************************************************)
(* Steps of the promise.                                                   *)
(***************************************************************************)
\* A worker that still runs ends.
LEMMA Finishes ==
    ASSUME worker \in [Subtask -> Worker], NEW s \in Subtask, NEW w,
           worker' = [worker EXCEPT ![s] = w],
           Shows(worker[s]) = "running", w.stage \in Results,
           w.total = worker[s].total,
           w.stage = "done" => worker[s].stage = "verifying",
           w.stage \in {"failed", "unavailable"} => worker[s].total > 0
    PROVE  Keeps
<1>1. /\ Stage' = [Stage EXCEPT ![s] = w.stage]
      /\ Calls' = [Calls EXCEPT ![s] = w.total]
      /\ Candidate' = [Candidate EXCEPT ![s] = FALSE]
  BY OneChanges DEF Shows, Results
<1>2. Calls' = Calls
  BY <1>1 DEF Calls
<1>3. /\ Stage[s] = "running"
      /\ w.stage = "done" => Candidate[s]
      /\ w.stage \in {"failed", "unavailable"} => Calls[s] > 0
  BY StageShown DEF Stage, Candidate, Calls
<1>4. Promise!Finish(s, w.stage)
  BY <1>1, <1>2, <1>3 DEF Promise!Finish, Stage, Calls, Candidate
<1> QED
  BY <1>4 DEF Keeps, Promise!Next, Promise!Results, Results

\* A worker that still runs goes on without a change that shows.
LEMMA Hidden ==
    ASSUME worker \in [Subtask -> Worker], NEW s \in Subtask, NEW w,
           worker' = [worker EXCEPT ![s] = w],
           Shows(w) = Shows(worker[s]), w.total = worker[s].total,
           (w.stage = "verifying") <=> (worker[s].stage = "verifying")
    PROVE  Keeps
<1>1. Stage' = Stage
  <2>1. Stage[s] = Shows(w)
    BY StageShown DEF Stage
  <2>2. Stage' = [Stage EXCEPT ![s] = Shows(w)]
    BY OneChanges
  <2> QED
    BY <2>1, <2>2 DEF Stage
<1>2. Calls' = Calls
  BY OneChanges DEF Calls
<1>3. Candidate' = Candidate
  BY OneChanges DEF Candidate
<1> QED
  BY <1>1, <1>2, <1>3 DEF Keeps

\* The checks refuse the diff, and the worker goes on.
LEMMA Refused ==
    ASSUME worker \in [Subtask -> Worker], NEW s \in Subtask, NEW w,
           worker' = [worker EXCEPT ![s] = w],
           worker[s].stage = "verifying", w.stage = "prompt",
           w.total = worker[s].total
    PROVE  Keeps
<1>1. /\ Stage' = [Stage EXCEPT ![s] = "running"]
      /\ Calls' = [Calls EXCEPT ![s] = w.total]
      /\ Candidate' = [Candidate EXCEPT ![s] = FALSE]
  BY OneChanges DEF Shows, Results
<1>2. Stage[s] = "running" /\ Candidate[s]
  BY StageShown DEF Stage, Candidate, Shows, Results
<1>3. Stage' = Stage /\ Calls' = Calls
  BY <1>1, <1>2 DEF Stage, Calls
<1>4. Promise!Refuse(s)
  BY <1>1, <1>2, <1>3 DEF Promise!Refuse, Stage, Calls, Candidate
<1> QED
  BY <1>4 DEF Keeps, Promise!Next

\* An answer of the model.
LEMMA Answers ==
    ASSUME worker \in [Subtask -> Worker], NEW s \in Subtask, NEW w,
           worker' = [worker EXCEPT ![s] = w],
           worker[s].stage = "calling", worker[s].total < MaxAttempts,
           w.total = worker[s].total + 1,
           w.stage \in {"prompt", "context", "verifying", "failed"}
    PROVE  Keeps
<1>1. /\ Stage' = [Stage EXCEPT ![s] = Shows(w)]
      /\ Calls' = [Calls EXCEPT ![s] = w.total]
      /\ Candidate' = [Candidate EXCEPT ![s] = (w.stage = "verifying")]
  BY OneChanges
<1>2. /\ Stage[s] = "running" /\ Candidate[s] = FALSE
      /\ Calls[s] = worker[s].total
  BY StageShown DEF Stage, Candidate, Calls, Shows, Results
<1>3. Calls' = [Calls EXCEPT ![s] = Calls[s] + 1]
  BY <1>1, <1>2
<1>4. CASE w.stage = "failed"
  <2>1. Stage' = [Stage EXCEPT ![s] = "failed"]
    BY <1>1, <1>4 DEF Shows, Results
  <2>2. Candidate' = Candidate
    BY <1>1, <1>2, <1>4 DEF Candidate
  <2>3. Promise!Answer(s)
    BY <1>2, <1>3, <2>1, <2>2 DEF Promise!Answer, Stage, Calls, Candidate
  <2> QED
    BY <2>3 DEF Keeps, Promise!Next
<1>5. CASE w.stage # "failed"
  <2>1. Stage' = Stage
    BY <1>1, <1>2, <1>5 DEF Shows, Results, Stage
  <2>2. Candidate' \in {[Candidate EXCEPT ![s] = stands] : stands \in BOOLEAN}
    BY <1>1
  <2>3. Promise!Answer(s)
    BY <1>2, <1>3, <2>1, <2>2 DEF Promise!Answer, Stage, Calls, Candidate
  <2> QED
    BY <2>3 DEF Keeps, Promise!Next
<1> QED
  BY <1>4, <1>5

\* A worker is spawned where none runs.
LEMMA Dispatches ==
    ASSUME worker \in [Subtask -> Worker], NEW s \in Subtask,
           worker' = [worker EXCEPT ![s] = NewWorker],
           worker[s].stage \in Results \cup {"idle"}
    PROVE  Keeps
<1>1. NewWorker.stage = "context" /\ NewWorker.total = 0
  BY DEF NewWorker, IdleWorker
<1>2. /\ Stage' = [Stage EXCEPT ![s] = "running"]
      /\ Calls' = [Calls EXCEPT ![s] = 0]
      /\ Candidate' = [Candidate EXCEPT ![s] = FALSE]
  BY <1>1, OneChanges DEF Shows, Results
<1>3. Stage[s] # "running"
  BY StageShown DEF Stage, Shows, Results
<1>4. Promise!Dispatch(s)
  BY <1>2, <1>3 DEF Promise!Dispatch, Stage, Calls, Candidate
<1> QED
  BY <1>4 DEF Keeps, Promise!Next

\* A result is joined and its worker released.
LEMMA Joins ==
    ASSUME worker \in [Subtask -> Worker], NEW s \in Subtask, Release(s),
           worker[s].stage \in Results
    PROVE  Keeps
<1>1. IdleWorker.stage = "idle" /\ IdleWorker.total = 0
  BY DEF IdleWorker
<1>2. /\ Stage' = [Stage EXCEPT ![s] = "idle"]
      /\ Calls' = [Calls EXCEPT ![s] = 0]
      /\ Candidate' = [Candidate EXCEPT ![s] = FALSE]
  BY <1>1, OneChanges DEF Shows, Results, Release
<1>3. Stage[s] \in Promise!Results /\ Candidate[s] = FALSE
  BY StageShown DEF Stage, Candidate, Shows, Results, Promise!Results
<1>4. Candidate' = Candidate
  BY <1>2, <1>3 DEF Candidate
<1>5. Promise!Join(s)
  BY <1>2, <1>3, <1>4 DEF Promise!Join, Stage, Calls, Candidate
<1> QED
  BY <1>5 DEF Keeps, Promise!Next

-----------------------------------------------------------------------------
(***************************************************************************)
(* The steps of a worker.                                                  *)
(***************************************************************************)
LEMMA Attempts ==
    ASSUME NEW w \in Worker, w.total <= w.attempt, w.total > 0 \/ w.attempt = 0
    PROVE  /\ NextAttempt(w) \in Worker
           /\ Counted(NextAttempt(w))
           /\ NextAttempt(w).total = w.total
           /\ NextAttempt(w).stage \in {"prompt", "failed"}
           /\ w.attempt = 0 => NextAttempt(w).stage = "prompt"
<1> DEFINE x == IF w.attempt < MaxAttempts THEN "prompt" ELSE "failed"
<1>1. x \in Stages
  BY DEF Stages, Results
<1>2. NextAttempt(w) = [w EXCEPT !.stage = x]
  BY DEF NextAttempt
<1>3. \/ x = "prompt" /\ w.attempt < MaxAttempts
      \/ x = "failed" /\ w.attempt = MaxAttempts
  BY Fields, WorkerAssumption
<1> HIDE DEF x
<1>4. /\ NextAttempt(w) \in Worker
      /\ NextAttempt(w).stage = x
      /\ NextAttempt(w).total = w.total /\ NextAttempt(w).attempt = w.attempt
  BY <1>1, <1>2, Staged
<1>5. w.attempt = 0 => x = "prompt"
  BY <1>3, WorkerAssumption
<1>6. x = "failed" => w.total > 0
  BY <1>3, WorkerAssumption
<1>7. Counted(NextAttempt(w))
  BY <1>3, <1>4, <1>6 DEF Counted
<1> QED
  BY <1>3, <1>4, <1>5, <1>7

LEMMA ReportContextStep ==
    ASSUME IInv, NEW s \in Subtask, ReportContext(s), UNCHANGED <<phase, current>>
    PROVE  IInv' /\ Keeps
<1> DEFINE w == worker[s]
           n == NextAttempt(worker[s])
<1>1. w \in Worker /\ Counted(w) /\ w.stage = "context"
  BY DEF IInv, WorkersCounted, ReportContext
<1>2. w.total <= w.attempt /\ (w.total > 0 \/ w.attempt = 0)
  BY <1>1, Fields DEF Counted
<1>3. /\ n \in Worker /\ Counted(n) /\ n.total = w.total
      /\ n.stage \in {"prompt", "failed"} /\ (w.attempt = 0 => n.stage = "prompt")
  BY <1>1, <1>2, Attempts
<1>4. worker' = [worker EXCEPT ![s] = n]
  BY DEF ReportContext
<1>5. worker \in [Subtask -> Worker]
  BY DEF IInv, WorkersCounted
<1> HIDE DEF n
<1>6. IInv'
  BY <1>1, <1>3, <1>4, Becomes, OwnStep DEF IInv
<1>7. CASE n.stage = "prompt"
  <2>1. Shows(n) = Shows(w)
    BY <1>1, <1>7 DEF Shows, Results
  <2> QED
    BY <1>1, <1>3, <1>4, <1>5, <1>6, <1>7, <2>1, Hidden
<1>8. CASE n.stage = "failed"
  <2>1. w.total > 0
    BY <1>2, <1>3, <1>8
  <2>2. Shows(w) = "running"
    BY <1>1 DEF Shows, Results
  <2> QED
    BY <1>3, <1>4, <1>5, <1>6, <1>8, <2>1, <2>2, Finishes DEF Results
<1> QED
  BY <1>3, <1>6, <1>7, <1>8

LEMMA CallModelStep ==
    ASSUME IInv, NEW s \in Subtask, CallModel(s), UNCHANGED <<phase, current>>
    PROVE  IInv' /\ Keeps
<1> DEFINE w == worker[s]
           n == [worker[s] EXCEPT !.stage = "calling", !.attempt = @ + 1]
<1>1. w \in Worker /\ Counted(w) /\ w.stage = "prompt"
  BY DEF IInv, WorkersCounted, CallModel
<1>2. w.attempt < MaxAttempts /\ w.total <= w.attempt
  BY <1>1 DEF Counted
<1>3. worker' = [worker EXCEPT ![s] = n]
  BY DEF CallModel
<1>4. worker \in [Subtask -> Worker]
  BY DEF IInv, WorkersCounted
<1>5. /\ n.stage = "calling" /\ n.attempt = w.attempt + 1 /\ n.total = w.total
      /\ n.provided = w.provided
  BY <1>1, Fields
<1>6. n \in Worker
  <2>1. w.attempt + 1 \in 0 .. MaxAttempts
    BY <1>1, <1>2, Fields, WorkerAssumption
  <2> QED
    BY <1>1, <2>1 DEF Worker, Stages
<1> HIDE DEF n
<1>7. Counted(n)
  <2>1. w.total \in Nat /\ w.attempt \in Nat
    BY <1>1, Fields
  <2> QED
    BY <1>2, <1>5, <2>1 DEF Counted
<1>8. IInv'
  BY <1>1, <1>3, <1>6, <1>7, Becomes, OwnStep DEF IInv
<1>9. Shows(n) = Shows(w)
  BY <1>1, <1>5 DEF Shows, Results
<1> QED
  BY <1>1, <1>3, <1>4, <1>5, <1>8, <1>9, Hidden

\* A worker that runs stops, its answers unchanged.
LEMMA StopStep ==
    ASSUME IInv, NEW s \in Subtask, NEW x \in Results, Goto(s, x),
           worker[s].stage \in {"context", "prompt", "calling", "verifying"},
           x \in {"done", "failed", "unavailable"} => worker[s].stage = "verifying",
           UNCHANGED <<phase, current>>
    PROVE  IInv' /\ Keeps
<1> DEFINE w == worker[s]
           n == [worker[s] EXCEPT !.stage = x]
<1>1. w \in Worker /\ Counted(w)
  BY DEF IInv, WorkersCounted
<1>2. worker' = [worker EXCEPT ![s] = n]
  BY DEF Goto
<1>3. worker \in [Subtask -> Worker]
  BY DEF IInv, WorkersCounted
<1>4. /\ n \in Worker /\ n.stage = x
      /\ n.total = w.total /\ n.attempt = w.attempt
  BY <1>1, Staged DEF Stages
<1> HIDE DEF n
<1>5. x \in {"failed", "unavailable"} => w.total > 0
  BY <1>1 DEF Counted
<1>6. Counted(n)
  BY <1>1, <1>4, <1>5 DEF Counted, Results
<1>7. IInv'
  <2>1. w.stage # "idle"
    OBVIOUS
  <2> QED
    BY <1>2, <1>4, <1>6, <2>1, Becomes, OwnStep DEF IInv
<1>8. Shows(w) = "running"
  BY DEF Shows, Results
<1>9. Keeps
  BY <1>2, <1>3, <1>4, <1>5, <1>8, Finishes DEF Results
<1> QED
  BY <1>7, <1>9

\* The model has answered: one more answer, and never more than attempts.
LEMMA AnsweredWorker ==
    ASSUME NEW s \in Subtask, worker[s] \in Worker, Counted(worker[s]),
           worker[s].stage = "calling"
    PROVE  /\ Answered(s) \in Worker
           /\ Answered(s).total = worker[s].total + 1
           /\ Answered(s).total > 0
           /\ Answered(s).attempt = worker[s].attempt
           /\ Answered(s).total <= Answered(s).attempt
           /\ worker[s].total < MaxAttempts
<1>1. /\ worker[s].total < worker[s].attempt
      /\ worker[s].total \in 0 .. MaxAttempts /\ worker[s].attempt \in 0 .. MaxAttempts
  BY Fields DEF Counted
<1>2. worker[s].total + 1 \in 0 .. MaxAttempts /\ worker[s].total < MaxAttempts
  BY <1>1, WorkerAssumption
<1>3. Answered(s).total = worker[s].total + 1 /\ Answered(s).attempt = worker[s].attempt
  BY DEF Answered, Worker
<1>4. Answered(s) \in Worker
  BY <1>2 DEF Answered, Worker
<1> QED
  BY <1>1, <1>2, <1>3, <1>4

LEMMA AnswerStep ==
    ASSUME IInv, NEW s \in Subtask, NEW w \in Worker, Counted(w), Answer(s, w),
           w.total = worker[s].total + 1,
           w.stage \in {"prompt", "context", "verifying", "failed"},
           UNCHANGED <<phase, current>>
    PROVE  IInv' /\ Keeps
<1>1. /\ worker \in [Subtask -> Worker] /\ worker[s] \in Worker
      /\ Counted(worker[s]) /\ worker[s].stage = "calling"
  BY DEF IInv, WorkersCounted, Answer
<1>2. worker' = [worker EXCEPT ![s] = w]
  BY DEF Answer
<1>3. worker[s].total < MaxAttempts
  BY <1>1, AnsweredWorker
<1>4. IInv'
  BY <1>1, <1>2, Becomes, OwnStep DEF IInv
<1>5. Keeps
  BY <1>1, <1>2, <1>3, Answers
<1> QED
  BY <1>4, <1>5

LEMMA NoDiffStep ==
    ASSUME IInv, NEW s \in Subtask, NoDiff(s), UNCHANGED <<phase, current>>
    PROVE  IInv' /\ Keeps
<1> DEFINE a == Answered(s)
           n == NextAttempt(Answered(s))
<1>1. worker[s] \in Worker /\ Counted(worker[s]) /\ worker[s].stage = "calling"
  BY DEF IInv, WorkersCounted, NoDiff, Answer
<1>2. /\ a \in Worker /\ a.total = worker[s].total + 1
      /\ a.total > 0 /\ a.total <= a.attempt
  BY <1>1, AnsweredWorker
<1>3. Answer(s, n)
  BY DEF NoDiff
<1> HIDE DEF a
<1>4. /\ n \in Worker /\ Counted(n) /\ n.total = a.total
      /\ n.stage \in {"prompt", "failed"}
  BY <1>2, Attempts DEF a
<1> HIDE DEF n
<1> QED
  BY <1>2, <1>3, <1>4, AnswerStep

\* A request for files is served, or a diff is found.
LEMMA GoesOnStep ==
    ASSUME IInv, NEW s \in Subtask, FilesServed(s) \/ DiffFound(s),
           UNCHANGED <<phase, current>>
    PROVE  IInv' /\ Keeps
<1> DEFINE a == Answered(s)
<1>1. worker[s] \in Worker /\ Counted(worker[s]) /\ worker[s].stage = "calling"
  BY DEF IInv, WorkersCounted, FilesServed, DiffFound, Answer
<1>2. /\ a \in Worker /\ a.total = worker[s].total + 1
      /\ a.total > 0 /\ a.total <= a.attempt
  BY <1>1, AnsweredWorker
<1>3. CASE FilesServed(s)
  <2> DEFINE n == [Answered(s) EXCEPT !.stage = "context", !.provided = TRUE]
  <2>1. Answer(s, n)
    BY <1>3 DEF FilesServed
  <2> HIDE DEF a
  <2>2. n = [a EXCEPT !.stage = "context", !.provided = TRUE]
    BY DEF a
  <2>3. /\ n \in Worker /\ n.stage = "context"
        /\ n.total = a.total /\ n.attempt = a.attempt
    BY <1>2, <2>2 DEF Worker, Stages
  <2> HIDE DEF n
  <2>4. Counted(n)
    BY <1>2, <2>3 DEF Counted
  <2> QED
    BY <1>2, <2>1, <2>3, <2>4, AnswerStep
<1>4. CASE DiffFound(s)
  <2> DEFINE n == [Answered(s) EXCEPT !.stage = "verifying"]
  <2>1. Answer(s, n)
    BY <1>4 DEF DiffFound
  <2> HIDE DEF a
  <2>2. n = [a EXCEPT !.stage = "verifying"]
    BY DEF a
  <2>3. /\ n \in Worker /\ n.stage = "verifying"
        /\ n.total = a.total /\ n.attempt = a.attempt
    BY <1>2, <2>2 DEF Worker, Stages
  <2> HIDE DEF n
  <2>4. Counted(n)
    BY <1>2, <2>3 DEF Counted
  <2> QED
    BY <1>2, <2>1, <2>3, <2>4, AnswerStep
<1> QED
  BY <1>3, <1>4

LEMMA VerdictStep ==
    ASSUME IInv, NEW s \in Subtask, VerdictArrives(s), UNCHANGED <<phase, current>>
    PROVE  IInv' /\ Keeps
<1> DEFINE n == NextAttempt(worker[s])
<1>1. /\ worker \in [Subtask -> Worker] /\ worker[s] \in Worker
      /\ Counted(worker[s]) /\ worker[s].stage = "verifying"
  BY DEF IInv, WorkersCounted, VerdictArrives
<1>2. ASSUME NEW r \in {"done", "unavailable", "error"}, Goto(s, r)
      PROVE  IInv' /\ Keeps
  BY <1>1, <1>2, StopStep DEF Results
<1>3. CASE worker' = [worker EXCEPT ![s] = n]
  <2>1. worker[s].total <= worker[s].attempt /\ worker[s].total > 0
    BY <1>1 DEF Counted
  <2>2. /\ n \in Worker /\ Counted(n) /\ n.total = worker[s].total
        /\ n.stage \in {"prompt", "failed"}
    BY <1>1, <2>1, Attempts
  <2>3. worker' = [worker EXCEPT ![s] = n]
    BY <1>3
  <2> HIDE DEF n
  <2>4. IInv'
    BY <1>1, <2>2, <2>3, Becomes, OwnStep DEF IInv
  <2>5. CASE n.stage = "prompt"
    BY <1>1, <2>2, <2>3, <2>4, <2>5, Refused
  <2>6. CASE n.stage = "failed"
    <3>1. Shows(worker[s]) = "running"
      BY <1>1 DEF Shows, Results
    <3> QED
      BY <1>1, <2>1, <2>2, <2>3, <2>4, <2>6, <3>1, Finishes DEF Results
  <2> QED
    BY <2>2, <2>5, <2>6
<1>4. worker' = [worker EXCEPT ![s] = NextAttempt(@)] => worker' = [worker EXCEPT ![s] = n]
  OBVIOUS
<1> QED
  BY <1>2, <1>3, <1>4 DEF VerdictArrives

LEMMA LostStep ==
    ASSUME IInv, NEW s \in Subtask, Lost(s) \/ ModelFails(s),
           UNCHANGED <<phase, current>>
    PROVE  IInv' /\ Keeps
<1>1. worker[s].stage \in Stages
  BY DEF IInv, WorkersCounted, Worker
<1>2. worker[s].stage \in {"context", "prompt", "calling", "verifying"}
  BY <1>1 DEF Lost, ModelFails, Active, Ended, Stages
<1>3. PICK x \in {"lost", "error"} : Goto(s, x)
  BY DEF Lost, ModelFails
<1> QED
  BY <1>2, <1>3, StopStep DEF Results

LEMMA WorkerKeeps ==
    ASSUME IInv, NEW s \in Subtask, WorkerMoves(s) \/ WorkerLost(s)
    PROVE  IInv' /\ Keeps
<1>1. UNCHANGED <<phase, current>>
  BY DEF WorkerMoves, WorkerLost, loopVars
<1> QED
  BY <1>1, ReportContextStep, CallModelStep, NoDiffStep, GoesOnStep, VerdictStep, LostStep
  DEF WorkerMoves, WorkerLost, WorkerStep

-----------------------------------------------------------------------------
(***************************************************************************)
(* The steps of the loop.                                                  *)
(***************************************************************************)
LEMMA BothCounted ==
    /\ NewWorker \in Worker /\ Counted(NewWorker)
    /\ IdleWorker \in Worker /\ Counted(IdleWorker)
    /\ NewWorker.stage = "context" /\ IdleWorker.stage = "idle"
<1>1. 0 \in 0 .. MaxAttempts
  BY WorkerAssumption
<1>2. IdleWorker \in Worker
  BY <1>1 DEF IdleWorker, Worker, Stages
<1>3. NewWorker.stage = "context" /\ NewWorker.attempt = 0 /\ NewWorker.total = 0
  BY DEF NewWorker, IdleWorker
<1>4. NewWorker \in Worker
  BY <1>2 DEF NewWorker, Worker, Stages
<1>5. Counted(IdleWorker) /\ IdleWorker.stage = "idle"
  BY DEF IdleWorker, Counted
<1>6. Counted(NewWorker) /\ NewWorker.stage = "context"
  BY <1>3 DEF Counted
<1> QED
  BY <1>2, <1>4, <1>5, <1>6

LEMMA NoWorkerMoves ==
    ASSUME IInv, worker' = worker, phase' # "verifying" \/ UNCHANGED <<phase, current>>
    PROVE  IInv' /\ Keeps
<1>1. IInv'
  BY DEF IInv, WorkersCounted, VerifiedIsIdle, Counted
<1> QED
  BY <1>1, NoneChanges DEF Keeps

\* A result is joined, and the subtask dispatched again or its worker gone.
LEMMA Replaced ==
    ASSUME IInv, NEW s \in Subtask, phase' # "verifying",
           worker[s].stage \in Results \cup {"idle"},
           worker' = [worker EXCEPT ![s] = NewWorker]
    PROVE  IInv' /\ Keeps
<1>1. worker \in [Subtask -> Worker]
  BY DEF IInv, WorkersCounted
<1>2. IInv'
  BY BothCounted, Becomes DEF IInv, VerifiedIsIdle
<1> QED
  BY <1>1, <1>2, Dispatches

LEMMA Released ==
    ASSUME IInv, NEW s \in Subtask, phase' # "verifying" \/ current' = s,
           worker[s].stage \in Results, Release(s)
    PROVE  IInv' /\ Keeps
<1>1. worker \in [Subtask -> Worker]
  BY DEF IInv, WorkersCounted
<1>2. worker' = [worker EXCEPT ![s] = IdleWorker]
  BY DEF Release
<1>3. WorkersCounted'
  BY <1>2, BothCounted, Becomes DEF IInv
<1>4. worker'[s] = IdleWorker
  BY <1>1, <1>2
<1>5. VerifiedIsIdle'
  BY <1>4, BothCounted DEF VerifiedIsIdle
<1> QED
  BY <1>1, <1>3, <1>5, Joins DEF IInv

LEMMA JoinKeeps ==
    ASSUME IInv, NEW s \in Subtask,
           JoinLost(s) \/ JoinError(s) \/ JoinFailed(s) \/ JoinDone(s)
    PROVE  IInv' /\ Keeps
<1>1. CASE JoinLost(s)
  BY <1>1, Released DEF JoinLost, Results
<1>2. CASE JoinError(s)
  BY <1>2, Released DEF JoinError, Results
<1>3. CASE JoinFailed(s)
  <2>1. worker[s].stage \in Results /\ phase' # "verifying"
    BY <1>3 DEF JoinFailed, Results
  <2>2. Release(s) \/ worker' = [worker EXCEPT ![s] = NewWorker]
    BY <1>3 DEF JoinFailed, RedispatchOrFail
  <2> QED
    BY <2>1, <2>2, Released, Replaced
<1>4. CASE JoinDone(s)
  BY <1>4, Released DEF JoinDone, Results
<1> QED
  BY <1>1, <1>2, <1>3, <1>4

LEMMA VerifiedKeeps ==
    ASSUME IInv, Verified
    PROVE  IInv' /\ Keeps
<1>1. current \in Subtask /\ worker[current].stage = "idle" /\ phase' = "account"
  BY DEF IInv, VerifiedIsIdle, Verified
<1>2. CASE worker' = worker
  BY <1>1, <1>2, NoWorkerMoves
<1>3. CASE worker' = [worker EXCEPT ![current] = NewWorker]
  BY <1>1, <1>3, Replaced
<1>4. CASE Release(current)
  <2>1. worker[current] \in Worker /\ Counted(worker[current])
    BY <1>1 DEF IInv, WorkersCounted
  <2>2. worker \in [Subtask -> Worker]
    BY DEF IInv, WorkersCounted
  <2>3. worker' = [worker EXCEPT ![current] = IdleWorker]
    BY <1>4 DEF Release
  <2>4. IInv'
    BY <1>1, <2>3, BothCounted, Becomes DEF IInv, VerifiedIsIdle
  <2>5. Shows(IdleWorker) = Shows(worker[current]) /\ IdleWorker.stage = "idle"
    BY <1>1, BothCounted DEF Shows
  <2>6. IdleWorker.total = worker[current].total
    BY <1>1, <2>1 DEF Counted, IdleWorker
  <2>7. Keeps
    BY <1>1, <2>2, <2>3, <2>5, <2>6, Hidden
  <2> QED
    BY <2>4, <2>7
<1> QED
  BY <1>2, <1>3, <1>4 DEF Verified, RedispatchOrFail

LEMMA LoopKeeps ==
    ASSUME IInv, LoopStep
    PROVE  IInv' /\ Keeps
<1>1. CASE Receive
  BY <1>1, NoWorkerMoves DEF Receive, loopVars
<1>2. CASE NothingReceived \/ NothingJoined \/ EndRun
  BY <1>2, NoWorkerMoves DEF NothingReceived, NothingJoined, EndRun, workVars
<1>3. CASE Account
  <2>1. phase' = "poll" /\ worker' = worker
    BY <1>3 DEF Account, workVars
  <2> QED
    BY <2>1, NoWorkerMoves
<1> QED
  BY <1>1, <1>2, <1>3, JoinKeeps, VerifiedKeeps DEF LoopStep

-----------------------------------------------------------------------------
LEMMA Starts ==
    ASSUME Init
    PROVE  IInv /\ Promise!Init
<1>1. worker = [s \in Subtask |-> NewWorker]
  BY DEF Init
<1>2. IInv
  BY <1>1, BothCounted DEF Init, IInv, WorkersCounted, VerifiedIsIdle
<1>3. NewWorker.total = 0
  BY DEF NewWorker, IdleWorker
<1>4. \A s \in Subtask : StageOf(s) = "running"
  BY <1>1, BothCounted DEF StageOf, Active, Ended, Results
<1>5. Promise!Init
  BY <1>1, <1>3, <1>4, BothCounted DEF Promise!Init
<1> QED
  BY <1>2, <1>5

LEMMA Steps ==
    ASSUME IInv, [Next]_vars
    PROVE  IInv' /\ [Promise!Next]_(Promise!vars)
<1>1. ASSUME UNCHANGED vars PROVE IInv' /\ Keeps
  BY <1>1, NoWorkerMoves DEF vars, workVars, loopVars
<1>2. ASSUME Next PROVE IInv' /\ Keeps
  BY <1>1, <1>2, LoopKeeps, WorkerKeeps DEF Next, Ends
<1>3. UNCHANGED <<Stage, Calls, Candidate>> => UNCHANGED Promise!vars
  BY DEF Promise!vars, Stage, Calls, Candidate
<1> QED
  BY <1>1, <1>2, <1>3 DEF Keeps

(***************************************************************************)
(* The attempt loop, the meter and the run loop implement WorkerPromise:   *)
(* between its dispatch and its result a worker calls the model at most    *)
(* MaxAttempts times, is "done" only with a diff of its last answer that   *)
(* stood for verification, and ends once (execute_with_prior_errors and    *)
(* the join of run_task).                                                  *)
(***************************************************************************)
THEOREM WorkersKeepPromise == Spec => PromiseKept
<1>1. Init => IInv /\ Promise!Init
  BY Starts
<1>2. IInv /\ [Next]_vars => IInv' /\ [Promise!Next]_(Promise!vars)
  BY Steps
<1> QED
  BY <1>1, <1>2, PTL DEF Spec, PromiseKept, Promise!Spec

-----------------------------------------------------------------------------
(***************************************************************************)
(* The token meter of a run is exact (MeterInv), for every number of       *)
(* subtasks, attempts, dispatches and channel places: whatever the order   *)
(* in which progress messages and results arrive, a subtask is charged     *)
(* what its dispatches spent, once, unless a message of its own was        *)
(* dropped or came after the result.                                       *)
(***************************************************************************)
(***************************************************************************)
(* The progress of subtask s that waits in a channel c: nothing beyond     *)
(* what its worker has spent in this dispatch, and the last of it exactly  *)
(* that.                                                                   *)
(***************************************************************************)
Progress(m, s) == m.kind = "progress" /\ m.id = s

Has(c, s) == \E i \in 1 .. Len(c) : Progress(c[i], s)

Reported(c, s, total) ==
    \A i \in 1 .. Len(c) : Progress(c[i], s) =>
        /\ c[i].tokens <= total
        /\ (\A j \in 1 .. Len(c) : j > i => ~Progress(c[j], s)) => c[i].tokens = total

(***************************************************************************)
(* What the loop knows of a subtask none of whose messages was dropped or  *)
(* late.  What is not yet charged is in the channel; a subtask whose       *)
(* worker is gone has nothing there; and while a worker runs, or may be    *)
(* spawned again, the committed tokens are those of the earlier dispatches.*)
(***************************************************************************)
Known(s) ==
    /\ Reported(channel, s, worker[s].total)
    /\ ~Has(channel, s) => used[s] = spent[s] + worker[s].total
    /\ used[s] <= spent[s] + worker[s].total
    /\ worker[s].stage = "idle" => ~Has(channel, s)
    /\ (worker[s].stage # "idle" \/ (phase = "verifying" /\ current = s))
           => committed[s] = spent[s]

MInv ==
    /\ TypeOK
    /\ IInv
    /\ spent \in [Subtask -> Nat]
    /\ \A s \in Subtask \ (dropped \cup late) : Known(s)

-----------------------------------------------------------------------------
(***************************************************************************)
(* What sending to and receiving from a channel does to the progress of a  *)
(* subtask in it.                                                          *)
(***************************************************************************)
Messages == [kind : {"context", "thinking", "progress"}, id : Subtask,
             tokens : 0 .. MaxAttempts]

LEMMA SilentReported ==
    ASSUME NEW c, NEW s, NEW n, ~Has(c, s)
    PROVE  Reported(c, s, n)
BY DEF Has, Reported

LEMMA Appended ==
    ASSUME NEW c \in Seq(Messages), NEW m \in Messages
    PROVE  /\ Append(c, m) \in Seq(Messages)
           /\ Len(Append(c, m)) = Len(c) + 1
           /\ Append(c, m)[Len(c) + 1] = m
           /\ \A i \in 1 .. Len(c) : Append(c, m)[i] = c[i]
           /\ Len(c) \in Nat
OBVIOUS

\* A message that is not progress of s changes nothing for s.
LEMMA AppendOther ==
    ASSUME NEW c \in Seq(Messages), NEW m \in Messages, NEW s, NEW n,
           ~Progress(m, s)
    PROVE  /\ Has(Append(c, m), s) <=> Has(c, s)
           /\ Reported(c, s, n) => Reported(Append(c, m), s, n)
<1> DEFINE d == Append(c, m)
<1>1. /\ Len(d) = Len(c) + 1 /\ d[Len(c) + 1] = m /\ Len(c) \in Nat
      /\ \A i \in 1 .. Len(c) : d[i] = c[i]
  BY Appended
<1> HIDE DEF d
<1>2. \A i \in 1 .. Len(d) : Progress(d[i], s) => i \in 1 .. Len(c) /\ d[i] = c[i]
  BY <1>1
<1>3. \A i \in 1 .. Len(c) : i \in 1 .. Len(d) /\ d[i] = c[i]
  BY <1>1
<1>4. Has(d, s) <=> Has(c, s)
  BY <1>2, <1>3 DEF Has
<1>5. ASSUME Reported(c, s, n) PROVE Reported(d, s, n)
  BY <1>2, <1>3, <1>5 DEF Reported
<1> QED
  BY <1>4, <1>5 DEF d

\* A report of one token more.
LEMMA AppendOwn ==
    ASSUME NEW c \in Seq(Messages), NEW m \in Messages, NEW s, NEW n \in Nat,
           Progress(m, s), m.tokens = n + 1, Reported(c, s, n)
    PROVE  Has(Append(c, m), s) /\ Reported(Append(c, m), s, n + 1)
<1> DEFINE d == Append(c, m)
<1>1. /\ Len(d) = Len(c) + 1 /\ d[Len(c) + 1] = m /\ Len(c) \in Nat
      /\ \A i \in 1 .. Len(c) : d[i] = c[i]
  BY Appended
<1> HIDE DEF d
<1>2. Len(d) \in 1 .. Len(d) /\ d[Len(d)] = m
  BY <1>1
<1>3. Has(d, s)
  BY <1>2 DEF Has
<1>4. ASSUME NEW i \in 1 .. Len(d), Progress(d[i], s)
      PROVE  /\ d[i].tokens <= n + 1
             /\ (\A j \in 1 .. Len(d) : j > i => ~Progress(d[j], s)) => d[i].tokens = n + 1
  <2>1. CASE i = Len(d)
    BY <1>2, <2>1
  <2>2. CASE i # Len(d)
    <3>1. i \in 1 .. Len(c) /\ d[i] = c[i] /\ Len(d) > i
      BY <1>1, <2>2
    <3>2. c[i].tokens <= n
      BY <1>4, <3>1 DEF Reported
    <3>3. c[i].tokens \in Nat
      <4>1. c[i] \in Messages
        BY <3>1
      <4>2. c[i].tokens \in 0 .. MaxAttempts
        BY <4>1 DEF Messages
      <4> QED
        BY <4>2, WorkerAssumption
    <3>4. Progress(d[Len(d)], s)
      BY <1>2
    <3>5. ~(\A j \in 1 .. Len(d) : j > i => ~Progress(d[j], s))
      BY <1>2, <3>1, <3>4
    <3> QED
      BY <3>1, <3>2, <3>3, <3>5
  <2> QED
    BY <2>1, <2>2
<1> QED
  BY <1>3, <1>4 DEF Reported, d

\* The oldest message is received.
LEMMA TailReported ==
    ASSUME NEW c \in Seq(Messages), c # <<>>, NEW s, NEW n, Reported(c, s, n)
    PROVE  /\ Tail(c) \in Seq(Messages) /\ Head(c) \in Messages
           /\ Len(Tail(c)) = Len(c) - 1
           /\ Reported(Tail(c), s, n)
           /\ Has(Tail(c), s) => Has(c, s)
           /\ Progress(Head(c), s) => Has(c, s) /\ Head(c).tokens <= n
           /\ Progress(Head(c), s) /\ ~Has(Tail(c), s) => Head(c).tokens = n
           /\ ~Progress(Head(c), s) => (Has(c, s) <=> Has(Tail(c), s))
<1> DEFINE d == Tail(c)
<1>1. /\ Len(c) \in Nat \ {0} /\ Len(d) = Len(c) - 1
      /\ \A i \in 1 .. Len(d) : d[i] = c[i + 1]
      /\ Head(c) = c[1] /\ d \in Seq(Messages) /\ Head(c) \in Messages
  OBVIOUS
<1> HIDE DEF d
<1>2. \A i \in 1 .. Len(d) : i + 1 \in 1 .. Len(c) /\ d[i] = c[i + 1]
  BY <1>1
<1>3. \A i \in 1 .. Len(c) : i > 1 => i - 1 \in 1 .. Len(d) /\ c[i] = d[i - 1]
  BY <1>1
<1>4. 1 \in 1 .. Len(c) /\ Head(c) = c[1]
  BY <1>1
<1>5. Has(d, s) => Has(c, s)
  BY <1>2 DEF Has
<1>6. Reported(d, s, n)
  <2> SUFFICES ASSUME NEW i \in 1 .. Len(d), Progress(d[i], s)
               PROVE  /\ d[i].tokens <= n
                      /\ (\A j \in 1 .. Len(d) : j > i => ~Progress(d[j], s))
                             => d[i].tokens = n
    BY DEF Reported
  <2>1. i + 1 \in 1 .. Len(c) /\ d[i] = c[i + 1]
    BY <1>2
  <2>2. d[i].tokens <= n
    BY <2>1 DEF Reported
  <2>3. ASSUME \A j \in 1 .. Len(d) : j > i => ~Progress(d[j], s)
        PROVE  d[i].tokens = n
    <3>1. \A j \in 1 .. Len(c) : j > i + 1 => ~Progress(c[j], s)
      BY <1>1, <1>3, <2>3
    <3> QED
      BY <2>1, <3>1 DEF Reported
  <2> QED
    BY <2>2, <2>3
<1>7. Progress(Head(c), s) => Has(c, s) /\ Head(c).tokens <= n
  BY <1>4 DEF Has, Reported
<1>8. ASSUME Progress(Head(c), s), ~Has(d, s) PROVE Head(c).tokens = n
  <2>1. \A j \in 1 .. Len(c) : j > 1 => ~Progress(c[j], s)
    BY <1>3, <1>8 DEF Has
  <2> QED
    BY <1>4, <1>8, <2>1 DEF Reported
<1>9. ASSUME ~Progress(Head(c), s) PROVE Has(c, s) <=> Has(d, s)
  <2>1. \A i \in 1 .. Len(c) : i = 1 \/ i > 1
    BY <1>1
  <2> QED
    BY <1>3, <1>4, <1>5, <1>9, <2>1 DEF Has
<1> QED
  BY <1>1, <1>5, <1>6, <1>7, <1>8, <1>9 DEF d

-----------------------------------------------------------------------------
(***************************************************************************)
(* Subtasks a step is not about.                                           *)
(***************************************************************************)
LEMMA KnownKept ==
    ASSUME NEW t \in Subtask, Known(t), channel \in Seq(Messages),
           \/ channel' = channel
           \/ \E m \in Messages : ~Progress(m, t) /\ channel' = Append(channel, m),
           worker'[t].total = worker[t].total,
           worker'[t].stage = "idle" => worker[t].stage = "idle",
           worker[t].stage = "idle" => worker'[t].stage = "idle",
           used'[t] = used[t], committed'[t] = committed[t], spent'[t] = spent[t],
           phase' = "verifying" /\ current' = t => phase = "verifying" /\ current = t
    PROVE  Known(t)'
<1>1. (Has(channel, t))' <=> Has(channel, t)
  <2>1. CASE channel' = channel
    BY <2>1 DEF Has
  <2>2. ASSUME NEW m \in Messages, ~Progress(m, t), channel' = Append(channel, m)
        PROVE  Has(channel', t) <=> Has(channel, t)
    BY <2>2, AppendOther
  <2> QED
    BY <2>1, <2>2 DEF Has
<1>2. Reported(channel', t, worker[t].total)
  <2>1. CASE channel' = channel
    BY <2>1 DEF Known
  <2>2. ASSUME NEW m \in Messages, ~Progress(m, t), channel' = Append(channel, m)
        PROVE  Reported(channel', t, worker[t].total)
    BY <2>2, AppendOther DEF Known
  <2> QED
    BY <2>1, <2>2
<1> QED
  BY <1>1, <1>2 DEF Known

LEMMA UnreadIsHas ==
    ASSUME channel \in Seq(Messages), NEW s
    PROVE  Unread(s) <=> Has(channel, s)
<1>1. DOMAIN channel = 1 .. Len(channel)
  OBVIOUS
<1> QED
  BY <1>1 DEF Unread, Has, Progress

\* What MInv says of the types.
LEMMA Typed ==
    ASSUME MInv
    PROVE  /\ channel \in Seq(Messages)
           /\ Len(channel) \in Nat /\ Len(channel) <= Capacity
           /\ worker \in [Subtask -> Worker]
           /\ used \in [Subtask -> Nat] /\ committed \in [Subtask -> Nat]
           /\ spent \in [Subtask -> Nat]
           /\ \A s \in Subtask : worker[s].total \in Nat /\ worker[s].total <= MaxAttempts
<1>1. worker \in [Subtask -> Worker]
  BY DEF MInv, IInv, WorkersCounted
<1>2. \A s \in Subtask : worker[s].total \in 0 .. MaxAttempts
  BY <1>1, Fields
<1>3. channel \in Seq(Messages) /\ Len(channel) <= Capacity
  BY DEF MInv, TypeOK, Messages
<1>4. Len(channel) \in Nat
  BY <1>3
<1> QED
  BY <1>1, <1>2, <1>3, <1>4, WorkerAssumption DEF MInv, TypeOK

-----------------------------------------------------------------------------
(***************************************************************************)
(* The steps of a worker: at most one message is sent, and only an answer  *)
(* of the model is reported.                                               *)
(***************************************************************************)
Frame == UNCHANGED <<loopVars, meterVars, guardVars, histVars>>

\* A step that neither answers nor changes who has a worker.
LEMMA QuietKnown ==
    ASSUME MInv, NEW s \in Subtask, NEW w, Frame, dropped' = dropped,
           worker' = [worker EXCEPT ![s] = w],
           worker[s].stage # "idle", w.stage # "idle", w.total = worker[s].total,
           \/ channel' = channel
           \/ \E m \in Messages : m.kind # "progress" /\ channel' = Append(channel, m)
    PROVE  \A t \in Subtask \ (dropped' \cup late') : Known(t)'
<1> SUFFICES ASSUME NEW t \in Subtask \ (dropped \cup late) PROVE Known(t)'
  BY DEF Frame, histVars
<1>1. Known(t) /\ channel \in Seq(Messages) /\ worker \in [Subtask -> Worker]
  BY Typed DEF MInv
<1>2. \/ channel' = channel
      \/ \E m \in Messages : ~Progress(m, t) /\ channel' = Append(channel, m)
  BY DEF Progress
<1>3. /\ worker'[t].total = worker[t].total
      /\ worker'[t].stage = "idle" => worker[t].stage = "idle"
      /\ worker[t].stage = "idle" => worker'[t].stage = "idle"
  BY <1>1
<1>4. /\ used' = used /\ committed' = committed /\ spent' = spent
      /\ phase' = phase /\ current' = current
  BY DEF Frame, meterVars, histVars, loopVars
<1> QED
  BY <1>1, <1>2, <1>3, <1>4, KnownKept

\* An answer, reported if there is room.
LEMMA AnswerKnown ==
    ASSUME MInv, NEW s \in Subtask, NEW w, Frame, Answer(s, w),
           w.stage # "idle", w.total = worker[s].total + 1, w.total <= MaxAttempts
    PROVE  /\ \A t \in Subtask \ (dropped' \cup late') : Known(t)'
           /\ channel' \in Seq(Messages) /\ Len(channel') <= Capacity
           /\ dropped' \subseteq Subtask
<1> DEFINE m == Message("progress", s, w.total)
<1>1. /\ channel \in Seq(Messages) /\ worker \in [Subtask -> Worker]
      /\ worker[s].total \in Nat /\ worker[s].stage = "calling"
      /\ worker' = [worker EXCEPT ![s] = w]
      /\ used \in [Subtask -> Nat] /\ spent \in [Subtask -> Nat]
  BY Typed DEF Answer
<1>2. m \in Messages /\ m.kind = "progress" /\ m.id = s /\ m.tokens = worker[s].total + 1
  <2>1. w.total \in 0 .. MaxAttempts
    BY <1>1, WorkerAssumption
  <2> QED
    BY <1>1, <2>1 DEF Message, Messages
<1>3. /\ HasRoom => channel' = Append(channel, m) /\ dropped' = dropped
      /\ ~HasRoom => channel' = channel /\ dropped' = dropped \cup {s}
  BY DEF Answer, TrySend
<1> HIDE DEF m
<1>4. channel' \in Seq(Messages) /\ Len(channel') <= Capacity
  <2>1. CASE HasRoom
    <3>1. Append(channel, m) \in Seq(Messages) /\ Len(Append(channel, m)) = Len(channel) + 1
      BY <1>1, <1>2, Appended
    <3>2. Len(channel) < Capacity /\ Len(channel) \in Nat
      BY <2>1, Typed DEF HasRoom
    <3>3. channel' = Append(channel, m)
      BY <1>3, <2>1
    <3> QED
      BY <3>1, <3>2, <3>3, WorkerAssumption
  <2>2. CASE ~HasRoom
    BY <1>1, <1>3, <2>2 DEF MInv, TypeOK
  <2> QED
    BY <2>1, <2>2
<1>5. dropped' \subseteq Subtask /\ dropped \subseteq dropped' /\ late' = late
  BY <1>3 DEF MInv, TypeOK, Frame, histVars
<1>6. /\ used' = used /\ committed' = committed /\ spent' = spent
      /\ phase' = phase /\ current' = current
  BY DEF Frame, meterVars, histVars, loopVars
<1>7. ASSUME NEW t \in Subtask \ (dropped' \cup late'), t # s PROVE Known(t)'
  <2>1. Known(t)
    BY <1>5, <1>7 DEF MInv
  <2>2. worker'[t] = worker[t]
    BY <1>1, <1>7
  <2>3. ~Progress(m, t)
    BY <1>2, <1>7 DEF Progress
  <2>4. channel' = channel \/ channel' = Append(channel, m)
    BY <1>3
  <2> QED
    BY <1>1, <1>2, <1>6, <2>1, <2>2, <2>3, <2>4, KnownKept
<1>8. ASSUME s \in Subtask \ (dropped' \cup late') PROVE Known(s)'
  <2>1. HasRoom /\ channel' = Append(channel, m) /\ Known(s)
    BY <1>3, <1>5, <1>8 DEF MInv
  <2>2. Progress(m, s)
    BY <1>2 DEF Progress
  <2>3. Has(channel', s) /\ Reported(channel', s, worker[s].total + 1)
    BY <1>1, <1>2, <2>1, <2>2, AppendOwn DEF Known
  <2>4. worker'[s] = w
    BY <1>1
  <2>5. used'[s] <= spent'[s] + (worker[s].total + 1)
    BY <1>1, <1>6, <2>1 DEF Known
  <2>6. committed'[s] = spent'[s]
    BY <1>1, <1>6, <2>1 DEF Known
  <2> QED
    BY <2>3, <2>4, <2>5, <2>6 DEF Known
<1> QED
  BY <1>4, <1>5, <1>7, <1>8

\* The message of a quiet step, if any.
LEMMA QuietChannel ==
    ASSUME MInv, NEW m \in Messages, TrySend(m)
    PROVE  /\ channel' = channel \/ channel' = Append(channel, m)
           /\ channel' \in Seq(Messages) /\ Len(channel') <= Capacity
<1>1. channel \in Seq(Messages) /\ Len(channel) <= Capacity /\ Len(channel) \in Nat
  BY Typed
<1>2. CASE HasRoom
  <2>1. channel' = Append(channel, m)
    BY <1>2 DEF TrySend
  <2>2. channel' \in Seq(Messages) /\ Len(channel') = Len(channel) + 1
    BY <1>1, <2>1, Appended
  <2>3. Len(channel) < Capacity
    BY <1>2 DEF HasRoom
  <2> QED
    BY <1>1, <2>1, <2>2, <2>3, WorkerAssumption
<1>3. CASE ~HasRoom
  BY <1>1, <1>3 DEF TrySend
<1> QED
  BY <1>2, <1>3

LEMMA OtherMessages ==
    ASSUME NEW s \in Subtask, NEW kind \in {"context", "thinking"}
    PROVE  Message(kind, s, 0) \in Messages /\ Message(kind, s, 0).kind = kind
BY WorkerAssumption DEF Message, Messages

\* What a step of a worker has to keep, once IInv is kept.
Moved ==
    /\ \A t \in Subtask \ (dropped' \cup late') : Known(t)'
    /\ channel' \in Seq(Messages) /\ Len(channel') <= Capacity
    /\ dropped' \subseteq Subtask

LEMMA ReportContextMoves ==
    ASSUME MInv, NEW s \in Subtask, ReportContext(s), Frame
    PROVE  Moved
<1> DEFINE w == worker[s]
           n == NextAttempt(worker[s])
           m == Message("context", s, 0)
<1>1. w \in Worker /\ Counted(w) /\ w.stage = "context"
  BY DEF MInv, IInv, WorkersCounted, ReportContext
<1>2. w.total <= w.attempt /\ (w.total > 0 \/ w.attempt = 0)
  BY <1>1, Fields DEF Counted
<1>3. n.total = w.total /\ n.stage \in {"prompt", "failed"}
  BY <1>1, <1>2, Attempts
<1>4. worker' = [worker EXCEPT ![s] = n] /\ dropped' = dropped /\ TrySend(m)
  BY DEF ReportContext, TrySend
<1>5. m \in Messages /\ m.kind # "progress"
  BY OtherMessages
<1> HIDE DEF n, m
<1>6. /\ channel' = channel \/ channel' = Append(channel, m)
      /\ channel' \in Seq(Messages) /\ Len(channel') <= Capacity
  BY <1>4, <1>5, QuietChannel
<1>7. \A t \in Subtask \ (dropped' \cup late') : Known(t)'
  BY <1>1, <1>3, <1>4, <1>5, <1>6, QuietKnown
<1> QED
  BY <1>4, <1>6, <1>7 DEF Moved, MInv, TypeOK

LEMMA CallModelMoves ==
    ASSUME MInv, NEW s \in Subtask, CallModel(s), Frame
    PROVE  Moved
<1> DEFINE w == worker[s]
           n == [worker[s] EXCEPT !.stage = "calling", !.attempt = @ + 1]
           m == Message("thinking", s, 0)
<1>1. w \in Worker /\ w.stage = "prompt"
  BY DEF MInv, IInv, WorkersCounted, CallModel
<1>2. n.total = w.total /\ n.stage = "calling"
  BY <1>1, Fields
<1>3. worker' = [worker EXCEPT ![s] = n] /\ dropped' = dropped /\ TrySend(m)
  BY DEF CallModel
<1>4. m \in Messages /\ m.kind # "progress"
  BY OtherMessages
<1> HIDE DEF n, m
<1>5. /\ channel' = channel \/ channel' = Append(channel, m)
      /\ channel' \in Seq(Messages) /\ Len(channel') <= Capacity
  BY <1>3, <1>4, QuietChannel
<1>6. \A t \in Subtask \ (dropped' \cup late') : Known(t)'
  BY <1>1, <1>2, <1>3, <1>4, <1>5, QuietKnown
<1> QED
  BY <1>3, <1>5, <1>6 DEF Moved, MInv, TypeOK

\* A step that sends nothing and leaves the count of answers alone.
LEMMA SilentMoves ==
    ASSUME MInv, NEW s \in Subtask, NEW w, worker' = [worker EXCEPT ![s] = w],
           worker[s].stage # "idle", w.stage # "idle", w.total = worker[s].total,
           UNCHANGED <<channel, dropped>>, Frame
    PROVE  Moved
<1>1. \A t \in Subtask \ (dropped' \cup late') : Known(t)'
  BY QuietKnown
<1> QED
  BY <1>1, Typed DEF Moved, MInv, TypeOK

LEMMA StopMoves ==
    ASSUME MInv, NEW s \in Subtask, Lost(s) \/ ModelFails(s) \/ VerdictArrives(s), Frame
    PROVE  Moved
<1>1. worker[s] \in Worker /\ Counted(worker[s]) /\ worker[s].stage # "idle"
  BY DEF MInv, IInv, WorkersCounted, Lost, ModelFails, VerdictArrives, Active
<1>2. UNCHANGED <<channel, dropped>>
  BY DEF Lost, ModelFails, VerdictArrives
<1>3. ASSUME NEW x \in Results, Goto(s, x) PROVE Moved
  <2> DEFINE n == [worker[s] EXCEPT !.stage = x]
  <2>1. worker' = [worker EXCEPT ![s] = n]
    BY <1>3 DEF Goto
  <2>2. n.stage = x /\ n.total = worker[s].total
    BY <1>1, Staged DEF Stages
  <2>3. x # "idle"
    BY DEF Results
  <2> HIDE DEF n
  <2> QED
    BY <1>1, <1>2, <2>1, <2>2, <2>3, SilentMoves
<1>4. ASSUME worker[s].stage = "verifying", worker' = [worker EXCEPT ![s] = NextAttempt(@)]
      PROVE  Moved
  <2> DEFINE n == NextAttempt(worker[s])
  <2>1. worker[s].total <= worker[s].attempt /\ worker[s].total > 0
    BY <1>1, <1>4 DEF Counted
  <2>2. n.total = worker[s].total /\ n.stage \in {"prompt", "failed"}
    BY <1>1, <2>1, Attempts
  <2>3. worker' = [worker EXCEPT ![s] = n]
    BY <1>4
  <2> HIDE DEF n
  <2> QED
    BY <1>1, <1>2, <2>2, <2>3, SilentMoves
<1> QED
  BY <1>3, <1>4 DEF Lost, ModelFails, VerdictArrives, Results

LEMMA AnswerMoves ==
    ASSUME MInv, NEW s \in Subtask, NoDiff(s) \/ FilesServed(s) \/ DiffFound(s), Frame
    PROVE  Moved
<1> DEFINE a == Answered(s)
<1>1. worker[s] \in Worker /\ Counted(worker[s]) /\ worker[s].stage = "calling"
  BY DEF MInv, IInv, WorkersCounted, NoDiff, FilesServed, DiffFound, Answer
<1>2. /\ a \in Worker /\ a.total = worker[s].total + 1
      /\ a.total > 0 /\ a.total <= a.attempt
  BY <1>1, AnsweredWorker
<1>3. a.total <= MaxAttempts
  BY <1>2, Fields
<1>4. ASSUME NEW n, Answer(s, n), n.total = a.total, n.stage # "idle" PROVE Moved
  BY <1>2, <1>3, <1>4, AnswerKnown DEF Moved
<1>5. CASE NoDiff(s)
  <2> DEFINE n == NextAttempt(Answered(s))
  <2>1. Answer(s, n)
    BY <1>5 DEF NoDiff
  <2>2. n.total = a.total /\ n.stage # "idle"
    <3> HIDE DEF a
    <3>1. /\ NextAttempt(a).total = a.total
          /\ NextAttempt(a).stage \in {"prompt", "failed"}
      BY <1>2, Attempts
    <3> QED
      BY <3>1 DEF a
  <2> HIDE DEF n, a
  <2> QED
    BY <1>4, <2>1, <2>2
<1>6. CASE FilesServed(s)
  <2> DEFINE n == [Answered(s) EXCEPT !.stage = "context", !.provided = TRUE]
  <2>1. Answer(s, n)
    BY <1>6 DEF FilesServed
  <2>2. n.total = a.total /\ n.stage # "idle"
    BY <1>2 DEF Worker
  <2> HIDE DEF n, a
  <2> QED
    BY <1>4, <2>1, <2>2
<1>7. CASE DiffFound(s)
  <2> DEFINE n == [Answered(s) EXCEPT !.stage = "verifying"]
  <2>1. Answer(s, n)
    BY <1>7 DEF DiffFound
  <2>2. n.total = a.total /\ n.stage # "idle"
    BY <1>2 DEF Worker
  <2> HIDE DEF n, a
  <2> QED
    BY <1>4, <2>1, <2>2
<1> QED
  BY <1>5, <1>6, <1>7

LEMMA WorkerMInv ==
    ASSUME MInv, NEW s \in Subtask, WorkerMoves(s) \/ WorkerLost(s)
    PROVE  MInv'
<1>1. Frame
  BY DEF WorkerMoves, WorkerLost, Frame
<1>2. Moved
  BY <1>1, ReportContextMoves, CallModelMoves, StopMoves, AnswerMoves
  DEF WorkerMoves, WorkerLost, WorkerStep
<1>3. IInv'
  BY WorkerKeeps DEF MInv
<1>4. UNCHANGED <<phase, current, status, committed, used, spent, late>>
  BY <1>1 DEF Frame, loopVars, meterVars, histVars
<1>5. TypeOK'
  BY <1>2, <1>3, <1>4 DEF MInv, TypeOK, IInv, WorkersCounted, Worker, Moved, Messages
<1> QED
  BY <1>2, <1>3, <1>4, <1>5 DEF MInv, Moved

-----------------------------------------------------------------------------
(***************************************************************************)
(* The steps of the loop.                                                  *)
(***************************************************************************)
LEMMA ReceiveMInv ==
    ASSUME MInv, Receive
    PROVE  MInv'
<1> DEFINE m == Head(channel)
<1>1. /\ channel \in Seq(Messages) /\ channel # <<>> /\ channel' = Tail(channel)
      /\ Len(channel) \in Nat /\ Len(channel) <= Capacity
      /\ used \in [Subtask -> Nat] /\ committed \in [Subtask -> Nat]
      /\ spent \in [Subtask -> Nat] /\ worker \in [Subtask -> Worker]
  BY Typed DEF Receive
<1>2. /\ used' = IF m.kind = "progress" THEN [used EXCEPT ![m.id] = NewTotal(m)] ELSE used
      /\ UNCHANGED <<worker, dropped, phase, current, status, committed, spent, late>>
  BY DEF Receive, loopVars, histVars
<1>3. Head(channel) \in Messages /\ Tail(channel) \in Seq(Messages)
      /\ Len(Tail(channel)) = Len(channel) - 1
  BY <1>1
<1>4. m.id \in Subtask /\ m.tokens \in Nat
  <2>1. m.tokens \in 0 .. MaxAttempts /\ m.id \in Subtask
    BY <1>3 DEF Messages
  <2> QED
    BY <2>1, WorkerAssumption
<1>5. used' \in [Subtask -> Nat]
  <2>1. NewTotal(m) \in Nat
    BY <1>1, <1>4 DEF NewTotal
  <2> QED
    BY <1>1, <1>2, <1>4, <2>1
<1>6. ASSUME NEW t \in Subtask \ (dropped \cup late) PROVE Known(t)'
  <2> DEFINE n == worker[t].total
  <2>1. /\ Known(t) /\ Reported(channel, t, n) /\ n \in Nat
        /\ spent[t] \in Nat /\ committed[t] \in Nat
    BY <1>1, <1>6, Typed DEF MInv, Known
  <2>2. /\ Reported(Tail(channel), t, n)
        /\ Has(Tail(channel), t) => Has(channel, t)
        /\ Progress(m, t) => Has(channel, t) /\ m.tokens <= n
        /\ Progress(m, t) /\ ~Has(Tail(channel), t) => m.tokens = n
        /\ ~Progress(m, t) => (Has(channel, t) <=> Has(Tail(channel), t))
    BY <1>1, <2>1, TailReported
  <2> HIDE DEF m, n
  <2>3. CASE Progress(m, t)
    <3>1. worker[t].stage # "idle" /\ committed[t] = spent[t]
      BY <2>1, <2>2, <2>3 DEF Known
    <3>2. used'[t] = spent[t] + m.tokens
      BY <1>1, <1>2, <2>3, <3>1 DEF Progress, NewTotal
    <3>3. used'[t] <= spent[t] + n
      BY <1>4, <2>1, <2>2, <2>3, <3>2
    <3>4. ~Has(Tail(channel), t) => used'[t] = spent[t] + n
      BY <2>2, <2>3, <3>2
    <3> QED
      BY <1>1, <1>2, <2>1, <2>2, <3>1, <3>3, <3>4 DEF Known, n
  <2>4. CASE ~Progress(m, t)
    <3>1. used'[t] = used[t]
      BY <1>1, <1>2, <2>4 DEF Progress
    <3> QED
      BY <1>1, <1>2, <2>1, <2>2, <2>4, <3>1 DEF Known, n
  <2> QED
    BY <2>3, <2>4
<1>7. IInv'
  BY LoopKeeps DEF LoopStep, MInv
<1>8. channel' \in Seq(Messages) /\ Len(channel') <= Capacity
  BY <1>1, <1>3, WorkerAssumption
<1>9. TypeOK'
  BY <1>2, <1>5, <1>7, <1>8 DEF MInv, TypeOK, IInv, WorkersCounted, Worker, Messages
<1> QED
  BY <1>1, <1>2, <1>6, <1>7, <1>9 DEF MInv

\* Steps that charge nothing, send nothing and replace no worker.
LEMMA IdleMInv ==
    ASSUME MInv, IInv', UNCHANGED <<workVars, meterVars, current, spent, late>>,
           phase' \in {"poll", "join", "account", "ended"}
           \/ (phase' = phase /\ phase = "verifying")
    PROVE  MInv'
<1>1. UNCHANGED <<worker, channel, dropped, status, committed, used, spent, late, current>>
  BY DEF workVars, meterVars
<1>2. ASSUME NEW t \in Subtask \ (dropped \cup late) PROVE Known(t)'
  <2>1. Known(t) /\ channel \in Seq(Messages)
    BY <1>2, Typed DEF MInv
  <2> QED
    BY <1>1, <2>1, KnownKept
<1>3. TypeOK'
  BY <1>1 DEF MInv, TypeOK
<1> QED
  BY <1>1, <1>2, <1>3 DEF MInv

LEMMA LoopVarsMInv ==
    ASSUME MInv, NothingReceived \/ NothingJoined \/ EndRun \/ Account \/ UNCHANGED vars
    PROVE  MInv'
<1>1. IInv'
  BY Steps, LoopKeeps DEF LoopStep, MInv
<1>2. UNCHANGED <<workVars, meterVars, current, spent, late>>
  BY DEF NothingReceived, NothingJoined, EndRun, Account, vars, histVars, loopVars
<1>3. phase' \in {"poll", "join", "account", "ended"} \/ (phase' = phase /\ phase = "verifying")
  BY DEF NothingReceived, NothingJoined, EndRun, Account, vars, loopVars, MInv, TypeOK
<1> QED
  BY <1>1, <1>2, <1>3, IdleMInv

-----------------------------------------------------------------------------
(***************************************************************************)
(* A join takes what the dispatch spent into the account of its subtask.   *)
(***************************************************************************)
\* Before the join: nothing of an account that counts is under way.
LEMMA TakeKnown ==
    ASSUME MInv, NEW s \in Subtask, Take(s), worker[s].stage # "idle",
           s \notin dropped \cup late'
    PROVE  /\ ~Has(channel, s)
           /\ committed[s] = spent[s]
           /\ used[s] = spent[s] + worker[s].total
           /\ spent'[s] = spent[s] + worker[s].total
<1>1. channel \in Seq(Messages) /\ spent \in [Subtask -> Nat]
  BY Typed
<1>2. s \notin late /\ ~Unread(s)
  BY DEF Take
<1>3. Known(s)
  BY <1>2 DEF MInv
<1>4. ~Has(channel, s)
  BY <1>1, <1>2, UnreadIsHas
<1>5. spent'[s] = spent[s] + worker[s].total
  BY <1>1 DEF Take
<1> QED
  BY <1>3, <1>4, <1>5 DEF Known

\* After it: the worker is gone, or a new one has spent nothing yet.
LEMMA JoinMInv ==
    ASSUME MInv, IInv', NEW s \in Subtask, NEW w, Take(s), worker[s].stage \in Results,
           worker' = [worker EXCEPT ![s] = w], w \in {IdleWorker, NewWorker},
           UNCHANGED <<channel, dropped>>,
           \A t \in Subtask \ {s} : used'[t] = used[t] /\ committed'[t] = committed[t],
           used' \in [Subtask -> Nat], committed' \in [Subtask -> Nat],
           status' \in [Subtask -> {"Dispatched", "Done", "Failed"}],
           s \notin dropped \cup late' => used'[s] = spent'[s],
           (w = NewWorker \/ phase' = "verifying") /\ s \notin dropped \cup late'
               => committed'[s] = spent'[s],
           \/ phase' \in {"poll", "account"} /\ current' = current
           \/ phase' = "verifying" /\ current' = s
    PROVE  MInv'
<1>1. /\ channel \in Seq(Messages) /\ worker \in [Subtask -> Worker]
      /\ spent \in [Subtask -> Nat] /\ worker[s].total \in Nat
  BY Typed
<1>2. /\ spent' = [spent EXCEPT ![s] = @ + worker[s].total]
      /\ late \subseteq late' /\ late' \subseteq late \cup {s}
  BY DEF Take
<1>3. spent' \in [Subtask -> Nat] /\ \A t \in Subtask \ {s} : spent'[t] = spent[t]
  BY <1>1, <1>2
<1>4. worker[s].stage # "idle"
  BY DEF Results
<1>5. w.total = 0 /\ (w.stage # "idle" => w = NewWorker)
  <2>1. IdleWorker.total = 0 /\ NewWorker.total = 0 /\ IdleWorker.stage = "idle"
    BY DEF IdleWorker, NewWorker
  <2> QED
    BY <2>1
<1>6. ASSUME s \in Subtask \ (dropped' \cup late') PROVE Known(s)'
  <2>1. ~Has(channel, s)
    BY <1>4, <1>6, TakeKnown
  <2>2. Reported(channel, s, 0)
    BY <2>1, SilentReported
  <2>3. worker'[s] = w /\ channel' = channel
    BY <1>1
  <2>4. used'[s] = spent'[s] /\ used'[s] \in Nat
    BY <1>6
  <2>5. used'[s] = spent'[s] + 0 /\ used'[s] <= spent'[s] + 0
    BY <2>4
  <2>6. (w.stage # "idle" \/ phase' = "verifying") => committed'[s] = spent'[s]
    BY <1>5, <1>6
  <2> QED
    BY <1>5, <2>1, <2>2, <2>3, <2>5, <2>6 DEF Known
<1>7. ASSUME NEW t \in Subtask \ (dropped' \cup late'), t # s PROVE Known(t)'
  <2>1. Known(t) /\ worker'[t] = worker[t] /\ spent'[t] = spent[t]
    BY <1>1, <1>2, <1>3, <1>7 DEF MInv
  <2>2. ~(phase' = "verifying" /\ current' = t)
    BY <1>7
  <2> QED
    BY <1>1, <1>7, <2>1, <2>2, KnownKept
<1>8. \A t \in Subtask \ (dropped' \cup late') : Known(t)'
  BY <1>6, <1>7
<1>9. TypeOK'
  <2>1. late' \subseteq Subtask
    BY <1>2 DEF MInv, TypeOK
  <2> QED
    BY <2>1 DEF MInv, TypeOK, IInv, WorkersCounted, Worker
<1> QED
  BY <1>3, <1>8, <1>9 DEF MInv

\* Committing what the result says, or what its progress said, is exact.
LEMMA CommitExact ==
    ASSUME NEW s \in Subtask, NEW total \in Nat, NEW n \in Nat, Commit(s, total),
           used \in [Subtask -> Nat], committed \in [Subtask -> Nat]
    PROVE  /\ used' \in [Subtask -> Nat] /\ committed' \in [Subtask -> Nat]
           /\ \A t \in Subtask \ {s} : used'[t] = used[t] /\ committed'[t] = committed[t]
           /\ used'[s] = committed'[s]
           /\ used[s] = committed[s] + n /\ total \in {0, n}
                  => committed'[s] = committed[s] + n
<1> DEFINE paid == Larger(total, Minus(used[s], committed[s]))
<1>1. paid \in Nat
  BY DEF Larger, Minus
<1>2. used[s] = committed[s] + n /\ total \in {0, n} => paid = n
  BY DEF Larger, Minus
<1>3. committed' = [committed EXCEPT ![s] = committed[s] + paid]
  BY DEF Commit
<1> HIDE DEF paid
<1>4. /\ committed'[s] = committed[s] + paid /\ committed'[s] \in Nat
      /\ committed' \in [Subtask -> Nat]
      /\ \A t \in Subtask \ {s} : committed'[t] = committed[t]
  BY <1>1, <1>3
<1>5. used' = [used EXCEPT ![s] = committed'[s]]
  BY DEF Commit
<1> QED
  BY <1>2, <1>4, <1>5

LEMMA JoinsMInv ==
    ASSUME MInv, NEW s \in Subtask,
           JoinLost(s) \/ JoinError(s) \/ JoinFailed(s) \/ JoinDone(s)
    PROVE  MInv'
<1>1. IInv'
  BY JoinKeeps DEF MInv
<1>2. /\ used \in [Subtask -> Nat] /\ committed \in [Subtask -> Nat]
      /\ status \in [Subtask -> {"Dispatched", "Done", "Failed"}]
      /\ worker[s].total \in Nat
  BY Typed DEF MInv, TypeOK
<1>3. /\ worker[s].stage \in Results /\ Take(s) /\ UNCHANGED <<channel, dropped>>
      /\ worker[s].stage # "idle"
  BY DEF JoinLost, JoinError, JoinFailed, JoinDone, Results
<1>4. s \notin dropped \cup late'
        => /\ committed[s] = spent[s]
           /\ used[s] = spent[s] + worker[s].total
           /\ spent'[s] = spent[s] + worker[s].total
  BY <1>3, TakeKnown
<1>5. CASE JoinLost(s) \/ JoinError(s)
  <2>1. /\ worker' = [worker EXCEPT ![s] = IdleWorker]
        /\ used' = used /\ committed' = committed
        /\ phase' \in {"poll", "account"} /\ current' = current
    BY <1>5 DEF JoinLost, JoinError, Release, meterVars
  <2>2. status' \in [Subtask -> {"Dispatched", "Done", "Failed"}]
    BY <1>2, <1>5 DEF JoinLost, JoinError, meterVars
  <2>3. s \notin dropped \cup late' => used'[s] = spent'[s]
    BY <1>4, <2>1
  <2>4. IdleWorker # NewWorker
    BY DEF IdleWorker, NewWorker
  <2> QED
    BY <1>1, <1>2, <1>3, <2>1, <2>2, <2>3, <2>4, JoinMInv
<1>6. CASE JoinFailed(s) \/ JoinDone(s)
  <2>1. PICK total \in {0, worker[s].total} : Commit(s, total)
    BY <1>6 DEF JoinFailed, JoinDone
  <2>2. /\ used' \in [Subtask -> Nat] /\ committed' \in [Subtask -> Nat]
        /\ \A t \in Subtask \ {s} : used'[t] = used[t] /\ committed'[t] = committed[t]
        /\ used'[s] = committed'[s]
        /\ used[s] = committed[s] + worker[s].total
               => committed'[s] = committed[s] + worker[s].total
    BY <1>2, <2>1, CommitExact
  <2>3. s \notin dropped \cup late' => used'[s] = spent'[s] /\ committed'[s] = spent'[s]
    BY <1>4, <2>2
  <2>4. PICK w \in {IdleWorker, NewWorker} : worker' = [worker EXCEPT ![s] = w]
    BY <1>6 DEF JoinFailed, JoinDone, Release, RedispatchOrFail
  <2>5. status' \in [Subtask -> {"Dispatched", "Done", "Failed"}]
    BY <1>2, <1>6 DEF JoinFailed, JoinDone, RedispatchOrFail
  <2>6. \/ phase' \in {"poll", "account"} /\ current' = current
        \/ phase' = "verifying" /\ current' = s
    BY <1>6 DEF JoinFailed, JoinDone
  <2> QED
    BY <1>1, <1>3, <2>2, <2>3, <2>4, <2>5, <2>6, JoinMInv
<1> QED
  BY <1>5, <1>6

\* A verdict: the subtask's worker is gone, and its account settled.
LEMMA VerifiedMInv ==
    ASSUME MInv, Verified
    PROVE  MInv'
<1>1. IInv'
  BY VerifiedKeeps DEF MInv
<1>2. /\ current \in Subtask /\ worker[current].stage = "idle" /\ phase = "verifying"
      /\ phase' = "account" /\ current' = NoSubtask
  BY DEF MInv, IInv, VerifiedIsIdle, Verified
<1>3. /\ channel \in Seq(Messages) /\ worker \in [Subtask -> Worker]
      /\ used \in [Subtask -> Nat] /\ spent \in [Subtask -> Nat]
      /\ status \in [Subtask -> {"Dispatched", "Done", "Failed"}]
      /\ UNCHANGED <<channel, dropped, committed, used, spent, late>>
  BY Typed DEF MInv, TypeOK, Verified
<1>4. PICK w \in {worker[current], IdleWorker, NewWorker} :
          worker' = [worker EXCEPT ![current] = w]
  <2>1. worker = [worker EXCEPT ![current] = worker[current]]
    BY <1>3
  <2> QED
    BY <2>1 DEF Verified, RedispatchOrFail, Release
<1>5. worker[current].total = 0
  BY <1>2 DEF MInv, IInv, WorkersCounted, Counted
<1>6. w.total = 0
  BY <1>4, <1>5 DEF IdleWorker, NewWorker
<1>7. ASSUME NEW t \in Subtask \ (dropped \cup late) PROVE Known(t)'
  <2>1. Known(t)
    BY <1>7 DEF MInv
  <2>2. CASE t = current
    <3>1. /\ ~Has(channel, t) /\ committed[t] = spent[t]
          /\ used[t] = spent[t] + 0
      BY <1>2, <1>5, <2>1, <2>2 DEF Known
    <3>2. Reported(channel, t, 0)
      BY <3>1, SilentReported
    <3>3. worker'[t] = w
      BY <1>3, <1>4, <2>2
    <3>4. used[t] <= spent[t] + 0
      BY <1>3, <3>1
    <3> QED
      BY <1>3, <1>6, <3>1, <3>2, <3>3, <3>4 DEF Known
  <2>3. CASE t # current
    <3>1. worker'[t] = worker[t]
      BY <1>3, <1>4, <2>3
    <3>2. phase' # "verifying"
      BY <1>2
    <3> QED
      BY <1>3, <2>1, <3>1, <3>2, KnownKept
  <2> QED
    BY <2>2, <2>3
<1>8. status' \in [Subtask -> {"Dispatched", "Done", "Failed"}]
  BY <1>3 DEF Verified, RedispatchOrFail
<1>9. TypeOK'
  BY <1>1, <1>2, <1>3, <1>8 DEF MInv, TypeOK, IInv, WorkersCounted, Worker
<1> QED
  BY <1>1, <1>3, <1>7, <1>9 DEF MInv

-----------------------------------------------------------------------------
LEMMA MeterStarts ==
    ASSUME Init
    PROVE  MInv
<1>1. IInv
  BY Starts
<1>2. /\ channel = <<>> /\ dropped = {} /\ late = {} /\ phase = "poll"
      /\ committed = [s \in Subtask |-> 0] /\ used = [s \in Subtask |-> 0]
      /\ spent = [s \in Subtask |-> 0] /\ current = NoSubtask
      /\ status = [s \in Subtask |-> "Dispatched"]
      /\ worker = [s \in Subtask |-> NewWorker]
  BY DEF Init, Zero
<1>3. \A s \in Subtask : ~Has(channel, s)
  BY <1>2 DEF Has
<1>4. NewWorker.total = 0 /\ NewWorker.stage = "context"
  BY DEF NewWorker, IdleWorker
<1>5. ASSUME NEW s \in Subtask PROVE Known(s)
  <2>1. Reported(channel, s, worker[s].total)
    BY <1>3, SilentReported
  <2> QED
    BY <1>2, <1>3, <1>4, <2>1 DEF Known
<1>6. channel \in Seq(Messages) /\ Len(channel) <= Capacity
  BY <1>2, WorkerAssumption
<1>7. TypeOK
  BY <1>1, <1>2, <1>6 DEF TypeOK, IInv, WorkersCounted, Worker, Messages
<1> QED
  BY <1>1, <1>2, <1>5, <1>7 DEF MInv

LEMMA MeterSteps ==
    ASSUME MInv, [Next]_vars
    PROVE  MInv'
<1>1. ASSUME LoopStep PROVE MInv'
  BY <1>1, ReceiveMInv, LoopVarsMInv, JoinsMInv, VerifiedMInv DEF LoopStep
<1> QED
  BY <1>1, WorkerMInv, LoopVarsMInv DEF Next, Ends

(***************************************************************************)
(* MInv is what the meter needs.                                           *)
(***************************************************************************)
LEMMA MeterFollows ==
    ASSUME MInv
    PROVE  MeterInv
<1>1. ASSUME NEW s \in Subtask \ (dropped \cup late)
      PROVE  /\ worker[s].stage = "idle" => used[s] = spent[s]
             /\ used[s] <= spent[s] + worker[s].total
  <2>1. Known(s)
    BY <1>1 DEF MInv
  <2>2. worker[s].stage = "idle" => worker[s].total = 0
    BY <1>1 DEF MInv, IInv, WorkersCounted, Counted
  <2>3. spent[s] \in Nat
    BY <1>1, Typed
  <2> QED
    BY <2>1, <2>2, <2>3 DEF Known
<1> QED
  BY <1>1 DEF MInv, MeterInv, MeterIsExact

(***************************************************************************)
(* A subtask is charged what its dispatches have spent, once, in every     *)
(* order of its messages and results, over retries, errors and aborts,     *)
(* unless one of its own messages was dropped or late (handle_completion   *)
(* and the receive arm of run_task).                                       *)
(***************************************************************************)
THEOREM MeterStaysExact == Spec => []MeterInv
<1>1. Init => MInv
  BY MeterStarts
<1>2. MInv /\ [Next]_vars => MInv'
  BY MeterSteps
<1>3. MInv => MeterInv
  BY MeterFollows
<1> QED
  BY <1>1, <1>2, <1>3, PTL DEF Spec

-----------------------------------------------------------------------------
(***************************************************************************)
(* The guard is charged exactly what the workers report (GuardInv), for    *)
(* every plan.  The lemmas come first: what Sum is, on every finite set of *)
(* subtasks.  No function computes the partial sums of an unknown set by   *)
(* definition alone: they exist up to each number of members, by the least *)
(* number they do not exist for, and two of them are compared on the       *)
(* smallest set they differ on.                                            *)
(***************************************************************************)
First(S) == CHOOSE s \in S : TRUE

\* p holds the partial sums of f, as Sum computes them.
Partial(p, f) ==
    p = [S \in SUBSET Subtask |-> IF S = {} THEN 0 ELSE f[First(S)] + p[S \ {First(S)}]]

Smaller(n) == {S \in SUBSET Subtask : Cardinality(S) <= n}

PartialTo(p, f, n) ==
    p = [S \in Smaller(n) |-> IF S = {} THEN 0 ELSE f[First(S)] + p[S \ {First(S)}]]

LEMMA FirstIn ==
    ASSUME NEW S, S # {}
    PROVE  First(S) \in S
BY DEF First

\* A set of subsets of Subtask that is not empty has a smallest member.
LEMMA SmallestSubset ==
    ASSUME NEW T, T \subseteq SUBSET Subtask, T # {}
    PROVE  \E S \in T : \A U \in T : U \subseteq S => U = S
<1> DEFINE R == StrictSubsetOrdering(Subtask)
<1>1. IsWellFoundedOn(R, SUBSET Subtask)
  BY MeterAssumption, FS_StrictSubsetOrderingWellFounded, FS_FiniteSubsetsOfFinite
<1>2. \A U, S \in SUBSET Subtask : <<U, S>> \in R <=> U \subseteq S /\ U # S
  BY DEF StrictSubsetOrdering
<1> HIDE DEF R
<1>3. PICK S \in T : \A U \in T : <<U, S>> \notin R
  BY <1>1, WFMin
<1> QED
  BY <1>2, <1>3

LEMMA LeastNatural ==
    ASSUME NEW T, T \subseteq Nat, T # {}
    PROVE  \E n \in T : \A m \in T : n <= m
<1> DEFINE R == OpToRel(<, Nat)
<1>1. IsWellFoundedOn(R, Nat)
  BY NatLessThanWellFounded
<1>2. \A n, m \in Nat : n < m => <<n, m>> \in R
  BY DEF OpToRel
<1> HIDE DEF R
<1>3. PICK n \in T : \A m \in T : <<m, n>> \notin R
  BY <1>1, WFMin
<1>4. \A m \in T : n <= m
  <2> TAKE m \in T
  <2>1. ~(m < n)
    BY <1>2, <1>3
  <2> QED
    BY <2>1
<1> QED
  BY <1>4

LEMMA Removing ==
    ASSUME NEW S \in SUBSET Subtask, S # {}
    PROVE  /\ IsFiniteSet(S) /\ Cardinality(S) \in Nat \ {0}
           /\ S \ {First(S)} \in SUBSET Subtask
           /\ Cardinality(S \ {First(S)}) = Cardinality(S) - 1
<1>1. First(S) \in S
  BY FirstIn
<1>2. IsFiniteSet(S)
  BY MeterAssumption, FS_Subset
<1> QED
  BY <1>1, <1>2, FS_RemoveElement, FS_EmptySet, FS_CardinalityType

LEMMA PartialToZero ==
    ASSUME NEW f
    PROVE  \E p : PartialTo(p, f, 0)
<1> DEFINE p == [S \in Smaller(0) |-> 0]
<1>1. \A S \in Smaller(0) : S = {}
  <2> TAKE S \in Smaller(0)
  <2>1. S \in SUBSET Subtask /\ Cardinality(S) <= 0
    BY DEF Smaller
  <2>2. ASSUME S # {} PROVE FALSE
    <3>1. Cardinality(S) \in Nat \ {0}
      BY <2>1, <2>2, Removing
    <3> QED
      BY <2>1, <3>1
  <2> QED
    BY <2>2
<1>2. PartialTo(p, f, 0)
  BY <1>1 DEF PartialTo
<1> QED
  BY <1>2

LEMMA PartialToNext ==
    ASSUME NEW f, NEW n \in Nat, NEW p, PartialTo(p, f, n)
    PROVE  \E q : PartialTo(q, f, n + 1)
<1> DEFINE q == [S \in Smaller(n + 1) |->
                    IF S = {} THEN 0 ELSE f[First(S)] + p[S \ {First(S)}]]
<1>1. \A S \in Smaller(n) : S \in Smaller(n + 1) /\ q[S] = p[S]
  <2> TAKE S \in Smaller(n)
  <2>1. S \in Smaller(n + 1)
    BY MeterAssumption, FS_Subset, FS_CardinalityType DEF Smaller
  <2>2. p[S] = IF S = {} THEN 0 ELSE f[First(S)] + p[S \ {First(S)}]
    BY DEF PartialTo
  <2> QED
    BY <2>1, <2>2
<1>2. \A S \in Smaller(n + 1) : S # {} => S \ {First(S)} \in Smaller(n)
  BY Removing DEF Smaller
<1>3. q = [S \in Smaller(n + 1) |->
              IF S = {} THEN 0 ELSE f[First(S)] + q[S \ {First(S)}]]
  BY <1>1, <1>2
<1> QED
  BY <1>3 DEF PartialTo

LEMMA PartialExists ==
    ASSUME NEW f
    PROVE  \E p : Partial(p, f)
<1> DEFINE Bad == {n \in Nat : ~ \E p : PartialTo(p, f, n)}
<1>1. Bad = {}
  <2> SUFFICES ASSUME Bad # {} PROVE FALSE
    OBVIOUS
  <2>1. PICK n \in Bad : \A m \in Bad : n <= m
    BY LeastNatural
  <2>2. n # 0
    BY PartialToZero
  <2>3. n - 1 \in Nat /\ (n - 1) + 1 = n /\ n - 1 \notin Bad
    BY <2>1, <2>2
  <2>4. PICK p : PartialTo(p, f, n - 1)
    BY <2>3
  <2>5. \E q : PartialTo(q, f, n)
    BY <2>3, <2>4, PartialToNext
  <2> QED
    BY <2>5
<1>2. Cardinality(Subtask) \in Nat
  BY MeterAssumption, FS_CardinalityType
<1>3. Smaller(Cardinality(Subtask)) = SUBSET Subtask
  BY MeterAssumption, FS_Subset DEF Smaller
<1>4. PICK p : PartialTo(p, f, Cardinality(Subtask))
  BY <1>1, <1>2
<1> QED
  BY <1>3, <1>4 DEF PartialTo, Partial

LEMMA SumIsPartial ==
    ASSUME NEW f
    PROVE  \E p : Partial(p, f) /\ Sum(f) = p[Subtask]
<1> DEFINE P(p) == p = [S \in SUBSET Subtask |->
                           IF S = {} THEN 0
                           ELSE LET s == CHOOSE s \in S : TRUE IN f[s] + p[S \ {s}]]
<1>1. \E p : P(p)
  <2>1. PICK p : Partial(p, f)
    BY PartialExists
  <2>2. P(p)
    BY <2>1 DEF Partial, First
  <2> QED
    BY <2>2
<1>2. P(CHOOSE p : P(p))
  BY <1>1
<1>3. Sum(f) = (CHOOSE p : P(p))[Subtask]
  BY DEF Sum
<1>4. Partial(CHOOSE p : P(p), f)
  BY <1>2 DEF Partial, First
<1> QED
  BY <1>3, <1>4

-----------------------------------------------------------------------------
\* Two sums over the same partial sets compare as they do from one set to
\* the next.
LEMMA PartialTyped ==
    ASSUME NEW f \in [Subtask -> Nat], NEW p, Partial(p, f)
    PROVE  \A S \in SUBSET Subtask : p[S] \in Nat
<1> DEFINE Bad == {S \in SUBSET Subtask : p[S] \notin Nat}
<1>0. Bad \subseteq SUBSET Subtask
  OBVIOUS
<1> SUFFICES ASSUME Bad # {} PROVE FALSE
  OBVIOUS
<1> HIDE DEF Bad
<1>1. PICK S \in Bad : \A U \in Bad : U \subseteq S => U = S
  BY <1>0, SmallestSubset
<1> USE DEF Bad
<1>2. p[S] = IF S = {} THEN 0 ELSE f[First(S)] + p[S \ {First(S)}]
  BY DEF Partial
<1>3. S # {}
  BY <1>2
<1>4. First(S) \in S /\ S \ {First(S)} \notin Bad /\ S \ {First(S)} \in SUBSET Subtask
  BY <1>1, <1>3, FirstIn
<1>5. p[S \ {First(S)}] \in Nat /\ f[First(S)] \in Nat
  BY <1>4
<1> QED
  BY <1>2, <1>3, <1>5

LEMMA PartialGrows ==
    ASSUME NEW f \in [Subtask -> Nat], NEW g \in [Subtask -> Nat],
           NEW p, Partial(p, f), NEW q, Partial(q, g),
           \A s \in Subtask : f[s] <= g[s]
    PROVE  \A S \in SUBSET Subtask : p[S] <= q[S]
<1> DEFINE Bad == {S \in SUBSET Subtask : ~(p[S] <= q[S])}
<1>0. Bad \subseteq SUBSET Subtask
  OBVIOUS
<1> SUFFICES ASSUME Bad # {} PROVE FALSE
  OBVIOUS
<1> HIDE DEF Bad
<1>1. PICK S \in Bad : \A U \in Bad : U \subseteq S => U = S
  BY <1>0, SmallestSubset
<1> USE DEF Bad
<1>2. /\ p[S] = IF S = {} THEN 0 ELSE f[First(S)] + p[S \ {First(S)}]
      /\ q[S] = IF S = {} THEN 0 ELSE g[First(S)] + q[S \ {First(S)}]
  BY DEF Partial
<1>3. S # {}
  BY <1>2
<1> DEFINE U == S \ {First(S)}
<1>4. First(S) \in Subtask /\ U \notin Bad /\ U \in SUBSET Subtask
  BY <1>1, <1>3, FirstIn
<1>5. /\ p[U] \in Nat /\ q[U] \in Nat /\ p[U] <= q[U]
      /\ f[First(S)] \in Nat /\ g[First(S)] \in Nat /\ f[First(S)] <= g[First(S)]
  BY <1>4, PartialTyped
<1>6. f[First(S)] + p[U] <= g[First(S)] + q[U]
  BY <1>5
<1> QED
  BY <1>1, <1>2, <1>3, <1>6

LEMMA PartialAdded ==
    ASSUME NEW f \in [Subtask -> Nat], NEW a \in Subtask, NEW n \in Nat,
           NEW g \in [Subtask -> Nat],
           g[a] = f[a] + n, \A s \in Subtask \ {a} : g[s] = f[s],
           NEW p, Partial(p, f), NEW q, Partial(q, g)
    PROVE  \A S \in SUBSET Subtask : q[S] = p[S] + (IF a \in S THEN n ELSE 0)
<1> DEFINE More(S) == IF a \in S THEN n ELSE 0
           Bad == {S \in SUBSET Subtask : q[S] # p[S] + More(S)}
<1>0. Bad \subseteq SUBSET Subtask
  OBVIOUS
<1> SUFFICES ASSUME Bad # {} PROVE FALSE
  OBVIOUS
<1> HIDE DEF Bad
<1>1. PICK S \in Bad : \A U \in Bad : U \subseteq S => U = S
  BY <1>0, SmallestSubset
<1> USE DEF Bad
<1>2. /\ p[S] = IF S = {} THEN 0 ELSE f[First(S)] + p[S \ {First(S)}]
      /\ q[S] = IF S = {} THEN 0 ELSE g[First(S)] + q[S \ {First(S)}]
  BY DEF Partial
<1>3. S # {}
  BY <1>1, <1>2
<1> DEFINE U == S \ {First(S)}
<1>4. First(S) \in S /\ First(S) \in Subtask /\ U \notin Bad /\ U \in SUBSET Subtask
  BY <1>1, <1>3, FirstIn
<1>5. /\ p[U] \in Nat /\ q[U] \in Nat /\ q[U] = p[U] + More(U)
      /\ f[First(S)] \in Nat /\ g[First(S)] \in Nat
  BY <1>4, PartialTyped
<1>6. q[S] = g[First(S)] + q[U] /\ p[S] = f[First(S)] + p[U]
  BY <1>2, <1>3
<1>7. CASE First(S) = a
  <2>1. a \in S /\ a \notin U
    BY <1>4, <1>7
  <2> QED
    BY <1>1, <1>5, <1>6, <1>7, <2>1
<1>8. CASE First(S) # a
  <2>1. a \in S <=> a \in U
    BY <1>4, <1>8
  <2>2. g[First(S)] = f[First(S)] /\ More(S) = More(U) /\ More(U) \in Nat
    BY <1>4, <1>8, <2>1
  <2> QED
    BY <1>1, <1>5, <1>6, <2>2
<1> QED
  BY <1>7, <1>8

-----------------------------------------------------------------------------
\* What the proofs need of Sum.
LEMMA SumTyped ==
    ASSUME NEW f \in [Subtask -> Nat]
    PROVE  Sum(f) \in Nat
BY SumIsPartial, PartialTyped

LEMMA SumGrows ==
    ASSUME NEW f \in [Subtask -> Nat], NEW g \in [Subtask -> Nat],
           \A s \in Subtask : f[s] <= g[s]
    PROVE  Sum(f) <= Sum(g)
<1>1. PICK p : Partial(p, f) /\ Sum(f) = p[Subtask]
  BY SumIsPartial
<1>2. PICK q : Partial(q, g) /\ Sum(g) = q[Subtask]
  BY SumIsPartial
<1>3. \A S \in SUBSET Subtask : p[S] <= q[S]
  BY <1>1, <1>2, PartialGrows
<1> QED
  BY <1>1, <1>2, <1>3

LEMMA SumAdded ==
    ASSUME NEW f \in [Subtask -> Nat], NEW a \in Subtask, NEW n \in Nat,
           NEW g \in [Subtask -> Nat],
           g[a] = f[a] + n, \A s \in Subtask \ {a} : g[s] = f[s]
    PROVE  Sum(g) = Sum(f) + n
<1>1. PICK p : Partial(p, f) /\ Sum(f) = p[Subtask]
  BY SumIsPartial
<1>2. PICK q : Partial(q, g) /\ Sum(g) = q[Subtask]
  BY SumIsPartial
<1>3. \A S \in SUBSET Subtask : q[S] = p[S] + (IF a \in S THEN n ELSE 0)
  BY <1>1, <1>2, PartialAdded
<1> QED
  BY <1>1, <1>2, <1>3

LEMMA SumZero == Sum(Zero) = 0
<1>1. PICK p : Partial(p, Zero) /\ Sum(Zero) = p[Subtask]
  BY SumIsPartial
<1> DEFINE Bad == {S \in SUBSET Subtask : p[S] # 0}
<1>2. ASSUME Bad # {} PROVE FALSE
  <2>0. Bad \subseteq SUBSET Subtask
    OBVIOUS
  <2> HIDE DEF Bad
  <2>1. PICK S \in Bad : \A U \in Bad : U \subseteq S => U = S
    BY <1>2, <2>0, SmallestSubset
  <2> USE DEF Bad
  <2>2. p[S] = IF S = {} THEN 0 ELSE Zero[First(S)] + p[S \ {First(S)}]
    BY <1>1 DEF Partial
  <2>3. S # {}
    BY <2>1, <2>2
  <2>4. First(S) \in Subtask /\ p[S \ {First(S)}] = 0
    BY <2>1, <2>3, FirstIn
  <2> QED
    BY <2>1, <2>2, <2>3, <2>4 DEF Zero
<1> QED
  BY <1>1, <1>2

-----------------------------------------------------------------------------
(***************************************************************************)
(* What the guard has been charged against what is committed.  Between a   *)
(* join and its account, the usage of the joined dispatch is still to be   *)
(* charged; an estimate charges all that is used, never less than what is  *)
(* committed.                                                              *)
(***************************************************************************)
Unmarred == ~paused /\ ~failed /\ dropped \cup late = {}

Charged ==
    /\ Sum(committed) <= guard + telemetry.tokens
    /\ ~estimated => Sum(committed) = guard + telemetry.tokens
    /\ guard = 0 \/ guard < Ceiling

Counts ==
    /\ guard \in Nat
    /\ telemetry \in [known : BOOLEAN, tokens : Nat]
    /\ telemetry.known \/ telemetry.tokens = 0
    /\ phase \notin {"verifying", "account"} => telemetry.tokens = 0
    /\ \A s \in Subtask : committed[s] <= used[s]

GInv ==
    /\ MInv
    /\ Counts
    /\ Unmarred => Charged

\* Steps that charge and commit nothing.
LEMMA GuardKept ==
    ASSUME GInv, MInv', UNCHANGED <<committed, telemetry, guardVars>>,
           dropped \subseteq dropped', late \subseteq late',
           phase' \notin {"verifying", "account"}
               => phase \notin {"verifying", "account"},
           \A s \in Subtask : committed[s] <= used'[s]
    PROVE  GInv'
<1>1. UNCHANGED <<committed, telemetry, guard, paused, failed, estimated>>
  BY DEF guardVars
<1>2. Unmarred' => Unmarred
  BY <1>1 DEF Unmarred
<1>3. Counts'
  BY <1>1 DEF GInv, Counts
<1>4. Charged' <=> Charged
  BY <1>1 DEF Charged
<1> QED
  BY <1>2, <1>3, <1>4 DEF GInv

LEMMA WorkerGuard ==
    ASSUME GInv, NEW s \in Subtask, WorkerMoves(s) \/ WorkerLost(s)
    PROVE  GInv'
<1>1. MInv'
  BY WorkerMInv DEF GInv
<1>2. UNCHANGED <<phase, telemetry, committed, used, guardVars, late>>
  BY DEF WorkerMoves, WorkerLost, loopVars, meterVars, histVars
<1>3. dropped \subseteq dropped'
  BY DEF WorkerMoves, WorkerLost, WorkerStep, ReportContext, CallModel, ModelFails,
         NoDiff, FilesServed, DiffFound, Answer, VerdictArrives, Lost
<1> QED
  BY <1>1, <1>2, <1>3, GuardKept DEF GInv, Counts

LEMMA ReceiveGuard ==
    ASSUME GInv, Receive
    PROVE  GInv'
<1> DEFINE m == Head(channel)
<1>1. MInv'
  BY ReceiveMInv DEF GInv
<1>2. /\ UNCHANGED <<phase, telemetry, committed, guardVars, late, dropped>>
      /\ used' = IF m.kind = "progress" THEN [used EXCEPT ![m.id] = NewTotal(m)] ELSE used
  BY DEF Receive, loopVars, histVars
<1>3. channel \in Seq(Messages) /\ channel # <<>>
      /\ used \in [Subtask -> Nat] /\ committed \in [Subtask -> Nat]
  BY Typed DEF GInv, Receive
<1>4. m \in Messages
  BY <1>3
<1>5. m.id \in Subtask /\ m.tokens \in 0 .. MaxAttempts
  BY <1>4 DEF Messages
<1>6. \A s \in Subtask : committed[s] <= used'[s]
  <2> TAKE s \in Subtask
  <2>1. committed[s] <= used[s] /\ committed[s] \in Nat /\ m.tokens \in Nat
    BY <1>3, <1>5, WorkerAssumption DEF GInv, Counts
  <2>2. used'[s] = used[s] \/ used'[s] = committed[s] + m.tokens
    BY <1>2, <1>3, <1>5 DEF NewTotal
  <2> QED
    BY <2>1, <2>2
<1> QED
  BY <1>1, <1>2, <1>6, GuardKept

LEMMA StillGuard ==
    ASSUME GInv, NothingReceived \/ NothingJoined \/ EndRun \/ UNCHANGED vars
    PROVE  GInv'
<1>1. MInv'
  BY LoopVarsMInv DEF GInv
<1>2. /\ UNCHANGED <<telemetry, committed, used, guardVars, late, dropped>>
      /\ phase' = phase \/ phase \in {"poll", "join"}
  BY DEF NothingReceived, NothingJoined, EndRun, vars, workVars, meterVars, histVars,
         loopVars
<1> QED
  BY <1>1, <1>2, GuardKept DEF GInv, Counts

LEMMA VerifiedGuard ==
    ASSUME GInv, Verified
    PROVE  GInv'
<1>1. MInv'
  BY VerifiedMInv DEF GInv
<1>2. /\ UNCHANGED <<telemetry, committed, used, guardVars, late, dropped>>
      /\ phase' = "account"
  BY DEF Verified
<1> QED
  BY <1>1, <1>2, GuardKept DEF GInv, Counts

LEMMA UncommittedGuard ==
    ASSUME GInv, NEW s \in Subtask, JoinLost(s) \/ JoinError(s)
    PROVE  GInv'
<1>1. MInv'
  BY JoinsMInv DEF GInv
<1>2. /\ UNCHANGED <<committed, used, guardVars, dropped>> /\ late \subseteq late'
      /\ phase = "join" /\ phase' \in {"poll", "account"}
      /\ telemetry' \in {telemetry, NoCharge}
  BY DEF JoinLost, JoinError, Take, meterVars
<1>3. /\ telemetry.tokens = 0 /\ telemetry'.tokens = 0
      /\ telemetry' \in [known : BOOLEAN, tokens : Nat]
  <2>1. telemetry.tokens = 0 /\ telemetry \in [known : BOOLEAN, tokens : Nat]
    BY <1>2 DEF GInv, Counts
  <2>2. NoCharge.tokens = 0 /\ NoCharge \in [known : BOOLEAN, tokens : Nat]
    BY DEF NoCharge
  <2> QED
    BY <1>2, <2>1, <2>2
<1>4. Counts'
  BY <1>2, <1>3 DEF GInv, Counts, guardVars
<1>5. Unmarred' => Unmarred
  BY <1>2 DEF Unmarred, guardVars
<1>6. Charged' <=> Charged
  BY <1>2, <1>3 DEF Charged, guardVars
<1> QED
  BY <1>1, <1>4, <1>5, <1>6 DEF GInv

\* A commit adds the usage the result carries, which is then to be charged.
LEMMA CommittedGuard ==
    ASSUME GInv, NEW s \in Subtask, JoinFailed(s) \/ JoinDone(s)
    PROVE  GInv'
<1> DEFINE n == worker[s].total
<1>1. MInv'
  BY JoinsMInv DEF GInv
<1>2. /\ MInv /\ used \in [Subtask -> Nat] /\ committed \in [Subtask -> Nat]
      /\ spent \in [Subtask -> Nat] /\ n \in Nat
  BY Typed DEF GInv
<1>3. PICK total \in {0, n} : Commit(s, total)
  BY DEF JoinFailed, JoinDone
<1>4. /\ used' \in [Subtask -> Nat] /\ committed' \in [Subtask -> Nat]
      /\ \A t \in Subtask \ {s} : used'[t] = used[t] /\ committed'[t] = committed[t]
      /\ used'[s] = committed'[s]
      /\ used[s] = committed[s] + n => committed'[s] = committed[s] + n
  BY <1>2, <1>3, CommitExact
<1>5. /\ UNCHANGED <<guard, paused, failed, estimated, dropped>> /\ Take(s)
      /\ phase = "join" /\ phase' \in {"verifying", "account"}
      /\ telemetry' = [known |-> TRUE, tokens |-> n]
      /\ worker[s].stage # "idle"
  BY DEF JoinFailed, JoinDone, guardVars, Take
<1>6. Counts'
  BY <1>2, <1>4, <1>5 DEF GInv, Counts
<1>7. ASSUME Unmarred' PROVE Charged'
  <2>1. Unmarred /\ s \notin dropped \cup late'
    BY <1>5, <1>7 DEF Unmarred, Take
  <2>2. committed'[s] = committed[s] + n
    BY <1>2, <1>4, <1>5, <2>1, TakeKnown
  <2>3. Sum(committed') = Sum(committed) + n
    BY <1>2, <1>4, <2>2, SumAdded
  <2>4. /\ Sum(committed) <= guard
        /\ ~estimated => Sum(committed) = guard
        /\ guard = 0 \/ guard < Ceiling
        /\ guard \in Nat
    BY <1>5, <2>1 DEF GInv, Charged, Counts
  <2>5. Sum(committed) \in Nat
    BY <1>2, SumTyped
  <2> HIDE DEF n
  <2>6. telemetry'.tokens = n
    BY <1>5
  <2>7. (Sum(committed))' = Sum(committed')
    OBVIOUS
  <2> QED
    BY <1>2, <1>5, <2>3, <2>4, <2>5, <2>6 DEF Charged
<1> QED
  BY <1>1, <1>6, <1>7 DEF GInv

LEMMA AccountGuard ==
    ASSUME GInv, Account
    PROVE  GInv'
<1> DEFINE total  == Sum(used)
           delta  == Minus(total, guard)
           charge == IF failed \/ paused \/ delta = 0 THEN 0 ELSE ChargeOf(delta)
<1>1. MInv'
  BY LoopVarsMInv DEF GInv
<1>2. /\ used \in [Subtask -> Nat] /\ committed \in [Subtask -> Nat]
      /\ guard \in Nat /\ telemetry.tokens \in Nat /\ Ceiling \in Nat
      /\ \A s \in Subtask : committed[s] <= used[s]
  BY Typed, MeterAssumption DEF GInv, Counts
<1>3. total \in Nat /\ Sum(committed) \in Nat /\ Sum(committed) <= total
  BY <1>2, SumTyped, SumGrows
<1>4. /\ guard' = guard + charge
      /\ estimated' = (estimated \/ (charge > 0 /\ ~(telemetry.known /\ telemetry.tokens > 0)))
      /\ paused' = (paused \/ Trips(charge))
      /\ failed' = (failed \/ \E s \in Subtask : status[s] = "Failed")
      /\ phase' = "poll" /\ telemetry' = NoCharge
      /\ UNCHANGED <<committed, used, dropped, late>>
  BY DEF Account, workVars, meterVars, histVars
<1> HIDE DEF total
<1>5. charge \in Nat
  BY <1>2, <1>3 DEF ChargeOf, Minus
<1>6. Counts'
  BY <1>2, <1>4, <1>5 DEF GInv, Counts, NoCharge
<1>7. ASSUME Unmarred' PROVE Charged'
  <2>1. Unmarred /\ Charged /\ ~Trips(charge)
    BY <1>4, <1>7 DEF Unmarred, GInv
  <2>2. guard + charge < Ceiling
    <3>1. ~(guard + charge >= Ceiling)
      BY <2>1 DEF Trips, Unmarred
    <3> QED
      BY <1>2, <1>5, <3>1
  <2>3. charge = IF delta = 0 THEN 0 ELSE ChargeOf(delta)
    BY <2>1 DEF Unmarred
  <2>4. /\ Sum(committed) <= guard + charge
        /\ ~estimated' => Sum(committed) = guard + charge
    <3>1. /\ Sum(committed) <= guard + telemetry.tokens
          /\ ~estimated => Sum(committed) = guard + telemetry.tokens
      BY <2>1 DEF Charged
    <3>2. CASE delta = 0
      <4>1. total <= guard /\ charge = 0
        BY <1>2, <1>3, <2>3, <3>2 DEF Minus
      <4>2. Sum(committed) <= guard + charge
        BY <1>2, <1>3, <4>1
      <4>3. ASSUME ~estimated' PROVE Sum(committed) = guard + charge
        <5>1. ~estimated
          BY <1>4, <4>3
        <5>2. Sum(committed) = guard + telemetry.tokens
          BY <3>1, <5>1
        <5> HIDE DEF charge
        <5> QED
          BY <1>2, <1>3, <4>1, <5>2
      <4> QED
        BY <4>2, <4>3
    <3>3. CASE delta # 0 /\ telemetry.known /\ telemetry.tokens > 0
      <4>1. charge = telemetry.tokens
        BY <2>3, <3>3 DEF ChargeOf
      <4> QED
        BY <1>4, <3>1, <4>1
    <3>4. CASE delta # 0 /\ ~(telemetry.known /\ telemetry.tokens > 0)
      <4>1. charge = delta
        BY <2>3, <3>4 DEF ChargeOf
      <4>2. delta = total - guard /\ delta > 0
        BY <1>2, <1>3, <3>4 DEF Minus
      <4>3. estimated'
        BY <1>4, <3>4, <4>1, <4>2
      <4> QED
        BY <1>2, <1>3, <4>1, <4>2, <4>3
    <3> QED
      BY <3>2, <3>3, <3>4
  <2>5. guard' = guard + charge /\ telemetry'.tokens = 0 /\ committed' = committed
    BY <1>4 DEF NoCharge
  <2> HIDE DEF charge
  <2> QED
    BY <1>2, <1>5, <2>2, <2>4, <2>5 DEF Charged
<1> QED
  BY <1>1, <1>6, <1>7 DEF GInv

LEMMA GuardStarts ==
    ASSUME Init
    PROVE  GInv
<1>1. MInv
  BY MeterStarts
<1>2. /\ guard = 0 /\ telemetry = NoCharge /\ phase = "poll"
      /\ committed = Zero /\ used = Zero
  BY DEF Init
<1>3. Sum(committed) = 0
  BY <1>2, SumZero
<1>4. Counts
  BY <1>2 DEF Counts, NoCharge, Zero
<1>5. Charged
  BY <1>2, <1>3 DEF Charged, NoCharge
<1> QED
  BY <1>1, <1>4, <1>5 DEF GInv

LEMMA GuardSteps ==
    ASSUME GInv, [Next]_vars
    PROVE  GInv'
<1>1. ASSUME LoopStep PROVE GInv'
  BY <1>1, ReceiveGuard, StillGuard, UncommittedGuard, CommittedGuard, VerifiedGuard,
     AccountGuard DEF LoopStep
<1> QED
  BY <1>1, WorkerGuard, StillGuard DEF Next, Ends

LEMMA GuardFollows ==
    ASSUME GInv
    PROVE  GuardInv
<1>1. /\ guard \in Nat /\ Ceiling \in Nat
      /\ phase \notin {"verifying", "account"} => telemetry.tokens = 0
      /\ Unmarred => Charged
  BY MeterAssumption DEF GInv, Counts
<1>2. Sum(committed) \in Nat
  BY Typed, SumTyped DEF GInv
<1>3. GuardIsExact
  BY <1>1 DEF GuardIsExact, Charged, Unmarred
<1>4. CeilingIsNoticed
  <2> SUFFICES ASSUME phase = "ended", Unmarred
               PROVE  Sum(committed) < Ceiling \/ Sum(committed) = 0
    BY DEF CeilingIsNoticed, Unmarred
  <2>1. Sum(committed) <= guard /\ (guard = 0 \/ guard < Ceiling)
    BY <1>1 DEF Charged
  <2> QED
    BY <1>1, <1>2, <2>1
<1> QED
  BY <1>3, <1>4 DEF GuardInv

(***************************************************************************)
(* Whatever the order of completions, verdicts and concurrent progress,    *)
(* the guard is charged what the finished dispatches spent, once each,     *)
(* while every charge was priced from a result's own usage; and a run that *)
(* neither failed nor was paused has not reached its ceiling, estimates    *)
(* included (the sum and the guard at the end of a turn of run_task).      *)
(***************************************************************************)
THEOREM GuardStaysExact == Spec => []GuardInv
<1>1. Init => GInv
  BY GuardStarts
<1>2. GInv /\ [Next]_vars => GInv'
  BY GuardSteps
<1>3. GInv => GuardInv
  BY GuardFollows
<1> QED
  BY <1>1, <1>2, <1>3, PTL DEF Spec

=============================================================================
