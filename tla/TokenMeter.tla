----------------------------- MODULE TokenMeter -----------------------------
(***************************************************************************)
(* How run_task (src/phonton-orchestrator/src/lib.rs) counts the tokens    *)
(* its workers spend, and how the budget guard charges them.               *)
(*                                                                         *)
(* Workers (WorkerLoop) report a running total over a bounded channel and  *)
(* a final total in their result, which travels through the JoinSet.  The  *)
(* loop selects over both, the channel first ("poll", then "join"), adds   *)
(* what a finished dispatch spent to the subtask's committed tokens,       *)
(* verifies a diff (receiving nothing meanwhile), and then sums, charges   *)
(* the guard and looks for failures ("account").                           *)
(*                                                                         *)
(* The DAG and the ladder of tiers are Orchestrator's; here every subtask  *)
(* starts at once, and whether one is dispatched again is a choice, while  *)
(* fewer than MaxDispatches workers were spawned.  abort_all adds nothing: *)
(* a worker may be lost at any time.  Every model costs the same.          *)
(***************************************************************************)
EXTENDS WorkerLoop

CONSTANTS
    NoSubtask,      \* no result is being handled
    MaxDispatches,  \* bound on the workers spawned in the run
    Ceiling         \* max_tokens of the budget

ASSUME MeterAssumption ==
    /\ NoSubtask \notin Subtask
    /\ IsFiniteSet(Subtask)         \* the subtasks of a plan are a Vec
    /\ MaxDispatches \in Nat \ {0}
    /\ Ceiling \in Nat

NoCharge == [known |-> FALSE, tokens |-> 0]

VARIABLES
    phase,      \* "poll", "join", "verifying", "account", "ended"
    current,    \* the subtask whose diff is being verified
    telemetry,  \* cost_telemetry: the usage its result carries, if any
    status,     \* rt.status: "Dispatched", "Done", "Failed"
    committed,  \* rt.committed_tokens
    used,       \* rt.tokens_used
    guard,      \* BudgetGuard::tokens_used
    paused,     \* the guard paused the run
    failed,     \* the task has failed
    dispatches, \* history: workers spawned so far
    spent,      \* history: tokens the joined dispatches of a subtask spent
    late,       \* history: subtasks joined before their last message arrived
    estimated   \* history: the guard was charged an estimate

loopVars  == <<phase, current, telemetry>>
meterVars == <<status, committed, used>>
guardVars == <<guard, paused, failed, estimated>>
histVars  == <<dispatches, spent, late>>
workVars  == <<worker, channel, dropped>>
vars == <<workVars, loopVars, meterVars, guardVars, histVars>>

Sum(f) == LET sum[S \in SUBSET Subtask] ==
                IF S = {} THEN 0
                ELSE LET s == CHOOSE s \in S : TRUE IN f[s] + sum[S \ {s}]
          IN  sum[Subtask]

Larger(a, b) == IF a > b THEN a ELSE b

Minus(a, b) == IF a > b THEN a - b ELSE 0       \* saturating_sub

Zero == [s \in Subtask |-> 0]

Init ==
    /\ worker = [s \in Subtask |-> NewWorker]
    /\ channel = <<>>
    /\ dropped = {}
    /\ phase = "poll" /\ telemetry = NoCharge
    /\ current = NoSubtask
    /\ status = [s \in Subtask |-> "Dispatched"]
    /\ committed = Zero /\ used = Zero
    /\ guard = 0 /\ paused = FALSE /\ failed = FALSE /\ estimated = FALSE
    /\ dispatches = Cardinality(Subtask)
    /\ spent = Zero /\ late = {}

-----------------------------------------------------------------------------
(***************************************************************************)
(* The workers move whenever the run is alive.                             *)
(***************************************************************************)
WorkerMoves(s) ==
    /\ phase # "ended"
    /\ WorkerStep(s)
    /\ UNCHANGED <<loopVars, meterVars, guardVars, histVars>>

WorkerLost(s) ==
    /\ phase # "ended"
    /\ Lost(s)
    /\ UNCHANGED <<loopVars, meterVars, guardVars, histVars>>

-----------------------------------------------------------------------------
(***************************************************************************)
(* tokio::select! with "biased": the channel is polled first.  Only when   *)
(* it is empty is the join set polled, and a message sent in between       *)
(* waits for the next turn.                                                *)
(***************************************************************************)
NewTotal(m) == committed[m.id] + m.tokens

Receive ==
    /\ phase = "poll"
    /\ channel # <<>>
    /\ LET m == Head(channel) IN
         used' = IF m.kind = "progress" THEN [used EXCEPT ![m.id] = NewTotal(m)] ELSE used
    /\ channel' = Tail(channel)
    /\ UNCHANGED <<worker, dropped, loopVars, status, committed, guardVars, histVars>>

NothingReceived ==
    /\ phase = "poll"
    /\ channel = <<>>
    /\ \E s \in Subtask : worker[s].stage # "idle"
    /\ phase' = "join"
    /\ UNCHANGED <<workVars, current, telemetry, meterVars, guardVars, histVars>>

\* Nothing has ended either: the future sleeps until something wakes it.
NothingJoined ==
    /\ phase = "join"
    /\ \A s \in Subtask : ~Ended(s)
    /\ phase' = "poll"
    /\ UNCHANGED <<workVars, current, telemetry, meterVars, guardVars, histVars>>

-----------------------------------------------------------------------------
(***************************************************************************)
(* A result is joined.                                                     *)
(***************************************************************************)
Unread(s) == \E i \in DOMAIN channel : channel[i].id = s /\ channel[i].kind = "progress"

Take(s) ==
    /\ phase = "join"
    /\ spent' = [spent EXCEPT ![s] = @ + worker[s].total]
    /\ late' = IF Unread(s) THEN late \cup {s} ELSE late

Release(s) == worker' = [worker EXCEPT ![s] = IdleWorker]

CanRedispatch == dispatches < MaxDispatches

\* The ladder goes on, or ends with the subtask failed.
RedispatchOrFail(s) ==
    \/ /\ CanRedispatch
       /\ worker' = [worker EXCEPT ![s] = NewWorker]
       /\ dispatches' = dispatches + 1
       /\ UNCHANGED status
    \/ /\ Release(s)
       /\ status' = [status EXCEPT ![s] = "Failed"]
       /\ UNCHANGED dispatches

\* handle_completion: a failed attempt reports no total, its progress counts.
\* Faulty: only the total of the result counts.
CommitTotalOnly(s, total) ==
    /\ committed' = [committed EXCEPT ![s] = @ + total]
    /\ used' = [used EXCEPT ![s] = committed'[s]]

Commit(s, total) ==
    /\ committed' = [committed EXCEPT ![s] = @ + Larger(total, Minus(used[s], @))]
    /\ used' = [used EXCEPT ![s] = committed'[s]]

\* A panic or a cancellation is logged and nothing else is done.
JoinLost(s) ==
    /\ worker[s].stage = "lost"
    /\ Take(s)
    /\ Release(s)
    /\ phase' = "poll"
    /\ UNCHANGED <<channel, dropped, current, telemetry, meterVars, guardVars, dispatches>>

\* dispatch returned Err: no usage is known, and nothing is committed.
JoinError(s) ==
    /\ worker[s].stage = "error"
    /\ Take(s)
    /\ Release(s)
    /\ status' = [status EXCEPT ![s] = "Failed"]
    /\ telemetry' = NoCharge
    /\ phase' = "account"
    /\ UNCHANGED <<channel, dropped, current, committed, used, guardVars, dispatches>>

JoinFailed(s) ==
    /\ worker[s].stage \in {"failed", "unavailable"}
    /\ Take(s)
    /\ Commit(s, 0)
    /\ telemetry' = [known |-> TRUE, tokens |-> worker[s].total]
    /\ \/ worker[s].stage = "failed" /\ RedispatchOrFail(s)
       \/ /\ worker[s].stage = "unavailable"
          /\ Release(s)
          /\ status' = [status EXCEPT ![s] = "Failed"]
          /\ UNCHANGED dispatches
    /\ phase' = "account"
    /\ UNCHANGED <<channel, dropped, current, guardVars>>

JoinDone(s) ==
    /\ worker[s].stage = "done"
    /\ Take(s)
    /\ Commit(s, worker[s].total)
    /\ telemetry' = [known |-> TRUE, tokens |-> worker[s].total]
    /\ Release(s)
    /\ phase' = "verifying"
    /\ current' = s
    /\ UNCHANGED <<channel, dropped, status, guardVars, dispatches>>

\* The orchestrator's own verification: Pass, or the ladder goes on.
Verified ==
    /\ phase = "verifying"
    /\ \/ /\ status' = [status EXCEPT ![current] = "Done"]
          /\ UNCHANGED <<worker, dispatches>>
       \/ RedispatchOrFail(current)
    /\ current' = NoSubtask
    /\ phase' = "account"
    /\ UNCHANGED <<channel, dropped, telemetry, committed, used, guardVars, spent, late>>

-----------------------------------------------------------------------------
(***************************************************************************)
(* The sum, the guard and the hard-fail propagation.                       *)
(***************************************************************************)
\* Faulty: the difference is charged whatever the result reports.
ChargeOfDelta(delta) == delta

ChargeOf(delta) ==
    IF telemetry.known /\ telemetry.tokens > 0 THEN telemetry.tokens ELSE delta

\* Faulty: the ceiling itself is still within the budget.
TripsBeyond(charge) == ~failed /\ ~paused /\ guard + charge > Ceiling

Trips(charge) == ~failed /\ ~paused /\ guard + charge >= Ceiling

Account ==
    LET total  == Sum(used)
        delta  == Minus(total, guard)
        charge == IF failed \/ paused \/ delta = 0 THEN 0 ELSE ChargeOf(delta)
        fails  == \E s \in Subtask : status[s] = "Failed"
    IN  /\ phase = "account"
        /\ guard' = guard + charge
        /\ estimated' = (estimated \/ (charge > 0 /\ ~(telemetry.known /\ telemetry.tokens > 0)))
        /\ paused' = (paused \/ Trips(charge))
        /\ failed' = (failed \/ fails)
        /\ phase' = "poll"
        /\ telemetry' = NoCharge
        /\ UNCHANGED <<workVars, current, meterVars, histVars>>

\* Top of the loop with nothing in flight, or join_next on an empty set.
EndRun ==
    /\ \A s \in Subtask : worker[s].stage = "idle"
    /\ \/ phase = "poll" /\ \A s \in Subtask : status[s] # "Dispatched"
       \/ phase = "poll" /\ channel = <<>>
    /\ phase' = "ended"
    /\ UNCHANGED <<workVars, current, telemetry, meterVars, guardVars, histVars>>

LoopStep ==
    \/ Receive \/ NothingReceived \/ NothingJoined
    \/ \E s \in Subtask : JoinLost(s) \/ JoinError(s) \/ JoinFailed(s) \/ JoinDone(s)
    \/ Verified \/ Account \/ EndRun

Ends == phase = "ended" /\ UNCHANGED vars

Next == LoopStep \/ (\E s \in Subtask : WorkerMoves(s) \/ WorkerLost(s)) \/ Ends

Spec == Init /\ [][Next]_vars
-----------------------------------------------------------------------------
(* Properties *)

TypeOK ==
    /\ worker \in [Subtask -> [stage : Stages, attempt : 0 .. MaxAttempts,
                               total : 0 .. MaxAttempts, provided : BOOLEAN]]
    /\ channel \in Seq([kind : {"context", "thinking", "progress"}, id : Subtask,
                        tokens : 0 .. MaxAttempts])
    /\ Len(channel) <= Capacity
    /\ phase \in {"poll", "join", "verifying", "account", "ended"}
    /\ current \in Subtask \cup {NoSubtask}
    /\ status \in [Subtask -> {"Dispatched", "Done", "Failed"}]
    /\ committed \in [Subtask -> Nat] /\ used \in [Subtask -> Nat]
    /\ dropped \subseteq Subtask /\ late \subseteq Subtask

(***************************************************************************)
(* Between two dispatches of a subtask the meter shows exactly what its    *)
(* dispatches have spent, retries, errors and aborts included, unless a    *)
(* progress message was dropped or arrived after the result (the record of *)
(* used against committed tokens in handle_completion and Receive).        *)
(***************************************************************************)
MeterIsExact ==
    \A s \in Subtask \ (dropped \cup late) :
        /\ worker[s].stage = "idle" => used[s] = spent[s]
        /\ used[s] <= spent[s] + worker[s].total

(***************************************************************************)
(* The meter, and the messages it is computed from.                        *)
(***************************************************************************)
MeterInv ==
    /\ TypeOK
    /\ MeterIsExact

(***************************************************************************)
(* While every charge was priced from a worker's own usage and no message  *)
(* was lost or late, the guard has been charged what the finished          *)
(* dispatches spent, once each: concurrent progress of other workers and   *)
(* re-dispatches neither hide a charge nor repeat one.                     *)
(***************************************************************************)
GuardIsExact ==
    (/\ phase \in {"poll", "join"} /\ ~paused /\ ~failed /\ ~estimated
     /\ dropped \cup late = {})
        => guard = Sum(committed)

(***************************************************************************)
(* The ceiling cannot be passed unnoticed: at the end of a run that did    *)
(* not fail, what its finished dispatches spent was under the ceiling, or  *)
(* nothing, or the run is paused (Account, the decision of the guard).     *)
(***************************************************************************)
CeilingIsNoticed ==
    (phase = "ended" /\ ~failed /\ ~paused /\ dropped \cup late = {})
        => Sum(committed) < Ceiling \/ Sum(committed) = 0

(***************************************************************************)
(* The budget guard between a completion and its decision.                 *)
(***************************************************************************)
GuardInv ==
    /\ GuardIsExact
    /\ CeilingIsNoticed

-----------------------------------------------------------------------------
(***************************************************************************)
(* The workers keep what they promise the orchestrator.                    *)
(***************************************************************************)
StageOf(s) == IF Active(s) THEN "running" ELSE worker[s].stage

Promise == INSTANCE WorkerPromise WITH
    stage     <- [s \in Subtask |-> StageOf(s)],
    calls     <- [s \in Subtask |-> worker[s].total],
    candidate <- [s \in Subtask |-> worker[s].stage = "verifying"]

PromiseKept == Promise!Spec
=============================================================================
