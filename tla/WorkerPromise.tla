---------------------------- MODULE WorkerPromise ----------------------------
(***************************************************************************)
(* What a dispatched worker promises the orchestrator                      *)
(* (WorkerDispatcher::dispatch, src/phonton-orchestrator/src/lib.rs): it   *)
(* calls the model at most MaxAttempts times, claims success only for a    *)
(* diff of its last answer that it has put to the checks, and ends once.   *)
(***************************************************************************)
EXTENDS Naturals

CONSTANTS Subtask, MaxAttempts

VARIABLES
    stage,      \* "idle", "running", or how the worker ended
    calls,      \* the answers of the model in this dispatch
    candidate   \* the last answer holds a diff that stands for verification

vars == <<stage, calls, candidate>>

Results == {"done", "failed", "unavailable", "error", "lost"}

Init ==
    /\ stage \in [Subtask -> {"idle", "running"}]
    /\ calls = [s \in Subtask |-> 0]
    /\ candidate = [s \in Subtask |-> FALSE]

\* From idle, or from a result that is joined and re-dispatched at once.
Dispatch(s) ==
    /\ stage[s] # "running"
    /\ stage' = [stage EXCEPT ![s] = "running"]
    /\ calls' = [calls EXCEPT ![s] = 0]
    /\ candidate' = [candidate EXCEPT ![s] = FALSE]

Answer(s) ==
    /\ stage[s] = "running"
    /\ ~candidate[s]
    /\ calls[s] < MaxAttempts
    /\ calls' = [calls EXCEPT ![s] = @ + 1]
    /\ \/ candidate' \in {[candidate EXCEPT ![s] = stands] : stands \in BOOLEAN}
          /\ UNCHANGED stage
       \/ stage' = [stage EXCEPT ![s] = "failed"]
          /\ UNCHANGED candidate

\* The checks refuse the diff.
Refuse(s) ==
    /\ stage[s] = "running"
    /\ candidate[s]
    /\ candidate' = [candidate EXCEPT ![s] = FALSE]
    /\ UNCHANGED <<stage, calls>>

Finish(s, r) ==
    /\ stage[s] = "running"
    /\ r = "done" => candidate[s]
    /\ r \in {"failed", "unavailable"} => calls[s] > 0
    /\ stage' = [stage EXCEPT ![s] = r]
    /\ candidate' = [candidate EXCEPT ![s] = FALSE]
    /\ UNCHANGED calls

Join(s) ==
    /\ stage[s] \in Results
    /\ stage' = [stage EXCEPT ![s] = "idle"]
    /\ calls' = [calls EXCEPT ![s] = 0]
    /\ UNCHANGED candidate

Next == \E s \in Subtask :
    \/ Dispatch(s) \/ Answer(s) \/ Refuse(s) \/ Join(s)
    \/ \E r \in Results : Finish(s, r)

Spec == Init /\ [][Next]_vars
=============================================================================
