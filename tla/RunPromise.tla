------------------------------ MODULE RunPromise ------------------------------
(***************************************************************************)
(* What the caller of Orchestrator::run_task                               *)
(* (src/phonton-orchestrator/src/lib.rs) may rely on when it looks at the  *)
(* workspace and at the TaskStatus it is given: the diff of a subtask is   *)
(* written once and after the diffs it depends on, the run answers once,   *)
(* nothing is written after the answer, and a failure is not answered with *)
(* Reviewing, nor Failed without one.                                      *)
(***************************************************************************)
EXTENDS Naturals

CONSTANTS Subtask, Deps, HasBudget

VARIABLES
    written,    \* how often the diff of each subtask was written
    failed,     \* the task has failed
    outcome     \* the answer, "None" before it

vars == <<written, failed, outcome>>

\* An under-specified goal is answered with Failed at once.
Init ==
    /\ written = [s \in Subtask |-> 0]
    /\ failed = FALSE
    /\ outcome \in {"None", "Failed"}

\* A write whose checkpoint cannot be committed fails the task.  Diffs that were
\* verified before a failure or a pause are written after it, too.
Write(s) ==
    /\ outcome = "None"
    /\ written[s] = 0
    /\ \A d \in Deps[s] : written[d] = 1
    /\ written' = [written EXCEPT ![s] = 1]
    /\ failed' \in {failed, TRUE}
    /\ UNCHANGED outcome

Fail ==
    /\ outcome = "None"
    /\ failed' = TRUE
    /\ UNCHANGED <<written, outcome>>

\* A pause hides a failure.
Answers ==
    (IF HasBudget THEN {"Paused"} ELSE {})
        \cup (IF failed THEN {"Failed"} ELSE {"Reviewing"})

Return ==
    /\ outcome = "None"
    /\ outcome' \in Answers
    /\ UNCHANGED <<written, failed>>

Next == (\E s \in Subtask : Write(s)) \/ Fail \/ Return

Spec == Init /\ [][Next]_vars
=============================================================================
