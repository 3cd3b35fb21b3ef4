----------------------------- MODULE WorkerLoop -----------------------------
(***************************************************************************)
(* The attempt loop of a worker, Worker::execute_with_prior_errors         *)
(* (src/phonton-worker/src/lib.rs): report the context, ask the model,     *)
(* read the answer as a tool call, a request for files or a diff, verify   *)
(* the diff, and go round with the diagnostics, at most MaxAttempts times. *)
(*                                                                         *)
(* Several workers run at once and share one bounded channel to the        *)
(* orchestrator.  Reports of the selected context wait for room in it;     *)
(* thinking and progress messages are dropped when it is full.             *)
(*                                                                         *)
(* The text of prompts, answers and diagnostics is left out: what an       *)
(* answer is and what the checks say of it are choices.  An answer costs   *)
(* one token.                                                              *)
(***************************************************************************)
EXTENDS Naturals, Sequences, FiniteSets

CONSTANTS
    Subtask,
    MaxAttempts,    \* MAX_ATTEMPTS
    Capacity        \* of the message channel: 32 in the code

ASSUME WorkerAssumption ==
    /\ MaxAttempts \in Nat \ {0}
    /\ Capacity \in Nat \ {0}

VARIABLES
    worker,     \* the worker of each subtask
    channel,    \* worker_msg_tx / worker_msg_rx
    dropped     \* history: a progress message of the subtask was dropped

(***************************************************************************)
(* The stages of a worker.                                                 *)
(*   idle       not dispatched, or joined                                  *)
(*   context    about to report the files and slices of its prompt         *)
(*   prompt     at the top of the loop                                     *)
(*   calling    waiting for the model                                      *)
(*   verifying  waiting for verify_diff_with_checks                        *)
(* or how it ended.                                                        *)
(***************************************************************************)
Results == {"done", "failed", "unavailable", "error", "lost"}
Stages  == {"idle", "context", "prompt", "calling", "verifying"} \cup Results

IdleWorker == [stage |-> "idle", attempt |-> 0, total |-> 0, provided |-> FALSE]
NewWorker  == [IdleWorker EXCEPT !.stage = "context"]

Ended(s)  == worker[s].stage \in Results
Active(s) == ~Ended(s) /\ worker[s].stage # "idle"

Message(kind, s, tokens) == [kind |-> kind, id |-> s, tokens |-> tokens]

HasRoom == Len(channel) < Capacity
\* try_send
TrySend(m) == channel' = IF HasRoom THEN Append(channel, m) ELSE channel

Goto(s, stage) == worker' = [worker EXCEPT ![s].stage = stage]

-----------------------------------------------------------------------------
(***************************************************************************)
(* Round the loop again with what the worker has learnt, or out of         *)
(* attempts.  The loop would also stop at SAME_DIAGNOSTIC_LIMIT (3) equal  *)
(* diagnostics in a row, but update_repeated_signature_count answers 1 or  *)
(* 2, so that never happens and the diagnostics need no state.             *)
(***************************************************************************)
NextAttempt(w) ==
    [w EXCEPT !.stage = IF w.attempt < MaxAttempts THEN "prompt" ELSE "failed"]

ReportContext(s) ==
    /\ worker[s].stage = "context"
    /\ HasRoom
    /\ channel' = Append(channel, Message("context", s, 0))
    /\ worker' = [worker EXCEPT ![s] = NextAttempt(@)]
    /\ UNCHANGED dropped

\* A new attempt: SubtaskThinking, then the call of the model.
CallModel(s) ==
    /\ worker[s].stage = "prompt"
    /\ worker' = [worker EXCEPT ![s].stage = "calling", ![s].attempt = @ + 1]
    /\ TrySend(Message("thinking", s, 0))
    /\ UNCHANGED dropped

ModelFails(s) ==
    /\ worker[s].stage = "calling"
    /\ Goto(s, "error")
    /\ UNCHANGED <<channel, dropped>>

(***************************************************************************)
(* The model answers: the tokens are added to the total of this dispatch   *)
(* and the total is reported.  What the worker makes of the answer needs   *)
(* no other worker, so it is the same step.                                *)
(***************************************************************************)
Answered(s) == [worker[s] EXCEPT !.total = @ + 1]

Answer(s, w) ==
    /\ worker[s].stage = "calling"
    /\ worker' = [worker EXCEPT ![s] = w]
    /\ TrySend(Message("progress", s, w.total))
    /\ dropped' = IF HasRoom THEN dropped ELSE dropped \cup {s}

\* Faulty: text that cannot be read counts as a result.
NoDiffAnyhow(s) ==
    \/ Answer(s, NextAttempt(Answered(s)))
    \/ Answer(s, [Answered(s) EXCEPT !.stage = "done"])

(***************************************************************************)
(* No diff comes of it: a tool call, refused, malformed, failed or served  *)
(* (the limit of tool calls equals the limit of attempts and is never what *)
(* stops one); a request for files that are not there or were provided     *)
(* already; text no diff can be read from.                                 *)
(***************************************************************************)
NoDiff(s) == Answer(s, NextAttempt(Answered(s)))

\* The first request for existing files is served, and the context reported
\* again.
FilesServed(s) ==
    /\ ~worker[s].provided
    /\ Answer(s, [Answered(s) EXCEPT !.stage = "context", !.provided = TRUE])

DiffFound(s) == Answer(s, [Answered(s) EXCEPT !.stage = "verifying"])

(***************************************************************************)
(* The verdict: Pass, and the files and the test the task asks for are in  *)
(* the diff; Pass without them, or Fail; Unavailable, NotRun; an error of  *)
(* the pipeline itself.  verify_diff_with_checks never returns Escalate.   *)
(***************************************************************************)
VerdictArrives(s) ==
    /\ worker[s].stage = "verifying"
    /\ \/ \E r \in {"done", "unavailable", "error"} : Goto(s, r)
       \/ worker' = [worker EXCEPT ![s] = NextAttempt(@)]
    /\ UNCHANGED <<channel, dropped>>

\* A JoinError: an aborted worker is cancelled at an await, or a worker panics.
Lost(s) ==
    /\ Active(s)
    /\ Goto(s, "lost")
    /\ UNCHANGED <<channel, dropped>>

WorkerStep(s) ==
    \/ ReportContext(s) \/ CallModel(s) \/ ModelFails(s)
    \/ NoDiff(s) \/ FilesServed(s) \/ DiffFound(s) \/ VerdictArrives(s)
=============================================================================
