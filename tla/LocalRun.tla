------------------------------ MODULE LocalRun ------------------------------
(***************************************************************************)
(* One local run (run and run_inner, src/phonton-worker/src/local_run.rs): *)
(* capture a baseline, check it, then generate candidates within a shared  *)
(* budget of model calls, tokens, checks and time, verify each in a        *)
(* directory of its own, and leave a receipt on disk that says what was    *)
(* found.  The decisions and the token arithmetic are LocalSearch's.       *)
(*                                                                         *)
(* The receipt is saved (persist) at some points only; `receipt` is the    *)
(* one in memory, `disk` what a reader finds.  Meanwhile the user, project *)
(* scripts and other programs change the original source, its Git index,   *)
(* the captured baseline or a candidate; the model's runtime changes under *)
(* the run; time runs out; and the process may be killed.                  *)
(*                                                                         *)
(* Contents are model values.  Admission of the run before its first       *)
(* receipt is left out: until then nothing is saved or sent.  A changed    *)
(* file does not change back.                                              *)
(***************************************************************************)
EXTENDS LocalSearch, FiniteSets

CONSTANTS
    Content,        \* what a candidate's scope may hold
    Base,           \* the content of the baseline
    Requests,       \* what may be asked for
    VerifyChecks,   \* request.checks
    Preparation,    \* request.preparation: offline npm ci comes first
    CheckRuns       \* budget.check_runs

Kinds == {"edit", "create", "mixed"}

Commands == VerifyChecks + (IF Preparation THEN 1 ELSE 0)
Complete == IF VerifyChecks = 0 THEN 0 ELSE Commands

ASSUME RunAssumption ==
    /\ Generations \in 1 .. 8 /\ Tokens \in 128 .. 16384 /\ OutputCap \in Nat
    /\ Base \in Content /\ NoContent \notin Content
    /\ Requests \subseteq [kind : Kinds, approved : BOOLEAN]
    /\ VerifyChecks \in 0 .. 4 /\ Preparation \in BOOLEAN
    /\ CheckRuns \in 0 .. 32
    /\ (\E r \in Requests : r.approved) => CheckRuns >= 2 * Complete
    /\ (\E r \in Requests : r.kind = "mixed") => Generations >= 2

VARIABLES
    request,    \* what is asked for
    stage,      \* where run_inner is
    receipt,    \* in memory
    disk,       \* receipt.json
    plan,       \* this round's decision and whether it creates
    output,     \* the tokens its call reserves
    results,    \* statuses of the checks under way
    draft,      \* the candidate under way
    seen,       \* contents of earlier candidates, and the baseline's
    changed,    \* captured things that changed: "source", "index", "baseline"
    tampered,   \* candidates whose directory changed after they were hashed
    timeUp,     \* no wall time remains
    sent,       \* history: model calls and tokens really asked of the model
    starved,    \* history: an approved check found the check budget empty
    early       \* history: what had changed when the candidate was accepted

runVars  == <<request, stage, receipt, disk, plan, output, results, draft, seen>>
envVars  == <<changed, tampered, timeUp>>
histVars == <<sent, starved, early>>
vars == <<runVars, envVars, histVars>>

NoCandidate == [staged |-> FALSE, parent |-> NoParent, content |-> NoContent,
                why |-> "none", checks |-> <<>>, again |-> FALSE, same |-> FALSE,
                parts |-> {}]

NoPlan == [action |-> "stop", parent |-> NoParent, creating |-> FALSE, mixed |-> FALSE]

Reviewed == {"review_ready", "review_unverified"}

Init ==
    /\ request \in Requests
    /\ stage = "baseline"
    /\ receipt = [state |-> "baseline", candidates |-> <<>>, selected |-> NoParent,
                  calls |-> 0, tokens |-> 0, checks |-> 0, index |-> "passed"]
    /\ disk = receipt
    /\ plan = NoPlan /\ output = 0
    /\ results = <<>> /\ draft = NoCandidate
    /\ seen = {Base}
    /\ changed = {} /\ tampered = {} /\ timeUp = FALSE
    /\ sent = [calls |-> 0, tokens |-> 0] /\ starved = FALSE /\ early = {}

-----------------------------------------------------------------------------
Number == Len(receipt.candidates) + 1           \* of the round under way
Left   == Minus(Tokens, receipt.tokens)         \* reserved_left

Go(s) == stage' = s
Saved == disk' = receipt'                       \* persist

\* Out of the loop.  Some of its exits save the receipt at once.
Halt(s) ==
    /\ receipt' = [receipt EXCEPT !.state = s, !.selected = NoParent]
    /\ Go("after")
    /\ disk' \in {disk, receipt'}
    /\ UNCHANGED <<request, plan, output, results, draft, seen, envVars, histVars>>

\* verify_original_index: a failed observation stays failed.
IndexFails ==
    /\ receipt' = [receipt EXCEPT !.state = "git_index_changed_or_unavailable", !.selected = NoParent,
                                  !.index = "failed"]
    /\ Go("after")
    /\ UNCHANGED <<request, disk, plan, output, results, draft, seen, envVars, histVars>>

\* An observation may fail for a reason of its own; it passes only unchanged.
ObservationFails ==
    \/ Halt("source_changed_or_unavailable")
    \/ IndexFails
    \/ Halt("baseline_changed_or_unavailable")

ObservationPasses == changed = {} /\ receipt.index = "passed"

Stable(parent) ==
    IF parent = NoParent THEN "baseline" \notin changed ELSE parent \notin tampered

-----------------------------------------------------------------------------
(***************************************************************************)
(* checks_for_sources: one command after the other, in the directory of    *)
(* the baseline copy or of the candidate.                                  *)
(***************************************************************************)
IsPreparation(i) == Preparation /\ i = 1

PreparationFailed(i) == Preparation /\ i > 1 /\ results[1] # "passed"

\* What a command that ran may come to.
Outcomes(i) == IF IsPreparation(i) THEN {"passed", "unavailable"} ELSE Statuses

RunCheck ==
    LET i == Len(results) + 1
        refused == PreparationFailed(i) \/ ~request.approved
        room == receipt.checks < CheckRuns /\ ~timeUp
        report(status) == results' = Append(results, status)
    IN  /\ stage \in {"baseline", "verify"}
        /\ VerifyChecks > 0 /\ i <= Commands
        /\ \/ /\ refused
              /\ report(IF PreparationFailed(i) THEN "not_run" ELSE "unavailable")
              /\ UNCHANGED <<receipt, starved>>
           \/ ~refused /\ report("unavailable") /\ UNCHANGED <<receipt, starved>>
           \/ /\ ~refused /\ ~room
              /\ report("not_run")
              /\ starved' = (starved \/ ~timeUp)
              /\ UNCHANGED receipt
           \/ /\ ~refused /\ room
              /\ \E status \in Outcomes(i) : report(status)
              /\ receipt' = [receipt EXCEPT !.checks = @ + 1]
              /\ UNCHANGED starved
        /\ UNCHANGED <<request, stage, disk, plan, output, draft, seen, envVars, sent, early>>

ChecksDone == VerifyChecks = 0 \/ Len(results) = Commands

AllPassed(checks) == checks # <<>> /\ \A i \in DOMAIN checks : checks[i] = "passed"

\* No check was selected; or all passed, and may not have covered the edit.
Reported ==
    IF VerifyChecks = 0 THEN {<<"not_run">>}
    ELSE {results} \cup (IF AllPassed(results) THEN {Append(results, "not_run")} ELSE {})

-----------------------------------------------------------------------------
(***************************************************************************)
(* After the baseline checks.                                              *)
(***************************************************************************)
\* The checks modified the copy: an error, and the receipt stays as it is.
BaselineModified ==
    /\ stage = "baseline" /\ ChecksDone
    /\ Go("error")
    /\ UNCHANGED <<request, receipt, disk, plan, output, results, draft, seen, envVars, histVars>>

\* Nothing is generated: the run returns here.
BaselineReturns ==
    /\ stage = "baseline" /\ ChecksDone
    /\ \E s \in {"source_changed_or_unavailable", "dependency_unavailable", "git_index_changed_or_unavailable"} :
         /\ s # "source_changed_or_unavailable" =>
                /\ "source" \notin changed
                /\ request.approved /\ Preparation
                /\ VerifyChecks > 0 /\ results[1] # "passed"
         /\ s = "dependency_unavailable" => "index" \notin changed
         /\ receipt' = [receipt EXCEPT !.state = s,
                            !.index = IF s = "git_index_changed_or_unavailable" THEN "failed" ELSE @]
    /\ Saved
    /\ Go("ended")
    /\ UNCHANGED <<request, plan, output, results, draft, seen, envVars, histVars>>

BaselineChecked ==
    /\ stage = "baseline" /\ ChecksDone
    /\ "source" \notin changed
    /\ (request.approved /\ Preparation /\ VerifyChecks > 0) => results[1] = "passed"
    /\ results' = <<>>
    /\ disk' = receipt
    /\ Go("top")
    /\ UNCHANGED <<request, receipt, plan, output, draft, seen, envVars, histVars>>

-----------------------------------------------------------------------------
(***************************************************************************)
(* The top of the loop: observe the captured things, decide, and see that  *)
(* the budget allows what was decided.                                     *)
(***************************************************************************)
Creating(d) == request.kind # "edit" /\ d.parent = NoParent

IsMixed(d) == Creating(d) /\ request.kind = "mixed"

\* Faulty: one check run left is enough.
BudgetFitsOneRun(d) ==
    /\ ~timeUp
    /\ BudgetAllows(d.action, receipt.calls, Left)
    /\ IsMixed(d) => MixedFits(d.action, receipt.calls, Left)
    /\ VerifyChecks > 0 => receipt.checks < CheckRuns

BudgetFits(d) ==
    /\ ~timeUp
    /\ BudgetAllows(d.action, receipt.calls, Left)
    /\ IsMixed(d) => MixedFits(d.action, receipt.calls, Left)
    /\ VerifyChecks > 0 =>
         /\ receipt.checks < CheckRuns
         /\ request.approved => Minus(CheckRuns, receipt.checks) >= Complete

ThisDecision == Decide(receipt.candidates, receipt.calls, Left, request.kind = "mixed")

TopHalts ==
    /\ stage = "top"
    /\ \/ ObservationFails
       \/ /\ ObservationPasses
          /\ LET d == ThisDecision
             IN  \/ d.action = "stop" /\ Halt("search_stopped")
                 \/ d.action # "stop" /\ ~BudgetFits(d) /\ Halt("budget_exhausted")
                 \/ d.action # "stop" /\ BudgetFits(d) /\ Halt("resource_pressure")
                 \/ /\ d.action # "stop" /\ BudgetFits(d)
                    /\ d.parent # NoParent /\ Halt("candidate_changed")

Begin ==
    /\ stage = "top"
    /\ ObservationPasses
    /\ LET d == ThisDecision
       IN  /\ d.action # "stop" /\ BudgetFits(d) /\ Stable(d.parent)
           /\ plan' = [action |-> d.action, parent |-> d.parent, creating |-> Creating(d),
                       mixed |-> IsMixed(d)]
           /\ Go(IF d.action = "restart" THEN "strategy" ELSE "prepare")
    /\ UNCHANGED <<request, receipt, disk, output, results, draft, seen, envVars, histVars>>

-----------------------------------------------------------------------------
(***************************************************************************)
(* A restart first asks for a strategy.  Calls and tokens are charged and  *)
(* saved before the request is sent, and never given back.                 *)
(***************************************************************************)
\* Faulty: the charge is saved with the answer.
ReserveUnsaved(state, tokens) ==
    /\ receipt' = [receipt EXCEPT !.state = state, !.calls = @ + 1, !.tokens = @ + tokens]
    /\ UNCHANGED disk

Reserve(state, tokens) ==
    /\ receipt' = [receipt EXCEPT !.state = state, !.calls = @ + 1, !.tokens = @ + tokens]
    /\ Saved

\* The context does not hold it, or the model or its runtime is not admitted.
StrategyHalts ==
    /\ stage = "strategy"
    /\ \/ \E s \in {"search_stopped", "resource_pressure", "runtime_identity_changed"} : Halt(s)
       \/ timeUp /\ Halt("budget_exhausted")

ReserveStrategy ==
    /\ stage = "strategy"
    /\ ~timeUp
    /\ output' = HypothesisOutput(Left, plan.mixed)
    /\ Reserve("hypothesizing", output')
    /\ Go("ask")
    /\ UNCHANGED <<request, plan, results, draft, seen, envVars, histVars>>

\* The runtime's chat call; it asks nothing of a model no longer resident.
Ask ==
    /\ stage \in {"ask", "chat"}
    /\ sent' = [calls |-> sent.calls + 1, tokens |-> sent.tokens + output]
    /\ Go(IF stage = "ask" THEN "proposed" ELSE "answered")
    /\ UNCHANGED <<request, receipt, disk, plan, output, results, draft, seen, envVars, starved, early>>

StrategyRejected ==
    \/ stage = "ask" /\ Halt("resource_pressure")
    \/ /\ stage = "proposed"
       /\ \/ \E s \in {"search_stopped", "runtime_identity_changed"} : Halt(s)
          \/ ObservationFails

StrategyAccepted ==
    /\ stage = "proposed"
    /\ ObservationPasses
    /\ disk' = receipt
    /\ Go("prepare")
    /\ UNCHANGED <<request, receipt, plan, output, results, draft, seen, envVars, histVars>>

-----------------------------------------------------------------------------
(***************************************************************************)
(* The edit: its output, its context, a copy of the parent, admission.     *)
(***************************************************************************)
OutputNow == EditOutput(receipt.calls, Left, plan.mixed)

OutputFits == Left >= 128 /\ OutputNow >= 128

PrepareHalts ==
    /\ stage = "prepare"
    /\ \/ (timeUp \/ ~OutputFits) /\ Halt("budget_exhausted")
       \/ /\ OutputFits
          /\ plan.action = "restart" \/ (request.kind # "edit" /\ ~plan.creating)
          /\ Halt("search_stopped")
       \/ OutputFits /\ Halt("candidate_changed")

\* The context cannot be assembled, or the copy fails: an error.
PrepareFails ==
    /\ stage = "prepare" /\ OutputFits
    /\ Go("error")
    /\ UNCHANGED <<request, receipt, disk, plan, output, results, draft, seen, envVars, histVars>>

Parts(parent) == IF parent = NoParent THEN {} ELSE receipt.candidates[parent].parts

Prepare ==
    /\ stage = "prepare"
    /\ ~timeUp /\ OutputFits
    /\ Stable(plan.parent)
    /\ output' = OutputNow
    /\ draft' = [NoCandidate EXCEPT !.parent = plan.parent, !.parts = Parts(plan.parent)]
    /\ Go("admit")
    /\ UNCHANGED <<request, receipt, disk, plan, results, seen, envVars, histVars>>

AdmitHalts ==
    /\ stage = "admit"
    /\ \/ \E s \in {"resource_pressure", "runtime_identity_changed"} : Halt(s)
       \/ timeUp /\ Halt("budget_exhausted")

ReserveEdit ==
    /\ stage = "admit"
    /\ ~timeUp
    /\ Reserve("generating", output)
    /\ Go("chat")
    /\ UNCHANGED <<request, plan, output, results, draft, seen, envVars, histVars>>

\* The runtime changed hands around the chat: the reply is discarded.
ReplyDiscarded == stage = "answered" /\ Halt("runtime_identity_changed")

-----------------------------------------------------------------------------
(***************************************************************************)
(* The reply becomes a candidate, or says why not.                         *)
(***************************************************************************)
Push(c) == Append(receipt.candidates, c)

NextRound == IF Number >= Generations \/ timeUp THEN "after" ELSE "top"

\* The model was not resident any more; nothing was sent.
ResidentLost ==
    /\ stage = "chat"
    /\ receipt' = [receipt EXCEPT !.candidates = Push([draft EXCEPT !.why = "reply"]),
                                  !.state = "resource_pressure"]
    /\ Saved
    /\ Go("after")
    /\ UNCHANGED <<request, plan, output, results, draft, seen, envVars, histVars>>

\* The hash of the parent is compared again.
ParentHeld == Stable(plan.parent)

ParentChanged ==
    /\ stage = "answered"
    /\ ~ParentHeld
    /\ receipt' = [receipt EXCEPT !.candidates = Push([draft EXCEPT !.why = "reply"]),
                                  !.state = "candidate_changed"]
    /\ Saved
    /\ Go("after")
    /\ UNCHANGED <<request, plan, output, results, draft, seen, envVars, histVars>>

\* Incomplete, malformed, out of scope, against the anchor or the protected
\* tests, or no change at all.
ReplyRejected ==
    /\ stage = "answered"
    /\ ParentHeld
    /\ \E why \in {"reply"} \cup (IF plan.creating THEN {} ELSE {"no_change"}), again \in BOOLEAN :
         /\ again => \E i \in DOMAIN receipt.candidates :
                          receipt.candidates[i].content = NoContent
         /\ receipt' = [receipt EXCEPT
                !.candidates = Push([draft EXCEPT !.why = why, !.again = again])]
    /\ Saved
    /\ Go(NextRound)
    /\ UNCHANGED <<request, plan, output, results, draft, seen, envVars, histVars>>

\* Faulty: a content rejected before is verified again.
IsRepeatNever(c) == FALSE

IsRepeat(c) == c \in seen

\* The candidate is written: repeated, staged, or saved and verified.
Materialize ==
    /\ stage = "answered"
    /\ ParentHeld
    /\ \E c \in Content :
         LET made == [draft EXCEPT
                 !.content = c,
                 !.parts = @ \cup {IF plan.creating THEN "new" ELSE "edit"}]
         IN  /\ seen' = seen \cup {c}
             /\ \/ /\ IsRepeat(c)
                   /\ receipt' = [receipt EXCEPT
                          !.candidates = Push([made EXCEPT !.why = "repeated"])]
                   /\ Go(NextRound)
                   /\ UNCHANGED draft
                \/ /\ ~IsRepeat(c) /\ plan.mixed
                   /\ receipt' = [receipt EXCEPT
                          !.candidates = Push([made EXCEPT !.staged = TRUE]),
                          !.state = "awaiting_existing_edit"]
                   /\ Go(NextRound)
                   /\ UNCHANGED draft
                \/ /\ ~IsRepeat(c) /\ ~plan.mixed
                   /\ draft' = made
                   /\ receipt' = [receipt EXCEPT
                          !.candidates = Push([made EXCEPT !.checks = <<"unavailable">>]),
                          !.state = "verifying"]
                   /\ Go("verify")
    /\ Saved
    /\ UNCHANGED <<request, plan, output, results, envVars, histVars>>

-----------------------------------------------------------------------------
(***************************************************************************)
(* The verdict replaces the pending candidate.                             *)
(***************************************************************************)
Pending == Len(receipt.candidates)

Verdict(checks) ==
    IF Pending \in tampered THEN "modified"
    ELSE IF Reports([checks |-> checks], "failed") THEN "failed" ELSE "none"

Settle ==
    /\ stage = "verify" /\ ChecksDone
    /\ \E checks \in Reported, same \in BOOLEAN :
         LET why == Verdict(checks)
             c == [draft EXCEPT !.checks = checks, !.why = why, !.same = same]
             r == [receipt EXCEPT !.candidates[Pending] = c]
         IN  /\ same => /\ why = "failed" /\ draft.parent # NoParent
                        /\ receipt.candidates[draft.parent].why = "failed"
             /\ IF why = "none"
                  THEN /\ receipt' = [r EXCEPT !.selected = Pending, !.state = "finalizing"]
                       /\ early' = changed
                       /\ Go("after")
                  ELSE /\ receipt' = r
                       /\ Go(IF Pending >= Generations \/ timeUp THEN "after" ELSE "top")
                       /\ UNCHANGED early
    /\ Saved
    /\ results' = <<>>
    /\ draft' = NoCandidate
    /\ UNCHANGED <<request, plan, output, seen, envVars, sent, starved>>

-----------------------------------------------------------------------------
(***************************************************************************)
(* The end: everything that identifies the evidence is observed once more. *)
(***************************************************************************)
Exhausted ==
    \/ receipt.calls >= Generations
    \/ receipt.tokens >= Tokens
    \/ VerifyChecks > 0 /\ receipt.checks >= CheckRuns

AfterLoop ==
    /\ stage = "after"
    /\ \/ /\ receipt.selected # NoParent
          /\ UNCHANGED receipt
       \/ /\ receipt.selected # NoParent
          /\ receipt' = [receipt EXCEPT !.selected = NoParent, !.state = "model_identity_changed"]
       \/ /\ receipt.selected = NoParent
          /\ receipt' = [receipt EXCEPT !.state =
                 IF @ \notin {"generating", "verifying"} THEN @
                 ELSE IF Exhausted THEN "budget_exhausted" ELSE "no_verified_candidate"]
    /\ Go("final_source")
    /\ UNCHANGED <<request, disk, plan, output, results, draft, seen, envVars, histVars>>

\* Faulty: only a failure to look counts, not a change.
FinalSourceLenient ==
    /\ stage = "final_source"
    /\ \/ UNCHANGED receipt
       \/ receipt' = [receipt EXCEPT !.selected = NoParent,
                                     !.state = "source_changed_or_unavailable"]
    /\ Go("final_rest")
    /\ UNCHANGED <<request, disk, plan, output, results, draft, seen, envVars, histVars>>

FinalSource ==
    /\ stage = "final_source"
    /\ \/ "source" \notin changed /\ UNCHANGED receipt
       \/ receipt' = [receipt EXCEPT !.selected = NoParent,
                                     !.state = "source_changed_or_unavailable"]
    /\ Go("final_rest")
    /\ UNCHANGED <<request, disk, plan, output, results, draft, seen, envVars, histVars>>

\* The baseline, the candidate and the index, in this order.
WithBaseline(r, ok) ==
    IF ok THEN r
    ELSE [r EXCEPT !.selected = NoParent,
                   !.state = IF @ = "finalizing" THEN "baseline_changed_or_unavailable" ELSE @]

WithCandidate(r, ok) ==
    IF ok \/ r.selected = NoParent THEN r
    ELSE [r EXCEPT !.selected = NoParent, !.state = "candidate_changed"]

WithIndex(r, ok) == IF ok \/ r.index = "failed" THEN r
                    ELSE [r EXCEPT !.state = "git_index_changed_or_unavailable", !.selected = NoParent,
                                   !.index = "failed"]

\* Faulty: a candidate nothing failed for is ready.
ConclusionLenient(r) ==
    IF r.state # "finalizing" THEN r ELSE [r EXCEPT !.state = "review_ready"]

Conclusion(r) ==
    IF r.state # "finalizing" \/ r.selected = NoParent THEN r
    ELSE [r EXCEPT !.state = IF AllPassed(r.candidates[r.selected].checks)
                             THEN "review_ready" ELSE "review_unverified"]

FinalReview ==
    /\ stage = "final_rest"
    /\ \E b, c, i \in BOOLEAN :
         /\ b => "baseline" \notin changed
         /\ c => receipt.selected \notin tampered
         /\ i => "index" \notin changed
         /\ receipt' = Conclusion(WithIndex(WithCandidate(WithBaseline(receipt, b), c), i))
    /\ Saved
    /\ Go("ended")
    /\ UNCHANGED <<request, plan, output, results, draft, seen, envVars, histVars>>

-----------------------------------------------------------------------------
(***************************************************************************)
(* The rest of the world.                                                  *)
(***************************************************************************)
Returned == stage \in {"ended", "error", "stopped"}

Changes ==
    /\ ~Returned
    /\ \/ \E x \in {"source", "index", "baseline"} \ changed :
            changed' = changed \cup {x} /\ UNCHANGED tampered
       \/ \E k \in DOMAIN receipt.candidates \ tampered :
            /\ receipt.candidates[k].content # NoContent
            /\ tampered' = tampered \cup {k} /\ UNCHANGED changed
    /\ UNCHANGED <<runVars, timeUp, histVars>>

TimeRunsOut ==
    /\ ~Returned /\ ~timeUp
    /\ timeUp' = TRUE
    /\ UNCHANGED <<runVars, changed, tampered, histVars>>

\* The process is killed; or an I/O error ends the run; or, the time being
\* up, the future is dropped at one of its awaits.
Stops ==
    /\ ~Returned
    /\ Go("stopped")
    /\ UNCHANGED <<request, receipt, disk, plan, output, results, draft, seen, envVars, histVars>>

RunStep ==
    \/ RunCheck \/ BaselineModified \/ BaselineReturns \/ BaselineChecked
    \/ TopHalts \/ Begin
    \/ StrategyHalts \/ ReserveStrategy \/ Ask \/ StrategyRejected \/ StrategyAccepted
    \/ PrepareHalts \/ PrepareFails \/ Prepare \/ AdmitHalts \/ ReserveEdit
    \/ ReplyDiscarded \/ ResidentLost \/ ParentChanged \/ ReplyRejected \/ Materialize
    \/ Settle \/ AfterLoop \/ FinalSource \/ FinalReview

Ended == Returned /\ UNCHANGED vars

Next == RunStep \/ Changes \/ TimeRunsOut \/ Stops \/ Ended

Spec == Init /\ [][Next]_vars
-----------------------------------------------------------------------------
(* Properties *)

TypeOK ==
    /\ request \in Requests
    /\ {receipt.selected, disk.selected} \subseteq 0 .. Len(receipt.candidates)
    /\ Len(receipt.candidates) <= Generations
    /\ \A i \in DOMAIN receipt.candidates :
         LET c == receipt.candidates[i]
         IN  /\ c.parent \in 0 .. i - 1
             /\ c.content \in Content \cup {NoContent}
             /\ c.why \in Rejections
             /\ c.staged => c.parts = {"new"}
    /\ changed \subseteq {"source", "index", "baseline"}
    /\ tampered \subseteq DOMAIN receipt.candidates

(***************************************************************************)
(* A receipt that says review_ready selects the last candidate, a complete *)
(* one: its checks all ran, with approval, and passed; and a mixed         *)
(* creation has both its new file and its edit (run_inner to the final     *)
(* review; apply_selected trusts this state).                              *)
(***************************************************************************)
ReviewIsEarned ==
    disk.state \in Reviewed =>
        LET c == disk.candidates[disk.selected]
        IN  /\ disk.selected = Len(disk.candidates)
            /\ ~c.staged /\ c.why = "none" /\ c.content # NoContent
            /\ request.kind = "mixed" => c.parts = {"new", "edit"}
            /\ disk.state = "review_ready" => request.approved /\ AllPassed(c.checks)

(***************************************************************************)
(* What had changed by the time the candidate was accepted, the original   *)
(* source, its index or the baseline, does not get through the final       *)
(* review, however many candidates were tried since the capture.           *)
(***************************************************************************)
ChangesAreNoticed == disk.state \in Reviewed => early = {}

(***************************************************************************)
(* Whatever ends the run, a receipt selects a candidate only while it is   *)
(* being finalized or is reviewed: saved reviews are found by their        *)
(* selection (validate_saved_review does not look at the state).           *)
(***************************************************************************)
SelectionMeansReview == disk.selected # NoParent => disk.state \in Reviewed \cup {"finalizing"}

(***************************************************************************)
(* What the receipt on disk says to apply_selected and to the list of      *)
(* saved reviews, at every moment of the run.                              *)
(***************************************************************************)
ReceiptInv ==
    /\ TypeOK
    /\ ReviewIsEarned
    /\ SelectionMeansReview

(***************************************************************************)
(* Wherever the run is killed, the receipt on disk accounts for every      *)
(* model call and every token asked for, and the budget is not exceeded.   *)
(***************************************************************************)
ReservedBeforeSent ==
    /\ sent.calls <= disk.calls /\ sent.tokens <= disk.tokens
    /\ receipt.calls <= Generations /\ receipt.tokens <= Tokens

(***************************************************************************)
(* The gate at the top of the loop keeps its word: once a candidate is     *)
(* generated, no approved check of it is skipped for the check budget.     *)
(***************************************************************************)
ChecksNeverStarve == ~starved

(***************************************************************************)
(* A new file is staged only if a call, its tokens and a complete check    *)
(* pass are left for the edit that completes it.                           *)
(***************************************************************************)
StagedCanContinue ==
    (/\ stage = "top" /\ receipt.state = "awaiting_existing_edit")
        => /\ receipt.calls < Generations
           /\ Left >= 128
           /\ request.approved => Minus(CheckRuns, receipt.checks) >= Complete

(***************************************************************************)
(* What is spent is on disk before it is spent, and what the budget lets   *)
(* begin it can also finish: a candidate's checks, a staged file's edit.   *)
(***************************************************************************)
BudgetInv ==
    /\ ReservedBeforeSent
    /\ ChecksNeverStarve
    /\ StagedCanContinue

(***************************************************************************)
(* No content is verified twice, over repairs, restarts and staging; the   *)
(* baseline's is never verified as a candidate.                            *)
(***************************************************************************)
CheckedOnce ==
    LET verified == {i \in DOMAIN receipt.candidates : receipt.candidates[i].checks # <<>>}
    IN  \A i, j \in verified :
          /\ receipt.candidates[i].content # Base
          /\ receipt.candidates[i].content = receipt.candidates[j].content => i = j
=============================================================================
