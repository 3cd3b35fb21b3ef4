---------------------------- MODULE LocalRunProofs ----------------------------
EXTENDS LocalRun, TLAPS

-----------------------------------------------------------------------------
(***************************************************************************)
(* The inductive invariant.                                                *)
(***************************************************************************)
Candidate == [staged : BOOLEAN, parent : Nat, content : Content \cup {NoContent},
              why : Rejections, checks : Seq(Statuses), again : BOOLEAN, same : BOOLEAN,
              parts : SUBSET {"new", "edit"}]

Open == Reviewed \cup {"finalizing"}

States ==
    Open \cup
    {"baseline", "hypothesizing", "generating", "awaiting_existing_edit", "verifying",
     "source_changed_or_unavailable", "git_index_changed_or_unavailable",
     "baseline_changed_or_unavailable", "dependency_unavailable", "resource_pressure",
     "runtime_identity_changed", "model_identity_changed", "candidate_changed",
     "search_stopped", "budget_exhausted", "no_verified_candidate"}

Receipts == [state : States, candidates : Seq(Candidate), selected : Nat, calls : Nat,
             tokens : Nat, checks : Nat, index : {"passed", "failed"}]

Actions == {"initial", "continue", "repair", "restart", "stop"}

Plans == [action : Actions, parent : Nat, creating : BOOLEAN, mixed : BOOLEAN]

\* From the decision to the reply, and the whole round.
Working == {"strategy", "ask", "proposed", "prepare", "admit", "chat", "answered"}
Loop    == Working \cup {"top"}

Stages == Loop \cup {"baseline", "verify", "after", "final_source", "final_rest",
                     "ended", "error", "stopped"}

Types ==
    /\ request \in Requests /\ stage \in Stages
    /\ receipt \in Receipts /\ disk \in Receipts
    /\ plan \in Plans /\ output \in Nat
    /\ results \in Seq(Statuses) /\ draft \in Candidate
    /\ seen \subseteq Content /\ Base \in seen
    /\ changed \subseteq {"source", "index", "baseline"} /\ early \subseteq changed
    /\ tampered \subseteq DOMAIN receipt.candidates
    /\ timeUp \in BOOLEAN /\ starved \in BOOLEAN
    /\ sent \in [calls : Nat, tokens : Nat]

\* A candidate of a mixed creation from which the run goes on has the new file.
HasNew(cs, parent) == request.kind = "mixed" /\ parent # NoParent => "new" \in cs[parent].parts

CandidateOK(cs, known, i) ==
    /\ cs[i].parent < i
    /\ HasNew(cs, cs[i].parent)
    /\ cs[i].staged => cs[i].parts = {"new"}
    /\ cs[i].content \in known \cup {NoContent}
    /\ cs[i].checks # <<>> => cs[i].content \notin {Base, NoContent}
    /\ cs[i].why = "failed" => HasNew(cs, i)

\* The evidence collected so far.
CandidatesInv ==
    /\ \A i \in DOMAIN receipt.candidates : CandidateOK(receipt.candidates, seen, i)
    /\ CheckedOnce
    /\ stage \in Loop \cup {"baseline"} => Len(receipt.candidates) < Generations
    /\ Len(receipt.candidates) <= Generations

Fresh == ~draft.staged /\ draft.why = "none"

\* What the round under way relies on.
RoundInv ==
    /\ stage \in Working =>
         /\ plan.parent <= Len(receipt.candidates)
         /\ plan.creating = (request.kind # "edit" /\ plan.parent = NoParent)
         /\ plan.mixed = (request.kind = "mixed" /\ plan.parent = NoParent)
         /\ HasNew(receipt.candidates, plan.parent)
    /\ stage \in {"admit", "chat", "answered"} =>
         /\ draft.parent = plan.parent /\ draft.parts = Parts(plan.parent)
         /\ Fresh /\ draft.content = NoContent /\ draft.checks = <<>>
    /\ stage = "verify" =>
         /\ Pending # 0 /\ Fresh
         /\ draft.content \notin {Base, NoContent}
         /\ request.kind = "mixed" => draft.parts = {"new", "edit"}
         /\ LET c == receipt.candidates[Pending]
            IN  c.parent = draft.parent /\ c.content = draft.content /\ c.checks # <<>>
    /\ stage \in Loop => results = <<>>
    /\ ~request.approved => \A i \in DOMAIN results : results[i] # "passed"
    /\ stage \in {"chat", "answered"} => receipt.state = "generating"
    /\ stage \in {"baseline", "verify"} =>
         receipt.state = (IF stage = "verify" THEN "verifying" ELSE "baseline")

\* A selection is of the last candidate, a complete one, and says so.
Earned(r) ==
    /\ r.selected # NoParent <=> r.state \in Open
    /\ r.selected # NoParent =>
         LET c == r.candidates[r.selected]
         IN  /\ r.selected = Len(r.candidates)
             /\ r.index = "passed"
             /\ ~c.staged /\ c.why = "none" /\ c.content # NoContent
             /\ request.kind = "mixed" => c.parts = {"new", "edit"}
             /\ AllPassed(c.checks) => request.approved
             /\ r.state = "review_ready" => AllPassed(c.checks)

\* Nothing is selected before the loop is left, and what is by then changed is
\* found by the observations of the end.
SelectionInv ==
    /\ Earned(receipt) /\ Earned(disk)
    /\ Len(disk.candidates) <= Len(receipt.candidates)
    /\ stage \in Loop \cup {"baseline", "verify"} =>
         /\ receipt.selected = NoParent /\ receipt.index = "passed"
         /\ disk.selected = NoParent
    /\ receipt.state \in Reviewed => stage = "ended"
    /\ stage = "final_rest" /\ receipt.selected # NoParent => "source" \notin early
    /\ ChangesAreNoticed

\* The tokens and calls that the stages ahead have been promised.
CallsInv ==
    /\ disk.calls = receipt.calls /\ disk.tokens = receipt.tokens
    /\ receipt.calls <= Generations /\ receipt.tokens <= Tokens
    /\ sent.calls <= receipt.calls /\ sent.tokens <= receipt.tokens
    /\ stage \in {"ask", "chat"} => /\ sent.calls + 1 <= receipt.calls
                                    /\ sent.tokens + output <= receipt.tokens
    /\ stage = "strategy" =>
         /\ receipt.calls + 2 <= Generations
         /\ plan.mixed => receipt.calls + 3 <= Generations
    /\ stage \in {"ask", "proposed", "prepare", "admit"} =>
         /\ receipt.calls + 1 <= Generations
         /\ plan.mixed => receipt.calls + 2 <= Generations
    /\ stage = "admit" => /\ output <= Left
                          /\ plan.mixed => output + 128 <= Left
    /\ stage \in {"chat", "answered"} /\ plan.mixed =>
         receipt.calls + 1 <= Generations /\ Left >= 128

\* The check runs that the checks ahead have been promised.
ChecksInv ==
    /\ receipt.checks <= CheckRuns
    /\ request.approved /\ stage \in Working \cup {"baseline", "verify"} =>
         receipt.checks + Complete <= CheckRuns + Len(results)
    /\ ChecksNeverStarve
    /\ StagedCanContinue

IInv == Types /\ CandidatesInv /\ RoundInv /\ SelectionInv /\ CallsInv /\ ChecksInv

-----------------------------------------------------------------------------

(***************************************************************************)
(* What the steps do, in terms of the fields of the receipt.               *)
(***************************************************************************)

\* A receipt with the same evidence and the same charges.
Like(r, s) ==
    /\ r \in Receipts /\ r.candidates = s.candidates
    /\ r.calls = s.calls /\ r.tokens = s.tokens /\ r.checks = s.checks

\* A check runs, or is refused.
Checked ==
    /\ stage \in {"baseline", "verify"} /\ VerifyChecks > 0 /\ Len(results) < Commands
    /\ \E status \in Statuses : /\ results' = Append(results, status)
                                /\ ~request.approved => status # "passed"
    /\ receipt' \in Receipts
    /\ receipt'.candidates = receipt.candidates /\ receipt'.state = receipt.state
    /\ receipt'.calls = receipt.calls /\ receipt'.tokens = receipt.tokens
    /\ receipt'.selected = receipt.selected /\ receipt'.index = receipt.index
    /\ \/ receipt'.checks = receipt.checks
       \/ receipt.checks < CheckRuns /\ receipt'.checks = receipt.checks + 1
    /\ starved' \in BOOLEAN
    /\ (starved' => starved) \/ (request.approved /\ receipt.checks >= CheckRuns)
    /\ UNCHANGED <<request, stage, disk, plan, output, draft, seen, envVars, sent, early>>

\* The loop is left.
Halts ==
    /\ stage \in Loop /\ stage' = "after"
    /\ Like(receipt', receipt)
    /\ receipt'.selected = NoParent /\ receipt'.state \notin Open
    /\ disk' \in {disk, receipt'}
    /\ UNCHANGED <<request, plan, output, results, draft, seen, envVars, histVars>>

\* The observations of the end, and the return before the loop.
Concludes ==
    /\ stage \in {"baseline", "after", "final_source", "final_rest"}
    /\ stage' \in {"final_source", "final_rest", "ended"}
    /\ Like(receipt', receipt) /\ Earned(receipt')
    /\ stage' = "final_rest" /\ receipt'.selected # NoParent => "source" \notin changed
    /\ stage' # "ended" => receipt'.state \notin Reviewed
    /\ \/ disk' = disk
       \/ disk' = receipt' /\ (receipt'.state \in Reviewed => early = {})
    /\ UNCHANGED <<request, plan, output, results, draft, seen, envVars, histVars>>

\* The run ends where it stands.
Quits ==
    /\ ~Returned /\ stage' \in {"error", "stopped"}
    /\ UNCHANGED <<request, receipt, disk, plan, output, results, draft, seen, envVars, histVars>>

Begins ==
    /\ stage = "top" /\ stage' \in {"strategy", "prepare"}
    /\ plan' \in Plans
    /\ plan'.parent <= Len(receipt.candidates)
    /\ plan'.creating = (request.kind # "edit" /\ plan'.parent = NoParent)
    /\ plan'.mixed = (request.kind = "mixed" /\ plan'.parent = NoParent)
    /\ HasNew(receipt.candidates, plan'.parent)
    /\ stage' = "strategy" => /\ receipt.calls + 2 <= Generations
                              /\ plan'.mixed => receipt.calls + 3 <= Generations
    /\ stage' = "prepare" => /\ receipt.calls + 1 <= Generations
                             /\ plan'.mixed => receipt.calls + 2 <= Generations
    /\ request.approved => receipt.checks + Complete <= CheckRuns
    /\ UNCHANGED <<request, receipt, disk, output, results, draft, seen, envVars, histVars>>

\* A call and its tokens are charged, on disk too.
Reserves(state, tokens) ==
    /\ receipt' \in Receipts /\ disk' = receipt'
    /\ receipt'.candidates = receipt.candidates /\ receipt'.checks = receipt.checks
    /\ receipt'.selected = receipt.selected /\ receipt'.index = receipt.index
    /\ receipt'.state = state
    /\ receipt'.calls = receipt.calls + 1 /\ receipt'.tokens = receipt.tokens + tokens
    /\ UNCHANGED <<request, plan, results, draft, seen, envVars, histVars>>

\* The reply becomes the candidate c.
Pushes(c, state) ==
    /\ stage \in {"chat", "answered"}
    /\ c \in Candidate /\ c.parent = plan.parent
    /\ receipt' \in Receipts /\ disk' = receipt'
    /\ receipt'.candidates = Append(receipt.candidates, c) /\ receipt'.checks = receipt.checks
    /\ receipt'.selected = receipt.selected /\ receipt'.index = receipt.index
    /\ receipt'.calls = receipt.calls /\ receipt'.tokens = receipt.tokens
    /\ receipt'.state = state
    /\ UNCHANGED <<request, plan, output, results, envVars, histVars>>

\* It is not verified: rejected, or staged.
PushesOnly(c, state) ==
    /\ Pushes(c, state)
    /\ stage' \in {"after", "top"}
    /\ stage' = "top" => Number < Generations
    /\ state \notin Open
    /\ state = "awaiting_existing_edit" => plan.mixed
    /\ c.checks = <<>> /\ c.why # "failed" /\ (c.staged => c.parts = {"new"})
    /\ seen' \subseteq Content /\ seen \subseteq seen' /\ c.content \in seen' \cup {NoContent}
    /\ draft' = draft

\* It is verified next.
PushesDraft(c) ==
    /\ Pushes(c, "verifying")
    /\ stage' = "verify"
    /\ ~c.staged /\ c.why = "none" /\ c.checks # <<>>
    /\ c.content \in Content \ seen /\ seen' = seen \cup {c.content}
    /\ request.kind = "mixed" => c.parts = {"new", "edit"}
    /\ draft' \in Candidate /\ draft'.content = c.content /\ draft'.parent = c.parent
    /\ draft'.parts = c.parts /\ ~draft'.staged /\ draft'.why = "none"

\* The verdict.
Settles(c) ==
    /\ stage = "verify" /\ ChecksDone
    /\ c \in Candidate
    /\ c.parent = draft.parent /\ c.content = draft.content /\ c.parts = draft.parts
    /\ ~c.staged
    /\ AllPassed(c.checks) => request.approved
    /\ receipt' \in Receipts /\ disk' = receipt'
    /\ receipt'.candidates = [receipt.candidates EXCEPT ![Pending] = c]
    /\ receipt'.checks = receipt.checks /\ receipt'.index = receipt.index
    /\ receipt'.calls = receipt.calls /\ receipt'.tokens = receipt.tokens
    /\ \/ /\ c.why = "none" /\ stage' = "after"
          /\ receipt'.selected = Pending /\ receipt'.state = "finalizing"
          /\ early' = changed
       \/ /\ c.why # "none" /\ stage' \in {"after", "top"}
          /\ stage' = "top" => Pending < Generations
          /\ receipt'.selected = receipt.selected /\ receipt'.state = receipt.state
          /\ early' = early
    /\ results' = <<>> /\ draft' \in Candidate
    /\ UNCHANGED <<request, plan, output, seen, envVars, sent, starved>>

-----------------------------------------------------------------------------
\* Updates of the receipt, field by field.
LEMMA Charged ==
    ASSUME Types, NEW s \in States, NEW n \in Nat, Reserve(s, n),
           UNCHANGED <<request, plan, results, draft, seen, envVars, histVars>>
    PROVE  Reserves(s, n)
<1>1. receipt' = [receipt EXCEPT !.state = s, !.calls = receipt.calls + 1,
                                 !.tokens = receipt.tokens + n]
  BY DEF Reserve
<1>2. receipt \in Receipts
  BY DEF Types
<1>3. receipt.calls + 1 \in Nat /\ receipt.tokens + n \in Nat
  BY <1>2 DEF Receipts
<1>4. disk' = receipt'
  BY DEF Reserve, Saved
<1> QED
  BY <1>1, <1>2, <1>3, <1>4 DEF Receipts, Reserves

LEMMA HaltEffect ==
    ASSUME Types, stage \in Loop, NEW s \in States \ Open, Halt(s)
    PROVE  Halts
<1>1. receipt' = [receipt EXCEPT !.state = s, !.selected = 0]
  BY DEF Halt, NoParent
<1>2. receipt \in Receipts
  BY DEF Types
<1>3. Like(receipt', receipt) /\ receipt'.state = s /\ receipt'.selected = 0
  BY <1>1, <1>2 DEF Receipts, Like
<1> QED
  BY <1>3 DEF Halt, Go, Halts, NoParent

LEMMA ObservationEffect ==
    ASSUME Types, stage \in Loop, ObservationFails
    PROVE  Halts
<1>1. CASE IndexFails
  <2>1. receipt' = [receipt EXCEPT !.state = "git_index_changed_or_unavailable",
                                   !.selected = 0, !.index = "failed"]
    BY <1>1 DEF IndexFails, NoParent
  <2>2. receipt \in Receipts
    BY DEF Types
  <2>3. /\ Like(receipt', receipt) /\ receipt'.selected = 0
        /\ receipt'.state = "git_index_changed_or_unavailable"
    BY <2>1, <2>2 DEF Receipts, Like, States
  <2> QED
    BY <1>1, <2>3 DEF IndexFails, Go, Halts, NoParent, Open, Reviewed
<1>2. ASSUME NEW s \in {"source_changed_or_unavailable", "baseline_changed_or_unavailable"},
             Halt(s)
      PROVE  Halts
  <2>1. s \in States \ Open
    BY DEF States, Open, Reviewed
  <2> QED
    BY <1>2, <2>1, HaltEffect
<1> QED
  BY <1>1, <1>2 DEF ObservationFails

LEMMA HaltStep ==
    ASSUME Types, stage \in Loop,
           NEW s \in {"search_stopped", "resource_pressure", "runtime_identity_changed",
                      "budget_exhausted", "candidate_changed"},
           Halt(s)
    PROVE  Halts
<1>1. s \in States \ Open
  BY DEF States, Open, Reviewed
<1> QED
  BY <1>1, HaltEffect

LEMMA HaltCases ==
    ASSUME Types,
           \/ TopHalts \/ StrategyHalts \/ StrategyRejected
           \/ PrepareHalts \/ AdmitHalts \/ ReplyDiscarded
    PROVE  Halts
<1>1. stage \in Loop
  BY DEF TopHalts, StrategyHalts, StrategyRejected, PrepareHalts, AdmitHalts, ReplyDiscarded,
         Loop, Working
<1>2. CASE TopHalts
  <2>1. \/ ObservationFails \/ Halt("search_stopped") \/ Halt("budget_exhausted")
        \/ Halt("resource_pressure") \/ Halt("candidate_changed")
    BY <1>2 DEF TopHalts
  <2> QED
    BY <1>1, <2>1, HaltStep, ObservationEffect
<1>3. CASE StrategyHalts
  <2>1. \/ \E s \in {"search_stopped", "resource_pressure", "runtime_identity_changed"} : Halt(s)
        \/ Halt("budget_exhausted")
    BY <1>3 DEF StrategyHalts
  <2> QED
    BY <1>1, <2>1, HaltStep
<1>4. CASE StrategyRejected
  <2>1. \/ \E s \in {"search_stopped", "runtime_identity_changed"} : Halt(s)
        \/ Halt("resource_pressure") \/ ObservationFails
    BY <1>4 DEF StrategyRejected
  <2> QED
    BY <1>1, <2>1, HaltStep, ObservationEffect
<1>5. CASE PrepareHalts
  <2>1. Halt("budget_exhausted") \/ Halt("search_stopped") \/ Halt("candidate_changed")
    BY <1>5 DEF PrepareHalts
  <2> QED
    BY <1>1, <2>1, HaltStep
<1>6. CASE AdmitHalts
  <2>1. \/ \E s \in {"resource_pressure", "runtime_identity_changed"} : Halt(s)
        \/ Halt("budget_exhausted")
    BY <1>6 DEF AdmitHalts
  <2> QED
    BY <1>1, <2>1, HaltStep
<1>7. CASE ReplyDiscarded
  BY <1>1, <1>7, HaltStep DEF ReplyDiscarded
<1> QED
  BY <1>2, <1>3, <1>4, <1>5, <1>6, <1>7

LEMMA CheckEffect ==
    ASSUME Types, RunCheck
    PROVE  Checked
<1> DEFINE refused == PreparationFailed(Len(results) + 1) \/ ~request.approved
           room == receipt.checks < CheckRuns /\ ~timeUp
<1>1. receipt \in Receipts /\ results \in Seq(Statuses) /\ starved \in BOOLEAN
  BY DEF Types
<1>2. Commands \in Nat /\ CheckRuns \in Nat /\ receipt.checks \in Nat /\ Len(results) \in Nat
  BY <1>1, RunAssumption DEF Commands, Receipts
<1>3. Len(results) < Commands
  BY <1>2 DEF RunCheck
<1>4. /\ stage \in {"baseline", "verify"} /\ VerifyChecks > 0
      /\ UNCHANGED <<request, stage, disk, plan, output, draft, seen, envVars, sent, early>>
  BY DEF RunCheck
<1>5. CASE UNCHANGED <<receipt, starved>>
  <2>1. \E status \in {"not_run", "unavailable"} : results' = Append(results, status)
    <3>1. CASE refused
      BY <1>5, <3>1 DEF RunCheck
    <3>2. CASE ~refused /\ results' = Append(results, "unavailable")
      BY <3>2
    <3>3. CASE ~refused /\ results' = Append(results, "not_run")
      BY <3>3
    <3>4. \/ refused
          \/ ~refused /\ results' = Append(results, "unavailable")
          \/ ~refused /\ results' = Append(results, "not_run")
          \/ receipt' = [receipt EXCEPT !.checks = receipt.checks + 1]
      BY DEF RunCheck
    <3>5. receipt' # [receipt EXCEPT !.checks = receipt.checks + 1]
      BY <1>1, <1>2, <1>5 DEF Receipts
    <3> QED
      BY <3>1, <3>2, <3>3, <3>4, <3>5
  <2> QED
    BY <1>1, <1>3, <1>4, <1>5, <2>1 DEF Checked, Statuses
<1>6. CASE ~refused /\ ~room /\ results' = Append(results, "not_run")
           /\ starved' = (starved \/ ~timeUp) /\ UNCHANGED receipt
  BY <1>1, <1>2, <1>3, <1>4, <1>6 DEF Checked, Statuses
<1>7. CASE /\ ~refused /\ room /\ UNCHANGED starved
           /\ \E status \in Outcomes(Len(results) + 1) : results' = Append(results, status)
           /\ receipt' = [receipt EXCEPT !.checks = receipt.checks + 1]
  <2>1. Outcomes(Len(results) + 1) \subseteq Statuses
    BY DEF Outcomes, Statuses
  <2> receipt' = [receipt EXCEPT !.checks = receipt.checks + 1] /\ receipt.checks + 1 \in Nat
    BY <1>2, <1>7
  <2>2. /\ receipt' \in Receipts
        /\ receipt'.candidates = receipt.candidates /\ receipt'.state = receipt.state
        /\ receipt'.calls = receipt.calls /\ receipt'.tokens = receipt.tokens
        /\ receipt'.selected = receipt.selected /\ receipt'.index = receipt.index
        /\ receipt'.checks = receipt.checks + 1
    BY <1>1 DEF Receipts
  <2> QED
    BY <1>1, <1>3, <1>4, <1>7, <2>1, <2>2 DEF Checked
<1>8. \/ UNCHANGED <<receipt, starved>>
      \/ /\ ~refused /\ ~room /\ results' = Append(results, "not_run")
         /\ starved' = (starved \/ ~timeUp) /\ UNCHANGED receipt
      \/ /\ ~refused /\ room /\ UNCHANGED starved
         /\ \E status \in Outcomes(Len(results) + 1) : results' = Append(results, status)
         /\ receipt' = [receipt EXCEPT !.checks = receipt.checks + 1]
  BY DEF RunCheck
<1> QED
  BY <1>5, <1>6, <1>7, <1>8

LEMMA QuitEffect ==
    ASSUME BaselineModified \/ PrepareFails \/ Stops
    PROVE  Quits
BY DEF BaselineModified, PrepareFails, Stops, Quits, Go, Returned

\* An observation of the end leaves the receipt or takes the selection back.
Closes(r, s, ok) ==
    /\ Like(r, s) /\ Earned(r) /\ r.state \notin Reviewed
    /\ r.selected # NoParent => ok /\ r = s

LEMMA Unselected ==
    ASSUME NEW r, r.selected = NoParent, r.state \notin Open
    PROVE  Earned(r)
BY DEF Earned

LEMMA WithBaselineCloses ==
    ASSUME NEW r \in Receipts, Earned(r), r.state \notin Reviewed, NEW ok \in BOOLEAN
    PROVE  Closes(WithBaseline(r, ok), r, ok)
<1>1. CASE ok
  BY <1>1 DEF WithBaseline, Closes, Like
<1>2. CASE ~ok
  <2> DEFINE s == IF r.state = "finalizing" THEN "baseline_changed_or_unavailable" ELSE r.state
             n == [r EXCEPT !.selected = 0, !.state = s]
  <2>1. WithBaseline(r, ok) = n
    BY <1>2 DEF WithBaseline, NoParent
  <2>2. s \in States
    BY DEF Receipts, States
  <2>3. Like(n, r) /\ n.selected = 0 /\ n.state = s /\ n.index = r.index
    <3> HIDE DEF s
    <3> QED
      BY <2>2 DEF Receipts, Like
  <2>4. Earned(n)
    <3>1. s \notin Open
      BY DEF Open, Reviewed
    <3> HIDE DEF s, n
    <3> QED
      BY <2>3, <3>1, Unselected DEF NoParent
  <2> QED
    BY <2>1, <2>3, <2>4 DEF Closes, NoParent, Reviewed
<1> QED
  BY <1>1, <1>2

LEMMA WithCandidateCloses ==
    ASSUME NEW r \in Receipts, Earned(r), r.state \notin Reviewed, NEW ok \in BOOLEAN
    PROVE  Closes(WithCandidate(r, ok), r, ok)
<1>1. CASE ok \/ r.selected = NoParent
  BY <1>1 DEF WithCandidate, Closes, Like
<1>2. CASE ~(ok \/ r.selected = NoParent)
  <2> DEFINE n == [r EXCEPT !.selected = 0, !.state = "candidate_changed"]
  <2>1. WithCandidate(r, ok) = n
    BY <1>2 DEF WithCandidate, NoParent
  <2>2. Like(n, r) /\ n.selected = 0 /\ n.state = "candidate_changed"
    BY DEF Receipts, Like, States
  <2>3. Earned(n)
    BY <2>2, Unselected DEF NoParent, Open, Reviewed
  <2> QED
    BY <2>1, <2>2, <2>3 DEF Closes, NoParent, Reviewed
<1> QED
  BY <1>1, <1>2

LEMMA WithIndexCloses ==
    ASSUME NEW r \in Receipts, Earned(r), r.state \notin Reviewed, NEW ok \in BOOLEAN
    PROVE  Closes(WithIndex(r, ok), r, ok)
<1>1. CASE ok \/ r.index = "failed"
  <2>1. r.index = "failed" => r.selected = NoParent
    BY DEF Earned
  <2> QED
    BY <1>1, <2>1 DEF WithIndex, Closes, Like
<1>2. CASE ~(ok \/ r.index = "failed")
  <2> DEFINE n == [r EXCEPT !.state = "git_index_changed_or_unavailable", !.selected = 0,
                            !.index = "failed"]
  <2>1. WithIndex(r, ok) = n
    BY <1>2 DEF WithIndex, NoParent
  <2>2. Like(n, r) /\ n.selected = 0 /\ n.state = "git_index_changed_or_unavailable"
    BY DEF Receipts, Like, States
  <2>3. Earned(n)
    BY <2>2, Unselected DEF NoParent, Open, Reviewed
  <2> QED
    BY <2>1, <2>2, <2>3 DEF Closes, NoParent, Reviewed
<1> QED
  BY <1>1, <1>2

LEMMA ConclusionEarned ==
    ASSUME NEW r \in Receipts, Earned(r)
    PROVE  Like(Conclusion(r), r) /\ Earned(Conclusion(r)) /\ Conclusion(r).selected = r.selected
<1>1. CASE r.state # "finalizing" \/ r.selected = NoParent
  BY <1>1 DEF Conclusion, Like
<1>2. CASE ~(r.state # "finalizing" \/ r.selected = NoParent)
  <2> DEFINE ok == AllPassed(r.candidates[r.selected].checks)
             s == IF ok THEN "review_ready" ELSE "review_unverified"
             n == [r EXCEPT !.state = s]
  <2>1. Conclusion(r) = n
    BY <1>2 DEF Conclusion
  <2>2. s \in Reviewed /\ (s = "review_ready" => ok)
    BY DEF Reviewed
  <2>3. /\ Like(n, r) /\ n.selected = r.selected /\ n.state = s /\ n.index = r.index
        /\ n.candidates = r.candidates
    <3> HIDE DEF s
    <3> QED
      BY <2>2 DEF Receipts, Like, States, Open
  <2>4. Earned(n)
    <3> HIDE DEF s, n
    <3> QED
      BY <1>2, <2>2, <2>3 DEF Earned, Open
  <2> QED
    BY <2>1, <2>3, <2>4
<1> QED
  BY <1>1, <1>2

LEMMA FinalReviewEffect ==
    ASSUME Types, SelectionInv, FinalReview
    PROVE  Concludes
<1>1. PICK b, c, i \in BOOLEAN :
         /\ b => "baseline" \notin changed
         /\ i => "index" \notin changed
         /\ receipt' = Conclusion(WithIndex(WithCandidate(WithBaseline(receipt, b), c), i))
  BY DEF FinalReview
<1> DEFINE r1 == WithBaseline(receipt, b)
           r2 == WithCandidate(r1, c)
           r3 == WithIndex(r2, i)
<1>2. receipt \in Receipts /\ Earned(receipt) /\ receipt.state \notin Reviewed
  BY DEF Types, SelectionInv, FinalReview
<1>3. Closes(r1, receipt, b)
  BY <1>2, WithBaselineCloses
<1>4. Closes(r2, r1, c)
  <2> HIDE DEF r1
  <2>1. r1 \in Receipts /\ Earned(r1) /\ r1.state \notin Reviewed
    BY <1>3 DEF Closes, Like
  <2> QED
    BY <2>1, WithCandidateCloses
<1>5. Closes(r3, r2, i)
  <2> HIDE DEF r2
  <2>1. r2 \in Receipts /\ Earned(r2) /\ r2.state \notin Reviewed
    BY <1>4 DEF Closes, Like
  <2> QED
    BY <2>1, WithIndexCloses
<1> HIDE DEF r1, r2, r3
<1>6. Like(receipt', r3) /\ Earned(receipt') /\ receipt'.selected = r3.selected
  <2>1. receipt' = Conclusion(r3)
    BY <1>1 DEF r1, r2, r3
  <2>2. r3 \in Receipts /\ Earned(r3)
    BY <1>5 DEF Closes, Like
  <2> QED
    BY <2>1, <2>2, ConclusionEarned
<1>7. Like(receipt', receipt)
  BY <1>3, <1>4, <1>5, <1>6 DEF Closes, Like
<1>8. receipt'.state \in Reviewed => early = {}
  <2>1. SUFFICES ASSUME receipt'.selected # NoParent
                 PROVE  early = {}
    BY <1>6 DEF Earned, Open
  <2>2. b /\ i /\ receipt.selected # NoParent
    BY <1>3, <1>4, <1>5, <1>6, <2>1 DEF Closes
  <2>3. "baseline" \notin changed /\ "index" \notin changed /\ "source" \notin early
    BY <1>1, <2>2 DEF FinalReview, SelectionInv
  <2> QED
    BY <2>3 DEF Types
<1>9. disk' = receipt'
  BY DEF FinalReview, Saved
<1> QED
  BY <1>6, <1>7, <1>8, <1>9 DEF FinalReview, Concludes, Go

LEMMA ConcludeCases ==
    ASSUME Types, SelectionInv, BaselineReturns \/ AfterLoop \/ FinalSource \/ FinalReview
    PROVE  Concludes
<1>1. receipt \in Receipts /\ Earned(receipt)
  BY DEF Types, SelectionInv
<1>2. CASE BaselineReturns
  <2>1. PICK s \in {"source_changed_or_unavailable", "dependency_unavailable",
                    "git_index_changed_or_unavailable"} :
           receipt' = [receipt EXCEPT !.state = s,
                          !.index = IF s = "git_index_changed_or_unavailable"
                                    THEN "failed" ELSE receipt.index]
    BY <1>2 DEF BaselineReturns
  <2> DEFINE x == IF s = "git_index_changed_or_unavailable" THEN "failed" ELSE receipt.index
  <2>2. x \in {"passed", "failed"} /\ s \in States \ Open
    BY <1>1 DEF Receipts, States, Open, Reviewed
  <2>3. receipt' = [receipt EXCEPT !.state = s, !.index = x]
    BY <2>1
  <2>4. Like(receipt', receipt) /\ receipt'.state = s /\ receipt'.selected = receipt.selected
    <3> HIDE DEF x
    <3> QED
      BY <1>1, <2>2, <2>3 DEF Receipts, Like
  <2>5. receipt.selected = NoParent
    BY <1>2 DEF BaselineReturns, SelectionInv
  <2>6. Earned(receipt')
    BY <2>2, <2>4, <2>5, Unselected
  <2> QED
    BY <1>2, <2>2, <2>4, <2>5, <2>6 DEF BaselineReturns, Concludes, Go, Saved, Open
<1>3. ASSUME AfterLoop \/ FinalSource,
             \/ UNCHANGED receipt
             \/ \E s \in States \ Open :
                   receipt' = [receipt EXCEPT !.selected = NoParent, !.state = s]
      PROVE  Like(receipt', receipt) /\ Earned(receipt') /\ receipt'.state \notin Reviewed
  <2>1. CASE UNCHANGED receipt
    <3>1. Like(receipt', receipt)
      BY <1>1, <2>1 DEF Like
    <3>2. receipt.state \notin Reviewed
      BY <1>3 DEF SelectionInv, AfterLoop, FinalSource
    <3> QED
      BY <1>1, <2>1, <3>1, <3>2 DEF Earned
  <2>2. ASSUME NEW s \in States \ Open,
               receipt' = [receipt EXCEPT !.selected = 0, !.state = s]
        PROVE  Like(receipt', receipt) /\ Earned(receipt') /\ receipt'.state \notin Reviewed
    <3>1. Like(receipt', receipt) /\ receipt'.selected = 0 /\ receipt'.state = s
      BY <1>1, <2>2 DEF Receipts, Like
    <3> QED
      BY <2>2, <3>1, Unselected DEF NoParent, Open
  <2> QED
    BY <1>3, <2>1, <2>2 DEF NoParent
<1>4. CASE AfterLoop
  <2>1. \/ UNCHANGED receipt
        \/ \E s \in States \ Open :
              receipt' = [receipt EXCEPT !.selected = NoParent, !.state = s]
    <3>1. CASE UNCHANGED receipt
      BY <3>1
    <3>2. CASE receipt' = [receipt EXCEPT !.selected = NoParent,
                                          !.state = "model_identity_changed"]
      BY <3>2 DEF States, Open, Reviewed
    <3>3. CASE /\ receipt.selected = NoParent
               /\ receipt' = [receipt EXCEPT !.state =
                    IF receipt.state \notin {"generating", "verifying"} THEN receipt.state
                    ELSE IF Exhausted THEN "budget_exhausted" ELSE "no_verified_candidate"]
      <4> DEFINE s == IF receipt.state \notin {"generating", "verifying"} THEN receipt.state
                      ELSE IF Exhausted THEN "budget_exhausted" ELSE "no_verified_candidate"
      <4>1. s \in States \ Open
        BY <1>1, <3>3 DEF Receipts, States, Open, Reviewed, Earned
      <4>2. receipt' = [receipt EXCEPT !.state = s]
        BY <3>3
      <4> HIDE DEF s
      <4>3. receipt' = [receipt EXCEPT !.selected = NoParent, !.state = s]
        BY <1>1, <3>3, <4>2 DEF Receipts
      <4> QED
        BY <4>1, <4>3
    <3> QED
      BY <1>4, <3>1, <3>2, <3>3 DEF AfterLoop
  <2>2. Like(receipt', receipt) /\ Earned(receipt') /\ receipt'.state \notin Reviewed
    BY <1>3, <1>4, <2>1
  <2> QED
    BY <1>4, <2>2 DEF AfterLoop, Concludes, Go
<1>5. CASE FinalSource
  <2>1. \/ UNCHANGED receipt
        \/ \E s \in States \ Open :
              receipt' = [receipt EXCEPT !.selected = NoParent, !.state = s]
    BY <1>5 DEF FinalSource, States, Open, Reviewed
  <2>2. Like(receipt', receipt) /\ Earned(receipt') /\ receipt'.state \notin Reviewed
    BY <1>3, <1>5, <2>1
  <2>3. receipt'.selected # NoParent => "source" \notin changed
    BY <1>1, <1>5 DEF FinalSource, NoParent, Receipts
  <2> QED
    BY <1>5, <2>2, <2>3 DEF FinalSource, Concludes, Go
<1> QED
  BY <1>2, <1>4, <1>5, FinalReviewEffect

\* The constants, as the proofs use them.
LEMMA Constants ==
    /\ Generations \in Nat /\ Generations > 0 /\ Tokens \in Nat /\ OutputCap \in Nat
    /\ Base \in Content /\ NoContent \notin Content
    /\ CheckRuns \in Nat /\ Commands \in Nat /\ Complete \in Nat
    /\ VerifyChecks > 0 => Complete = Commands
    /\ VerifyChecks \in Nat /\ (~(VerifyChecks > 0) => VerifyChecks = 0 /\ Complete = 0)
    /\ \A r \in Requests : /\ r.kind \in Kinds /\ r.approved \in BOOLEAN
                           /\ r.approved => CheckRuns >= 2 * Complete
<1>1. /\ Generations \in 1 .. 8 /\ Tokens \in 128 .. 16384 /\ VerifyChecks \in 0 .. 4
      /\ CheckRuns \in 0 .. 32
  BY RunAssumption
<1>2. Commands \in Nat
  BY <1>1 DEF Commands
<1>3. /\ Complete \in Nat /\ (VerifyChecks > 0 => Complete = Commands)
      /\ ~(VerifyChecks > 0) => VerifyChecks = 0 /\ Complete = 0
  BY <1>1, <1>2 DEF Complete
<1>4. \A r \in Requests : /\ r.kind \in Kinds /\ r.approved \in BOOLEAN
                          /\ r.approved => CheckRuns >= 2 * Complete
  BY RunAssumption
<1> QED
  BY <1>1, <1>2, <1>3, <1>4, RunAssumption

\* search::next goes on from the original source or from a candidate that was
\* tried; in a mixed creation from one that has the new file.
LEMMA Decides ==
    ASSUME Types, CandidatesInv
    PROVE  LET d == ThisDecision
           IN  /\ d.action \in Actions /\ d.parent \in Nat
               /\ d.parent <= Len(receipt.candidates)
               /\ HasNew(receipt.candidates, d.parent)
<1> DEFINE cs == receipt.candidates
           last == cs[Len(cs)]
           Fine(d) == /\ d.action \in Actions /\ d.parent \in Nat /\ d.parent <= Len(cs)
                      /\ HasNew(cs, d.parent)
<1>1. cs \in Seq(Candidate) /\ Len(cs) \in Nat
  BY DEF Types, Receipts
<1>2. \A a \in Actions : Fine(Decision(a, NoParent))
  BY <1>1 DEF Decision, NoParent, HasNew
<1>3. cs # <<>> => Len(cs) \in DOMAIN cs /\ Len(cs) # 0
  BY <1>1
<1>4. cs # <<>> =>
        /\ last.parent \in Nat /\ last.parent < Len(cs) /\ HasNew(cs, last.parent)
        /\ last.staged \/ last.why = "failed" => HasNew(cs, Len(cs))
  <2>1. SUFFICES ASSUME cs # <<>>
                 PROVE  /\ last.parent \in Nat /\ last.parent < Len(cs) /\ HasNew(cs, last.parent)
                        /\ last.staged \/ last.why = "failed" => HasNew(cs, Len(cs))
    OBVIOUS
  <2>2. last \in Candidate
    BY <1>1, <1>3, <2>1
  <2>3. CandidateOK(cs, seen, Len(cs))
    BY <1>3, <2>1 DEF CandidatesInv
  <2> QED
    BY <2>2, <2>3 DEF Candidate, CandidateOK, HasNew
<1>5. Fine(NextDecision(cs))
  <2>1. CASE cs = <<>>
    BY <1>2, <2>1 DEF NextDecision, Actions
  <2>2. CASE cs # <<>> /\ last.staged /\ last.why = "none"
    <3>1. NextDecision(cs) = Decision("continue", Len(cs))
      BY <2>2 DEF NextDecision
    <3> QED
      BY <1>1, <1>4, <2>2, <3>1 DEF Decision, Actions
  <2>3. CASE cs # <<>> /\ ~(last.staged /\ last.why = "none")
    <3>1. \/ NextDecision(cs) = Decision("stop", NoParent)
          \/ NextDecision(cs) = Decision("restart", NoParent)
          \/ NextDecision(cs) = Decision("repair", Len(cs)) /\ last.why = "failed"
          \/ NextDecision(cs) = Decision("repair", last.parent)
      BY <2>3 DEF NextDecision
    <3> QED
      BY <1>1, <1>2, <1>4, <2>3, <3>1 DEF Decision, Actions
  <2> QED
    BY <2>1, <2>2, <2>3
<1>6. ThisDecision \in {NextDecision(cs), Decision("initial", NoParent)}
  BY DEF ThisDecision, Decide
<1> QED
  BY <1>2, <1>5, <1>6 DEF Actions

LEMMA BeginEffect ==
    ASSUME Types, CandidatesInv, ChecksInv, Begin
    PROVE  Begins
<1> DEFINE d == ThisDecision
<1>1. /\ d.action \in Actions /\ d.parent \in Nat
      /\ d.parent <= Len(receipt.candidates)
      /\ HasNew(receipt.candidates, d.parent)
  BY Decides
<1>2. /\ stage = "top" /\ BudgetFits(d)
      /\ plan' = [action |-> d.action, parent |-> d.parent, creating |-> Creating(d),
                  mixed |-> IsMixed(d)]
      /\ stage' = IF d.action = "restart" THEN "strategy" ELSE "prepare"
      /\ UNCHANGED <<request, receipt, disk, output, results, draft, seen, envVars, histVars>>
  BY DEF Begin, Go
<1> HIDE DEF d
<1>3. /\ Creating(d) = (request.kind # "edit" /\ d.parent = NoParent)
      /\ IsMixed(d) = (request.kind = "mixed" /\ d.parent = NoParent)
  BY DEF Creating, IsMixed
<1>4. /\ plan' \in Plans /\ plan'.parent = d.parent
      /\ plan'.creating = Creating(d) /\ plan'.mixed = IsMixed(d)
  BY <1>1, <1>2, <1>3 DEF Plans
<1>5. receipt.calls \in Nat /\ receipt.checks \in Nat
  BY DEF Types, Receipts
<1>6. /\ BudgetAllows(d.action, receipt.calls, Left)
      /\ IsMixed(d) => MixedFits(d.action, receipt.calls, Left)
  BY <1>2 DEF BudgetFits
<1>7. d.action = "restart" => /\ receipt.calls + 2 <= Generations
                              /\ IsMixed(d) => receipt.calls + 3 <= Generations
  BY <1>5, <1>6 DEF BudgetAllows, MixedFits
<1>8. d.action # "restart" => /\ receipt.calls + 1 <= Generations
                              /\ IsMixed(d) => receipt.calls + 2 <= Generations
  BY <1>5, <1>6 DEF BudgetAllows, MixedFits
<1>9. request.approved => receipt.checks + Complete <= CheckRuns
  <2>1. CASE VerifyChecks > 0
    BY <1>2, <1>5, <2>1, Constants DEF BudgetFits, Minus
  <2>2. CASE ~(VerifyChecks > 0)
    BY <1>5, <2>2, Constants DEF ChecksInv
  <2> QED
    BY <2>1, <2>2
<1> QED
  BY <1>1, <1>2, <1>3, <1>4, <1>7, <1>8, <1>9 DEF Begins

LEMMA Appended ==
    ASSUME Types, NEW c \in Candidate, NEW s \in States, c.parent = plan.parent,
           stage \in {"chat", "answered"},
           receipt' = [receipt EXCEPT !.candidates = Push(c), !.state = s], Saved,
           UNCHANGED <<request, plan, output, results, envVars, histVars>>
    PROVE  Pushes(c, s)
<1>1. receipt \in Receipts /\ receipt.candidates \in Seq(Candidate)
  BY DEF Types, Receipts
<1>2. Append(receipt.candidates, c) \in Seq(Candidate)
  BY <1>1
<1>3. /\ receipt' \in Receipts
      /\ receipt'.candidates = Append(receipt.candidates, c) /\ receipt'.checks = receipt.checks
      /\ receipt'.selected = receipt.selected /\ receipt'.index = receipt.index
      /\ receipt'.calls = receipt.calls /\ receipt'.tokens = receipt.tokens
      /\ receipt'.state = s
  BY <1>1, <1>2 DEF Receipts, Push
<1> QED
  BY <1>3 DEF Pushes, Saved

LEMMA RejectEffect ==
    ASSUME Types, RoundInv, ResidentLost \/ ParentChanged \/ ReplyRejected
    PROVE  \E c, s : PushesOnly(c, s)
<1>1. /\ draft \in Candidate /\ draft.parent = plan.parent /\ ~draft.staged
      /\ draft.content = NoContent /\ draft.checks = <<>>
  BY DEF Types, RoundInv, Fresh, ResidentLost, ParentChanged, ReplyRejected
<1>2. receipt \in Receipts /\ Len(receipt.candidates) \in Nat
  BY DEF Types, Receipts
<1>3. ASSUME NEW w \in {"reply", "no_change"}, NEW a \in BOOLEAN,
             NEW c, c = [draft EXCEPT !.why = w, !.again = a]
      PROVE  /\ c \in Candidate /\ c.parent = plan.parent /\ ~c.staged /\ c.why # "failed"
             /\ c.content = NoContent /\ c.checks = <<>>
  BY <1>1, <1>3 DEF Candidate, Rejections
<1>4. ASSUME NEW c, NEW s \in States \ Open, c \in Candidate, c.parent = plan.parent,
             ~c.staged, c.why # "failed", c.content = NoContent, c.checks = <<>>,
             receipt' = [receipt EXCEPT !.candidates = Push(c), !.state = s],
             s # "awaiting_existing_edit", stage' \in {"after", "top"},
             stage' = "top" => Number < Generations
      PROVE  PushesOnly(c, s)
  <2>1. Pushes(c, s)
    BY <1>4, Appended DEF ResidentLost, ParentChanged, ReplyRejected
  <2>2. seen \subseteq Content /\ UNCHANGED <<seen, draft>>
    BY DEF Types, ResidentLost, ParentChanged, ReplyRejected
  <2> QED
    BY <1>4, <2>1, <2>2 DEF PushesOnly
<1>5. CASE ResidentLost \/ ParentChanged
  <2> DEFINE c == [draft EXCEPT !.why = "reply"]
  <2>1. /\ c \in Candidate /\ c.parent = plan.parent /\ ~c.staged /\ c.why # "failed"
        /\ c.content = NoContent /\ c.checks = <<>>
    BY <1>1 DEF Candidate, Rejections
  <2>2. PICK s \in {"resource_pressure", "candidate_changed"} :
           receipt' = [receipt EXCEPT !.candidates = Push(c), !.state = s]
    BY <1>5 DEF ResidentLost, ParentChanged
  <2>3. s \in States \ Open /\ s # "awaiting_existing_edit"
    BY DEF States, Open, Reviewed
  <2>4. stage' = "after"
    BY <1>5 DEF ResidentLost, ParentChanged, Go
  <2> HIDE DEF c
  <2> QED
    BY <1>4, <2>1, <2>2, <2>3, <2>4
<1>6. CASE ReplyRejected
  <2>1. PICK w \in {"reply", "no_change"}, a \in BOOLEAN :
           receipt' = [receipt EXCEPT !.candidates = Push([draft EXCEPT !.why = w, !.again = a])]
    BY <1>6 DEF ReplyRejected
  <2> DEFINE c == [draft EXCEPT !.why = w, !.again = a]
  <2>2. /\ c \in Candidate /\ c.parent = plan.parent /\ ~c.staged /\ c.why # "failed"
        /\ c.content = NoContent /\ c.checks = <<>>
    BY <1>3
  <2>3. receipt.state = "generating"
    BY <1>6 DEF ReplyRejected, RoundInv
  <2> HIDE DEF c
  <2>4. receipt' = [receipt EXCEPT !.candidates = Push(c), !.state = "generating"]
    BY <1>2, <2>1, <2>3 DEF c, Receipts
  <2>5. "generating" \in States \ Open
    BY DEF States, Open, Reviewed
  <2>6. stage' = NextRound
    BY <1>6 DEF ReplyRejected, Go
  <2>7. stage' \in {"after", "top"} /\ (stage' = "top" => Number < Generations)
    BY <1>2, <2>6, Constants DEF NextRound, Number
  <2> QED
    BY <1>4, <2>2, <2>4, <2>5, <2>7
<1> QED
  BY <1>5, <1>6

LEMMA MaterializeEffect ==
    ASSUME Types, RoundInv, Materialize
    PROVE  (\E c, s : PushesOnly(c, s)) \/ (\E c : PushesDraft(c))
<1>1. /\ draft \in Candidate /\ draft.parent = plan.parent /\ Fresh
      /\ draft.content = NoContent /\ draft.checks = <<>> /\ draft.parts = Parts(plan.parent)
  BY DEF Types, RoundInv, Materialize
<1>2. receipt \in Receipts /\ Len(receipt.candidates) \in Nat /\ receipt.state = "generating"
  BY DEF Types, Receipts, RoundInv, Materialize
<1>3. /\ plan \in Plans /\ request \in Requests
      /\ plan.creating = (request.kind # "edit" /\ plan.parent = NoParent)
      /\ plan.mixed = (request.kind = "mixed" /\ plan.parent = NoParent)
      /\ HasNew(receipt.candidates, plan.parent)
  BY DEF Types, RoundInv, Materialize, Working
<1> DEFINE part == IF plan.creating THEN "new" ELSE "edit"
           made(x) == [draft EXCEPT !.content = x, !.parts = draft.parts \cup {part}]
<1>4. PICK x \in Content :
        /\ seen' = seen \cup {x}
        /\ \/ /\ x \in seen
              /\ receipt' = [receipt EXCEPT
                     !.candidates = Push([made(x) EXCEPT !.why = "repeated"])]
              /\ Go(NextRound) /\ UNCHANGED draft
           \/ /\ x \notin seen /\ plan.mixed
              /\ receipt' = [receipt EXCEPT
                     !.candidates = Push([made(x) EXCEPT !.staged = TRUE]),
                     !.state = "awaiting_existing_edit"]
              /\ Go(NextRound) /\ UNCHANGED draft
           \/ /\ x \notin seen /\ ~plan.mixed
              /\ draft' = made(x)
              /\ receipt' = [receipt EXCEPT
                     !.candidates = Push([made(x) EXCEPT !.checks = <<"unavailable">>]),
                     !.state = "verifying"]
              /\ Go("verify")
  BY DEF Materialize, IsRepeat
<1>5. /\ stage = "answered" /\ Saved
      /\ UNCHANGED <<request, plan, output, results, envVars, histVars>>
  BY DEF Materialize
<1>6. seen \subseteq Content /\ x \in seen' /\ seen \subseteq seen' /\ seen' \subseteq Content
  BY <1>4 DEF Types
<1>7. NextRound \in {"after", "top"} /\ (NextRound = "top" => Number < Generations)
  BY <1>2, Constants DEF NextRound, Number
<1>8. part \in {"new", "edit"}
  OBVIOUS
<1> HIDE DEF part
<1>9. /\ made(x) \in Candidate /\ made(x).parent = plan.parent /\ made(x).content = x
      /\ made(x).parts = draft.parts \cup {part} /\ made(x).checks = <<>>
      /\ ~made(x).staged /\ made(x).why = "none"
  BY <1>1, <1>8 DEF Candidate, Fresh
<1>10. plan.mixed => made(x).parts = {"new"}
  <2>1. plan.mixed => Parts(plan.parent) = {} /\ part = "new"
    BY <1>3 DEF Parts, part
  <2> QED
    BY <1>1, <1>9, <2>1
<1>11. request.kind = "mixed" /\ ~plan.mixed => made(x).parts = {"new", "edit"}
  <2>1. SUFFICES ASSUME request.kind = "mixed", ~plan.mixed
                 PROVE  made(x).parts = {"new", "edit"}
    OBVIOUS
  <2>2. plan.parent # NoParent /\ part = "edit"
    BY <1>3, <2>1 DEF part
  <2>3. "new" \in draft.parts
    BY <1>1, <1>3, <2>1, <2>2 DEF HasNew, Parts
  <2>4. draft.parts \subseteq {"new", "edit"}
    BY <1>1 DEF Candidate
  <2> QED
    BY <1>9, <2>2, <2>3, <2>4
<1> HIDE DEF made
<1>12. CASE x \in seen /\ Go(NextRound) /\ UNCHANGED draft
            /\ receipt' = [receipt EXCEPT
                   !.candidates = Push([made(x) EXCEPT !.why = "repeated"])]
  <2> DEFINE c == [made(x) EXCEPT !.why = "repeated"]
  <2>1. /\ c \in Candidate /\ c.parent = plan.parent /\ c.content = x /\ c.checks = <<>>
        /\ ~c.staged /\ c.why = "repeated"
    BY <1>9 DEF Candidate, Rejections
  <2> HIDE DEF c
  <2>2. receipt' = [receipt EXCEPT !.candidates = Push(c), !.state = "generating"]
    BY <1>2, <1>12 DEF c, Receipts
  <2>3. "generating" \in States \ Open
    BY DEF States, Open, Reviewed
  <2>4. Pushes(c, "generating")
    BY <1>5, <2>1, <2>2, <2>3, Appended
  <2>5. PushesOnly(c, "generating")
    BY <1>6, <1>7, <1>12, <2>1, <2>3, <2>4 DEF PushesOnly, Go
  <2> QED
    BY <2>5
<1>13. CASE plan.mixed /\ Go(NextRound) /\ UNCHANGED draft
            /\ receipt' = [receipt EXCEPT
                   !.candidates = Push([made(x) EXCEPT !.staged = TRUE]),
                   !.state = "awaiting_existing_edit"]
  <2> DEFINE c == [made(x) EXCEPT !.staged = TRUE]
  <2>1. /\ c \in Candidate /\ c.parent = plan.parent /\ c.content = x /\ c.checks = <<>>
        /\ c.parts = {"new"} /\ c.why = "none"
    BY <1>9, <1>10, <1>13 DEF Candidate
  <2> HIDE DEF c
  <2>2. receipt' = [receipt EXCEPT !.candidates = Push(c), !.state = "awaiting_existing_edit"]
    BY <1>13 DEF c
  <2>3. "awaiting_existing_edit" \in States \ Open
    BY DEF States, Open, Reviewed
  <2>4. Pushes(c, "awaiting_existing_edit")
    BY <1>5, <2>1, <2>2, <2>3, Appended
  <2>5. PushesOnly(c, "awaiting_existing_edit")
    BY <1>6, <1>7, <1>13, <2>1, <2>3, <2>4 DEF PushesOnly, Go
  <2> QED
    BY <2>5
<1>14. CASE x \notin seen /\ ~plan.mixed /\ draft' = made(x) /\ Go("verify")
            /\ receipt' = [receipt EXCEPT
                   !.candidates = Push([made(x) EXCEPT !.checks = <<"unavailable">>]),
                   !.state = "verifying"]
  <2> DEFINE c == [made(x) EXCEPT !.checks = <<"unavailable">>]
  <2>1. <<"unavailable">> \in Seq(Statuses) /\ <<"unavailable">> # <<>>
    BY DEF Statuses
  <2>2. /\ c \in Candidate /\ c.parent = plan.parent /\ c.content = x
        /\ c.checks = <<"unavailable">> /\ ~c.staged /\ c.parts = made(x).parts /\ c.why = "none"
    BY <1>9, <2>1 DEF Candidate
  <2> HIDE DEF c
  <2>3. receipt' = [receipt EXCEPT !.candidates = Push(c), !.state = "verifying"]
    BY <1>14 DEF c
  <2>4. "verifying" \in States
    BY DEF States
  <2>5. Pushes(c, "verifying")
    BY <1>5, <2>2, <2>3, <2>4, Appended
  <2>6. PushesDraft(c)
    BY <1>4, <1>9, <1>11, <1>14, <2>1, <2>2, <2>5 DEF PushesDraft, Go
  <2> QED
    BY <2>6
<1> QED
  BY <1>4, <1>12, <1>13, <1>14

\* Without approval no check ran, so none of them passed.
LEMMA ReportedChecks ==
    ASSUME Types, RoundInv, NEW checks \in Reported
    PROVE  checks \in Seq(Statuses) /\ (AllPassed(checks) => request.approved)
<1>1. results \in Seq(Statuses) /\ (~request.approved => \A i \in DOMAIN results : results[i] # "passed")
  BY DEF Types, RoundInv
<1>2. CASE checks = <<"not_run">>
  <2>1. checks \in Seq(Statuses)
    BY <1>2 DEF Statuses
  <2>2. 1 \in DOMAIN checks /\ checks[1] # "passed"
    BY <1>2
  <2> QED
    BY <2>1, <2>2 DEF AllPassed
<1>3. CASE checks = results
  <2>1. ASSUME results # <<>>
        PROVE  1 \in DOMAIN results
    BY <1>1, <2>1
  <2> QED
    BY <1>1, <1>3, <2>1 DEF AllPassed
<1>4. CASE checks = Append(results, "not_run")
  <2>1. checks \in Seq(Statuses)
    BY <1>1, <1>4 DEF Statuses
  <2>2. Len(results) + 1 \in DOMAIN checks /\ checks[Len(results) + 1] = "not_run"
    BY <1>1, <1>4
  <2> QED
    BY <2>1, <2>2 DEF AllPassed
<1> QED
  BY <1>2, <1>3, <1>4 DEF Reported

LEMMA SettleEffect ==
    ASSUME Types, RoundInv, Settle
    PROVE  \E c : Settles(c)
<1>1. /\ draft \in Candidate /\ Fresh /\ Pending # 0 /\ stage = "verify"
  BY DEF Types, RoundInv, Settle
<1>2. receipt \in Receipts /\ receipt.candidates \in Seq(Candidate) /\ Len(receipt.candidates) \in Nat
  BY DEF Types, Receipts
<1>3. Pending \in Nat /\ Pending \in DOMAIN receipt.candidates
  BY <1>1, <1>2 DEF Pending
<1>4. PICK checks \in Reported, same \in BOOLEAN :
        LET why == Verdict(checks)
            c == [draft EXCEPT !.checks = checks, !.why = why, !.same = same]
            r == [receipt EXCEPT !.candidates[Pending] = c]
        IN  IF why = "none"
              THEN /\ receipt' = [r EXCEPT !.selected = Pending, !.state = "finalizing"]
                   /\ early' = changed
                   /\ Go("after")
              ELSE /\ receipt' = r
                   /\ Go(IF Pending >= Generations \/ timeUp THEN "after" ELSE "top")
                   /\ UNCHANGED early
  BY DEF Settle
<1>5. /\ Saved /\ ChecksDone /\ results' = <<>> /\ draft' = NoCandidate
      /\ UNCHANGED <<request, plan, output, seen, envVars, sent, starved>>
  BY DEF Settle
<1>6. checks \in Seq(Statuses) /\ (AllPassed(checks) => request.approved)
  BY ReportedChecks
<1> DEFINE why == Verdict(checks)
           c == [draft EXCEPT !.checks = checks, !.why = why, !.same = same]
           cs == [receipt.candidates EXCEPT ![Pending] = c]
           r == [receipt EXCEPT !.candidates = cs]
<1>7. why \in Rejections
  BY DEF Verdict, Rejections
<1>8. r = [receipt EXCEPT !.candidates[Pending] = c]
  BY <1>2 DEF Receipts
<1> HIDE DEF why
<1>9. /\ c \in Candidate /\ c.parent = draft.parent /\ c.content = draft.content
      /\ c.parts = draft.parts /\ ~c.staged /\ c.why = why /\ c.checks = checks
  BY <1>1, <1>6, <1>7 DEF Candidate, Fresh
<1>10. IF why = "none"
         THEN /\ receipt' = [r EXCEPT !.selected = Pending, !.state = "finalizing"]
              /\ early' = changed
              /\ Go("after")
         ELSE /\ receipt' = r
              /\ Go(IF Pending >= Generations \/ timeUp THEN "after" ELSE "top")
              /\ UNCHANGED early
  BY <1>4, <1>8 DEF why
<1> HIDE DEF c
<1>11. cs \in Seq(Candidate)
  BY <1>2, <1>3, <1>9
<1> HIDE DEF cs
<1>12. /\ r \in Receipts /\ r.candidates = cs /\ r.selected = receipt.selected
       /\ r.state = receipt.state /\ r.checks = receipt.checks /\ r.index = receipt.index
       /\ r.calls = receipt.calls /\ r.tokens = receipt.tokens
  BY <1>2, <1>11 DEF Receipts
<1> HIDE DEF r
<1>13. NoCandidate \in Candidate
  BY DEF NoCandidate, Candidate, NoParent, Rejections
<1>14. CASE why = "none"
  <2>1. receipt' = [r EXCEPT !.selected = Pending, !.state = "finalizing"]
    BY <1>10, <1>14
  <2>2. /\ receipt' \in Receipts /\ receipt'.candidates = cs /\ receipt'.selected = Pending
        /\ receipt'.state = "finalizing" /\ receipt'.checks = receipt.checks
        /\ receipt'.index = receipt.index
        /\ receipt'.calls = receipt.calls /\ receipt'.tokens = receipt.tokens
    BY <1>3, <1>12, <2>1 DEF Receipts, States, Open
  <2>3. Settles(c)
    BY <1>1, <1>5, <1>6, <1>9, <1>10, <1>13, <1>14, <2>2 DEF Settles, Saved, Go, cs
  <2> QED
    BY <2>3
<1>15. CASE why # "none"
  <2>1. receipt' = r
    BY <1>10, <1>15
  <2>2. stage' \in {"after", "top"} /\ (stage' = "top" => Pending < Generations)
    BY <1>3, <1>10, <1>15, Constants DEF Go
  <2>3. Settles(c)
    BY <1>1, <1>5, <1>6, <1>9, <1>10, <1>12, <1>13, <1>15, <2>1, <2>2 DEF Settles, Saved, cs
  <2> QED
    BY <2>3
<1> QED
  BY <1>14, <1>15

-----------------------------------------------------------------------------
\* What a call may ask for: never more than what is left, and in a mixed
\* creation not the least that the edit needs.
LEMMA OutputFacts ==
    ASSUME Types
    PROVE  /\ Left \in Nat
           /\ HypothesisOutput(Left, plan.mixed) \in Nat
           /\ HypothesisOutput(Left, plan.mixed) <= Left
           /\ OutputNow \in Nat /\ OutputNow <= Left
           /\ plan.mixed /\ OutputFits => OutputNow + 128 <= Left
<1>1. /\ receipt.tokens \in Nat /\ receipt.calls \in Nat /\ plan.mixed \in BOOLEAN
  BY DEF Types, Receipts, Plans
<1>2. Left \in Nat
  BY <1>1, Constants DEF Left, Minus
<1>3. HypothesisOutput(Left, plan.mixed) \in Nat /\ HypothesisOutput(Left, plan.mixed) <= Left
  BY <1>2 DEF HypothesisOutput, Smaller, Minus
<1> DEFINE later == IF Generations - receipt.calls > 1 THEN Left \div 2 ELSE 0
           kept == Larger(later, IF plan.mixed THEN 128 ELSE 0)
<1>4. later \in Nat
  BY <1>2
<1>5. kept \in Nat /\ (plan.mixed => kept >= 128)
  <2> HIDE DEF later
  <2> QED
    BY <1>4 DEF Larger
<1>6. OutputNow = Smaller(OutputCap, Minus(Left, kept))
  BY DEF OutputNow, EditOutput
<1> HIDE DEF kept
<1>7. OutputNow \in Nat /\ OutputNow <= Left
  BY <1>2, <1>5, <1>6, Constants DEF Smaller, Minus
<1>8. plan.mixed /\ OutputFits => OutputNow + 128 <= Left
  BY <1>2, <1>5, <1>6, <1>7, Constants DEF Smaller, Minus, OutputFits
<1> QED
  BY <1>2, <1>3, <1>7, <1>8

LEMMA ReserveStrategyEffect ==
    ASSUME Types, ReserveStrategy
    PROVE  Reserves("hypothesizing", output')
<1>1. output' \in Nat /\ "hypothesizing" \in States
  BY OutputFacts DEF ReserveStrategy, States
<1> QED
  BY <1>1, Charged DEF ReserveStrategy

LEMMA ReserveEditEffect ==
    ASSUME Types, ReserveEdit
    PROVE  Reserves("generating", output)
<1>1. output \in Nat /\ "generating" \in States
  BY DEF Types, States
<1> QED
  BY <1>1, Charged DEF ReserveEdit

\* Next, by effect.
LEMMA StepCases ==
    ASSUME IInv, [Next]_vars
    PROVE  \/ Checked \/ Halts \/ Concludes \/ Quits \/ BaselineChecked \/ Begins
           \/ ReserveStrategy \/ Ask \/ StrategyAccepted \/ Prepare \/ ReserveEdit
           \/ (\E c, s : PushesOnly(c, s)) \/ (\E c : PushesDraft(c)) \/ (\E c : Settles(c))
           \/ Changes \/ TimeRunsOut \/ UNCHANGED vars
<1>1. CASE \/ TopHalts \/ StrategyHalts \/ StrategyRejected
           \/ PrepareHalts \/ AdmitHalts \/ ReplyDiscarded
  BY <1>1, HaltCases DEF IInv
<1>2. CASE RunCheck
  BY <1>2, CheckEffect DEF IInv
<1>3. CASE BaselineModified \/ PrepareFails \/ Stops
  BY <1>3, QuitEffect
<1>4. CASE BaselineReturns \/ AfterLoop \/ FinalSource \/ FinalReview
  BY <1>4, ConcludeCases DEF IInv
<1>5. CASE Begin
  BY <1>5, BeginEffect DEF IInv
<1>6. CASE ResidentLost \/ ParentChanged \/ ReplyRejected
  BY <1>6, RejectEffect DEF IInv
<1>7. CASE Materialize
  BY <1>7, MaterializeEffect DEF IInv
<1>8. CASE Settle
  BY <1>8, SettleEffect DEF IInv
<1> QED
  BY <1>1, <1>2, <1>3, <1>4, <1>5, <1>6, <1>7, <1>8 DEF Next, RunStep, Ended

LEMMA TypesStep ==
    ASSUME IInv, [Next]_vars
    PROVE  Types'
<1>0. Types
  BY DEF IInv
<1>1. CASE Checked
  BY <1>0, <1>1 DEF Types, Checked, envVars
<1>2. CASE Halts
  BY <1>0, <1>2 DEF Types, Halts, Like, envVars, histVars, Stages
<1>3. CASE Concludes
  BY <1>0, <1>3 DEF Types, Concludes, Like, envVars, histVars, Stages
<1>4. CASE Quits
  BY <1>0, <1>4 DEF Types, Quits, envVars, histVars, Stages
<1>5. CASE BaselineChecked
  BY <1>0, <1>5 DEF Types, BaselineChecked, envVars, histVars, Go, Stages, Loop
<1>6. CASE Begins
  BY <1>0, <1>6 DEF Types, Begins, envVars, histVars, Stages, Loop, Working
<1>7. CASE ReserveStrategy
  BY <1>0, <1>7, OutputFacts, ReserveStrategyEffect
  DEF Types, Reserves, ReserveStrategy, envVars, histVars, Go, Stages, Loop, Working
<1>8. CASE Ask
  <2>1. sent' \in [calls : Nat, tokens : Nat]
    BY <1>0, <1>8 DEF Types, Ask
  <2> QED
    BY <1>0, <1>8, <2>1 DEF Types, Ask, envVars, Go, Stages, Loop, Working
<1>9. CASE StrategyAccepted
  BY <1>0, <1>9 DEF Types, StrategyAccepted, envVars, histVars, Go, Stages, Loop, Working
<1>10. CASE Prepare
  <2>1. draft' \in Candidate
    <3>1. plan.parent \in Nat
      BY <1>0 DEF Types, Plans
    <3>2. Parts(plan.parent) \in SUBSET {"new", "edit"}
      <4>1. CASE plan.parent = NoParent
        BY <4>1 DEF Parts
      <4>2. CASE plan.parent # NoParent
        <5>1. plan.parent <= Len(receipt.candidates)
          BY <1>10 DEF IInv, RoundInv, Prepare, Working
        <5>2. receipt.candidates \in Seq(Candidate)
          BY <1>0 DEF Types, Receipts
        <5>3. receipt.candidates[plan.parent] \in Candidate
          BY <3>1, <4>2, <5>1, <5>2 DEF NoParent
        <5> QED
          BY <4>2, <5>3 DEF Parts, Candidate
      <4> QED
        BY <4>1, <4>2
    <3> QED
      <4>1. NoCandidate \in Candidate
        BY DEF NoCandidate, Candidate, NoParent, Rejections
      <4>2. draft' = [NoCandidate EXCEPT !.parent = plan.parent, !.parts = Parts(plan.parent)]
        BY <1>10 DEF Prepare
      <4> QED
        BY <3>1, <3>2, <4>1, <4>2 DEF Candidate
  <2> QED
    BY <1>0, <1>10, <2>1, OutputFacts
    DEF Types, Prepare, envVars, histVars, Go, Stages, Loop, Working
<1>11. CASE ReserveEdit
  BY <1>0, <1>11, ReserveEditEffect
  DEF Types, Reserves, ReserveEdit, envVars, histVars, Go, Stages, Loop, Working
<1>12. ASSUME NEW c, NEW s, Pushes(c, s)
       PROVE  DOMAIN receipt.candidates \subseteq DOMAIN receipt'.candidates
  BY <1>0, <1>12 DEF Types, Receipts, Pushes
<1>13. ASSUME NEW c, NEW s, PushesOnly(c, s)
       PROVE  Types'
  BY <1>0, <1>12, <1>13 DEF Types, PushesOnly, Pushes, envVars, histVars, Stages, Loop, Working
<1>14. ASSUME NEW c, PushesDraft(c)
       PROVE  Types'
  BY <1>0, <1>12, <1>14 DEF Types, PushesDraft, Pushes, envVars, histVars, Stages, Loop
<1>15. ASSUME NEW c, Settles(c)
       PROVE  Types'
  <2>1. DOMAIN receipt'.candidates = DOMAIN receipt.candidates
    BY <1>0, <1>15 DEF Types, Receipts, Settles
  <2>2. /\ receipt' \in Receipts /\ disk' = receipt' /\ results' = <<>>
        /\ draft' \in Candidate /\ stage' \in {"after", "top"} /\ early' \in {early, changed}
        /\ UNCHANGED <<request, plan, output, seen, envVars, sent, starved>>
    BY <1>15 DEF Settles
  <2>3. stage' \in Stages /\ early' \subseteq changed
    BY <1>0, <2>2 DEF Types, Stages, Loop
  <2> QED
    BY <1>0, <2>1, <2>2, <2>3 DEF Types, envVars
<1>16. CASE Changes
  BY <1>0, <1>16 DEF Types, Changes, runVars, histVars
<1>17. CASE TimeRunsOut
  BY <1>0, <1>17 DEF Types, TimeRunsOut, runVars, histVars
<1>18. CASE UNCHANGED vars
  BY <1>0, <1>18 DEF Types, vars, runVars, envVars, histVars
<1> QED
  BY <1>1, <1>2, <1>3, <1>4, <1>5, <1>6, <1>7, <1>8, <1>9, <1>10, <1>11, <1>13, <1>14, <1>15,
     <1>16, <1>17, <1>18, StepCases

-----------------------------------------------------------------------------
\* A candidate that is added: what holds of the earlier ones is not touched.
LEMMA CandidateAdded ==
    ASSUME Types, CandidatesInv, RoundInv, NEW c, NEW s, Pushes(c, s),
           seen \subseteq seen', c.content \in seen' \cup {NoContent},
           c.staged => c.parts = {"new"}, c.why # "failed",
           c.checks # <<>> => c.content \in Content \ seen
    PROVE  /\ \A i \in DOMAIN receipt'.candidates : CandidateOK(receipt.candidates, seen, i)'
           /\ CheckedOnce'
           /\ Len(receipt'.candidates) = Number /\ Number <= Generations
<1> DEFINE cs == receipt.candidates
           n == Len(cs)
           ds == receipt'.candidates
<1>1. cs \in Seq(Candidate) /\ n \in Nat /\ c \in Candidate /\ ds = Append(cs, c)
  BY DEF Types, Receipts, Pushes
<1>2. /\ Len(ds) = n + 1 /\ DOMAIN ds = 1 .. n + 1 /\ DOMAIN cs = 1 .. n
      /\ ds[n + 1] = c /\ \A i \in 1 .. n : ds[i] = cs[i] /\ cs[i] \in Candidate
  BY <1>1
<1>3. n < Generations /\ request' = request
  BY DEF CandidatesInv, Pushes, Loop, Working
<1>4. /\ plan.parent \in Nat /\ plan.parent <= n /\ HasNew(cs, plan.parent)
      /\ c.parent = plan.parent
  BY DEF Types, Plans, RoundInv, Pushes, Working
<1>5. \A i \in 1 .. n : CandidateOK(cs, seen, i)
  BY <1>2 DEF CandidatesInv
<1>6. \A p \in Nat : p <= n /\ HasNew(cs, p) => HasNew(ds, p)
  BY <1>2, <1>3 DEF HasNew, NoParent
<1> HIDE DEF cs, ds, n
<1>7. ASSUME NEW i \in 1 .. n
      PROVE  CandidateOK(ds, seen', i)
  <2>1. CandidateOK(cs, seen, i) /\ ds[i] = cs[i] /\ cs[i].parent \in Nat /\ i \in Nat /\ i <= n
    <3>1. cs[i] \in Candidate /\ ds[i] = cs[i] /\ CandidateOK(cs, seen, i)
      BY <1>2, <1>5, <1>7
    <3>2. cs[i].parent \in Nat
      BY <3>1 DEF Candidate
    <3> QED
      BY <1>1, <1>7, <3>1, <3>2
  <2>2. HasNew(ds, cs[i].parent)
    BY <1>1, <1>6, <2>1 DEF CandidateOK
  <2>3. ds[i].why = "failed" => HasNew(ds, i)
    BY <1>6, <2>1 DEF CandidateOK
  <2> QED
    BY <2>1, <2>2, <2>3 DEF CandidateOK
<1>8. Base \in seen /\ Base \in Content /\ NoContent \notin Content
  BY Constants DEF Types
<1>9. CandidateOK(ds, seen', n + 1)
  <2>1. HasNew(ds, c.parent)
    BY <1>4, <1>6
  <2>2. c.parent < n + 1
    BY <1>1, <1>4
  <2> QED
    BY <1>2, <1>8, <2>1, <2>2 DEF CandidateOK
<1>10. \A i \in 1 .. n + 1 : i \in 1 .. n \/ i = n + 1
  BY <1>1
<1>11. CheckedOnce'
  <2>1. SUFFICES ASSUME NEW i \in 1 .. n + 1, NEW j \in 1 .. n + 1,
                        ds[i].checks # <<>>, ds[j].checks # <<>>
                 PROVE  /\ ds[i].content # Base
                        /\ ds[i].content = ds[j].content => i = j
    BY <1>2 DEF CheckedOnce, ds
  <2>2. ASSUME NEW k \in 1 .. n, cs[k].checks # <<>>
        PROVE  cs[k].content \in seen /\ cs[k].content # Base
    BY <1>5, <2>2 DEF CandidateOK
  <2>3. CASE i \in 1 .. n /\ j \in 1 .. n
    <3>1. CheckedOnce
      BY DEF CandidatesInv
    <3> QED
      BY <1>2, <2>1, <2>3, <3>1 DEF CheckedOnce, cs
  <2>4. CASE i = n + 1 \/ j = n + 1
    <3>1. c.checks # <<>> => c.content \notin seen /\ c.content # Base
      BY <1>8
    <3> QED
      BY <1>1, <1>2, <2>1, <2>2, <2>4, <3>1
  <2> QED
    BY <1>10, <2>1, <2>3, <2>4
<1>12. n + 1 <= Generations /\ Number = n + 1
  BY <1>1, <1>3, Constants DEF Number, n, cs
<1>13. \A i \in DOMAIN ds : CandidateOK(ds, seen', i)
  BY <1>2, <1>7, <1>9, <1>10
<1>14. ASSUME NEW i, CandidateOK(ds, seen', i)
       PROVE  CandidateOK(receipt.candidates, seen, i)'
  BY <1>3, <1>14 DEF CandidateOK, HasNew, ds
<1> QED
  BY <1>2, <1>11, <1>12, <1>13, <1>14 DEF ds

LEMMA CandidateSettled ==
    ASSUME Types, CandidatesInv, RoundInv, NEW c, Settles(c)
    PROVE  /\ \A i \in DOMAIN receipt'.candidates : CandidateOK(receipt.candidates, seen, i)'
           /\ CheckedOnce'
           /\ Len(receipt'.candidates) = Len(receipt.candidates)
<1> DEFINE cs == receipt.candidates
           n == Len(cs)
           ds == receipt'.candidates
<1>1. /\ cs \in Seq(Candidate) /\ n \in Nat /\ n # 0 /\ c \in Candidate
      /\ ds = [cs EXCEPT ![n] = c] /\ Pending = n
  BY DEF Types, Receipts, Settles, RoundInv, Pending
<1>2. /\ Len(ds) = n /\ DOMAIN ds = 1 .. n /\ DOMAIN cs = 1 .. n /\ n \in 1 .. n
      /\ ds[n] = c /\ \A i \in 1 .. n : i # n => ds[i] = cs[i]
      /\ \A i \in 1 .. n : cs[i] \in Candidate
  BY <1>1
<1>3. /\ request' = request /\ seen' = seen
      /\ c.parent = draft.parent /\ c.content = draft.content /\ c.parts = draft.parts /\ ~c.staged
      /\ cs[n].parent = draft.parent /\ cs[n].content = draft.content /\ cs[n].checks # <<>>
      /\ request.kind = "mixed" => draft.parts = {"new", "edit"}
  BY DEF Settles, RoundInv, Pending
<1>4. \A i \in 1 .. n : CandidateOK(cs, seen, i)
  BY <1>2 DEF CandidatesInv
<1> HIDE DEF cs, ds, n
<1>5. ASSUME NEW i \in 1 .. n
      PROVE  CandidateOK(ds, seen', i)
  <2>1. /\ CandidateOK(cs, seen, i) /\ cs[i].parent \in Nat /\ i \in Nat /\ i <= n
        /\ ds[i].parent = cs[i].parent /\ ds[i].content = cs[i].content
    BY <1>1, <1>2, <1>3, <1>4 DEF Candidate
  <2>2. HasNew(ds, ds[i].parent)
    <3>1. cs[i].parent # n
      BY <1>1, <2>1 DEF CandidateOK
    <3>2. cs[i].parent # NoParent => cs[i].parent \in 1 .. n
      BY <1>1, <2>1 DEF CandidateOK, NoParent
    <3> QED
      BY <1>2, <1>3, <2>1, <3>1, <3>2 DEF CandidateOK, HasNew
  <2>3. ds[i].why = "failed" => HasNew(ds, i)
    BY <1>2, <1>3, <2>1 DEF CandidateOK, HasNew
  <2>4. ds[i].staged => ds[i].parts = {"new"}
    BY <1>2, <1>3, <2>1 DEF CandidateOK
  <2>5. ds[i].checks # <<>> => ds[i].content \notin {Base, NoContent}
    BY <1>2, <1>3, <1>4, <2>1 DEF CandidateOK
  <2> QED
    BY <1>3, <2>1, <2>2, <2>3, <2>4, <2>5 DEF CandidateOK
<1>6. CheckedOnce'
  <2>1. SUFFICES ASSUME NEW i \in 1 .. n, NEW j \in 1 .. n,
                        ds[i].checks # <<>>, ds[j].checks # <<>>
                 PROVE  /\ ds[i].content # Base
                        /\ ds[i].content = ds[j].content => i = j
    BY <1>2 DEF CheckedOnce, ds
  <2>2. \A k \in 1 .. n : /\ ds[k].content = cs[k].content
                          /\ ds[k].checks # <<>> => cs[k].checks # <<>>
    BY <1>2, <1>3
  <2>3. CheckedOnce
    BY DEF CandidatesInv
  <2> QED
    BY <1>2, <2>1, <2>2, <2>3 DEF CheckedOnce, cs
<1>7. ASSUME NEW i, CandidateOK(ds, seen', i)
      PROVE  CandidateOK(receipt.candidates, seen, i)'
  BY <1>3, <1>7 DEF CandidateOK, HasNew, ds
<1> QED
  BY <1>2, <1>5, <1>6, <1>7 DEF ds, cs, n

LEMMA CandidatesKept ==
    ASSUME CandidatesInv, receipt'.candidates = receipt.candidates,
           UNCHANGED <<request, seen>>,
           stage' \in Loop \cup {"baseline"} => stage \in Loop \cup {"baseline"}
    PROVE  CandidatesInv'
BY DEF CandidatesInv, CandidateOK, HasNew, CheckedOnce

LEMMA CandidatesStep ==
    ASSUME IInv, [Next]_vars
    PROVE  CandidatesInv'
<1>0. Types /\ CandidatesInv /\ RoundInv
  BY DEF IInv
<1>1. CASE Checked
  BY <1>0, <1>1, CandidatesKept DEF Checked
<1>2. CASE Halts
  BY <1>0, <1>2, CandidatesKept DEF Halts, Like
<1>3. CASE Concludes
  BY <1>0, <1>3, CandidatesKept DEF Concludes, Like, Loop, Working
<1>4. CASE Quits
  BY <1>0, <1>4, CandidatesKept DEF Quits, Loop, Working
<1>5. CASE BaselineChecked
  BY <1>0, <1>5, CandidatesKept DEF BaselineChecked
<1>6. CASE Begins
  BY <1>0, <1>6, CandidatesKept DEF Begins, Loop
<1>7. CASE ReserveStrategy
  <2>1. Reserves("hypothesizing", output') /\ stage = "strategy"
    BY <1>0, <1>7, ReserveStrategyEffect DEF ReserveStrategy
  <2> QED
    BY <1>0, <2>1, CandidatesKept DEF Reserves, Loop, Working
<1>8. CASE Ask \/ StrategyAccepted \/ Prepare
  BY <1>0, <1>8, CandidatesKept DEF Ask, StrategyAccepted, Prepare, Loop, Working
<1>9. CASE ReserveEdit
  <2>1. Reserves("generating", output) /\ stage = "admit"
    BY <1>0, <1>9, ReserveEditEffect DEF ReserveEdit
  <2> QED
    BY <1>0, <2>1, CandidatesKept DEF Reserves, Loop, Working
<1>10. ASSUME NEW c, NEW s, PushesOnly(c, s)
       PROVE  CandidatesInv'
  <2>1. /\ \A i \in DOMAIN receipt'.candidates : CandidateOK(receipt.candidates, seen, i)'
        /\ CheckedOnce'
        /\ Len(receipt'.candidates) = Number /\ Number <= Generations
    BY <1>0, <1>10, CandidateAdded DEF PushesOnly
  <2>2. stage' \in Loop \cup {"baseline"} => Number < Generations
    BY <1>10 DEF PushesOnly, Loop, Working
  <2> QED
    BY <2>1, <2>2 DEF CandidatesInv
<1>11. ASSUME NEW c, PushesDraft(c)
       PROVE  CandidatesInv'
  <2>1. /\ \A i \in DOMAIN receipt'.candidates : CandidateOK(receipt.candidates, seen, i)'
        /\ CheckedOnce'
        /\ Len(receipt'.candidates) = Number /\ Number <= Generations
    BY <1>0, <1>11, CandidateAdded DEF PushesDraft
  <2>2. stage' \notin Loop \cup {"baseline"}
    BY <1>11 DEF PushesDraft, Loop, Working
  <2> QED
    BY <2>1, <2>2 DEF CandidatesInv
<1>12. ASSUME NEW c, Settles(c)
       PROVE  CandidatesInv'
  <2>1. /\ \A i \in DOMAIN receipt'.candidates : CandidateOK(receipt.candidates, seen, i)'
        /\ CheckedOnce'
        /\ Len(receipt'.candidates) = Len(receipt.candidates)
    BY <1>0, <1>12, CandidateSettled
  <2>2. stage' \in Loop \cup {"baseline"} => Len(receipt.candidates) < Generations
    BY <1>12 DEF Settles, Pending, Loop, Working
  <2>3. Len(receipt.candidates) <= Generations
    BY <1>0 DEF CandidatesInv
  <2> QED
    BY <2>1, <2>2, <2>3 DEF CandidatesInv
<1>13. CASE Changes \/ TimeRunsOut \/ UNCHANGED vars
  BY <1>0, <1>13, CandidatesKept DEF Changes, TimeRunsOut, vars, runVars
<1> QED
  BY <1>1, <1>2, <1>3, <1>4, <1>5, <1>6, <1>7, <1>8, <1>9, <1>10, <1>11, <1>12, <1>13, StepCases

LEMMA RoundStep ==
    ASSUME IInv, [Next]_vars
    PROVE  RoundInv'
<1>0. Types /\ RoundInv
  BY DEF IInv
<1>1. CASE Checked
  <2>1. PICK status \in Statuses : /\ results' = Append(results, status)
                                   /\ ~request.approved => status # "passed"
    BY <1>1 DEF Checked
  <2>2. ~request.approved => \A i \in DOMAIN results' : results'[i] # "passed"
    <3>1. results \in Seq(Statuses) /\ (~request.approved => \A i \in DOMAIN results : results[i] # "passed")
      BY <1>0 DEF Types, RoundInv
    <3>2. \A i \in DOMAIN results' : i \in DOMAIN results \/ i = Len(results) + 1
      BY <2>1, <3>1
    <3>3. /\ \A i \in DOMAIN results : results'[i] = results[i]
          /\ results'[Len(results) + 1] = status
      BY <2>1, <3>1
    <3> QED
      BY <2>1, <3>1, <3>2, <3>3
  <2>3. /\ stage \in {"baseline", "verify"} /\ UNCHANGED <<request, stage, plan, draft>>
        /\ receipt'.candidates = receipt.candidates /\ receipt'.state = receipt.state
    BY <1>1 DEF Checked
  <2> QED
    BY <1>0, <2>2, <2>3 DEF RoundInv, Loop, Working, Fresh, Pending
<1>2. CASE Halts \/ Concludes \/ Quits
  <2>1. /\ stage' \notin Loop \cup {"baseline", "verify"} /\ UNCHANGED <<request, results>>
    BY <1>2 DEF Halts, Concludes, Quits, Loop, Working
  <2> QED
    BY <1>0, <2>1 DEF RoundInv, Loop, Working
<1>3. CASE BaselineChecked
  BY <1>0, <1>3 DEF RoundInv, BaselineChecked, Go, Loop, Working
<1>4. CASE Begins
  BY <1>0, <1>4 DEF RoundInv, Begins, Loop, Working, HasNew
<1>5. CASE ReserveStrategy
  <2>1. Reserves("hypothesizing", output') /\ stage = "strategy" /\ stage' = "ask"
    BY <1>0, <1>5, ReserveStrategyEffect DEF ReserveStrategy, Go
  <2> QED
    BY <1>0, <2>1 DEF RoundInv, Reserves, Loop, Working, HasNew
<1>6. CASE Ask
  <2>1. /\ stage \in {"ask", "chat"} /\ stage' = (IF stage = "ask" THEN "proposed" ELSE "answered")
        /\ UNCHANGED <<request, receipt, plan, results, draft>>
    BY <1>6 DEF Ask, Go
  <2> QED
    BY <1>0, <2>1 DEF RoundInv, Loop, Working, HasNew, Fresh, Parts
<1>7. CASE StrategyAccepted
  <2>1. /\ stage = "proposed" /\ stage' = "prepare"
        /\ UNCHANGED <<request, receipt, plan, results, draft>>
    BY <1>7 DEF StrategyAccepted, Go
  <2> QED
    BY <1>0, <2>1 DEF RoundInv, Loop, Working, HasNew
<1>8. CASE Prepare
  <2>1. /\ stage = "prepare" /\ stage' = "admit"
        /\ UNCHANGED <<request, receipt, plan, results>>
        /\ draft' = [NoCandidate EXCEPT !.parent = plan.parent, !.parts = Parts(plan.parent)]
    BY <1>8 DEF Prepare, Go
  <2>2. /\ draft'.parent = plan.parent /\ draft'.parts = Parts(plan.parent)
        /\ ~draft'.staged /\ draft'.why = "none"
        /\ draft'.content = NoContent /\ draft'.checks = <<>>
    BY <2>1 DEF NoCandidate
  <2> QED
    BY <1>0, <2>1, <2>2 DEF RoundInv, Loop, Working, HasNew, Fresh, Parts
<1>9. CASE ReserveEdit
  <2>1. Reserves("generating", output) /\ stage = "admit" /\ stage' = "chat"
    BY <1>0, <1>9, ReserveEditEffect DEF ReserveEdit, Go
  <2> QED
    BY <1>0, <2>1 DEF RoundInv, Reserves, Loop, Working, HasNew, Fresh, Parts
<1>10. ASSUME NEW c, NEW s, PushesOnly(c, s)
       PROVE  RoundInv'
  <2>1. /\ stage \in Loop /\ stage' \in {"after", "top"} /\ UNCHANGED <<request, results>>
    BY <1>10 DEF PushesOnly, Pushes, Loop, Working
  <2> QED
    BY <1>0, <2>1 DEF RoundInv, Loop, Working
<1>11. ASSUME NEW c, PushesDraft(c)
       PROVE  RoundInv'
  <2>1. /\ stage \in Loop /\ stage' = "verify" /\ UNCHANGED <<request, results>>
        /\ receipt'.state = "verifying"
        /\ draft'.content = c.content /\ draft'.parent = c.parent /\ draft'.parts = c.parts
        /\ ~draft'.staged /\ draft'.why = "none" /\ c.checks # <<>>
        /\ request.kind = "mixed" => c.parts = {"new", "edit"}
        /\ receipt'.candidates = Append(receipt.candidates, c)
        /\ c.content \in Content \ seen /\ c \in Candidate
    BY <1>11 DEF PushesDraft, Pushes, Loop, Working
  <2>2. receipt.candidates \in Seq(Candidate)
    BY <1>0 DEF Types, Receipts
  <2>3. Pending' # 0 /\ receipt'.candidates[Pending'] = c
    BY <2>1, <2>2 DEF Pending
  <2>4. c.content \notin {Base, NoContent}
    BY <1>0, <2>1, Constants DEF Types
  <2> QED
    BY <1>0, <2>1, <2>3, <2>4 DEF RoundInv, Fresh, Loop, Working
<1>12. ASSUME NEW c, Settles(c)
       PROVE  RoundInv'
  <2>1. stage' \in {"after", "top"} /\ results' = <<>>
    BY <1>12 DEF Settles
  <2> QED
    BY <2>1 DEF RoundInv, Loop, Working
<1>13. CASE Changes \/ TimeRunsOut \/ UNCHANGED vars
  <2>1. UNCHANGED <<request, stage, receipt, plan, draft, results>>
    BY <1>13 DEF Changes, TimeRunsOut, vars, runVars
  <2> QED
    BY <1>0, <2>1 DEF RoundInv, HasNew, Fresh, Parts, Pending
<1> QED
  BY <1>1, <1>2, <1>3, <1>4, <1>5, <1>6, <1>7, <1>8, <1>9, <1>10, <1>11, <1>12, <1>13, StepCases

-----------------------------------------------------------------------------
LEMMA SelectionStep ==
    ASSUME IInv, [Next]_vars
    PROVE  SelectionInv'
<1>0. Types /\ RoundInv /\ SelectionInv
  BY DEF IInv
<1> DEFINE InLoop == Loop \cup {"baseline", "verify"}
<1>a. /\ Earned(receipt) /\ Earned(disk)
      /\ stage \in InLoop => /\ receipt.selected = NoParent /\ receipt.index = "passed"
                             /\ disk.selected = NoParent
                             /\ receipt.state \notin Open /\ disk.state \notin Open
      /\ Len(disk.candidates) <= Len(receipt.candidates)
      /\ Len(receipt.candidates) \in Nat /\ Len(disk.candidates) \in Nat
  <2>1. Len(receipt.candidates) \in Nat /\ Len(disk.candidates) \in Nat
    BY <1>0 DEF Types, Receipts
  <2> QED
    BY <1>0, <2>1 DEF SelectionInv, Earned
\* A receipt that selects nothing and does not say otherwise is saved.
<1>b. ASSUME request' = request, disk' = receipt', receipt'.selected = NoParent,
             receipt'.state \notin Open, receipt'.index = "passed",
             Len(receipt'.candidates) \in Nat
      PROVE  SelectionInv'
  <2>1. Earned(receipt)' /\ Earned(disk)'
    BY <1>b DEF Earned
  <2> QED
    BY <1>b, <2>1 DEF SelectionInv, ChangesAreNoticed, Open
\* Only the environment, or the stage within the loop, changes.
<1>c. ASSUME UNCHANGED <<request, receipt, early>>, disk' \in {disk, receipt},
             stage \in InLoop, stage' # "final_rest"
      PROVE  SelectionInv'
  <2>1. Earned(receipt)' /\ Earned(disk)'
    BY <1>a, <1>c DEF Earned
  <2>2. disk'.selected = NoParent /\ disk'.state \notin Open /\ receipt'.state \notin Open
    BY <1>a, <1>c
  <2> QED
    BY <1>a, <1>c, <2>1, <2>2 DEF SelectionInv, ChangesAreNoticed, Open
<1>1. CASE Checked
  <2>1. /\ stage \in InLoop /\ UNCHANGED <<request, stage, disk, early>>
        /\ receipt'.selected = receipt.selected /\ receipt'.state = receipt.state
        /\ receipt'.index = receipt.index /\ receipt'.candidates = receipt.candidates
        /\ stage' # "final_rest"
    BY <1>1 DEF Checked
  <2>2. Earned(receipt)' /\ Earned(disk)'
    BY <1>a, <2>1 DEF Earned
  <2> QED
    BY <1>a, <2>1, <2>2 DEF SelectionInv, ChangesAreNoticed, Open
<1>2. CASE Halts
  <2>1. /\ stage \in InLoop /\ stage' = "after" /\ UNCHANGED <<request, early>>
        /\ receipt'.selected = NoParent /\ receipt'.state \notin Open
        /\ receipt'.candidates = receipt.candidates
        /\ disk' \in {disk, receipt'}
    BY <1>2 DEF Halts, Like, histVars
  <2>2. Earned(receipt)' /\ Earned(disk)'
    BY <1>a, <2>1 DEF Earned
  <2>3. disk'.state \notin Open
    BY <1>a, <2>1
  <2> QED
    BY <1>a, <2>1, <2>2, <2>3 DEF SelectionInv, ChangesAreNoticed, Open, Loop, Working
<1>3. CASE Concludes
  <2>1. /\ UNCHANGED <<request, early>> /\ Earned(receipt')
        /\ receipt'.candidates = receipt.candidates
        /\ stage' \in {"final_source", "final_rest", "ended"}
        /\ stage' = "final_rest" /\ receipt'.selected # NoParent => "source" \notin changed
        /\ disk' = disk \/ (disk' = receipt' /\ (receipt'.state \in Reviewed => early = {}))
        /\ stage' # "ended" => receipt'.state \notin Reviewed
    BY <1>3 DEF Concludes, Like, histVars
  <2>2. Earned(receipt)' /\ Earned(disk)'
    BY <1>a, <2>1 DEF Earned
  <2>3. early \subseteq changed
    BY <1>0 DEF Types
  <2> QED
    BY <1>0, <1>a, <2>1, <2>2, <2>3 DEF SelectionInv, ChangesAreNoticed, Loop, Working
<1>4. CASE Quits
  <2>1. /\ UNCHANGED <<request, receipt, disk, early>> /\ stage' \in {"error", "stopped"}
        /\ stage # "ended"
    BY <1>4 DEF Quits, histVars, Returned
  <2> QED
    BY <1>0, <2>1 DEF SelectionInv, Earned, ChangesAreNoticed, Loop, Working
<1>5. CASE BaselineChecked
  BY <1>5, <1>c DEF BaselineChecked, histVars, Go
<1>6. CASE Begins
  BY <1>6, <1>c DEF Begins, histVars, Loop
<1>7. CASE ReserveStrategy
  <2>1. Reserves("hypothesizing", output') /\ stage \in InLoop
    BY <1>0, <1>7, ReserveStrategyEffect DEF ReserveStrategy, Loop, Working
  <2> QED
    BY <1>a, <1>b, <2>1 DEF Reserves, Open, Reviewed
<1>8. CASE Ask \/ StrategyAccepted \/ Prepare
  BY <1>8, <1>c DEF Ask, StrategyAccepted, Prepare, histVars, Loop, Working, Go
<1>9. CASE ReserveEdit
  <2>1. Reserves("generating", output) /\ stage \in InLoop
    BY <1>0, <1>9, ReserveEditEffect DEF ReserveEdit, Loop, Working
  <2> QED
    BY <1>a, <1>b, <2>1 DEF Reserves, Open, Reviewed
<1>10. ASSUME NEW c, NEW s, PushesOnly(c, s) \/ (s = "verifying" /\ PushesDraft(c))
       PROVE  SelectionInv'
  <2>1. Pushes(c, s) /\ s \notin Open /\ stage \in InLoop
    BY <1>10 DEF PushesOnly, PushesDraft, Pushes, Open, Reviewed, Loop, Working
  <2>2. Len(receipt'.candidates) \in Nat
    BY <2>1 DEF Pushes, Receipts
  <2> QED
    BY <1>a, <1>b, <2>1, <2>2 DEF Pushes
<1>11. ASSUME NEW c, Settles(c)
       PROVE  SelectionInv'
  <2>1. /\ stage = "verify" /\ disk' = receipt' /\ request' = request
        /\ receipt'.candidates = [receipt.candidates EXCEPT ![Pending] = c]
        /\ receipt'.index = receipt.index /\ c \in Candidate
        /\ c.content = draft.content /\ c.parts = draft.parts /\ ~c.staged
        /\ AllPassed(c.checks) => request.approved
    BY <1>11 DEF Settles
  <2>2. receipt.candidates \in Seq(Candidate) /\ Pending = Len(receipt.candidates) /\ Pending # 0
    BY <1>0, <2>1 DEF Types, Receipts, RoundInv, Pending
  <2>3. receipt'.candidates[Pending] = c /\ Len(receipt'.candidates) = Pending /\ Pending \in Nat
    BY <2>1, <2>2
  <2>4. CASE c.why # "none"
    <3>1. receipt'.selected = receipt.selected /\ receipt'.state = receipt.state
      BY <1>11, <2>4 DEF Settles
    <3> QED
      BY <1>a, <1>b, <2>1, <2>3, <3>1
  <2>5. CASE c.why = "none"
    <3>1. receipt'.selected = Pending /\ receipt'.state = "finalizing" /\ stage' = "after"
      BY <1>11, <2>5 DEF Settles
    <3>2. draft.content # NoContent /\ (request.kind = "mixed" => draft.parts = {"new", "edit"})
      BY <1>0, <2>1 DEF RoundInv
    <3>3. receipt.index = "passed"
      BY <1>a, <2>1
    <3>4. Earned(receipt')
      BY <2>1, <2>2, <2>3, <2>5, <3>1, <3>2, <3>3 DEF Earned, Open, NoParent
    <3>5. Earned(receipt)' /\ Earned(disk)'
      BY <2>1, <3>4 DEF Earned
    <3> QED
      BY <2>1, <2>3, <3>1, <3>5 DEF SelectionInv, ChangesAreNoticed, Loop, Working, Reviewed
  <2> QED
    BY <2>4, <2>5
<1>12. CASE Changes \/ TimeRunsOut \/ UNCHANGED vars
  <2>1. UNCHANGED <<request, stage, receipt, disk, early>>
    BY <1>12 DEF Changes, TimeRunsOut, vars, runVars, histVars
  <2> QED
    BY <1>0, <2>1 DEF SelectionInv, Earned, ChangesAreNoticed
<1> QED
  BY <1>1, <1>2, <1>3, <1>4, <1>5, <1>6, <1>7, <1>8, <1>9, <1>10, <1>11, <1>12, StepCases

-----------------------------------------------------------------------------
\* Outside the round nothing is promised.
LEMMA CallsKept ==
    ASSUME CallsInv, sent' = sent, stage' \notin Working,
           receipt'.calls = receipt.calls, receipt'.tokens = receipt.tokens,
           disk' \in {disk, receipt'}
    PROVE  CallsInv'
BY DEF CallsInv, Working

LEMMA CallsStep ==
    ASSUME IInv, [Next]_vars
    PROVE  CallsInv'
<1>0. Types /\ CallsInv
  BY DEF IInv
<1>a. /\ receipt.calls \in Nat /\ receipt.tokens \in Nat /\ output \in Nat
      /\ sent \in [calls : Nat, tokens : Nat]
  BY <1>0 DEF Types, Receipts
<1>1. CASE Checked
  <2>1. /\ receipt'.calls = receipt.calls /\ receipt'.tokens = receipt.tokens /\ disk' = disk
        /\ sent' = sent /\ stage' \notin Working
    BY <1>1 DEF Checked, Working
  <2> QED
    BY <1>0, <2>1, CallsKept
<1>2. CASE Halts \/ Concludes \/ Quits
  <2>1. /\ receipt'.calls = receipt.calls /\ receipt'.tokens = receipt.tokens
        /\ disk' \in {disk, receipt'} /\ sent' = sent /\ stage' \notin Working
    BY <1>2 DEF Halts, Concludes, Quits, Like, histVars, Working
  <2> QED
    BY <1>0, <2>1, CallsKept
<1>3. CASE BaselineChecked
  <2>1. receipt' = receipt /\ disk' = receipt' /\ sent' = sent /\ stage' \notin Working
    BY <1>3 DEF BaselineChecked, histVars, Working, Go
  <2> QED
    BY <1>0, <2>1, CallsKept
<1>4. CASE Begins
  <2>1. /\ stage' \in {"strategy", "prepare"} /\ UNCHANGED <<receipt, disk, sent>>
        /\ stage' = "strategy" => /\ receipt.calls + 2 <= Generations
                                  /\ plan'.mixed => receipt.calls + 3 <= Generations
        /\ stage' = "prepare" => /\ receipt.calls + 1 <= Generations
                                 /\ plan'.mixed => receipt.calls + 2 <= Generations
    BY <1>4 DEF Begins, histVars
  <2> QED
    BY <1>0, <2>1 DEF CallsInv
<1>5. CASE ReserveStrategy
  <2>1. /\ stage = "strategy" /\ stage' = "ask" /\ UNCHANGED <<plan, sent>> /\ disk' = receipt'
        /\ receipt'.calls = receipt.calls + 1 /\ receipt'.tokens = receipt.tokens + output'
    BY <1>0, <1>5, ReserveStrategyEffect DEF ReserveStrategy, Reserves, Go, histVars
  <2>2. output' \in Nat /\ output' <= Left
    BY <1>0, <1>5, OutputFacts DEF ReserveStrategy
  <2>3. receipt'.tokens <= Tokens
    BY <1>0, <1>a, <2>1, <2>2, Constants DEF CallsInv, Left, Minus
  <2>4. receipt'.calls + 1 <= Generations /\ (plan.mixed => receipt'.calls + 2 <= Generations)
    BY <1>0, <1>a, <2>1, Constants DEF CallsInv
  <2> QED
    BY <1>0, <1>a, <2>1, <2>2, <2>3, <2>4, Constants DEF CallsInv
<1>6. CASE Ask
  <2>1. /\ stage \in {"ask", "chat"} /\ stage' = (IF stage = "ask" THEN "proposed" ELSE "answered")
        /\ UNCHANGED <<receipt, disk, plan, output>>
        /\ sent'.calls = sent.calls + 1 /\ sent'.tokens = sent.tokens + output
    BY <1>6 DEF Ask, Go
  <2> QED
    BY <1>0, <2>1 DEF CallsInv, Left
<1>7. CASE StrategyAccepted
  <2>1. /\ stage = "proposed" /\ stage' = "prepare" /\ disk' = receipt
        /\ UNCHANGED <<receipt, plan, sent>>
    BY <1>7 DEF StrategyAccepted, Go, histVars
  <2> QED
    BY <1>0, <2>1 DEF CallsInv
<1>8. CASE Prepare
  <2>1. /\ stage = "prepare" /\ stage' = "admit" /\ OutputFits /\ output' = OutputNow
        /\ UNCHANGED <<receipt, disk, plan, sent>>
    BY <1>8 DEF Prepare, Go, histVars
  <2>2. output' <= Left /\ (plan.mixed => output' + 128 <= Left)
    BY <1>0, <2>1, OutputFacts
  <2> QED
    BY <1>0, <2>1, <2>2 DEF CallsInv, Left
<1>9. CASE ReserveEdit
  <2>1. /\ stage = "admit" /\ stage' = "chat" /\ UNCHANGED <<plan, sent, output>>
        /\ disk' = receipt'
        /\ receipt'.calls = receipt.calls + 1 /\ receipt'.tokens = receipt.tokens + output
    BY <1>0, <1>9, ReserveEditEffect DEF ReserveEdit, Reserves, Go, histVars
  <2>2. output <= Left /\ (plan.mixed => output + 128 <= Left)
    BY <1>0, <2>1 DEF CallsInv
  <2>3. receipt'.tokens <= Tokens /\ (plan.mixed => Minus(Tokens, receipt'.tokens) >= 128)
    BY <1>0, <1>a, <2>1, <2>2, Constants DEF CallsInv, Left, Minus
  <2>4. receipt'.calls <= Generations /\ (plan.mixed => receipt'.calls + 1 <= Generations)
    BY <1>0, <1>a, <2>1, Constants DEF CallsInv
  <2> QED
    BY <1>0, <1>a, <2>1, <2>3, <2>4, Constants DEF CallsInv, Left
<1>10. ASSUME NEW c, NEW s, PushesOnly(c, s) \/ (s = "verifying" /\ PushesDraft(c))
       PROVE  CallsInv'
  <2>1. /\ receipt'.calls = receipt.calls /\ receipt'.tokens = receipt.tokens
        /\ disk' = receipt' /\ sent' = sent /\ stage' \notin Working
    BY <1>10 DEF PushesOnly, PushesDraft, Pushes, histVars, Working
  <2> QED
    BY <1>0, <2>1, CallsKept
<1>11. ASSUME NEW c, Settles(c)
       PROVE  CallsInv'
  <2>1. /\ receipt'.calls = receipt.calls /\ receipt'.tokens = receipt.tokens
        /\ disk' = receipt' /\ sent' = sent /\ stage' \notin Working
    BY <1>11 DEF Settles, Working
  <2> QED
    BY <1>0, <2>1, CallsKept
<1>12. CASE Changes \/ TimeRunsOut \/ UNCHANGED vars
  <2>1. UNCHANGED <<stage, receipt, disk, plan, output, sent>>
    BY <1>12 DEF Changes, TimeRunsOut, vars, runVars, histVars
  <2> QED
    BY <1>0, <2>1 DEF CallsInv, Left
<1> QED
  BY <1>1, <1>2, <1>3, <1>4, <1>5, <1>6, <1>7, <1>8, <1>9, <1>10, <1>11, <1>12, StepCases

LEMMA ChecksStep ==
    ASSUME IInv, [Next]_vars
    PROVE  ChecksInv'
<1>0. Types /\ RoundInv /\ CallsInv /\ ChecksInv
  BY DEF IInv
<1>a. /\ receipt.checks \in Nat /\ receipt.calls \in Nat /\ Len(results) \in Nat
      /\ results \in Seq(Statuses) /\ request \in Requests
      /\ request.approved => CheckRuns >= 2 * Complete
  BY <1>0, Constants DEF Types, Receipts
\* No check ran, and nothing has been staged by this step.
<1>b. ASSUME receipt'.checks = receipt.checks, UNCHANGED <<request, starved>>,
             stage' = "top" => receipt'.state # "awaiting_existing_edit",
             stage' \in Working \cup {"baseline", "verify"} =>
                stage \in Working /\ results' = results
      PROVE  ChecksInv'
  BY <1>0, <1>b DEF ChecksInv, ChecksNeverStarve, StagedCanContinue
<1>1. CASE Checked
  <2>1. /\ stage \in {"baseline", "verify"} /\ UNCHANGED <<request, stage>>
        /\ VerifyChecks > 0 /\ Len(results) < Commands
        /\ \/ receipt'.checks = receipt.checks
           \/ receipt.checks < CheckRuns /\ receipt'.checks = receipt.checks + 1
        /\ (starved' => starved) \/ (request.approved /\ receipt.checks >= CheckRuns)
    BY <1>1 DEF Checked
  <2>2. Len(results') = Len(results) + 1
    BY <1>1, <1>a DEF Checked
  <2>3. request.approved => receipt.checks + Complete <= CheckRuns + Len(results)
    BY <1>0, <2>1 DEF ChecksInv
  <2>4. ~starved'
    BY <1>0, <1>a, <2>1, <2>3, Constants DEF ChecksInv, ChecksNeverStarve
  <2>5. /\ receipt'.checks <= CheckRuns
        /\ request.approved => receipt'.checks + Complete <= CheckRuns + Len(results')
    BY <1>0, <1>a, <2>1, <2>2, <2>3, Constants DEF ChecksInv
  <2> QED
    BY <2>1, <2>4, <2>5 DEF ChecksInv, ChecksNeverStarve, StagedCanContinue
<1>2. CASE Halts \/ Concludes \/ Quits
  BY <1>2, <1>b DEF Halts, Concludes, Quits, Like, histVars, Working
<1>3. CASE BaselineChecked
  <2>1. /\ stage = "baseline" /\ stage' = "top" /\ UNCHANGED <<request, starved, receipt>>
    BY <1>3 DEF BaselineChecked, Go, histVars
  <2>2. receipt.state # "awaiting_existing_edit"
    BY <1>0, <2>1 DEF RoundInv
  <2> QED
    BY <1>b, <2>1, <2>2 DEF Working
<1>4. CASE Begins
  <2>1. /\ stage = "top" /\ stage' \in {"strategy", "prepare"}
        /\ UNCHANGED <<request, starved, receipt, results>>
        /\ request.approved => receipt.checks + Complete <= CheckRuns
    BY <1>4 DEF Begins, histVars
  <2>2. request.approved => receipt.checks + Complete <= CheckRuns + Len(results)
    BY <1>a, <2>1, Constants
  <2> QED
    BY <1>0, <2>1, <2>2 DEF ChecksInv, ChecksNeverStarve, StagedCanContinue
<1>5. CASE ReserveStrategy
  <2>1. /\ stage = "strategy" /\ stage' = "ask" /\ UNCHANGED <<request, starved, results>>
        /\ receipt'.checks = receipt.checks
    BY <1>0, <1>5, ReserveStrategyEffect DEF ReserveStrategy, Reserves, Go, histVars
  <2> QED
    BY <1>b, <2>1 DEF Working
<1>6. CASE Ask \/ StrategyAccepted \/ Prepare
  BY <1>6, <1>b DEF Ask, StrategyAccepted, Prepare, Go, histVars, Working
<1>7. CASE ReserveEdit
  <2>1. /\ stage = "admit" /\ stage' = "chat" /\ UNCHANGED <<request, starved, results>>
        /\ receipt'.checks = receipt.checks
    BY <1>0, <1>7, ReserveEditEffect DEF ReserveEdit, Reserves, Go, histVars
  <2> QED
    BY <1>b, <2>1 DEF Working
<1>8. ASSUME NEW c, NEW s, PushesOnly(c, s)
      PROVE  ChecksInv'
  <2>1. /\ stage \in {"chat", "answered"} /\ stage' \in {"after", "top"}
        /\ UNCHANGED <<request, starved>>
        /\ receipt'.checks = receipt.checks /\ receipt'.calls = receipt.calls
        /\ receipt'.tokens = receipt.tokens /\ receipt'.state = s
        /\ s = "awaiting_existing_edit" => plan.mixed
    BY <1>8 DEF PushesOnly, Pushes, histVars
  <2>2. CASE ~plan.mixed
    BY <1>b, <2>1, <2>2 DEF Working
  <2>3. CASE plan.mixed
    <3>1. receipt.calls + 1 <= Generations /\ Left >= 128
      BY <1>0, <2>1, <2>3 DEF CallsInv
    <3>2. results = <<>>
      BY <1>0, <2>1 DEF RoundInv, Loop, Working
    <3>3. request.approved => receipt.checks + Complete <= CheckRuns + 0
      BY <1>0, <2>1, <3>2 DEF ChecksInv, Working
    <3>4. request.approved => Minus(CheckRuns, receipt.checks) >= Complete
      BY <1>0, <1>a, <3>3, Constants DEF Minus
    <3>5. receipt.calls < Generations
      BY <1>a, <3>1, Constants
    <3> QED
      BY <1>0, <2>1, <3>1, <3>4, <3>5
      DEF ChecksInv, ChecksNeverStarve, StagedCanContinue, Left, Working
  <2> QED
    BY <2>2, <2>3
<1>9. ASSUME NEW c, PushesDraft(c)
      PROVE  ChecksInv'
  BY <1>9, <1>b DEF PushesDraft, Pushes, histVars, Working
<1>10. ASSUME NEW c, Settles(c)
       PROVE  ChecksInv'
  <2>1. /\ stage = "verify" /\ stage' \in {"after", "top"} /\ UNCHANGED <<request, starved>>
        /\ receipt'.checks = receipt.checks
        /\ receipt'.state \in {"finalizing", receipt.state}
    BY <1>10 DEF Settles
  <2>2. receipt'.state # "awaiting_existing_edit"
    BY <1>0, <2>1 DEF RoundInv
  <2> QED
    BY <1>b, <2>1, <2>2 DEF Working
<1>11. CASE Changes \/ TimeRunsOut \/ UNCHANGED vars
  <2>1. UNCHANGED <<stage, request, receipt, results, starved>>
    BY <1>11 DEF Changes, TimeRunsOut, vars, runVars, histVars
  <2> QED
    BY <1>0, <2>1 DEF ChecksInv, ChecksNeverStarve, StagedCanContinue, Left
<1> QED
  BY <1>1, <1>2, <1>3, <1>4, <1>5, <1>6, <1>7, <1>8, <1>9, <1>10, <1>11, StepCases

-----------------------------------------------------------------------------
LEMMA InitIInv == Init => IInv
<1> SUFFICES ASSUME Init
             PROVE  IInv
  OBVIOUS
<1> DEFINE r == [state |-> "baseline", candidates |-> <<>>, selected |-> NoParent,
                 calls |-> 0, tokens |-> 0, checks |-> 0, index |-> "passed"]
<1>1. /\ request \in Requests /\ stage = "baseline" /\ receipt = r /\ disk = r
      /\ plan = NoPlan /\ output = 0 /\ results = <<>> /\ draft = NoCandidate
      /\ seen = {Base} /\ changed = {} /\ tampered = {} /\ timeUp = FALSE
      /\ sent = [calls |-> 0, tokens |-> 0] /\ starved = FALSE /\ early = {}
  BY DEF Init
<1>2. r \in Receipts
  <2>1. <<>> \in Seq(Candidate)
    OBVIOUS
  <2> QED
    BY <2>1 DEF Receipts, States, NoParent
<1>3. plan \in Plans /\ draft \in Candidate
  BY <1>1 DEF NoPlan, Plans, Actions, NoCandidate, Candidate, NoParent, Rejections
<1>4. Types
  <2>1. receipt \in Receipts /\ disk \in Receipts
    BY <1>1, <1>2
  <2>2. stage \in Stages /\ output \in Nat /\ results \in Seq(Statuses)
    BY <1>1 DEF Stages
  <2>3. /\ seen \subseteq Content /\ Base \in seen /\ changed \subseteq {"source", "index", "baseline"}
        /\ early \subseteq changed /\ tampered = {}
    BY <1>1, Constants
  <2>4. timeUp \in BOOLEAN /\ starved \in BOOLEAN /\ sent \in [calls : Nat, tokens : Nat]
    BY <1>1
  <2> QED
    BY <1>1, <1>3, <2>1, <2>2, <2>3, <2>4 DEF Types
<1>5. /\ receipt.candidates = <<>> /\ receipt.selected = NoParent /\ receipt.state = "baseline"
      /\ receipt.calls = 0 /\ receipt.tokens = 0 /\ receipt.checks = 0 /\ receipt.index = "passed"
      /\ disk = receipt
  BY <1>1
<1>6. CandidatesInv
  BY <1>5, Constants DEF CandidatesInv, CheckedOnce
<1>7. RoundInv
  BY <1>1, <1>5 DEF RoundInv, Loop, Working
<1>8. SelectionInv
  BY <1>1, <1>5 DEF SelectionInv, Earned, ChangesAreNoticed, Open, Reviewed
<1>9. CallsInv
  BY <1>1, <1>5, Constants DEF CallsInv
<1>10. ChecksInv
  BY <1>1, <1>5, Constants DEF ChecksInv, ChecksNeverStarve, StagedCanContinue
<1> QED
  BY <1>4, <1>6, <1>7, <1>8, <1>9, <1>10 DEF IInv

LEMMA NextIInv == IInv /\ [Next]_vars => IInv'
BY TypesStep, CandidatesStep, RoundStep, SelectionStep, CallsStep, ChecksStep DEF IInv

LEMMA SpecIInv == Spec => []IInv
BY InitIInv, NextIInv, PTL DEF Spec

LEMMA IInvReceipt == IInv => ReceiptInv
<1> SUFFICES ASSUME IInv
             PROVE  ReceiptInv
  OBVIOUS
<1>1. /\ Types /\ CandidatesInv /\ Earned(receipt) /\ Earned(disk)
      /\ Len(disk.candidates) <= Len(receipt.candidates)
  BY DEF IInv, SelectionInv
<1>2. /\ receipt.candidates \in Seq(Candidate) /\ receipt.selected \in Nat
      /\ disk.candidates \in Seq(Candidate) /\ disk.selected \in Nat
  BY <1>1 DEF Types, Receipts
<1>3. TypeOK
  <2>1. {receipt.selected, disk.selected} \subseteq 0 .. Len(receipt.candidates)
    <3>1. receipt.selected \in {0, Len(receipt.candidates)} /\ disk.selected \in {0, Len(disk.candidates)}
      BY <1>1 DEF Earned, NoParent
    <3> QED
      BY <1>1, <1>2, <3>1
  <2>2. ASSUME NEW i \in DOMAIN receipt.candidates
        PROVE  LET c == receipt.candidates[i]
               IN  /\ c.parent \in 0 .. i - 1
                   /\ c.content \in Content \cup {NoContent}
                   /\ c.why \in Rejections
                   /\ c.staged => c.parts = {"new"}
    <3>1. receipt.candidates[i] \in Candidate /\ i \in Nat
      BY <1>2, <2>2
    <3>2. CandidateOK(receipt.candidates, seen, i)
      BY <1>1, <2>2 DEF CandidatesInv
    <3> QED
      BY <3>1, <3>2 DEF Candidate, CandidateOK
  <2>3. Len(receipt.candidates) <= Generations
    BY <1>1 DEF CandidatesInv
  <2> QED
    BY <1>1, <2>1, <2>2, <2>3 DEF TypeOK, Types
<1>4. ReviewIsEarned
  BY <1>1 DEF ReviewIsEarned, Earned, Open
<1>5. SelectionMeansReview
  BY <1>1 DEF SelectionMeansReview, Earned, Open
<1> QED
  BY <1>3, <1>4, <1>5 DEF ReceiptInv

\* ReceiptInv for every plan of checks and every budget: a receipt on disk that
\* calls a candidate ready for review has earned it, whatever is tried before
\* and whenever the process ends (run_inner, next_with_budget; apply_selected
\* and the list of saved reviews rely on it).
THEOREM ReviewsAreEarned == Spec => []ReceiptInv
BY SpecIInv, IInvReceipt, PTL

\* ChangesAreNoticed: what of the source, its Git index or the baseline had
\* changed before the candidate was accepted keeps it from being reviewed (the
\* observations at the end of run_inner).
THEOREM NoReviewOfTheChanged == Spec => []ChangesAreNoticed
<1>1. IInv => ChangesAreNoticed
  BY DEF IInv, SelectionInv
<1> QED
  BY <1>1, SpecIInv, PTL

\* BudgetInv: every call and token is on disk before it is asked for and within
\* the budget, and no approved check of a candidate finds the check budget used
\* up (the reservations of run_inner and its gate before a round).
THEOREM BudgetIsKept == Spec => []BudgetInv
<1>1. IInv => BudgetInv
  BY DEF IInv, CallsInv, ChecksInv, BudgetInv, ReservedBeforeSent
<1> QED
  BY <1>1, SpecIInv, PTL

\* CheckedOnce: no content is verified a second time, and never the baseline's
\* (the hashes that run_inner has seen).
THEOREM NoContentTwice == Spec => []CheckedOnce
<1>1. IInv => CheckedOnce
  BY DEF IInv, CandidatesInv
<1> QED
  BY <1>1, SpecIInv, PTL

=============================================================================
