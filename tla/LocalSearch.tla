----------------------------- MODULE LocalSearch -----------------------------
(***************************************************************************)
(* The decisions of a local run's search                                   *)
(* (src/phonton-worker/src/local_run/search.rs and the budget arithmetic   *)
(* of local_run.rs): what to try next, from the evidence of the candidates *)
(* so far, and how many tokens a call may reserve.                         *)
(*                                                                         *)
(* A candidate's evidence is reduced to what the decisions read: whether   *)
(* it was staged, its parent, its content, why it was rejected, what the   *)
(* checks said, and two comparisons of texts: `again`, an earlier reply    *)
(* without content was the same; `same`, the failures of a repair are      *)
(* those of its parent and no check was gained.                            *)
(***************************************************************************)
EXTENDS Naturals, Sequences

CONSTANTS
    Generations,    \* budget.generations: model calls of the run
    Tokens,         \* budget.generated_tokens
    OutputCap,      \* of one call: the profile's limit, a quarter of the context
    NoContent

NoParent == 0

\* Why a candidate was rejected; "none" if it was not.
Rejections == {"none", "reply", "no_change", "repeated", "failed", "modified"}

Statuses == {"passed", "failed", "unavailable", "not_run"}

Decision(action, parent) == [action |-> action, parent |-> parent]

Smaller(a, b) == IF a < b THEN a ELSE b
Larger(a, b)  == IF a > b THEN a ELSE b
Minus(a, b)   == IF a > b THEN a - b ELSE 0     \* saturating_sub

\* How many of the last candidates repeated an earlier one.
Repeats(cs) ==
    LET n == Len(cs)
    IN  IF n = 0 \/ cs[n].why # "repeated" THEN 0
        ELSE IF n = 1 \/ cs[n - 1].why # "repeated" THEN 1 ELSE 2

Reports(c, status) == \E i \in DOMAIN c.checks : c.checks[i] = status

\* Nothing more can be learnt by generating.
MustStop(cs) ==
    LET last == cs[Len(cs)]
    IN  \/ last.why \in {"none", "modified"}
        \/ Reports(last, "unavailable")
        \/ last.content = NoContent /\ last.again
        \/ Repeats(cs) = 2

\* The branch is abandoned for a fresh approach from the original source.
Abandons(last, cs) ==
    \/ Repeats(cs) = 1
    \/ last.why = "failed" /\ last.parent # NoParent /\ last.same
    \/ last.why = "no_change"
    \/ last.why # "failed" /\ last.parent = NoParent

\* search::next
NextDecision(cs) ==
    LET last == cs[Len(cs)]
    IN  IF cs = <<>> THEN Decision("initial", NoParent)
        ELSE IF last.staged /\ last.why = "none" THEN Decision("continue", Len(cs))
        ELSE IF MustStop(cs) THEN Decision("stop", NoParent)
        ELSE IF Abandons(last, cs) THEN Decision("restart", NoParent)
        ELSE IF last.why = "failed" THEN Decision("repair", Len(cs))
        ELSE Decision("repair", last.parent)

\* inference_budget_allows: a restart needs a strategy and an edit.
BudgetAllows(action, calls, left) ==
    IF action = "restart"
    THEN calls + 2 <= Generations /\ left >= 256
    ELSE calls + 1 <= Generations /\ left >= 128

\* next_with_budget: the last call is spent on one direct retry.
Decide(cs, calls, left, mixed) ==
    LET d == NextDecision(cs)
    IN  IF /\ d.action = "restart"
           /\ ~mixed
           /\ ~BudgetAllows("restart", calls, left)
           /\ BudgetAllows("initial", calls, left)
           /\ cs[Len(cs)].content = NoContent
           /\ cs[Len(cs)].parent = NoParent
        THEN Decision("initial", NoParent) ELSE d

\* A new file and its edit, after a strategy or not, must fit together.
MixedFits(action, calls, left) ==
    LET needed == IF action = "restart" THEN 3 ELSE 2
    IN  calls + needed <= Generations /\ left >= needed * 128

HypothesisOutput(left, mixed) == Smaller(Minus(left, IF mixed THEN 256 ELSE 128), 192)

\* Half is left for a later call while one is allowed.
EditOutput(calls, left, mixed) ==
    LET later == IF Generations - calls > 1 THEN left \div 2 ELSE 0
    IN  Smaller(OutputCap, Minus(left, Larger(later, IF mixed THEN 128 ELSE 0)))
=============================================================================
