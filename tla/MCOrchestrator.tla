--------------------------- MODULE MCOrchestrator ---------------------------
(***************************************************************************)
(* Small plans on which TLC explores Orchestrator.                         *)
(***************************************************************************)
EXTENDS Orchestrator, TLC

CONSTANTS s1, s2, s3, s4

\* s3 waits for both s1 and s2; s4 is independent of them.
JoinDeps == (s1 :> {}) @@ (s2 :> {}) @@ (s3 :> {s1, s2}) @@ (s4 :> {})

\* s1 may escalate once (to Frontier), the others are at the top.
OneClimber == [s \in Subtask |-> IF s = s1 THEN 2 ELSE 3]

\* s1 climbs the whole ladder, from Local.
FullLadder == [s \in Subtask |-> IF s = s1 THEN 0 ELSE 3]
=============================================================================
