--------------------------- MODULE MCHeadlessGoal ---------------------------
(***************************************************************************)
(* Small plans on which TLC explores HeadlessGoal.                         *)
(***************************************************************************)
EXTENDS HeadlessGoal, TLC

CONSTANTS s1, s2, s3

\* s3 waits for both s1 and s2.
JoinDeps == (s1 :> {}) @@ (s2 :> {}) @@ (s3 :> {s1, s2})

\* Everybody starts at the top.
TopTiers == [s \in Subtask |-> TopTier]
=============================================================================
