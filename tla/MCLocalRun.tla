----------------------------- MODULE MCLocalRun -----------------------------
\* Instances of LocalRun for TLC.
EXTENDS LocalRun

CONSTANTS c1, c2

Asked(kinds, approvals) == [kind : kinds, approved : approvals]

EditsAndMixed == Asked({"edit", "mixed"}, {TRUE}) \cup Asked({"create"}, BOOLEAN)
=============================================================================
