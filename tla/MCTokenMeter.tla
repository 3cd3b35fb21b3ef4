---------------------------- MODULE MCTokenMeter ----------------------------
\* Instances of TokenMeter for TLC.
EXTENDS TokenMeter, TLC

\* Subtasks differ in nothing but their identity.
Symmetry == Permutations(Subtask)
=============================================================================
