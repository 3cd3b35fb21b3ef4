---------------------------- MODULE MCLocalGoals ----------------------------
(* Two requests of the sidecar beside the command line and the terminal.    *)
EXTENDS LocalGoals, TLC

Symmetry == Permutations(Handler) \cup Permutations(Id)
              \cup Permutations(Profile) \cup Permutations(Folder)
=============================================================================
