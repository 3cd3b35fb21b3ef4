--------------------------- MODULE MCVerification ---------------------------
\* Instances of Verification for TLC.
EXTENDS Verification, TLC

CONSTANTS a, b, c, p, q, lib, app, doc

\* One verification in a process of its own, two in another.
TwoProcesses == (a :> p) @@ (b :> q) @@ (c :> q)

\* b and c differ in their names only.
Twins == Permutations({b, c})

Diff(edits, rewrites, breaks) ==
    [edits |-> edits, rewrites |-> rewrites, breaks |-> breaks,
     builds |-> TRUE, manifest |-> FALSE]

SamePlace  == Diff({lib}, {lib}, {lib})     \* breaks lib and rewrites its tests
OtherPlace == Diff({lib}, {app}, {app})     \* edits lib, breaks and rewrites app's tests
NoSuite    == Diff({doc}, {}, {})           \* no test to run
NoBuild    == [Diff({lib}, {}, {}) EXCEPT !.builds = FALSE]
Manifest   == [Diff({lib}, {}, {}) EXCEPT !.manifest = TRUE]

\* Candidates that edit tests beside each other; of the others, one in each process.
Workloads ==
    [Job -> {SamePlace, OtherPlace}]
      \cup {(a :> x) @@ (b :> SamePlace) @@ (c :> x) : x \in {NoSuite, NoBuild, Manifest}}

\* Two candidates that edit tests.
TestEdits == [Job -> {SamePlace, OtherPlace}]
=============================================================================
