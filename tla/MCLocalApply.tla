---------------------------- MODULE MCLocalApply ----------------------------
(***************************************************************************)
(* The changesets on which TLC explores LocalApply.                        *)
(***************************************************************************)
EXTENDS LocalApply

CONSTANTS f1, f2

\* Two existing files, one new file, and two existing files with a new one.
Batch == [edits |-> <<f1, f2>>, create |-> FALSE]
Creation == [edits |-> <<>>, create |-> TRUE]
Mixed == [edits |-> <<f1, f2>>, create |-> TRUE]

AllKinds == {Batch, Creation, Mixed}
BatchOnly == {Batch}

=============================================================================
