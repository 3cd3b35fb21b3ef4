---------------------------- MODULE MCDiffApplier ----------------------------
(***************************************************************************)
(* A small repository on which TLC explores DiffApplier.                   *)
(***************************************************************************)
EXTENDS DiffApplier, TLC

CONSTANTS p1, p2, seed, u1

\* p1 is tracked, p2 does not exist yet.
OneTracked == (p1 :> {seed, Eof}) @@ (p2 :> NoFile)

=============================================================================
