--------------------------- MODULE MCRuntimeSetup ---------------------------
(***************************************************************************)
(* Two processes that set the runtime up in one folder.                    *)
(***************************************************************************)
EXTENDS RuntimeSetup, TLC

CONSTANTS p1, p2, s1, s2, r1, r2

Symmetry == Permutations({p1, p2}) \cup Permutations({s1, s2})
                \cup Permutations({r1, r2})
=============================================================================
