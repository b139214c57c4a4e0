--------------------------- MODULE MCSessionRunner ---------------------------
(* Small instance of SessionRunner: three workflow runs of one day.        *)
EXTENDS SessionRunner, TLC

CONSTANTS r1, r2, r3

Symmetry == Permutations(Runs)
=============================================================================
