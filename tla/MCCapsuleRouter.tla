--------------------------- MODULE MCCapsuleRouter ---------------------------
EXTENDS CapsuleRouterInv, TLC

CONSTANTS c1, g1, x1, p1, p2

\* The router and the workers run the same operations.
ProcSymmetry == Permutations(Procs)
=============================================================================
