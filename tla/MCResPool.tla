------------------------------ MODULE MCResPool ------------------------------
EXTENDS ResPool, TLC

CONSTANTS c1, c2, c3, r1, r2

Symmetry == Permutations({r1, r2})
=============================================================================
