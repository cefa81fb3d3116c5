----------------------------- MODULE MCStopState -----------------------------
EXTENDS StopState, TLC

CONSTANTS t1, t2, t3, b1, b2, b3, s1, s2, k1, k2

Symmetry == Permutations(Threads) \cup Permutations(Cbs) \cup Permutations(Sources)
            \cup Permutations(Tokens)
=============================================================================
