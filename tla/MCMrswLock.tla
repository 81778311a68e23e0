------------------------------ MODULE MCMrswLock ------------------------------
EXTENDS MrswLock, TLC

Symmetry == Permutations(Threads)
==============================================================================
