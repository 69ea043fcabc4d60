---------------------------- MODULE MCWriteLock ----------------------------
\* WriteLock with a few interchangeable processes.
EXTENDS WriteLock, TLC

Symmetry == Permutations(Writers)
============================================================================
