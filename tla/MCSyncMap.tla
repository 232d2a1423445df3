----------------------------- MODULE MCSyncMap ------------------------------
\* SyncMap with model values for TLC.
EXTENDS SyncMap, TLC

\* Threads and keyLock objects are interchangeable.
Symmetry == Permutations(Threads) \cup Permutations(Locks)
=============================================================================
