----------------------------- MODULE MCQueueMap -----------------------------
\* QueueMap with model values for TLC.
EXTENDS QueueMap, TLC

\* Objects and queueMapEntry objects are interchangeable.
Symmetry == Permutations(Keys) \cup Permutations(Entries)
=============================================================================
