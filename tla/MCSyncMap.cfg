SPECIFICATION FairSpec
CONSTANTS
  Threads = {t1, t2, t3}
  Keys = {a, b}
  Values = {v1}
  Locks = {l1, l2, l3}
  None = None
INVARIANTS KeyExclusion UnlockFindsKeyLock KeyLockLifetime EntryStable
PROPERTIES LockKeyReturns ImplementsKeyedMutex
