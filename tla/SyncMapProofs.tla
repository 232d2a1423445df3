---------------------------- MODULE SyncMapProofs ---------------------------
(***************************************************************************)
(* Proofs about SyncMap, for any number of threads, keys and values: the   *)
(* inductive invariant of SyncMap.tla, the safety properties that follow   *)
(* from it, and that SyncMap implements KeyedMutex.                        *)
(***************************************************************************)
EXTENDS SyncMap, FiniteSetTheorems, TLAPS

-----------------------------------------------------------------------------
(***************************************************************************)
(* Referrers of a key come and go one at a time                            *)
(***************************************************************************)

\* Any set of threads is finite, so its cardinality is a natural number.
LEMMA ThreadSetsFinite ==
    ASSUME NEW S \in SUBSET Threads
    PROVE  IsFiniteSet(S) /\ Cardinality(S) \in Nat
BY ThreadsFinite, FS_Subset, FS_CardinalityType

\* A thread that was not counted adds one to the count.
LEMMA OneMore ==
    ASSUME NEW S \in SUBSET Threads, NEW t \in Threads, t \notin S
    PROVE  Cardinality(S \cup {t}) = Cardinality(S) + 1
BY ThreadSetsFinite, FS_AddElement

\* A thread that was counted takes one off the count.
LEMMA OneLess ==
    ASSUME NEW S \in SUBSET Threads, NEW t \in S
    PROVE  Cardinality(S \ {t}) = Cardinality(S) - 1
BY ThreadSetsFinite, FS_RemoveElement

\* Only the empty set counts zero.
LEMMA NobodyLeft ==
    ASSUME NEW S \in SUBSET Threads
    PROVE  Cardinality(S) = 0 <=> S = {}
BY ThreadSetsFinite, FS_EmptySet

-----------------------------------------------------------------------------
(***************************************************************************)
(* The inductive invariant                                                 *)
(***************************************************************************)

\* SyncMap.tla's inductive invariant holds in every reachable state: counters
\* count, private locks stay private, and a key has one holder.
THEOREM Invariance == Spec => []IndInv
<1>1. Init => IndInv
  BY NoneIsNil DEF Init, IndInv, TypeOK, PC, MutexInv, PointerInv, PrivateInv,
     CounterInv, PointsToInv, HolderInv, EntryStable, Refers, Holds
<1>2. IndInv /\ [Next]_vars => IndInv'
  <2> SUFFICES ASSUME IndInv, [Next]_vars
               PROVE  IndInv'
    OBVIOUS
  <2>1. ASSUME NEW t \in Threads, NEW k \in Keys, LockKey(t, k)
        PROVE  IndInv'
    <3>1. TypeOK'
      BY <2>1, NoneIsNil DEF LockKey, Unreachable, Goto, IndInv, TypeOK, PC,
         PointerInv
    <3>2. MutexInv'
      BY <2>1, NoneIsNil DEF LockKey, Unreachable, Goto, IndInv, TypeOK, PC,
         MutexInv
    <3>3. PointerInv'
      BY <2>1, NoneIsNil DEF LockKey, Unreachable, Goto, IndInv, TypeOK, PC,
         PointerInv, MutexInv
    <3>4. PrivateInv'
      BY <2>1, NoneIsNil DEF LockKey, Unreachable, Goto, IndInv, TypeOK, PC,
         PrivateInv, PointerInv, PointsToInv, MutexInv, HolderInv, Refers,
         Holds
    <3>5. CounterInv'
      <4>1. \A j \in Keys : Referrers(j)' = Referrers(j)
        BY <2>1 DEF LockKey, Unreachable, Goto, IndInv, TypeOK, PC,
           PointerInv, Referrers, Refers
      <4> QED
        BY <2>1, <4>1, NoneIsNil DEF LockKey, Unreachable, Goto, IndInv,
           TypeOK, PC, CounterInv
    <3>6. PointsToInv'
      BY <2>1, NoneIsNil DEF LockKey, Unreachable, Goto, IndInv, TypeOK, PC,
         PointsToInv, PrivateInv, PointerInv, MutexInv, CounterInv, Refers
    <3>7. HolderInv'
      BY <2>1, NoneIsNil DEF LockKey, Unreachable, Goto, IndInv, TypeOK, PC,
         HolderInv, PrivateInv, PointerInv, Holds
    <3>8. EntryStable'
      BY <2>1, NoneIsNil DEF LockKey, Unreachable, Goto, IndInv, TypeOK, PC,
         EntryStable, PointerInv, HolderInv, PointsToInv, Refers, Holds
    <3> QED
      BY <3>1, <3>2, <3>3, <3>4, <3>5, <3>6, <3>7, <3>8 DEF IndInv
  <2>2. ASSUME NEW t \in Threads, LockKeyLocksToLoad(t)
        PROVE  IndInv'
    <3>1. TypeOK'
      BY <2>2, NoneIsNil DEF LockKeyLocksToLoad, Goto, IndInv, TypeOK, PC,
         PointerInv
    <3>2. MutexInv'
      BY <2>2, NoneIsNil DEF LockKeyLocksToLoad, Goto, IndInv, TypeOK, PC,
         MutexInv
    <3>3. PointerInv'
      BY <2>2, NoneIsNil DEF LockKeyLocksToLoad, Goto, IndInv, TypeOK, PC,
         PointerInv, MutexInv
    <3>4. PrivateInv'
      BY <2>2, NoneIsNil DEF LockKeyLocksToLoad, Goto, IndInv, TypeOK, PC,
         PrivateInv, PointerInv, PointsToInv, MutexInv, HolderInv, Refers,
         Holds
    <3>5. CounterInv'
      <4>1. \A j \in Keys : Referrers(j)' = Referrers(j)
        BY <2>2 DEF LockKeyLocksToLoad, Goto, IndInv, TypeOK, PC, PointerInv,
           Referrers, Refers
      <4> QED
        BY <2>2, <4>1, NoneIsNil DEF LockKeyLocksToLoad, Goto, IndInv, TypeOK,
           PC, CounterInv
    <3>6. PointsToInv'
      BY <2>2, NoneIsNil DEF LockKeyLocksToLoad, Goto, IndInv, TypeOK, PC,
         PointsToInv, PrivateInv, PointerInv, MutexInv, CounterInv, Refers
    <3>7. HolderInv'
      BY <2>2, NoneIsNil DEF LockKeyLocksToLoad, Goto, IndInv, TypeOK, PC,
         HolderInv, PrivateInv, PointerInv, Holds
    <3>8. EntryStable'
      BY <2>2, NoneIsNil DEF LockKeyLocksToLoad, Goto, IndInv, TypeOK, PC,
         EntryStable, PointerInv, HolderInv, PointsToInv, Refers, Holds
    <3> QED
      BY <3>1, <3>2, <3>3, <3>4, <3>5, <3>6, <3>7, <3>8 DEF IndInv
  <2>3. ASSUME NEW t \in Threads, LoadKeyLock(t)
        PROVE  IndInv'
    <3>1. TypeOK'
      BY <2>3, NoneIsNil DEF LoadKeyLock, Goto, IndInv, TypeOK, PC, PointerInv
    <3>2. MutexInv'
      BY <2>3, NoneIsNil DEF LoadKeyLock, Goto, IndInv, TypeOK, PC, MutexInv
    <3>3. PointerInv'
      BY <2>3, NoneIsNil DEF LoadKeyLock, Goto, IndInv, TypeOK, PC,
         PointerInv, MutexInv
    <3>4. PrivateInv'
      BY <2>3, NoneIsNil DEF LoadKeyLock, Goto, IndInv, TypeOK, PC,
         PrivateInv, PointerInv, PointsToInv, MutexInv, HolderInv, Refers,
         Holds
    <3>5. CounterInv'
      <4> DEFINE R == Referrers(key[t])
      <4>1. R \in SUBSET Threads /\ t \notin R /\ key[t] \in Keys
        BY <2>3 DEF LoadKeyLock, Goto, IndInv, PointerInv, Referrers, Refers
      <4>2. Referrers(key[t])' = R \cup {t}
        BY <2>3, <4>1 DEF LoadKeyLock, Goto, IndInv, TypeOK, Referrers, Refers
      <4>3. \A j \in Keys : j # key[t] => Referrers(j)' = Referrers(j)
        BY <2>3 DEF LoadKeyLock, Goto, IndInv, TypeOK, Referrers, Refers
      <4>4. Cardinality(R \cup {t}) = Cardinality(R) + 1
        BY <4>1, OneMore
      <4> HIDE DEF R
      <4>5. R = Referrers(key[t])
        BY DEF R
      <4>6. /\ keyLocks' = keyLocks /\ keyLocks[key[t]] # None
            /\ refCounter' = [refCounter EXCEPT ![keyLocks[key[t]]] = @ + 1]
        BY <2>3 DEF LoadKeyLock
      <4>7. TypeOK /\ CounterInv BY DEF IndInv
      <4>8. \A i, j \in Keys : keyLocks[i] = keyLocks[j] /\ keyLocks[i] # None => i = j
        BY <4>7 DEF CounterInv
      <4>9. ASSUME NEW j \in Keys, keyLocks[j] # None
            PROVE  Referrers(j)' # {} /\ refCounter'[keyLocks[j]] = Cardinality(Referrers(j)')
        <5>1. Referrers(j) # {} /\ refCounter[keyLocks[j]] = Cardinality(Referrers(j))
          BY <4>7, <4>9 DEF CounterInv
        <5>2. keyLocks[j] \in Locks /\ keyLocks[key[t]] \in Locks /\ refCounter \in [Locks -> Nat]
          BY <4>1, <4>6, <4>7, <4>9 DEF TypeOK
        <5>3. CASE j = key[t]
          <6>1. refCounter'[keyLocks[j]] = refCounter[keyLocks[j]] + 1 BY <4>6, <5>2, <5>3
          <6>2. Referrers(j) = R BY <4>5, <5>3
          <6>3. Referrers(j)' = R \cup {t}
            <7>1. key' = key BY <2>3 DEF LoadKeyLock
            <7> QED BY <4>2, <5>3, <7>1 DEF Referrers
          <6> QED BY <4>4, <5>1, <6>1, <6>2, <6>3
        <5>4. CASE j # key[t]
          <6>1. keyLocks[j] # keyLocks[key[t]] BY <4>1, <4>8, <4>9, <5>4
          <6>2. refCounter'[keyLocks[j]] = refCounter[keyLocks[j]] BY <4>6, <5>2, <6>1
          <6> QED BY <4>3, <5>1, <5>4, <6>2
        <5> QED BY <5>3, <5>4
      <4> QED BY <4>6, <4>8, <4>9 DEF CounterInv
    <3>6. PointsToInv'
      BY <2>3, NoneIsNil DEF LoadKeyLock, Goto, IndInv, TypeOK, PC,
         PointsToInv, PrivateInv, PointerInv, MutexInv, CounterInv, Refers
    <3>7. HolderInv'
      BY <2>3, NoneIsNil DEF LoadKeyLock, Goto, IndInv, TypeOK, PC, HolderInv,
         PrivateInv, PointerInv, Holds
    <3>8. EntryStable'
      BY <2>3, NoneIsNil DEF LoadKeyLock, Goto, IndInv, TypeOK, PC,
         EntryStable, PointerInv, HolderInv, PointsToInv, Refers, Holds
    <3> QED
      BY <3>1, <3>2, <3>3, <3>4, <3>5, <3>6, <3>7, <3>8 DEF IndInv
  <2>4. ASSUME NEW t \in Threads, StoreKeyLock(t)
        PROVE  IndInv'
    <3>1. TypeOK'
      BY <2>4, NoneIsNil DEF StoreKeyLock, Goto, IndInv, TypeOK, PC,
         PointerInv
    <3>2. MutexInv'
      BY <2>4, NoneIsNil DEF StoreKeyLock, Goto, IndInv, TypeOK, PC, MutexInv
    <3>3. PointerInv'
      BY <2>4, NoneIsNil DEF StoreKeyLock, Goto, IndInv, TypeOK, PC,
         PointerInv, MutexInv
    <3>4. PrivateInv'
      BY <2>4, NoneIsNil DEF StoreKeyLock, Goto, IndInv, TypeOK, PC,
         PrivateInv, PointerInv, PointsToInv, MutexInv, HolderInv, Refers,
         Holds
    <3>5. CounterInv'
      <4>1. key[t] \in Keys /\ kLock[t] \in Locks /\ t \notin Referrers(key[t])
        BY <2>4 DEF StoreKeyLock, Goto, IndInv, PointerInv, Referrers, Refers
      <4>2. Referrers(key[t]) = {}
        BY <2>4, NoneIsNil DEF StoreKeyLock, Goto, IndInv, PointerInv, PointsToInv,
           Referrers, Refers
      <4>3. Referrers(key[t])' = {t}
        BY <2>4, <4>2 DEF StoreKeyLock, Goto, IndInv, TypeOK, Referrers, Refers
      <4>4. \A j \in Keys : j # key[t] => Referrers(j)' = Referrers(j)
        BY <2>4 DEF StoreKeyLock, Goto, IndInv, TypeOK, Referrers, Refers
      <4>5. Cardinality({t}) = 1
        BY FS_Singleton
      <4>6. \A j \in Keys : keyLocks'[j] = IF j = key[t] THEN kLock[t] ELSE keyLocks[j]
        BY <2>4, <4>1 DEF StoreKeyLock, IndInv, TypeOK
      <4>7. /\ \A j \in Keys : keyLocks[j] # kLock[t]
            /\ refCounter[kLock[t]] = 0
        BY <2>4 DEF StoreKeyLock, Goto, IndInv, PrivateInv
      <4>8. refCounter' = [refCounter EXCEPT ![kLock[t]] = 1] /\ key' = key
        BY <2>4, <4>7 DEF StoreKeyLock
      <4>9. (\A j, k \in Keys : keyLocks[j] = keyLocks[k] /\ keyLocks[j] # None => j = k)'
        BY <4>6, <4>7 DEF IndInv, CounterInv
      <4>10. ASSUME NEW j \in Keys, (keyLocks[j] # None)'
             PROVE  (Referrers(j) # {} /\ refCounter[keyLocks[j]] = Cardinality(Referrers(j)))'
        <5>1. CASE j = key[t]
          BY <5>1, <4>1, <4>3, <4>5, <4>6, <4>8 DEF IndInv, TypeOK
        <5>2. CASE j # key[t]
          BY <5>2, <4>10, <4>1, <4>4, <4>6, <4>7, <4>8 DEF IndInv, TypeOK, CounterInv
        <5> QED
          BY <5>1, <5>2
      <4> QED
        BY <4>9, <4>10 DEF CounterInv
    <3>6. PointsToInv'
      BY <2>4, NoneIsNil DEF StoreKeyLock, Goto, IndInv, TypeOK, PC,
         PointsToInv, PrivateInv, PointerInv, MutexInv, CounterInv, Refers
    <3>7. HolderInv'
      BY <2>4, NoneIsNil DEF StoreKeyLock, Goto, IndInv, TypeOK, PC,
         HolderInv, PrivateInv, PointerInv, Holds
    <3>8. EntryStable'
      BY <2>4, NoneIsNil DEF StoreKeyLock, Goto, IndInv, TypeOK, PC,
         EntryStable, PointerInv, HolderInv, PointsToInv, Refers, Holds
    <3> QED
      BY <3>1, <3>2, <3>3, <3>4, <3>5, <3>6, <3>7, <3>8 DEF IndInv
  <2>5. ASSUME NEW t \in Threads, LockMutex(t)
        PROVE  IndInv'
    <3>1. TypeOK'
      BY <2>5, NoneIsNil DEF LockMutex, Goto, IndInv, TypeOK, PC, PointerInv
    <3>2. MutexInv'
      BY <2>5, NoneIsNil DEF LockMutex, Goto, IndInv, TypeOK, PC, MutexInv
    <3>3. PointerInv'
      BY <2>5, NoneIsNil DEF LockMutex, Goto, IndInv, TypeOK, PC, PointerInv,
         MutexInv
    <3>4. PrivateInv'
      BY <2>5, NoneIsNil DEF LockMutex, Goto, IndInv, TypeOK, PC, PrivateInv,
         PointerInv, PointsToInv, MutexInv, HolderInv, Refers, Holds
    <3>5. CounterInv'
      <4>1. \A j \in Keys : Referrers(j)' = Referrers(j)
        BY <2>5 DEF LockMutex, Goto, IndInv, TypeOK, PC, PointerInv,
           Referrers, Refers
      <4> QED
        BY <2>5, <4>1, NoneIsNil DEF LockMutex, Goto, IndInv, TypeOK, PC,
           CounterInv
    <3>6. PointsToInv'
      BY <2>5, NoneIsNil DEF LockMutex, Goto, IndInv, TypeOK, PC, PointsToInv,
         PrivateInv, PointerInv, MutexInv, CounterInv, Refers
    <3>7. HolderInv'
      BY <2>5, NoneIsNil DEF LockMutex, Goto, IndInv, TypeOK, PC, HolderInv,
         PrivateInv, PointerInv, Holds
    <3>8. EntryStable'
      BY <2>5, NoneIsNil DEF LockMutex, Goto, IndInv, TypeOK, PC, EntryStable,
         PointerInv, HolderInv, PointsToInv, Refers, Holds
    <3> QED
      BY <3>1, <3>2, <3>3, <3>4, <3>5, <3>6, <3>7, <3>8 DEF IndInv
  <2>6. ASSUME NEW t \in Threads, UnlockKey(t)
        PROVE  IndInv'
    <3>1. TypeOK'
      BY <2>6, NoneIsNil DEF UnlockKey, Goto, IndInv, TypeOK, PC, PointerInv
    <3>2. MutexInv'
      BY <2>6, NoneIsNil DEF UnlockKey, Goto, IndInv, TypeOK, PC, MutexInv
    <3>3. PointerInv'
      BY <2>6, NoneIsNil DEF UnlockKey, Goto, IndInv, TypeOK, PC, PointerInv,
         MutexInv
    <3>4. PrivateInv'
      BY <2>6, NoneIsNil DEF UnlockKey, Goto, IndInv, TypeOK, PC, PrivateInv,
         PointerInv, PointsToInv, MutexInv, HolderInv, Refers, Holds
    <3>5. CounterInv'
      <4>1. \A j \in Keys : Referrers(j)' = Referrers(j)
        BY <2>6 DEF UnlockKey, Goto, IndInv, TypeOK, PC, PointerInv,
           Referrers, Refers
      <4> QED
        BY <2>6, <4>1, NoneIsNil DEF UnlockKey, Goto, IndInv, TypeOK, PC,
           CounterInv
    <3>6. PointsToInv'
      BY <2>6, NoneIsNil DEF UnlockKey, Goto, IndInv, TypeOK, PC, PointsToInv,
         PrivateInv, PointerInv, MutexInv, CounterInv, Refers
    <3>7. HolderInv'
      BY <2>6, NoneIsNil DEF UnlockKey, Goto, IndInv, TypeOK, PC, HolderInv,
         PrivateInv, PointerInv, Holds
    <3>8. EntryStable'
      BY <2>6, NoneIsNil DEF UnlockKey, Goto, IndInv, TypeOK, PC, EntryStable,
         PointerInv, HolderInv, PointsToInv, Refers, Holds
    <3> QED
      BY <3>1, <3>2, <3>3, <3>4, <3>5, <3>6, <3>7, <3>8 DEF IndInv
  <2>7. ASSUME NEW t \in Threads, DropRef(t)
        PROVE  IndInv'
    <3>1. TypeOK'
      <4> DEFINE R == Referrers(key[t])
      <4>1. /\ R \in SUBSET Threads /\ t \in R /\ key[t] \in Keys
            /\ keyLocks[key[t]] = kLock[t] /\ kLock[t] \in Locks
        BY <2>7 DEF DropRef, IndInv, PointerInv, PointsToInv, Referrers, Refers
      <4>2. Cardinality(R \ {t}) = Cardinality(R) - 1
        BY <4>1, OneLess
      <4>3. Cardinality(R \ {t}) \in Nat
        BY <4>1, ThreadSetsFinite, FS_CardinalityType, FS_RemoveElement
      <4>4. refCounter[kLock[t]] - 1 \in Nat
        BY <4>1, <4>2, <4>3, NoneIsNil DEF IndInv, CounterInv
      <4> QED
        BY <2>7, <4>1, <4>4, NoneIsNil DEF DropRef, IndInv, TypeOK, PC, PointerInv
    <3>2. MutexInv'
      BY <2>7, NoneIsNil DEF DropRef, Goto, IndInv, TypeOK, PC, MutexInv
    <3>3. PointerInv'
      BY <2>7, NoneIsNil DEF DropRef, Goto, IndInv, TypeOK, PC, PointerInv,
         MutexInv
    <3>4. PrivateInv'
      BY <2>7, NoneIsNil DEF DropRef, Goto, IndInv, TypeOK, PC, PrivateInv,
         PointerInv, PointsToInv, MutexInv, HolderInv, Refers, Holds
    <3>5. CounterInv'
      <4> DEFINE R == Referrers(key[t])
      <4>1. /\ R \in SUBSET Threads /\ t \in R /\ key[t] \in Keys
            /\ keyLocks[key[t]] = kLock[t] /\ kLock[t] \in Locks
        BY <2>7 DEF DropRef, IndInv, PointerInv, PointsToInv, Referrers, Refers
      <4>2. Referrers(key[t])' = R \ {t}
        BY <2>7, <4>1, NoneIsNil DEF DropRef, IndInv, TypeOK, Referrers, Refers
      <4>3. \A j \in Keys : j # key[t] => Referrers(j)' = Referrers(j)
        BY <2>7 DEF DropRef, IndInv, TypeOK, Referrers, Refers
      <4>4. Cardinality(R \ {t}) = Cardinality(R) - 1
        BY <4>1, OneLess
      <4>5. Cardinality(R \ {t}) = 0 <=> R \ {t} = {}
        BY <4>1, NobodyLeft
      <4>6. refCounter[kLock[t]] = Cardinality(R)
        BY <4>1, NoneIsNil DEF IndInv, CounterInv
      <4>7. /\ refCounter' = [refCounter EXCEPT ![kLock[t]] = Cardinality(R \ {t})]
            /\ keyLocks' = IF R \ {t} = {} THEN [keyLocks EXCEPT ![key[t]] = None]
                                           ELSE keyLocks
            /\ key' = key
        BY <2>7, <4>1, <4>4, <4>5, <4>6, NoneIsNil DEF DropRef
      <4>8. (\A j, k \in Keys : keyLocks[j] = keyLocks[k] /\ keyLocks[j] # None => j = k)'
        BY <4>7 DEF IndInv, TypeOK, CounterInv
      <4>9. ASSUME NEW j \in Keys, (keyLocks[j] # None)'
            PROVE  (Referrers(j) # {} /\ refCounter[keyLocks[j]] = Cardinality(Referrers(j)))'
        <5> HIDE DEF R
        <5>1. CASE j = key[t]
          BY <5>1, <4>9, <4>1, <4>2, <4>7 DEF IndInv, TypeOK
        <5>2. CASE j # key[t]
          BY <5>2, <4>9, <4>1, <4>3, <4>7 DEF IndInv, TypeOK, CounterInv
        <5> QED
          BY <5>1, <5>2
      <4> QED
        BY <4>8, <4>9 DEF CounterInv
    <3>6. PointsToInv'
      <4> DEFINE R == Referrers(key[t])
      <4>1. /\ R \in SUBSET Threads /\ t \in R /\ key[t] \in Keys
            /\ keyLocks[key[t]] = kLock[t] /\ kLock[t] \in Locks
        BY <2>7 DEF DropRef, IndInv, PointerInv, PointsToInv, Referrers, Refers
      <4>2. refCounter[kLock[t]] - 1 = Cardinality(R \ {t})
        BY <4>1, OneLess, NoneIsNil DEF IndInv, CounterInv
      <4>3. refCounter[kLock[t]] - 1 = 0 => R \ {t} = {}
        BY <4>1, <4>2, NobodyLeft
      <4>4. ASSUME NEW u \in Threads, Refers(u)'
            PROVE  (keyLocks[key[u]] = kLock[u])'
        <5>1. u # t /\ Refers(u) /\ key[u] \in Keys /\ keyLocks[key[u]] = kLock[u]
          BY <2>7, <4>4, <4>1, NoneIsNil DEF DropRef, IndInv, TypeOK, PointerInv, PointsToInv, Refers
        <5>2. key[u] = key[t] => u \in R \ {t}
          BY <5>1 DEF Referrers
        <5> QED
          BY <2>7, <4>1, <4>3, <5>1, <5>2, NoneIsNil DEF DropRef, IndInv, TypeOK
      <4>5. ASSUME NEW u \in Threads, (pc[u] = "releasing")'
            PROVE  /\ (\A k \in Keys : keyLocks[k] = kLock[u] => k = key[u])'
                   /\ (keyLocks[key[u]] \in {kLock[u], None})'
        <5>1. u = t
          BY <2>7, <4>5, NoneIsNil DEF DropRef, IndInv, TypeOK, MutexInv
        <5> QED
          BY <2>7, <4>1, <5>1, NoneIsNil DEF DropRef, IndInv, TypeOK, CounterInv
      <4> QED
        BY <4>4, <4>5 DEF PointsToInv
    <3>7. HolderInv'
      BY <2>7, NoneIsNil DEF DropRef, Goto, IndInv, TypeOK, PC, HolderInv,
         PointerInv, PointsToInv, Refers, Holds
    <3>8. EntryStable'
      BY <2>7, NoneIsNil DEF DropRef, Goto, IndInv, TypeOK, PC, EntryStable,
         PointerInv, HolderInv, PointsToInv, Refers, Holds
    <3> QED
      BY <3>1, <3>2, <3>3, <3>4, <3>5, <3>6, <3>7, <3>8 DEF IndInv
  <2>8. ASSUME NEW t \in Threads, ReleaseMutex(t)
        PROVE  IndInv'
    <3>1. TypeOK'
      BY <2>8, NoneIsNil DEF ReleaseMutex, Goto, IndInv, TypeOK, PC,
         PointerInv
    <3>2. MutexInv'
      BY <2>8, NoneIsNil DEF ReleaseMutex, Goto, IndInv, TypeOK, PC, MutexInv
    <3>3. PointerInv'
      BY <2>8, NoneIsNil DEF ReleaseMutex, Goto, IndInv, TypeOK, PC,
         PointerInv, MutexInv
    <3>4. PrivateInv'
      BY <2>8, NoneIsNil DEF ReleaseMutex, Goto, IndInv, TypeOK, PC,
         PrivateInv, PointerInv, PointsToInv, MutexInv, HolderInv, Refers,
         Holds
    <3>5. CounterInv'
      <4>1. \A j \in Keys : Referrers(j)' = Referrers(j)
        BY <2>8 DEF ReleaseMutex, Goto, IndInv, TypeOK, PC, PointerInv,
           Referrers, Refers
      <4> QED
        BY <2>8, <4>1, NoneIsNil DEF ReleaseMutex, Goto, IndInv, TypeOK, PC,
           CounterInv
    <3>6. PointsToInv'
      BY <2>8, NoneIsNil DEF ReleaseMutex, Goto, IndInv, TypeOK, PC,
         PointsToInv, PrivateInv, PointerInv, MutexInv, CounterInv, Refers
    <3>7. HolderInv'
      BY <2>8, NoneIsNil DEF ReleaseMutex, Goto, IndInv, TypeOK, PC,
         HolderInv, PrivateInv, PointerInv, Holds
    <3>8. EntryStable'
      BY <2>8, NoneIsNil DEF ReleaseMutex, Goto, IndInv, TypeOK, PC,
         EntryStable, PointerInv, HolderInv, PointsToInv, Refers, Holds
    <3> QED
      BY <3>1, <3>2, <3>3, <3>4, <3>5, <3>6, <3>7, <3>8 DEF IndInv
  <2>9. ASSUME NEW t \in Threads, Access(t)
        PROVE  IndInv'
    <3>1. TypeOK'
      BY <2>9, NoneIsNil DEF Access, Load, LoadOrStore, Store, Delete, Put,
         Goto, IndInv, TypeOK, PC, PointerInv
    <3>2. MutexInv'
      BY <2>9, NoneIsNil DEF Access, Load, LoadOrStore, Store, Delete, Put,
         Goto, IndInv, TypeOK, PC, MutexInv
    <3>3. PointerInv'
      BY <2>9, NoneIsNil DEF Access, Load, LoadOrStore, Store, Delete, Put,
         Goto, IndInv, TypeOK, PC, PointerInv, MutexInv
    <3>4. PrivateInv'
      BY <2>9, NoneIsNil DEF Access, Load, LoadOrStore, Store, Delete, Put,
         Goto, IndInv, TypeOK, PC, PrivateInv, PointerInv, PointsToInv,
         MutexInv, HolderInv, Refers, Holds
    <3>5. CounterInv'
      <4>1. \A j \in Keys : Referrers(j)' = Referrers(j)
        BY <2>9 DEF Access, Load, LoadOrStore, Store, Delete, Put, Goto,
           IndInv, TypeOK, PC, PointerInv, Referrers, Refers
      <4> QED
        BY <2>9, <4>1, NoneIsNil DEF Access, Load, LoadOrStore, Store, Delete,
           Put, Goto, IndInv, TypeOK, PC, CounterInv
    <3>6. PointsToInv'
      BY <2>9, NoneIsNil DEF Access, Load, LoadOrStore, Store, Delete, Put,
         Goto, IndInv, TypeOK, PC, PointsToInv, PrivateInv, PointerInv,
         MutexInv, CounterInv, Refers
    <3>7. HolderInv'
      BY <2>9, NoneIsNil DEF Access, Load, LoadOrStore, Store, Delete, Put,
         Goto, IndInv, TypeOK, PC, HolderInv, PrivateInv, PointerInv, Holds
    <3>8. EntryStable'
      BY <2>9, NoneIsNil DEF Access, Load, LoadOrStore, Store, Delete, Put,
         Goto, IndInv, TypeOK, PC, EntryStable, PointerInv, HolderInv,
         PointsToInv, Refers, Holds
    <3> QED
      BY <3>1, <3>2, <3>3, <3>4, <3>5, <3>6, <3>7, <3>8 DEF IndInv
  <2>10. CASE UNCHANGED vars
    <3>1. \A j \in Keys : Referrers(j)' = Referrers(j)
      BY <2>10 DEF vars, Referrers, Refers
    <3> QED
      BY <2>10, <3>1 DEF vars, IndInv, TypeOK, MutexInv, PointerInv, PrivateInv,
         CounterInv, PointsToInv, HolderInv, EntryStable, Refers, Holds
  <2> QED
    BY <2>1, <2>2, <2>3, <2>4, <2>5, <2>6, <2>7, <2>8, <2>9, <2>10 DEF Next, Step
<1>3. QED
  BY <1>1, <1>2, PTL DEF Spec

-----------------------------------------------------------------------------
(***************************************************************************)
(* The properties                                                          *)
(***************************************************************************)

\* A state that satisfies the inductive invariant has at most one holder per
\* key: two holders of a key hold the same keyLock.
LEMMA ExclusionFromIndInv == IndInv => KeyExclusion
<1> SUFFICES ASSUME IndInv, NEW t \in Threads, NEW u \in Threads,
                    Holds(t), Holds(u), key[t] = key[u]
             PROVE  t = u
  BY DEF KeyExclusion
<1>1. CASE pc[t] # "releasing" /\ pc[u] # "releasing"
  BY <1>1 DEF IndInv, PointsToInv, HolderInv, Refers, Holds
<1>2. CASE pc[t] = "releasing" /\ pc[u] \in {"dropping", "releasing"}
  BY <1>2 DEF IndInv, MutexInv
<1>3. CASE pc[u] = "releasing" /\ pc[t] \in {"dropping", "releasing"}
  BY <1>3 DEF IndInv, MutexInv
<1>4. CASE pc[t] = "releasing" /\ pc[u] = "locked"
  BY <1>4, NoneIsNil DEF IndInv, PointerInv, PointsToInv, HolderInv, Refers, Holds
<1>5. CASE pc[u] = "releasing" /\ pc[t] = "locked"
  BY <1>5, NoneIsNil DEF IndInv, PointerInv, PointsToInv, HolderInv, Refers, Holds
<1> QED
  BY <1>1, <1>2, <1>3, <1>4, <1>5 DEF Holds

\* Mutual exclusion per key: LockKey gives exclusive access to the key while
\* lock objects are created and dropped around it.
THEOREM Exclusion == Spec => []KeyExclusion
BY Invariance, ExclusionFromIndInv, PTL

\* UnlockKey always finds the keyLock its caller locked.
THEOREM UnlockSafe == Spec => []UnlockFindsKeyLock
<1>1. IndInv => UnlockFindsKeyLock
  BY DEF IndInv, UnlockFindsKeyLock, PointsToInv, HolderInv, Refers, Holds
<1> QED
  BY <1>1, Invariance, PTL

\* A keyLock lives exactly as long as a thread needs it.
THEOREM Lifetime == Spec => []KeyLockLifetime
<1>1. ASSUME IndInv, NEW k \in Keys, keyLocks[k] # None
      PROVE  \E t \in Threads : Refers(t) /\ key[t] = k
  BY <1>1 DEF IndInv, CounterInv, Referrers
<1>2. ASSUME IndInv, NEW k \in Keys, NEW t \in Threads, Refers(t), key[t] = k
      PROVE  keyLocks[k] # None
  BY <1>2, NoneIsNil DEF IndInv, PointerInv, PointsToInv, Refers
<1>3. IndInv => KeyLockLifetime
  BY <1>1, <1>2 DEF KeyLockLifetime
<1> QED
  BY <1>3, Invariance, PTL

\* What a thread learnt about an entry under its key's lock stays true until
\* it unlocks the key.
THEOREM Stability == Spec => []EntryStable
<1>1. IndInv => EntryStable
  BY DEF IndInv
<1> QED
  BY <1>1, Invariance, PTL

-----------------------------------------------------------------------------
(***************************************************************************)
(* Refinement                                                              *)
(***************************************************************************)

\* The abstract owner of a key is its holder.
OwnerFacts == \A k \in Keys :
    /\ \A t \in Threads : Holds(t) /\ key[t] = k => Owner[k] = t
    /\ (\A t \in Threads : ~ (Holds(t) /\ key[t] = k)) => Owner[k] = None

\* The holder of a key is unique, so Owner is well defined.
LEMMA OwnerIsHolder == IndInv => OwnerFacts
BY ExclusionFromIndInv DEF OwnerFacts, Owner, KeyExclusion

\* SyncMap implements KeyedMutex: acquiring is StoreKeyLock or LockMutex,
\* releasing is ReleaseMutex, and creating, counting and dropping lock objects
\* is invisible to the callers.
THEOREM Refinement == Spec => ImplementsKeyedMutex
<1>1. Init => Abstract!Init
  BY DEF Init, Abstract!Init, Owner, Holds
<1>2. IndInv /\ OwnerFacts /\ OwnerFacts' /\ [Next]_vars
        => [Abstract!Next]_(Abstract!absVars)
  <2> SUFFICES ASSUME IndInv, OwnerFacts, OwnerFacts', [Next]_vars
               PROVE  [Abstract!Next]_(Abstract!absVars)
    OBVIOUS
  <2>a. /\ Owner = [k \in Keys |-> Owner[k]]
        /\ Owner' = [k \in Keys |-> Owner'[k]]
    BY DEF Owner
  <2> DEFINE HoldsKey(t, k) == Holds(t) /\ key[t] = k
  <2>1. ASSUME NEW K \in SUBSET Keys,
               \A t \in Threads, k \in K : HoldsKey(t, k)' <=> HoldsKey(t, k)
        PROVE  \A k \in K : Owner'[k] = Owner[k]
    <3> SUFFICES ASSUME NEW k \in K
                 PROVE  Owner'[k] = Owner[k]
      OBVIOUS
    <3>1. CASE \E t \in Threads : HoldsKey(t, k)
      BY <2>1, <3>1 DEF OwnerFacts
    <3>2. CASE \A t \in Threads : ~ HoldsKey(t, k)
      BY <2>1, <3>2 DEF OwnerFacts
    <3> QED
      BY <3>1, <3>2
  <2>2. ASSUME \A t \in Threads, k \in Keys : HoldsKey(t, k)' <=> HoldsKey(t, k)
        PROVE  Owner' = Owner
    <3>1. \A k \in Keys : Owner'[k] = Owner[k] BY <2>1, <2>2
    <3> HIDE DEF HoldsKey
    <3> QED BY <2>a, <3>1
  <2>3. ASSUME NEW t \in Threads, key[t] \in Keys, ~ Holds(t), Holds(t)',
               key' = key, entries' = entries,
               \A u \in Threads \ {t} : Holds(u)' <=> Holds(u)
        PROVE  Abstract!Next
    <3>1. \A u \in Threads : ~ HoldsKey(u, key[t])
      BY <2>3 DEF OwnerFacts
    <3>2. Owner[key[t]] = None /\ Owner'[key[t]] = t
      BY <2>3, <3>1 DEF OwnerFacts
    <3>3. \A k \in Keys \ {key[t]} : Owner'[k] = Owner[k]
      BY <2>1, <2>3
    <3>4. Owner' = [Owner EXCEPT ![key[t]] = t]
      BY <2>a, <3>2, <3>3
    <3> QED
      BY <2>3, <3>2, <3>4 DEF Abstract!Next, Abstract!Acquire
  <2>4. ASSUME NEW t \in Threads, key[t] \in Keys, Holds(t), ~ Holds(t)',
               key' = key, entries' = entries,
               \A u \in Threads \ {t} : Holds(u)' <=> Holds(u)
        PROVE  Abstract!Next
    <3>1. \A u \in Threads : ~ HoldsKey(u, key[t])'
      BY <2>4 DEF OwnerFacts
    <3>2. Owner[key[t]] = t /\ Owner'[key[t]] = None
      BY <2>4, <3>1 DEF OwnerFacts
    <3>3. \A k \in Keys \ {key[t]} : Owner'[k] = Owner[k]
      BY <2>1, <2>4
    <3>4. Owner' = [Owner EXCEPT ![key[t]] = None]
      BY <2>a, <3>2, <3>3
    <3> QED
      BY <2>4, <3>2, <3>4 DEF Abstract!Next, Abstract!Release
  <2>5. ASSUME NEW t \in Threads, NEW k \in Keys, LockKey(t, k)
        PROVE  UNCHANGED Abstract!absVars
    BY <2>2, <2>5 DEF LockKey, Goto, Holds, IndInv, TypeOK, Abstract!absVars
  <2>6. ASSUME NEW t \in Threads, LockKeyLocksToLoad(t)
        PROVE  UNCHANGED Abstract!absVars
    BY <2>2, <2>6 DEF LockKeyLocksToLoad, Goto, Holds, IndInv, TypeOK, Abstract!absVars
  <2>7. ASSUME NEW t \in Threads, LoadKeyLock(t)
        PROVE  UNCHANGED Abstract!absVars
    BY <2>2, <2>7 DEF LoadKeyLock, Goto, Holds, IndInv, TypeOK, Abstract!absVars
  <2>8. ASSUME NEW t \in Threads, StoreKeyLock(t)
        PROVE  Abstract!Next
    BY <2>3, <2>8 DEF StoreKeyLock, Goto, Holds, IndInv, TypeOK, PointerInv
  <2>9. ASSUME NEW t \in Threads, LockMutex(t)
        PROVE  Abstract!Next
    BY <2>3, <2>9 DEF LockMutex, Goto, Holds, IndInv, TypeOK, PointerInv
  <2>10. ASSUME NEW t \in Threads, UnlockKey(t)
         PROVE  UNCHANGED Abstract!absVars
    BY <2>2, <2>10 DEF UnlockKey, Goto, Holds, IndInv, TypeOK, Abstract!absVars
  <2>11. ASSUME NEW t \in Threads, DropRef(t)
         PROVE  UNCHANGED Abstract!absVars
    <3>1. keyLocks[key[t]] # None
      BY <2>11, NoneIsNil DEF DropRef, IndInv, PointerInv, PointsToInv, Refers
    <3> QED
      BY <2>2, <2>11, <3>1 DEF DropRef, Holds, IndInv, TypeOK, Abstract!absVars
  <2>12. ASSUME NEW t \in Threads, ReleaseMutex(t)
         PROVE  Abstract!Next
    BY <2>4, <2>12 DEF ReleaseMutex, Goto, Holds, IndInv, TypeOK, PointerInv
  <2>13. ASSUME NEW t \in Threads, Access(t)
         PROVE  Abstract!Next \/ UNCHANGED Abstract!absVars
    <3>1. Owner' = Owner
      BY <2>2, <2>13 DEF Access, Load, LoadOrStore, Store, Delete, Put, Holds
    <3>2. key[t] \in Keys /\ Owner[key[t]] = t
      BY <2>13 DEF Access, Load, LoadOrStore, Store, Delete, Holds, IndInv, PointerInv, OwnerFacts
    <3>3. CASE Load(t)
      BY <3>1, <3>3 DEF Load, Abstract!absVars
    <3>4. ASSUME NEW v \in Values \cup {None}, Put(t, v)
          PROVE  Abstract!Next
      BY <3>1, <3>2, <3>4 DEF Put, Abstract!Next, Abstract!Write
    <3> QED
      BY <2>13, <3>2, <3>3, <3>4 DEF Access, LoadOrStore, Store, Delete, IndInv, TypeOK
  <2>14. CASE UNCHANGED vars
    BY <2>2, <2>14 DEF vars, Holds, Abstract!absVars
  <2> QED
    BY <2>5, <2>6, <2>7, <2>8, <2>9, <2>10, <2>11, <2>12, <2>13, <2>14 DEF Next, Step
<1>3. QED
  BY <1>1, <1>2, OwnerIsHolder, Invariance, PTL DEF Spec, ImplementsKeyedMutex, Abstract!Spec

\* Type correctness: every pointer is to a keyLock or nil, and no reference
\* counter goes below zero, for any number of threads and keys.
THEOREM TypeCorrect == Spec => []TypeOK
<1>1. IndInv => TypeOK BY DEF IndInv
<1> QED BY <1>1, Invariance, PTL

=============================================================================
