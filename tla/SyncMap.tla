------------------------------ MODULE SyncMap -------------------------------
(***************************************************************************)
(* The generic map with lockable keys of go-controller/pkg/syncmap, which  *)
(* the retry framework, the namespace cache, the network policy cache and  *)
(* the shared address sets all use to serialise the work on one object.    *)
(*                                                                         *)
(* A key is locked through a keyLock object (a mutex and a reference       *)
(* counter) that LockKey creates on demand and UnlockKey drops when nobody *)
(* refers to it any more.  The keyLocks map is guarded by keyLocksMutex,   *)
(* but a keyLock's own mutex is waited for without it, so a key's lock     *)
(* object may be dropped and created again while other threads are about   *)
(* to lock the key.  Every access to the entries map is one critical       *)
(* section of entriesMutex and hence one step.                             *)
(*                                                                         *)
(* Callers are the ones the package documents: a thread locks a key, works *)
(* on its entry, and unlocks it.                                           *)
(***************************************************************************)
EXTENDS Integers, FiniteSets

CONSTANTS Threads, \* goroutines that use the map
          Keys,    \* keys of the map
          Values,  \* values of the map
          Locks,   \* identities of keyLock objects (the Go heap)
          None     \* nil: no thread, no keyLock, no value

ASSUME ThreadsFinite == IsFiniteSet(Threads)
ASSUME NoneIsNil == None \notin Threads \cup Keys \cup Values \cup Locks

VARIABLES keyLocksMutex, \* the thread that holds keyLocksMutex, or None
          keyLocks,      \* keyLocks[k]: the keyLock stored for k, or None
          refCounter,    \* refCounter[l] of keyLock l
          locked,        \* the keyLocks whose mutex is locked
          entries,       \* entries[k]: the stored value, or None
          pc,            \* where each thread is
          key,           \* the key the thread locks, has locked or unlocks
          kLock,         \* the thread's local newKLock / kLock pointer
          known          \* what the thread last read or wrote under the lock

vars == <<keyLocksMutex, keyLocks, refCounter, locked, entries, pc, key, kLock, known>>

PC == {"idle", "created", "loading", "waiting", "locked", "dropping", "releasing"}

\* The thread has read or written nothing since it locked the key.
Unread == "unread"

TypeOK == /\ keyLocksMutex \in Threads \cup {None}
          /\ keyLocks \in [Keys -> Locks \cup {None}]
          /\ refCounter \in [Locks -> Nat]
          /\ locked \subseteq Locks
          /\ entries \in [Keys -> Values \cup {None}]
          /\ pc \in [Threads -> PC]
          /\ key \in [Threads -> Keys \cup {None}]
          /\ kLock \in [Threads -> Locks \cup {None}]
          /\ known \in [Threads -> Values \cup {None, Unread}]

Init == /\ keyLocksMutex = None
        /\ keyLocks = [k \in Keys |-> None]
        /\ refCounter = [l \in Locks |-> 0]
        /\ locked = {}
        /\ entries = [k \in Keys |-> None]
        /\ pc = [t \in Threads |-> "idle"]
        /\ key = [t \in Threads |-> None]
        /\ kLock = [t \in Threads |-> None]
        /\ known = [t \in Threads |-> Unread]

Goto(t, from, to) == /\ pc[t] = from
                     /\ pc' = [pc EXCEPT ![t] = to]

\* No thread and no map entry points at l: the garbage collector may hand its
\* memory out again.
Unreachable(l) == /\ \A k \in Keys : keyLocks[k] # l
                  /\ \A t \in Threads : kLock[t] # l

-----------------------------------------------------------------------------
(***************************************************************************)
(* LockKey                                                                 *)
(***************************************************************************)

\* LockKey(k) is called: a fresh keyLock is made and locked before anybody
\* else can see it.
LockKey(t, k) ==
    /\ Goto(t, "idle", "created")
    /\ \E l \in Locks :
        /\ Unreachable(l)
        /\ kLock' = [kLock EXCEPT ![t] = l]
        /\ refCounter' = [refCounter EXCEPT ![l] = 0]
        /\ locked' = locked \cup {l}
    /\ key' = [key EXCEPT ![t] = k]
    /\ UNCHANGED <<keyLocksMutex, keyLocks, entries, known>>

\* loadOrStoreKeyLock takes keyLocksMutex.
LockKeyLocksToLoad(t) ==
    /\ Goto(t, "created", "loading")
    /\ keyLocksMutex = None
    /\ keyLocksMutex' = t
    /\ UNCHANGED <<keyLocks, refCounter, locked, entries, key, kLock, known>>

\* loadOrStoreKeyLock finds a keyLock: the caller refers to it, throws its own
\* away and goes on to wait for the mutex of the one found.
LoadKeyLock(t) ==
    LET l == keyLocks[key[t]] IN
    /\ Goto(t, "loading", "waiting")
    /\ l # None
    /\ refCounter' = [refCounter EXCEPT ![l] = @ + 1]
    /\ locked' = locked \ {kLock[t]}
    /\ kLock' = [kLock EXCEPT ![t] = l]
    /\ keyLocksMutex' = None
    /\ UNCHANGED <<keyLocks, entries, key, known>>

\* loadOrStoreKeyLock finds none: the caller's own, already locked, is stored.
StoreKeyLock(t) ==
    /\ Goto(t, "loading", "locked")
    /\ keyLocks[key[t]] = None
    /\ keyLocks' = [keyLocks EXCEPT ![key[t]] = kLock[t]]
    /\ refCounter' = [refCounter EXCEPT ![kLock[t]] = @ + 1]
    /\ keyLocksMutex' = None
    /\ UNCHANGED <<locked, entries, key, kLock, known>>

\* Fault: the mutex of a found keyLock is taken without waiting for it.
LockMutexUnguarded(t) ==
    /\ Goto(t, "waiting", "locked")
    /\ locked' = locked \cup {kLock[t]}
    /\ UNCHANGED <<keyLocksMutex, keyLocks, refCounter, entries, key, kLock, known>>

\* kLock.mutex.Lock() on a keyLock that was found in the map.
LockMutex(t) ==
    /\ Goto(t, "waiting", "locked")
    /\ kLock[t] \notin locked
    /\ locked' = locked \cup {kLock[t]}
    /\ UNCHANGED <<keyLocksMutex, keyLocks, refCounter, entries, key, kLock, known>>

-----------------------------------------------------------------------------
(***************************************************************************)
(* The entry operations of a thread that has locked the key                *)
(***************************************************************************)

Load(t) ==
    /\ pc[t] = "locked"
    /\ known' = [known EXCEPT ![t] = entries[key[t]]]
    /\ UNCHANGED <<keyLocksMutex, keyLocks, refCounter, locked, entries, pc, key, kLock>>

Put(t, v) ==
    /\ entries' = [entries EXCEPT ![key[t]] = v]
    /\ known' = [known EXCEPT ![t] = v]
    /\ UNCHANGED <<keyLocksMutex, keyLocks, refCounter, locked, pc, key, kLock>>

LoadOrStore(t, v) ==
    /\ pc[t] = "locked"
    /\ Put(t, IF entries[key[t]] = None THEN v ELSE entries[key[t]])

Store(t, v) ==
    /\ pc[t] = "locked"
    /\ Put(t, v)

Delete(t) ==
    /\ pc[t] = "locked"
    /\ Put(t, None)

-----------------------------------------------------------------------------
(***************************************************************************)
(* UnlockKey                                                               *)
(***************************************************************************)

\* UnlockKey is called and takes keyLocksMutex.
UnlockKey(t) ==
    /\ Goto(t, "locked", "dropping")
    /\ keyLocksMutex = None
    /\ keyLocksMutex' = t
    /\ known' = [known EXCEPT ![t] = Unread]
    /\ UNCHANGED <<keyLocks, refCounter, locked, entries, key, kLock>>

\* Fault: the map entry is dropped although others refer to the keyLock.
DropRefAlways(t) ==
    LET l == keyLocks[key[t]] IN
    /\ Goto(t, "dropping", "releasing")
    /\ l # None
    /\ refCounter' = [refCounter EXCEPT ![l] = @ - 1]
    /\ keyLocks' = [keyLocks EXCEPT ![key[t]] = None]
    /\ kLock' = [kLock EXCEPT ![t] = l]
    /\ UNCHANGED <<keyLocksMutex, locked, entries, key, known>>

\* Fault: the map entry is never dropped.
DropRefNever(t) ==
    LET l == keyLocks[key[t]] IN
    /\ Goto(t, "dropping", "releasing")
    /\ l # None
    /\ refCounter' = [refCounter EXCEPT ![l] = @ - 1]
    /\ keyLocks' = keyLocks
    /\ kLock' = [kLock EXCEPT ![t] = l]
    /\ UNCHANGED <<keyLocksMutex, locked, entries, key, known>>

\* The reference of the caller is dropped, and with the last one the map
\* entry.  A key without a keyLock is logged ("Unlocking non-existing key")
\* and UnlockKey returns.
DropRef(t) ==
    LET l == keyLocks[key[t]] IN
    /\ pc[t] = "dropping"
    /\ IF l = None
       THEN /\ pc' = [pc EXCEPT ![t] = "idle"]
            /\ keyLocksMutex' = None
            /\ kLock' = [kLock EXCEPT ![t] = None]
            /\ UNCHANGED <<keyLocks, refCounter>>
       ELSE /\ pc' = [pc EXCEPT ![t] = "releasing"]
            /\ refCounter' = [refCounter EXCEPT ![l] = @ - 1]
            /\ keyLocks' = IF refCounter[l] - 1 = 0
                           THEN [keyLocks EXCEPT ![key[t]] = None]
                           ELSE keyLocks
            /\ kLock' = [kLock EXCEPT ![t] = l]
            /\ UNCHANGED keyLocksMutex
    /\ UNCHANGED <<locked, entries, key, known>>

\* Fault: the keyLock's mutex is left locked.
ReleaseMutexLocked(t) ==
    /\ Goto(t, "releasing", "idle")
    /\ keyLocksMutex' = None
    /\ kLock' = [kLock EXCEPT ![t] = None]
    /\ UNCHANGED <<keyLocks, refCounter, locked, entries, key, known>>

\* kLock.mutex.Unlock(), and the deferred keyLocksMutex.Unlock().
ReleaseMutex(t) ==
    /\ Goto(t, "releasing", "idle")
    /\ locked' = locked \ {kLock[t]}
    /\ keyLocksMutex' = None
    /\ kLock' = [kLock EXCEPT ![t] = None]
    /\ UNCHANGED <<keyLocks, refCounter, entries, key, known>>

-----------------------------------------------------------------------------

Step(t) == \/ LockKeyLocksToLoad(t)
           \/ LoadKeyLock(t)
           \/ StoreKeyLock(t)
           \/ LockMutex(t)
           \/ UnlockKey(t)
           \/ DropRef(t)
           \/ ReleaseMutex(t)

Access(t) == \/ Load(t)
             \/ \E v \in Values : LoadOrStore(t, v) \/ Store(t, v)
             \/ Delete(t)

Next == \E t \in Threads :
            \/ \E k \in Keys : LockKey(t, k)
            \/ Step(t)
            \/ Access(t)

\* A thread goes on once it has called LockKey and unlocks what it has locked
\* (every caller defers UnlockKey).  sync.Mutex hands itself over to a waiter
\* that has waited for more than a millisecond, so a mutex that is free again
\* and again is eventually obtained: strong fairness.
Fairness == \A t \in Threads : SF_vars(Step(t))

Spec == Init /\ [][Next]_vars

FairSpec == Spec /\ Fairness

-----------------------------------------------------------------------------
(***************************************************************************)
(* Properties                                                              *)
(***************************************************************************)

\* The thread is between the return of LockKey and the moment UnlockKey
\* unlocks the keyLock.
Holds(t) == pc[t] \in {"locked", "dropping", "releasing"}

\* The thread is counted in the refCounter of its keyLock.
Refers(t) == pc[t] \in {"waiting", "locked", "dropping"}

\* No two threads hold the same key, however lock objects come and go between
\* them (LockKey: "it guarantees exclusive access to the key").
KeyExclusion == \A t, u \in Threads :
    Holds(t) /\ Holds(u) /\ key[t] = key[u] => t = u

\* UnlockKey always finds the keyLock its caller locked: the "Unlocking
\* non-existing key" branch is dead and no other key's mutex is unlocked
\* (UnlockKey: "this should never happen").
UnlockFindsKeyLock == \A t \in Threads :
    pc[t] \in {"locked", "dropping"} => /\ keyLocks[key[t]] = kLock[t]
                                        /\ kLock[t] \in locked

\* A keyLock is in the map exactly as long as some thread that called LockKey
\* still needs it: none is dropped under a waiter and none is leaked.
KeyLockLifetime == \A k \in Keys :
    keyLocks[k] # None <=> \E t \in Threads : Refers(t) /\ key[t] = k

\* What a thread has read or written under the key's lock is still in the map
\* until it unlocks: no check-then-act on an entry is ever stale.
EntryStable == \A t \in Threads :
    pc[t] = "locked" /\ known[t] # Unread => entries[key[t]] = known[t]

\* Every LockKey returns, even when the lock object it waits for is unlocked
\* and locked by others meanwhile.
LockKeyReturns == \A t \in Threads : pc[t] = "created" ~> pc[t] = "locked"

-----------------------------------------------------------------------------
(***************************************************************************)
(* The inductive invariant behind the properties above                     *)
(***************************************************************************)

\* The threads that are counted for key k.
Referrers(k) == {t \in Threads : Refers(t) /\ key[t] = k}

\* keyLocksMutex is held by exactly the thread inside one of its critical
\* sections.
MutexInv == \A t \in Threads :
    pc[t] \in {"loading", "dropping", "releasing"} <=> keyLocksMutex = t

\* A thread that is not idle has a key and points at a keyLock.
PointerInv == \A t \in Threads :
    /\ pc[t] # "idle" => key[t] \in Keys /\ kLock[t] \in Locks
    /\ pc[t] = "idle" => kLock[t] = None
    /\ pc[t] # "locked" => known[t] = Unread

\* A keyLock that has not been stored yet is seen by its creator alone.
PrivateInv == \A t \in Threads : pc[t] \in {"created", "loading"} =>
    /\ kLock[t] \in locked
    /\ refCounter[kLock[t]] = 0
    /\ \A k \in Keys : keyLocks[k] # kLock[t]
    /\ \A u \in Threads \ {t} : kLock[u] # kLock[t]

\* A keyLock belongs to one key, and its counter counts its referrers.
CounterInv ==
    /\ \A j, k \in Keys : keyLocks[j] = keyLocks[k] /\ keyLocks[j] # None => j = k
    /\ \A k \in Keys : keyLocks[k] # None =>
         /\ Referrers(k) # {}
         /\ refCounter[keyLocks[k]] = Cardinality(Referrers(k))

\* The key of a referrer has the referrer's keyLock; the keyLock of a thread
\* that is releasing may already be out of the map.
PointsToInv == \A t \in Threads :
    /\ Refers(t) => keyLocks[key[t]] = kLock[t]
    /\ pc[t] = "releasing" =>
         \A k \in Keys : keyLocks[k] = kLock[t] => k = key[t]
    /\ pc[t] = "releasing" => keyLocks[key[t]] \in {kLock[t], None}

\* The mutex of a keyLock is locked for at most one holder.
HolderInv == \A t \in Threads : Holds(t) =>
    /\ kLock[t] \in locked
    /\ \A u \in Threads : Holds(u) /\ kLock[u] = kLock[t] => u = t

IndInv == /\ TypeOK
          /\ MutexInv
          /\ PointerInv
          /\ PrivateInv
          /\ CounterInv
          /\ PointsToInv
          /\ HolderInv
          /\ EntryStable

-----------------------------------------------------------------------------
(***************************************************************************)
(* Refinement                                                              *)
(***************************************************************************)

\* The owner of a key as its callers see it.
Owner == [k \in Keys |-> IF \E t \in Threads : Holds(t) /\ key[t] = k
                         THEN CHOOSE t \in Threads : Holds(t) /\ key[t] = k
                         ELSE None]

Abstract == INSTANCE KeyedMutex WITH owner <- Owner

\* The map with reference counted locks behaves as a map with one mutex per
\* key.
ImplementsKeyedMutex == Abstract!Spec
=============================================================================
