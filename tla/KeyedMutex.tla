----------------------------- MODULE KeyedMutex -----------------------------
(***************************************************************************)
(* What a SyncMap (go-controller/pkg/syncmap) promises to its callers: a   *)
(* map in which every key, present or not, has a mutual exclusion lock of  *)
(* its own, and in which an entry is only read or written by the thread    *)
(* that holds its key.                                                     *)
(*                                                                         *)
(* SyncMap.tla implements this specification with reference counted lock   *)
(* objects that exist only while somebody needs them.                      *)
(***************************************************************************)
CONSTANTS Threads, \* goroutines
          Keys,    \* keys of the map
          Values,  \* values of the map
          None     \* no owner, no value

VARIABLES owner,   \* owner[k]: the thread that holds key k, or None
          entries  \* entries[k]: the value stored for k, or None

absVars == <<owner, entries>>

Init == /\ owner = [k \in Keys |-> None]
        /\ entries = [k \in Keys |-> None]

\* LockKey(k) returns to t.
Acquire(t, k) == /\ owner[k] = None
                 /\ owner' = [owner EXCEPT ![k] = t]
                 /\ UNCHANGED entries

\* UnlockKey(k) by the thread that holds k.
Release(t, k) == /\ owner[k] = t
                 /\ owner' = [owner EXCEPT ![k] = None]
                 /\ UNCHANGED entries

\* Store, LoadOrStore or Delete of k by the thread that holds k.
Write(t, k) == /\ owner[k] = t
               /\ \E v \in Values \cup {None} : entries' = [entries EXCEPT ![k] = v]
               /\ UNCHANGED owner

Next == \E t \in Threads, k \in Keys :
            Acquire(t, k) \/ Release(t, k) \/ Write(t, k)

Spec == Init /\ [][Next]_absVars
=============================================================================
