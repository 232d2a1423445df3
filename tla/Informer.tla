------------------------------ MODULE Informer ------------------------------
(***************************************************************************)
(* The shared informer of the watch factory (go-controller/pkg/factory):   *)
(* how handlers are added to and removed from it while events of the       *)
(* watched objects are being delivered.                                    *)
(*                                                                         *)
(* Delivery is per object, in order and one event at a time, which is what *)
(* QueueMap is shown to implement.  It holds the informer's RWMutex for    *)
(* reading; adding a handler holds it for writing from the listing of the  *)
(* store to the registration.  The store itself changes at any time.       *)
(*                                                                         *)
(* A handler is modelled by its view: the objects it was last told of,     *)
(* which stands for what it has configured for them.                       *)
(***************************************************************************)
EXTENDS Integers, Sequences, FiniteSets

CONSTANTS Keys,        \* NamespacedNames of objects
          Handlers,    \* handler identities
          Priority,    \* Priority[h]: the priority h is added with
          Filtered,    \* the handlers whose selector matches labelled objects only
          MaxChanges,  \* bound: changes of objects
          Leftover,    \* what is left over from before a restart
          None         \* nil

ASSUME PriorityIsNat == Priority \in [Handlers -> Nat]
ASSUME MaxChangesIsNat == MaxChanges \in Nat
ASSUME FilteredAreHandlers == Filtered \subseteq Handlers

\* A revision of an object: a new uid is a new object of the same name.
Object == [uid : 1 .. MaxChanges, rev : 1 .. MaxChanges, labelled : BOOLEAN]

ASSUME NoneIsNil == /\ None \notin Object \cup Handlers \cup {Leftover}
                    /\ Leftover \notin Object

VARIABLES store,     \* store[k]: the object in the informer's store, or None
          changes,   \* number of changes so far
          pending,   \* pending[k]: the events of k that are not delivered yet
          active,    \* active[k]: the delivery in progress for k, or None
          writer,    \* the handler addition that holds the write lock, or None
          handlers,  \* the registered handlers
          phase,     \* phase[h] of the addition or removal of h
          tombstone, \* the handlers that are dead
          items,     \* items[h]: what addHandler listed and has not sent yet
          view       \* view[h][k]: what h was last told of k

vars == <<store, changes, pending, active, writer, handlers, phase, tombstone, items, view>>

Phase == {"new", "locking", "listed", "adding", "registered", "failed", "removing", "removed"}

\* The calls of a handler: an add or an update to an object, or a delete.
OpKind == {"add", "update", "delete"}

EventType == [old : Object \cup {None}, new : Object \cup {None}]

\* A delivery in progress: the event, the handlers still to be told of it, the
\* one being told, the calls it still gets and whether one is running.
Delivery == [ev : EventType, todo : SUBSET Handlers, cur : Handlers \cup {None},
             calls : Seq(OpKind), running : BOOLEAN]

ASSUME NoneIsNoDelivery == None \notin Delivery

TypeOK == /\ store \in [Keys -> Object \cup {None}]
          /\ changes \in 0 .. MaxChanges
          /\ pending \in [Keys -> Seq(EventType)]
          /\ active \in [Keys -> Delivery \cup {None}]
          /\ \A k \in Keys : active[k] # None => active[k].todo \subseteq handlers
          /\ writer \in Handlers \cup {None}
          /\ handlers \subseteq Handlers
          /\ phase \in [Handlers -> Phase]
          /\ tombstone \subseteq Handlers
          /\ items \in [Handlers -> [Keys -> Object \cup {None}]]
          /\ view \in [Handlers -> [Keys -> Object \cup {None, Leftover}]]

Nothing == [k \in Keys |-> None]

Init == /\ store = Nothing
        /\ changes = 0
        /\ pending = [k \in Keys |-> <<>>]
        /\ active = [k \in Keys |-> None]
        /\ writer = None
        /\ handlers = {}
        /\ phase = [h \in Handlers |-> "new"]
        /\ tombstone = {}
        /\ items = [h \in Handlers |-> Nothing]
        /\ view \in [Handlers -> [Keys -> {None, Leftover}]]

\* The filterFunc of addHandler.
FilterFunc(h, obj) == h \in Filtered => obj.labelled

-----------------------------------------------------------------------------
(***************************************************************************)
(* The informer's store                                                    *)
(***************************************************************************)

\* The reflector applies a change to the store and queues the event.
Change(k, new) ==
    /\ store[k] # new
    /\ changes < MaxChanges
    /\ changes' = changes + 1
    /\ store' = [store EXCEPT ![k] = new]
    /\ pending' = [pending EXCEPT ![k] = Append(@, [old |-> store[k], new |-> new])]
    /\ UNCHANGED <<active, writer, handlers, phase, tombstone, items, view>>

\* The object is created, or replaced by another one of the same name without
\* a delete being seen in between.
Create(k) == \E b \in BOOLEAN :
    Change(k, [uid |-> changes + 1, rev |-> changes + 1, labelled |-> b])

Modify(k) == \E b \in BOOLEAN :
    /\ store[k] # None
    /\ Change(k, [store[k] EXCEPT !.rev = changes + 1, !.labelled = b])

Remove(k) == Change(k, None)

-----------------------------------------------------------------------------
(***************************************************************************)
(* Delivery of an event to the registered handlers                         *)
(***************************************************************************)

\* Fault: an update that stops to match is filtered out altogether.
CallsForNoDelete(h, ev) ==
    LET in(obj) == obj # None /\ FilterFunc(h, obj)
    IN IF ev.new = None THEN (IF in(ev.old) THEN <<"delete">> ELSE <<>>)
       ELSE IF ~in(ev.new) THEN <<>>
       ELSE IF ev.old # None /\ in(ev.old) THEN <<"update">> ELSE <<"add">>

\* The calls a handler gets for an event: the federated handler turns an
\* update to another uid into a delete and an add, and the filter turns an
\* update that starts or stops to match into an add or a delete.
CallsFor(h, ev) ==
    LET in(obj) == obj # None /\ FilterFunc(h, obj)
        add == IF in(ev.new) THEN <<"add">> ELSE <<>>
        del == IF in(ev.old) THEN <<"delete">> ELSE <<>>
    IN IF ev.old = None \/ ev.new = None \/ ev.old.uid # ev.new.uid
       THEN del \o add
       ELSE IF in(ev.old) /\ in(ev.new) THEN <<"update">> ELSE del \o add

\* forEachQueuedHandler takes the read lock; a delete goes through the
\* handlers in reverse (forEachQueuedHandlerReversed).
RLock(k) ==
    /\ active[k] = None
    /\ pending[k] # <<>>
    /\ writer = None
    /\ active' = [active EXCEPT ![k] = [ev |-> Head(pending[k]), todo |-> handlers,
                                        cur |-> None, calls |-> <<>>, running |-> FALSE]]
    /\ pending' = [pending EXCEPT ![k] = Tail(@)]
    /\ UNCHANGED <<store, changes, writer, handlers, phase, tombstone, items, view>>

\* h is one of the handlers the loop over the priorities may take next.
IsNextHandler(h, a) ==
    /\ h \in a.todo
    /\ \A g \in a.todo : IF a.ev.new = None THEN Priority[h] >= Priority[g]
                                            ELSE Priority[h] <= Priority[g]

NextHandler(k, h) ==
    /\ active[k] # None
    /\ active[k].calls = <<>>
    /\ IsNextHandler(h, active[k])
    /\ active' = [active EXCEPT ![k].todo = @ \ {h}, ![k].cur = h,
                                ![k].calls = CallsFor(h, active[k].ev)]
    /\ UNCHANGED <<store, changes, pending, writer, handlers, phase, tombstone, items, view>>

\* Handler.OnAdd, OnUpdate, OnDelete load the tombstone ...
CheckTombstone(k) ==
    /\ active[k] # None
    /\ active[k].calls # <<>>
    /\ ~active[k].running
    /\ active' = IF active[k].cur \in tombstone
                 THEN [active EXCEPT ![k].calls = Tail(@)]
                 ELSE [active EXCEPT ![k].running = TRUE]
    /\ UNCHANGED <<store, changes, pending, writer, handlers, phase, tombstone, items, view>>

\* ... and then call the handler's function.
Call(k) ==
    /\ active[k] # None
    /\ active[k].running
    /\ LET h == active[k].cur IN
        view' = [view EXCEPT ![h][k] = IF Head(active[k].calls) = "delete"
                                       THEN None ELSE active[k].ev.new]
    /\ active' = [active EXCEPT ![k].calls = Tail(@), ![k].running = FALSE]
    /\ UNCHANGED <<store, changes, pending, writer, handlers, phase, tombstone, items>>

RUnlock(k) ==
    /\ active[k] # None
    /\ active[k].todo = {}
    /\ active[k].calls = <<>>
    /\ active' = [active EXCEPT ![k] = None]
    /\ UNCHANGED <<store, changes, pending, writer, handlers, phase, tombstone, items, view>>

-----------------------------------------------------------------------------
(***************************************************************************)
(* Adding a handler                                                        *)
(***************************************************************************)

Idle == writer = None /\ \A k \in Keys : active[k] = None

AddHandler(h) ==
    /\ phase[h] = "new"
    /\ phase' = [phase EXCEPT ![h] = "locking"]
    /\ UNCHANGED <<store, changes, pending, active, writer, handlers, tombstone, items, view>>

\* Fault: the lock is released between the listing and the registration.
LockAndListUnlocked(h) ==
    /\ phase[h] = "locking"
    /\ Idle
    /\ items' = [items EXCEPT ![h] = [k \in Keys |->
                    IF store[k] # None /\ FilterFunc(h, store[k]) THEN store[k] ELSE None]]
    /\ phase' = [phase EXCEPT ![h] = "listed"]
    /\ UNCHANGED <<store, changes, pending, active, writer, handlers, tombstone, view>>

\* The write lock is taken and the store listed through the filter.
LockAndList(h) ==
    /\ phase[h] = "locking"
    /\ Idle
    /\ writer' = h
    /\ items' = [items EXCEPT ![h] = [k \in Keys |->
                    IF store[k] # None /\ FilterFunc(h, store[k]) THEN store[k] ELSE None]]
    /\ phase' = [phase EXCEPT ![h] = "listed"]
    /\ UNCHANGED <<store, changes, pending, active, handlers, tombstone, view>>

\* processExisting succeeds: the caller has removed what is not listed.  A
\* handler without a processExisting is one that has nothing left over: the step
\* changes nothing that it knows.
ProcessExisting(h) ==
    /\ phase[h] = "listed"
    /\ view' = [view EXCEPT ![h] = [k \in Keys |->
                    IF items[h][k] = None THEN None ELSE view[h][k]]]
    /\ phase' = [phase EXCEPT ![h] = "adding"]
    /\ UNCHANGED <<store, changes, pending, active, writer, handlers, tombstone, items>>

\* processExisting fails until it times out: addHandler returns the error.
ProcessExistingFails(h) ==
    /\ phase[h] = "listed"
    /\ writer' = None
    /\ items' = [items EXCEPT ![h] = Nothing]
    /\ phase' = [phase EXCEPT ![h] = "failed"]
    /\ UNCHANGED <<store, changes, pending, active, handlers, tombstone, view>>

\* initialAddFunc sends the items, in any order of the objects.
InitialAdd(h, k) ==
    /\ phase[h] = "adding"
    /\ items[h][k] # None
    /\ view' = [view EXCEPT ![h][k] = items[h][k]]
    /\ items' = [items EXCEPT ![h][k] = None]
    /\ UNCHANGED <<store, changes, pending, active, writer, handlers, phase, tombstone>>

\* Fault: the lock is not released.
RegisterLocked(h) ==
    /\ phase[h] = "adding"
    /\ items[h] = Nothing
    /\ handlers' = handlers \cup {h}
    /\ phase' = [phase EXCEPT ![h] = "registered"]
    /\ UNCHANGED <<store, changes, pending, active, writer, tombstone, items, view>>

\* All items are processed: the handler is registered and the lock released.
Register(h) ==
    /\ phase[h] = "adding"
    /\ items[h] = Nothing
    /\ handlers' = handlers \cup {h}
    /\ writer' = None
    /\ phase' = [phase EXCEPT ![h] = "registered"]
    /\ UNCHANGED <<store, changes, pending, active, tombstone, items, view>>

-----------------------------------------------------------------------------
(***************************************************************************)
(* Removing handlers                                                       *)
(***************************************************************************)

Kill(hs) == /\ tombstone' = tombstone \cup hs
            /\ phase' = [h \in Handlers |-> IF h \in hs THEN "removing" ELSE phase[h]]

\* removeHandler kills the handler and leaves the rest to a goroutine; it may
\* be called by a handler's own function.
RemoveHandler(h) ==
    /\ phase[h] = "registered"
    /\ Kill({h})
    /\ UNCHANGED <<store, changes, pending, active, writer, handlers, items, view>>

\* removeAllHandlers, under the write lock.
RemoveAllHandlers ==
    /\ Idle
    /\ handlers \ tombstone # {}
    /\ Kill(handlers \ tombstone)
    /\ UNCHANGED <<store, changes, pending, active, writer, handlers, items, view>>

\* Fault: the handler is deleted without the write lock.
DeleteHandlerUnlocked(h) ==
    /\ phase[h] = "removing"
    /\ handlers' = handlers \ {h}
    /\ phase' = [phase EXCEPT ![h] = "removed"]
    /\ UNCHANGED <<store, changes, pending, active, writer, tombstone, items, view>>

\* The goroutine takes the write lock and deletes the handler.
DeleteHandler(h) ==
    /\ phase[h] = "removing"
    /\ Idle
    /\ handlers' = handlers \ {h}
    /\ phase' = [phase EXCEPT ![h] = "removed"]
    /\ UNCHANGED <<store, changes, pending, active, writer, tombstone, items, view>>

-----------------------------------------------------------------------------

Deliver(k) == \/ RLock(k)
              \/ \E h \in Handlers : NextHandler(k, h)
              \/ CheckTombstone(k)
              \/ Call(k)
              \/ RUnlock(k)

Add(h) == \/ ProcessExisting(h)
          \/ ProcessExistingFails(h)
          \/ \E k \in Keys : InitialAdd(h, k)
          \/ Register(h)

Next == \/ \E k \in Keys : Create(k) \/ Modify(k) \/ Remove(k) \/ Deliver(k)
        \/ \E h \in Handlers : \/ AddHandler(h) \/ LockAndList(h) \/ Add(h)
                               \/ RemoveHandler(h) \/ DeleteHandler(h)
        \/ RemoveAllHandlers

Spec == Init /\ [][Next]_vars

\* Handler functions and processExisting return; the workers go on; and a
\* writer gets a lock that is free again and again, for a waiting writer holds
\* back new readers of a sync.RWMutex.
Fairness == /\ \A k \in Keys : SF_vars(Deliver(k))
            /\ \A h \in Handlers : /\ WF_vars(Add(h))
                                   /\ SF_vars(LockAndList(h))
                                   /\ SF_vars(DeleteHandler(h))

FairSpec == Spec /\ Fairness

-----------------------------------------------------------------------------
(***************************************************************************)
(* Properties                                                              *)
(***************************************************************************)

\* What handler h should know of object k.
Wanted(h, k) == IF store[k] # None /\ FilterFunc(h, store[k]) THEN store[k] ELSE None

\* When no event of an object is on its way, every live handler knows exactly
\* what the store has: nothing that happened while the handler was being added
\* is missed, an event that the listing already covered does no harm, and
\* nothing is left over from before a restart.
ConvergedWhenIdle == \A h \in handlers \ tombstone : \A k \in Keys :
    pending[k] = <<>> /\ active[k] = None => view[h][k] = Wanted(h, k)

\* Once the removal is done no function of the handler runs or will run.
RemovedIsQuiet == \A h \in Handlers : phase[h] = "removed" =>
    \A k \in Keys : active[k] # None => active[k].cur # h /\ h \notin active[k].todo

\* A handler addition ends, registered or failed, and a removal ends, however
\* many events are being delivered meanwhile.
AddAndRemoveEnd == \A h \in Handlers :
    /\ phase[h] = "locking" ~> phase[h] \notin {"locking", "listed", "adding"}
    /\ phase[h] = "removing" ~> phase[h] = "removed"

\* Every registered handler catches up with the store in the end.
EventuallyConverged == \A h \in Handlers :
    phase[h] = "registered" ~>
        \/ h \in tombstone
        \/ \A k \in Keys : view[h][k] = Wanted(h, k)
=============================================================================
