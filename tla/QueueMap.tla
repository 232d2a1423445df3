------------------------------ MODULE QueueMap ------------------------------
(***************************************************************************)
(* The event queues of a shared informer (go-controller/pkg/factory,       *)
(* handler.go): one dispatcher goroutine distributes the informer's events *)
(* over a fixed number of bounded channels, one worker goroutine per       *)
(* channel handles them.  A queueMapEntry per object remembers the channel *)
(* of the object's in-flight events and how many there are, so that they   *)
(* share a channel; once there are none the object may move to another.    *)
(*                                                                         *)
(* The same type serves the informer itself (its queues are never closed,  *)
(* its workers end with stopChan) and the initial adds of a new handler    *)
(* (its queues are closed once every existing object is enqueued).         *)
(***************************************************************************)
EXTENDS Integers, Sequences

CONSTANTS Keys,       \* NamespacedNames of objects
          Entries,    \* identities of queueMapEntry objects (the Go heap)
          NumQueues,  \* number of event queues
          QueueCap,   \* capacity of one queue (10 in newQueueMap)
          MaxEvents,  \* bound: events issued for one object
          None        \* nil

ASSUME AtLeastTwoQueues == NumQueues \in Nat /\ NumQueues >= 2
ASSUME BoundsAreNat == QueueCap \in Nat /\ MaxEvents \in Nat

Queues == 0 .. NumQueues - 1

\* An event remembers its place in the object's history, whether it is a
\* delete, and the entry getQueueMapEntry returned for it.
Event == [key : Keys, seq : Nat, del : BOOLEAN, entry : Entries]

ASSUME NoneIsNil == None \notin Entries /\ None \notin Event

VARIABLES entries,    \* entries[k]: the queueMapEntry of object k, or None
          queue,      \* queue[e]: the queue number in entry e
          refcount,   \* refcount[e] of entry e
          queues,     \* queues[q]: the events in channel q
          sending,    \* the event the dispatcher is about to send, or None
          processing, \* processing[q]: the event worker q handles, or None
          exited,     \* the workers that have returned
          stopped,    \* stopChan is closed
          closed,     \* shutdown() has closed the queues
          exists,     \* the objects in the informer's store
          issued,     \* issued[k]: events issued for k so far
          started,    \* started[k]: number of the event last started
          finished    \* finished[k]: events finished

mapVars == <<entries, queue, refcount>>
chanVars == <<queues, sending, processing, exited>>
lifeVars == <<stopped, closed>>
histVars == <<exists, issued, started, finished>>
vars == <<mapVars, chanVars, lifeVars, histVars>>

TypeOK == /\ entries \in [Keys -> Entries \cup {None}]
          /\ queue \in [Entries -> Queues]
          /\ refcount \in [Entries -> Int]
          /\ queues \in [Queues -> Seq(Event)]
          /\ \A q \in Queues : Len(queues[q]) <= QueueCap
          /\ sending \in Event \cup {None}
          /\ processing \in [Queues -> Event \cup {None}]
          /\ exited \subseteq Queues
          /\ stopped \in BOOLEAN
          /\ closed \in BOOLEAN
          /\ exists \subseteq Keys
          /\ issued \in [Keys -> Nat]
          /\ started \in [Keys -> Nat]
          /\ finished \in [Keys -> Nat]

Init == /\ entries = [k \in Keys |-> None]
        /\ queue = [e \in Entries |-> 0]
        /\ refcount = [e \in Entries |-> 0]
        /\ queues = [q \in Queues |-> <<>>]
        /\ sending = None
        /\ processing = [q \in Queues |-> None]
        /\ exited = {}
        /\ stopped = FALSE
        /\ closed = FALSE
        /\ exists = {}
        /\ issued = [k \in Keys |-> 0]
        /\ started = [k \in Keys |-> 0]
        /\ finished = [k \in Keys |-> 0]

-----------------------------------------------------------------------------
(***************************************************************************)
(* The dispatcher                                                          *)
(***************************************************************************)

\* q is what getNewQueueNum returns when it starts at queue `start` and reads
\* the lengths lens: the first shortest queue in cyclic order.
IsNewQueueNum(q, start, lens) ==
    \E j \in 0 .. NumQueues - 1 :
        LET At(i) == (start + i) % NumQueues IN
        /\ q = At(j)
        /\ \A i \in 0 .. NumQueues - 1 :
            IF i < j THEN lens[At(j)] < lens[At(i)] ELSE lens[At(j)] <= lens[At(i)]

\* The random start is below NumQueues - 1, and the workers may shorten each
\* queue while its length is read.
NewQueueNums == {q \in Queues :
    \E start \in 0 .. NumQueues - 2 :
    \E lens \in [Queues -> 0 .. QueueCap] :
        /\ \A p \in Queues : lens[p] <= Len(queues[p])
        /\ IsNewQueueNum(q, start, lens)}

\* Nothing points at entry e any more.
Unreachable(e) ==
    /\ \A k \in Keys : entries[k] # e
    /\ sending # None => sending.entry # e
    /\ \A q \in Queues : /\ \A i \in 1 .. Len(queues[q]) : queues[q][i].entry # e
                         /\ processing[q] # None => processing[q].entry # e

\* Fault: an entry is moved to a new queue although events are in flight.
ReuseEntryMoved(k, e) ==
    /\ e = entries[k]
    /\ e # None
    /\ refcount' = [refcount EXCEPT ![e] = @ + 1]
    /\ \E q \in NewQueueNums : queue' = [queue EXCEPT ![e] = q]
    /\ UNCHANGED entries

\* getQueueMapEntry finds the object's entry; an unused one is moved to a new
\* queue.
ReuseEntry(k, e) ==
    /\ e = entries[k]
    /\ e # None
    /\ refcount' = [refcount EXCEPT ![e] = @ + 1]
    /\ IF refcount[e] + 1 = 1
       THEN \E q \in NewQueueNums : queue' = [queue EXCEPT ![e] = q]
       ELSE UNCHANGED queue
    /\ UNCHANGED entries

\* getQueueMapEntry finds none and creates one.
CreateEntry(k, e) ==
    /\ entries[k] = None
    /\ Unreachable(e)
    /\ entries' = [entries EXCEPT ![k] = e]
    /\ refcount' = [refcount EXCEPT ![e] = 1]
    /\ \E q \in NewQueueNums : queue' = [queue EXCEPT ![e] = q]

\* The informer reports an add, update or delete of object k and the first
\* half of enqueueEvent gets the entry.
GetQueueMapEntry(k, del) ==
    /\ sending = None
    /\ ~closed
    /\ issued[k] < MaxEvents
    /\ del => k \in exists
    /\ exists' = IF del THEN exists \ {k} ELSE exists \cup {k}
    /\ issued' = [issued EXCEPT ![k] = @ + 1]
    /\ \E e \in Entries :
        /\ ReuseEntry(k, e) \/ CreateEntry(k, e)
        /\ sending' = [key |-> k, seq |-> issued[k] + 1, del |-> del, entry |-> e]
    /\ UNCHANGED <<queues, processing, exited, lifeVars, started, finished>>

\* Fault: the channel grows past its capacity.
EnqueueEventUnbounded ==
    /\ sending # None
    /\ queues' = [queues EXCEPT ![queue[sending.entry]] = Append(@, sending)]
    /\ sending' = None
    /\ UNCHANGED <<mapVars, processing, exited, lifeVars, histVars>>

\* The second half of enqueueEvent: the send blocks while the channel is full.
EnqueueEvent ==
    /\ sending # None
    /\ LET q == queue[sending.entry] IN
        /\ Len(queues[q]) < QueueCap
        /\ queues' = [queues EXCEPT ![q] = Append(@, sending)]
    /\ sending' = None
    /\ UNCHANGED <<mapVars, processing, exited, lifeVars, histVars>>

-----------------------------------------------------------------------------
(***************************************************************************)
(* The workers                                                             *)
(***************************************************************************)

\* processEvents receives an event and calls its process function.
ProcessEvents(q) ==
    /\ q \notin exited
    /\ processing[q] = None
    /\ queues[q] # <<>>
    /\ LET e == Head(queues[q]) IN
        /\ processing' = [processing EXCEPT ![q] = e]
        /\ started' = [started EXCEPT ![e.key] = e.seq]
    /\ queues' = [queues EXCEPT ![q] = Tail(@)]
    /\ UNCHANGED <<mapVars, sending, exited, lifeVars, exists, issued, finished>>

\* Fault: a handled delete drops the entry although other events refer to it.
ReleaseOnAnyDelete(q) ==
    /\ processing[q] # None
    /\ LET e == processing[q] IN
        /\ refcount' = [refcount EXCEPT ![e.entry] = @ - 1]
        /\ entries' = IF e.del THEN [entries EXCEPT ![e.key] = None] ELSE entries
        /\ finished' = [finished EXCEPT ![e.key] = @ + 1]
    /\ processing' = [processing EXCEPT ![q] = None]
    /\ UNCHANGED <<queue, queues, sending, exited, lifeVars, exists, issued, started>>

\* Fault: a delete releases its entry as an update does.
ReleaseWithoutDrop(q) ==
    /\ processing[q] # None
    /\ LET e == processing[q] IN
        /\ refcount' = [refcount EXCEPT ![e.entry] = @ - 1]
        /\ finished' = [finished EXCEPT ![e.key] = @ + 1]
    /\ processing' = [processing EXCEPT ![q] = None]
    /\ UNCHANGED <<entries, queue, queues, sending, exited, lifeVars, exists, issued, started>>

\* The handlers have returned and the event's reference is released: without
\* the map's lock for an add or an update, under it, and with the entry
\* dropped at zero, for a delete.
ReleaseQueueMapEntry(q) ==
    /\ processing[q] # None
    /\ LET e == processing[q] IN
        /\ refcount' = [refcount EXCEPT ![e.entry] = @ - 1]
        /\ entries' = IF e.del /\ refcount[e.entry] - 1 <= 0
                      THEN [entries EXCEPT ![e.key] = None]
                      ELSE entries
        /\ finished' = [finished EXCEPT ![e.key] = @ + 1]
    /\ processing' = [processing EXCEPT ![q] = None]
    /\ UNCHANGED <<queue, queues, sending, exited, lifeVars, exists, issued, started>>

\* Fault: a closed channel is left although it still has events.
WorkerReturnsUndrained(q) ==
    /\ q \notin exited
    /\ processing[q] = None
    /\ stopped \/ closed
    /\ exited' = exited \cup {q}
    /\ UNCHANGED <<mapVars, queues, sending, processing, lifeVars, histVars>>

\* Fault: processEvents does not see that its channel is closed.
WorkerReturnsOnStopOnly(q) ==
    /\ q \notin exited
    /\ processing[q] = None
    /\ stopped
    /\ exited' = exited \cup {q}
    /\ UNCHANGED <<mapVars, queues, sending, processing, lifeVars, histVars>>

\* processEvents returns: its channel is closed and drained, or the select
\* takes the closed stopChan, whatever is still in the channel.
WorkerReturns(q) ==
    /\ q \notin exited
    /\ processing[q] = None
    /\ stopped \/ (closed /\ queues[q] = <<>>)
    /\ exited' = exited \cup {q}
    /\ UNCHANGED <<mapVars, queues, sending, processing, lifeVars, histVars>>

\* shutdown() closes the queues; its only caller has enqueued everything.
Shutdown ==
    /\ ~closed
    /\ sending = None
    /\ closed' = TRUE
    /\ UNCHANGED <<mapVars, chanVars, stopped, histVars>>

\* The process ends: stopChan is closed.
Stop ==
    /\ ~stopped
    /\ stopped' = TRUE
    /\ UNCHANGED <<mapVars, chanVars, closed, histVars>>

Worker(q) == ProcessEvents(q) \/ ReleaseQueueMapEntry(q) \/ WorkerReturns(q)

Next == \/ \E k \in Keys, del \in BOOLEAN : GetQueueMapEntry(k, del)
        \/ EnqueueEvent
        \/ \E q \in Queues : Worker(q)
        \/ Shutdown
        \/ Stop

Spec == Init /\ [][Next]_vars

\* The dispatcher is not abandoned while its channel has room, and every
\* handler returns.
Fairness == /\ WF_vars(EnqueueEvent)
            /\ \A q \in Queues : WF_vars(Worker(q))

FairSpec == Spec /\ Fairness

-----------------------------------------------------------------------------
(***************************************************************************)
(* Properties                                                              *)
(***************************************************************************)

\* Object k has an event in channel q, or worker q handles one.
BusyIn(k, q) == \/ \E i \in 1 .. Len(queues[q]) : queues[q][i].key = k
                \/ processing[q] # None /\ processing[q].key = k

\* All events of an object that are not handled yet are in one queue, also
\* the one about to be sent: no two workers ever handle the same object
\* (getQueueMapEntry: "all objects with the NamespacedName are serialized into
\* the same queue slot").
OneQueuePerObject == \A k \in Keys, q \in Queues : BusyIn(k, q) =>
    /\ \A p \in Queues : BusyIn(k, p) => p = q
    /\ sending # None /\ sending.key = k => queue[sending.entry] = q

\* The entry of an object counts exactly its unhandled events: it is never
\* dropped while one is left, although adds and updates release it without
\* the lock.
RefcountIsInFlight == \A k \in Keys :
    IF entries[k] = None
    THEN issued[k] = finished[k]
    ELSE refcount[entries[k]] = issued[k] - finished[k]

\* A deleted object leaves no entry behind once its last event is handled.
NoEntryLeak == \A k \in Keys :
    issued[k] = finished[k] /\ k \notin exists => entries[k] = None

\* When every worker of a closed map has returned and the process is not
\* stopping, every event has been handled: a handler is registered only after
\* it has seen all existing objects (newQueuedInformer: "Wait until all the
\* object additions have been processed").
DrainedOnShutdown == closed /\ ~stopped /\ exited = Queues => issued = finished

\* Every event issued is handled in the end unless the process is stopped.
EventsHandled == \A k \in Keys : \A n \in 1 .. MaxEvents :
    issued[k] >= n ~> finished[k] >= n \/ stopped

\* A closed or stopped map lets go of all of its workers: the Wait on its
\* WaitGroup returns.
WorkersReturn == closed \/ stopped ~> exited = Queues

Abstract == INSTANCE KeyedFIFO

\* Per object the queues behave as one FIFO with a single consumer: events
\* are handled in the order the informer issued them and one at a time
\* (getQueueMapEntry: "This prevents parallel processing of events for the
\* same object that might happen out-of-order").
ImplementsKeyedFIFO == Abstract!Spec
-----------------------------------------------------------------------------
(***************************************************************************)
(* The inductive invariant behind the properties above                     *)
(***************************************************************************)

\* Entries are not shared between objects.
EntryInv == \A j, k \in Keys : entries[j] = entries[k] /\ entries[j] # None => j = k

\* An event in a channel is in the queue its object's entry names and has not
\* been started.
QueuedInv == \A q \in Queues : \A i \in 1 .. Len(queues[q]) :
    LET e == queues[q][i] IN
    /\ e.entry = entries[e.key]
    /\ queue[e.entry] = q
    /\ started[e.key] < e.seq
    /\ e.seq <= issued[e.key]
    /\ e.seq = issued[e.key] => (e.del <=> e.key \notin exists)

\* An event being handled is the one last started, and the only one.
ProcessingInv == \A q \in Queues : processing[q] # None =>
    LET e == processing[q] IN
    /\ e.entry = entries[e.key]
    /\ queue[e.entry] = q
    /\ e.seq = started[e.key]
    /\ started[e.key] = finished[e.key] + 1
    /\ e.seq = issued[e.key] => (e.del <=> e.key \notin exists)

\* The event about to be sent is its object's newest.
SendingInv == sending # None =>
    /\ sending.entry = entries[sending.key]
    /\ sending.seq = issued[sending.key]
    /\ started[sending.key] < issued[sending.key]
    /\ sending.del <=> sending.key \notin exists
    /\ \A q \in Queues : \A i \in 1 .. Len(queues[q]) :
         queues[q][i].key = sending.key => queues[q][i].seq < sending.seq

\* The events of an object are in its channel in the order of issue.
OrderInv == \A q \in Queues : \A i, j \in 1 .. Len(queues[q]) :
    i < j /\ queues[q][i].key = queues[q][j].key => queues[q][i].seq < queues[q][j].seq

\* Event n of object k waits in a channel or at the dispatcher.
Waiting(k, n) ==
    \/ \E q \in Queues : \E i \in 1 .. Len(queues[q]) :
         queues[q][i].key = k /\ queues[q][i].seq = n
    \/ sending # None /\ sending.key = k /\ sending.seq = n

\* No event is lost between its issue and its start.
PresentInv == \A k \in Keys : \A n \in Nat :
    started[k] < n /\ n <= issued[k] => Waiting(k, n)

\* An object without a worker has no event between start and finish.
HistoryInv == \A k \in Keys :
    /\ started[k] <= issued[k]
    /\ \/ started[k] = finished[k]
       \/ /\ started[k] = finished[k] + 1
          /\ \E q \in Queues : processing[q] # None /\ processing[q].key = k

\* A worker that has returned left nothing behind unless the process stops.
ExitInv == /\ closed => sending = None
           /\ \A q \in exited : /\ processing[q] = None
                                /\ stopped \/ (closed /\ queues[q] = <<>>)

IndInv == /\ TypeOK
          /\ EntryInv
          /\ QueuedInv
          /\ ProcessingInv
          /\ SendingInv
          /\ OrderInv
          /\ PresentInv
          /\ HistoryInv
          /\ ExitInv
          /\ RefcountIsInFlight
          /\ NoEntryLeak
=============================================================================
