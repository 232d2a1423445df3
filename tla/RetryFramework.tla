--------------------------- MODULE RetryFramework ---------------------------
(***************************************************************************)
(* The retry framework (go-controller/pkg/retry, obj_retry.go): the event  *)
(* handlers every watched resource type goes through, the cache of failed  *)
(* objects they keep, and the loop that retries them.                      *)
(*                                                                         *)
(* Events of one object arrive in order and one at a time (QueueMap,       *)
(* Informer), but late: the informer's cache, which the handlers and the   *)
(* loop consult, may be several changes ahead.  The body of a handler and  *)
(* of a retry runs under the object's key lock (SyncMap) and is one step;  *)
(* what UpdateFunc reads before it takes the lock is a step of its own.    *)
(*                                                                         *)
(* Every resource type has a framework of its own: the type is chosen in   *)
(* the initial state.  The type's functions AddResource, UpdateResource    *)
(* and DeleteResource are abstracted to what they achieve: they move what  *)
(* is configured for the object from one state to the next, and when they  *)
(* fail they may have done so or not.                                      *)
(***************************************************************************)
EXTENDS Integers, Sequences

CONSTANTS Keys,              \* object keys
          ResourceTypes,     \* the types a framework may be made for
          MaxFailedAttempts, \* 15 in the code
          MaxChanges,        \* bound: changes of objects
          MaxObjects,        \* bound: objects created under one key
          MaxRequests,       \* bound: retries asked for by other controllers
          None               \* nil

Phase == {"pending", "running", "completed"}

\* What the framework knows of a type: whether it has an update function,
\* whether failed updates are retried as updates, and whether it is pods,
\* which are pending until they are scheduled and end completed.
ResourceType == [hasUpdateFunc : BOOLEAN, needsUpdateDuringRetry : BOOLEAN, pods : BOOLEAN]

ASSUME ResourceTypesKnown == ResourceTypes \subseteq ResourceType
ASSUME MaxFailedAttemptsIsNat == MaxFailedAttempts \in Nat \ {0}
ASSUME BoundsAreNat == MaxChanges \in Nat /\ MaxObjects \in Nat /\ MaxRequests \in Nat

\* A revision of an object; objects of other types than pods are always
\* running.
Object == [uid : 1 .. MaxObjects, rev : 1 .. MaxChanges, phase : Phase]

ObjectOrNil == Object \cup {None}

\* A retryObjEntry.  Time is abstracted to whether the backoff has expired:
\* force stands for backoffSec = noBackoff, due for an expired timer.
RetryObjEntry == [newObj : ObjectOrNil, oldObj : ObjectOrNil, config : ObjectOrNil,
                  failedAttempts : 0 .. MaxFailedAttempts, force : BOOLEAN, due : BOOLEAN]

EventType == [old : ObjectOrNil, new : ObjectOrNil]

ASSUME NoneIsNil == None \notin Object \cup RetryObjEntry \cup EventType

VARIABLES resource,     \* the framework's resource type
          store,        \* store[k]: the object in the informer's cache, or None
          changes,      \* number of changes so far
          uids,         \* uids[k]: number of objects created under k
          listed,       \* listed[k]: the pod addAllPodsOnNode has listed, or None
          requests,     \* number of retries asked for so far
          pending,      \* pending[k]: events of k not yet handled
          latest,       \* latest[k]: what UpdateFunc read before the lock, or None
          retryEntries, \* retryEntries[k]: the retry entry of k, or None
          terminated,   \* the keys in terminatedObjects
          requested,    \* a request is in retryChan
          loop,         \* the keys left in the pass of iterateRetryResources
          held,         \* held[k]: the object that is configured for k, or None
          gaveUp,       \* keys an entry was dropped for after too many failures
          failed        \* some call of the type's functions has failed

informerVars == <<resource, store, changes, uids>>
listVars == <<listed, requests>>
loopVars == <<requested, loop>>
vars == <<informerVars, listVars, pending, latest, retryEntries, terminated, loopVars,
          held, gaveUp, failed>>

TypeOK == /\ resource \in ResourceTypes
          /\ store \in [Keys -> ObjectOrNil]
          /\ changes \in 0 .. MaxChanges
          /\ uids \in [Keys -> 0 .. MaxObjects]
          /\ listed \in [Keys -> ObjectOrNil]
          /\ requests \in 0 .. MaxRequests
          /\ pending \in [Keys -> Seq(EventType)]
          /\ latest \in [Keys -> ObjectOrNil]
          /\ retryEntries \in [Keys -> RetryObjEntry \cup {None}]
          /\ terminated \subseteq Keys
          /\ requested \in BOOLEAN
          /\ loop \subseteq Keys
          /\ held \in [Keys -> ObjectOrNil]
          /\ gaveUp \subseteq Keys
          /\ failed \in BOOLEAN

Init == /\ resource \in ResourceTypes
        /\ store = [k \in Keys |-> None]
        /\ changes = 0
        /\ uids = [k \in Keys |-> 0]
        /\ listed = store
        /\ requests = 0
        /\ pending = [k \in Keys |-> <<>>]
        /\ latest = store
        /\ retryEntries = store
        /\ terminated = {}
        /\ requested = FALSE
        /\ loop = {}
        /\ held = store
        /\ gaveUp = {}
        /\ failed = FALSE

\* The phases the type's objects go through.
Phases == IF resource.pods THEN Phase ELSE {"running"}

-----------------------------------------------------------------------------
(***************************************************************************)
(* The informer's cache                                                    *)
(***************************************************************************)

\* A change reaches the cache and its events the queue.
Change(k, new, events) ==
    /\ changes < MaxChanges
    /\ changes' = changes + 1
    /\ store' = [store EXCEPT ![k] = new]
    /\ uids' = [uids EXCEPT ![k] = IF new = None THEN @ ELSE new.uid]
    /\ pending' = [pending EXCEPT ![k] = @ \o events]
    /\ UNCHANGED <<resource, listVars, latest, retryEntries, terminated, loopVars, held, gaveUp, failed>>

Event(old, new) == <<[old |-> old, new |-> new]>>

\* An object is created; if the key is taken it replaces the one before it,
\* which the informer reports as a delete and an add.
Create(k) == \E p \in Phases :
    LET new == [uid |-> uids[k] + 1, rev |-> changes + 1, phase |-> p]
    IN /\ uids[k] < MaxObjects
       /\ Change(k, new, (IF store[k] = None THEN <<>> ELSE Event(store[k], None))
                            \o Event(None, new))

Rank == [p \in {"pending", "running", "completed"} |->
            CASE p = "pending" -> 0 [] p = "running" -> 1 [] OTHER -> 2]

Modify(k) == \E p \in Phases :
    /\ store[k] # None
    /\ Rank[store[k].phase] <= Rank[p]
    /\ LET new == [store[k] EXCEPT !.rev = changes + 1, !.phase = p] IN
        Change(k, new, Event(store[k], new))

\* An update that leaves everything the type looks at as it was.
Resync(k) == store[k] # None /\ Change(k, store[k], Event(store[k], store[k]))

Remove(k) == store[k] # None /\ Change(k, None, Event(store[k], None))

-----------------------------------------------------------------------------
(***************************************************************************)
(* The type's functions: every outcome of a call, with what is held after. *)
(* What is configured is found by the object's key: deleting any object of *)
(* that key removes it.                                                    *)
(***************************************************************************)

Outcomes(before, after) == {[ok |-> TRUE, held |-> after], [ok |-> FALSE, held |-> before],
                            [ok |-> FALSE, held |-> after]}

\* IsResourceScheduled; nothing is configured for a pod that is not.
IsResourceScheduled(obj) == obj.phase # "pending"

AddResource(h, obj) ==
    Outcomes(h, IF IsResourceScheduled(obj) THEN obj ELSE h)

UpdateResource(h, old, new) ==
    Outcomes(h, IF IsResourceScheduled(new) THEN new ELSE h)

DeleteResource(h, obj) == Outcomes(h, None)

\* What a call that is not made leaves.
NoCall(h) == [ok |-> TRUE, held |-> h]

IsObjectInTerminalState(obj) == obj.phase = "completed"

-----------------------------------------------------------------------------
(***************************************************************************)
(* Retry entries                                                           *)
(***************************************************************************)

\* LoadOrStore of an entry whose time stamp is set to now.
Stamped(e) == IF e = None
              THEN [newObj |-> None, oldObj |-> None, config |-> None,
                    failedAttempts |-> 0, force |-> FALSE, due |-> FALSE]
              ELSE [e EXCEPT !.failedAttempts = 0, !.due = FALSE]

initRetryObjWithAddBackoff(e, obj, noBackoff) ==
    [Stamped(e) EXCEPT !.newObj = obj, !.force = noBackoff]

initRetryObjWithAdd(e, obj) == initRetryObjWithAddBackoff(e, obj, FALSE)

initRetryObjWithUpdate(e, old, new) == [Stamped(e) EXCEPT !.newObj = new, !.config = old]

\* Fault: an entry made for a delete forgets the object to delete.
InitRetryWithoutOldObj(e, obj, noRetryAdd) ==
    [Stamped(e) EXCEPT !.newObj = IF noRetryAdd THEN None ELSE @]

\* The config argument is left out: only pods have one, and it is only looked
\* at for types whose updates are retried.
InitRetryObjWithDelete(e, obj, noRetryAdd) ==
    [Stamped(e) EXCEPT !.oldObj = obj, !.newObj = IF noRetryAdd THEN None ELSE @]

removeDeleteFromRetryObj(e) == [e EXCEPT !.oldObj = None, !.config = None]

increaseFailedAttemptsCounter(e) == [e EXCEPT !.failedAttempts = @ + 1]

\* The handling of k ends with entry e and the outcome o of its last call.
Finish(k, e, o) == /\ retryEntries' = [retryEntries EXCEPT ![k] = e]
                   /\ held' = [held EXCEPT ![k] = o.held]
                   /\ failed' = (failed \/ ~o.ok)

-----------------------------------------------------------------------------
(***************************************************************************)
(* The event handlers                                                      *)
(***************************************************************************)

\* The event of k that is handled next.
Event1(k) == Head(pending[k])

\* The handler of the event returns.
Handled(k) == /\ pending' = [pending EXCEPT ![k] = Tail(@)]
              /\ latest' = [latest EXCEPT ![k] = None]
              /\ UNCHANGED <<informerVars, listVars, loopVars, gaveUp>>

\* Fault: the object is marked as terminated but its resources stay.
MarkTerminatedOnly(k, obj) ==
    /\ terminated' = terminated \cup {k}
    /\ UNCHANGED <<retryEntries, held, failed>>

\* processObjectInTerminalState: the first time the object's resources are
\* removed, later it is ignored.
ProcessObjectInTerminalState(k, obj) ==
    /\ terminated' = terminated \cup {k}
    /\ IF k \in terminated
       THEN UNCHANGED <<retryEntries, held, failed>>
       ELSE \E d \in DeleteResource(held[k], obj) :
             Finish(k, IF d.ok THEN None
                       ELSE increaseFailedAttemptsCounter(
                                InitRetryObjWithDelete(retryEntries[k], obj, TRUE)),
                    d)

AddFunc(k) ==
    /\ pending[k] # <<>>
    /\ Event1(k).old = None
    /\ LET obj == Event1(k).new
           e == initRetryObjWithAdd(retryEntries[k], obj)
       IN IF IsObjectInTerminalState(obj)
          THEN ProcessObjectInTerminalState(k, obj)
          ELSE /\ \E d \in IF e.oldObj = None THEN {NoCall(held[k])}
                                              ELSE DeleteResource(held[k], e.oldObj) :
                    IF ~d.ok
                    THEN Finish(k, increaseFailedAttemptsCounter(e), d)
                    ELSE \E a \in AddResource(d.held, obj) :
                          LET f == IF e.oldObj = None THEN e ELSE removeDeleteFromRetryObj(e) IN
                          Finish(k, IF a.ok THEN None ELSE increaseFailedAttemptsCounter(f), a)
               /\ UNCHANGED terminated
    /\ Handled(k)

\* k's next event is an update, or the update is being handled.
IsUpdate(k) == pending[k] # <<>> /\ Event1(k).old # None /\ Event1(k).new # None

\* AreResourcesEqual: pods always count as changed.
AreResourcesEqual(old, new) == ~resource.pods /\ old = new

\* UpdateFunc skips the event if nothing has changed.
UpdateEqual(k) ==
    /\ IsUpdate(k)
    /\ latest[k] = None
    /\ AreResourcesEqual(Event1(k).old, Event1(k).new)
    /\ Handled(k)
    /\ UNCHANGED <<retryEntries, terminated, held, failed>>

\* UpdateFunc finds the object in the informer's cache, before it takes the
\* key lock.
GetLatest(k) ==
    /\ IsUpdate(k)
    /\ latest[k] = None
    /\ ~AreResourcesEqual(Event1(k).old, Event1(k).new)
    /\ store[k] # None
    /\ latest' = [latest EXCEPT ![k] = store[k]]
    /\ UNCHANGED <<informerVars, listVars, pending, retryEntries, terminated, loopVars, held, gaveUp, failed>>

\* It does not: only an object in terminal state still has to be removed.
UpdateGone(k) ==
    /\ IsUpdate(k)
    /\ latest[k] = None
    /\ ~AreResourcesEqual(Event1(k).old, Event1(k).new)
    /\ store[k] = None
    /\ IF IsObjectInTerminalState(Event1(k).new)
       THEN ProcessObjectInTerminalState(k, Event1(k).new)
       ELSE UNCHANGED <<retryEntries, terminated, held, failed>>
    /\ Handled(k)

\* Fault: a failed update leaves no retry entry.
UpdateStep2Forgets(k, e, h) ==
    \E u \in UpdateResource(h, Event1(k).old, latest[k]) : Finish(k, None, u)

\* STEP 2 of UpdateFunc with the entry e and h held after step 1.
UpdateStep2(k, e, h) ==
    \E u \in IF resource.hasUpdateFunc THEN UpdateResource(h, Event1(k).old, latest[k])
                              ELSE AddResource(h, latest[k]) :
        Finish(k, IF u.ok THEN None
                  ELSE increaseFailedAttemptsCounter(
                         IF resource.hasUpdateFunc /\ resource.needsUpdateDuringRetry
                         THEN initRetryObjWithUpdate(e, Event1(k).old, latest[k])
                         ELSE initRetryObjWithAdd(e, latest[k])),
               u)

\* The rest of UpdateFunc, under the key lock.
UpdateFunc(k) ==
    LET e == retryEntries[k]
        old == Event1(k).old
        marked == e # None /\ e.oldObj # None
    IN
    /\ latest[k] # None
    /\ \/ /\ marked   \* [step 1a]
          /\ \E d \in DeleteResource(held[k], e.oldObj) :
               IF d.ok
               THEN UpdateStep2(k, removeDeleteFromRetryObj(e), d.held)
               ELSE Finish(k, increaseFailedAttemptsCounter(initRetryObjWithAdd(e, latest[k])),
                           d)
          /\ UNCHANGED terminated
       \/ /\ ~marked  \* [step 1b]
          /\ IsObjectInTerminalState(latest[k])
          /\ ProcessObjectInTerminalState(k, latest[k])
       \/ /\ ~marked  \* [step 1c]
          /\ ~IsObjectInTerminalState(latest[k])
          /\ ~resource.hasUpdateFunc
          /\ \E d \in DeleteResource(held[k], old) :
               IF d.ok
               THEN UpdateStep2(k, IF e = None THEN e ELSE removeDeleteFromRetryObj(e), d.held)
               ELSE Finish(k, increaseFailedAttemptsCounter(
                                initRetryObjWithAdd(InitRetryObjWithDelete(e, old, FALSE), latest[k])),
                           d)
          /\ UNCHANGED terminated
       \/ /\ ~marked
          /\ ~IsObjectInTerminalState(latest[k])
          /\ resource.hasUpdateFunc
          /\ UpdateStep2(k, e, held[k])
          /\ UNCHANGED terminated
    /\ Handled(k)

DeleteFunc(k) ==
    /\ pending[k] # <<>>
    /\ Event1(k).new = None
    /\ LET obj == Event1(k).old IN
       IF IsObjectInTerminalState(obj) /\ k \in terminated
       THEN /\ terminated' = terminated \ {k}
            /\ UNCHANGED <<retryEntries, held, failed>>
       ELSE /\ \E d \in DeleteResource(held[k], obj) :
                Finish(k, IF d.ok THEN None
                          ELSE increaseFailedAttemptsCounter(
                                   InitRetryObjWithDelete(retryEntries[k], obj, FALSE)),
                       d)
            /\ UNCHANGED terminated
    /\ Handled(k)

-----------------------------------------------------------------------------
(***************************************************************************)
(* The retry loop                                                          *)
(***************************************************************************)

\* addAllPodsOnNode lists the pods of a node that has come up; completed pods
\* are left out.
ListPods(k) ==
    /\ resource.pods
    /\ store[k] # None
    /\ IsResourceScheduled(store[k]) /\ ~IsObjectInTerminalState(store[k])
    /\ requests < MaxRequests
    /\ requests' = requests + 1
    /\ listed' = [listed EXCEPT ![k] = store[k]]
    /\ UNCHANGED <<informerVars, pending, latest, retryEntries, terminated, loopVars, held, gaveUp, failed>>

\* Later it asks for them to be added without delay.
AddRetryObjWithAddNoBackoff(k) ==
    /\ listed[k] # None
    /\ listed' = [listed EXCEPT ![k] = None]
    /\ retryEntries' = [retryEntries EXCEPT ![k] = initRetryObjWithAddBackoff(@, listed[k], TRUE)]
    /\ UNCHANGED <<informerVars, requests, pending, latest, terminated, loopVars, held, gaveUp, failed>>

\* retryChan holds one request: another is dropped.
RequestRetryObjs ==
    /\ requests < MaxRequests
    /\ requests' = requests + 1
    /\ requested' = TRUE
    /\ UNCHANGED <<informerVars, listed, pending, latest, retryEntries, terminated, loop, held, gaveUp, failed>>

\* Fault: a pass is started on request only.
IterateOnRequest(byRequest) ==
    /\ loop = {}
    /\ byRequest
    /\ requested
    /\ requested' = FALSE
    /\ loop' = {k \in Keys : retryEntries[k] # None}
    /\ UNCHANGED <<informerVars, listVars, pending, latest, retryEntries, terminated, held, gaveUp, failed>>

\* periodicallyRetryResources starts a pass, on a request or on its timer,
\* over the keys that have an entry now.
IterateRetryResources(byRequest) ==
    /\ loop = {}
    /\ byRequest => requested
    /\ requested' = (requested /\ ~byRequest)
    /\ loop' = {k \in Keys : retryEntries[k] # None}
    /\ UNCHANGED <<informerVars, listVars, pending, latest, retryEntries, terminated, held, gaveUp, failed>>

\* The backoff of an entry expires.
BackoffExpires(k) ==
    /\ retryEntries[k] # None
    /\ ~retryEntries[k].due
    /\ retryEntries' = [retryEntries EXCEPT ![k].due = TRUE]
    /\ UNCHANGED <<informerVars, listVars, pending, latest, terminated, loopVars, held, gaveUp, failed>>

\* The goroutine of the pass for k is done.
Retried(k) == /\ loop' = loop \ {k}
              /\ UNCHANGED <<informerVars, listVars, pending, latest, terminated, requested>>

\* resourceRetry: the entry is gone, ...
RetryGone(k) ==
    /\ k \in loop
    /\ retryEntries[k] = None
    /\ Retried(k)
    /\ UNCHANGED <<retryEntries, held, gaveUp, failed>>

\* ... has failed too often, ...
RetryDrop(k) ==
    /\ k \in loop
    /\ retryEntries[k] # None
    /\ retryEntries[k].failedAttempts >= MaxFailedAttempts
    /\ retryEntries' = [retryEntries EXCEPT ![k] = None]
    /\ gaveUp' = gaveUp \cup {k}
    /\ Retried(k)
    /\ UNCHANGED <<held, failed>>

\* ... or its backoff has not expired.
RetryEarly(k) ==
    /\ k \in loop
    /\ retryEntries[k] # None
    /\ retryEntries[k].failedAttempts < MaxFailedAttempts
    /\ ~retryEntries[k].force /\ ~retryEntries[k].due
    /\ Retried(k)
    /\ UNCHANGED <<retryEntries, held, gaveUp, failed>>

\* An attempt failed; its time stamp is set anew unless the object is not
\* scheduled.
RetryFails(k, e, o, stamp) ==
    Finish(k, [increaseFailedAttemptsCounter(e) EXCEPT !.due = IF stamp THEN FALSE ELSE @], o)

\* The old object is deleted and the new one added, as far as there are any.
RetryDeleteAndAdd(k, e) ==
    IF e.oldObj # None /\ ~IsResourceScheduled(e.oldObj)
    THEN RetryFails(k, e, NoCall(held[k]), FALSE)
    ELSE \E d \in IF e.oldObj = None THEN {NoCall(held[k])} ELSE DeleteResource(held[k], e.oldObj) :
           LET f == [e EXCEPT !.oldObj = None] IN
           IF ~d.ok
           THEN RetryFails(k, e, d, TRUE)
           ELSE IF f.newObj # None /\ ~IsResourceScheduled(f.newObj)
                THEN RetryFails(k, f, d, FALSE)
                ELSE \E a \in IF f.newObj = None THEN {NoCall(d.held)} ELSE AddResource(d.held, f.newObj) :
                       IF a.ok THEN Finish(k, None, a)
                               ELSE RetryFails(k, f, a, TRUE)

\* Fault: the object is added as it was when the entry was made.
ResourceRetryStale(k) ==
    /\ k \in loop
    /\ retryEntries[k] # None
    /\ retryEntries[k].failedAttempts < MaxFailedAttempts
    /\ retryEntries[k].force \/ retryEntries[k].due
    /\ RetryDeleteAndAdd(k, [retryEntries[k] EXCEPT !.force = FALSE])
    /\ Retried(k)
    /\ UNCHANGED gaveUp

\* Fault: the number of attempts is not limited.
ResourceRetryForever(k) ==
    /\ k \in loop
    /\ retryEntries[k] # None
    /\ retryEntries[k].force \/ retryEntries[k].due
    /\ RetryDeleteAndAdd(k, [retryEntries[k] EXCEPT !.force = FALSE])
    /\ Retried(k)
    /\ UNCHANGED gaveUp

\* resourceRetry tries: the new object is first replaced by the cached one.
ResourceRetry(k) ==
    /\ k \in loop
    /\ retryEntries[k] # None
    /\ retryEntries[k].failedAttempts < MaxFailedAttempts
    /\ retryEntries[k].force \/ retryEntries[k].due
    /\ LET e == [retryEntries[k] EXCEPT !.force = FALSE,
                                        !.newObj = IF @ = None THEN None ELSE store[k]]
       IN IF resource.needsUpdateDuringRetry /\ e.config # None /\ e.newObj # None
          THEN \E u \in UpdateResource(held[k], e.config, e.newObj) :
                 IF u.ok THEN Finish(k, None, u)
                         ELSE RetryFails(k, e, u, TRUE)
          ELSE RetryDeleteAndAdd(k, e)
    /\ Retried(k)
    /\ UNCHANGED gaveUp

-----------------------------------------------------------------------------

Handle(k) == AddFunc(k) \/ UpdateEqual(k) \/ GetLatest(k) \/ UpdateGone(k) \/ UpdateFunc(k) \/ DeleteFunc(k)

Retry(k) == RetryGone(k) \/ RetryDrop(k) \/ RetryEarly(k) \/ ResourceRetry(k)

Iterate == \E byRequest \in BOOLEAN : IterateRetryResources(byRequest)

Next == \/ \E k \in Keys : \/ Create(k) \/ Modify(k) \/ Resync(k) \/ Remove(k)
                           \/ Handle(k) \/ Retry(k) \/ BackoffExpires(k)
                           \/ ListPods(k) \/ AddRetryObjWithAddNoBackoff(k)
        \/ RequestRetryObjs
        \/ Iterate

Spec == Init /\ [][Next]_vars

\* Events are handled, time passes, the loop's ticker fires and each goroutine
\* of a pass gets the key lock.
Fairness == /\ \A k \in Keys : WF_vars(Handle(k)) /\ WF_vars(Retry(k)) /\ SF_vars(BackoffExpires(k))
            /\ WF_vars(Iterate)
            /\ \A k \in Keys : SF_vars(ResourceRetry(k) \/ RetryDrop(k))

FairSpec == Spec /\ Fairness

-----------------------------------------------------------------------------
(***************************************************************************)
(* Properties                                                              *)
(***************************************************************************)

\* Nothing is left to do for k and the framework did not give up on it.
Settled(k) == pending[k] = <<>> /\ retryEntries[k] = None /\ k \notin gaveUp

\* When a live object's events are handled and no retry is left, exactly its
\* last revision is configured, whatever failed or came late on the way.
ReconciledWhenSettled == \A k \in Keys :
    Settled(k) /\ store[k] # None /\ store[k].phase = "running" => held[k] = store[k]

\* Nothing has failed, the key has had one object, and no other controller has
\* asked for a retry.
Undisturbed(k) == ~failed /\ uids[k] <= 1 /\ requests = 0

\* The same for an object that is gone: nothing is configured any more.  For
\* pods this holds as long as nothing fails and no name is used twice.
ReleasedWhenGone == \A k \in Keys :
    Settled(k) /\ store[k] = None /\ (resource.pods => Undisturbed(k)) => held[k] = None

\* A completed pod has released what it had, however far the informer's cache
\* is ahead of its events, as long as nothing disturbs its handling.
CompletedPodReleased == \A k \in Keys :
    Settled(k) /\ store[k] # None /\ store[k].phase = "completed" /\ Undisturbed(k) =>
        held[k] = None

\* Every object is reconciled in the end or given up.
EventuallySettled == \A k \in Keys : <>[](k \in gaveUp \/ Settled(k))
=============================================================================
