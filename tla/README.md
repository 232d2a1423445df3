# Verification of ovn-kubernetes in TLA+

ovn-kubernetes turns Kubernetes objects (pods, nodes, network policies, egress
IPs, services ...) into the configuration of an OVN network. Its Go code, under
`src/go-controller`, is a set of controllers in three kinds of processes: the
cluster manager, which hands out what must be unique in the cluster; the
network controllers of a zone, which write the OVN databases; and the node
agent with the CNI server. What they share is how they get to know of objects
and how they recover from failures, and the same few building blocks (a map of
locks, per-object event queues, shared informers, the retry framework,
allocators) carry the correctness of all of them. This project models those
building blocks first and the controllers on top of them afterwards.

Paths below are relative to `src/go-controller/pkg`.

## Inventory

| Component | State it keeps | Operations | Hard because | Correct when |
|---|---|---|---|---|
| `syncmap` | `keyLocks` with reference counters, `entries` | LockKey, UnlockKey, Load, Store, LoadOrStore, Delete | lock objects come and go while threads wait for them | one holder per key; no lock object lost or leaked; LockKey returns |
| `factory/handler.go`, `queueMap` | entry per object (queue, refcount), channels | get entry, send, receive, release, shutdown | counters changed outside the lock; entries moved and dropped while events are in flight | per object in order and one at a time; entries reclaimed |
| `factory`, shared informers | registered handlers by priority, tombstones, RWMutex | add, remove, deliver, filter | handlers come and go during delivery; listing overlaps with events; removal from inside a handler | no event missed, none delivered after removal |
| `retry` | retry entries, terminated objects, retry channel | add, update, delete handlers, retry loop | events are older than the cache, calls fail half way, names are used again | settled objects are configured as they last were, gone ones not at all |
| `allocator/bitmap`, `id`, `ip`, `ip/subnet` | bitmaps, names to IDs, subnets | allocate, reserve, release | several locks, partial failure over several subnets | no double allocation, roll back on failure |
| `allocator/pod`, `clustermanager/pod` | pod annotations, reserved IPs | allocate, update annotation with retry, release | conflicts of annotation updates, completed pods | an IP has one pod |
| `clustermanager` (nodes) | host subnets, node IDs, annotations | handle node add/update/delete, sync at start | restart with allocations in annotations | subnets of nodes are disjoint |
| `clustermanager` (egress IP) | allocator of nodes, assignments, cloud requests | assign, reassign on node events, health checks | asynchronous cloud answers, unreachable nodes | an egress IP is on one node, on at most one per node |
| `clustermanager/egressservice`, zone and node parts | service to node, conntrack | allocate, reachability changes | work queues, node drain | one host per service |
| `ovn` pods, port cache | logical ports, `portCache` | add, delete with delayed removal | stateful sets use a name again | ports of live pods exist |
| `ovn` namespaces, network policies, address sets | policies with lifecycle flags, shared port groups, shared address sets | create, delete, local pod and peer handlers | handlers run under several locks, partial creation | ACLs stand for exactly the live policies |
| `ovn` egress IP, egress firewall, QoS, external gateways, admin policies | per feature caches | handlers of pods, namespaces, nodes | order of events of different types | configuration follows the objects |
| `ovn/controller/services` | load balancers, templates, node tracker | sync of a service, node changes | concurrent workers, start-up repair | load balancers follow services and endpoints |
| `ovn` zones, interconnect, node master | local zone nodes, chassis, ports | node add, update, delete | partial failure per step, retried per step | every node is set up once in the right zone |
| `node` gateway, OpenFlow, port claims | flow cache, ports | service handlers, periodic sync | concurrent flow updates | flows follow the cache |
| `node` routes, rules, links, iptables | desired state | add, delete, reconcile on netlink events | the kernel's state changes underneath | own state restored, others' untouched |
| `cni` | pod requests | ADD, DEL, wait for annotation and port | cancelled and repeated requests, sandboxes of the same pod | the latest sandbox wins |
| `network-attach-def-controller`, `network-controller-manager` | networks and controllers | add, update, delete of NADs | several NADs per network, start-up order | one controller per network in use |
| `informer` | work queue | reconcile | retries, deletes from the cache | every key is reconciled |
| `config`, `kube`, `util`, `libovsdb`, `metrics`, `ovndbmanager`, `hybrid-overlay`, `kubevirt` | – | parsing, API calls, commands | – | not modelled |

The interaction that carries the rest: the API server's watch fills an
informer's store and calls the federated handler; it enqueues the event in a
`queueMap`; a worker delivers it to the registered handlers under the informer's
read lock; a handler is normally a `RetryFramework`'s, which takes the object's
key lock (`syncmap`), calls the type's functions, and leaves a retry entry if
they fail; a loop retries the entries. Controllers ask each other's frameworks
for retries (a new node asks for its pods).

## Modules

| Module | Models | Source |
|---|---|---|
| `KeyedMutex` | abstract: one owner per key | – |
| `SyncMap` | the map with lockable keys | `syncmap/syncmap.go` |
| `SyncMapProofs` | proofs about `SyncMap` | – |
| `KeyedFIFO` | abstract: per object, events issued, started and finished in order | – |
| `QueueMap` | event queues of an informer | `factory/handler.go` |
| `QueueMapProofs` | proofs about `QueueMap` | – |
| `Informer` | handlers and delivery | `factory/handler.go`, `factory/factory.go` |
| `InformerProofs` | proofs about `Informer` | – |
| `RetryFramework` | event handlers, retry cache and loop | `retry/obj_retry.go`, `ovn/base_event_handler.go`, `ovn/base_network_controller.go` |
| `RetryFrameworkProofs` | proofs about `RetryFramework` | – |
| `Bitmap` | round robin bitmap, as operators | `allocator/bitmap/bitmap.go` |
| `PodAllocator` | IPs and tunnel IDs of the pods of a secondary network | `clustermanager/pod/allocator.go`, `allocator/pod/pod_annotation.go`, `allocator/id`, `allocator/ip/subnet`, `util/pod.go`, `clustermanager/network_cluster_controller.go` |
| `EgressIPCluster` | assignment of egress IPs to nodes | `clustermanager/egressip_controller.go`, `clustermanager/egressip_event_handler.go` |
| `NodeAllocator` | subnets, network IDs and node IDs of nodes | `clustermanager/node`, `clustermanager/network_cluster_controller.go`, `clustermanager/zone_cluster_controller.go`, `allocator/id` |
| `BitmapProofs` | proofs about `Bitmap` | – |
| `PodAllocatorProofs` | proofs about `PodAllocator` | – |
| `NodeAllocatorProofs` | proofs about `NodeAllocator`: types, allocators, deleted nodes keep nothing, annotations agree with the allocators once all is quiet | – |
| `EgressIPProofs` | proofs about `EgressIPCluster`: types, what an assignment may be | – |
| `MC*` | values of the constants for TLC | – |

The layers assume each other through their abstract specifications: `Informer`
delivers the events of an object in order and one at a time, which is what
`KeyedFIFO` says and `QueueMap` implements; the body of a handler in
`RetryFramework` is one step, because it runs under the key lock that
`KeyedMutex` says and `SyncMap` implements; `PodAllocator` handles the events of
a name in order and one at a time, and an update with the latest pod of the
cache, as `QueueMap` and `RetryFramework` have it. `EgressIPCluster` and
`NodeAllocator` each compose several goroutines and handlers with their own copy
of what a handler sees of the retry framework: the operations an event or a
retry leads to, an entry left by a failure, and the lock of the key that keeps
a retry and an event of one object apart. `Bitmap` is shared by `PodAllocator`
and `NodeAllocator`.

### SyncMap

A thread calls `LockKey`: a keyLock is made and locked (`LockKey`), the map's
mutex taken (`LockKeyLocksToLoad`), a lock found (`LoadKeyLock`) or the own one
stored (`StoreKeyLock`), and a found one waited for without the map's mutex
(`LockMutex`). `UnlockKey`, `DropRef`, `ReleaseMutex` are the three parts of
UnlockKey. keyLock objects are drawn from a heap `Locks`; one that nobody points
at may be handed out again, which is what the garbage collector does. `known`
remembers what a thread has read or written of the entry and exists for
`EntryStable` only.

### QueueMap

`GetQueueMapEntry` and `EnqueueEvent` are the two halves of enqueueEvent, which
only the informer's dispatcher (or, for initial adds, addHandler) calls;
`ProcessEvents`, `ReleaseQueueMapEntry` and `WorkerReturns` are a worker.
getNewQueueNum reads the lengths of channels that workers are draining:
`NewQueueNums` is the set of all results it can have, and the random start is
below `NumQueues - 1` as in the code. `issued`, `started` and `finished` record
the history and are the variables of `KeyedFIFO`.

### Informer

A handler is represented by `view`, the objects it was last told of. Adding one
holds the write lock from `LockAndList` to `Register`; delivery holds the read
lock from `RLock` to `RUnlock`, and calls the handlers in the order of their
priority, reversed for deletes. The tombstone is loaded (`CheckTombstone`)
before the call (`Call`). `CallsFor` combines the replacement of an object by
another uid (delete and add) with the filtering of client-go's
FilteringResourceEventHandler. A handler may start with something `Leftover` from
before a restart, which processExisting removes if its object is not listed; one
without a processExisting (`factory/factory.go:839`) is one that starts with nothing.

### RetryFramework

The informer's cache (`store`) changes at any time and queues events
(`pending`); they are handled in order, later. `GetLatest` is the read of the
cache that UpdateFunc does before it takes the key lock; everything under the
key lock is one step. Time is reduced to whether an entry's backoff has expired.
The type's AddResource, UpdateResource and DeleteResource lead to the object
being `held` under its key, or not; one that fails may have done its work or
not. What they do is therefore optimistic in one respect: an update reaches the
new object whatever the old one was. `gaveUp` and `failed` are history.

### PodAllocator

The API server keeps the versions of the pod of a name (`log[n]`, None for a
delete); the informer's cache has reached version `cached[n]` and the handlers
`handled[n]`, so that every pair of a late event and a cache ahead of it, or of
a cache behind the API server, occurs. Starting goes through `todo`: Sync
handles the listed pods one after the other, then each is added, then events are
delivered. `Ignore`, `ReleasePodOnNAD` and `AllocatePodOnNAD` are the three ways
reconcile goes; a call of AllocatePodAnnotationWithTunnelID then runs in steps
that calls for other names interleave with: the lister and the ID allocator
(`AssignID`, `AssignIDFails`, `GetFails`), one step per subnet (`AllocateIP`,
`ErrAllocated`, `AllocateNextIP`, `ErrFull`), the update (`UpdatePodStatus`,
`UpdateRefused`, `UpdateFails`, and `ReplyLost` for one that is stored although the
call fails) and `Rollback`, after which a conflict leads to a second try. A call of the ID allocator is one step although it takes several
locks: the name belongs to the pod, only the pod's own handler uses it, and the
bitmap is changed once. Releasing the IPs of several subnets is one step: each
release only adds to what others may take, from another bitmap each. Restart
forgets the allocators and lists the pods. `untimely` and `deviations` are
history: the first holds the pods annotated while not scheduled or completed, or
whose IPs are reserved after their release, and which the code loses until the pods
are deleted; the second says which events
have happened after which uniqueness is not to be expected, and each of them is
either a finding (Sync allocating or missing a pod, an ID found taken), a failed
call or a lost reply. UniqueIPs exempts lost replies altogether: the rollback gives
away IPs that the pod is annotated with (see Findings). NoIPLeak and IDsOfNames hold
in spite of them.

### EgressIPCluster

Goroutines are `thread`s: one per node and per EgressIP object for its event or
its retry, and the loop that probes nodes (`Loop`). Node events are handled one
after the other, and so are EgressIP events: the cluster manager's own watch factory
(`NewClusterManagerWatchFactory`) makes informers without event queues. In the mode
that runs all controllers in one process the node informer has queues
(`factory/factory.go:283`), so that events of two nodes may overlap there; that is not
covered. A retry waits for an event of the same object only (`NoOtherEvent`). A node's handler is `NodeLabel`,
`NodeAdded`, `NodeUpdated` and `NodeDeleted`: the setters of the allocator cache
(`SetNodeEgress...`), the probe and the jobs that follow (addEgressNode,
deleteEgressNode, reconcileNonOVNNetworkEIPs). A job lists the EgressIP objects
(`List`, `ListFails`) and calls reconcileEgressIP for those it concerns, with
the versions it listed. `Validate` takes egressIPAssignmentMutex, validates the
status and removes what is invalid from the cache; `Assign` allocates
(`AssignEgressIPs`: `AssignLoop` is the loop over the IPs, as a recursive function
of the number of turns, and `AssignOne` a turn; the order of the IPs, and of nodes
with equally many allocations, is any), `Keep` adds what is kept, and `Patch` or `PatchFails` replaces the status in the API server.
Between those steps others change the cache, because the setters do not take
the mutex. `CheckReachability` is one round of the loop. An egress IP is on the
primary network or on a network that an additional host address of a node
covers. `Restart` forgets the cache; nodes are added first (`initial`).

### NodeAllocator

The API server has a node and its resource version (`api`), the informer's cache
is behind it by the versions in `stream`, and events not handled yet are in
`queue`. One goroutine handles the events of all nodes: `Deliver` puts the calls
of all registered controllers on its `agenda`, in any order of the controllers.
`Start` registers a controller, which syncs with the listed nodes (`Sync`) and
adds them. A call of HandleAddUpdateNodeEvent checks the existing subnets one
by one (`CheckExisting`), allocates one per family that is missing
(`AllocateSubnet`, `SubnetsExhausted`), and reads and updates the node (`Get`,
`Update`, `UpdateFails`) or patches it (`Patch`, `PatchFails`, hybrid overlay
subnets and node IDs). What fails is tried again by `Retry`, concurrently with
events of other nodes. `pool` holds the ranges of all networks, with the owner
of every subnet, the start of the next search and the counter of subnets in use.

## Runs

| Run | Checks | Shows |
|---|---|---|
| `syncmap` | KeyExclusion, UnlockFindsKeyLock, KeyLockLifetime, EntryStable, LockKeyReturns, ImplementsKeyedMutex | 3 threads, 2 keys, 3 lock objects: two threads share or recreate the lock of a key while a third holds another |
| `queuemap` | OneQueuePerObject, RefcountIsInFlight, NoEntryLeak, DrainedOnShutdown, ImplementsKeyedFIFO, EventsHandled, WorkersReturn | 2 objects with up to 3 events each, 3 queues of capacity 2: full queues, moved entries, entries dropped and created again |
| `informer` | ConvergedWhenIdle, RemovedIsQuiet, AddAndRemoveEnd, EventuallyConverged | 2 handlers with different priorities, one filtered, 2 changes of an object in every position relative to listing, registration and removal |
| `retry` | ReconciledWhenSettled, ReleasedWhenGone, CompletedPodReleased, EventuallySettled | 4 kinds of types, 3 changes, 2 objects of one name, any call failing, attempts limited to 2, one request |
| `podalloc` | UniqueIPs, IDsOfNames, NoIPLeak, EventuallyAnnotated | layer 2 with and without subnets and localnet, two subnets, 2 names, up to 2 pods each, 3 changes by others, one of which may be a restart, one failed call, possibly of a stored update |
| `podalloc_sync`, `podalloc_tunnel` | UniqueIPsAfterSync, UniqueTunnelIDs (violated) | see Findings |
| `egressip` | OnUsableNodes, OnePerNode, ServedWhenSettled, AssignmentConstraints, EventuallySettled | 2 nodes, 1 or 2 EgressIP objects, an IP of the primary and one of a secondary network; 13 scenarios: labels, readiness, reachability or networks change, alone and, labels and readiness apart, together, while an EgressIP is updated, deleted and created again; nodes are replaced, with an API call failing; nodes join and are annotated later; next to a usable node, one that is not annotated, labelled or not, or has the egress IP as its address, is annotated, labelled, loses the address or is deleted; the controller is restarted |
| `egressip_gone_node`, `egressip_relabelled`, `egressip_withdrawn` | NotOnGoneNodes, OnReadyNodes, CacheInSync (violated) | see Findings |
| `nodealloc` | AllocatorsExact, AnnotationsAgree, NothingLeaked, EventuallySettled | 2 nodes, a network with two IPv4 ranges, one with a single IPv6 subnet, one without subnets, the zone controller, hybrid overlay; 9 scenarios: nodes join, compete for the last subnet, are annotated by others, deleted and created again, come with duplicate subnets and IDs, with an API failure or a restart |

Bounds. The number of threads, events and changes is what the shortest wrong
behaviour of each hazard needs plus one: three threads are a holder, a waiter
and a newcomer; a third event arrives while the first is handled and the second
waits; three changes in `retry` are a create, a delete and a create of the same
name, or an update or a completion between two of them. In `podalloc` the second subnet has two IPs to the first one's three, so
that it is full when the first is not, and three changes are a creation and two
more of a creation, an update, a completion, a deletion and a restart (restarts
count as changes); a pod allocated for twice from a stale cache takes an IP more.
The invariants of both runs are proved for any number of changes. `EgressIPCluster` and `NodeAllocator` start in scenarios: each
gives the objects that exist, what may change and how often, so that up to four
changes go into one hazard at a time instead of all at once. Two nodes are one
that loses an egress IP or a subnet and one that gets it. A node ID is below 5,
the first two being reserved, and an update is tried twice where the code tries
more often: a conflict followed by a conflict. With hybrid overlay the versions
of a node are bounded (`MaxVersions`), because two values may alternate. One key is enough for `RetryFramework` and for `Informer`, whose state is
per key except for the locks, the loop's pass and the handler set. Deadlock is
not checked where changes are bounded and the system may come to rest.

Fairness. Goroutines that can go on do. A `sync.Mutex` passes to a waiter that
has waited for a millisecond and a waiting writer of a `sync.RWMutex` holds back
new readers, which is strong fairness of the steps that take a lock. In `EgressIPCluster` and `NodeAllocator` weak fairness of
`System` says less: while some goroutine can take a step, one of them eventually
does. Handler
functions return. The watch brings every change to the cache. The retry loop's ticker fires, and backoffs expire. No
fairness is assumed of the API server: objects need not change.

## Findings

* `podalloc_sync`: when the cluster manager starts, a scheduled pod without an
  annotation that is listed before an annotated one may be given the other's IP,
  because Sync allocates as it goes along; the other's reservation then fails
  with ErrAllocated, which is ignored (`clustermanager/pod/allocator.go:115`).
* `podalloc_tunnel`: an event handled from a cache that does not have the pod's
  annotation yet gets the pod's own tunnel ID from the ID allocator, conflicts,
  and releases it on roll back; another pod is annotated with the same ID before
  the pod's update event reserves it again (`allocator/pod/pod_annotation.go:221`).
  IPs do not suffer from this: the second attempt takes fresh ones.
* `egressip_gone_node`: a node that is unlabelled and deleted in quick succession
  keeps the egress IPs it has: the update is skipped, because the node is no
  longer in the cache, and the delete moves the egress IPs of labelled nodes only
  (`clustermanager/egressip_event_handler.go:169`).
* `egressip_relabelled`: the events of a node without the label are ignored, so the
  cache goes on saying that it is ready and reachable when it is not any more. When
  it is labelled again it is assignable by the old flags until they are corrected
  (`clustermanager/egressip_event_handler.go:102`, `:111`); an EgressIP reconciled in
  that time is assigned to it, and the branch of a node that has just been labelled
  and is not ready only logs a warning, so the egress IP stays there.
* `egressip_withdrawn`: reconcileEgressIP puts assignments in the cache before it
  patches the status, and leaves them there when the patch fails
  (`clustermanager/egressip_controller.go:1012`). When the EgressIP has been deleted
  meanwhile, its delete event reconciles a status without them: nothing takes them
  out, no other EgressIP can have the IP, and a new one of the same name is refused
  the node.

The last two were found when the properties of `EgressIPCluster` were to be proved:
no inductive invariant could be found for them as they were, because they held only
in scenarios in which nodes changed in one respect at a time. The scenarios mix
changes now; OnUsableNodes says what holds without a change of labels and readiness
in one behaviour, and ServedWhenSettled what holds while the cache and the statuses
agree (`Synchronized`) and no node out of use has ruled the IP out.

Other things met while modelling, without a run of their own. The models follow
the code in each of them, and the properties say where they exempt it:

* An update event that finds an entry marked for deletion deletes the old object
  and configures the latest one without asking whether it is completed
  (`retry/obj_retry.go:619`); terminated objects are remembered by name, so that a
  later object of the name may have its delete ignored (`:721`).
* UpdatePodWithRetryOrRollback rolls back after any error of the update
  (`util/pod.go:49`), also when the API server has stored it and only the reply was
  lost. IPs that the pod is annotated with are then free until its own update event
  reserves them again; a pod that is allocated to in between gets the same ones. TLC
  finds two running pods with one IP within the bounds of `podalloc` when UniqueIPs
  does not exempt it.
* assignEgressIPs gives up, without an error, when the host addresses of any node of
  the cluster are not known or contain the egress IP
  (`clustermanager/egressip_controller.go:1183`, `:1385`). The end of such a conflict
  leads to a reconciliation only if that node is in use: the update of a node without
  the label returns first (`clustermanager/egressip_event_handler.go:99`), and when a
  node is deleted only EgressIP objects with a status on it are reconciled. The
  EgressIP then stays unassigned next to a usable node until something else touches
  it. ServedWhenSettled therefore asks that every node that may have ruled the IP out
  (`RuledOutBy`) is in use; without that condition TLC finds this in each of the three
  scenarios of `Beside`.
* Errors of allocating to a pod are logged with "will try again later" and dropped
  (`clustermanager/network_cluster_controller.go:244`).
* A node that is added at start-up and again by its own event, from a cache that
  has not got the annotation yet, gets a second subnet, which replaces the first
  (`clustermanager/node/node_allocator.go:187`).
* With hybrid overlay, Sync releases the subnets it is to mark (`:261`, `:267`),
  and the subnet of a deleted node stays allocated.
* Two EgressIP objects that ask for one IP may both have it after a restart; the
  probe loop does not repeat what failed (`clustermanager/egressip_controller.go:626`).

## Proofs

`SyncMapProofs` proves for any finite set of threads and any keys that the
inductive invariant `IndInv` of `SyncMap` holds. KeyExclusion alone is not
inductive: it needs that a lock belongs to one key (`CounterInv`), that a lock
not stored yet is seen by its creator alone (`PrivateInv`), that a referrer's key
still has its lock (`PointsToInv`, which rests on the counter being the
cardinality of the referrers, so that it is zero only without any), and that a
locked mutex has one holder (`HolderInv`). From it follow `Exclusion`,
`UnlockSafe`, `Lifetime`, `Stability`, and `Refinement`: every step is a step of
`KeyedMutex` or leaves the owners alone.

`QueueMapProofs` proves for any number of objects, at least two queues and any
capacity that `IndInv` of `QueueMap` holds: every event in a channel is in the
queue its object's entry names (`QueuedInv`), the events of an object are in
order (`OrderInv`), none between the last started and the last issued is missing
(`PresentInv`), and the entry counts exactly the unhandled ones
(`RefcountIsInFlight`), so an entry is moved or dropped only when there is none.
`Serialized`, `RefcountExact`, `EntriesReclaimed`, `Drained` and `Refinement`
follow; the refinement needs `OrderInv` and `PresentInv` to show that the event
taken from a channel is the object's next one.

`InformerProofs` proves for any number of objects, handlers, changes, additions
and removals that `IndInv` of `Informer` holds, and with it `TypeCorrect`
(TypeOK), `Convergence` (ConvergedWhenIdle) and `Quiet` (RemovedIsQuiet).
ConvergedWhenIdle speaks of an idle object only, so the invariant has to say what
a handler knows while events are on their way. The undelivered events of an object
are a chain: each begins where the one before it ended and the last ends with what
is stored (`ChainInv`). What a registered handler knows is what it should know in
one of the states of that chain (`OnTheWay`: it may be behind, or ahead because it
was added after the change), or it is still to be told of the event being
delivered, or is being told (`Informed`). The calls left in a delivery lead the
handler to the new state (`CallsLead`), and what a handler that is being added was
listed lies on the chain, too (`AddInv`); that no event is delivered while one is
added is the lock (`LockInv`). When nothing is pending the chain is the stored
state alone.

`RetryFrameworkProofs` proves for any number of objects, any types and any number
of changes, failures, retries and requests that `IndInv` of `RetryFramework` holds,
and with it `TypeCorrect` (TypeOK), `Reconciled` (ReconciledWhenSettled), `Released`
(ReleasedWhenGone) and `CompletedReleased` (CompletedPodReleased). Again the events
not handled yet are a chain up to the cached object. `CoveredInv` says why an
object is not forgotten: without a retry entry, one of the states of the chain is
configured already or needs nothing to be added, and an entry that adds nothing is
due to a state in which the object does not run. `GoneInv` is the counterpart for
objects that are gone: what is configured is removed, or an entry has the object
to delete. Pods need more, because the cached pod may have completed or gone before
its events say so and because a handler of a completed pod does nothing the second
time: `PodLife` follows a pod that no failure, request or replacement disturbs from
its creation to its end, and `QuietInv` says that such a run has no entries.
TLC has checked both invariants on the instances of `informer` and `retry`.

`PodAllocatorProofs` proves for any number of names, pods, subnets, IPs and IDs
that `IndInv` of `PodAllocator` holds, and with it `TypeCorrect` (TypeOK) and
`IDsApart` (IDsOfNames). The search of the bitmap is shown to find a free offset
from the well-foundedness of the naturals (`AllocateBitIsFree` in `BitmapProofs`), and each
operation of the ID allocator to keep the IDs of the names apart
(`AllocateIDKeeps`, `ReserveIDKeeps`, `ReleaseIDKeeps`). That they are called with
a pod's own name, and a reservation with an ID in range, is what the rest of the
invariant is for: a call is for a pod of an event not handled yet and its copy is
a version of the log (`CallOK`), and an annotation has an IP of every subnet
(`AnnotatedInv`). TLC has checked `IndInv` on instances of
`podalloc`. Note what IDsOfNames does not say: the ID a name has need not be
the one its pod is annotated with (finding `podalloc_tunnel`).

The same module proves `NoLeak` (NoIPLeak) and `Uniqueness` (UniqueIPs). Both rest
on `CoreInv` (theorem `Accounting`), which adds to the types
- `VersionsInv`: pods of a name come one after the other with a deletion between
  two, and a pod stays annotated as it is and completed;
- `UntimelyInv`: a pod annotated before it was scheduled or once it was completed
  is noted in `untimely`;
- `ProgressInv`: Sync calls come one at a time and before all others, a released
  pod is completed, a completed pod whose event was handled is released or
  deleted later on, and what a call has reserved is its copy's annotation;
- `LeakInv`: every allocated IP is excluded, held by a pod whose release is still
  to come (`Holds`), in the hands of a call, or of an untimely pod.
At rest no call has anything and what is held is the latest version's, which gives
NoIPLeak. Uniqueness needs `UniqueInv` in addition: owners (pods that hold IPs, or
whose IPs Sync is still to reserve) have different IPs, which are in the bitmap
once Sync has been through; the IPs of a call are in the bitmap and nobody else's;
and Sync finds the pod that it has listed. It holds as long as no stored update has
failed (`Sound`): the rollback after a lost reply frees an owner's IPs. NoIPLeak does
not need that, because what is freed is lost to nobody. Neither is inductive alone: that a
release or a rollback frees nobody else's IP needs the owners to be apart, and that
Sync finds no IP taken needs the account of LeakInv. The proofs showed that
`untimely` was noted a step too early: a pod can be released between the
handler's decision to allocate and the call's reading of it from the lister, so
that AssignID notes it, with what Sync misses. TLC has checked both invariants on
the instance of `podalloc` and on two others.

`NodeAllocatorProofs` proves for any number of nodes, networks, ranges and IDs,
any scenario and any bound that `IndInv` of `NodeAllocator` holds, and with it
`TypeCorrect` (TypeOK) and `Exactness` (AllocatorsExact). Each operation of the
subnet allocator changes a counter by the cardinality of what it marks or frees
(`MarkKeeps`, `ReleaseKeeps`; there are finitely many subnets, `SubnetFinite`),
and a search starts within its range afterwards (`AllocateKeeps`, `FullKeeps`);
each operation of the ID allocator keeps the IDs of nodes apart (`GiveID`,
`ReleaseIDKeeps`). The rest of the invariant (`ThreadOK`) is what the steps of a
call rely on: the call that is no retry is the one at the head of the agenda, so
that its return takes its own work off; a retry has an entry whose counter can be
increased; an update writes a copy that was read, for a network. TLC has checked
`IndInv` on the instance of `nodealloc`.

The second part of the module proves `NoLeak` (NothingLeaked). Only the handling
of a deletion is sure to release what a controller has for a node, so the invariant
`LeakInv` (`DeletionsReachOwners`) says that whoever has a subnet or an ID for a
node, or is in a call that may allocate one, will still handle a deletion if the
node is gone (`Due`): the node is in the cache, or a deletion is queued, or it is
among the calls of the goroutine of events. It is inductive together with the same
statement one stage earlier for each stage: a node that is gone from the API server
but cached has its deletion in the stream, the last event of a node that is not
cached is its deletion, and every call of the agenda is followed by one
(`StreamInv`, `QueueInv`, `AgendaInv`). The call of an event is no deletion
(`ThreadInv`), so its return takes none off the agenda; and a deletion handled by
one controller releases only what that controller answers for (`OwnersInv` names
it for every subnet; this proof does not use that networks have ranges of their own,
the next one does). A retry that
starts after the deletion was handled would break the invariant; it does not,
because it reads the node from the cache first. TLC has checked `LeakInv` on the
instance of `nodealloc`.

The last part of `NodeAllocatorProofs` builds on both and proves `Agreement` (AnnotationsAgree): at rest,
the annotations a controller answers for are what it holds for the node. A controller
writes an annotation from a cached copy, and ignores events that show it no change
in its own annotation, so an old copy or a stale retry can leave a node that differs
from the allocators for a while; the claim is that an event that puts it right is
then always on its way. The invariant `AgreeInv` says so with `Ahead(c, n)`, the
states of node n that controller c is still to see: the cache's, those in the stream,
and the old ones of the events that are queued or on the agenda. A controller that
is started, has nothing to do for the node and has not given it up has a state ahead
that it can accept as it is (`Good`), or two states ahead that it can tell apart, so
that one of the events between them is not ignored (`Agrees`). A call that is running
works on a node that is ahead, with subnets that are the node's, and holds a copy that
its version tells apart (`Works`). This is `PairsInv`, one statement per controller and
node. It rests on what is known of each stage that an event passes through: the
versions that are cached or in the stream come one after the other and the latest is
the API server's (`VersionsInv`); where one queued event of a node ends the next one
starts, or the cache is there (`EventsInv`); a controller that syncs is idle and will
add the nodes it syncs with (`SyncInv`). At rest only the API server's state is ahead,
which therefore agrees (`RestAgrees`). TLC has checked `AgreeInv` on the instance of
`nodealloc` and on another one. The attempt to prove it showed that `NextStep` was a
CASE with overlapping guards, of which TLA+ does not say which one is taken (it is an
IF now, in the order of the code), and that the constant for nil must not be a number,
or a failed attempt's counter may be taken for no entry.

`EgressIPProofs` proves for any number of nodes, EgressIP objects, IPs and addresses,
any scenario and any bound `TypeCorrect` (TypeOK) and `Assignments`
(AssignmentConstraints). The inductive invariant is `TypeInv`. TypeOK alone is not
inductive, because the handlers look into the objects they are called with: an add
without an object, or a delete of none, would set flags to anything. So `TypeInv`
follows the versions of an object from the API server to its handler (`VersionsOK`:
of two versions that follow one another one is an object, and the last one is the
API server's), says which calls the retry framework makes (`OpOf`), that an entry
holds versions of its own object (`EntryOf`), and that a thread that runs has a call,
one that lists has a job and one that reconciles has an EgressIP (`ThreadOK`). TLC
has checked it on the instance of `egressip`. What assignEgressIPs does is an
invariant of its loop (`LoopInv`), kept by every turn (`LoopTurns`): the cache is the
one it started with plus the assignments made so far, and every one of them is
recorded for this EgressIP from before, or new, the only one on its node and of an IP
nobody had (`ItemOK`). The induction over the turns is done with a least
counterexample (`InductionOn`, from the well-foundedness of the naturals), and that
the recursive function exists is proved first (`LoopExists`). `AssignmentSound` is
the result for the whole function, and `Assignments` follows because no other step
leads a thread from "assign" to "keep" (`ConstraintsStep`).

The type invariants of `SyncMap` and `QueueMap` are theorems, too (`TypeCorrect`);
that of `SyncMap` is left to its proof, and no run checks it.

Assumptions are the named ASSUMEs of the modules: finite threads, at least two
queues (getNewQueueNum calls Intn(n-1), which needs it), pools of at least one
offset, excluded offsets in range, at least one try, natural bounds, nil distinct
from everything else, finitely many nodes, networks and ranges, ranges of at least
one subnet, two reserved node IDs in range; and in `NodeAllocator` nil is no number,
every network and the hybrid overlay has an allocator with ranges of its own
(`PoolsApart`), and the hybrid overlay has ranges, of IPv4 only (`HybridRanges`:
node_allocator.go:129 asks for IPv4 alone, and 134 uses the first subnet it gets);
in `EgressIPCluster` nodes and IPs are finitely many, nodes, EgressIP objects and the
probe loop have different names, and the networks of further addresses hold no IP of
the primary one.

Only model-checked: liveness (LockKeyReturns, EventsHandled, WorkersReturn,
AddAndRemoveEnd, EventuallyConverged, EventuallySettled, EventuallyAnnotated), which
needs fairness and ENABLED; and OnUsableNodes, OnePerNode and ServedWhenSettled of
`EgressIPCluster`. These say what is so when everything has come to rest. Before that,
a status that is wrong may be put right by an event, by a retry, by a job that has
listed the object or is going to, or by a thread that holds an old version of it, and
may be made wrong again by another one; an invariant has to say of every status which
of these is to come and that none that follows undoes it.

## Not modelled

The construction of informers and listers, metrics, events and logs; errors of
looking up an object's key, which cannot happen for the registered types; time
other than expired or not; the types' own functions. Of the pod allocator: IPs
and MACs requested by the pod, several attachments of a pod to one network,
annotations written without a tunnel ID by earlier versions, and relists of the informer that skip versions. Of egress IPs: public
clouds (CloudPrivateIPConfig objects and the nodes' capacity), IP families, specs
with unparsable IPs, the health check protocol, and the zones' part. Of nodes: the
Cleanup of a deleted network, the NetworkUnavailable condition, the addresses
derived from node IDs, and a zone controller that does not start because there is
no ID left. Components that are listed
as not modelled in PROJECT.json are either planned, or parsing, I/O and generated
code.

## Plan

1. Done: `SyncMap`, `QueueMap`, `Informer`, `RetryFramework`, `Bitmap`,
   `PodAllocator`, `EgressIPCluster` (bare metal), `NodeAllocator`, and the proofs
   about `SyncMap`, `QueueMap`, `Informer`, `RetryFramework`, `PodAllocator`,
   `NodeAllocator` and the assignment of egress IPs.
2. Allocators: replacement and deletion of subnets and conditional release, as the
   zones' controllers use them (`ovn/logical_switch_manager`); requested IPs in
   `PodAllocator`; an abstract specification of allocation from
   a pool that both implement.
3. Cluster manager: egress IPs with the requests and answers of clouds; egress
   services.
4. Network policies with shared port groups and address sets; port cache and
   pods; namespaces.
5. Services controller; zones and interconnect; NAD controller and network
   controller manager.
6. Node: OpenFlow cache, port claims, route, rule and link managers, CNI
   requests.
7. Proofs: of `EgressIPCluster` what holds at rest (OnePerNode, OnUsableNodes,
   ServedWhenSettled).
