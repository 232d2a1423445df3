--------------------------- MODULE NodeAllocator ---------------------------
(***************************************************************************)
(* Subnets, network IDs and node IDs of nodes, as the cluster manager      *)
(* hands them out (go-controller/pkg/clustermanager: node/node_allocator,  *)
(* node/subnet_allocator, network_cluster_controller and                   *)
(* zone_cluster_controller).  A network controller per network and the     *)
(* zone controller record what they allocate in the annotations of one and *)
(* the same node object.                                                   *)
(*                                                                         *)
(* The events of all nodes are handled by one goroutine, for one handler   *)
(* after the other; what failed is retried by a goroutine of its own,      *)
(* under the lock of the node's key in the retry framework.  The cache of  *)
(* the informer, which the events, the retries and the updates read, is    *)
(* behind the API server.  Subnets and network IDs are written with an     *)
(* update, which the API server refuses when the copy is not the latest;   *)
(* node IDs and hybrid overlay subnets with a patch.                       *)
(*                                                                         *)
(* Not covered: Cleanup of a deleted network, the NetworkUnavailable       *)
(* condition, and the addresses derived from a node ID.                    *)
(***************************************************************************)
EXTENDS Bitmap, FiniteSets, SequencesExt

CONSTANTS Nodes,              \* names of nodes
          Nets,               \* networks with node subnets
          Default,            \* the default network, one of them
          Zone,               \* the zone controller
          Hybrid,             \* the pool of the hybrid overlay
          Ranges,             \* network ranges
          IPv4,               \* the ranges that are IPv4, the others are IPv6
          Size,               \* Size[r]: how many subnets range r has
          V4Ranges, V6Ranges, \* the ranges of every network and of Hybrid, in order
          MaxID,              \* node IDs are below it
          Scenarios,          \* how a behaviour starts and what may happen in it
          Attempts,           \* how often an update is tried on conflicts
          MaxFailedAttempts,  \* failures after which a retry entry is dropped
          MaxVersions,        \* bound on the versions of a node with a hybrid overlay subnet
          None                \* nil

Pools == Nets \cup {Hybrid}

Controllers == Nets \cup {Zone}

Subnet == UNION {[range : {r}, index : 0 .. Size[r] - 1] : r \in Ranges}

ASSUME SetsFinite == IsFiniteSet(Nodes) /\ IsFiniteSet(Nets) /\ IsFiniteSet(Ranges)

ASSUME ConstantsTyped ==
    /\ Default \in Nets /\ Zone \notin Nets /\ Hybrid \notin Nets
    /\ Size \in [Ranges -> Nat \ {0}] /\ IPv4 \subseteq Ranges
    /\ V4Ranges \in [Pools -> Seq(IPv4)] /\ V6Ranges \in [Pools -> Seq(Ranges \ IPv4)]
    /\ MaxID \in Nat /\ MaxID >= 2 /\ Attempts \in Nat \ {0} /\ MaxFailedAttempts \in Nat /\ MaxVersions \in Nat
    /\ None \notin Nodes \cup Controllers \cup Nat

\* Every network, and the hybrid overlay, has an allocator of its own.
ASSUME PoolsApart ==
    \A p, q \in Pools : p # q =>
        (ToSet(V4Ranges[p]) \cup ToSet(V6Ranges[p])) \cap (ToSet(V4Ranges[q]) \cup ToSet(V6Ranges[q])) = {}

\* The hybrid overlay is IPv4 only and has ranges.
ASSUME HybridRanges == V4Ranges[Hybrid] # <<>> /\ V6Ranges[Hybrid] = <<>>

\* A node: whether it is selected as one without a host subnet, and its
\* annotations, with one that others write.
NodeObject == [noHostSubnet : BOOLEAN, subnets : [Nets -> SUBSET Subnet], hybrid : SUBSET Subnet,
               networkIDs : SUBSET Nets, id : (0 .. MaxID - 1) \cup {None}, other : BOOLEAN]

\* A behaviour starts with these nodes and a cluster manager that starts these
\* controllers; nodes of these names change, and are created in one of these
\* forms.  The bounds are on the changes made by others, on failures of the API
\* server and on restarts.
Scenario == [nodes : [Nodes -> NodeObject \cup {None}], controllers : SUBSET Controllers,
             names : SUBSET Nodes, forms : SUBSET NodeObject, hybrid : BOOLEAN,
             MaxChanges : Nat, MaxFailures : Nat, MaxRestarts : Nat]

ASSUME ScenariosTyped == Scenarios \subseteq Scenario

Version == [obj : NodeObject \cup {None}, rv : Nat]

VARIABLES scenario,
          api,       \* api[n]: the node and its resource version in the API server
          stream,    \* the versions the informer has not received yet
          cached,    \* cached[n]: the node in the informer's cache
          queue,     \* events to be handled
          agenda,    \* calls the goroutine of events still has to make
          started,   \* controllers whose handler is registered
          entry,     \* entry[c][n]: failed attempts in c's retry entry of n, or None
          pool,      \* the subnet allocators of the networks
          ids,       \* the node ID allocator
          thread,    \* thread[c][n]: the call of c for node n, with its local variables
          dropped,   \* retry entries dropped after MaxFailedAttempts
          changes, failures, restarts

vars == <<scenario, api, stream, cached, queue, agenda, started, entry, pool, ids, thread, dropped,
          changes, failures, restarts>>

Idle == [pc |-> "idle", retry |-> FALSE, node |-> None, todo |-> {}, kept |-> {}, allocated |-> {},
         copy |-> None, tries |-> 0]

-----------------------------------------------------------------------------
(***************************************************************************)
(* The subnet allocators.  All of them are in one value: the owner of      *)
(* every subnet, and where the next search starts in a range and how many  *)
(* subnets are in use.                                                     *)
(***************************************************************************)

NewPool == [alloc |-> [s \in Subnet |-> None], next |-> [r \in Ranges |-> 0], used |-> [r \in Ranges |-> 0]]

InPool(p, s) == s.range \in ToSet(V4Ranges[p]) \cup ToSet(V6Ranges[p])

\* MarkAllocatedNetworks, for one subnet.
CanMark(pl, p, owner, s) == InPool(p, s) /\ pl.alloc[s] \in {None, owner}

MarkNetworks(pl, owner, nets) ==
    [pl EXCEPT !.alloc = [s \in Subnet |-> IF s \in nets THEN owner ELSE @[s]],
               !.used = [r \in Ranges |-> @[r] + Cardinality({s \in nets : s.range = r /\ pl.alloc[s] = None})]]

\* Mutant: another node's subnets are released, too.
ReleaseNetworksOfAny(pl, p, owner, nets) ==
    LET gone == {s \in nets : InPool(p, s) /\ pl.alloc[s] # None}
    IN  [pl EXCEPT !.alloc = [s \in Subnet |-> IF s \in gone THEN None ELSE @[s]],
                   !.used = [r \in Ranges |-> @[r] - Cardinality({s \in gone : s.range = r})]]

\* ReleaseNetworks: those of the subnets that are the owner's.
ReleaseNetworks(pl, p, owner, nets) ==
    LET gone == {s \in nets : InPool(p, s) /\ pl.alloc[s] = owner}
    IN  [pl EXCEPT !.alloc = [s \in Subnet |-> IF s \in gone THEN None ELSE @[s]],
                   !.used = [r \in Ranges |-> @[r] - Cardinality({s \in gone : s.range = r})]]

\* Mutant: the counter is decremented once.
ReleaseAllNetworksOnce(pl, p, owner) ==
    LET gone == {s \in Subnet : InPool(p, s) /\ pl.alloc[s] = owner}
    IN  [pl EXCEPT !.alloc = [s \in Subnet |-> IF s \in gone THEN None ELSE @[s]],
                   !.used = [r \in Ranges |-> IF \E s \in gone : s.range = r THEN @[r] - 1 ELSE @[r]]]

ReleaseAllNetworks(pl, p, owner) == ReleaseNetworks(pl, p, owner, Subnet)

Free(pl, r) == {s \in Subnet : s.range = r /\ pl.alloc[s] = None}

\* allocateNetwork: the first free subnet of a range from next on, wrapping round.
NextFree(pl, r) ==
    {s \in Free(pl, r) : \A t \in Free(pl, r) :
        (s.index - pl.next[r]) % Size[r] <= (t.index - pl.next[r]) % Size[r]}

\* AllocateIPv4Network and AllocateIPv6Network: the subnet that is taken is one
\* of the first range that is not full.  There is none if all are full.
NextSubnet(pl, ranges) ==
    UNION {NextFree(pl, ranges[k]) : k \in {i \in DOMAIN ranges : \A j \in 1 .. i - 1 : Free(pl, ranges[j]) = {}}}

\* Mutant: the next search starts one too far.
AllocateNetworkTwoOn(pl, ranges, owner, s) ==
    [MarkNetworks(pl, owner, {s}) EXCEPT !.next[s.range] = s.index + 2]

\* The search in a full range leaves its next at 0.
AllocateNetwork(pl, ranges, owner, s) ==
    LET full == {ranges[i] : i \in {j \in DOMAIN ranges : \A k \in 1 .. j : Free(pl, ranges[k]) = {}}}
    IN  [MarkNetworks(pl, owner, {s}) EXCEPT
            !.next = [r \in Ranges |-> IF r = s.range THEN s.index + 1
                                       ELSE IF r \in full THEN 0 ELSE @[r]]]

RangesFull(pl, ranges) ==
    [pl EXCEPT !.next = [r \in Ranges |-> IF r \in ToSet(ranges) THEN 0 ELSE @[r]]]

-----------------------------------------------------------------------------
(***************************************************************************)
(* The node ID allocator: IDs 0 and 1 are reserved.                        *)
(***************************************************************************)

NewIDs == [map |-> NewBitmap({0, 1}), of |-> [n \in Nodes |-> None]]

CanAllocateID(a, n) == a.of[n] # None \/ ~Full(a.map, MaxID)

\* AllocateID: the name keeps the ID it has.
AllocateID(a, n) ==
    IF a.of[n] # None THEN a
    ELSE [map |-> AllocateNext(a.map, MaxID), of |-> [a.of EXCEPT ![n] = AllocateBit(a.map, MaxID)]]

\* ReserveID.
CanReserveID(a, n, id) == a.of[n] = id \/ (a.of[n] = None /\ id \notin a.map.allocated)

ReserveID(a, n, id) ==
    IF a.of[n] = id THEN a ELSE [map |-> Allocate(a.map, id), of |-> [a.of EXCEPT ![n] = id]]

ReleaseID(a, n) ==
    IF a.of[n] = None THEN a ELSE [map |-> Release(a.map, a.of[n]), of |-> [a.of EXCEPT ![n] = None]]

-----------------------------------------------------------------------------
(***************************************************************************)
(* The API server, the informer and the goroutine of events.               *)
(***************************************************************************)

\* The node is stored with a new resource version, unless nothing changes.
Store(n, obj) ==
    IF obj = api[n].obj THEN UNCHANGED <<api, stream>>
    ELSE LET v == [obj |-> obj, rv |-> api[n].rv + 1]
         IN  /\ api' = [api EXCEPT ![n] = v]
             /\ stream' = Append(stream, [node |-> n, ver |-> v])

Change == changes < scenario.MaxChanges /\ changes' = changes + 1

ProcessVars == <<cached, queue, agenda, started, entry, pool, ids, thread, dropped>>

CreateNode(n) ==
    /\ Change /\ api[n].obj = None
    /\ \E obj \in scenario.forms : Store(n, obj)
    /\ UNCHANGED <<scenario, failures, restarts, ProcessVars>>

DeleteNode(n) ==
    /\ Change /\ api[n].obj # None
    /\ Store(n, None)
    /\ UNCHANGED <<scenario, failures, restarts, ProcessVars>>

\* Someone else writes an annotation.
AnnotateNode(n) ==
    /\ Change /\ api[n].obj # None
    /\ Store(n, [api[n].obj EXCEPT !.other = ~@])
    /\ UNCHANGED <<scenario, failures, restarts, ProcessVars>>

APIFails == failures < scenario.MaxFailures /\ failures' = failures + 1

Watch ==
    /\ stream # <<>>
    /\ LET n == Head(stream).node
           v == Head(stream).ver
       IN  /\ cached' = [cached EXCEPT ![n] = v]
           /\ queue' = Append(queue, [node |-> n, old |-> cached[n].obj, new |-> v.obj])
    /\ stream' = Tail(stream)
    /\ UNCHANGED <<scenario, api, agenda, started, entry, pool, ids, thread, dropped, changes, failures, restarts>>

\* An event is given to the registered handlers, in any order.
Deliver ==
    /\ agenda = <<>> /\ queue # <<>>
    /\ \E order \in SetToSeqs(started) :
           agenda' = [i \in 1 .. Len(order) |-> [op |-> "event", ctrl |-> order[i], node |-> Head(queue).node,
                                              old |-> Head(queue).old, new |-> Head(queue).new]]
    /\ queue' = Tail(queue)
    /\ UNCHANGED <<scenario, api, stream, cached, started, entry, pool, ids, thread, dropped, changes, failures, restarts>>

\* Sync of a node allocator, for one node: all of its subnets are marked, or none.
SyncNode(pl, c, n, node) ==
    CASE node.noHostSubnet -> IF scenario.hybrid /\ c = Default THEN ReleaseNetworks(pl, Hybrid, n, node.hybrid) ELSE pl
      [] OTHER -> IF \A s \in node.subnets[c] : CanMark(pl, c, n, s) THEN MarkNetworks(pl, n, node.subnets[c]) ELSE pl

\* syncNodeIDs: the IDs that nodes are annotated with are reserved ...
SyncNodeID(a, n, node) ==
    IF node.id # None /\ CanReserveID(a, n, node.id) THEN ReserveID(a, n, node.id) ELSE a

\* ... and those that are taken are replaced afterwards.  (With no ID left the
\* controller would not start.)
ReplaceNodeID(a, n, node) ==
    IF node.id # None /\ a.of[n] # node.id /\ CanAllocateID(a, n) THEN AllocateID(a, n) ELSE a

\* A controller starts: it syncs with the nodes the informer lists and then adds
\* them, one after the other; no event is handled meanwhile.
Start(c) ==
    /\ c \in scenario.controllers \ started /\ agenda = <<>>
    /\ started' = started \cup {c}
    /\ \E order \in SetToSeqs({n \in Nodes : cached[n].obj # None}) :
           LET calls(op) == [i \in 1 .. Len(order) |-> [op |-> op, ctrl |-> c, node |-> order[i],
                                                       old |-> None, new |-> cached[order[i]].obj]]
           IN  agenda' = calls("sync") \o (IF c = Zone THEN calls("replace") ELSE <<>>) \o calls("event")
    /\ UNCHANGED <<scenario, api, stream, cached, queue, entry, pool, ids, thread, dropped, changes, failures, restarts>>

Sync ==
    /\ agenda # <<>> /\ Head(agenda).op \in {"sync", "replace"}
    /\ LET w == Head(agenda)
       IN  IF w.ctrl = Zone
           THEN /\ ids' = IF w.op = "sync" THEN SyncNodeID(ids, w.node, w.new) ELSE ReplaceNodeID(ids, w.node, w.new)
                /\ UNCHANGED pool
           ELSE pool' = SyncNode(pool, w.ctrl, w.node, w.new) /\ UNCHANGED ids
    /\ agenda' = Tail(agenda)
    /\ UNCHANGED <<scenario, api, stream, cached, queue, started, entry, thread, dropped, changes, failures, restarts>>

-----------------------------------------------------------------------------
(***************************************************************************)
(* HandleAddUpdateNodeEvent of a node allocator and                        *)
(* handleAddUpdateNodeEvent of the zone controller.                        *)
(***************************************************************************)

\* A call has returned.  A failed one is entered in the retry cache.
Returned(c, n, err) ==
    /\ thread' = [thread EXCEPT ![c][n] = Idle]
    /\ entry' = [entry EXCEPT ![c][n] = IF ~err THEN None ELSE IF thread[c][n].retry THEN @ + 1 ELSE 1]
    /\ agenda' = IF thread[c][n].retry THEN agenda ELSE Tail(agenda)
    /\ dropped' = IF err THEN dropped ELSE dropped \ {<<c, n>>}

PoolOf(c, node) == IF node.noHostSubnet THEN Hybrid ELSE c

Existing(c, node) == IF node.noHostSubnet THEN node.hybrid ELSE node.subnets[c]

\* The families of the pool of which the node has no subnet yet, as their
\* ranges; IPv4 is next if it is missing.
Missing(c, th) ==
    LET has(v4) == \E s \in th.kept \cup th.allocated : (s.range \in IPv4) = v4
        p       == PoolOf(c, th.node)
        v4      == {V4Ranges[p]} \ {<<>>}
    IN  IF v4 # {} /\ ~has(TRUE) THEN v4
        ELSE IF has(FALSE) THEN {} ELSE {V6Ranges[p]} \ {<<>>}

\* The annotation of the subnets has to be written.
SubnetsChanged(c, th) ==
    Cardinality(th.node.subnets[c]) # Cardinality(th.kept \cup th.allocated) \/ th.allocated # {}

\* Where syncNodeNetworkAnnotations or hybridOverlayNodeEnsureSubnet goes on;
\* "done" is its return.
NextStep(c, th) ==
    IF th.todo # {} \/ Missing(c, th) # {} THEN "allocate"
    ELSE IF th.node.noHostSubnet THEN "patch"
    ELSE IF SubnetsChanged(c, th) \/ c \notin th.node.networkIDs THEN "get"
    ELSE "done"

Proceed(c, n, th) ==
    IF NextStep(c, th) = "done" THEN Returned(c, n, FALSE)
    ELSE thread' = [thread EXCEPT ![c][n] = [th EXCEPT !.pc = NextStep(c, th)]] /\ UNCHANGED <<entry, agenda, dropped>>

CallVars == <<scenario, cached, queue, started, changes, restarts>>

\* The call begins.
Begin(c, n, node, retry) ==
    LET th == [pc |-> "allocate", retry |-> retry, node |-> node,
               todo |-> IF c = Zone THEN {} ELSE Existing(c, node),
               kept |-> {}, allocated |-> {}, copy |-> None, tries |-> 0]
    IN  thread' = [thread EXCEPT ![c][n] = th] /\ UNCHANGED <<entry, agenda, dropped, pool, ids>>

\* A node without a host subnet is no concern of a network other than the
\* default one with hybrid overlay; a network without ranges has no subnets.
SkipNode(c, n) ==
    /\ c # Zone /\ thread[c][n].pc = "allocate"
    /\ IF thread[c][n].node.noHostSubnet /\ ~(scenario.hybrid /\ c = Default) THEN Returned(c, n, FALSE)
       ELSE /\ thread[c][n].todo = {} /\ Missing(c, thread[c][n]) = {}
            /\ Proceed(c, n, thread[c][n])
    /\ UNCHANGED <<api, stream, pool, ids, failures, CallVars>>

Concerned(c, n) ==
    /\ c # Zone /\ thread[c][n].pc = "allocate"
    /\ thread[c][n].node.noHostSubnet => scenario.hybrid /\ c = Default

\* allocateNodeSubnets, for one of the existing subnets.
CheckExisting(c, n) ==
    /\ Concerned(c, n) /\ thread[c][n].todo # {}
    /\ LET th == thread[c][n]
           p  == PoolOf(c, th.node)
       IN  \E s \in th.todo :
               LET rest   == [th EXCEPT !.todo = @ \ {s}]
                   ranges == IF s.range \in IPv4 THEN V4Ranges[p] ELSE V6Ranges[p]
                   valid  == ranges # <<>> /\ CanMark(pool, p, n, s)
                             /\ ~\E k \in th.kept : k.range \in IPv4 <=> s.range \in IPv4
               IN  IF valid
                   THEN pool' = MarkNetworks(pool, n, {s}) /\ Proceed(c, n, [rest EXCEPT !.kept = @ \cup {s}])
                   ELSE pool' = ReleaseNetworks(pool, p, n, {s}) /\ Proceed(c, n, rest)
    /\ UNCHANGED <<api, stream, ids, failures, CallVars>>

\* allocateNodeSubnets, for one IP family.
AllocateSubnet(c, n) ==
    /\ Concerned(c, n) /\ thread[c][n].todo = {}
    /\ \E ranges \in Missing(c, thread[c][n]) : \E s \in NextSubnet(pool, ranges) :
           /\ pool' = AllocateNetwork(pool, ranges, n, s)
           /\ Proceed(c, n, [thread[c][n] EXCEPT !.allocated = @ \cup {s}])
    /\ UNCHANGED <<api, stream, ids, failures, CallVars>>

\* ErrSubnetAllocatorFull: what has been allocated is released.
SubnetsExhausted(c, n) ==
    /\ Concerned(c, n) /\ thread[c][n].todo = {}
    /\ \E ranges \in Missing(c, thread[c][n]) :
           /\ NextSubnet(pool, ranges) = {}
           /\ pool' = ReleaseNetworks(RangesFull(pool, ranges), PoolOf(c, thread[c][n].node), n, thread[c][n].allocated)
    /\ Returned(c, n, TRUE)
    /\ UNCHANGED <<api, stream, ids, failures, CallVars>>

\* The node could not be updated: what was allocated for it is released.
Failed(c, n) ==
    /\ pool' = ReleaseNetworks(pool, c, n, thread[c][n].allocated)
    /\ Returned(c, n, TRUE)

\* updateNodeNetworkAnnotationsWithRetry: the node is read from the cache ...
Get(c, n) ==
    /\ thread[c][n].pc = "get"
    /\ IF cached[n].obj = None THEN Failed(c, n)
       ELSE /\ thread' = [thread EXCEPT ![c][n].pc = "update", ![c][n].copy = cached[n]]
            /\ UNCHANGED <<entry, agenda, dropped, pool>>
    /\ UNCHANGED <<api, stream, ids, failures, CallVars>>

Annotated(c, th) ==
    [th.copy.obj EXCEPT !.subnets[c] = IF SubnetsChanged(c, th) THEN th.kept \cup th.allocated ELSE @,
                        !.networkIDs = @ \cup {c}]

\* ... and updated, unless the copy is not the latest version.
Update(c, n) ==
    /\ thread[c][n].pc = "update"
    /\ LET th == thread[c][n]
       IN  IF api[n].obj # None /\ api[n].rv = th.copy.rv
           THEN Store(n, Annotated(c, th)) /\ Returned(c, n, FALSE) /\ UNCHANGED pool
           ELSE /\ IF api[n].obj # None /\ th.tries + 1 < Attempts
                   THEN /\ thread' = [thread EXCEPT ![c][n].pc = "get", ![c][n].tries = @ + 1]
                        /\ UNCHANGED <<entry, agenda, dropped, pool>>
                   ELSE Failed(c, n)
                /\ UNCHANGED <<api, stream>>
    /\ UNCHANGED <<ids, failures, CallVars>>

\* The update fails; the API server may have stored it.
UpdateFails(c, n) ==
    /\ thread[c][n].pc = "update" /\ APIFails
    /\ Failed(c, n)
    /\ \/ UNCHANGED <<api, stream>>
       \/ /\ api[n].obj # None /\ api[n].rv = thread[c][n].copy.rv
          /\ Store(n, Annotated(c, thread[c][n]))
    /\ UNCHANGED <<ids, CallVars>>

\* The zone controller allocates an ID, or returns an error.
ZoneAllocate(n) ==
    /\ thread[Zone][n].pc = "allocate"
    /\ IF CanAllocateID(ids, n)
       THEN /\ ids' = AllocateID(ids, n)
            /\ thread' = [thread EXCEPT ![Zone][n].pc = "patch"]
            /\ UNCHANGED <<entry, agenda, dropped>>
       ELSE Returned(Zone, n, TRUE) /\ UNCHANGED ids
    /\ UNCHANGED <<api, stream, pool, failures, CallVars>>

\* What SetAnnotationsOnNode stores.
Patched(c, n) ==
    IF c = Zone THEN [api[n].obj EXCEPT !.id = ids.of[n]]
    ELSE [api[n].obj EXCEPT !.hybrid = thread[c][n].kept \cup thread[c][n].allocated]

\* A hybrid overlay subnet is released when the patch fails, a node ID is not.
PatchFailed(c, n) ==
    /\ pool' = IF c = Zone THEN pool ELSE ReleaseAllNetworks(pool, Hybrid, n)
    /\ Returned(c, n, TRUE)

Patch(c, n) ==
    /\ thread[c][n].pc = "patch" /\ (scenario.hybrid => api[n].rv < MaxVersions)
    /\ IF api[n].obj = None THEN PatchFailed(c, n) /\ UNCHANGED <<api, stream>>
       ELSE Store(n, Patched(c, n)) /\ Returned(c, n, FALSE) /\ UNCHANGED pool
    /\ UNCHANGED <<ids, failures, CallVars>>

PatchFails(c, n) ==
    /\ thread[c][n].pc = "patch" /\ APIFails /\ (scenario.hybrid => api[n].rv < MaxVersions)
    /\ PatchFailed(c, n)
    /\ \/ UNCHANGED <<api, stream>>
       \/ api[n].obj # None /\ Store(n, Patched(c, n))
    /\ UNCHANGED <<ids, CallVars>>

-----------------------------------------------------------------------------
(***************************************************************************)
(* Events and retries.                                                     *)
(***************************************************************************)

\* Mutant: a deleted node keeps what it has.
HandleDeleteNodeKept(c, n) == UNCHANGED <<pool, ids>>

\* HandleDeleteNode of a node allocator, handleDeleteNode of the zone controller.
HandleDeleteNode(c, n) ==
    /\ ids' = IF c = Zone THEN ReleaseID(ids, n) ELSE ids
    /\ pool' = IF c = Zone THEN pool
               ELSE ReleaseAllNetworks(pool, IF scenario.hybrid /\ c = Default THEN Hybrid ELSE c, n)

\* A network controller looks at all annotations, the zone controller at its own.
AreResourcesEqual(c, old, new) ==
    IF c = Zone THEN old.id = new.id
    ELSE [old EXCEPT !.noHostSubnet = FALSE] = [new EXCEPT !.noHostSubnet = FALSE]

\* The next call of the goroutine of events.  An add uses the node of the
\* event, an update the one in the cache.
HandleEvent ==
    /\ agenda # <<>> /\ Head(agenda).op = "event"
    /\ LET c   == Head(agenda).ctrl
           n   == Head(agenda).node
           old == Head(agenda).old
           new == Head(agenda).new
       IN  /\ thread[c][n].pc = "idle"
           /\ CASE new = None -> /\ HandleDeleteNode(c, n)
                                 /\ entry' = [entry EXCEPT ![c][n] = None]
                                 /\ dropped' = dropped \ {<<c, n>>}
                                 /\ agenda' = Tail(agenda)
                                 /\ UNCHANGED thread
                [] new # None /\ old = None -> Begin(c, n, new, FALSE)
                [] OTHER -> IF AreResourcesEqual(c, old, new) \/ cached[n].obj = None
                            THEN agenda' = Tail(agenda) /\ UNCHANGED <<thread, entry, dropped, pool, ids>>
                            ELSE Begin(c, n, cached[n].obj, FALSE)
    /\ UNCHANGED <<api, stream, failures, CallVars>>

\* Mutant: an entry is kept after MaxFailedAttempts.
RetryKept(c, n) ==
    /\ thread[c][n].pc = "idle" /\ entry[c][n] # None
    /\ entry[c][n] < MaxFailedAttempts /\ cached[n].obj # None
    /\ Begin(c, n, cached[n].obj, TRUE)
    /\ UNCHANGED <<api, stream, failures, CallVars>>

Retry(c, n) ==
    /\ thread[c][n].pc = "idle" /\ entry[c][n] # None
    /\ IF entry[c][n] < MaxFailedAttempts /\ cached[n].obj # None THEN Begin(c, n, cached[n].obj, TRUE)
       ELSE /\ entry' = [entry EXCEPT ![c][n] = None]
            /\ dropped' = IF cached[n].obj = None THEN dropped ELSE dropped \cup {<<c, n>>}
            /\ UNCHANGED <<thread, agenda, pool, ids>>
    /\ UNCHANGED <<api, stream, failures, CallVars>>

\* The process stops and another one starts.
Restart ==
    /\ restarts < scenario.MaxRestarts /\ restarts' = restarts + 1
    /\ stream' = <<>> /\ cached' = api
    /\ queue' = <<>> /\ agenda' = <<>> /\ started' = {} /\ dropped' = {}
    /\ entry' = [c \in Controllers |-> [n \in Nodes |-> None]]
    /\ thread' = [c \in Controllers |-> [n \in Nodes |-> Idle]]
    /\ pool' = NewPool /\ ids' = NewIDs
    /\ UNCHANGED <<scenario, api, changes, failures>>

-----------------------------------------------------------------------------

Init ==
    /\ scenario \in Scenarios
    /\ api = [n \in Nodes |-> [obj |-> scenario.nodes[n], rv |-> 0]]
    /\ cached = api /\ stream = <<>> /\ queue = <<>> /\ agenda = <<>> /\ started = {} /\ dropped = {}
    /\ entry = [c \in Controllers |-> [n \in Nodes |-> None]]
    /\ thread = [c \in Controllers |-> [n \in Nodes |-> Idle]]
    /\ pool = NewPool /\ ids = NewIDs
    /\ changes = 0 /\ failures = 0 /\ restarts = 0

Environment ==
    \/ \E n \in scenario.names : CreateNode(n) \/ DeleteNode(n) \/ AnnotateNode(n)
    \/ Restart

CallStep(c, n) ==
    SkipNode(c, n) \/ CheckExisting(c, n) \/ AllocateSubnet(c, n) \/ SubnetsExhausted(c, n)
        \/ Get(c, n) \/ Update(c, n) \/ Patch(c, n)

Failure(c, n) == UpdateFails(c, n) \/ PatchFails(c, n)

System ==
    \/ Watch \/ Deliver \/ Sync \/ HandleEvent
    \/ \E c \in Controllers : Start(c)
    \/ \E n \in Nodes : ZoneAllocate(n)
    \/ \E c \in Controllers, n \in Nodes : Retry(c, n) \/ CallStep(c, n)

Next == Environment \/ System \/ (\E c \in Controllers, n \in Nodes : Failure(c, n))

Spec == Init /\ [][Next]_vars

\* While some goroutine can take a step, one of them eventually does.
FairSpec == Spec /\ WF_vars(System)

-----------------------------------------------------------------------------

ThreadState == [pc : {"idle", "allocate", "get", "update", "patch"}, retry : BOOLEAN,
                node : NodeObject \cup {None}, todo : SUBSET Subnet, kept : SUBSET Subnet,
                allocated : SUBSET Subnet, copy : Version \cup {None}, tries : 0 .. Attempts - 1]

\* What the goroutine of events has to do; a controller syncs with nodes that exist.
Work == [op : {"event"}, ctrl : Controllers, node : Nodes, old : NodeObject \cup {None}, new : NodeObject \cup {None}]
            \cup [op : {"sync", "replace"}, ctrl : Controllers, node : Nodes, old : {None}, new : NodeObject]

SubnetAllocator == [alloc : [Subnet -> Nodes \cup {None}], next : [Ranges -> Nat], used : [Ranges -> Nat]]

\* Type correctness: among others, the search of a range starts within it.
TypeOK ==
    /\ scenario \in Scenarios /\ started \subseteq scenario.controllers
    /\ api \in [Nodes -> Version] /\ cached \in [Nodes -> Version]
    /\ stream \in Seq([node : Nodes, ver : Version])
    /\ queue \in Seq([node : Nodes, old : NodeObject \cup {None}, new : NodeObject \cup {None}])
    /\ agenda \in Seq(Work)
    /\ entry \in [Controllers -> [Nodes -> Nat \cup {None}]]
    /\ pool \in SubnetAllocator /\ \A r \in Ranges : pool.next[r] <= Size[r]
    /\ ids \in [map : AllocationBitmap(MaxID), of : [Nodes -> (0 .. MaxID - 1) \cup {None}]]
    /\ thread \in [Controllers -> [Nodes -> ThreadState]]
    /\ dropped \subseteq Controllers \X Nodes
    /\ changes \in Nat /\ failures \in Nat /\ restarts \in Nat

InUse(pl, r) == {s \in Subnet : s.range = r /\ pl.alloc[s] # None}

UsedIsExact(pl) == \A r \in Ranges : pl.used[r] = Cardinality(InUse(pl, r))

IDsApart(a) ==
    /\ a.map.allocated = {0, 1} \cup {a.of[n] : n \in {m \in Nodes : a.of[m] # None}}
    /\ \A m, n \in Nodes : a.of[n] # None => a.of[n] \notin {0, 1} /\ (a.of[m] = a.of[n] => m = n)

\* The allocators stay consistent whatever is marked, released and allocated: the
\* counters are the numbers of subnets in use (they are unsigned and would wrap
\* round if something were released twice), the ID bitmap holds the reserved IDs
\* and those of nodes, and no two nodes have one ID.
AllocatorsExact == UsedIsExact(pool) /\ IDsApart(ids)

\* Nothing is left to do.
Settled ==
    /\ started = scenario.controllers
    /\ stream = <<>> /\ queue = <<>> /\ agenda = <<>>
    /\ \A c \in Controllers, n \in Nodes : thread[c][n].pc = "idle" /\ entry[c][n] = None

\* A node with a host subnet is annotated with one subnet of every family of the
\* network, as the allocator has it.
SubnetsAgree(c, n) ==
    LET nets == api[n].obj.subnets[c]
        families == (IF V4Ranges[c] = <<>> THEN {} ELSE {TRUE}) \cup (IF V6Ranges[c] = <<>> THEN {} ELSE {FALSE})
    IN  /\ \A s \in nets : InPool(c, s) /\ pool.alloc[s] = n
        /\ {(s.range \in IPv4) : s \in nets} = families /\ Cardinality(nets) = Cardinality(families)
        /\ c \in api[n].obj.networkIDs

HybridAgrees(n) ==
    LET nets == api[n].obj.hybrid IN Cardinality(nets) = 1 /\ \A s \in nets : pool.alloc[s] = n

\* Once all is quiet, the annotations of every node are what the allocators
\* have for it - so that no two nodes share a subnet or an ID - whatever
\* conflicts, stale reads, lost replies, failures and restarts there were, and
\* although several controllers write them.  Exempt is what was given up
\* because nothing was free in MaxFailedAttempts attempts.
AnnotationsAgree ==
    Settled => \A n \in Nodes, c \in scenario.controllers :
        (api[n].obj # None /\ <<c, n>> \notin dropped) =>
            IF c = Zone THEN api[n].obj.id = ids.of[n] /\ ids.of[n] # None
            ELSE IF ~api[n].obj.noHostSubnet THEN SubnetsAgree(c, n)
            ELSE (c = Default /\ scenario.hybrid) => HybridAgrees(n)

\* What is allocated when all is quiet belongs to nodes that exist.  (With
\* hybrid overlay the subnet of a deleted node stays allocated.)
NothingLeaked ==
    Settled /\ ~scenario.hybrid =>
        /\ \A s \in Subnet : pool.alloc[s] # None => api[pool.alloc[s]].obj # None
        /\ \A n \in Nodes : ids.of[n] # None => api[n].obj # None

\* The controllers come to rest, although every one of them gets the events
\* that the others' writes cause.  (A hybrid overlay subnet read from a stale
\* cache is written back, so that two values may alternate for as long as the
\* cache is behind.)
EventuallySettled == scenario.hybrid \/ <>[]Settled

-----------------------------------------------------------------------------
(***************************************************************************)
(* The inductive invariant behind TypeOK and AllocatorsExact.              *)
(***************************************************************************)

\* A call has a node, writes for its own network a copy it has read, and is the
\* one the goroutine of events is in or the retry of an entry.
ThreadOK(c, n) ==
    LET th == thread[c][n]
    IN  /\ th.pc # "idle" => th.node # None
        /\ th.pc \in {"get", "update"} => c # Zone
        /\ th.pc = "update" => th.copy \in Version /\ th.copy.obj # None
        /\ th.pc # "idle" /\ th.retry => entry[c][n] # None
        /\ th.pc # "idle" /\ ~th.retry => /\ agenda # <<>> /\ Head(agenda).op = "event"
                                          /\ Head(agenda).ctrl = c /\ Head(agenda).node = n

IndInv == TypeOK /\ AllocatorsExact /\ \A c \in Controllers, n \in Nodes : ThreadOK(c, n)

=============================================================================
