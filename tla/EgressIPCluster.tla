-------------------------- MODULE EgressIPCluster --------------------------
(***************************************************************************)
(* The cluster manager's egress IP controller on bare metal                *)
(* (go-controller/pkg/clustermanager, egressip_controller.go and           *)
(* egressip_event_handler.go): it assigns the egress IPs of every EgressIP *)
(* object to egress nodes and records the assignment in the object's       *)
(* status.                                                                 *)
(*                                                                         *)
(* Several goroutines work on one allocator cache: the one of node events, *)
(* the one of EgressIP events, those of retries and the loop that probes   *)
(* whether nodes are reachable.  reconcileEgressIP is serialised by        *)
(* egressIPAssignmentMutex; what it reads of the cache, what it assigns,   *)
(* what it stores and the patch of the status are steps of their own,      *)
(* because the setters of node state take only the allocator's lock.  The  *)
(* nodes' handlers and the loop list the EgressIP objects from the API     *)
(* server first and reconcile the listed objects later, one by one.        *)
(*                                                                         *)
(* Events of one object arrive in order and late (those of two objects in  *)
(* any order, which is more than can happen), and go through the retry     *)
(* framework; the framework and the informers have modules of their own    *)
(* and are kept here to what a handler sees of them.                       *)
(* Not covered: public clouds (CloudPrivateIPConfig objects), IP families, *)
(* specs with unparsable IPs, the health check protocol.                   *)
(***************************************************************************)
EXTENDS Naturals, FiniteSets, SequencesExt

CONSTANTS Nodes,        \* names of nodes
          EIPs,         \* names of EgressIP objects
          IPs,          \* egress IPs
          Primary,      \* the IPs hosted by the nodes' primary (OVN managed) network
          Addrs,        \* host addresses a node may have on other networks
          Covers,       \* Covers[a]: the IPs in the network of address a
          Scenarios,    \* how a behaviour starts and what may happen in it
          Loop,         \* the goroutine of checkEgressNodesReachability
          None          \* nil

\* A node as the controller sees it: the egress-assignable label, the Ready
\* condition, whether ovnkube-node has annotated it (primary interface,
\* subnets and host addresses), and the host addresses.
NodeObject == [label : BOOLEAN, ready : BOOLEAN, annotated : BOOLEAN, addrs : SUBSET Addrs]

StatusItem == [ip : IPs, node : Nodes]

EIPObject == [spec : SUBSET IPs, status : SUBSET StatusItem]

\* The allocator's cache of a node (egressNode).
EgressNode == [allocations : [IPs -> EIPs \cup {None}],
               isEgressAssignable : BOOLEAN, isReady : BOOLEAN, isReachable : BOOLEAN]

ASSUME ConstantsTyped ==
    /\ IsFiniteSet(Nodes) /\ IsFiniteSet(IPs) /\ Nodes \cap EIPs = {} /\ Loop \notin Nodes \cup EIPs
    /\ Primary \subseteq IPs
    /\ Covers \in [Addrs -> SUBSET (IPs \ Primary)]
    /\ None \notin NodeObject \cup EIPObject \cup EgressNode \cup EIPs \cup Nodes \cup {Loop}

\* A behaviour starts with these objects: when the controller is warm it has
\* added them all and is idle, otherwise it has just been started.  Only the
\* objects in these sets are created and deleted, an
\* EgressIP gets one of these specs, nodes are created in these forms and change
\* in these aspects.  The bounds are on the changes made by users and
\* nodes, on the calls of the API server that fail and on restarts.
Scenario == [nodes : [Nodes -> NodeObject \cup {None}], eips : [EIPs -> EIPObject \cup {None}],
             warm : BOOLEAN, created : SUBSET (Nodes \cup EIPs), deleted : SUBSET (Nodes \cup EIPs),
             specs : SUBSET (SUBSET IPs), forms : SUBSET NodeObject,
             aspects : SUBSET {"label", "ready", "annotated", "addrs", "reach"},
             MaxChanges : Nat, MaxFailures : Nat, MaxRestarts : Nat]

ASSUME ScenariosTyped == Scenarios \subseteq Scenario

Workers == Nodes \cup EIPs

Threads == Workers \cup {Loop}

Object == NodeObject \cup EIPObject \cup {None}

\* What a worker has been asked to do: a call of AddResource, UpdateResource
\* or DeleteResource.
Op == [op : {"add", "update", "delete"}, old : Object, new : Object]

\* A call of addEgressNode, deleteEgressNode or reconcileNonOVNNetworkEIPs.
Job == [kind : {"add", "delete", "networks"}, node : Nodes]

\* A call of reconcileEgressIP.
Call == [name : EIPs, old : EIPObject \cup {None}, new : EIPObject \cup {None}]

\* A retry entry of the retry framework: oldObj, config and whether newObj
\* is set.
Entry == [oldObj : Object, config : Object, newObj : BOOLEAN]

NoEntry == [oldObj |-> None, config |-> None, newObj |-> FALSE]

VARIABLES scenario,  \* the scenario of this behaviour
          nodes,     \* nodes[n]: the node in the API server and the lister
          eips,      \* eips[e]: the EgressIP object in the API server
          reach,     \* reach[n]: whether the node answers a probe
          events,    \* events[k]: the versions of k whose events are to come
          seen,      \* seen[k]: the version of the last event of k
          entry,     \* entry[k]: k's entry in the retry cache
          initial,   \* nodes whose add at start-up is not done yet
          cache,     \* the allocator's cache: cache[n] or None
          mutex,     \* the holder of egressIPAssignmentMutex, or None
          thread,    \* thread[t]: where goroutine t is, with its local variables
          changes, failures, restarts

vars == <<scenario, nodes, eips, reach, events, seen, entry, initial, cache, mutex, thread,
          changes, failures, restarts>>

Idle == [pc |-> "idle", retry |-> FALSE, ops |-> <<>>, jobs |-> <<>>, calls |-> {}, call |-> None,
         reachable |-> FALSE, keep |-> {}, remove |-> {}, ips |-> {}, add |-> {},
         err |-> FALSE]

-----------------------------------------------------------------------------
(***************************************************************************)
(* The allocator's cache.                                                  *)
(***************************************************************************)

EmptyAllocations == [ip \in IPs |-> None]

\* Mutant: the map of allocations is not made.
NewEgressNodeNilMap == [allocations |-> None, isEgressAssignable |-> FALSE,
                        isReady |-> FALSE, isReachable |-> FALSE]

NewEgressNode == [allocations |-> EmptyAllocations, isEgressAssignable |-> FALSE,
                  isReady |-> FALSE, isReachable |-> FALSE]

\* initEgressIPAllocator: a node that is not annotated yet is left as it is.
InitEgressIPAllocator(c, n, node) ==
    IF node.annotated /\ c[n] = None THEN [c EXCEPT ![n] = NewEgressNode] ELSE c

\* setNodeEgressAssignable, setNodeEgressReady, setNodeEgressReachable: a node
\* that can no longer be used loses its allocations.
SetNodeEgress(c, n, field, value) ==
    IF c[n] = None THEN c
    ELSE [c EXCEPT ![n][field] = value,
                   ![n].allocations = IF value THEN @ ELSE EmptyAllocations]

SetNodeEgressAssignable(c, n, isAssignable) == SetNodeEgress(c, n, "isEgressAssignable", isAssignable)

SetNodeEgressReady(c, n, isReady) == SetNodeEgress(c, n, "isReady", isReady)

SetNodeEgressReachable(c, n, isReachable) == SetNodeEgress(c, n, "isReachable", isReachable)

\* Mutant: the IPs are compared with the name, not their owners.
AllocationCountOfKeys(c, n, name) == Cardinality({ip \in IPs : ip = name})

\* getAllocationCountForEgressIP.
AllocationCount(c, n, name) == Cardinality({ip \in IPs : c[n].allocations[ip] = name})

IsAssignable(c, n) ==
    c[n] # None /\ c[n].isEgressAssignable /\ c[n].isReady /\ c[n].isReachable

\* deleteAllocatorEgressIPAssignments.
DeleteAssignments(c, items) ==
    [n \in Nodes |->
        IF c[n] = None THEN None
        ELSE [c[n] EXCEPT !.allocations =
                 [ip \in IPs |-> IF [ip |-> ip, node |-> n] \in items THEN None ELSE @[ip]]]]

\* addAllocatorEgressIPAssignments.
AddAssignments(c, name, items) ==
    [n \in Nodes |->
        IF c[n] = None THEN None
        ELSE [c[n] EXCEPT !.allocations =
                 [ip \in IPs |-> IF [ip |-> ip, node |-> n] \in items THEN name ELSE @[ip]]]]

\* IsOVNManagedNetwork and GetNonOVNNetworkContainingIP, for a node that may
\* be gone.
IsOVNManaged(node, ip) == node # None /\ node.annotated /\ ip \in Primary

OnSecondaryNetwork(node, ip) ==
    node # None /\ node.annotated /\ ip \notin Primary /\ \E a \in node.addrs : ip \in Covers[a]

\* GetEgressIPNetwork finds a network.
CanHost(node, ip) == IsOVNManaged(node, ip) \/ OnSecondaryNetwork(node, ip)

\* Mutant: the state of the node is not looked at.
ValidStatusAnyNode(c, name, item) ==
    c[item.node] # None /\ AllocationCount(c, item.node, name) <= 1 /\ CanHost(nodes[item.node], item.ip)

\* Mutant: off by one, an assignment is invalid because it is recorded.
ValidStatusUncounted(c, name, item) ==
    IsAssignable(c, item.node) /\ AllocationCount(c, item.node, name) < 1 /\ CanHost(nodes[item.node], item.ip)

\* validateEgressIPStatus, for one item.
ValidStatus(c, name, item) ==
    /\ IsAssignable(c, item.node)
    /\ AllocationCount(c, item.node, name) <= 1
    /\ CanHost(nodes[item.node], item.ip)

\* isEgressIPAddrConflict: some node has the IP as a host address, or the host
\* addresses of some node are not known.
AddrConflict(ip) ==
    \E n \in Nodes : nodes[n] # None /\ (~nodes[n].annotated \/ ip \in nodes[n].addrs)

\* getSortedEgressData: the nodes that can be assigned to, those with the
\* fewest allocations first; ties in any order.
SortedNodes(c) ==
    LET size(n) == Cardinality({ip \in IPs : c[n].allocations[ip] # None})
    IN  {s \in SetToSeqs({n \in Nodes : IsAssignable(c, n)}) :
            \A i, j \in DOMAIN s : i < j => size(s[i]) <= size(s[j])}

\* getSortedEgressData: the node every IP is allocated on; of several, the one
\* the iteration over the cache meets last.
ExistingAllocations(c) ==
    {f \in [IPs -> Nodes \cup {None}] :
        \A ip \in IPs :
            LET on == {n \in Nodes : c[n] # None /\ c[n].allocations[ip] # None}
            IN  IF on = {} THEN f[ip] = None ELSE f[ip] \in on}

\* Mutant: a node may have several IPs of one EgressIP.
FitsAny(c, name, S, ip) == {n \in S : CanHost(nodes[n], ip)}

\* The nodes of S that can be given the IP.
Fits(c, name, S, ip) == {n \in S : AllocationCount(c, n, name) = 0 /\ CanHost(nodes[n], ip)}

\* The element of S that comes first in the sequence.
First(order, S) ==
    order[CHOOSE i \in DOMAIN order : order[i] \in S /\ \A j \in DOMAIN order : j < i => order[j] \notin S]

\* One turn of the loop of assignEgressIPs.  st holds the cache, the
\* assignments, the nodes to consider and whether the loop has been left; an
\* IP on a secondary network narrows the nodes for the IPs that follow, too.
AssignOne(name, existing, order, c0, st, ip) ==
    LET n0     == existing[ip]
        narrow == {n \in st.nodes : OnSecondaryNetwork(nodes[n], ip)}
        cand   == IF narrow # {} THEN narrow ELSE st.nodes
        fits   == Fits(st.cache, name, cand, ip)
        item(n) == [ip |-> ip, node |-> n]
    IN  IF st.left \/ AddrConflict(ip) THEN [st EXCEPT !.left = TRUE]
        ELSE IF n0 # None
        THEN IF c0[n0].allocations[ip] # name THEN [st EXCEPT !.left = TRUE]
             ELSE IF CanHost(nodes[n0], ip) THEN [st EXCEPT !.items = @ \cup {item(n0)}]
             ELSE st
        ELSE IF fits = {} THEN [st EXCEPT !.nodes = cand]
        ELSE [st EXCEPT !.nodes = cand,
                        !.items = @ \cup {item(First(order, fits))},
                        !.cache = AddAssignments(@, name, {item(First(order, fits))})]

\* The loop, for the nodes and the IPs in these orders.
AssignLoop(c, name, existing, order, seq) ==
    LET st[i \in 0 .. Len(seq)] ==
            IF i = 0 THEN [cache |-> c, items |-> {}, nodes |-> Range(order), left |-> order = <<>>]
            ELSE AssignOne(name, existing, order, c, st[i - 1], seq[i])
    IN  st[Len(seq)]

\* assignEgressIPs: the possible results, as the cache and the assignments.
AssignEgressIPs(c, name, ips) ==
    {AssignLoop(c, name, existing, order, seq) :
        order \in SortedNodes(c), existing \in ExistingAllocations(c), seq \in SetToSeqs(ips)}

-----------------------------------------------------------------------------
(***************************************************************************)
(* The environment.                                                        *)
(***************************************************************************)

\* What a lister returns for the key of a worker.
Latest(k) == IF k \in Nodes THEN nodes[k] ELSE eips[k]

UserVars == <<scenario, cache, mutex, thread, seen, entry, initial, failures, restarts>>

SetNode(n, node) ==
    /\ changes < scenario.MaxChanges /\ changes' = changes + 1
    /\ nodes' = [nodes EXCEPT ![n] = node]
    /\ events' = [events EXCEPT ![n] = Append(@, node)]
    /\ UNCHANGED <<eips, reach, UserVars>>

CreateNode(n) == nodes[n] = None /\ n \in scenario.created /\ \E node \in scenario.forms : SetNode(n, node)

DeleteNode(n) == nodes[n] # None /\ n \in scenario.deleted /\ SetNode(n, None)

\* A node changes in one respect: it is labelled or unlabelled, becomes ready
\* or not, is annotated, or an address of it comes or goes.
ChangeNode(n) ==
    /\ nodes[n] # None
    /\ \/ "label" \in scenario.aspects /\ SetNode(n, [nodes[n] EXCEPT !.label = ~@])
       \/ "ready" \in scenario.aspects /\ SetNode(n, [nodes[n] EXCEPT !.ready = ~@])
       \/ "annotated" \in scenario.aspects /\ ~nodes[n].annotated /\ SetNode(n, [nodes[n] EXCEPT !.annotated = TRUE])
       \/ "addrs" \in scenario.aspects /\ nodes[n].annotated
          /\ \E a \in Addrs : SetNode(n, [nodes[n] EXCEPT !.addrs = IF a \in @ THEN @ \ {a} ELSE @ \cup {a}])

SetEIP(e, eip) ==
    /\ changes < scenario.MaxChanges /\ changes' = changes + 1
    /\ eips' = [eips EXCEPT ![e] = eip]
    /\ events' = [events EXCEPT ![e] = Append(@, eip)]
    /\ UNCHANGED <<nodes, reach, UserVars>>

CreateEIP(e) == eips[e] = None /\ e \in scenario.created /\ \E s \in scenario.specs : SetEIP(e, [spec |-> s, status |-> {}])

UpdateEIP(e) ==
    /\ eips[e] # None
    /\ \E s \in scenario.specs \ {eips[e].spec} : SetEIP(e, [eips[e] EXCEPT !.spec = s])

DeleteEIP(e) == eips[e] # None /\ e \in scenario.deleted /\ SetEIP(e, None)

\* A node stops or starts answering probes.
ChangeReach(n) ==
    /\ changes < scenario.MaxChanges /\ changes' = changes + 1
    /\ "reach" \in scenario.aspects
    /\ reach' = [reach EXCEPT ![n] = ~@]
    /\ UNCHANGED <<nodes, eips, events, UserVars>>

\* A call of the API server fails.
APIFails == failures < scenario.MaxFailures /\ failures' = failures + 1

-----------------------------------------------------------------------------
(***************************************************************************)
(* The retry framework, as a handler sees it.                              *)
(***************************************************************************)

AddOp(new)         == [op |-> "add", old |-> None, new |-> new]

UpdateOp(old, new) == [op |-> "update", old |-> old, new |-> new]

DeleteOp(old)      == [op |-> "delete", old |-> old, new |-> None]

\* A delete that failed earlier is done again before anything else.
DeleteFirst(ent) == IF ent.oldObj = None THEN <<>> ELSE <<DeleteOp(ent.oldObj)>>

\* The calls an event leads to; an update uses the latest version and is
\* skipped when the object is gone.
OpsOfEvent(old, new, latest, ent) ==
    CASE old = None -> Append(DeleteFirst(ent), AddOp(new))
      [] new = None -> <<DeleteOp(old)>>
      [] OTHER      -> IF latest = None THEN <<>> ELSE Append(DeleteFirst(ent), UpdateOp(old, latest))

\* Adds and deletes are entered in the retry cache before they are tried.
EntryOfEvent(old, new, ent) ==
    CASE old = None -> [ent EXCEPT !.newObj = TRUE]
      [] new = None -> [ent EXCEPT !.oldObj = old]
      [] OTHER      -> ent

\* The calls of a retry, with the latest version of the object.
OpsOfRetry(latest, ent) ==
    LET new == ent.newObj /\ latest # None
    IN  IF new /\ ent.config # None THEN <<UpdateOp(ent.config, latest)>>
        ELSE DeleteFirst(ent) \o (IF new THEN <<AddOp(latest)>> ELSE <<>>)

\* What a call that failed leaves in the retry cache.
FailedEntry(ent, ops) ==
    CASE ops[1].op = "update"                -> [ent EXCEPT !.newObj = TRUE, !.config = ops[1].old]
      [] ops[1].op = "delete" /\ Len(ops) > 1 -> [ent EXCEPT !.newObj = TRUE]
      [] OTHER                               -> ent

\* The nodes that exist at start-up are added one after the other; everything
\* else waits until they have been.
Watched(k) == initial = {} \/ k \in initial

\* A call of AddResource, UpdateResource or DeleteResource begins.  For an
\* EgressIP each of them is one call of reconcileEgressIP.
Calling(k, ops, retry) ==
    IF k \in Nodes THEN [Idle EXCEPT !.pc = "op", !.retry = retry, !.ops = ops]
    ELSE [Idle EXCEPT !.pc = "lock", !.retry = retry, !.ops = ops,
                      !.calls = {[name |-> k, old |-> ops[1].old, new |-> ops[1].new]}]

Start(k, ops, retry) == thread' = [thread EXCEPT ![k] = Calling(k, ops, retry)]

\* The events of nodes are handled one after the other, and so are those of
\* EgressIP objects (NewClusterManagerWatchFactory makes informers without queues);
\* retries are not waited for, except one of the same object.
NoOtherEvent(k) ==
    \A j \in Workers : ((j \in Nodes) = (k \in Nodes)) => thread[j].pc = "idle" \/ thread[j].retry

HandleEvent(k) ==
    /\ thread[k].pc = "idle" /\ events[k] # <<>> /\ Watched(k) /\ NoOtherEvent(k)
    /\ LET new == Head(events[k])
           ops == OpsOfEvent(seen[k], new, Latest(k), entry[k])
       IN  /\ seen' = [seen EXCEPT ![k] = new]
           /\ entry' = [entry EXCEPT ![k] = EntryOfEvent(seen[k], new, @)]
           /\ IF ops = <<>> THEN UNCHANGED thread ELSE Start(k, ops, FALSE)
    /\ events' = [events EXCEPT ![k] = Tail(@)]
    /\ UNCHANGED <<scenario, nodes, eips, reach, initial, cache, mutex, changes, failures, restarts>>

Retry(k) ==
    /\ thread[k].pc = "idle" /\ entry[k] # NoEntry /\ initial = {}
    /\ LET ops == OpsOfRetry(Latest(k), entry[k])
       IN  IF ops # <<>> THEN Start(k, ops, TRUE) /\ UNCHANGED entry
           ELSE entry' = [entry EXCEPT ![k] = NoEntry] /\ UNCHANGED thread
    /\ UNCHANGED <<scenario, nodes, eips, reach, events, seen, initial, cache, mutex, changes, failures, restarts>>

\* Goroutine t is done with the call at the head of ops; the loop has none.
Returned(t, th, err) ==
    LET done == t = Loop \/ err \/ Len(th.ops) = 1
    IN  /\ entry' = IF t = Loop THEN entry
                    ELSE [entry EXCEPT ![t] = IF err THEN FailedEntry(@, th.ops)
                                              ELSE IF done THEN NoEntry
                                              ELSE [@ EXCEPT !.oldObj = None, !.config = None]]
        /\ thread' = [thread EXCEPT ![t] = IF done THEN Idle ELSE Calling(t, Tail(th.ops), th.retry)]
        /\ initial' = IF done THEN initial \ {t} ELSE initial

-----------------------------------------------------------------------------
(***************************************************************************)
(* The handlers of nodes and of EgressIP objects.                          *)
(***************************************************************************)

Goto(t, pc, th) == thread' = [thread EXCEPT ![t] = [th EXCEPT !.pc = pc]]

\* Go on with the listed jobs, or return if there are none.
RunJobs(t, jobs) ==
    IF jobs = <<>> THEN Returned(t, thread[t], FALSE)
    ELSE Goto(t, "list", [thread[t] EXCEPT !.jobs = jobs]) /\ UNCHANGED <<entry, initial>>

JobOf(kind, n) == <<[kind |-> kind, node |-> n]>>

HandlerVars == <<scenario, nodes, eips, reach, events, seen, mutex, changes, failures, restarts>>

\* isEgressNodeReachable.
IsEgressNodeReachable(c, n) == c[n] # None /\ (c[n].isReachable \/ reach[n])

\* AddResource and UpdateResource of a node, up to the probe.  A node that
\* was not and is not labelled is left; one that has been unlabelled is
\* taken out of use.
NodeLabel(n) ==
    /\ n \in Nodes /\ thread[n].pc = "op" /\ Head(thread[n].ops).op # "delete"
    /\ LET op        == Head(thread[n].ops)
           hadLabel  == op.op = "update" /\ op.old.label
           c0        == InitEgressIPAllocator(cache, n, op.new)
           c1        == IF op.op = "update" \/ op.new.label
                        THEN SetNodeEgressAssignable(c0, n, op.new.label) ELSE c0
           c2        == IF op.op = "add" /\ op.new.ready THEN SetNodeEgressReady(c1, n, TRUE) ELSE c1
       IN  CASE op.op = "update" /\ ~hadLabel /\ ~op.new.label ->
                    cache' = c0 /\ RunJobs(n, <<>>)
             [] hadLabel /\ ~op.new.label ->
                    cache' = c1 /\ RunJobs(n, JobOf("delete", n))
             [] OTHER ->
                    /\ cache' = c2
                    /\ Goto(n, "probed", [thread[n] EXCEPT !.reachable = IsEgressNodeReachable(c2, n)])
                    /\ UNCHANGED <<entry, initial>>
    /\ UNCHANGED HandlerVars

\* The rest of AddResource: the flags are set, never reset.
NodeAdded(n) ==
    /\ n \in Nodes /\ thread[n].pc = "probed" /\ Head(thread[n].ops).op = "add"
    /\ LET node == Head(thread[n].ops).new
           use  == node.label /\ node.ready /\ thread[n].reachable
       IN  /\ cache' = IF use THEN SetNodeEgressReachable(cache, n, TRUE) ELSE cache
           /\ RunJobs(n, IF use THEN JobOf("add", n) ELSE <<>>)
    /\ UNCHANGED HandlerVars

\* The rest of UpdateResource.
NodeUpdated(n) ==
    /\ n \in Nodes /\ thread[n].pc = "probed" /\ Head(thread[n].ops).op = "update"
    /\ LET old     == Head(thread[n].ops).old
           new     == Head(thread[n].ops).new
           c1      == SetNodeEgressReady(cache, n, new.ready)
           use     == new.ready /\ thread[n].reachable
           altered == <<old.annotated, old.addrs>> # <<new.annotated, new.addrs>>
           same    == old.label /\ old.ready = new.ready /\ ~altered
       IN  /\ cache' = IF use /\ ~same THEN SetNodeEgressReachable(c1, n, TRUE) ELSE c1
           /\ RunJobs(n,
                CASE same       -> <<>>
                  [] ~old.label -> IF use THEN JobOf("add", n) ELSE <<>>
                  [] OTHER      -> (IF ~new.ready THEN JobOf("delete", n)
                                    ELSE IF use THEN JobOf("add", n) ELSE <<>>)
                                   \o (IF altered THEN JobOf("networks", n) ELSE <<>>))
    /\ UNCHANGED HandlerVars

\* DeleteResource of a node.
NodeDeleted(n) ==
    /\ n \in Nodes /\ thread[n].pc = "op" /\ Head(thread[n].ops).op = "delete"
    /\ cache' = [cache EXCEPT ![n] = None]
    /\ RunJobs(n, IF Head(thread[n].ops).old.label THEN JobOf("delete", n) ELSE <<>>)
    /\ UNCHANGED HandlerVars

InUse(n) == cache[n] # None /\ cache[n].isEgressAssignable /\ cache[n].isReady

\* checkEgressNodesReachabilityIterate: the nodes in use are probed; those
\* whose answer has changed are handled one after the other afterwards.
CheckReachability ==
    /\ thread[Loop].pc = "idle"
    /\ LET changed == {n \in Nodes : InUse(n) /\ cache[n].isReachable # reach[n]}
           job(n)  == [kind |-> IF reach[n] THEN "add" ELSE "delete", node |-> n]
       IN  /\ changed # {}
           /\ cache' = [n \in Nodes |-> IF n \in changed THEN [cache[n] EXCEPT !.isReachable = reach[n]]
                                        ELSE cache[n]]
           /\ \E s \in SetToSeqs(changed) : RunJobs(Loop, [i \in DOMAIN s |-> job(s[i])])
    /\ UNCHANGED HandlerVars

\* Mutant: only an EgressIP that misses more than one IP is reconsidered.
MissingAssignmentsMany(eip) == Cardinality(eip.spec) > Cardinality(eip.status) + 1

\* addEgressNode: not all IPs of the EgressIP are assigned.
MissingAssignments(eip) == Cardinality(eip.spec) # Cardinality(eip.status)

\* The EgressIP objects a job is about.
Concerned(job, eip) ==
    CASE job.kind = "add"    -> MissingAssignments(eip)
      [] job.kind = "delete" -> \E s \in eip.status : s.node = job.node
      [] OTHER               ->
            LET node == Head(thread[job.node].ops).new
            IN  \E s \in eip.status : s.node = job.node /\ node.annotated /\ ~CanHost(node, s.ip)

\* reconcileNonOVNNetworkEIPs fails for a status on a node without annotations.
Unknown(job) ==
    /\ job.kind = "networks" /\ ~Head(thread[job.node].ops).new.annotated
    /\ \E e \in EIPs : eips[e] # None /\ \E s \in eips[e].status : s.node = job.node

\* The job at the head of jobs has ended.  A handler returns at the first
\* error, the loop only logs it.
JobDone(t, th, err) ==
    LET jobs == Tail(th.jobs)
    IN  IF jobs = <<>> \/ (err /\ t # Loop) THEN Returned(t, th, err)
        ELSE /\ thread' = [thread EXCEPT ![t] = [Idle EXCEPT !.pc = "list", !.retry = th.retry, !.jobs = jobs, !.ops = th.ops]]
             /\ UNCHANGED <<entry, initial>>

\* GetEgressIPs: the objects are listed from the API server.
List(t) ==
    /\ thread[t].pc = "list"
    /\ LET job   == Head(thread[t].jobs)
           calls == {[name |-> e, old |-> None, new |-> eips[e]] :
                        e \in {x \in EIPs : eips[x] # None /\ Concerned(job, eips[x])}}
       IN  IF calls = {} THEN JobDone(t, thread[t], Unknown(job))
           ELSE Goto(t, "lock", [thread[t] EXCEPT !.calls = calls]) /\ UNCHANGED <<entry, initial>>
    /\ UNCHANGED <<cache, HandlerVars>>

ListFails(t) ==
    /\ thread[t].pc = "list"
    /\ APIFails
    /\ JobDone(t, thread[t], TRUE)
    /\ UNCHANGED <<scenario, nodes, eips, reach, events, seen, cache, mutex, changes, restarts>>

-----------------------------------------------------------------------------
(***************************************************************************)
(* reconcileEgressIP.                                                      *)
(***************************************************************************)

\* The status the call starts from, and the IPs it is to assign.
CallStatus(call) == IF call.new # None THEN call.new.status ELSE call.old.status

CallSpec(call) == IF call.new # None THEN call.new.spec ELSE {}

KeptStatus(c, call) ==
    {s \in CallStatus(call) : ValidStatus(c, call.name, s) /\ s.ip \in CallSpec(call)}

\* The IPs that are requested and not assigned; while others are to be
\* removed, only those that are moved.
IPsToAssign(call, keep, remove) ==
    LET ips == CallSpec(call) \ {s.ip : s \in keep}
    IN  IF remove = {} THEN ips ELSE ips \cap {s.ip : s \in remove}

\* The mutex is taken, the status is validated, and what is to be removed is
\* removed from the cache.
Validate(t) ==
    /\ thread[t].pc = "lock" /\ mutex = None
    /\ mutex' = t
    /\ \E call \in thread[t].calls :
           LET keep   == KeptStatus(cache, call)
               remove == CallStatus(call) \ keep
           IN  /\ cache' = DeleteAssignments(cache, remove)
               /\ Goto(t, "assign", [thread[t] EXCEPT !.call = call, !.keep = keep, !.remove = remove,
                                                      !.ips = IPsToAssign(call, keep, remove)])
    /\ UNCHANGED <<scenario, nodes, eips, reach, events, seen, entry, initial, changes, failures, restarts>>

Assign(t) ==
    /\ thread[t].pc = "assign"
    /\ \E r \in IF thread[t].ips = {} THEN {[cache |-> cache, items |-> {}]}
                ELSE AssignEgressIPs(cache, thread[t].call.name, thread[t].ips) :
           /\ cache' = r.cache
           /\ Goto(t, "keep", [thread[t] EXCEPT !.add = r.items, !.ips = {}])
    /\ UNCHANGED <<entry, initial, HandlerVars>>

Keep(t) ==
    /\ thread[t].pc = "keep"
    /\ LET th == thread[t]
       IN  /\ cache' = AddAssignments(cache, th.call.name, th.keep \cup th.add)
           /\ Goto(t, "patch", th)
    /\ UNCHANGED <<entry, initial, HandlerVars>>

\* reconcileEgressIP has returned; err says whether this or an earlier call
\* for the same job failed.
CallDone(t, failed) ==
    LET th   == thread[t]
        rest == th.calls \ {th.call}
        err  == th.err \/ failed
    IN  /\ mutex' = None
        /\ IF rest # {}
           THEN /\ thread' = [thread EXCEPT ![t] =
                      [Idle EXCEPT !.pc = "lock", !.retry = th.retry, !.calls = rest, !.err = err,
                                   !.ops = th.ops, !.jobs = th.jobs]]
                /\ UNCHANGED <<entry, initial>>
           ELSE IF th.jobs = <<>> THEN Returned(t, th, err) ELSE JobDone(t, th, err)

\* The object's status is replaced when something was added or removed,
\* except for an object that is being deleted.
NeedsPatch(th) == th.add # {} \/ (th.remove # {} /\ th.call.new # None)

Patch(t) ==
    /\ thread[t].pc = "patch"
    /\ LET th   == thread[t]
           e    == th.call.name
           eip  == [eips[e] EXCEPT !.status = th.keep \cup th.add]
       IN  IF ~NeedsPatch(th) THEN CallDone(t, FALSE) /\ UNCHANGED <<eips, events>>
           ELSE IF eips[e] = None THEN CallDone(t, TRUE) /\ UNCHANGED <<eips, events>>
           ELSE /\ eips' = [eips EXCEPT ![e] = eip]
                /\ events' = IF eip = eips[e] THEN events ELSE [events EXCEPT ![e] = Append(@, eip)]
                /\ CallDone(t, FALSE)
    /\ UNCHANGED <<scenario, nodes, reach, seen, cache, changes, failures, restarts>>

PatchFails(t) ==
    /\ thread[t].pc = "patch" /\ NeedsPatch(thread[t])
    /\ APIFails
    /\ CallDone(t, TRUE)
    /\ UNCHANGED <<scenario, nodes, eips, reach, events, seen, cache, changes, restarts>>

-----------------------------------------------------------------------------

\* A process that starts: everything that exists is still to be added, nodes
\* first.
Restart ==
    /\ restarts < scenario.MaxRestarts /\ restarts' = restarts + 1
    /\ cache' = [n \in Nodes |-> None]
    /\ mutex' = None
    /\ thread' = [t \in Threads |-> Idle]
    /\ seen' = [k \in Workers |-> None]
    /\ entry' = [k \in Workers |-> NoEntry]
    /\ events' = [k \in Workers |-> IF Latest(k) = None THEN <<>> ELSE <<Latest(k)>>]
    /\ initial' = {n \in Nodes : nodes[n] # None}
    /\ UNCHANGED <<scenario, nodes, eips, reach, changes, failures>>

\* The cache of a controller that has added the objects of scenario sc.
WarmCache(sc) ==
    [n \in Nodes |->
        LET node == sc.nodes[n]
            of(ip) == {e \in EIPs : sc.eips[e] # None /\ [ip |-> ip, node |-> n] \in sc.eips[e].status}
        IN  IF node = None \/ ~node.annotated THEN None
            ELSE [allocations |-> [ip \in IPs |-> IF of(ip) = {} THEN None ELSE CHOOSE e \in of(ip) : TRUE],
                  isEgressAssignable |-> node.label, isReady |-> node.ready,
                  isReachable |-> node.label /\ node.ready]]

Init ==
    /\ scenario \in Scenarios
    /\ nodes = scenario.nodes /\ eips = scenario.eips /\ reach = [n \in Nodes |-> TRUE]
    /\ LET obj(k) == IF k \in Nodes THEN scenario.nodes[k] ELSE scenario.eips[k]
       IN  /\ events = [k \in Workers |-> IF scenario.warm \/ obj(k) = None THEN <<>> ELSE <<obj(k)>>]
           /\ seen = [k \in Workers |-> IF scenario.warm THEN obj(k) ELSE None]
    /\ entry = [k \in Workers |-> NoEntry]
    /\ initial = {n \in Nodes : ~scenario.warm /\ scenario.nodes[n] # None}
    /\ cache = IF scenario.warm THEN WarmCache(scenario) ELSE [n \in Nodes |-> None]
    /\ mutex = None
    /\ thread = [t \in Threads |-> Idle]
    /\ changes = 0 /\ failures = 0 /\ restarts = 0

Environment ==
    \/ \E n \in Nodes : CreateNode(n) \/ DeleteNode(n) \/ ChangeNode(n) \/ ChangeReach(n)
    \/ \E e \in EIPs : CreateEIP(e) \/ UpdateEIP(e) \/ DeleteEIP(e)
    \/ Restart

WorkerStep(k) ==
    \/ HandleEvent(k) \/ Retry(k)
    \/ NodeLabel(k) \/ NodeAdded(k) \/ NodeUpdated(k) \/ NodeDeleted(k)

CallStep(t) == List(t) \/ Validate(t) \/ Assign(t) \/ Keep(t) \/ Patch(t)

Failure(t) == ListFails(t) \/ PatchFails(t)

System ==
    \/ CheckReachability
    \/ \E k \in Workers : WorkerStep(k)
    \/ \E t \in Threads : CallStep(t)

Next == Environment \/ System \/ (\E t \in Threads : Failure(t))

Spec == Init /\ [][Next]_vars

\* While some goroutine can take a step, one of them eventually does.
FairSpec == Spec /\ WF_vars(System)

-----------------------------------------------------------------------------

ThreadState ==
    [pc : {"idle", "op", "probed", "list", "lock", "assign", "keep", "patch"}, retry : BOOLEAN,
     ops : Seq(Op), jobs : Seq(Job), calls : SUBSET Call, call : Call \cup {None},
     reachable : BOOLEAN, keep : SUBSET StatusItem, remove : SUBSET StatusItem,
     ips : SUBSET IPs, add : SUBSET StatusItem, err : BOOLEAN]

\* Type correctness.
TypeOK ==
    /\ nodes \in [Nodes -> NodeObject \cup {None}]
    /\ eips \in [EIPs -> EIPObject \cup {None}]
    /\ reach \in [Nodes -> BOOLEAN]
    /\ \A k \in Workers : events[k] \in Seq(Object) /\ seen[k] \in Object /\ entry[k] \in Entry
    /\ initial \subseteq Nodes
    /\ cache \in [Nodes -> EgressNode \cup {None}]
    /\ mutex \in Threads \cup {None}
    /\ \A t \in Threads : thread[t] \in ThreadState
    /\ scenario \in Scenarios /\ changes \in Nat /\ failures \in Nat /\ restarts \in Nat

\* Nothing is left to do: no event, no retry and no node whose probe answers
\* differently from what the cache says.
Settled ==
    /\ \A t \in Threads : thread[t].pc = "idle"
    /\ \A k \in Workers : events[k] = <<>> /\ entry[k] = NoEntry
    /\ initial = {}
    /\ \A n \in Nodes : InUse(n) => cache[n].isReachable = reach[n]

Statuses == {x \in EIPs \X StatusItem : eips[x[1]] # None /\ x[2] \in eips[x[1]].status}

Usable(node, n, ip) == node # None /\ node.label /\ node.ready /\ reach[n] /\ CanHost(node, ip)

\* Once the controller is idle, every egress IP in a status is one the spec
\* asks for, on a node that is labelled, ready, reachable and able to host it,
\* although node events, EgressIP events and the probe loop reconcile snapshots
\* they took before they got the mutex.  Nodes that are unlabelled and deleted
\* are left to NotOnGoneNodes, nodes that become ready or not while they are not
\* labelled to OnReadyNodes, and a failed call of the API server is excluded
\* because the probe loop does not repeat what failed.
OnUsableNodes ==
    (Settled /\ failures = 0 /\ ~({"label", "ready"} \subseteq scenario.aspects)) =>
        \A x \in Statuses :
            ("label" \in scenario.aspects => x[2].node \notin scenario.deleted) =>
                Usable(nodes[x[2].node], x[2].node, x[2].ip) /\ x[2].ip \in eips[x[1]].spec

\* assignEgressIPs, constraint d: an idle controller has not left two IPs of one
\* EgressIP on the same node, as long as it has not been restarted.
OnePerNode ==
    (Settled /\ failures = 0 /\ restarts = 0) =>
        \A x, y \in Statuses : (x[1] = y[1] /\ x[2].node = y[2].node) => x = y

\* Assignment x, which goroutine t makes for this EgressIP in a step, is allowed.
AssignedSoundly(t, name, x) ==
    /\ x.ip \in thread[t].ips /\ CanHost(nodes[x.node], x.ip) /\ ~AddrConflict(x.ip)
    /\ \/ cache[x.node] # None /\ cache[x.node].allocations[x.ip] = name
       \/ /\ \A n \in Nodes : cache[n] # None => cache[n].allocations[x.ip] = None
          /\ IsAssignable(cache, x.node)
          /\ AllocationCount(cache, x.node, name) = 0 /\ AllocationCount(cache', x.node, name) = 1
          /\ \A y \in thread'[t].add : y.node = x.node => y = x

\* The constraints a to d of assignEgressIPs, of every assignment that is made: the
\* node can host the IP, which is no host's, the IP is recorded for this
\* EgressIP already or for nobody, and a node that is not recorded is one that can
\* be assigned to and has no other IP of this EgressIP, before and afterwards.
AssignmentConstraints ==
    [][\A t \in Threads : thread[t].pc = "assign" /\ thread'[t].pc = "keep" =>
          \A x \in thread'[t].add : AssignedSoundly(t, thread[t].call.name, x)]_vars

\* The allocations of the cache are the assignments in the statuses.
Synchronized ==
    \A n \in Nodes, ip \in IPs : cache[n] # None /\ cache[n].allocations[ip] # None =>
        <<cache[n].allocations[ip], [ip |-> ip, node |-> n]>> \in Statuses

\* The IPs an EgressIP asks for at some time.
AsksFor(e) ==
    (IF scenario.eips[e] = None THEN {} ELSE scenario.eips[e].spec)
        \cup (IF scenario.eips[e] = None /\ e \notin scenario.created THEN {} ELSE UNION scenario.specs)

\* Node n may at some time have kept the IP from being assigned to any node: its
\* host addresses were not known, or the IP was one of them.
RuledOutBy(n, ip) ==
    \E node \in {scenario.nodes[n]} \cup (IF n \in scenario.created THEN scenario.forms ELSE {}) :
        /\ node # None
        /\ ~node.annotated \/ ip \in node.addrs \/ ("addrs" \in scenario.aspects /\ ip \in Addrs)

\* An idle controller leaves no EgressIP unassigned for which there is a usable
\* node, although the node, its label, its state and its annotations may have come
\* in any order, and while a reconciliation was going on.  The one thing that need
\* not lead to a reconciliation is the end of a conflict with a host address: an
\* assignment that was given up because of some other node's addresses
\* (isEgressIPAddrConflict) stays given up when that node is annotated or loses the
\* address while it is not labelled, not ready or not reachable, or is deleted.  So
\* every node that may have ruled the IP out has to be in use.  An IP that
\* another EgressIP asks for, or has given up, is not considered, and neither are
\* allocations that nobody takes out of the cache, which are left to CacheInSync.
ServedWhenSettled ==
    (Settled /\ failures = 0 /\ Synchronized) =>
        \A e \in EIPs, ip \in IPs, n \in Nodes :
            ~ /\ eips[e] # None /\ eips[e].status = {} /\ eips[e].spec = {ip}
              /\ \A f \in EIPs \ {e} : ip \notin AsksFor(f)
              /\ Usable(nodes[n], n, ip) /\ ~AddrConflict(ip)
              /\ \A m \in Nodes : RuledOutBy(m, ip) =>
                     nodes[m] # None /\ nodes[m].label /\ nodes[m].ready /\ reach[m]

\* The controller comes to rest: the events that its own patches cause, the
\* retries and the probe loop do not keep moving an egress IP around.
EventuallySettled == <>[]Settled

\* deleteEgressNode: an idle controller has moved everything off a deleted node.
NotOnGoneNodes == Settled => \A x \in Statuses : nodes[x[2].node] # None

\* UpdateResource, of a node that has been labelled and is not ready: it cannot be
\* used for egress assignment.
OnReadyNodes ==
    (Settled /\ failures = 0) => \A x \in Statuses : nodes[x[2].node] # None => nodes[x[2].node].ready

\* addAllocatorEgressIPAssignments: an idle controller's cache tracks the
\* assignments that have been performed, and no others.
CacheInSync == (Settled /\ failures = 0) => Synchronized

=============================================================================
