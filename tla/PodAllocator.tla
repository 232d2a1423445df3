---------------------------- MODULE PodAllocator ----------------------------
(***************************************************************************)
(* Allocation of IPs and tunnel IDs to the pods of a secondary network by  *)
(* the cluster manager (go-controller/pkg/clustermanager/pod, allocator.go *)
(* and pkg/allocator/pod, pod_annotation.go), on top of the ID allocator   *)
(* (pkg/allocator/id) and the subnet allocator (pkg/allocator/ip/subnet).  *)
(* The annotation of a pod is the only record of what it was given: the    *)
(* allocators live in memory and are filled again from the annotations     *)
(* when the cluster manager starts.                                        *)
(*                                                                         *)
(* The API server keeps, for every pod name, the versions its pod has gone *)
(* through; the informer's cache has reached one of them and the handlers  *)
(* an earlier one.  Events of a name are handled in order and one at a     *)
(* time (QueueMap), events of different names concurrently.  A call of     *)
(* AllocateID, ReserveID or ReleaseID is one step: it looks up a name that *)
(* nobody else uses at the time, and changes the bitmap once.  The subnet  *)
(* allocator takes one IP per subnet, each a step of its own.              *)
(***************************************************************************)
EXTENDS Bitmap, Sequences

CONSTANTS Names,       \* pod names
          Networks,    \* what the network may require: IPAM, tunnel IDs
          NumSubnets,  \* subnets of the network, one IP of each per pod
          MaxIPs,      \* usable offsets of a subnet
          Excluded,    \* Excluded[s]: offsets of subnet s excluded from allocation
          MaxIDs,      \* tunnel IDs, 0 included
          MaxTries,    \* Steps of OvnConflictBackoff, 2 in the code
          MaxPods,     \* bound: pods created under one name
          MaxChanges,  \* bound: changes of pods by others, and restarts
          MaxFailures, \* bound: failures of the API server
          MaxRestarts, \* bound: restarts of the cluster manager
          None         \* nil

ASSUME NetworksKnown == Networks \subseteq [ipam : BOOLEAN, ids : BOOLEAN]
ASSUME PoolsNotEmpty == NumSubnets \in Nat \ {0} /\ MaxIPs \in Nat \ {0} /\ MaxIDs \in Nat \ {0}
ASSUME ExcludedInRange == Excluded \in [1 .. NumSubnets -> SUBSET (0 .. MaxIPs - 1)]
ASSUME MaxTriesIsPositive == MaxTries \in Nat \ {0}
ASSUME BoundsAreNat == {MaxPods, MaxChanges, MaxFailures, MaxRestarts} \subseteq Nat

Subnets == 1 .. NumSubnets
Offset == 0 .. MaxIPs - 1
ID == 0 .. MaxIDs - 1

\* The name under which a pod's tunnel ID is allocated: podIdAllocationName.
UID == Names \X (1 .. MaxPods)

\* The IPs of a pod by subnet; None where there is none.
IPs == [Subnets -> Offset \cup {None}]
NoIPs == [s \in Subnets |-> None]

\* The pod annotation; id is 0 on a network without tunnel IDs.
PodAnnotation == [ips : IPs, id : ID]

Phase == {"unscheduled", "scheduled", "completed"}

\* A version of a pod.
Pod == [uid : 1 .. MaxPods, phase : Phase, annotation : PodAnnotation \cup {None}]

ASSUME NoneIsNil == None \notin Offset \cup PodAnnotation \cup Pod

\* A call of AllocatePodAnnotationWithTunnelID: the pod it is for, the version
\* the lister gave, and what a rollback releases (releaseIPs, releaseID).
Call == [stage : {"idle", "start", "ips", "update", "rollback"}, uid : 0 .. MaxPods,
         try : 0 .. MaxTries, version : Nat, ips : IPs, id : ID,
         why : {"ok", "allocated", "full", "conflict", "failed"}]

IdleCall == [stage |-> "idle", uid |-> 0, try |-> 0, version |-> 0,
             ips |-> NoIPs, id |-> 0, why |-> "ok"]

Deviation == {"sync allocated", "sync missed", "reserve failed", "call failed", "reply lost"}

VARIABLES network,     \* what the network requires
          log,         \* log[n]: the versions of the pods of name n, None after a delete
          cached,      \* cached[n]: the version in the informer's cache
          handled,     \* handled[n]: the version whose event was handled last
          todo,        \* todo[n]: what starting has left to do for n: "sync", "add", "none"
          ipams,       \* ipams[s]: the bitmap of subnet s
          idBitmap,    \* the bitmap of tunnel IDs
          nameIdMap,   \* nameIdMap[u]: the ID of u, 0 if it has none
          releasedPods,\* the pods released but not deleted
          call,        \* call[n]: the call in progress for n
          changes, failures, restarts,
          untimely,    \* history: pods allocated to when not scheduled, completed or released
          deviations   \* history: what has happened that uniqueness does not survive

allocators == <<ipams, idBitmap, nameIdMap>>
bounds == <<changes, failures, restarts>>
history == <<untimely, deviations>>
vars == <<network, log, cached, handled, todo, allocators, releasedPods, call, bounds, history>>

TypeOK == /\ network \in Networks
          /\ log \in [Names -> Seq(Pod \cup {None})]
          /\ handled \in [Names -> Nat] /\ cached \in [Names -> Nat]
          /\ \A n \in Names : handled[n] <= cached[n] /\ cached[n] <= Len(log[n])
          /\ todo \in [Names -> {"sync", "add", "none"}]
          /\ ipams \in [Subnets -> AllocationBitmap(MaxIPs)]
          /\ idBitmap \in AllocationBitmap(MaxIDs)
          /\ nameIdMap \in [UID -> ID]
          /\ releasedPods \subseteq UID
          /\ call \in [Names -> Call]
          /\ changes \in 0 .. MaxChanges
          /\ failures \in 0 .. MaxFailures
          /\ restarts \in 0 .. MaxRestarts
          /\ untimely \subseteq UID
          /\ deviations \subseteq Deviation

\* The pod of name n at version v.
At(n, v) == IF v = 0 THEN None ELSE log[n][v]

\* What NewPodAllocator and its Init set up; ID 0 is reserved for "zero".
NewIPAMs == [s \in Subnets |-> NewBitmap(Excluded[s])]
NewIDBitmap == NewBitmap({0})
NoNames == [u \in UID |-> 0]
NoCalls == [n \in Names |-> IdleCall]

Init == /\ network \in Networks
        /\ log = [n \in Names |-> <<>>]
        /\ cached = [n \in Names |-> 0]
        /\ handled = [n \in Names |-> 0]
        /\ todo = [n \in Names |-> "none"]
        /\ ipams = NewIPAMs /\ idBitmap = NewIDBitmap /\ nameIdMap = NoNames
        /\ releasedPods = {} /\ call = NoCalls
        /\ changes = 0 /\ failures = 0 /\ restarts = 0
        /\ untimely = {} /\ deviations = {}

-----------------------------------------------------------------------------
(***************************************************************************)
(* The API server and the informer's cache                                 *)
(***************************************************************************)

Latest(n) == At(n, Len(log[n]))

Change(n, pod) == /\ changes < MaxChanges
                  /\ changes' = changes + 1
                  /\ log' = [log EXCEPT ![n] = Append(@, pod)]
                  /\ UNCHANGED <<network, cached, handled, todo, allocators, releasedPods, call,
                                 failures, restarts, history>>

\* The number of pods created under a name.
Created(n) == LET uids == {log[n][v].uid : v \in {v \in DOMAIN log[n] : log[n][v] # None}}
              IN IF uids = {} THEN 0 ELSE CHOOSE k \in uids : \A other \in uids : other <= k

CreatePod(n) == /\ Latest(n) = None
                /\ Created(n) < MaxPods
                /\ \E p \in {"unscheduled", "scheduled"} :
                       Change(n, [uid |-> Created(n) + 1, phase |-> p, annotation |-> None])

\* The scheduler binds the pod, or the kubelet changes its status.
UpdatePod(n) == /\ Latest(n) # None
                /\ Latest(n).phase # "completed"
                /\ Change(n, [Latest(n) EXCEPT !.phase = "scheduled"])

\* The pod succeeds or fails; it may fail before it has its network.
CompletePod(n) == /\ Latest(n) # None
                  /\ Latest(n).phase = "scheduled"
                  /\ Change(n, [Latest(n) EXCEPT !.phase = "completed"])

DeletePod(n) == /\ Latest(n) # None
                /\ Change(n, None)

\* The watch brings the next version into the cache.
Watch(n) == /\ cached[n] < Len(log[n])
            /\ cached' = [cached EXCEPT ![n] = @ + 1]
            /\ UNCHANGED <<network, log, handled, todo, allocators, releasedPods, call, bounds, history>>

-----------------------------------------------------------------------------
(***************************************************************************)
(* The ID allocator                                                        *)
(***************************************************************************)

AllocateID(u) == /\ IF nameIdMap[u] # 0 THEN UNCHANGED <<idBitmap, nameIdMap>>
                    ELSE /\ ~Full(idBitmap, MaxIDs)
                         /\ idBitmap' = AllocateNext(idBitmap, MaxIDs)
                         /\ nameIdMap' = [nameIdMap EXCEPT ![u] = AllocateBit(idBitmap, MaxIDs)]

CanReserveID(u, id) == IF nameIdMap[u] # 0 THEN nameIdMap[u] = id ELSE id \notin idBitmap.allocated

ReserveID(u, id) == /\ CanReserveID(u, id)
                    /\ idBitmap' = Allocate(idBitmap, id)
                    /\ nameIdMap' = [nameIdMap EXCEPT ![u] = id]

\* Fault: the name keeps the ID.
ReleaseIDKeepsName(u) == /\ idBitmap' = Release(idBitmap, nameIdMap[u])
                         /\ UNCHANGED nameIdMap

ReleaseID(u) == IF nameIdMap[u] = 0 THEN UNCHANGED <<idBitmap, nameIdMap>>
                ELSE /\ idBitmap' = Release(idBitmap, nameIdMap[u])
                     /\ nameIdMap' = [nameIdMap EXCEPT ![u] = 0]

\* ReleaseIPs of the subnet allocator.
ReleaseIPs(ips) == ipams' = [s \in Subnets |-> IF ips[s] = None THEN ipams[s]
                                               ELSE Release(ipams[s], ips[s])]

-----------------------------------------------------------------------------
(***************************************************************************)
(* Events                                                                  *)
(***************************************************************************)

\* The item of Sync or the event of n is done with.
Done(n) == IF todo[n] = "sync"
           THEN todo' = [todo EXCEPT ![n] = "add"] /\ UNCHANGED handled
           ELSE /\ todo' = [todo EXCEPT ![n] = "none"]
                /\ handled' = [handled EXCEPT ![n] = @ + 1]

\* Sync goes through the listed pods one by one, then they are added, then
\* events are delivered.
MayHandle(n) == /\ call[n].stage = "idle"
                /\ \A m \in Names : todo[n] = "none" => todo[m] = "none"
                /\ \A m \in Names : todo[n] # "sync" => todo[m] # "sync"
                /\ todo[n] = "sync" => \A m \in Names : call[m].stage = "idle"
                /\ handled[n] < cached[n]

Event(n) == [old |-> At(n, handled[n]), new |-> At(n, handled[n] + 1)]

\* Fault: the old pod wins over the new one.
ReconciledOld(n) == IF todo[n] # "none" \/ Event(n).old = None THEN Event(n).new ELSE Event(n).old

\* The pod reconcile is called with: an update is handled with the latest pod
\* in the cache, if there is one.
Reconciled(n) == IF todo[n] # "none" \/ Event(n).old = None THEN Event(n).new
                 ELSE IF Event(n).new = None THEN Event(n).old
                 ELSE At(n, cached[n])

IsDelete(n) == todo[n] = "none" /\ Event(n).new = None

\* Nothing to do: the pod is gone from the cache, or not scheduled.
Ignore(n) == /\ MayHandle(n)
             /\ Reconciled(n) # None => Reconciled(n).phase = "unscheduled"
             /\ Done(n)
             /\ UNCHANGED <<network, log, cached, allocators, releasedPods, call, bounds, history>>

\* releasePodOnNAD: Sync only remembers that a completed pod is released.
ReleasePodOnNAD(n) ==
    LET pod == Reconciled(n)
        u == <<n, pod.uid>>
        doRelease == todo[n] # "sync" /\ u \notin releasedPods
    IN /\ MayHandle(n)
       /\ pod # None
       /\ pod.phase # "unscheduled"
       /\ IsDelete(n) \/ pod.phase = "completed"
       /\ IF doRelease THEN ReleaseID(u) ELSE UNCHANGED <<idBitmap, nameIdMap>>
       /\ IF doRelease /\ pod.annotation # None THEN ReleaseIPs(pod.annotation.ips)
                                                ELSE UNCHANGED ipams
       /\ releasedPods' = IF IsDelete(n) THEN releasedPods \ {u} ELSE releasedPods \cup {u}
       /\ Done(n)
       /\ UNCHANGED <<network, log, cached, call, bounds, history>>

\* allocatePodOnNAD begins.
AllocatePodOnNAD(n) ==
    /\ MayHandle(n)
    /\ ~IsDelete(n)
    /\ Reconciled(n) # None
    /\ Reconciled(n).phase = "scheduled"
    /\ call' = [call EXCEPT ![n] = [IdleCall EXCEPT !.stage = "start", !.uid = Reconciled(n).uid, !.try = 1]]
    /\ UNCHANGED <<network, log, cached, handled, todo, allocators, releasedPods, bounds, history>>

-----------------------------------------------------------------------------
(***************************************************************************)
(* Allocation of the annotation                                            *)
(***************************************************************************)

\* The call returns; its error, if any, is logged and dropped by the handler.
Return(n) == /\ call' = [call EXCEPT ![n] = IdleCall]
             /\ Done(n)

Goto(n, stage, changed) == /\ call' = [call EXCEPT ![n] = [changed EXCEPT !.stage = stage]]
                           /\ UNCHANGED <<handled, todo>>

Note(ds) == deviations' = deviations \cup ds /\ UNCHANGED untimely

\* The pod the lister gave to the call.
Copy(n) == At(n, call[n].version)

\* The lister does not find the pod.
GetFails(n) == /\ call[n].stage = "start"
               /\ At(n, cached[n]) = None
               /\ Return(n)
               /\ Note(IF todo[n] = "sync" THEN {"sync missed"} ELSE {})
               /\ UNCHANGED <<network, log, cached, allocators, releasedPods, bounds>>

\* Sync goes by the pod the lister has now, not by the one that it listed.
SyncMissed(n, pod) == IF todo[n] = "sync" /\ pod.uid # call[n].uid THEN {"sync missed"} ELSE {}

\* The pod is read from the lister, and its tunnel ID allocated or reserved.
\* Without IPAM the annotation has a MAC and the ID only.
AssignID(n) ==
    LET pod == At(n, cached[n])
        u == <<n, call[n].uid>>
        tentative == [call[n] EXCEPT !.version = cached[n], !.id = nameIdMap'[u]]
    IN /\ call[n].stage = "start"
       /\ pod # None
       /\ IF ~network.ids THEN UNCHANGED <<idBitmap, nameIdMap>>
          ELSE IF pod.annotation = None THEN AllocateID(u) ELSE ReserveID(u, pod.annotation.id)
       /\ IF network.ipam THEN Goto(n, "ips", tentative)
          ELSE IF pod.annotation = None THEN Goto(n, "update", tentative)
          ELSE Return(n)
       /\ untimely' = untimely \cup ({<<n, pod.uid>>} \cap releasedPods)
       /\ deviations' = deviations
              \cup (IF todo[n] = "sync" /\ pod.annotation = None THEN {"sync allocated"} ELSE {})
              \cup SyncMissed(n, pod)
       /\ UNCHANGED <<network, log, cached, ipams, releasedPods, bounds>>

\* There is no tunnel ID left, or the annotated one is another pod's.
AssignIDFails(n) ==
    LET pod == At(n, cached[n])
        u == <<n, call[n].uid>>
    IN /\ call[n].stage = "start"
       /\ pod # None
       /\ network.ids
       /\ IF pod.annotation = None THEN nameIdMap[u] = 0 /\ Full(idBitmap, MaxIDs)
                                   ELSE ~CanReserveID(u, pod.annotation.id)
       /\ Return(n)
       /\ Note((IF pod.annotation = None THEN {"call failed"} ELSE {"reserve failed"}) \cup SyncMissed(n, pod))
       /\ UNCHANGED <<network, log, cached, allocators, releasedPods, bounds>>

\* The subnet whose turn it is in AllocateIPs and AllocateNextIPs.
Turn(n, s) == /\ call[n].stage = "ips"
              /\ \A r \in Subnets : call[n].ips[r] = None <=> r >= s

\* An IP is reserved that the pod is annotated with.  Once all are, there is
\* nothing to update.
AllocateIP(n, s) ==
    LET ip == Copy(n).annotation.ips[s]
    IN /\ Turn(n, s)
       /\ Copy(n).annotation # None
       /\ ip \notin ipams[s].allocated
       /\ ipams' = [ipams EXCEPT ![s] = Allocate(@, ip)]
       /\ IF s = NumSubnets THEN Return(n)
          ELSE Goto(n, "ips", [call[n] EXCEPT !.ips[s] = ip])
       /\ UNCHANGED <<network, log, cached, idBitmap, nameIdMap, releasedPods, bounds, history>>

\* Fault: the annotated IPs are released although others were first.
ErrAllocatedReleased(n, s) ==
    /\ Turn(n, s)
    /\ Copy(n).annotation # None
    /\ Copy(n).annotation.ips[s] \in ipams[s].allocated
    /\ Goto(n, "rollback", [call[n] EXCEPT !.why = "allocated", !.ips = Copy(n).annotation.ips])
    /\ UNCHANGED <<network, log, cached, allocators, releasedPods, bounds, history>>

\* ErrAllocated: the IPs of this call are released, and the error is ignored.
ErrAllocated(n, s) ==
    /\ Turn(n, s)
    /\ Copy(n).annotation # None
    /\ Copy(n).annotation.ips[s] \in ipams[s].allocated
    /\ Goto(n, "rollback", [call[n] EXCEPT !.why = "allocated"])
    /\ UNCHANGED <<network, log, cached, allocators, releasedPods, bounds, history>>

\* A free IP is taken.
AllocateNextIP(n, s) ==
    LET ip == AllocateBit(ipams[s], MaxIPs)
    IN /\ Turn(n, s)
       /\ Copy(n).annotation = None
       /\ ~Full(ipams[s], MaxIPs)
       /\ ipams' = [ipams EXCEPT ![s] = AllocateNext(@, MaxIPs)]
       /\ Goto(n, IF s = NumSubnets THEN "update" ELSE "ips", [call[n] EXCEPT !.ips[s] = ip])
       /\ UNCHANGED <<network, log, cached, idBitmap, nameIdMap, releasedPods, bounds, history>>

ErrFull(n, s) ==
    /\ Turn(n, s)
    /\ Copy(n).annotation = None
    /\ Full(ipams[s], MaxIPs)
    /\ Goto(n, "rollback", [call[n] EXCEPT !.why = "full"])
    /\ Note({"call failed"})
    /\ UNCHANGED <<network, log, cached, allocators, releasedPods, bounds>>

\* The API server stores the annotation of the version it has.
Store(n) ==
    LET pod == [Copy(n) EXCEPT !.annotation = [ips |-> call[n].ips, id |-> call[n].id]]
    IN /\ call[n].stage = "update"
       /\ call[n].version = Len(log[n])
       /\ log' = [log EXCEPT ![n] = Append(@, pod)]
       /\ untimely' = untimely \cup (IF pod.phase # "scheduled" THEN {<<n, pod.uid>>} ELSE {})

UpdatePodStatus(n) ==
    /\ Store(n)
    /\ Return(n)
    /\ UNCHANGED <<network, cached, allocators, releasedPods, bounds, deviations>>

\* It refuses an older one, and one of a pod that is gone.
UpdateRefused(n) ==
    /\ call[n].stage = "update"
    /\ call[n].version # Len(log[n])
    /\ Goto(n, "rollback", [call[n] EXCEPT !.why = IF Latest(n) = None THEN "failed" ELSE "conflict"])
    /\ UNCHANGED <<network, log, cached, allocators, releasedPods, bounds, history>>

\* It fails without having done anything.
UpdateFails(n) ==
    /\ call[n].stage = "update"
    /\ failures < MaxFailures
    /\ failures' = failures + 1
    /\ Goto(n, "rollback", [call[n] EXCEPT !.why = "failed"])
    /\ Note({"call failed"})
    /\ UNCHANGED <<network, log, cached, allocators, releasedPods, changes, restarts>>

\* It has stored the annotation and the call fails: the reply is lost, or does
\* not come in time.  What the pod is annotated with is rolled back, too.
ReplyLost(n) ==
    /\ Store(n)
    /\ failures < MaxFailures
    /\ failures' = failures + 1
    /\ Goto(n, "rollback", [call[n] EXCEPT !.why = "failed"])
    /\ deviations' = deviations \cup {"reply lost"}
    /\ UNCHANGED <<network, cached, allocators, releasedPods, changes, restarts>>

\* Fault: the rollback function forgets the IPs.
RollbackIDOnly(n) ==
    LET again == call[n].why = "conflict" /\ call[n].try < MaxTries
    IN /\ call[n].stage = "rollback"
       /\ IF call[n].why # "allocated" THEN ReleaseID(<<n, call[n].uid>>)
                                       ELSE UNCHANGED <<idBitmap, nameIdMap>>
       /\ IF again THEN Goto(n, "start", [IdleCall EXCEPT !.uid = call[n].uid, !.try = call[n].try + 1])
                   ELSE Return(n)
       /\ UNCHANGED <<network, log, cached, ipams, releasedPods, bounds, history>>

\* What the call has allocated is released: by the subnet allocator alone if
\* its error is ignored, by the rollback function otherwise, which also
\* releases the tunnel ID.  After a conflict the call tries again.
Rollback(n) ==
    LET again == call[n].why = "conflict" /\ call[n].try < MaxTries
    IN /\ call[n].stage = "rollback"
       /\ ReleaseIPs(call[n].ips)
       /\ IF call[n].why # "allocated" /\ call[n].id # 0
          THEN ReleaseID(<<n, call[n].uid>>) ELSE UNCHANGED <<idBitmap, nameIdMap>>
       /\ IF again THEN Goto(n, "start", [IdleCall EXCEPT !.uid = call[n].uid, !.try = call[n].try + 1])
                   ELSE Return(n)
       /\ UNCHANGED <<network, log, cached, releasedPods, bounds, history>>

-----------------------------------------------------------------------------

\* The cluster manager starts anew: it lists the pods and has everything to
\* do for them.
Restart == /\ restarts < MaxRestarts
           /\ changes < MaxChanges
           /\ restarts' = restarts + 1
           /\ changes' = changes + 1
           /\ ipams' = NewIPAMs /\ idBitmap' = NewIDBitmap /\ nameIdMap' = NoNames
           /\ releasedPods' = {} /\ call' = NoCalls
           /\ cached' = [n \in Names |-> Len(log[n])]
           /\ handled' = [n \in Names |-> IF Latest(n) = None THEN Len(log[n]) ELSE Len(log[n]) - 1]
           /\ todo' = [n \in Names |-> IF Latest(n) = None THEN "none" ELSE "sync"]
           /\ UNCHANGED <<network, log, failures, history>>

Handle(n) == \/ Ignore(n) \/ ReleasePodOnNAD(n) \/ AllocatePodOnNAD(n)
             \/ GetFails(n) \/ AssignID(n) \/ AssignIDFails(n)
             \/ \E s \in Subnets : \/ AllocateIP(n, s) \/ ErrAllocated(n, s)
                                   \/ AllocateNextIP(n, s) \/ ErrFull(n, s)
             \/ UpdatePodStatus(n) \/ UpdateRefused(n) \/ Rollback(n)

Next == \/ \E n \in Names : \/ CreatePod(n) \/ UpdatePod(n) \/ CompletePod(n) \/ DeletePod(n)
                            \/ Watch(n) \/ Handle(n) \/ UpdateFails(n) \/ ReplyLost(n)
        \/ Restart

Spec == Init /\ [][Next]_vars

\* The watch goes on, handlers are called and calls return.
FairSpec == Spec /\ \A n \in Names : WF_vars(Watch(n)) /\ WF_vars(Handle(n))

-----------------------------------------------------------------------------
(***************************************************************************)
(* Properties                                                              *)
(***************************************************************************)

\* The names whose pod is annotated and not completed.
Annotated == {n \in Names : /\ Latest(n) # None
                            /\ Latest(n).phase # "completed"
                            /\ Latest(n).annotation # None}

SharesIP(n, m) == network.ipam /\ \E s \in Subnets : Latest(n).annotation.ips[s] = Latest(m).annotation.ips[s]

\* Nothing has happened that a restart does not recover from.
Recoverable == untimely = {} /\ deviations \subseteq {"call failed"}

\* No two running pods have an IP in common, whatever conflicts, late events and
\* name reuse their allocations have met, and whatever calls have failed that
\* the API server had not carried out.  The rollback after a lost reply gives an
\* annotated IP away, and nothing is said from then on; nor after a restart in
\* which Sync handed out an IP or missed one, a tunnel ID was found taken, or a
\* pod was annotated out of turn.
UniqueIPs ==
    "reply lost" \notin deviations /\ (restarts = 0 \/ Recoverable) =>
        \A n, m \in Annotated : n # m => ~SharesIP(n, m)

\* Nor have they after a restart, where Sync is "just trying to allocate
\* annotated IPs".
UniqueIPsAfterSync == \A n, m \in Annotated : n # m => ~SharesIP(n, m)

\* No two running pods have the same tunnel ID.
UniqueTunnelIDs == network.ids =>
    \A n, m \in Annotated : n # m => Latest(n).annotation.id # Latest(m).annotation.id

\* The ID bitmap has exactly the IDs of the names, and every ID one name.
IDsOfNames ==
    /\ idBitmap.allocated = {0} \cup {nameIdMap[u] : u \in UID}
    /\ \A u, v \in UID : u # v /\ nameIdMap[u] # 0 => nameIdMap[u] # nameIdMap[v]

\* Nothing is on its way.
AtRest == \A n \in Names : /\ handled[n] = Len(log[n])
                           /\ call[n].stage = "idle"

\* IPs of the versions in which pod u was annotated.
EverHad(u, s) == {log[u[1]][v].annotation.ips[s] :
    v \in {v \in DOMAIN log[u[1]] : /\ log[u[1]][v] # None
                                    /\ log[u[1]][v].uid = u[2]
                                    /\ log[u[1]][v].annotation # None}}

\* At rest every allocated IP is a running pod's: conflicts, failures, lost
\* replies and retries have given back what they took.  A pod that was annotated
\* while it was not scheduled, or completed, is left out here.
NoIPLeak == AtRest => \A s \in Subnets :
    ipams[s].allocated \subseteq Excluded[s]
        \cup {Latest(n).annotation.ips[s] : n \in Annotated}
        \cup UNION {EverHad(u, s) : u \in untimely}

\* A scheduled pod is annotated in the end, in a behaviour in which no call fails
\* for any pod.
EventuallyAnnotated == [](deviations = {}) => \A n \in Names :
    Latest(n) # None /\ Latest(n).phase = "scheduled" ~>
        Latest(n) = None \/ Latest(n).phase # "scheduled" \/ Latest(n).annotation # None

-----------------------------------------------------------------------------
(***************************************************************************)
(* The inductive invariant behind IDsOfNames and TypeOK                    *)
(***************************************************************************)

\* On a network with IPAM an annotation has an IP of every subnet.
AnnotatedInv ==
    network.ipam => \A n \in Names : \A v \in DOMAIN log[n] :
        log[n][v] # None /\ log[n][v].annotation # None =>
            log[n][v].annotation.ips \in [Subnets -> Offset]

\* A call is made for a pod, of an event that is not handled yet; while it
\* allocates and updates it has a copy of a pod, and it updates with an IP of
\* every subnet.
CallOK(n) ==
    /\ call[n].stage # "idle" => call[n].uid # 0 /\ handled[n] < cached[n]
    /\ call[n].stage = "ips" => network.ipam
    /\ call[n].stage \in {"ips", "update"} =>
           call[n].version \in DOMAIN log[n] /\ log[n][call[n].version] # None
    /\ call[n].stage = "update" /\ network.ipam => call[n].ips \in [Subnets -> Offset]

IndInv == TypeOK /\ AnnotatedInv /\ (\A n \in Names : CallOK(n)) /\ IDsOfNames
=============================================================================
