------------------------- MODULE PodAllocatorProofs -------------------------
(***************************************************************************)
(* Proofs about the allocation of IPs and tunnel IDs to pods, for any      *)
(* number of names, pods, subnets, IPs and tunnel IDs.                     *)
(***************************************************************************)
EXTENDS PodAllocator, BitmapProofs, TLAPS

-----------------------------------------------------------------------------
(***************************************************************************)
(* The ID allocator                                                        *)
(***************************************************************************)

\* What the ID allocator has to keep.
IDInv == /\ idBitmap \in AllocationBitmap(MaxIDs)
         /\ nameIdMap \in [UID -> ID]
         /\ IDsOfNames

\* AllocateID keeps the IDs of different names apart: it returns the name's own
\* ID, or takes one that no name has.
LEMMA AllocateIDKeeps ==
    ASSUME IDInv, NEW u \in UID, AllocateID(u)
    PROVE  IDInv' /\ nameIdMap'[u] \in ID
<1> USE DEF IDInv
<1>1. CASE nameIdMap[u] # 0
  BY <1>1 DEF AllocateID, IDsOfNames
<1>2. CASE nameIdMap[u] = 0
  <2> DEFINE id == AllocateBit(idBitmap, MaxIDs)
  <2>1. /\ ~Full(idBitmap, MaxIDs)
        /\ idBitmap' = AllocateNext(idBitmap, MaxIDs)
        /\ nameIdMap' = [nameIdMap EXCEPT ![u] = id]
    BY <1>2 DEF AllocateID
  <2>2. id \in ID /\ id \notin idBitmap.allocated
    BY <2>1, AllocateBitIsFree, PoolsNotEmpty DEF ID, AllocationBitmap
  <2>3. idBitmap' \in AllocationBitmap(MaxIDs)
    BY <2>1, BitmapTypes, PoolsNotEmpty
  <2>4. idBitmap'.allocated = idBitmap.allocated \cup {id}
    BY <2>1 DEF AllocateNext
  <2> HIDE DEF id
  <2>5. /\ nameIdMap' \in [UID -> ID]
        /\ nameIdMap'[u] = id
        /\ \A v \in UID : v # u => nameIdMap'[v] = nameIdMap[v]
    BY <2>1, <2>2
  <2>6. \A v \in UID : nameIdMap[v] # id
    BY <2>2 DEF IDsOfNames
  <2>7. idBitmap'.allocated = {0} \cup {nameIdMap'[v] : v \in UID}
    BY <1>2, <2>4, <2>5 DEF IDsOfNames
  <2>8. \A v, w \in UID : v # w /\ nameIdMap'[v] # 0 => nameIdMap'[v] # nameIdMap'[w]
    BY <2>5, <2>6 DEF IDsOfNames
  <2> QED BY <2>2, <2>3, <2>5, <2>7, <2>8 DEF IDsOfNames
<1> QED BY <1>1, <1>2

\* ReserveID keeps them apart: it refuses an ID that is another name's.
LEMMA ReserveIDKeeps ==
    ASSUME IDInv, NEW u \in UID, NEW id \in ID, ReserveID(u, id)
    PROVE  IDInv' /\ nameIdMap'[u] \in ID
<1> USE DEF IDInv
<1>1. /\ CanReserveID(u, id)
      /\ idBitmap' = Allocate(idBitmap, id)
      /\ nameIdMap' = [nameIdMap EXCEPT ![u] = id]
  BY DEF ReserveID
<1>2. idBitmap' \in AllocationBitmap(MaxIDs)
  BY <1>1, BitmapTypes, PoolsNotEmpty DEF ID
<1>3. idBitmap'.allocated = idBitmap.allocated \cup {id}
  BY <1>1 DEF Allocate, AllocationBitmap
<1>4. /\ nameIdMap' \in [UID -> ID]
      /\ nameIdMap'[u] = id
      /\ \A v \in UID : v # u => nameIdMap'[v] = nameIdMap[v]
  BY <1>1
<1>5. (nameIdMap[u] = 0 \/ nameIdMap[u] = id) /\ (\A v \in UID : v # u => nameIdMap[v] # id)
  <2>1. CASE nameIdMap[u] # 0 BY <1>1, <2>1 DEF CanReserveID, IDsOfNames
  <2>2. CASE nameIdMap[u] = 0 BY <1>1, <2>2 DEF CanReserveID, IDsOfNames
  <2> QED BY <2>1, <2>2
<1>6. idBitmap'.allocated = {0} \cup {nameIdMap'[v] : v \in UID}
  BY <1>3, <1>4, <1>5 DEF IDsOfNames
<1>7. \A v, w \in UID : v # w /\ nameIdMap'[v] # 0 => nameIdMap'[v] # nameIdMap'[w]
  BY <1>4, <1>5 DEF IDsOfNames
<1> QED BY <1>2, <1>4, <1>6, <1>7 DEF IDsOfNames

\* ReleaseID frees the ID of the name and of no other.
LEMMA ReleaseIDKeeps ==
    ASSUME IDInv, NEW u \in UID, ReleaseID(u)
    PROVE  IDInv'
<1> USE DEF IDInv
<1>1. CASE nameIdMap[u] = 0
  BY <1>1 DEF ReleaseID, IDsOfNames
<1>2. CASE nameIdMap[u] # 0
  <2>1. /\ idBitmap' = Release(idBitmap, nameIdMap[u])
        /\ nameIdMap' = [nameIdMap EXCEPT ![u] = 0]
    BY <1>2 DEF ReleaseID
  <2>2. idBitmap' \in AllocationBitmap(MaxIDs)
    BY <2>1, BitmapTypes, PoolsNotEmpty
  <2>3. idBitmap'.allocated = idBitmap.allocated \ {nameIdMap[u]}
    BY <2>1 DEF Release, AllocationBitmap
  <2>4. /\ nameIdMap' \in [UID -> ID]
        /\ nameIdMap'[u] = 0
        /\ \A v \in UID : v # u => nameIdMap'[v] = nameIdMap[v]
    BY <2>1, PoolsNotEmpty DEF ID
  <2>5. \A v \in UID : v # u => nameIdMap[v] # nameIdMap[u]
    BY <1>2 DEF IDsOfNames
  <2>6. idBitmap'.allocated = {0} \cup {nameIdMap'[v] : v \in UID}
    BY <1>2, <2>3, <2>4, <2>5 DEF IDsOfNames
  <2>7. \A v, w \in UID : v # w /\ nameIdMap'[v] # 0 => nameIdMap'[v] # nameIdMap'[w]
    BY <2>4 DEF IDsOfNames
  <2> QED BY <2>2, <2>4, <2>6, <2>7 DEF IDsOfNames
<1> QED BY <1>1, <1>2

\* A step that leaves the ID allocator alone.
LEMMA IDsUnchanged == IDInv /\ UNCHANGED <<idBitmap, nameIdMap>> => IDInv'
  BY DEF IDInv, IDsOfNames

\* A new ID allocator has handed out nothing but "zero".
LEMMA NewIDsOK ==
    /\ NewIDBitmap \in AllocationBitmap(MaxIDs)
    /\ NoNames \in [UID -> ID]
    /\ NewIDBitmap.allocated = {0} \cup {NoNames[u] : u \in UID}
    /\ \A u, v \in UID : u # v /\ NoNames[u] # 0 => NoNames[u] # NoNames[v]
  BY PoolsNotEmpty DEF NewIDBitmap, NewBitmap, NoNames, AllocationBitmap, ID

-----------------------------------------------------------------------------
(***************************************************************************)
(* The parts of the invariant                                              *)
(***************************************************************************)

\* The versions of pods.
LogInv == /\ network \in Networks
          /\ log \in [Names -> Seq(Pod \cup {None})]
          /\ AnnotatedInv

\* How far cache and handlers are.
PositionInv == /\ handled \in [Names -> Nat] /\ cached \in [Names -> Nat]
               /\ \A n \in Names : handled[n] <= cached[n] /\ cached[n] <= Len(log[n])
               /\ todo \in [Names -> {"sync", "add", "none"}]

CallInv == /\ call \in [Names -> Call]
           /\ \A n \in Names : CallOK(n)

RestInv == /\ ipams \in [Subnets -> AllocationBitmap(MaxIPs)]
           /\ releasedPods \subseteq UID
           /\ changes \in 0 .. MaxChanges
           /\ failures \in 0 .. MaxFailures
           /\ restarts \in 0 .. MaxRestarts
           /\ untimely \subseteq UID
           /\ deviations \subseteq Deviation

Inv == LogInv /\ PositionInv /\ CallInv /\ IDInv /\ RestInv

\* The parts make up the invariant.
LEMMA Parts == IndInv <=> Inv
  BY DEF IndInv, Inv, TypeOK, LogInv, PositionInv, CallInv, IDInv, RestInv

\* A version of a pod that the log has.
LEMMA AtType ==
    ASSUME LogInv, NEW n \in Names, NEW v \in Nat, v <= Len(log[n])
    PROVE  /\ At(n, v) \in Pod \cup {None}
           /\ At(n, v) # None => /\ v \in DOMAIN log[n]
                                 /\ log[n][v] = At(n, v)
                                 /\ At(n, v).uid \in 1 .. MaxPods
                                 /\ <<n, At(n, v).uid>> \in UID
                                 /\ At(n, v).phase \in Phase
                                 /\ At(n, v).annotation \in PodAnnotation \cup {None}
<1>1. log[n] \in Seq(Pod \cup {None}) BY DEF LogInv
<1>2. CASE v = 0 BY <1>2 DEF At
<1>3. CASE v # 0
  <2>1. v \in DOMAIN log[n] /\ log[n][v] \in Pod \cup {None} BY <1>1, <1>3
  <2>2. At(n, v) = log[n][v] BY <1>3 DEF At
  <2>3. ASSUME log[n][v] \in Pod
        PROVE  /\ log[n][v].uid \in 1 .. MaxPods /\ log[n][v].phase \in Phase
               /\ log[n][v].annotation \in PodAnnotation \cup {None}
    BY <2>3 DEF Pod
  <2> QED BY <2>1, <2>2, <2>3 DEF UID
<1> QED BY <1>2, <1>3

\* A copy of a pod that a call has, and its annotation.
LEMMA CopyType ==
    ASSUME LogInv, CallInv, NEW n \in Names, call[n].stage \in {"ips", "update"}
    PROVE  /\ call[n].version \in Nat /\ call[n].version <= Len(log[n])
           /\ Copy(n) \in Pod
           /\ Copy(n) = log[n][call[n].version]
           /\ Copy(n).annotation # None /\ network.ipam => Copy(n).annotation.ips \in [Subnets -> Offset]
<1>1. log[n] \in Seq(Pod \cup {None}) BY DEF LogInv
<1>2. call[n].version \in DOMAIN log[n] /\ log[n][call[n].version] # None
  BY DEF CallInv, CallOK
<1>3. call[n].version \in 1 .. Len(log[n]) BY <1>1, <1>2
<1>4. Copy(n) = log[n][call[n].version] BY <1>3 DEF Copy, At
<1>5. log[n][call[n].version] \in Pod BY <1>1, <1>2, <1>3
<1>6. Copy(n).annotation # None /\ network.ipam => Copy(n).annotation.ips \in [Subnets -> Offset]
  BY <1>2, <1>4 DEF LogInv, AnnotatedInv
<1> QED BY <1>3, <1>4, <1>5, <1>6

\* What a change of a pod does to the log.
LEMMA Appended ==
    ASSUME LogInv, NEW n \in Names, NEW pod \in Pod \cup {None},
           log' = [log EXCEPT ![n] = Append(@, pod)]
    PROVE  /\ log' \in [Names -> Seq(Pod \cup {None})]
           /\ \A m \in Names : /\ Len(log[m]) \in Nat /\ Len(log'[m]) \in Nat
                               /\ Len(log[m]) <= Len(log'[m])
                               /\ \A v \in DOMAIN log[m] : v \in DOMAIN log'[m] /\ log'[m][v] = log[m][v]
           /\ \A m \in Names : \A v \in DOMAIN log'[m] :
                  v \in DOMAIN log[m] \/ (m = n /\ log'[m][v] = pod)
<1>1. \A m \in Names : log[m] \in Seq(Pod \cup {None}) BY DEF LogInv
<1>2. log' \in [Names -> Seq(Pod \cup {None})] BY DEF LogInv
<1>3. log'[n] = Append(log[n], pod) /\ (\A m \in Names : m # n => log'[m] = log[m])
  BY DEF LogInv
<1>4. /\ Len(log[n]) \in Nat /\ Len(log'[n]) = Len(log[n]) + 1
      /\ DOMAIN log[n] = 1 .. Len(log[n]) /\ DOMAIN log'[n] = 1 .. Len(log[n]) + 1
      /\ \A v \in 1 .. Len(log[n]) : log'[n][v] = log[n][v]
      /\ log'[n][Len(log[n]) + 1] = pod
  BY <1>1, <1>3
<1>5. \A m \in Names : m # n => Len(log[m]) \in Nat BY <1>1
<1>6. ASSUME NEW m \in Names
      PROVE  /\ Len(log[m]) \in Nat /\ Len(log'[m]) \in Nat
             /\ Len(log[m]) <= Len(log'[m])
             /\ \A v \in DOMAIN log[m] : v \in DOMAIN log'[m] /\ log'[m][v] = log[m][v]
             /\ \A v \in DOMAIN log'[m] : v \in DOMAIN log[m] \/ (m = n /\ log'[m][v] = pod)
  BY <1>3, <1>4, <1>5
<1> QED BY <1>2, <1>6

\* A pod appended to the log has an IP of every subnet if it is annotated.
LEMMA AppendKeepsLog ==
    ASSUME LogInv, NEW n \in Names, NEW pod \in Pod \cup {None},
           log' = [log EXCEPT ![n] = Append(@, pod)], network' = network,
           network.ipam /\ pod # None /\ pod.annotation # None => pod.annotation.ips \in [Subnets -> Offset]
    PROVE  LogInv'
<1>1. \A m \in Names : \A v \in DOMAIN log'[m] :
          \/ v \in DOMAIN log[m] /\ log'[m][v] = log[m][v]
          \/ log'[m][v] = pod
  BY Appended
<1>2. AnnotatedInv' BY <1>1 DEF LogInv, AnnotatedInv
<1> QED BY <1>2, Appended DEF LogInv

\* A step that leaves the log alone.
LEMMA LogUnchanged == LogInv /\ UNCHANGED <<network, log>> => LogInv'
  BY DEF LogInv, AnnotatedInv

-----------------------------------------------------------------------------
(***************************************************************************)
(* Calls                                                                   *)
(***************************************************************************)

\* The log has grown or is the same.
Grown == \A m \in Names : /\ Len(log[m]) <= Len(log'[m])
                          /\ \A v \in DOMAIN log[m] : v \in DOMAIN log'[m] /\ log'[m][v] = log[m][v]

\* A log that is the same has grown.
LEMMA SameIsGrown == LogInv /\ UNCHANGED log => Grown
<1> SUFFICES ASSUME LogInv, UNCHANGED log, NEW m \in Names PROVE Len(log[m]) <= Len(log[m])
  BY DEF Grown
<1>1. Len(log[m]) \in Nat BY DEF LogInv
<1> QED BY <1>1

\* A call of another name is not disturbed by a step that leaves its position
\* and its call alone.
LEMMA OtherCallOK ==
    ASSUME PositionInv, NEW m \in Names, CallOK(m), call'[m] = call[m], handled'[m] = handled[m],
           cached'[m] \in Nat, cached[m] <= cached'[m], network' = network, Grown
    PROVE  CallOK(m)'
<1>1. handled[m] \in Nat /\ cached[m] \in Nat BY DEF PositionInv
<1>2. handled[m] < cached[m] => handled'[m] < cached'[m] BY <1>1
<1> QED BY <1>2 DEF CallOK, Grown

\* Done with an event, the handlers of its name are one further.
LEMMA DoneFacts ==
    ASSUME PositionInv, NEW n \in Names, handled[n] < cached[n], Done(n)
    PROVE  /\ handled' \in [Names -> Nat]
           /\ todo' \in [Names -> {"sync", "add", "none"}]
           /\ \A m \in Names : handled'[m] <= cached[m]
           /\ \A m \in Names : m # n => handled'[m] = handled[m]
<1> USE DEF PositionInv
<1>1. CASE todo[n] = "sync" BY <1>1 DEF Done
<1>2. CASE todo[n] # "sync"
  <2>1. handled' = [handled EXCEPT ![n] = @ + 1] /\ todo' = [todo EXCEPT ![n] = "none"]
    BY <1>2 DEF Done
  <2>2. handled'[n] = handled[n] + 1 /\ handled'[n] <= cached[n] BY <2>1
  <2> QED BY <2>1, <2>2
<1> QED BY <1>1, <1>2

\* An event handled without a call.
LEMMA DoneKeeps ==
    ASSUME LogInv, PositionInv, CallInv, NEW n \in Names, call[n].stage = "idle",
           handled[n] < cached[n], Done(n), UNCHANGED <<network, log, cached, call>>
    PROVE  PositionInv' /\ CallInv'
<1>1. PositionInv' BY DoneFacts DEF PositionInv
<1>2. Grown BY SameIsGrown
<1>3. ASSUME NEW m \in Names PROVE CallOK(m)'
  <2>1. CASE m = n BY <2>1 DEF CallOK
  <2>2. CASE m # n
    BY <1>2, <2>2, DoneFacts, OtherCallOK DEF CallInv, PositionInv
  <2> QED BY <2>1, <2>2
<1> QED BY <1>1, <1>3 DEF CallInv

\* The record of no call.
LEMMA IdleCallType == IdleCall \in Call /\ IdleCall.stage = "idle"
  BY PoolsNotEmpty, MaxTriesIsPositive, BoundsAreNat DEF IdleCall, Call, IPs, NoIPs, ID

\* A call that returns leaves nothing behind.
LEMMA ReturnKeeps ==
    ASSUME LogInv, PositionInv, CallInv, NEW n \in Names, call[n].stage # "idle",
           Return(n), Grown, UNCHANGED <<network, cached>>, \A m \in Names : Len(log'[m]) \in Nat
    PROVE  PositionInv' /\ CallInv'
<1>1. handled[n] < cached[n] BY DEF CallInv, CallOK
<1>2. call' = [call EXCEPT ![n] = IdleCall] /\ Done(n) BY DEF Return
<1>3. /\ handled' \in [Names -> Nat]
      /\ todo' \in [Names -> {"sync", "add", "none"}]
      /\ \A m \in Names : handled'[m] <= cached[m]
      /\ \A m \in Names : m # n => handled'[m] = handled[m]
  BY <1>1, <1>2, DoneFacts
<1>4. PositionInv'
  <2>1. \A m \in Names : Len(log[m]) \in Nat BY DEF LogInv
  <2>2. \A m \in Names : cached[m] <= Len(log'[m]) BY <2>1 DEF PositionInv, Grown
  <2> QED BY <1>3, <2>2 DEF PositionInv
<1>5. IdleCall \in Call /\ IdleCall.stage = "idle" BY IdleCallType
<1>6. ASSUME NEW m \in Names PROVE CallOK(m)'
  <2>1. CASE m = n BY <1>2, <1>5, <2>1 DEF CallOK, CallInv
  <2>2. CASE m # n
    BY <1>2, <1>3, <2>2, OtherCallOK DEF CallInv, PositionInv
  <2> QED BY <2>1, <2>2
<1> QED BY <1>2, <1>4, <1>5, <1>6 DEF CallInv

\* A call that goes on is still for a pod, and has what the next stage needs.
LEMMA GotoKeeps ==
    ASSUME LogInv, PositionInv, CallInv, NEW n \in Names, call[n].stage # "idle",
           NEW stage \in {"start", "ips", "update", "rollback"},
           NEW changed \in Call, Goto(n, stage, changed), UNCHANGED <<network, cached>>,
           Grown, \A m \in Names : Len(log'[m]) \in Nat,
           changed.uid # 0,
           stage = "ips" => network.ipam,
           stage \in {"ips", "update"} =>
               changed.version \in DOMAIN log[n] /\ log[n][changed.version] # None,
           stage = "update" /\ network.ipam => changed.ips \in [Subnets -> Offset]
    PROVE  PositionInv' /\ CallInv'
<1> DEFINE c == [changed EXCEPT !.stage = stage]
<1>1. handled[n] < cached[n] BY DEF CallInv, CallOK
<1>2. call' = [call EXCEPT ![n] = c] /\ UNCHANGED <<handled, todo>> BY DEF Goto
<1>3. /\ c \in Call /\ c.stage = stage /\ c.uid = changed.uid
      /\ c.version = changed.version /\ c.ips = changed.ips
  BY DEF Call
<1> HIDE DEF c
<1>4. PositionInv'
  <2>1. \A m \in Names : Len(log[m]) \in Nat BY DEF LogInv
  <2>2. \A m \in Names : cached[m] <= Len(log'[m]) BY <2>1 DEF PositionInv, Grown
  <2> QED BY <1>2, <2>2 DEF PositionInv
<1>5. ASSUME NEW m \in Names PROVE CallOK(m)'
  <2>1. CASE m = n BY <1>1, <1>2, <1>3, <2>1 DEF CallOK, CallInv, Grown
  <2>2. CASE m # n
    BY <1>2, <2>2, OtherCallOK DEF CallInv, PositionInv
  <2> QED BY <2>1, <2>2
<1> QED BY <1>2, <1>3, <1>4, <1>5 DEF CallInv

\* The same of a call that goes on without a change of the log.
LEMMA GotoOn ==
    ASSUME LogInv, PositionInv, CallInv, NEW n \in Names, call[n].stage # "idle",
           NEW stage \in {"start", "ips", "update", "rollback"},
           NEW changed \in Call, Goto(n, stage, changed), UNCHANGED <<network, log, cached>>,
           changed.uid # 0,
           stage = "ips" => network.ipam,
           stage \in {"ips", "update"} =>
               changed.version \in DOMAIN log[n] /\ log[n][changed.version] # None,
           stage = "update" /\ network.ipam => changed.ips \in [Subnets -> Offset]
    PROVE  PositionInv' /\ CallInv'
<1>1. Grown BY SameIsGrown
<1>2. \A m \in Names : Len(log'[m]) \in Nat BY DEF LogInv
<1> QED BY <1>1, <1>2, GotoKeeps

-----------------------------------------------------------------------------
(***************************************************************************)
(* Changes by others, and the watch                                        *)
(***************************************************************************)

\* A change by others preserves the invariant.
LEMMA ChangePreserves ==
    ASSUME Inv, NEW n \in Names, NEW pod \in Pod \cup {None}, Change(n, pod),
           network.ipam /\ pod # None /\ pod.annotation # None => pod.annotation.ips \in [Subnets -> Offset]
    PROVE  Inv'
<1> USE DEF Inv
<1>1. /\ changes < MaxChanges /\ changes' = changes + 1
      /\ log' = [log EXCEPT ![n] = Append(@, pod)]
      /\ UNCHANGED <<network, cached, handled, todo, releasedPods, call>>
      /\ UNCHANGED <<ipams, idBitmap, nameIdMap, failures, restarts, untimely, deviations>>
  BY DEF Change, allocators, history
<1>2. LogInv' BY <1>1, AppendKeepsLog
<1>3. Grown BY <1>1, Appended DEF Grown
<1>4. PositionInv'
  <2>1. \A m \in Names : cached[m] <= Len(log'[m]) BY <1>1, Appended DEF PositionInv
  <2> QED BY <1>1, <2>1 DEF PositionInv
<1>5. CallInv' BY <1>1, <1>3, OtherCallOK DEF CallInv, PositionInv
<1>6. IDInv' BY <1>1, IDsUnchanged
<1>7. RestInv' BY <1>1, BoundsAreNat DEF RestInv
<1> QED BY <1>2, <1>4, <1>5, <1>6, <1>7

\* A set of uids has a largest one.
LEMMA LargestUID ==
    ASSUME NEW uids, uids \subseteq 1 .. MaxPods, uids # {}
    PROVE  \E k \in uids : \A other \in uids : other <= k
<1> DEFINE T == {MaxPods - k : k \in uids}
<1>0. \A k \in uids : k \in Nat /\ MaxPods \in Nat /\ MaxPods - k \in Nat BY BoundsAreNat
<1>1. T \subseteq Nat /\ T # {} BY <1>0
<1>2. PICK x \in T : \A y \in T : x <= y
  <2> HIDE DEF T
  <2> QED BY <1>1, SmallestOf
<1>3. PICK k \in uids : x = MaxPods - k OBVIOUS
<1>4. ASSUME NEW other \in uids PROVE other <= k
  <2>1. MaxPods - k <= MaxPods - other BY <1>2, <1>3
  <2> QED BY <1>0, <2>1
<1> QED BY <1>4

\* The number of pods created under a name is a number.
LEMMA CreatedIsNat == ASSUME LogInv, NEW n \in Names PROVE Created(n) \in Nat
<1> DEFINE uids == {log[n][v].uid : v \in {v \in DOMAIN log[n] : log[n][v] # None}}
<1>1. uids \subseteq 1 .. MaxPods
  <2>1. ASSUME NEW v \in DOMAIN log[n], log[n][v] # None PROVE log[n][v].uid \in 1 .. MaxPods
    <3>1. log[n] \in Seq(Pod \cup {None}) BY DEF LogInv
    <3>2. log[n][v] \in Pod BY <2>1, <3>1
    <3> QED BY <3>2 DEF Pod
  <2> QED BY <2>1
<1>2. Created(n) = IF uids = {} THEN 0 ELSE CHOOSE k \in uids : \A other \in uids : other <= k
  BY DEF Created
<1> HIDE DEF uids
<1>3. CASE uids = {} BY <1>2, <1>3
<1>4. CASE uids # {}
  <2>1. Created(n) \in uids BY <1>1, <1>2, <1>4, LargestUID
  <2>2. Created(n) \in 1 .. MaxPods BY <1>1, <2>1
  <2> QED BY <2>2, BoundsAreNat
<1> QED BY <1>3, <1>4

\* The last version of a name's pod.
LEMMA LatestType ==
    ASSUME LogInv, NEW n \in Names
    PROVE  /\ Latest(n) \in Pod \cup {None}
           /\ Latest(n) # None /\ network.ipam /\ Latest(n).annotation # None =>
                  Latest(n).annotation.ips \in [Subnets -> Offset]
<1>1. Len(log[n]) \in Nat BY DEF LogInv
<1> DEFINE k == Len(log[n])
<1>2. k \in Nat /\ k <= k /\ Latest(n) = At(n, k) BY <1>1 DEF Latest
<1> HIDE DEF k
<1>3. /\ Latest(n) \in Pod \cup {None}
      /\ Latest(n) # None => k \in DOMAIN log[n] /\ log[n][k] = Latest(n)
  <2>1. k <= Len(log[n]) BY <1>2 DEF k
  <2> QED BY <1>2, <2>1, AtType
<1> QED BY <1>3 DEF LogInv, AnnotatedInv

\* Creating a pod preserves the invariant.
LEMMA CreatePodPreserves == ASSUME Inv, NEW n \in Names, CreatePod(n) PROVE Inv'
<1>1. PICK p \in {"unscheduled", "scheduled"} :
          Change(n, [uid |-> Created(n) + 1, phase |-> p, annotation |-> None])
  BY DEF CreatePod
<1> DEFINE pod == [uid |-> Created(n) + 1, phase |-> p, annotation |-> None]
<1>2. Created(n) + 1 \in 1 .. MaxPods
  BY CreatedIsNat, BoundsAreNat DEF CreatePod, Inv
<1>3. pod \in Pod /\ pod.annotation = None BY <1>2 DEF Pod, Phase
<1> HIDE DEF pod
<1>4. Change(n, pod) BY <1>1 DEF pod
<1> QED BY <1>3, <1>4, ChangePreserves

\* A new phase of a pod preserves the invariant.
LEMMA PhasePreserves ==
    ASSUME Inv, NEW n \in Names, Latest(n) # None, NEW p \in Phase,
           Change(n, [Latest(n) EXCEPT !.phase = p])
    PROVE  Inv'
<1> DEFINE pod == [Latest(n) EXCEPT !.phase = p]
<1>1. Latest(n) \in Pod BY LatestType DEF Inv
<1>2. pod \in Pod /\ pod.annotation = Latest(n).annotation BY <1>1 DEF Pod
<1>3. network.ipam /\ pod.annotation # None => pod.annotation.ips \in [Subnets -> Offset]
  BY <1>2, LatestType DEF Inv
<1> HIDE DEF pod
<1>4. Change(n, pod) BY DEF pod
<1> QED BY <1>2, <1>3, <1>4, ChangePreserves

\* The cache getting on preserves the invariant.
LEMMA WatchPreserves == ASSUME Inv, NEW n \in Names, Watch(n) PROVE Inv'
<1> USE DEF Inv
<1>1. /\ cached[n] < Len(log[n])
      /\ cached' = [cached EXCEPT ![n] = @ + 1]
      /\ UNCHANGED <<network, log, handled, todo, releasedPods, call, changes, failures, restarts>>
      /\ UNCHANGED <<ipams, idBitmap, nameIdMap, untimely, deviations>>
  BY DEF Watch, allocators, bounds, history
<1>2. \A m \in Names : Len(log[m]) \in Nat BY DEF LogInv
<1>3. /\ cached' \in [Names -> Nat] /\ cached'[n] = cached[n] + 1
      /\ \A m \in Names : m # n => cached'[m] = cached[m]
  BY <1>1 DEF PositionInv
<1>4. PositionInv' BY <1>1, <1>2, <1>3 DEF PositionInv
<1>5. Grown BY <1>1, SameIsGrown
<1>6. ASSUME NEW m \in Names PROVE cached[m] <= cached'[m]
  <2>1. cached[m] \in Nat BY DEF PositionInv
  <2> QED BY <1>3, <2>1
<1>7. CallInv'
  <2>1. ASSUME NEW m \in Names PROVE CallOK(m)'
    BY <1>1, <1>3, <1>5, <1>6, OtherCallOK DEF CallInv
  <2> QED BY <1>1, <2>1 DEF CallInv
<1>8. LogInv' /\ IDInv' /\ RestInv'
  BY <1>1, LogUnchanged, IDsUnchanged DEF RestInv
<1> QED BY <1>4, <1>7, <1>8

-----------------------------------------------------------------------------
(***************************************************************************)
(* Events                                                                  *)
(***************************************************************************)

\* The pod that reconcile is called with is one of the log.
LEMMA ReconciledType ==
    ASSUME LogInv, PositionInv, NEW n \in Names, handled[n] < cached[n], Reconciled(n) # None
    PROVE  /\ Reconciled(n).uid \in 1 .. MaxPods
           /\ <<n, Reconciled(n).uid>> \in UID
           /\ Reconciled(n).annotation \in PodAnnotation \cup {None}
<1>1. /\ handled[n] \in Nat /\ cached[n] \in Nat /\ Len(log[n]) \in Nat
      /\ cached[n] <= Len(log[n])
  BY DEF LogInv, PositionInv
<1>2. PICK v \in {handled[n], handled[n] + 1, cached[n]} : Reconciled(n) = At(n, v)
  BY DEF Reconciled, Event
<1>3. v \in Nat /\ v <= Len(log[n]) BY <1>1
<1> QED BY <1>2, <1>3, AtType

\* ReleaseIPs keeps the bitmaps within their range.
LEMMA ReleaseIPsKeeps ==
    ASSUME ipams \in [Subnets -> AllocationBitmap(MaxIPs)], NEW ips, ReleaseIPs(ips)
    PROVE  ipams' \in [Subnets -> AllocationBitmap(MaxIPs)]
<1>1. ASSUME NEW s \in Subnets
      PROVE (IF ips[s] = None THEN ipams[s] ELSE Release(ipams[s], ips[s])) \in AllocationBitmap(MaxIPs)
  <2>1. ipams[s] \in AllocationBitmap(MaxIPs) OBVIOUS
  <2>2. Release(ipams[s], ips[s]) \in AllocationBitmap(MaxIPs)
    BY <2>1, BitmapTypes, PoolsNotEmpty
  <2> QED BY <2>1, <2>2
<1> QED BY <1>1 DEF ReleaseIPs

\* An event with nothing to do preserves the invariant.
LEMMA IgnorePreserves == ASSUME Inv, NEW n \in Names, Ignore(n) PROVE Inv'
<1> USE DEF Inv
<1>1. /\ call[n].stage = "idle" /\ handled[n] < cached[n] /\ Done(n)
      /\ UNCHANGED <<network, log, cached, releasedPods, call, changes, failures, restarts>>
      /\ UNCHANGED <<ipams, idBitmap, nameIdMap, untimely, deviations>>
  BY DEF Ignore, MayHandle, allocators, bounds, history
<1>2. PositionInv' /\ CallInv' BY <1>1, DoneKeeps
<1>3. LogInv' /\ IDInv' /\ RestInv'
  BY <1>1, LogUnchanged, IDsUnchanged DEF RestInv
<1> QED BY <1>2, <1>3

\* Releasing a pod preserves the invariant: its ID is freed, no other's.
LEMMA ReleasePodPreserves == ASSUME Inv, NEW n \in Names, ReleasePodOnNAD(n) PROVE Inv'
<1> USE DEF Inv
<1> DEFINE pod == Reconciled(n)
           u == <<n, pod.uid>>
           doRelease == todo[n] # "sync" /\ u \notin releasedPods
<1>1. /\ call[n].stage = "idle" /\ handled[n] < cached[n] /\ Done(n) /\ pod # None
      /\ UNCHANGED <<network, log, cached, call, changes, failures, restarts, untimely, deviations>>
      /\ IF doRelease THEN ReleaseID(u) ELSE UNCHANGED <<idBitmap, nameIdMap>>
      /\ IF doRelease /\ pod.annotation # None THEN ReleaseIPs(pod.annotation.ips) ELSE UNCHANGED ipams
      /\ releasedPods' = IF IsDelete(n) THEN releasedPods \ {u} ELSE releasedPods \cup {u}
  BY DEF ReleasePodOnNAD, MayHandle, bounds, history
<1>2. u \in UID BY <1>1, ReconciledType
<1> HIDE DEF pod, u, doRelease
<1>3. PositionInv' /\ CallInv' BY <1>1, DoneKeeps
<1>4. LogInv' BY <1>1, LogUnchanged
<1>5. IDInv' BY <1>1, <1>2, ReleaseIDKeeps, IDsUnchanged
<1>6. ipams' \in [Subnets -> AllocationBitmap(MaxIPs)] BY <1>1, ReleaseIPsKeeps DEF RestInv
<1>7. RestInv' BY <1>1, <1>2, <1>6 DEF RestInv
<1> QED BY <1>3, <1>4, <1>5, <1>7

\* The start of a call preserves the invariant.
LEMMA AllocatePodPreserves == ASSUME Inv, NEW n \in Names, AllocatePodOnNAD(n) PROVE Inv'
<1> USE DEF Inv
<1> DEFINE c == [IdleCall EXCEPT !.stage = "start", !.uid = Reconciled(n).uid, !.try = 1]
<1>1. /\ handled[n] < cached[n] /\ Reconciled(n) # None
      /\ call' = [call EXCEPT ![n] = c]
      /\ UNCHANGED <<network, log, cached, handled, todo, releasedPods, changes, failures, restarts>>
      /\ UNCHANGED <<ipams, idBitmap, nameIdMap, untimely, deviations>>
  BY DEF AllocatePodOnNAD, MayHandle, allocators, bounds, history
<1>2. Reconciled(n).uid \in 1 .. MaxPods BY <1>1, ReconciledType
<1>3. c \in Call /\ c.stage = "start" /\ c.uid # 0
  <2>1. Reconciled(n).uid \in 0 .. MaxPods /\ Reconciled(n).uid # 0 /\ 1 \in 0 .. MaxTries
    BY <1>2, MaxTriesIsPositive, BoundsAreNat
  <2> QED BY <2>1, IdleCallType DEF Call
<1> HIDE DEF c
<1>4. PositionInv' BY <1>1 DEF PositionInv
<1>5. Grown BY <1>1, SameIsGrown
<1>6. ASSUME NEW m \in Names PROVE CallOK(m)'
  <2>1. CASE m = n BY <1>1, <1>3, <2>1 DEF CallOK, CallInv
  <2>2. CASE m # n
    BY <1>1, <1>5, <2>2, OtherCallOK DEF CallInv, PositionInv
  <2> QED BY <2>1, <2>2
<1>7. CallInv' BY <1>1, <1>3, <1>6 DEF CallInv
<1>8. LogInv' /\ IDInv' /\ RestInv'
  BY <1>1, LogUnchanged, IDsUnchanged DEF RestInv
<1> QED BY <1>4, <1>7, <1>8

-----------------------------------------------------------------------------
(***************************************************************************)
(* Steps of a call                                                         *)
(***************************************************************************)

\* The name under which a call allocates its ID.
LEMMA CallUID ==
    ASSUME CallInv, NEW n \in Names, call[n].stage # "idle"
    PROVE  call[n] \in Call /\ call[n].uid \in 1 .. MaxPods /\ <<n, call[n].uid>> \in UID
<1>1. call[n] \in Call BY DEF CallInv
<1>2. call[n].uid \in 0 .. MaxPods /\ call[n].uid # 0 BY <1>1 DEF Call, CallInv, CallOK
<1>3. call[n].uid \in 1 .. MaxPods BY <1>2, BoundsAreNat
<1> QED BY <1>1, <1>3 DEF UID

\* A step that leaves the log alone and returns.
LEMMA ReturnSame ==
    ASSUME LogInv, PositionInv, CallInv, NEW n \in Names, call[n].stage # "idle",
           Return(n), UNCHANGED <<network, log, cached>>
    PROVE  LogInv' /\ PositionInv' /\ CallInv'
<1>1. Grown BY SameIsGrown
<1>2. \A m \in Names : Len(log'[m]) \in Nat BY DEF LogInv
<1> QED BY <1>1, <1>2, ReturnKeeps, LogUnchanged

\* The lister not finding the pod preserves the invariant.
LEMMA GetFailsPreserves == ASSUME Inv, NEW n \in Names, GetFails(n) PROVE Inv'
<1> USE DEF Inv
<1>1. /\ call[n].stage = "start" /\ Return(n)
      /\ deviations' \subseteq deviations \cup {"sync missed"}
      /\ UNCHANGED <<network, log, cached, releasedPods, changes, failures, restarts>>
      /\ UNCHANGED <<ipams, idBitmap, nameIdMap, untimely>>
  BY DEF GetFails, Note, allocators, bounds
<1>2. LogInv' /\ PositionInv' /\ CallInv' BY <1>1, ReturnSame
<1>3. IDInv' BY <1>1, IDsUnchanged
<1>4. RestInv' BY <1>1 DEF RestInv, Deviation
<1> QED BY <1>2, <1>3, <1>4

\* Getting the pod and its ID preserves the invariant.
LEMMA AssignIDPreserves == ASSUME Inv, NEW n \in Names, AssignID(n) PROVE Inv'
<1> USE DEF Inv
<1> DEFINE pod == At(n, cached[n])
           u == <<n, call[n].uid>>
           tentative == [call[n] EXCEPT !.version = cached[n], !.id = nameIdMap'[u]]
<1>1. /\ call[n].stage = "start" /\ pod # None
      /\ IF ~network.ids THEN UNCHANGED <<idBitmap, nameIdMap>>
         ELSE IF pod.annotation = None THEN AllocateID(u) ELSE ReserveID(u, pod.annotation.id)
      /\ IF network.ipam THEN Goto(n, "ips", tentative)
         ELSE IF pod.annotation = None THEN Goto(n, "update", tentative)
         ELSE Return(n)
      /\ deviations' \subseteq deviations \cup {"sync allocated", "sync missed"}
      /\ UNCHANGED <<network, log, cached, releasedPods, changes, failures, restarts>>
      /\ untimely' \subseteq untimely \cup releasedPods
      /\ UNCHANGED ipams
  BY DEF AssignID, SyncMissed, bounds
<1>2. call[n] \in Call /\ call[n].uid \in 1 .. MaxPods /\ u \in UID BY <1>1, CallUID
<1>3. /\ cached[n] \in Nat
      /\ cached[n] \in DOMAIN log[n] /\ log[n][cached[n]] # None
      /\ pod.annotation \in PodAnnotation \cup {None}
  BY <1>1, AtType DEF PositionInv
<1>4. pod.annotation # None => pod.annotation.id \in ID BY <1>3 DEF PodAnnotation
<1> HIDE DEF pod, u
<1>5. IDInv' /\ nameIdMap'[u] \in ID
  <2>1. CASE ~network.ids BY <1>1, <1>2, <2>1, IDsUnchanged DEF IDInv
  <2>2. CASE network.ids /\ pod.annotation = None BY <1>1, <1>2, <2>2, AllocateIDKeeps
  <2>3. CASE network.ids /\ pod.annotation # None
    BY <1>1, <1>2, <1>4, <2>3, ReserveIDKeeps
  <2> QED BY <2>1, <2>2, <2>3
<1>6. tentative \in Call /\ tentative.version = cached[n] /\ tentative.uid # 0
  <2>1. tentative \in Call /\ tentative.version = cached[n] /\ tentative.uid = call[n].uid
    BY <1>2, <1>3, <1>5 DEF Call
  <2> HIDE DEF tentative
  <2> QED BY <1>2, <2>1
<1> HIDE DEF tentative
<1>a. /\ call[n].stage # "idle"
      /\ tentative.version \in DOMAIN log[n] /\ log[n][tentative.version] # None
  BY <1>1, <1>3, <1>6
<1>7. PositionInv' /\ CallInv'
  <2>1. CASE Goto(n, "ips", tentative) /\ network.ipam
    BY <1>1, <1>a, <1>6, <2>1, GotoOn
  <2>2. CASE Goto(n, "update", tentative) /\ ~network.ipam
    BY <1>1, <1>a, <1>6, <2>2, GotoOn
  <2>3. CASE Return(n) BY <1>1, <2>3, ReturnSame
  <2> QED BY <1>1, <2>1, <2>2, <2>3
<1>8. LogInv' BY <1>1, LogUnchanged
<1>9. RestInv' BY <1>1 DEF RestInv, Deviation
<1> QED BY <1>5, <1>7, <1>8, <1>9

\* Not getting an ID preserves the invariant.
LEMMA AssignIDFailsPreserves == ASSUME Inv, NEW n \in Names, AssignIDFails(n) PROVE Inv'
<1> USE DEF Inv
<1>1. /\ call[n].stage = "start" /\ Return(n)
      /\ deviations' \subseteq deviations \cup {"call failed", "reserve failed", "sync missed"}
      /\ UNCHANGED <<network, log, cached, releasedPods, changes, failures, restarts>>
      /\ UNCHANGED <<ipams, idBitmap, nameIdMap, untimely>>
  BY DEF AssignIDFails, SyncMissed, Note, allocators, bounds
<1>2. LogInv' /\ PositionInv' /\ CallInv' BY <1>1, ReturnSame
<1>3. IDInv' BY <1>1, IDsUnchanged
<1>4. RestInv' BY <1>1 DEF RestInv, Deviation
<1> QED BY <1>2, <1>3, <1>4

\* The record of a call with an IP more.
With(c, s, ip) == [c EXCEPT !.ips[s] = ip]

\* It is a record of the same call, and has the IP.
LEMMA CallWithIP ==
    ASSUME NEW c \in Call, NEW s \in Subnets, NEW ip \in Offset
    PROVE  LET d == With(c, s, ip)
           IN /\ d \in Call /\ d.version = c.version /\ d.uid = c.uid
              /\ d.ips[s] = ip /\ (\A r \in Subnets : r # s => d.ips[r] = c.ips[r])
<1> DEFINE d == With(c, s, ip)
<1>1. c.ips \in [Subnets -> Offset \cup {None}] BY DEF Call, IPs
<1>2. [c.ips EXCEPT ![s] = ip] \in IPs BY <1>1 DEF IPs
<1>3. d = [c EXCEPT !.ips = [c.ips EXCEPT ![s] = ip]] BY DEF With
<1>4. d \in Call /\ d.ips = [c.ips EXCEPT ![s] = ip] /\ d.version = c.version /\ d.uid = c.uid
  BY <1>2, <1>3 DEF Call
<1> HIDE DEF d
<1>5. d.ips[s] = ip /\ (\A r \in Subnets : r # s => d.ips[r] = c.ips[r]) BY <1>1, <1>4
<1> QED BY <1>4, <1>5 DEF d

\* Reserving an annotated IP preserves the invariant.
LEMMA AllocateIPPreserves ==
    ASSUME Inv, NEW n \in Names, NEW s \in Subnets, AllocateIP(n, s) PROVE Inv'
<1> USE DEF Inv
<1> DEFINE ip == Copy(n).annotation.ips[s]
           changed == [call[n] EXCEPT !.ips[s] = ip]
<1>1. /\ call[n].stage = "ips" /\ Copy(n).annotation # None
      /\ ipams' = [ipams EXCEPT ![s] = Allocate(@, ip)]
      /\ IF s = NumSubnets THEN Return(n) ELSE Goto(n, "ips", changed)
      /\ UNCHANGED <<network, log, cached, releasedPods, changes, failures, restarts>>
      /\ UNCHANGED <<idBitmap, nameIdMap, untimely, deviations>>
  BY DEF AllocateIP, Turn, bounds, history
<1>2. /\ call[n].uid # 0 /\ network.ipam
      /\ call[n].version \in DOMAIN log[n] /\ log[n][call[n].version] # None
  BY <1>1 DEF CallInv, CallOK
<1>3. ip \in Offset BY <1>1, <1>2, CopyType
<1>4. call[n] \in Call BY DEF CallInv
<1>5. changed \in Call /\ changed.version = call[n].version /\ changed.uid = call[n].uid
  <2> HIDE DEF ip
  <2>1. changed = With(call[n], s, ip) BY DEF With
  <2> HIDE DEF changed
  <2> QED BY <1>3, <1>4, <2>1, CallWithIP
<1> HIDE DEF changed
<1>6. PositionInv' /\ CallInv'
  <2>1. CASE Goto(n, "ips", changed) BY <1>1, <1>2, <1>5, <2>1, GotoOn
  <2>2. CASE Return(n) BY <1>1, <2>2, ReturnSame
  <2> QED BY <1>1, <2>1, <2>2
<1>7. ipams' \in [Subnets -> AllocationBitmap(MaxIPs)]
  <2>1. ipams[s] \in AllocationBitmap(MaxIPs) BY DEF RestInv
  <2>2. Allocate(ipams[s], ip) \in AllocationBitmap(MaxIPs)
    BY <1>3, <2>1, BitmapTypes, PoolsNotEmpty DEF Offset
  <2> QED BY <1>1, <2>2 DEF RestInv
<1>8. LogInv' /\ IDInv' BY <1>1, LogUnchanged, IDsUnchanged
<1>9. RestInv' BY <1>1, <1>7 DEF RestInv
<1> QED BY <1>6, <1>8, <1>9

\* A call going to its rollback preserves what it is about.
LEMMA ToRollback ==
    ASSUME LogInv, PositionInv, CallInv, NEW n \in Names, call[n].stage # "idle",
           NEW why \in {"ok", "allocated", "full", "conflict", "failed"},
           Goto(n, "rollback", [call[n] EXCEPT !.why = why]), UNCHANGED <<network, cached>>,
           UNCHANGED log \/ (Grown /\ \A m \in Names : Len(log'[m]) \in Nat)
    PROVE  PositionInv' /\ CallInv'
<1> DEFINE changed == [call[n] EXCEPT !.why = why]
<1>1. call[n] \in Call /\ call[n].uid \in 1 .. MaxPods BY CallUID
<1>2. changed \in Call /\ changed.uid # 0 BY <1>1 DEF Call
<1> HIDE DEF changed
<1>3. Goto(n, "rollback", changed) BY DEF changed
<1>4. Grown /\ \A m \in Names : Len(log'[m]) \in Nat BY SameIsGrown DEF LogInv
<1> QED BY <1>2, <1>3, <1>4, GotoKeeps

\* Finding an annotated IP taken preserves the invariant.
LEMMA ErrAllocatedPreserves ==
    ASSUME Inv, NEW n \in Names, NEW s \in Subnets, ErrAllocated(n, s) PROVE Inv'
<1> USE DEF Inv
<1>1. /\ call[n].stage = "ips"
      /\ Goto(n, "rollback", [call[n] EXCEPT !.why = "allocated"])
      /\ UNCHANGED <<network, log, cached, releasedPods, changes, failures, restarts>>
      /\ UNCHANGED <<ipams, idBitmap, nameIdMap, untimely, deviations>>
  BY DEF ErrAllocated, Turn, allocators, bounds, history
<1>2. PositionInv' /\ CallInv' BY <1>1, ToRollback
<1>3. LogInv' /\ IDInv' /\ RestInv' BY <1>1, LogUnchanged, IDsUnchanged DEF RestInv
<1> QED BY <1>2, <1>3

\* Taking a free IP preserves the invariant; after the last subnet the call has
\* an IP of each.
LEMMA AllocateNextIPPreserves ==
    ASSUME Inv, NEW n \in Names, NEW s \in Subnets, AllocateNextIP(n, s) PROVE Inv'
<1> USE DEF Inv
<1> DEFINE ip == AllocateBit(ipams[s], MaxIPs)
           changed == [call[n] EXCEPT !.ips[s] = ip]
           stage == IF s = NumSubnets THEN "update" ELSE "ips"
<1>1. /\ call[n].stage = "ips" /\ ~Full(ipams[s], MaxIPs)
      /\ \A r \in Subnets : call[n].ips[r] = None <=> r >= s
      /\ ipams' = [ipams EXCEPT ![s] = AllocateNext(@, MaxIPs)]
      /\ Goto(n, stage, changed)
      /\ UNCHANGED <<network, log, cached, releasedPods, changes, failures, restarts>>
      /\ UNCHANGED <<idBitmap, nameIdMap, untimely, deviations>>
  BY DEF AllocateNextIP, Turn, bounds, history
<1>2. /\ call[n].uid # 0 /\ network.ipam
      /\ call[n].version \in DOMAIN log[n] /\ log[n][call[n].version] # None
  BY <1>1 DEF CallInv, CallOK
<1>3. ipams[s] \in AllocationBitmap(MaxIPs) BY DEF RestInv
<1>4. ip \in Offset
  BY <1>1, <1>3, AllocateBitIsFree, PoolsNotEmpty DEF Offset, AllocationBitmap
<1>5. call[n] \in Call BY DEF CallInv
<1>6. /\ changed \in Call /\ changed.version = call[n].version /\ changed.uid = call[n].uid
      /\ changed.ips[s] = ip /\ (\A r \in Subnets : r # s => changed.ips[r] = call[n].ips[r])
  <2> HIDE DEF ip
  <2>1. changed = With(call[n], s, ip) BY DEF With
  <2> HIDE DEF changed
  <2> QED BY <1>4, <1>5, <2>1, CallWithIP
<1> HIDE DEF changed, ip
<1>7. ASSUME s = NumSubnets PROVE changed.ips \in [Subnets -> Offset]
  <2>1. changed.ips \in [Subnets -> Offset \cup {None}] BY <1>6 DEF Call, IPs
  <2>2. call[n].ips \in [Subnets -> Offset \cup {None}] BY <1>5 DEF Call, IPs
  <2>3. \A r \in Subnets : r # s => ~(r >= s) BY <1>7, PoolsNotEmpty DEF Subnets
  <2>4. \A r \in Subnets : r # s => call[n].ips[r] \in Offset BY <1>1, <2>2, <2>3
  <2>5. \A r \in Subnets : changed.ips[r] \in Offset BY <1>4, <1>6, <2>4
  <2> QED BY <2>1, <2>5
<1>8. stage \in {"ips", "update"} /\ (stage = "update" => s = NumSubnets) OBVIOUS
<1> HIDE DEF stage
<1>9. PositionInv' /\ CallInv' BY <1>1, <1>2, <1>6, <1>7, <1>8, GotoOn
<1>10. ipams' \in [Subnets -> AllocationBitmap(MaxIPs)]
  <2>1. AllocateNext(ipams[s], MaxIPs) \in AllocationBitmap(MaxIPs)
    BY <1>1, <1>3, BitmapTypes, PoolsNotEmpty
  <2> QED BY <1>1, <2>1 DEF RestInv
<1>11. LogInv' /\ IDInv' BY <1>1, LogUnchanged, IDsUnchanged
<1>12. RestInv' BY <1>1, <1>10 DEF RestInv
<1> QED BY <1>9, <1>11, <1>12

\* Finding a subnet full preserves the invariant.
LEMMA ErrFullPreserves ==
    ASSUME Inv, NEW n \in Names, NEW s \in Subnets, ErrFull(n, s) PROVE Inv'
<1> USE DEF Inv
<1>1. /\ call[n].stage = "ips"
      /\ Goto(n, "rollback", [call[n] EXCEPT !.why = "full"])
      /\ deviations' = deviations \cup {"call failed"}
      /\ UNCHANGED <<network, log, cached, releasedPods, changes, failures, restarts>>
      /\ UNCHANGED <<ipams, idBitmap, nameIdMap, untimely>>
  BY DEF ErrFull, Turn, Note, allocators, bounds
<1>2. PositionInv' /\ CallInv' BY <1>1, ToRollback
<1>3. LogInv' /\ IDInv' BY <1>1, LogUnchanged, IDsUnchanged
<1>4. RestInv' BY <1>1 DEF RestInv, Deviation
<1> QED BY <1>2, <1>3, <1>4

\* An annotation that is stored has an IP of every subnet.
LEMMA StorePreserves ==
    ASSUME Inv, NEW n \in Names, Store(n), network' = network
    PROVE  /\ LogInv' /\ Grown /\ \A m \in Names : Len(log'[m]) \in Nat
           /\ call[n].stage = "update" /\ untimely' \subseteq UID
<1> USE DEF Inv
<1> DEFINE annotation == [ips |-> call[n].ips, id |-> call[n].id]
           pod == [Copy(n) EXCEPT !.annotation = annotation]
<1>1. /\ call[n].stage = "update"
      /\ log' = [log EXCEPT ![n] = Append(@, pod)]
      /\ untimely' \subseteq untimely \cup {<<n, pod.uid>>}
  BY DEF Store
<1>2. call[n] \in Call BY DEF CallInv
<1>3. annotation \in PodAnnotation /\ annotation.ips = call[n].ips BY <1>2 DEF Call, PodAnnotation
<1>4. network.ipam => annotation.ips \in [Subnets -> Offset] BY <1>1, <1>3 DEF CallInv, CallOK
<1> HIDE DEF annotation
<1>5. Copy(n) \in Pod BY <1>1, CopyType
<1>6. pod \in Pod /\ pod.annotation = annotation /\ pod.uid \in 1 .. MaxPods BY <1>3, <1>5 DEF Pod
<1> HIDE DEF pod
<1>7. LogInv' BY <1>1, <1>4, <1>6, AppendKeepsLog
<1>8. Grown /\ (\A m \in Names : Len(log'[m]) \in Nat) BY <1>1, <1>6, Appended DEF Grown
<1>9. untimely' \subseteq UID BY <1>1, <1>6 DEF RestInv, UID
<1> QED BY <1>1, <1>7, <1>8, <1>9

\* Annotating the pod preserves the invariant.
LEMMA UpdatePodStatusPreserves == ASSUME Inv, NEW n \in Names, UpdatePodStatus(n) PROVE Inv'
<1> USE DEF Inv
<1>1. /\ Store(n) /\ Return(n)
      /\ UNCHANGED <<network, cached, releasedPods, changes, failures, restarts>>
      /\ UNCHANGED <<ipams, idBitmap, nameIdMap, deviations>>
  BY DEF UpdatePodStatus, allocators, bounds
<1>2. /\ LogInv' /\ Grown /\ \A m \in Names : Len(log'[m]) \in Nat
      /\ call[n].stage = "update" /\ untimely' \subseteq UID
  BY <1>1, StorePreserves
<1>3. PositionInv' /\ CallInv' BY <1>1, <1>2, ReturnKeeps
<1>4. IDInv' BY <1>1, IDsUnchanged
<1>5. RestInv' BY <1>1, <1>2 DEF RestInv
<1> QED BY <1>2, <1>3, <1>4, <1>5

\* A refused update preserves the invariant.
LEMMA UpdateRefusedPreserves == ASSUME Inv, NEW n \in Names, UpdateRefused(n) PROVE Inv'
<1> USE DEF Inv
<1>1. PICK why \in {"failed", "conflict"} : Goto(n, "rollback", [call[n] EXCEPT !.why = why])
  BY DEF UpdateRefused
<1>2. /\ call[n].stage = "update"
      /\ UNCHANGED <<network, log, cached, releasedPods, changes, failures, restarts>>
      /\ UNCHANGED <<ipams, idBitmap, nameIdMap, untimely, deviations>>
  BY DEF UpdateRefused, allocators, bounds, history
<1>3. PositionInv' /\ CallInv' BY <1>1, <1>2, ToRollback
<1>4. LogInv' /\ IDInv' /\ RestInv' BY <1>2, LogUnchanged, IDsUnchanged DEF RestInv
<1> QED BY <1>3, <1>4

\* A failed update preserves the invariant.
LEMMA UpdateFailsPreserves == ASSUME Inv, NEW n \in Names, UpdateFails(n) PROVE Inv'
<1> USE DEF Inv
<1>1. /\ call[n].stage = "update" /\ failures < MaxFailures /\ failures' = failures + 1
      /\ Goto(n, "rollback", [call[n] EXCEPT !.why = "failed"])
      /\ deviations' = deviations \cup {"call failed"}
      /\ UNCHANGED <<network, log, cached, releasedPods, changes, restarts>>
      /\ UNCHANGED <<ipams, idBitmap, nameIdMap, untimely>>
  BY DEF UpdateFails, Note, allocators
<1>2. PositionInv' /\ CallInv' BY <1>1, ToRollback
<1>3. LogInv' /\ IDInv' BY <1>1, LogUnchanged, IDsUnchanged
<1>4. failures' \in 0 .. MaxFailures
  <2>1. failures \in 0 .. MaxFailures /\ MaxFailures \in Nat BY BoundsAreNat DEF RestInv
  <2>2. failures < MaxFailures /\ failures' = failures + 1 BY <1>1
  <2> QED BY <2>1, <2>2
<1>5. RestInv' BY <1>1, <1>4 DEF RestInv, Deviation
<1> QED BY <1>2, <1>3, <1>5

\* A lost reply preserves the invariant.
LEMMA ReplyLostPreserves == ASSUME Inv, NEW n \in Names, ReplyLost(n) PROVE Inv'
<1> USE DEF Inv
<1>1. /\ Store(n) /\ failures < MaxFailures /\ failures' = failures + 1
      /\ Goto(n, "rollback", [call[n] EXCEPT !.why = "failed"])
      /\ deviations' = deviations \cup {"reply lost"}
      /\ UNCHANGED <<network, cached, releasedPods, changes, restarts>>
      /\ UNCHANGED <<ipams, idBitmap, nameIdMap>>
  BY DEF ReplyLost, allocators
<1>2. /\ LogInv' /\ Grown /\ \A m \in Names : Len(log'[m]) \in Nat
      /\ call[n].stage = "update" /\ untimely' \subseteq UID
  BY <1>1, StorePreserves
<1>3. PositionInv' /\ CallInv' BY <1>1, <1>2, ToRollback
<1>4. IDInv' BY <1>1, IDsUnchanged
<1>5. failures' \in 0 .. MaxFailures
  <2>1. failures \in 0 .. MaxFailures /\ MaxFailures \in Nat BY BoundsAreNat DEF RestInv
  <2>2. failures < MaxFailures /\ failures' = failures + 1 BY <1>1
  <2> QED BY <2>1, <2>2
<1>6. RestInv' BY <1>1, <1>2, <1>5 DEF RestInv, Deviation
<1> QED BY <1>2, <1>3, <1>4, <1>6

\* A rollback preserves the invariant: it frees the ID of the call's own pod.
LEMMA RollbackPreserves == ASSUME Inv, NEW n \in Names, Rollback(n) PROVE Inv'
<1> USE DEF Inv
<1> DEFINE u == <<n, call[n].uid>>
           again == call[n].why = "conflict" /\ call[n].try < MaxTries
           changed == [IdleCall EXCEPT !.uid = call[n].uid, !.try = call[n].try + 1]
<1>1. /\ call[n].stage = "rollback" /\ ReleaseIPs(call[n].ips)
      /\ ReleaseID(u) \/ UNCHANGED <<idBitmap, nameIdMap>>
      /\ IF again THEN Goto(n, "start", changed) ELSE Return(n)
      /\ UNCHANGED <<network, log, cached, releasedPods, changes, failures, restarts>>
      /\ UNCHANGED <<untimely, deviations>>
  BY DEF Rollback, bounds, history
<1>2. call[n] \in Call /\ call[n].uid \in 1 .. MaxPods /\ u \in UID BY <1>1, CallUID
<1>3. ASSUME again PROVE changed \in Call /\ changed.uid # 0
  <2>1. call[n].try \in 0 .. MaxTries BY <1>2 DEF Call
  <2>2. call[n].try + 1 \in 0 .. MaxTries BY <1>3, <2>1, MaxTriesIsPositive
  <2>3. call[n].uid \in 0 .. MaxPods /\ call[n].uid # 0 BY <1>2, BoundsAreNat
  <2> QED BY <2>2, <2>3, IdleCallType DEF Call
<1> HIDE DEF u, changed
<1>4. PositionInv' /\ CallInv'
  <2>1. CASE again BY <1>1, <1>3, <2>1, GotoOn
  <2>2. CASE ~again BY <1>1, <2>2, ReturnSame
  <2> QED BY <2>1, <2>2
<1>5. IDInv' BY <1>1, <1>2, ReleaseIDKeeps, IDsUnchanged
<1>6. ipams' \in [Subnets -> AllocationBitmap(MaxIPs)] BY <1>1, ReleaseIPsKeeps DEF RestInv
<1>7. LogInv' BY <1>1, LogUnchanged
<1>8. RestInv' BY <1>1, <1>6 DEF RestInv
<1> QED BY <1>4, <1>5, <1>7, <1>8

-----------------------------------------------------------------------------

\* New IP bitmaps hold the excluded offsets.
LEMMA NewIPAMsOK == NewIPAMs \in [Subnets -> AllocationBitmap(MaxIPs)]
  BY PoolsNotEmpty, ExcludedInRange DEF NewIPAMs, NewBitmap, AllocationBitmap, Subnets

\* No call is under way in a cluster manager that has just started.
LEMMA NoCallsOK == NoCalls \in [Names -> Call] /\ (\A n \in Names : NoCalls[n].stage = "idle")
  BY IdleCallType DEF NoCalls

\* A restart preserves the invariant.
LEMMA RestartPreserves == ASSUME Inv, Restart PROVE Inv'
<1> USE DEF Inv
<1>1. /\ restarts < MaxRestarts /\ restarts' = restarts + 1
      /\ changes < MaxChanges /\ changes' = changes + 1
      /\ ipams' = NewIPAMs /\ idBitmap' = NewIDBitmap /\ nameIdMap' = NoNames
      /\ releasedPods' = {} /\ call' = NoCalls
      /\ cached' = [n \in Names |-> Len(log[n])]
      /\ handled' = [n \in Names |-> IF Latest(n) = None THEN Len(log[n]) ELSE Len(log[n]) - 1]
      /\ todo' = [n \in Names |-> IF Latest(n) = None THEN "none" ELSE "sync"]
      /\ UNCHANGED <<network, log, failures, untimely, deviations>>
  BY DEF Restart, history
<1>2. LogInv' BY <1>1, LogUnchanged
<1>3. ASSUME NEW n \in Names
      PROVE  Len(log[n]) \in Nat /\ (Latest(n) # None => Len(log[n]) # 0)
  <2>1. Len(log[n]) \in Nat BY DEF LogInv
  <2> QED BY <2>1 DEF Latest, At
<1>4. PositionInv' BY <1>1, <1>3 DEF PositionInv
<1>5. CallInv' BY <1>1, NoCallsOK DEF CallInv, CallOK
<1>6. IDInv' BY <1>1, NewIDsOK DEF IDInv, IDsOfNames
<1>7. RestInv' BY <1>1, NewIPAMsOK, BoundsAreNat DEF RestInv
<1> QED BY <1>2, <1>4, <1>5, <1>6, <1>7

\* The invariant holds when the cluster manager starts without any pods.
LEMMA InitInv == Init => Inv
<1> SUFFICES ASSUME Init PROVE Inv OBVIOUS
<1> USE DEF Init
<1>1. LogInv
  <2>1. \A n \in Names : log[n] = <<>> /\ DOMAIN log[n] = {} OBVIOUS
  <2> QED BY <2>1 DEF LogInv, AnnotatedInv
<1>2. PositionInv BY DEF PositionInv
<1>3. CallInv BY NoCallsOK DEF CallInv, CallOK
<1>4. IDInv BY NewIDsOK DEF IDInv, IDsOfNames
<1>5. RestInv BY NewIPAMsOK, BoundsAreNat DEF RestInv
<1> QED BY <1>1, <1>2, <1>3, <1>4, <1>5 DEF Inv

\* The inductive invariant holds in every reachable state of the allocation.
THEOREM Invariance == Spec => []IndInv
<1>1. Init => IndInv BY InitInv, Parts
<1>2. IndInv /\ [Next]_vars => IndInv'
  <2> SUFFICES ASSUME Inv, [Next]_vars PROVE Inv'
    BY Parts, PTL
  <2>1. ASSUME NEW n \in Names, CreatePod(n) \/ UpdatePod(n) \/ CompletePod(n) \/ DeletePod(n)
        PROVE  Inv'
    <3>1. CASE CreatePod(n) BY <3>1, CreatePodPreserves
    <3>2. CASE UpdatePod(n) BY <3>2, PhasePreserves DEF UpdatePod, Phase
    <3>3. CASE CompletePod(n) BY <3>3, PhasePreserves DEF CompletePod, Phase
    <3>4. CASE DeletePod(n) BY <3>4, ChangePreserves DEF DeletePod
    <3> QED BY <2>1, <3>1, <3>2, <3>3, <3>4
  <2>2. ASSUME NEW n \in Names, Watch(n) PROVE Inv' BY <2>2, WatchPreserves
  <2>3. ASSUME NEW n \in Names, Handle(n) PROVE Inv'
    <3>1. CASE \E s \in Subnets : \/ AllocateIP(n, s) \/ ErrAllocated(n, s)
                                  \/ AllocateNextIP(n, s) \/ ErrFull(n, s)
      BY <3>1, AllocateIPPreserves, ErrAllocatedPreserves, AllocateNextIPPreserves, ErrFullPreserves
    <3>2. CASE Ignore(n) \/ ReleasePodOnNAD(n) \/ AllocatePodOnNAD(n)
      BY <3>2, IgnorePreserves, ReleasePodPreserves, AllocatePodPreserves
    <3>3. CASE GetFails(n) \/ AssignID(n) \/ AssignIDFails(n)
      BY <3>3, GetFailsPreserves, AssignIDPreserves, AssignIDFailsPreserves
    <3>4. CASE UpdatePodStatus(n) \/ UpdateRefused(n) \/ Rollback(n)
      BY <3>4, UpdatePodStatusPreserves, UpdateRefusedPreserves, RollbackPreserves
    <3> QED BY <2>3, <3>1, <3>2, <3>3, <3>4 DEF Handle
  <2>4. ASSUME NEW n \in Names, UpdateFails(n) \/ ReplyLost(n) PROVE Inv'
    BY <2>4, UpdateFailsPreserves, ReplyLostPreserves
  <2>5. ASSUME Restart PROVE Inv' BY <2>5, RestartPreserves
  <2>6. ASSUME UNCHANGED vars PROVE Inv'
    <3>1. /\ UNCHANGED <<network, log, cached, handled, todo, releasedPods, call>>
          /\ UNCHANGED <<ipams, idBitmap, nameIdMap, changes, failures, restarts, untimely, deviations>>
      BY <2>6 DEF vars, allocators, bounds, history
    <3>2. LogInv' /\ IDInv' /\ RestInv' BY <3>1, LogUnchanged, IDsUnchanged DEF RestInv, Inv
    <3>3. PositionInv' BY <3>1 DEF PositionInv, Inv
    <3>4. CallInv' BY <3>1 DEF CallInv, CallOK, Inv
    <3> QED BY <3>2, <3>3, <3>4 DEF Inv
  <2> QED BY <2>1, <2>2, <2>3, <2>4, <2>5, <2>6 DEF Next
<1> QED BY <1>1, <1>2, PTL DEF Spec

\* Every variable has its type in every reachable state; in particular no
\* bitmap has an offset out of its range and no ID is out of range.
THEOREM TypeCorrect == Spec => []TypeOK
<1>1. IndInv => TypeOK BY DEF IndInv
<1> QED BY <1>1, Invariance, PTL

\* Whatever conflicts, rollbacks, stale reads, name reuse and restarts there
\* are, the ID allocator never has the same ID under two names and never loses
\* one.
THEOREM IDsApart == Spec => []IDsOfNames
<1>1. IndInv => IDsOfNames BY DEF IndInv
<1> QED BY <1>1, Invariance, PTL

-----------------------------------------------------------------------------
(***************************************************************************)
(* The invariant behind UniqueIPs and NoIPLeak: who has which IP.          *)
(***************************************************************************)

\* q is a version of the same pod as p, and a later one.
Keeps(p, q) == /\ p.annotation # None => q.annotation = p.annotation
               /\ p.phase = "completed" => q.phase = "completed"

\* The versions under a name: pods come one after the other, with a deletion
\* between two; a pod stays annotated as it is, and completed.
VersionsInv == \A n \in Names : \A v, w \in DOMAIN log[n] :
    v < w /\ log[n][v] # None /\ log[n][w] # None =>
        /\ log[n][v].uid <= log[n][w].uid
        /\ log[n][v].uid = log[n][w].uid => /\ Keeps(log[n][v], log[n][w])
                                            /\ \A x \in v .. w : log[n][x] # None
        /\ w = v + 1 => log[n][v].uid = log[n][w].uid

\* A pod that was annotated before it was scheduled, or once it was completed,
\* is noted.
UntimelyInv == \A n \in Names : \A v \in DOMAIN log[n] :
    log[n][v] # None =>
        /\ log[n][v].annotation # None /\ log[n][v].phase = "unscheduled" =>
               <<n, log[n][v].uid>> \in untimely
        /\ log[n][v].annotation = None /\ log[n][v].phase = "completed" =>
               \A w \in DOMAIN log[n] :
                   log[n][w] # None /\ log[n][w].uid = log[n][v].uid /\ log[n][w].annotation # None =>
                       <<n, log[n][v].uid>> \in untimely

\* A pod is released because it is completed, and not while Sync has it to do.
ReleasedOK(n) == \A k : <<n, k>> \in releasedPods =>
    /\ todo[n] # "sync"
    /\ \E v \in DOMAIN log[n] : /\ log[n][v] # None
                               /\ log[n][v].uid = k
                               /\ log[n][v].phase = "completed"

\* There is a deletion in the log of n after version v.
DeletedAfter(n, v) == \E x \in DOMAIN log[n] : v < x /\ log[n][x] = None

\* A pod listed at the start is in the log.  A completed pod whose event was
\* handled is released, unless the handler found it gone.
HandledOK(n) ==
    /\ todo[n] # "none" => handled[n] < cached[n] /\ log[n][handled[n] + 1] # None
    /\ todo[n] = "sync" => restarts # 0
    /\ todo[n] = "none" /\ At(n, handled[n]) # None /\ At(n, handled[n]).phase = "completed" =>
           <<n, At(n, handled[n]).uid>> \in releasedPods \/ DeletedAfter(n, handled[n])

\* Calls of Sync are made one at a time, and before all others.
ModeInv == \A n \in Names : call[n].stage # "idle" =>
    /\ todo[n] = "sync" => \A m \in Names : m # n => call[m].stage = "idle"
    /\ todo[n] # "sync" => \A m \in Names : todo[m] # "sync"

\* A call is not made for a deletion, nor for a pod that is completed, unless
\* the handler was given a later one.
CalledFor(n) ==
    /\ log[n][handled[n] + 1] # None
    /\ log[n][handled[n] + 1].phase = "completed" => DeletedAfter(n, handled[n] + 1)
    /\ todo[n] = "sync" => /\ call[n].uid = log[n][handled[n] + 1].uid
                           /\ log[n][handled[n] + 1].phase = "scheduled"

\* What a call works on is not handled yet.  What it has reserved is the
\* annotation's, and that of a released pod is noted.
ReservingOK(n) ==
    /\ call[n].stage \in {"idle", "start"} => call[n].ips = NoIPs
    /\ call[n].stage # "idle" => CalledFor(n)
    /\ call[n].stage \in {"ips", "update"} => handled[n] < call[n].version
    /\ call[n].stage = "update" => log[n][call[n].version].annotation = None
    /\ call[n].stage = "ips" /\ log[n][call[n].version].annotation # None =>
           /\ \A s \in Subnets : call[n].ips[s] \in {None, log[n][call[n].version].annotation.ips[s]}
           /\ <<n, log[n][call[n].version].uid>> \in releasedPods =>
                  <<n, log[n][call[n].version].uid>> \in untimely

\* The first version of n that matters to the allocators.
Floor(n) == IF todo[n] = "none" THEN handled[n] ELSE handled[n] + 1

\* Version v of n is annotated, and its IPs are not given back yet.
Holds(n, v) == /\ v \in DOMAIN log[n]
               /\ Floor(n) <= v
               /\ log[n][v] # None
               /\ log[n][v].annotation # None
               /\ <<n, log[n][v].uid>> \notin releasedPods

IPOf(n, v, s) == log[n][v].annotation.ips[s]

\* Every allocated IP is excluded, held, in the hands of a call, or of a pod
\* that was annotated out of turn.
Accounted(s, ip) ==
    \/ ip \in Excluded[s]
    \/ \E n \in Names : todo[n] # "sync" /\ \E v \in DOMAIN log[n] : Holds(n, v) /\ IPOf(n, v, s) = ip
    \/ \E n \in Names : call[n].ips[s] = ip
    \/ \E u \in untimely : ip \in EverHad(u, s)

LeakInv == \A s \in Subnets : \A ip \in ipams[s].allocated : Accounted(s, ip)

\* The assumption of UniqueIPs.
Sound == network.ipam /\ "reply lost" \notin deviations /\ (restarts = 0 \/ Recoverable)

\* Version v of n holds IPs, or Sync will reserve them.
Owns(n, v) == /\ Holds(n, v)
              /\ todo[n] = "sync" => log[n][handled[n] + 1].phase # "completed"

\* Held IPs are apart from each other and from excluded ones, and allocated
\* once Sync has been through.
OwnersInv ==
    /\ \A n, m \in Names : \A v \in DOMAIN log[n], w \in DOMAIN log[m] :
           Owns(n, v) /\ Owns(m, w) /\ <<n, log[n][v].uid>> # <<m, log[m][w].uid>> =>
               \A s \in Subnets : IPOf(n, v, s) # IPOf(m, w, s)
    /\ \A n \in Names : \A v \in DOMAIN log[n] : Owns(n, v) =>
           \A s \in Subnets : /\ IPOf(n, v, s) \notin Excluded[s]
                              /\ todo[n] # "sync" => IPOf(n, v, s) \in ipams[s].allocated
    /\ \A s \in Subnets : Excluded[s] \subseteq ipams[s].allocated

\* The IPs of a call are allocated, and nobody else's.
CallIPsInv == \A n \in Names : \A s \in Subnets : call[n].ips[s] # None =>
    /\ call[n].ips[s] \in ipams[s].allocated \ Excluded[s]
    /\ \A m \in Names : m # n => call[m].ips[s] # call[n].ips[s]
    /\ \A m \in Names : \A w \in DOMAIN log[m] :
           Owns(m, w) /\ ~(m = n /\ todo[n] = "sync") => IPOf(m, w, s) # call[n].ips[s]

\* Sync finds the pod that it has listed, and reserves its IPs.
SyncInv == \A n \in Names : todo[n] = "sync" =>
    /\ \A v \in DOMAIN log[n] :
           handled[n] < v /\ log[n][v] # None /\ log[n][v].annotation # None =>
               /\ log[n][v].uid = log[n][handled[n] + 1].uid
               /\ log[n][handled[n] + 1].annotation # None
    /\ call[n].stage \in {"idle", "start", "ips"}
    /\ call[n].stage = "ips" => /\ log[n][call[n].version].annotation # None
                                /\ log[n][call[n].version].uid = call[n].uid

\* The invariant behind UniqueIPs.
UniqueInv == Sound => OwnersInv /\ CallIPsInv /\ SyncInv

ProgressInv == ModeInv /\ \A n \in Names : ReleasedOK(n) /\ HandledOK(n) /\ ReservingOK(n)

-----------------------------------------------------------------------------
(***************************************************************************)
(* The versions in the log                                                 *)
(***************************************************************************)

\* A log is a sequence of pods and deletions.
LEMMA LogShape ==
    ASSUME LogInv, NEW n \in Names
    PROVE  /\ Len(log[n]) \in Nat /\ DOMAIN log[n] = 1 .. Len(log[n])
           /\ \A v \in DOMAIN log[n] : log[n][v] # None =>
                  /\ log[n][v] \in Pod /\ log[n][v].uid \in 1 .. MaxPods /\ log[n][v].uid \in Nat
                  /\ <<n, log[n][v].uid>> \in UID
                  /\ log[n][v].phase \in Phase
                  /\ log[n][v].annotation \in PodAnnotation \cup {None}
<1>1. log[n] \in Seq(Pod \cup {None}) BY DEF LogInv
<1>2. Len(log[n]) \in Nat /\ DOMAIN log[n] = 1 .. Len(log[n]) BY <1>1
<1>3. ASSUME NEW v \in DOMAIN log[n], log[n][v] # None
      PROVE  /\ log[n][v] \in Pod /\ log[n][v].uid \in 1 .. MaxPods
             /\ log[n][v].phase \in Phase
             /\ log[n][v].annotation \in PodAnnotation \cup {None}
  <2>1. log[n][v] \in Pod BY <1>1, <1>3
  <2> QED BY <2>1 DEF Pod
<1>4. \A k \in 1 .. MaxPods : k \in Nat /\ <<n, k>> \in UID BY BoundsAreNat DEF UID
<1> QED BY <1>2, <1>3, <1>4

\* The last version, if there is one.
LEMMA LatestVersion ==
    ASSUME LogInv, NEW n \in Names, Latest(n) # None
    PROVE  Len(log[n]) \in DOMAIN log[n] /\ Latest(n) = log[n][Len(log[n])]
<1>1. Len(log[n]) \in Nat /\ DOMAIN log[n] = 1 .. Len(log[n]) BY LogShape
<1>2. Len(log[n]) # 0 BY DEF Latest, At
<1> QED BY <1>1, <1>2 DEF Latest, At

\* What an appended version is to those before it.
LEMMA AppendedLast ==
    ASSUME LogInv, NEW n \in Names, NEW pod \in Pod \cup {None},
           log' = [log EXCEPT ![n] = Append(@, pod)]
    PROVE  /\ \A m \in Names : m # n => log'[m] = log[m]
           /\ DOMAIN log[n] = 1 .. Len(log[n]) /\ Len(log[n]) \in Nat
           /\ DOMAIN log'[n] = 1 .. Len(log[n]) + 1 /\ Len(log'[n]) = Len(log[n]) + 1
           /\ \A v \in 1 .. Len(log[n]) : log'[n][v] = log[n][v]
           /\ log'[n][Len(log[n]) + 1] = pod
<1>1. log[n] \in Seq(Pod \cup {None}) BY DEF LogInv
<1>2. log'[n] = Append(log[n], pod) /\ (\A m \in Names : m # n => log'[m] = log[m])
  BY DEF LogInv
<1> QED BY <1>1, <1>2

\* What has to be shown of an appended version.
LEMMA AppendKeepsVersions ==
    ASSUME LogInv, VersionsInv, NEW n \in Names, NEW pod \in Pod \cup {None},
           log' = [log EXCEPT ![n] = Append(@, pod)],
           pod # None => \A v \in DOMAIN log[n] : log[n][v] # None =>
               /\ log[n][v].uid <= pod.uid
               /\ log[n][v].uid = pod.uid => /\ Keeps(log[n][v], pod)
                                             /\ \A x \in v .. Len(log[n]) : log[n][x] # None
               /\ v = Len(log[n]) => log[n][v].uid = pod.uid
    PROVE  VersionsInv'
<1> SUFFICES ASSUME NEW m \in Names, NEW v \in DOMAIN log'[m], NEW w \in DOMAIN log'[m],
                    v < w, log'[m][v] # None, log'[m][w] # None
             PROVE  /\ log'[m][v].uid <= log'[m][w].uid
                    /\ log'[m][v].uid = log'[m][w].uid => /\ Keeps(log'[m][v], log'[m][w])
                                                          /\ \A x \in v .. w : log'[m][x] # None
                    /\ w = v + 1 => log'[m][v].uid = log'[m][w].uid
  BY DEF VersionsInv, Keeps
<1>1. CASE m # n
  <2>1. log'[m] = log[m] BY <1>1, AppendedLast
  <2> QED BY <2>1 DEF VersionsInv
<1>2. CASE m = n
  <2> DEFINE k == Len(log[n])
  <2>1. /\ k \in Nat /\ DOMAIN log[n] = 1 .. k /\ DOMAIN log'[n] = 1 .. k + 1
        /\ \A x \in 1 .. k : log'[n][x] = log[n][x]
        /\ log'[n][k + 1] = pod
    BY AppendedLast
  <2> HIDE DEF k
  <2>2. v \in 1 .. k /\ v \in Nat /\ w \in Nat BY <1>2, <2>1
  <2>3. CASE w \in 1 .. k
    <3>1. \A x \in v .. w : x \in 1 .. k BY <2>1, <2>2, <2>3
    <3>2. log'[n][v] = log[n][v] /\ log'[n][w] = log[n][w] /\ (\A x \in v .. w : log'[n][x] = log[n][x])
      BY <2>1, <2>2, <2>3, <3>1
    <3>3. /\ v \in DOMAIN log[n] /\ w \in DOMAIN log[n] /\ v < w
          /\ log[n][v] # None /\ log[n][w] # None
      BY <1>2, <2>1, <2>2, <2>3, <3>2
    <3>4. /\ log[n][v].uid <= log[n][w].uid
          /\ log[n][v].uid = log[n][w].uid => /\ Keeps(log[n][v], log[n][w])
                                              /\ \A x \in v .. w : log[n][x] # None
          /\ w = v + 1 => log[n][v].uid = log[n][w].uid
      BY <3>3 DEF VersionsInv
    <3> QED BY <1>2, <3>2, <3>4
  <2>4. CASE w = k + 1
    <3>1. log'[n][v] = log[n][v] /\ log'[n][w] = pod BY <2>1, <2>2, <2>4
    <3>2. /\ log[n][v].uid <= pod.uid
          /\ log[n][v].uid = pod.uid => Keeps(log[n][v], pod) /\ (\A x \in v .. k : log[n][x] # None)
          /\ v = k => log[n][v].uid = pod.uid
      BY <1>2, <2>1, <2>2, <3>1 DEF k
    <3>3. \A x \in v .. w : x \in v .. k \/ x = k + 1 BY <2>1, <2>2, <2>4
    <3>4. \A x \in v .. k : x \in 1 .. k BY <2>1, <2>2
    <3>5. (\A x \in v .. k : log[n][x] # None) => \A x \in v .. w : log'[n][x] # None
      BY <1>2, <2>1, <2>4, <3>1, <3>3, <3>4
    <3>6. w = v + 1 => v = k BY <2>1, <2>2, <2>4
    <3> QED BY <1>2, <3>1, <3>2, <3>5, <3>6
  <2> QED BY <1>2, <2>1, <2>3, <2>4
<1> QED BY <1>1, <1>2

\* A new version of the last pod, which stays annotated and completed.
LEMMA NextVersion ==
    ASSUME LogInv, VersionsInv, NEW n \in Names, Latest(n) # None, NEW pod \in Pod,
           log' = [log EXCEPT ![n] = Append(@, pod)],
           pod.uid = Latest(n).uid, Keeps(Latest(n), pod)
    PROVE  VersionsInv'
<1> DEFINE k == Len(log[n])
<1>1. k \in DOMAIN log[n] /\ Latest(n) = log[n][k] BY LatestVersion
<1>2. k \in Nat /\ DOMAIN log[n] = 1 .. k BY LogShape
<1>3. ASSUME NEW v \in DOMAIN log[n], log[n][v] # None
      PROVE  /\ log[n][v].uid <= pod.uid
             /\ log[n][v].uid = pod.uid => /\ Keeps(log[n][v], pod)
                                           /\ \A x \in v .. k : log[n][x] # None
             /\ v = k => log[n][v].uid = pod.uid
  <2>1. CASE v = k
    <3>1. log[n][v].uid \in Nat BY <1>1, <1>3, LogShape
    <3>2. \A x \in v .. k : x = k BY <1>2, <2>1
    <3> HIDE DEF k
    <3> QED BY <1>1, <1>3, <2>1, <3>1, <3>2
  <2>2. CASE v # k
    <3> HIDE DEF k
    <3>1. v < k BY <1>2, <2>2
    <3> QED BY <1>1, <1>3, <2>2, <3>1 DEF VersionsInv, Keeps
  <2> QED BY <2>1, <2>2
<1> QED BY <1>3, AppendKeepsVersions

\* No pod was created after the number of pods created.
LEMMA CreatedIsLargest ==
    ASSUME LogInv, NEW n \in Names, NEW v \in DOMAIN log[n], log[n][v] # None
    PROVE  log[n][v].uid <= Created(n)
<1> DEFINE uids == {log[n][x].uid : x \in {x \in DOMAIN log[n] : log[n][x] # None}}
<1>1. log[n][v].uid \in uids OBVIOUS
<1>2. Created(n) = CHOOSE k \in uids : \A other \in uids : other <= k BY <1>1 DEF Created
<1>3. uids \subseteq 1 .. MaxPods BY LogShape
<1> HIDE DEF uids
<1>4. \E k \in uids : \A other \in uids : other <= k BY <1>1, <1>3, LargestUID
<1> QED BY <1>1, <1>2, <1>4

\* A pod with a uid of its own, after a deletion.
LEMMA FirstVersion ==
    ASSUME LogInv, VersionsInv, NEW n \in Names, Latest(n) = None, NEW pod \in Pod,
           log' = [log EXCEPT ![n] = Append(@, pod)], pod.uid = Created(n) + 1
    PROVE  VersionsInv'
<1> DEFINE k == Len(log[n])
<1>1. k \in Nat /\ DOMAIN log[n] = 1 .. k BY LogShape
<1>2. k # 0 => log[n][k] = None BY DEF Latest, At
<1>3. ASSUME NEW v \in DOMAIN log[n], log[n][v] # None
      PROVE  log[n][v].uid <= pod.uid /\ log[n][v].uid # pod.uid /\ v # k
  <2>1. log[n][v].uid <= Created(n) BY <1>3, CreatedIsLargest
  <2>2. log[n][v].uid \in Nat /\ Created(n) \in Nat BY <1>3, LogShape, CreatedIsNat
  <2>3. v # k BY <1>1, <1>2, <1>3
  <2> QED BY <2>1, <2>2, <2>3
<1> QED BY <1>3, AppendKeepsVersions

\* What has to be shown of an appended version about timeliness.
LEMMA AppendKeepsUntimely ==
    ASSUME LogInv, UntimelyInv, VersionsInv', untimely \subseteq untimely',
           NEW n \in Names, NEW pod \in Pod \cup {None},
           log' = [log EXCEPT ![n] = Append(@, pod)],
           pod # None /\ pod.annotation # None =>
               /\ pod.phase = "unscheduled" => <<n, pod.uid>> \in untimely'
               /\ \A v \in DOMAIN log[n] :
                      log[n][v] # None /\ log[n][v].uid = pod.uid /\ log[n][v].annotation = None
                          /\ log[n][v].phase = "completed" => <<n, pod.uid>> \in untimely'
    PROVE  UntimelyInv'
<1> SUFFICES ASSUME NEW m \in Names, NEW v \in DOMAIN log'[m], log'[m][v] # None
             PROVE  /\ log'[m][v].annotation # None /\ log'[m][v].phase = "unscheduled" =>
                           <<m, log'[m][v].uid>> \in untimely'
                    /\ log'[m][v].annotation = None /\ log'[m][v].phase = "completed" =>
                           \A w \in DOMAIN log'[m] :
                               log'[m][w] # None /\ log'[m][w].uid = log'[m][v].uid
                                   /\ log'[m][w].annotation # None =>
                                   <<m, log'[m][v].uid>> \in untimely'
  BY DEF UntimelyInv
<1>1. CASE m # n
  <2>1. log'[m] = log[m] BY <1>1, AppendedLast
  <2>2. v \in DOMAIN log[m] /\ log[m][v] # None BY <2>1
  <2>3. /\ log[m][v].annotation # None /\ log[m][v].phase = "unscheduled" =>
               <<m, log[m][v].uid>> \in untimely
        /\ log[m][v].annotation = None /\ log[m][v].phase = "completed" =>
               \A w \in DOMAIN log[m] :
                   log[m][w] # None /\ log[m][w].uid = log[m][v].uid /\ log[m][w].annotation # None =>
                       <<m, log[m][v].uid>> \in untimely
    BY <2>2 DEF UntimelyInv
  <2> QED BY <2>1, <2>3
<1>2. CASE m = n
  <2> DEFINE k == Len(log[n])
  <2>1. /\ k \in Nat /\ DOMAIN log[n] = 1 .. k /\ DOMAIN log'[n] = 1 .. k + 1
        /\ \A x \in 1 .. k : log'[n][x] = log[n][x]
        /\ log'[n][k + 1] = pod
    BY AppendedLast
  <2> HIDE DEF k
  <2>a. \A x \in DOMAIN log'[m] : x \in 1 .. k \/ x = k + 1 BY <1>2, <2>1
  <2>2. CASE v = k + 1
    <3>1. ASSUME NEW w \in DOMAIN log'[m], log'[m][w] # None, log'[m][w].uid = log'[m][v].uid,
                 log'[m][w].annotation # None
          PROVE  log'[m][v].annotation # None
      <4>1. CASE w = v BY <3>1, <4>1
      <4>2. CASE w # v
        <5>1. w < v BY <1>2, <2>1, <2>2, <4>2
        <5> QED BY <3>1, <5>1 DEF VersionsInv, Keeps
      <4> QED BY <4>1, <4>2
    <3> QED BY <1>2, <2>1, <2>2, <3>1
  <2>3. CASE v \in 1 .. k
    <3>1. log'[m][v] = log[n][v] /\ v \in DOMAIN log[n] /\ log[n][v] # None BY <1>2, <2>1, <2>3
    <3>a. /\ log[n][v].annotation # None /\ log[n][v].phase = "unscheduled" =>
                 <<n, log[n][v].uid>> \in untimely
          /\ log[n][v].annotation = None /\ log[n][v].phase = "completed" =>
                 \A w \in DOMAIN log[n] :
                     log[n][w] # None /\ log[n][w].uid = log[n][v].uid /\ log[n][w].annotation # None =>
                         <<n, log[n][v].uid>> \in untimely
      BY <3>1 DEF UntimelyInv
    <3>2. ASSUME NEW w \in DOMAIN log'[m], log'[m][w] # None, log'[m][w].uid = log'[m][v].uid,
                 log'[m][w].annotation # None, log'[m][v].annotation = None, log'[m][v].phase = "completed"
          PROVE  <<m, log'[m][v].uid>> \in untimely'
      <4>1. CASE w = k + 1 BY <1>2, <2>1, <2>3, <3>1, <3>2, <4>1
      <4>2. CASE w \in 1 .. k
        <5>1. log'[m][w] = log[n][w] /\ w \in DOMAIN log[n] BY <1>2, <2>1, <4>2
        <5>2. /\ log[n][v].annotation = None /\ log[n][v].phase = "completed"
              /\ log[n][w] # None /\ log[n][w].uid = log[n][v].uid /\ log[n][w].annotation # None
          BY <1>2, <3>1, <3>2, <5>1
        <5>3. <<n, log[n][v].uid>> \in untimely BY <3>a, <5>1, <5>2
        <5>4. <<m, log'[m][v].uid>> = <<n, log[n][v].uid>> BY <1>2, <3>1
        <5> QED BY <5>3, <5>4
      <4> QED BY <2>a, <4>1, <4>2
    <3>3. <<m, log'[m][v].uid>> = <<n, log[n][v].uid>> BY <1>2, <3>1
    <3>4. log'[m][v].annotation # None /\ log'[m][v].phase = "unscheduled" =>
              <<n, log[n][v].uid>> \in untimely
      BY <1>2, <3>1, <3>a
    <3> QED BY <3>2, <3>3, <3>4
  <2> QED BY <2>a, <2>2, <2>3
<1> QED BY <1>1, <1>2

\* A step that leaves the log alone leaves the versions as they were.
LEMMA SameVersions ==
    ASSUME VersionsInv, UntimelyInv, UNCHANGED log, untimely \subseteq untimely'
    PROVE  VersionsInv' /\ UntimelyInv'
<1>1. VersionsInv' BY DEF VersionsInv, Keeps
<1>2. UntimelyInv' BY DEF UntimelyInv
<1> QED BY <1>1, <1>2

-----------------------------------------------------------------------------
(***************************************************************************)
(* How far the handlers and the calls are                                  *)
(***************************************************************************)

\* The handlers have not got on with name m.
Still(m) == /\ handled'[m] = handled[m]
            /\ todo'[m] = todo[m]
            /\ \A k : <<m, k>> \in releasedPods' <=> <<m, k>> \in releasedPods

\* What every step but a restart does: time goes on.
Onward == /\ Grown
          /\ \A m \in Names : cached[m] <= cached'[m]
          /\ restarts' = restarts
          /\ untimely \subseteq untimely'

\* The versions that handlers and calls are at are in the log.
LEMMA Positions ==
    ASSUME Inv, NEW m \in Names
    PROVE  /\ handled[m] \in Nat /\ cached[m] \in Nat /\ Len(log[m]) \in Nat
           /\ DOMAIN log[m] = 1 .. Len(log[m])
           /\ handled[m] <= cached[m] /\ cached[m] <= Len(log[m])
           /\ handled[m] < cached[m] => handled[m] + 1 \in DOMAIN log[m]
           /\ handled[m] # 0 => handled[m] \in DOMAIN log[m]
           /\ cached[m] # 0 => cached[m] \in DOMAIN log[m]
           /\ call[m].stage # "idle" => handled[m] < cached[m]
<1>1. /\ handled[m] \in Nat /\ cached[m] \in Nat
      /\ handled[m] <= cached[m] /\ cached[m] <= Len(log[m])
  BY DEF Inv, PositionInv
<1>2. Len(log[m]) \in Nat /\ DOMAIN log[m] = 1 .. Len(log[m]) BY LogShape DEF Inv
<1>3. call[m].stage # "idle" => handled[m] < cached[m] BY DEF Inv, CallInv, CallOK
<1> QED BY <1>1, <1>2, <1>3

\* Where the handlers are still, they are as far as they were.
LEMMA StillHandled ==
    ASSUME Inv, Inv', Onward, NEW m \in Names, HandledOK(m), Still(m)
    PROVE  HandledOK(m)'
<1>1. handled'[m] = handled[m] /\ todo'[m] = todo[m] /\ restarts' = restarts BY DEF Still, Onward
<1>2. /\ handled[m] \in Nat /\ cached[m] \in Nat /\ cached'[m] \in Nat /\ cached[m] <= cached'[m]
      /\ handled[m] < cached[m] => handled[m] + 1 \in DOMAIN log[m]
      /\ handled[m] # 0 => handled[m] \in DOMAIN log[m]
  BY Positions DEF Onward, Inv, PositionInv
<1>3. \A v \in DOMAIN log[m] : v \in DOMAIN log'[m] /\ log'[m][v] = log[m][v] BY DEF Onward, Grown
<1>4. todo'[m] # "none" => handled'[m] < cached'[m] /\ log'[m][handled'[m] + 1] # None
  BY <1>1, <1>2, <1>3 DEF HandledOK
<1>5. At(m, handled[m])' = At(m, handled[m]) BY <1>1, <1>2, <1>3 DEF At
<1>6. DeletedAfter(m, handled[m]) => DeletedAfter(m, handled[m])' BY <1>1, <1>3 DEF DeletedAfter
<1>7. ASSUME todo'[m] = "none", At(m, handled[m])' # None, At(m, handled[m])'.phase = "completed"
      PROVE  <<m, At(m, handled[m])'.uid>> \in releasedPods' \/ DeletedAfter(m, handled[m])'
  BY <1>1, <1>5, <1>6, <1>7 DEF HandledOK, Still
<1> QED BY <1>1, <1>4, <1>7 DEF HandledOK

\* Where the handlers are still and the call is the same, it works on what it did.
LEMMA StillReserving ==
    ASSUME Inv, Inv', Onward, NEW m \in Names, ReservingOK(m), Still(m), call'[m] = call[m]
    PROVE  ReservingOK(m)'
<1>1. handled'[m] = handled[m] /\ todo'[m] = todo[m] BY DEF Still
<1>2. call[m].stage # "idle" => handled[m] + 1 \in DOMAIN log[m] BY Positions
<1>3. \A v \in DOMAIN log[m] : v \in DOMAIN log'[m] /\ log'[m][v] = log[m][v] BY DEF Onward, Grown
<1>4. call[m].stage # "idle" => CalledFor(m)'
  <2>1. SUFFICES ASSUME call[m].stage # "idle" PROVE CalledFor(m)'
    OBVIOUS
  <2>2. CalledFor(m) BY <2>1 DEF ReservingOK
  <2>3. log'[m][handled'[m] + 1] = log[m][handled[m] + 1] BY <1>1, <1>2, <1>3, <2>1
  <2>4. DeletedAfter(m, handled[m] + 1) => DeletedAfter(m, handled[m] + 1)' BY <1>1, <1>3 DEF DeletedAfter
  <2> QED BY <1>1, <2>2, <2>3, <2>4 DEF CalledFor
<1>5. call[m].stage \in {"ips", "update"} =>
          call[m].version \in DOMAIN log[m] /\ log'[m][call[m].version] = log[m][call[m].version]
  BY <1>3 DEF Inv, CallInv, CallOK
<1>6. call[m].stage = "ips" /\ log'[m][call[m].version].annotation # None =>
          /\ \A s \in Subnets : call[m].ips[s] \in {None, log'[m][call[m].version].annotation.ips[s]}
          /\ <<m, log'[m][call[m].version].uid>> \in releasedPods' =>
                 <<m, log'[m][call[m].version].uid>> \in untimely'
  BY <1>5 DEF ReservingOK, Still, Onward
<1> QED BY <1>1, <1>4, <1>5, <1>6 DEF ReservingOK

\* Where the handlers are still, the released pods are the ones they were.
LEMMA StillReleased ==
    ASSUME Onward, NEW m \in Names, ReleasedOK(m), Still(m)
    PROVE  ReleasedOK(m)'
BY DEF ReleasedOK, Still, Onward, Grown

\* What has to be shown of a step that does something for name n only.
LEMMA ProgressStep ==
    ASSUME Inv, Inv', Onward, ProgressInv, NEW n \in Names,
           \A m \in Names : m # n => Still(m) /\ call'[m] = call[m],
           ReleasedOK(n)', HandledOK(n)', ReservingOK(n)',
           todo'[n] = "sync" => todo[n] = "sync",
           call'[n].stage # "idle" => /\ todo'[n] = todo[n]
                                      /\ call[n].stage # "idle" \/ MayHandle(n)
    PROVE  ProgressInv'
<1>1. ASSUME NEW m \in Names PROVE ReleasedOK(m)' /\ HandledOK(m)' /\ ReservingOK(m)'
  BY StillReleased, StillHandled, StillReserving DEF ProgressInv
<1>2. \A m \in Names : todo'[m] = "sync" => todo[m] = "sync" BY DEF Still
<1>3. ModeInv'
  <2> SUFFICES ASSUME NEW k \in Names, call'[k].stage # "idle"
               PROVE  /\ todo'[k] = "sync" => \A m \in Names : m # k => call'[m].stage = "idle"
                      /\ todo'[k] # "sync" => \A m \in Names : todo'[m] # "sync"
    BY DEF ModeInv
  <2>1. todo'[k] = todo[k] BY DEF Still
  <2>2. CASE call[k].stage # "idle"
    <3>1. /\ todo[k] = "sync" => \A m \in Names : m # k => call[m].stage = "idle"
          /\ todo[k] # "sync" => \A m \in Names : todo[m] # "sync"
      BY <2>2 DEF ProgressInv, ModeInv
    <3>2. ASSUME todo[k] = "sync", NEW m \in Names, m # k PROVE call'[m].stage = "idle"
      <4>1. call[m].stage = "idle" BY <3>1, <3>2
      <4>2. CASE m # n BY <4>1, <4>2
      <4>3. CASE m = n BY <2>2, <3>2, <4>1, <4>3 DEF MayHandle
      <4> QED BY <4>2, <4>3
    <3> QED BY <1>2, <2>1, <3>1, <3>2
  <2>3. CASE call[k].stage = "idle"
    <3>1. k = n /\ MayHandle(n) BY <2>3
    <3> QED BY <1>2, <2>1, <3>1 DEF MayHandle
  <2> QED BY <2>2, <2>3
<1> QED BY <1>1, <1>3 DEF ProgressInv

\* The same of a step that does nothing for any name.
LEMMA ProgressRests ==
    ASSUME Inv, Inv', Onward, ProgressInv, UNCHANGED <<handled, todo, releasedPods, call>>
    PROVE  ProgressInv'
<1>1. \A m \in Names : Still(m) /\ call'[m] = call[m] BY DEF Still
<1>2. \A m \in Names : ReleasedOK(m)' /\ HandledOK(m)' /\ ReservingOK(m)'
  BY <1>1, StillReleased, StillHandled, StillReserving DEF ProgressInv
<1> QED BY <1>2 DEF ProgressInv, ModeInv

\* Where the call is for an event, that event is not a deletion.
LEMMA HandledNext ==
    ASSUME Inv, Inv', Onward, NEW n \in Names, handled[n] < cached[n], Done(n), HandledOK(n),
           log[n][handled[n] + 1] # None,
           todo[n] # "sync" /\ log[n][handled[n] + 1].phase = "completed" =>
               \/ <<n, log[n][handled[n] + 1].uid>> \in releasedPods'
               \/ DeletedAfter(n, handled[n] + 1)
    PROVE  HandledOK(n)' /\ todo'[n] # "sync"
<1> DEFINE h == handled[n]
<1>1. h \in Nat /\ h + 1 \in DOMAIN log[n] /\ h + 1 # 0 BY Positions
<1>2. \A v \in DOMAIN log[n] : v \in DOMAIN log'[n] /\ log'[n][v] = log[n][v] BY DEF Onward, Grown
<1>3. cached[n] <= cached'[n] /\ cached[n] \in Nat /\ cached'[n] \in Nat /\ restarts' = restarts
  BY DEF Onward, Inv, PositionInv
<1>4. CASE todo[n] = "sync"
  <2>1. todo'[n] = "add" /\ handled'[n] = h BY <1>4 DEF Done, Inv, PositionInv
  <2>2. h < cached'[n] BY <1>1, <1>3
  <2> HIDE DEF h
  <2> QED BY <1>1, <1>2, <2>1, <2>2 DEF HandledOK, h
<1>5. CASE todo[n] # "sync"
  <2>1. todo'[n] = "none" /\ handled'[n] = h + 1 BY <1>5 DEF Done, Inv, PositionInv
  <2>2. At(n, handled[n])' = log[n][h + 1] BY <1>1, <1>2, <2>1 DEF At
  <2>3. DeletedAfter(n, h + 1) => DeletedAfter(n, handled[n])' BY <1>2, <2>1 DEF DeletedAfter
  <2> QED BY <1>5, <2>1, <2>2, <2>3 DEF HandledOK
<1> QED BY <1>4, <1>5

-----------------------------------------------------------------------------
(***************************************************************************)
(* Who has which IP                                                        *)
(***************************************************************************)

\* Where the handlers are still, IPs are held by the ones who held them.
LEMMA StillHolds ==
    ASSUME Onward, NEW m \in Names, Still(m), NEW v \in DOMAIN log[m]
    PROVE  /\ Holds(m, v)' <=> Holds(m, v)
           /\ v \in DOMAIN log'[m]
           /\ log'[m][v] = log[m][v]
<1>1. v \in DOMAIN log'[m] /\ log'[m][v] = log[m][v] BY DEF Onward, Grown
<1>2. Floor(m)' = Floor(m) BY DEF Still, Floor
<1> QED BY <1>1, <1>2 DEF Holds, Still

\* A pod once annotated has had its IPs ever after.
LEMMA EverHadGrows ==
    ASSUME Onward, NEW u \in UID, NEW s \in Subnets, NEW ip, ip \in EverHad(u, s)
    PROVE  ip \in EverHad(u, s)'
<1>1. u[1] \in Names BY DEF UID
<1>2. PICK v \in DOMAIN log[u[1]] : /\ log[u[1]][v] # None
                                    /\ log[u[1]][v].uid = u[2]
                                    /\ log[u[1]][v].annotation # None
                                    /\ ip = log[u[1]][v].annotation.ips[s]
  BY DEF EverHad
<1>3. v \in DOMAIN log'[u[1]] /\ log'[u[1]][v] = log[u[1]][v] BY <1>1 DEF Onward, Grown
<1> QED BY <1>2, <1>3 DEF EverHad

\* An IP that is accounted for stays so, unless it was the business of n.
LEMMA AccountedStays ==
    ASSUME Inv, Onward, NEW n \in Names, \A m \in Names : m # n => Still(m) /\ call'[m] = call[m],
           NEW s \in Subnets, NEW ip, Accounted(s, ip)
    PROVE  \/ Accounted(s, ip)'
           \/ todo[n] # "sync" /\ \E v \in DOMAIN log[n] : Holds(n, v) /\ IPOf(n, v, s) = ip
           \/ call[n].ips[s] = ip
<1>1. CASE ip \in Excluded[s] BY <1>1 DEF Accounted
<1>2. CASE \E m \in Names : todo[m] # "sync" /\ \E v \in DOMAIN log[m] : Holds(m, v) /\ IPOf(m, v, s) = ip
  <2>0. PICK m \in Names : todo[m] # "sync" /\ \E v \in DOMAIN log[m] : Holds(m, v) /\ IPOf(m, v, s) = ip
    BY <1>2
  <2>1. PICK v \in DOMAIN log[m] : todo[m] # "sync" /\ Holds(m, v) /\ IPOf(m, v, s) = ip BY <2>0
  <2>2. CASE m = n BY <2>1, <2>2
  <2>3. CASE m # n
    <3>1. Still(m) BY <2>3
    <3>2. Holds(m, v)' /\ v \in DOMAIN log'[m] /\ log'[m][v] = log[m][v] BY <2>1, <3>1, StillHolds
    <3>3. IPOf(m, v, s)' = ip /\ todo'[m] # "sync" BY <2>1, <3>1, <3>2 DEF IPOf, Still
    <3> QED BY <3>2, <3>3 DEF Accounted
  <2> QED BY <2>2, <2>3
<1>3. CASE \E m \in Names : call[m].ips[s] = ip
  BY <1>3 DEF Accounted
<1>4. CASE \E u \in untimely : ip \in EverHad(u, s)
  <2>1. PICK u \in untimely : ip \in EverHad(u, s) BY <1>4
  <2>2. u \in UID BY DEF Inv, RestInv
  <2>3. u \in untimely' /\ ip \in EverHad(u, s)' BY <2>1, <2>2, EverHadGrows DEF Onward
  <2> QED BY <2>3 DEF Accounted
<1> QED BY <1>1, <1>2, <1>3, <1>4 DEF Accounted

\* What has to be shown of a step that does something for name n only.
LEMMA LeakStep ==
    ASSUME Inv, Onward, LeakInv, NEW n \in Names,
           \A m \in Names : m # n => Still(m) /\ call'[m] = call[m],
           \A s \in Subnets : \A ip \in ipams'[s].allocated :
               /\ ip \in ipams[s].allocated \/ Accounted(s, ip)'
               /\ call[n].ips[s] = ip => Accounted(s, ip)'
               /\ \A v \in DOMAIN log[n] : todo[n] # "sync" /\ Holds(n, v) /\ IPOf(n, v, s) = ip =>
                      Accounted(s, ip)'
    PROVE  LeakInv'
<1> SUFFICES ASSUME NEW s \in Subnets, NEW ip \in ipams'[s].allocated PROVE Accounted(s, ip)'
  BY DEF LeakInv
<1>1. CASE ip \in ipams[s].allocated
  <2>1. Accounted(s, ip) BY <1>1 DEF LeakInv
  <2> QED BY <2>1, AccountedStays
<1> QED BY <1>1

\* Handling an event that is not a deletion, IPs are still held by those who
\* held them, perhaps in a later version, unless they are released.
LEMMA NextHolds ==
    ASSUME Inv, Onward, VersionsInv, NEW n \in Names, handled[n] < cached[n], Done(n),
           log[n][handled[n] + 1] # None, todo[n] # "sync",
           NEW v \in DOMAIN log[n], Holds(n, v), <<n, log[n][v].uid>> \notin releasedPods'
    PROVE  /\ todo'[n] # "sync"
           /\ \E w \in DOMAIN log'[n] : Holds(n, w)' /\ log'[n][w].annotation = log[n][v].annotation
<1>0. PICK h \in Nat : h = handled[n] BY Positions
<1>1. h + 1 \in DOMAIN log[n] /\ v \in Nat BY <1>0, Positions
<1>2. todo'[n] = "none" /\ handled'[n] = h + 1 BY <1>0 DEF Done, Inv, PositionInv
<1>3. Floor(n)' = h + 1 BY <1>2 DEF Floor
<1>4. \A x \in DOMAIN log[n] : x \in DOMAIN log'[n] /\ log'[n][x] = log[n][x] BY DEF Onward, Grown
<1>5. CASE h + 1 <= v BY <1>2, <1>3, <1>4, <1>5 DEF Holds
<1>6. CASE ~(h + 1 <= v)
  <2>1. v = h BY <1>0, <1>1, <1>6 DEF Holds, Floor
  <2>2. v < h + 1 /\ h + 1 = v + 1 BY <2>1
  <2>3. log[n][h + 1].uid = log[n][v].uid /\ Keeps(log[n][v], log[n][h + 1])
    BY <1>0, <1>1, <2>2 DEF VersionsInv, Holds
  <2>4. log[n][h + 1].annotation = log[n][v].annotation BY <2>3 DEF Holds, Keeps
  <2>5. h + 1 \in DOMAIN log'[n] /\ log'[n][h + 1] = log[n][h + 1] /\ h + 1 <= h + 1 BY <1>1, <1>4
  <2>6. Holds(n, h + 1)' BY <1>0, <1>3, <2>3, <2>4, <2>5 DEF Holds
  <2> QED BY <1>2, <2>4, <2>5, <2>6
<1> QED BY <1>5, <1>6

\* The invariant that holds whatever has happened.
CoreInv == Inv /\ VersionsInv /\ UntimelyInv /\ ProgressInv /\ LeakInv

\* IPs held by the pods of a name stay accounted for while its handlers are still.
LEMMA HeldStays ==
    ASSUME Onward, NEW n \in Names, Still(n), todo[n] # "sync", NEW s \in Subnets,
           NEW v \in DOMAIN log[n], Holds(n, v), NEW ip, IPOf(n, v, s) = ip
    PROVE  Accounted(s, ip)'
<1>1. Holds(n, v)' /\ v \in DOMAIN log'[n] /\ log'[n][v] = log[n][v] BY StillHolds
<1>2. IPOf(n, v, s)' = ip /\ todo'[n] # "sync" BY <1>1 DEF IPOf, Still
<1> QED BY <1>1, <1>2 DEF Accounted

\* An allocated offset is one.
LEMMA AllocatedOffset ==
    ASSUME RestInv, NEW s \in Subnets
    PROVE  ipams[s].allocated \subseteq Offset /\ None \notin ipams[s].allocated
<1>1. ipams[s] \in AllocationBitmap(MaxIPs) BY DEF RestInv
<1> QED BY <1>1, NoneIsNil DEF AllocationBitmap, Offset

\* Without names every accounted IP is an excluded one.
LEMMA Nobody ==
    ASSUME Inv, Names = {}, NEW s \in Subnets, NEW ip, Accounted(s, ip)
    PROVE  Accounted(s, ip)'
<1>1. \A u \in untimely : FALSE
  <2>1. untimely \subseteq UID BY DEF Inv, RestInv
  <2> QED BY <2>1 DEF UID
<1> QED BY <1>1 DEF Accounted

\* A step that does nothing for any name.
LEMMA Rests ==
    ASSUME CoreInv, Inv', VersionsInv', UntimelyInv', Onward,
           UNCHANGED <<handled, todo, releasedPods, call, ipams>>
    PROVE  CoreInv'
<1> USE DEF CoreInv
<1>1. ProgressInv' BY ProgressRests
<1>2. \A m \in Names : Still(m) /\ call'[m] = call[m] BY DEF Still
<1>3. LeakInv'
  <2> SUFFICES ASSUME NEW s \in Subnets, NEW ip \in ipams'[s].allocated PROVE Accounted(s, ip)'
    BY DEF LeakInv
  <2>1. Accounted(s, ip) BY DEF LeakInv
  <2>2. CASE Names = {} BY <2>1, <2>2, Nobody
  <2>3. CASE Names # {}
    <3>1. PICK n \in Names : TRUE BY <2>3
    <3>2. CASE Accounted(s, ip)' BY <3>2
    <3>3. CASE todo[n] # "sync" /\ \E v \in DOMAIN log[n] : Holds(n, v) /\ IPOf(n, v, s) = ip
      BY <1>2, <3>3, HeldStays
    <3>4. CASE call[n].ips[s] = ip BY <1>2, <3>4 DEF Accounted
    <3> QED BY <1>2, <2>1, <3>2, <3>3, <3>4, AccountedStays
  <2> QED BY <2>2, <2>3
<1> QED BY <1>1, <1>3

\* What has to be shown of a step of a call that does not return.
LEMMA GoesOn ==
    ASSUME CoreInv, Inv', NEW n \in Names,
           UNCHANGED <<log, cached, handled, todo, releasedPods, restarts>>, untimely \subseteq untimely',
           \A m \in Names : m # n => call'[m] = call[m],
           call[n].stage # "idle" \/ MayHandle(n),
           ReservingOK(n)',
           \A s \in Subnets : \A ip \in ipams'[s].allocated :
               /\ ip \in ipams[s].allocated \/ call'[n].ips[s] = ip
               /\ call[n].ips[s] = ip => call'[n].ips[s] = ip
    PROVE  CoreInv'
<1> USE DEF CoreInv
<1>1. \A m \in Names : Still(m) BY DEF Still
<1>2. Onward
  <2>1. \A m \in Names : cached[m] <= cached'[m] BY DEF Inv, PositionInv
  <2> QED BY <2>1, SameIsGrown DEF Onward, Inv
<1>3. VersionsInv' /\ UntimelyInv' BY SameVersions
<1>4. ReleasedOK(n)' /\ HandledOK(n)' BY <1>1, <1>2, StillReleased, StillHandled DEF ProgressInv
<1>5. ProgressInv' BY <1>1, <1>2, <1>4, ProgressStep
<1>6. ASSUME NEW s \in Subnets, NEW ip \in ipams'[s].allocated
      PROVE  /\ ip \in ipams[s].allocated \/ Accounted(s, ip)'
             /\ call[n].ips[s] = ip => Accounted(s, ip)'
             /\ \A v \in DOMAIN log[n] : todo[n] # "sync" /\ Holds(n, v) /\ IPOf(n, v, s) = ip =>
                    Accounted(s, ip)'
  <2>1. call'[n].ips[s] = ip => Accounted(s, ip)' BY DEF Accounted
  <2>2. \A v \in DOMAIN log[n] : todo[n] # "sync" /\ Holds(n, v) /\ IPOf(n, v, s) = ip => Accounted(s, ip)'
    BY <1>1, <1>2, HeldStays
  <2> QED BY <2>1, <2>2
<1>7. LeakInv' BY <1>1, <1>2, <1>6, LeakStep
<1> QED BY <1>3, <1>5, <1>7

\* What has to be shown of a step with which a call returns.
LEMMA Returns ==
    ASSUME CoreInv, Inv', VersionsInv', UntimelyInv', Onward, NEW n \in Names,
           UNCHANGED <<cached, releasedPods>>, call[n].stage # "idle", Return(n),
           \A s \in Subnets : \A ip \in ipams'[s].allocated :
               /\ ip \in ipams[s].allocated \/ Accounted(s, ip)'
               /\ call[n].ips[s] = ip => Accounted(s, ip)'
    PROVE  CoreInv'
<1> USE DEF CoreInv
<1>1. /\ Done(n) /\ handled[n] < cached[n]
      /\ \A m \in Names : m # n => call'[m] = call[m]
      /\ call'[n] = IdleCall
  BY Positions DEF Return, Inv, CallInv
<1>2. ASSUME NEW m \in Names, m # n PROVE Still(m)
  BY <1>1, <1>2 DEF Still, Done, Inv, PositionInv
<1>3. /\ ReleasedOK(n) /\ HandledOK(n) /\ ReservingOK(n) /\ CalledFor(n)
  BY DEF ProgressInv, ReservingOK
<1>4. HandledOK(n)' /\ todo'[n] # "sync" BY <1>1, <1>3, HandledNext DEF CalledFor
<1>5. ReleasedOK(n)' BY <1>3, <1>4 DEF ReleasedOK, Onward, Grown
<1>6. ReservingOK(n)' BY <1>1 DEF ReservingOK, IdleCall
<1>7. ProgressInv' BY <1>1, <1>2, <1>4, <1>5, <1>6, ProgressStep DEF IdleCall
<1>8. ASSUME NEW s \in Subnets, NEW ip \in ipams'[s].allocated, NEW v \in DOMAIN log[n],
             todo[n] # "sync", Holds(n, v), IPOf(n, v, s) = ip
      PROVE  Accounted(s, ip)'
  <2>1. <<n, log[n][v].uid>> \notin releasedPods' BY <1>8 DEF Holds
  <2>2. PICK w \in DOMAIN log'[n] : Holds(n, w)' /\ log'[n][w].annotation = log[n][v].annotation
    BY <1>1, <1>3, <1>8, <2>1, NextHolds DEF CalledFor
  <2>3. IPOf(n, w, s)' = ip BY <1>8, <2>2 DEF IPOf
  <2> QED BY <1>4, <2>2, <2>3 DEF Accounted
<1>9. LeakInv' BY <1>1, <1>2, <1>8, LeakStep
<1> QED BY <1>7, <1>9

-----------------------------------------------------------------------------
(***************************************************************************)
(* Each action keeps account of the IPs                                    *)
(***************************************************************************)

\* What has to be shown of a change by others.
LEMMA ChangeCore ==
    ASSUME CoreInv, Inv', VersionsInv', NEW n \in Names, NEW pod \in Pod \cup {None}, Change(n, pod),
           pod # None /\ pod.annotation # None =>
               /\ pod.phase # "unscheduled"
               /\ \A v \in DOMAIN log[n] :
                      log[n][v] # None /\ log[n][v].uid = pod.uid /\ log[n][v].annotation = None
                          /\ log[n][v].phase = "completed" => <<n, pod.uid>> \in untimely
    PROVE  CoreInv'
<1>1. /\ log' = [log EXCEPT ![n] = Append(@, pod)]
      /\ UNCHANGED <<network, cached, handled, todo, releasedPods, call>>
      /\ UNCHANGED <<ipams, restarts, untimely>>
  BY DEF Change, allocators, history
<1>2. Grown BY <1>1, Appended DEF Grown, CoreInv, Inv
<1>3. \A m \in Names : cached[m] <= cached'[m] BY <1>1 DEF CoreInv, Inv, PositionInv
<1>4. Onward BY <1>1, <1>2, <1>3 DEF Onward
<1>5. UntimelyInv' BY <1>1, AppendKeepsUntimely DEF CoreInv, Inv
<1> QED BY <1>1, <1>4, <1>5, Rests

\* Creating a pod.
LEMMA CreatePodCore == ASSUME CoreInv, NEW n \in Names, CreatePod(n) PROVE CoreInv'
<1>1. PICK p \in {"unscheduled", "scheduled"} :
          Change(n, [uid |-> Created(n) + 1, phase |-> p, annotation |-> None])
  BY DEF CreatePod
<1> DEFINE pod == [uid |-> Created(n) + 1, phase |-> p, annotation |-> None]
<1>2. Created(n) + 1 \in 1 .. MaxPods
  BY CreatedIsNat, BoundsAreNat DEF CreatePod, CoreInv, Inv
<1>3. pod \in Pod /\ pod.annotation = None /\ pod.uid = Created(n) + 1 BY <1>2 DEF Pod, Phase
<1> HIDE DEF pod
<1>4. Change(n, pod) BY <1>1 DEF pod
<1>5. Inv' BY CreatePodPreserves DEF CoreInv
<1>6. VersionsInv' BY <1>3, <1>4, FirstVersion DEF CoreInv, Inv, Change, CreatePod
<1> QED BY <1>3, <1>4, <1>5, <1>6, ChangeCore

\* A new phase of a pod.
LEMMA PhaseCore ==
    ASSUME CoreInv, NEW n \in Names, Latest(n) # None, Latest(n).phase # "completed",
           NEW p \in {"scheduled", "completed"}, Change(n, [Latest(n) EXCEPT !.phase = p])
    PROVE  CoreInv'
<1> DEFINE pod == [Latest(n) EXCEPT !.phase = p]
           last == Len(log[n])
<1>1. Latest(n) \in Pod BY LatestType DEF CoreInv, Inv
<1>2. /\ pod \in Pod /\ pod.annotation = Latest(n).annotation /\ pod.uid = Latest(n).uid
      /\ pod.phase = p
  BY <1>1 DEF Pod, Phase
<1>3. Inv' BY PhasePreserves DEF CoreInv, Phase
<1> HIDE DEF pod
<1>4. Change(n, pod) BY DEF pod
<1>5. Keeps(Latest(n), pod) BY <1>2 DEF Keeps
<1>6. VersionsInv' BY <1>2, <1>4, <1>5, NextVersion DEF CoreInv, Inv, Change
<1>7. last \in DOMAIN log[n] /\ Latest(n) = log[n][last] BY LatestVersion DEF CoreInv, Inv
<1> HIDE DEF last
<1>8. ASSUME pod.annotation # None, NEW v \in DOMAIN log[n], log[n][v] # None,
             log[n][v].uid = pod.uid, log[n][v].annotation = None, log[n][v].phase = "completed"
      PROVE  <<n, pod.uid>> \in untimely
  BY <1>2, <1>7, <1>8 DEF CoreInv, UntimelyInv
<1> QED BY <1>2, <1>3, <1>4, <1>6, <1>8, ChangeCore

\* Deleting a pod.
LEMMA DeletePodCore == ASSUME CoreInv, NEW n \in Names, DeletePod(n) PROVE CoreInv'
<1>1. None \in Pod \cup {None} /\ Change(n, None) BY DEF DeletePod
<1>2. Inv' BY <1>1, ChangePreserves DEF CoreInv
<1>3. VersionsInv' BY <1>1, AppendKeepsVersions DEF CoreInv, Inv, Change
<1> QED BY <1>1, <1>2, <1>3, ChangeCore

\* The cache getting on.
LEMMA WatchCore == ASSUME CoreInv, NEW n \in Names, Watch(n) PROVE CoreInv'
<1>1. /\ cached' = [cached EXCEPT ![n] = @ + 1]
      /\ UNCHANGED <<network, log, handled, todo, releasedPods, call, restarts>>
      /\ UNCHANGED <<ipams, untimely>>
  BY DEF Watch, allocators, bounds, history
<1>2. Inv' BY WatchPreserves DEF CoreInv
<1>3. VersionsInv' /\ UntimelyInv' BY <1>1, SameVersions DEF CoreInv
<1>4. ASSUME NEW m \in Names PROVE cached[m] <= cached'[m]
  <2>1. cached[m] \in Nat /\ cached[n] \in Nat BY DEF CoreInv, Inv, PositionInv
  <2>2. cached'[m] = IF m = n THEN cached[n] + 1 ELSE cached[m] BY <1>1 DEF CoreInv, Inv, PositionInv
  <2> QED BY <2>1, <2>2
<1>5. Onward BY <1>1, <1>4, SameIsGrown DEF Onward, CoreInv, Inv
<1> QED BY <1>1, <1>2, <1>3, <1>5, Rests

\* Between two pods of a name there is a deletion.
LEMMA DeletionBetween ==
    ASSUME LogInv, VersionsInv, NEW n \in Names, NEW v \in DOMAIN log[n], NEW w \in DOMAIN log[n],
           v < w, log[n][v] # None, log[n][w] # None, log[n][v].uid # log[n][w].uid
    PROVE  \E x \in DOMAIN log[n] : v < x /\ log[n][x] = None
<1>1. v \in Nat /\ w \in Nat /\ v .. w \subseteq DOMAIN log[n] /\ DOMAIN log[n] \subseteq Nat BY LogShape
<1> SUFFICES ASSUME \A x \in DOMAIN log[n] : v < x => log[n][x] # None PROVE FALSE
  OBVIOUS
<1> DEFINE S == {x \in v .. w : log[n][x].uid # log[n][v].uid}
<1>2. S \subseteq Nat /\ S # {} BY <1>1
<1>3. PICK k \in S : \A x \in S : k <= x
  <2> HIDE DEF S
  <2> QED BY <1>2, SmallestOf
<1>4. k \in v .. w /\ log[n][k].uid # log[n][v].uid OBVIOUS
<1>5. k # v BY <1>4
<1>6. PICK j \in v .. w : k = j + 1
  <2>1. k - 1 \in v .. w /\ k = (k - 1) + 1 BY <1>1, <1>4, <1>5
  <2> QED BY <2>1
<1>7. j \in Nat /\ j < k /\ ~(k <= j) /\ v < k BY <1>1, <1>6
<1>8. log[n][j].uid = log[n][v].uid BY <1>3, <1>6, <1>7
<1>9. j = v \/ v < j BY <1>1, <1>6
<1>10. log[n][j] # None /\ log[n][k] # None BY <1>1, <1>4, <1>6, <1>7, <1>9
<1>11. j \in DOMAIN log[n] /\ k \in DOMAIN log[n] BY <1>1, <1>4, <1>6
<1> HIDE DEF S
<1>12. log[n][j].uid = log[n][k].uid BY <1>6, <1>7, <1>10, <1>11 DEF VersionsInv
<1> QED BY <1>4, <1>8, <1>12

\* The handler was given another pod than the completed one of the event: that
\* one is deleted later on.
LEMMA CompletedElsewhere ==
    ASSUME Inv, VersionsInv, NEW n \in Names, handled[n] < cached[n],
           log[n][handled[n] + 1] # None, log[n][handled[n] + 1].phase = "completed",
           Reconciled(n) # None =>
               Reconciled(n).phase # "completed" \/ Reconciled(n).uid # log[n][handled[n] + 1].uid
    PROVE  DeletedAfter(n, handled[n] + 1)
<1>0. PICK h : h = handled[n] + 1 OBVIOUS
<1>1. /\ h \in Nat /\ cached[n] \in Nat /\ h \in DOMAIN log[n] /\ h # 0 /\ h <= cached[n]
      /\ cached[n] \in DOMAIN log[n] /\ cached[n] # 0
  BY <1>0, Positions
<1>2. Event(n).new = log[n][h] /\ At(n, cached[n]) = log[n][cached[n]] BY <1>0, <1>1 DEF Event, At
<1>3. Reconciled(n) = log[n][cached[n]] BY <1>0, <1>2 DEF Reconciled
<1>4. h < cached[n] BY <1>0, <1>1, <1>3
<1>5. CASE log[n][cached[n]] = None BY <1>0, <1>1, <1>4, <1>5 DEF DeletedAfter
<1>6. CASE log[n][cached[n]] # None
  <2>1. log[n][h].uid # log[n][cached[n]].uid
    BY <1>0, <1>1, <1>3, <1>4, <1>6 DEF VersionsInv, Keeps
  <2> QED BY <1>0, <1>1, <1>4, <1>6, <2>1, DeletionBetween DEF DeletedAfter, Inv
<1> QED BY <1>5, <1>6
\* The call begins: the event is not a deletion, and if its pod is completed by
\* now, the handler was given a later one.
LEMMA AllocatePodCore == ASSUME CoreInv, NEW n \in Names, AllocatePodOnNAD(n) PROVE CoreInv'
<1> DEFINE c == [IdleCall EXCEPT !.stage = "start", !.uid = Reconciled(n).uid, !.try = 1]
           h == handled[n]
<1>1. /\ MayHandle(n) /\ ~IsDelete(n) /\ Reconciled(n) # None /\ Reconciled(n).phase = "scheduled"
      /\ call' = [call EXCEPT ![n] = c]
      /\ UNCHANGED <<log, cached, handled, todo, releasedPods, restarts>>
      /\ UNCHANGED <<ipams, untimely>>
  BY DEF AllocatePodOnNAD, allocators, bounds, history
<1>2. Inv' BY AllocatePodPreserves DEF CoreInv
<1>3. c.stage = "start" /\ c.ips = NoIPs /\ c.uid = Reconciled(n).uid BY DEF IdleCall
<1>4. call'[n] = c /\ (\A m \in Names : m # n => call'[m] = call[m]) BY <1>1 DEF CoreInv, Inv, CallInv
<1> HIDE DEF c
<1>5. call[n].stage = "idle" /\ call[n].ips = NoIPs BY <1>1 DEF MayHandle, CoreInv, ProgressInv, ReservingOK
<1>6. /\ h \in Nat /\ cached[n] \in Nat /\ h < cached[n] /\ h + 1 \in DOMAIN log[n] /\ h + 1 # 0
      /\ cached[n] \in DOMAIN log[n] /\ DOMAIN log[n] = 1 .. Len(log[n])
  BY <1>1, Positions DEF MayHandle, CoreInv
<1>7. Event(n).new = log[n][h + 1] /\ At(n, cached[n]) = log[n][cached[n]]
  BY <1>6 DEF Event, At
<1>8. CalledFor(n)'
  <2>1. log[n][h + 1] # None
    BY <1>1, <1>7 DEF IsDelete, CoreInv, ProgressInv, HandledOK
  <2>2. CASE todo[n] # "none" \/ Event(n).old = None
    <3>1. Reconciled(n) = log[n][h + 1] BY <1>7, <2>2 DEF Reconciled
    <3> QED BY <1>1, <1>3, <1>4, <2>1, <3>1 DEF CalledFor
  <2>3. CASE ~(todo[n] # "none" \/ Event(n).old = None)
    <3>1. log[n][h + 1].phase = "completed" => DeletedAfter(n, h + 1)
      BY <1>1, <1>6, <2>1, CompletedElsewhere DEF CoreInv
    <3>2. DeletedAfter(n, h + 1) => DeletedAfter(n, h + 1)' BY <1>1 DEF DeletedAfter
    <3> QED BY <1>1, <2>1, <2>3, <3>1, <3>2 DEF CalledFor
  <2> QED BY <2>2, <2>3
<1>9. ReservingOK(n)' BY <1>3, <1>4, <1>8 DEF ReservingOK
<1>10. ASSUME NEW s \in Subnets, NEW ip \in ipams'[s].allocated
       PROVE  ip \in ipams[s].allocated /\ call[n].ips[s] # ip
  BY <1>1, <1>5, AllocatedOffset DEF CoreInv, Inv, NoIPs
<1> QED BY <1>1, <1>2, <1>4, <1>9, <1>10, GoesOn

\* What a call that goes on has then.
LEMMA GotoEffect ==
    ASSUME CallInv, NEW n \in Names, NEW stage, NEW changed \in Call, Goto(n, stage, changed)
    PROVE  /\ UNCHANGED <<handled, todo>>
           /\ \A m \in Names : m # n => call'[m] = call[m]
           /\ call'[n].stage = stage /\ call'[n].uid = changed.uid
           /\ call'[n].version = changed.version /\ call'[n].ips = changed.ips
<1> DEFINE c == [changed EXCEPT !.stage = stage]
<1>1. call' = [call EXCEPT ![n] = c] /\ UNCHANGED <<handled, todo>> BY DEF Goto
<1>2. c.stage = stage /\ c.uid = changed.uid /\ c.version = changed.version /\ c.ips = changed.ips
  BY DEF Call
<1> HIDE DEF c
<1>3. call'[n] = c /\ (\A m \in Names : m # n => call'[m] = call[m]) BY <1>1 DEF CallInv
<1> QED BY <1>1, <1>2, <1>3

\* A call with a reason to roll back is otherwise the same.
LEMMA RollbackEffect ==
    ASSUME CallInv, NEW n \in Names, NEW why \in {"ok", "allocated", "full", "conflict", "failed"},
           Goto(n, "rollback", [call[n] EXCEPT !.why = why])
    PROVE  /\ UNCHANGED <<handled, todo>>
           /\ \A m \in Names : m # n => call'[m] = call[m]
           /\ call'[n].stage = "rollback" /\ call'[n].uid = call[n].uid /\ call'[n].ips = call[n].ips
<1> DEFINE changed == [call[n] EXCEPT !.why = why]
<1>1. call[n] \in Call BY DEF CallInv
<1>2. changed \in Call /\ changed.uid = call[n].uid /\ changed.ips = call[n].ips BY <1>1 DEF Call
<1> HIDE DEF changed
<1>3. Goto(n, "rollback", changed) BY DEF changed
<1> QED BY <1>2, <1>3, GotoEffect

\* What reserving an annotated IP does.
LEMMA AllocateIPEffect ==
    ASSUME Inv, NEW n \in Names, NEW s \in Subnets, AllocateIP(n, s)
    PROVE  \E ip \in Offset, v \in DOMAIN log[n] :
             /\ v = call[n].version /\ log[n][v] # None /\ log[n][v].annotation # None
             /\ ip = log[n][v].annotation.ips[s]
             /\ ip \notin ipams[s].allocated
             /\ call[n].stage = "ips" /\ network.ipam /\ call[n].ips[s] = None
             /\ ipams'[s].allocated = ipams[s].allocated \cup {ip}
             /\ \A r \in Subnets : r # s => ipams'[r] = ipams[r]
             /\ \/ /\ Return(n)
                   /\ \A r \in Subnets : r # s => call[n].ips[r] # None
                \/ /\ UNCHANGED <<handled, todo>>
                   /\ \A m \in Names : m # n => call'[m] = call[m]
                   /\ call'[n].stage = "ips" /\ call'[n].uid = call[n].uid /\ call'[n].version = v
                   /\ call'[n].ips[s] = ip /\ \A r \in Subnets : r # s => call'[n].ips[r] = call[n].ips[r]
             /\ UNCHANGED <<network, log, cached, releasedPods, restarts, untimely, deviations>>
<1> DEFINE v == call[n].version
           ip == log[n][v].annotation.ips[s]
           changed == [call[n] EXCEPT !.ips[s] = ip]
<1>1. call[n].stage = "ips" BY DEF AllocateIP, Turn
<1>2. network.ipam /\ v \in DOMAIN log[n] /\ log[n][v] # None /\ call[n] \in Call
  BY <1>1 DEF Inv, CallInv, CallOK
<1>3. Copy(n) = log[n][v] BY <1>1, CopyType DEF Inv
<1>4. /\ log[n][v].annotation # None /\ ip \notin ipams[s].allocated
      /\ \A r \in Subnets : call[n].ips[r] = None <=> r >= s
      /\ ipams' = [ipams EXCEPT ![s] = Allocate(@, ip)]
      /\ IF s = NumSubnets THEN Return(n) ELSE Goto(n, "ips", changed)
      /\ UNCHANGED <<network, log, cached, releasedPods, restarts, untimely, deviations>>
  BY <1>3 DEF AllocateIP, Turn, bounds, history
<1>5. ip \in Offset BY <1>1, <1>2, <1>3, <1>4, CopyType DEF Inv
<1>6. s >= s /\ (s = NumSubnets => \A r \in Subnets : r # s => ~(r >= s))
  BY PoolsNotEmpty DEF Subnets
<1> HIDE DEF v, ip
<1>7. /\ changed \in Call /\ changed.version = call[n].version /\ changed.uid = call[n].uid
      /\ changed.ips[s] = ip /\ (\A r \in Subnets : r # s => changed.ips[r] = call[n].ips[r])
  <2>1. changed = With(call[n], s, ip) BY DEF With
  <2> HIDE DEF changed
  <2> QED BY <1>2, <1>5, <2>1, CallWithIP
<1> HIDE DEF changed
<1>8. /\ ipams'[s].allocated = ipams[s].allocated \cup {ip}
      /\ \A r \in Subnets : r # s => ipams'[r] = ipams[r]
  <2>1. ipams \in [Subnets -> AllocationBitmap(MaxIPs)] BY DEF Inv, RestInv
  <2>2. ipams[s] \in AllocationBitmap(MaxIPs) BY <2>1
  <2>3. ipams'[s] = Allocate(ipams[s], ip) /\ \A r \in Subnets : r # s => ipams'[r] = ipams[r]
    BY <1>4, <2>1
  <2>4. Allocate(ipams[s], ip).allocated = ipams[s].allocated \cup {ip}
    BY <2>2 DEF Allocate, AllocationBitmap
  <2> QED BY <2>3, <2>4
<1>9. \/ /\ Return(n)
         /\ \A r \in Subnets : r # s => call[n].ips[r] # None
      \/ /\ UNCHANGED <<handled, todo>>
         /\ \A m \in Names : m # n => call'[m] = call[m]
         /\ call'[n].stage = "ips" /\ call'[n].uid = call[n].uid /\ call'[n].version = v
         /\ call'[n].ips[s] = ip /\ \A r \in Subnets : r # s => call'[n].ips[r] = call[n].ips[r]
  <2>1. CASE s = NumSubnets BY <1>4, <1>6, <2>1
  <2>2. CASE s # NumSubnets
    <3>1. Goto(n, "ips", changed) BY <1>4, <2>2
    <3> QED BY <1>7, <3>1, GotoEffect DEF Inv, v
  <2> QED BY <2>1, <2>2
<1>10. call[n].ips[s] = None BY <1>4, <1>6
<1>11. v = call[n].version /\ ip = log[n][v].annotation.ips[s] BY DEF v, ip
<1>12. v \in DOMAIN log[n] BY <1>2
<1>13. /\ v = call[n].version /\ log[n][v] # None /\ log[n][v].annotation # None
       /\ ip = log[n][v].annotation.ips[s]
       /\ ip \notin ipams[s].allocated
       /\ call[n].stage = "ips" /\ network.ipam /\ call[n].ips[s] = None
       /\ UNCHANGED <<network, log, cached, releasedPods, restarts, untimely, deviations>>
  BY <1>1, <1>2, <1>4, <1>10, <1>11
<1> QED BY <1>5, <1>8, <1>9, <1>12, <1>13

\* What taking a free IP does.
LEMMA AllocateNextIPEffect ==
    ASSUME Inv, NEW n \in Names, NEW s \in Subnets, AllocateNextIP(n, s)
    PROVE  \E ip \in Offset, v \in DOMAIN log[n] :
             /\ v = call[n].version /\ log[n][v] # None /\ log[n][v].annotation = None
             /\ ip \notin ipams[s].allocated
             /\ call[n].stage = "ips" /\ network.ipam /\ call[n].ips[s] = None
             /\ ipams'[s].allocated = ipams[s].allocated \cup {ip}
             /\ \A r \in Subnets : r # s => ipams'[r] = ipams[r]
             /\ UNCHANGED <<handled, todo>>
             /\ \A m \in Names : m # n => call'[m] = call[m]
             /\ call'[n].stage \in {"ips", "update"} /\ call'[n].uid = call[n].uid /\ call'[n].version = v
             /\ call'[n].ips[s] = ip /\ \A r \in Subnets : r # s => call'[n].ips[r] = call[n].ips[r]
             /\ UNCHANGED <<network, log, cached, releasedPods, restarts, untimely, deviations>>
<1> DEFINE v == call[n].version
           ip == AllocateBit(ipams[s], MaxIPs)
           changed == [call[n] EXCEPT !.ips[s] = ip]
           stage == IF s = NumSubnets THEN "update" ELSE "ips"
<1>1. call[n].stage = "ips" BY DEF AllocateNextIP, Turn
<1>2. network.ipam /\ v \in DOMAIN log[n] /\ log[n][v] # None /\ call[n] \in Call
  BY <1>1 DEF Inv, CallInv, CallOK
<1>3. Copy(n) = log[n][v] BY <1>1, CopyType DEF Inv
<1>4. /\ log[n][v].annotation = None /\ ~Full(ipams[s], MaxIPs)
      /\ \A r \in Subnets : call[n].ips[r] = None <=> r >= s
      /\ ipams' = [ipams EXCEPT ![s] = AllocateNext(@, MaxIPs)]
      /\ Goto(n, stage, changed)
      /\ UNCHANGED <<network, log, cached, releasedPods, restarts, untimely, deviations>>
  BY <1>3 DEF AllocateNextIP, Turn, bounds, history
<1>5. ipams \in [Subnets -> AllocationBitmap(MaxIPs)] /\ ipams[s] \in AllocationBitmap(MaxIPs)
  BY DEF Inv, RestInv
<1>6. ip \in Offset /\ ip \notin ipams[s].allocated
  BY <1>4, <1>5, AllocateBitIsFree, PoolsNotEmpty DEF Offset, AllocationBitmap
<1>7. /\ ipams'[s].allocated = ipams[s].allocated \cup {ip}
      /\ \A r \in Subnets : r # s => ipams'[r] = ipams[r]
  BY <1>4, <1>5 DEF AllocateNext
<1>8. call[n].ips[s] = None
  <2>1. s >= s BY DEF Subnets
  <2> QED BY <1>4, <2>1
<1> HIDE DEF v, ip
<1>9. /\ changed \in Call /\ changed.version = call[n].version /\ changed.uid = call[n].uid
      /\ changed.ips[s] = ip /\ (\A r \in Subnets : r # s => changed.ips[r] = call[n].ips[r])
  <2>1. changed = With(call[n], s, ip) BY DEF With
  <2> HIDE DEF changed
  <2> QED BY <1>2, <1>6, <2>1, CallWithIP
<1>10. stage \in {"ips", "update"} OBVIOUS
<1> HIDE DEF changed, stage
<1>11. /\ UNCHANGED <<handled, todo>>
       /\ \A m \in Names : m # n => call'[m] = call[m]
       /\ call'[n].stage = stage /\ call'[n].uid = call[n].uid /\ call'[n].version = v
       /\ call'[n].ips[s] = ip /\ \A r \in Subnets : r # s => call'[n].ips[r] = call[n].ips[r]
  BY <1>4, <1>9, GotoEffect DEF Inv, v
<1>12. v = call[n].version BY DEF v
<1> QED BY <1>1, <1>2, <1>4, <1>6, <1>7, <1>8, <1>10, <1>11, <1>12

\* A call is for what it was for while the handlers are still.
LEMMA CalledForSame ==
    ASSUME NEW n \in Names, CalledFor(n), UNCHANGED <<log, handled, todo>>, call'[n].uid = call[n].uid
    PROVE  CalledFor(n)'
BY DEF CalledFor, DeletedAfter

\* IPs of a pod annotated out of turn are accounted for.
LEMMA UntimelyAccounted ==
    ASSUME NEW n \in Names, NEW v \in DOMAIN log'[n], log'[n][v] # None, log'[n][v].annotation # None,
           NEW s \in Subnets, <<n, log'[n][v].uid>> \in untimely',
           NEW ip, ip = log'[n][v].annotation.ips[s]
    PROVE  Accounted(s, ip)'
<1> DEFINE u == <<n, log[n][v].uid>>'
<1>1. u \in untimely' /\ u[1] = n /\ u[2] = log'[n][v].uid OBVIOUS
<1> HIDE DEF u
<1>2. PICK w : w = u OBVIOUS
<1>3. ip \in EverHad(w, s)' BY <1>1, <1>2 DEF EverHad
<1> QED BY <1>1, <1>2, <1>3 DEF Accounted

\* IPs of an annotated version that is not handled yet are accounted for.
LEMMA AnnotationAccounted ==
    ASSUME NEW n \in Names, NEW v \in DOMAIN log'[n], log'[n][v] # None, log'[n][v].annotation # None,
           Floor(n)' <= v, todo'[n] # "sync", NEW s \in Subnets,
           <<n, log'[n][v].uid>> \in releasedPods' => <<n, log'[n][v].uid>> \in untimely'
    PROVE  \A ip : ip = log'[n][v].annotation.ips[s] => Accounted(s, ip)'
<1> SUFFICES ASSUME NEW ip, ip = log'[n][v].annotation.ips[s] PROVE Accounted(s, ip)'
  OBVIOUS
<1>1. CASE <<n, log'[n][v].uid>> \notin releasedPods'
  <2>1. Holds(n, v)' BY <1>1 DEF Holds
  <2>2. IPOf(n, v, s)' = ip BY DEF IPOf
  <2> QED BY <2>1, <2>2 DEF Accounted
<1>2. CASE <<n, log'[n][v].uid>> \in untimely' BY <1>2, UntimelyAccounted
<1> QED BY <1>1, <1>2

\* A step in which a call without IPs returns.
LEMMA StartReturns ==
    ASSUME CoreInv, Inv', NEW n \in Names, call[n].stage = "start", Return(n),
           UNCHANGED <<log, cached, releasedPods, restarts, ipams>>, untimely \subseteq untimely'
    PROVE  CoreInv'
<1>1. call[n].ips = NoIPs BY DEF CoreInv, ProgressInv, ReservingOK
<1>2. ASSUME NEW s \in Subnets, NEW ip \in ipams'[s].allocated
      PROVE  ip \in ipams[s].allocated /\ call[n].ips[s] # ip
  BY <1>1, AllocatedOffset DEF CoreInv, Inv, NoIPs
<1>3. Onward
  <2>1. \A m \in Names : cached[m] <= cached'[m] BY DEF CoreInv, Inv, PositionInv
  <2> QED BY <2>1, SameIsGrown DEF Onward, CoreInv, Inv
<1>4. VersionsInv' /\ UntimelyInv' BY SameVersions DEF CoreInv
<1> QED BY <1>2, <1>3, <1>4, Returns

\* A step in which a call goes to its rollback.
LEMMA RollsBack ==
    ASSUME CoreInv, Inv', NEW n \in Names, call[n].stage # "idle",
           NEW why \in {"ok", "allocated", "full", "conflict", "failed"},
           Goto(n, "rollback", [call[n] EXCEPT !.why = why]),
           UNCHANGED <<log, cached, releasedPods, restarts, ipams, untimely>>
    PROVE  CoreInv'
<1>1. /\ UNCHANGED <<handled, todo>>
      /\ \A m \in Names : m # n => call'[m] = call[m]
      /\ call'[n].stage = "rollback" /\ call'[n].uid = call[n].uid /\ call'[n].ips = call[n].ips
  BY RollbackEffect DEF CoreInv, Inv
<1>2. CalledFor(n)' BY <1>1, CalledForSame DEF CoreInv, ProgressInv, ReservingOK
<1>3. ReservingOK(n)' BY <1>1, <1>2 DEF ReservingOK
<1> QED BY <1>1, <1>3, GoesOn

\* The lister not finding the pod.
LEMMA GetFailsCore == ASSUME CoreInv, NEW n \in Names, GetFails(n) PROVE CoreInv'
<1>1. Inv' BY GetFailsPreserves DEF CoreInv
<1> QED BY <1>1, StartReturns DEF GetFails, Note, allocators, bounds

\* Not getting an ID.
LEMMA AssignIDFailsCore == ASSUME CoreInv, NEW n \in Names, AssignIDFails(n) PROVE CoreInv'
<1>1. Inv' BY AssignIDFailsPreserves DEF CoreInv
<1> QED BY <1>1, StartReturns DEF AssignIDFails, Note, allocators, bounds

\* What getting the pod and its ID does.
LEMMA AssignIDEffect ==
    ASSUME Inv, Inv', NEW n \in Names, AssignID(n)
    PROVE  LET pod == log[n][cached[n]]
           IN /\ cached[n] \in DOMAIN log[n] /\ pod # None
              /\ call[n].stage = "start"
              /\ \/ Return(n) /\ ~network.ipam
                 \/ /\ UNCHANGED <<handled, todo>>
                    /\ \A m \in Names : m # n => call'[m] = call[m]
                    /\ call'[n].uid = call[n].uid /\ call'[n].ips = call[n].ips
                    /\ call'[n].version = cached[n]
                    /\ \/ call'[n].stage = "ips" /\ network.ipam
                       \/ call'[n].stage = "update" /\ pod.annotation = None /\ ~network.ipam
              /\ untimely' = untimely \cup ({<<n, pod.uid>>} \cap releasedPods)
              /\ deviations' = deviations
                     \cup (IF todo[n] = "sync" /\ pod.annotation = None THEN {"sync allocated"} ELSE {})
                     \cup SyncMissed(n, pod)
              /\ UNCHANGED <<network, log, cached, ipams, releasedPods, restarts>>
<1> DEFINE pod == At(n, cached[n])
           u == <<n, call[n].uid>>
           tentative == [call[n] EXCEPT !.version = cached[n], !.id = nameIdMap'[u]]
<1>1. /\ call[n].stage = "start" /\ pod # None
      /\ IF network.ipam THEN Goto(n, "ips", tentative)
         ELSE IF pod.annotation = None THEN Goto(n, "update", tentative)
         ELSE Return(n)
      /\ untimely' = untimely \cup ({<<n, pod.uid>>} \cap releasedPods)
      /\ deviations' = deviations
             \cup (IF todo[n] = "sync" /\ pod.annotation = None THEN {"sync allocated"} ELSE {})
             \cup SyncMissed(n, pod)
      /\ UNCHANGED <<network, log, cached, ipams, releasedPods, restarts>>
  BY DEF AssignID, bounds
<1>2. cached[n] \in Nat /\ cached[n] \in DOMAIN log[n] /\ log[n][cached[n]] = pod
  BY <1>1, AtType DEF Inv, PositionInv
<1>3. call[n] \in Call /\ u \in UID BY <1>1, CallUID DEF Inv
<1>4. nameIdMap'[u] \in ID BY <1>3 DEF Inv, IDInv
<1>5. /\ tentative \in Call /\ tentative.version = cached[n] /\ tentative.uid = call[n].uid
      /\ tentative.ips = call[n].ips
  BY <1>2, <1>3, <1>4 DEF Call
<1> HIDE DEF tentative, pod
<1>6. \/ Return(n) /\ ~network.ipam
      \/ /\ UNCHANGED <<handled, todo>>
         /\ \A m \in Names : m # n => call'[m] = call[m]
         /\ call'[n].uid = call[n].uid /\ call'[n].ips = call[n].ips
         /\ call'[n].version = cached[n]
         /\ \/ call'[n].stage = "ips" /\ network.ipam
            \/ call'[n].stage = "update" /\ pod.annotation = None /\ ~network.ipam
  <2>1. CASE network.ipam
    <3>1. Goto(n, "ips", tentative) BY <1>1, <2>1
    <3>2. CallInv BY DEF Inv
    <3>3. /\ UNCHANGED <<handled, todo>>
          /\ \A m \in Names : m # n => call'[m] = call[m]
          /\ call'[n].stage = "ips" /\ call'[n].uid = tentative.uid
          /\ call'[n].version = tentative.version /\ call'[n].ips = tentative.ips
      BY <1>5, <3>1, <3>2, GotoEffect
    <3> QED BY <1>5, <2>1, <3>3
  <2>2. CASE ~network.ipam /\ pod.annotation = None
    <3>1. Goto(n, "update", tentative) BY <1>1, <2>2
    <3>2. CallInv BY DEF Inv
    <3>3. /\ UNCHANGED <<handled, todo>>
          /\ \A m \in Names : m # n => call'[m] = call[m]
          /\ call'[n].stage = "update" /\ call'[n].uid = tentative.uid
          /\ call'[n].version = tentative.version /\ call'[n].ips = tentative.ips
      BY <1>5, <3>1, <3>2, GotoEffect
    <3> QED BY <1>5, <2>2, <3>3
  <2>3. CASE ~network.ipam /\ pod.annotation # None BY <1>1, <2>3
  <2> QED BY <2>1, <2>2, <2>3
<1> QED BY <1>1, <1>2, <1>6

\* Getting the pod and its ID: nothing is reserved yet.
LEMMA AssignIDCore == ASSUME CoreInv, NEW n \in Names, AssignID(n) PROVE CoreInv'
<1>1. Inv' BY AssignIDPreserves DEF CoreInv
<1> DEFINE pod == log[n][cached[n]]
<1>2. /\ cached[n] \in DOMAIN log[n] /\ pod # None
      /\ call[n].stage = "start"
      /\ \/ Return(n) /\ ~network.ipam
         \/ /\ UNCHANGED <<handled, todo>>
            /\ \A m \in Names : m # n => call'[m] = call[m]
            /\ call'[n].uid = call[n].uid /\ call'[n].ips = call[n].ips
            /\ call'[n].version = cached[n]
            /\ \/ call'[n].stage = "ips" /\ network.ipam
               \/ call'[n].stage = "update" /\ pod.annotation = None /\ ~network.ipam
      /\ untimely' = untimely \cup ({<<n, pod.uid>>} \cap releasedPods)
      /\ UNCHANGED <<network, log, cached, ipams, releasedPods, restarts>>
  BY <1>1, AssignIDEffect DEF CoreInv
<1>3. CASE Return(n) BY <1>1, <1>2, <1>3, StartReturns
<1>4. CASE ~Return(n)
  <2>1. call[n].ips = NoIPs /\ CalledFor(n) BY <1>2 DEF CoreInv, ProgressInv, ReservingOK
  <2>2. CalledFor(n)' BY <1>2, <1>4, <2>1, CalledForSame
  <2>3. handled[n] < cached[n] BY <1>2, Positions DEF CoreInv
  <2>4. \A s \in Subnets : call'[n].ips[s] = None BY <1>2, <1>4, <2>1 DEF NoIPs
  <2>5. <<n, pod.uid>> \in releasedPods' => <<n, pod.uid>> \in untimely' BY <1>2
  <2>6. ReservingOK(n)' BY <1>2, <1>4, <2>2, <2>3, <2>4, <2>5 DEF ReservingOK
  <2> QED BY <1>1, <1>2, <1>4, <2>6, GoesOn
<1> QED BY <1>3, <1>4

\* With an event done, the next version matters.
LEMMA DoneFloor ==
    ASSUME PositionInv, NEW n \in Names, Done(n)
    PROVE  Floor(n)' = handled[n] + 1 /\ todo'[n] # "sync"
<1>1. CASE todo[n] = "sync" BY <1>1 DEF Done, Floor, PositionInv
<1>2. CASE todo[n] # "sync" BY <1>2 DEF Done, Floor, PositionInv
<1> QED BY <1>1, <1>2

\* ReleaseIPs takes the IPs out of the bitmaps.
LEMMA ReleaseIPsEffect ==
    ASSUME RestInv, NEW ips, ReleaseIPs(ips), NEW s \in Subnets
    PROVE  ipams'[s].allocated = ipams[s].allocated \ {ips[s]}
<1>1. ipams[s] \in AllocationBitmap(MaxIPs) BY DEF RestInv
<1>2. ipams'[s] = IF ips[s] = None THEN ipams[s] ELSE Release(ipams[s], ips[s]) BY DEF ReleaseIPs
<1>3. Release(ipams[s], ips[s]).allocated = ipams[s].allocated \ {ips[s]}
  BY <1>1 DEF Release, AllocationBitmap
<1>4. None \notin ipams[s].allocated BY AllocatedOffset
<1> QED BY <1>2, <1>3, <1>4

\* The same of the bitmaps after a step.
LEMMA AllocatedLater == ASSUME RestInv' PROVE \A s \in Subnets : None \notin ipams'[s].allocated
<1>1. ASSUME NEW s \in Subnets PROVE None \notin ipams'[s].allocated
  <2>1. ipams'[s] \in AllocationBitmap(MaxIPs) BY DEF RestInv
  <2> QED BY <2>1, NoneIsNil DEF AllocationBitmap, Offset
<1> QED BY <1>1

\* Reserving an annotated IP: the call has it, until the pod has all of them.
LEMMA AllocateIPCore ==
    ASSUME CoreInv, NEW n \in Names, NEW s \in Subnets, AllocateIP(n, s) PROVE CoreInv'
<1>1. Inv' BY AllocateIPPreserves DEF CoreInv
<1>2. PICK ip \in Offset, v \in DOMAIN log[n] :
             /\ v = call[n].version /\ log[n][v] # None /\ log[n][v].annotation # None
             /\ ip = log[n][v].annotation.ips[s]
             /\ ip \notin ipams[s].allocated
             /\ call[n].stage = "ips" /\ network.ipam /\ call[n].ips[s] = None
             /\ ipams'[s].allocated = ipams[s].allocated \cup {ip}
             /\ \A r \in Subnets : r # s => ipams'[r] = ipams[r]
             /\ \/ /\ Return(n)
                   /\ \A r \in Subnets : r # s => call[n].ips[r] # None
                \/ /\ UNCHANGED <<handled, todo>>
                   /\ \A m \in Names : m # n => call'[m] = call[m]
                   /\ call'[n].stage = "ips" /\ call'[n].uid = call[n].uid /\ call'[n].version = v
                   /\ call'[n].ips[s] = ip /\ \A r \in Subnets : r # s => call'[n].ips[r] = call[n].ips[r]
             /\ UNCHANGED <<network, log, cached, releasedPods, restarts, untimely, deviations>>
  BY AllocateIPEffect DEF CoreInv
<1>3. /\ CalledFor(n) /\ handled[n] < v
      /\ \A r \in Subnets : call[n].ips[r] \in {None, log[n][v].annotation.ips[r]}
      /\ <<n, log[n][v].uid>> \in releasedPods => <<n, log[n][v].uid>> \in untimely
  BY <1>2 DEF CoreInv, ProgressInv, ReservingOK
<1>4. \A r \in Subnets : None \notin ipams'[r].allocated BY <1>1, AllocatedLater DEF Inv
<1>5. CASE Return(n)
  <2>1. Onward
    <3>1. UNCHANGED <<log, cached, restarts, untimely>> BY <1>2
    <3>2. \A m \in Names : cached[m] <= cached'[m] BY <3>1 DEF CoreInv, Inv, PositionInv
    <3> QED BY <3>1, <3>2, SameIsGrown DEF Onward, CoreInv, Inv
  <2>2. VersionsInv' /\ UntimelyInv' BY <1>2, SameVersions DEF CoreInv
  <2>3. Floor(n)' = handled[n] + 1 /\ todo'[n] # "sync"
    BY <1>5, DoneFloor DEF Return, CoreInv, Inv
  <2>4. Floor(n)' <= v /\ v \in DOMAIN log'[n] /\ log'[n][v] = log[n][v]
    <3>1. v \in Nat /\ handled[n] \in Nat BY Positions DEF CoreInv
    <3>2. handled[n] + 1 <= v BY <1>3, <3>1
    <3>3. log' = log BY <1>2
    <3> QED BY <2>3, <3>2, <3>3
  <2>5. ASSUME NEW r \in Subnets, NEW x, x = log[n][v].annotation.ips[r] PROVE Accounted(r, x)'
    <3>1. /\ log'[n][v] # None /\ log'[n][v].annotation # None /\ x = log'[n][v].annotation.ips[r]
          /\ <<n, log'[n][v].uid>> \in releasedPods' => <<n, log'[n][v].uid>> \in untimely'
      BY <1>2, <1>3, <2>4, <2>5
    <3> QED BY <2>3, <2>4, <3>1, AnnotationAccounted
  <2>6. ASSUME NEW r \in Subnets, NEW x \in ipams'[r].allocated
        PROVE  /\ x \in ipams[r].allocated \/ Accounted(r, x)'
               /\ call[n].ips[r] = x => Accounted(r, x)'
    <3>1. x # None BY <1>4
    <3>2. call[n].ips[r] = x => x = log[n][v].annotation.ips[r] BY <1>3, <3>1
    <3>3. x \in ipams[r].allocated \/ x = log[n][v].annotation.ips[r]
      <4>1. /\ ipams'[s].allocated = ipams[s].allocated \cup {log[n][v].annotation.ips[s]}
            /\ \A q \in Subnets : q # s => ipams'[q] = ipams[q]
        BY <1>2
      <4> QED BY <2>6, <4>1
    <3> QED BY <2>5, <3>2, <3>3
  <2> QED BY <1>1, <1>2, <1>5, <2>1, <2>2, <2>6, Returns
<1>6. CASE ~Return(n)
  <2>1. CalledFor(n)' BY <1>2, <1>3, <1>6, CalledForSame
  <2>2. ReservingOK(n)' BY <1>2, <1>3, <1>6, <2>1 DEF ReservingOK
  <2>3. ASSUME NEW r \in Subnets, NEW x \in ipams'[r].allocated
        PROVE  /\ x \in ipams[r].allocated \/ call'[n].ips[r] = x
               /\ call[n].ips[r] = x => call'[n].ips[r] = x
    <3>1. x # None BY <1>4
    <3> QED BY <1>2, <1>6, <3>1
  <2> QED BY <1>1, <1>2, <1>6, <2>2, <2>3, GoesOn
<1> QED BY <1>5, <1>6

\* Taking a free IP: the call has it.
LEMMA AllocateNextIPCore ==
    ASSUME CoreInv, NEW n \in Names, NEW s \in Subnets, AllocateNextIP(n, s) PROVE CoreInv'
<1>1. Inv' BY AllocateNextIPPreserves DEF CoreInv
<1>2. PICK ip \in Offset, v \in DOMAIN log[n] :
             /\ v = call[n].version /\ log[n][v] # None /\ log[n][v].annotation = None
             /\ ip \notin ipams[s].allocated
             /\ call[n].stage = "ips" /\ network.ipam /\ call[n].ips[s] = None
             /\ ipams'[s].allocated = ipams[s].allocated \cup {ip}
             /\ \A r \in Subnets : r # s => ipams'[r] = ipams[r]
             /\ UNCHANGED <<handled, todo>>
             /\ \A m \in Names : m # n => call'[m] = call[m]
             /\ call'[n].stage \in {"ips", "update"} /\ call'[n].uid = call[n].uid /\ call'[n].version = v
             /\ call'[n].ips[s] = ip /\ \A r \in Subnets : r # s => call'[n].ips[r] = call[n].ips[r]
             /\ UNCHANGED <<network, log, cached, releasedPods, restarts, untimely, deviations>>
  BY AllocateNextIPEffect DEF CoreInv
<1>3. CalledFor(n) /\ handled[n] < v BY <1>2 DEF CoreInv, ProgressInv, ReservingOK
<1>4. CalledFor(n)' BY <1>2, <1>3, CalledForSame
<1>5. ReservingOK(n)' BY <1>2, <1>3, <1>4 DEF ReservingOK
<1>6. ASSUME NEW r \in Subnets, NEW x \in ipams'[r].allocated
      PROVE  /\ x \in ipams[r].allocated \/ call'[n].ips[r] = x
             /\ call[n].ips[r] = x => call'[n].ips[r] = x
  <2>1. x # None BY <1>1, AllocatedLater DEF Inv
  <2> QED BY <1>2, <2>1
<1> QED BY <1>1, <1>2, <1>5, <1>6, GoesOn

\* An annotated IP is taken.
LEMMA ErrAllocatedCore ==
    ASSUME CoreInv, NEW n \in Names, NEW s \in Subnets, ErrAllocated(n, s) PROVE CoreInv'
<1>1. Inv' BY ErrAllocatedPreserves DEF CoreInv
<1> QED BY <1>1, RollsBack DEF ErrAllocated, Turn, allocators, bounds, history

\* There is no IP left.
LEMMA ErrFullCore ==
    ASSUME CoreInv, NEW n \in Names, NEW s \in Subnets, ErrFull(n, s) PROVE CoreInv'
<1>1. Inv' BY ErrFullPreserves DEF CoreInv
<1> QED BY <1>1, RollsBack DEF ErrFull, Turn, Note, allocators, bounds

\* The update is refused.
LEMMA UpdateRefusedCore == ASSUME CoreInv, NEW n \in Names, UpdateRefused(n) PROVE CoreInv'
<1>1. Inv' BY UpdateRefusedPreserves DEF CoreInv
<1>2. PICK why \in {"failed", "conflict"} : Goto(n, "rollback", [call[n] EXCEPT !.why = why])
  BY DEF UpdateRefused
<1> QED BY <1>1, <1>2, RollsBack DEF UpdateRefused, allocators, bounds, history

\* The update fails.
LEMMA UpdateFailsCore == ASSUME CoreInv, NEW n \in Names, UpdateFails(n) PROVE CoreInv'
<1>1. Inv' BY UpdateFailsPreserves DEF CoreInv
<1> QED BY <1>1, RollsBack DEF UpdateFails, Note, allocators

\* What a rollback does.
LEMMA RollbackDoes ==
    ASSUME Inv, NEW n \in Names, Rollback(n)
    PROVE  /\ call[n].stage = "rollback"
           /\ \A s \in Subnets : ipams'[s].allocated = ipams[s].allocated \ {call[n].ips[s]}
           /\ \/ Return(n)
              \/ /\ UNCHANGED <<handled, todo>>
                 /\ \A m \in Names : m # n => call'[m] = call[m]
                 /\ call'[n].stage = "start" /\ call'[n].uid = call[n].uid /\ call'[n].ips = NoIPs
           /\ UNCHANGED <<network, log, cached, releasedPods, restarts, untimely, deviations>>
<1> DEFINE c == [IdleCall EXCEPT !.uid = call[n].uid, !.try = call[n].try + 1]
           d == [c EXCEPT !.stage = "start"]
<1>1. /\ call[n].stage = "rollback" /\ ReleaseIPs(call[n].ips)
      /\ Goto(n, "start", c) \/ Return(n)
      /\ UNCHANGED <<network, log, cached, releasedPods, restarts, untimely, deviations>>
  BY DEF Rollback, bounds, history
<1>2. \A s \in Subnets : ipams'[s].allocated = ipams[s].allocated \ {call[n].ips[s]}
  BY <1>1, ReleaseIPsEffect DEF Inv
<1>3. d.stage = "start" /\ d.uid = call[n].uid /\ d.ips = NoIPs BY DEF IdleCall
<1>4. ASSUME Goto(n, "start", c)
      PROVE  /\ UNCHANGED <<handled, todo>> /\ call'[n] = d
             /\ \A m \in Names : m # n => call'[m] = call[m]
  <2>1. call' = [call EXCEPT ![n] = d] /\ UNCHANGED <<handled, todo>> BY <1>4 DEF Goto
  <2> HIDE DEF d, c
  <2> QED BY <2>1 DEF Inv, CallInv
<1> HIDE DEF c, d
<1> QED BY <1>1, <1>2, <1>3, <1>4

\* A rollback: what the call has had is free.
LEMMA RollbackCore == ASSUME CoreInv, NEW n \in Names, Rollback(n) PROVE CoreInv'
<1>1. Inv' BY RollbackPreserves DEF CoreInv
<1>2. /\ call[n].stage = "rollback"
      /\ \A s \in Subnets : ipams'[s].allocated = ipams[s].allocated \ {call[n].ips[s]}
      /\ \/ Return(n)
         \/ /\ UNCHANGED <<handled, todo>>
            /\ \A m \in Names : m # n => call'[m] = call[m]
            /\ call'[n].stage = "start" /\ call'[n].uid = call[n].uid /\ call'[n].ips = NoIPs
      /\ UNCHANGED <<network, log, cached, releasedPods, restarts, untimely, deviations>>
  BY RollbackDoes DEF CoreInv
<1>3. \A s \in Subnets : \A x \in ipams'[s].allocated : x \in ipams[s].allocated /\ call[n].ips[s] # x
  BY <1>2
<1>4. CASE Return(n)
  <2>1. \A m \in Names : cached[m] <= cached'[m] BY <1>2 DEF CoreInv, Inv, PositionInv
  <2>2. Onward BY <1>2, <2>1, SameIsGrown DEF Onward, CoreInv, Inv
  <2>3. VersionsInv' /\ UntimelyInv' BY <1>2, SameVersions DEF CoreInv
  <2> QED BY <1>1, <1>2, <1>3, <1>4, <2>2, <2>3, Returns
<1>5. CASE ~Return(n)
  <2>1. CalledFor(n)' BY <1>2, <1>5, CalledForSame DEF CoreInv, ProgressInv, ReservingOK
  <2>2. ReservingOK(n)' BY <1>2, <1>5, <2>1 DEF ReservingOK
  <2> QED BY <1>1, <1>2, <1>3, <1>5, <2>2, GoesOn
<1> QED BY <1>4, <1>5

\* What storing the annotation does.
LEMMA StoreEffect ==
    ASSUME CoreInv, NEW n \in Names, Store(n)
    PROVE  \E pod \in Pod :
             /\ call[n].stage = "update"
             /\ Latest(n) # None /\ Latest(n).annotation = None
             /\ log' = [log EXCEPT ![n] = Append(@, pod)]
             /\ pod.uid = Latest(n).uid /\ pod.phase = Latest(n).phase
             /\ pod.annotation # None /\ pod.annotation.ips = call[n].ips
             /\ untimely' = untimely \cup (IF pod.phase # "scheduled" THEN {<<n, pod.uid>>} ELSE {})
<1> DEFINE annotation == [ips |-> call[n].ips, id |-> call[n].id]
           pod == [Copy(n) EXCEPT !.annotation = annotation]
<1>1. /\ call[n].stage = "update" /\ call[n].version = Len(log[n])
      /\ log' = [log EXCEPT ![n] = Append(@, pod)]
      /\ untimely' = untimely \cup (IF pod.phase # "scheduled" THEN {<<n, pod.uid>>} ELSE {})
  BY DEF Store
<1>2. call[n] \in Call BY DEF CoreInv, Inv, CallInv
<1>3. annotation \in PodAnnotation /\ annotation.ips = call[n].ips BY <1>2 DEF Call, PodAnnotation
<1>4. annotation # None BY <1>3, NoneIsNil
<1> HIDE DEF annotation
<1>5. Copy(n) \in Pod /\ Copy(n) = log[n][call[n].version] BY <1>1, CopyType DEF CoreInv, Inv
<1>6. Copy(n) = Latest(n) BY <1>1 DEF Copy, Latest
<1>7. Copy(n).annotation = None BY <1>1, <1>5 DEF CoreInv, ProgressInv, ReservingOK
<1>8. Latest(n) # None BY <1>5, <1>6, NoneIsNil
<1>9. pod \in Pod /\ pod.annotation = annotation /\ pod.uid = Copy(n).uid /\ pod.phase = Copy(n).phase
  BY <1>3, <1>5 DEF Pod
<1> HIDE DEF pod
<1> QED BY <1>1, <1>3, <1>4, <1>6, <1>7, <1>8, <1>9

\* What annotating the pod does.
LEMMA UpdatePodStatusEffect ==
    ASSUME CoreInv, NEW n \in Names, UpdatePodStatus(n)
    PROVE  \E pod \in Pod :
             /\ call[n].stage = "update" /\ Return(n)
             /\ Latest(n) # None /\ Latest(n).annotation = None
             /\ log' = [log EXCEPT ![n] = Append(@, pod)]
             /\ pod.uid = Latest(n).uid /\ pod.phase = Latest(n).phase
             /\ pod.annotation # None /\ pod.annotation.ips = call[n].ips
             /\ untimely' = untimely \cup (IF pod.phase # "scheduled" THEN {<<n, pod.uid>>} ELSE {})
             /\ UNCHANGED <<network, cached, ipams, releasedPods, restarts, deviations>>
<1>1. /\ Store(n) /\ Return(n)
      /\ UNCHANGED <<network, cached, ipams, releasedPods, restarts, deviations>>
  BY DEF UpdatePodStatus, allocators, bounds
<1> QED BY <1>1, StoreEffect

\* A completed version of the last pod means that the last version is completed.
LEMMA LatestCompleted ==
    ASSUME LogInv, VersionsInv, NEW n \in Names, Latest(n) # None,
           NEW v \in DOMAIN log[n], log[n][v] # None, log[n][v].uid = Latest(n).uid,
           log[n][v].phase = "completed"
    PROVE  Latest(n).phase = "completed"
<1> DEFINE k == Len(log[n])
<1>1. k \in DOMAIN log[n] /\ Latest(n) = log[n][k] BY LatestVersion
<1>2. k \in Nat /\ DOMAIN log[n] = 1 .. k BY LogShape
<1> HIDE DEF k
<1>3. v = k \/ v < k BY <1>2
<1> QED BY <1>1, <1>3 DEF VersionsInv, Keeps

\* The log with the annotation stored.
LEMMA StoreVersions ==
    ASSUME CoreInv, NEW n \in Names, NEW pod \in Pod,
           Latest(n) # None, Latest(n).annotation = None,
           log' = [log EXCEPT ![n] = Append(@, pod)],
           pod.uid = Latest(n).uid, pod.phase = Latest(n).phase,
           untimely' = untimely \cup (IF pod.phase # "scheduled" THEN {<<n, pod.uid>>} ELSE {}),
           UNCHANGED <<cached, restarts>>
    PROVE  /\ VersionsInv' /\ UntimelyInv' /\ Onward
           /\ \A v \in DOMAIN log[n] :
                  log[n][v] # None /\ log[n][v].uid = pod.uid /\ log[n][v].phase = "completed" =>
                      <<n, pod.uid>> \in untimely'
<1>1. VersionsInv' BY NextVersion DEF CoreInv, Inv, Keeps
<1>2. ASSUME NEW v \in DOMAIN log[n], log[n][v] # None, log[n][v].uid = pod.uid,
             log[n][v].phase = "completed"
      PROVE  <<n, pod.uid>> \in untimely'
  <2>1. pod.phase = "completed" BY <1>2, LatestCompleted DEF CoreInv, Inv
  <2> QED BY <2>1
<1>3. pod.phase = "unscheduled" => <<n, pod.uid>> \in untimely' OBVIOUS
<1>4. UntimelyInv' BY <1>1, <1>2, <1>3, AppendKeepsUntimely DEF CoreInv, Inv
<1>5. Onward
  <2>1. Grown BY Appended DEF Grown, CoreInv, Inv
  <2>2. \A m \in Names : cached[m] <= cached'[m] BY DEF CoreInv, Inv, PositionInv
  <2> QED BY <2>1, <2>2 DEF Onward
<1> QED BY <1>1, <1>2, <1>4, <1>5

\* Annotating the pod: the pod has what the call had.
LEMMA UpdatePodStatusCore == ASSUME CoreInv, NEW n \in Names, UpdatePodStatus(n) PROVE CoreInv'
<1>1. Inv' BY UpdatePodStatusPreserves DEF CoreInv
<1>2. PICK pod \in Pod :
             /\ call[n].stage = "update" /\ Return(n)
             /\ Latest(n) # None /\ Latest(n).annotation = None
             /\ log' = [log EXCEPT ![n] = Append(@, pod)]
             /\ pod.uid = Latest(n).uid /\ pod.phase = Latest(n).phase
             /\ pod.annotation # None /\ pod.annotation.ips = call[n].ips
             /\ untimely' = untimely \cup (IF pod.phase # "scheduled" THEN {<<n, pod.uid>>} ELSE {})
             /\ UNCHANGED <<network, cached, ipams, releasedPods, restarts, deviations>>
  BY UpdatePodStatusEffect
<1>3. /\ VersionsInv' /\ UntimelyInv' /\ Onward
      /\ \A v \in DOMAIN log[n] :
             log[n][v] # None /\ log[n][v].uid = pod.uid /\ log[n][v].phase = "completed" =>
                 <<n, pod.uid>> \in untimely'
  BY <1>2, StoreVersions
<1>4. Floor(n)' = handled[n] + 1 /\ todo'[n] # "sync" BY <1>2, DoneFloor DEF Return, CoreInv, Inv
<1>5. PICK v \in DOMAIN log'[n] : log'[n][v] = pod /\ handled[n] + 1 <= v
  <2>1. /\ Len(log[n]) \in Nat /\ DOMAIN log'[n] = 1 .. Len(log[n]) + 1
        /\ log'[n][Len(log[n]) + 1] = pod
    BY <1>2, AppendedLast DEF CoreInv, Inv
  <2>2. handled[n] \in Nat /\ cached[n] \in Nat /\ handled[n] <= cached[n] /\ cached[n] <= Len(log[n])
    BY Positions DEF CoreInv
  <2>3. handled[n] + 1 <= Len(log[n]) + 1 /\ Len(log[n]) + 1 \in 1 .. Len(log[n]) + 1 BY <2>1, <2>2
  <2> QED BY <2>1, <2>3
<1>6. pod # None BY NoneIsNil
<1>7. <<n, pod.uid>> \in releasedPods' => <<n, pod.uid>> \in untimely'
  BY <1>2, <1>3 DEF CoreInv, ProgressInv, ReleasedOK
<1>8. ASSUME NEW s \in Subnets, NEW ip, call[n].ips[s] = ip PROVE Accounted(s, ip)'
  BY <1>2, <1>4, <1>5, <1>6, <1>7, <1>8, AnnotationAccounted
<1> QED BY <1>1, <1>2, <1>3, <1>8, Returns

\* A lost reply: the pod has what the call has, which the call will give back.
LEMMA ReplyLostCore == ASSUME CoreInv, NEW n \in Names, ReplyLost(n) PROVE CoreInv'
<1> USE DEF CoreInv
<1>1. Inv' BY ReplyLostPreserves
<1>2. /\ Store(n) /\ Goto(n, "rollback", [call[n] EXCEPT !.why = "failed"])
      /\ UNCHANGED <<cached, ipams, releasedPods, restarts>>
  BY DEF ReplyLost, allocators
<1>3. PICK pod \in Pod :
             /\ call[n].stage = "update"
             /\ Latest(n) # None /\ Latest(n).annotation = None
             /\ log' = [log EXCEPT ![n] = Append(@, pod)]
             /\ pod.uid = Latest(n).uid /\ pod.phase = Latest(n).phase
             /\ untimely' = untimely \cup (IF pod.phase # "scheduled" THEN {<<n, pod.uid>>} ELSE {})
  BY <1>2, StoreEffect
<1>4. VersionsInv' /\ UntimelyInv' /\ Onward BY <1>2, <1>3, StoreVersions
<1>5. /\ UNCHANGED <<handled, todo>>
      /\ \A m \in Names : m # n => call'[m] = call[m]
      /\ call'[n].stage = "rollback" /\ call'[n].uid = call[n].uid /\ call'[n].ips = call[n].ips
  BY <1>2, RollbackEffect DEF Inv
<1>6. \A m \in Names : Still(m) BY <1>2, <1>5 DEF Still
<1>7. CalledFor(n)'
  <2>1. CalledFor(n) BY <1>3 DEF ProgressInv, ReservingOK
  <2>2. handled[n] + 1 \in DOMAIN log[n] BY <1>3, Positions
  <2>3. \A v \in DOMAIN log[n] : v \in DOMAIN log'[n] /\ log'[n][v] = log[n][v] BY <1>4 DEF Onward, Grown
  <2>4. DeletedAfter(n, handled[n] + 1) => DeletedAfter(n, handled[n] + 1)' BY <1>5, <2>3 DEF DeletedAfter
  <2> QED BY <1>5, <2>1, <2>2, <2>3, <2>4 DEF CalledFor
<1>8. ReservingOK(n)' BY <1>5, <1>7 DEF ReservingOK
<1>9. ReleasedOK(n)' /\ HandledOK(n)' BY <1>1, <1>4, <1>6, StillReleased, StillHandled DEF ProgressInv
<1>10. ProgressInv' BY <1>1, <1>3, <1>4, <1>5, <1>6, <1>8, <1>9, ProgressStep
<1>11. ASSUME NEW s \in Subnets, NEW ip \in ipams'[s].allocated
       PROVE  /\ ip \in ipams[s].allocated
              /\ call[n].ips[s] = ip => Accounted(s, ip)'
              /\ \A v \in DOMAIN log[n] : todo[n] # "sync" /\ Holds(n, v) /\ IPOf(n, v, s) = ip =>
                     Accounted(s, ip)'
  <2>1. ip \in ipams[s].allocated BY <1>2, <1>11
  <2>2. call[n].ips[s] = ip => Accounted(s, ip)' BY <1>5 DEF Accounted
  <2>3. \A v \in DOMAIN log[n] : todo[n] # "sync" /\ Holds(n, v) /\ IPOf(n, v, s) = ip => Accounted(s, ip)'
    BY <1>4, <1>6, HeldStays
  <2> QED BY <2>1, <2>2, <2>3
<1>12. LeakInv' BY <1>4, <1>5, <1>6, <1>11, LeakStep
<1> QED BY <1>1, <1>4, <1>10, <1>12

\* What has to be shown of an event handled without a call.
LEMMA EventDone ==
    ASSUME CoreInv, Inv', NEW n \in Names, MayHandle(n), Done(n),
           UNCHANGED <<log, cached, call, restarts, untimely>>,
           \A m \in Names : \A k : m # n => (<<m, k>> \in releasedPods' <=> <<m, k>> \in releasedPods),
           ReleasedOK(n)', HandledOK(n)',
           \A s \in Subnets : ipams'[s].allocated \subseteq ipams[s].allocated,
           \A s \in Subnets : \A ip \in ipams'[s].allocated : \A v \in DOMAIN log[n] :
               todo[n] # "sync" /\ Holds(n, v) /\ IPOf(n, v, s) = ip => Accounted(s, ip)'
    PROVE  CoreInv'
<1> USE DEF CoreInv
<1>1. Onward
  <2>1. \A m \in Names : cached[m] <= cached'[m] BY DEF Inv, PositionInv
  <2> QED BY <2>1, SameIsGrown DEF Onward, Inv
<1>2. VersionsInv' /\ UntimelyInv' BY SameVersions
<1>3. ASSUME NEW m \in Names, m # n PROVE Still(m)
  BY <1>3 DEF Still, Done, Inv, PositionInv
<1>4. call[n].stage = "idle" /\ call[n].ips = NoIPs BY DEF MayHandle, ProgressInv, ReservingOK
<1>5. ReservingOK(n)' BY <1>4 DEF ReservingOK
<1>6. todo'[n] # "sync" BY DoneFloor DEF Inv
<1>7. ProgressInv' BY <1>1, <1>3, <1>4, <1>5, <1>6, ProgressStep
<1>8. ASSUME NEW s \in Subnets, NEW ip \in ipams'[s].allocated PROVE call[n].ips[s] # ip
  <2>1. ip # None BY AllocatedLater DEF Inv
  <2> QED BY <1>4, <2>1 DEF NoIPs
<1>9. LeakInv' BY <1>1, <1>3, <1>8, LeakStep
<1> QED BY <1>2, <1>7, <1>9

\* The event, in terms of the log.
LEMMA EventFacts ==
    ASSUME CoreInv, NEW n \in Names, MayHandle(n)
    PROVE  /\ handled[n] \in Nat /\ handled[n] < cached[n] /\ handled[n] + 1 \in DOMAIN log[n]
           /\ Event(n).new = log[n][handled[n] + 1]
           /\ IsDelete(n) => todo[n] = "none" /\ log[n][handled[n] + 1] = None
           /\ ~IsDelete(n) => log[n][handled[n] + 1] # None
           /\ call[n].stage = "idle"
<1>1. /\ handled[n] \in Nat /\ handled[n] < cached[n] /\ handled[n] + 1 \in DOMAIN log[n]
      /\ handled[n] + 1 # 0
  BY Positions DEF MayHandle, CoreInv
<1>2. Event(n).new = log[n][handled[n] + 1] BY <1>1 DEF Event, At
<1>3. todo[n] # "none" => log[n][handled[n] + 1] # None BY DEF CoreInv, ProgressInv, HandledOK
<1> QED BY <1>1, <1>2, <1>3 DEF IsDelete, MayHandle

\* A deletion handled: nothing is left of the pod.
LEMMA DeletionHandled ==
    ASSUME CoreInv, Inv', NEW n \in Names, MayHandle(n), IsDelete(n), Done(n), UNCHANGED log
    PROVE  /\ HandledOK(n)' /\ handled'[n] = handled[n] + 1 /\ todo'[n] = "none"
           /\ At(n, handled[n])' = None /\ Floor(n)' = handled[n] + 1
<1>0. PICK h \in Nat : h = handled[n] BY EventFacts
<1>1. todo[n] = "none" /\ log[n][h + 1] = None BY <1>0, EventFacts
<1>2. handled'[n] = h + 1 /\ todo'[n] = "none" BY <1>0, <1>1 DEF Done, CoreInv, Inv, PositionInv
<1>3. At(n, handled[n])' = None BY <1>1, <1>2 DEF At
<1>4. HandledOK(n)' BY <1>2, <1>3 DEF HandledOK
<1> QED BY <1>0, <1>2, <1>3, <1>4 DEF Floor

\* IPs held by a pod that is not the deleted one stay held.
LEMMA LaterHolds ==
    ASSUME CoreInv, NEW n \in Names, UNCHANGED log, Floor(n)' = handled[n] + 1, todo'[n] # "sync",
           NEW v \in DOMAIN log[n], Holds(n, v), handled[n] # v, todo[n] # "sync",
           <<n, log[n][v].uid>> \notin releasedPods',
           NEW s \in Subnets, NEW ip, IPOf(n, v, s) = ip
    PROVE  Accounted(s, ip)'
<1>1. handled[n] \in Nat /\ v \in Nat BY Positions DEF CoreInv
<1>2. handled[n] <= v BY <1>1 DEF Holds, Floor
<1>3. handled[n] + 1 <= v BY <1>1, <1>2
<1>4. Holds(n, v)' BY <1>3 DEF Holds
<1>5. IPOf(n, v, s)' = ip BY DEF IPOf
<1> QED BY <1>4, <1>5 DEF Accounted

\* An event with nothing to do: a deleted pod that was not scheduled can have
\* had no IPs, unless out of turn.
LEMMA IgnoreCore == ASSUME CoreInv, NEW n \in Names, Ignore(n) PROVE CoreInv'
<1>1. Inv' BY IgnorePreserves DEF CoreInv
<1>2. /\ MayHandle(n) /\ Done(n)
      /\ Reconciled(n) # None => Reconciled(n).phase = "unscheduled"
      /\ UNCHANGED <<log, cached, releasedPods, call, restarts, ipams, untimely>>
  BY DEF Ignore, allocators, bounds, history
<1>3. Floor(n)' = handled[n] + 1 /\ todo'[n] # "sync" BY <1>2, DoneFloor DEF CoreInv, Inv
<1>4. ReleasedOK(n)' BY <1>2, <1>3 DEF ReleasedOK, CoreInv, ProgressInv
<1>5. CASE IsDelete(n)
  <2>1. HandledOK(n)' BY <1>1, <1>2, <1>5, DeletionHandled
  <2>2. ASSUME NEW s \in Subnets, NEW ip \in ipams'[s].allocated, NEW v \in DOMAIN log[n],
               todo[n] # "sync", Holds(n, v), IPOf(n, v, s) = ip
        PROVE  Accounted(s, ip)'
    <3>1. CASE v = handled[n]
      <4>1. Event(n).old = log[n][v] /\ log[n][v] # None
        <5>1. v # 0 BY LogShape DEF CoreInv, Inv
        <5> QED BY <2>2, <3>1, <5>1 DEF Event, At, Holds
      <4>2. Reconciled(n) = log[n][v] BY <1>5, <4>1 DEF Reconciled, IsDelete
      <4>3. <<n, log[n][v].uid>> \in untimely
        BY <1>2, <2>2, <4>1, <4>2 DEF CoreInv, UntimelyInv, Holds
      <4>4. /\ v \in DOMAIN log'[n] /\ log'[n][v] # None /\ log'[n][v].annotation # None
            /\ <<n, log'[n][v].uid>> \in untimely' /\ ip = log'[n][v].annotation.ips[s]
        BY <1>2, <2>2, <4>3 DEF Holds, IPOf
      <4> QED BY <4>4, UntimelyAccounted
    <3>2. CASE v # handled[n]
      <4>1. <<n, log[n][v].uid>> \notin releasedPods' BY <1>2, <2>2 DEF Holds
      <4> QED BY <1>2, <1>3, <2>2, <3>2, <4>1, LaterHolds
    <3> QED BY <3>1, <3>2
  <2> QED BY <1>1, <1>2, <1>4, <2>1, <2>2, EventDone
<1>6. CASE ~IsDelete(n)
  <2>1. handled[n] < cached[n] /\ log[n][handled[n] + 1] # None BY <1>2, <1>6, EventFacts
  <2>2. log[n][handled[n] + 1].phase = "completed" => DeletedAfter(n, handled[n] + 1)
    BY <1>2, <2>1, CompletedElsewhere DEF CoreInv
  <2>3. Onward
    <3>1. \A m \in Names : cached[m] <= cached'[m] BY <1>2 DEF CoreInv, Inv, PositionInv
    <3> QED BY <1>2, <3>1, SameIsGrown DEF Onward, CoreInv, Inv
  <2>4. HandledOK(n)' BY <1>1, <1>2, <2>1, <2>2, <2>3, HandledNext DEF CoreInv, ProgressInv
  <2>5. ASSUME NEW s \in Subnets, NEW ip \in ipams'[s].allocated, NEW v \in DOMAIN log[n],
               todo[n] # "sync", Holds(n, v), IPOf(n, v, s) = ip
        PROVE  Accounted(s, ip)'
    <3>1. <<n, log[n][v].uid>> \notin releasedPods' BY <1>2, <2>5 DEF Holds
    <3>2. PICK w \in DOMAIN log'[n] : Holds(n, w)' /\ log'[n][w].annotation = log[n][v].annotation
      BY <1>2, <2>1, <2>3, <2>5, <3>1, NextHolds DEF CoreInv
    <3>3. IPOf(n, w, s)' = ip BY <2>5, <3>2 DEF IPOf
    <3> QED BY <1>3, <3>2, <3>3 DEF Accounted
  <2> QED BY <1>1, <1>2, <1>4, <2>4, <2>5, EventDone
<1> QED BY <1>5, <1>6

\* What releasing a pod does: it is the deleted one, or one that is completed
\* and not handled before.
LEMMA ReleasePodEffect ==
    ASSUME CoreInv, NEW n \in Names, ReleasePodOnNAD(n)
    PROVE  \E p \in DOMAIN log[n] :
             /\ MayHandle(n) /\ Done(n)
             /\ Reconciled(n) = log[n][p] /\ log[n][p] # None
             /\ \/ IsDelete(n) /\ p = handled[n] /\ releasedPods' = releasedPods \ {<<n, log[n][p].uid>>}
                \/ /\ ~IsDelete(n) /\ handled[n] < p /\ log[n][p].phase = "completed"
                   /\ releasedPods' = releasedPods \cup {<<n, log[n][p].uid>>}
             /\ \A s \in Subnets : ipams'[s].allocated =
                    IF todo[n] # "sync" /\ <<n, log[n][p].uid>> \notin releasedPods
                           /\ log[n][p].annotation # None
                    THEN ipams[s].allocated \ {log[n][p].annotation.ips[s]}
                    ELSE ipams[s].allocated
             /\ UNCHANGED <<network, log, cached, call, restarts, untimely, deviations>>
<1> DEFINE pod == Reconciled(n)
           u == <<n, pod.uid>>
           doRelease == todo[n] # "sync" /\ u \notin releasedPods
<1>1. /\ MayHandle(n) /\ Done(n) /\ pod # None
      /\ IsDelete(n) \/ pod.phase = "completed"
      /\ IF doRelease /\ pod.annotation # None THEN ReleaseIPs(pod.annotation.ips) ELSE UNCHANGED ipams
      /\ releasedPods' = IF IsDelete(n) THEN releasedPods \ {u} ELSE releasedPods \cup {u}
      /\ UNCHANGED <<network, log, cached, call, restarts, untimely, deviations>>
  BY DEF ReleasePodOnNAD, bounds, history
<1>2. /\ handled[n] \in Nat /\ cached[n] \in Nat /\ handled[n] < cached[n]
      /\ handled[n] + 1 \in DOMAIN log[n] /\ cached[n] \in DOMAIN log[n] /\ cached[n] # 0
      /\ handled[n] # 0 => handled[n] \in DOMAIN log[n]
      /\ Event(n).new = log[n][handled[n] + 1]
      /\ IsDelete(n) => todo[n] = "none" /\ log[n][handled[n] + 1] = None
  BY <1>1, Positions, EventFacts DEF CoreInv
<1>3. At(n, cached[n]) = log[n][cached[n]] BY <1>2 DEF At
<1>4. PICK p \in DOMAIN log[n] :
          pod = log[n][p] /\ (IF IsDelete(n) THEN p = handled[n] ELSE handled[n] < p)
  <2>1. CASE IsDelete(n)
    <3>1. Event(n).old # None /\ pod = Event(n).old BY <1>1, <1>2, <2>1 DEF Reconciled, IsDelete
    <3>2. handled[n] # 0 /\ pod = log[n][handled[n]] BY <3>1 DEF Event, At
    <3> QED BY <1>2, <2>1, <3>2
  <2>2. CASE ~IsDelete(n)
    <3>1. pod = log[n][handled[n] + 1] \/ pod = log[n][cached[n]]
      BY <1>2, <1>3, <2>2 DEF Reconciled, IsDelete
    <3>2. handled[n] < handled[n] + 1 BY <1>2
    <3> QED BY <1>2, <2>2, <3>1, <3>2
  <2> QED BY <2>1, <2>2
<1>5. u = <<n, log[n][p].uid>> BY <1>4
<1>6. ASSUME NEW s \in Subnets
      PROVE  ipams'[s].allocated = IF doRelease /\ pod.annotation # None
                                   THEN ipams[s].allocated \ {pod.annotation.ips[s]}
                                   ELSE ipams[s].allocated
  <2> HIDE DEF pod, u
  <2> QED BY <1>1, ReleaseIPsEffect DEF CoreInv, Inv
<1> HIDE DEF pod, u
<1>7. Reconciled(n) = log[n][p] BY <1>4 DEF pod
<1> QED BY <1>1, <1>4, <1>5, <1>6, <1>7

\* Two annotated versions of a pod have the same IPs.
LEMMA SameAnnotation ==
    ASSUME LogInv, VersionsInv, NEW n \in Names, NEW v \in DOMAIN log[n], NEW w \in DOMAIN log[n],
           log[n][v] # None, log[n][w] # None, log[n][v].uid = log[n][w].uid,
           log[n][v].annotation # None, log[n][w].annotation # None
    PROVE  log[n][v].annotation = log[n][w].annotation
<1>1. v \in Nat /\ w \in Nat BY LogShape
<1>2. v = w \/ v < w \/ w < v BY <1>1
<1> QED BY <1>2 DEF VersionsInv, Keeps

\* Releasing a pod: its IPs are free, unless it is annotated out of turn.
LEMMA ReleasePodCore == ASSUME CoreInv, NEW n \in Names, ReleasePodOnNAD(n) PROVE CoreInv'
<1>1. Inv' BY ReleasePodPreserves DEF CoreInv
<1>2. PICK p \in DOMAIN log[n] :
             /\ MayHandle(n) /\ Done(n)
             /\ Reconciled(n) = log[n][p] /\ log[n][p] # None
             /\ \/ IsDelete(n) /\ p = handled[n] /\ releasedPods' = releasedPods \ {<<n, log[n][p].uid>>}
                \/ /\ ~IsDelete(n) /\ handled[n] < p /\ log[n][p].phase = "completed"
                   /\ releasedPods' = releasedPods \cup {<<n, log[n][p].uid>>}
             /\ \A s \in Subnets : ipams'[s].allocated =
                    IF todo[n] # "sync" /\ <<n, log[n][p].uid>> \notin releasedPods
                           /\ log[n][p].annotation # None
                    THEN ipams[s].allocated \ {log[n][p].annotation.ips[s]}
                    ELSE ipams[s].allocated
             /\ UNCHANGED <<network, log, cached, call, restarts, untimely, deviations>>
  BY ReleasePodEffect
<1>3. Floor(n)' = handled[n] + 1 /\ todo'[n] # "sync" BY <1>2, DoneFloor DEF CoreInv, Inv
<1>4. \A m \in Names : \A k : m # n => (<<m, k>> \in releasedPods' <=> <<m, k>> \in releasedPods)
  <2>1. \A m, k : m # n => <<m, k>> # <<n, log[n][p].uid>> OBVIOUS
  <2> QED BY <1>2, <2>1
<1>5. \A s \in Subnets : ipams'[s].allocated \subseteq ipams[s].allocated BY <1>2
<1>6. ReleasedOK(n)'
  <2>1. ASSUME NEW k, <<n, k>> \in releasedPods'
        PROVE  \E v \in DOMAIN log[n] : /\ log[n][v] # None
                                        /\ log[n][v].uid = k
                                        /\ log[n][v].phase = "completed"
    <3>1. CASE <<n, k>> \in releasedPods BY <3>1 DEF CoreInv, ProgressInv, ReleasedOK
    <3>2. CASE <<n, k>> \notin releasedPods
      <4>1. log[n][p].phase = "completed" /\ <<n, k>> = <<n, log[n][p].uid>> BY <1>2, <2>1, <3>2
      <4>2. k = log[n][p].uid BY <4>1
      <4> QED BY <1>2, <4>1, <4>2
    <3> QED BY <3>1, <3>2
  <2> QED BY <1>2, <1>3, <2>1 DEF ReleasedOK
<1>7. CASE IsDelete(n)
  <2>0. p = handled[n] /\ releasedPods' \subseteq releasedPods /\ todo[n] # "sync"
    BY <1>2, <1>7 DEF IsDelete
  <2>1. HandledOK(n)' BY <1>1, <1>2, <1>7, DeletionHandled
  <2>2. ASSUME NEW s \in Subnets, NEW ip \in ipams'[s].allocated, NEW v \in DOMAIN log[n],
               todo[n] # "sync", Holds(n, v), IPOf(n, v, s) = ip
        PROVE  Accounted(s, ip)'
    <3>1. v # handled[n]
      <4> SUFFICES ASSUME v = p PROVE FALSE BY <2>0
      <4> QED BY <1>2, <2>2 DEF Holds, IPOf
    <3>2. <<n, log[n][v].uid>> \notin releasedPods' BY <2>0, <2>2 DEF Holds
    <3> QED BY <1>2, <1>3, <2>2, <3>1, <3>2, LaterHolds
  <2> QED BY <1>1, <1>2, <1>4, <1>5, <1>6, <2>1, <2>2, EventDone
<1>8. CASE ~IsDelete(n)
  <2>0. /\ log[n][p].phase = "completed" /\ releasedPods' = releasedPods \cup {<<n, log[n][p].uid>>}
    BY <1>2, <1>8
  <2>1. handled[n] < cached[n] /\ log[n][handled[n] + 1] # None BY <1>2, <1>8, EventFacts
  <2>2. log[n][handled[n] + 1].phase = "completed" =>
            \/ <<n, log[n][handled[n] + 1].uid>> \in releasedPods'
            \/ DeletedAfter(n, handled[n] + 1)
    <3>1. CASE log[n][p].uid = log[n][handled[n] + 1].uid BY <2>0, <3>1
    <3>2. CASE log[n][p].uid # log[n][handled[n] + 1].uid
      BY <1>2, <2>1, <3>2, CompletedElsewhere DEF CoreInv
    <3> QED BY <3>1, <3>2
  <2>3. Onward
    <3>1. \A m \in Names : cached[m] <= cached'[m] BY <1>2 DEF CoreInv, Inv, PositionInv
    <3> QED BY <1>2, <3>1, SameIsGrown DEF Onward, CoreInv, Inv
  <2>4. HandledOK(n)' BY <1>1, <1>2, <2>1, <2>2, <2>3, HandledNext DEF CoreInv, ProgressInv
  <2>5. ASSUME NEW s \in Subnets, NEW ip \in ipams'[s].allocated, NEW v \in DOMAIN log[n],
               todo[n] # "sync", Holds(n, v), IPOf(n, v, s) = ip
        PROVE  Accounted(s, ip)'
    <3>1. CASE log[n][v].uid = log[n][p].uid
      <4>1. <<n, log[n][p].uid>> \notin releasedPods BY <2>5, <3>1 DEF Holds
      <4>2. log[n][p].annotation = None
        <5> SUFFICES ASSUME log[n][p].annotation # None PROVE FALSE
          OBVIOUS
        <5>1. log[n][v].annotation = log[n][p].annotation
          BY <1>2, <2>5, <3>1, SameAnnotation DEF Holds, CoreInv, Inv
        <5> QED BY <1>2, <2>5, <4>1, <5>1 DEF IPOf
      <4>3. <<n, log[n][v].uid>> \in untimely
        BY <1>2, <2>0, <2>5, <3>1, <4>2 DEF CoreInv, UntimelyInv, Holds
      <4>4. /\ v \in DOMAIN log'[n] /\ log'[n][v] # None /\ log'[n][v].annotation # None
            /\ <<n, log'[n][v].uid>> \in untimely' /\ ip = log'[n][v].annotation.ips[s]
        BY <1>2, <2>5, <4>3 DEF Holds, IPOf
      <4> QED BY <4>4, UntimelyAccounted
    <3>2. CASE log[n][v].uid # log[n][p].uid
      <4>1. <<n, log[n][v].uid>> # <<n, log[n][p].uid>> BY <3>2
      <4>2. <<n, log[n][v].uid>> \notin releasedPods' BY <2>0, <2>5, <4>1 DEF Holds
      <4>3. PICK w \in DOMAIN log'[n] : Holds(n, w)' /\ log'[n][w].annotation = log[n][v].annotation
        BY <1>2, <2>1, <2>3, <2>5, <4>2, NextHolds DEF CoreInv
      <4>4. IPOf(n, w, s)' = ip BY <2>5, <4>3 DEF IPOf
      <4> QED BY <1>3, <4>3, <4>4 DEF Accounted
    <3> QED BY <3>1, <3>2
  <2> QED BY <1>1, <1>2, <1>4, <1>5, <1>6, <2>4, <2>5, EventDone
<1> QED BY <1>7, <1>8

\* What a restart does.
LEMMA RestartEffect ==
    ASSUME Inv, Restart
    PROVE  /\ restarts' # 0 /\ ipams' = NewIPAMs /\ releasedPods' = {}
           /\ UNCHANGED <<network, log, untimely, deviations>>
           /\ \A n \in Names :
                  /\ call'[n] = IdleCall
                  /\ cached'[n] = Len(log[n])
                  /\ Latest(n) = None => handled'[n] = Len(log[n]) /\ todo'[n] = "none"
                  /\ Latest(n) # None => handled'[n] = Len(log[n]) - 1 /\ todo'[n] = "sync"
                  /\ Latest(n) # None => handled'[n] + 1 = Len(log[n]) /\ handled'[n] < cached'[n]
<1>1. /\ restarts' = restarts + 1
      /\ ipams' = NewIPAMs /\ releasedPods' = {} /\ call' = NoCalls
      /\ cached' = [n \in Names |-> Len(log[n])]
      /\ handled' = [n \in Names |-> IF Latest(n) = None THEN Len(log[n]) ELSE Len(log[n]) - 1]
      /\ todo' = [n \in Names |-> IF Latest(n) = None THEN "none" ELSE "sync"]
      /\ UNCHANGED <<network, log, untimely, deviations>>
  BY DEF Restart, history
<1>2. restarts' # 0 BY <1>1 DEF Inv, RestInv
<1>3. ASSUME NEW n \in Names
      PROVE  /\ call'[n] = IdleCall
             /\ cached'[n] = Len(log[n])
             /\ Latest(n) = None => handled'[n] = Len(log[n]) /\ todo'[n] = "none"
             /\ Latest(n) # None => handled'[n] = Len(log[n]) - 1 /\ todo'[n] = "sync"
             /\ Latest(n) # None => handled'[n] + 1 = Len(log[n]) /\ handled'[n] < cached'[n]
  <2>1. Len(log[n]) \in Nat BY LogShape DEF Inv
  <2> QED BY <1>1, <2>1 DEF NoCalls
<1> QED BY <1>1, <1>2, <1>3

\* A restart: everything is free, and is to be reserved by Sync.
LEMMA RestartCore == ASSUME CoreInv, Restart PROVE CoreInv'
<1>1. Inv' BY RestartPreserves DEF CoreInv
<1>2. /\ restarts' # 0 /\ ipams' = NewIPAMs /\ releasedPods' = {}
      /\ UNCHANGED <<network, log, untimely, deviations>>
      /\ \A n \in Names :
             /\ call'[n] = IdleCall
             /\ cached'[n] = Len(log[n])
             /\ Latest(n) = None => handled'[n] = Len(log[n]) /\ todo'[n] = "none"
             /\ Latest(n) # None => handled'[n] = Len(log[n]) - 1 /\ todo'[n] = "sync"
             /\ Latest(n) # None => handled'[n] + 1 = Len(log[n]) /\ handled'[n] < cached'[n]
  BY RestartEffect DEF CoreInv
<1>3. VersionsInv' /\ UntimelyInv' BY <1>2, SameVersions DEF CoreInv
<1>4. IdleCall.stage = "idle" /\ IdleCall.ips = NoIPs BY DEF IdleCall
<1>5. ASSUME NEW n \in Names PROVE ReleasedOK(n)' /\ HandledOK(n)' /\ ReservingOK(n)'
  <2>1. ReleasedOK(n)' BY <1>2 DEF ReleasedOK
  <2>2. ReservingOK(n)' BY <1>2, <1>4 DEF ReservingOK
  <2>3. CASE Latest(n) = None
    <3>1. At(n, handled[n])' = None BY <1>2, <2>3 DEF Latest, At
    <3> QED BY <1>2, <2>1, <2>2, <2>3, <3>1 DEF HandledOK
  <2>4. CASE Latest(n) # None
    <3>1. log'[n][handled'[n] + 1] # None BY <1>2, <2>4, LatestVersion DEF CoreInv, Inv
    <3> QED BY <1>2, <2>1, <2>2, <2>4, <3>1 DEF HandledOK
  <2> QED BY <2>3, <2>4
<1>6. ProgressInv' BY <1>2, <1>4, <1>5 DEF ProgressInv, ModeInv
<1>7. LeakInv' BY <1>2 DEF LeakInv, Accounted, NewIPAMs, NewBitmap
<1> QED BY <1>1, <1>3, <1>6, <1>7 DEF CoreInv

\* Every IP is accounted for when the cluster manager starts without any pods.
LEMMA InitCore == Init => CoreInv
<1> SUFFICES ASSUME Init PROVE CoreInv OBVIOUS
<1>1. Inv BY InitInv
<1>2. \A n \in Names : /\ log[n] = <<>> /\ DOMAIN log[n] = {} /\ handled[n] = 0 /\ todo[n] = "none"
                       /\ call[n] = IdleCall
  BY DEF Init, NoCalls
<1>3. VersionsInv /\ UntimelyInv BY <1>2 DEF VersionsInv, UntimelyInv
<1>4. ASSUME NEW n \in Names PROVE ReleasedOK(n) /\ HandledOK(n) /\ ReservingOK(n)
  <2>1. At(n, handled[n]) = None BY <1>2 DEF At
  <2> QED BY <1>2, <2>1 DEF Init, ReleasedOK, HandledOK, ReservingOK, IdleCall
<1>5. ModeInv BY <1>2 DEF ModeInv, IdleCall
<1>6. LeakInv BY DEF Init, LeakInv, Accounted, NewIPAMs, NewBitmap
<1> QED BY <1>1, <1>3, <1>4, <1>5, <1>6 DEF CoreInv, ProgressInv

\* Every step keeps account of the IPs.
LEMMA NextCore == CoreInv /\ [Next]_vars => CoreInv'
<1> SUFFICES ASSUME CoreInv, [Next]_vars PROVE CoreInv' OBVIOUS
<1>1. ASSUME NEW n \in Names, CreatePod(n) \/ UpdatePod(n) \/ CompletePod(n) \/ DeletePod(n)
      PROVE  CoreInv'
  <2>1. CASE CreatePod(n) BY <2>1, CreatePodCore
  <2>2. CASE UpdatePod(n) BY <2>2, PhaseCore DEF UpdatePod
  <2>3. CASE CompletePod(n) BY <2>3, PhaseCore DEF CompletePod
  <2>4. CASE DeletePod(n) BY <2>4, DeletePodCore
  <2> QED BY <1>1, <2>1, <2>2, <2>3, <2>4
<1>2. ASSUME NEW n \in Names, Watch(n) PROVE CoreInv' BY <1>2, WatchCore
<1>3. ASSUME NEW n \in Names, Handle(n) PROVE CoreInv'
  <2>1. CASE \E s \in Subnets : \/ AllocateIP(n, s) \/ ErrAllocated(n, s)
                                \/ AllocateNextIP(n, s) \/ ErrFull(n, s)
    BY <2>1, AllocateIPCore, ErrAllocatedCore, AllocateNextIPCore, ErrFullCore
  <2>2. CASE Ignore(n) \/ ReleasePodOnNAD(n) \/ AllocatePodOnNAD(n)
    BY <2>2, IgnoreCore, ReleasePodCore, AllocatePodCore
  <2>3. CASE GetFails(n) \/ AssignID(n) \/ AssignIDFails(n)
    BY <2>3, GetFailsCore, AssignIDCore, AssignIDFailsCore
  <2>4. CASE UpdatePodStatus(n) \/ UpdateRefused(n) \/ Rollback(n)
    BY <2>4, UpdatePodStatusCore, UpdateRefusedCore, RollbackCore
  <2> QED BY <1>3, <2>1, <2>2, <2>3, <2>4 DEF Handle
<1>4. ASSUME NEW n \in Names, UpdateFails(n) \/ ReplyLost(n) PROVE CoreInv'
  BY <1>4, UpdateFailsCore, ReplyLostCore
<1>5. ASSUME Restart PROVE CoreInv' BY <1>5, RestartCore
<1>6. ASSUME UNCHANGED vars PROVE CoreInv'
  <2>1. /\ UNCHANGED <<network, log, cached, handled, todo, releasedPods, call>>
        /\ UNCHANGED <<ipams, idBitmap, nameIdMap, changes, failures, restarts, untimely, deviations>>
    BY <1>6 DEF vars, allocators, bounds, history
  <2>2. LogInv' /\ IDInv' /\ RestInv' BY <2>1, LogUnchanged, IDsUnchanged DEF RestInv, Inv, CoreInv
  <2>3. PositionInv' BY <2>1 DEF PositionInv, Inv, CoreInv
  <2>4. CallInv' BY <2>1 DEF CallInv, CallOK, Inv, CoreInv
  <2>5. Inv' BY <2>2, <2>3, <2>4 DEF Inv
  <2>6. VersionsInv' /\ UntimelyInv' BY <2>1, SameVersions DEF CoreInv
  <2>7. \A m \in Names : cached[m] <= cached'[m] BY <2>1 DEF CoreInv, Inv, PositionInv
  <2>8. Onward BY <2>1, <2>7, SameIsGrown DEF Onward, CoreInv, Inv
  <2> QED BY <2>1, <2>5, <2>6, <2>8, Rests
<1> QED BY <1>1, <1>2, <1>3, <1>4, <1>5, <1>6 DEF Next

\* In every reachable state every allocated IP is excluded, held by a pod whose
\* release is still to come, in the hands of a call, or of a pod that was
\* annotated out of turn.
THEOREM Accounting == Spec => []CoreInv
<1> QED BY InitCore, NextCore, PTL DEF Spec

\* What is accounted for at rest is a running pod's.
LEMMA CoreImpliesNoLeak == CoreInv => NoIPLeak
<1> SUFFICES ASSUME CoreInv, AtRest, NEW s \in Subnets, NEW ip \in ipams[s].allocated
             PROVE  \/ ip \in Excluded[s]
                    \/ \E n \in Annotated : ip = Latest(n).annotation.ips[s]
                    \/ \E u \in untimely : ip \in EverHad(u, s)
  BY DEF NoIPLeak
<1>1. Accounted(s, ip) BY DEF CoreInv, LeakInv
<1>2. ip # None BY AllocatedOffset DEF CoreInv, Inv
<1>3. ASSUME NEW n \in Names PROVE call[n].ips[s] # ip
  BY <1>2 DEF AtRest, CoreInv, ProgressInv, ReservingOK, NoIPs
<1>4. ASSUME NEW n \in Names, NEW v \in DOMAIN log[n], Holds(n, v), IPOf(n, v, s) = ip
      PROVE  n \in Annotated /\ ip = Latest(n).annotation.ips[s]
  <2>0. PICK k : k = Len(log[n]) OBVIOUS
  <2>1. /\ k \in Nat /\ DOMAIN log[n] = 1 .. k /\ handled[n] = k
        /\ ~(handled[n] < cached[n])
    <3>1. /\ handled[n] \in Nat /\ cached[n] \in Nat /\ cached[n] <= k /\ k \in Nat
          /\ DOMAIN log[n] = 1 .. k
      BY <2>0, Positions DEF CoreInv
    <3>2. handled[n] = k BY <2>0 DEF AtRest
    <3> QED BY <3>1, <3>2
  <2>2. todo[n] = "none" BY <2>1 DEF CoreInv, ProgressInv, HandledOK
  <2>3. v = k BY <1>4, <2>1, <2>2 DEF Holds, Floor
  <2>4. k # 0 BY <2>1, <2>3
  <2>5. Latest(n) = log[n][v] /\ At(n, handled[n]) = log[n][v] BY <2>0, <2>1, <2>3, <2>4 DEF Latest, At
  <2>6. ~DeletedAfter(n, handled[n]) BY <2>1 DEF DeletedAfter
  <2>7. log[n][v].phase # "completed"
    BY <1>4, <2>2, <2>5, <2>6 DEF CoreInv, ProgressInv, HandledOK, Holds
  <2> QED BY <1>4, <2>5, <2>7 DEF Annotated, Holds, IPOf
<1> QED BY <1>1, <1>3, <1>4 DEF Accounted

\* Once nothing is on its way, every allocated IP belongs to a running pod, or
\* to one annotated out of turn: conflicts, failures, late and lost events,
\* releases and restarts of the cluster manager leak none, for any number of
\* names, pods, subnets and IPs.
THEOREM NoLeak == Spec => []NoIPLeak
<1> QED BY Accounting, CoreImpliesNoLeak, PTL

-----------------------------------------------------------------------------
(***************************************************************************)
(* No two owners of an IP                                                  *)
(***************************************************************************)

\* What UniqueInv says of a sound state.
ApartInv == OwnersInv /\ CallIPsInv /\ SyncInv

\* A version of m that owned the IPs version w of m has now.
OwnedBefore(m, w) == \E v \in DOMAIN log[m] : /\ Owns(m, v)
                                              /\ log[m][v].uid = log'[m][w].uid
                                              /\ log[m][v].annotation = log'[m][w].annotation

\* All owners but new ones have owned what they own.
NoNewOwner == \A m \in Names : \A w \in DOMAIN log'[m] : Owns(m, w)' => OwnedBefore(m, w)

\* What is sound was sound.
LEMMA SoundBefore ==
    ASSUME Sound', network' = network, untimely \subseteq untimely', deviations \subseteq deviations',
           restarts' = restarts \/ restarts' # 0
    PROVE  Sound
BY DEF Sound, Recoverable

\* What has to be shown of a step without a new owner: the IPs of those who
\* keep theirs stay allocated.
LEMMA OwnersStay ==
    ASSUME OwnersInv, NoNewOwner,
           \A s \in Subnets : Excluded[s] \subseteq ipams'[s].allocated,
           \A m \in Names : \A w \in DOMAIN log'[m] : Owns(m, w)' /\ todo'[m] # "sync" =>
               \A s \in Subnets : log'[m][w].annotation.ips[s] \in ipams'[s].allocated
    PROVE  OwnersInv'
<1>1. ASSUME NEW n \in Names, NEW m \in Names, NEW v \in DOMAIN log'[n], NEW w \in DOMAIN log'[m],
             Owns(n, v)', Owns(m, w)', <<n, log'[n][v].uid>> # <<m, log'[m][w].uid>>, NEW s \in Subnets
      PROVE  IPOf(n, v, s)' # IPOf(m, w, s)'
  <2>1. OwnedBefore(n, v) /\ OwnedBefore(m, w) BY <1>1 DEF NoNewOwner
  <2>2. PICK v0 \in DOMAIN log[n] : /\ Owns(n, v0)
                                    /\ log[n][v0].uid = log'[n][v].uid
                                    /\ log[n][v0].annotation = log'[n][v].annotation
    BY <2>1 DEF OwnedBefore
  <2>3. PICK w0 \in DOMAIN log[m] : /\ Owns(m, w0)
                                    /\ log[m][w0].uid = log'[m][w].uid
                                    /\ log[m][w0].annotation = log'[m][w].annotation
    BY <2>1 DEF OwnedBefore
  <2>4. IPOf(n, v0, s) # IPOf(m, w0, s) BY <1>1, <2>2, <2>3 DEF OwnersInv
  <2> QED BY <2>2, <2>3, <2>4 DEF IPOf
<1>2. ASSUME NEW n \in Names, NEW v \in DOMAIN log'[n], Owns(n, v)', NEW s \in Subnets
      PROVE  /\ IPOf(n, v, s)' \notin Excluded[s]
             /\ todo'[n] # "sync" => IPOf(n, v, s)' \in ipams'[s].allocated
  <2>1. OwnedBefore(n, v) BY <1>2 DEF NoNewOwner
  <2>2. PICK v0 \in DOMAIN log[n] : Owns(n, v0) /\ log[n][v0].annotation = log'[n][v].annotation
    BY <2>1 DEF OwnedBefore
  <2>3. IPOf(n, v0, s) \notin Excluded[s] BY <2>2 DEF OwnersInv
  <2>4. IPOf(n, v, s)' \notin Excluded[s] BY <2>2, <2>3 DEF IPOf
  <2>5. todo'[n] # "sync" => IPOf(n, v, s)' \in ipams'[s].allocated BY <1>2 DEF IPOf
  <2> QED BY <2>4, <2>5
<1> QED BY <1>1, <1>2 DEF OwnersInv

\* What has to be shown of a step without a new owner and in which no call gets
\* an IP.
LEMMA ApartStays ==
    ASSUME OwnersInv, CallIPsInv, NoNewOwner,
           \A s \in Subnets : Excluded[s] \subseteq ipams'[s].allocated,
           \A m \in Names : \A w \in DOMAIN log'[m] : Owns(m, w)' /\ todo'[m] # "sync" =>
               \A s \in Subnets : log'[m][w].annotation.ips[s] \in ipams'[s].allocated,
           \A m \in Names : \A s \in Subnets : call'[m].ips[s] # None =>
               /\ call'[m].ips[s] = call[m].ips[s] /\ todo'[m] = todo[m]
               /\ call[m].ips[s] \in ipams'[s].allocated
    PROVE  OwnersInv' /\ CallIPsInv'
<1>1. OwnersInv' BY OwnersStay
<1>2. ASSUME NEW n \in Names, NEW s \in Subnets, call'[n].ips[s] # None
      PROVE  /\ call'[n].ips[s] \in ipams'[s].allocated \ Excluded[s]
             /\ \A m \in Names : m # n => call'[m].ips[s] # call'[n].ips[s]
             /\ \A m \in Names : \A w \in DOMAIN log'[m] :
                    Owns(m, w)' /\ ~(m = n /\ todo'[n] = "sync") => IPOf(m, w, s)' # call'[n].ips[s]
  <2>1. /\ call'[n].ips[s] = call[n].ips[s] /\ call[n].ips[s] # None /\ todo'[n] = todo[n]
        /\ call[n].ips[s] \in ipams'[s].allocated
    BY <1>2
  <2>2. /\ call[n].ips[s] \notin Excluded[s]
        /\ \A m \in Names : m # n => call[m].ips[s] # call[n].ips[s]
        /\ \A m \in Names : \A w \in DOMAIN log[m] :
               Owns(m, w) /\ ~(m = n /\ todo[n] = "sync") => IPOf(m, w, s) # call[n].ips[s]
    BY <2>1 DEF CallIPsInv
  <2>3. ASSUME NEW m \in Names, m # n PROVE call'[m].ips[s] # call'[n].ips[s]
    BY <1>2, <2>1, <2>2, <2>3
  <2>4. ASSUME NEW m \in Names, NEW w \in DOMAIN log'[m], Owns(m, w)', ~(m = n /\ todo'[n] = "sync")
        PROVE  IPOf(m, w, s)' # call'[n].ips[s]
    <3>1. OwnedBefore(m, w) BY <2>4 DEF NoNewOwner
    <3>2. PICK w0 \in DOMAIN log[m] : Owns(m, w0) /\ log[m][w0].annotation = log'[m][w].annotation
      BY <3>1 DEF OwnedBefore
    <3>3. IPOf(m, w0, s) # call[n].ips[s] BY <2>1, <2>2, <2>4, <3>2
    <3> QED BY <2>1, <3>2, <3>3 DEF IPOf
  <2> QED BY <2>1, <2>2, <2>3, <2>4
<1>3. CallIPsInv' BY <1>2 DEF CallIPsInv
<1> QED BY <1>1, <1>3

\* Where the handlers are still and the log is the same, the owners are the same.
LEMMA StillOwns ==
    ASSUME CoreInv, Onward, NEW m \in Names, Still(m), NEW w \in DOMAIN log[m]
    PROVE  Owns(m, w)' <=> Owns(m, w)
<1>1. Holds(m, w)' <=> Holds(m, w) BY StillHolds
<1>2. todo[m] = "sync" => log'[m][handled'[m] + 1] = log[m][handled[m] + 1]
  <2>1. todo[m] = "sync" => handled[m] + 1 \in DOMAIN log[m]
    BY Positions DEF CoreInv, ProgressInv, HandledOK
  <2> QED BY <2>1 DEF Onward, Grown, Still
<1> QED BY <1>1, <1>2 DEF Owns, Still

\* An owner is its own predecessor.
LEMMA OwnedItself ==
    ASSUME NEW m \in Names, NEW w \in DOMAIN log[m], Owns(m, w), log'[m][w] = log[m][w]
    PROVE  OwnedBefore(m, w)
BY DEF OwnedBefore

\* A name whose handler and log are still has no new owner.
LEMMA StillOwners ==
    ASSUME CoreInv, Onward, NEW m \in Names, Still(m), log'[m] = log[m]
    PROVE  \A w \in DOMAIN log'[m] : /\ Owns(m, w)' => Owns(m, w)
                                     /\ Owns(m, w)' => OwnedBefore(m, w)
BY StillOwns, OwnedItself

\* Where Sync is still, it finds what it has found before.
LEMMA SyncStays ==
    ASSUME CoreInv, SyncInv, UNCHANGED log,
           \A m \in Names : todo'[m] = "sync" =>
               /\ todo[m] = "sync" /\ handled'[m] = handled[m]
               /\ call'[m].stage \in {"idle", "start", "ips"}
               /\ call'[m].stage = "ips" => /\ log[m][call'[m].version].annotation # None
                                            /\ log[m][call'[m].version].uid = call'[m].uid
    PROVE  SyncInv'
BY DEF SyncInv

\* What has to be shown of a step that does something for name n only, leaves
\* the log as it is and gives n no IP that it had not before.
LEMMA ApartStep ==
    ASSUME CoreInv, ApartInv, Onward, UNCHANGED log, NEW n \in Names,
           \A m \in Names : m # n => Still(m) /\ call'[m] = call[m],
           \A w \in DOMAIN log[n] : Owns(n, w)' => Owns(n, w),
           \A s \in Subnets : Excluded[s] \subseteq ipams'[s].allocated,
           \A m \in Names : \A w \in DOMAIN log[m] : m # n /\ Owns(m, w) /\ todo[m] # "sync" =>
               \A s \in Subnets : IPOf(m, w, s) \in ipams'[s].allocated,
           \A w \in DOMAIN log[n] : Owns(n, w)' /\ todo'[n] # "sync" =>
               \A s \in Subnets : IPOf(n, w, s) \in ipams'[s].allocated,
           \A m \in Names : \A s \in Subnets : m # n /\ call[m].ips[s] # None =>
               call[m].ips[s] \in ipams'[s].allocated,
           \A s \in Subnets : call'[n].ips[s] # None =>
               /\ call'[n].ips[s] = call[n].ips[s] /\ todo'[n] = todo[n]
               /\ call[n].ips[s] \in ipams'[s].allocated,
           todo'[n] = "sync" =>
               /\ todo[n] = "sync" /\ handled'[n] = handled[n]
               /\ call'[n].stage \in {"idle", "start", "ips"}
               /\ call'[n].stage = "ips" => /\ log[n][call'[n].version].annotation # None
                                            /\ log[n][call'[n].version].uid = call'[n].uid
    PROVE  ApartInv'
<1>1. NoNewOwner
  <2>1. ASSUME NEW m \in Names, m # n
        PROVE  \A w \in DOMAIN log'[m] : Owns(m, w)' => OwnedBefore(m, w)
    BY <2>1, StillOwners
  <2>2. \A w \in DOMAIN log'[n] : Owns(n, w)' => OwnedBefore(n, w) BY OwnedItself
  <2> QED BY <2>1, <2>2 DEF NoNewOwner
<1>2. ASSUME NEW m \in Names, NEW w \in DOMAIN log'[m], Owns(m, w)', todo'[m] # "sync", NEW s \in Subnets
      PROVE  log'[m][w].annotation.ips[s] \in ipams'[s].allocated
  <2>1. CASE m = n BY <1>2, <2>1 DEF IPOf
  <2>2. CASE m # n
    <3>1. Still(m) BY <2>2
    <3>2. Owns(m, w) /\ todo[m] # "sync" BY <1>2, <3>1, StillOwners DEF Still
    <3>3. IPOf(m, w, s) \in ipams'[s].allocated BY <1>2, <2>2, <3>2
    <3> QED BY <3>3 DEF IPOf
  <2> QED BY <2>1, <2>2
<1>3. ASSUME NEW m \in Names, NEW s \in Subnets, call'[m].ips[s] # None
      PROVE  /\ call'[m].ips[s] = call[m].ips[s] /\ todo'[m] = todo[m]
             /\ call[m].ips[s] \in ipams'[s].allocated
  <2>1. CASE m = n BY <1>3, <2>1
  <2>2. CASE m # n BY <1>3, <2>2 DEF Still
  <2> QED BY <2>1, <2>2
<1>4. OwnersInv' /\ CallIPsInv' BY <1>1, <1>2, <1>3, ApartStays DEF ApartInv
<1>5. ASSUME NEW m \in Names, todo'[m] = "sync"
      PROVE  /\ todo[m] = "sync" /\ handled'[m] = handled[m]
             /\ call'[m].stage \in {"idle", "start", "ips"}
             /\ call'[m].stage = "ips" => /\ log[m][call'[m].version].annotation # None
                                          /\ log[m][call'[m].version].uid = call'[m].uid
  <2>1. CASE m = n BY <1>5, <2>1
  <2>2. CASE m # n
    <3>1. Still(m) /\ call'[m] = call[m] BY <2>2
    <3> QED BY <1>5, <3>1 DEF Still, ApartInv, SyncInv
  <2> QED BY <2>1, <2>2
<1>6. SyncInv' BY <1>5, SyncStays DEF ApartInv
<1> QED BY <1>4, <1>6 DEF ApartInv

\* The same for a step that releases no IP.
LEMMA ApartKeeps ==
    ASSUME CoreInv, ApartInv, Onward, UNCHANGED log, NEW n \in Names,
           \A m \in Names : m # n => Still(m) /\ call'[m] = call[m],
           \A w \in DOMAIN log[n] : Owns(n, w)' => Owns(n, w),
           \A s \in Subnets : ipams[s].allocated \subseteq ipams'[s].allocated,
           \A w \in DOMAIN log[n] : todo[n] = "sync" /\ Owns(n, w)' /\ todo'[n] # "sync" =>
               \A s \in Subnets : IPOf(n, w, s) \in ipams'[s].allocated,
           \A s \in Subnets : call'[n].ips[s] # None =>
               call'[n].ips[s] = call[n].ips[s] /\ todo'[n] = todo[n],
           todo'[n] = "sync" =>
               /\ todo[n] = "sync" /\ handled'[n] = handled[n]
               /\ call'[n].stage \in {"idle", "start", "ips"}
               /\ call'[n].stage = "ips" => /\ log[n][call'[n].version].annotation # None
                                            /\ log[n][call'[n].version].uid = call'[n].uid
    PROVE  ApartInv'
<1>1. \A m \in Names : \A w \in DOMAIN log[m] : Owns(m, w) /\ todo[m] # "sync" =>
          \A s \in Subnets : IPOf(m, w, s) \in ipams'[s].allocated
  BY DEF ApartInv, OwnersInv
<1>2. \A s \in Subnets : Excluded[s] \subseteq ipams'[s].allocated BY DEF ApartInv, OwnersInv
<1>3. \A m \in Names : \A s \in Subnets : call[m].ips[s] # None => call[m].ips[s] \in ipams'[s].allocated
  BY DEF ApartInv, CallIPsInv
<1>4. \A w \in DOMAIN log[n] : Owns(n, w)' /\ todo'[n] # "sync" =>
          \A s \in Subnets : IPOf(n, w, s) \in ipams'[s].allocated
  BY <1>1
<1>5. \A s \in Subnets : call'[n].ips[s] # None =>
          /\ call'[n].ips[s] = call[n].ips[s] /\ todo'[n] = todo[n]
          /\ call[n].ips[s] \in ipams'[s].allocated
  BY <1>3
<1>6. \A m \in Names : \A w \in DOMAIN log[m] : m # n /\ Owns(m, w) /\ todo[m] # "sync" =>
          \A s \in Subnets : IPOf(m, w, s) \in ipams'[s].allocated
  BY <1>1
<1>7. \A m \in Names : \A s \in Subnets : m # n /\ call[m].ips[s] # None =>
          call[m].ips[s] \in ipams'[s].allocated
  BY <1>3
<1> QED BY <1>2, <1>4, <1>5, <1>6, <1>7, ApartStep

\* Sync means that there was a restart, and then nothing else may have happened.
LEMMA SyncSound ==
    ASSUME CoreInv, NEW n \in Names, todo[n] = "sync"
    PROVE  /\ restarts # 0
           /\ restarts' = restarts /\ Sound' => untimely' = {} /\ deviations' \subseteq {"call failed"}
           /\ Sound => untimely = {} /\ deviations \subseteq {"call failed"}
<1>1. restarts # 0 BY DEF CoreInv, ProgressInv, HandledOK
<1> QED BY <1>1 DEF Sound, Recoverable

\* With an event done, the owners are such as were owners before.
LEMMA DoneOwners ==
    ASSUME CoreInv, NEW n \in Names, Done(n), UNCHANGED log,
           NEW w \in DOMAIN log[n], Holds(n, w)', <<n, log[n][w].uid>> \notin releasedPods,
           todo[n] = "sync" => log[n][handled[n] + 1].phase # "completed"
    PROVE  Owns(n, w)
<1>1. Floor(n)' = handled[n] + 1 /\ todo'[n] # "sync" BY DoneFloor DEF CoreInv, Inv
<1>2. handled[n] + 1 <= w BY <1>1 DEF Holds
<1>3. handled[n] \in Nat /\ w \in Nat BY Positions DEF CoreInv
<1>4. Floor(n) <= w BY <1>2, <1>3 DEF Floor
<1>5. Holds(n, w) BY <1>4 DEF Holds
<1> QED BY <1>5 DEF Owns

\* Nothing happens but outside the cluster manager.
LEMMA ApartRests ==
    ASSUME CoreInv, ApartInv, Onward, UNCHANGED <<log, handled, todo, releasedPods, call, ipams>>
    PROVE  ApartInv'
<1>1. \A m \in Names : Still(m) BY DEF Still
<1>2. NoNewOwner
  <2>1. ASSUME NEW m \in Names PROVE \A w \in DOMAIN log'[m] : Owns(m, w)' => OwnedBefore(m, w)
    BY <1>1, StillOwners
  <2> QED BY <2>1 DEF NoNewOwner
<1>3. ASSUME NEW m \in Names, NEW w \in DOMAIN log'[m], Owns(m, w)', todo'[m] # "sync", NEW s \in Subnets
      PROVE  log'[m][w].annotation.ips[s] \in ipams'[s].allocated
  <2>1. Owns(m, w) /\ todo[m] # "sync" BY <1>1, <1>3, StillOwners
  <2>2. IPOf(m, w, s) \in ipams[s].allocated BY <2>1 DEF ApartInv, OwnersInv
  <2> QED BY <2>2 DEF IPOf
<1>4. \A m \in Names : \A s \in Subnets : call'[m].ips[s] # None =>
          /\ call'[m].ips[s] = call[m].ips[s] /\ todo'[m] = todo[m]
          /\ call[m].ips[s] \in ipams'[s].allocated
  BY DEF ApartInv, CallIPsInv
<1>5. \A s \in Subnets : Excluded[s] \subseteq ipams'[s].allocated BY DEF ApartInv, OwnersInv
<1>6. OwnersInv' /\ CallIPsInv' BY <1>2, <1>3, <1>4, <1>5, ApartStays DEF ApartInv
<1>7. SyncInv' BY DEF ApartInv, SyncInv
<1> QED BY <1>6, <1>7 DEF ApartInv

\* What has to be shown of a call that goes on and gets no IP.
LEMMA ApartGoesOn ==
    ASSUME CoreInv, ApartInv, NEW n \in Names,
           UNCHANGED <<log, cached, handled, todo, releasedPods, restarts, ipams>>,
           untimely \subseteq untimely',
           \A m \in Names : m # n => call'[m] = call[m],
           \A s \in Subnets : call'[n].ips[s] \in {None, call[n].ips[s]},
           todo[n] = "sync" =>
               /\ call'[n].stage \in {"idle", "start", "ips"}
               /\ call'[n].stage = "ips" => /\ log[n][call'[n].version].annotation # None
                                            /\ log[n][call'[n].version].uid = call'[n].uid
    PROVE  ApartInv'
<1>1. Onward BY SameIsGrown DEF Onward, CoreInv, Inv, PositionInv
<1>2. \A m \in Names : Still(m) BY DEF Still
<1>3. \A w \in DOMAIN log[n] : Owns(n, w)' => Owns(n, w) BY <1>1, <1>2, StillOwns
<1> QED BY <1>1, <1>2, <1>3, ApartKeeps

\* What has to be shown of a call that returns, and gives no IP back.
LEMMA ApartReturns ==
    ASSUME CoreInv, ApartInv, NEW n \in Names, call[n].stage # "idle", Return(n),
           UNCHANGED <<log, cached, releasedPods, restarts>>, untimely \subseteq untimely',
           \A s \in Subnets : ipams[s].allocated \subseteq ipams'[s].allocated,
           \A w \in DOMAIN log[n] : todo[n] = "sync" /\ Owns(n, w) =>
               \A s \in Subnets : IPOf(n, w, s) \in ipams'[s].allocated
    PROVE  ApartInv'
<1>1. Onward BY SameIsGrown DEF Onward, CoreInv, Inv, PositionInv
<1>2. Done(n) BY DEF Return
<1>3. todo'[n] # "sync" BY <1>2, DoneFloor DEF CoreInv, Inv
<1>4. \A m \in Names : m # n => call'[m] = call[m] BY DEF Return, CoreInv, Inv, CallInv
<1>5. \A s \in Subnets : call'[n].ips[s] = None BY DEF Return, CoreInv, Inv, CallInv, IdleCall, NoIPs
<1>6. \A m \in Names : m # n => Still(m) BY <1>2 DEF Done, Still, CoreInv, Inv, PositionInv
<1>7. todo[n] = "sync" => log[n][handled[n] + 1].phase # "completed"
  BY DEF CoreInv, ProgressInv, ReservingOK, CalledFor
<1>8. ASSUME NEW w \in DOMAIN log[n], Owns(n, w)' PROVE Owns(n, w)
  <2>1. Holds(n, w)' BY <1>8 DEF Owns
  <2>2. <<n, log[n][w].uid>> \notin releasedPods BY <2>1 DEF Holds
  <2> QED BY <1>2, <1>7, <2>1, <2>2, DoneOwners
<1> QED BY <1>1, <1>3, <1>4, <1>5, <1>6, <1>8, ApartKeeps

\* The cache getting on moves no IP.
LEMMA WatchApart == ASSUME CoreInv, ApartInv, NEW n \in Names, Watch(n) PROVE ApartInv'
<1>1. UNCHANGED <<log, handled, todo, releasedPods, call, ipams, restarts, untimely>>
  BY DEF Watch, allocators, bounds, history
<1>2. \A m \in Names : cached[m] <= cached'[m] BY DEF Watch, CoreInv, Inv, PositionInv
<1>3. Onward BY <1>1, <1>2, SameIsGrown DEF Onward, CoreInv, Inv
<1> QED BY <1>1, <1>3, ApartRests

\* A call that begins has no IP.
LEMMA AllocatePodApart ==
    ASSUME CoreInv, ApartInv, NEW n \in Names, AllocatePodOnNAD(n) PROVE ApartInv'
<1>1. /\ UNCHANGED <<log, cached, handled, todo, releasedPods, restarts, ipams, untimely>>
      /\ \A m \in Names : m # n => call'[m] = call[m]
      /\ call'[n].stage = "start" /\ call'[n].ips = NoIPs
  BY DEF AllocatePodOnNAD, allocators, bounds, history, CoreInv, Inv, CallInv, IdleCall
<1>2. \A s \in Subnets : call'[n].ips[s] = None BY <1>1 DEF NoIPs
<1> QED BY <1>1, <1>2, ApartGoesOn

\* Sync finds its pod, where nothing was missed.
LEMMA GetFailsApart ==
    ASSUME CoreInv, ApartInv, Sound', NEW n \in Names, GetFails(n) PROVE ApartInv'
<1>1. UNCHANGED <<log, cached, releasedPods, restarts, ipams, untimely>> /\ Return(n)
  BY DEF GetFails, Note, allocators, bounds
<1>2. todo[n] # "sync"
  <2>1. todo[n] = "sync" => "sync missed" \in deviations' BY DEF GetFails, Note
  <2> QED BY <1>1, <2>1, SyncSound
<1>3. call[n].stage # "idle" BY DEF GetFails
<1> QED BY <1>1, <1>2, <1>3, ApartReturns

\* In Sync a pod that has IPs to reserve is found annotated.
LEMMA SyncedAnnotation ==
    ASSUME CoreInv, SyncInv, NEW n \in Names, todo[n] = "sync",
           NEW v \in DOMAIN log[n], handled[n] < v, log[n][v] # None,
           log[n][v].uid = log[n][handled[n] + 1].uid,
           NEW w \in DOMAIN log[n], Owns(n, w)
    PROVE  log[n][v].annotation # None /\ log[n][w].annotation = log[n][v].annotation
<1>1. handled[n] + 1 \in DOMAIN log[n] /\ log[n][handled[n] + 1] # None
  BY Positions DEF CoreInv, ProgressInv, HandledOK
<1>2. handled[n] \in Nat /\ v \in Nat /\ w \in Nat BY Positions DEF CoreInv
<1>3. handled[n] + 1 <= w BY DEF Owns, Holds, Floor
<1>4. handled[n] < w BY <1>2, <1>3
<1>5. log[n][w] # None /\ log[n][w].annotation # None BY DEF Owns, Holds
<1>6. log[n][w].uid = log[n][handled[n] + 1].uid /\ log[n][handled[n] + 1].annotation # None
  BY <1>4, <1>5 DEF SyncInv
<1>7. log[n][v].annotation # None
  <2>1. CASE v = handled[n] + 1 BY <1>6, <2>1
  <2>2. CASE handled[n] + 1 < v
    <3>1. Keeps(log[n][handled[n] + 1], log[n][v]) BY <1>1, <2>2 DEF CoreInv, VersionsInv
    <3> QED BY <1>6, <3>1 DEF Keeps
  <2> QED BY <1>2, <2>1, <2>2
<1> QED BY <1>5, <1>6, <1>7, SameAnnotation DEF CoreInv, Inv

\* Sync has no IP to reserve for a pod without an ID.
LEMMA AssignIDFailsApart ==
    ASSUME CoreInv, ApartInv, Sound', NEW n \in Names, AssignIDFails(n) PROVE ApartInv'
<1>1. UNCHANGED <<log, cached, releasedPods, restarts, ipams, untimely>> /\ Return(n)
  BY DEF AssignIDFails, Note, allocators, bounds
<1>2. call[n].stage = "start" /\ call[n].stage # "idle" BY DEF AssignIDFails
<1>3. ASSUME todo[n] = "sync", NEW w \in DOMAIN log[n], Owns(n, w) PROVE FALSE
  <2>1. /\ cached[n] \in DOMAIN log[n] /\ At(n, cached[n]) = log[n][cached[n]]
        /\ log[n][cached[n]] # None /\ handled[n] < cached[n]
    BY <1>2, Positions DEF AssignIDFails, At, CoreInv
  <2>2. deviations' \subseteq {"call failed"} BY <1>1, <1>3, SyncSound
  <2>3. log[n][cached[n]].annotation = None
    <3>1. log[n][cached[n]].annotation # None => "reserve failed" \in deviations'
      BY <2>1 DEF AssignIDFails, Note
    <3> QED BY <2>2, <3>1
  <2>4. log[n][cached[n]].uid = call[n].uid
    <3>1. log[n][cached[n]].uid # call[n].uid => "sync missed" \in deviations'
      BY <1>3, <2>1 DEF AssignIDFails, Note, SyncMissed
    <3> QED BY <2>2, <3>1
  <2>5. call[n].uid = log[n][handled[n] + 1].uid
    BY <1>2, <1>3 DEF CoreInv, ProgressInv, ReservingOK, CalledFor
  <2> QED BY <1>3, <2>1, <2>3, <2>4, <2>5, SyncedAnnotation DEF ApartInv
<1> QED BY <1>1, <1>2, <1>3, ApartReturns

\* Sync goes on to the IPs with its pod.
LEMMA AssignIDApart ==
    ASSUME CoreInv, ApartInv, CoreInv', Sound', NEW n \in Names, AssignID(n) PROVE ApartInv'
<1>1. PICK v : v = cached[n] OBVIOUS
<1>2. /\ v \in DOMAIN log[n] /\ log[n][v] # None /\ call[n].stage = "start"
      /\ \/ Return(n) /\ ~network.ipam
         \/ /\ UNCHANGED <<handled, todo>>
            /\ \A m \in Names : m # n => call'[m] = call[m]
            /\ call'[n].uid = call[n].uid /\ call'[n].ips = call[n].ips
            /\ call'[n].version = v
            /\ \/ call'[n].stage = "ips" /\ network.ipam
               \/ call'[n].stage = "update" /\ log[n][v].annotation = None /\ ~network.ipam
      /\ untimely \subseteq untimely'
      /\ UNCHANGED <<network, log, cached, ipams, releasedPods, restarts>>
  BY <1>1, AssignIDEffect DEF CoreInv
<1>3. /\ UNCHANGED <<handled, todo>>
      /\ \A m \in Names : m # n => call'[m] = call[m]
      /\ call'[n].uid = call[n].uid /\ call'[n].ips = call[n].ips
      /\ call'[n].version = v /\ call'[n].stage = "ips"
  BY <1>2 DEF Sound
<1>4. ASSUME todo[n] = "sync" PROVE log[n][v].annotation # None /\ log[n][v].uid = call[n].uid
  <2>1. deviations' \subseteq {"call failed"} BY <1>2, <1>4, SyncSound
  <2>2. deviations' = deviations
            \cup (IF todo[n] = "sync" /\ log[n][v].annotation = None THEN {"sync allocated"} ELSE {})
            \cup SyncMissed(n, log[n][v])
    BY <1>1, AssignIDEffect DEF CoreInv
  <2>3. log[n][v].annotation = None => "sync allocated" \in deviations' BY <1>4, <2>2
  <2>4. log[n][v].uid # call[n].uid => "sync missed" \in deviations' BY <1>4, <2>2 DEF SyncMissed
  <2> QED BY <2>1, <2>3, <2>4
<1> QED BY <1>2, <1>3, <1>4, ApartGoesOn

\* A call that is not Sync's goes to its rollback.
LEMMA ApartRollsBack ==
    ASSUME CoreInv, ApartInv, NEW n \in Names, todo[n] # "sync",
           NEW why \in {"ok", "allocated", "full", "conflict", "failed"},
           Goto(n, "rollback", [call[n] EXCEPT !.why = why]),
           UNCHANGED <<log, cached, releasedPods, restarts, ipams, untimely>>
    PROVE  ApartInv'
<1>1. /\ UNCHANGED <<handled, todo>>
      /\ \A m \in Names : m # n => call'[m] = call[m]
      /\ call'[n].ips = call[n].ips
  BY RollbackEffect DEF CoreInv, Inv
<1> QED BY <1>1, ApartGoesOn

\* An update of an older version is not Sync's.
LEMMA UpdateRefusedApart ==
    ASSUME CoreInv, ApartInv, NEW n \in Names, UpdateRefused(n) PROVE ApartInv'
<1>1. todo[n] # "sync" BY DEF UpdateRefused, ApartInv, SyncInv
<1>2. PICK why \in {"conflict", "failed"} : Goto(n, "rollback", [call[n] EXCEPT !.why = why])
  BY DEF UpdateRefused
<1>3. UNCHANGED <<log, cached, releasedPods, restarts, ipams, untimely>>
  BY DEF UpdateRefused, allocators, bounds, history
<1> QED BY <1>1, <1>2, <1>3, ApartRollsBack

\* A failed update is not Sync's.
LEMMA UpdateFailsApart ==
    ASSUME CoreInv, ApartInv, NEW n \in Names, UpdateFails(n) PROVE ApartInv'
<1>1. todo[n] # "sync" BY DEF UpdateFails, ApartInv, SyncInv
<1>2. Goto(n, "rollback", [call[n] EXCEPT !.why = "failed"]) BY DEF UpdateFails
<1>3. UNCHANGED <<log, cached, releasedPods, restarts, ipams, untimely>>
  BY DEF UpdateFails, Note, allocators
<1> QED BY <1>1, <1>2, <1>3, ApartRollsBack

\* A call that takes free IPs is not Sync's.
LEMMA SyncTakesNone ==
    ASSUME CoreInv, SyncInv, NEW n \in Names, call[n].stage = "ips", Copy(n).annotation = None
    PROVE  todo[n] # "sync"
<1>1. call[n].version \in DOMAIN log[n] BY DEF CoreInv, Inv, CallInv, CallOK
<1>2. call[n].version # 0 BY <1>1, Positions DEF CoreInv
<1>3. Copy(n) = log[n][call[n].version] BY <1>2 DEF Copy, At
<1> QED BY <1>3 DEF SyncInv

\* Sync needs no free IP.
LEMMA ErrFullApart ==
    ASSUME CoreInv, ApartInv, NEW n \in Names, NEW s \in Subnets, ErrFull(n, s) PROVE ApartInv'
<1>1. todo[n] # "sync" BY SyncTakesNone DEF ErrFull, Turn, ApartInv
<1>2. Goto(n, "rollback", [call[n] EXCEPT !.why = "full"]) BY DEF ErrFull
<1>3. UNCHANGED <<log, cached, releasedPods, restarts, ipams, untimely>>
  BY DEF ErrFull, Note, allocators, bounds
<1> QED BY <1>1, <1>2, <1>3, ApartRollsBack

\* The IPs that Sync is to reserve are its pod's.
LEMMA SyncReserves ==
    ASSUME CoreInv, ApartInv, NEW n \in Names, todo[n] = "sync", call[n].stage = "ips"
    PROVE  /\ call[n].version \in DOMAIN log[n] /\ log[n][call[n].version] # None
           /\ log[n][call[n].version].annotation # None
           /\ Owns(n, call[n].version)
<1>1. call[n].version \in DOMAIN log[n] /\ log[n][call[n].version] # None
  BY DEF CoreInv, Inv, CallInv, CallOK
<1>2. log[n][call[n].version].annotation # None BY DEF ApartInv, SyncInv
<1>3. handled[n] < call[n].version BY DEF CoreInv, ProgressInv, ReservingOK
<1>4. handled[n] \in Nat /\ call[n].version \in Nat BY <1>1, Positions DEF CoreInv
<1>5. Floor(n) <= call[n].version BY <1>3, <1>4 DEF Floor
<1>6. <<n, log[n][call[n].version].uid>> \notin releasedPods BY DEF CoreInv, ProgressInv, ReleasedOK
<1>7. log[n][handled[n] + 1].phase # "completed" BY DEF CoreInv, ProgressInv, ReservingOK, CalledFor
<1> QED BY <1>1, <1>2, <1>5, <1>6, <1>7 DEF Owns, Holds

\* Sync does not find an IP taken.
LEMMA SyncFindsFree ==
    ASSUME CoreInv, ApartInv, Sound, NEW n \in Names, todo[n] = "sync", NEW s \in Subnets,
           call[n].stage = "ips", call[n].ips[s] = None
    PROVE  log[n][call[n].version].annotation.ips[s] \notin ipams[s].allocated
<1> SUFFICES ASSUME log[n][call[n].version].annotation.ips[s] \in ipams[s].allocated PROVE FALSE
  OBVIOUS
<1>1. PICK v : v = call[n].version OBVIOUS
<1>2. PICK ip : ip = log[n][v].annotation.ips[s] OBVIOUS
<1>3. v \in DOMAIN log[n] /\ Owns(n, v) BY <1>1, SyncReserves
<1>4. ip \in ipams[s].allocated /\ IPOf(n, v, s) = ip BY <1>1, <1>2 DEF IPOf
<1>5. Accounted(s, ip) BY <1>4 DEF CoreInv, LeakInv
<1>6. ip # None BY <1>4, AllocatedOffset DEF CoreInv, Inv
<1>7. ip \notin Excluded[s] BY <1>3, <1>4 DEF ApartInv, OwnersInv
<1>8. untimely = {} BY SyncSound
<1>9. ASSUME NEW m \in Names, todo[m] # "sync", NEW w \in DOMAIN log[m], Holds(m, w), IPOf(m, w, s) = ip
      PROVE  FALSE
  <2>1. m # n BY <1>9
  <2>2. Owns(m, w) BY <1>9 DEF Owns
  <2>3. <<n, log[n][v].uid>> # <<m, log[m][w].uid>> BY <2>1
  <2> QED BY <1>3, <1>4, <1>9, <2>2, <2>3 DEF ApartInv, OwnersInv
<1>10. ASSUME NEW m \in Names, call[m].ips[s] = ip PROVE FALSE
  <2>1. m # n BY <1>6, <1>10
  <2>2. call[m].stage = "idle" BY <2>1 DEF CoreInv, ProgressInv, ModeInv
  <2>3. call[m].ips = NoIPs BY <2>2 DEF CoreInv, ProgressInv, ReservingOK
  <2> QED BY <1>6, <1>10, <2>3 DEF NoIPs
<1> QED BY <1>5, <1>7, <1>8, <1>9, <1>10 DEF Accounted

\* An annotated IP that is found taken is not one that Sync is to reserve.
LEMMA ErrAllocatedApart ==
    ASSUME CoreInv, ApartInv, Sound, NEW n \in Names, NEW s \in Subnets, ErrAllocated(n, s) PROVE ApartInv'
<1>1. todo[n] # "sync"
  <2>1. SUFFICES ASSUME todo[n] = "sync" PROVE FALSE OBVIOUS
  <2>2. call[n].stage = "ips" BY DEF ErrAllocated, Turn
  <2>3. call[n].ips[s] = None
    <3>1. s >= s BY DEF Subnets
    <3> QED BY <3>1 DEF ErrAllocated, Turn
  <2>4. call[n].version \in DOMAIN log[n] BY <2>2 DEF CoreInv, Inv, CallInv, CallOK
  <2>5. call[n].version # 0 BY <2>4, Positions DEF CoreInv
  <2>6. Copy(n) = log[n][call[n].version] BY <2>5 DEF Copy, At
  <2>7. log[n][call[n].version].annotation.ips[s] \in ipams[s].allocated BY <2>6 DEF ErrAllocated
  <2> QED BY <2>1, <2>2, <2>3, <2>7, SyncFindsFree
<1>2. Goto(n, "rollback", [call[n] EXCEPT !.why = "allocated"]) BY DEF ErrAllocated
<1>3. UNCHANGED <<log, cached, releasedPods, restarts, ipams, untimely>>
  BY DEF ErrAllocated, allocators, bounds, history
<1> QED BY <1>1, <1>2, <1>3, ApartRollsBack

\* A call that is not Sync's returns: its pod owns what it owned.
LEMMA ReturnOwners ==
    ASSUME CoreInv, NEW n \in Names, Return(n), UNCHANGED <<log, releasedPods>>, todo[n] # "sync"
    PROVE  /\ \A w \in DOMAIN log[n] : Owns(n, w)' => Owns(n, w)
           /\ todo'[n] # "sync"
           /\ \A m \in Names : m # n => Still(m) /\ call'[m] = call[m]
           /\ \A s \in Subnets : call'[n].ips[s] = None
<1>1. Done(n) BY DEF Return
<1>2. todo'[n] # "sync" BY <1>1, DoneFloor DEF CoreInv, Inv
<1>3. \A m \in Names : m # n => call'[m] = call[m] BY DEF Return, CoreInv, Inv, CallInv
<1>4. \A s \in Subnets : call'[n].ips[s] = None BY DEF Return, CoreInv, Inv, CallInv, IdleCall, NoIPs
<1>5. \A m \in Names : m # n => Still(m) BY <1>1 DEF Done, Still, CoreInv, Inv, PositionInv
<1>6. ASSUME NEW w \in DOMAIN log[n], Owns(n, w)' PROVE Owns(n, w)
  <2>1. Holds(n, w)' BY <1>6 DEF Owns
  <2>2. <<n, log[n][w].uid>> \notin releasedPods BY <2>1 DEF Holds
  <2> QED BY <1>1, <2>1, <2>2, DoneOwners
<1> QED BY <1>2, <1>3, <1>4, <1>5, <1>6

\* A rollback gives back the IPs of its call, which are nobody else's.
LEMMA RollbackApart ==
    ASSUME CoreInv, ApartInv, NEW n \in Names, Rollback(n) PROVE ApartInv'
<1>1. /\ call[n].stage = "rollback"
      /\ \A s \in Subnets : ipams'[s].allocated = ipams[s].allocated \ {call[n].ips[s]}
      /\ \/ Return(n)
         \/ /\ UNCHANGED <<handled, todo>>
            /\ \A m \in Names : m # n => call'[m] = call[m]
            /\ call'[n].stage = "start" /\ call'[n].uid = call[n].uid /\ call'[n].ips = NoIPs
      /\ UNCHANGED <<network, log, cached, releasedPods, restarts, untimely, deviations>>
  BY RollbackDoes DEF CoreInv
<1>2. todo[n] # "sync" BY <1>1 DEF ApartInv, SyncInv
<1>3. Onward BY <1>1, SameIsGrown DEF Onward, CoreInv, Inv, PositionInv
<1>4. /\ \A w \in DOMAIN log[n] : Owns(n, w)' => Owns(n, w)
      /\ todo'[n] # "sync"
      /\ \A m \in Names : m # n => Still(m) /\ call'[m] = call[m]
      /\ \A s \in Subnets : call'[n].ips[s] = None
  <2>1. CASE Return(n) BY <1>1, <1>2, <2>1, ReturnOwners
  <2>2. CASE /\ UNCHANGED <<handled, todo>>
             /\ \A m \in Names : m # n => call'[m] = call[m]
             /\ call'[n].stage = "start" /\ call'[n].uid = call[n].uid /\ call'[n].ips = NoIPs
    <3>1. \A m \in Names : Still(m) BY <1>1, <2>2 DEF Still
    <3>2. \A w \in DOMAIN log[n] : Owns(n, w)' => Owns(n, w) BY <1>3, <3>1, StillOwns
    <3> QED BY <1>2, <2>2, <3>1, <3>2 DEF NoIPs
  <2> QED BY <1>1, <2>1, <2>2
<1>5. ASSUME NEW s \in Subnets, NEW ip \in ipams[s].allocated, call[n].ips[s] # None => ip # call[n].ips[s]
      PROVE  ip \in ipams'[s].allocated
  <2>1. ip # None BY AllocatedOffset DEF CoreInv, Inv
  <2> QED BY <1>1, <1>5, <2>1
<1>6. ASSUME NEW s \in Subnets PROVE Excluded[s] \subseteq ipams'[s].allocated
  <2>1. Excluded[s] \subseteq ipams[s].allocated BY DEF ApartInv, OwnersInv
  <2>2. call[n].ips[s] # None => call[n].ips[s] \notin Excluded[s] BY DEF ApartInv, CallIPsInv
  <2> QED BY <1>5, <2>1, <2>2
<1>7. ASSUME NEW m \in Names, NEW w \in DOMAIN log[m], Owns(m, w), todo[m] # "sync", NEW s \in Subnets
      PROVE  IPOf(m, w, s) \in ipams'[s].allocated
  <2>1. IPOf(m, w, s) \in ipams[s].allocated BY <1>7 DEF ApartInv, OwnersInv
  <2>2. call[n].ips[s] # None => IPOf(m, w, s) # call[n].ips[s] BY <1>2, <1>7 DEF ApartInv, CallIPsInv
  <2> QED BY <1>5, <2>1, <2>2
<1>8. ASSUME NEW m \in Names, NEW s \in Subnets, m # n, call[m].ips[s] # None
      PROVE  call[m].ips[s] \in ipams'[s].allocated
  <2>1. call[m].ips[s] \in ipams[s].allocated BY <1>8 DEF ApartInv, CallIPsInv
  <2>2. call[n].ips[s] # None => call[m].ips[s] # call[n].ips[s] BY <1>8 DEF ApartInv, CallIPsInv
  <2> QED BY <1>5, <2>1, <2>2
<1>9. \A w \in DOMAIN log[n] : Owns(n, w)' /\ todo'[n] # "sync" =>
          \A s \in Subnets : IPOf(n, w, s) \in ipams'[s].allocated
  BY <1>2, <1>4, <1>7
<1>10. \A m \in Names : \A w \in DOMAIN log[m] : m # n /\ Owns(m, w) /\ todo[m] # "sync" =>
          \A s \in Subnets : IPOf(m, w, s) \in ipams'[s].allocated
  BY <1>7
<1>11. \A m \in Names : \A s \in Subnets : m # n /\ call[m].ips[s] # None =>
          call[m].ips[s] \in ipams'[s].allocated
  BY <1>8
<1> QED BY <1>1, <1>3, <1>4, <1>6, <1>9, <1>10, <1>11, ApartStep

\* A pod that Sync ignores has no IP.
LEMMA IgnoreApart ==
    ASSUME CoreInv, ApartInv, Sound, NEW n \in Names, Ignore(n) PROVE ApartInv'
<1>1. /\ UNCHANGED <<log, cached, releasedPods, restarts, ipams, untimely, call>>
      /\ Done(n) /\ MayHandle(n)
  BY DEF Ignore, allocators, bounds, history
<1>2. Onward BY <1>1, SameIsGrown DEF Onward, CoreInv, Inv, PositionInv
<1>3. todo'[n] # "sync" BY <1>1, DoneFloor DEF CoreInv, Inv
<1>4. \A m \in Names : m # n => Still(m) BY <1>1 DEF Done, Still, CoreInv, Inv, PositionInv
<1>5. call[n].ips = NoIPs BY <1>1 DEF MayHandle, CoreInv, ProgressInv, ReservingOK
<1>6. ASSUME NEW w \in DOMAIN log[n], Holds(n, w)', todo[n] = "sync" PROVE FALSE
  <2>1. Reconciled(n) = log[n][handled[n] + 1] BY <1>1, <1>6, EventFacts DEF Reconciled
  <2>2. handled[n] + 1 \in DOMAIN log[n] /\ log[n][handled[n] + 1] # None
    BY <1>6, Positions DEF CoreInv, ProgressInv, HandledOK
  <2>3. log[n][handled[n] + 1].phase = "unscheduled" BY <2>1, <2>2 DEF Ignore
  <2>4. Floor(n)' = handled[n] + 1 BY <1>1, DoneFloor DEF CoreInv, Inv
  <2>5. handled[n] + 1 <= w /\ log[n][w] # None /\ log[n][w].annotation # None BY <1>1, <1>6, <2>4 DEF Holds
  <2>6. handled[n] \in Nat /\ w \in Nat BY Positions DEF CoreInv
  <2>7. handled[n] < w BY <2>5, <2>6
  <2>8. log[n][handled[n] + 1].annotation # None BY <1>6, <2>5, <2>7 DEF ApartInv, SyncInv
  <2>9. <<n, log[n][handled[n] + 1].uid>> \in untimely BY <2>2, <2>3, <2>8 DEF CoreInv, UntimelyInv
  <2> QED BY <1>6, <2>9, SyncSound
<1>7. ASSUME NEW w \in DOMAIN log[n], Owns(n, w)' PROVE Owns(n, w)
  <2>1. Holds(n, w)' BY <1>7 DEF Owns
  <2>2. <<n, log[n][w].uid>> \notin releasedPods BY <1>1, <2>1 DEF Holds
  <2> QED BY <1>1, <1>6, <2>1, <2>2, DoneOwners
<1>8. \A w \in DOMAIN log[n] : todo[n] = "sync" /\ Owns(n, w)' /\ todo'[n] # "sync" =>
          \A s \in Subnets : IPOf(n, w, s) \in ipams'[s].allocated
  BY <1>6 DEF Owns
<1>9. \A s \in Subnets : call'[n].ips[s] = None BY <1>1, <1>5 DEF NoIPs
<1> QED BY <1>1, <1>2, <1>3, <1>4, <1>7, <1>8, <1>9, ApartKeeps

\* A release gives back the IPs of a pod, which are nobody else's.
LEMMA ReleasePodApart ==
    ASSUME CoreInv, ApartInv, NEW n \in Names, ReleasePodOnNAD(n) PROVE ApartInv'
<1>1. PICK h : h = handled[n] OBVIOUS
<1>2. PICK p \in DOMAIN log[n] :
          /\ MayHandle(n) /\ Done(n)
          /\ Reconciled(n) = log[n][p] /\ log[n][p] # None
          /\ \/ IsDelete(n) /\ p = h /\ releasedPods' = releasedPods \ {<<n, log[n][p].uid>>}
             \/ /\ ~IsDelete(n) /\ h < p /\ log[n][p].phase = "completed"
                /\ releasedPods' = releasedPods \cup {<<n, log[n][p].uid>>}
          /\ \A s \in Subnets : ipams'[s].allocated =
                 IF todo[n] # "sync" /\ <<n, log[n][p].uid>> \notin releasedPods
                        /\ log[n][p].annotation # None
                 THEN ipams[s].allocated \ {log[n][p].annotation.ips[s]}
                 ELSE ipams[s].allocated
          /\ UNCHANGED <<network, log, cached, call, restarts, untimely, deviations>>
  BY <1>1, ReleasePodEffect
<1>3. /\ h \in Nat /\ p \in Nat /\ h + 1 \in DOMAIN log[n]
      /\ IsDelete(n) => todo[n] = "none" /\ log[n][h + 1] = None
      /\ Event(n).new = log[n][h + 1] /\ call[n].stage = "idle"
  BY <1>1, <1>2, EventFacts, Positions DEF CoreInv
<1>4. Onward BY <1>2, SameIsGrown DEF Onward, CoreInv, Inv, PositionInv
<1>5. todo'[n] # "sync" /\ Floor(n)' = h + 1 BY <1>1, <1>2, DoneFloor DEF CoreInv, Inv
<1>6. \A m \in Names : m # n => Still(m)
  <2>1. \A m \in Names : \A k : m # n => <<m, k>> # <<n, log[n][p].uid>> OBVIOUS
  <2>2. \A m \in Names : m # n => handled'[m] = handled[m] /\ todo'[m] = todo[m]
    BY <1>2 DEF Done, CoreInv, Inv, PositionInv
  <2> QED BY <1>2, <2>1, <2>2 DEF Still
<1>7. \A s \in Subnets : call'[n].ips[s] = None
  BY <1>2, <1>3 DEF CoreInv, ProgressInv, ReservingOK, NoIPs
<1>8. ASSUME NEW w \in DOMAIN log[n], Holds(n, w)'
      PROVE  /\ h < w /\ log[n][w] # None /\ log[n][w].annotation # None
             /\ log[n][w].uid # log[n][p].uid
             /\ <<n, log[n][w].uid>> \notin releasedPods
  <2>1. /\ h + 1 <= w /\ log[n][w] # None /\ log[n][w].annotation # None
        /\ <<n, log[n][w].uid>> \notin releasedPods'
    BY <1>2, <1>5, <1>8 DEF Holds
  <2>2. h < w /\ w \in Nat BY <1>3, <2>1, Positions DEF CoreInv
  <2>3. log[n][w].uid # log[n][p].uid
    <3>1. CASE IsDelete(n)
      <4>1. p < w /\ log[n][h + 1] = None /\ h + 1 \in p .. w BY <1>2, <1>3, <2>1, <2>2, <3>1
      <4> QED BY <1>2, <2>1, <4>1 DEF CoreInv, VersionsInv
    <3>2. CASE ~IsDelete(n) BY <1>2, <2>1, <3>2
    <3> QED BY <3>1, <3>2
  <2>4. <<n, log[n][w].uid>> # <<n, log[n][p].uid>> BY <2>3
  <2> QED BY <1>2, <2>1, <2>2, <2>3, <2>4
<1>9. CASE todo[n] = "sync"
  <2>1. Reconciled(n) = log[n][h + 1] BY <1>3, <1>9 DEF Reconciled
  <2>2. ASSUME NEW w \in DOMAIN log[n], Owns(n, w)' PROVE FALSE
    <3>1. Holds(n, w)' BY <2>2 DEF Owns
    <3>2. log[n][w].uid = log[n][h + 1].uid BY <1>1, <1>8, <1>9, <3>1 DEF ApartInv, SyncInv
    <3> QED BY <1>2, <1>8, <2>1, <3>1, <3>2
  <2>3. \A s \in Subnets : ipams[s].allocated \subseteq ipams'[s].allocated BY <1>2, <1>9
  <2> QED BY <1>2, <1>4, <1>5, <1>6, <1>7, <2>2, <2>3, ApartKeeps
<1>10. CASE todo[n] # "sync"
  <2>1. ASSUME NEW w \in DOMAIN log[n], Owns(n, w)'
        PROVE  Owns(n, w) /\ log[n][w].uid # log[n][p].uid
    <3>1. Holds(n, w)' BY <2>1 DEF Owns
    <3> QED BY <1>2, <1>8, <1>10, <3>1, DoneOwners
  <2>2. CASE <<n, log[n][p].uid>> \in releasedPods \/ log[n][p].annotation = None
    <3>1. \A s \in Subnets : ipams[s].allocated \subseteq ipams'[s].allocated BY <1>2, <2>2
    <3> QED BY <1>2, <1>4, <1>5, <1>6, <1>7, <1>10, <2>1, <3>1, ApartKeeps
  <2>3. CASE <<n, log[n][p].uid>> \notin releasedPods /\ log[n][p].annotation # None
    <3>1. Owns(n, p)
      <4>1. Floor(n) <= p BY <1>1, <1>2, <1>3, <1>10 DEF Floor
      <4> QED BY <1>2, <1>10, <2>3, <4>1 DEF Owns, Holds
    <3>2. \A s \in Subnets : ipams'[s].allocated = ipams[s].allocated \ {IPOf(n, p, s)}
      BY <1>2, <1>10, <2>3 DEF IPOf
    <3>3. \A s \in Subnets : Excluded[s] \subseteq ipams'[s].allocated
      BY <3>1, <3>2 DEF ApartInv, OwnersInv
    <3>4. ASSUME NEW m \in Names, NEW w \in DOMAIN log[m], Owns(m, w), todo[m] # "sync", NEW s \in Subnets,
                 m # n \/ log[m][w].uid # log[n][p].uid
          PROVE  IPOf(m, w, s) \in ipams'[s].allocated
      <4>1. <<n, log[n][p].uid>> # <<m, log[m][w].uid>> BY <3>4
      <4>2. IPOf(n, p, s) # IPOf(m, w, s) BY <3>1, <3>4, <4>1 DEF ApartInv, OwnersInv
      <4>3. IPOf(m, w, s) \in ipams[s].allocated BY <3>4 DEF ApartInv, OwnersInv
      <4> QED BY <3>2, <4>2, <4>3
    <3>5. \A m \in Names : \A w \in DOMAIN log[m] : m # n /\ Owns(m, w) /\ todo[m] # "sync" =>
              \A s \in Subnets : IPOf(m, w, s) \in ipams'[s].allocated
      BY <3>4
    <3>6. \A w \in DOMAIN log[n] : Owns(n, w)' /\ todo'[n] # "sync" =>
              \A s \in Subnets : IPOf(n, w, s) \in ipams'[s].allocated
      BY <1>10, <2>1, <3>4
    <3>7. \A m \in Names : \A s \in Subnets : m # n /\ call[m].ips[s] # None =>
              call[m].ips[s] \in ipams'[s].allocated
      <4>1. ASSUME NEW m \in Names, NEW s \in Subnets, m # n, call[m].ips[s] # None
            PROVE  call[m].ips[s] \in ipams'[s].allocated
        <5>1. call[m].ips[s] \in ipams[s].allocated /\ IPOf(n, p, s) # call[m].ips[s]
          BY <3>1, <4>1 DEF ApartInv, CallIPsInv
        <5> QED BY <3>2, <5>1
      <4> QED BY <4>1
    <3> QED BY <1>2, <1>4, <1>5, <1>6, <1>7, <2>1, <3>3, <3>5, <3>6, <3>7, ApartStep
  <2> QED BY <2>2, <2>3
<1> QED BY <1>9, <1>10

\* What has to be shown of a step in which a call gets an IP that was free:
\* that it is nobody's.
LEMMA ApartTakes ==
    ASSUME CoreInv, ApartInv, NEW n \in Names, NEW s \in Subnets, NEW ip \in Offset,
           UNCHANGED <<log, cached, handled, todo, releasedPods, restarts>>, untimely \subseteq untimely',
           \A m \in Names : m # n => call'[m] = call[m],
           call'[n].ips[s] = ip, \A r \in Subnets : r # s => call'[n].ips[r] = call[n].ips[r],
           ip \notin ipams[s].allocated, ipams'[s].allocated = ipams[s].allocated \cup {ip},
           \A r \in Subnets : r # s => ipams'[r] = ipams[r],
           \A m \in Names : \A w \in DOMAIN log[m] :
               Owns(m, w) /\ ~(m = n /\ todo[n] = "sync") => IPOf(m, w, s) # ip,
           todo[n] = "sync" =>
               /\ call'[n].stage \in {"idle", "start", "ips"}
               /\ call'[n].stage = "ips" => /\ log[n][call'[n].version].annotation # None
                                            /\ log[n][call'[n].version].uid = call'[n].uid
    PROVE  ApartInv'
<1>1. Onward BY SameIsGrown DEF Onward, CoreInv, Inv, PositionInv
<1>2. \A m \in Names : Still(m) BY DEF Still
<1>3. NoNewOwner
  <2>1. ASSUME NEW m \in Names PROVE \A w \in DOMAIN log'[m] : Owns(m, w)' => OwnedBefore(m, w)
    BY <1>1, <1>2, <2>1, StillOwners
  <2> QED BY <2>1 DEF NoNewOwner
<1>4. \A r \in Subnets : ipams[r].allocated \subseteq ipams'[r].allocated OBVIOUS
<1>5. ASSUME NEW m \in Names, NEW w \in DOMAIN log'[m], Owns(m, w)', todo'[m] # "sync", NEW r \in Subnets
      PROVE  log'[m][w].annotation.ips[r] \in ipams'[r].allocated
  <2>1. Owns(m, w) /\ todo[m] # "sync" BY <1>1, <1>2, <1>5, StillOwners
  <2>2. IPOf(m, w, r) \in ipams[r].allocated BY <2>1 DEF ApartInv, OwnersInv
  <2> QED BY <1>4, <2>2 DEF IPOf
<1>6. \A r \in Subnets : Excluded[r] \subseteq ipams'[r].allocated BY <1>4 DEF ApartInv, OwnersInv
<1>7. OwnersInv' BY <1>3, <1>5, <1>6, OwnersStay DEF ApartInv
<1>8. ip # None BY NoneIsNil
<1>9. \A m \in Names : \A r \in Subnets : call[m].ips[r] # None => call[m].ips[r] \in ipams[r].allocated
  BY DEF ApartInv, CallIPsInv
<1>10. ASSUME NEW m \in Names, NEW r \in Subnets, call'[m].ips[r] # None
       PROVE  /\ call'[m].ips[r] \in ipams'[r].allocated \ Excluded[r]
              /\ \A l \in Names : l # m => call'[l].ips[r] # call'[m].ips[r]
              /\ \A l \in Names : \A w \in DOMAIN log'[l] :
                     Owns(l, w)' /\ ~(l = m /\ todo'[m] = "sync") => IPOf(l, w, r)' # call'[m].ips[r]
  <2>1. \A l \in Names : \A w \in DOMAIN log'[l] : Owns(l, w)' => Owns(l, w) /\ IPOf(l, w, r)' = IPOf(l, w, r)
    <3>1. ASSUME NEW l \in Names, NEW w \in DOMAIN log'[l], Owns(l, w)' PROVE Owns(l, w)
      BY <1>1, <1>2, <3>1, StillOwners
    <3> QED BY <3>1 DEF IPOf
  <2>2. CASE m = n /\ r = s
    <3>1. call'[m].ips[r] = ip BY <2>2
    <3>2. ip \in ipams'[r].allocated \ Excluded[r] BY <2>2 DEF ApartInv, OwnersInv
    <3>3. ASSUME NEW l \in Names, l # m PROVE call'[l].ips[r] # ip
      <4>1. call'[l] = call[l] BY <2>2, <3>3
      <4> QED BY <1>8, <1>9, <2>2, <4>1
    <3>4. \A l \in Names : \A w \in DOMAIN log'[l] :
              Owns(l, w)' /\ ~(l = m /\ todo'[m] = "sync") => IPOf(l, w, r)' # ip
      BY <2>1, <2>2
    <3> QED BY <3>1, <3>2, <3>3, <3>4
  <2>3. CASE ~(m = n /\ r = s)
    <3>1. call'[m].ips[r] = call[m].ips[r] /\ call[m].ips[r] # None BY <1>10, <2>3
    <3>2. /\ call[m].ips[r] \in ipams[r].allocated \ Excluded[r]
          /\ \A l \in Names : l # m => call[l].ips[r] # call[m].ips[r]
          /\ \A l \in Names : \A w \in DOMAIN log[l] :
                 Owns(l, w) /\ ~(l = m /\ todo[m] = "sync") => IPOf(l, w, r) # call[m].ips[r]
      BY <3>1 DEF ApartInv, CallIPsInv
    <3>3. ASSUME NEW l \in Names, l # m PROVE call'[l].ips[r] # call'[m].ips[r]
      <4>1. CASE l = n /\ r = s BY <3>1, <3>2, <4>1
      <4>2. CASE ~(l = n /\ r = s)
        <5>1. call'[l].ips[r] = call[l].ips[r] BY <4>2
        <5> QED BY <3>1, <3>2, <3>3, <5>1
      <4> QED BY <4>1, <4>2
    <3>4. \A l \in Names : \A w \in DOMAIN log'[l] :
              Owns(l, w)' /\ ~(l = m /\ todo'[m] = "sync") => IPOf(l, w, r)' # call'[m].ips[r]
      BY <2>1, <3>1, <3>2
    <3>5. call'[m].ips[r] \in ipams'[r].allocated \ Excluded[r] BY <1>4, <3>1, <3>2
    <3> QED BY <3>3, <3>4, <3>5
  <2> QED BY <2>2, <2>3
<1>11. CallIPsInv' BY <1>10 DEF CallIPsInv
<1>12. ASSUME NEW m \in Names, todo'[m] = "sync"
       PROVE  /\ todo[m] = "sync" /\ handled'[m] = handled[m]
              /\ call'[m].stage \in {"idle", "start", "ips"}
              /\ call'[m].stage = "ips" => /\ log[m][call'[m].version].annotation # None
                                           /\ log[m][call'[m].version].uid = call'[m].uid
  <2>1. CASE m = n BY <1>12, <2>1
  <2>2. CASE m # n BY <1>12, <2>2 DEF ApartInv, SyncInv
  <2> QED BY <2>1, <2>2
<1>13. SyncInv' BY <1>12, SyncStays DEF ApartInv
<1> QED BY <1>7, <1>11, <1>13 DEF ApartInv

\* A free IP is no owner's, once Sync is through.
LEMMA FreeIsNobodys ==
    ASSUME CoreInv, ApartInv, NEW n \in Names, todo[n] # "sync", call[n].stage # "idle",
           NEW s \in Subnets, NEW ip, ip \notin ipams[s].allocated
    PROVE  \A m \in Names : \A w \in DOMAIN log[m] : Owns(m, w) => IPOf(m, w, s) # ip
<1>1. \A m \in Names : todo[m] # "sync" BY DEF CoreInv, ProgressInv, ModeInv
<1> QED BY <1>1 DEF ApartInv, OwnersInv

\* A free IP is nobody's.
LEMMA AllocateNextIPApart ==
    ASSUME CoreInv, ApartInv, NEW n \in Names, NEW s \in Subnets, AllocateNextIP(n, s) PROVE ApartInv'
<1>1. todo[n] # "sync" BY SyncTakesNone DEF AllocateNextIP, Turn, ApartInv
<1>2. PICK ip \in Offset, v \in DOMAIN log[n] :
          /\ v = call[n].version /\ log[n][v] # None /\ log[n][v].annotation = None
          /\ ip \notin ipams[s].allocated
          /\ call[n].stage = "ips" /\ network.ipam /\ call[n].ips[s] = None
          /\ ipams'[s].allocated = ipams[s].allocated \cup {ip}
          /\ \A r \in Subnets : r # s => ipams'[r] = ipams[r]
          /\ UNCHANGED <<handled, todo>>
          /\ \A m \in Names : m # n => call'[m] = call[m]
          /\ call'[n].stage \in {"ips", "update"} /\ call'[n].uid = call[n].uid /\ call'[n].version = v
          /\ call'[n].ips[s] = ip /\ \A r \in Subnets : r # s => call'[n].ips[r] = call[n].ips[r]
          /\ UNCHANGED <<network, log, cached, releasedPods, restarts, untimely, deviations>>
  BY AllocateNextIPEffect DEF CoreInv
<1>3. \A m \in Names : \A w \in DOMAIN log[m] : Owns(m, w) => IPOf(m, w, s) # ip
  BY <1>1, <1>2, FreeIsNobodys
<1> QED BY <1>1, <1>2, <1>3, ApartTakes

\* An annotated IP that is reserved is its pod's alone.
LEMMA AllocateIPApart ==
    ASSUME CoreInv, ApartInv, NEW n \in Names, NEW s \in Subnets, AllocateIP(n, s) PROVE ApartInv'
<1>1. PICK ip \in Offset, v \in DOMAIN log[n] :
          /\ v = call[n].version /\ log[n][v] # None /\ log[n][v].annotation # None
          /\ ip = log[n][v].annotation.ips[s]
          /\ ip \notin ipams[s].allocated
          /\ call[n].stage = "ips" /\ network.ipam /\ call[n].ips[s] = None
          /\ ipams'[s].allocated = ipams[s].allocated \cup {ip}
          /\ \A r \in Subnets : r # s => ipams'[r] = ipams[r]
          /\ \/ /\ Return(n)
                /\ \A r \in Subnets : r # s => call[n].ips[r] # None
             \/ /\ UNCHANGED <<handled, todo>>
                /\ \A m \in Names : m # n => call'[m] = call[m]
                /\ call'[n].stage = "ips" /\ call'[n].uid = call[n].uid /\ call'[n].version = v
                /\ call'[n].ips[s] = ip /\ \A r \in Subnets : r # s => call'[n].ips[r] = call[n].ips[r]
          /\ UNCHANGED <<network, log, cached, releasedPods, restarts, untimely, deviations>>
  BY AllocateIPEffect DEF CoreInv
<1>2. handled[n] < v BY <1>1 DEF CoreInv, ProgressInv, ReservingOK
<1>3. todo[n] = "sync" => log[n][v].uid = call[n].uid /\ log[n][v].uid = log[n][handled[n] + 1].uid
  <2>1. v = call[n].version /\ call[n].stage = "ips" BY <1>1
  <2>2. todo[n] = "sync" => log[n][v].uid = call[n].uid BY <2>1 DEF ApartInv, SyncInv
  <2>3. CalledFor(n) BY <2>1 DEF CoreInv, ProgressInv, ReservingOK
  <2>4. todo[n] = "sync" => call[n].uid = log[n][handled[n] + 1].uid BY <2>3 DEF CalledFor
  <2> QED BY <2>2, <2>4
<1>4. CASE Return(n) /\ \A r \in Subnets : r # s => call[n].ips[r] # None
  <2>1. \A r \in Subnets : ipams[r].allocated \subseteq ipams'[r].allocated BY <1>1
  <2>2. ASSUME NEW w \in DOMAIN log[n], todo[n] = "sync", Owns(n, w), NEW r \in Subnets
        PROVE  IPOf(n, w, r) \in ipams'[r].allocated
    <3>1. log[n][w].annotation = log[n][v].annotation
      <4>1. v \in DOMAIN log[n] /\ log[n][v] # None BY <1>1
      <4>2. log[n][v].uid = log[n][handled[n] + 1].uid BY <1>3, <2>2
      <4>3. SyncInv BY DEF ApartInv
      <4> QED BY <1>2, <2>2, <4>1, <4>2, <4>3, SyncedAnnotation
    <3>2. log[n][v].annotation.ips[r] \in ipams'[r].allocated
      <4>1. CASE r = s BY <1>1, <4>1
      <4>2. CASE r # s
        <5>1. call[n].ips[r] # None BY <1>4, <4>2
        <5>2. call[n].ips[r] = log[n][v].annotation.ips[r]
          BY <1>1, <5>1 DEF CoreInv, ProgressInv, ReservingOK
        <5>3. call[n].ips[r] \in ipams[r].allocated BY <5>1 DEF ApartInv, CallIPsInv
        <5> QED BY <2>1, <5>2, <5>3
      <4> QED BY <4>1, <4>2
    <3> QED BY <3>1, <3>2 DEF IPOf
  <2>3. call[n].stage # "idle" BY <1>1
  <2> QED BY <1>1, <1>4, <2>1, <2>2, <2>3, ApartReturns
<1>5. CASE /\ UNCHANGED <<handled, todo>>
           /\ \A m \in Names : m # n => call'[m] = call[m]
           /\ call'[n].stage = "ips" /\ call'[n].uid = call[n].uid /\ call'[n].version = v
           /\ call'[n].ips[s] = ip /\ \A r \in Subnets : r # s => call'[n].ips[r] = call[n].ips[r]
  <2>1. ASSUME NEW m \in Names, NEW w \in DOMAIN log[m], Owns(m, w), ~(m = n /\ todo[n] = "sync")
        PROVE  IPOf(m, w, s) # ip
    <3>1. CASE todo[n] # "sync"
      <4>1. call[n].stage # "idle" /\ ip \notin ipams[s].allocated BY <1>1
      <4>2. \A l \in Names : \A x \in DOMAIN log[l] : Owns(l, x) => IPOf(l, x, s) # ip
        BY <3>1, <4>1, FreeIsNobodys
      <4> QED BY <2>1, <4>2
    <3>2. CASE todo[n] = "sync"
      <4>1. Owns(n, v) BY <1>1, <3>2, SyncReserves
      <4>2. <<n, log[n][v].uid>> # <<m, log[m][w].uid>> BY <2>1, <3>2
      <4>3. IPOf(n, v, s) # IPOf(m, w, s) BY <2>1, <4>1, <4>2 DEF ApartInv, OwnersInv
      <4> QED BY <1>1, <4>3 DEF IPOf
    <3> QED BY <3>1, <3>2
  <2>2. todo[n] = "sync" =>
            /\ call'[n].stage \in {"idle", "start", "ips"}
            /\ call'[n].stage = "ips" => /\ log[n][call'[n].version].annotation # None
                                         /\ log[n][call'[n].version].uid = call'[n].uid
    BY <1>1, <1>3, <1>5
  <2>3. /\ UNCHANGED <<log, cached, handled, todo, releasedPods, restarts>> /\ untimely \subseteq untimely'
        /\ ip \notin ipams[s].allocated /\ ipams'[s].allocated = ipams[s].allocated \cup {ip}
        /\ \A r \in Subnets : r # s => ipams'[r] = ipams[r]
    BY <1>1, <1>5
  <2> QED BY <1>5, <2>1, <2>2, <2>3, ApartTakes
<1> QED BY <1>1, <1>4, <1>5

\* What has to be shown of a change of a pod by others: if the new version is
\* annotated, so was the last one.
LEMMA ChangeApart ==
    ASSUME CoreInv, CoreInv', ApartInv, NEW n \in Names, NEW pod \in Pod \cup {None}, Change(n, pod),
           pod # None /\ pod.annotation # None =>
               Latest(n) # None /\ Latest(n).uid = pod.uid /\ Latest(n).annotation = pod.annotation
    PROVE  ApartInv'
<1>1. UNCHANGED <<cached, handled, todo, releasedPods, call, ipams, restarts, untimely>>
  BY DEF Change, allocators, history
<1>2. log' = [log EXCEPT ![n] = Append(@, pod)] BY DEF Change
<1>3. PICK k : k = Len(log[n]) OBVIOUS
<1>4. /\ k \in Nat /\ DOMAIN log[n] = 1 .. k /\ DOMAIN log'[n] = 1 .. k + 1
      /\ log'[n][k + 1] = pod /\ \A v \in 1 .. k : log'[n][v] = log[n][v]
      /\ \A m \in Names : m # n => log'[m] = log[m]
  <2>1. log' = [log EXCEPT ![n] = Append(@, pod)] /\ LogInv BY <1>2 DEF CoreInv, Inv
  <2>2. /\ \A m \in Names : m # n => log'[m] = log[m]
        /\ DOMAIN log[n] = 1 .. Len(log[n]) /\ Len(log[n]) \in Nat
        /\ DOMAIN log'[n] = 1 .. Len(log[n]) + 1
        /\ \A v \in 1 .. Len(log[n]) : log'[n][v] = log[n][v]
        /\ log'[n][Len(log[n]) + 1] = pod
    BY <2>1, AppendedLast
  <2> QED BY <1>3, <2>2
<1>5. Grown BY <1>2, Appended DEF Grown, CoreInv, Inv
<1>6. Onward BY <1>1, <1>5 DEF Onward, CoreInv, Inv, PositionInv
<1>7. \A m \in Names : Still(m) BY <1>1 DEF Still
<1>8. PICK h : h = handled[n] OBVIOUS
<1>9. h \in Nat /\ h <= k /\ (todo[n] # "none" => h + 1 <= k)
  <2>1. h \in Nat /\ cached[n] \in Nat /\ h <= cached[n] /\ cached[n] <= k BY <1>3, <1>8, Positions DEF CoreInv
  <2>2. todo[n] # "none" => h < cached[n] BY <1>8 DEF CoreInv, ProgressInv, HandledOK
  <2> QED BY <1>4, <2>1, <2>2
<1>10. ASSUME Owns(n, k + 1)', k + 1 \in DOMAIN log'[n]
       PROVE  /\ k \in DOMAIN log[n] /\ Owns(n, k) /\ h < k + 1
              /\ log[n][k] # None /\ log[n][k].uid = pod.uid /\ log[n][k].annotation = pod.annotation
  <2>1. pod # None /\ pod.annotation # None /\ <<n, pod.uid>> \notin releasedPods
    BY <1>1, <1>4, <1>10 DEF Owns, Holds
  <2>2. k \in DOMAIN log[n] /\ Latest(n) = log[n][k] BY <1>3, <2>1, LatestVersion DEF CoreInv, Inv
  <2>3. log[n][k] # None /\ log[n][k].uid = pod.uid /\ log[n][k].annotation = pod.annotation
    BY <2>1, <2>2
  <2>4. Floor(n) <= k BY <1>8, <1>9 DEF Floor
  <2>5. Holds(n, k) BY <2>1, <2>2, <2>3, <2>4 DEF Holds
  <2>6. todo[n] = "sync" => log[n][h + 1].phase # "completed"
    <3>1. todo[n] = "sync" => h + 1 \in 1 .. k BY <1>9
    <3>2. todo'[n] = "sync" => log'[n][handled'[n] + 1].phase # "completed" BY <1>10 DEF Owns
    <3> QED BY <1>1, <1>4, <1>8, <3>1, <3>2
  <2>7. Owns(n, k) BY <1>8, <2>5, <2>6 DEF Owns
  <2> QED BY <1>4, <1>9, <2>2, <2>3, <2>7
<1>11. \A w \in DOMAIN log'[n] : w \in DOMAIN log[n] \/ w = k + 1 BY <1>4
<1>12. NoNewOwner
  <2>1. ASSUME NEW m \in Names, NEW w \in DOMAIN log'[m], Owns(m, w)' PROVE OwnedBefore(m, w)
    <3>1. CASE m # n BY <1>4, <1>6, <1>7, <2>1, <3>1, StillOwners
    <3>2. CASE m = n /\ w \in DOMAIN log[n]
      <4>1. Owns(n, w) BY <1>6, <1>7, <2>1, <3>2, StillOwns
      <4>2. log'[n][w] = log[n][w] BY <1>4, <3>2
      <4> QED BY <3>2, <4>1, <4>2, OwnedItself
    <3>3. CASE m = n /\ w = k + 1 BY <1>4, <1>10, <2>1, <3>3 DEF OwnedBefore
    <3> QED BY <1>11, <3>1, <3>2, <3>3
  <2> QED BY <2>1 DEF NoNewOwner
<1>13. ASSUME NEW m \in Names, NEW w \in DOMAIN log'[m], Owns(m, w)', todo'[m] # "sync", NEW s \in Subnets
       PROVE  log'[m][w].annotation.ips[s] \in ipams'[s].allocated
  <2>1. OwnedBefore(m, w) BY <1>12, <1>13 DEF NoNewOwner
  <2>2. PICK w0 \in DOMAIN log[m] : Owns(m, w0) /\ log[m][w0].annotation = log'[m][w].annotation
    BY <2>1 DEF OwnedBefore
  <2>3. IPOf(m, w0, s) \in ipams[s].allocated BY <1>1, <1>13, <2>2 DEF ApartInv, OwnersInv
  <2> QED BY <1>1, <2>2, <2>3 DEF IPOf
<1>14. \A s \in Subnets : Excluded[s] \subseteq ipams'[s].allocated BY <1>1 DEF ApartInv, OwnersInv
<1>15. \A m \in Names : \A s \in Subnets : call'[m].ips[s] # None =>
           /\ call'[m].ips[s] = call[m].ips[s] /\ todo'[m] = todo[m]
           /\ call[m].ips[s] \in ipams'[s].allocated
  BY <1>1 DEF ApartInv, CallIPsInv
<1>16. OwnersInv' /\ CallIPsInv' BY <1>12, <1>13, <1>14, <1>15, ApartStays DEF ApartInv
<1>17. ASSUME NEW m \in Names, todo'[m] = "sync"
       PROVE  /\ \A v \in DOMAIN log'[m] :
                     handled'[m] < v /\ log'[m][v] # None /\ log'[m][v].annotation # None =>
                         /\ log'[m][v].uid = log'[m][handled'[m] + 1].uid
                         /\ log'[m][handled'[m] + 1].annotation # None
              /\ call'[m].stage \in {"idle", "start", "ips"}
              /\ call'[m].stage = "ips" => /\ log'[m][call'[m].version].annotation # None
                                           /\ log'[m][call'[m].version].uid = call'[m].uid
  <2>1. todo[m] = "sync" /\ handled'[m] = handled[m] /\ call'[m] = call[m] BY <1>1, <1>17
  <2>2. handled[m] + 1 \in DOMAIN log[m] /\ handled[m] < cached[m]
    BY <2>1, Positions DEF CoreInv, ProgressInv, HandledOK
  <2>3. log'[m][handled[m] + 1] = log[m][handled[m] + 1] BY <1>5, <2>2 DEF Grown
  <2>4. call[m].stage = "ips" => log'[m][call[m].version] = log[m][call[m].version]
    BY <1>5 DEF Grown, CoreInv, Inv, CallInv, CallOK
  <2>5. /\ call[m].stage \in {"idle", "start", "ips"}
        /\ call[m].stage = "ips" => /\ log[m][call[m].version].annotation # None
                                    /\ log[m][call[m].version].uid = call[m].uid
        /\ \A v \in DOMAIN log[m] :
               handled[m] < v /\ log[m][v] # None /\ log[m][v].annotation # None =>
                   /\ log[m][v].uid = log[m][handled[m] + 1].uid
                   /\ log[m][handled[m] + 1].annotation # None
    BY <2>1 DEF ApartInv, SyncInv
  <2>6. ASSUME NEW v \in DOMAIN log'[m],
               handled[m] < v, log'[m][v] # None, log'[m][v].annotation # None
        PROVE  /\ log'[m][v].uid = log[m][handled[m] + 1].uid
               /\ log[m][handled[m] + 1].annotation # None
    <3>1. CASE m # n BY <1>4, <2>5, <2>6, <3>1
    <3>2. CASE m = n /\ v \in DOMAIN log[n] BY <1>4, <2>5, <2>6, <3>2
    <3>3. CASE m = n /\ v = k + 1
      <4>1. pod # None /\ pod.annotation # None BY <1>4, <2>6, <3>3
      <4>2. k \in DOMAIN log[n] /\ Latest(n) = log[n][k] BY <1>3, <4>1, LatestVersion DEF CoreInv, Inv
      <4>3. log[n][k] # None /\ log[n][k].uid = pod.uid /\ log[n][k].annotation = pod.annotation
        BY <4>1, <4>2
      <4>4. handled[n] < k BY <1>4, <1>8, <1>9, <2>1, <3>3
      <4> QED BY <1>4, <2>5, <3>3, <4>1, <4>2, <4>3, <4>4
    <3> QED BY <1>11, <3>1, <3>2, <3>3
  <2> QED BY <2>1, <2>3, <2>4, <2>5, <2>6
<1>18. SyncInv' BY <1>17 DEF SyncInv
<1> QED BY <1>16, <1>18 DEF ApartInv

\* The IPs of a call become the pod's.
LEMMA UpdatePodStatusApart ==
    ASSUME CoreInv, ApartInv, Sound, NEW n \in Names, UpdatePodStatus(n) PROVE ApartInv'
<1>1. PICK pod \in Pod :
          /\ call[n].stage = "update" /\ Return(n)
          /\ Latest(n) # None /\ Latest(n).annotation = None
          /\ log' = [log EXCEPT ![n] = Append(@, pod)]
          /\ pod.uid = Latest(n).uid /\ pod.phase = Latest(n).phase
          /\ pod.annotation # None /\ pod.annotation.ips = call[n].ips
          /\ untimely' = untimely \cup (IF pod.phase # "scheduled" THEN {<<n, pod.uid>>} ELSE {})
          /\ UNCHANGED <<network, cached, ipams, releasedPods, restarts, deviations>>
  BY UpdatePodStatusEffect
<1>2. PICK k : k = Len(log[n]) OBVIOUS
<1>3. /\ k \in Nat /\ DOMAIN log[n] = 1 .. k /\ DOMAIN log'[n] = 1 .. k + 1
      /\ log'[n][k + 1] = pod /\ \A v \in 1 .. k : log'[n][v] = log[n][v]
      /\ \A m \in Names : m # n => log'[m] = log[m]
  <2>1. log' = [log EXCEPT ![n] = Append(@, pod)] /\ pod \in Pod \cup {None} /\ LogInv
    BY <1>1 DEF CoreInv, Inv
  <2>2. /\ \A m \in Names : m # n => log'[m] = log[m]
        /\ DOMAIN log[n] = 1 .. Len(log[n]) /\ Len(log[n]) \in Nat
        /\ DOMAIN log'[n] = 1 .. Len(log[n]) + 1
        /\ \A v \in 1 .. Len(log[n]) : log'[n][v] = log[n][v]
        /\ log'[n][Len(log[n]) + 1] = pod
    BY <2>1, AppendedLast
  <2> QED BY <1>2, <2>2
<1>4. \A m \in Names : todo[m] # "sync"
  <2>1. todo[n] # "sync" BY <1>1 DEF ApartInv, SyncInv
  <2> QED BY <1>1, <2>1 DEF CoreInv, ProgressInv, ModeInv
<1>5. Done(n) BY <1>1 DEF Return
<1>6. Floor(n)' = handled[n] + 1 /\ todo'[n] # "sync" BY <1>5, DoneFloor DEF CoreInv, Inv
<1>7. \A m \in Names : m # n => Still(m) BY <1>1, <1>5 DEF Done, Still, CoreInv, Inv, PositionInv
<1>8. /\ \A m \in Names : m # n => call'[m] = call[m]
      /\ \A s \in Subnets : call'[n].ips[s] = None
  BY <1>1 DEF Return, CoreInv, Inv, CallInv, IdleCall, NoIPs
<1>9. \A m \in Names : todo'[m] # "sync" BY <1>4, <1>6, <1>7 DEF Still
<1>10. \A s \in Subnets : call[n].ips[s] # None
  <2>1. call[n].ips \in [Subnets -> Offset] BY <1>1 DEF Sound, CoreInv, Inv, CallInv, CallOK
  <2> QED BY <2>1, NoneIsNil
<1>11. Onward
  <2>1. Grown BY <1>1, Appended DEF Grown, CoreInv, Inv
  <2>2. \A m \in Names : cached[m] <= cached'[m] BY <1>1 DEF CoreInv, Inv, PositionInv
  <2> QED BY <1>1, <2>1, <2>2 DEF Onward
\* An owner is an old one, or the pod with the IPs of the call.
<1>12. ASSUME NEW m \in Names, NEW w \in DOMAIN log'[m], Owns(m, w)'
       PROVE  \/ w \in DOMAIN log[m] /\ Owns(m, w) /\ log'[m][w] = log[m][w]
              \/ m = n /\ log'[m][w] = pod
  <2>1. CASE m # n BY <1>3, <1>7, <1>11, <1>12, <2>1, StillOwners
  <2>2. CASE m = n /\ w \in 1 .. k
    <3>1. Holds(n, w)' BY <1>12, <2>2 DEF Owns
    <3>2. log'[n][w] = log[n][w] /\ w \in DOMAIN log[n] BY <1>3, <2>2
    <3>3. handled[n] + 1 <= w /\ handled[n] \in Nat /\ w \in Nat
      BY <1>6, <2>2, <3>1, Positions DEF Holds, CoreInv
    <3>4. Floor(n) <= w BY <3>3 DEF Floor
    <3>5. Holds(n, w) BY <1>1, <3>1, <3>2, <3>4 DEF Holds
    <3> QED BY <1>4, <2>2, <3>2, <3>5 DEF Owns
  <2>3. CASE m = n /\ w = k + 1 BY <1>3, <2>3
  <2>4. m = n => w \in 1 .. k \/ w = k + 1 BY <1>3
  <2> QED BY <2>1, <2>2, <2>3, <2>4
<1>13. ASSUME NEW s \in Subnets
       PROVE  /\ call[n].ips[s] \in ipams[s].allocated \ Excluded[s]
              /\ \A m \in Names : m # n => call[m].ips[s] # call[n].ips[s]
              /\ \A m \in Names : \A w \in DOMAIN log[m] : Owns(m, w) => IPOf(m, w, s) # call[n].ips[s]
  BY <1>4, <1>10 DEF ApartInv, CallIPsInv
<1>14. ASSUME NEW l \in Names, NEW m \in Names, NEW v \in DOMAIN log'[l], NEW w \in DOMAIN log'[m],
              Owns(l, v)', Owns(m, w)', <<l, log'[l][v].uid>> # <<m, log'[m][w].uid>>, NEW s \in Subnets
       PROVE  IPOf(l, v, s)' # IPOf(m, w, s)'
  <2>1. CASE l = n /\ log'[l][v] = pod /\ m = n /\ log'[m][w] = pod BY <1>14, <2>1
  <2>2. CASE l = n /\ log'[l][v] = pod /\ w \in DOMAIN log[m] /\ Owns(m, w) /\ log'[m][w] = log[m][w]
    <3>1. IPOf(l, v, s)' = call[n].ips[s] /\ IPOf(m, w, s)' = IPOf(m, w, s) BY <1>1, <2>2 DEF IPOf
    <3> QED BY <1>13, <2>2, <3>1
  <2>3. CASE v \in DOMAIN log[l] /\ Owns(l, v) /\ log'[l][v] = log[l][v] /\ m = n /\ log'[m][w] = pod
    <3>1. IPOf(m, w, s)' = call[n].ips[s] /\ IPOf(l, v, s)' = IPOf(l, v, s) BY <1>1, <2>3 DEF IPOf
    <3> QED BY <1>13, <2>3, <3>1
  <2>4. CASE /\ v \in DOMAIN log[l] /\ Owns(l, v) /\ log'[l][v] = log[l][v]
             /\ w \in DOMAIN log[m] /\ Owns(m, w) /\ log'[m][w] = log[m][w]
    <3>1. IPOf(m, w, s)' = IPOf(m, w, s) /\ IPOf(l, v, s)' = IPOf(l, v, s) BY <2>4 DEF IPOf
    <3>2. <<l, log[l][v].uid>> # <<m, log[m][w].uid>> BY <1>14, <2>4
    <3> QED BY <2>4, <3>1, <3>2 DEF ApartInv, OwnersInv
  <2>5. \/ v \in DOMAIN log[l] /\ Owns(l, v) /\ log'[l][v] = log[l][v]
        \/ l = n /\ log'[l][v] = pod
    BY <1>12, <1>14
  <2>6. \/ w \in DOMAIN log[m] /\ Owns(m, w) /\ log'[m][w] = log[m][w]
        \/ m = n /\ log'[m][w] = pod
    BY <1>12, <1>14
  <2> QED BY <2>1, <2>2, <2>3, <2>4, <2>5, <2>6
<1>15. ASSUME NEW m \in Names, NEW w \in DOMAIN log'[m], Owns(m, w)', NEW s \in Subnets
       PROVE  IPOf(m, w, s)' \in ipams'[s].allocated \ Excluded[s]
  <2>1. CASE m = n /\ log'[m][w] = pod
    <3>1. IPOf(m, w, s)' = call[n].ips[s] BY <1>1, <2>1 DEF IPOf
    <3> QED BY <1>1, <1>13, <3>1
  <2>2. CASE w \in DOMAIN log[m] /\ Owns(m, w) /\ log'[m][w] = log[m][w]
    <3>1. IPOf(m, w, s)' = IPOf(m, w, s) BY <2>2 DEF IPOf
    <3>2. IPOf(m, w, s) \in ipams[s].allocated \ Excluded[s] BY <1>4, <2>2 DEF ApartInv, OwnersInv
    <3> QED BY <1>1, <3>1, <3>2
  <2> QED BY <1>12, <1>15, <2>1, <2>2
<1>16. \A s \in Subnets : Excluded[s] \subseteq ipams'[s].allocated BY <1>1 DEF ApartInv, OwnersInv
<1>17. OwnersInv' BY <1>14, <1>15, <1>16 DEF OwnersInv
<1>18. ASSUME NEW m \in Names, NEW s \in Subnets, call'[m].ips[s] # None
       PROVE  /\ call'[m].ips[s] \in ipams'[s].allocated \ Excluded[s]
              /\ \A l \in Names : l # m => call'[l].ips[s] # call'[m].ips[s]
              /\ \A l \in Names : \A w \in DOMAIN log'[l] : Owns(l, w)' => IPOf(l, w, s)' # call'[m].ips[s]
  <2>1. m # n /\ call'[m] = call[m] BY <1>8, <1>18
  <2>2. /\ call[m].ips[s] \in ipams[s].allocated \ Excluded[s]
        /\ \A l \in Names : l # m => call[l].ips[s] # call[m].ips[s]
        /\ \A l \in Names : \A w \in DOMAIN log[l] : Owns(l, w) => IPOf(l, w, s) # call[m].ips[s]
    BY <1>4, <1>18, <2>1 DEF ApartInv, CallIPsInv
  <2>3. ASSUME NEW l \in Names, l # m PROVE call'[l].ips[s] # call'[m].ips[s]
    <3>1. CASE l = n BY <1>8, <1>18, <3>1
    <3>2. CASE l # n BY <1>8, <2>1, <2>2, <2>3, <3>2
    <3> QED BY <3>1, <3>2
  <2>4. ASSUME NEW l \in Names, NEW w \in DOMAIN log'[l], Owns(l, w)'
        PROVE  IPOf(l, w, s)' # call'[m].ips[s]
    <3>1. CASE l = n /\ log'[l][w] = pod
      <4>1. IPOf(l, w, s)' = call[n].ips[s] BY <1>1, <3>1 DEF IPOf
      <4> QED BY <1>13, <2>1, <4>1
    <3>2. CASE w \in DOMAIN log[l] /\ Owns(l, w) /\ log'[l][w] = log[l][w]
      <4>1. IPOf(l, w, s)' = IPOf(l, w, s) BY <3>2 DEF IPOf
      <4> QED BY <2>1, <2>2, <3>2, <4>1
    <3> QED BY <1>12, <2>4, <3>1, <3>2
  <2> QED BY <1>1, <2>1, <2>2, <2>3, <2>4
<1>19. CallIPsInv' BY <1>18 DEF CallIPsInv
<1>20. SyncInv' BY <1>9 DEF SyncInv
<1> QED BY <1>17, <1>19, <1>20 DEF ApartInv

\* A running annotated pod is an owner.
LEMMA LatestOwned ==
    ASSUME CoreInv, SyncInv, NEW n \in Annotated
    PROVE  Len(log[n]) \in DOMAIN log[n] /\ Owns(n, Len(log[n])) /\ Latest(n) = log[n][Len(log[n])]
<1>1. /\ n \in Names /\ Latest(n) # None /\ Latest(n).phase # "completed"
      /\ Latest(n).annotation # None
  BY DEF Annotated
<1>2. PICK k : k = Len(log[n]) OBVIOUS
<1>3. k \in DOMAIN log[n] /\ Latest(n) = log[n][k] BY <1>1, <1>2, LatestVersion DEF CoreInv, Inv
<1>4. PICK h : h = handled[n] OBVIOUS
<1>5. k \in Nat /\ h \in Nat /\ h <= k /\ (todo[n] # "none" => h + 1 <= k)
  <2>1. h \in Nat /\ cached[n] \in Nat /\ k \in Nat /\ h <= cached[n] /\ cached[n] <= k
    BY <1>1, <1>2, <1>4, Positions DEF CoreInv
  <2>2. todo[n] # "none" => h < cached[n] BY <1>1, <1>4 DEF CoreInv, ProgressInv, HandledOK
  <2> QED BY <2>1, <2>2
<1>6. Floor(n) <= k BY <1>4, <1>5 DEF Floor
<1>7. <<n, log[n][k].uid>> \notin releasedPods
  <2>1. SUFFICES ASSUME <<n, log[n][k].uid>> \in releasedPods PROVE FALSE OBVIOUS
  <2>2. PICK v \in DOMAIN log[n] : /\ log[n][v] # None /\ log[n][v].uid = log[n][k].uid
                                   /\ log[n][v].phase = "completed"
    BY <1>1, <2>1 DEF CoreInv, ProgressInv, ReleasedOK
  <2> QED BY <1>1, <1>3, <2>2, LatestCompleted DEF CoreInv, Inv
<1>8. todo[n] = "sync" => log[n][h + 1].phase # "completed"
  <2>1. SUFFICES ASSUME todo[n] = "sync", log[n][h + 1].phase = "completed" PROVE FALSE OBVIOUS
  <2>2. h < k BY <1>5, <2>1
  <2>3. log[n][k].uid = log[n][h + 1].uid BY <1>1, <1>3, <1>4, <2>1, <2>2 DEF SyncInv
  <2>4. h + 1 \in DOMAIN log[n] /\ log[n][h + 1] # None
    BY <1>1, <1>4, <2>1, Positions DEF CoreInv, ProgressInv, HandledOK
  <2> QED BY <1>1, <1>3, <2>1, <2>3, <2>4, LatestCompleted DEF CoreInv, Inv
<1>9. Owns(n, k) BY <1>1, <1>3, <1>4, <1>6, <1>7, <1>8 DEF Owns, Holds
<1> QED BY <1>2, <1>3, <1>9

\* After a restart the running annotated pods are the owners, and owned before.
LEMMA RestartApart == ASSUME CoreInv, ApartInv, Restart PROVE ApartInv'
<1>1. /\ restarts' # 0 /\ ipams' = NewIPAMs /\ releasedPods' = {}
      /\ UNCHANGED <<network, log, untimely, deviations>>
      /\ \A n \in Names :
             /\ call'[n] = IdleCall
             /\ cached'[n] = Len(log[n])
             /\ Latest(n) = None => handled'[n] = Len(log[n]) /\ todo'[n] = "none"
             /\ Latest(n) # None => handled'[n] = Len(log[n]) - 1 /\ todo'[n] = "sync"
             /\ Latest(n) # None => handled'[n] + 1 = Len(log[n]) /\ handled'[n] < cached'[n]
  BY RestartEffect DEF CoreInv
<1>2. ASSUME NEW m \in Names, NEW w \in DOMAIN log[m], Owns(m, w)'
      PROVE  Owns(m, w) /\ todo'[m] = "sync"
  <2>1. /\ Floor(m)' <= w /\ log[m][w] # None /\ log[m][w].annotation # None
        /\ todo'[m] = "sync" => log[m][handled'[m] + 1].phase # "completed"
    BY <1>1, <1>2 DEF Owns, Holds
  <2>2. PICK k : k = Len(log[m]) OBVIOUS
  <2>3. k \in Nat /\ w \in 1 .. k BY <2>2, Positions DEF CoreInv
  <2>4. Floor(m)' = k BY <1>1, <2>2 DEF Floor
  <2>5. w = k BY <2>1, <2>3, <2>4
  <2>6. Latest(m) = log[m][w] BY <2>2, <2>3, <2>5 DEF Latest, At
  <2>7. todo'[m] = "sync" /\ handled'[m] + 1 = w BY <1>1, <2>1, <2>2, <2>5, <2>6
  <2>8. m \in Annotated BY <2>1, <2>6, <2>7 DEF Annotated
  <2> QED BY <2>2, <2>5, <2>7, <2>8, LatestOwned DEF ApartInv
<1>3. NoNewOwner BY <1>1, <1>2, OwnedItself DEF NoNewOwner
<1>4. \A s \in Subnets : Excluded[s] \subseteq ipams'[s].allocated BY <1>1 DEF NewIPAMs, NewBitmap
<1>5. OwnersInv' BY <1>1, <1>2, <1>3, <1>4, OwnersStay DEF ApartInv
<1>6. \A n \in Names : \A s \in Subnets : call'[n].ips[s] = None BY <1>1 DEF IdleCall, NoIPs
<1>7. CallIPsInv' BY <1>6 DEF CallIPsInv
<1>8. ASSUME NEW n \in Names, todo'[n] = "sync",
             NEW v \in DOMAIN log[n], handled'[n] < v, log[n][v] # None, log[n][v].annotation # None
      PROVE  v = handled'[n] + 1
  <2>1. Latest(n) # None BY <1>1, <1>8
  <2>2. PICK k : k = Len(log[n]) OBVIOUS
  <2>3. k \in Nat /\ v \in 1 .. k /\ handled'[n] = k - 1 BY <1>1, <2>1, <2>2, Positions DEF CoreInv
  <2> QED BY <1>8, <2>3
<1>9. SyncInv'
  <2>1. \A n \in Names : call'[n].stage = "idle" BY <1>1 DEF IdleCall
  <2> QED BY <1>1, <1>8, <2>1 DEF SyncInv
<1> QED BY <1>5, <1>7, <1>9 DEF ApartInv

\* At the start there is no owner.
LEMMA InitApart == ASSUME Init PROVE ApartInv
<1>1. \A n \in Names : log[n] = <<>> /\ todo[n] = "none" /\ call[n] = IdleCall BY DEF Init, NoCalls
<1>2. \A n \in Names : DOMAIN log[n] = {} BY <1>1
<1>3. \A n \in Names : \A s \in Subnets : call[n].ips[s] = None BY <1>1 DEF IdleCall, NoIPs
<1>4. \A s \in Subnets : Excluded[s] \subseteq ipams[s].allocated BY DEF Init, NewIPAMs, NewBitmap
<1> QED BY <1>1, <1>2, <1>3, <1>4 DEF ApartInv, OwnersInv, CallIPsInv, SyncInv

\* A pod created, changed or deleted by others.
LEMMA ChangesApart ==
    ASSUME CoreInv, CoreInv', ApartInv, NEW n \in Names,
           CreatePod(n) \/ UpdatePod(n) \/ CompletePod(n) \/ DeletePod(n)
    PROVE  ApartInv'
<1>1. CASE CreatePod(n)
  <2>1. PICK p \in {"unscheduled", "scheduled"} :
            Change(n, [uid |-> Created(n) + 1, phase |-> p, annotation |-> None])
    BY <1>1 DEF CreatePod
  <2>2. PICK pod : pod = [uid |-> Created(n) + 1, phase |-> p, annotation |-> None] OBVIOUS
  <2>3. Created(n) + 1 \in 1 .. MaxPods
    BY <1>1, CreatedIsNat, BoundsAreNat DEF CreatePod, CoreInv, Inv
  <2>4. pod \in Pod /\ pod.annotation = None BY <2>2, <2>3 DEF Pod, Phase
  <2>5. Change(n, pod) BY <2>1, <2>2
  <2> QED BY <2>4, <2>5, ChangeApart
<1>2. ASSUME NEW p \in {"scheduled", "completed"}, Latest(n) # None,
             Change(n, [Latest(n) EXCEPT !.phase = p])
      PROVE  ApartInv'
  <2>1. Latest(n) \in Pod BY <1>2, LatestType DEF CoreInv, Inv
  <2>2. PICK pod : pod = [Latest(n) EXCEPT !.phase = p] OBVIOUS
  <2>3. pod \in Pod /\ pod.annotation = Latest(n).annotation /\ pod.uid = Latest(n).uid
    BY <2>1, <2>2 DEF Pod, Phase
  <2>4. Change(n, pod) BY <1>2, <2>2
  <2> QED BY <1>2, <2>3, <2>4, ChangeApart
<1>3. CASE UpdatePod(n) BY <1>2, <1>3 DEF UpdatePod
<1>4. CASE CompletePod(n) BY <1>2, <1>4 DEF CompletePod
<1>5. CASE DeletePod(n)
  <2>1. None \in Pod \cup {None} /\ Change(n, None) BY <1>5 DEF DeletePod
  <2> QED BY <2>1, ChangeApart
<1> QED BY <1>1, <1>3, <1>4, <1>5

\* What has happened is never forgotten.
LEMMA HistoryGrows ==
    ASSUME CoreInv, [Next]_vars
    PROVE  /\ network' = network /\ untimely \subseteq untimely' /\ deviations \subseteq deviations'
           /\ restarts' = restarts \/ restarts' # 0
<1> DEFINE Goal == /\ network' = network /\ untimely \subseteq untimely' /\ deviations \subseteq deviations'
                   /\ restarts' = restarts \/ restarts' # 0
<1>1. ASSUME NEW n \in Names, CreatePod(n) \/ UpdatePod(n) \/ CompletePod(n) \/ DeletePod(n) PROVE Goal
  BY <1>1 DEF CreatePod, UpdatePod, CompletePod, DeletePod, Change, history
<1>2. ASSUME NEW n \in Names, Watch(n) \/ Ignore(n) \/ ReleasePodOnNAD(n) \/ AllocatePodOnNAD(n) PROVE Goal
  BY <1>2 DEF Watch, Ignore, ReleasePodOnNAD, AllocatePodOnNAD, bounds, history
<1>3. ASSUME NEW n \in Names, GetFails(n) \/ AssignID(n) \/ AssignIDFails(n) PROVE Goal
  BY <1>3 DEF GetFails, AssignID, AssignIDFails, Note, bounds, history
<1>4. ASSUME NEW n \in Names, NEW s \in Subnets,
             AllocateIP(n, s) \/ ErrAllocated(n, s) \/ AllocateNextIP(n, s) \/ ErrFull(n, s)
      PROVE  Goal
  BY <1>4 DEF AllocateIP, ErrAllocated, AllocateNextIP, ErrFull, Note, bounds, history
<1>5. ASSUME NEW n \in Names, UpdatePodStatus(n) \/ UpdateRefused(n) \/ Rollback(n) \/ UpdateFails(n)
                                      \/ ReplyLost(n)
      PROVE  Goal
  BY <1>5 DEF UpdatePodStatus, UpdateRefused, Rollback, UpdateFails, ReplyLost, Store, Note, bounds, history
<1>6. ASSUME Restart PROVE Goal BY <1>6, RestartEffect DEF CoreInv
<1>7. ASSUME UNCHANGED vars PROVE Goal BY <1>7 DEF vars, bounds, history
<1> QED BY <1>1, <1>2, <1>3, <1>4, <1>5, <1>6, <1>7 DEF Next, Handle

\* Every step keeps the owners of IPs apart.
LEMMA NextApart == ASSUME CoreInv, UniqueInv, [Next]_vars PROVE UniqueInv'
<1> SUFFICES ASSUME Sound' PROVE ApartInv' BY DEF UniqueInv, ApartInv
<1>1. Sound BY HistoryGrows, SoundBefore
<1>2. ApartInv BY <1>1 DEF UniqueInv, ApartInv
<1>3. CoreInv' BY NextCore
<1>4. ASSUME NEW n \in Names, CreatePod(n) \/ UpdatePod(n) \/ CompletePod(n) \/ DeletePod(n)
      PROVE  ApartInv'
  BY <1>2, <1>3, <1>4, ChangesApart
<1>5. ASSUME NEW n \in Names, Watch(n) PROVE ApartInv' BY <1>2, <1>5, WatchApart
<1>6. ASSUME NEW n \in Names, Handle(n) PROVE ApartInv'
  <2>1. CASE \E s \in Subnets : \/ AllocateIP(n, s) \/ ErrAllocated(n, s)
                                \/ AllocateNextIP(n, s) \/ ErrFull(n, s)
    BY <1>1, <1>2, <2>1, AllocateIPApart, ErrAllocatedApart, AllocateNextIPApart, ErrFullApart
  <2>2. CASE Ignore(n) \/ ReleasePodOnNAD(n) \/ AllocatePodOnNAD(n)
    BY <1>1, <1>2, <2>2, IgnoreApart, ReleasePodApart, AllocatePodApart
  <2>3. CASE GetFails(n) \/ AssignID(n) \/ AssignIDFails(n)
    BY <1>2, <1>3, <2>3, GetFailsApart, AssignIDApart, AssignIDFailsApart
  <2>4. CASE UpdatePodStatus(n) \/ UpdateRefused(n) \/ Rollback(n)
    BY <1>1, <1>2, <2>4, UpdatePodStatusApart, UpdateRefusedApart, RollbackApart
  <2> QED BY <1>6, <2>1, <2>2, <2>3, <2>4 DEF Handle
<1>7. ASSUME NEW n \in Names, UpdateFails(n) \/ ReplyLost(n) PROVE ApartInv'
  <2>1. CASE UpdateFails(n) BY <1>2, <2>1, UpdateFailsApart
  <2>2. ~ReplyLost(n) BY DEF ReplyLost, Sound
  <2> QED BY <1>7, <2>1, <2>2
<1>8. ASSUME Restart PROVE ApartInv' BY <1>2, <1>8, RestartApart
<1>9. ASSUME UNCHANGED vars PROVE ApartInv'
  <2>1. UNCHANGED <<log, cached, handled, todo, releasedPods, call, ipams, restarts, untimely>>
    BY <1>9 DEF vars, allocators, bounds, history
  <2>2. \A m \in Names : cached[m] <= cached'[m] BY <2>1 DEF CoreInv, Inv, PositionInv
  <2>3. Onward BY <2>1, <2>2, SameIsGrown DEF Onward, CoreInv, Inv
  <2> QED BY <1>2, <2>1, <2>3, ApartRests
<1> QED BY <1>4, <1>5, <1>6, <1>7, <1>8, <1>9 DEF Next

\* Owners that are apart have different IPs.
LEMMA ApartImpliesUnique == CoreInv /\ UniqueInv => UniqueIPs
<1> SUFFICES ASSUME CoreInv, UniqueInv, "reply lost" \notin deviations, restarts = 0 \/ Recoverable,
                    NEW n \in Annotated, NEW m \in Annotated, n # m, network.ipam, NEW s \in Subnets
             PROVE  Latest(n).annotation.ips[s] # Latest(m).annotation.ips[s]
  BY DEF UniqueIPs, SharesIP
<1>1. ApartInv BY DEF UniqueInv, ApartInv, Sound
<1>2. PICK v : v = Len(log[n]) OBVIOUS
<1>3. PICK w : w = Len(log[m]) OBVIOUS
<1>4. n \in Names /\ v \in DOMAIN log[n] /\ Owns(n, v) /\ Latest(n) = log[n][v]
  BY <1>1, <1>2, LatestOwned DEF ApartInv, Annotated
<1>5. m \in Names /\ w \in DOMAIN log[m] /\ Owns(m, w) /\ Latest(m) = log[m][w]
  BY <1>1, <1>3, LatestOwned DEF ApartInv, Annotated
<1>6. <<n, log[n][v].uid>> # <<m, log[m][w].uid>> OBVIOUS
<1>7. IPOf(n, v, s) # IPOf(m, w, s) BY <1>1, <1>4, <1>5, <1>6 DEF ApartInv, OwnersInv
<1> QED BY <1>4, <1>5, <1>7 DEF IPOf

\* No two running pods have an IP in common, for any number of names, pods,
\* subnets, IPs, failures and restarts, as long as no update that the API server
\* has stored is taken for failed and rolled back: with no restart whatever else
\* happens, and after one unless Sync handed out an IP or missed one, a tunnel ID
\* was found taken, or a pod was annotated out of turn.
THEOREM Uniqueness == Spec => []UniqueIPs
<1>1. Init => UniqueInv BY InitApart DEF UniqueInv, ApartInv
<1>2. CoreInv /\ UniqueInv /\ [Next]_vars => UniqueInv' BY NextApart
<1>3. Spec => []UniqueInv BY <1>1, <1>2, Accounting, PTL DEF Spec
<1> QED BY <1>3, Accounting, ApartImpliesUnique, PTL
=============================================================================
