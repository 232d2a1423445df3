------------------------ MODULE NodeAllocatorProofs ------------------------
(***************************************************************************)
(* Proofs about the allocation of subnets and IDs to nodes, for any number *)
(* of nodes, networks, ranges, subnets and IDs, any scenario and any bound.*)
(***************************************************************************)
EXTENDS NodeAllocator, BitmapProofs, FiniteSetTheorems

-----------------------------------------------------------------------------
(***************************************************************************)
(* The subnet allocators                                                   *)
(***************************************************************************)

\* The subnets of a range are as many as its size says, so there are finitely
\* many in all.
LEMMA SubnetFinite == IsFiniteSet(Subnet)
<1> DEFINE of(r) == [range : {r}, index : 0 .. Size[r] - 1]
           All == {of(r) : r \in Ranges}
<1>1. ASSUME NEW r \in Ranges PROVE IsFiniteSet(of(r))
  <2> DEFINE I == 0 .. Size[r] - 1
             f == [i \in I |-> [range |-> r, index |-> i]]
  <2>1. Size[r] \in Int BY ConstantsTyped
  <2>2. IsFiniteSet(I) BY <2>1, FS_Interval
  <2>3. f \in Surjection(I, of(r))
    <3>1. of(r) = [range : {r}, index : I] OBVIOUS
    <3> HIDE DEF I
    <3>2. \A i \in I : f[i] \in [range : {r}, index : I] OBVIOUS
    <3>3. f \in [I -> [range : {r}, index : I]] BY <3>2
    <3>4. ASSUME NEW t \in [range : {r}, index : I] PROVE \E i \in I : f[i] = t
      <4>1. t.index \in I /\ t = [range |-> r, index |-> t.index] OBVIOUS
      <4> QED BY <4>1
    <3> HIDE DEF f, of
    <3> QED BY <3>1, <3>3, <3>4 DEF Surjection
  <2> HIDE DEF I, f
  <2> QED BY <2>2, <2>3, FS_Surjection
<1>2. IsFiniteSet(All)
  <2> DEFINE f == [r \in Ranges |-> of(r)]
  <2>1. f \in Surjection(Ranges, All) BY DEF Surjection
  <2> HIDE DEF f, All
  <2> QED BY <2>1, SetsFinite, FS_Surjection
<1>3. \A T \in All : IsFiniteSet(T) BY <1>1
<1>4. Subnet = UNION All BY DEF Subnet
<1> HIDE DEF All
<1> QED BY <1>2, <1>3, <1>4, FS_UNION

\* What is known of a subnet.
LEMMA SubnetType ==
    ASSUME NEW s \in Subnet
    PROVE  s.range \in Ranges /\ s.index \in Nat /\ s.index + 1 \in Nat /\ s.index + 1 <= Size[s.range]
<1>1. PICK r \in Ranges : s \in [range : {r}, index : 0 .. Size[r] - 1] BY DEF Subnet
<1>2. s.range = r /\ s.index \in 0 .. Size[r] - 1 BY <1>1
<1>3. Size[r] \in Nat BY ConstantsTyped
<1> QED BY <1>2, <1>3

\* What a subnet allocator has to keep.
PoolInv(pl) ==
    /\ pl \in SubnetAllocator
    /\ \A r \in Ranges : pl.next[r] <= Size[r]
    /\ UsedIsExact(pl)

\* The fields of an allocator.
LEMMA PoolFields ==
    ASSUME NEW pl \in SubnetAllocator
    PROVE  /\ pl = [alloc |-> pl.alloc, next |-> pl.next, used |-> pl.used]
           /\ pl.alloc \in [Subnet -> Nodes \cup {None}]
           /\ pl.next \in [Ranges -> Nat] /\ pl.used \in [Ranges -> Nat]
  BY DEF SubnetAllocator

\* The subnets of a range that are in use are finitely many.
LEMMA InUseFinite ==
    ASSUME NEW pl, NEW r
    PROVE  IsFiniteSet(InUse(pl, r)) /\ Cardinality(InUse(pl, r)) \in Nat
<1>1. InUse(pl, r) \in SUBSET Subnet BY DEF InUse
<1>2. IsFiniteSet(InUse(pl, r)) BY <1>1, SubnetFinite, FS_Subset
<1> QED BY <1>2, FS_CardinalityType

\* A new allocator has nothing in use.
LEMMA NewPoolOK == PoolInv(NewPool)
<1>1. NewPool \in SubnetAllocator BY DEF NewPool, SubnetAllocator
<1>2. \A r \in Ranges : NewPool.next[r] <= Size[r] BY ConstantsTyped DEF NewPool
<1>3. ASSUME NEW r \in Ranges PROVE NewPool.used[r] = Cardinality(InUse(NewPool, r))
  <2>1. InUse(NewPool, r) = {} BY DEF InUse, NewPool
  <2>2. NewPool.used[r] = 0 BY DEF NewPool
  <2> QED BY <2>1, <2>2, FS_EmptySet
<1> QED BY <1>1, <1>2, <1>3 DEF PoolInv, UsedIsExact

\* MarkAllocatedNetworks counts the subnets that were free.
LEMMA MarkKeeps ==
    ASSUME NEW pl, PoolInv(pl), NEW n \in Nodes, NEW nets \in SUBSET Subnet
    PROVE  /\ PoolInv(MarkNetworks(pl, n, nets))
           /\ MarkNetworks(pl, n, nets).next = pl.next
<1> DEFINE new == MarkNetworks(pl, n, nets)
           fresh(r) == {s \in nets : s.range = r /\ pl.alloc[s] = None}
<1>1. /\ pl = [alloc |-> pl.alloc, next |-> pl.next, used |-> pl.used]
      /\ pl.alloc \in [Subnet -> Nodes \cup {None}]
      /\ pl.next \in [Ranges -> Nat] /\ pl.used \in [Ranges -> Nat]
  BY PoolFields DEF PoolInv
<1>2. /\ new.alloc = [s \in Subnet |-> IF s \in nets THEN n ELSE pl.alloc[s]]
      /\ new.next = pl.next
      /\ new.used = [r \in Ranges |-> pl.used[r] + Cardinality(fresh(r))]
      /\ new = [alloc |-> new.alloc, next |-> new.next, used |-> new.used]
  <2> HIDE DEF fresh
  <2>1. new = [pl EXCEPT !.alloc = [s \in Subnet |-> IF s \in nets THEN n ELSE @[s]],
                         !.used = [r \in Ranges |-> @[r] + Cardinality(fresh(r))]]
    BY DEF MarkNetworks, fresh
  <2> HIDE DEF new
  <2> QED BY <1>1, <2>1
<1>3. ASSUME NEW r \in Ranges
      PROVE  /\ Cardinality(fresh(r)) \in Nat
             /\ Cardinality(InUse(new, r)) = pl.used[r] + Cardinality(fresh(r))
  <2>1. fresh(r) \in SUBSET Subnet OBVIOUS
  <2>2. IsFiniteSet(fresh(r)) /\ Cardinality(fresh(r)) \in Nat
    BY <2>1, SubnetFinite, FS_Subset, FS_CardinalityType
  <2>3. IsFiniteSet(InUse(pl, r)) /\ Cardinality(InUse(pl, r)) \in Nat BY InUseFinite
  <2>4. n # None BY ConstantsTyped
  <2>5. InUse(new, r) = InUse(pl, r) \cup fresh(r) BY <1>2, <2>4 DEF InUse
  <2>6. InUse(pl, r) \cap fresh(r) = {} BY DEF InUse
  <2>7. pl.used[r] = Cardinality(InUse(pl, r)) BY DEF PoolInv, UsedIsExact
  <2> HIDE DEF new, fresh
  <2>8. Cardinality(InUse(new, r))
            = Cardinality(InUse(pl, r)) + Cardinality(fresh(r)) - Cardinality(InUse(pl, r) \cap fresh(r))
    BY <2>2, <2>3, <2>5, FS_Union
  <2>9. Cardinality(InUse(pl, r) \cap fresh(r)) = 0 BY <2>6, FS_EmptySet
  <2> QED BY <2>2, <2>3, <2>7, <2>8, <2>9
<1> HIDE DEF new, fresh
<1>4. new.used \in [Ranges -> Nat] BY <1>1, <1>2, <1>3
<1>5. new.alloc \in [Subnet -> Nodes \cup {None}] BY <1>1, <1>2
<1>6. new \in SubnetAllocator BY <1>1, <1>2, <1>4, <1>5 DEF SubnetAllocator
<1>7. UsedIsExact(new) BY <1>2, <1>3 DEF UsedIsExact
<1>8. PoolInv(new) BY <1>2, <1>6, <1>7 DEF PoolInv
<1> QED BY <1>2, <1>8 DEF new

\* ReleaseNetworks counts down as many subnets as it frees, so that the unsigned
\* counter cannot wrap round.
LEMMA ReleaseKeeps ==
    ASSUME NEW pl, PoolInv(pl), NEW p, NEW n \in Nodes, NEW nets \in SUBSET Subnet
    PROVE  PoolInv(ReleaseNetworks(pl, p, n, nets))
<1> DEFINE new == ReleaseNetworks(pl, p, n, nets)
           gone == {s \in nets : InPool(p, s) /\ pl.alloc[s] = n}
           less(r) == {s \in gone : s.range = r}
<1>1. /\ pl = [alloc |-> pl.alloc, next |-> pl.next, used |-> pl.used]
      /\ pl.alloc \in [Subnet -> Nodes \cup {None}]
      /\ pl.next \in [Ranges -> Nat] /\ pl.used \in [Ranges -> Nat]
  BY PoolFields DEF PoolInv
<1>2. /\ new.alloc = [s \in Subnet |-> IF s \in gone THEN None ELSE pl.alloc[s]]
      /\ new.next = pl.next
      /\ new.used = [r \in Ranges |-> pl.used[r] - Cardinality(less(r))]
      /\ new = [alloc |-> new.alloc, next |-> new.next, used |-> new.used]
  <2> HIDE DEF less
  <2>1. new = [pl EXCEPT !.alloc = [s \in Subnet |-> IF s \in gone THEN None ELSE @[s]],
                         !.used = [r \in Ranges |-> @[r] - Cardinality(less(r))]]
    BY DEF ReleaseNetworks, less
  <2> HIDE DEF new, gone
  <2> QED BY <1>1, <2>1
<1>3. ASSUME NEW r \in Ranges
      PROVE  /\ pl.used[r] - Cardinality(less(r)) \in Nat
             /\ Cardinality(InUse(new, r)) = pl.used[r] - Cardinality(less(r))
  <2>1. n # None BY ConstantsTyped
  <2>2. less(r) \in SUBSET InUse(pl, r) BY <2>1 DEF InUse
  <2>3. IsFiniteSet(InUse(pl, r)) /\ Cardinality(InUse(pl, r)) \in Nat BY InUseFinite
  <2>4. InUse(new, r) = InUse(pl, r) \ less(r) BY <1>2 DEF InUse
  <2>5. InUse(pl, r) \cap less(r) = less(r) BY <2>2
  <2>6. pl.used[r] = Cardinality(InUse(pl, r)) BY DEF PoolInv, UsedIsExact
  <2> HIDE DEF new, less, gone
  <2>7. IsFiniteSet(less(r)) /\ Cardinality(less(r)) \in Nat /\ Cardinality(less(r)) <= Cardinality(InUse(pl, r))
    BY <2>2, <2>3, FS_Subset, FS_CardinalityType
  <2>8. Cardinality(InUse(new, r)) = Cardinality(InUse(pl, r)) - Cardinality(less(r))
    BY <2>3, <2>4, <2>5, FS_Difference
  <2> QED BY <2>3, <2>6, <2>7, <2>8
<1> HIDE DEF new, less, gone
<1>4. new.used \in [Ranges -> Nat] BY <1>1, <1>2, <1>3
<1>5. new.alloc \in [Subnet -> Nodes \cup {None}] BY <1>1, <1>2
<1>6. new \in SubnetAllocator BY <1>1, <1>2, <1>4, <1>5 DEF SubnetAllocator
<1>7. UsedIsExact(new) BY <1>2, <1>3 DEF UsedIsExact
<1>8. PoolInv(new) BY <1>2, <1>6, <1>7 DEF PoolInv
<1> QED BY <1>8 DEF new

\* releaseAllNetworks, of a deleted node or after a failed patch.
LEMMA ReleaseAllKeeps ==
    ASSUME NEW pl, PoolInv(pl), NEW p, NEW n \in Nodes
    PROVE  PoolInv(ReleaseAllNetworks(pl, p, n))
  BY ReleaseKeeps DEF ReleaseAllNetworks

\* Moving the start of searches within the ranges changes nothing else.
LEMMA NextMoves ==
    ASSUME NEW pl, PoolInv(pl), NEW next \in [Ranges -> Nat], \A r \in Ranges : next[r] <= Size[r]
    PROVE  PoolInv([pl EXCEPT !.next = next])
<1> DEFINE new == [pl EXCEPT !.next = next]
<1>1. /\ pl = [alloc |-> pl.alloc, next |-> pl.next, used |-> pl.used]
      /\ pl.alloc \in [Subnet -> Nodes \cup {None}]
      /\ pl.next \in [Ranges -> Nat] /\ pl.used \in [Ranges -> Nat]
  BY PoolFields DEF PoolInv
<1>2. /\ new.alloc = pl.alloc /\ new.next = next /\ new.used = pl.used
      /\ new = [alloc |-> new.alloc, next |-> new.next, used |-> new.used]
  BY <1>1
<1> HIDE DEF new
<1>3. new \in SubnetAllocator BY <1>1, <1>2 DEF SubnetAllocator
<1>4. \A r \in Ranges : InUse(new, r) = InUse(pl, r) BY <1>2 DEF InUse
<1>5. UsedIsExact(new) BY <1>2, <1>4 DEF UsedIsExact, PoolInv
<1>6. PoolInv(new) BY <1>2, <1>3, <1>5 DEF PoolInv
<1> QED BY <1>6 DEF new

\* allocateNetwork marks a subnet and starts the next search behind it.
LEMMA AllocateKeeps ==
    ASSUME NEW pl, PoolInv(pl), NEW ranges, NEW n \in Nodes, NEW s \in Subnet
    PROVE  PoolInv(AllocateNetwork(pl, ranges, n, s))
<1> DEFINE marked == MarkNetworks(pl, n, {s})
           full == {ranges[i] : i \in {j \in DOMAIN ranges : \A k \in 1 .. j : Free(pl, ranges[k]) = {}}}
           next == [r \in Ranges |-> IF r = s.range THEN s.index + 1 ELSE IF r \in full THEN 0 ELSE pl.next[r]]
<1>1. PoolInv(marked) /\ marked.next = pl.next BY MarkKeeps
<1>2. pl.next \in [Ranges -> Nat] /\ \A r \in Ranges : pl.next[r] <= Size[r] BY PoolFields DEF PoolInv
<1>3. \A r \in Ranges : 0 <= Size[r] BY ConstantsTyped
<1> HIDE DEF full
<1>4. next \in [Ranges -> Nat] /\ \A r \in Ranges : next[r] <= Size[r] BY <1>2, <1>3, SubnetType
<1>5. AllocateNetwork(pl, ranges, n, s) = [marked EXCEPT !.next = next]
  BY <1>1 DEF AllocateNetwork, full
<1> HIDE DEF next, marked
<1> QED BY <1>1, <1>4, <1>5, NextMoves

\* A search that finds all ranges full.
LEMMA FullKeeps ==
    ASSUME NEW pl, PoolInv(pl), NEW ranges
    PROVE  PoolInv(RangesFull(pl, ranges))
<1> DEFINE next == [r \in Ranges |-> IF r \in ToSet(ranges) THEN 0 ELSE pl.next[r]]
<1>1. pl.next \in [Ranges -> Nat] /\ \A r \in Ranges : pl.next[r] <= Size[r] BY PoolFields DEF PoolInv
<1>2. \A r \in Ranges : 0 <= Size[r] BY ConstantsTyped
<1>3. next \in [Ranges -> Nat] /\ \A r \in Ranges : next[r] <= Size[r] BY <1>1, <1>2
<1>4. RangesFull(pl, ranges) = [pl EXCEPT !.next = next] BY DEF RangesFull
<1> HIDE DEF next
<1> QED BY <1>3, <1>4, NextMoves

\* Sync of a node allocator.
LEMMA SyncNodeKeeps ==
    ASSUME NEW pl, PoolInv(pl), NEW c \in Nets, NEW n \in Nodes, NEW node \in NodeObject
    PROVE  PoolInv(SyncNode(pl, c, n, node))
<1>1. node.hybrid \in SUBSET Subnet /\ node.subnets[c] \in SUBSET Subnet BY DEF NodeObject
<1>2. PoolInv(ReleaseNetworks(pl, Hybrid, n, node.hybrid)) BY <1>1, ReleaseKeeps
<1>3. PoolInv(MarkNetworks(pl, n, node.subnets[c])) BY <1>1, MarkKeeps
<1>4. CASE node.noHostSubnet BY <1>2, <1>4 DEF SyncNode
<1>5. CASE ~node.noHostSubnet BY <1>3, <1>5 DEF SyncNode
<1> QED BY <1>4, <1>5

-----------------------------------------------------------------------------
(***************************************************************************)
(* The node ID allocator                                                   *)
(***************************************************************************)

IDAllocator == [map : AllocationBitmap(MaxID), of : [Nodes -> (0 .. MaxID - 1) \cup {None}]]

\* What the ID allocator has to keep.
IDInv(a) == a \in IDAllocator /\ IDsApart(a)

\* A new ID allocator has only the reserved IDs.
LEMMA NewIDsOK == IDInv(NewIDs)
<1>1. {0, 1} \subseteq 0 .. MaxID - 1 /\ 0 \in 0 .. MaxID - 1 BY ConstantsTyped
<1>2. NewBitmap({0, 1}) \in AllocationBitmap(MaxID) BY <1>1 DEF NewBitmap, AllocationBitmap
<1>3. NewIDs \in IDAllocator BY <1>2 DEF NewIDs, IDAllocator
<1>4. \A n \in Nodes : NewIDs.of[n] = None BY DEF NewIDs
<1>5. NewIDs.map.allocated = {0, 1} BY DEF NewIDs, NewBitmap
<1> QED BY <1>3, <1>4, <1>5 DEF IDInv, IDsApart

\* A free ID that is given to a node without one stays apart from the others.
LEMMA GiveID ==
    ASSUME NEW a, IDInv(a), NEW n \in Nodes, a.of[n] = None,
           NEW id \in 0 .. MaxID - 1, id \notin a.map.allocated,
           NEW map \in AllocationBitmap(MaxID), map.allocated = a.map.allocated \cup {id}
    PROVE  IDInv([map |-> map, of |-> [a.of EXCEPT ![n] = id]])
<1> DEFINE of == [a.of EXCEPT ![n] = id]
           b == [map |-> map, of |-> of]
<1>1. a.of \in [Nodes -> (0 .. MaxID - 1) \cup {None}] BY DEF IDInv, IDAllocator
<1>2. of \in [Nodes -> (0 .. MaxID - 1) \cup {None}] BY <1>1
<1>3. b \in IDAllocator BY <1>2 DEF IDAllocator
<1>4. id # None BY ConstantsTyped
<1>5. of[n] = id /\ \A m \in Nodes : m # n => of[m] = a.of[m] BY <1>1
<1>6. id \notin {0, 1} /\ \A m \in Nodes : a.of[m] # id
  BY <1>4 DEF IDInv, IDsApart
<1> HIDE DEF of
<1>7. map.allocated = {0, 1} \cup {of[m] : m \in {k \in Nodes : of[k] # None}}
  <2>1. a.map.allocated = {0, 1} \cup {a.of[m] : m \in {k \in Nodes : a.of[k] # None}} BY DEF IDInv, IDsApart
  <2>2. ASSUME NEW x PROVE x \in map.allocated <=> x \in {0, 1} \/ \E m \in Nodes : of[m] # None /\ x = of[m]
    BY <1>4, <1>5, <2>1
  <2> QED BY <2>2
<1>8. ASSUME NEW k \in Nodes, NEW m \in Nodes, of[m] # None
      PROVE  of[m] \notin {0, 1} /\ (of[k] = of[m] => k = m)
  BY <1>5, <1>6, <1>8 DEF IDInv, IDsApart
<1>9. IDInv(b) BY <1>3, <1>7, <1>8 DEF IDInv, IDsApart
<1> QED BY <1>9 DEF of

\* AllocateID: the node keeps its ID, or gets one that is free.
LEMMA AllocateIDKeeps ==
    ASSUME NEW a, IDInv(a), NEW n \in Nodes, CanAllocateID(a, n)
    PROVE  IDInv(AllocateID(a, n)) /\ AllocateID(a, n).of[n] # None
<1>0. MaxID \in Nat \ {0} BY ConstantsTyped
<1>1. CASE a.of[n] # None BY <1>1 DEF AllocateID
<1>2. CASE a.of[n] = None
  <2> DEFINE id == AllocateBit(a.map, MaxID)
             map == AllocateNext(a.map, MaxID)
  <2>1. a.map \in AllocationBitmap(MaxID) /\ ~Full(a.map, MaxID)
    BY <1>2 DEF CanAllocateID, IDInv, IDAllocator
  <2>2. id \in (0 .. MaxID - 1) \ a.map.allocated
    BY <1>0, <2>1, AllocateBitIsFree DEF AllocationBitmap
  <2>3. map \in AllocationBitmap(MaxID) BY <1>0, <2>1, BitmapTypes
  <2>4. map.allocated = a.map.allocated \cup {id} BY DEF AllocateNext
  <2>5. AllocateID(a, n) = [map |-> map, of |-> [a.of EXCEPT ![n] = id]] BY <1>2 DEF AllocateID
  <2>6. a.of \in [Nodes -> (0 .. MaxID - 1) \cup {None}] BY DEF IDInv, IDAllocator
  <2> HIDE DEF id, map
  <2>7. id # None BY <2>2, ConstantsTyped
  <2>8. AllocateID(a, n).of[n] # None BY <2>5, <2>6, <2>7
  <2> QED BY <1>2, <2>2, <2>3, <2>4, <2>5, <2>8, GiveID
<1> QED BY <1>1, <1>2

\* ReserveID, which refuses an ID that is taken.
LEMMA ReserveIDKeeps ==
    ASSUME NEW a, IDInv(a), NEW n \in Nodes, NEW id \in 0 .. MaxID - 1, CanReserveID(a, n, id)
    PROVE  IDInv(ReserveID(a, n, id))
<1>0. MaxID \in Nat \ {0} BY ConstantsTyped
<1>1. CASE a.of[n] = id BY <1>1 DEF ReserveID
<1>2. CASE a.of[n] # id
  <2> DEFINE map == Allocate(a.map, id)
  <2>1. a.of[n] = None /\ id \notin a.map.allocated BY <1>2 DEF CanReserveID
  <2>2. a.map \in AllocationBitmap(MaxID) BY DEF IDInv, IDAllocator
  <2>3. map \in AllocationBitmap(MaxID) BY <1>0, <2>2, BitmapTypes
  <2>4. map.allocated = a.map.allocated \cup {id} BY <2>2 DEF Allocate, AllocationBitmap
  <2>5. ReserveID(a, n, id) = [map |-> map, of |-> [a.of EXCEPT ![n] = id]] BY <1>2 DEF ReserveID
  <2> HIDE DEF map
  <2> QED BY <2>1, <2>3, <2>4, <2>5, GiveID
<1> QED BY <1>1, <1>2

\* ReleaseID frees the node's own ID and no other.
LEMMA ReleaseIDKeeps ==
    ASSUME NEW a, IDInv(a), NEW n \in Nodes
    PROVE  IDInv(ReleaseID(a, n))
<1>0. MaxID \in Nat \ {0} BY ConstantsTyped
<1>1. CASE a.of[n] = None BY <1>1 DEF ReleaseID
<1>2. CASE a.of[n] # None
  <2> DEFINE map == Release(a.map, a.of[n])
             of == [a.of EXCEPT ![n] = None]
             b == [map |-> map, of |-> of]
  <2>1. a.map \in AllocationBitmap(MaxID) /\ a.of \in [Nodes -> (0 .. MaxID - 1) \cup {None}]
    BY DEF IDInv, IDAllocator
  <2>2. map \in AllocationBitmap(MaxID) BY <1>0, <2>1, BitmapTypes
  <2>3. map.allocated = a.map.allocated \ {a.of[n]} BY <2>1 DEF Release, AllocationBitmap
  <2>4. of \in [Nodes -> (0 .. MaxID - 1) \cup {None}] BY <2>1
  <2>5. of[n] = None /\ \A m \in Nodes : m # n => of[m] = a.of[m] BY <2>1
  <2>6. ReleaseID(a, n) = b BY <1>2 DEF ReleaseID
  <2> HIDE DEF map, of
  <2>7. b \in IDAllocator BY <2>2, <2>4 DEF IDAllocator
  <2>8. a.of[n] \notin {0, 1} /\ \A m \in Nodes : m # n => a.of[m] # a.of[n]
    BY <1>2 DEF IDInv, IDsApart
  <2>9. map.allocated = {0, 1} \cup {of[m] : m \in {k \in Nodes : of[k] # None}}
    <3>1. a.map.allocated = {0, 1} \cup {a.of[m] : m \in {k \in Nodes : a.of[k] # None}} BY DEF IDInv, IDsApart
    <3>2. ASSUME NEW x PROVE x \in map.allocated <=> x \in {0, 1} \/ \E m \in Nodes : of[m] # None /\ x = of[m]
      BY <2>3, <2>5, <2>8, <3>1
    <3> QED BY <3>2
  <2>10. ASSUME NEW k \in Nodes, NEW m \in Nodes, of[m] # None
         PROVE  of[m] \notin {0, 1} /\ (of[k] = of[m] => k = m)
    BY <2>5, <2>10 DEF IDInv, IDsApart
  <2> QED BY <2>6, <2>7, <2>9, <2>10 DEF IDInv, IDsApart
<1> QED BY <1>1, <1>2

\* syncNodeIDs.
LEMMA SyncIDKeeps ==
    ASSUME NEW a, IDInv(a), NEW n \in Nodes, NEW node \in NodeObject
    PROVE  IDInv(SyncNodeID(a, n, node)) /\ IDInv(ReplaceNodeID(a, n, node))
<1>1. node.id # None => node.id \in 0 .. MaxID - 1 BY DEF NodeObject
<1>2. IDInv(SyncNodeID(a, n, node)) BY <1>1, ReserveIDKeeps DEF SyncNodeID
<1>3. IDInv(ReplaceNodeID(a, n, node)) BY AllocateIDKeeps DEF ReplaceNodeID
<1> QED BY <1>2, <1>3

-----------------------------------------------------------------------------
(***************************************************************************)
(* The parts of the invariant                                              *)
(***************************************************************************)

\* The API server and the informer.
WorldInv ==
    /\ scenario \in Scenarios /\ started \subseteq scenario.controllers
    /\ api \in [Nodes -> Version] /\ cached \in [Nodes -> Version]
    /\ stream \in Seq([node : Nodes, ver : Version])
    /\ queue \in Seq([node : Nodes, old : NodeObject \cup {None}, new : NodeObject \cup {None}])
    /\ changes \in Nat /\ failures \in Nat /\ restarts \in Nat

\* The goroutine of events and the retries.
CallInv ==
    /\ agenda \in Seq(Work)
    /\ entry \in [Controllers -> [Nodes -> Nat \cup {None}]]
    /\ thread \in [Controllers -> [Nodes -> ThreadState]]
    /\ dropped \subseteq Controllers \X Nodes
    /\ \A c \in Controllers, n \in Nodes : ThreadOK(c, n)

Inv == WorldInv /\ CallInv /\ PoolInv(pool) /\ IDInv(ids)

\* The parts make up the invariant.
LEMMA Parts == IndInv <=> Inv
  BY DEF IndInv, Inv, TypeOK, AllocatorsExact, WorldInv, CallInv, PoolInv, IDInv, IDAllocator

\* A call that has returned leaves no other one in the goroutine of events.
LEMMA ReturnedKeeps ==
    ASSUME CallInv, NEW c \in Controllers, NEW n \in Nodes, NEW err \in BOOLEAN,
           thread[c][n].pc # "idle", Returned(c, n, err)
    PROVE  CallInv'
<1> DEFINE retried == thread[c][n].retry
<1>1. /\ thread' = [thread EXCEPT ![c][n] = Idle]
      /\ entry' = [entry EXCEPT ![c][n] = IF ~err THEN None ELSE IF retried THEN @ + 1 ELSE 1]
      /\ agenda' = IF retried THEN agenda ELSE Tail(agenda)
      /\ dropped' = IF err THEN dropped ELSE dropped \ {<<c, n>>}
  BY DEF Returned
<1>2. ThreadOK(c, n) BY DEF CallInv
<1>3. retried => entry[c][n] \in Nat BY <1>2 DEF CallInv, ThreadOK
<1>4. ~retried => agenda # <<>> /\ Head(agenda).ctrl = c /\ Head(agenda).node = n
  BY <1>2 DEF ThreadOK, CallInv, ThreadState
<1> HIDE DEF retried
<1>5. agenda' \in Seq(Work) BY <1>1, <1>4 DEF CallInv
<1>6. entry' \in [Controllers -> [Nodes -> Nat \cup {None}]]
  <2> DEFINE e == IF ~err THEN None ELSE IF retried THEN entry[c][n] + 1 ELSE 1
  <2>1. e \in Nat \cup {None} BY <1>3
  <2>2. entry' = [entry EXCEPT ![c][n] = e] BY <1>1 DEF CallInv
  <2> HIDE DEF e
  <2> QED BY <2>1, <2>2 DEF CallInv
<1>7. Idle \in ThreadState BY ConstantsTyped DEF Idle, ThreadState
<1>8. thread' \in [Controllers -> [Nodes -> ThreadState]] BY <1>1, <1>7 DEF CallInv
<1>9. dropped' \subseteq Controllers \X Nodes BY <1>1 DEF CallInv
<1>10. ASSUME NEW d \in Controllers, NEW m \in Nodes PROVE ThreadOK(d, m)'
  <2>1. CASE d = c /\ m = n
    <3>1. thread'[d][m] = Idle BY <1>1, <2>1 DEF CallInv
    <3> QED BY <3>1 DEF ThreadOK, Idle
  <2>2. CASE ~(d = c /\ m = n)
    <3>1. thread'[d][m] = thread[d][m] /\ entry'[d][m] = entry[d][m] BY <1>1, <2>2 DEF CallInv
    <3>2. ThreadOK(d, m) BY DEF CallInv
    <3>3. thread[d][m].pc # "idle" /\ ~thread[d][m].retry => retried
      BY <1>4, <2>2, <3>2 DEF ThreadOK
    <3>4. retried => agenda' = agenda BY <1>1
    <3> QED BY <3>1, <3>2, <3>3, <3>4 DEF ThreadOK
  <2> QED BY <2>1, <2>2
<1> QED BY <1>5, <1>6, <1>8, <1>9, <1>10 DEF CallInv

\* A call that goes on with other local variables.
LEMMA GoesOn ==
    ASSUME CallInv, NEW c \in Controllers, NEW n \in Nodes, NEW th \in ThreadState,
           thread' = [thread EXCEPT ![c][n] = th],
           UNCHANGED <<agenda, entry, dropped>>,
           th.pc # "idle" => th.node # None,
           th.pc \in {"get", "update"} => c # Zone,
           th.pc = "update" => th.copy \in Version /\ th.copy.obj # None,
           th.pc # "idle" /\ th.retry => entry[c][n] # None,
           th.pc # "idle" /\ ~th.retry => /\ agenda # <<>> /\ Head(agenda).op = "event"
                                          /\ Head(agenda).ctrl = c /\ Head(agenda).node = n
    PROVE  CallInv'
<1>1. thread' \in [Controllers -> [Nodes -> ThreadState]] BY DEF CallInv
<1>2. ASSUME NEW d \in Controllers, NEW m \in Nodes PROVE ThreadOK(d, m)'
  <2>1. CASE d = c /\ m = n
    <3>1. thread'[d][m] = th BY <2>1 DEF CallInv
    <3> QED BY <2>1, <3>1 DEF ThreadOK
  <2>2. CASE ~(d = c /\ m = n)
    <3>1. thread'[d][m] = thread[d][m] BY <2>2 DEF CallInv
    <3> QED BY <3>1 DEF ThreadOK, CallInv
  <2> QED BY <2>1, <2>2
<1> QED BY <1>1, <1>2 DEF CallInv

\* A call for a network that has done a part of its work.
LEMMA ProceedKeeps ==
    ASSUME CallInv, NEW c \in Nets, NEW n \in Nodes, NEW th \in ThreadState,
           thread[c][n].pc # "idle", th.retry = thread[c][n].retry, th.node = thread[c][n].node,
           Proceed(c, n, th)
    PROVE  CallInv'
<1>0. c \in Controllers /\ c # Zone BY ConstantsTyped DEF Controllers
<1>1. CASE NextStep(c, th) = "done"
  BY <1>0, <1>1, ReturnedKeeps DEF Proceed
<1>2. CASE NextStep(c, th) # "done"
  <2> DEFINE step == NextStep(c, th)
             new == [th EXCEPT !.pc = step]
  <2>1. step \in {"allocate", "patch", "get"} BY <1>2 DEF NextStep
  <2>2. thread' = [thread EXCEPT ![c][n] = new] /\ UNCHANGED <<entry, agenda, dropped>>
    BY <1>2 DEF Proceed
  <2> HIDE DEF step
  <2>3. new \in ThreadState /\ new.pc = step /\ new.node = th.node /\ new.retry = th.retry
    BY <2>1 DEF ThreadState
  <2>4. ThreadOK(c, n) BY <1>0 DEF CallInv
  <2>5. th.node # None /\ (th.retry => entry[c][n] # None)
    BY <2>4 DEF ThreadOK
  <2>6. ~th.retry => agenda # <<>> /\ Head(agenda).op = "event" /\ Head(agenda).ctrl = c /\ Head(agenda).node = n
    BY <2>4 DEF ThreadOK
  <2> HIDE DEF new
  <2> QED BY <1>0, <2>1, <2>2, <2>3, <2>5, <2>6, GoesOn
<1> QED BY <1>1, <1>2

\* A call that begins, in the goroutine of events or as a retry.
LEMMA BeginKeeps ==
    ASSUME CallInv, NEW c \in Controllers, NEW n \in Nodes, NEW node \in NodeObject, node # None,
           NEW retry \in BOOLEAN, Begin(c, n, node, retry),
           retry => entry[c][n] # None,
           ~retry => agenda # <<>> /\ Head(agenda).op = "event" /\ Head(agenda).ctrl = c /\ Head(agenda).node = n
    PROVE  CallInv' /\ UNCHANGED <<pool, ids>>
<1> DEFINE todo == IF c = Zone THEN {} ELSE Existing(c, node)
           th == [pc |-> "allocate", retry |-> retry, node |-> node, todo |-> todo, kept |-> {},
                  allocated |-> {}, copy |-> None, tries |-> 0]
<1>1. todo \in SUBSET Subnet
  BY DEF Existing, NodeObject, Controllers
<1>2. thread' = [thread EXCEPT ![c][n] = th] /\ UNCHANGED <<entry, agenda, dropped, pool, ids>>
  BY DEF Begin
<1> HIDE DEF todo
<1>3. th \in ThreadState /\ th.pc = "allocate" /\ th.node = node /\ th.retry = retry
  <2>1. 0 \in 0 .. Attempts - 1 BY ConstantsTyped
  <2>2. th \in ThreadState BY <1>1, <2>1 DEF ThreadState
  <2>3. th.pc = "allocate" /\ th.node = node /\ th.retry = retry BY Zenon
  <2> QED BY <2>2, <2>3
<1> HIDE DEF th
<1> QED BY <1>2, <1>3, GoesOn

-----------------------------------------------------------------------------
(***************************************************************************)
(* Every step keeps the invariant                                          *)
(***************************************************************************)

\* What a scenario says.
LEMMA ScenarioType ==
    ASSUME WorldInv
    PROVE  /\ scenario.nodes \in [Nodes -> NodeObject \cup {None}] /\ scenario.controllers \subseteq Controllers
           /\ scenario.names \subseteq Nodes /\ scenario.forms \subseteq NodeObject
  BY ScenariosTyped DEF WorldInv, Scenario

\* What the API server stores.
LEMMA StoreKeeps ==
    ASSUME WorldInv, NEW n \in Nodes, NEW obj \in NodeObject \cup {None}, Store(n, obj)
    PROVE  api' \in [Nodes -> Version] /\ stream' \in Seq([node : Nodes, ver : Version])
<1>1. CASE obj = api[n].obj BY <1>1 DEF Store, WorldInv
<1>2. CASE obj # api[n].obj
  <2> DEFINE v == [obj |-> obj, rv |-> api[n].rv + 1]
  <2>1. api[n].rv \in Nat BY DEF WorldInv, Version
  <2>2. v \in Version BY <2>1 DEF Version
  <2>3. api' = [api EXCEPT ![n] = v] /\ stream' = Append(stream, [node |-> n, ver |-> v])
    BY <1>2 DEF Store
  <2> HIDE DEF v
  <2>4. api' \in [Nodes -> Version] BY <2>2, <2>3 DEF WorldInv
  <2>5. [node |-> n, ver |-> v] \in [node : Nodes, ver : Version] BY <2>2
  <2>6. stream' \in Seq([node : Nodes, ver : Version]) BY <2>3, <2>5 DEF WorldInv
  <2> QED BY <2>4, <2>6
<1> QED BY <1>1, <1>2

\* A step that only writes to the API server.
LEMMA WorldKept ==
    ASSUME WorldInv, UNCHANGED <<scenario, cached, queue, started, restarts>>,
           changes' \in Nat, failures' \in Nat,
           api' \in [Nodes -> Version], stream' \in Seq([node : Nodes, ver : Version])
    PROVE  WorldInv'
  BY DEF WorldInv

\* A step that leaves the goroutines alone.
LEMMA CallsKept ==
    ASSUME CallInv, UNCHANGED <<agenda, entry, thread, dropped>>
    PROVE  CallInv'
  BY DEF CallInv, ThreadOK

\* The changes made by others.
LEMMA ChangesKeep ==
    ASSUME Inv, NEW n \in scenario.names, CreateNode(n) \/ DeleteNode(n) \/ AnnotateNode(n)
    PROVE  Inv'
<1>1. n \in Nodes BY ScenarioType DEF Inv
<1>2. PICK obj \in NodeObject \cup {None} : Store(n, obj)
  <2>1. CASE CreateNode(n) BY <2>1, ScenarioType DEF CreateNode, Inv
  <2>2. CASE DeleteNode(n) BY <2>2 DEF DeleteNode
  <2>3. CASE AnnotateNode(n)
    <3> DEFINE new == [api[n].obj EXCEPT !.other = ~@]
    <3>1. api[n].obj \in NodeObject BY <1>1, <2>3 DEF AnnotateNode, Inv, WorldInv, Version
    <3>2. new \in NodeObject BY <3>1 DEF NodeObject
    <3>3. Store(n, new) BY <2>3 DEF AnnotateNode
    <3> QED BY <3>2, <3>3
  <2> QED BY <2>1, <2>2, <2>3
<1>3. api' \in [Nodes -> Version] /\ stream' \in Seq([node : Nodes, ver : Version])
  BY <1>1, <1>2, StoreKeeps DEF Inv
<1>4. UNCHANGED <<scenario, failures, restarts, cached, queue, agenda, started, entry, pool, ids, thread, dropped>>
  BY DEF CreateNode, DeleteNode, AnnotateNode, ProcessVars
<1>5. changes' \in Nat BY DEF CreateNode, DeleteNode, AnnotateNode, Change, Inv, WorldInv
<1>6. WorldInv' BY <1>3, <1>4, <1>5, WorldKept DEF Inv, WorldInv
<1>7. CallInv' BY <1>4, CallsKept DEF Inv
<1> QED BY <1>4, <1>6, <1>7 DEF Inv

\* A new process has new allocators and no calls.
LEMMA RestartKeeps ==
    ASSUME Inv, Restart
    PROVE  Inv'
<1>1. WorldInv' BY DEF Restart, Inv, WorldInv
<1>2. Idle \in ThreadState BY ConstantsTyped DEF Idle, ThreadState
<1>3. CallInv'
  <2>1. thread' \in [Controllers -> [Nodes -> ThreadState]] BY <1>2 DEF Restart
  <2>2. entry' \in [Controllers -> [Nodes -> Nat \cup {None}]] /\ dropped' = {} /\ agenda' \in Seq(Work)
    BY DEF Restart
  <2>3. ASSUME NEW c \in Controllers, NEW n \in Nodes PROVE ThreadOK(c, n)'
    <3>1. thread'[c][n] = Idle BY DEF Restart
    <3> QED BY <3>1 DEF ThreadOK, Idle
  <2> QED BY <2>1, <2>2, <2>3 DEF CallInv
<1> QED BY <1>1, <1>3, NewPoolOK, NewIDsOK DEF Inv, Restart

\* A queue that is not empty.
LEMMA HeadAndTail ==
    ASSUME NEW S, NEW q \in Seq(S), q # <<>>
    PROVE  Head(q) \in S /\ Tail(q) \in Seq(S)
  OBVIOUS

\* The informer receives a version.
LEMMA WatchKeeps ==
    ASSUME Inv, Watch
    PROVE  Inv'
<1> DEFINE n == Head(stream).node
           v == Head(stream).ver
           e == [node |-> n, old |-> cached[n].obj, new |-> v.obj]
           Event == [node : Nodes, old : NodeObject \cup {None}, new : NodeObject \cup {None}]
<1>1. n \in Nodes /\ v \in Version /\ stream' \in Seq([node : Nodes, ver : Version])
  <2>1. stream # <<>> /\ stream \in Seq([node : Nodes, ver : Version]) BY DEF Watch, Inv, WorldInv
  <2>2. Head(stream) \in [node : Nodes, ver : Version] /\ Tail(stream) \in Seq([node : Nodes, ver : Version])
    BY <2>1, HeadAndTail
  <2> QED BY <2>2 DEF Watch
<1>2. cached' = [cached EXCEPT ![n] = v] /\ queue' = Append(queue, e) BY DEF Watch
<1> HIDE DEF n, v
<1>3. cached' \in [Nodes -> Version] BY <1>1, <1>2 DEF Inv, WorldInv
<1>4. e \in Event BY <1>1 DEF Inv, WorldInv, Version
<1> HIDE DEF e
<1>5. queue' \in Seq(Event) BY <1>2, <1>4 DEF Inv, WorldInv
<1>6. WorldInv' BY <1>1, <1>3, <1>5 DEF Inv, WorldInv, Watch
<1>7. CallInv' BY CallsKept DEF Inv, Watch
<1> QED BY <1>6, <1>7 DEF Inv, Watch

\* An enumeration of a finite set is a sequence.
LEMMA EnumerationIsSeq ==
    ASSUME NEW S, IsFiniteSet(S), NEW order \in SetToSeqs(S)
    PROVE  order \in Seq(S) /\ Len(order) \in Nat /\ \A i \in 1 .. Len(order) : order[i] \in S
<1>1. Cardinality(S) \in Nat BY FS_CardinalityType
<1>2. order \in [1 .. Cardinality(S) -> S] BY DEF SetToSeqs
<1>3. order \in Seq(S) BY <1>1, <1>2
<1> QED BY <1>3

\* When no call is in the goroutine of events, it may get other work.
LEMMA OtherWork ==
    ASSUME CallInv, agenda' \in Seq(Work), UNCHANGED <<entry, thread, dropped>>,
           \A c \in Controllers, n \in Nodes : thread[c][n].pc = "idle" \/ thread[c][n].retry
    PROVE  CallInv'
<1>1. ASSUME NEW c \in Controllers, NEW n \in Nodes PROVE ThreadOK(c, n)'
  <2>1. ThreadOK(c, n) BY DEF CallInv
  <2> QED BY <2>1 DEF ThreadOK
<1> QED BY <1>1 DEF CallInv

\* An event is given to the handlers.
LEMMA DeliverKeeps ==
    ASSUME Inv, Deliver
    PROVE  Inv'
<1> DEFINE Event == [node : Nodes, old : NodeObject \cup {None}, new : NodeObject \cup {None}]
           call(c) == [op |-> "event", ctrl |-> c, node |-> Head(queue).node,
                       old |-> Head(queue).old, new |-> Head(queue).new]
<1>1. queue # <<>> /\ queue \in Seq(Event) BY DEF Deliver, Inv, WorldInv
<1> HIDE DEF Event
<1>2. Head(queue) \in Event /\ Tail(queue) \in Seq(Event) BY <1>1, HeadAndTail
<1>3. started \subseteq Controllers BY ScenarioType DEF Inv, WorldInv
<1>4. IsFiniteSet(started)
  <2>1. IsFiniteSet(Controllers) BY SetsFinite, FS_AddElement DEF Controllers
  <2> QED BY <1>3, <2>1, FS_Subset
<1>5. PICK order \in SetToSeqs(started) : agenda' = [i \in 1 .. Len(order) |-> call(order[i])] BY DEF Deliver
<1>6. \A c \in Controllers : call(c) \in Work BY <1>2 DEF Event, Work
<1> HIDE DEF call
<1>7. Len(order) \in Nat /\ \A i \in 1 .. Len(order) : order[i] \in Controllers
  BY <1>3, <1>4, EnumerationIsSeq
<1>8. agenda' \in Seq(Work) BY <1>5, <1>6, <1>7
<1>9. \A c \in Controllers, n \in Nodes : thread[c][n].pc = "idle" \/ thread[c][n].retry
  BY DEF Deliver, Inv, CallInv, ThreadOK
<1>10. CallInv' BY <1>8, <1>9, OtherWork DEF Inv, Deliver
<1>11. WorldInv'
  <2>1. queue' \in Seq(Event) BY <1>2 DEF Deliver
  <2> QED BY <2>1 DEF Deliver, Inv, WorldInv, Event
<1> QED BY <1>10, <1>11 DEF Inv, Deliver

\* A controller starts.
LEMMA StartKeeps ==
    ASSUME Inv, NEW c \in Controllers, Start(c)
    PROVE  Inv'
<1> DEFINE S == {n \in Nodes : cached[n].obj # None}
           w(op, n) == [op |-> op, ctrl |-> c, node |-> n, old |-> None, new |-> cached[n].obj]
<1>1. IsFiniteSet(S) BY SetsFinite, FS_Subset
<1>2. ASSUME NEW n \in S, NEW op \in {"event", "sync", "replace"} PROVE w(op, n) \in Work
  <2>1. cached[n].obj \in NodeObject BY DEF Inv, WorldInv, Version
  <2> QED BY <2>1 DEF Work
<1>3. PICK order \in SetToSeqs(S) :
          agenda' = [i \in 1 .. Len(order) |-> w("sync", order[i])]
                    \o (IF c = Zone THEN [i \in 1 .. Len(order) |-> w("replace", order[i])] ELSE <<>>)
                    \o [i \in 1 .. Len(order) |-> w("event", order[i])]
  BY DEF Start
<1> HIDE DEF w, S
<1>4. Len(order) \in Nat /\ \A i \in 1 .. Len(order) : order[i] \in S BY <1>1, EnumerationIsSeq
<1>5. ASSUME NEW op \in {"event", "sync", "replace"}
      PROVE  [i \in 1 .. Len(order) |-> w(op, order[i])] \in Seq(Work)
  BY <1>2, <1>4
<1>6. agenda' \in Seq(Work)
  <2> DEFINE s1 == [i \in 1 .. Len(order) |-> w("sync", order[i])]
             s2 == [i \in 1 .. Len(order) |-> w("replace", order[i])]
             s3 == [i \in 1 .. Len(order) |-> w("event", order[i])]
  <2>1. s1 \in Seq(Work) /\ s2 \in Seq(Work) /\ s3 \in Seq(Work) BY <1>5
  <2>2. agenda' = s1 \o (IF c = Zone THEN s2 ELSE <<>>) \o s3 BY <1>3
  <2> HIDE DEF s1, s2, s3
  <2> QED BY <2>1, <2>2
<1>7. \A d \in Controllers, n \in Nodes : thread[d][n].pc = "idle" \/ thread[d][n].retry
  BY DEF Start, Inv, CallInv, ThreadOK
<1>8. CallInv' BY <1>6, <1>7, OtherWork DEF Inv, Start
<1>9. WorldInv' BY DEF Start, Inv, WorldInv
<1> QED BY <1>8, <1>9 DEF Inv, Start

\* It syncs with a node.
LEMMA SyncKeeps ==
    ASSUME Inv, Sync
    PROVE  Inv'
<1> DEFINE w == Head(agenda)
<1>1. agenda # <<>> /\ w.op \in {"sync", "replace"} /\ agenda' = Tail(agenda) BY DEF Sync
<1>2. w \in Work /\ agenda' \in Seq(Work)
  <2>1. agenda \in Seq(Work) BY DEF Inv, CallInv
  <2> QED BY <1>1, <2>1, HeadAndTail
<1>3. w.ctrl \in Controllers /\ w.node \in Nodes /\ w.new \in NodeObject BY <1>1, <1>2 DEF Work
<1>4. \A c \in Controllers, n \in Nodes : thread[c][n].pc = "idle" \/ thread[c][n].retry
  BY <1>1 DEF Inv, CallInv, ThreadOK
<1>5. CallInv' BY <1>2, <1>4, OtherWork DEF Inv, Sync
<1>6. WorldInv' BY DEF Sync, Inv, WorldInv
<1>7. PoolInv(pool') /\ IDInv(ids')
  <2>1. CASE w.ctrl = Zone
    BY <1>3, <2>1, SyncIDKeeps DEF Sync, Inv
  <2>2. CASE w.ctrl # Zone
    <3>1. w.ctrl \in Nets BY <1>3, <2>2 DEF Controllers
    <3> QED BY <1>3, <2>2, <3>1, SyncNodeKeeps DEF Sync, Inv
  <2> QED BY <2>1, <2>2
<1> QED BY <1>5, <1>6, <1>7 DEF Inv

\* The types of a call's local variables.
LEMMA CallType ==
    ASSUME CallInv, NEW c \in Controllers, NEW n \in Nodes
    PROVE  /\ thread[c][n] \in ThreadState
           /\ thread[c][n].pc # "idle" => thread[c][n].node \in NodeObject
           /\ thread[c][n].todo \subseteq Subnet /\ thread[c][n].kept \subseteq Subnet
           /\ thread[c][n].allocated \subseteq Subnet
           /\ thread[c][n].pc = "update" => thread[c][n].copy \in Version /\ thread[c][n].copy.obj \in NodeObject
<1>1. thread[c][n] \in ThreadState /\ ThreadOK(c, n) BY DEF CallInv
<1>2. /\ thread[c][n].node \in NodeObject \cup {None} /\ thread[c][n].copy \in Version \cup {None}
      /\ thread[c][n].todo \subseteq Subnet /\ thread[c][n].kept \subseteq Subnet
      /\ thread[c][n].allocated \subseteq Subnet
  BY <1>1 DEF ThreadState
<1>3. thread[c][n].pc # "idle" => thread[c][n].node \in NodeObject BY <1>1, <1>2 DEF ThreadOK
<1>4. thread[c][n].pc = "update" => thread[c][n].copy \in Version /\ thread[c][n].copy.obj # None
  BY <1>1, <1>2 DEF ThreadOK
<1> QED BY <1>1, <1>2, <1>3, <1>4 DEF Version

\* A step of a call that does not reach the API server.
LEMMA LocalStep ==
    ASSUME Inv, UNCHANGED <<api, stream, failures, CallVars>>, CallInv', PoolInv(pool'), IDInv(ids')
    PROVE  Inv'
  BY DEF Inv, WorldInv, CallVars

\* A call for a node that needs nothing.
LEMMA SkipKeeps ==
    ASSUME Inv, NEW c \in Controllers, NEW n \in Nodes, SkipNode(c, n)
    PROVE  Inv'
<1>1. c \in Nets /\ thread[c][n].pc # "idle" BY DEF SkipNode, Controllers
<1>2. CallInv'
  <2>1. CASE Returned(c, n, FALSE) BY <1>1, <2>1, ReturnedKeeps DEF Inv
  <2>2. CASE Proceed(c, n, thread[c][n]) BY <1>1, <2>2, ProceedKeeps, CallType DEF Inv
  <2> QED BY <2>1, <2>2 DEF SkipNode
<1>3. UNCHANGED <<api, stream, failures, CallVars, pool, ids>> BY DEF SkipNode
<1> QED BY <1>2, <1>3, LocalStep DEF Inv

\* A call that marks an existing subnet or releases it.
LEMMA CheckKeeps ==
    ASSUME Inv, NEW c \in Controllers, NEW n \in Nodes, CheckExisting(c, n)
    PROVE  Inv'
<1> DEFINE th == thread[c][n]
           p == PoolOf(c, th.node)
<1>1. c \in Nets /\ th.pc # "idle" BY DEF CheckExisting, Concerned, Controllers
<1>2. th \in ThreadState /\ th.todo \subseteq Subnet BY CallType DEF Inv
<1>3. PICK s \in th.todo :
          \/ pool' = MarkNetworks(pool, n, {s}) /\ Proceed(c, n, [[th EXCEPT !.todo = @ \ {s}] EXCEPT !.kept = @ \cup {s}])
          \/ pool' = ReleaseNetworks(pool, p, n, {s}) /\ Proceed(c, n, [th EXCEPT !.todo = @ \ {s}])
  BY Zenon DEF CheckExisting
<1>4. UNCHANGED <<api, stream, ids, failures, CallVars>> BY DEF CheckExisting
<1> HIDE DEF p
<1>5. s \in Subnet BY <1>2
<1>6. PoolInv(pool') BY <1>3, <1>5, MarkKeeps, ReleaseKeeps DEF Inv
<1>7. /\ [th EXCEPT !.todo = @ \ {s}] \in ThreadState
      /\ [[th EXCEPT !.todo = @ \ {s}] EXCEPT !.kept = @ \cup {s}] \in ThreadState
  <2> HIDE DEF th
  <2>1. th.todo \ {s} \in SUBSET Subnet /\ th.kept \cup {s} \in SUBSET Subnet BY <1>2, <1>5 DEF ThreadState
  <2> QED BY <1>2, <2>1 DEF ThreadState
<1>8. /\ [th EXCEPT !.todo = @ \ {s}].retry = th.retry /\ [th EXCEPT !.todo = @ \ {s}].node = th.node
      /\ [[th EXCEPT !.todo = @ \ {s}] EXCEPT !.kept = @ \cup {s}].retry = th.retry
      /\ [[th EXCEPT !.todo = @ \ {s}] EXCEPT !.kept = @ \cup {s}].node = th.node
  <2> HIDE DEF th
  <2> QED BY <1>2 DEF ThreadState
<1>9. CallInv' BY <1>1, <1>3, <1>7, <1>8, ProceedKeeps DEF Inv
<1> QED BY <1>4, <1>6, <1>9, LocalStep DEF Inv

\* The subnets that NextSubnet offers exist.
LEMMA NextSubnetType ==
    ASSUME NEW pl, NEW ranges
    PROVE  NextSubnet(pl, ranges) \subseteq Subnet
  BY DEF NextSubnet, NextFree, Free

\* A call that allocates a subnet.
LEMMA AllocateSubnetKeeps ==
    ASSUME Inv, NEW c \in Controllers, NEW n \in Nodes, AllocateSubnet(c, n)
    PROVE  Inv'
<1> DEFINE th == thread[c][n]
<1>1. c \in Nets /\ th.pc # "idle" BY DEF AllocateSubnet, Concerned, Controllers
<1>2. th \in ThreadState BY CallType DEF Inv
<1>3. PICK ranges \in Missing(c, th) : \E s \in NextSubnet(pool, ranges) :
          pool' = AllocateNetwork(pool, ranges, n, s) /\ Proceed(c, n, [th EXCEPT !.allocated = @ \cup {s}])
  BY DEF AllocateSubnet
<1>4. PICK s \in Subnet :
          pool' = AllocateNetwork(pool, ranges, n, s) /\ Proceed(c, n, [th EXCEPT !.allocated = @ \cup {s}])
  BY <1>3, NextSubnetType
<1>5. UNCHANGED <<api, stream, ids, failures, CallVars>> BY DEF AllocateSubnet
<1>6. PoolInv(pool') BY <1>4, AllocateKeeps DEF Inv
<1> DEFINE new == [th EXCEPT !.allocated = @ \cup {s}]
<1>7. new \in ThreadState /\ new.retry = th.retry /\ new.node = th.node
  <2> HIDE DEF th
  <2> QED BY <1>2 DEF ThreadState
<1>8. Proceed(c, n, new) BY <1>4
<1> HIDE DEF new
<1>9. CallInv' BY <1>1, <1>7, <1>8, ProceedKeeps DEF Inv
<1> QED BY <1>5, <1>6, <1>9, LocalStep DEF Inv

\* A call that finds no free subnet and releases what it has allocated.
LEMMA ExhaustedKeeps ==
    ASSUME Inv, NEW c \in Controllers, NEW n \in Nodes, SubnetsExhausted(c, n)
    PROVE  Inv'
<1>1. thread[c][n].pc # "idle" /\ Returned(c, n, TRUE) BY DEF SubnetsExhausted, Concerned
<1>2. PICK ranges : pool' = ReleaseNetworks(RangesFull(pool, ranges), PoolOf(c, thread[c][n].node), n,
                                            thread[c][n].allocated)
  BY DEF SubnetsExhausted
<1>3. thread[c][n].allocated \subseteq Subnet BY CallType DEF Inv
<1>4. PoolInv(RangesFull(pool, ranges)) BY FullKeeps DEF Inv
<1>5. PoolInv(pool') BY <1>2, <1>3, <1>4, ReleaseKeeps
<1>6. CallInv' BY <1>1, ReturnedKeeps DEF Inv
<1>7. UNCHANGED <<api, stream, ids, failures, CallVars>> BY DEF SubnetsExhausted
<1> QED BY <1>5, <1>6, <1>7, LocalStep DEF Inv

\* A call that releases what it has allocated, and returns.
LEMMA FailedKeeps ==
    ASSUME Inv, NEW c \in Controllers, NEW n \in Nodes, thread[c][n].pc # "idle", Failed(c, n)
    PROVE  CallInv' /\ PoolInv(pool')
<1>1. thread[c][n].allocated \subseteq Subnet BY CallType DEF Inv
<1>2. PoolInv(pool') BY <1>1, ReleaseKeeps DEF Failed, Inv
<1>3. CallInv' BY ReturnedKeeps DEF Failed, Inv
<1> QED BY <1>2, <1>3

\* A call that reads the node it will update.
LEMMA GetKeeps ==
    ASSUME Inv, NEW c \in Controllers, NEW n \in Nodes, Get(c, n)
    PROVE  Inv'
<1> DEFINE th == thread[c][n]
<1>1. th.pc = "get" /\ UNCHANGED <<api, stream, ids, failures, CallVars>> BY DEF Get
<1>2. CASE cached[n].obj = None
  <2>1. Failed(c, n) BY <1>2 DEF Get
  <2>2. CallInv' /\ PoolInv(pool') BY <1>1, <2>1, FailedKeeps
  <2> QED BY <1>1, <2>2, LocalStep DEF Inv
<1>3. CASE cached[n].obj # None
  <2> DEFINE new == [th EXCEPT !.pc = "update", !.copy = cached[n]]
  <2>1. th \in ThreadState /\ ThreadOK(c, n) BY DEF Inv, CallInv
  <2>2. thread' = [thread EXCEPT ![c][n] = new] /\ UNCHANGED <<entry, agenda, dropped, pool>>
    BY <1>3 DEF Get, Inv, CallInv
  <2>3. cached[n] \in Version BY DEF Inv, WorldInv
  <2>4. /\ new \in ThreadState /\ new.pc = "update" /\ new.copy = cached[n]
        /\ new.node = th.node /\ new.retry = th.retry
    <3> HIDE DEF th
    <3> QED BY <2>1, <2>3 DEF ThreadState
  <2>5. th.node # None /\ c # Zone /\ (th.retry => entry[c][n] # None)
    BY <1>1, <2>1 DEF ThreadOK
  <2>6. ~th.retry => agenda # <<>> /\ Head(agenda).op = "event" /\ Head(agenda).ctrl = c /\ Head(agenda).node = n
    BY <1>1, <2>1 DEF ThreadOK
  <2> HIDE DEF new, th
  <2>7. CallInv' BY <1>3, <2>2, <2>3, <2>4, <2>5, <2>6, GoesOn DEF Inv
  <2> QED BY <1>1, <2>2, <2>7, LocalStep DEF Inv
<1> QED BY <1>2, <1>3

\* What an update stores is a node.
LEMMA AnnotatedType ==
    ASSUME Inv, NEW c \in Controllers, NEW n \in Nodes, thread[c][n].pc = "update"
    PROVE  Annotated(c, thread[c][n]) \in NodeObject
<1> DEFINE th == thread[c][n]
           obj == th.copy.obj
           nets == IF SubnetsChanged(c, th) THEN th.kept \cup th.allocated ELSE obj.subnets[c]
<1>1. ThreadOK(c, n) BY DEF Inv, CallInv
<1>2. c \in Nets BY <1>1 DEF ThreadOK, Controllers
<1>3. th.kept \subseteq Subnet /\ th.allocated \subseteq Subnet /\ obj \in NodeObject BY CallType DEF Inv
<1>4. Annotated(c, th) = [obj EXCEPT !.subnets = [obj.subnets EXCEPT ![c] = nets], !.networkIDs = obj.networkIDs \cup {c}]
  BY <1>2, <1>3 DEF Annotated, NodeObject
<1> HIDE DEF th, obj
<1>5. nets \in SUBSET Subnet BY <1>2, <1>3 DEF NodeObject
<1> HIDE DEF nets
<1>6. [obj.subnets EXCEPT ![c] = nets] \in [Nets -> SUBSET Subnet] /\ obj.networkIDs \cup {c} \in SUBSET Nets
  BY <1>2, <1>3, <1>5 DEF NodeObject
<1>7. Annotated(c, th) \in NodeObject BY <1>3, <1>4, <1>6 DEF NodeObject
<1> QED BY <1>7 DEF th

\* A step of a call that reaches the API server.
LEMMA ServerStep ==
    ASSUME Inv, UNCHANGED CallVars, failures' \in Nat, CallInv', PoolInv(pool'), IDInv(ids'),
           api' \in [Nodes -> Version], stream' \in Seq([node : Nodes, ver : Version])
    PROVE  Inv'
<1>1. WorldInv' BY WorldKept DEF Inv, CallVars, WorldInv
<1> QED BY <1>1 DEF Inv

\* An update that is stored, refused for a conflict, or given up.
LEMMA UpdateKeeps ==
    ASSUME Inv, NEW c \in Controllers, NEW n \in Nodes, Update(c, n)
    PROVE  Inv'
<1> DEFINE th == thread[c][n]
<1>1. th.pc = "update" /\ UNCHANGED <<ids, failures, CallVars>> BY DEF Update
<1>2. CASE api[n].obj # None /\ api[n].rv = th.copy.rv
  <2>1. Store(n, Annotated(c, th)) /\ Returned(c, n, FALSE) /\ UNCHANGED pool BY <1>2 DEF Update
  <2>2. api' \in [Nodes -> Version] /\ stream' \in Seq([node : Nodes, ver : Version])
    BY <1>1, <2>1, AnnotatedType, StoreKeeps DEF Inv
  <2>3. CallInv' BY <1>1, <2>1, ReturnedKeeps DEF Inv
  <2> QED BY <1>1, <2>1, <2>2, <2>3, ServerStep DEF Inv, WorldInv
<1>3. CASE ~(api[n].obj # None /\ api[n].rv = th.copy.rv) /\ api[n].obj # None /\ th.tries + 1 < Attempts
  <2> DEFINE new == [th EXCEPT !.pc = "get", !.tries = @ + 1]
  <2>1. th \in ThreadState /\ ThreadOK(c, n) BY DEF Inv, CallInv
  <2>2. UNCHANGED <<entry, agenda, dropped, pool, api, stream>> BY <1>3 DEF Update
  <2>3. thread' = [thread EXCEPT ![c][n] = new] BY <1>3 DEF Update, Inv, CallInv
  <2>4. th.tries + 1 \in 0 .. Attempts - 1 BY <1>3, <2>1, ConstantsTyped DEF ThreadState
  <2>5. new \in ThreadState /\ new.pc = "get" /\ new.node = th.node /\ new.retry = th.retry
    <3> HIDE DEF th
    <3> QED BY <2>1, <2>4 DEF ThreadState
  <2>6. th.node # None /\ c # Zone /\ (th.retry => entry[c][n] # None)
    BY <1>1, <2>1 DEF ThreadOK
  <2>7. ~th.retry => agenda # <<>> /\ Head(agenda).op = "event" /\ Head(agenda).ctrl = c /\ Head(agenda).node = n
    BY <1>1, <2>1 DEF ThreadOK
  <2> HIDE DEF new, th
  <2>8. CallInv' BY <2>2, <2>3, <2>5, <2>6, <2>7, GoesOn DEF Inv
  <2> QED BY <1>1, <2>2, <2>8, LocalStep DEF Inv
<1>4. CASE ~(api[n].obj # None /\ api[n].rv = th.copy.rv) /\ ~(api[n].obj # None /\ th.tries + 1 < Attempts)
  <2>1. Failed(c, n) /\ UNCHANGED <<api, stream>> BY <1>4 DEF Update
  <2>2. CallInv' /\ PoolInv(pool') BY <1>1, <2>1, FailedKeeps
  <2> QED BY <1>1, <2>1, <2>2, LocalStep DEF Inv
<1> QED BY <1>2, <1>3, <1>4

\* An update that fails, stored or not.
LEMMA UpdateFailsKeeps ==
    ASSUME Inv, NEW c \in Controllers, NEW n \in Nodes, UpdateFails(c, n)
    PROVE  Inv'
<1>1. thread[c][n].pc = "update" /\ Failed(c, n) /\ UNCHANGED <<ids, CallVars>> BY DEF UpdateFails
<1>2. failures' \in Nat BY DEF UpdateFails, APIFails, Inv, WorldInv
<1>3. CallInv' /\ PoolInv(pool') BY <1>1, FailedKeeps
<1>4. api' \in [Nodes -> Version] /\ stream' \in Seq([node : Nodes, ver : Version])
  <2>1. CASE UNCHANGED <<api, stream>> BY <2>1 DEF Inv, WorldInv
  <2>2. CASE Store(n, Annotated(c, thread[c][n])) BY <1>1, <2>2, AnnotatedType, StoreKeeps DEF Inv
  <2> QED BY <2>1, <2>2 DEF UpdateFails
<1> QED BY <1>1, <1>2, <1>3, <1>4, ServerStep DEF Inv

\* The zone controller gets an ID for a node.
LEMMA ZoneAllocateKeeps ==
    ASSUME Inv, NEW n \in Nodes, ZoneAllocate(n)
    PROVE  Inv'
<1>0. Zone \in Controllers BY DEF Controllers
<1>1. thread[Zone][n].pc = "allocate" /\ UNCHANGED <<api, stream, pool, failures, CallVars>> BY DEF ZoneAllocate
<1>2. CASE CanAllocateID(ids, n)
  <2> DEFINE th == thread[Zone][n]
             new == [th EXCEPT !.pc = "patch"]
  <2>1. th \in ThreadState /\ ThreadOK(Zone, n) BY <1>0 DEF Inv, CallInv
  <2>2. ids' = AllocateID(ids, n) /\ UNCHANGED <<entry, agenda, dropped>> BY <1>2 DEF ZoneAllocate
  <2>3. thread' = [thread EXCEPT ![Zone][n] = new] BY <1>0, <1>2 DEF ZoneAllocate, Inv, CallInv
  <2>4. new \in ThreadState /\ new.pc = "patch" /\ new.node = th.node /\ new.retry = th.retry
    <3> HIDE DEF th
    <3> QED BY <2>1 DEF ThreadState
  <2>5. th.node # None /\ (th.retry => entry[Zone][n] # None)
    BY <1>1, <2>1 DEF ThreadOK
  <2>6. ~th.retry => agenda # <<>> /\ Head(agenda).op = "event" /\ Head(agenda).ctrl = Zone /\ Head(agenda).node = n
    BY <1>1, <2>1 DEF ThreadOK
  <2> HIDE DEF new, th
  <2>7. CallInv' BY <1>0, <2>2, <2>3, <2>4, <2>5, <2>6, GoesOn DEF Inv
  <2>8. IDInv(ids') BY <1>2, <2>2, AllocateIDKeeps DEF Inv
  <2> QED BY <1>1, <2>7, <2>8, LocalStep DEF Inv
<1>3. CASE ~CanAllocateID(ids, n)
  <2>1. Returned(Zone, n, TRUE) /\ UNCHANGED ids BY <1>3 DEF ZoneAllocate
  <2>2. CallInv' BY <1>0, <1>1, <2>1, ReturnedKeeps DEF Inv
  <2> QED BY <1>1, <2>1, <2>2, LocalStep DEF Inv
<1> QED BY <1>2, <1>3

\* What a patch stores is a node.
LEMMA PatchedType ==
    ASSUME Inv, NEW c \in Controllers, NEW n \in Nodes, api[n].obj # None
    PROVE  Patched(c, n) \in NodeObject
<1>1. api[n].obj \in NodeObject BY DEF Inv, WorldInv, Version
<1>2. ids.of[n] \in (0 .. MaxID - 1) \cup {None} BY DEF Inv, IDInv, IDAllocator
<1>3. thread[c][n].kept \cup thread[c][n].allocated \in SUBSET Subnet BY CallType DEF Inv
<1> QED BY <1>1, <1>2, <1>3 DEF Patched, NodeObject

\* A patch that has failed.
LEMMA PatchFailedKeeps ==
    ASSUME Inv, NEW c \in Controllers, NEW n \in Nodes, thread[c][n].pc # "idle", PatchFailed(c, n)
    PROVE  CallInv' /\ PoolInv(pool')
<1>1. CallInv' BY ReturnedKeeps DEF PatchFailed, Inv
<1>2. PoolInv(pool') BY ReleaseAllKeeps DEF PatchFailed, Inv
<1> QED BY <1>1, <1>2

\* A patch that is stored, or finds the node gone.
LEMMA PatchKeeps ==
    ASSUME Inv, NEW c \in Controllers, NEW n \in Nodes, Patch(c, n)
    PROVE  Inv'
<1>1. thread[c][n].pc = "patch" /\ UNCHANGED <<ids, failures, CallVars>> BY DEF Patch
<1>2. CASE api[n].obj = None
  <2>1. PatchFailed(c, n) /\ UNCHANGED <<api, stream>> BY <1>2 DEF Patch
  <2>2. CallInv' /\ PoolInv(pool') BY <1>1, <2>1, PatchFailedKeeps
  <2> QED BY <1>1, <2>1, <2>2, LocalStep DEF Inv
<1>3. CASE api[n].obj # None
  <2>1. Store(n, Patched(c, n)) /\ Returned(c, n, FALSE) /\ UNCHANGED pool BY <1>3 DEF Patch
  <2>2. api' \in [Nodes -> Version] /\ stream' \in Seq([node : Nodes, ver : Version])
    BY <1>3, <2>1, PatchedType, StoreKeeps DEF Inv
  <2>3. CallInv' BY <1>1, <2>1, ReturnedKeeps DEF Inv
  <2> QED BY <1>1, <2>1, <2>2, <2>3, ServerStep DEF Inv, WorldInv
<1> QED BY <1>2, <1>3

\* A patch that fails, stored or not.
LEMMA PatchFailsKeeps ==
    ASSUME Inv, NEW c \in Controllers, NEW n \in Nodes, PatchFails(c, n)
    PROVE  Inv'
<1>1. thread[c][n].pc = "patch" /\ PatchFailed(c, n) /\ UNCHANGED <<ids, CallVars>> BY DEF PatchFails
<1>2. failures' \in Nat BY DEF PatchFails, APIFails, Inv, WorldInv
<1>3. CallInv' /\ PoolInv(pool') BY <1>1, PatchFailedKeeps
<1>4. api' \in [Nodes -> Version] /\ stream' \in Seq([node : Nodes, ver : Version])
  <2>1. CASE UNCHANGED <<api, stream>> BY <2>1 DEF Inv, WorldInv
  <2>2. CASE api[n].obj # None /\ Store(n, Patched(c, n)) BY <2>2, PatchedType, StoreKeeps DEF Inv
  <2> QED BY <2>1, <2>2 DEF PatchFails
<1> QED BY <1>1, <1>2, <1>3, <1>4, ServerStep DEF Inv

\* The goroutine of events makes its next call.
LEMMA HandleEventKeeps ==
    ASSUME Inv, HandleEvent
    PROVE  Inv'
<1> DEFINE c == Head(agenda).ctrl
           n == Head(agenda).node
           old == Head(agenda).old
           new == Head(agenda).new
<1>1. agenda # <<>> /\ Head(agenda).op = "event" /\ thread[c][n].pc = "idle" BY DEF HandleEvent
<1>2. UNCHANGED <<api, stream, failures, CallVars>> BY DEF HandleEvent
<1>3. Head(agenda) \in Work /\ Tail(agenda) \in Seq(Work)
  BY <1>1, HeadAndTail DEF Inv, CallInv
<1>4. c \in Controllers /\ n \in Nodes /\ new \in NodeObject \cup {None} BY <1>3 DEF Work
<1>5. \A d \in Controllers, m \in Nodes : thread[d][m].pc = "idle" \/ thread[d][m].retry
  BY <1>1 DEF Inv, CallInv, ThreadOK
<1>6. CASE new = None
  <2>1. /\ HandleDeleteNode(c, n) /\ entry' = [entry EXCEPT ![c][n] = None]
        /\ dropped' = dropped \ {<<c, n>>} /\ agenda' = Tail(agenda) /\ UNCHANGED thread
    BY <1>6 DEF HandleEvent
  <2> HIDE DEF c, n, old, new
  <2>2. PoolInv(pool') /\ IDInv(ids')
    BY <1>4, <2>1, ReleaseAllKeeps, ReleaseIDKeeps DEF HandleDeleteNode, Inv
  <2>3. CallInv'
    <3>1. entry' \in [Controllers -> [Nodes -> Nat \cup {None}]] BY <2>1 DEF Inv, CallInv
    <3>2. ASSUME NEW d \in Controllers, NEW m \in Nodes PROVE ThreadOK(d, m)'
      <4>1. ThreadOK(d, m) BY DEF Inv, CallInv
      <4>2. CASE d = c /\ m = n BY <1>1, <2>1, <4>2 DEF ThreadOK, c, n
      <4>3. CASE ~(d = c /\ m = n)
        <5>1. entry'[d][m] = entry[d][m] BY <2>1, <4>3 DEF Inv, CallInv
        <5> QED BY <1>5, <2>1, <4>1, <5>1 DEF ThreadOK
      <4> QED BY <4>2, <4>3
    <3> QED BY <1>3, <2>1, <3>1, <3>2 DEF Inv, CallInv
  <2> QED BY <1>2, <2>2, <2>3, LocalStep
<1>7. CASE new # None /\ Begin(c, n, new, FALSE)
  <2> HIDE DEF old, new
  <2>1. CallInv' /\ UNCHANGED <<pool, ids>> BY <1>1, <1>4, <1>7, BeginKeeps DEF Inv
  <2> QED BY <1>2, <2>1, LocalStep DEF Inv
<1>8. CASE agenda' = Tail(agenda) /\ UNCHANGED <<thread, entry, dropped, pool, ids>>
  <2>1. CallInv' BY <1>3, <1>5, <1>8, OtherWork DEF Inv
  <2> QED BY <1>2, <1>8, <2>1, LocalStep DEF Inv
<1>9. CASE cached[n].obj # None /\ Begin(c, n, cached[n].obj, FALSE)
  <2>1. cached[n].obj \in NodeObject BY <1>4, <1>9 DEF Inv, WorldInv, Version
  <2>2. CallInv' /\ UNCHANGED <<pool, ids>> BY <1>1, <1>4, <1>9, <2>1, BeginKeeps DEF Inv
  <2> QED BY <1>2, <2>2, LocalStep DEF Inv
<1> QED BY <1>6, <1>7, <1>8, <1>9, Zenon DEF HandleEvent

\* A retry begins, or an entry is given up.
LEMMA RetryKeeps ==
    ASSUME Inv, NEW c \in Controllers, NEW n \in Nodes, Retry(c, n)
    PROVE  Inv'
<1>1. thread[c][n].pc = "idle" /\ entry[c][n] # None /\ UNCHANGED <<api, stream, failures, CallVars>> BY DEF Retry
<1>2. CASE entry[c][n] < MaxFailedAttempts /\ cached[n].obj # None
  <2>1. Begin(c, n, cached[n].obj, TRUE) BY <1>2 DEF Retry
  <2>2. cached[n].obj \in NodeObject BY <1>2 DEF Inv, WorldInv, Version
  <2>3. CallInv' /\ UNCHANGED <<pool, ids>> BY <1>1, <1>2, <2>1, <2>2, BeginKeeps DEF Inv
  <2> QED BY <1>1, <2>3, LocalStep DEF Inv
<1>3. CASE ~(entry[c][n] < MaxFailedAttempts /\ cached[n].obj # None)
  <2>1. /\ entry' = [entry EXCEPT ![c][n] = None] /\ dropped' \subseteq dropped \cup {<<c, n>>}
        /\ UNCHANGED <<thread, agenda, pool, ids>>
    BY <1>3 DEF Retry
  <2>2. entry' \in [Controllers -> [Nodes -> Nat \cup {None}]] /\ dropped' \subseteq Controllers \X Nodes
    BY <2>1 DEF Inv, CallInv
  <2>3. ASSUME NEW d \in Controllers, NEW m \in Nodes PROVE ThreadOK(d, m)'
    <3>1. ThreadOK(d, m) BY DEF Inv, CallInv
    <3>2. CASE d = c /\ m = n BY <1>1, <2>1, <3>2 DEF ThreadOK
    <3>3. CASE ~(d = c /\ m = n)
      <4>1. entry'[d][m] = entry[d][m] BY <2>1, <3>3 DEF Inv, CallInv
      <4> QED BY <2>1, <3>1, <4>1 DEF ThreadOK
    <3> QED BY <3>2, <3>3
  <2>4. CallInv' BY <2>1, <2>2, <2>3 DEF Inv, CallInv
  <2> QED BY <1>1, <2>1, <2>4, LocalStep DEF Inv
<1> QED BY <1>2, <1>3

-----------------------------------------------------------------------------
(***************************************************************************)
(* The theorems                                                            *)
(***************************************************************************)

\* The invariant holds when the cluster manager starts.
LEMMA InitOK == Init => Inv
<1> SUFFICES ASSUME Init PROVE Inv
  OBVIOUS
<1>1. scenario \in Scenarios /\ scenario.nodes \in [Nodes -> NodeObject \cup {None}]
  BY ScenariosTyped DEF Init, Scenario
<1>2. api \in [Nodes -> Version]
  <2>1. ASSUME NEW n \in Nodes PROVE [obj |-> scenario.nodes[n], rv |-> 0] \in Version
    BY <1>1 DEF Version
  <2> QED BY <2>1 DEF Init
<1>3. WorldInv BY <1>1, <1>2 DEF Init, WorldInv
<1>4. Idle \in ThreadState BY ConstantsTyped DEF Idle, ThreadState
<1>5. CallInv
  <2>1. thread \in [Controllers -> [Nodes -> ThreadState]] BY <1>4 DEF Init
  <2>2. entry \in [Controllers -> [Nodes -> Nat \cup {None}]] /\ dropped = {} /\ agenda \in Seq(Work)
    BY DEF Init
  <2>3. ASSUME NEW c \in Controllers, NEW n \in Nodes PROVE ThreadOK(c, n)
    <3>1. thread[c][n] = Idle BY DEF Init
    <3> QED BY <3>1 DEF ThreadOK, Idle
  <2> QED BY <2>1, <2>2, <2>3 DEF CallInv
<1> QED BY <1>3, <1>5, NewPoolOK, NewIDsOK DEF Inv, Init

\* Every step keeps the invariant.
LEMMA NextOK == Inv /\ [Next]_vars => Inv'
<1> SUFFICES ASSUME Inv, [Next]_vars PROVE Inv'
  OBVIOUS
<1>1. CASE Environment
  <2>1. CASE Restart BY <2>1, RestartKeeps
  <2>2. CASE \E n \in scenario.names : CreateNode(n) \/ DeleteNode(n) \/ AnnotateNode(n)
    BY <2>2, ChangesKeep
  <2> QED BY <1>1, <2>1, <2>2 DEF Environment
<1>2. CASE System
  <2>1. CASE Watch BY <2>1, WatchKeeps
  <2>2. CASE Deliver BY <2>2, DeliverKeeps
  <2>3. CASE Sync BY <2>3, SyncKeeps
  <2>4. CASE HandleEvent BY <2>4, HandleEventKeeps
  <2>5. CASE \E c \in Controllers : Start(c) BY <2>5, StartKeeps
  <2>6. CASE \E n \in Nodes : ZoneAllocate(n) BY <2>6, ZoneAllocateKeeps
  <2>7. CASE \E c \in Controllers, n \in Nodes : Retry(c, n) BY <2>7, RetryKeeps
  <2>8. ASSUME NEW c \in Controllers, NEW n \in Nodes, CallStep(c, n) PROVE Inv'
    BY <2>8, SkipKeeps, CheckKeeps, AllocateSubnetKeeps, ExhaustedKeeps, GetKeeps, UpdateKeeps, PatchKeeps
       DEF CallStep
  <2> QED BY <1>2, <2>1, <2>2, <2>3, <2>4, <2>5, <2>6, <2>7, <2>8 DEF System
<1>3. ASSUME NEW c \in Controllers, NEW n \in Nodes, Failure(c, n) PROVE Inv'
  BY <1>3, UpdateFailsKeeps, PatchFailsKeeps DEF Failure
<1>4. CASE UNCHANGED vars
  <2>1. CallInv' BY <1>4, CallsKept DEF Inv, vars
  <2>2. WorldInv' BY <1>4 DEF Inv, WorldInv, vars
  <2> QED BY <1>4, <2>1, <2>2 DEF Inv, vars
<1> QED BY <1>1, <1>2, <1>3, <1>4 DEF Next

\* The inductive invariant: what the calls in progress rely on - a call that is no
\* retry is the one at the head of the goroutine of events, and a retry has its
\* entry - together with the state of the allocators.
THEOREM Invariance == Spec => []IndInv
<1>1. Init => Inv BY InitOK
<1>2. Inv /\ [Next]_vars => Inv' BY NextOK
<1>3. Inv <=> IndInv BY Parts
<1> QED BY <1>1, <1>2, <1>3, PTL DEF Spec

\* Type correctness; among others, the search for a subnet starts within its range,
\* and a counter of subnets in use is never negative.
THEOREM TypeCorrect == Spec => []TypeOK
<1>1. IndInv => TypeOK BY DEF IndInv
<1> QED BY <1>1, Invariance, PTL

\* The counters of the subnet allocators are the numbers of subnets in use, so that
\* the unsigned ones of the code do not wrap round, and no two nodes have one ID,
\* for any number of nodes and controllers, failures, conflicts and restarts.
THEOREM Exactness == Spec => []AllocatorsExact
<1>1. IndInv => AllocatorsExact BY DEF IndInv
<1> QED BY <1>1, Invariance, PTL

-----------------------------------------------------------------------------
(***************************************************************************)
(* That nothing stays allocated for nodes that are gone                    *)
(*                                                                         *)
(* What a controller has for a node is released when it handles the        *)
(* deletion, and at no other time is it sure to be.  So whoever has        *)
(* something for a node, or is about to allocate something, must still be  *)
(* told of a deletion: the node is in the cache, and its deletion will     *)
(* come with the stream when the API server has it, or the deletion is     *)
(* queued, or it is among the calls to be made.                            *)
(***************************************************************************)

\* An element of S is in q at i or later.
Ends(q, i, S) == \E j \in DOMAIN q : j >= i /\ q[j] \in S

GoneVersion(n) == {x \in [node : Nodes, ver : Version] : x.node = n /\ x.ver.obj = None}

Event == [node : Nodes, old : NodeObject \cup {None}, new : NodeObject \cup {None}]

DeleteEvent(n) == {e \in Event : e.node = n /\ e.new = None}

DeleteCall(c, n) == {w \in Work : w.op = "event" /\ w.ctrl = c /\ w.node = n /\ w.new = None}

\* Controller c will handle a deletion of n, with the calls of the agenda from i
\* on, or when a node that is still in the cache is deleted.
DueFrom(c, n, i) ==
    cached[n].obj # None \/ Ends(queue, 1, DeleteEvent(n)) \/ Ends(agenda, i, DeleteCall(c, n))

Due(c, n) == DueFrom(c, n, 1)

\* The last version on the way of a node that is gone says so.
StreamInv ==
    \A n \in Nodes : api[n].obj = None =>
        /\ cached[n].obj # None => Ends(stream, 1, GoneVersion(n))
        /\ \A i \in DOMAIN stream : stream[i].node = n => Ends(stream, i, GoneVersion(n))

\* So does the last event of a node that the cache does not have.
QueueInv ==
    \A i \in DOMAIN queue :
        cached[queue[i].node].obj = None => Ends(queue, i, DeleteEvent(queue[i].node))

\* A call is followed by a deletion if the node is gone.
AgendaInv ==
    \A i \in DOMAIN agenda :
        agenda[i].ctrl \in started /\ DueFrom(agenda[i].ctrl, agenda[i].node, i)

\* So is a call being made, and the one of an event is no deletion.
ThreadInv ==
    \A c \in Controllers, n \in Nodes :
        /\ thread[c][n].pc # "idle" => /\ c \in started /\ Due(c, n)
                                       /\ ~thread[c][n].retry => Head(agenda).new # None
        /\ entry[c][n] # None => c \in started

\* Who has something will be released from it.
OwnersInv ==
    /\ \A n \in Nodes : ids.of[n] # None => Zone \in started /\ Due(Zone, n)
    /\ ~scenario.hybrid => \A s \in Subnet : pool.alloc[s] # None =>
                               \E c \in started \cap Nets : InPool(c, s) /\ Due(c, pool.alloc[s])

LeakInv == StreamInv /\ QueueInv /\ AgendaInv /\ ThreadInv /\ OwnersInv

-----------------------------------------------------------------------------
(***************************************************************************)
(* Sequences that end with something                                       *)
(***************************************************************************)

\* Taking the first element off.
LEMMA EndsTail ==
    ASSUME NEW T, NEW q \in Seq(T), q # <<>>, NEW S, NEW i \in Nat, Ends(q, i, S)
    PROVE  /\ i >= 2 => Ends(Tail(q), i - 1, S)
           /\ Head(q) \notin S => Ends(Tail(q), 1, S)
<1>1. PICK j \in DOMAIN q : j >= i /\ q[j] \in S BY DEF Ends
<1>2. j \in 1 .. Len(q) BY <1>1
<1>3. CASE j = 1 BY <1>1, <1>3
<1>4. CASE j # 1
  <2>1. j - 1 \in DOMAIN Tail(q) /\ Tail(q)[j - 1] = q[j] BY <1>2, <1>4
  <2> QED BY <1>1, <1>2, <1>4, <2>1 DEF Ends
<1> QED BY <1>3, <1>4

\* The elements that remain.
LEMMA TailAt ==
    ASSUME NEW T, NEW q \in Seq(T), q # <<>>, NEW i \in DOMAIN Tail(q)
    PROVE  i \in Nat /\ i >= 1 /\ i + 1 \in DOMAIN q /\ Tail(q)[i] = q[i + 1]
  OBVIOUS

\* Adding one.
LEMMA EndsAppend ==
    ASSUME NEW T, NEW q \in Seq(T), NEW e, NEW S, NEW i \in Nat
    PROVE  /\ Ends(q, i, S) => Ends(Append(q, e), i, S)
           /\ i \in DOMAIN Append(q, e) /\ e \in S => Ends(Append(q, e), i, S)
           /\ e \in S => Ends(Append(q, e), 1, S)
<1> DEFINE r == Append(q, e)
           l == Len(q) + 1
<1>1. l \in DOMAIN r /\ r[l] = e /\ l >= 1 /\ \A j \in DOMAIN r : l >= j OBVIOUS
<1>2. \A j \in DOMAIN q : j \in DOMAIN r /\ r[j] = q[j] OBVIOUS
<1> HIDE DEF r, l
<1>3. Ends(q, i, S) => Ends(r, i, S) BY <1>2 DEF Ends
<1>4. i \in DOMAIN r /\ e \in S => Ends(r, i, S) BY <1>1 DEF Ends
<1>5. e \in S => Ends(r, 1, S) BY <1>1 DEF Ends
<1> QED BY <1>3, <1>4, <1>5 DEF r

\* What comes at i or later comes at 1 or later.
LEMMA EndsFirst ==
    ASSUME NEW T, NEW q \in Seq(T), NEW S, NEW i \in Nat, Ends(q, i, S)
    PROVE  Ends(q, 1, S)
  BY DEF Ends

\* Nothing is in an empty sequence.
LEMMA EndsEmpty == ASSUME NEW S PROVE ~Ends(<<>>, 1, S)
  BY DEF Ends

-----------------------------------------------------------------------------
(***************************************************************************)
(* At rest                                                                 *)
(***************************************************************************)

\* When nothing is left to do, nodes that something is due for exist.
LEMMA RestIsClean ==
    ASSUME Inv, LeakInv
    PROVE  NothingLeaked
<1> SUFFICES ASSUME Settled, ~scenario.hybrid
             PROVE  /\ \A s \in Subnet : pool.alloc[s] # None => api[pool.alloc[s]].obj # None
                    /\ \A n \in Nodes : ids.of[n] # None => api[n].obj # None
  BY DEF NothingLeaked
<1>1. stream = <<>> /\ queue = <<>> /\ agenda = <<>> BY DEF Settled
<1>2. ASSUME NEW c, NEW n \in Nodes, Due(c, n) PROVE api[n].obj # None
  <2>1. cached[n].obj # None BY <1>1, <1>2, EndsEmpty DEF Due, DueFrom
  <2>2. ~Ends(stream, 1, GoneVersion(n)) BY <1>1, EndsEmpty
  <2> QED BY <2>1, <2>2 DEF LeakInv, StreamInv
<1>3. \A n \in Nodes : ids.of[n] # None => api[n].obj # None BY <1>2 DEF LeakInv, OwnersInv
<1>4. ASSUME NEW s \in Subnet, pool.alloc[s] # None PROVE api[pool.alloc[s]].obj # None
  <2>1. pool.alloc[s] \in Nodes BY <1>4 DEF Inv, PoolInv, SubnetAllocator
  <2>2. PICK c \in started \cap Nets : Due(c, pool.alloc[s]) BY <1>4 DEF LeakInv, OwnersInv
  <2> QED BY <1>2, <2>1, <2>2
<1> QED BY <1>3, <1>4

-----------------------------------------------------------------------------
(***************************************************************************)
(* The API server and the informer                                         *)
(***************************************************************************)

\* A step that leaves the allocators and calls alone and takes no deletion away.
LEMMA HeldKept ==
    ASSUME Inv, ThreadInv, OwnersInv, UNCHANGED <<scenario, pool, ids, thread, entry>>,
           started \subseteq started',
           \A c \in started, n \in Nodes : Due(c, n) => Due(c, n)',
           \A c \in Controllers, n \in Nodes :
               thread[c][n].pc # "idle" /\ ~thread[c][n].retry => agenda' = agenda
    PROVE  ThreadInv' /\ OwnersInv'
<1>1. ASSUME NEW c \in Controllers, NEW n \in Nodes
      PROVE  /\ thread'[c][n].pc # "idle" => /\ c \in started' /\ Due(c, n)'
                                             /\ ~thread'[c][n].retry => Head(agenda').new # None
             /\ entry'[c][n] # None => c \in started'
  BY DEF ThreadInv
<1>2. ThreadInv' BY <1>1 DEF ThreadInv
<1>3. \A n \in Nodes : ids'.of[n] # None => Zone \in started' /\ Due(Zone, n)'
  BY DEF OwnersInv
<1>4. ASSUME ~scenario'.hybrid, NEW s \in Subnet, pool'.alloc[s] # None
      PROVE  \E c \in started' \cap Nets : InPool(c, s) /\ Due(c, pool.alloc[s])'
  <2>1. pool.alloc[s] \in Nodes BY <1>4 DEF Inv, PoolInv, SubnetAllocator
  <2>2. PICK c \in started \cap Nets : InPool(c, s) /\ Due(c, pool.alloc[s]) BY <1>4 DEF OwnersInv
  <2>3. Due(c, pool.alloc[s])' BY <2>1, <2>2
  <2> QED BY <2>2, <2>3
<1>5. OwnersInv' BY <1>3, <1>4 DEF OwnersInv
<1> QED BY <1>2, <1>5

\* What is due depends on the cache, the events and the calls.
LEMMA DueKept ==
    ASSUME UNCHANGED <<cached, queue, agenda>>
    PROVE  \A c, n, i : DueFrom(c, n, i)' = DueFrom(c, n, i)
  BY DEF DueFrom, Ends

\* A version is stored; the deletion comes with the stream.
LEMMA StoreReported ==
    ASSUME WorldInv, StreamInv, NEW n \in Nodes, NEW obj \in NodeObject \cup {None}, Store(n, obj),
           UNCHANGED cached
    PROVE  StreamInv'
<1>1. CASE obj = api[n].obj BY <1>1 DEF Store, StreamInv, Ends
<1>2. CASE obj # api[n].obj
  <2> DEFINE v == [obj |-> obj, rv |-> api[n].rv + 1]
             e == [node |-> n, ver |-> v]
             T == [node : Nodes, ver : Version]
  <2>1. v \in Version /\ v.obj = obj BY DEF WorldInv, Version
  <2>2. api' = [api EXCEPT ![n] = v] /\ stream' = Append(stream, e) BY <1>2 DEF Store
  <2> HIDE DEF v
  <2>3. e \in T /\ e.node = n /\ e.ver = v BY <2>1
  <2>4. stream \in Seq(T) BY DEF WorldInv
  <2> HIDE DEF e
  <2> SUFFICES ASSUME NEW m \in Nodes, api'[m].obj = None
               PROVE  /\ cached[m].obj # None => Ends(stream', 1, GoneVersion(m))
                      /\ \A i \in DOMAIN stream' : stream'[i].node = m => Ends(stream', i, GoneVersion(m))
    BY DEF StreamInv
  <2>5. CASE m = n
    <3>1. e \in GoneVersion(m) BY <2>1, <2>2, <2>3, <2>5 DEF GoneVersion, WorldInv
    <3>2. Ends(stream', 1, GoneVersion(m)) BY <2>2, <2>4, <3>1, EndsAppend
    <3>3. ASSUME NEW i \in DOMAIN stream' PROVE Ends(stream', i, GoneVersion(m))
      <4>1. i \in Nat BY <2>2, <2>3, <2>4
      <4> QED BY <2>2, <2>4, <3>1, <4>1, EndsAppend
    <3> QED BY <3>2, <3>3
  <2>6. CASE m # n
    <3>1. api[m].obj = None BY <2>2, <2>6 DEF WorldInv
    <3>2. cached[m].obj # None => Ends(stream', 1, GoneVersion(m))
      BY <2>2, <2>4, <3>1, EndsAppend DEF StreamInv
    <3>3. ASSUME NEW i \in DOMAIN stream', stream'[i].node = m PROVE Ends(stream', i, GoneVersion(m))
      <4>1. i \in Nat /\ i \in DOMAIN stream /\ stream'[i] = stream[i] BY <2>2, <2>3, <2>4, <2>6, <3>3
      <4> QED BY <2>2, <2>4, <3>1, <3>3, <4>1, EndsAppend DEF StreamInv
    <3> QED BY <3>2, <3>3
  <2> QED BY <2>5, <2>6
<1> QED BY <1>1, <1>2

\* The changes made by others.
LEMMA ChangesLeaveNothing ==
    ASSUME Inv, LeakInv, NEW n \in scenario.names, CreateNode(n) \/ DeleteNode(n) \/ AnnotateNode(n)
    PROVE  LeakInv'
<1>1. n \in Nodes BY ScenarioType DEF Inv
<1>2. PICK obj \in NodeObject \cup {None} : Store(n, obj)
  <2>1. CASE CreateNode(n) BY <2>1, ScenarioType DEF CreateNode, Inv
  <2>2. CASE DeleteNode(n) BY <2>2 DEF DeleteNode
  <2>3. CASE AnnotateNode(n)
    <3> DEFINE new == [api[n].obj EXCEPT !.other = ~@]
    <3>1. api[n].obj \in NodeObject BY <1>1, <2>3 DEF AnnotateNode, Inv, WorldInv, Version
    <3>2. new \in NodeObject BY <3>1 DEF NodeObject
    <3>3. Store(n, new) BY <2>3 DEF AnnotateNode
    <3> QED BY <3>2, <3>3
  <2> QED BY <2>1, <2>2, <2>3
<1>3. UNCHANGED <<scenario, cached, queue, agenda, started, entry, pool, ids, thread>>
  BY DEF CreateNode, DeleteNode, AnnotateNode, ProcessVars
<1>4. StreamInv' BY <1>1, <1>2, <1>3, StoreReported DEF Inv, LeakInv
<1>5. QueueInv' BY <1>3 DEF LeakInv, QueueInv, Ends
<1>6. \A c, m, i : DueFrom(c, m, i)' = DueFrom(c, m, i) BY <1>3, DueKept
<1>7. AgendaInv' BY <1>3, <1>6 DEF LeakInv, AgendaInv
<1>8. ThreadInv' /\ OwnersInv' BY <1>3, <1>6, HeldKept DEF LeakInv, Due
<1> QED BY <1>4, <1>5, <1>7, <1>8 DEF LeakInv

\* A new process has nothing allocated.
LEMMA RestartLeavesNothing ==
    ASSUME Inv, Restart
    PROVE  LeakInv'
<1>1. stream' = <<>> /\ queue' = <<>> /\ agenda' = <<>> /\ cached' = api' BY DEF Restart
<1>2. StreamInv' BY <1>1 DEF StreamInv
<1>3. QueueInv' /\ AgendaInv' BY <1>1 DEF QueueInv, AgendaInv
<1>4. ASSUME NEW c \in Controllers, NEW n \in Nodes PROVE thread'[c][n].pc = "idle" /\ entry'[c][n] = None
  <2>1. thread'[c][n] = Idle /\ entry'[c][n] = None BY DEF Restart
  <2> QED BY <2>1 DEF Idle
<1>5. ThreadInv' BY <1>4 DEF ThreadInv
<1>6. pool' = NewPool /\ ids' = NewIDs BY DEF Restart
<1>7. OwnersInv' BY <1>6 DEF OwnersInv, NewPool, NewIDs
<1> QED BY <1>2, <1>3, <1>5, <1>7 DEF LeakInv

\* An enumeration of a finite set has all of its elements.
LEMMA EnumerationIsOnto ==
    ASSUME NEW S, IsFiniteSet(S), NEW order \in SetToSeqs(S), NEW x \in S
    PROVE  \E i \in 1 .. Len(order) : order[i] = x
<1> DEFINE k == Cardinality(S)
<1>1. k \in Nat BY FS_CardinalityType
<1>2. order \in [1 .. k -> S] /\ \A i, j \in 1 .. k : i # j => order[i] # order[j] BY DEF SetToSeqs
<1>3. Cardinality(1 .. k) = k
  <2>1. Cardinality(1 .. k) = IF 1 > k THEN 0 ELSE k - 1 + 1 BY <1>1, FS_Interval
  <2> QED BY <1>1, <2>1
<1>4. order \in Injection(1 .. k, S) BY <1>2 DEF Injection, IsInjective
<1>5. order \in Surjection(1 .. k, S) BY <1>3, <1>4, FS_Injection
<1>6. \E i \in 1 .. k : order[i] = x BY <1>5 DEF Surjection
<1>7. Len(order) = k BY <1>1, <1>2
<1> QED BY <1>6, <1>7

\* The informer receives a version: a deletion is queued as the node leaves the cache.
LEMMA WatchLeavesNothing ==
    ASSUME Inv, LeakInv, Watch
    PROVE  LeakInv'
<1> DEFINE n == Head(stream).node
           v == Head(stream).ver
           e == [node |-> n, old |-> cached[n].obj, new |-> v.obj]
           T == [node : Nodes, ver : Version]
<1>1. stream # <<>> /\ stream \in Seq(T) /\ stream' = Tail(stream) BY DEF Watch, Inv, WorldInv
<1> HIDE DEF T
<1>2. Head(stream) \in T BY <1>1, HeadAndTail
<1>3. n \in Nodes /\ v \in Version BY <1>2 DEF T
<1>4. cached' = [cached EXCEPT ![n] = v] /\ queue' = Append(queue, e) BY DEF Watch
<1>5. UNCHANGED <<scenario, api, agenda, started, entry, pool, ids, thread>> BY DEF Watch
<1>6. e \in Event /\ e.node = n /\ e.new = v.obj
  BY <1>3 DEF Inv, WorldInv, Version, Event
<1>7. v.obj = None => Head(stream) \in GoneVersion(n) BY <1>2 DEF GoneVersion, T
<1>8. \A m \in Nodes : Head(stream) \in GoneVersion(m) => m = n /\ v.obj = None BY DEF GoneVersion
<1>9. queue \in Seq(Event) BY DEF Inv, WorldInv, Event
<1>10. stream[1] = Head(stream) /\ 1 \in DOMAIN stream BY <1>1
<1>11. stream[1].node = n BY <1>10
<1> HIDE DEF n, v, e
<1>12. v.obj = None => e \in DeleteEvent(n) BY <1>6 DEF DeleteEvent
<1>13. cached'[n].obj = v.obj /\ \A m \in Nodes : m # n => cached'[m] = cached[m]
  BY <1>3, <1>4 DEF Inv, WorldInv
<1>14. StreamInv'
  <2> SUFFICES ASSUME NEW m \in Nodes, api[m].obj = None
               PROVE  /\ cached'[m].obj # None => Ends(stream', 1, GoneVersion(m))
                      /\ \A i \in DOMAIN stream' : stream'[i].node = m => Ends(stream', i, GoneVersion(m))
    BY <1>5 DEF StreamInv
  <2>1. ASSUME cached'[m].obj # None PROVE Ends(stream', 1, GoneVersion(m))
    <3>1. Head(stream) \notin GoneVersion(m) BY <1>8, <1>13, <2>1
    <3>2. Ends(stream, 1, GoneVersion(m))
      <4>1. CASE m = n BY <1>10, <1>11, <4>1 DEF LeakInv, StreamInv
      <4>2. CASE m # n BY <1>13, <2>1, <4>2 DEF LeakInv, StreamInv
      <4> QED BY <4>1, <4>2
    <3> QED BY <1>1, <3>1, <3>2, EndsTail
  <2>2. ASSUME NEW i \in DOMAIN stream', stream'[i].node = m PROVE Ends(stream', i, GoneVersion(m))
    <3>1. i \in Nat /\ i >= 1 /\ i + 1 \in DOMAIN stream /\ stream'[i] = stream[i + 1] BY <1>1, TailAt
    <3>2. Ends(stream, i + 1, GoneVersion(m)) BY <2>2, <3>1 DEF LeakInv, StreamInv
    <3>3. i + 1 \in Nat /\ i + 1 >= 2 /\ (i + 1) - 1 = i BY <3>1
    <3>4. Ends(stream', (i + 1) - 1, GoneVersion(m)) BY <1>1, <3>2, <3>3, EndsTail
    <3> QED BY <3>3, <3>4
  <2> QED BY <2>1, <2>2
<1>15. QueueInv'
  <2> SUFFICES ASSUME NEW i \in DOMAIN queue', cached'[queue'[i].node].obj = None
               PROVE  Ends(queue', i, DeleteEvent(queue'[i].node))
    BY DEF QueueInv
  <2>1. i \in Nat /\ ((i \in DOMAIN queue /\ queue'[i] = queue[i]) \/ queue'[i] = e) BY <1>4, <1>6, <1>9
  <2>2. CASE queue'[i].node = n
    <3>1. e \in DeleteEvent(n) BY <1>12, <1>13, <2>2
    <3> QED BY <1>4, <1>9, <2>1, <2>2, <3>1, EndsAppend
  <2>3. CASE queue'[i].node # n
    <3>1. i \in DOMAIN queue /\ queue'[i] = queue[i] BY <1>6, <2>1, <2>3
    <3>2. queue[i].node \in Nodes
      <4>1. queue[i] \in Event BY <1>9, <3>1
      <4> QED BY <4>1 DEF Event
    <3>3. cached[queue[i].node].obj = None BY <1>13, <2>3, <3>1, <3>2
    <3>4. Ends(queue, i, DeleteEvent(queue[i].node)) BY <3>1, <3>3 DEF LeakInv, QueueInv
    <3> QED BY <1>4, <1>9, <2>1, <3>1, <3>4, EndsAppend
  <2> QED BY <2>2, <2>3
<1>16. ASSUME NEW c, NEW m \in Nodes, NEW i, DueFrom(c, m, i) PROVE DueFrom(c, m, i)'
  <2>1. CASE cached[m].obj # None
    <3>1. CASE m = n /\ v.obj = None
      <4>1. Ends(queue', 1, DeleteEvent(m)) BY <1>4, <1>9, <1>12, <3>1, EndsAppend
      <4> QED BY <4>1 DEF DueFrom
    <3>2. CASE ~(m = n /\ v.obj = None) BY <1>13, <2>1, <3>2 DEF DueFrom
    <3> QED BY <3>1, <3>2
  <2>2. CASE Ends(queue, 1, DeleteEvent(m))
    <3>1. Ends(queue', 1, DeleteEvent(m)) BY <1>4, <1>9, <2>2, EndsAppend
    <3> QED BY <3>1 DEF DueFrom
  <2>3. CASE Ends(agenda, i, DeleteCall(c, m)) BY <1>5, <2>3 DEF DueFrom, Ends
  <2> QED BY <1>16, <2>1, <2>2, <2>3 DEF DueFrom
<1>17. AgendaInv'
  <2>1. \A i \in DOMAIN agenda : agenda[i].node \in Nodes BY DEF Inv, CallInv, Work
  <2> QED BY <1>5, <1>16, <2>1 DEF LeakInv, AgendaInv
<1>18. ThreadInv' /\ OwnersInv' BY <1>5, <1>16, HeldKept DEF LeakInv, Due
<1> QED BY <1>14, <1>15, <1>17, <1>18 DEF LeakInv

\* Between events no call is in the goroutine of events.
LEMMA NoCallOfEvent ==
    ASSUME Inv, agenda = <<>>
    PROVE  \A c \in Controllers, n \in Nodes : thread[c][n].pc = "idle" \/ thread[c][n].retry
  BY DEF Inv, CallInv, ThreadOK

\* An event is given to all handlers: a deletion is then due for each of them.
LEMMA DeliverLeavesNothing ==
    ASSUME Inv, LeakInv, Deliver
    PROVE  LeakInv'
<1> DEFINE h == Head(queue)
           call(c) == [op |-> "event", ctrl |-> c, node |-> h.node, old |-> h.old, new |-> h.new]
<1>1. queue # <<>> /\ agenda = <<>> /\ queue \in Seq(Event) /\ queue' = Tail(queue)
  BY DEF Deliver, Inv, WorldInv, Event
<1>2. UNCHANGED <<scenario, api, stream, cached, started, entry, pool, ids, thread>> BY DEF Deliver
<1>3. started \subseteq Controllers BY ScenarioType DEF Inv, WorldInv
<1>4. IsFiniteSet(started)
  <2>1. IsFiniteSet(Controllers) BY SetsFinite, FS_AddElement DEF Controllers
  <2> QED BY <1>3, <2>1, FS_Subset
<1>5. PICK order \in SetToSeqs(started) : agenda' = [i \in 1 .. Len(order) |-> call(order[i])] BY DEF Deliver
<1>6. h \in Event /\ h = queue[1] /\ 1 \in DOMAIN queue BY <1>1, HeadAndTail
<1>7. h.node \in Nodes /\ h.old \in NodeObject \cup {None} /\ h.new \in NodeObject \cup {None} BY <1>6 DEF Event
<1> HIDE DEF h
<1>8. ASSUME NEW c \in Controllers
      PROVE  call(c).ctrl = c /\ call(c).node = h.node /\ (h.new = None => call(c) \in DeleteCall(c, h.node))
  BY <1>7 DEF DeleteCall, Work
<1> HIDE DEF call
<1>9. \A c \in started : \E i \in 1 .. Len(order) : order[i] = c BY <1>4, EnumerationIsOnto
<1>10. Len(order) \in Nat /\ \A i \in 1 .. Len(order) : order[i] \in started BY <1>4, EnumerationIsSeq
<1>11. DOMAIN agenda' = 1 .. Len(order) /\ \A i \in DOMAIN agenda' : agenda'[i] = call(order[i]) BY <1>5
<1>12. ASSUME NEW c \in started, h.new = None PROVE Ends(agenda', 1, DeleteCall(c, h.node))
  <2>1. PICK i \in 1 .. Len(order) : order[i] = c BY <1>9
  <2>2. agenda'[i] \in DeleteCall(c, h.node) BY <1>3, <1>8, <1>11, <1>12, <2>1
  <2> QED BY <1>10, <1>11, <2>1, <2>2 DEF Ends
<1>13. \A m \in Nodes : h \in DeleteEvent(m) => m = h.node /\ h.new = None BY DEF DeleteEvent
<1>14. ASSUME NEW c \in started, NEW m \in Nodes, Due(c, m) PROVE Due(c, m)'
  <2>1. CASE cached[m].obj # None BY <1>2, <2>1 DEF Due, DueFrom
  <2>2. CASE Ends(queue, 1, DeleteEvent(m))
    <3>1. CASE h \in DeleteEvent(m) BY <1>12, <1>13, <3>1 DEF Due, DueFrom
    <3>2. CASE h \notin DeleteEvent(m)
      <4>1. Ends(queue', 1, DeleteEvent(m)) BY <1>1, <2>2, <3>2, EndsTail DEF h
      <4> QED BY <4>1 DEF Due, DueFrom
    <3> QED BY <3>1, <3>2
  <2>3. ~Ends(agenda, 1, DeleteCall(c, m)) BY <1>1, EndsEmpty
  <2> QED BY <1>14, <2>1, <2>2, <2>3 DEF Due, DueFrom
<1>15. StreamInv' BY <1>2 DEF LeakInv, StreamInv, Ends
<1>16. QueueInv'
  <2> SUFFICES ASSUME NEW i \in DOMAIN queue', cached[queue'[i].node].obj = None
               PROVE  Ends(queue', i, DeleteEvent(queue'[i].node))
    BY <1>2 DEF QueueInv
  <2>1. i \in Nat /\ i >= 1 /\ i + 1 \in DOMAIN queue /\ queue'[i] = queue[i + 1] BY <1>1, TailAt
  <2>2. Ends(queue, i + 1, DeleteEvent(queue'[i].node)) BY <2>1 DEF LeakInv, QueueInv
  <2>3. i + 1 \in Nat /\ i + 1 >= 2 /\ (i + 1) - 1 = i BY <2>1
  <2>4. Ends(queue', (i + 1) - 1, DeleteEvent(queue'[i].node)) BY <1>1, <2>2, <2>3, EndsTail
  <2> QED BY <2>3, <2>4
<1>17. AgendaInv'
  <2> SUFFICES ASSUME NEW i \in DOMAIN agenda'
               PROVE  agenda'[i].ctrl \in started /\ (cached'[agenda'[i].node].obj # None \/ Ends(queue', 1, DeleteEvent(agenda'[i].node))
                            \/ Ends(agenda', i, DeleteCall(agenda'[i].ctrl, agenda'[i].node)))
    BY <1>2 DEF AgendaInv, DueFrom
  <2> DEFINE c == order[i]
  <2>1. c \in started /\ c \in Controllers /\ agenda'[i] = call(c) /\ i \in Nat BY <1>3, <1>10, <1>11
  <2> HIDE DEF c
  <2>2. agenda'[i].ctrl = c /\ agenda'[i].node = h.node BY <1>8, <2>1
  <2>3. cached'[h.node].obj # None \/ Ends(queue', 1, DeleteEvent(h.node)) \/ Ends(agenda', i, DeleteCall(c, h.node))
    <3>1. CASE h.new = None
      <4>1. agenda'[i] \in DeleteCall(c, h.node) BY <1>8, <2>1, <3>1
      <4>2. Ends(agenda', i, DeleteCall(c, h.node)) BY <2>1, <4>1 DEF Ends
      <4> QED BY <4>2
    <3>2. CASE h.new # None
      <4>1. h \notin DeleteEvent(h.node) BY <1>7, <1>13, <3>2
      <4>2. cached[h.node].obj = None => Ends(queue, 1, DeleteEvent(h.node))
        BY <1>6 DEF LeakInv, QueueInv
      <4>3. cached[h.node].obj = None => Ends(queue', 1, DeleteEvent(h.node))
        BY <1>1, <4>1, <4>2, EndsTail DEF h
      <4> QED BY <1>2, <4>3
    <3> QED BY <3>1, <3>2
  <2> QED BY <2>1, <2>2, <2>3
<1>18. ThreadInv' /\ OwnersInv' BY <1>1, <1>2, <1>14, NoCallOfEvent, HeldKept DEF LeakInv
<1> QED BY <1>15, <1>16, <1>17, <1>18 DEF LeakInv

\* A controller starts with the nodes of the cache.
LEMMA StartLeavesNothing ==
    ASSUME Inv, LeakInv, NEW c \in Controllers, Start(c)
    PROVE  LeakInv'
<1> DEFINE S == {n \in Nodes : cached[n].obj # None}
           w(op, n) == [op |-> op, ctrl |-> c, node |-> n, old |-> None, new |-> cached[n].obj]
           Mine == {x \in Work : x.ctrl = c /\ x.node \in S}
<1>1. IsFiniteSet(S) BY SetsFinite, FS_Subset
<1>2. ASSUME NEW n \in S, NEW op \in {"event", "sync", "replace"} PROVE w(op, n) \in Mine
  <2>1. cached[n].obj \in NodeObject BY DEF Inv, WorldInv, Version
  <2> QED BY <2>1 DEF Work
<1>3. PICK order \in SetToSeqs(S) :
          agenda' = [i \in 1 .. Len(order) |-> w("sync", order[i])]
                    \o (IF c = Zone THEN [i \in 1 .. Len(order) |-> w("replace", order[i])] ELSE <<>>)
                    \o [i \in 1 .. Len(order) |-> w("event", order[i])]
  BY DEF Start
<1>4. \A x \in Mine : x.ctrl = c /\ x.node \in Nodes /\ cached[x.node].obj # None BY DEF Work
<1> HIDE DEF w, S, Mine
<1>5. Len(order) \in Nat /\ \A i \in 1 .. Len(order) : order[i] \in S BY <1>1, EnumerationIsSeq
<1>6. ASSUME NEW op \in {"event", "sync", "replace"}
      PROVE  [i \in 1 .. Len(order) |-> w(op, order[i])] \in Seq(Mine)
  BY <1>2, <1>5
<1>7. agenda' \in Seq(Mine)
  <2> DEFINE s1 == [i \in 1 .. Len(order) |-> w("sync", order[i])]
             s2 == [i \in 1 .. Len(order) |-> w("replace", order[i])]
             s3 == [i \in 1 .. Len(order) |-> w("event", order[i])]
  <2>1. s1 \in Seq(Mine) /\ s2 \in Seq(Mine) /\ s3 \in Seq(Mine) BY <1>6
  <2>2. agenda' = s1 \o (IF c = Zone THEN s2 ELSE <<>>) \o s3 BY <1>3
  <2> HIDE DEF s1, s2, s3
  <2> QED BY <2>1, <2>2
<1>8. agenda = <<>> /\ started' = started \cup {c} BY DEF Start
<1>9. UNCHANGED <<scenario, api, stream, cached, queue, entry, pool, ids, thread>> BY DEF Start
<1>10. StreamInv' BY <1>9 DEF LeakInv, StreamInv, Ends
<1>11. QueueInv' BY <1>9 DEF LeakInv, QueueInv, Ends
<1>12. AgendaInv'
  <2> SUFFICES ASSUME NEW i \in DOMAIN agenda'
               PROVE  agenda'[i].ctrl \in started' /\ (cached'[agenda'[i].node].obj # None \/ Ends(queue', 1, DeleteEvent(agenda'[i].node))
                             \/ Ends(agenda', i, DeleteCall(agenda'[i].ctrl, agenda'[i].node)))
    BY DEF AgendaInv, DueFrom
  <2>1. agenda'[i] \in Mine BY <1>7
  <2> QED BY <1>4, <1>8, <1>9, <2>1
<1>13. ASSUME NEW d \in started, NEW m \in Nodes, Due(d, m) PROVE Due(d, m)'
  <2>1. ~Ends(agenda, 1, DeleteCall(d, m)) BY <1>8, EndsEmpty
  <2> QED BY <1>9, <1>13, <2>1 DEF Due, DueFrom, Ends
<1>14. ThreadInv' /\ OwnersInv' BY <1>8, <1>9, <1>13, NoCallOfEvent, HeldKept DEF LeakInv
<1> QED BY <1>10, <1>11, <1>12, <1>14 DEF LeakInv

-----------------------------------------------------------------------------
(***************************************************************************)
(* Calls                                                                   *)
(***************************************************************************)

\* A call has been made; only a deletion that was the call is no longer due.
LEMMA PopKeeps ==
    ASSUME Inv, AgendaInv, UNCHANGED <<cached, queue, started>>, agenda # <<>>, agenda' = Tail(agenda)
    PROVE  /\ AgendaInv'
           /\ \A c \in Controllers, n \in Nodes : Head(agenda) \notin DeleteCall(c, n) /\ Due(c, n) => Due(c, n)'
<1>1. agenda \in Seq(Work) BY DEF Inv, CallInv
<1>2. AgendaInv'
  <2> SUFFICES ASSUME NEW i \in DOMAIN agenda'
               PROVE  agenda'[i].ctrl \in started /\ (cached[agenda'[i].node].obj # None
                          \/ Ends(queue, 1, DeleteEvent(agenda'[i].node))
                          \/ Ends(agenda', i, DeleteCall(agenda'[i].ctrl, agenda'[i].node)))
    BY DEF AgendaInv, DueFrom
  <2>1. i \in Nat /\ i >= 1 /\ i + 1 \in DOMAIN agenda /\ agenda'[i] = agenda[i + 1] BY <1>1, TailAt
  <2> DEFINE w == agenda[i + 1]
  <2>2. w.ctrl \in started /\ DueFrom(w.ctrl, w.node, i + 1) BY <2>1 DEF AgendaInv
  <2>3. i + 1 \in Nat /\ i + 1 >= 2 /\ (i + 1) - 1 = i BY <2>1
  <2> HIDE DEF w
  <2>4. Ends(agenda, i + 1, DeleteCall(w.ctrl, w.node)) => Ends(agenda', (i + 1) - 1, DeleteCall(w.ctrl, w.node))
    BY <1>1, <2>3, EndsTail
  <2>5. Ends(agenda, i + 1, DeleteCall(w.ctrl, w.node)) => Ends(agenda', i, DeleteCall(w.ctrl, w.node))
    BY <2>3, <2>4
  <2> QED BY <2>1, <2>2, <2>5 DEF DueFrom, w
<1>3. ASSUME NEW c \in Controllers, NEW n \in Nodes, Head(agenda) \notin DeleteCall(c, n), Due(c, n) PROVE Due(c, n)'
  <2>1. Ends(agenda, 1, DeleteCall(c, n)) => Ends(agenda', 1, DeleteCall(c, n)) BY <1>1, <1>3, EndsTail
  <2> QED BY <1>3, <2>1 DEF Due, DueFrom
<1> QED BY <1>2, <1>3

\* What a step of the call of c for n does to the goroutines: it may end the call
\* of an event that is no deletion.
CallPart(c, n) ==
    /\ \/ agenda' = agenda
       \/ /\ agenda # <<>> /\ agenda' = Tail(agenda)
          /\ \A d \in Controllers, m \in Nodes :
                 /\ Head(agenda) \notin DeleteCall(d, m)
                 /\ d # c \/ m # n => thread[d][m].pc = "idle" \/ thread[d][m].retry
    /\ \A d \in Controllers, m \in Nodes :
           d # c \/ m # n => thread'[d][m] = thread[d][m] /\ entry'[d][m] = entry[d][m]
    /\ thread'[c][n].pc # "idle" /\ ~thread'[c][n].retry => agenda' = agenda /\ Head(agenda).new # None

\* What it may do to the allocators: free anything, but allocate only for n and
\* from what is c's.
PoolPart(c, n) ==
    ~scenario.hybrid => \A s \in Subnet : \/ pool'.alloc[s] \in {None, pool.alloc[s]}
                                          \/ c \in Nets /\ InPool(c, s) /\ pool'.alloc[s] = n

IDPart(c, n) == \A m \in Nodes : ids'.of[m] \in {None, ids.of[m]} \/ (c = Zone /\ m = n)

\* Such a step allocates nothing that would not be released.
LEMMA CallLeavesNothing ==
    ASSUME Inv, pool' \in SubnetAllocator, QueueInv, AgendaInv, ThreadInv, OwnersInv,
           NEW c \in Controllers, NEW n \in Nodes, c \in started, Due(c, n),
           UNCHANGED <<scenario, cached, queue, started>>,
           CallPart(c, n), PoolPart(c, n), IDPart(c, n)
    PROVE  QueueInv' /\ AgendaInv' /\ ThreadInv' /\ OwnersInv'
<1>1. QueueInv' BY DEF QueueInv, Ends
<1>2. AgendaInv' /\ \A d \in Controllers, m \in Nodes : Due(d, m) => Due(d, m)'
  <2>1. CASE agenda' = agenda
    <3>1. \A d, m, i : DueFrom(d, m, i)' = DueFrom(d, m, i) BY <2>1, DueKept
    <3> QED BY <2>1, <3>1 DEF AgendaInv, Due
  <2>2. CASE agenda' # agenda
    <3>1. agenda # <<>> /\ agenda' = Tail(agenda) /\ \A d \in Controllers, m \in Nodes : Head(agenda) \notin DeleteCall(d, m)
      BY <2>2 DEF CallPart
    <3> QED BY <3>1, PopKeeps
  <2> QED BY <2>1, <2>2
<1>3. ThreadInv'
  <2> SUFFICES ASSUME NEW d \in Controllers, NEW m \in Nodes
               PROVE  /\ thread'[d][m].pc # "idle" => /\ d \in started /\ Due(d, m)'
                                                      /\ ~thread'[d][m].retry => Head(agenda').new # None
                      /\ entry'[d][m] # None => d \in started
    BY DEF ThreadInv
  <2>1. CASE d = c /\ m = n BY <1>2, <2>1 DEF CallPart
  <2>2. CASE ~(d = c /\ m = n)
    <3>1. thread'[d][m] = thread[d][m] /\ entry'[d][m] = entry[d][m] BY <2>2 DEF CallPart
    <3>2. thread[d][m].pc # "idle" /\ ~thread[d][m].retry => agenda' = agenda BY <2>2 DEF CallPart
    <3> QED BY <1>2, <3>1, <3>2 DEF ThreadInv
  <2> QED BY <2>1, <2>2
<1>4. \A m \in Nodes : ids'.of[m] # None => Zone \in started' /\ Due(Zone, m)'
  <2> SUFFICES ASSUME NEW m \in Nodes, ids'.of[m] # None PROVE Zone \in started /\ Due(Zone, m)'
    OBVIOUS
  <2>1. Zone \in Controllers BY DEF Controllers
  <2>2. CASE c = Zone /\ m = n BY <1>2, <2>1, <2>2
  <2>3. CASE ~(c = Zone /\ m = n)
    <3>1. ids.of[m] # None BY <2>3 DEF IDPart
    <3> QED BY <1>2, <2>1, <3>1 DEF OwnersInv
  <2> QED BY <2>2, <2>3
<1>5. ASSUME ~scenario.hybrid, NEW s \in Subnet, NEW m, m = pool'.alloc[s], m # None
      PROVE  \E d \in started \cap Nets : InPool(d, s) /\ Due(d, m)'
  <2>1. m \in Nodes BY <1>5 DEF SubnetAllocator
  <2>2. CASE c \in Nets /\ InPool(c, s) /\ m = n BY <1>2, <2>2
  <2>3. CASE ~(c \in Nets /\ InPool(c, s) /\ m = n)
    <3>1. m = pool.alloc[s] BY <1>5, <2>3 DEF PoolPart
    <3>2. PICK d \in started \cap Nets : InPool(d, s) /\ Due(d, m) BY <1>5, <3>1 DEF OwnersInv
    <3>3. d \in Controllers BY DEF Controllers
    <3> QED BY <1>2, <2>1, <3>2, <3>3
  <2> QED BY <2>2, <2>3
<1>6. OwnersInv'
  <2>1. ~scenario'.hybrid => \A s \in Subnet : pool'.alloc[s] # None =>
            \E d \in started \cap Nets : InPool(d, s) /\ (cached'[pool'.alloc[s]].obj # None
                \/ Ends(queue', 1, DeleteEvent(pool'.alloc[s])) \/ Ends(agenda', 1, DeleteCall(d, pool'.alloc[s])))
    BY <1>5 DEF Due, DueFrom
  <2> QED BY <1>4, <2>1 DEF OwnersInv, Due, DueFrom
<1> QED BY <1>1, <1>2, <1>3, <1>6

\* A call that returns.
LEMMA ReturnedPart ==
    ASSUME Inv, ThreadInv, NEW c \in Controllers, NEW n \in Nodes, NEW err,
           thread[c][n].pc # "idle", Returned(c, n, err)
    PROVE  CallPart(c, n)
<1> DEFINE retried == thread[c][n].retry
           e == IF ~err THEN None ELSE IF retried THEN entry[c][n] + 1 ELSE 1
<1>1. thread' = [thread EXCEPT ![c][n] = Idle] /\ agenda' = IF retried THEN agenda ELSE Tail(agenda)
  BY DEF Returned
<1>2. entry' = [entry EXCEPT ![c][n] = e] BY DEF Returned, Inv, CallInv
<1>3. ThreadOK(c, n) BY DEF Inv, CallInv
<1>4. ~retried => /\ agenda # <<>> /\ Head(agenda).ctrl = c /\ Head(agenda).node = n
                  /\ Head(agenda).new # None
  BY <1>3 DEF ThreadOK, ThreadInv
<1> HIDE DEF retried, e
<1>5. thread'[c][n].pc = "idle"
  <2>1. thread'[c][n] = Idle BY <1>1 DEF Inv, CallInv
  <2> QED BY <2>1 DEF Idle
<1>6. \A d \in Controllers, m \in Nodes : d # c \/ m # n => thread'[d][m] = thread[d][m] /\ entry'[d][m] = entry[d][m]
  BY <1>1, <1>2 DEF Inv, CallInv
<1>7. ~retried => \A d \in Controllers, m \in Nodes : Head(agenda) \notin DeleteCall(d, m) BY <1>4 DEF DeleteCall
<1>8. ASSUME ~retried, NEW d \in Controllers, NEW m \in Nodes, d # c \/ m # n
      PROVE  thread[d][m].pc = "idle" \/ thread[d][m].retry
  <2>1. ThreadOK(d, m) BY DEF Inv, CallInv
  <2> QED BY <1>4, <1>8, <2>1 DEF ThreadOK
<1> QED BY <1>1, <1>4, <1>5, <1>6, <1>7, <1>8 DEF CallPart

\* A call that begins or goes on.
LEMMA OngoingPart ==
    ASSUME Inv, NEW c \in Controllers, NEW n \in Nodes, NEW th,
           thread' = [thread EXCEPT ![c][n] = th], UNCHANGED <<agenda, entry>>,
           ~th.retry => Head(agenda).new # None
    PROVE  CallPart(c, n)
<1>1. thread'[c][n] = th BY DEF Inv, CallInv
<1>2. \A d \in Controllers, m \in Nodes : d # c \/ m # n => thread'[d][m] = thread[d][m] BY DEF Inv, CallInv
<1> QED BY <1>1, <1>2 DEF CallPart

\* A call of an event goes on: the event is no deletion.
LEMMA GoesOnPart ==
    ASSUME Inv, ThreadInv, NEW c \in Controllers, NEW n \in Nodes, NEW th,
           thread[c][n].pc # "idle", th.retry = thread[c][n].retry,
           thread' = [thread EXCEPT ![c][n] = th], UNCHANGED <<agenda, entry>>
    PROVE  CallPart(c, n)
<1>1. ~th.retry => Head(agenda).new # None BY DEF ThreadInv
<1> QED BY <1>1, OngoingPart

\* A call for a network that has done a part of its work.
LEMMA ProceedPart ==
    ASSUME Inv, ThreadInv, NEW c \in Controllers, NEW n \in Nodes, NEW th \in ThreadState,
           thread[c][n].pc # "idle", th.retry = thread[c][n].retry, Proceed(c, n, th)
    PROVE  CallPart(c, n)
<1>1. CASE NextStep(c, th) = "done" BY <1>1, ReturnedPart DEF Proceed
<1>2. CASE NextStep(c, th) # "done"
  <2> DEFINE step == NextStep(c, th)
             new == [th EXCEPT !.pc = step]
  <2>1. thread' = [thread EXCEPT ![c][n] = new] /\ UNCHANGED <<entry, agenda>> BY <1>2 DEF Proceed
  <2> HIDE DEF step
  <2>2. new.retry = th.retry BY DEF ThreadState
  <2> HIDE DEF new
  <2> QED BY <2>1, <2>2, GoesOnPart
<1> QED BY <1>1, <1>2

\* Releasing subnets allocates none.
LEMMA ReleaseGivesNothing ==
    ASSUME NEW pl \in SubnetAllocator, NEW p, NEW n, NEW nets, NEW s \in Subnet
    PROVE  ReleaseNetworks(pl, p, n, nets).alloc[s] \in {None, pl.alloc[s]}
<1> DEFINE gone == {t \in nets : InPool(p, t) /\ pl.alloc[t] = n}
           used == [r \in Ranges |-> pl.used[r] - Cardinality({t \in gone : t.range = r})]
           alloc == [t \in Subnet |-> IF t \in gone THEN None ELSE pl.alloc[t]]
           new == ReleaseNetworks(pl, p, n, nets)
<1>1. new = [pl EXCEPT !.alloc = alloc, !.used = used] BY DEF ReleaseNetworks
<1> HIDE DEF gone, used, new
<1>2. new.alloc = alloc
  <2> HIDE DEF alloc
  <2> QED BY <1>1, PoolFields
<1> QED BY <1>2 DEF new

\* ReleaseAllNetworks takes all subnets of a network from the node.
LEMMA ReleaseAllTakes ==
    ASSUME NEW pl \in SubnetAllocator, NEW p, NEW n \in Nodes, NEW s \in Subnet, InPool(p, s)
    PROVE  ReleaseAllNetworks(pl, p, n).alloc[s] # n
<1> DEFINE gone == {t \in Subnet : InPool(p, t) /\ pl.alloc[t] = n}
           used == [r \in Ranges |-> pl.used[r] - Cardinality({t \in gone : t.range = r})]
           alloc == [t \in Subnet |-> IF t \in gone THEN None ELSE pl.alloc[t]]
           new == ReleaseAllNetworks(pl, p, n)
<1>1. new = [pl EXCEPT !.alloc = alloc, !.used = used] BY DEF ReleaseAllNetworks, ReleaseNetworks
<1> HIDE DEF used, new
<1>2. new.alloc = alloc
  <2> HIDE DEF alloc
  <2> QED BY <1>1, PoolFields
<1>3. alloc[s] # n BY ConstantsTyped
<1> QED BY <1>2, <1>3 DEF new

\* Marking subnets allocates them.
LEMMA MarkGives ==
    ASSUME NEW pl \in SubnetAllocator, NEW n, NEW nets, NEW s \in Subnet
    PROVE  MarkNetworks(pl, n, nets).alloc[s] = IF s \in nets THEN n ELSE pl.alloc[s]
<1> DEFINE used == [r \in Ranges |-> pl.used[r] + Cardinality({t \in nets : t.range = r /\ pl.alloc[t] = None})]
           alloc == [t \in Subnet |-> IF t \in nets THEN n ELSE pl.alloc[t]]
           new == MarkNetworks(pl, n, nets)
<1>1. new = [pl EXCEPT !.alloc = alloc, !.used = used] BY DEF MarkNetworks
<1> HIDE DEF used, new
<1>2. new.alloc = alloc
  <2> HIDE DEF alloc
  <2> QED BY <1>1, PoolFields
<1> QED BY <1>2 DEF new

\* A step of a call, with what it stores.
LEMMA StepLeavesNothing ==
    ASSUME Inv, Inv', LeakInv, NEW c \in Controllers, NEW n \in Nodes, thread[c][n].pc # "idle",
           UNCHANGED CallVars, StreamInv', CallPart(c, n), PoolPart(c, n), IDPart(c, n)
    PROVE  LeakInv'
<1>1. c \in started /\ Due(c, n) BY DEF LeakInv, ThreadInv
<1>2. pool' \in SubnetAllocator BY DEF Inv, PoolInv
<1>3. UNCHANGED <<scenario, cached, queue, started>> BY DEF CallVars
<1> QED BY <1>1, <1>2, <1>3, CallLeavesNothing DEF LeakInv

\* A step that stores nothing.
LEMMA StreamKept ==
    ASSUME LeakInv, UNCHANGED <<api, stream, CallVars>>
    PROVE  StreamInv'
  BY DEF LeakInv, StreamInv, Ends, CallVars

\* A call for a node that needs nothing.
LEMMA SkipLeavesNothing ==
    ASSUME Inv, Inv', LeakInv, NEW c \in Controllers, NEW n \in Nodes, SkipNode(c, n)
    PROVE  LeakInv'
<1>1. thread[c][n].pc # "idle" /\ UNCHANGED <<api, stream, pool, ids, CallVars>> BY DEF SkipNode
<1>2. CallPart(c, n)
  <2>1. CASE Returned(c, n, FALSE) BY <1>1, <2>1, ReturnedPart DEF LeakInv
  <2>2. CASE Proceed(c, n, thread[c][n]) BY <1>1, <2>2, ProceedPart, CallType DEF Inv, LeakInv
  <2> QED BY <2>1, <2>2 DEF SkipNode
<1>3. PoolPart(c, n) /\ IDPart(c, n) BY <1>1 DEF PoolPart, IDPart
<1> QED BY <1>1, <1>2, <1>3, StreamKept, StepLeavesNothing

\* A call that marks an existing subnet, of the network, or releases it.
LEMMA CheckLeavesNothing ==
    ASSUME Inv, Inv', LeakInv, NEW c \in Controllers, NEW n \in Nodes, CheckExisting(c, n)
    PROVE  LeakInv'
<1> DEFINE th == thread[c][n]
           p == PoolOf(c, th.node)
           one(s) == [th EXCEPT !.todo = @ \ {s}]
           two(s) == [one(s) EXCEPT !.kept = @ \cup {s}]
<1>1. c \in Nets /\ th.pc # "idle" BY DEF CheckExisting, Concerned, Controllers
<1>2. th \in ThreadState /\ th.todo \subseteq Subnet BY CallType DEF Inv
<1>3. PICK s \in th.todo :
          \/ CanMark(pool, p, n, s) /\ pool' = MarkNetworks(pool, n, {s}) /\ Proceed(c, n, two(s))
          \/ pool' = ReleaseNetworks(pool, p, n, {s}) /\ Proceed(c, n, one(s))
  BY Zenon DEF CheckExisting
<1>4. UNCHANGED <<api, stream, ids, CallVars>> BY DEF CheckExisting
<1>5. ~scenario.hybrid => p = c BY DEF CheckExisting, Concerned, PoolOf
<1> HIDE DEF p
<1>6. s \in Subnet /\ pool \in SubnetAllocator BY <1>2 DEF Inv, PoolInv
<1>7. PoolPart(c, n)
  <2> SUFFICES ASSUME ~scenario.hybrid, NEW t \in Subnet
               PROVE  pool'.alloc[t] \in {None, pool.alloc[t]} \/ (InPool(c, t) /\ pool'.alloc[t] = n)
    BY <1>1 DEF PoolPart
  <2>1. CASE CanMark(pool, p, n, s) /\ pool' = MarkNetworks(pool, n, {s})
    <3>1. InPool(c, s) BY <1>5, <2>1 DEF CanMark
    <3>2. pool'.alloc[t] = IF t \in {s} THEN n ELSE pool.alloc[t] BY <1>6, <2>1, MarkGives
    <3> QED BY <3>1, <3>2
  <2>2. CASE pool' = ReleaseNetworks(pool, p, n, {s}) BY <1>6, <2>2, ReleaseGivesNothing
  <2> QED BY <1>3, <2>1, <2>2
<1>8. /\ one(s) \in ThreadState /\ one(s).retry = th.retry
      /\ two(s) \in ThreadState /\ two(s).retry = th.retry
  <2> HIDE DEF th
  <2>1. th.todo \ {s} \in SUBSET Subnet /\ th.kept \cup {s} \in SUBSET Subnet BY <1>2, <1>6 DEF ThreadState
  <2> QED BY <1>2, <2>1 DEF ThreadState
<1> HIDE DEF one, two
<1>9. CallPart(c, n) BY <1>1, <1>3, <1>8, ProceedPart DEF LeakInv
<1>10. IDPart(c, n) BY <1>4 DEF IDPart
<1> QED BY <1>1, <1>4, <1>7, <1>9, <1>10, StreamKept, StepLeavesNothing

\* What NextSubnet offers is of one of the ranges.
LEMMA NextSubnetInRanges ==
    ASSUME NEW pl, NEW ranges, NEW s \in NextSubnet(pl, ranges)
    PROVE  s \in Subnet /\ s.range \in {ranges[k] : k \in DOMAIN ranges}
  BY DEF NextSubnet, NextFree, Free

\* A call that allocates a subnet of the network.
LEMMA AllocateLeavesNothing ==
    ASSUME Inv, Inv', LeakInv, NEW c \in Controllers, NEW n \in Nodes, AllocateSubnet(c, n)
    PROVE  LeakInv'
<1> DEFINE th == thread[c][n]
<1>1. c \in Nets /\ th.pc # "idle" BY DEF AllocateSubnet, Concerned, Controllers
<1>2. th \in ThreadState BY CallType DEF Inv
<1>3. PICK ranges \in Missing(c, th) : \E s \in NextSubnet(pool, ranges) :
          pool' = AllocateNetwork(pool, ranges, n, s) /\ Proceed(c, n, [th EXCEPT !.allocated = @ \cup {s}])
  BY DEF AllocateSubnet
<1>4. PICK s \in NextSubnet(pool, ranges) :
          pool' = AllocateNetwork(pool, ranges, n, s) /\ Proceed(c, n, [th EXCEPT !.allocated = @ \cup {s}])
  BY <1>3
<1>5. UNCHANGED <<api, stream, ids, CallVars>> BY DEF AllocateSubnet
<1>6. s \in Subnet /\ s.range \in {ranges[k] : k \in DOMAIN ranges} BY NextSubnetInRanges
<1>7. ~scenario.hybrid => InPool(c, s)
  <2>1. ~scenario.hybrid => PoolOf(c, th.node) = c BY DEF AllocateSubnet, Concerned, PoolOf
  <2>2. ranges \in {V4Ranges[PoolOf(c, th.node)], V6Ranges[PoolOf(c, th.node)]} BY DEF Missing
  <2> QED BY <1>6, <2>1, <2>2 DEF InPool, ToSet
<1>8. pool \in SubnetAllocator BY DEF Inv, PoolInv
<1>9. ASSUME NEW t \in Subnet PROVE pool'.alloc[t] = IF t \in {s} THEN n ELSE pool.alloc[t]
  <2> DEFINE marked == MarkNetworks(pool, n, {s})
             full == {ranges[i] : i \in {j \in DOMAIN ranges : \A k \in 1 .. j : Free(pool, ranges[k]) = {}}}
             next == [r \in Ranges |-> IF r = s.range THEN s.index + 1 ELSE IF r \in full THEN 0 ELSE marked.next[r]]
  <2>1. pool' = [marked EXCEPT !.next = next] BY <1>4 DEF AllocateNetwork
  <2>2. marked.alloc[t] = IF t \in {s} THEN n ELSE pool.alloc[t] BY <1>8, MarkGives
  <2>3. PoolInv(marked) BY <1>6, MarkKeeps DEF Inv
  <2> HIDE DEF marked, next
  <2>4. pool'.alloc = marked.alloc BY <2>1, <2>3, PoolFields DEF PoolInv
  <2> QED BY <2>2, <2>4
<1>10. PoolPart(c, n) BY <1>1, <1>7, <1>9 DEF PoolPart
<1> DEFINE new == [th EXCEPT !.allocated = @ \cup {s}]
<1>11. new \in ThreadState /\ new.retry = th.retry
  <2> HIDE DEF th
  <2> QED BY <1>2, <1>6 DEF ThreadState
<1>12. Proceed(c, n, new) BY <1>4
<1> HIDE DEF new
<1>13. CallPart(c, n) BY <1>1, <1>11, <1>12, ProceedPart DEF LeakInv
<1>14. IDPart(c, n) BY <1>5 DEF IDPart
<1> QED BY <1>1, <1>5, <1>10, <1>13, <1>14, StreamKept, StepLeavesNothing

\* A call that finds no free subnet.
LEMMA ExhaustedLeavesNothing ==
    ASSUME Inv, Inv', LeakInv, NEW c \in Controllers, NEW n \in Nodes, SubnetsExhausted(c, n)
    PROVE  LeakInv'
<1>1. thread[c][n].pc # "idle" /\ Returned(c, n, TRUE) /\ UNCHANGED <<api, stream, ids, CallVars>>
  BY DEF SubnetsExhausted, Concerned
<1>2. PICK ranges : pool' = ReleaseNetworks(RangesFull(pool, ranges), PoolOf(c, thread[c][n].node), n,
                                            thread[c][n].allocated)
  BY DEF SubnetsExhausted
<1> DEFINE full == RangesFull(pool, ranges)
           next == [r \in Ranges |-> IF r \in ToSet(ranges) THEN 0 ELSE pool.next[r]]
<1>3. PoolInv(full) BY FullKeeps DEF Inv
<1>4. full = [pool EXCEPT !.next = next] BY DEF RangesFull
<1> HIDE DEF full, next
<1>5. full.alloc = pool.alloc BY <1>4, PoolFields DEF Inv, PoolInv
<1>6. pool' = ReleaseNetworks(full, PoolOf(c, thread[c][n].node), n, thread[c][n].allocated) BY <1>2 DEF full
<1>7. \A s \in Subnet : pool'.alloc[s] \in {None, pool.alloc[s]}
  BY <1>3, <1>5, <1>6, ReleaseGivesNothing DEF PoolInv
<1>8. PoolPart(c, n) /\ IDPart(c, n) BY <1>1, <1>7 DEF PoolPart, IDPart
<1>9. CallPart(c, n) BY <1>1, ReturnedPart DEF LeakInv
<1> QED BY <1>1, <1>8, <1>9, StreamKept, StepLeavesNothing

\* A call that releases what it has allocated, and returns.
LEMMA FailedParts ==
    ASSUME Inv, ThreadInv, NEW c \in Controllers, NEW n \in Nodes, thread[c][n].pc # "idle", Failed(c, n)
    PROVE  CallPart(c, n) /\ PoolPart(c, n)
<1>1. pool' = ReleaseNetworks(pool, c, n, thread[c][n].allocated) /\ Returned(c, n, TRUE) BY DEF Failed
<1>2. \A s \in Subnet : pool'.alloc[s] \in {None, pool.alloc[s]}
  BY <1>1, ReleaseGivesNothing DEF Inv, PoolInv
<1>3. CallPart(c, n) BY <1>1, ReturnedPart
<1> QED BY <1>2, <1>3 DEF PoolPart

\* A call that reads the node it will update.
LEMMA GetLeavesNothing ==
    ASSUME Inv, Inv', LeakInv, NEW c \in Controllers, NEW n \in Nodes, Get(c, n)
    PROVE  LeakInv'
<1> DEFINE th == thread[c][n]
<1>1. th.pc # "idle" /\ UNCHANGED <<api, stream, ids, CallVars>> BY DEF Get
<1>2. CallPart(c, n) /\ PoolPart(c, n)
  <2>1. CASE cached[n].obj = None BY <1>1, <2>1, FailedParts DEF Get, LeakInv
  <2>2. CASE cached[n].obj # None
    <3> DEFINE new == [th EXCEPT !.pc = "update", !.copy = cached[n]]
    <3>1. thread' = [thread EXCEPT ![c][n] = new] /\ UNCHANGED <<entry, agenda, pool>>
      BY <2>2 DEF Get, Inv, CallInv
    <3>2. th \in ThreadState BY DEF Inv, CallInv
    <3>3. new.retry = th.retry
      <4> HIDE DEF th
      <4> QED BY <3>2 DEF ThreadState
    <3> HIDE DEF new
    <3>4. CallPart(c, n) BY <1>1, <3>1, <3>3, GoesOnPart DEF LeakInv
    <3> QED BY <3>1, <3>4 DEF PoolPart
  <2> QED BY <2>1, <2>2
<1>3. IDPart(c, n) BY <1>1 DEF IDPart
<1> QED BY <1>1, <1>2, <1>3, StreamKept, StepLeavesNothing

\* A node is stored by a call.
LEMMA StoredByCall ==
    ASSUME Inv, LeakInv, NEW n \in Nodes, NEW obj \in NodeObject, Store(n, obj), UNCHANGED CallVars
    PROVE  StreamInv'
  BY StoreReported DEF Inv, LeakInv, CallVars

\* An update that is stored, refused for a conflict, or given up.
LEMMA UpdateLeavesNothing ==
    ASSUME Inv, Inv', LeakInv, NEW c \in Controllers, NEW n \in Nodes, Update(c, n)
    PROVE  LeakInv'
<1> DEFINE th == thread[c][n]
<1>1. th.pc = "update" /\ th.pc # "idle" /\ UNCHANGED <<ids, CallVars>> BY DEF Update
<1>2. IDPart(c, n) BY <1>1 DEF IDPart
<1>3. CASE api[n].obj # None /\ api[n].rv = th.copy.rv
  <2>1. Store(n, Annotated(c, th)) /\ Returned(c, n, FALSE) /\ UNCHANGED pool BY <1>3 DEF Update
  <2>2. StreamInv' BY <1>1, <2>1, AnnotatedType, StoredByCall
  <2>3. CallPart(c, n) /\ PoolPart(c, n) BY <1>1, <2>1, ReturnedPart DEF LeakInv, PoolPart
  <2> QED BY <1>1, <1>2, <2>2, <2>3, StepLeavesNothing
<1>4. CASE ~(api[n].obj # None /\ api[n].rv = th.copy.rv) /\ api[n].obj # None /\ th.tries + 1 < Attempts
  <2> DEFINE new == [th EXCEPT !.pc = "get", !.tries = @ + 1]
  <2>1. th \in ThreadState BY DEF Inv, CallInv
  <2>2. UNCHANGED <<entry, agenda, pool, api, stream>> BY <1>4 DEF Update
  <2>3. thread' = [thread EXCEPT ![c][n] = new] BY <1>4 DEF Update, Inv, CallInv
  <2>4. new.retry = th.retry
    <3> HIDE DEF th
    <3> QED BY <2>1 DEF ThreadState
  <2> HIDE DEF new
  <2>5. CallPart(c, n) /\ PoolPart(c, n) BY <1>1, <2>2, <2>3, <2>4, GoesOnPart DEF LeakInv, PoolPart
  <2> QED BY <1>1, <1>2, <2>2, <2>5, StreamKept, StepLeavesNothing
<1>5. CASE ~(api[n].obj # None /\ api[n].rv = th.copy.rv) /\ ~(api[n].obj # None /\ th.tries + 1 < Attempts)
  <2>1. Failed(c, n) /\ UNCHANGED <<api, stream>> BY <1>5 DEF Update
  <2>2. CallPart(c, n) /\ PoolPart(c, n) BY <1>1, <2>1, FailedParts DEF LeakInv
  <2> QED BY <1>1, <1>2, <2>1, <2>2, StreamKept, StepLeavesNothing
<1> QED BY <1>3, <1>4, <1>5

\* An update that fails, stored or not.
LEMMA UpdateFailsLeavesNothing ==
    ASSUME Inv, Inv', LeakInv, NEW c \in Controllers, NEW n \in Nodes, UpdateFails(c, n)
    PROVE  LeakInv'
<1>1. /\ thread[c][n].pc = "update" /\ thread[c][n].pc # "idle" /\ Failed(c, n)
      /\ UNCHANGED <<ids, CallVars>>
  BY DEF UpdateFails
<1>2. CallPart(c, n) /\ PoolPart(c, n) BY <1>1, FailedParts DEF LeakInv
<1>3. IDPart(c, n) BY <1>1 DEF IDPart
<1>4. StreamInv'
  <2>1. CASE UNCHANGED <<api, stream>> BY <1>1, <2>1, StreamKept
  <2>2. CASE Store(n, Annotated(c, thread[c][n])) BY <1>1, <2>2, AnnotatedType, StoredByCall
  <2> QED BY <2>1, <2>2 DEF UpdateFails
<1> QED BY <1>1, <1>2, <1>3, <1>4, StepLeavesNothing

\* The IDs of other nodes stay.
LEMMA AllocateIDGives ==
    ASSUME NEW a \in IDAllocator, NEW n \in Nodes, NEW m \in Nodes, m # n, NEW id
    PROVE  AllocateID(a, n).of[m] = a.of[m] /\ ReserveID(a, n, id).of[m] = a.of[m]
<1>1. a.of \in [Nodes -> (0 .. MaxID - 1) \cup {None}] BY DEF IDAllocator
<1> QED BY <1>1 DEF AllocateID, ReserveID

\* ReleaseID takes the node's ID and leaves the others'.
LEMMA ReleaseIDTakes ==
    ASSUME NEW a \in IDAllocator, NEW n \in Nodes, NEW m \in Nodes
    PROVE  ReleaseID(a, n).of[m] = IF m = n THEN None ELSE a.of[m]
<1>1. a.of \in [Nodes -> (0 .. MaxID - 1) \cup {None}] BY DEF IDAllocator
<1> QED BY <1>1 DEF ReleaseID

\* The zone controller gets an ID for a node.
LEMMA ZoneAllocateLeavesNothing ==
    ASSUME Inv, Inv', LeakInv, NEW n \in Nodes, ZoneAllocate(n)
    PROVE  LeakInv'
<1>0. Zone \in Controllers BY DEF Controllers
<1>1. thread[Zone][n].pc # "idle" /\ UNCHANGED <<api, stream, pool, CallVars>> BY DEF ZoneAllocate
<1>2. PoolPart(Zone, n) BY <1>1 DEF PoolPart
<1>3. CallPart(Zone, n) /\ IDPart(Zone, n)
  <2>1. CASE CanAllocateID(ids, n)
    <3> DEFINE th == thread[Zone][n]
               new == [th EXCEPT !.pc = "patch"]
    <3>1. ids' = AllocateID(ids, n) /\ UNCHANGED <<entry, agenda>> BY <2>1 DEF ZoneAllocate
    <3>2. thread' = [thread EXCEPT ![Zone][n] = new] BY <1>0, <2>1 DEF ZoneAllocate, Inv, CallInv
    <3>3. th \in ThreadState BY <1>0 DEF Inv, CallInv
    <3>4. new.retry = th.retry
      <4> HIDE DEF th
      <4> QED BY <3>3 DEF ThreadState
    <3> HIDE DEF new
    <3>5. CallPart(Zone, n) BY <1>0, <1>1, <3>1, <3>2, <3>4, GoesOnPart DEF LeakInv
    <3>6. IDPart(Zone, n) BY <3>1, AllocateIDGives DEF IDPart, Inv, IDInv
    <3> QED BY <3>5, <3>6
  <2>2. CASE ~CanAllocateID(ids, n)
    <3>1. Returned(Zone, n, TRUE) /\ UNCHANGED ids BY <2>2 DEF ZoneAllocate
    <3> QED BY <1>0, <1>1, <3>1, ReturnedPart DEF LeakInv, IDPart
  <2> QED BY <2>1, <2>2
<1> QED BY <1>0, <1>1, <1>2, <1>3, StreamKept, StepLeavesNothing

\* A patch that has failed.
LEMMA PatchFailedParts ==
    ASSUME Inv, ThreadInv, NEW c \in Controllers, NEW n \in Nodes, thread[c][n].pc # "idle", PatchFailed(c, n)
    PROVE  CallPart(c, n) /\ PoolPart(c, n)
<1>1. \A s \in Subnet : pool'.alloc[s] \in {None, pool.alloc[s]}
  BY ReleaseGivesNothing DEF PatchFailed, ReleaseAllNetworks, Inv, PoolInv
<1>2. CallPart(c, n) BY ReturnedPart DEF PatchFailed
<1> QED BY <1>1, <1>2 DEF PoolPart

\* A patch that is stored, or finds the node gone.
LEMMA PatchLeavesNothing ==
    ASSUME Inv, Inv', LeakInv, NEW c \in Controllers, NEW n \in Nodes, Patch(c, n)
    PROVE  LeakInv'
<1>1. thread[c][n].pc # "idle" /\ UNCHANGED <<ids, CallVars>> BY DEF Patch
<1>2. IDPart(c, n) BY <1>1 DEF IDPart
<1>3. CASE api[n].obj = None
  <2>1. PatchFailed(c, n) /\ UNCHANGED <<api, stream>> BY <1>3 DEF Patch
  <2>2. CallPart(c, n) /\ PoolPart(c, n) BY <1>1, <2>1, PatchFailedParts DEF LeakInv
  <2> QED BY <1>1, <1>2, <2>1, <2>2, StreamKept, StepLeavesNothing
<1>4. CASE api[n].obj # None
  <2>1. Store(n, Patched(c, n)) /\ Returned(c, n, FALSE) /\ UNCHANGED pool BY <1>4 DEF Patch
  <2>2. StreamInv' BY <1>1, <1>4, <2>1, PatchedType, StoredByCall
  <2>3. CallPart(c, n) /\ PoolPart(c, n) BY <1>1, <2>1, ReturnedPart DEF LeakInv, PoolPart
  <2> QED BY <1>1, <1>2, <2>2, <2>3, StepLeavesNothing
<1> QED BY <1>3, <1>4

\* A patch that fails, stored or not.
LEMMA PatchFailsLeavesNothing ==
    ASSUME Inv, Inv', LeakInv, NEW c \in Controllers, NEW n \in Nodes, PatchFails(c, n)
    PROVE  LeakInv'
<1>1. thread[c][n].pc # "idle" /\ PatchFailed(c, n) /\ UNCHANGED <<ids, CallVars>> BY DEF PatchFails
<1>2. CallPart(c, n) /\ PoolPart(c, n) BY <1>1, PatchFailedParts DEF LeakInv
<1>3. IDPart(c, n) BY <1>1 DEF IDPart
<1>4. StreamInv'
  <2>1. CASE UNCHANGED <<api, stream>> BY <1>1, <2>1, StreamKept
  <2>2. CASE api[n].obj # None /\ Store(n, Patched(c, n)) BY <1>1, <2>2, PatchedType, StoredByCall
  <2> QED BY <2>1, <2>2 DEF PatchFails
<1> QED BY <1>1, <1>2, <1>3, <1>4, StepLeavesNothing

\* A call that begins.
LEMMA BeginPart ==
    ASSUME Inv, NEW c \in Controllers, NEW n \in Nodes, NEW node, NEW retry \in BOOLEAN,
           Begin(c, n, node, retry), ~retry => Head(agenda).new # None
    PROVE  CallPart(c, n) /\ PoolPart(c, n) /\ IDPart(c, n)
<1> DEFINE todo == IF c = Zone THEN {} ELSE Existing(c, node)
           th == [pc |-> "allocate", retry |-> retry, node |-> node, todo |-> todo, kept |-> {},
                  allocated |-> {}, copy |-> None, tries |-> 0]
<1>1. thread' = [thread EXCEPT ![c][n] = th] /\ UNCHANGED <<entry, agenda, pool, ids>>
  BY DEF Begin
<1>2. th.retry = retry BY Zenon
<1> HIDE DEF th
<1>3. CallPart(c, n) BY <1>1, <1>2, OngoingPart
<1> QED BY <1>1, <1>3 DEF PoolPart, IDPart

\* A retry begins, or an entry is given up.
LEMMA RetryLeavesNothing ==
    ASSUME Inv, Inv', LeakInv, NEW c \in Controllers, NEW n \in Nodes, Retry(c, n)
    PROVE  LeakInv'
<1>1. thread[c][n].pc = "idle" /\ entry[c][n] # None /\ UNCHANGED <<api, stream, CallVars>> BY DEF Retry
<1>2. c \in started BY <1>1 DEF LeakInv, ThreadInv
<1>3. CASE entry[c][n] < MaxFailedAttempts /\ cached[n].obj # None
  <2>1. Begin(c, n, cached[n].obj, TRUE) BY <1>3 DEF Retry
  <2>2. CallPart(c, n) /\ PoolPart(c, n) /\ IDPart(c, n) BY <2>1, BeginPart
  <2>3. Due(c, n) BY <1>3 DEF Due, DueFrom
  <2>4. pool' \in SubnetAllocator BY DEF Inv, PoolInv
  <2>5. StreamInv' BY <1>1, StreamKept
  <2>6. UNCHANGED <<scenario, cached, queue, started>> BY <1>1 DEF CallVars
  <2> QED BY <1>2, <2>2, <2>3, <2>4, <2>5, <2>6, CallLeavesNothing DEF LeakInv
<1>4. CASE ~(entry[c][n] < MaxFailedAttempts /\ cached[n].obj # None)
  <2>1. entry' = [entry EXCEPT ![c][n] = None] /\ UNCHANGED <<thread, agenda, pool, ids>> BY <1>4 DEF Retry
  <2>2. UNCHANGED <<scenario, cached, queue, started>> BY <1>1 DEF CallVars
  <2>3. \A d, m, i : DueFrom(d, m, i)' = DueFrom(d, m, i) BY <2>1, <2>2, DueKept
  <2>4. StreamInv' /\ QueueInv' BY <1>1, <2>2, StreamKept DEF LeakInv, QueueInv, Ends
  <2>5. AgendaInv' BY <2>1, <2>2, <2>3 DEF LeakInv, AgendaInv
  <2>6. \A d \in Controllers, m \in Nodes : entry'[d][m] # None => entry[d][m] # None
    BY <1>1, <2>1 DEF Inv, CallInv
  <2>7. ThreadInv' BY <2>1, <2>2, <2>3, <2>6 DEF LeakInv, ThreadInv, Due
  <2>8. OwnersInv' BY <2>1, <2>2, <2>3 DEF LeakInv, OwnersInv, Due
  <2> QED BY <2>4, <2>5, <2>7, <2>8 DEF LeakInv
<1> QED BY <1>3, <1>4

\* The call to be made next is of a controller that has started, and followed by
\* a deletion if the node is gone.
LEMMA HeadOfAgenda ==
    ASSUME Inv, LeakInv, agenda # <<>>
    PROVE  /\ Head(agenda) \in Work /\ Tail(agenda) \in Seq(Work)
           /\ Head(agenda).ctrl \in Controllers /\ Head(agenda).node \in Nodes
           /\ Head(agenda).ctrl \in started /\ Due(Head(agenda).ctrl, Head(agenda).node)
<1>1. Head(agenda) \in Work /\ Tail(agenda) \in Seq(Work) BY HeadAndTail DEF Inv, CallInv
<1>2. Head(agenda) = agenda[1] /\ 1 \in DOMAIN agenda BY DEF Inv, CallInv
<1>3. agenda[1].ctrl \in started /\ Due(agenda[1].ctrl, agenda[1].node) BY <1>2 DEF LeakInv, AgendaInv, Due
<1>4. Head(agenda).ctrl \in Controllers /\ Head(agenda).node \in Nodes BY <1>1 DEF Work
<1> QED BY <1>1, <1>2, <1>3, <1>4

\* A controller syncs with a node: it marks what the node is annotated with, in
\* its own ranges.
LEMMA SyncLeavesNothing ==
    ASSUME Inv, Inv', LeakInv, Sync
    PROVE  LeakInv'
<1> DEFINE w == Head(agenda)
           c == w.ctrl
           n == w.node
<1>1. agenda # <<>> /\ w.op \in {"sync", "replace"} /\ agenda' = Tail(agenda) BY DEF Sync
<1>2. UNCHANGED <<scenario, api, stream, cached, queue, started, entry, thread>> BY DEF Sync
<1>3. w \in Work /\ c \in Controllers /\ n \in Nodes /\ c \in started /\ Due(c, n) BY <1>1, HeadOfAgenda
<1>4. w.new \in NodeObject BY <1>1, <1>3 DEF Work
<1>5. \A d \in Controllers, m \in Nodes : thread[d][m].pc = "idle" \/ thread[d][m].retry
  BY <1>1 DEF Inv, CallInv, ThreadOK
<1>6. \A d \in Controllers, m \in Nodes : w \notin DeleteCall(d, m) BY <1>1 DEF DeleteCall
<1>7. CASE c = Zone
  <2>1. ids' = (IF w.op = "sync" THEN SyncNodeID(ids, n, w.new) ELSE ReplaceNodeID(ids, n, w.new)) /\ UNCHANGED pool
    BY <1>7 DEF Sync
  <2>2. IDPart(c, n) BY <1>3, <1>7, <2>1, AllocateIDGives DEF IDPart, SyncNodeID, ReplaceNodeID, Inv, IDInv
  <2>3. PoolPart(c, n) BY <2>1 DEF PoolPart
  <2>4. PICK d \in Controllers, m \in Nodes : d = c /\ m = n BY <1>3
  <2>5. PoolPart(d, m) /\ IDPart(d, m) BY <2>2, <2>3, <2>4 DEF PoolPart, IDPart
  <2>6. CallPart(d, m) BY <1>1, <1>2, <1>5, <1>6 DEF CallPart
  <2>7. pool' \in SubnetAllocator /\ StreamInv' BY <1>2 DEF Inv, PoolInv, LeakInv, StreamInv, Ends
  <2> QED BY <1>2, <1>3, <2>4, <2>5, <2>6, <2>7, CallLeavesNothing DEF LeakInv
<1>8. CASE c # Zone
  <2>1. pool' = SyncNode(pool, c, n, w.new) /\ UNCHANGED ids BY <1>8 DEF Sync
  <2>2. c \in Nets BY <1>3, <1>8 DEF Controllers
  <2>3. pool \in SubnetAllocator BY DEF Inv, PoolInv
  <2>4. PoolPart(c, n)
    <3> SUFFICES ASSUME ~scenario.hybrid, NEW s \in Subnet
                 PROVE  pool'.alloc[s] \in {None, pool.alloc[s]} \/ (InPool(c, s) /\ pool'.alloc[s] = n)
      BY <2>2 DEF PoolPart
    <3> HIDE DEF w, c, n
    <3>1. CASE pool' = pool BY <3>1
    <3>2. CASE pool' # pool
      <4> DEFINE nets == w.new.subnets[c]
      <4>1. (\A t \in nets : CanMark(pool, c, n, t)) /\ pool' = MarkNetworks(pool, n, nets)
        BY <2>1, <3>2 DEF SyncNode
      <4> HIDE DEF nets
      <4>2. pool'.alloc[s] = IF s \in nets THEN n ELSE pool.alloc[s] BY <2>3, <4>1, MarkGives
      <4> QED BY <4>1, <4>2 DEF CanMark
    <3> QED BY <3>1, <3>2
  <2>5. IDPart(c, n) BY <2>1 DEF IDPart
  <2>6. PICK d \in Controllers, m \in Nodes : d = c /\ m = n BY <1>3
  <2>7. PoolPart(d, m) /\ IDPart(d, m) BY <2>4, <2>5, <2>6 DEF PoolPart, IDPart
  <2>8. CallPart(d, m) BY <1>1, <1>2, <1>5, <1>6 DEF CallPart
  <2>9. pool' \in SubnetAllocator /\ StreamInv' BY <1>2 DEF Inv, PoolInv, LeakInv, StreamInv, Ends
  <2> QED BY <1>2, <1>3, <2>6, <2>7, <2>8, <2>9, CallLeavesNothing DEF LeakInv
<1> QED BY <1>7, <1>8

\* A deletion is handled: all that the controller has for the node is released.
LEMMA DeletionReleases ==
    ASSUME Inv, Inv', LeakInv, NEW c \in Controllers, NEW n \in Nodes,
           agenda # <<>>, Head(agenda).ctrl = c, Head(agenda).node = n,
           thread[c][n].pc = "idle",
           \A d \in Controllers, m \in Nodes : thread[d][m].pc = "idle" \/ thread[d][m].retry,
           HandleDeleteNode(c, n), entry' = [entry EXCEPT ![c][n] = None], agenda' = Tail(agenda),
           UNCHANGED <<thread, api, stream, scenario, cached, queue, started>>
    PROVE  LeakInv'
<1>1. StreamInv' /\ QueueInv' BY DEF LeakInv, StreamInv, QueueInv, Ends
<1>2. \A d \in Controllers, m \in Nodes : d # c \/ m # n => Head(agenda) \notin DeleteCall(d, m) BY DEF DeleteCall
<1>3. AgendaInv' /\ \A d \in Controllers, m \in Nodes : (d # c \/ m # n) /\ Due(d, m) => Due(d, m)'
  BY <1>2, PopKeeps DEF LeakInv
<1>4. ThreadInv'
  <2> SUFFICES ASSUME NEW d \in Controllers, NEW m \in Nodes
               PROVE  /\ thread[d][m].pc # "idle" => /\ d \in started /\ Due(d, m)'
                                                     /\ ~thread[d][m].retry => Head(agenda').new # None
                      /\ entry'[d][m] # None => d \in started
    BY DEF ThreadInv
  <2>1. entry'[d][m] # None => entry[d][m] # None BY DEF Inv, CallInv
  <2>2. entry'[d][m] # None => d \in started BY <2>1 DEF LeakInv, ThreadInv
  <2>3. thread[d][m].pc # "idle" => d # c \/ m # n OBVIOUS
  <2>4. thread[d][m].pc # "idle" => d \in started /\ Due(d, m)' BY <1>3, <2>3 DEF LeakInv, ThreadInv
  <2> QED BY <2>2, <2>4
<1>5. ASSUME NEW m \in Nodes, ids'.of[m] # None PROVE Zone \in started /\ Due(Zone, m)'
  <2>1. Zone \in Controllers /\ ids \in IDAllocator BY DEF Controllers, Inv, IDInv
  <2>2. ids.of[m] # None /\ (Zone # c \/ m # n)
    <3>1. CASE c = Zone BY <1>5, <2>1, <3>1, ReleaseIDTakes DEF HandleDeleteNode
    <3>2. CASE c # Zone BY <1>5, <3>2 DEF HandleDeleteNode
    <3> QED BY <3>1, <3>2
  <2>3. Zone \in started /\ Due(Zone, m) BY <2>2 DEF LeakInv, OwnersInv
  <2> QED BY <1>3, <2>1, <2>2, <2>3
<1>6. ASSUME ~scenario.hybrid, NEW s \in Subnet, NEW m, m = pool'.alloc[s], m # None
      PROVE  \E d \in started \cap Nets : InPool(d, s) /\ Due(d, m)'
  <2>1. pool \in SubnetAllocator /\ pool' \in SubnetAllocator BY DEF Inv, PoolInv
  <2>2. m \in Nodes BY <1>6, <2>1 DEF SubnetAllocator
  <2>3. m = pool.alloc[s] /\ (c \in Nets /\ InPool(c, s) => m # n)
    <3>1. CASE c = Zone BY <1>6, <3>1, ConstantsTyped DEF HandleDeleteNode
    <3>2. CASE c # Zone
      <4>1. pool' = ReleaseAllNetworks(pool, c, n) BY <1>6, <3>2 DEF HandleDeleteNode
      <4>2. pool'.alloc[s] \in {None, pool.alloc[s]} BY <2>1, <4>1, ReleaseGivesNothing DEF ReleaseAllNetworks
      <4>3. InPool(c, s) => pool'.alloc[s] # n BY <2>1, <4>1, ReleaseAllTakes
      <4> QED BY <1>6, <4>2, <4>3
    <3> QED BY <3>1, <3>2
  <2>4. PICK d \in started \cap Nets : InPool(d, s) /\ Due(d, m) BY <1>6, <2>3 DEF LeakInv, OwnersInv
  <2>5. d \in Controllers /\ (d # c \/ m # n) BY <2>3, <2>4 DEF Controllers
  <2> QED BY <1>3, <2>2, <2>4, <2>5
<1>7. OwnersInv'
  <2>1. ~scenario'.hybrid => \A s \in Subnet : pool'.alloc[s] # None =>
            \E d \in started \cap Nets : InPool(d, s) /\ (cached'[pool'.alloc[s]].obj # None
                \/ Ends(queue', 1, DeleteEvent(pool'.alloc[s])) \/ Ends(agenda', 1, DeleteCall(d, pool'.alloc[s])))
    BY <1>6 DEF Due, DueFrom
  <2> QED BY <1>5, <2>1 DEF OwnersInv, Due, DueFrom
<1> QED BY <1>1, <1>3, <1>4, <1>7 DEF LeakInv

\* The goroutine of events makes its next call.
LEMMA HandleEventLeavesNothing ==
    ASSUME Inv, Inv', LeakInv, HandleEvent
    PROVE  LeakInv'
<1> DEFINE old == Head(agenda).old
           new == Head(agenda).new
<1>1. agenda # <<>> /\ Head(agenda).op = "event" BY DEF HandleEvent
<1>2. PICK c \in Controllers, n \in Nodes : c = Head(agenda).ctrl /\ n = Head(agenda).node BY <1>1, HeadOfAgenda
<1>3. c \in started /\ Due(c, n) BY <1>1, <1>2, HeadOfAgenda
<1>4. thread[c][n].pc = "idle" /\ UNCHANGED <<api, stream, CallVars>> BY <1>2 DEF HandleEvent
<1>5. \A d \in Controllers, m \in Nodes : thread[d][m].pc = "idle" \/ thread[d][m].retry
  <2> SUFFICES ASSUME NEW d \in Controllers, NEW m \in Nodes, thread[d][m].pc # "idle", ~thread[d][m].retry PROVE FALSE
    OBVIOUS
  <2>1. ThreadOK(d, m) BY DEF Inv, CallInv
  <2> QED BY <1>2, <1>4, <2>1 DEF ThreadOK
<1>6. StreamInv' /\ UNCHANGED <<scenario, cached, queue, started>> BY <1>4, StreamKept DEF CallVars
<1>7. pool' \in SubnetAllocator BY DEF Inv, PoolInv
<1>8. CASE new = None
  <2>1. HandleDeleteNode(c, n) /\ entry' = [entry EXCEPT ![c][n] = None] /\ agenda' = Tail(agenda) /\ UNCHANGED thread
    BY <1>2, <1>8 DEF HandleEvent
  <2> QED BY <1>1, <1>2, <1>4, <1>5, <1>6, <2>1, DeletionReleases
<1>9. CASE new # None /\ agenda' = Tail(agenda) /\ UNCHANGED <<thread, entry, pool, ids>>
  <2>1. \A d \in Controllers, m \in Nodes : Head(agenda) \notin DeleteCall(d, m) BY <1>9 DEF DeleteCall
  <2>2. CallPart(c, n) BY <1>1, <1>5, <1>9, <2>1 DEF CallPart
  <2>3. PoolPart(c, n) /\ IDPart(c, n) BY <1>9 DEF PoolPart, IDPart
  <2> QED BY <1>3, <1>6, <1>7, <2>2, <2>3, CallLeavesNothing DEF LeakInv
<1>10. CASE new # None /\ \E node : Begin(c, n, node, FALSE)
  <2>1. PICK node : Begin(c, n, node, FALSE) BY <1>10
  <2>2. CallPart(c, n) /\ PoolPart(c, n) /\ IDPart(c, n) BY <1>10, <2>1, BeginPart
  <2> QED BY <1>3, <1>6, <1>7, <2>2, CallLeavesNothing DEF LeakInv
<1>11. \/ new = None
       \/ new # None /\ agenda' = Tail(agenda) /\ UNCHANGED <<thread, entry, pool, ids>>
       \/ new # None /\ \E node : Begin(c, n, node, FALSE)
  BY <1>2, Zenon DEF HandleEvent
<1> QED BY <1>8, <1>9, <1>10, <1>11

-----------------------------------------------------------------------------
(***************************************************************************)
(* The theorems about deleted nodes                                        *)
(***************************************************************************)

\* At the start nothing is allocated.
LEMMA NothingAtStart == Init => LeakInv
<1> SUFFICES ASSUME Init PROVE LeakInv
  OBVIOUS
<1>1. stream = <<>> /\ queue = <<>> /\ agenda = <<>> /\ cached = api BY DEF Init
<1>2. StreamInv /\ QueueInv /\ AgendaInv BY <1>1 DEF StreamInv, QueueInv, AgendaInv
<1>3. ASSUME NEW c \in Controllers, NEW n \in Nodes PROVE thread[c][n].pc = "idle" /\ entry[c][n] = None
  <2>1. thread[c][n] = Idle /\ entry[c][n] = None BY DEF Init
  <2> QED BY <2>1 DEF Idle
<1>4. ThreadInv BY <1>3 DEF ThreadInv
<1>5. pool = NewPool /\ ids = NewIDs BY DEF Init
<1>6. OwnersInv BY <1>5 DEF OwnersInv, NewPool, NewIDs
<1> QED BY <1>2, <1>4, <1>6 DEF LeakInv

\* Every step keeps the invariant.
LEMMA EveryStep == Inv /\ Inv' /\ LeakInv /\ [Next]_vars => LeakInv'
<1> SUFFICES ASSUME Inv, Inv', LeakInv, [Next]_vars PROVE LeakInv'
  OBVIOUS
<1>1. CASE Environment
  BY <1>1, ChangesLeaveNothing, RestartLeavesNothing DEF Environment
<1>2. CASE System
  <2>1. CASE Watch BY <2>1, WatchLeavesNothing
  <2>2. CASE Deliver BY <2>2, DeliverLeavesNothing
  <2>3. CASE Sync BY <2>3, SyncLeavesNothing
  <2>4. CASE HandleEvent BY <2>4, HandleEventLeavesNothing
  <2>5. CASE \E c \in Controllers : Start(c) BY <2>5, StartLeavesNothing
  <2>6. CASE \E n \in Nodes : ZoneAllocate(n) BY <2>6, ZoneAllocateLeavesNothing
  <2>7. ASSUME NEW c \in Controllers, NEW n \in Nodes, Retry(c, n) \/ CallStep(c, n) PROVE LeakInv'
    BY <2>7, RetryLeavesNothing, SkipLeavesNothing, CheckLeavesNothing, AllocateLeavesNothing,
       ExhaustedLeavesNothing, GetLeavesNothing, UpdateLeavesNothing, PatchLeavesNothing DEF CallStep
  <2> QED BY <1>2, <2>1, <2>2, <2>3, <2>4, <2>5, <2>6, <2>7 DEF System
<1>3. ASSUME NEW c \in Controllers, NEW n \in Nodes, Failure(c, n) PROVE LeakInv'
  BY <1>3, UpdateFailsLeavesNothing, PatchFailsLeavesNothing DEF Failure
<1>4. CASE UNCHANGED vars
  <2>1. UNCHANGED <<scenario, api, stream, cached, queue, agenda, started, entry, pool, ids, thread>> BY <1>4 DEF vars
  <2>2. \A c, n, i : DueFrom(c, n, i)' = DueFrom(c, n, i) BY <2>1, DueKept
  <2>3. StreamInv' /\ QueueInv' BY <2>1 DEF LeakInv, StreamInv, QueueInv, Ends
  <2>4. AgendaInv' BY <2>1, <2>2 DEF LeakInv, AgendaInv
  <2>5. ThreadInv' /\ OwnersInv' BY <2>1, <2>2, HeldKept DEF LeakInv, Due
  <2> QED BY <2>3, <2>4, <2>5 DEF LeakInv
<1> QED BY <1>1, <1>2, <1>3, <1>4 DEF Next

\* In every reachable state, for any number of nodes, networks, ranges and IDs,
\* any scenario and any bound: whoever has something for a node, or is about to
\* allocate something, will be told of its deletion.
THEOREM DeletionsReachOwners == Spec => []LeakInv
<1>1. Init => Inv BY InitOK
<1>2. Inv /\ [Next]_vars => Inv' BY NextOK
<1>3. Init => LeakInv BY NothingAtStart
<1>4. Inv /\ Inv' /\ LeakInv /\ [Next]_vars => LeakInv' BY EveryStep
<1> QED BY <1>1, <1>2, <1>3, <1>4, PTL DEF Spec

\* Once all is quiet, the subnets and IDs that are allocated belong to nodes that
\* exist, whatever was lost, refused, retried, given up or restarted before
\* (HandleDeleteNode, handleDeleteNode).
THEOREM NoLeak == Spec => []NothingLeaked
<1>1. Spec => []Inv BY InitOK, NextOK, PTL DEF Spec
<1>2. Inv /\ LeakInv => NothingLeaked BY RestIsClean
<1> QED BY <1>1, <1>2, DeletionsReachOwners, PTL

-----------------------------------------------------------------------------
(***************************************************************************)
(* That the annotations of nodes agree with the allocators once all is     *)
(* quiet, which is the invariant AnnotationsAgree.                         *)
(*                                                                         *)
(* A controller that is idle need not agree with the API server: the cache *)
(* may be behind, and somebody may have changed the node.  But then it is  *)
(* going to be called again.  What it still has to see of a node is Ahead: *)
(* the states from which its calls and events start, the one in the cache  *)
(* and those on their way to it.  The invariant is that one of them is     *)
(* good, which is to say that it agrees with the allocators, or that two   *)
(* of them are different, so that an event that matters is still to come.  *)
(* At rest the state in the API server is all that is ahead.               *)
(***************************************************************************)

\* A node has, or has not, a host subnet from its creation on.
SameKind(o, p) == o # None /\ p # None => o.noHostSubnet = p.noHostSubnet

\* The versions of a node that are cached or on their way to the cache.
Known(n) == {cached[n]} \cup {stream[i].ver : i \in {j \in DOMAIN stream : stream[j].node = n}}

\* The latest version is one of them and is told by its number, and the versions
\* come one after the other.
VersionsInv ==
    \A n \in Nodes :
        /\ api[n] \in Known(n)
        /\ \A v \in Known(n) : v.rv <= api[n].rv /\ (v.rv = api[n].rv => v = api[n])
        /\ \A v, w \in Known(n) : w.rv = v.rv + 1 => SameKind(v.obj, w.obj)
        /\ \A i, j \in DOMAIN stream :
               stream[i].node = n /\ stream[j].node = n /\ stream[i].ver.rv = stream[j].ver.rv => i = j
        /\ \A i \in DOMAIN stream : stream[i].node = n =>
               \/ stream[i].ver.rv = cached[n].rv + 1
               \/ \E j \in DOMAIN stream : j < i /\ stream[j].node = n /\ stream[i].ver.rv = stream[j].ver.rv + 1

\* Where one event of a node ends the next one starts, or the cache is there.
EventsInv ==
    /\ \A i \in DOMAIN queue :
           /\ SameKind(queue[i].old, queue[i].new)
           /\ \/ queue[i].new = cached[queue[i].node].obj
              \/ \E j \in DOMAIN queue : j > i /\ queue[j].node = queue[i].node /\ queue[j].old = queue[i].new
    /\ \A i \in DOMAIN agenda : agenda[i].op = "event" =>
           /\ SameKind(agenda[i].old, agenda[i].new)
           /\ \/ agenda[i].new = cached[agenda[i].node].obj
              \/ \E j \in DOMAIN queue : queue[j].node = agenda[i].node /\ queue[j].old = agenda[i].new

\* A controller that syncs is idle, and will add the nodes it syncs with.
SyncInv ==
    \A i \in DOMAIN agenda : agenda[i].op # "event" =>
        /\ \A n \in Nodes : thread[agenda[i].ctrl][n].pc = "idle" /\ entry[agenda[i].ctrl][n] = None
        /\ \A j \in DOMAIN agenda : j < i => agenda[j].op # "event"
        /\ \E j \in DOMAIN agenda : /\ agenda[j].op = "event" /\ agenda[j].ctrl = agenda[i].ctrl
                                    /\ agenda[j].node = agenda[i].node /\ agenda[j].old = None

\* What is still to be seen of a node, by everybody and by one controller.
Later(n) == {v.obj : v \in Known(n)} \cup {queue[i].old : i \in {j \in DOMAIN queue : queue[j].node = n}}

CallsOf(c, n) == {i \in DOMAIN agenda : agenda[i].op = "event" /\ agenda[i].ctrl = c /\ agenda[i].node = n}

Ahead(c, n) == Later(n) \cup {agenda[i].old : i \in CallsOf(c, n)}

OnePerFamily(nets) == \A s, t \in nets : (s.range \in IPv4 <=> t.range \in IPv4) => s = t

Complete(p, nets) ==
    /\ V4Ranges[p] # <<>> => \E s \in nets : s.range \in IPv4
    /\ V6Ranges[p] # <<>> => \E s \in nets : s.range \notin IPv4

Owned(p, n, nets) == \A s \in nets : InPool(p, s) /\ pool.alloc[s] = n

\* The annotations of node o are what the allocators of c have for n.
Good(c, n, o) ==
    \/ o = None
    \/ c = Zone /\ ids.of[n] # None /\ o.id = ids.of[n]
    \/ /\ c # Zone /\ o.noHostSubnet
       /\ (c = Default /\ scenario.hybrid) =>
              Owned(Hybrid, n, o.hybrid) /\ OnePerFamily(o.hybrid) /\ Complete(Hybrid, o.hybrid)
    \/ /\ c # Zone /\ ~o.noHostSubnet /\ c \in o.networkIDs
       /\ Owned(c, n, o.subnets[c]) /\ OnePerFamily(o.subnets[c]) /\ Complete(c, o.subnets[c])

\* What c can tell apart.
Same(c, o, p) == o = p \/ (c = Zone /\ o # None /\ p # None /\ o.id = p.id)

Assured(c, n) == \E o, p \in Ahead(c, n) : Good(c, n, o) \/ ~Same(c, o, p)

Agrees(c, n) ==
    c \in started /\ thread[c][n].pc = "idle" /\ entry[c][n] = None /\ <<c, n>> \notin dropped => Assured(c, n)

\* A call works on a node that is ahead, ...
Sees(c, n, th) == th.node \in Ahead(c, n) /\ (~th.retry => th.node \in Later(n))

\* ... with subnets that are the node's, one of a family, ...
Holds(c, n, th) ==
    LET p    == PoolOf(c, th.node)
        nets == th.kept \cup th.allocated
    IN  /\ th.kept \cup th.todo \subseteq Existing(c, th.node) /\ th.kept \cap th.todo = {}
        /\ th.todo # {} => th.allocated = {}
        /\ Owned(p, n, nets) /\ OnePerFamily(nets)
        /\ th.node.noHostSubnet => (c = Default /\ scenario.hybrid) \/ (th.pc = "allocate" /\ nets = {})
        /\ th.pc # "allocate" => th.todo = {} /\ Complete(p, nets) /\ (th.node.noHostSubnet <=> th.pc = "patch")

\* ... and the copy it writes is told by its number, too.
Reads(n, th) == th.pc = "update" => th.copy.rv <= api[n].rv /\ (th.copy.rv = api[n].rv => th.copy = api[n])

Works(c, n, th) == Sees(c, n, th) /\ Holds(c, n, th) /\ Reads(n, th)

PairOK(c, n) ==
    /\ Agrees(c, n)
    /\ c = Zone /\ thread[c][n].pc = "patch" => ids.of[n] # None
    /\ c # Zone /\ thread[c][n].pc # "idle" => Works(c, n, thread[c][n])

PairsInv == \A c \in Controllers, n \in Nodes : PairOK(c, n)

AgreeInv == VersionsInv /\ EventsInv /\ SyncInv /\ PairsInv

-----------------------------------------------------------------------------
(***************************************************************************)
(* At rest                                                                 *)
(***************************************************************************)

\* A subnet of a pool is of a family that the pool has ranges of.
LEMMA FamilyOfPool ==
    ASSUME NEW p \in Pools, NEW s \in Subnet, InPool(p, s)
    PROVE  /\ s.range \in IPv4 => V4Ranges[p] # <<>>
           /\ s.range \notin IPv4 => V6Ranges[p] # <<>>
<1>1. V4Ranges[p] \in Seq(IPv4) /\ V6Ranges[p] \in Seq(Ranges \ IPv4) BY ConstantsTyped
<1>2. \/ \E i \in DOMAIN V4Ranges[p] : s.range = V4Ranges[p][i]
      \/ \E i \in DOMAIN V6Ranges[p] : s.range = V6Ranges[p][i]
  BY DEF InPool, ToSet
<1>3. CASE \E i \in DOMAIN V4Ranges[p] : s.range = V4Ranges[p][i]
  <2>1. s.range \in IPv4 BY <1>1, <1>3
  <2>2. V4Ranges[p] # <<>> BY <1>3
  <2> QED BY <2>1, <2>2
<1>4. CASE \E i \in DOMAIN V6Ranges[p] : s.range = V6Ranges[p][i]
  <2>1. s.range \notin IPv4 BY <1>1, <1>4
  <2>2. V6Ranges[p] # <<>> BY <1>4
  <2> QED BY <2>1, <2>2
<1> QED BY <1>2, <1>3, <1>4

\* The families of a pool: TRUE for IPv4.
Families(p) == (IF V4Ranges[p] = <<>> THEN {} ELSE {TRUE}) \cup (IF V6Ranges[p] = <<>> THEN {} ELSE {FALSE})

\* Subnets that are one of every family are as many as there are families.
LEMMA FamiliesCounted ==
    ASSUME NEW p \in Pools, NEW nets \in SUBSET Subnet, \A s \in nets : InPool(p, s),
           OnePerFamily(nets), Complete(p, nets)
    PROVE  {(s.range \in IPv4) : s \in nets} = Families(p) /\ Cardinality(nets) = Cardinality(Families(p))
<1> DEFINE families == Families(p)
           image == {(s.range \in IPv4) : s \in nets}
<1>1. image = families
  <2> USE DEF Families
  <2>1. ASSUME NEW b \in image PROVE b \in families
    <3>1. PICK s \in nets : b = (s.range \in IPv4) OBVIOUS
    <3>2. CASE s.range \in IPv4
      <4>1. V4Ranges[p] # <<>> BY <3>2, FamilyOfPool
      <4>2. b = TRUE BY <3>1, <3>2
      <4> QED BY <4>1, <4>2
    <3>3. CASE s.range \notin IPv4
      <4>1. V6Ranges[p] # <<>> BY <3>3, FamilyOfPool
      <4>2. (s.range \in IPv4) = FALSE BY <3>3
      <4>3. b = FALSE BY <3>1, <4>2, Zenon
      <4> QED BY <4>1, <4>3
    <3> QED BY <3>2, <3>3
  <2>2. ASSUME NEW b \in families PROVE b \in image
    <3>1. (b = TRUE /\ V4Ranges[p] # <<>>) \/ (b = FALSE /\ V6Ranges[p] # <<>>) OBVIOUS
    <3>2. CASE b = TRUE /\ V4Ranges[p] # <<>>
      <4>1. PICK s \in nets : s.range \in IPv4 BY <3>2 DEF Complete
      <4>2. b = (s.range \in IPv4) BY <3>2, <4>1, Zenon
      <4> QED BY <4>2
    <3>3. CASE b = FALSE /\ V6Ranges[p] # <<>>
      <4>1. PICK s \in nets : s.range \notin IPv4 BY <3>3 DEF Complete
      <4>2. (s.range \in IPv4) = FALSE BY <4>1
      <4>3. b = (s.range \in IPv4) BY <3>3, <4>2, Zenon
      <4> QED BY <4>3
    <3> QED BY <3>1, <3>2, <3>3
  <2> QED BY <2>1, <2>2
<1> DEFINE f == [s \in nets |-> (s.range \in IPv4)]
<1>2. f \in Surjection(nets, image) BY Zenon DEF Surjection
<1>3. f \in Injection(nets, image)
  <2>1. f \in [nets -> image] OBVIOUS
  <2>2. ASSUME NEW s \in nets, NEW t \in nets, f[s] = f[t] PROVE s = t
    <3>1. s.range \in IPv4 <=> t.range \in IPv4 BY <2>2
    <3> QED BY <3>1 DEF OnePerFamily
  <2> QED BY <2>1, <2>2 DEF Injection, IsInjective
<1>4. IsFiniteSet(nets) BY SubnetFinite, FS_Subset
<1> HIDE DEF f, image, families
<1>5. Cardinality(image) = Cardinality(nets) BY <1>2, <1>3, <1>4, FS_Surjection
<1> QED BY <1>1, <1>5 DEF image, families

\* What the API server has is ahead of everybody.
LEMMA ApiIsAhead ==
    ASSUME VersionsInv, NEW n \in Nodes
    PROVE  api[n].obj \in Later(n)
  BY DEF VersionsInv, Later

\* The invariant says at rest what it has to.
LEMMA RestAgrees ==
    ASSUME Inv, AgreeInv
    PROVE  AnnotationsAgree
<1> SUFFICES ASSUME Settled, NEW n \in Nodes, NEW c \in scenario.controllers,
                    api[n].obj # None, <<c, n>> \notin dropped
             PROVE  IF c = Zone THEN api[n].obj.id = ids.of[n] /\ ids.of[n] # None
                    ELSE IF ~api[n].obj.noHostSubnet THEN SubnetsAgree(c, n)
                    ELSE (c = Default /\ scenario.hybrid) => HybridAgrees(n)
  BY DEF AnnotationsAgree
<1>1. c \in Controllers BY ScenarioType DEF Inv
<1>2. PairOK(c, n) /\ VersionsInv BY <1>1 DEF AgreeInv, PairsInv
<1>3. Assured(c, n) BY <1>1, <1>2 DEF PairOK, Agrees, Settled
<1>4. Ahead(c, n) = {cached[n].obj}
  <2>1. stream = <<>> /\ queue = <<>> /\ agenda = <<>> BY DEF Settled
  <2> QED BY <2>1 DEF Ahead, Later, Known, CallsOf
<1>5. Later(n) \subseteq Ahead(c, n) BY DEF Ahead
<1>6. cached[n].obj = api[n].obj BY <1>2, <1>4, <1>5, ApiIsAhead
<1>7. Good(c, n, api[n].obj) BY <1>3, <1>4, <1>6 DEF Assured, Same
<1> DEFINE o == api[n].obj
<1>8. o \in NodeObject BY DEF Inv, WorldInv, Version
<1>9. CASE c = Zone BY <1>7, <1>9 DEF Good
<1>10. CASE c # Zone /\ ~o.noHostSubnet
  <2>1. c \in Nets /\ c \in Pools BY <1>1, <1>10 DEF Controllers, Pools
  <2>2. c \in o.networkIDs /\ Owned(c, n, o.subnets[c]) /\ OnePerFamily(o.subnets[c]) /\ Complete(c, o.subnets[c])
    BY <1>7, <1>10 DEF Good
  <2>3. o.subnets[c] \in SUBSET Subnet BY <1>8, <2>1 DEF NodeObject
  <2>4. \A s \in o.subnets[c] : InPool(c, s) /\ pool.alloc[s] = n BY <2>2 DEF Owned
  <2>5. {(s.range \in IPv4) : s \in o.subnets[c]} = Families(c) /\ Cardinality(o.subnets[c]) = Cardinality(Families(c))
    BY <2>1, <2>2, <2>3, <2>4, FamiliesCounted
  <2>6. SubnetsAgree(c, n) BY <2>2, <2>4, <2>5, Zenon DEF SubnetsAgree, Families
  <2> QED BY <1>10, <2>6
<1>11. CASE c # Zone /\ o.noHostSubnet
  <2> SUFFICES ASSUME c = Default, scenario.hybrid PROVE HybridAgrees(n) BY <1>11
  <2>1. Hybrid \in Pools BY DEF Pools
  <2>2. Owned(Hybrid, n, o.hybrid) /\ OnePerFamily(o.hybrid) /\ Complete(Hybrid, o.hybrid)
    BY <1>7, <1>11 DEF Good
  <2>3. o.hybrid \in SUBSET Subnet BY <1>8 DEF NodeObject
  <2>4. \A s \in o.hybrid : InPool(Hybrid, s) /\ pool.alloc[s] = n BY <2>2 DEF Owned
  <2>5. Cardinality(o.hybrid) = Cardinality(Families(Hybrid))
    BY <2>1, <2>2, <2>3, <2>4, FamiliesCounted
  <2>6. Families(Hybrid) = {TRUE} BY HybridRanges DEF Families
  <2>7. Cardinality(Families(Hybrid)) = 1 BY <2>6, FS_Singleton
  <2> QED BY <2>4, <2>5, <2>7 DEF HybridAgrees
<1> QED BY <1>9, <1>10, <1>11

-----------------------------------------------------------------------------
(***************************************************************************)
(* The API server and the informer                                         *)
(***************************************************************************)

\* The elements of a sequence.
LEMMA ElementOf ==
    ASSUME NEW T, NEW q \in Seq(T), NEW i \in DOMAIN q
    PROVE  q[i] \in T /\ i \in Nat /\ i >= 1
  OBVIOUS

\* What is known of a node are versions.
LEMMA KnownType ==
    ASSUME WorldInv, NEW n \in Nodes
    PROVE  Known(n) \subseteq Version /\ \A v \in Known(n) : v.rv \in Nat
<1>1. cached[n] \in Version BY DEF WorldInv
<1>2. ASSUME NEW i \in DOMAIN stream PROVE stream[i].ver \in Version
  <2>1. stream \in Seq([node : Nodes, ver : Version]) BY DEF WorldInv
  <2>2. stream[i] \in [node : Nodes, ver : Version] BY <2>1, ElementOf
  <2> QED BY <2>2
<1>3. Known(n) \subseteq Version BY <1>1, <1>2 DEF Known
<1> QED BY <1>3 DEF Version

\* The API server's versions have ever greater numbers.
ApiGrows ==
    \A n \in Nodes : api'[n].rv >= api[n].rv /\ (api'[n].rv = api[n].rv => api'[n] = api[n])

\* A version is stored, or nothing changes.
LEMMA StoreVersions ==
    ASSUME WorldInv, VersionsInv, NEW n \in Nodes, NEW obj \in NodeObject \cup {None}, Store(n, obj),
           SameKind(api[n].obj, obj), UNCHANGED cached
    PROVE  /\ VersionsInv' /\ ApiGrows
           /\ api'[n].obj = obj
           /\ \A m \in Nodes : Known(m) \subseteq Known(m)'
<1>1. CASE obj = api[n].obj
  <2>1. UNCHANGED <<api, stream, cached>> BY <1>1 DEF Store
  <2>2. VersionsInv' BY <2>1 DEF VersionsInv, Known
  <2>3. ApiGrows BY <2>1 DEF ApiGrows, WorldInv, Version
  <2>4. \A m \in Nodes : Known(m) \subseteq Known(m)' BY <2>1 DEF Known
  <2> QED BY <1>1, <2>1, <2>2, <2>3, <2>4
<1>2. CASE obj # api[n].obj
  <2> DEFINE v == [obj |-> obj, rv |-> api[n].rv + 1]
             e == [node |-> n, ver |-> v]
             T == [node : Nodes, ver : Version]
  <2>1. api' = [api EXCEPT ![n] = v] /\ stream' = Append(stream, e) BY <1>2 DEF Store
  <2>2. api[n] \in Version /\ api[n].rv \in Nat BY DEF WorldInv, Version
  <2>3. v \in Version /\ v.obj = obj /\ v.rv = api[n].rv + 1 BY <2>2 DEF Version
  <2>4. stream \in Seq(T) BY DEF WorldInv
  <2> HIDE DEF v
  <2>5. e \in T /\ e.node = n /\ e.ver = v BY <2>3
  <2> HIDE DEF e
  <2>6. api'[n] = v /\ \A m \in Nodes : m # n => api'[m] = api[m] BY <2>1 DEF WorldInv
  <2> DEFINE l == Len(stream) + 1
  <2>7. /\ DOMAIN stream' = DOMAIN stream \cup {l} /\ l \notin DOMAIN stream
        /\ stream'[l] = e /\ \A i \in DOMAIN stream : stream'[i] = stream[i] /\ i < l
    BY <2>1, <2>4
  <2> HIDE DEF l
  <2>8. Known(n)' = Known(n) \cup {v} BY <2>5, <2>7 DEF Known
  <2>9. \A m \in Nodes : m # n => Known(m)' = Known(m) BY <2>5, <2>7 DEF Known
  <2>10. ApiGrows BY <2>2, <2>3, <2>6 DEF ApiGrows, WorldInv, Version
  <2>11. ASSUME NEW m \in Nodes
         PROVE  /\ api'[m] \in Known(m)'
                /\ \A w \in Known(m)' : w.rv <= api'[m].rv /\ (w.rv = api'[m].rv => w = api'[m])
                /\ \A w, x \in Known(m)' : x.rv = w.rv + 1 => SameKind(w.obj, x.obj)
    <3>1. CASE m # n BY <2>6, <2>9, <3>1 DEF VersionsInv
    <3>2. CASE m = n
      <4>1. \A w \in Known(n) : w.rv \in Nat /\ w.rv <= api[n].rv /\ (w.rv = api[n].rv => w = api[n])
        BY KnownType DEF VersionsInv
      <4>2. api'[n] \in Known(n)' BY <2>6, <2>8
      <4>3. ASSUME NEW w \in Known(n)' PROVE w.rv <= api'[n].rv /\ (w.rv = api'[n].rv => w = api'[n])
        <5>1. CASE w = v BY <2>2, <2>3, <2>6, <5>1
        <5>2. CASE w \in Known(n)
          <6>1. w.rv \in Nat /\ w.rv <= api[n].rv BY <4>1, <5>2
          <6>2. w.rv < v.rv BY <2>2, <2>3, <6>1
          <6> QED BY <2>6, <6>1, <6>2, <2>2, <2>3
        <5> QED BY <2>8, <5>1, <5>2
      <4>4. ASSUME NEW w \in Known(n)', NEW x \in Known(n)', x.rv = w.rv + 1 PROVE SameKind(w.obj, x.obj)
        <5>1. CASE w = v
          <6>1. x.rv <= v.rv BY <2>6, <4>3
          <6>2. x.rv = v.rv + 1 /\ v.rv \in Nat BY <2>2, <2>3, <4>4, <5>1
          <6> QED BY <6>1, <6>2
        <5>2. CASE w \in Known(n) /\ x = v
          <6>1. w.rv \in Nat /\ (w.rv = api[n].rv => w = api[n]) BY <4>1, <5>2
          <6>2. w.rv = api[n].rv BY <2>2, <2>3, <4>4, <5>2, <6>1
          <6> QED BY <2>3, <5>2, <6>1, <6>2
        <5>3. CASE w \in Known(n) /\ x \in Known(n) BY <4>4, <5>3 DEF VersionsInv
        <5> QED BY <2>8, <5>1, <5>2, <5>3
      <4> QED BY <3>2, <4>2, <4>3, <4>4
    <3> QED BY <3>1, <3>2
  <2>12. ASSUME NEW m \in Nodes, NEW i \in DOMAIN stream', stream'[i].node = m
         PROVE  \/ stream'[i].ver.rv = cached[m].rv + 1
                \/ \E j \in DOMAIN stream' : j < i /\ stream'[j].node = m /\ stream'[i].ver.rv = stream'[j].ver.rv + 1
    <3>1. CASE i \in DOMAIN stream
      <4>1. \/ stream[i].ver.rv = cached[m].rv + 1
            \/ \E j \in DOMAIN stream : j < i /\ stream[j].node = m /\ stream[i].ver.rv = stream[j].ver.rv + 1
        BY <2>7, <2>12, <3>1 DEF VersionsInv
      <4> QED BY <2>7, <3>1, <4>1
    <3>2. CASE i = l
      <4>1. m = n /\ stream'[i].ver = v BY <2>5, <2>7, <2>12, <3>2
      <4>2. api[n] \in Known(n) BY DEF VersionsInv
      <4>3. CASE api[n] = cached[n] BY <2>3, <4>1, <4>3
      <4>4. CASE \E j \in DOMAIN stream : stream[j].node = n /\ stream[j].ver = api[n] BY <2>3, <2>7, <3>2, <4>1, <4>4
      <4> QED BY <4>2, <4>3, <4>4 DEF Known
    <3> QED BY <2>7, <3>1, <3>2
  <2>13. ASSUME NEW m \in Nodes, NEW i \in DOMAIN stream', NEW j \in DOMAIN stream',
                stream'[i].node = m, stream'[j].node = m, stream'[i].ver.rv = stream'[j].ver.rv
         PROVE  i = j
    <3>1. \A k \in DOMAIN stream : stream[k].node = n => stream[k].ver.rv \in Nat /\ stream[k].ver.rv # v.rv
      <4>1. ASSUME NEW k \in DOMAIN stream, stream[k].node = n PROVE stream[k].ver.rv \in Nat /\ stream[k].ver.rv # v.rv
        <5>1. stream[k].ver \in Known(n) BY <4>1 DEF Known
        <5>2. stream[k].ver.rv \in Nat /\ stream[k].ver.rv <= api[n].rv BY <5>1, KnownType DEF VersionsInv
        <5> QED BY <2>2, <2>3, <5>2
      <4> QED BY <4>1
    <3>2. CASE i \in DOMAIN stream /\ j \in DOMAIN stream BY <2>7, <2>13, <3>2 DEF VersionsInv
    <3>3. CASE i = l /\ j \in DOMAIN stream BY <2>5, <2>7, <2>13, <3>1, <3>3
    <3>4. CASE j = l /\ i \in DOMAIN stream BY <2>5, <2>7, <2>13, <3>1, <3>4
    <3> QED BY <2>7, <3>2, <3>3, <3>4
  <2>14. VersionsInv' BY <2>11, <2>12, <2>13 DEF VersionsInv
  <2> QED BY <2>3, <2>6, <2>8, <2>9, <2>10, <2>14
<1> QED BY <1>1, <1>2

\* The informer receives a version: it is the successor of the cached one.
LEMMA WatchVersions ==
    ASSUME WorldInv, VersionsInv, Watch, NEW n, n = Head(stream).node, NEW v, v = Head(stream).ver
    PROVE  /\ VersionsInv'
           /\ n \in Nodes /\ v \in Known(n) /\ SameKind(cached[n].obj, v.obj)
           /\ cached'[n] = v /\ \A m \in Nodes : m # n => cached'[m] = cached[m]
           /\ \A m \in Nodes : m # n => Known(m)' = Known(m)
           /\ Known(n) \subseteq Known(n)' \cup {cached[n]} /\ Known(n)' \subseteq Known(n)
<1> DEFINE T == [node : Nodes, ver : Version]
<1>1. stream \in Seq(T) /\ stream # <<>> BY DEF WorldInv, Watch
<1>2. Head(stream) \in T /\ 1 \in DOMAIN stream /\ Head(stream) = stream[1]
  <2> HIDE DEF T
  <2> QED BY <1>1
<1>3. n \in Nodes /\ v \in Version /\ v.rv \in Nat BY <1>2 DEF Version
<1>4. stream' = Tail(stream) /\ cached' = [cached EXCEPT ![n] = v] /\ UNCHANGED api
  BY DEF Watch
<1>5. cached'[n] = v /\ \A m \in Nodes : m # n => cached'[m] = cached[m] BY <1>3, <1>4 DEF WorldInv
<1>6. /\ \A i \in DOMAIN stream' : i \in Nat /\ i + 1 \in DOMAIN stream /\ stream'[i] = stream[i + 1]
      /\ \A j \in DOMAIN stream : j \in Nat /\ (j = 1 \/ (j - 1 \in DOMAIN stream' /\ stream'[j - 1] = stream[j]))
  BY <1>1, <1>4
<1>7. stream[1].node = n /\ stream[1].ver = v BY <1>2
<1>8. v \in Known(n) BY <1>2, <1>7 DEF Known
<1>9. v.rv = cached[n].rv + 1
  <2>1. \A j \in DOMAIN stream : ~(j < 1) BY <1>1
  <2> QED BY <1>2, <1>3, <1>7, <2>1 DEF VersionsInv
<1>10. cached[n] \in Known(n) /\ cached[n].rv \in Nat BY <1>3 DEF Known, WorldInv, Version
<1>11. SameKind(cached[n].obj, v.obj) BY <1>3, <1>8, <1>9, <1>10 DEF VersionsInv
<1>12. ASSUME NEW m \in Nodes, m # n PROVE Known(m)' = Known(m)
  <2>1. \A i \in DOMAIN stream' : stream'[i].node = m => \E j \in DOMAIN stream : stream[j].node = m /\ stream[j].ver = stream'[i].ver
    BY <1>6
  <2>2. \A j \in DOMAIN stream : stream[j].node = m => \E i \in DOMAIN stream' : stream'[i].node = m /\ stream[j].ver = stream'[i].ver
    BY <1>6, <1>7, <1>12
  <2> QED BY <1>5, <1>12, <2>1, <2>2 DEF Known
<1>13. Known(n) \subseteq Known(n)' \cup {cached[n]} /\ Known(n)' \subseteq Known(n)
  <2>1. \A i \in DOMAIN stream' : stream'[i].node = n => \E j \in DOMAIN stream : stream[j].node = n /\ stream[j].ver = stream'[i].ver
    BY <1>6
  <2>2. \A j \in DOMAIN stream : stream[j].node = n =>
            stream[j].ver = v \/ \E i \in DOMAIN stream' : stream'[i].node = n /\ stream[j].ver = stream'[i].ver
    BY <1>6, <1>7
  <2> QED BY <1>5, <1>8, <2>1, <2>2 DEF Known
<1>14. ASSUME NEW m \in Nodes
       PROVE  /\ api[m] \in Known(m)'
              /\ \A w \in Known(m)' : w.rv <= api[m].rv /\ (w.rv = api[m].rv => w = api[m])
              /\ \A w, x \in Known(m)' : x.rv = w.rv + 1 => SameKind(w.obj, x.obj)
  <2>1. CASE m # n BY <1>12, <2>1 DEF VersionsInv
  <2>2. CASE m = n
    <3>1. v.rv <= api[n].rv BY <1>3, <1>8 DEF VersionsInv
    <3>2. api[n] # cached[n] BY <1>9, <1>10, <3>1
    <3>3. api[n] \in Known(n)' BY <1>3, <1>13, <3>2 DEF VersionsInv
    <3> QED BY <1>13, <2>2, <3>3 DEF VersionsInv
  <2> QED BY <2>1, <2>2
<1>15. ASSUME NEW m \in Nodes, NEW i \in DOMAIN stream', stream'[i].node = m
       PROVE  \/ stream'[i].ver.rv = cached'[m].rv + 1
              \/ \E j \in DOMAIN stream' : j < i /\ stream'[j].node = m /\ stream'[i].ver.rv = stream'[j].ver.rv + 1
  <2>1. i \in Nat /\ i + 1 \in DOMAIN stream /\ stream'[i] = stream[i + 1] BY <1>6
  <2>2. \/ stream[i + 1].ver.rv = cached[m].rv + 1
        \/ \E j \in DOMAIN stream : j < i + 1 /\ stream[j].node = m /\ stream[i + 1].ver.rv = stream[j].ver.rv + 1
    BY <1>15, <2>1 DEF VersionsInv
  <2>3. CASE m = n /\ stream[i + 1].ver.rv = cached[m].rv + 1
    <3>1. stream[i + 1].ver.rv = stream[1].ver.rv /\ stream[i + 1].node = n BY <1>7, <1>9, <1>15, <2>1, <2>3
    <3>2. i + 1 = 1 BY <1>2, <1>3, <1>7, <2>1, <3>1 DEF VersionsInv
    <3>3. i >= 1 BY <1>1, <1>4
    <3> QED BY <2>1, <3>2, <3>3
  <2>4. CASE m # n /\ stream[i + 1].ver.rv = cached[m].rv + 1 BY <1>5, <2>1, <2>4
  <2>5. CASE \E j \in DOMAIN stream : j < i + 1 /\ stream[j].node = m /\ stream[i + 1].ver.rv = stream[j].ver.rv + 1
    <3>1. PICK j \in DOMAIN stream : j < i + 1 /\ stream[j].node = m /\ stream[i + 1].ver.rv = stream[j].ver.rv + 1
      BY <2>5
    <3>2. CASE j = 1 BY <1>5, <1>7, <2>1, <3>1, <3>2
    <3>3. CASE j # 1
      <4>1. j \in Nat /\ j - 1 \in DOMAIN stream' /\ stream'[j - 1] = stream[j] BY <1>6, <3>3
      <4>2. j - 1 < i BY <2>1, <3>1, <4>1
      <4> QED BY <2>1, <3>1, <4>1, <4>2
    <3> QED BY <3>2, <3>3
  <2> QED BY <2>2, <2>3, <2>4, <2>5
<1>16. ASSUME NEW m \in Nodes, NEW i \in DOMAIN stream', NEW j \in DOMAIN stream',
              stream'[i].node = m, stream'[j].node = m, stream'[i].ver.rv = stream'[j].ver.rv
       PROVE  i = j
  <2>1. i \in Nat /\ i + 1 \in DOMAIN stream /\ stream'[i] = stream[i + 1] BY <1>6
  <2>2. j \in Nat /\ j + 1 \in DOMAIN stream /\ stream'[j] = stream[j + 1] BY <1>6
  <2>3. i + 1 = j + 1 BY <1>16, <2>1, <2>2 DEF VersionsInv
  <2> QED BY <2>1, <2>2, <2>3
<1>17. VersionsInv' BY <1>4, <1>14, <1>15, <1>16 DEF VersionsInv
<1> QED BY <1>3, <1>5, <1>8, <1>11, <1>12, <1>13, <1>17

-----------------------------------------------------------------------------
(***************************************************************************)
(* What a step leaves alone                                                *)
(***************************************************************************)

\* What is ahead are nodes, or their absence.
LEMMA AheadType ==
    ASSUME Inv, NEW c, NEW n \in Nodes
    PROVE  Later(n) \subseteq Ahead(c, n) /\ Ahead(c, n) \subseteq NodeObject \cup {None}
<1>1. ASSUME NEW v \in Known(n) PROVE v.obj \in NodeObject \cup {None}
  <2>1. v \in Version BY <1>1, KnownType DEF Inv
  <2> QED BY <2>1 DEF Version
<1>2. ASSUME NEW i \in DOMAIN queue PROVE queue[i].old \in NodeObject \cup {None}
  <2>1. queue \in Seq(Event) BY DEF Inv, WorldInv, Event
  <2>2. queue[i] \in Event BY <2>1, ElementOf
  <2> QED BY <2>2 DEF Event
<1>3. ASSUME NEW i \in DOMAIN agenda PROVE agenda[i].old \in NodeObject \cup {None}
  <2>1. agenda[i] \in Work BY ElementOf DEF Inv, CallInv
  <2> QED BY <2>1 DEF Work
<1> QED BY <1>1, <1>2, <1>3 DEF Ahead, Later, CallsOf

\* The subnets a controller allocates.
InArea(c, s) == c \in Nets /\ (InPool(c, s) \/ (c = Default /\ InPool(Hybrid, s)))

\* No two controllers allocate the same ones.
LEMMA AreasApart ==
    ASSUME NEW c, NEW d, c # d, NEW s \in Subnet, InArea(c, s)
    PROVE  ~InArea(d, s)
<1>1. ASSUME NEW p \in Pools, NEW q \in Pools, InPool(p, s), InPool(q, s) PROVE p = q
  BY <1>1, PoolsApart DEF InPool
<1>2. Nets \subseteq Pools /\ Hybrid \in Pools /\ Hybrid \notin Nets BY ConstantsTyped DEF Pools
<1> QED BY <1>1, <1>2 DEF InArea

\* What c has for n is still so.
Held(c, n) ==
    /\ \A s \in Subnet : InArea(c, s) /\ pool.alloc[s] = n => pool'.alloc[s] = n
    /\ c = Zone /\ ids.of[n] # None => ids'.of[n] = ids.of[n]

\* What the call of c for n may do to the allocators.
AllocPart(c, n) ==
    /\ \A s \in Subnet : pool'.alloc[s] # pool.alloc[s] => InArea(c, s) /\ pool.alloc[s] \in {None, n}
    /\ \A m \in Nodes : ids'.of[m] # ids.of[m] => c = Zone /\ m = n

\* It leaves what others have alone.
LEMMA OthersHeld ==
    ASSUME NEW c, NEW n \in Nodes, AllocPart(c, n), NEW d, NEW m \in Nodes, d # c \/ m # n
    PROVE  Held(d, m)
<1>1. ASSUME NEW s \in Subnet, InArea(d, s), pool.alloc[s] = m, pool'.alloc[s] # m PROVE FALSE
  <2>1. InArea(c, s) /\ pool.alloc[s] \in {None, n} BY <1>1 DEF AllocPart
  <2>2. m = n BY <1>1, <2>1, ConstantsTyped
  <2> QED BY <1>1, <2>1, <2>2, AreasApart
<1>2. ASSUME d = Zone, ids'.of[m] # ids.of[m] PROVE FALSE BY <1>2 DEF AllocPart
<1> QED BY <1>1, <1>2 DEF Held

\* Subnets that are owned stay so.
LEMMA OwnedHeld ==
    ASSUME NEW c \in Nets, NEW n \in Nodes, Held(c, n), NEW p, p = c \/ (c = Default /\ p = Hybrid),
           NEW nets \in SUBSET Subnet, Owned(p, n, nets)
    PROVE  Owned(p, n, nets)'
<1>1. \A s \in nets : InPool(p, s) /\ pool.alloc[s] = n BY DEF Owned
<1>2. \A s \in nets : InArea(c, s) BY <1>1 DEF InArea
<1>3. \A s \in nets : pool'.alloc[s] = n BY <1>1, <1>2 DEF Held
<1> QED BY <1>1, <1>3 DEF Owned

\* A node that agrees with the allocators still does.
LEMMA GoodHeld ==
    ASSUME NEW c \in Controllers, NEW n \in Nodes, Held(c, n), UNCHANGED scenario,
           NEW o \in NodeObject \cup {None}, Good(c, n, o)
    PROVE  Good(c, n, o)'
<1>1. CASE o = None BY <1>1 DEF Good
<1>2. CASE o # None /\ c = Zone BY <1>2 DEF Good, Held
<1>3. CASE o # None /\ c # Zone /\ o.noHostSubnet
  <2>1. o.hybrid \in SUBSET Subnet /\ c \in Nets BY <1>3 DEF NodeObject, Controllers
  <2>2. ASSUME c = Default, scenario.hybrid
        PROVE  Owned(Hybrid, n, o.hybrid)' /\ OnePerFamily(o.hybrid) /\ Complete(Hybrid, o.hybrid)
    <3>1. Owned(Hybrid, n, o.hybrid) /\ OnePerFamily(o.hybrid) /\ Complete(Hybrid, o.hybrid)
      BY <1>3, <2>2 DEF Good
    <3>2. Owned(Hybrid, n, o.hybrid)' BY <2>1, <2>2, <3>1, OwnedHeld
    <3> QED BY <3>1, <3>2
  <2> QED BY <1>3, <2>2 DEF Good, OnePerFamily, Complete
<1>4. CASE o # None /\ c # Zone /\ ~o.noHostSubnet
  <2>1. c \in Nets /\ o.subnets[c] \in SUBSET Subnet BY <1>4 DEF NodeObject, Controllers
  <2>2. /\ c \in o.networkIDs
        /\ Owned(c, n, o.subnets[c]) /\ OnePerFamily(o.subnets[c]) /\ Complete(c, o.subnets[c])
    BY <1>4 DEF Good
  <2>3. Owned(c, n, o.subnets[c])' BY <2>1, <2>2, OwnedHeld
  <2> QED BY <1>4, <2>2, <2>3 DEF Good, OnePerFamily, Complete
<1> QED BY <1>1, <1>2, <1>3, <1>4

\* So an assurance is kept as long as nothing that is ahead is forgotten.
LEMMA AssuredKept ==
    ASSUME Inv, NEW c \in Controllers, NEW n \in Nodes, Held(c, n), UNCHANGED scenario,
           Ahead(c, n) \subseteq Ahead(c, n)', Assured(c, n)
    PROVE  Assured(c, n)'
<1>1. PICK o \in Ahead(c, n), p \in Ahead(c, n) : Good(c, n, o) \/ ~Same(c, o, p) BY DEF Assured
<1>2. o \in NodeObject \cup {None} BY AheadType
<1>3. Good(c, n, o) => Good(c, n, o)' BY <1>2, GoodHeld
<1>4. o \in Ahead(c, n)' /\ p \in Ahead(c, n)' OBVIOUS
<1> QED BY <1>1, <1>3, <1>4 DEF Assured, Same

\* A call that is being made still works on its node, ...
LEMMA SeesKept ==
    ASSUME NEW c, NEW n, NEW th, Sees(c, n, th), Ahead(c, n) \subseteq Ahead(c, n)',
           ~th.retry => Later(n) \subseteq Later(n)'
    PROVE  Sees(c, n, th)'
  BY DEF Sees

\* ... with its subnets, ...
LEMMA HoldsKept ==
    ASSUME NEW c \in Nets, NEW n \in Nodes, NEW th, th.kept \subseteq Subnet, th.allocated \subseteq Subnet,
           Holds(c, n, th), Held(c, n), UNCHANGED scenario
    PROVE  Holds(c, n, th)'
<1> DEFINE p == PoolOf(c, th.node)
           nets == th.kept \cup th.allocated
<1>1. Owned(p, n, nets) BY DEF Holds
<1>2. nets \in SUBSET Subnet OBVIOUS
<1>3. th.node.noHostSubnet => (c = Default /\ scenario.hybrid) \/ (th.pc = "allocate" /\ nets = {})
  BY DEF Holds
<1>4. Owned(p, n, nets)'
  <2>1. CASE nets = {} BY <2>1 DEF Owned
  <2>2. CASE nets # {}
    <3>1. p = c \/ (c = Default /\ p = Hybrid) BY <1>3, <2>2 DEF PoolOf
    <3> HIDE DEF p, nets
    <3> QED BY <1>1, <1>2, <3>1, OwnedHeld
  <2> QED BY <2>1, <2>2
<1> QED BY <1>4 DEF Holds, PoolOf, Existing, OnePerFamily, Complete

\* ... and with its copy.
LEMMA ReadsKept ==
    ASSUME Inv, Inv', NEW n \in Nodes, NEW th, th.pc = "update" => th.copy \in Version, Reads(n, th), ApiGrows
    PROVE  Reads(n, th)'
<1> SUFFICES ASSUME th.pc = "update" PROVE th.copy.rv <= api'[n].rv /\ (th.copy.rv = api'[n].rv => th.copy = api'[n])
  BY DEF Reads
<1>1. th.copy.rv <= api[n].rv /\ (th.copy.rv = api[n].rv => th.copy = api[n]) BY DEF Reads
<1>2. th.copy.rv \in Nat BY DEF Version
<1>3. api[n].rv \in Nat /\ api'[n].rv \in Nat BY DEF Inv, WorldInv, Version
<1>4. api'[n].rv >= api[n].rv /\ (api'[n].rv = api[n].rv => api'[n] = api[n]) BY DEF ApiGrows
<1> QED BY <1>1, <1>2, <1>3, <1>4

\* What concerns c and n is as it was, but for what is ahead.
PairLeft(c, n) ==
    /\ thread'[c][n] = thread[c][n] /\ entry'[c][n] = entry[c][n]
    /\ c \in started' => c \in started
    /\ <<c, n>> \in dropped => <<c, n>> \in dropped'
    /\ Held(c, n)

\* A pair that is left alone is all right if all that was ahead still is.
LEMMA PairKept ==
    ASSUME Inv, Inv', NEW c \in Controllers, NEW n \in Nodes, PairOK(c, n), PairLeft(c, n),
           UNCHANGED scenario, ApiGrows,
           c \in started => Ahead(c, n) \subseteq Ahead(c, n)',
           thread[c][n].pc # "idle" => c \in started,
           thread[c][n].pc # "idle" /\ ~thread[c][n].retry => Later(n) \subseteq Later(n)'
    PROVE  PairOK(c, n)'
<1>1. /\ thread'[c][n] = thread[c][n] /\ entry'[c][n] = entry[c][n] /\ Held(c, n)
      /\ c \in started' => c \in started
      /\ <<c, n>> \in dropped => <<c, n>> \in dropped'
  BY DEF PairLeft
<1>2. Agrees(c, n)'
  <2> SUFFICES ASSUME c \in started', thread'[c][n].pc = "idle", entry'[c][n] = None, <<c, n>> \notin dropped'
               PROVE  Assured(c, n)'
    BY DEF Agrees
  <2>1. c \in started /\ Assured(c, n) BY <1>1 DEF PairOK, Agrees
  <2> QED BY <1>1, <2>1, AssuredKept
<1>3. c = Zone /\ thread'[c][n].pc = "patch" => ids'.of[n] # None
  BY <1>1 DEF PairOK, Held
<1>4. c # Zone /\ thread'[c][n].pc # "idle" => Works(c, n, thread[c][n])'
  <2> SUFFICES ASSUME c # Zone, thread[c][n].pc # "idle" PROVE Works(c, n, thread[c][n])'
    BY <1>1
  <2>1. PICK th : th = thread[c][n] OBVIOUS
  <2>2. c \in Nets BY DEF Controllers
  <2>3. Sees(c, n, th) /\ Holds(c, n, th) /\ Reads(n, th) BY <2>1 DEF PairOK, Works
  <2>4. th.kept \subseteq Subnet /\ th.allocated \subseteq Subnet /\ (th.pc = "update" => th.copy \in Version)
    BY <2>1, CallType DEF Inv
  <2>5. Sees(c, n, th)' BY <2>1, <2>3, SeesKept
  <2>6. Holds(c, n, th)' BY <1>1, <2>2, <2>3, <2>4, HoldsKept
  <2>7. Reads(n, th)' BY <2>3, <2>4, ReadsKept
  <2>8. Works(c, n, th)' BY <2>5, <2>6, <2>7 DEF Works
  <2> QED BY <1>1, <2>1, <2>8
<1> QED BY <1>2, <1>3, <1>4 DEF PairOK
-----------------------------------------------------------------------------
(***************************************************************************)
(* Steps of the others and of the informer                                 *)
(***************************************************************************)

\* Who knows more has more to see.
LEMMA LaterGrows ==
    ASSUME NEW n, Known(n) \subseteq Known(n)', UNCHANGED queue
    PROVE  Later(n) \subseteq Later(n)'
  BY DEF Later

LEMMA AheadGrows ==
    ASSUME NEW c, NEW n, Later(n) \subseteq Later(n)', UNCHANGED agenda
    PROVE  Ahead(c, n) \subseteq Ahead(c, n)'
  BY DEF Ahead, CallsOf

\* What the allocators have is left alone.
LEMMA AllHeld ==
    ASSUME UNCHANGED <<pool, ids>>
    PROVE  \A c, n : Held(c, n)
  BY DEF Held

\* A step that leaves calls and allocators alone.
LEMMA PairsKept ==
    ASSUME Inv, Inv', LeakInv, PairsInv, UNCHANGED <<scenario, entry, pool, ids, thread, dropped>>, ApiGrows,
           \A c \in started, n \in Nodes : Ahead(c, n) \subseteq Ahead(c, n)',
           \A c \in Controllers, n \in Nodes :
               thread[c][n].pc # "idle" /\ ~thread[c][n].retry => Later(n) \subseteq Later(n)'
    PROVE  \A c \in Controllers, n \in Nodes : (c \in started' => c \in started) => PairOK(c, n)'
<1> SUFFICES ASSUME NEW c \in Controllers, NEW n \in Nodes, c \in started' => c \in started PROVE PairOK(c, n)'
  OBVIOUS
<1>1. PairOK(c, n) BY DEF PairsInv
<1>2. Held(c, n) BY AllHeld
<1>3. PairLeft(c, n) BY <1>2 DEF PairLeft
<1>4. thread[c][n].pc # "idle" => c \in started BY DEF LeakInv, ThreadInv
<1> QED BY <1>1, <1>3, <1>4, PairKept

\* The API server stays as it is.
LEMMA ApiStays ==
    ASSUME Inv, UNCHANGED api
    PROVE  ApiGrows
<1>1. \A n \in Nodes : api[n].rv \in Nat BY DEF Inv, WorldInv, Version
<1> QED BY <1>1 DEF ApiGrows

\* The changes made by others.
LEMMA ChangesAgree ==
    ASSUME Inv, Inv', LeakInv, AgreeInv, NEW n \in scenario.names, CreateNode(n) \/ DeleteNode(n) \/ AnnotateNode(n)
    PROVE  AgreeInv'
<1>1. n \in Nodes BY ScenarioType DEF Inv
<1>2. PICK obj \in NodeObject \cup {None} : Store(n, obj) /\ SameKind(api[n].obj, obj)
  <2>1. CASE CreateNode(n) BY <2>1, ScenarioType DEF CreateNode, Inv, SameKind
  <2>2. CASE DeleteNode(n) BY <2>2 DEF DeleteNode, SameKind
  <2>3. CASE AnnotateNode(n)
    <3> DEFINE new == [api[n].obj EXCEPT !.other = ~@]
    <3>1. api[n].obj \in NodeObject BY <1>1, <2>3 DEF AnnotateNode, Inv, WorldInv, Version
    <3>2. new \in NodeObject /\ new.noHostSubnet = api[n].obj.noHostSubnet BY <3>1 DEF NodeObject
    <3>3. Store(n, new) BY <2>3 DEF AnnotateNode
    <3> HIDE DEF new
    <3>4. SameKind(api[n].obj, new) BY <3>2 DEF SameKind
    <3> QED BY <3>2, <3>3, <3>4
  <2> QED BY <2>1, <2>2, <2>3
<1>3. UNCHANGED <<scenario, cached, queue, agenda, started, entry, pool, ids, thread, dropped>>
  BY DEF CreateNode, DeleteNode, AnnotateNode, ProcessVars
<1>4. VersionsInv' /\ ApiGrows /\ \A m \in Nodes : Known(m) \subseteq Known(m)'
  BY <1>1, <1>2, <1>3, StoreVersions DEF Inv, AgreeInv
<1>5. EventsInv' /\ SyncInv' BY <1>3 DEF AgreeInv, EventsInv, SyncInv
<1>6. \A m \in Nodes : Later(m) \subseteq Later(m)' BY <1>3, <1>4, LaterGrows
<1>7. \A c \in started, m \in Nodes : Ahead(c, m) \subseteq Ahead(c, m)' BY <1>3, <1>6, AheadGrows
<1>8. PairsInv BY DEF AgreeInv
<1>9. \A c \in Controllers, m \in Nodes : (c \in started' => c \in started) => PairOK(c, m)'
  BY <1>3, <1>4, <1>6, <1>7, <1>8, PairsKept
<1>10. PairsInv' BY <1>3, <1>9 DEF PairsInv
<1> QED BY <1>4, <1>5, <1>10 DEF AgreeInv

\* A new process starts with what the API server has.
LEMMA RestartAgrees ==
    ASSUME Inv, Restart
    PROVE  AgreeInv'
<1>1. stream' = <<>> /\ queue' = <<>> /\ agenda' = <<>> /\ started' = {} /\ cached' = api /\ UNCHANGED api
  BY DEF Restart
<1>2. \A n \in Nodes : api[n].rv \in Nat BY DEF Inv, WorldInv, Version
<1>3. \A n \in Nodes : Known(n)' = {api[n]} BY <1>1 DEF Known
<1>4. VersionsInv' BY <1>1, <1>2, <1>3 DEF VersionsInv
<1>5. EventsInv' /\ SyncInv' BY <1>1 DEF EventsInv, SyncInv
<1>6. ASSUME NEW c \in Controllers, NEW n \in Nodes PROVE PairOK(c, n)'
  <2>1. thread'[c][n] = Idle BY DEF Restart
  <2>2. thread'[c][n].pc = "idle" BY <2>1 DEF Idle
  <2> QED BY <1>1, <2>2 DEF PairOK, Agrees
<1>7. PairsInv' BY <1>6 DEF PairsInv
<1> QED BY <1>4, <1>5, <1>7 DEF AgreeInv

\* The informer receives a version, and queues an event that starts with the
\* version it had.
LEMMA WatchAgrees ==
    ASSUME Inv, Inv', LeakInv, AgreeInv, Watch
    PROVE  AgreeInv'
<1>0. PICK n, v : n = Head(stream).node /\ v = Head(stream).ver OBVIOUS
<1> DEFINE e == [node |-> n, old |-> cached[n].obj, new |-> v.obj]
           l == Len(queue) + 1
<1>1. /\ VersionsInv'
      /\ n \in Nodes /\ v \in Known(n) /\ SameKind(cached[n].obj, v.obj)
      /\ cached'[n] = v /\ \A m \in Nodes : m # n => cached'[m] = cached[m]
      /\ \A m \in Nodes : m # n => Known(m)' = Known(m)
      /\ Known(n) \subseteq Known(n)' \cup {cached[n]} /\ Known(n)' \subseteq Known(n)
  BY <1>0, WatchVersions DEF Inv, AgreeInv
<1>2. queue' = Append(queue, e) /\ UNCHANGED <<scenario, api, agenda, started, entry, pool, ids, thread, dropped>>
  BY <1>0 DEF Watch
<1>3. queue \in Seq(Event) BY DEF Inv, WorldInv, Event
<1>4. e.node = n /\ e.old = cached[n].obj /\ e.new = v.obj OBVIOUS
<1> HIDE DEF e
<1>5. /\ DOMAIN queue' = DOMAIN queue \cup {l} /\ l \notin DOMAIN queue
      /\ queue'[l] = e /\ \A i \in DOMAIN queue : queue'[i] = queue[i] /\ i < l
  BY <1>2, <1>3
<1> HIDE DEF l
<1>6. ASSUME NEW m \in Nodes PROVE Later(m) \subseteq Later(m)'
  <2>1. Known(m) \subseteq Known(m)' \/ (m = n /\ Known(m) \subseteq Known(m)' \cup {cached[n]}) BY <1>1
  <2>2. cached[n].obj \in Later(n)' BY <1>4, <1>5 DEF Later
  <2>3. \A w \in Known(m) : w.obj \in Later(m)' BY <2>1, <2>2 DEF Later
  <2>4. \A i \in DOMAIN queue : queue[i].node = m => queue[i].old \in Later(m)' BY <1>5 DEF Later
  <2> QED BY <2>3, <2>4 DEF Later
<1>7. \A c \in started, m \in Nodes : Ahead(c, m) \subseteq Ahead(c, m)' BY <1>2, <1>6, AheadGrows
<1>8. \A i \in DOMAIN queue : queue[i].node \in Nodes
  <2>1. \A i \in DOMAIN queue : queue[i] \in Event BY <1>3, ElementOf
  <2> QED BY <2>1 DEF Event
<1>9. \A i \in DOMAIN agenda : agenda[i].node \in Nodes
  <2>1. \A i \in DOMAIN agenda : agenda[i] \in Work BY ElementOf DEF Inv, CallInv
  <2> QED BY <2>1 DEF Work
<1>10. ASSUME NEW i \in DOMAIN queue'
       PROVE  /\ SameKind(queue'[i].old, queue'[i].new)
              /\ \/ queue'[i].new = cached'[queue'[i].node].obj
                 \/ \E j \in DOMAIN queue' : j > i /\ queue'[j].node = queue'[i].node /\ queue'[j].old = queue'[i].new
  <2>1. CASE i = l BY <1>1, <1>4, <1>5, <2>1
  <2>2. CASE i \in DOMAIN queue
    <3>1. /\ SameKind(queue[i].old, queue[i].new)
          /\ \/ queue[i].new = cached[queue[i].node].obj
             \/ \E j \in DOMAIN queue : j > i /\ queue[j].node = queue[i].node /\ queue[j].old = queue[i].new
      BY <2>2 DEF AgreeInv, EventsInv
    <3>2. CASE \E j \in DOMAIN queue : j > i /\ queue[j].node = queue[i].node /\ queue[j].old = queue[i].new
      BY <1>5, <2>2, <3>1, <3>2
    <3>3. CASE queue[i].new = cached[queue[i].node].obj /\ queue[i].node # n
      BY <1>1, <1>5, <1>8, <2>2, <3>1, <3>3
    <3>4. CASE queue[i].new = cached[queue[i].node].obj /\ queue[i].node = n
      <4>1. l > i
        <5>1. i < l BY <1>5, <2>2
        <5> QED BY <5>1
      <4> QED BY <1>4, <1>5, <2>2, <3>1, <3>4, <4>1
    <3> QED BY <3>1, <3>2, <3>3, <3>4
  <2> QED BY <1>5, <2>1, <2>2
<1>11. ASSUME NEW i \in DOMAIN agenda, agenda[i].op = "event"
       PROVE  /\ SameKind(agenda[i].old, agenda[i].new)
              /\ \/ agenda[i].new = cached'[agenda[i].node].obj
                 \/ \E j \in DOMAIN queue' : queue'[j].node = agenda[i].node /\ queue'[j].old = agenda[i].new
  <2>1. /\ SameKind(agenda[i].old, agenda[i].new)
        /\ \/ agenda[i].new = cached[agenda[i].node].obj
           \/ \E j \in DOMAIN queue : queue[j].node = agenda[i].node /\ queue[j].old = agenda[i].new
    BY <1>11 DEF AgreeInv, EventsInv
  <2>2. CASE \E j \in DOMAIN queue : queue[j].node = agenda[i].node /\ queue[j].old = agenda[i].new
    BY <1>5, <2>1, <2>2
  <2>3. CASE agenda[i].new = cached[agenda[i].node].obj /\ agenda[i].node # n BY <1>1, <1>9, <2>1, <2>3
  <2>4. CASE agenda[i].new = cached[agenda[i].node].obj /\ agenda[i].node = n BY <1>4, <1>5, <2>1, <2>4
  <2> QED BY <2>1, <2>2, <2>3, <2>4
<1>12. EventsInv' BY <1>2, <1>10, <1>11 DEF EventsInv
<1>13. SyncInv' BY <1>2 DEF AgreeInv, SyncInv
<1>14. PairsInv BY DEF AgreeInv
<1>15. \A c \in Controllers, m \in Nodes : (c \in started' => c \in started) => PairOK(c, m)'
  BY <1>2, <1>6, <1>7, <1>14, ApiStays, PairsKept
<1>16. PairsInv' BY <1>2, <1>15 DEF PairsInv
<1> QED BY <1>1, <1>12, <1>13, <1>16 DEF AgreeInv

\* An event is given to all handlers: what was ahead of everybody is now ahead of
\* each of them.
LEMMA DeliverAgrees ==
    ASSUME Inv, Inv', LeakInv, AgreeInv, Deliver
    PROVE  AgreeInv'
<1> DEFINE h == Head(queue)
           call(c) == [op |-> "event", ctrl |-> c, node |-> h.node, old |-> h.old, new |-> h.new]
<1>1. queue # <<>> /\ agenda = <<>> /\ queue \in Seq(Event) /\ queue' = Tail(queue)
  BY DEF Deliver, Inv, WorldInv, Event
<1>2. UNCHANGED <<scenario, api, stream, cached, started, entry, pool, ids, thread, dropped>> BY DEF Deliver
<1>3. started \subseteq Controllers BY ScenarioType DEF Inv, WorldInv
<1>4. IsFiniteSet(started)
  <2>1. IsFiniteSet(Controllers) BY SetsFinite, FS_AddElement DEF Controllers
  <2> QED BY <1>3, <2>1, FS_Subset
<1>5. PICK order \in SetToSeqs(started) : agenda' = [i \in 1 .. Len(order) |-> call(order[i])] BY DEF Deliver
<1>6. h = queue[1] /\ 1 \in DOMAIN queue BY <1>1
<1>7. \A c : call(c).op = "event" /\ call(c).ctrl = c /\ call(c).node = h.node /\ call(c).old = h.old /\ call(c).new = h.new
  BY Zenon
<1> HIDE DEF h, call
<1>8. \A c \in started : \E i \in 1 .. Len(order) : order[i] = c BY <1>4, EnumerationIsOnto
<1>9. DOMAIN agenda' = 1 .. Len(order) /\ \A i \in DOMAIN agenda' : agenda'[i] = call(order[i]) BY <1>5
<1>10. /\ \A i \in DOMAIN queue' : i \in Nat /\ i + 1 \in DOMAIN queue /\ queue'[i] = queue[i + 1]
       /\ \A j \in DOMAIN queue : j \in Nat /\ (j = 1 \/ (j - 1 \in DOMAIN queue' /\ queue'[j - 1] = queue[j]))
  BY <1>1
<1>11. \A m \in Nodes : Known(m)' = Known(m) BY <1>2 DEF Known
<1>12. ASSUME NEW c \in started, NEW m \in Nodes PROVE Ahead(c, m) \subseteq Ahead(c, m)'
  <2>1. Ahead(c, m) = Later(m) BY <1>1 DEF Ahead, CallsOf
  <2>2. \A w \in Known(m) : w.obj \in Ahead(c, m)' BY <1>11 DEF Ahead, Later
  <2>3. ASSUME NEW j \in DOMAIN queue, queue[j].node = m PROVE queue[j].old \in Ahead(c, m)'
    <3>1. CASE j = 1
      <4>1. PICK i \in 1 .. Len(order) : order[i] = c BY <1>8
      <4>2. i \in CallsOf(c, m)' BY <1>6, <1>7, <1>9, <2>3, <3>1, <4>1 DEF CallsOf
      <4>3. agenda'[i].old = queue[j].old BY <1>6, <1>7, <1>9, <3>1, <4>1
      <4> QED BY <4>2, <4>3 DEF Ahead
    <3>2. CASE j # 1
      <4>1. j - 1 \in DOMAIN queue' /\ queue'[j - 1] = queue[j] BY <1>10, <3>2
      <4> QED BY <2>3, <4>1 DEF Ahead, Later
    <3> QED BY <3>1, <3>2
  <2> QED BY <2>1, <2>2, <2>3 DEF Later
<1>13. ASSUME NEW i \in DOMAIN queue
       PROVE  /\ SameKind(queue[i].old, queue[i].new)
              /\ \/ queue[i].new = cached[queue[i].node].obj
                 \/ \E j \in DOMAIN queue' : j > i - 1 /\ queue'[j].node = queue[i].node /\ queue'[j].old = queue[i].new
  <2>1. /\ SameKind(queue[i].old, queue[i].new)
        /\ \/ queue[i].new = cached[queue[i].node].obj
           \/ \E j \in DOMAIN queue : j > i /\ queue[j].node = queue[i].node /\ queue[j].old = queue[i].new
    BY DEF AgreeInv, EventsInv
  <2>2. CASE \E j \in DOMAIN queue : j > i /\ queue[j].node = queue[i].node /\ queue[j].old = queue[i].new
    <3>1. PICK j \in DOMAIN queue : j > i /\ queue[j].node = queue[i].node /\ queue[j].old = queue[i].new BY <2>2
    <3>2. i \in Nat /\ i >= 1 /\ j \in Nat BY <1>1, ElementOf
    <3>3. j # 1 /\ j - 1 > i - 1 BY <3>1, <3>2
    <3>4. j - 1 \in DOMAIN queue' /\ queue'[j - 1] = queue[j] BY <1>10, <3>3
    <3> QED BY <2>1, <3>1, <3>3, <3>4
  <2> QED BY <2>1, <2>2
<1>14. ASSUME NEW i \in DOMAIN queue'
       PROVE  /\ SameKind(queue'[i].old, queue'[i].new)
              /\ \/ queue'[i].new = cached[queue'[i].node].obj
                 \/ \E j \in DOMAIN queue' : j > i /\ queue'[j].node = queue'[i].node /\ queue'[j].old = queue'[i].new
  <2>1. i \in Nat /\ i + 1 \in DOMAIN queue /\ queue'[i] = queue[i + 1] /\ (i + 1) - 1 = i BY <1>10
  <2> QED BY <1>13, <2>1
<1>15. ASSUME NEW i \in DOMAIN agenda'
       PROVE  /\ agenda'[i].op = "event" /\ SameKind(agenda'[i].old, agenda'[i].new)
              /\ \/ agenda'[i].new = cached[agenda'[i].node].obj
                 \/ \E j \in DOMAIN queue' : queue'[j].node = agenda'[i].node /\ queue'[j].old = agenda'[i].new
  BY <1>6, <1>7, <1>9, <1>13
<1>16. EventsInv' BY <1>2, <1>14, <1>15 DEF EventsInv
<1>17. SyncInv' BY <1>15 DEF SyncInv
<1>18. VersionsInv' BY <1>2, <1>11 DEF AgreeInv, VersionsInv
<1>19. PairsInv BY DEF AgreeInv
<1>20. \A c \in Controllers, m \in Nodes : thread[c][m].pc # "idle" /\ ~thread[c][m].retry => Later(m) \subseteq Later(m)'
  BY <1>1, NoCallOfEvent
<1>21. \A c \in Controllers, m \in Nodes : (c \in started' => c \in started) => PairOK(c, m)'
  BY <1>2, <1>12, <1>19, <1>20, ApiStays, PairsKept
<1>22. PairsInv' BY <1>2, <1>21 DEF PairsInv
<1> QED BY <1>16, <1>17, <1>18, <1>22 DEF AgreeInv

\* The elements of one sequence come before those of another.
LEMMA Joined ==
    ASSUME NEW T, NEW s \in Seq(T), NEW t \in Seq(T)
    PROVE  /\ \A i \in DOMAIN (s \o t) :
                  \/ i \in DOMAIN s /\ (s \o t)[i] = s[i] /\ i <= Len(s)
                  \/ i > Len(s) /\ i - Len(s) \in DOMAIN t /\ (s \o t)[i] = t[i - Len(s)]
           /\ \A i \in DOMAIN s : i \in DOMAIN (s \o t) /\ (s \o t)[i] = s[i] /\ i <= Len(s)
           /\ \A i \in DOMAIN t : Len(s) + i \in DOMAIN (s \o t) /\ (s \o t)[Len(s) + i] = t[i]
  OBVIOUS

\* A controller starts: it will add all nodes of the cache.
LEMMA StartAgrees ==
    ASSUME Inv, Inv', LeakInv, AgreeInv, NEW c \in Controllers, Start(c)
    PROVE  AgreeInv'
<1> DEFINE S == {n \in Nodes : cached[n].obj # None}
           w(op, n) == [op |-> op, ctrl |-> c, node |-> n, old |-> None, new |-> cached[n].obj]
           Adds == {x \in Work : x.op = "event"}
           Syncs == {x \in Work : x.op # "event" /\ x.ctrl = c /\ x.node \in S}
<1>1. IsFiniteSet(S) BY SetsFinite, FS_Subset
<1>2. \A n, op : /\ w(op, n).op = op /\ w(op, n).ctrl = c /\ w(op, n).node = n
                 /\ w(op, n).old = None /\ w(op, n).new = cached[n].obj
  BY Zenon
<1>3. ASSUME NEW n \in S
      PROVE  w("event", n) \in Adds /\ w("sync", n) \in Syncs /\ w("replace", n) \in Syncs
  <2>1. cached[n].obj \in NodeObject BY DEF Inv, WorldInv, Version
  <2> QED BY <2>1 DEF Work
<1>4. PICK order \in SetToSeqs(S) :
          agenda' = [i \in 1 .. Len(order) |-> w("sync", order[i])]
                    \o (IF c = Zone THEN [i \in 1 .. Len(order) |-> w("replace", order[i])] ELSE <<>>)
                    \o [i \in 1 .. Len(order) |-> w("event", order[i])]
  BY DEF Start
<1>5. \A x \in Syncs : x.op # "event" /\ x.ctrl = c /\ x.node \in S OBVIOUS
<1>6. \A n \in Nodes : n \in S \/ cached[n].obj = None OBVIOUS
<1> HIDE DEF w, S, Syncs, Adds
<1>7. Len(order) \in Nat /\ \A i \in 1 .. Len(order) : order[i] \in S BY <1>1, EnumerationIsSeq
<1>8. \A n \in S : \E i \in 1 .. Len(order) : order[i] = n BY <1>1, EnumerationIsOnto
<1> DEFINE s1 == [i \in 1 .. Len(order) |-> w("sync", order[i])]
           s2 == IF c = Zone THEN [i \in 1 .. Len(order) |-> w("replace", order[i])] ELSE <<>>
           before == s1 \o s2
           adds == [i \in 1 .. Len(order) |-> w("event", order[i])]
<1>9. agenda' = before \o adds BY <1>4
<1>10. before \in Seq(Syncs)
  <2>1. s1 \in Seq(Syncs) BY <1>3, <1>7
  <2>2. s2 \in Seq(Syncs)
    <3>1. [i \in 1 .. Len(order) |-> w("replace", order[i])] \in Seq(Syncs) BY <1>3, <1>7
    <3> QED BY <3>1
  <2> HIDE DEF s1, s2
  <2> QED BY <2>1, <2>2
<1>11. /\ adds \in Seq(Adds) /\ DOMAIN adds = 1 .. Len(order)
       /\ \A i \in DOMAIN adds : adds[i] = w("event", order[i])
  BY <1>3, <1>7
<1> HIDE DEF before, adds
<1> DEFINE k == Len(before)
<1>12. /\ \A i \in DOMAIN agenda' :
              \/ i \in DOMAIN before /\ agenda'[i] = before[i] /\ i <= k
              \/ i > k /\ i - k \in DOMAIN adds /\ agenda'[i] = adds[i - k]
       /\ \A i \in DOMAIN adds : k + i \in DOMAIN agenda' /\ agenda'[k + i] = adds[i]
  <2> DEFINE T == Syncs \cup Adds
  <2>1. before \in Seq(T) /\ adds \in Seq(T) BY <1>10, <1>11
  <2> HIDE DEF T
  <2> QED BY <1>9, <2>1, Joined
<1>13. k \in Nat /\ \A i \in DOMAIN before : before[i] \in Syncs BY <1>10
<1> HIDE DEF k
<1>14. ASSUME NEW i \in DOMAIN agenda'
       PROVE  /\ i \in Nat
              /\ \/ i <= k /\ agenda'[i].op # "event" /\ agenda'[i].ctrl = c /\ agenda'[i].node \in S
                 \/ i > k /\ agenda'[i].op = "event" /\ agenda'[i].old = None /\ agenda'[i].new = cached[agenda'[i].node].obj
  <2>1. i \in Nat BY ElementOf DEF Inv, CallInv
  <2>2. CASE i \in DOMAIN before /\ agenda'[i] = before[i] /\ i <= k BY <1>5, <1>13, <2>1, <2>2
  <2>3. CASE i > k /\ i - k \in DOMAIN adds /\ agenda'[i] = adds[i - k] BY <1>2, <1>11, <2>1, <2>3
  <2> QED BY <1>12, <2>2, <2>3
<1>15. ASSUME NEW n \in S
       PROVE  \E j \in DOMAIN agenda' : /\ agenda'[j].op = "event" /\ agenda'[j].ctrl = c
                                        /\ agenda'[j].node = n /\ agenda'[j].old = None
  <2>1. PICK i \in 1 .. Len(order) : order[i] = n BY <1>8
  <2>2. k + i \in DOMAIN agenda' /\ agenda'[k + i] = w("event", n) BY <1>11, <1>12, <2>1
  <2> QED BY <1>2, <2>2
<1>16. agenda = <<>> /\ started' = started \cup {c} /\ c \notin started BY DEF Start
<1>17. UNCHANGED <<scenario, api, stream, cached, queue, entry, pool, ids, thread, dropped>> BY DEF Start
<1>18. \A n \in Nodes : thread[c][n].pc = "idle" /\ entry[c][n] = None BY <1>16 DEF LeakInv, ThreadInv
<1>19. VersionsInv' BY <1>17 DEF AgreeInv, VersionsInv, Known
<1>20. EventsInv' BY <1>14, <1>17 DEF AgreeInv, EventsInv, SameKind
<1>21. SyncInv'
  <2> SUFFICES ASSUME NEW i \in DOMAIN agenda', agenda'[i].op # "event"
               PROVE  /\ \A n \in Nodes : thread[agenda'[i].ctrl][n].pc = "idle" /\ entry[agenda'[i].ctrl][n] = None
                      /\ \A j \in DOMAIN agenda' : j < i => agenda'[j].op # "event"
                      /\ \E j \in DOMAIN agenda' : /\ agenda'[j].op = "event" /\ agenda'[j].ctrl = agenda'[i].ctrl
                                                   /\ agenda'[j].node = agenda'[i].node /\ agenda'[j].old = None
    BY <1>17 DEF SyncInv
  <2>1. i \in Nat /\ i <= k /\ agenda'[i].ctrl = c /\ agenda'[i].node \in S BY <1>14
  <2>2. ASSUME NEW j \in DOMAIN agenda', j < i PROVE agenda'[j].op # "event"
    <3>1. j \in Nat /\ ~(j > k) BY <1>13, <1>14, <2>1, <2>2
    <3> QED BY <1>14, <3>1
  <2> QED BY <1>15, <1>18, <2>1, <2>2
<1>22. \A m \in Nodes : Later(m)' = Later(m) BY <1>17 DEF Later, Known
<1>23. \A d \in started, m \in Nodes : Ahead(d, m) \subseteq Ahead(d, m)'
  <2>1. \A d \in started, m \in Nodes : Ahead(d, m) = Later(m) BY <1>16 DEF Ahead, CallsOf
  <2> QED BY <1>22, <2>1 DEF Ahead
<1>24. \A d \in Controllers, m \in Nodes : (d \in started' => d \in started) => PairOK(d, m)'
  <2>1. PairsInv BY DEF AgreeInv
  <2> QED BY <1>17, <1>22, <1>23, <2>1, ApiStays, PairsKept
<1>25. ASSUME NEW m \in Nodes PROVE PairOK(c, m)'
  <2>1. None \in Ahead(c, m)'
    <3>1. CASE m \in S BY <1>15, <3>1 DEF Ahead, CallsOf
    <3>2. CASE cached[m].obj = None
      <4>1. None \in Later(m) BY <3>2 DEF Later, Known
      <4> QED BY <1>22, <4>1 DEF Ahead
    <3> QED BY <1>6, <3>1, <3>2
  <2>2. Assured(c, m)' BY <2>1 DEF Assured, Good
  <2> QED BY <1>17, <1>18, <2>2 DEF PairOK, Agrees
<1>26. PairsInv' BY <1>16, <1>24, <1>25 DEF PairsInv
<1> QED BY <1>19, <1>20, <1>21, <1>26 DEF AgreeInv

-----------------------------------------------------------------------------
(***************************************************************************)
(* What has to be shown of a step of a call                                *)
(***************************************************************************)

\* The step of the call of c for n changes nothing of the others; it may end the
\* call of the event it is in.
StepPart(c, n) ==
    /\ \/ agenda' = agenda
       \/ /\ agenda # <<>> /\ agenda' = Tail(agenda)
          /\ Head(agenda).op = "event" => Head(agenda).ctrl = c /\ Head(agenda).node = n
    /\ \A d \in Controllers, m \in Nodes : d # c \/ m # n =>
           /\ thread'[d][m] = thread[d][m] /\ entry'[d][m] = entry[d][m]
           /\ <<d, m>> \in dropped => <<d, m>> \in dropped'

\* No sync of c is still to be made.
Calling(c, n) ==
    thread[c][n].pc # "idle" \/ entry[c][n] # None \/ (agenda # <<>> /\ Head(agenda).op = "event")

\* A call has been taken off the agenda.
LEMMA PopAhead ==
    ASSUME Inv, agenda # <<>>, agenda' = Tail(agenda), NEW c, NEW n, Later(n) \subseteq Later(n)',
           Head(agenda).op = "event" => Head(agenda).ctrl # c \/ Head(agenda).node # n
    PROVE  Ahead(c, n) \subseteq Ahead(c, n)'
<1>1. agenda \in Seq(Work) BY DEF Inv, CallInv
<1>2. \A j \in DOMAIN agenda : j \in Nat /\ (j = 1 \/ (j - 1 \in DOMAIN agenda' /\ agenda'[j - 1] = agenda[j]))
  BY <1>1
<1>3. Head(agenda) = agenda[1] BY <1>1
<1>4. ASSUME NEW i \in CallsOf(c, n) PROVE agenda[i].old \in Ahead(c, n)'
  <2>1. i \in DOMAIN agenda /\ agenda[i].op = "event" /\ agenda[i].ctrl = c /\ agenda[i].node = n BY DEF CallsOf
  <2>2. i # 1 BY <1>3, <2>1
  <2>3. i - 1 \in DOMAIN agenda' /\ agenda'[i - 1] = agenda[i] BY <1>2, <2>1, <2>2
  <2>4. i - 1 \in CallsOf(c, n)' BY <2>1, <2>3 DEF CallsOf
  <2> QED BY <2>3, <2>4 DEF Ahead
<1> QED BY <1>4 DEF Ahead

\* The events and the syncs that remain.
LEMMA AgendaKept ==
    ASSUME Inv, EventsInv, SyncInv, UNCHANGED <<cached, queue>>,
           agenda' = agenda \/ (agenda # <<>> /\ agenda' = Tail(agenda)),
           \A i \in DOMAIN agenda : agenda[i].op # "event" =>
               \A n \in Nodes : thread'[agenda[i].ctrl][n].pc = "idle" /\ entry'[agenda[i].ctrl][n] = None
    PROVE  EventsInv' /\ SyncInv'
<1>1. CASE agenda' = agenda
  <2>1. EventsInv' BY <1>1 DEF EventsInv
  <2>2. SyncInv' BY <1>1 DEF SyncInv
  <2> QED BY <2>1, <2>2
<1>2. CASE agenda # <<>> /\ agenda' = Tail(agenda)
  <2>1. agenda \in Seq(Work) BY DEF Inv, CallInv
  <2>2. \A i \in DOMAIN agenda' : i \in Nat /\ i >= 1 /\ i + 1 \in DOMAIN agenda /\ agenda'[i] = agenda[i + 1]
    BY <1>2, <2>1, TailAt
  <2>3. \A j \in DOMAIN agenda : j \in Nat /\ (j = 1 \/ (j - 1 \in DOMAIN agenda' /\ agenda'[j - 1] = agenda[j]))
    BY <1>2, <2>1
  <2>4. EventsInv' BY <2>2 DEF EventsInv
  <2>5. SyncInv'
    <3> SUFFICES ASSUME NEW i \in DOMAIN agenda', agenda'[i].op # "event"
                 PROVE  /\ \A n \in Nodes : thread'[agenda'[i].ctrl][n].pc = "idle" /\ entry'[agenda'[i].ctrl][n] = None
                        /\ \A j \in DOMAIN agenda' : j < i => agenda'[j].op # "event"
                        /\ \E j \in DOMAIN agenda' : /\ agenda'[j].op = "event" /\ agenda'[j].ctrl = agenda'[i].ctrl
                                                     /\ agenda'[j].node = agenda'[i].node /\ agenda'[j].old = None
      BY DEF SyncInv
    <3>1. i \in Nat /\ i >= 1 /\ i + 1 \in DOMAIN agenda /\ agenda'[i] = agenda[i + 1] BY <2>2
    <3>2. \A j \in DOMAIN agenda : j < i + 1 => agenda[j].op # "event" BY <3>1 DEF SyncInv
    <3>3. ASSUME NEW j \in DOMAIN agenda', j < i PROVE agenda'[j].op # "event"
      <4>1. j \in Nat /\ j + 1 \in DOMAIN agenda /\ agenda'[j] = agenda[j + 1] BY <2>2
      <4>2. j + 1 < i + 1 BY <3>1, <3>3, <4>1
      <4> QED BY <3>2, <4>1, <4>2
    <3>4. PICK j \in DOMAIN agenda : /\ agenda[j].op = "event" /\ agenda[j].ctrl = agenda[i + 1].ctrl
                                     /\ agenda[j].node = agenda[i + 1].node /\ agenda[j].old = None
      BY <3>1 DEF SyncInv
    <3>5. j # 1
      <4>1. 1 < i + 1 BY <3>1
      <4> QED BY <3>2, <3>4, <4>1
    <3>6. j - 1 \in DOMAIN agenda' /\ agenda'[j - 1] = agenda[j] BY <2>3, <3>5
    <3> QED BY <3>1, <3>3, <3>4, <3>6
  <2> QED BY <2>4, <2>5
<1> QED BY <1>1, <1>2

\* While c is called no sync of it is to be made.
LEMMA CallingIsNoSync ==
    ASSUME Inv, SyncInv, NEW c \in Controllers, NEW n \in Nodes, Calling(c, n),
           NEW i \in DOMAIN agenda, agenda[i].op # "event"
    PROVE  agenda[i].ctrl # c
<1>1. thread[agenda[i].ctrl][n].pc = "idle" /\ entry[agenda[i].ctrl][n] = None BY DEF SyncInv
<1>2. ASSUME agenda # <<>>, Head(agenda).op = "event" PROVE FALSE
  <2>1. agenda \in Seq(Work) BY DEF Inv, CallInv
  <2>2. Head(agenda) = agenda[1] /\ 1 \in DOMAIN agenda /\ i \in Nat /\ i >= 1 BY <1>2, <2>1
  <2>3. i # 1 BY <1>2, <2>2
  <2>4. 1 < i BY <2>2, <2>3
  <2> QED BY <1>2, <2>2, <2>4 DEF SyncInv
<1> QED BY <1>1, <1>2 DEF Calling

\* Such a step keeps the invariant if it does so for c and n.
LEMMA CallAgrees ==
    ASSUME Inv, Inv', LeakInv, AgreeInv, NEW c \in Controllers, NEW n \in Nodes,
           StepPart(c, n), AllocPart(c, n), UNCHANGED <<scenario, cached, queue, started>>,
           Calling(c, n) \/ UNCHANGED <<thread, entry>>,
           VersionsInv', ApiGrows, \A m \in Nodes : Known(m) \subseteq Known(m)',
           PairOK(c, n)'
    PROVE  AgreeInv'
<1>1. EventsInv /\ SyncInv /\ PairsInv BY DEF AgreeInv
<1>2. agenda' = agenda \/ (agenda # <<>> /\ agenda' = Tail(agenda)) BY DEF StepPart
<1>3. ASSUME NEW i \in DOMAIN agenda, agenda[i].op # "event", NEW m \in Nodes
      PROVE  thread'[agenda[i].ctrl][m].pc = "idle" /\ entry'[agenda[i].ctrl][m] = None
  <2>1. thread[agenda[i].ctrl][m].pc = "idle" /\ entry[agenda[i].ctrl][m] = None BY <1>1, <1>3 DEF SyncInv
  <2>2. CASE UNCHANGED <<thread, entry>> BY <2>1, <2>2
  <2>3. CASE Calling(c, n)
    <3>1. agenda[i].ctrl # c BY <1>1, <1>3, <2>3, CallingIsNoSync
    <3>2. agenda[i].ctrl \in Controllers
      <4>1. agenda[i] \in Work BY ElementOf DEF Inv, CallInv
      <4> QED BY <4>1 DEF Work
    <3> QED BY <2>1, <3>1, <3>2 DEF StepPart
  <2> QED BY <2>2, <2>3
<1>4. EventsInv' /\ SyncInv' BY <1>1, <1>2, <1>3, AgendaKept
<1>5. \A m \in Nodes : Later(m) \subseteq Later(m)' BY LaterGrows
<1>6. ASSUME NEW d \in Controllers, NEW m \in Nodes, d # c \/ m # n PROVE PairOK(d, m)'
  <2>1. Ahead(d, m) \subseteq Ahead(d, m)'
    <3>1. CASE agenda' = agenda BY <1>5, <3>1, AheadGrows
    <3>2. CASE agenda' # agenda
      <4>1. /\ agenda # <<>> /\ agenda' = Tail(agenda)
            /\ Head(agenda).op = "event" => Head(agenda).ctrl # d \/ Head(agenda).node # m
        BY <1>6, <3>2 DEF StepPart
      <4> QED BY <1>5, <4>1, PopAhead
    <3> QED BY <3>1, <3>2
  <2>2. Held(d, m) BY <1>6, OthersHeld
  <2>3. PairLeft(d, m) BY <1>6, <2>2 DEF PairLeft, StepPart
  <2>4. PairOK(d, m) /\ (thread[d][m].pc # "idle" => d \in started) BY <1>1 DEF PairsInv, LeakInv, ThreadInv
  <2> QED BY <1>5, <2>1, <2>3, <2>4, PairKept
<1>7. PairsInv' BY <1>6 DEF PairsInv
<1> QED BY <1>4, <1>7 DEF AgreeInv

\* A step that does not reach the API server.
LEMMA LocalAgrees ==
    ASSUME Inv, Inv', LeakInv, AgreeInv, NEW c \in Controllers, NEW n \in Nodes,
           StepPart(c, n), AllocPart(c, n), UNCHANGED <<api, stream, scenario, cached, queue, started>>,
           Calling(c, n) \/ UNCHANGED <<thread, entry>>, PairOK(c, n)'
    PROVE  AgreeInv'
<1>1. VersionsInv' BY DEF AgreeInv, VersionsInv, Known
<1>2. ApiGrows BY ApiStays
<1>3. \A m \in Nodes : Known(m) \subseteq Known(m)' BY DEF Known
<1> QED BY <1>1, <1>2, <1>3, CallAgrees

\* A call that returns.
LEMMA ReturnedStep ==
    ASSUME Inv, NEW c \in Controllers, NEW n \in Nodes, NEW err \in BOOLEAN,
           thread[c][n].pc # "idle", Returned(c, n, err)
    PROVE  /\ StepPart(c, n) /\ Calling(c, n)
           /\ thread'[c][n].pc = "idle"
           /\ err => entry'[c][n] # None
           /\ thread[c][n].retry => agenda' = agenda
<1> DEFINE retried == thread[c][n].retry
           e == IF ~err THEN None ELSE IF retried THEN entry[c][n] + 1 ELSE 1
<1>1. thread' = [thread EXCEPT ![c][n] = Idle] /\ agenda' = IF retried THEN agenda ELSE Tail(agenda)
  BY DEF Returned
<1>2. entry' = [entry EXCEPT ![c][n] = e] BY DEF Returned, Inv, CallInv
<1>3. dropped' = IF err THEN dropped ELSE dropped \ {<<c, n>>} BY DEF Returned
<1>4. ThreadOK(c, n) BY DEF Inv, CallInv
<1>5. ~retried => agenda # <<>> /\ Head(agenda).ctrl = c /\ Head(agenda).node = n BY <1>4 DEF ThreadOK
<1>6. err => e # None
  <2>1. retried => entry[c][n] \in Nat BY <1>4 DEF ThreadOK, Inv, CallInv
  <2> QED BY <2>1, ConstantsTyped
<1> HIDE DEF retried, e
<1>7. thread'[c][n].pc = "idle"
  <2>1. thread'[c][n] = Idle BY <1>1 DEF Inv, CallInv
  <2> QED BY <2>1 DEF Idle
<1>8. err => entry'[c][n] # None BY <1>2, <1>6 DEF Inv, CallInv
<1>9. \A d \in Controllers, m \in Nodes : d # c \/ m # n => thread'[d][m] = thread[d][m] /\ entry'[d][m] = entry[d][m]
  BY <1>1, <1>2 DEF Inv, CallInv
<1>10. \A d \in Controllers, m \in Nodes : (d # c \/ m # n) /\ <<d, m>> \in dropped => <<d, m>> \in dropped'
  BY <1>3
<1>11. StepPart(c, n) BY <1>1, <1>5, <1>9, <1>10 DEF StepPart
<1> QED BY <1>1, <1>7, <1>8, <1>11 DEF Calling, retried

\* A call that begins or goes on.
LEMMA OngoingStep ==
    ASSUME Inv, NEW c \in Controllers, NEW n \in Nodes, NEW th,
           thread' = [thread EXCEPT ![c][n] = th], UNCHANGED <<agenda, entry, dropped>>
    PROVE  StepPart(c, n) /\ thread'[c][n] = th
<1>1. thread'[c][n] = th BY DEF Inv, CallInv
<1>2. \A d \in Controllers, m \in Nodes : d # c \/ m # n => thread'[d][m] = thread[d][m] BY DEF Inv, CallInv
<1> QED BY <1>1, <1>2 DEF StepPart

\* A call that has failed will be retried.
LEMMA FailureIsRetried ==
    ASSUME NEW c \in Controllers, NEW n \in Nodes, thread'[c][n].pc = "idle", entry'[c][n] # None
    PROVE  PairOK(c, n)'
  BY DEF PairOK, Agrees

\* What is assured need not be looked at.
LEMMA AssuredIsOK ==
    ASSUME NEW c \in Controllers, NEW n \in Nodes, thread'[c][n].pc = "idle", Assured(c, n)'
    PROVE  PairOK(c, n)'
  BY DEF PairOK, Agrees

\* A call for a network goes on.
LEMMA WorksIsOK ==
    ASSUME NEW c \in Nets, NEW n \in Nodes, NEW th, thread'[c][n] = th, th.pc # "idle",
           Sees(c, n, th)', Holds(c, n, th)', Reads(n, th)'
    PROVE  PairOK(c, n)'
<1>1. Works(c, n, th)' BY DEF Works
<1>2. Works(c, n, thread[c][n])' BY <1>1
<1>3. c # Zone BY ConstantsTyped
<1> QED BY <1>2, <1>3 DEF PairOK, Agrees

\* The node a call works on stays ahead.
LEMMA NodeStaysAhead ==
    ASSUME NEW c, NEW n, NEW th, Sees(c, n, th), Later(n) \subseteq Later(n)', th.retry => agenda' = agenda
    PROVE  th.node \in Ahead(c, n)'
<1>1. CASE th.retry
  <2>1. Ahead(c, n) \subseteq Ahead(c, n)' BY <1>1, AheadGrows
  <2> QED BY <2>1 DEF Sees
<1>2. CASE ~th.retry BY <1>2 DEF Sees, Ahead
<1> QED BY <1>1, <1>2

\* None is good.
LEMMA NoneIsGood ==
    ASSUME NEW c, NEW n, None \in Ahead(c, n)'
    PROVE  Assured(c, n)'
  BY DEF Assured, Good

-----------------------------------------------------------------------------
(***************************************************************************)
(* The allocators in a call                                                *)
(***************************************************************************)

\* Only the owner's subnets are released, and only those it is told.
LEMMA ReleaseTouches ==
    ASSUME NEW pl \in SubnetAllocator, NEW p, NEW n, NEW nets, NEW s \in Subnet
    PROVE  \/ ReleaseNetworks(pl, p, n, nets).alloc[s] = pl.alloc[s]
           \/ s \in nets /\ InPool(p, s) /\ pl.alloc[s] = n
<1> DEFINE gone == {t \in nets : InPool(p, t) /\ pl.alloc[t] = n}
           used == [r \in Ranges |-> pl.used[r] - Cardinality({t \in gone : t.range = r})]
           alloc == [t \in Subnet |-> IF t \in gone THEN None ELSE pl.alloc[t]]
           new == ReleaseNetworks(pl, p, n, nets)
<1>1. new = [pl EXCEPT !.alloc = alloc, !.used = used] BY DEF ReleaseNetworks
<1>2. s \notin gone => alloc[s] = pl.alloc[s] OBVIOUS
<1>3. s \in gone => s \in nets /\ InPool(p, s) /\ pl.alloc[s] = n OBVIOUS
<1> HIDE DEF gone, used, new, alloc
<1>4. new.alloc = alloc BY <1>1, PoolFields
<1> QED BY <1>2, <1>3, <1>4 DEF new

\* A call releases subnets of its own.
LEMMA ReleasePart ==
    ASSUME NEW c \in Nets, NEW n \in Nodes, NEW p, p = c \/ (c = Default /\ p = Hybrid),
           NEW pl \in SubnetAllocator, pl.alloc = pool.alloc, NEW nets,
           pool' = ReleaseNetworks(pl, p, n, nets), UNCHANGED ids
    PROVE  /\ AllocPart(c, n)
           /\ \A s \in Subnet : s \notin nets => pool'.alloc[s] = pool.alloc[s]
<1>1. \A s \in Subnet : pool'.alloc[s] = pool.alloc[s] \/ (s \in nets /\ InPool(p, s) /\ pool.alloc[s] = n)
  BY ReleaseTouches
<1>2. \A s \in Subnet : InPool(p, s) => InArea(c, s) BY DEF InArea
<1> QED BY <1>1, <1>2 DEF AllocPart

\* A call takes subnets that are free or its own.
LEMMA TakePart ==
    ASSUME NEW c \in Nets, NEW n \in Nodes, NEW p, p = c \/ (c = Default /\ p = Hybrid), NEW nets,
           \A s \in nets : InPool(p, s) /\ pool.alloc[s] \in {None, n},
           \A s \in Subnet : pool'.alloc[s] = IF s \in nets THEN n ELSE pool.alloc[s], UNCHANGED ids
    PROVE  AllocPart(c, n)
<1>1. \A s \in Subnet : InPool(p, s) => InArea(c, s) BY DEF InArea
<1> QED BY <1>1 DEF AllocPart

\* A step that leaves the allocators alone.
LEMMA NothingTaken ==
    ASSUME UNCHANGED <<pool, ids>>
    PROVE  \A c, n : AllocPart(c, n)
  BY DEF AllocPart

\* The family of which a subnet is missing.
LEMMA MissingSays ==
    ASSUME NEW c, NEW th, NEW ranges \in Missing(c, th)
    PROVE  LET p == PoolOf(c, th.node)
               nets == th.kept \cup th.allocated
           IN  \/ ranges = V4Ranges[p] /\ \A s \in nets : s.range \notin IPv4
               \/ ranges = V6Ranges[p] /\ \A s \in nets : s.range \in IPv4
<1> DEFINE p == PoolOf(c, th.node)
           nets == th.kept \cup th.allocated
           has(v4) == \E s \in nets : (s.range \in IPv4) = v4
           v4 == {V4Ranges[p]} \ {<<>>}
<1>1. Missing(c, th) = IF v4 # {} /\ ~has(TRUE) THEN v4 ELSE IF has(FALSE) THEN {} ELSE {V6Ranges[p]} \ {<<>>}
  BY Zenon DEF Missing
<1>2. ~has(TRUE) => \A s \in nets : s.range \notin IPv4
  <2> SUFFICES ASSUME NEW s \in nets, s.range \in IPv4 PROVE has(TRUE)
    OBVIOUS
  <2>1. (s.range \in IPv4) = TRUE BY Zenon
  <2> QED BY <2>1, Zenon
<1>3. ~has(FALSE) => \A s \in nets : s.range \in IPv4
  <2> SUFFICES ASSUME NEW s \in nets, s.range \notin IPv4 PROVE has(FALSE)
    OBVIOUS
  <2>1. (s.range \in IPv4) = FALSE OBVIOUS
  <2> QED BY <2>1, Zenon
<1> HIDE DEF has, p, nets
<1>4. \/ ranges = V4Ranges[p] /\ ~has(TRUE)
      \/ ranges = V6Ranges[p] /\ ~has(FALSE)
  BY <1>1
<1> QED BY <1>2, <1>3, <1>4 DEF p, nets

\* If none is missing, the subnets are complete.
LEMMA NothingMissing ==
    ASSUME NEW c, NEW th, Missing(c, th) = {}
    PROVE  Complete(PoolOf(c, th.node), th.kept \cup th.allocated)
<1> DEFINE p == PoolOf(c, th.node)
           nets == th.kept \cup th.allocated
           has(v4) == \E s \in nets : (s.range \in IPv4) = v4
           v4 == {V4Ranges[p]} \ {<<>>}
<1>1. Missing(c, th) = IF v4 # {} /\ ~has(TRUE) THEN v4 ELSE IF has(FALSE) THEN {} ELSE {V6Ranges[p]} \ {<<>>}
  BY Zenon DEF Missing
<1>2. has(TRUE) => \E s \in nets : s.range \in IPv4
  <2> SUFFICES ASSUME NEW s \in nets, (s.range \in IPv4) = TRUE PROVE s.range \in IPv4
    BY Zenon
  <2> QED BY Zenon
<1>3. has(FALSE) => \E s \in nets : s.range \notin IPv4
  <2> SUFFICES ASSUME NEW s \in nets, (s.range \in IPv4) = FALSE PROVE s.range \notin IPv4
    BY Zenon
  <2> QED BY Zenon
<1> HIDE DEF has, p, nets
<1>4. (V4Ranges[p] # <<>> => has(TRUE)) /\ (V6Ranges[p] # <<>> => has(FALSE)) BY <1>1
<1>5. Complete(p, nets) BY <1>2, <1>3, <1>4 DEF Complete
<1> QED BY <1>5 DEF p, nets

\* Subnets that are unchanged are all that the node has.
LEMMA UnchangedIsAll ==
    ASSUME NEW c \in Nets, NEW th, th.node \in NodeObject, th.kept \subseteq th.node.subnets[c], ~SubnetsChanged(c, th)
    PROVE  th.kept \cup th.allocated = th.node.subnets[c]
<1> DEFINE all == th.node.subnets[c]
           nets == th.kept \cup th.allocated
<1>1. th.allocated = {} /\ Cardinality(all) = Cardinality(nets) BY DEF SubnetsChanged
<1>2. nets \in SUBSET all BY <1>1
<1>3. all \in SUBSET Subnet BY DEF NodeObject
<1> HIDE DEF all, nets
<1>4. IsFiniteSet(all) BY <1>3, SubnetFinite, FS_Subset
<1>5. nets = all BY <1>1, <1>2, <1>4, FS_Subset
<1> QED BY <1>5 DEF all, nets

\* A call that has nothing to write finds a node that agrees.
LEMMA DoneIsGood ==
    ASSUME NEW c \in Nets, NEW n, NEW th, th.node \in NodeObject, NextStep(c, th) = "done", Holds(c, n, th)'
    PROVE  Good(c, n, th.node)'
<1> DEFINE o == th.node
           nets == th.kept \cup th.allocated
<1>1. /\ Missing(c, th) = {} /\ ~o.noHostSubnet
      /\ ~SubnetsChanged(c, th) /\ c \in o.networkIDs
  BY DEF NextStep
<1>2. PoolOf(c, o) = c /\ Existing(c, o) = o.subnets[c] BY <1>1 DEF PoolOf, Existing
<1>3. th.kept \subseteq o.subnets[c] /\ Owned(c, n, nets)' /\ OnePerFamily(nets) BY <1>2 DEF Holds, OnePerFamily
<1>4. nets = o.subnets[c] BY <1>1, <1>3, UnchangedIsAll
<1>5. Complete(c, nets) BY <1>1, <1>2, NothingMissing
<1>6. c # Zone BY ConstantsTyped
<1> HIDE DEF nets, o
<1>7. Owned(c, n, o.subnets[c])' BY <1>3, <1>4
<1>8. OnePerFamily(o.subnets[c]) /\ Complete(c, o.subnets[c]) BY <1>3, <1>4, <1>5
<1>9. Good(c, n, o)' BY <1>1, <1>6, <1>7, <1>8 DEF Good, OnePerFamily, Complete
<1> QED BY <1>9 DEF o

\* A call for a network that has done a part of its work.
LEMMA ProceedAgrees ==
    ASSUME Inv, NEW c \in Nets, NEW n \in Nodes, NEW th \in ThreadState,
           thread[c][n].pc # "idle", th.retry = thread[c][n].retry, th.node = thread[c][n].node,
           th.pc = "allocate", th.node.noHostSubnet => c = Default /\ scenario.hybrid,
           Sees(c, n, thread[c][n]), Holds(c, n, th)', UNCHANGED scenario, Later(n) \subseteq Later(n)', Proceed(c, n, th)
    PROVE  StepPart(c, n) /\ Calling(c, n) /\ PairOK(c, n)'
<1>1. c \in Controllers BY DEF Controllers
<1>2. th.node \in NodeObject BY <1>1, CallType DEF Inv
<1>3. Sees(c, n, th) BY DEF Sees
<1>4. CASE NextStep(c, th) = "done"
  <2>1. Returned(c, n, FALSE) BY <1>4 DEF Proceed
  <2>2. StepPart(c, n) /\ Calling(c, n) /\ thread'[c][n].pc = "idle" /\ (th.retry => agenda' = agenda)
    BY <1>1, <2>1, ReturnedStep
  <2>3. th.node \in Ahead(c, n)' BY <1>3, <2>2, NodeStaysAhead
  <2>4. Good(c, n, th.node)' BY <1>2, <1>4, DoneIsGood
  <2>5. Assured(c, n)' BY <2>3, <2>4 DEF Assured
  <2> QED BY <1>1, <2>2, <2>5, AssuredIsOK
<1>5. CASE NextStep(c, th) # "done"
  <2> DEFINE new == [th EXCEPT !.pc = NextStep(c, th)]
  <2>1. thread' = [thread EXCEPT ![c][n] = new] /\ UNCHANGED <<entry, agenda, dropped>> BY <1>5 DEF Proceed
  <2>2. /\ NextStep(c, th) \in {"allocate", "patch", "get"}
        /\ NextStep(c, th) # "allocate" => /\ th.todo = {} /\ Missing(c, th) = {}
                                           /\ th.node.noHostSubnet <=> NextStep(c, th) = "patch"
    <3>1. CASE th.todo # {} \/ Missing(c, th) # {}
      <4>1. NextStep(c, th) = "allocate" BY <3>1 DEF NextStep
      <4> QED BY <4>1
    <3>2. CASE ~(th.todo # {} \/ Missing(c, th) # {}) /\ th.node.noHostSubnet
      <4>1. NextStep(c, th) = "patch" BY <3>2 DEF NextStep
      <4> QED BY <3>2, <4>1
    <3>3. CASE ~(th.todo # {} \/ Missing(c, th) # {}) /\ ~th.node.noHostSubnet
      <4>1. NextStep(c, th) = "get" BY <1>5, <3>3 DEF NextStep
      <4> QED BY <3>3, <4>1
    <3> QED BY <3>1, <3>2, <3>3
  <2>3. /\ new.pc = NextStep(c, th) /\ new.retry = th.retry /\ new.node = th.node /\ new.todo = th.todo
        /\ new.kept = th.kept /\ new.allocated = th.allocated
    BY DEF ThreadState
  <2> HIDE DEF new
  <2>4. StepPart(c, n) /\ thread'[c][n] = new
    <3>1. UNCHANGED <<agenda, entry, dropped>> BY <2>1
    <3>2. thread' = [thread EXCEPT ![c][n] = new] BY <2>1
    <3>3. thread'[c][n] = new BY <1>1, <3>2 DEF Inv, CallInv
    <3>4. \A d \in Controllers, m \in Nodes : d # c \/ m # n => thread'[d][m] = thread[d][m]
      BY <1>1, <3>2 DEF Inv, CallInv
    <3> QED BY <3>1, <3>3, <3>4 DEF StepPart
  <2>5. Ahead(c, n) \subseteq Ahead(c, n)' BY <2>1, AheadGrows
  <2>6. Sees(c, n, new)' BY <1>3, <2>3, <2>5 DEF Sees
  <2>7. NextStep(c, th) # "allocate" => Complete(PoolOf(c, th.node), th.kept \cup th.allocated)
    BY <2>2, NothingMissing
  <2>8. Holds(c, n, new)'
    <3>1. /\ th.kept \cup th.todo \subseteq Existing(c, th.node) /\ th.kept \cap th.todo = {}
          /\ th.todo # {} => th.allocated = {}
          /\ Owned(PoolOf(c, th.node), n, th.kept \cup th.allocated)' /\ OnePerFamily(th.kept \cup th.allocated)
      BY DEF Holds, OnePerFamily, Existing
    <3> QED BY <2>2, <2>3, <2>7, <3>1 DEF Holds, OnePerFamily, Existing, Complete
  <2>9. Reads(n, new)' BY <2>2, <2>3 DEF Reads
  <2>10. new.pc # "idle" BY <2>2, <2>3
  <2>11. PairOK(c, n)' BY <2>4, <2>6, <2>8, <2>9, <2>10, WorksIsOK
  <2> QED BY <2>4, <2>11 DEF Calling
<1> QED BY <1>4, <1>5


-----------------------------------------------------------------------------
(***************************************************************************)
(* The steps of a call for a network                                       *)
(***************************************************************************)

\* What is known of a call that is being made.
LEMMA CallWorks ==
    ASSUME Inv, AgreeInv, NEW c \in Controllers, NEW n \in Nodes, c # Zone, NEW th, th = thread[c][n], th.pc # "idle"
    PROVE  /\ c \in Nets /\ th \in ThreadState /\ th.node \in NodeObject
           /\ Sees(c, n, th) /\ Holds(c, n, th) /\ Reads(n, th)
<1>1. c \in Nets BY DEF Controllers
<1>2. th \in ThreadState /\ th.node \in NodeObject BY CallType DEF Inv
<1>3. Works(c, n, th) BY DEF AgreeInv, PairsInv, PairOK
<1> QED BY <1>1, <1>2, <1>3 DEF Works

\* What everybody still has to see stays.
LEMMA LaterStays ==
    ASSUME UNCHANGED <<stream, cached, queue>>
    PROVE  \A n : Later(n) \subseteq Later(n)'
  BY DEF Later, Known

\* A call for a node that needs nothing.
LEMMA SkipAgrees ==
    ASSUME Inv, Inv', LeakInv, AgreeInv, NEW c \in Controllers, NEW n \in Nodes, SkipNode(c, n)
    PROVE  AgreeInv'
<1>1. PICK th : th = thread[c][n] OBVIOUS
<1>2. c # Zone /\ th.pc = "allocate" /\ th.pc # "idle" BY <1>1 DEF SkipNode
<1>3. UNCHANGED <<api, stream, pool, ids, scenario, cached, queue, started>> BY DEF SkipNode, CallVars
<1>4. c \in Nets /\ th \in ThreadState /\ th.node \in NodeObject /\ Sees(c, n, th) /\ Holds(c, n, th)
  BY <1>1, <1>2, CallWorks
<1>5. AllocPart(c, n) /\ Held(c, n) BY <1>3, NothingTaken, AllHeld
<1>6. Later(n) \subseteq Later(n)' BY <1>3, LaterStays
<1>7. StepPart(c, n) /\ Calling(c, n) /\ PairOK(c, n)'
  <2>1. CASE th.node.noHostSubnet /\ ~(scenario.hybrid /\ c = Default)
    <3>1. Returned(c, n, FALSE) BY <1>1, <2>1 DEF SkipNode
    <3>2. StepPart(c, n) /\ Calling(c, n) /\ thread'[c][n].pc = "idle" /\ (th.retry => agenda' = agenda)
      BY <1>1, <1>2, <3>1, ReturnedStep
    <3>3. th.node \in Ahead(c, n)' BY <1>4, <1>6, <3>2, NodeStaysAhead
    <3>4. Good(c, n, th.node)' BY <1>2, <1>3, <2>1 DEF Good
    <3>5. Assured(c, n)' BY <3>3, <3>4 DEF Assured
    <3> QED BY <3>2, <3>5, AssuredIsOK
  <2>2. CASE ~(th.node.noHostSubnet /\ ~(scenario.hybrid /\ c = Default))
    <3>1. Proceed(c, n, th) BY <1>1, <2>2 DEF SkipNode
    <3>2. th.kept \subseteq Subnet /\ th.allocated \subseteq Subnet BY <1>4 DEF ThreadState
    <3>3. Holds(c, n, th)' BY <1>3, <1>4, <1>5, <3>2, HoldsKept
    <3>4. th.node.noHostSubnet => c = Default /\ scenario.hybrid BY <2>2
    <3> QED BY <1>1, <1>2, <1>3, <1>4, <1>6, <3>1, <3>3, <3>4, ProceedAgrees
  <2> QED BY <2>1, <2>2
<1> QED BY <1>3, <1>5, <1>7, LocalAgrees

\* The pool of a call that allocates.
LEMMA PoolOfCall ==
    ASSUME NEW c \in Nets, NEW o, o.noHostSubnet => c = Default /\ scenario.hybrid
    PROVE  PoolOf(c, o) = c \/ (c = Default /\ PoolOf(c, o) = Hybrid)
  BY DEF PoolOf

\* A call that marks an existing subnet, or releases it.
LEMMA CheckAgrees ==
    ASSUME Inv, Inv', LeakInv, AgreeInv, NEW c \in Controllers, NEW n \in Nodes, CheckExisting(c, n)
    PROVE  AgreeInv'
<1>1. PICK th : th = thread[c][n] OBVIOUS
<1>2. c # Zone /\ th.pc = "allocate" /\ th.pc # "idle" /\ th.todo # {}
      /\ (th.node.noHostSubnet => c = Default /\ scenario.hybrid)
  BY <1>1 DEF CheckExisting, Concerned
<1>3. UNCHANGED <<api, stream, ids, scenario, cached, queue, started>> BY DEF CheckExisting, CallVars
<1>4. c \in Nets /\ th \in ThreadState /\ th.node \in NodeObject /\ Sees(c, n, th) /\ Holds(c, n, th)
  BY <1>1, <1>2, CallWorks
<1>5. Later(n) \subseteq Later(n)' BY <1>3, LaterStays
<1> DEFINE one(s) == [th EXCEPT !.todo = @ \ {s}]
           two(s) == [one(s) EXCEPT !.kept = @ \cup {s}]
<1>6. PICK p : p = PoolOf(c, th.node) OBVIOUS
<1>7. PICK s \in th.todo :
          \/ /\ CanMark(pool, p, n, s) /\ ~\E k \in th.kept : k.range \in IPv4 <=> s.range \in IPv4
             /\ pool' = MarkNetworks(pool, n, {s}) /\ Proceed(c, n, two(s))
          \/ pool' = ReleaseNetworks(pool, p, n, {s}) /\ Proceed(c, n, one(s))
  BY <1>1, <1>6, Zenon DEF CheckExisting
<1>8. p = c \/ (c = Default /\ p = Hybrid) BY <1>2, <1>4, <1>6, PoolOfCall
<1>9. s \in Subnet /\ pool \in SubnetAllocator /\ th.kept \subseteq Subnet BY <1>4 DEF ThreadState, Inv, PoolInv
<1>10. /\ th.kept \cup th.todo \subseteq Existing(c, th.node) /\ th.kept \cap th.todo = {}
       /\ th.allocated = {} /\ Owned(p, n, th.kept) /\ OnePerFamily(th.kept)
  <2>1. th.allocated = {} BY <1>2, <1>4 DEF Holds
  <2>2. th.kept \cup th.allocated = th.kept BY <2>1
  <2>3. Owned(p, n, th.kept \cup th.allocated) /\ OnePerFamily(th.kept \cup th.allocated) BY <1>4, <1>6 DEF Holds
  <2>4. th.kept \cup th.todo \subseteq Existing(c, th.node) /\ th.kept \cap th.todo = {} BY <1>4 DEF Holds
  <2> QED BY <2>1, <2>2, <2>3, <2>4
<1>11. CASE /\ CanMark(pool, p, n, s) /\ ~\E k \in th.kept : k.range \in IPv4 <=> s.range \in IPv4
            /\ pool' = MarkNetworks(pool, n, {s}) /\ Proceed(c, n, two(s))
  <2>1. \A t \in Subnet : pool'.alloc[t] = IF t \in {s} THEN n ELSE pool.alloc[t] BY <1>9, <1>11, MarkGives
  <2>2. InPool(p, s) /\ pool.alloc[s] \in {None, n} BY <1>11 DEF CanMark
  <2>3. AllocPart(c, n)
    <3>1. PICK some : some = {s} OBVIOUS
    <3>2. \A t \in some : InPool(p, t) /\ pool.alloc[t] \in {None, n} BY <2>2, <3>1
    <3>3. \A t \in Subnet : pool'.alloc[t] = IF t \in some THEN n ELSE pool.alloc[t] BY <2>1, <3>1
    <3> QED BY <1>3, <1>4, <1>8, <3>2, <3>3, TakePart
  <2>4. PICK nets : nets = th.kept \cup {s} OBVIOUS
  <2>5. Owned(p, n, nets)'
    <3>1. \A t \in th.kept : InPool(p, t) /\ pool.alloc[t] = n BY <1>10 DEF Owned
    <3>2. \A t \in nets : InPool(p, t) /\ pool'.alloc[t] = n BY <1>9, <2>1, <2>2, <2>4, <3>1
    <3> QED BY <3>2 DEF Owned
  <2>6. OnePerFamily(nets) BY <1>10, <1>11, <2>4 DEF OnePerFamily
  <2>7. PICK new : new = two(s) OBVIOUS
  <2>8. /\ new \in ThreadState /\ new.retry = th.retry /\ new.node = th.node /\ new.pc = "allocate"
        /\ new.todo = th.todo \ {s} /\ new.kept = nets /\ new.allocated = {}
    <3>1. th.todo \ {s} \in SUBSET Subnet /\ th.kept \cup {s} \in SUBSET Subnet BY <1>4, <1>9 DEF ThreadState
    <3> QED BY <1>2, <1>4, <1>10, <2>4, <2>7, <3>1 DEF ThreadState
  <2>9. Holds(c, n, new)'
    <3>1. new.kept \cup new.allocated = nets /\ PoolOf(c, new.node) = p BY <1>6, <2>8
    <3>2. new.kept \cup new.todo \subseteq Existing(c, new.node) /\ new.kept \cap new.todo = {}
      BY <1>10, <2>4, <2>8
    <3> QED BY <1>2, <1>3, <2>5, <2>6, <2>8, <3>1, <3>2 DEF Holds, OnePerFamily, Existing
  <2>10. Proceed(c, n, new) BY <1>11, <2>7
  <2>11. StepPart(c, n) /\ Calling(c, n) /\ PairOK(c, n)'
    BY <1>1, <1>2, <1>3, <1>4, <1>5, <2>8, <2>9, <2>10, ProceedAgrees
  <2> QED BY <1>3, <2>3, <2>11, LocalAgrees
<1>12. CASE pool' = ReleaseNetworks(pool, p, n, {s}) /\ Proceed(c, n, one(s))
  <2>1. AllocPart(c, n) /\ \A t \in Subnet : t \notin {s} => pool'.alloc[t] = pool.alloc[t]
    BY <1>3, <1>4, <1>8, <1>9, <1>12, ReleasePart
  <2>2. Owned(p, n, th.kept)'
    <3>1. \A t \in th.kept : InPool(p, t) /\ pool.alloc[t] = n /\ t # s BY <1>10 DEF Owned
    <3>2. \A t \in th.kept : InPool(p, t) /\ pool'.alloc[t] = n BY <1>9, <2>1, <3>1
    <3> QED BY <3>2 DEF Owned
  <2>3. PICK new : new = one(s) OBVIOUS
  <2>4. /\ new \in ThreadState /\ new.retry = th.retry /\ new.node = th.node /\ new.pc = "allocate"
        /\ new.todo = th.todo \ {s} /\ new.kept = th.kept /\ new.allocated = {}
    <3>1. th.todo \ {s} \in SUBSET Subnet BY <1>4 DEF ThreadState
    <3> QED BY <1>2, <1>4, <1>10, <2>3, <3>1 DEF ThreadState
  <2>5. Holds(c, n, new)'
    <3>1. new.kept \cup new.allocated = th.kept /\ PoolOf(c, new.node) = p BY <1>6, <2>4
    <3>2. new.kept \cup new.todo \subseteq Existing(c, new.node) /\ new.kept \cap new.todo = {}
      BY <1>10, <2>4
    <3> QED BY <1>2, <1>3, <1>10, <2>2, <2>4, <3>1, <3>2 DEF Holds, OnePerFamily, Existing
  <2>6. Proceed(c, n, new) BY <1>12, <2>3
  <2>7. StepPart(c, n) /\ Calling(c, n) /\ PairOK(c, n)'
    BY <1>1, <1>2, <1>3, <1>4, <1>5, <2>4, <2>5, <2>6, ProceedAgrees
  <2> QED BY <1>3, <2>1, <2>7, LocalAgrees
<1> QED BY <1>7, <1>11, <1>12

\* A call that allocates a subnet.
LEMMA AllocateAgrees ==
    ASSUME Inv, Inv', LeakInv, AgreeInv, NEW c \in Controllers, NEW n \in Nodes, AllocateSubnet(c, n)
    PROVE  AgreeInv'
<1>1. PICK th : th = thread[c][n] OBVIOUS
<1>2. c # Zone /\ th.pc = "allocate" /\ th.pc # "idle" /\ th.todo = {}
      /\ (th.node.noHostSubnet => c = Default /\ scenario.hybrid)
  BY <1>1 DEF AllocateSubnet, Concerned
<1>3. UNCHANGED <<api, stream, ids, scenario, cached, queue, started>> BY DEF AllocateSubnet, CallVars
<1>4. c \in Nets /\ th \in ThreadState /\ th.node \in NodeObject /\ Sees(c, n, th) /\ Holds(c, n, th)
  BY <1>1, <1>2, CallWorks
<1>5. Later(n) \subseteq Later(n)' BY <1>3, LaterStays
<1>6. PICK p : p = PoolOf(c, th.node) OBVIOUS
<1>7. p = c \/ (c = Default /\ p = Hybrid) BY <1>2, <1>4, <1>6, PoolOfCall
<1>8. PICK ranges \in Missing(c, th) : \E s \in NextSubnet(pool, ranges) :
          pool' = AllocateNetwork(pool, ranges, n, s) /\ Proceed(c, n, [th EXCEPT !.allocated = @ \cup {s}])
  BY <1>1 DEF AllocateSubnet
<1>9. PICK s \in NextSubnet(pool, ranges) :
          pool' = AllocateNetwork(pool, ranges, n, s) /\ Proceed(c, n, [th EXCEPT !.allocated = @ \cup {s}])
  BY <1>8
<1>10. s \in Subnet /\ s.range \in {ranges[k] : k \in DOMAIN ranges} BY NextSubnetInRanges
<1>11. pool.alloc[s] = None BY DEF NextSubnet, NextFree, Free
<1>12. PICK old : old = th.kept \cup th.allocated OBVIOUS
<1>13. \/ ranges = V4Ranges[p] /\ \A t \in old : t.range \notin IPv4
       \/ ranges = V6Ranges[p] /\ \A t \in old : t.range \in IPv4
  BY <1>6, <1>12, MissingSays
<1>14. InPool(p, s) BY <1>10, <1>13 DEF InPool, ToSet
<1>15. \A t \in old : ~(s.range \in IPv4 <=> t.range \in IPv4)
  <2>1. p \in Pools BY <1>4, <1>7 DEF Pools
  <2>2. CASE ranges = V4Ranges[p] /\ \A t \in old : t.range \notin IPv4
    <3>1. ranges \in Seq(IPv4) BY <2>1, <2>2, ConstantsTyped
    <3>2. s.range \in IPv4 BY <1>10, <3>1
    <3> QED BY <2>2, <3>2
  <2>3. CASE ranges = V6Ranges[p] /\ \A t \in old : t.range \in IPv4
    <3>1. ranges \in Seq(Ranges \ IPv4) BY <2>1, <2>3, ConstantsTyped
    <3>2. s.range \notin IPv4 BY <1>10, <3>1
    <3> QED BY <2>3, <3>2
  <2> QED BY <1>13, <2>2, <2>3
<1>16. PICK some : some = {s} OBVIOUS
<1>17. ASSUME NEW t \in Subnet PROVE pool'.alloc[t] = IF t \in some THEN n ELSE pool.alloc[t]
  <2> DEFINE marked == MarkNetworks(pool, n, {s})
             full == {ranges[i] : i \in {j \in DOMAIN ranges : \A k \in 1 .. j : Free(pool, ranges[k]) = {}}}
             next == [r \in Ranges |-> IF r = s.range THEN s.index + 1 ELSE IF r \in full THEN 0 ELSE marked.next[r]]
  <2>1. pool' = [marked EXCEPT !.next = next] BY <1>9 DEF AllocateNetwork
  <2>2. pool \in SubnetAllocator BY DEF Inv, PoolInv
  <2>3. marked.alloc[t] = IF t \in {s} THEN n ELSE pool.alloc[t] BY <2>2, MarkGives
  <2>4. PoolInv(marked) BY <1>10, MarkKeeps DEF Inv
  <2> HIDE DEF marked, next
  <2>5. pool'.alloc = marked.alloc BY <2>1, <2>4, PoolFields DEF PoolInv
  <2> QED BY <1>16, <2>3, <2>5
<1>18. AllocPart(c, n)
  <2>1. \A t \in some : InPool(p, t) /\ pool.alloc[t] \in {None, n} BY <1>11, <1>14, <1>16
  <2> QED BY <1>3, <1>4, <1>7, <1>17, <2>1, TakePart
<1>19. PICK nets : nets = old \cup {s} OBVIOUS
<1>20. Owned(p, n, nets)'
  <2>1. Owned(p, n, old) BY <1>4, <1>6, <1>12 DEF Holds
  <2>2. \A t \in old : InPool(p, t) /\ pool.alloc[t] = n /\ t \in Subnet BY <1>4, <1>12, <2>1 DEF Owned, ThreadState
  <2>3. \A t \in nets : InPool(p, t) /\ pool'.alloc[t] = n BY <1>10, <1>14, <1>16, <1>17, <1>19, <2>2
  <2> QED BY <2>3 DEF Owned
<1>21. OnePerFamily(nets)
  <2>1. OnePerFamily(old) BY <1>4, <1>12 DEF Holds
  <2> QED BY <1>15, <1>19, <2>1 DEF OnePerFamily
<1>22. PICK new : new = [th EXCEPT !.allocated = @ \cup {s}] OBVIOUS
<1>23. /\ new \in ThreadState /\ new.retry = th.retry /\ new.node = th.node /\ new.pc = "allocate"
       /\ new.todo = {} /\ new.kept = th.kept /\ new.allocated = th.allocated \cup {s}
  <2>1. th.allocated \cup {s} \in SUBSET Subnet BY <1>4, <1>10 DEF ThreadState
  <2> QED BY <1>2, <1>4, <1>22, <2>1 DEF ThreadState
<1>24. Holds(c, n, new)'
  <2>1. new.kept \cup new.allocated = nets /\ PoolOf(c, new.node) = p BY <1>6, <1>12, <1>19, <1>23
  <2>2. new.kept \cup new.todo \subseteq Existing(c, new.node) /\ new.kept \cap new.todo = {}
    <3>1. th.kept \subseteq Existing(c, th.node) BY <1>4 DEF Holds
    <3> QED BY <1>23, <3>1
  <2> QED BY <1>2, <1>3, <1>20, <1>21, <1>23, <2>1, <2>2 DEF Holds, OnePerFamily, Existing
<1>25. Proceed(c, n, new) BY <1>9, <1>22
<1>26. StepPart(c, n) /\ Calling(c, n) /\ PairOK(c, n)'
  BY <1>1, <1>2, <1>3, <1>4, <1>5, <1>23, <1>24, <1>25, ProceedAgrees
<1> QED BY <1>3, <1>18, <1>26, LocalAgrees

\* A call that finds no free subnet.
LEMMA ExhaustedAgrees ==
    ASSUME Inv, Inv', LeakInv, AgreeInv, NEW c \in Controllers, NEW n \in Nodes, SubnetsExhausted(c, n)
    PROVE  AgreeInv'
<1>1. PICK th : th = thread[c][n] OBVIOUS
<1>2. c # Zone /\ th.pc = "allocate" /\ th.pc # "idle" /\ (th.node.noHostSubnet => c = Default /\ scenario.hybrid)
      /\ Returned(c, n, TRUE)
  BY <1>1 DEF SubnetsExhausted, Concerned
<1>3. UNCHANGED <<api, stream, ids, scenario, cached, queue, started>> BY DEF SubnetsExhausted, CallVars
<1>4. c \in Nets BY <1>2 DEF Controllers
<1>5. PICK p : p = PoolOf(c, th.node) OBVIOUS
<1>6. p = c \/ (c = Default /\ p = Hybrid) BY <1>2, <1>4, <1>5, PoolOfCall
<1>7. PICK ranges : pool' = ReleaseNetworks(RangesFull(pool, ranges), p, n, th.allocated)
  BY <1>1, <1>5 DEF SubnetsExhausted
<1>8. PICK pl : pl = RangesFull(pool, ranges) OBVIOUS
<1>9. pl \in SubnetAllocator BY <1>8, FullKeeps DEF Inv, PoolInv
<1>10. pl.alloc = pool.alloc
  <2> DEFINE next == [r \in Ranges |-> IF r \in ToSet(ranges) THEN 0 ELSE pool.next[r]]
  <2>1. pl = [pool EXCEPT !.next = next] BY <1>8 DEF RangesFull
  <2> HIDE DEF next
  <2> QED BY <2>1, PoolFields DEF Inv, PoolInv
<1>11. AllocPart(c, n)
  <2>1. pool' = ReleaseNetworks(pl, p, n, th.allocated) BY <1>7, <1>8
  <2> QED BY <1>3, <1>4, <1>6, <1>9, <1>10, <2>1, ReleasePart
<1>12. StepPart(c, n) /\ Calling(c, n) /\ thread'[c][n].pc = "idle" /\ entry'[c][n] # None
  BY <1>1, <1>2, ReturnedStep
<1>13. PairOK(c, n)' BY <1>12, FailureIsRetried
<1> QED BY <1>3, <1>11, <1>12, <1>13, LocalAgrees

\* A call that releases what it has allocated, and returns.
LEMMA FailedStep ==
    ASSUME Inv, NEW c \in Nets, NEW n \in Nodes, thread[c][n].pc # "idle", Failed(c, n), UNCHANGED ids
    PROVE  StepPart(c, n) /\ Calling(c, n) /\ AllocPart(c, n) /\ PairOK(c, n)'
<1>1. pool' = ReleaseNetworks(pool, c, n, thread[c][n].allocated) /\ Returned(c, n, TRUE) BY DEF Failed
<1>2. c \in Controllers /\ pool \in SubnetAllocator BY DEF Controllers, Inv, PoolInv
<1>3. PICK nets : nets = thread[c][n].allocated OBVIOUS
<1>4. AllocPart(c, n) BY <1>1, <1>2, <1>3, ReleasePart
<1>5. StepPart(c, n) /\ Calling(c, n) /\ thread'[c][n].pc = "idle" /\ entry'[c][n] # None
  BY <1>1, <1>2, ReturnedStep
<1>6. PairOK(c, n)' BY <1>2, <1>5, FailureIsRetried
<1> QED BY <1>4, <1>5, <1>6

\* A call goes on with the same node and the same subnets.
SameWork(th, new) ==
    /\ th.pc \in {"get", "update"} /\ new.pc \in {"get", "update"}
    /\ new.retry = th.retry /\ new.node = th.node
    /\ new.todo = th.todo /\ new.kept = th.kept /\ new.allocated = th.allocated

CallGoesOn(c, n, th, new) ==
    /\ th = thread[c][n] /\ new = thread'[c][n]
    /\ SameWork(th, new) /\ StepPart(c, n) /\ Reads(n, new)
    /\ UNCHANGED <<agenda, pool, ids>> /\ UNCHANGED <<api, stream, scenario, cached, queue, started>>

LEMMA GoesOnAgrees ==
    ASSUME Inv, Inv', LeakInv, AgreeInv, NEW c \in Nets, NEW n \in Nodes, NEW th, NEW new, CallGoesOn(c, n, th, new)
    PROVE  AgreeInv'
<1>1. /\ th = thread[c][n] /\ new = thread'[c][n]
      /\ SameWork(th, new) /\ StepPart(c, n) /\ Reads(n, new)
      /\ UNCHANGED <<agenda, pool, ids>> /\ UNCHANGED <<api, stream, scenario, cached, queue, started>>
  BY DEF CallGoesOn
<1>2. /\ th.pc \in {"get", "update"} /\ new.pc \in {"get", "update"}
      /\ new.retry = th.retry /\ new.node = th.node
      /\ new.todo = th.todo /\ new.kept = th.kept /\ new.allocated = th.allocated
  BY <1>1 DEF SameWork
<1>3. c \in Controllers /\ c # Zone /\ th.pc # "idle" /\ new.pc # "idle" BY <1>2, ConstantsTyped DEF Controllers
<1>4. th \in ThreadState /\ Sees(c, n, th) /\ Holds(c, n, th) BY <1>1, <1>3, CallWorks
<1>5. AllocPart(c, n) /\ Held(c, n) BY <1>1, NothingTaken, AllHeld
<1>6. Later(n) \subseteq Later(n)' BY <1>1, LaterStays
<1>7. Ahead(c, n) \subseteq Ahead(c, n)' BY <1>1, <1>6, AheadGrows
<1>8. Sees(c, n, new)' BY <1>2, <1>4, <1>6, <1>7 DEF Sees
<1>9. Holds(c, n, new)'
  <2>1. th.kept \subseteq Subnet /\ th.allocated \subseteq Subnet BY <1>4 DEF ThreadState
  <2>2. Holds(c, n, th)' BY <1>1, <1>4, <1>5, <2>1, HoldsKept
  <2>3. /\ th.kept \cup th.todo \subseteq Existing(c, th.node) /\ th.kept \cap th.todo = {} /\ th.todo = {}
        /\ Owned(PoolOf(c, th.node), n, th.kept \cup th.allocated)' /\ OnePerFamily(th.kept \cup th.allocated)
        /\ ~th.node.noHostSubnet /\ Complete(PoolOf(c, th.node), th.kept \cup th.allocated)
    BY <1>1, <1>2, <2>2 DEF Holds, OnePerFamily, Existing, Complete
  <2>4. PICK p, nets : p = PoolOf(c, new.node) /\ nets = new.kept \cup new.allocated OBVIOUS
  <2>5. /\ new.kept \cup new.todo \subseteq Existing(c, new.node) /\ new.kept \cap new.todo = {} /\ new.todo = {}
        /\ Owned(p, n, nets)' /\ OnePerFamily(nets) /\ ~new.node.noHostSubnet /\ Complete(p, nets)
        /\ new.pc # "patch"
    BY <1>2, <2>3, <2>4
  <2> QED BY <2>4, <2>5 DEF Holds, OnePerFamily, Existing, Complete
<1>10. Reads(n, new)' BY <1>1 DEF Reads
<1>11. PairOK(c, n)' BY <1>1, <1>3, <1>8, <1>9, <1>10, WorksIsOK
<1>12. Calling(c, n) BY <1>1, <1>3 DEF Calling
<1> QED BY <1>1, <1>3, <1>5, <1>11, <1>12, LocalAgrees

\* A call that reads the node it will update.
LEMMA GetAgrees ==
    ASSUME Inv, Inv', LeakInv, AgreeInv, NEW c \in Controllers, NEW n \in Nodes, Get(c, n)
    PROVE  AgreeInv'
<1>1. PICK th : th = thread[c][n] OBVIOUS
<1>2. th.pc = "get" /\ th.pc # "idle" BY <1>1 DEF Get
<1>3. c # Zone /\ c \in Nets
  <2>1. ThreadOK(c, n) BY DEF Inv, CallInv
  <2>2. c # Zone BY <1>1, <1>2, <2>1 DEF ThreadOK
  <2> QED BY <2>2 DEF Controllers
<1>4. UNCHANGED <<api, stream, ids>> /\ UNCHANGED <<scenario, cached, queue, started>> BY DEF Get, CallVars
<1>5. CASE cached[n].obj = None
  <2>1. Failed(c, n) BY <1>5 DEF Get
  <2>2. StepPart(c, n) /\ Calling(c, n) /\ AllocPart(c, n) /\ PairOK(c, n)'
    BY <1>1, <1>2, <1>3, <1>4, <2>1, FailedStep
  <2> QED BY <1>4, <2>2, LocalAgrees
<1>6. CASE cached[n].obj # None
  <2>0. PICK new : new = [th EXCEPT !.pc = "update", !.copy = cached[n]] OBVIOUS
  <2>1. thread' = [thread EXCEPT ![c][n] = new]
    <3>1. thread' = [thread EXCEPT ![c][n].pc = "update", ![c][n].copy = cached[n]] BY <1>6 DEF Get
    <3>2. thread' = [thread EXCEPT ![c][n] = [thread[c][n] EXCEPT !.pc = "update", !.copy = cached[n]]]
      BY <3>1 DEF Inv, CallInv
    <3> QED BY <1>1, <2>0, <3>2
  <2>2. UNCHANGED <<entry, agenda, dropped, pool, ids>> BY <1>4, <1>6 DEF Get
  <2>3. th \in ThreadState BY <1>1, <1>2, <1>3, CallWorks
  <2>4. /\ new.pc = "update" /\ new.copy = cached[n] /\ new.retry = th.retry /\ new.node = th.node
        /\ new.todo = th.todo /\ new.kept = th.kept /\ new.allocated = th.allocated
    BY <2>0, <2>3 DEF ThreadState
  <2>5. cached[n] \in Known(n) BY DEF Known
  <2>6. Reads(n, new) BY <2>4, <2>5 DEF Reads, AgreeInv, VersionsInv
  <2>7. SameWork(th, new) BY <1>2, <2>4 DEF SameWork
  <2>8. UNCHANGED <<api, stream, scenario, cached, queue, started>> BY <1>4
  <2>9. StepPart(c, n) /\ thread'[c][n] = new BY <2>1, <2>2, OngoingStep
  <2>10. UNCHANGED <<agenda, pool, ids>> BY <2>2
  <2>11. CallGoesOn(c, n, th, new) BY <1>1, <2>6, <2>7, <2>8, <2>9, <2>10 DEF CallGoesOn
  <2> QED BY <1>3, <2>11, GoesOnAgrees
<1> QED BY <1>5, <1>6

\* What an update stores.
LEMMA AnnotatedFields ==
    ASSUME NEW c \in Nets, NEW th, NEW o \in NodeObject, th.copy.obj = o
    PROVE  LET obj == Annotated(c, th)
           IN  /\ obj.noHostSubnet = o.noHostSubnet /\ c \in obj.networkIDs
               /\ obj.subnets[c] = IF SubnetsChanged(c, th) THEN th.kept \cup th.allocated ELSE o.subnets[c]
<1> DEFINE nets == IF SubnetsChanged(c, th) THEN th.kept \cup th.allocated ELSE o.subnets[c]
           obj == Annotated(c, th)
<1>1. obj = [o EXCEPT !.subnets[c] = nets, !.networkIDs = @ \cup {c}] BY DEF Annotated
<1> HIDE DEF nets, obj
<1>2. obj.noHostSubnet = o.noHostSubnet /\ c \in obj.networkIDs BY <1>1 DEF NodeObject
<1>3. obj.subnets[c] = nets BY <1>1 DEF NodeObject
<1> QED BY <1>2, <1>3 DEF nets, obj

\* A node is stored by the call of c for n.
LEMMA CallStores ==
    ASSUME Inv, AgreeInv, NEW n \in Nodes, api[n].obj # None, NEW obj \in NodeObject, Store(n, obj),
           obj.noHostSubnet = api[n].obj.noHostSubnet, UNCHANGED <<cached, queue>>
    PROVE  /\ VersionsInv' /\ ApiGrows
           /\ \A m \in Nodes : Known(m) \subseteq Known(m)' /\ Later(m) \subseteq Later(m)'
           /\ obj \in Later(n)'
<1>1. SameKind(api[n].obj, obj) BY DEF SameKind
<1>2. obj \in NodeObject \cup {None} /\ WorldInv /\ VersionsInv /\ UNCHANGED cached BY DEF Inv, AgreeInv
<1>3. VersionsInv' /\ ApiGrows /\ api'[n].obj = obj /\ \A m \in Nodes : Known(m) \subseteq Known(m)'
  BY <1>1, <1>2, StoreVersions
<1>4. api'[n] \in Known(n)' BY <1>3 DEF VersionsInv
<1>5. obj \in Later(n)' BY <1>3, <1>4 DEF Later
<1>6. \A m \in Nodes : Later(m) \subseteq Later(m)' BY <1>3, LaterGrows
<1> QED BY <1>3, <1>5, <1>6

\* A call for a network that has stored its subnets assures itself of them: if
\* it has changed the node, an event will follow.
LEMMA WrittenIsAssured ==
    ASSUME NEW c \in Controllers, NEW n, c # Zone, NEW o \in Ahead(c, n)', NEW p \in Later(n)', o = p => Good(c, n, p)'
    PROVE  Assured(c, n)'
<1>1. p \in Ahead(c, n)' BY DEF Ahead
<1>2. CASE o = p BY <1>1, <1>2 DEF Assured
<1>3. CASE o # p
  <2>1. ~Same(c, o, p) BY <1>3 DEF Same
  <2> QED BY <1>1, <2>1 DEF Assured, Same
<1> QED BY <1>2, <1>3

\* An update that is stored, refused for a conflict, or given up.
LEMMA UpdateAgrees ==
    ASSUME Inv, Inv', LeakInv, AgreeInv, NEW c \in Controllers, NEW n \in Nodes, Update(c, n)
    PROVE  AgreeInv'
<1>1. PICK th : th = thread[c][n] OBVIOUS
<1>2. th.pc = "update" /\ th.pc # "idle" BY <1>1 DEF Update
<1>3. c # Zone
  <2>1. ThreadOK(c, n) BY DEF Inv, CallInv
  <2> QED BY <1>1, <1>2, <2>1 DEF ThreadOK
<1>4. UNCHANGED ids /\ UNCHANGED <<scenario, cached, queue, started>> BY DEF Update, CallVars
<1>5. /\ c \in Nets /\ th \in ThreadState /\ th.node \in NodeObject
      /\ Sees(c, n, th) /\ Holds(c, n, th) /\ Reads(n, th)
  BY <1>1, <1>2, <1>3, CallWorks
<1>6. CASE api[n].obj # None /\ api[n].rv = th.copy.rv
  <2>1. PICK obj : obj = Annotated(c, th) OBVIOUS
  <2>2. Store(n, obj) /\ Returned(c, n, FALSE) /\ UNCHANGED pool BY <1>1, <1>6, <2>1 DEF Update
  <2>3. th.copy = api[n] BY <1>2, <1>5, <1>6 DEF Reads
  <2>4. api[n].obj \in NodeObject BY <1>6 DEF Inv, WorldInv, Version
  <2>5. obj \in NodeObject BY <1>1, <1>2, <2>1, AnnotatedType
  <2>6. /\ obj.noHostSubnet = api[n].obj.noHostSubnet /\ c \in obj.networkIDs
        /\ obj.subnets[c] = IF SubnetsChanged(c, th) THEN th.kept \cup th.allocated ELSE api[n].obj.subnets[c]
    BY <1>5, <2>1, <2>3, <2>4, AnnotatedFields
  <2>7. /\ VersionsInv' /\ ApiGrows
        /\ \A m \in Nodes : Known(m) \subseteq Known(m)' /\ Later(m) \subseteq Later(m)'
        /\ obj \in Later(n)'
    BY <1>4, <1>6, <2>2, <2>5, <2>6, CallStores
  <2>8. StepPart(c, n) /\ Calling(c, n) /\ thread'[c][n].pc = "idle" /\ (th.retry => agenda' = agenda)
    BY <1>1, <1>2, <2>2, ReturnedStep
  <2>9. th.node \in Ahead(c, n)' BY <1>5, <2>7, <2>8, NodeStaysAhead
  <2>10. AllocPart(c, n) /\ Held(c, n) BY <1>4, <2>2, NothingTaken, AllHeld
  <2>11. ASSUME th.node = obj PROVE Good(c, n, obj)'
    <3>1. PICK nets : nets = th.kept \cup th.allocated OBVIOUS
    <3>2. ~obj.noHostSubnet BY <1>2, <1>5, <2>11 DEF Holds
    <3>3. PoolOf(c, th.node) = c /\ Existing(c, th.node) = th.node.subnets[c]
      BY <2>11, <3>2 DEF PoolOf, Existing
    <3>4. Owned(c, n, nets) /\ OnePerFamily(nets) /\ Complete(c, nets) /\ th.kept \subseteq th.node.subnets[c]
      BY <1>2, <1>5, <3>1, <3>3 DEF Holds
    <3>5. obj.subnets[c] = nets
      <4>1. CASE SubnetsChanged(c, th) BY <2>6, <3>1, <4>1
      <4>2. CASE ~SubnetsChanged(c, th) BY <1>5, <2>11, <3>1, <3>4, <4>2, UnchangedIsAll
      <4> QED BY <4>1, <4>2
    <3>6. Good(c, n, obj) BY <1>3, <2>6, <3>2, <3>4, <3>5 DEF Good
    <3> QED BY <1>4, <2>5, <2>10, <3>6, GoodHeld
  <2>12. Assured(c, n)' BY <1>3, <2>7, <2>9, <2>11, WrittenIsAssured
  <2>13. PairOK(c, n)' BY <2>8, <2>12, AssuredIsOK
  <2> QED BY <1>4, <2>7, <2>8, <2>10, <2>13, CallAgrees
<1>7. CASE ~(api[n].obj # None /\ api[n].rv = th.copy.rv) /\ api[n].obj # None /\ th.tries + 1 < Attempts
  <2>0. PICK new : new = [th EXCEPT !.pc = "get", !.tries = @ + 1] OBVIOUS
  <2>1. UNCHANGED <<entry, agenda, dropped, pool, ids>> BY <1>1, <1>4, <1>7 DEF Update
  <2>2. UNCHANGED <<api, stream, scenario, cached, queue, started>> BY <1>1, <1>4, <1>7 DEF Update
  <2>3. thread' = [thread EXCEPT ![c][n] = new]
    <3>1. thread' = [thread EXCEPT ![c][n].pc = "get", ![c][n].tries = @ + 1] BY <1>1, <1>7 DEF Update
    <3>2. thread' = [thread EXCEPT ![c][n] = [thread[c][n] EXCEPT !.pc = "get", !.tries = @ + 1]]
      BY <3>1 DEF Inv, CallInv
    <3> QED BY <1>1, <2>0, <3>2
  <2>4. /\ new.pc = "get" /\ new.retry = th.retry /\ new.node = th.node
        /\ new.todo = th.todo /\ new.kept = th.kept /\ new.allocated = th.allocated
    BY <1>5, <2>0 DEF ThreadState
  <2>5. Reads(n, new) BY <2>4 DEF Reads
  <2>6. SameWork(th, new) BY <1>2, <2>4 DEF SameWork
  <2>7. StepPart(c, n) /\ thread'[c][n] = new BY <2>1, <2>3, OngoingStep
  <2>8. UNCHANGED <<agenda, pool, ids>> BY <2>1
  <2>9. CallGoesOn(c, n, th, new) BY <1>1, <2>2, <2>5, <2>6, <2>7, <2>8 DEF CallGoesOn
  <2> QED BY <1>5, <2>9, GoesOnAgrees
<1>8. CASE ~(api[n].obj # None /\ api[n].rv = th.copy.rv) /\ ~(api[n].obj # None /\ th.tries + 1 < Attempts)
  <2>1. Failed(c, n) /\ UNCHANGED <<api, stream>> BY <1>1, <1>8 DEF Update
  <2>2. StepPart(c, n) /\ Calling(c, n) /\ AllocPart(c, n) /\ PairOK(c, n)'
    BY <1>1, <1>2, <1>4, <1>5, <2>1, FailedStep
  <2> QED BY <1>4, <2>1, <2>2, LocalAgrees
<1> QED BY <1>6, <1>7, <1>8

\* An update that fails, stored or not.
LEMMA UpdateFailsAgrees ==
    ASSUME Inv, Inv', LeakInv, AgreeInv, NEW c \in Controllers, NEW n \in Nodes, UpdateFails(c, n)
    PROVE  AgreeInv'
<1>1. PICK th : th = thread[c][n] OBVIOUS
<1>2. th.pc = "update" /\ th.pc # "idle" /\ Failed(c, n) BY <1>1 DEF UpdateFails
<1>3. c # Zone
  <2>1. ThreadOK(c, n) BY DEF Inv, CallInv
  <2> QED BY <1>1, <1>2, <2>1 DEF ThreadOK
<1>4. UNCHANGED ids /\ UNCHANGED <<scenario, cached, queue, started>> BY DEF UpdateFails, CallVars
<1>5. c \in Nets /\ Reads(n, th) BY <1>1, <1>2, <1>3, CallWorks
<1>6. StepPart(c, n) /\ Calling(c, n) /\ AllocPart(c, n) /\ PairOK(c, n)'
  BY <1>1, <1>2, <1>4, <1>5, FailedStep
<1>7. CASE UNCHANGED <<api, stream>> BY <1>4, <1>6, <1>7, LocalAgrees
<1>8. CASE api[n].obj # None /\ api[n].rv = th.copy.rv /\ Store(n, Annotated(c, th))
  <2>1. PICK obj : obj = Annotated(c, th) OBVIOUS
  <2>2. th.copy = api[n] BY <1>2, <1>5, <1>8 DEF Reads
  <2>3. api[n].obj \in NodeObject BY <1>8 DEF Inv, WorldInv, Version
  <2>4. obj \in NodeObject BY <1>1, <1>2, <2>1, AnnotatedType
  <2>5. obj.noHostSubnet = api[n].obj.noHostSubnet
    <3>1. PICK o \in NodeObject : o = api[n].obj BY <2>3
    <3>2. th.copy.obj = o BY <2>2, <3>1
    <3>3. c \in Nets BY <1>5
    <3>4. /\ obj.noHostSubnet = o.noHostSubnet /\ c \in obj.networkIDs
          /\ obj.subnets[c] = IF SubnetsChanged(c, th) THEN th.kept \cup th.allocated ELSE o.subnets[c]
      BY <2>1, <3>2, <3>3, AnnotatedFields
    <3> QED BY <3>1, <3>4
  <2>6. Store(n, obj) BY <1>8, <2>1
  <2>7. VersionsInv' /\ ApiGrows /\ \A m \in Nodes : Known(m) \subseteq Known(m)'
    BY <1>4, <1>8, <2>4, <2>5, <2>6, CallStores
  <2> QED BY <1>4, <1>6, <2>7, CallAgrees
<1> QED BY <1>1, <1>7, <1>8 DEF UpdateFails

-----------------------------------------------------------------------------
(***************************************************************************)
(* Node IDs and patches                                                    *)
(***************************************************************************)

\* The zone controller gets an ID for a node.
LEMMA ZoneAllocateAgrees ==
    ASSUME Inv, Inv', LeakInv, AgreeInv, NEW n \in Nodes, ZoneAllocate(n)
    PROVE  AgreeInv'
<1>1. Zone \in Controllers BY DEF Controllers
<1>2. thread[Zone][n].pc # "idle" BY DEF ZoneAllocate
<1>3. UNCHANGED <<api, stream, scenario, cached, queue, started>> /\ UNCHANGED pool BY DEF ZoneAllocate, CallVars
<1>4. CASE CanAllocateID(ids, n)
  <2>1. ids' = AllocateID(ids, n) /\ UNCHANGED <<entry, agenda, dropped>> BY <1>4 DEF ZoneAllocate
  <2>2. PICK new : new = [thread[Zone][n] EXCEPT !.pc = "patch"] OBVIOUS
  <2>3. thread' = [thread EXCEPT ![Zone][n] = new] BY <1>1, <1>4, <2>2 DEF ZoneAllocate, Inv, CallInv
  <2>4. new.pc = "patch"
    <3>1. thread[Zone][n] \in ThreadState BY <1>1 DEF Inv, CallInv
    <3> QED BY <2>2, <3>1 DEF ThreadState
  <2>5. StepPart(Zone, n) /\ thread'[Zone][n] = new BY <1>1, <2>1, <2>3, OngoingStep
  <2>6. AllocPart(Zone, n)
    <3>1. \A m \in Nodes : ids'.of[m] # ids.of[m] => m = n BY <2>1, AllocateIDGives DEF Inv, IDInv
    <3> QED BY <1>3, <3>1 DEF AllocPart
  <2>7. ids'.of[n] # None BY <1>4, <2>1, AllocateIDKeeps DEF Inv
  <2>8. PairOK(Zone, n)' BY <2>4, <2>5, <2>7 DEF PairOK, Agrees
  <2>9. Calling(Zone, n) BY <1>2 DEF Calling
  <2> QED BY <1>1, <1>3, <2>5, <2>6, <2>8, <2>9, LocalAgrees
<1>5. CASE ~CanAllocateID(ids, n)
  <2>1. Returned(Zone, n, TRUE) /\ UNCHANGED ids BY <1>5 DEF ZoneAllocate
  <2>2. AllocPart(Zone, n) BY <1>3, <2>1, NothingTaken
  <2>3. StepPart(Zone, n) /\ Calling(Zone, n) /\ thread'[Zone][n].pc = "idle" /\ entry'[Zone][n] # None
    BY <1>1, <1>2, <2>1, ReturnedStep
  <2>4. PairOK(Zone, n)' BY <1>1, <2>3, FailureIsRetried
  <2> QED BY <1>1, <1>3, <2>2, <2>3, <2>4, LocalAgrees
<1> QED BY <1>4, <1>5

\* What is patched: the ID of the node, or the subnet of the hybrid overlay.
LEMMA PatchIsOf ==
    ASSUME Inv, AgreeInv, NEW c \in Controllers, NEW n \in Nodes, NEW th, th = thread[c][n], th.pc = "patch"
    PROVE  \/ c = Zone /\ ids.of[n] # None
           \/ /\ c # Zone /\ c = Default /\ c \in Nets /\ scenario.hybrid
              /\ th.node \in NodeObject /\ th.node.noHostSubnet /\ Sees(c, n, th)
              /\ Owned(Hybrid, n, th.kept \cup th.allocated) /\ OnePerFamily(th.kept \cup th.allocated)
              /\ Complete(Hybrid, th.kept \cup th.allocated)
<1>1. th.pc # "idle" OBVIOUS
<1>2. CASE c = Zone BY <1>2 DEF AgreeInv, PairsInv, PairOK
<1>3. CASE c # Zone
  <2>1. c \in Nets /\ th.node \in NodeObject /\ Sees(c, n, th) /\ Holds(c, n, th) BY <1>1, <1>3, CallWorks
  <2>2. th.node.noHostSubnet BY <2>1 DEF Holds
  <2>3. c = Default /\ scenario.hybrid BY <2>1, <2>2 DEF Holds
  <2>4. PoolOf(c, th.node) = Hybrid BY <2>2 DEF PoolOf
  <2>5. /\ Owned(Hybrid, n, th.kept \cup th.allocated) /\ OnePerFamily(th.kept \cup th.allocated)
        /\ Complete(Hybrid, th.kept \cup th.allocated)
    BY <2>1, <2>4 DEF Holds
  <2> QED BY <1>3, <2>1, <2>2, <2>3, <2>5
<1> QED BY <1>2, <1>3

\* A patch that has failed.
LEMMA PatchFailedStep ==
    ASSUME Inv, AgreeInv, NEW c \in Controllers, NEW n \in Nodes, thread[c][n].pc = "patch", PatchFailed(c, n), UNCHANGED ids
    PROVE  StepPart(c, n) /\ Calling(c, n) /\ AllocPart(c, n) /\ PairOK(c, n)'
<1>1. Returned(c, n, TRUE) /\ thread[c][n].pc # "idle" BY DEF PatchFailed
<1>2. StepPart(c, n) /\ Calling(c, n) /\ thread'[c][n].pc = "idle" /\ entry'[c][n] # None
  BY <1>1, ReturnedStep
<1>3. PairOK(c, n)' BY <1>2, FailureIsRetried
<1>4. AllocPart(c, n)
  <2>1. CASE c = Zone
    <3>1. UNCHANGED pool BY <2>1 DEF PatchFailed
    <3> QED BY <3>1, NothingTaken
  <2>2. CASE c # Zone
    <3>1. PICK p : p = Hybrid OBVIOUS
    <3>2. pool' = ReleaseNetworks(pool, p, n, Subnet) BY <2>2, <3>1 DEF PatchFailed, ReleaseAllNetworks
    <3>3. c = Default /\ c \in Nets BY <2>2, PatchIsOf
    <3>4. pool \in SubnetAllocator BY DEF Inv, PoolInv
    <3> QED BY <3>1, <3>2, <3>3, <3>4, ReleasePart
  <2> QED BY <2>1, <2>2
<1> QED BY <1>2, <1>3, <1>4

\* What a patch changes.
LEMMA PatchedFields ==
    ASSUME Inv, NEW c, NEW n \in Nodes, api[n].obj # None
    PROVE  LET obj == Patched(c, n)
           IN  /\ obj.noHostSubnet = api[n].obj.noHostSubnet
               /\ c = Zone => obj.id = ids.of[n]
               /\ c # Zone => obj.hybrid = thread[c][n].kept \cup thread[c][n].allocated
<1>1. PICK o \in NodeObject : o = api[n].obj BY DEF Inv, WorldInv, Version
<1>2. PICK nets : nets = thread[c][n].kept \cup thread[c][n].allocated OBVIOUS
<1>3. PICK obj : obj = Patched(c, n) OBVIOUS
<1>4. CASE c = Zone
  <2>1. obj = [o EXCEPT !.id = ids.of[n]] BY <1>1, <1>3, <1>4 DEF Patched
  <2>2. obj.noHostSubnet = o.noHostSubnet /\ obj.id = ids.of[n] BY <2>1 DEF NodeObject
  <2> QED BY <1>1, <1>3, <1>4, <2>2
<1>5. CASE c # Zone
  <2>1. obj = [o EXCEPT !.hybrid = nets] BY <1>1, <1>2, <1>3, <1>5 DEF Patched
  <2>2. obj.noHostSubnet = o.noHostSubnet /\ obj.hybrid = nets BY <2>1 DEF NodeObject
  <2> QED BY <1>1, <1>2, <1>3, <1>5, <2>2
<1> QED BY <1>4, <1>5

\* A patch that is stored, or finds the node gone.
LEMMA PatchAgrees ==
    ASSUME Inv, Inv', LeakInv, AgreeInv, NEW c \in Controllers, NEW n \in Nodes, Patch(c, n)
    PROVE  AgreeInv'
<1>1. PICK th : th = thread[c][n] OBVIOUS
<1>2. th.pc = "patch" /\ th.pc # "idle" BY <1>1 DEF Patch
<1>3. UNCHANGED ids /\ UNCHANGED <<scenario, cached, queue, started>> BY DEF Patch, CallVars
<1>4. CASE api[n].obj = None
  <2>1. PatchFailed(c, n) /\ UNCHANGED <<api, stream>> BY <1>4 DEF Patch
  <2>2. StepPart(c, n) /\ Calling(c, n) /\ AllocPart(c, n) /\ PairOK(c, n)'
    BY <1>1, <1>2, <1>3, <2>1, PatchFailedStep
  <2> QED BY <1>3, <2>1, <2>2, LocalAgrees
<1>5. CASE api[n].obj # None
  <2>1. PICK obj : obj = Patched(c, n) OBVIOUS
  <2>2. Store(n, obj) /\ Returned(c, n, FALSE) /\ UNCHANGED pool BY <1>5, <2>1 DEF Patch
  <2>3. obj \in NodeObject BY <1>5, <2>1, PatchedType
  <2>4. /\ obj.noHostSubnet = api[n].obj.noHostSubnet
        /\ c = Zone => obj.id = ids.of[n]
        /\ c # Zone => obj.hybrid = th.kept \cup th.allocated
    BY <1>1, <1>5, <2>1, PatchedFields
  <2>5. /\ VersionsInv' /\ ApiGrows
        /\ \A m \in Nodes : Known(m) \subseteq Known(m)' /\ Later(m) \subseteq Later(m)'
        /\ obj \in Later(n)'
    BY <1>3, <1>5, <2>2, <2>3, <2>4, CallStores
  <2>6. StepPart(c, n) /\ Calling(c, n) /\ thread'[c][n].pc = "idle" /\ (th.retry => agenda' = agenda)
    BY <1>1, <1>2, <2>2, ReturnedStep
  <2>7. AllocPart(c, n) /\ Held(c, n) BY <1>3, <2>2, NothingTaken, AllHeld
  <2>8. Assured(c, n)'
    <3>1. CASE c = Zone
      <4>1. ids.of[n] # None BY <1>1, <1>2, <3>1, PatchIsOf
      <4>2. Good(c, n, obj) BY <2>4, <3>1, <4>1 DEF Good
      <4>3. Good(c, n, obj)' BY <1>3, <2>3, <2>7, <4>2, GoodHeld
      <4>4. obj \in Ahead(c, n)' BY <2>5 DEF Ahead
      <4> QED BY <4>3, <4>4 DEF Assured
    <3>2. CASE c # Zone
      <4>1. /\ c = Default /\ scenario.hybrid /\ th.node.noHostSubnet /\ Sees(c, n, th)
            /\ Owned(Hybrid, n, th.kept \cup th.allocated) /\ OnePerFamily(th.kept \cup th.allocated)
            /\ Complete(Hybrid, th.kept \cup th.allocated)
        BY <1>1, <1>2, <3>2, PatchIsOf
      <4>2. th.node \in Ahead(c, n)' BY <2>5, <2>6, <4>1, NodeStaysAhead
      <4>3. ASSUME th.node = obj PROVE Good(c, n, obj)'
        <5>1. Good(c, n, obj) BY <2>4, <3>2, <4>1, <4>3 DEF Good
        <5> QED BY <1>3, <2>3, <2>7, <5>1, GoodHeld
      <4> QED BY <2>5, <3>2, <4>2, <4>3, WrittenIsAssured
    <3> QED BY <3>1, <3>2
  <2>9. PairOK(c, n)' BY <2>6, <2>8, AssuredIsOK
  <2> QED BY <1>3, <2>5, <2>6, <2>7, <2>9, CallAgrees
<1> QED BY <1>4, <1>5

\* A patch that fails, stored or not.
LEMMA PatchFailsAgrees ==
    ASSUME Inv, Inv', LeakInv, AgreeInv, NEW c \in Controllers, NEW n \in Nodes, PatchFails(c, n)
    PROVE  AgreeInv'
<1>1. thread[c][n].pc = "patch" /\ PatchFailed(c, n) BY DEF PatchFails
<1>2. UNCHANGED ids /\ UNCHANGED <<scenario, cached, queue, started>> BY DEF PatchFails, CallVars
<1>3. StepPart(c, n) /\ Calling(c, n) /\ AllocPart(c, n) /\ PairOK(c, n)' BY <1>1, <1>2, PatchFailedStep
<1>4. CASE UNCHANGED <<api, stream>> BY <1>2, <1>3, <1>4, LocalAgrees
<1>5. CASE api[n].obj # None /\ Store(n, Patched(c, n))
  <2>1. PICK obj : obj = Patched(c, n) OBVIOUS
  <2>2. Store(n, obj) /\ obj \in NodeObject BY <1>5, <2>1, PatchedType
  <2>3. obj.noHostSubnet = api[n].obj.noHostSubnet BY <1>5, <2>1, PatchedFields
  <2>4. VersionsInv' /\ ApiGrows /\ \A m \in Nodes : Known(m) \subseteq Known(m)'
    BY <1>2, <1>5, <2>2, <2>3, CallStores
  <2> QED BY <1>2, <1>3, <2>4, CallAgrees
<1> QED BY <1>4, <1>5 DEF PatchFails

-----------------------------------------------------------------------------
(***************************************************************************)
(* Events, retries and syncs                                               *)
(***************************************************************************)

\* A call that begins.
LEMMA BeginAgrees ==
    ASSUME Inv, Inv', LeakInv, AgreeInv, NEW c \in Controllers, NEW n \in Nodes, Calling(c, n),
           NEW node \in Later(n), NEW retry \in BOOLEAN, Begin(c, n, node, retry),
           UNCHANGED <<api, stream, scenario, cached, queue, started>>
    PROVE  AgreeInv'
<1>1. PICK todo : todo = IF c = Zone THEN {} ELSE Existing(c, node) OBVIOUS
<1>2. PICK th : th = [pc |-> "allocate", retry |-> retry, node |-> node, todo |-> todo, kept |-> {},
                      allocated |-> {}, copy |-> None, tries |-> 0]
  OBVIOUS
<1>3. thread' = [thread EXCEPT ![c][n] = th] /\ UNCHANGED <<entry, agenda, dropped, pool, ids>>
  BY <1>1, <1>2 DEF Begin
<1>4. th.pc = "allocate" /\ th.node = node /\ th.todo = todo /\ th.kept = {} /\ th.allocated = {} BY <1>2
<1>5. StepPart(c, n) /\ thread'[c][n] = th BY <1>3, OngoingStep
<1>6. AllocPart(c, n) BY <1>3, NothingTaken
<1>7. node \in Later(n)' BY LaterStays
<1>8. PairOK(c, n)'
  <2>1. CASE c = Zone BY <1>4, <1>5, <2>1 DEF PairOK, Agrees
  <2>2. CASE c # Zone
    <3>1. c \in Nets BY <2>2 DEF Controllers
    <3>2. Sees(c, n, th)' BY <1>4, <1>7 DEF Sees, Ahead
    <3>3. Holds(c, n, th)' BY <1>1, <1>4, <2>2 DEF Holds, Owned, OnePerFamily, Existing
    <3>4. Reads(n, th)' /\ th.pc # "idle" BY <1>4 DEF Reads
    <3> QED BY <1>5, <3>1, <3>2, <3>3, <3>4, WorksIsOK
  <2> QED BY <2>1, <2>2
<1> QED BY <1>5, <1>6, <1>8, LocalAgrees

\* What is in the cache is ahead.
LEMMA CachedIsLater ==
    ASSUME NEW n
    PROVE  cached[n].obj \in Later(n)
  BY DEF Later, Known

\* A retry begins, or an entry is given up.
LEMMA RetryAgrees ==
    ASSUME Inv, Inv', LeakInv, AgreeInv, NEW c \in Controllers, NEW n \in Nodes, Retry(c, n)
    PROVE  AgreeInv'
<1>1. thread[c][n].pc = "idle" /\ entry[c][n] # None BY DEF Retry
<1>2. UNCHANGED <<api, stream, scenario, cached, queue, started>> BY DEF Retry, CallVars
<1>3. Calling(c, n) BY <1>1 DEF Calling
<1>4. CASE entry[c][n] < MaxFailedAttempts /\ cached[n].obj # None
  <2>1. PICK node \in Later(n) : node = cached[n].obj BY CachedIsLater
  <2>2. Begin(c, n, node, TRUE) BY <1>4, <2>1 DEF Retry
  <2> QED BY <1>2, <1>3, <2>2, BeginAgrees
<1>5. CASE ~(entry[c][n] < MaxFailedAttempts /\ cached[n].obj # None)
  <2>1. entry' = [entry EXCEPT ![c][n] = None] /\ UNCHANGED <<thread, agenda, pool, ids>> BY <1>5 DEF Retry
  <2>2. dropped' = IF cached[n].obj = None THEN dropped ELSE dropped \cup {<<c, n>>} BY <1>5 DEF Retry
  <2>3. StepPart(c, n) BY <2>1, <2>2 DEF StepPart, Inv, CallInv
  <2>4. AllocPart(c, n) BY <2>1, NothingTaken
  <2>5. PairOK(c, n)'
    <3>1. thread'[c][n].pc = "idle" BY <1>1, <2>1
    <3>2. CASE cached[n].obj = None
      <4>1. None \in Later(n) BY <3>2, CachedIsLater
      <4>2. None \in Ahead(c, n)' BY <1>2, <4>1, LaterStays DEF Ahead
      <4>3. Assured(c, n)' BY <4>2, NoneIsGood
      <4> QED BY <3>1, <4>3, AssuredIsOK
    <3>3. CASE cached[n].obj # None
      <4>1. <<c, n>> \in dropped' BY <2>2, <3>3
      <4> QED BY <3>1, <4>1 DEF PairOK, Agrees
    <3> QED BY <3>2, <3>3
  <2> QED BY <1>2, <1>3, <2>3, <2>4, <2>5, LocalAgrees
<1> QED BY <1>4, <1>5

\* The event that is handled next: the node it leads to is ahead.
LEMMA EventAhead ==
    ASSUME Inv, LeakInv, AgreeInv, agenda # <<>>, Head(agenda).op = "event"
    PROVE  /\ Head(agenda).new \in Later(Head(agenda).node)
           /\ SameKind(Head(agenda).old, Head(agenda).new)
           /\ Head(agenda).old \in NodeObject \cup {None} /\ Head(agenda).new \in NodeObject \cup {None}
<1>1. agenda \in Seq(Work) BY DEF Inv, CallInv
<1>2. Head(agenda) = agenda[1] /\ 1 \in DOMAIN agenda BY <1>1
<1>3. PICK w : w = Head(agenda) OBVIOUS
<1>4. /\ SameKind(w.old, w.new)
      /\ \/ w.new = cached[w.node].obj
         \/ \E j \in DOMAIN queue : queue[j].node = w.node /\ queue[j].old = w.new
  BY <1>2, <1>3 DEF AgreeInv, EventsInv
<1>5. w.new \in Later(w.node) BY <1>4, CachedIsLater DEF Later
<1>6. w \in Work BY <1>3, HeadOfAgenda
<1>7. w.old \in NodeObject \cup {None} /\ w.new \in NodeObject \cup {None} BY <1>6 DEF Work
<1> QED BY <1>3, <1>4, <1>5, <1>7

\* What c cannot tell apart is equally good.
LEMMA SameIsGood ==
    ASSUME NEW c, NEW n, NEW o, NEW p, Same(c, o, p), Good(c, n, o)
    PROVE  Good(c, n, p)
<1>1. CASE o = p BY <1>1
<1>2. CASE c = Zone /\ o # None /\ p # None /\ o.id = p.id
  <2>1. ids.of[n] # None /\ o.id = ids.of[n] BY <1>2 DEF Good
  <2> QED BY <1>2, <2>1 DEF Good
<1> QED BY <1>1, <1>2 DEF Same

\* An assurance is kept if for all that was ahead something is that c cannot tell from it.
LEMMA AssuredMoves ==
    ASSUME Inv, Inv', NEW c \in Controllers, NEW n \in Nodes, UNCHANGED <<pool, ids, scenario>>,
           \A o \in Ahead(c, n) : \E p \in Ahead(c, n)' : Same(c, o, p), Assured(c, n)
    PROVE  Assured(c, n)'
<1>1. PICK o \in Ahead(c, n), p \in Ahead(c, n) : Good(c, n, o) \/ ~Same(c, o, p) BY DEF Assured
<1>2. PICK x \in Ahead(c, n)' : Same(c, o, x) OBVIOUS
<1>3. PICK y \in Ahead(c, n)' : Same(c, p, y) OBVIOUS
<1>4. CASE Good(c, n, o)
  <2>1. Good(c, n, x) BY <1>2, <1>4, SameIsGood
  <2>2. Good(c, n, x)' BY <2>1 DEF Good, Owned, OnePerFamily, Complete
  <2> QED BY <2>2 DEF Assured
<1>5. CASE ~Same(c, o, p)
  <2>1. ~Same(c, x, y) BY <1>2, <1>3, <1>5 DEF Same
  <2> QED BY <2>1 DEF Assured, Same
<1> QED BY <1>1, <1>4, <1>5

\* When a call is taken off the agenda, only the state it starts from is no longer ahead.
LEMMA PopLoses ==
    ASSUME Inv, agenda # <<>>, agenda' = Tail(agenda), NEW c, NEW n, Later(n) \subseteq Later(n)',
           NEW o \in Ahead(c, n), o # Head(agenda).old
    PROVE  o \in Ahead(c, n)'
<1>1. agenda \in Seq(Work) BY DEF Inv, CallInv
<1>2. \A j \in DOMAIN agenda : j \in Nat /\ (j = 1 \/ (j - 1 \in DOMAIN agenda' /\ agenda'[j - 1] = agenda[j]))
  BY <1>1
<1>3. Head(agenda) = agenda[1] BY <1>1
<1>4. ASSUME NEW i \in CallsOf(c, n), o = agenda[i].old PROVE o \in Ahead(c, n)'
  <2>1. i \in DOMAIN agenda /\ agenda[i].op = "event" /\ agenda[i].ctrl = c /\ agenda[i].node = n BY DEF CallsOf
  <2>2. i # 1 BY <1>3, <1>4
  <2>3. i - 1 \in DOMAIN agenda' /\ agenda'[i - 1] = agenda[i] BY <1>2, <2>1, <2>2
  <2>4. i - 1 \in CallsOf(c, n)' BY <2>1, <2>3 DEF CallsOf
  <2> QED BY <1>4, <2>3, <2>4 DEF Ahead
<1> QED BY <1>4 DEF Ahead

\* An update that c takes for none: it could not tell the two states apart.
LEMMA EqualIsSame ==
    ASSUME NEW c, NEW o \in NodeObject, NEW p \in NodeObject, o # None, p # None,
           SameKind(o, p), AreResourcesEqual(c, o, p)
    PROVE  Same(c, o, p)
<1>1. CASE c = Zone BY <1>1 DEF AreResourcesEqual, Same
<1>2. CASE c # Zone
  <2>1. [o EXCEPT !.noHostSubnet = FALSE] = [p EXCEPT !.noHostSubnet = FALSE] BY <1>2 DEF AreResourcesEqual
  <2>2. o.noHostSubnet = p.noHostSubnet BY DEF SameKind
  <2>3. o = p BY <2>1, <2>2 DEF NodeObject
  <2> QED BY <2>3 DEF Same
<1> QED BY <1>1, <1>2

\* What the deletion of a node does to the allocators.
LEMMA DeletePart ==
    ASSUME Inv, NEW c \in Controllers, NEW n \in Nodes, HandleDeleteNode(c, n)
    PROVE  AllocPart(c, n)
<1>1. CASE c = Zone
  <2>1. UNCHANGED pool /\ ids' = ReleaseID(ids, n) BY <1>1 DEF HandleDeleteNode
  <2>2. \A m \in Nodes : ids'.of[m] # ids.of[m] => m = n BY <2>1, ReleaseIDTakes DEF Inv, IDInv
  <2> QED BY <1>1, <2>1, <2>2 DEF AllocPart
<1>2. CASE c # Zone
  <2>1. c \in Nets /\ pool \in SubnetAllocator BY <1>2 DEF Controllers, Inv, PoolInv
  <2>2. PICK p : p = IF scenario.hybrid /\ c = Default THEN Hybrid ELSE c OBVIOUS
  <2>3. UNCHANGED ids /\ pool' = ReleaseNetworks(pool, p, n, Subnet)
    BY <1>2, <2>2 DEF HandleDeleteNode, ReleaseAllNetworks
  <2>4. p = c \/ (c = Default /\ p = Hybrid) BY <2>2
  <2> QED BY <2>1, <2>3, <2>4, ReleasePart
<1> QED BY <1>1, <1>2

\* The goroutine of events makes its next call.
LEMMA HandleEventAgrees ==
    ASSUME Inv, Inv', LeakInv, AgreeInv, HandleEvent
    PROVE  AgreeInv'
<1>1. agenda # <<>> /\ Head(agenda).op = "event" BY DEF HandleEvent
<1>2. PICK c \in Controllers, n \in Nodes : c = Head(agenda).ctrl /\ n = Head(agenda).node BY <1>1, HeadOfAgenda
<1>3. PICK old, new : old = Head(agenda).old /\ new = Head(agenda).new OBVIOUS
<1>4. thread[c][n].pc = "idle" BY <1>2 DEF HandleEvent
<1>5. UNCHANGED <<api, stream, scenario, cached, queue, started>> BY DEF HandleEvent, CallVars
<1>6. /\ new \in Later(n) /\ SameKind(old, new)
      /\ old \in NodeObject \cup {None} /\ new \in NodeObject \cup {None}
  BY <1>1, <1>2, <1>3, EventAhead
<1>7. Calling(c, n) BY <1>1 DEF Calling
<1>8. Later(n) \subseteq Later(n)' BY <1>5, LaterStays
<1>9. CASE new = None
  <2>1. /\ HandleDeleteNode(c, n) /\ entry' = [entry EXCEPT ![c][n] = None] /\ agenda' = Tail(agenda)
        /\ UNCHANGED thread /\ dropped' = dropped \ {<<c, n>>}
    BY <1>2, <1>3, <1>9 DEF HandleEvent
  <2>2. AllocPart(c, n) BY <2>1, DeletePart
  <2>3. StepPart(c, n) BY <1>1, <1>2, <2>1 DEF StepPart, Inv, CallInv
  <2>4. None \in Ahead(c, n)' BY <1>6, <1>8, <1>9 DEF Ahead
  <2>5. Assured(c, n)' BY <2>4, NoneIsGood
  <2>6. PairOK(c, n)' BY <1>4, <2>1, <2>5, AssuredIsOK
  <2> QED BY <1>5, <1>7, <2>2, <2>3, <2>6, LocalAgrees
<1>10. CASE \E node \in Later(n) : Begin(c, n, node, FALSE)
  <2>1. PICK node \in Later(n) : Begin(c, n, node, FALSE) BY <1>10
  <2> QED BY <1>5, <1>7, <2>1, BeginAgrees
<1>11. CASE /\ new # None /\ old # None /\ (AreResourcesEqual(c, old, new) \/ cached[n].obj = None)
            /\ agenda' = Tail(agenda) /\ UNCHANGED <<thread, entry, dropped, pool, ids>>
  <2>1. StepPart(c, n) BY <1>1, <1>2, <1>11 DEF StepPart
  <2>2. AllocPart(c, n) BY <1>11, NothingTaken
  <2>3. PairOK(c, n)'
    <3>1. thread'[c][n].pc = "idle" BY <1>4, <1>11
    <3>2. CASE cached[n].obj = None
      <4>1. None \in Later(n) BY <3>2, CachedIsLater
      <4>2. None \in Ahead(c, n)' BY <1>8, <4>1 DEF Ahead
      <4>3. Assured(c, n)' BY <4>2, NoneIsGood
      <4> QED BY <3>1, <4>3, AssuredIsOK
    <3>3. CASE AreResourcesEqual(c, old, new)
      <4>1. Same(c, old, new) BY <1>6, <1>11, <3>3, EqualIsSame
      <4>2. new \in Ahead(c, n)' BY <1>6, <1>8 DEF Ahead
      <4>3. ASSUME NEW o \in Ahead(c, n) PROVE \E p \in Ahead(c, n)' : Same(c, o, p)
        <5>1. CASE o = old BY <4>1, <4>2, <5>1
        <5>2. CASE o # old
          <6>1. o \in Ahead(c, n)' BY <1>1, <1>3, <1>8, <1>11, <5>2, PopLoses
          <6> QED BY <6>1 DEF Same
        <5> QED BY <5>1, <5>2
      <4>4. UNCHANGED <<pool, ids, scenario>> BY <1>5, <1>11
      <4>5. Assured(c, n) => Assured(c, n)' BY <4>3, <4>4, AssuredMoves
      <4>6. Agrees(c, n) BY DEF AgreeInv, PairsInv, PairOK
      <4>7. Agrees(c, n)' BY <1>5, <1>11, <4>5, <4>6 DEF Agrees
      <4> QED BY <3>1, <4>7 DEF PairOK
    <3> QED BY <1>11, <3>2, <3>3
  <2> QED BY <1>5, <1>7, <2>1, <2>2, <2>3, LocalAgrees
<1>12. new # None /\ old = None => Begin(c, n, new, FALSE) BY <1>2, <1>3, Zenon DEF HandleEvent
<1>13. ASSUME new # None, old # None
       PROVE  IF AreResourcesEqual(c, old, new) \/ cached[n].obj = None
              THEN agenda' = Tail(agenda) /\ UNCHANGED <<thread, entry, dropped, pool, ids>>
              ELSE Begin(c, n, cached[n].obj, FALSE)
  BY <1>2, <1>3, <1>13 DEF HandleEvent
<1>14. new # None /\ old = None => \E node \in Later(n) : Begin(c, n, node, FALSE) BY <1>6, <1>12
<1>15. new # None /\ old # None /\ ~(AreResourcesEqual(c, old, new) \/ cached[n].obj = None)
           => \E node \in Later(n) : Begin(c, n, node, FALSE)
  BY <1>13, CachedIsLater
<1> QED BY <1>9, <1>10, <1>11, <1>13, <1>14, <1>15

\* What a sync does to the allocators.
LEMMA SyncPart ==
    ASSUME Inv, NEW c \in Nets, NEW n \in Nodes, NEW node \in NodeObject, pool' = SyncNode(pool, c, n, node), UNCHANGED ids
    PROVE  AllocPart(c, n)
<1>1. pool \in SubnetAllocator BY DEF Inv, PoolInv
<1>2. CASE pool' = pool BY <1>2, NothingTaken
<1>3. CASE pool' # pool /\ node.noHostSubnet
  <2>1. PICK p, nets : p = Hybrid /\ nets = node.hybrid OBVIOUS
  <2>2. c = Default /\ pool' = ReleaseNetworks(pool, p, n, nets) BY <1>3, <2>1 DEF SyncNode
  <2> QED BY <1>1, <2>1, <2>2, ReleasePart
<1>4. CASE pool' # pool /\ ~node.noHostSubnet
  <2>1. PICK nets : nets = node.subnets[c] OBVIOUS
  <2>2. (\A s \in nets : CanMark(pool, c, n, s)) /\ pool' = MarkNetworks(pool, n, nets) BY <1>4, <2>1 DEF SyncNode
  <2>3. \A s \in Subnet : pool'.alloc[s] = IF s \in nets THEN n ELSE pool.alloc[s] BY <1>1, <2>2, MarkGives
  <2>4. \A s \in nets : InPool(c, s) /\ pool.alloc[s] \in {None, n} BY <2>2 DEF CanMark
  <2> QED BY <2>3, <2>4, TakePart
<1> QED BY <1>2, <1>3, <1>4

\* A controller syncs with a node, which it will add afterwards.
LEMMA SyncAgrees ==
    ASSUME Inv, Inv', LeakInv, AgreeInv, Sync
    PROVE  AgreeInv'
<1>1. agenda # <<>> /\ Head(agenda).op \in {"sync", "replace"} /\ agenda' = Tail(agenda) BY DEF Sync
<1>2. UNCHANGED <<api, stream, scenario, cached, queue, started>> /\ UNCHANGED <<entry, thread, dropped>> BY DEF Sync
<1>3. PICK c \in Controllers, n \in Nodes : c = Head(agenda).ctrl /\ n = Head(agenda).node BY <1>1, HeadOfAgenda
<1>4. PICK node \in NodeObject : node = Head(agenda).new
  <2>1. Head(agenda) \in Work BY <1>1, HeadOfAgenda
  <2> QED BY <1>1, <2>1 DEF Work
<1>5. AllocPart(c, n)
  <2>1. CASE c = Zone
    <3>1. (ids' = SyncNodeID(ids, n, node) \/ ids' = ReplaceNodeID(ids, n, node)) /\ UNCHANGED pool
      BY <1>3, <1>4, <2>1 DEF Sync
    <3>2. \A m \in Nodes : m # n => ids'.of[m] = ids.of[m]
      BY <3>1, AllocateIDGives DEF SyncNodeID, ReplaceNodeID, Inv, IDInv
    <3> QED BY <2>1, <3>1, <3>2 DEF AllocPart
  <2>2. CASE c # Zone
    <3>1. pool' = SyncNode(pool, c, n, node) /\ UNCHANGED ids BY <1>3, <1>4, <2>2 DEF Sync
    <3>2. c \in Nets BY <2>2 DEF Controllers
    <3> QED BY <3>1, <3>2, SyncPart
  <2> QED BY <2>1, <2>2
<1>6. StepPart(c, n) BY <1>1, <1>2 DEF StepPart
<1>7. agenda \in Seq(Work) BY DEF Inv, CallInv
<1>8. Head(agenda) = agenda[1] /\ 1 \in DOMAIN agenda BY <1>1, <1>7
<1>9. agenda[1].op # "event" BY <1>1, <1>8
<1>10. thread[c][n].pc = "idle" BY <1>3, <1>8, <1>9 DEF AgreeInv, SyncInv
<1>11. PICK j \in DOMAIN agenda : /\ agenda[j].op = "event" /\ agenda[j].ctrl = agenda[1].ctrl
                                  /\ agenda[j].node = agenda[1].node /\ agenda[j].old = None
  BY <1>8, <1>9 DEF AgreeInv, SyncInv
<1>12. j # 1 BY <1>9, <1>11
<1>13. j - 1 \in DOMAIN agenda' /\ agenda'[j - 1] = agenda[j] BY <1>1, <1>7, <1>12
<1>14. None \in Ahead(c, n)'
  <2>1. j - 1 \in CallsOf(c, n)' BY <1>3, <1>8, <1>11, <1>13 DEF CallsOf
  <2> QED BY <1>11, <1>13, <2>1 DEF Ahead
<1>15. Assured(c, n)' BY <1>14, NoneIsGood
<1>16. thread'[c][n].pc = "idle" BY <1>2, <1>10
<1>17. PairOK(c, n)' BY <1>15, <1>16, AssuredIsOK
<1>18. UNCHANGED <<thread, entry>> BY <1>2
<1> QED BY <1>2, <1>5, <1>6, <1>17, <1>18, LocalAgrees

-----------------------------------------------------------------------------
(***************************************************************************)
(* The theorems                                                            *)
(***************************************************************************)

\* At the start no controller has begun.
LEMMA AgreesAtStart == Init => AgreeInv
<1> SUFFICES ASSUME Init PROVE AgreeInv
  OBVIOUS
<1>1. stream = <<>> /\ queue = <<>> /\ agenda = <<>> /\ cached = api /\ started = {} BY DEF Init
<1>2. \A n \in Nodes : Known(n) = {api[n]} BY <1>1 DEF Known
<1>3. VersionsInv
  <2>1. \A n \in Nodes : api[n].rv = 0 BY DEF Init
  <2> QED BY <1>1, <1>2, <2>1 DEF VersionsInv
<1>4. EventsInv /\ SyncInv BY <1>1 DEF EventsInv, SyncInv
<1>5. ASSUME NEW c \in Controllers, NEW n \in Nodes PROVE thread[c][n].pc = "idle"
  <2>1. thread[c][n] = Idle BY DEF Init
  <2> QED BY <2>1 DEF Idle
<1>6. PairsInv BY <1>1, <1>5 DEF PairsInv, PairOK, Agrees
<1> QED BY <1>3, <1>4, <1>6 DEF AgreeInv

\* Every step keeps the invariant.
LEMMA EveryStepAgrees == Inv /\ Inv' /\ LeakInv /\ AgreeInv /\ [Next]_vars => AgreeInv'
<1> SUFFICES ASSUME Inv, Inv', LeakInv, AgreeInv, [Next]_vars PROVE AgreeInv'
  OBVIOUS
<1>1. CASE Environment
  BY <1>1, ChangesAgree, RestartAgrees DEF Environment
<1>2. CASE System
  <2>1. CASE Watch BY <2>1, WatchAgrees
  <2>2. CASE Deliver BY <2>2, DeliverAgrees
  <2>3. CASE Sync BY <2>3, SyncAgrees
  <2>4. CASE HandleEvent BY <2>4, HandleEventAgrees
  <2>5. CASE \E c \in Controllers : Start(c) BY <2>5, StartAgrees
  <2>6. CASE \E n \in Nodes : ZoneAllocate(n) BY <2>6, ZoneAllocateAgrees
  <2>7. ASSUME NEW c \in Controllers, NEW n \in Nodes, Retry(c, n) \/ CallStep(c, n) PROVE AgreeInv'
    BY <2>7, RetryAgrees, SkipAgrees, CheckAgrees, AllocateAgrees,
       ExhaustedAgrees, GetAgrees, UpdateAgrees, PatchAgrees DEF CallStep
  <2> QED BY <1>2, <2>1, <2>2, <2>3, <2>4, <2>5, <2>6, <2>7 DEF System
<1>3. ASSUME NEW c \in Controllers, NEW n \in Nodes, Failure(c, n) PROVE AgreeInv'
  BY <1>3, UpdateFailsAgrees, PatchFailsAgrees DEF Failure
<1>4. CASE UNCHANGED vars
  <2>1. UNCHANGED <<scenario, api, stream, cached, queue, agenda, started, entry, pool, ids, thread, dropped>>
    BY <1>4 DEF vars
  <2>2. VersionsInv' BY <2>1 DEF AgreeInv, VersionsInv, Known
  <2>3. EventsInv' /\ SyncInv' BY <2>1 DEF AgreeInv, EventsInv, SyncInv
  <2>4. ApiGrows BY <2>1, ApiStays
  <2>5. \A n \in Nodes : Later(n) \subseteq Later(n)' BY <2>1, LaterStays
  <2>6. \A c \in started, n \in Nodes : Ahead(c, n) \subseteq Ahead(c, n)' BY <2>1, <2>5, AheadGrows
  <2>7. PairsInv BY DEF AgreeInv
  <2>8. \A c \in Controllers, n \in Nodes : (c \in started' => c \in started) => PairOK(c, n)'
    BY <2>1, <2>4, <2>5, <2>6, <2>7, PairsKept
  <2>9. PairsInv' BY <2>1, <2>8 DEF PairsInv
  <2> QED BY <2>2, <2>3, <2>9 DEF AgreeInv
<1> QED BY <1>1, <1>2, <1>3, <1>4 DEF Next

\* In every reachable state, for any number of nodes, networks, ranges and IDs,
\* any scenario and any bound: of every node a controller is not busy with and
\* has not given up, the state it agrees with, or an event that it will not
\* ignore, is still ahead of it (HandleAddUpdateNodeEvent, AreResourcesEqual and
\* the retry framework together).
THEOREM AgreementIsAhead == Spec => []AgreeInv
<1>1. Init => Inv BY InitOK
<1>2. Inv /\ [Next]_vars => Inv' BY NextOK
<1>3. Init => AgreeInv BY AgreesAtStart
<1>4. Inv /\ Inv' /\ LeakInv /\ AgreeInv /\ [Next]_vars => AgreeInv' BY EveryStepAgrees
<1> QED BY <1>1, <1>2, <1>3, <1>4, DeletionsReachOwners, PTL DEF Spec

\* Once all is quiet, the annotations of every node that was not given up are
\* what the allocators have for it, whatever conflicts, stale reads, lost
\* replies, failures and restarts there were (syncNodeNetworkAnnotations,
\* hybridOverlayNodeEnsureSubnet, handleAddUpdateNodeEvent).
THEOREM Agreement == Spec => []AnnotationsAgree
<1>1. Spec => []Inv BY InitOK, NextOK, PTL DEF Spec
<1>2. Inv /\ AgreeInv => AnnotationsAgree BY RestAgrees
<1> QED BY <1>1, <1>2, AgreementIsAhead, PTL
=============================================================================
