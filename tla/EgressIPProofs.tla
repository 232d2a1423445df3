--------------------------- MODULE EgressIPProofs ---------------------------
(***************************************************************************)
(* Proofs about the assignment of egress IPs: what assignEgressIPs may do, *)
(* and the types of the controller's state.                                *)
(***************************************************************************)
EXTENDS EgressIPCluster, BitmapProofs, FiniteSetTheorems

\* Induction on the natural numbers, for a set of them.
LEMMA InductionOn ==
    ASSUME NEW A, 0 \in A, \A n \in Nat : n \in A => n + 1 \in A
    PROVE  Nat \subseteq A
<1> SUFFICES ASSUME Nat \ A # {} PROVE FALSE OBVIOUS
<1>1. PICK x \in Nat \ A : \A y \in Nat \ A : x <= y
  <2> DEFINE T == Nat \ A
  <2>1. T \subseteq Nat /\ T # {} OBVIOUS
  <2> HIDE DEF T
  <2>2. \E x \in T : \A y \in T : x <= y BY <2>1, SmallestOf
  <2> QED BY <2>2 DEF T
<1>2. x # 0 OBVIOUS
<1>3. x - 1 \in Nat BY <1>2
<1>4. x - 1 \in A BY <1>1, <1>3
<1>5. (x - 1) + 1 \in A BY <1>3, <1>4
<1> QED BY <1>3, <1>5

-----------------------------------------------------------------------------
(***************************************************************************)
(* The loop of assignEgressIPs                                             *)
(***************************************************************************)

CacheType == [Nodes -> EgressNode \cup {None}]

\* The first element of S in a sequence is one of S, if there is any.
LEMMA FirstIsOne ==
    ASSUME NEW order, NEW S, DOMAIN order \subseteq Nat, NEW k \in DOMAIN order, order[k] \in S
    PROVE  First(order, S) \in S
<1> DEFINE T == {i \in DOMAIN order : order[i] \in S}
<1>1. T \subseteq Nat /\ T # {} OBVIOUS
<1>2. PICK i \in T : \A j \in T : i <= j
  <2> HIDE DEF T
  <2> QED BY <1>1, SmallestOf
<1>3. \A j \in DOMAIN order : j < i => order[j] \notin S
  <2> SUFFICES ASSUME NEW j \in DOMAIN order, j < i, order[j] \in S PROVE FALSE OBVIOUS
  <2>1. j \in T OBVIOUS
  <2>2. i \in Nat /\ j \in Nat BY <1>1, <2>1
  <2>3. i <= j BY <1>2, <2>1
  <2> QED BY <2>2, <2>3
<1>4. \E x \in DOMAIN order : order[x] \in S /\ \A j \in DOMAIN order : j < x => order[j] \notin S
  BY <1>2, <1>3
<1> QED BY <1>4 DEF First

\* The states of the loop: the function that AssignLoop defines exists.
LoopStep(c, name, existing, order, seq, f, i) ==
    IF i = 0 THEN [cache |-> c, items |-> {}, nodes |-> Range(order), left |-> order = <<>>]
    ELSE AssignOne(name, existing, order, c, f[i - 1], seq[i])

LEMMA LoopExists ==
    ASSUME NEW c, NEW name, NEW existing, NEW order, NEW seq, NEW m \in Nat
    PROVE  \E f : f = [i \in 0 .. m |-> LoopStep(c, name, existing, order, seq, f, i)]
<1> DEFINE A == {n \in Nat : \E f : f = [i \in 0 .. n |-> LoopStep(c, name, existing, order, seq, f, i)]}
           base == [cache |-> c, items |-> {}, nodes |-> Range(order), left |-> order = <<>>]
<1>1. 0 \in A
  <2> DEFINE f == [i \in 0 .. 0 |-> base]
  <2>1. \A i \in 0 .. 0 : LoopStep(c, name, existing, order, seq, f, i) = base BY DEF LoopStep
  <2> HIDE DEF base
  <2>2. f = [i \in 0 .. 0 |-> LoopStep(c, name, existing, order, seq, f, i)] BY <2>1
  <2> QED BY <2>2
<1>2. ASSUME NEW n \in Nat, n \in A PROVE n + 1 \in A
  <2>1. PICK f : f = [i \in 0 .. n |-> LoopStep(c, name, existing, order, seq, f, i)] BY <1>2
  <2> DEFINE last == AssignOne(name, existing, order, c, f[n], seq[n + 1])
             g == [i \in 0 .. n + 1 |-> IF i = n + 1 THEN last ELSE f[i]]
  <2>2. \A i \in 0 .. n : f[i] = LoopStep(c, name, existing, order, seq, f, i) BY <2>1
  <2>3. ASSUME NEW i \in 0 .. n + 1 PROVE g[i] = LoopStep(c, name, existing, order, seq, g, i)
    <3> HIDE DEF last
    <3>1. CASE i = 0
      <4>1. g[i] = f[i] BY <3>1
      <4>2. f[i] = base
        <5>1. 0 \in 0 .. n OBVIOUS
        <5>2. f[0] = LoopStep(c, name, existing, order, seq, f, 0) BY <2>2, <5>1
        <5> QED BY <3>1, <5>2 DEF LoopStep
      <4>3. LoopStep(c, name, existing, order, seq, g, i) = base BY <3>1 DEF LoopStep
      <4> QED BY <4>1, <4>2, <4>3
    <3>2. CASE i \in 1 .. n
      <4>1. g[i] = f[i] /\ g[i - 1] = f[i - 1] BY <3>2
      <4>2. f[i] = AssignOne(name, existing, order, c, f[i - 1], seq[i]) BY <2>2, <3>2 DEF LoopStep
      <4>3. LoopStep(c, name, existing, order, seq, g, i) = AssignOne(name, existing, order, c, g[i - 1], seq[i])
        BY <3>2 DEF LoopStep
      <4> QED BY <4>1, <4>2, <4>3
    <3>3. CASE i = n + 1
      <4>1. g[i] = last /\ g[i - 1] = f[n] BY <3>3
      <4>2. LoopStep(c, name, existing, order, seq, g, i) = AssignOne(name, existing, order, c, g[i - 1], seq[i])
        BY <3>3 DEF LoopStep
      <4>3. LoopStep(c, name, existing, order, seq, g, i) = last BY <3>3, <4>1, <4>2 DEF last
      <4> QED BY <4>1, <4>3
    <3> QED BY <3>1, <3>2, <3>3
  <2> HIDE DEF last
  <2>4. g = [i \in 0 .. n + 1 |-> LoopStep(c, name, existing, order, seq, g, i)] BY <2>3
  <2>5. \E h : h = [i \in 0 .. n + 1 |-> LoopStep(c, name, existing, order, seq, h, i)]
    <3> HIDE DEF g
    <3> QED BY <2>4
  <2> QED BY <2>5
<1>3. Nat \subseteq A
  <2> HIDE DEF A
  <2>1. \A n \in Nat : n \in A => n + 1 \in A BY <1>2
  <2> QED BY <1>1, <2>1, InductionOn
<1> QED BY <1>3

\* The result of the loop is the last of its states.
LoopRun(c, name, existing, order, seq, f) ==
    /\ f[0] = [cache |-> c, items |-> {}, nodes |-> Range(order), left |-> order = <<>>]
    /\ \A i \in 1 .. Len(seq) : f[i] = AssignOne(name, existing, order, c, f[i - 1], seq[i])
    /\ AssignLoop(c, name, existing, order, seq) = f[Len(seq)]

LEMMA LoopRuns ==
    ASSUME NEW c, NEW name, NEW existing, NEW order, NEW seq, Len(seq) \in Nat
    PROVE  \E f : LoopRun(c, name, existing, order, seq, f)
<1> DEFINE m == Len(seq)
           Def(f) == f = [i \in 0 .. m |-> LoopStep(c, name, existing, order, seq, f, i)]
           run == CHOOSE f : Def(f)
<1>1. \E f : Def(f) BY LoopExists
<1>2. Def(run)
  <2> HIDE DEF Def
  <2> QED BY <1>1
<1>3. AssignLoop(c, name, existing, order, seq) = run[m] BY DEF AssignLoop, LoopStep
<1>4. \A i \in 0 .. m : run[i] = LoopStep(c, name, existing, order, seq, run, i)
  <2> HIDE DEF run
  <2> QED BY <1>2
<1>5. run[0] = [cache |-> c, items |-> {}, nodes |-> Range(order), left |-> order = <<>>]
  <2> HIDE DEF run
  <2>1. 0 \in 0 .. m OBVIOUS
  <2>2. run[0] = LoopStep(c, name, existing, order, seq, run, 0) BY <1>4, <2>1
  <2> QED BY <2>2 DEF LoopStep
<1>6. ASSUME NEW i \in 1 .. m PROVE run[i] = AssignOne(name, existing, order, c, run[i - 1], seq[i])
  <2> HIDE DEF run
  <2>1. i \in 0 .. m /\ i # 0 OBVIOUS
  <2>2. run[i] = LoopStep(c, name, existing, order, seq, run, i) BY <1>4, <2>1
  <2> QED BY <2>1, <2>2 DEF LoopStep
<1>7. LoopRun(c, name, existing, order, seq, run)
  <2> HIDE DEF run
  <2> QED BY <1>3, <1>5, <1>6 DEF LoopRun
<1> HIDE DEF run
<1> QED BY <1>7

\* What is recorded in the cache for an EgressIP, and what is new.
Recorded(c, name, x) == c[x.node] # None /\ c[x.node].allocations[x.ip] = name

Fresh(c, name, items, x) ==
    /\ \A n \in Nodes : c[n] # None => c[n].allocations[x.ip] = None
    /\ IsAssignable(c, x.node) /\ AllocationCount(c, x.node, name) = 0
    /\ \A y \in items : y.node = x.node => y = x

ItemOK(c, name, done, items, x) ==
    /\ x.ip \in done /\ CanHost(nodes[x.node], x.ip) /\ ~AddrConflict(x.ip)
    /\ Recorded(c, name, x) \/ Fresh(c, name, items, x)

\* The invariant of the loop, which has been through the IPs of done.
LoopInv(c, name, order, done, st) ==
    /\ st \in [cache : CacheType, items : SUBSET StatusItem, nodes : SUBSET Range(order), left : BOOLEAN]
    /\ st.cache = AddAssignments(c, name, st.items)
    /\ \A x \in st.items : ItemOK(c, name, done, st.items, x)

LEMMA AddType ==
    ASSUME NEW c \in CacheType, NEW name \in EIPs, NEW items
    PROVE  /\ AddAssignments(c, name, items) \in CacheType
           /\ \A n \in Nodes : (AddAssignments(c, name, items)[n] = None) <=> (c[n] = None)
           /\ \A n \in Nodes, ip \in IPs : c[n] # None =>
                  AddAssignments(c, name, items)[n].allocations[ip] =
                      IF [ip |-> ip, node |-> n] \in items THEN name ELSE c[n].allocations[ip]
<1> DEFINE alloc(n) == [ip \in IPs |-> IF [ip |-> ip, node |-> n] \in items THEN name ELSE c[n].allocations[ip]]
           d == AddAssignments(c, name, items)
<1>1. ASSUME NEW n \in Nodes, c[n] # None
      PROVE  d[n] = [c[n] EXCEPT !.allocations = alloc(n)] /\ alloc(n) \in [IPs -> EIPs \cup {None}]
             /\ d[n] \in EgressNode /\ d[n].allocations = alloc(n)
  <2>1. c[n] \in EgressNode BY <1>1 DEF CacheType
  <2>2. alloc(n) \in [IPs -> EIPs \cup {None}] BY <2>1 DEF EgressNode
  <2>3. d[n] = [c[n] EXCEPT !.allocations = alloc(n)] BY <1>1 DEF AddAssignments
  <2> HIDE DEF alloc, d
  <2>4. d[n] \in EgressNode /\ d[n].allocations = alloc(n) BY <2>1, <2>2, <2>3 DEF EgressNode
  <2> QED BY <2>2, <2>3, <2>4
<1>2. ASSUME NEW n \in Nodes, c[n] = None PROVE d[n] = None BY <1>2 DEF AddAssignments
<1>3. d = [n \in Nodes |-> d[n]] BY DEF AddAssignments
<1>4. None \notin EgressNode BY ConstantsTyped
<1> HIDE DEF d
<1>5. d \in CacheType
  <2>1. \A n \in Nodes : d[n] \in EgressNode \cup {None} BY <1>1, <1>2
  <2> QED BY <1>3, <2>1 DEF CacheType
<1>6. \A n \in Nodes : (d[n] = None) <=> (c[n] = None) BY <1>1, <1>2, <1>4
<1>7. \A n \in Nodes, ip \in IPs : c[n] # None =>
         d[n].allocations[ip] = IF [ip |-> ip, node |-> n] \in items THEN name ELSE c[n].allocations[ip]
  <2> SUFFICES ASSUME NEW n \in Nodes, NEW ip \in IPs, c[n] # None
               PROVE  d[n].allocations[ip] = IF [ip |-> ip, node |-> n] \in items THEN name ELSE c[n].allocations[ip]
    OBVIOUS
  <2>1. d[n].allocations = alloc(n) BY <1>1
  <2>2. alloc(n)[ip] = IF [ip |-> ip, node |-> n] \in items THEN name ELSE c[n].allocations[ip] OBVIOUS
  <2> HIDE DEF alloc
  <2> QED BY <2>1, <2>2
<1> QED BY <1>5, <1>6, <1>7 DEF d

\* The cache with more assignments.
LEMMA AddNone ==
    ASSUME NEW c \in CacheType, NEW name \in EIPs
    PROVE  AddAssignments(c, name, {}) = c
<1>1. ASSUME NEW n \in Nodes, c[n] # None PROVE AddAssignments(c, name, {})[n] = c[n]
  <2>1. c[n] \in EgressNode BY <1>1 DEF CacheType
  <2>2. AddAssignments(c, name, {})[n] = [c[n] EXCEPT !.allocations = [ip \in IPs |-> c[n].allocations[ip]]]
    BY <1>1 DEF AddAssignments
  <2>3. [ip \in IPs |-> c[n].allocations[ip]] = c[n].allocations BY <2>1 DEF EgressNode
  <2> QED BY <2>1, <2>2, <2>3 DEF EgressNode
<1>2. ASSUME NEW n \in Nodes, c[n] = None PROVE AddAssignments(c, name, {})[n] = c[n] BY <1>2 DEF AddAssignments
<1>3. AddAssignments(c, name, {}) = [n \in Nodes |-> AddAssignments(c, name, {})[n]] BY DEF AddAssignments
<1> QED BY <1>1, <1>2, <1>3 DEF CacheType

LEMMA AddMore ==
    ASSUME NEW c \in CacheType, NEW name \in EIPs, NEW items, NEW more
    PROVE  AddAssignments(AddAssignments(c, name, items), name, more) = AddAssignments(c, name, items \cup more)
<1> DEFINE d == AddAssignments(c, name, items)
           e == AddAssignments(d, name, more)
           g == AddAssignments(c, name, items \cup more)
<1>1. d \in CacheType /\ \A n \in Nodes : (d[n] = None) <=> (c[n] = None) BY AddType
<1>2. ASSUME NEW n \in Nodes, c[n] # None PROVE e[n] = g[n]
  <2> DEFINE a1 == [ip \in IPs |-> IF [ip |-> ip, node |-> n] \in items THEN name ELSE c[n].allocations[ip]]
             a2 == [ip \in IPs |-> IF [ip |-> ip, node |-> n] \in more THEN name ELSE d[n].allocations[ip]]
             a3 == [ip \in IPs |-> IF [ip |-> ip, node |-> n] \in items \cup more THEN name ELSE c[n].allocations[ip]]
  <2>1. c[n] \in EgressNode BY <1>2 DEF CacheType
  <2>2. d[n] = [c[n] EXCEPT !.allocations = a1] BY <1>2 DEF AddAssignments
  <2>3. e[n] = [d[n] EXCEPT !.allocations = a2] BY <1>1, <1>2 DEF AddAssignments
  <2>4. g[n] = [c[n] EXCEPT !.allocations = a3] BY <1>2 DEF AddAssignments
  <2>5. d[n].allocations = a1
    <3> HIDE DEF d, a1
    <3> QED BY <2>1, <2>2 DEF EgressNode
  <2>6. a2 = a3
    <3> HIDE DEF d
    <3> QED BY <2>5
  <2> HIDE DEF d, e, g, a1, a2, a3
  <2> QED BY <2>1, <2>2, <2>3, <2>4, <2>6 DEF EgressNode
<1>3. ASSUME NEW n \in Nodes, c[n] = None PROVE e[n] = g[n] BY <1>1, <1>3 DEF AddAssignments
<1>4. e = [n \in Nodes |-> e[n]] /\ g = [n \in Nodes |-> g[n]] BY DEF AddAssignments
<1> HIDE DEF e, g
<1>5. e = g BY <1>2, <1>3, <1>4
<1> QED BY <1>5 DEF e, g

\* What is recorded already is not changed.
LEMMA AddRecorded ==
    ASSUME NEW c \in CacheType, NEW name \in EIPs, NEW items, NEW x \in StatusItem, Recorded(c, name, x)
    PROVE  AddAssignments(c, name, items \cup {x}) = AddAssignments(c, name, items)
<1> DEFINE d == AddAssignments(c, name, items)
           e == AddAssignments(c, name, items \cup {x})
<1>1. ASSUME NEW n \in Nodes, c[n] # None PROVE d[n] = e[n]
  <2> DEFINE a1 == [ip \in IPs |-> IF [ip |-> ip, node |-> n] \in items THEN name ELSE c[n].allocations[ip]]
             a2 == [ip \in IPs |-> IF [ip |-> ip, node |-> n] \in items \cup {x} THEN name ELSE c[n].allocations[ip]]
  <2>1. ASSUME NEW ip \in IPs, [ip |-> ip, node |-> n] = x PROVE c[n].allocations[ip] = name
    <3>1. x.ip = ip /\ x.node = n BY <2>1
    <3> QED BY <3>1 DEF Recorded
  <2>2. a1 = a2 BY <2>1
  <2>3. d[n] = [c[n] EXCEPT !.allocations = a1] /\ e[n] = [c[n] EXCEPT !.allocations = a2]
    BY <1>1 DEF AddAssignments
  <2> HIDE DEF a1, a2, d, e
  <2> QED BY <2>2, <2>3
<1>2. ASSUME NEW n \in Nodes, c[n] = None PROVE d[n] = e[n] BY <1>2 DEF AddAssignments
<1>3. d = [n \in Nodes |-> d[n]] /\ e = [n \in Nodes |-> e[n]] BY DEF AddAssignments
<1> HIDE DEF d, e
<1>4. d = e BY <1>1, <1>2, <1>3
<1> QED BY <1>4 DEF d, e

\* A node with no IP of an EgressIP.
LEMMA NoneCounted ==
    ASSUME NEW c, NEW n, NEW name
    PROVE  AllocationCount(c, n, name) = 0 <=> \A ip \in IPs : c[n].allocations[ip] # name
<1> DEFINE S == {ip \in IPs : c[n].allocations[ip] = name}
<1>1. IsFiniteSet(S) BY ConstantsTyped, FS_Subset
<1>2. Cardinality(S) = 0 <=> S = {}
  <2> HIDE DEF S
  <2> QED BY <1>1, FS_EmptySet
<1> QED BY <1>2 DEF AllocationCount

LEMMA LoopStarts ==
    ASSUME NEW c \in CacheType, NEW name \in EIPs, NEW order
    PROVE  LoopInv(c, name, order, {}, [cache |-> c, items |-> {}, nodes |-> Range(order), left |-> order = <<>>])
BY AddNone DEF LoopInv

\* Assignments are not disturbed by later ones on other nodes.
LEMMA ItemKept ==
    ASSUME NEW c, NEW name, NEW done, NEW items, NEW y \in items, NEW x, NEW ip,
           ItemOK(c, name, done, items, y), Fresh(c, name, items, y) => x.node # y.node
    PROVE  ItemOK(c, name, done \cup {ip}, items \cup {x}, y)
<1>1. Fresh(c, name, items, y) => Fresh(c, name, items \cup {x}, y) BY DEF Fresh
<1> QED BY <1>1 DEF ItemOK

\* One turn of the loop.
Turn(c, name, order, existing, done, st, ip) ==
    /\ c \in CacheType /\ name \in EIPs /\ ip \in IPs
    /\ DOMAIN order \subseteq Nat /\ Range(order) \subseteq {n \in Nodes : IsAssignable(c, n)}
    /\ existing \in ExistingAllocations(c)
    /\ LoopInv(c, name, order, done, st)

LEMMA TurnLeaves ==
    ASSUME NEW c, NEW name, NEW order, NEW existing, NEW done, NEW st, NEW ip,
           Turn(c, name, order, existing, done, st, ip), NEW new,
           new \in [cache : CacheType, items : SUBSET StatusItem, nodes : SUBSET Range(order), left : BOOLEAN],
           new.cache = st.cache, new.items = st.items
    PROVE  LoopInv(c, name, order, done \cup {ip}, new)
<1>1. \A x \in st.items : ItemOK(c, name, done \cup {ip}, st.items, x) BY DEF Turn, LoopInv, ItemOK
<1> QED BY <1>1 DEF Turn, LoopInv

LEMMA TurnFinds ==
    ASSUME NEW c, NEW name, NEW order, NEW existing, NEW done, NEW st, NEW ip,
           Turn(c, name, order, existing, done, st, ip), NEW n \in Nodes,
           c[n] # None, c[n].allocations[ip] = name, CanHost(nodes[n], ip), ~AddrConflict(ip)
    PROVE  LoopInv(c, name, order, done \cup {ip}, [st EXCEPT !.items = @ \cup {[ip |-> ip, node |-> n]}])
<1> DEFINE x == [ip |-> ip, node |-> n]
           new == [st EXCEPT !.items = @ \cup {x}]
<1>1. /\ c \in CacheType /\ name \in EIPs /\ ip \in IPs /\ LoopInv(c, name, order, done, st)
  BY DEF Turn
<1>2. st \in [cache : CacheType, items : SUBSET StatusItem, nodes : SUBSET Range(order), left : BOOLEAN]
  BY <1>1 DEF LoopInv
<1>3. x \in StatusItem /\ x.ip = ip /\ x.node = n BY <1>1 DEF StatusItem
<1>4. Recorded(c, name, x) BY <1>3 DEF Recorded
<1> HIDE DEF x
<1>5. /\ new \in [cache : CacheType, items : SUBSET StatusItem, nodes : SUBSET Range(order), left : BOOLEAN]
      /\ new.cache = st.cache /\ new.items = st.items \cup {x}
  BY <1>2, <1>3
<1>6. new.cache = AddAssignments(c, name, new.items)
  <2>1. AddAssignments(c, name, st.items \cup {x}) = AddAssignments(c, name, st.items)
    BY <1>1, <1>3, <1>4, AddRecorded
  <2> QED BY <1>1, <1>5, <2>1 DEF LoopInv
<1>7. ItemOK(c, name, done \cup {ip}, new.items, x) BY <1>3, <1>4 DEF ItemOK
<1>8. ASSUME NEW y \in st.items PROVE ItemOK(c, name, done \cup {ip}, new.items, y)
  <2>1. ItemOK(c, name, done, st.items, y) BY <1>1 DEF LoopInv
  <2>2. ASSUME Fresh(c, name, st.items, y), x.node = y.node PROVE FALSE
    <3>1. AllocationCount(c, n, name) = 0 BY <1>3, <2>2 DEF Fresh
    <3> QED BY <1>1, <3>1, NoneCounted
  <2>3. ItemOK(c, name, done \cup {ip}, st.items \cup {x}, y) BY <2>1, <2>2, ItemKept
  <2> QED BY <1>5, <2>3
<1>9. LoopInv(c, name, order, done \cup {ip}, new)
  <2> HIDE DEF new
  <2> QED BY <1>5, <1>6, <1>7, <1>8 DEF LoopInv
<1> QED BY <1>9 DEF x

LEMMA TurnAssigns ==
    ASSUME NEW c, NEW name, NEW order, NEW existing, NEW done, NEW st, NEW ip,
           Turn(c, name, order, existing, done, st, ip), NEW S, S \subseteq st.nodes, NEW n \in S,
           AllocationCount(st.cache, n, name) = 0, CanHost(nodes[n], ip), ~AddrConflict(ip), existing[ip] = None
    PROVE  LoopInv(c, name, order, done \cup {ip},
                   [st EXCEPT !.nodes = S, !.items = @ \cup {[ip |-> ip, node |-> n]},
                              !.cache = AddAssignments(@, name, {[ip |-> ip, node |-> n]})])
<1> DEFINE x == [ip |-> ip, node |-> n]
           new == [st EXCEPT !.nodes = S, !.items = @ \cup {x}, !.cache = AddAssignments(@, name, {x})]
<1>1. /\ c \in CacheType /\ name \in EIPs /\ ip \in IPs /\ LoopInv(c, name, order, done, st)
      /\ Range(order) \subseteq {m \in Nodes : IsAssignable(c, m)}
      /\ existing \in ExistingAllocations(c)
  BY DEF Turn
<1>2. st \in [cache : CacheType, items : SUBSET StatusItem, nodes : SUBSET Range(order), left : BOOLEAN]
  BY <1>1 DEF LoopInv
<1>3. n \in Nodes /\ IsAssignable(c, n) BY <1>1, <1>2
<1>4. x \in StatusItem /\ x.ip = ip /\ x.node = n BY <1>1, <1>3 DEF StatusItem
<1>5. AddAssignments(st.cache, name, {x}) \in CacheType BY <1>1, <1>2, AddType
<1>6. /\ new \in [cache : CacheType, items : SUBSET StatusItem, nodes : SUBSET Range(order), left : BOOLEAN]
      /\ new.cache = AddAssignments(st.cache, name, {x}) /\ new.items = st.items \cup {x}
  <2> HIDE DEF x
  <2> QED BY <1>2, <1>4, <1>5
<1>7. new.cache = AddAssignments(c, name, new.items)
  <2> HIDE DEF x
  <2>1. st.cache = AddAssignments(c, name, st.items) BY <1>1 DEF LoopInv
  <2> QED BY <1>1, <1>6, <2>1, AddMore
<1>8. \A i \in IPs : [ip |-> i, node |-> n] \notin st.items /\ c[n].allocations[i] # name
  <2>1. st.cache = AddAssignments(c, name, st.items) BY <1>1 DEF LoopInv
  <2>2. \A i \in IPs : st.cache[n].allocations[i] # name BY NoneCounted
  <2>3. c[n] # None BY <1>3 DEF IsAssignable
  <2>4. \A i \in IPs : st.cache[n].allocations[i] =
            IF [ip |-> i, node |-> n] \in st.items THEN name ELSE c[n].allocations[i]
    BY <1>1, <1>3, <2>1, <2>3, AddType
  <2> QED BY <2>2, <2>4
<1>9. \A y \in st.items : y.node # n
  <2> SUFFICES ASSUME NEW y \in st.items, y.node = n PROVE FALSE OBVIOUS
  <2>1. y \in StatusItem BY <1>2
  <2>2. y = [ip |-> y.ip, node |-> n] /\ y.ip \in IPs BY <2>1 DEF StatusItem
  <2> QED BY <1>8, <2>2
<1>10. \A m \in Nodes : c[m] # None => c[m].allocations[ip] = None
  <2>1. existing \in [IPs -> Nodes \cup {None}] BY <1>1 DEF ExistingAllocations
  <2> DEFINE on == {m \in Nodes : c[m] # None /\ c[m].allocations[ip] # None}
  <2>2. IF on = {} THEN existing[ip] = None ELSE existing[ip] \in on BY <1>1 DEF ExistingAllocations
  <2>3. None \notin on BY ConstantsTyped
  <2> QED BY <2>2, <2>3
<1> HIDE DEF x
<1>11. Fresh(c, name, new.items, x)
  <2>1. AllocationCount(c, n, name) = 0 BY <1>8, NoneCounted
  <2> QED BY <1>3, <1>4, <1>6, <1>9, <1>10, <2>1 DEF Fresh
<1>12. ItemOK(c, name, done \cup {ip}, new.items, x) BY <1>4, <1>11 DEF ItemOK
<1>13. ASSUME NEW y \in st.items PROVE ItemOK(c, name, done \cup {ip}, new.items, y)
  <2>1. ItemOK(c, name, done, st.items, y) BY <1>1 DEF LoopInv
  <2>2. ItemOK(c, name, done \cup {ip}, st.items \cup {x}, y) BY <1>4, <1>9, <2>1, ItemKept
  <2> QED BY <1>6, <2>2
<1>14. LoopInv(c, name, order, done \cup {ip}, new)
  <2> HIDE DEF new
  <2> QED BY <1>6, <1>7, <1>12, <1>13 DEF LoopInv
<1> QED BY <1>14 DEF x

LEMMA LoopTurns ==
    ASSUME NEW c, NEW name, NEW order, NEW existing, NEW done, NEW st, NEW ip,
           Turn(c, name, order, existing, done, st, ip)
    PROVE  LoopInv(c, name, order, done \cup {ip}, AssignOne(name, existing, order, c, st, ip))
<1> DEFINE n0     == existing[ip]
           narrow == {n \in st.nodes : OnSecondaryNetwork(nodes[n], ip)}
           cand   == IF narrow # {} THEN narrow ELSE st.nodes
           fits   == Fits(st.cache, name, cand, ip)
           n1     == First(order, fits)
           new    == AssignOne(name, existing, order, c, st, ip)
<1>1. /\ c \in CacheType /\ name \in EIPs /\ ip \in IPs /\ LoopInv(c, name, order, done, st)
      /\ DOMAIN order \subseteq Nat /\ existing \in ExistingAllocations(c)
  BY DEF Turn
<1>2. st \in [cache : CacheType, items : SUBSET StatusItem, nodes : SUBSET Range(order), left : BOOLEAN]
  BY <1>1 DEF LoopInv
<1>3. cand \subseteq st.nodes OBVIOUS
<1>4. CASE st.left \/ AddrConflict(ip)
  <2>1. new = [st EXCEPT !.left = TRUE] BY <1>4 DEF AssignOne
  <2> HIDE DEF new
  <2>2. /\ new \in [cache : CacheType, items : SUBSET StatusItem, nodes : SUBSET Range(order), left : BOOLEAN]
        /\ new.cache = st.cache /\ new.items = st.items
    BY <1>2, <2>1
  <2>3. LoopInv(c, name, order, done \cup {ip}, new) BY <2>2, TurnLeaves
  <2> QED BY <2>3 DEF new
<1>5. CASE ~(st.left \/ AddrConflict(ip)) /\ n0 # None
  <2>1. n0 \in Nodes /\ c[n0] # None
    <3> DEFINE on == {m \in Nodes : c[m] # None /\ c[m].allocations[ip] # None}
    <3>1. IF on = {} THEN existing[ip] = None ELSE existing[ip] \in on BY <1>1 DEF ExistingAllocations
    <3> QED BY <1>5, <3>1
  <2>2. CASE c[n0].allocations[ip] # name
    <3>1. new = [st EXCEPT !.left = TRUE] BY <1>5, <2>2 DEF AssignOne
    <3> HIDE DEF new
    <3>2. /\ new \in [cache : CacheType, items : SUBSET StatusItem, nodes : SUBSET Range(order), left : BOOLEAN]
          /\ new.cache = st.cache /\ new.items = st.items
      BY <1>2, <3>1
    <3>3. LoopInv(c, name, order, done \cup {ip}, new) BY <3>2, TurnLeaves
    <3> QED BY <3>3 DEF new
  <2>3. CASE c[n0].allocations[ip] = name /\ CanHost(nodes[n0], ip)
    <3>1. new = [st EXCEPT !.items = @ \cup {[ip |-> ip, node |-> n0]}] BY <1>5, <2>3 DEF AssignOne
    <3> HIDE DEF n0
    <3>2. LoopInv(c, name, order, done \cup {ip}, [st EXCEPT !.items = @ \cup {[ip |-> ip, node |-> n0]}])
      BY <1>5, <2>1, <2>3, TurnFinds
    <3> QED BY <3>1, <3>2
  <2>4. CASE c[n0].allocations[ip] = name /\ ~CanHost(nodes[n0], ip)
    <3>1. new = st BY <1>5, <2>4 DEF AssignOne
    <3>2. LoopInv(c, name, order, done \cup {ip}, st) BY <1>2, TurnLeaves
    <3> QED BY <3>1, <3>2
  <2> QED BY <2>2, <2>3, <2>4
<1>6. CASE ~(st.left \/ AddrConflict(ip)) /\ n0 = None /\ fits = {}
  <2>1. new = [st EXCEPT !.nodes = cand] BY <1>6 DEF AssignOne
  <2> HIDE DEF new, cand
  <2>2. /\ new \in [cache : CacheType, items : SUBSET StatusItem, nodes : SUBSET Range(order), left : BOOLEAN]
        /\ new.cache = st.cache /\ new.items = st.items
    BY <1>2, <1>3, <2>1
  <2>3. LoopInv(c, name, order, done \cup {ip}, new) BY <2>2, TurnLeaves
  <2> QED BY <2>3 DEF new
<1>7. CASE ~(st.left \/ AddrConflict(ip)) /\ n0 = None /\ fits # {}
  <2>1. new = [st EXCEPT !.nodes = cand, !.items = @ \cup {[ip |-> ip, node |-> n1]},
                         !.cache = AddAssignments(@, name, {[ip |-> ip, node |-> n1]})]
    BY <1>7 DEF AssignOne
  <2>2. fits \subseteq cand
        /\ \A n \in fits : AllocationCount(st.cache, n, name) = 0 /\ CanHost(nodes[n], ip)
    BY DEF Fits
  <2>3. n1 \in fits
    <3> HIDE DEF fits, cand
    <3>1. PICK n : n \in fits BY <1>7
    <3>2. n \in Range(order) BY <1>2, <1>3, <2>2, <3>1
    <3>3. PICK k \in DOMAIN order : order[k] = n BY <3>2 DEF Range
    <3> QED BY <1>1, <3>1, <3>3, FirstIsOne
  <2> HIDE DEF cand, fits, n1, new
  <2>4. n1 \in cand BY <2>2, <2>3
  <2>5. AllocationCount(st.cache, n1, name) = 0 /\ CanHost(nodes[n1], ip) BY <2>2, <2>3
  <2>6. existing[ip] = None /\ ~AddrConflict(ip) BY <1>7
  <2>7. LoopInv(c, name, order, done \cup {ip},
                [st EXCEPT !.nodes = cand, !.items = @ \cup {[ip |-> ip, node |-> n1]},
                           !.cache = AddAssignments(@, name, {[ip |-> ip, node |-> n1]})])
    BY <1>3, <2>4, <2>5, <2>6, TurnAssigns
  <2>8. LoopInv(c, name, order, done \cup {ip}, new) BY <2>1, <2>7
  <2> QED BY <2>8 DEF new
<1> QED BY <1>4, <1>5, <1>6, <1>7

\* Sequences of all elements of a finite set.
LEMMA SequencesOf ==
    ASSUME NEW S, IsFiniteSet(S), NEW s \in SetToSeqs(S)
    PROVE  s \in Seq(S) /\ Len(s) = Cardinality(S) /\ Len(s) \in Nat /\ DOMAIN s = 1 .. Len(s)
<1>1. Cardinality(S) \in Nat BY FS_CardinalityType
<1>2. s \in [1 .. Cardinality(S) -> S] BY DEF SetToSeqs
<1> HIDE DEF SetToSeqs
<1> QED BY <1>1, <1>2

\* What assignEgressIPs returns is what the cache records of it, and satisfies
\* the constraints on assignments.
LEMMA AssignmentSound ==
    ASSUME NEW c \in CacheType, NEW name \in EIPs, NEW ips \in SUBSET IPs, NEW r \in AssignEgressIPs(c, name, ips)
    PROVE  /\ r.cache \in CacheType /\ r.items \in SUBSET StatusItem
           /\ r.cache = AddAssignments(c, name, r.items)
           /\ \A x \in r.items : ItemOK(c, name, ips, r.items, x)
<1>1. PICK order \in SortedNodes(c), existing \in ExistingAllocations(c), seq \in SetToSeqs(ips) :
         r = AssignLoop(c, name, existing, order, seq)
  BY DEF AssignEgressIPs
<1>2. IsFiniteSet(ips) BY ConstantsTyped, FS_Subset
<1>3. seq \in Seq(ips) /\ Len(seq) \in Nat BY <1>2, SequencesOf
<1>4. DOMAIN order \subseteq Nat /\ Range(order) \subseteq {n \in Nodes : IsAssignable(c, n)}
  <2> DEFINE N == {n \in Nodes : IsAssignable(c, n)}
  <2>1. order \in SetToSeqs(N) BY DEF SortedNodes
  <2>2. IsFiniteSet(N) BY ConstantsTyped, FS_Subset
  <2> HIDE DEF N
  <2>3. order \in Seq(N) /\ Len(order) \in Nat /\ DOMAIN order = 1 .. Len(order) BY <2>1, <2>2, SequencesOf
  <2>4. Range(order) \subseteq N BY <2>3 DEF Range
  <2> QED BY <2>3, <2>4 DEF N
<1>5. PICK f : LoopRun(c, name, existing, order, seq, f)
  <2>1. Len(seq) \in Nat BY <1>3
  <2> QED BY <2>1, LoopRuns
<1> DEFINE done(i) == {seq[j] : j \in 1 .. i}
           A == {i \in Nat : i <= Len(seq) => LoopInv(c, name, order, done(i), f[i])}
<1>6. 0 \in A
  <2>1. done(0) = {} OBVIOUS
  <2>2. LoopInv(c, name, order, {}, f[0]) BY <1>5, LoopStarts DEF LoopRun
  <2> QED BY <2>1, <2>2
<1>7. ASSUME NEW i \in Nat, i \in A PROVE i + 1 \in A
  <2> SUFFICES ASSUME i + 1 <= Len(seq) PROVE LoopInv(c, name, order, done(i + 1), f[i + 1]) OBVIOUS
  <2>1. LoopInv(c, name, order, done(i), f[i]) BY <1>3, <1>7
  <2>2. i + 1 \in 1 .. Len(seq) /\ (i + 1) - 1 = i BY <1>3
  <2>3. f[i + 1] = AssignOne(name, existing, order, c, f[i], seq[i + 1]) BY <1>5, <2>2 DEF LoopRun
  <2>4. seq[i + 1] \in ips BY <1>3, <2>2
  <2>5. done(i + 1) = done(i) \cup {seq[i + 1]} BY <1>3, <2>2
  <2> HIDE DEF done
  <2>6. Turn(c, name, order, existing, done(i), f[i], seq[i + 1]) BY <1>4, <2>1, <2>4 DEF Turn
  <2>7. LoopInv(c, name, order, done(i) \cup {seq[i + 1]}, AssignOne(name, existing, order, c, f[i], seq[i + 1]))
    BY <2>6, LoopTurns
  <2> QED BY <2>3, <2>5, <2>7
<1>8. Len(seq) \in A
  <2> HIDE DEF A
  <2>1. \A i \in Nat : i \in A => i + 1 \in A BY <1>7
  <2>2. Nat \subseteq A BY <1>6, <2>1, InductionOn
  <2> QED BY <1>3, <2>2
<1>9. LoopInv(c, name, order, done(Len(seq)), r) BY <1>1, <1>3, <1>5, <1>8 DEF LoopRun
<1>10. done(Len(seq)) \subseteq ips BY <1>3
<1> HIDE DEF done
<1>11. \A x \in r.items : ItemOK(c, name, ips, r.items, x) BY <1>9, <1>10 DEF LoopInv, ItemOK
<1> QED BY <1>9, <1>11 DEF LoopInv

-----------------------------------------------------------------------------
(***************************************************************************)
(* The types of the controller's state                                     *)
(*                                                                         *)
(* A handler looks into the objects it is called with, so that the types   *)
(* depend on what the events of an object and its retry entry can lead to: *)
(* of two versions of an object that follow one another, at least one is   *)
(* there, and the last one is the one in the API server.                   *)
(***************************************************************************)

ObjectOf(k) == IF k \in Nodes THEN NodeObject ELSE EIPObject

VersionOf(k) == ObjectOf(k) \cup {None}

\* The calls the retry framework makes for an object.
OpOf(k) ==
    {o \in Op : \/ o.op = "add" /\ o.old = None /\ o.new \in ObjectOf(k)
                \/ o.op = "update" /\ o.old \in ObjectOf(k) /\ o.new \in ObjectOf(k)
                \/ o.op = "delete" /\ o.old \in ObjectOf(k) /\ o.new = None}

EntryOf(k) == [oldObj : VersionOf(k), config : VersionOf(k), newObj : BOOLEAN]

\* reconcileEgressIP is called with an object.
CallOf == {c \in Call : c.old # None \/ c.new # None}

LastVersion(queue, last) == IF queue = <<>> THEN last ELSE queue[Len(queue)]

VersionsOK(k, queue, last, latest) ==
    /\ queue \in Seq(VersionOf(k)) /\ last \in VersionOf(k)
    /\ LastVersion(queue, last) = latest
    /\ queue # <<>> => last # None \/ queue[1] # None
    /\ \A i \in 1 .. Len(queue) - 1 : queue[i] # None \/ queue[i + 1] # None

ThreadOK(t, th) ==
    /\ th \in ThreadState
    /\ th.pc # "idle" /\ t # Loop => th.ops \in Seq(OpOf(t)) /\ th.ops # <<>>
    /\ th.pc = "list" => th.jobs # <<>>
    /\ th.calls \subseteq CallOf
    /\ th.pc \in {"assign", "keep", "patch"} => th.call \in CallOf

ObjectsInv ==
    /\ nodes \in [Nodes -> NodeObject \cup {None}]
    /\ eips \in [EIPs -> EIPObject \cup {None}]
    /\ reach \in [Nodes -> BOOLEAN]
    /\ scenario \in Scenarios /\ changes \in Nat /\ failures \in Nat /\ restarts \in Nat

VersionsInv ==
    /\ DOMAIN events = Workers /\ DOMAIN seen = Workers
    /\ \A k \in Workers : VersionsOK(k, events[k], seen[k], Latest(k))

EntriesInv == DOMAIN entry = Workers /\ \A k \in Workers : entry[k] \in EntryOf(k)

ThreadsInv == DOMAIN thread = Threads /\ \A t \in Threads : ThreadOK(t, thread[t])

CacheInv == cache \in CacheType

MutexInv == mutex \in Threads \cup {None}

InitialInv == initial \subseteq Nodes

\* The inductive invariant.
TypeInv ==
    ObjectsInv /\ VersionsInv /\ EntriesInv /\ ThreadsInv /\ CacheInv /\ MutexInv /\ InitialInv

LEMMA TypeInvType == ASSUME TypeInv PROVE TypeOK
<1> USE DEF TypeInv
<1>1. nodes \in [Nodes -> NodeObject \cup {None}] /\ eips \in [EIPs -> EIPObject \cup {None}]
      /\ reach \in [Nodes -> BOOLEAN] /\ scenario \in Scenarios
      /\ changes \in Nat /\ failures \in Nat /\ restarts \in Nat
  BY DEF ObjectsInv
<1>2. ASSUME NEW k \in Workers PROVE events[k] \in Seq(Object) /\ seen[k] \in Object /\ entry[k] \in Entry
  <2>1. VersionOf(k) \subseteq Object BY DEF VersionOf, ObjectOf, Object
  <2>2. events[k] \in Seq(VersionOf(k)) /\ seen[k] \in VersionOf(k) BY DEF VersionsInv, VersionsOK
  <2>3. entry[k] \in EntryOf(k) BY DEF EntriesInv
  <2> HIDE DEF TypeInv
  <2>4. entry[k] \in Entry BY <2>1, <2>3 DEF EntryOf, Entry
  <2>5. events[k] \in Seq(Object) BY <2>1, <2>2
  <2> QED BY <2>1, <2>2, <2>4, <2>5
<1>3. initial \subseteq Nodes /\ cache \in [Nodes -> EgressNode \cup {None}] /\ mutex \in Threads \cup {None}
  BY DEF InitialInv, CacheInv, CacheType, MutexInv
<1>4. \A t \in Threads : thread[t] \in ThreadState BY DEF ThreadsInv, ThreadOK
<1> HIDE DEF TypeInv
<1> QED BY <1>1, <1>2, <1>3, <1>4 DEF TypeOK

LEMMA IdleOK == ASSUME NEW t PROVE ThreadOK(t, Idle)
<1>1. Idle \in ThreadState BY DEF Idle, ThreadState
<1> QED BY <1>1 DEF ThreadOK, Idle

LEMMA ThreadsSet ==
    ASSUME ThreadsInv, NEW t \in Threads, NEW th, ThreadOK(t, th), thread' = [thread EXCEPT ![t] = th]
    PROVE  ThreadsInv'
<1>1. DOMAIN thread' = Threads BY DEF ThreadsInv
<1>2. ASSUME NEW u \in Threads PROVE ThreadOK(u, thread'[u])
  <2>1. CASE u = t
    <3>1. thread'[u] = th BY <2>1 DEF ThreadsInv
    <3> QED BY <2>1, <3>1
  <2>2. CASE u # t
    <3>1. thread'[u] = thread[u] BY <2>2 DEF ThreadsInv
    <3> QED BY <3>1 DEF ThreadsInv
  <2> QED BY <2>1, <2>2
<1> QED BY <1>1, <1>2 DEF ThreadsInv

LEMMA EntriesSet ==
    ASSUME EntriesInv, NEW k \in Workers, NEW e \in EntryOf(k), entry' = [entry EXCEPT ![k] = e]
    PROVE  EntriesInv'
<1>1. DOMAIN entry' = Workers BY DEF EntriesInv
<1>2. ASSUME NEW j \in Workers PROVE entry'[j] \in EntryOf(j)
  <2>1. CASE j = k
    <3>1. entry'[j] = e BY <2>1 DEF EntriesInv
    <3> QED BY <2>1, <3>1
  <2>2. CASE j # k
    <3>1. entry'[j] = entry[j] BY <2>2 DEF EntriesInv
    <3> QED BY <3>1 DEF EntriesInv
  <2> QED BY <2>1, <2>2
<1> QED BY <1>1, <1>2 DEF EntriesInv

\* A thread that begins a call of a handler.
LEMMA CallingOK ==
    ASSUME NEW k \in Workers, NEW ops \in Seq(OpOf(k)), ops # <<>>, NEW retry \in BOOLEAN
    PROVE  ThreadOK(k, Calling(k, ops, retry))
<1>1. OpOf(k) \subseteq Op BY DEF OpOf
<1>2. ops \in Seq(Op) BY <1>1
<1>3. CASE k \in Nodes
  <2> DEFINE th == [Idle EXCEPT !.pc = "op", !.retry = retry, !.ops = ops]
  <2>1. Calling(k, ops, retry) = th BY <1>3 DEF Calling
  <2>2. th.pc = "op" /\ th.ops = ops /\ th.calls = {} BY DEF Idle
  <2>3. th \in ThreadState
    <3>1. PICK idle \in ThreadState : idle = Idle BY IdleOK DEF ThreadOK
    <3>2. [idle EXCEPT !.pc = "op", !.retry = retry, !.ops = ops] \in ThreadState BY <1>2 DEF ThreadState
    <3> QED BY <3>1, <3>2
  <2> HIDE DEF th
  <2> QED BY <2>1, <2>2, <2>3 DEF ThreadOK
<1>4. CASE k \notin Nodes
  <2> DEFINE call == [name |-> k, old |-> ops[1].old, new |-> ops[1].new]
             th == [Idle EXCEPT !.pc = "lock", !.retry = retry, !.ops = ops, !.calls = {call}]
  <2>1. Calling(k, ops, retry) = th BY <1>4 DEF Calling
  <2>2. k \in EIPs BY <1>4 DEF Workers
  <2>3. ops[1] \in OpOf(k) OBVIOUS
  <2>4. /\ ops[1].old \in EIPObject \cup {None} /\ ops[1].new \in EIPObject \cup {None}
        /\ ops[1].old # None \/ ops[1].new # None
    BY <1>4, <2>3, ConstantsTyped DEF OpOf, ObjectOf
  <2>5. call \in CallOf BY <2>2, <2>4 DEF CallOf, Call
  <2>6. CallOf \subseteq Call BY DEF CallOf
  <2> HIDE DEF call
  <2>7. {call} \subseteq CallOf /\ {call} \in SUBSET Call BY <2>5, <2>6
  <2>8. th.pc = "lock" /\ th.ops = ops /\ th.calls = {call} BY DEF Idle
  <2>9. th \in ThreadState
    <3>1. PICK idle \in ThreadState : idle = Idle BY IdleOK DEF ThreadOK
    <3>2. [idle EXCEPT !.pc = "lock", !.retry = retry, !.ops = ops, !.calls = {call}] \in ThreadState
      BY <1>2, <2>7 DEF ThreadState
    <3> QED BY <3>1, <3>2
  <2> HIDE DEF th
  <2> QED BY <2>1, <2>7, <2>8, <2>9 DEF ThreadOK
<1> QED BY <1>3, <1>4

LEMMA NoEntryOK == ASSUME NEW k PROVE NoEntry \in EntryOf(k)
BY DEF NoEntry, EntryOf, VersionOf

LEMMA FailedEntryOK ==
    ASSUME NEW k \in Workers, NEW e \in EntryOf(k), NEW ops \in Seq(OpOf(k)), ops # <<>>
    PROVE  FailedEntry(e, ops) \in EntryOf(k)
<1>1. ops[1] \in OpOf(k) OBVIOUS
<1>2. ops[1].op = "update" => ops[1].old \in VersionOf(k) BY <1>1 DEF OpOf, VersionOf
<1> QED BY <1>2 DEF FailedEntry, EntryOf

\* A handler's call has returned.
LEMMA ReturnedOK ==
    ASSUME EntriesInv, ThreadsInv, InitialInv, NEW t \in Threads, NEW th, ThreadOK(t, th), th.pc # "idle",
           NEW err \in BOOLEAN, Returned(t, th, err)
    PROVE  EntriesInv' /\ ThreadsInv' /\ InitialInv'
<1>1. InitialInv' BY DEF InitialInv, Returned
<1>2. CASE t = Loop
  <2>1. entry' = entry /\ thread' = [thread EXCEPT ![t] = Idle] BY <1>2 DEF Returned
  <2>2. EntriesInv' BY <2>1 DEF EntriesInv
  <2>3. ThreadsInv' BY <2>1, IdleOK, ThreadsSet
  <2> QED BY <1>1, <2>2, <2>3
<1>3. CASE t # Loop
  <2>1. t \in Workers BY <1>3 DEF Threads
  <2>2. th.ops \in Seq(OpOf(t)) /\ th.ops # <<>> /\ th.retry \in BOOLEAN BY <1>3 DEF ThreadOK, ThreadState
  <2>3. entry[t] \in EntryOf(t) BY <2>1 DEF EntriesInv
  <2>4. PICK ops : ops = th.ops OBVIOUS
  <2>5. ops \in Seq(OpOf(t)) /\ ops # <<>> BY <2>2, <2>4
  <2>6. PICK e : e = IF err THEN FailedEntry(entry[t], ops)
                     ELSE IF Len(ops) = 1 THEN NoEntry ELSE [entry[t] EXCEPT !.oldObj = None, !.config = None]
    OBVIOUS
  <2>7. entry' = [entry EXCEPT ![t] = e] BY <1>3, <2>1, <2>4, <2>6 DEF Returned, EntriesInv
  <2>8. e \in EntryOf(t)
    <3>1. FailedEntry(entry[t], ops) \in EntryOf(t) BY <2>1, <2>3, <2>5, FailedEntryOK
    <3>2. [entry[t] EXCEPT !.oldObj = None, !.config = None] \in EntryOf(t) BY <2>3 DEF EntryOf, VersionOf
    <3> QED BY <2>6, <3>1, <3>2, NoEntryOK
  <2>9. EntriesInv' BY <2>1, <2>7, <2>8, EntriesSet
  <2>10. CASE err \/ Len(ops) = 1
    <3>1. thread' = [thread EXCEPT ![t] = Idle] BY <2>4, <2>10 DEF Returned
    <3>2. ThreadsInv' BY <3>1, IdleOK, ThreadsSet
    <3> QED BY <1>1, <2>9, <3>2
  <2>11. CASE ~(err \/ Len(ops) = 1)
    <3>1. thread' = [thread EXCEPT ![t] = Calling(t, Tail(ops), th.retry)] BY <1>3, <2>4, <2>11 DEF Returned
    <3>2. Len(ops) \in Nat /\ Len(ops) # 0 /\ Len(ops) # 1 BY <2>5, <2>11
    <3>21. Tail(ops) \in Seq(OpOf(t)) BY <2>5
    <3>22. Len(Tail(ops)) = Len(ops) - 1 BY <2>5
    <3>23. Tail(ops) # <<>> BY <3>2, <3>22
    <3>3. ThreadOK(t, Calling(t, Tail(ops), th.retry)) BY <2>1, <2>2, <3>21, <3>23, CallingOK
    <3>4. ThreadsInv' BY <3>1, <3>3, ThreadsSet
    <3> QED BY <1>1, <2>9, <3>4
  <2> QED BY <2>10, <2>11
<1> QED BY <1>2, <1>3

\* A job has ended.
LEMMA JobDoneOK ==
    ASSUME EntriesInv, ThreadsInv, InitialInv, NEW t \in Threads, NEW th, ThreadOK(t, th), th.pc # "idle",
           th.jobs # <<>>, NEW err \in BOOLEAN, JobDone(t, th, err)
    PROVE  EntriesInv' /\ ThreadsInv' /\ InitialInv'
<1>1. PICK jobs : jobs = Tail(th.jobs) OBVIOUS
<1>2. CASE jobs = <<>> \/ (err /\ t # Loop)
  <2>1. Returned(t, th, err) BY <1>1, <1>2 DEF JobDone
  <2> QED BY <2>1, ReturnedOK
<1>3. CASE ~(jobs = <<>> \/ (err /\ t # Loop))
  <2>1. PICK idle \in ThreadState : idle = Idle BY IdleOK DEF ThreadOK
  <2>2. PICK new : new = [idle EXCEPT !.pc = "list", !.retry = th.retry, !.jobs = jobs, !.ops = th.ops] OBVIOUS
  <2>3. thread' = [thread EXCEPT ![t] = new] /\ entry' = entry /\ initial' = initial
    BY <1>1, <1>3, <2>1, <2>2 DEF JobDone
  <2>4. th \in ThreadState BY DEF ThreadOK
  <2>5. th.jobs \in Seq(Job) /\ th.ops \in Seq(Op) /\ th.retry \in BOOLEAN BY <2>4 DEF ThreadState
  <2>6. jobs \in Seq(Job) BY <1>1, <2>5
  <2>7. new \in ThreadState BY <2>2, <2>5, <2>6 DEF ThreadState
  <2>8. new.pc = "list" /\ new.jobs # <<>> /\ new.ops = th.ops /\ new.calls = {}
    <3>1. new.calls = idle.calls /\ new.pc = "list" /\ new.jobs = jobs /\ new.ops = th.ops BY <2>2 DEF ThreadState
    <3>2. idle.calls = {} BY <2>1 DEF Idle
    <3> QED BY <1>3, <3>1, <3>2
  <2>9. ThreadOK(t, new) BY <2>7, <2>8 DEF ThreadOK
  <2>10. ThreadsInv' BY <2>3, <2>9, ThreadsSet
  <2>11. EntriesInv' /\ InitialInv' BY <2>3 DEF EntriesInv, InitialInv
  <2> QED BY <2>10, <2>11
<1> QED BY <1>2, <1>3

\* A thread goes on, with some of its variables changed.
LEMMA GotoOK ==
    ASSUME EntriesInv, ThreadsInv, InitialInv, NEW t \in Threads, NEW pc, NEW th, Goto(t, pc, th),
           ThreadOK(t, [th EXCEPT !.pc = pc]), UNCHANGED <<entry, initial>>
    PROVE  EntriesInv' /\ ThreadsInv' /\ InitialInv'
<1>1. thread' = [thread EXCEPT ![t] = [th EXCEPT !.pc = pc]] BY DEF Goto
<1>2. ThreadsInv' BY <1>1, ThreadsSet
<1> QED BY <1>2 DEF EntriesInv, InitialInv

\* A handler goes on with its jobs.
LEMMA RunJobsOK ==
    ASSUME EntriesInv, ThreadsInv, InitialInv, NEW t \in Threads, NEW jobs \in Seq(Job),
           thread[t].pc # "idle" \/ (t = Loop /\ jobs # <<>>), RunJobs(t, jobs)
    PROVE  EntriesInv' /\ ThreadsInv' /\ InitialInv'
<1>1. PICK th : th = thread[t] OBVIOUS
<1>2. ThreadOK(t, th) BY <1>1 DEF ThreadsInv
<1>3. CASE jobs = <<>>
  <2>1. Returned(t, th, FALSE) /\ th.pc # "idle" BY <1>1, <1>3 DEF RunJobs
  <2> QED BY <1>2, <2>1, ReturnedOK
<1>4. CASE jobs # <<>>
  <2>1. PICK new : new = [[th EXCEPT !.jobs = jobs] EXCEPT !.pc = "list"] OBVIOUS
  <2>2. thread' = [thread EXCEPT ![t] = new] /\ entry' = entry /\ initial' = initial
    BY <1>1, <1>4, <2>1 DEF RunJobs, Goto
  <2>3. th \in ThreadState BY <1>2 DEF ThreadOK
  <2>4. new \in ThreadState BY <2>1, <2>3 DEF ThreadState
  <2>5. new.pc = "list" /\ new.jobs = jobs /\ new.ops = th.ops /\ new.calls = th.calls BY <2>1, <2>3 DEF ThreadState
  <2>6. ThreadOK(t, new) BY <1>2, <1>4, <2>4, <2>5, <1>1 DEF ThreadOK
  <2>7. ThreadsInv' BY <2>2, <2>6, ThreadsSet
  <2>8. EntriesInv' /\ InitialInv' BY <2>2 DEF EntriesInv, InitialInv
  <2> QED BY <2>7, <2>8
<1> QED BY <1>3, <1>4

\* reconcileEgressIP has returned.
LEMMA CallDoneOK ==
    ASSUME EntriesInv, ThreadsInv, InitialInv, NEW t \in Threads, thread[t].pc = "patch",
           NEW failed \in BOOLEAN, CallDone(t, failed)
    PROVE  EntriesInv' /\ ThreadsInv' /\ InitialInv' /\ MutexInv'
<1>1. PICK th : th = thread[t] OBVIOUS
<1>2. ThreadOK(t, th) BY <1>1 DEF ThreadsInv
<1>3. PICK err : err = (th.err \/ failed) OBVIOUS
<1>4. th \in ThreadState BY <1>2 DEF ThreadOK
<1>5. th.err \in BOOLEAN /\ th.jobs \in Seq(Job) /\ th.ops \in Seq(Op) /\ th.retry \in BOOLEAN BY <1>4 DEF ThreadState
<1>6. err \in BOOLEAN BY <1>3
<1>7. PICK rest : rest = th.calls \ {th.call} OBVIOUS
<1>8. MutexInv' BY DEF CallDone, MutexInv
<1>9. CASE rest # {}
  <2>1. PICK idle \in ThreadState : idle = Idle BY IdleOK DEF ThreadOK
  <2>2. PICK new : new = [idle EXCEPT !.pc = "lock", !.retry = th.retry, !.calls = rest, !.err = err,
                                      !.ops = th.ops, !.jobs = th.jobs] OBVIOUS
  <2>3. thread' = [thread EXCEPT ![t] = new] /\ entry' = entry /\ initial' = initial
    BY <1>1, <1>3, <1>7, <1>9, <2>1, <2>2 DEF CallDone
  <2>4. rest \subseteq CallOf BY <1>2, <1>7 DEF ThreadOK
  <2>5. rest \in SUBSET Call BY <2>4 DEF CallOf
  <2>6. new \in ThreadState BY <1>5, <1>6, <2>2, <2>5 DEF ThreadState
  <2>7. new.pc = "lock" /\ new.ops = th.ops /\ new.calls = rest BY <2>2 DEF ThreadState
  <2>8. ThreadOK(t, new) BY <1>1, <1>2, <2>4, <2>6, <2>7 DEF ThreadOK
  <2>9. ThreadsInv' BY <2>3, <2>8, ThreadsSet
  <2>10. EntriesInv' /\ InitialInv' BY <2>3 DEF EntriesInv, InitialInv
  <2> QED BY <1>8, <2>9, <2>10
<1>10. CASE rest = {} /\ th.jobs = <<>>
  <2>1. Returned(t, th, err) BY <1>1, <1>3, <1>7, <1>10 DEF CallDone
  <2>2. th.pc # "idle" BY <1>1
  <2> QED BY <1>2, <1>6, <1>8, <2>1, <2>2, ReturnedOK
<1>11. CASE rest = {} /\ th.jobs # <<>>
  <2>1. JobDone(t, th, err) BY <1>1, <1>3, <1>7, <1>11 DEF CallDone
  <2>2. th.pc # "idle" /\ th.jobs # <<>> BY <1>1, <1>11
  <2> QED BY <1>2, <1>6, <1>8, <2>1, <2>2, JobDoneOK
<1> QED BY <1>9, <1>10, <1>11

\* The setters of the allocator keep the type of the cache.
LEMMA SetEgressType ==
    ASSUME NEW c \in CacheType, NEW n \in Nodes, NEW field \in {"isEgressAssignable", "isReady", "isReachable"},
           NEW value \in BOOLEAN
    PROVE  SetNodeEgress(c, n, field, value) \in CacheType
<1>1. CASE c[n] = None BY <1>1 DEF SetNodeEgress
<1>2. CASE c[n] # None
  <2>1. c[n] \in EgressNode BY <1>2 DEF CacheType
  <2>2. EmptyAllocations \in [IPs -> EIPs \cup {None}] BY DEF EmptyAllocations
  <2>3. PICK x : x = [c[n] EXCEPT ![field] = value] OBVIOUS
  <2>4. x \in EgressNode /\ x.allocations = c[n].allocations BY <2>1, <2>3 DEF EgressNode
  <2>5. PICK y : y = [x EXCEPT !.allocations = IF value THEN x.allocations ELSE EmptyAllocations] OBVIOUS
  <2>6. y \in EgressNode BY <2>2, <2>4, <2>5 DEF EgressNode
  <2>7. SetNodeEgress(c, n, field, value) = [c EXCEPT ![n] = y]
    BY <1>2, <2>3, <2>5 DEF SetNodeEgress, CacheType
  <2> QED BY <2>6, <2>7 DEF CacheType
<1> QED BY <1>1, <1>2

LEMMA InitEgressType ==
    ASSUME NEW c \in CacheType, NEW n \in Nodes, NEW node
    PROVE  InitEgressIPAllocator(c, n, node) \in CacheType
<1>1. NewEgressNode \in EgressNode BY DEF NewEgressNode, EgressNode, EmptyAllocations
<1> QED BY <1>1 DEF InitEgressIPAllocator, CacheType

LEMMA DeleteType ==
    ASSUME NEW c \in CacheType, NEW items
    PROVE  DeleteAssignments(c, items) \in CacheType
<1>1. ASSUME NEW n \in Nodes, c[n] # None
      PROVE  [c[n] EXCEPT !.allocations =
                 [ip \in IPs |-> IF [ip |-> ip, node |-> n] \in items THEN None ELSE @[ip]]] \in EgressNode
  <2>1. c[n] \in EgressNode BY <1>1 DEF CacheType
  <2>2. [ip \in IPs |-> IF [ip |-> ip, node |-> n] \in items THEN None ELSE c[n].allocations[ip]]
            \in [IPs -> EIPs \cup {None}]
    BY <2>1 DEF EgressNode
  <2> QED BY <2>1, <2>2 DEF EgressNode
<1> QED BY <1>1 DEF DeleteAssignments, CacheType

-----------------------------------------------------------------------------
(***************************************************************************)
(* The environment                                                         *)
(***************************************************************************)

LEMMA VersionsAppend ==
    ASSUME NEW k, NEW queue, NEW last, NEW latest, VersionsOK(k, queue, last, latest),
           NEW v \in VersionOf(k), latest # None \/ v # None
    PROVE  VersionsOK(k, Append(queue, v), last, v)
<1>1. queue \in Seq(VersionOf(k)) /\ last \in VersionOf(k) BY DEF VersionsOK
<1>2. PICK S : S = VersionOf(k) OBVIOUS
<1>3. PICK new : new = Append(queue, v) OBVIOUS
<1>4. /\ queue \in Seq(S) /\ v \in S /\ new \in Seq(S) /\ Len(queue) \in Nat /\ Len(new) = Len(queue) + 1
      /\ \A i \in 1 .. Len(queue) : new[i] = queue[i]
      /\ new[Len(queue) + 1] = v
  BY <1>1, <1>2, <1>3
<1>5. new # <<>> BY <1>4
<1>6. LastVersion(new, last) = v BY <1>4, <1>5 DEF LastVersion
<1>7. queue = <<>> => last = latest BY DEF VersionsOK, LastVersion
<1>8. queue # <<>> => queue[Len(queue)] = latest BY DEF VersionsOK, LastVersion
<1>9. queue = <<>> => Len(queue) = 0 OBVIOUS
<1>10. queue # <<>> => Len(queue) # 0 BY <1>4
<1>11. last # None \/ new[1] # None
  <2>1. CASE queue = <<>> BY <1>4, <1>7, <1>9, <2>1
  <2>2. CASE queue # <<>>
    <3>1. last # None \/ queue[1] # None BY <2>2 DEF VersionsOK
    <3>2. 1 \in 1 .. Len(queue) BY <1>4, <1>10, <2>2
    <3> QED BY <1>4, <3>1, <3>2
  <2> QED BY <2>1, <2>2
<1>12. ASSUME NEW i \in 1 .. Len(new) - 1 PROVE new[i] # None \/ new[i + 1] # None
  <2>1. i \in 1 .. Len(queue) /\ i \in Nat BY <1>4
  <2>2. CASE i = Len(queue)
    <3>1. queue # <<>> BY <1>9, <2>1
    <3> QED BY <1>4, <1>8, <2>1, <2>2, <3>1
  <2>3. CASE i # Len(queue)
    <3>1. i \in 1 .. Len(queue) - 1 /\ i + 1 \in 1 .. Len(queue) BY <1>4, <2>1, <2>3
    <3>2. queue[i] # None \/ queue[i + 1] # None BY <3>1 DEF VersionsOK
    <3> QED BY <1>4, <2>1, <3>1, <3>2
  <2> QED BY <2>2, <2>3
<1> QED BY <1>1, <1>2, <1>3, <1>4, <1>6, <1>11, <1>12 DEF VersionsOK

LEMMA VersionsTail ==
    ASSUME NEW k, NEW queue, NEW last, NEW latest, VersionsOK(k, queue, last, latest), queue # <<>>
    PROVE  VersionsOK(k, Tail(queue), Head(queue), latest)
<1>1. queue \in Seq(VersionOf(k)) BY DEF VersionsOK
<1>2. PICK S : S = VersionOf(k) OBVIOUS
<1>3. PICK new : new = Tail(queue) OBVIOUS
<1>4. PICK v : v = Head(queue) OBVIOUS
<1>5. queue \in Seq(S) BY <1>1, <1>2
<1>6. Len(queue) \in Nat /\ Len(queue) # 0 BY <1>5
<1>7. /\ v \in S /\ new \in Seq(S) /\ Len(new) = Len(queue) - 1 /\ v = queue[1]
      /\ \A i \in 1 .. Len(new) : new[i] = queue[i + 1]
  BY <1>3, <1>4, <1>5, <1>6
<1>8. LastVersion(queue, last) = latest BY DEF VersionsOK
<1>9. LastVersion(new, v) = latest
  <2>1. CASE new = <<>>
    <3>1. Len(queue) = 1 BY <1>6, <1>7, <2>1
    <3> QED BY <1>7, <1>8, <2>1, <3>1 DEF LastVersion
  <2>2. CASE new # <<>>
    <3>1. Len(new) \in 1 .. Len(new) /\ Len(new) + 1 = Len(queue) BY <1>6, <1>7, <2>2
    <3>2. new[Len(new)] = queue[Len(queue)] BY <1>7, <3>1
    <3> QED BY <1>8, <2>2, <3>2 DEF LastVersion
  <2> QED BY <2>1, <2>2
<1>10. \A i \in 1 .. Len(queue) - 1 : queue[i] # None \/ queue[i + 1] # None BY DEF VersionsOK
<1>11. new # <<>> => v # None \/ new[1] # None
  <2> SUFFICES ASSUME new # <<>> PROVE v # None \/ new[1] # None OBVIOUS
  <2>1. 1 \in 1 .. Len(new) /\ 1 \in 1 .. Len(queue) - 1 /\ 1 + 1 = 2 BY <1>6, <1>7
  <2>2. new[1] = queue[2] BY <1>7, <2>1
  <2>3. queue[1] # None \/ queue[2] # None BY <1>10, <2>1
  <2> QED BY <1>7, <2>2, <2>3
<1>12. ASSUME NEW i \in 1 .. Len(new) - 1 PROVE new[i] # None \/ new[i + 1] # None
  <2>1. i \in 1 .. Len(new) /\ i + 1 \in 1 .. Len(new) /\ i + 1 \in 1 .. Len(queue) - 1 BY <1>6, <1>7
  <2>2. new[i] = queue[i + 1] /\ new[i + 1] = queue[(i + 1) + 1] BY <1>7, <2>1
  <2>3. queue[i + 1] # None \/ queue[(i + 1) + 1] # None BY <1>10, <2>1
  <2> QED BY <2>2, <2>3
<1> QED BY <1>2, <1>3, <1>4, <1>7, <1>9, <1>11, <1>12 DEF VersionsOK

\* The versions of one object have changed.
LEMMA VersionsSet ==
    ASSUME VersionsInv, NEW k \in Workers, DOMAIN events' = Workers, DOMAIN seen' = Workers,
           \A j \in Workers \ {k} : events'[j] = events[j] /\ seen'[j] = seen[j] /\ Latest(j)' = Latest(j),
           VersionsOK(k, events'[k], seen'[k], Latest(k)')
    PROVE  VersionsInv'
<1>1. ASSUME NEW j \in Workers PROVE VersionsOK(j, events'[j], seen'[j], Latest(j)')
  <2>1. CASE j = k BY <2>1
  <2>2. CASE j # k
    <3>1. VersionsOK(j, events[j], seen[j], Latest(j)) BY DEF VersionsInv
    <3>2. events'[j] = events[j] /\ seen'[j] = seen[j] /\ Latest(j)' = Latest(j) BY <2>2
    <3> QED BY <3>1, <3>2
  <2> QED BY <2>1, <2>2
<1> QED BY <1>1 DEF VersionsInv

LEMMA SetNodeOK ==
    ASSUME TypeInv, NEW n \in Nodes, NEW node \in NodeObject \cup {None}, nodes[n] # None \/ node # None,
           SetNode(n, node)
    PROVE  TypeInv'
<1>1. ObjectsInv /\ VersionsInv BY DEF TypeInv
<1>2. ObjectsInv' BY <1>1 DEF ObjectsInv, SetNode, UserVars
<1>3. nodes' = [nodes EXCEPT ![n] = node] /\ events' = [events EXCEPT ![n] = Append(events[n], node)]
      /\ eips' = eips /\ seen' = seen
  BY <1>1 DEF SetNode, UserVars, VersionsInv, Workers
<1>4. n \in Workers BY DEF Workers
<1>5. VersionsOK(n, events[n], seen[n], nodes[n]) BY <1>1, <1>4 DEF VersionsInv, Latest
<1>6. VersionsOK(n, Append(events[n], node), seen[n], node)
  <2>1. node \in VersionOf(n) BY DEF VersionOf, ObjectOf
  <2> QED BY <1>5, <2>1, VersionsAppend
<1>7. VersionsInv'
  <2>1. DOMAIN events' = Workers /\ DOMAIN seen' = Workers BY <1>1, <1>3 DEF VersionsInv
  <2>2. events'[n] = Append(events[n], node) /\ seen'[n] = seen[n] BY <1>1, <1>3, <1>4 DEF VersionsInv
  <2>3. Latest(n)' = node BY <1>1, <1>3 DEF Latest, ObjectsInv
  <2>4. ASSUME NEW j \in Workers \ {n}
        PROVE  events'[j] = events[j] /\ seen'[j] = seen[j] /\ Latest(j)' = Latest(j)
    BY <1>1, <1>3 DEF VersionsInv, Latest, ObjectsInv
  <2>5. VersionsOK(n, events'[n], seen'[n], Latest(n)') BY <1>6, <2>2, <2>3
  <2> QED BY <1>1, <1>4, <2>1, <2>4, <2>5, VersionsSet
<1>8. UNCHANGED <<cache, mutex, thread, entry, initial>> BY DEF SetNode, UserVars
<1> QED BY <1>2, <1>7, <1>8 DEF TypeInv, EntriesInv, ThreadsInv, CacheInv, MutexInv, InitialInv

LEMMA SetEIPOK ==
    ASSUME TypeInv, NEW e \in EIPs, NEW eip \in EIPObject \cup {None}, eips[e] # None \/ eip # None,
           SetEIP(e, eip)
    PROVE  TypeInv'
<1>1. ObjectsInv /\ VersionsInv BY DEF TypeInv
<1>2. ObjectsInv' BY <1>1 DEF ObjectsInv, SetEIP, UserVars
<1>3. eips' = [eips EXCEPT ![e] = eip] /\ events' = [events EXCEPT ![e] = Append(events[e], eip)]
      /\ nodes' = nodes /\ seen' = seen
  BY <1>1 DEF SetEIP, UserVars, VersionsInv, Workers
<1>4. e \in Workers /\ e \notin Nodes BY ConstantsTyped DEF Workers
<1>5. VersionsOK(e, events[e], seen[e], eips[e]) BY <1>1, <1>4 DEF VersionsInv, Latest
<1>6. VersionsOK(e, Append(events[e], eip), seen[e], eip)
  <2>1. eip \in VersionOf(e) BY <1>4 DEF VersionOf, ObjectOf
  <2> QED BY <1>5, <2>1, VersionsAppend
<1>7. VersionsInv'
  <2>1. DOMAIN events' = Workers /\ DOMAIN seen' = Workers BY <1>1, <1>3 DEF VersionsInv
  <2>2. events'[e] = Append(events[e], eip) /\ seen'[e] = seen[e] BY <1>1, <1>3, <1>4 DEF VersionsInv
  <2>3. Latest(e)' = eip BY <1>1, <1>3, <1>4 DEF Latest, ObjectsInv
  <2>4. ASSUME NEW j \in Workers \ {e}
        PROVE  events'[j] = events[j] /\ seen'[j] = seen[j] /\ Latest(j)' = Latest(j)
    BY <1>1, <1>3 DEF VersionsInv, Latest, ObjectsInv, Workers
  <2>5. VersionsOK(e, events'[e], seen'[e], Latest(e)') BY <1>6, <2>2, <2>3
  <2> QED BY <1>1, <1>4, <2>1, <2>4, <2>5, VersionsSet
<1>8. UNCHANGED <<cache, mutex, thread, entry, initial>> BY DEF SetEIP, UserVars
<1> QED BY <1>2, <1>7, <1>8 DEF TypeInv, EntriesInv, ThreadsInv, CacheInv, MutexInv, InitialInv

\* What a behaviour starts with.
LEMMA ScenarioType ==
    ASSUME scenario \in Scenarios
    PROVE  /\ scenario.nodes \in [Nodes -> NodeObject \cup {None}]
           /\ scenario.eips \in [EIPs -> EIPObject \cup {None}]
           /\ scenario.forms \subseteq NodeObject /\ scenario.specs \subseteq SUBSET IPs
<1>1. scenario \in Scenario BY ScenariosTyped
<1> QED BY <1>1 DEF Scenario

LEMMA ChangeNodeOK ==
    ASSUME TypeInv, NEW n \in Nodes, ChangeNode(n)
    PROVE  TypeInv'
<1>1. nodes[n] \in NodeObject /\ nodes[n] # None BY DEF TypeInv, ObjectsInv, ChangeNode
<1>2. CASE SetNode(n, [nodes[n] EXCEPT !.label = ~nodes[n].label])
  <2>1. [nodes[n] EXCEPT !.label = ~nodes[n].label] \in NodeObject BY <1>1 DEF NodeObject
  <2> QED BY <1>1, <1>2, <2>1, SetNodeOK
<1>3. CASE SetNode(n, [nodes[n] EXCEPT !.ready = ~nodes[n].ready])
  <2>1. [nodes[n] EXCEPT !.ready = ~nodes[n].ready] \in NodeObject BY <1>1 DEF NodeObject
  <2> QED BY <1>1, <1>3, <2>1, SetNodeOK
<1>4. CASE SetNode(n, [nodes[n] EXCEPT !.annotated = TRUE])
  <2>1. [nodes[n] EXCEPT !.annotated = TRUE] \in NodeObject BY <1>1 DEF NodeObject
  <2> QED BY <1>1, <1>4, <2>1, SetNodeOK
<1>5. ASSUME NEW a \in Addrs,
             SetNode(n, [nodes[n] EXCEPT !.addrs = IF a \in nodes[n].addrs THEN nodes[n].addrs \ {a}
                                                   ELSE nodes[n].addrs \cup {a}])
      PROVE  TypeInv'
  <2>1. [nodes[n] EXCEPT !.addrs = IF a \in nodes[n].addrs THEN nodes[n].addrs \ {a}
                                   ELSE nodes[n].addrs \cup {a}] \in NodeObject
    BY <1>1 DEF NodeObject
  <2> QED BY <1>1, <1>5, <2>1, SetNodeOK
<1> QED BY <1>2, <1>3, <1>4, <1>5 DEF ChangeNode

\* The versions of an object that is to be added, and of one that is known.
LEMMA VersionsStart ==
    ASSUME NEW k, NEW v \in VersionOf(k)
    PROVE  /\ VersionsOK(k, IF v = None THEN <<>> ELSE <<v>>, None, v)
           /\ VersionsOK(k, <<>>, v, v)
<1>1. None \in VersionOf(k) BY DEF VersionOf
<1>2. VersionsOK(k, <<>>, v, v) BY DEF VersionsOK, LastVersion
<1>3. CASE v = None
  <2>1. VersionsOK(k, <<>>, None, None) BY <1>1 DEF VersionsOK, LastVersion
  <2> QED BY <1>2, <1>3, <2>1
<1>4. CASE v # None
  <2>1. <<v>> \in Seq(VersionOf(k)) /\ Len(<<v>>) = 1 /\ <<v>>[1] = v /\ <<v>> # <<>> OBVIOUS
  <2>2. VersionsOK(k, <<v>>, None, v) BY <1>1, <1>4, <2>1 DEF VersionsOK, LastVersion
  <2> QED BY <1>2, <1>4, <2>2
<1> QED BY <1>3, <1>4

\* A process that has just started.
LEMMA ProcessStarts ==
    ASSUME NEW sc, sc = [k \in Workers |-> NoEntry], NEW th, th = [t \in Threads |-> Idle]
    PROVE  /\ DOMAIN sc = Workers /\ \A k \in Workers : sc[k] \in EntryOf(k)
           /\ DOMAIN th = Threads /\ \A t \in Threads : ThreadOK(t, th[t])
BY NoEntryOK, IdleOK

LEMMA LatestType == ASSUME ObjectsInv, NEW k \in Workers PROVE Latest(k) \in VersionOf(k)
BY DEF ObjectsInv, Workers, Latest, VersionOf, ObjectOf

LEMMA RestartOK == ASSUME TypeInv, Restart PROVE TypeInv'
<1>1. ObjectsInv BY DEF TypeInv
<1>2. ObjectsInv' BY <1>1 DEF ObjectsInv, Restart
<1>3. EntriesInv' BY ProcessStarts DEF EntriesInv, Restart
<1>4. ThreadsInv' BY ProcessStarts DEF ThreadsInv, Restart
<1>5. CacheInv' BY DEF CacheInv, CacheType, Restart
<1>6. MutexInv' /\ InitialInv' BY DEF MutexInv, InitialInv, Restart
<1>7. VersionsInv'
  <2>1. DOMAIN events' = Workers /\ DOMAIN seen' = Workers BY DEF Restart
  <2>2. ASSUME NEW k \in Workers PROVE VersionsOK(k, events'[k], seen'[k], Latest(k)')
    <3>1. PICK v \in VersionOf(k) : v = Latest(k) BY <1>1, LatestType
    <3>2. Latest(k)' = v BY <3>1 DEF Latest, Restart
    <3>3. events'[k] = (IF v = None THEN <<>> ELSE <<v>>) /\ seen'[k] = None BY <3>1 DEF Restart
    <3>4. VersionsOK(k, IF v = None THEN <<>> ELSE <<v>>, None, v) BY VersionsStart
    <3> QED BY <3>2, <3>3, <3>4
  <2> QED BY <2>1, <2>2 DEF VersionsInv
<1> QED BY <1>2, <1>3, <1>4, <1>5, <1>6, <1>7 DEF TypeInv

LEMMA EnvironmentOK == ASSUME TypeInv, Environment PROVE TypeInv'
<1>1. scenario \in Scenarios BY DEF TypeInv, ObjectsInv
<1>2. ASSUME NEW n \in Nodes, CreateNode(n) PROVE TypeInv'
  <2>1. PICK node \in scenario.forms : SetNode(n, node) BY <1>2 DEF CreateNode
  <2>2. node \in NodeObject /\ node # None BY <1>1, ScenarioType, ConstantsTyped
  <2> QED BY <2>1, <2>2, SetNodeOK
<1>3. ASSUME NEW n \in Nodes, DeleteNode(n) PROVE TypeInv' BY <1>3, SetNodeOK DEF DeleteNode
<1>4. ASSUME NEW n \in Nodes, ChangeNode(n) PROVE TypeInv' BY <1>4, ChangeNodeOK
<1>5. ASSUME NEW n \in Nodes, ChangeReach(n) PROVE TypeInv'
  <2>1. ObjectsInv' BY <1>5 DEF TypeInv, ObjectsInv, ChangeReach, UserVars
  <2>2. UNCHANGED <<nodes, eips, events, seen, entry, thread, cache, mutex, initial>> BY <1>5 DEF ChangeReach, UserVars
  <2>3. VersionsInv' BY <2>2 DEF TypeInv, VersionsInv, Latest
  <2> QED BY <2>1, <2>2, <2>3 DEF TypeInv, EntriesInv, ThreadsInv, CacheInv, MutexInv, InitialInv
<1>6. ASSUME NEW e \in EIPs, CreateEIP(e) PROVE TypeInv'
  <2>1. PICK s \in scenario.specs : SetEIP(e, [spec |-> s, status |-> {}]) BY <1>6 DEF CreateEIP
  <2>2. s \subseteq IPs BY <1>1, ScenarioType
  <2>3. PICK eip : eip = [spec |-> s, status |-> {}] OBVIOUS
  <2>4. eip \in EIPObject /\ eip # None BY <2>2, <2>3, ConstantsTyped DEF EIPObject
  <2>5. SetEIP(e, eip) BY <2>1, <2>3
  <2> QED BY <2>4, <2>5, SetEIPOK
<1>7. ASSUME NEW e \in EIPs, UpdateEIP(e) PROVE TypeInv'
  <2>1. PICK s \in scenario.specs : SetEIP(e, [eips[e] EXCEPT !.spec = s]) BY <1>7 DEF UpdateEIP
  <2>2. s \subseteq IPs BY <1>1, ScenarioType
  <2>3. PICK eip : eip = [eips[e] EXCEPT !.spec = s] OBVIOUS
  <2>4. eips[e] \in EIPObject /\ eips[e] # None BY <1>7 DEF UpdateEIP, TypeInv, ObjectsInv
  <2>5. eip \in EIPObject BY <2>2, <2>3, <2>4 DEF EIPObject
  <2>6. SetEIP(e, eip) BY <2>1, <2>3
  <2> QED BY <2>4, <2>5, <2>6, SetEIPOK
<1>8. ASSUME NEW e \in EIPs, DeleteEIP(e) PROVE TypeInv' BY <1>8, SetEIPOK DEF DeleteEIP
<1>9. CASE Restart BY <1>9, RestartOK
<1> QED BY <1>2, <1>3, <1>4, <1>5, <1>6, <1>7, <1>8, <1>9 DEF Environment

LEMMA WarmCacheType == ASSUME scenario \in Scenarios PROVE WarmCache(scenario) \in CacheType
<1> DEFINE of(n, ip) == {e \in EIPs : scenario.eips[e] # None /\ [ip |-> ip, node |-> n] \in scenario.eips[e].status}
           alloc(n) == [ip \in IPs |-> IF of(n, ip) = {} THEN None ELSE CHOOSE e \in of(n, ip) : TRUE]
           entryOf(n) == [allocations |-> alloc(n),
                          isEgressAssignable |-> scenario.nodes[n].label, isReady |-> scenario.nodes[n].ready,
                          isReachable |-> scenario.nodes[n].label /\ scenario.nodes[n].ready]
<1>1. WarmCache(scenario) = [n \in Nodes |-> IF scenario.nodes[n] = None \/ ~scenario.nodes[n].annotated THEN None
                                            ELSE entryOf(n)]
  BY DEF WarmCache
<1>2. ASSUME NEW n \in Nodes, scenario.nodes[n] # None PROVE entryOf(n) \in EgressNode
  <2>1. alloc(n) \in [IPs -> EIPs \cup {None}]
    <3>1. ASSUME NEW ip \in IPs, of(n, ip) # {} PROVE (CHOOSE e \in of(n, ip) : TRUE) \in EIPs
      <4>1. of(n, ip) \subseteq EIPs OBVIOUS
      <4> HIDE DEF of
      <4>2. PICK x : x \in of(n, ip) BY <3>1
      <4>3. (CHOOSE e \in of(n, ip) : TRUE) \in of(n, ip) BY <4>2
      <4> QED BY <4>1, <4>3
    <3> HIDE DEF of
    <3> QED BY <3>1
  <2>2. scenario.nodes[n] \in NodeObject BY <1>2, ScenarioType
  <2>3. scenario.nodes[n].label \in BOOLEAN /\ scenario.nodes[n].ready \in BOOLEAN BY <2>2 DEF NodeObject
  <2> HIDE DEF alloc
  <2> QED BY <2>1, <2>3 DEF EgressNode
<1> HIDE DEF entryOf
<1> QED BY <1>1, <1>2 DEF CacheType

LEMMA InitOK == ASSUME Init PROVE TypeInv
<1>1. scenario \in Scenarios BY DEF Init
<1>2. ObjectsInv BY <1>1, ScenarioType DEF Init, ObjectsInv
<1>3. EntriesInv BY ProcessStarts DEF EntriesInv, Init
<1>4. ThreadsInv BY ProcessStarts DEF ThreadsInv, Init
<1>5. CacheInv
  <2>1. CASE scenario.warm BY <1>1, <2>1, WarmCacheType DEF CacheInv, Init
  <2>2. CASE ~scenario.warm BY <2>2 DEF CacheInv, CacheType, Init
  <2> QED BY <2>1, <2>2
<1>6. MutexInv /\ InitialInv BY DEF MutexInv, InitialInv, Init
<1>7. VersionsInv
  <2>1. DOMAIN events = Workers /\ DOMAIN seen = Workers BY DEF Init
  <2>2. ASSUME NEW k \in Workers PROVE VersionsOK(k, events[k], seen[k], Latest(k))
    <3>1. PICK v \in VersionOf(k) : v = Latest(k) BY <1>2, LatestType
    <3>2. v = IF k \in Nodes THEN scenario.nodes[k] ELSE scenario.eips[k] BY <3>1 DEF Latest, Init
    <3>3. CASE scenario.warm
      <4>1. events[k] = <<>> /\ seen[k] = v BY <3>2, <3>3 DEF Init
      <4> QED BY <3>1, <4>1, VersionsStart
    <3>4. CASE ~scenario.warm
      <4>1. events[k] = (IF v = None THEN <<>> ELSE <<v>>) /\ seen[k] = None BY <3>2, <3>4 DEF Init
      <4>2. VersionsOK(k, IF v = None THEN <<>> ELSE <<v>>, None, v) BY VersionsStart
      <4> QED BY <3>1, <4>1, <4>2
    <3> QED BY <3>3, <3>4
  <2> QED BY <2>1, <2>2 DEF VersionsInv
<1> QED BY <1>2, <1>3, <1>4, <1>5, <1>6, <1>7 DEF TypeInv

-----------------------------------------------------------------------------
(***************************************************************************)
(* The steps of the goroutines                                             *)
(***************************************************************************)

\* The calls of the retry framework.
LEMMA OpForms ==
    ASSUME NEW k, NEW x \in ObjectOf(k), NEW y \in ObjectOf(k)
    PROVE  AddOp(x) \in OpOf(k) /\ UpdateOp(x, y) \in OpOf(k) /\ DeleteOp(x) \in OpOf(k)
<1>1. x \in Object /\ y \in Object /\ None \in Object BY DEF Object, ObjectOf
<1>2. AddOp(x) \in Op /\ UpdateOp(x, y) \in Op /\ DeleteOp(x) \in Op BY <1>1 DEF AddOp, UpdateOp, DeleteOp, Op
<1>3. AddOp(x) \in OpOf(k) BY <1>2 DEF AddOp, OpOf
<1>4. UpdateOp(x, y) \in OpOf(k) BY <1>2 DEF UpdateOp, OpOf
<1>5. DeleteOp(x) \in OpOf(k) BY <1>2 DEF DeleteOp, OpOf
<1> QED BY <1>3, <1>4, <1>5

LEMMA DeleteFirstOK ==
    ASSUME NEW k, NEW ent \in EntryOf(k)
    PROVE  DeleteFirst(ent) \in Seq(OpOf(k))
<1>1. CASE ent.oldObj = None BY <1>1 DEF DeleteFirst
<1>2. CASE ent.oldObj # None
  <2>1. ent.oldObj \in ObjectOf(k) BY <1>2 DEF EntryOf, VersionOf
  <2>2. DeleteOp(ent.oldObj) \in OpOf(k) BY <2>1, OpForms
  <2>3. <<DeleteOp(ent.oldObj)>> \in Seq(OpOf(k)) BY <2>2
  <2> QED BY <1>2, <2>3 DEF DeleteFirst
<1> QED BY <1>1, <1>2

LEMMA OpsOfEventOK ==
    ASSUME NEW k, NEW old \in VersionOf(k), NEW new \in VersionOf(k), old # None \/ new # None,
           NEW latest \in VersionOf(k), NEW ent \in EntryOf(k)
    PROVE  OpsOfEvent(old, new, latest, ent) \in Seq(OpOf(k)) /\ EntryOfEvent(old, new, ent) \in EntryOf(k)
<1>1. PICK first \in Seq(OpOf(k)) : first = DeleteFirst(ent) BY DeleteFirstOK
<1>2. CASE old = None
  <2>1. new \in ObjectOf(k) /\ new # None BY <1>2 DEF VersionOf
  <2>2. PICK op \in OpOf(k) : op = AddOp(new) BY <2>1, OpForms
  <2>3. Append(first, op) \in Seq(OpOf(k)) OBVIOUS
  <2>4. OpsOfEvent(old, new, latest, ent) = Append(first, op) BY <1>1, <1>2, <2>1, <2>2 DEF OpsOfEvent
  <2>5. EntryOfEvent(old, new, ent) = [ent EXCEPT !.newObj = TRUE] BY <1>2, <2>1 DEF EntryOfEvent
  <2>6. [ent EXCEPT !.newObj = TRUE] \in EntryOf(k) BY DEF EntryOf
  <2> QED BY <2>3, <2>4, <2>5, <2>6
<1>3. CASE new = None
  <2>1. old \in ObjectOf(k) /\ old # None BY <1>3 DEF VersionOf
  <2>2. PICK op \in OpOf(k) : op = DeleteOp(old) BY <2>1, OpForms
  <2>3. OpsOfEvent(old, new, latest, ent) = <<op>> BY <1>3, <2>1, <2>2 DEF OpsOfEvent
  <2>4. EntryOfEvent(old, new, ent) = [ent EXCEPT !.oldObj = old] BY <1>3, <2>1 DEF EntryOfEvent
  <2>5. [ent EXCEPT !.oldObj = old] \in EntryOf(k) BY DEF EntryOf
  <2> QED BY <2>3, <2>4, <2>5
<1>4. CASE old # None /\ new # None
  <2>1. EntryOfEvent(old, new, ent) = ent BY <1>4 DEF EntryOfEvent
  <2>2. CASE latest = None
    <3>1. OpsOfEvent(old, new, latest, ent) = <<>> BY <1>4, <2>2 DEF OpsOfEvent
    <3> QED BY <2>1, <3>1
  <2>3. CASE latest # None
    <3>1. old \in ObjectOf(k) /\ latest \in ObjectOf(k) BY <1>4, <2>3 DEF VersionOf
    <3>2. PICK op \in OpOf(k) : op = UpdateOp(old, latest) BY <3>1, OpForms
    <3>3. OpsOfEvent(old, new, latest, ent) = Append(first, op) BY <1>1, <1>4, <2>3, <3>2 DEF OpsOfEvent
    <3>4. Append(first, op) \in Seq(OpOf(k)) OBVIOUS
    <3> QED BY <2>1, <3>3, <3>4
  <2> QED BY <2>2, <2>3
<1> QED BY <1>2, <1>3, <1>4

LEMMA OpsOfRetryOK ==
    ASSUME NEW k, NEW latest \in VersionOf(k), NEW ent \in EntryOf(k)
    PROVE  OpsOfRetry(latest, ent) \in Seq(OpOf(k))
<1>1. PICK first \in Seq(OpOf(k)) : first = DeleteFirst(ent) BY DeleteFirstOK
<1>2. PICK S : S = OpOf(k) OBVIOUS
<1>3. CASE ~(ent.newObj /\ latest # None)
  <2>1. OpsOfRetry(latest, ent) = first \o <<>> BY <1>1, <1>3 DEF OpsOfRetry
  <2>2. first \o <<>> \in Seq(S) BY <1>2
  <2> QED BY <1>2, <2>1, <2>2
<1>4. CASE ent.newObj /\ latest # None /\ ent.config # None
  <2>1. ent.config \in ObjectOf(k) /\ latest \in ObjectOf(k) BY <1>4 DEF EntryOf, VersionOf
  <2>2. PICK op \in OpOf(k) : op = UpdateOp(ent.config, latest) BY <2>1, OpForms
  <2>3. OpsOfRetry(latest, ent) = <<op>> BY <1>4, <2>2 DEF OpsOfRetry
  <2> QED BY <2>3
<1>5. CASE ent.newObj /\ latest # None /\ ent.config = None
  <2>1. latest \in ObjectOf(k) BY <1>5 DEF VersionOf
  <2>2. PICK op \in OpOf(k) : op = AddOp(latest) BY <2>1, OpForms
  <2>3. OpsOfRetry(latest, ent) = first \o <<op>> BY <1>1, <1>5, <2>2 DEF OpsOfRetry
  <2>4. first \o <<op>> \in Seq(S) BY <1>2
  <2> QED BY <1>2, <2>3, <2>4
<1> QED BY <1>3, <1>4, <1>5

LEMMA HandleEventOK == ASSUME TypeInv, NEW k \in Workers, HandleEvent(k) PROVE TypeInv'
<1>1. ObjectsInv /\ VersionsInv /\ EntriesInv /\ ThreadsInv BY DEF TypeInv
<1>2. UNCHANGED <<scenario, nodes, eips, reach, initial, cache, mutex, changes, failures, restarts>> BY DEF HandleEvent
<1>3. PICK new : new = Head(events[k]) OBVIOUS
<1>4. VersionsOK(k, events[k], seen[k], Latest(k)) /\ events[k] # <<>> BY <1>1 DEF VersionsInv, HandleEvent
<1>5. VersionsOK(k, Tail(events[k]), new, Latest(k)) BY <1>3, <1>4, VersionsTail
<1>6. new \in VersionOf(k) /\ seen[k] \in VersionOf(k) BY <1>4, <1>5 DEF VersionsOK
<1>7. new = events[k][1] BY <1>3
<1>8. seen[k] # None \/ new # None BY <1>4, <1>7 DEF VersionsOK
<1>9. Latest(k) \in VersionOf(k) BY <1>1, LatestType
<1>10. entry[k] \in EntryOf(k) BY <1>1 DEF EntriesInv
<1>11. PICK ops : ops = OpsOfEvent(seen[k], new, Latest(k), entry[k]) OBVIOUS
<1>12. PICK e : e = EntryOfEvent(seen[k], new, entry[k]) OBVIOUS
<1>13. ops \in Seq(OpOf(k)) /\ e \in EntryOf(k) BY <1>6, <1>8, <1>9, <1>10, <1>11, <1>12, OpsOfEventOK
<1>14. /\ seen' = [seen EXCEPT ![k] = new] /\ events' = [events EXCEPT ![k] = Tail(events[k])]
       /\ entry' = [entry EXCEPT ![k] = e]
       /\ IF ops = <<>> THEN UNCHANGED thread ELSE Start(k, ops, FALSE)
  BY <1>1, <1>3, <1>11, <1>12 DEF HandleEvent, EntriesInv, VersionsInv
<1>15. EntriesInv' BY <1>1, <1>13, <1>14, EntriesSet
<1>16. ThreadsInv'
  <2>1. CASE ops = <<>> BY <1>1, <1>14, <2>1 DEF ThreadsInv
  <2>2. CASE ops # <<>>
    <3>1. thread' = [thread EXCEPT ![k] = Calling(k, ops, FALSE)] BY <1>14, <2>2 DEF Start
    <3>2. ThreadOK(k, Calling(k, ops, FALSE)) BY <1>13, <2>2, CallingOK
    <3>3. k \in Threads BY DEF Threads
    <3> QED BY <1>1, <3>1, <3>2, <3>3, ThreadsSet
  <2> QED BY <2>1, <2>2
<1>17. VersionsInv'
  <2>1. DOMAIN events' = Workers /\ DOMAIN seen' = Workers BY <1>1, <1>14 DEF VersionsInv
  <2>2. events'[k] = Tail(events[k]) /\ seen'[k] = new BY <1>1, <1>14 DEF VersionsInv
  <2>3. \A j \in Workers : Latest(j)' = Latest(j) BY <1>2 DEF Latest
  <2>4. \A j \in Workers \ {k} : events'[j] = events[j] /\ seen'[j] = seen[j] BY <1>1, <1>14 DEF VersionsInv
  <2>5. VersionsOK(k, events'[k], seen'[k], Latest(k)') BY <1>5, <2>2, <2>3
  <2>6. \A j \in Workers \ {k} : events'[j] = events[j] /\ seen'[j] = seen[j] /\ Latest(j)' = Latest(j) BY <2>3, <2>4
  <2> QED BY <1>1, <2>1, <2>5, <2>6, VersionsSet
<1> QED BY <1>2, <1>15, <1>16, <1>17 DEF TypeInv, ObjectsInv, CacheInv, MutexInv, InitialInv

\* The versions of the objects do not change.
LEMMA VersionsSame ==
    ASSUME VersionsInv, UNCHANGED <<nodes, eips, events, seen>>
    PROVE  VersionsInv'
BY DEF VersionsInv, Latest

LEMMA RetryOK == ASSUME TypeInv, NEW k \in Workers, Retry(k) PROVE TypeInv'
<1>1. ObjectsInv /\ VersionsInv /\ EntriesInv /\ ThreadsInv BY DEF TypeInv
<1>2. UNCHANGED <<scenario, nodes, eips, reach, events, seen, initial, cache, mutex, changes, failures, restarts>>
  BY DEF Retry
<1>3. VersionsInv' BY <1>1, <1>2, VersionsSame
<1>4. PICK ops : ops = OpsOfRetry(Latest(k), entry[k]) OBVIOUS
<1>5. Latest(k) \in VersionOf(k) BY <1>1, LatestType
<1>6. entry[k] \in EntryOf(k) BY <1>1 DEF EntriesInv
<1>7. ops \in Seq(OpOf(k)) BY <1>4, <1>5, <1>6, OpsOfRetryOK
<1>8. EntriesInv' /\ ThreadsInv'
  <2>1. CASE ops = <<>>
    <3>1. entry' = [entry EXCEPT ![k] = NoEntry] /\ thread' = thread BY <1>4, <2>1 DEF Retry
    <3>2. EntriesInv' BY <1>1, <3>1, NoEntryOK, EntriesSet
    <3> QED BY <1>1, <3>1, <3>2 DEF ThreadsInv
  <2>2. CASE ops # <<>>
    <3>1. entry' = entry /\ thread' = [thread EXCEPT ![k] = Calling(k, ops, TRUE)] BY <1>4, <2>2 DEF Retry, Start
    <3>2. ThreadOK(k, Calling(k, ops, TRUE)) BY <1>7, <2>2, CallingOK
    <3>3. k \in Threads BY DEF Threads
    <3>4. ThreadsInv' BY <1>1, <3>1, <3>2, <3>3, ThreadsSet
    <3> QED BY <1>1, <3>1, <3>4 DEF EntriesInv
  <2> QED BY <2>1, <2>2
<1> QED BY <1>2, <1>3, <1>8 DEF TypeInv, ObjectsInv, CacheInv, MutexInv, InitialInv

\* The call a handler of a node is in.
LEMMA HeadOp ==
    ASSUME ThreadsInv, NEW n \in Nodes, thread[n].pc # "idle"
    PROVE  /\ n \in Threads /\ Head(thread[n].ops) \in OpOf(n)
           /\ Head(thread[n].ops).op # "delete" => Head(thread[n].ops).new \in NodeObject
           /\ Head(thread[n].ops).op # "add" => Head(thread[n].ops).old \in NodeObject
           /\ Head(thread[n].ops).op \in {"add", "update", "delete"}
<1>1. n \in Threads /\ n # Loop BY ConstantsTyped DEF Threads, Workers
<1>2. ThreadOK(n, thread[n]) BY <1>1 DEF ThreadsInv
<1>3. PICK ops : ops = thread[n].ops OBVIOUS
<1>4. ops \in Seq(OpOf(n)) /\ ops # <<>> BY <1>1, <1>2, <1>3 DEF ThreadOK
<1>5. PICK op : op = Head(ops) OBVIOUS
<1>6. op \in OpOf(n) BY <1>4, <1>5
<1>7. ObjectOf(n) = NodeObject BY DEF ObjectOf
<1> QED BY <1>1, <1>3, <1>5, <1>6, <1>7 DEF OpOf

\* What the handlers do not change.
LEMMA HandlerFrame ==
    ASSUME TypeInv, UNCHANGED HandlerVars, EntriesInv', ThreadsInv', InitialInv', CacheInv'
    PROVE  TypeInv'
<1>1. UNCHANGED <<scenario, nodes, eips, reach, events, seen, mutex, changes, failures, restarts>> BY DEF HandlerVars
<1>2. VersionsInv' BY <1>1, VersionsSame DEF TypeInv
<1>3. ObjectsInv' /\ MutexInv' BY <1>1 DEF TypeInv, ObjectsInv, MutexInv
<1> QED BY <1>2, <1>3 DEF TypeInv

LEMMA JobOfType ==
    ASSUME NEW n \in Nodes, NEW kind \in {"add", "delete", "networks"}
    PROVE  JobOf(kind, n) \in Seq(Job)
<1>1. [kind |-> kind, node |-> n] \in Job BY DEF Job
<1> QED BY <1>1 DEF JobOf

LEMMA NodeLabelOK == ASSUME TypeInv, NEW n \in Nodes, NodeLabel(n) PROVE TypeInv'
<1>1. EntriesInv /\ ThreadsInv /\ InitialInv /\ cache \in CacheType BY DEF TypeInv, CacheInv
<1>2. thread[n].pc # "idle" /\ Head(thread[n].ops).op # "delete" BY DEF NodeLabel
<1>3. PICK op : op = Head(thread[n].ops) OBVIOUS
<1>4. n \in Threads /\ op.new \in NodeObject BY <1>1, <1>2, <1>3, HeadOp
<1>5. op.new.label \in BOOLEAN /\ op.new.ready \in BOOLEAN BY <1>4 DEF NodeObject
<1>6. PICK c0 \in CacheType : c0 = InitEgressIPAllocator(cache, n, op.new) BY <1>1, InitEgressType
<1>7. PICK c1 \in CacheType : c1 = IF op.op = "update" \/ op.new.label
                                   THEN SetNodeEgressAssignable(c0, n, op.new.label) ELSE c0
  <2>1. SetNodeEgressAssignable(c0, n, op.new.label) \in CacheType BY <1>5, SetEgressType DEF SetNodeEgressAssignable
  <2> QED BY <2>1
<1>8. PICK c2 \in CacheType : c2 = IF op.op = "add" /\ op.new.ready THEN SetNodeEgressReady(c1, n, TRUE) ELSE c1
  <2>1. SetNodeEgressReady(c1, n, TRUE) \in CacheType BY SetEgressType DEF SetNodeEgressReady
  <2> QED BY <2>1
<1>9. PICK hadLabel : hadLabel = (op.op = "update" /\ op.old.label) OBVIOUS
<1>10. UNCHANGED HandlerVars BY DEF NodeLabel
<1>11. CASE op.op = "update" /\ ~hadLabel /\ ~op.new.label
  <2>1. cache' = c0 /\ RunJobs(n, <<>>) BY <1>3, <1>6, <1>7, <1>8, <1>9, <1>11 DEF NodeLabel
  <2>2. <<>> \in Seq(Job) OBVIOUS
  <2>3. EntriesInv' /\ ThreadsInv' /\ InitialInv' BY <1>1, <1>2, <1>4, <2>1, <2>2, RunJobsOK
  <2>4. CacheInv' BY <2>1 DEF CacheInv
  <2> QED BY <1>10, <2>3, <2>4, HandlerFrame
<1>12. CASE hadLabel /\ ~op.new.label
  <2>1. cache' = c1 /\ RunJobs(n, JobOf("delete", n)) BY <1>3, <1>6, <1>7, <1>8, <1>9, <1>12 DEF NodeLabel
  <2>2. JobOf("delete", n) \in Seq(Job) BY JobOfType
  <2>3. EntriesInv' /\ ThreadsInv' /\ InitialInv' BY <1>1, <1>2, <1>4, <2>1, <2>2, RunJobsOK
  <2>4. CacheInv' BY <2>1 DEF CacheInv
  <2> QED BY <1>10, <2>3, <2>4, HandlerFrame
<1>13. CASE ~(op.op = "update" /\ ~hadLabel /\ ~op.new.label) /\ ~(hadLabel /\ ~op.new.label)
  <2>1. PICK r : r = IsEgressNodeReachable(c2, n) OBVIOUS
  <2>2. PICK th : th = thread[n] OBVIOUS
  <2>3. /\ cache' = c2 /\ Goto(n, "probed", [th EXCEPT !.reachable = r])
        /\ UNCHANGED <<entry, initial>>
    BY <1>3, <1>6, <1>7, <1>8, <1>9, <1>13, <2>1, <2>2 DEF NodeLabel
  <2>4. r \in BOOLEAN BY <2>1 DEF IsEgressNodeReachable
  <2>5. ThreadOK(n, th) BY <1>1, <1>4, <2>2 DEF ThreadsInv
  <2>6. PICK new : new = [[th EXCEPT !.reachable = r] EXCEPT !.pc = "probed"] OBVIOUS
  <2>7. th \in ThreadState BY <2>5 DEF ThreadOK
  <2>8. new \in ThreadState BY <2>4, <2>6, <2>7 DEF ThreadState
  <2>9. new.pc = "probed" /\ new.ops = th.ops /\ new.calls = th.calls BY <2>6, <2>7 DEF ThreadState
  <2>10. ThreadOK(n, new) BY <1>2, <2>2, <2>5, <2>8, <2>9 DEF ThreadOK
  <2>11. ThreadOK(n, [[th EXCEPT !.reachable = r] EXCEPT !.pc = "probed"]) BY <2>6, <2>10
  <2>12. EntriesInv' /\ ThreadsInv' /\ InitialInv' BY <1>1, <1>4, <2>3, <2>11, GotoOK
  <2>13. CacheInv' BY <2>3 DEF CacheInv
  <2> QED BY <1>10, <2>12, <2>13, HandlerFrame
<1> QED BY <1>11, <1>12, <1>13

LEMMA NodeAddedOK == ASSUME TypeInv, NEW n \in Nodes, NodeAdded(n) PROVE TypeInv'
<1>1. EntriesInv /\ ThreadsInv /\ InitialInv /\ cache \in CacheType BY DEF TypeInv, CacheInv
<1>2. thread[n].pc # "idle" BY DEF NodeAdded
<1>3. n \in Threads BY <1>1, <1>2, HeadOp
<1>4. PICK use : use = (Head(thread[n].ops).new.label /\ Head(thread[n].ops).new.ready /\ thread[n].reachable) OBVIOUS
<1>5. PICK jobs : jobs = IF use THEN JobOf("add", n) ELSE <<>> OBVIOUS
<1>6. /\ cache' = IF use THEN SetNodeEgressReachable(cache, n, TRUE) ELSE cache
      /\ RunJobs(n, jobs) /\ UNCHANGED HandlerVars
  BY <1>4, <1>5 DEF NodeAdded
<1>7. CacheInv'
  <2>1. SetNodeEgressReachable(cache, n, TRUE) \in CacheType BY <1>1, SetEgressType DEF SetNodeEgressReachable
  <2> QED BY <1>1, <1>6, <2>1 DEF CacheInv
<1>8. jobs \in Seq(Job)
  <2>1. JobOf("add", n) \in Seq(Job) BY JobOfType
  <2> QED BY <1>5, <2>1
<1>9. EntriesInv' /\ ThreadsInv' /\ InitialInv' BY <1>1, <1>2, <1>3, <1>6, <1>8, RunJobsOK
<1> QED BY <1>6, <1>7, <1>9, HandlerFrame

LEMMA NodeUpdatedOK == ASSUME TypeInv, NEW n \in Nodes, NodeUpdated(n) PROVE TypeInv'
<1>1. EntriesInv /\ ThreadsInv /\ InitialInv /\ cache \in CacheType BY DEF TypeInv, CacheInv
<1>2. thread[n].pc # "idle" /\ Head(thread[n].ops).op = "update" BY DEF NodeUpdated
<1>3. PICK old : old = Head(thread[n].ops).old OBVIOUS
<1>4. PICK new : new = Head(thread[n].ops).new OBVIOUS
<1>5. n \in Threads /\ new \in NodeObject BY <1>1, <1>2, <1>4, HeadOp
<1>6. new.ready \in BOOLEAN BY <1>5 DEF NodeObject
<1>7. PICK c1 \in CacheType : c1 = SetNodeEgressReady(cache, n, new.ready)
  BY <1>1, <1>6, SetEgressType DEF SetNodeEgressReady
<1>8. PICK use : use = (new.ready /\ thread[n].reachable) OBVIOUS
<1>9. PICK altered : altered = (<<old.annotated, old.addrs>> # <<new.annotated, new.addrs>>) OBVIOUS
<1>10. PICK same : same = (old.label /\ old.ready = new.ready /\ ~altered) OBVIOUS
<1>11. PICK jobs : jobs = CASE same       -> <<>>
                            [] ~old.label -> IF use THEN JobOf("add", n) ELSE <<>>
                            [] OTHER      -> (IF ~new.ready THEN JobOf("delete", n)
                                              ELSE IF use THEN JobOf("add", n) ELSE <<>>)
                                             \o (IF altered THEN JobOf("networks", n) ELSE <<>>)
  OBVIOUS
<1>12. /\ cache' = IF use /\ ~same THEN SetNodeEgressReachable(c1, n, TRUE) ELSE c1
       /\ RunJobs(n, jobs) /\ UNCHANGED HandlerVars
  BY <1>3, <1>4, <1>7, <1>8, <1>9, <1>10, <1>11 DEF NodeUpdated
<1>13. CacheInv'
  <2>1. SetNodeEgressReachable(c1, n, TRUE) \in CacheType BY SetEgressType DEF SetNodeEgressReachable
  <2> QED BY <1>12, <2>1 DEF CacheInv
<1>14. jobs \in Seq(Job)
  <2>1. PICK a : a = IF ~new.ready THEN JobOf("delete", n) ELSE IF use THEN JobOf("add", n) ELSE <<>> OBVIOUS
  <2>2. PICK b : b = IF altered THEN JobOf("networks", n) ELSE <<>> OBVIOUS
  <2>3. PICK d : d = IF use THEN JobOf("add", n) ELSE <<>> OBVIOUS
  <2>4. a \in Seq(Job) /\ b \in Seq(Job) /\ d \in Seq(Job) /\ a \o b \in Seq(Job)
    <3>1. /\ JobOf("delete", n) \in Seq(Job) /\ JobOf("add", n) \in Seq(Job) /\ JobOf("networks", n) \in Seq(Job)
          /\ <<>> \in Seq(Job)
      BY JobOfType
    <3>2. a \in Seq(Job) BY <2>1, <3>1
    <3>3. b \in Seq(Job) BY <2>2, <3>1
    <3>4. d \in Seq(Job) BY <2>3, <3>1
    <3>5. a \o b \in Seq(Job) BY <3>2, <3>3
    <3> QED BY <3>2, <3>3, <3>4, <3>5
  <2>5. CASE same
    <3>1. old.label BY <1>10, <2>5
    <3>2. jobs = <<>> BY <1>11, <2>5, <3>1
    <3> QED BY <3>2
  <2>6. CASE ~same /\ ~old.label
    <3>1. jobs = d BY <1>11, <2>3, <2>6
    <3> QED BY <2>4, <3>1
  <2>7. CASE ~same /\ old.label
    <3>1. jobs = a \o b BY <1>11, <2>1, <2>2, <2>7
    <3> QED BY <2>4, <3>1
  <2> QED BY <2>5, <2>6, <2>7
<1>15. EntriesInv' /\ ThreadsInv' /\ InitialInv' BY <1>1, <1>2, <1>5, <1>12, <1>14, RunJobsOK
<1> QED BY <1>12, <1>13, <1>15, HandlerFrame

LEMMA NodeDeletedOK == ASSUME TypeInv, NEW n \in Nodes, NodeDeleted(n) PROVE TypeInv'
<1>1. EntriesInv /\ ThreadsInv /\ InitialInv /\ cache \in CacheType BY DEF TypeInv, CacheInv
<1>2. thread[n].pc # "idle" BY DEF NodeDeleted
<1>3. n \in Threads BY <1>1, <1>2, HeadOp
<1>4. PICK jobs : jobs = IF Head(thread[n].ops).old.label THEN JobOf("delete", n) ELSE <<>> OBVIOUS
<1>5. cache' = [cache EXCEPT ![n] = None] /\ RunJobs(n, jobs) /\ UNCHANGED HandlerVars BY <1>4 DEF NodeDeleted
<1>6. CacheInv' BY <1>1, <1>5 DEF CacheInv, CacheType
<1>7. jobs \in Seq(Job)
  <2>1. JobOf("delete", n) \in Seq(Job) BY JobOfType
  <2> QED BY <1>4, <2>1
<1>8. EntriesInv' /\ ThreadsInv' /\ InitialInv' BY <1>1, <1>2, <1>3, <1>5, <1>7, RunJobsOK
<1> QED BY <1>5, <1>6, <1>8, HandlerFrame

LEMMA CheckReachabilityOK == ASSUME TypeInv, CheckReachability PROVE TypeInv'
<1>1. EntriesInv /\ ThreadsInv /\ InitialInv /\ cache \in CacheType /\ reach \in [Nodes -> BOOLEAN]
  BY DEF TypeInv, CacheInv, ObjectsInv
<1>2. PICK changed : changed = {n \in Nodes : InUse(n) /\ cache[n].isReachable # reach[n]} OBVIOUS
<1>3. PICK s \in SetToSeqs(changed) :
         RunJobs(Loop, [i \in DOMAIN s |-> [kind |-> IF reach[s[i]] THEN "add" ELSE "delete", node |-> s[i]]])
  BY <1>2 DEF CheckReachability
<1>4. /\ changed # {} /\ UNCHANGED HandlerVars
      /\ cache' = [n \in Nodes |-> IF n \in changed THEN [cache[n] EXCEPT !.isReachable = reach[n]] ELSE cache[n]]
  BY <1>2 DEF CheckReachability
<1>5. CacheInv'
  <2>1. ASSUME NEW n \in changed PROVE [cache[n] EXCEPT !.isReachable = reach[n]] \in EgressNode
    <3>1. n \in Nodes /\ cache[n] # None BY <1>2 DEF InUse
    <3>2. cache[n] \in EgressNode /\ reach[n] \in BOOLEAN BY <1>1, <3>1 DEF CacheType
    <3> QED BY <3>2 DEF EgressNode
  <2> QED BY <1>1, <1>4, <2>1 DEF CacheInv, CacheType
<1>6. PICK jobs : jobs = [i \in DOMAIN s |-> [kind |-> IF reach[s[i]] THEN "add" ELSE "delete", node |-> s[i]]] OBVIOUS
<1>7. changed \subseteq Nodes /\ IsFiniteSet(changed) BY <1>2, ConstantsTyped, FS_Subset
<1>8. s \in Seq(changed) /\ Len(s) = Cardinality(changed) /\ Len(s) \in Nat /\ DOMAIN s = 1 .. Len(s)
  BY <1>7, SequencesOf
<1>9. Len(s) # 0 BY <1>4, <1>7, <1>8, FS_EmptySet
<1>10. jobs \in Seq(Job)
  <2>1. ASSUME NEW i \in 1 .. Len(s)
        PROVE  [kind |-> IF reach[s[i]] THEN "add" ELSE "delete", node |-> s[i]] \in Job
    <3>1. s[i] \in Nodes BY <1>7, <1>8
    <3> QED BY <3>1 DEF Job
  <2>2. jobs = [i \in 1 .. Len(s) |-> [kind |-> IF reach[s[i]] THEN "add" ELSE "delete", node |-> s[i]]]
    BY <1>6, <1>8
  <2>3. jobs \in [1 .. Len(s) -> Job] BY <2>1, <2>2
  <2> QED BY <1>8, <2>3
<1>11. jobs # <<>>
  <2>1. DOMAIN jobs = 1 .. Len(s) BY <1>6, <1>8
  <2>2. 1 \in DOMAIN jobs BY <1>8, <1>9, <2>1
  <2> QED BY <2>2
<1>12. Loop \in Threads BY DEF Threads
<1>13. RunJobs(Loop, jobs) BY <1>3, <1>6
<1>14. EntriesInv' /\ ThreadsInv' /\ InitialInv' BY <1>1, <1>10, <1>11, <1>12, <1>13, RunJobsOK
<1> QED BY <1>4, <1>5, <1>14, HandlerFrame

LEMMA ListOK == ASSUME TypeInv, NEW t \in Threads, List(t) PROVE TypeInv'
<1>1. EntriesInv /\ ThreadsInv /\ InitialInv /\ eips \in [EIPs -> EIPObject \cup {None}] BY DEF TypeInv, ObjectsInv
<1>2. cache' = cache /\ UNCHANGED HandlerVars /\ thread[t].pc = "list" BY DEF List
<1>3. CacheInv' BY <1>2 DEF TypeInv, CacheInv
<1>4. PICK th : th = thread[t] OBVIOUS
<1>5. ThreadOK(t, th) /\ th.pc = "list" BY <1>1, <1>2, <1>4 DEF ThreadsInv
<1>6. PICK job : job = Head(th.jobs) OBVIOUS
<1>7. PICK named : named = {x \in EIPs : eips[x] # None /\ Concerned(job, eips[x])} OBVIOUS
<1>8. PICK calls : calls = {[name |-> e, old |-> None, new |-> eips[e]] : e \in named} OBVIOUS
<1>9. IF calls = {} THEN JobDone(t, th, Unknown(job))
      ELSE Goto(t, "lock", [th EXCEPT !.calls = calls]) /\ UNCHANGED <<entry, initial>>
  BY <1>4, <1>6, <1>7, <1>8 DEF List
<1>10. EntriesInv' /\ ThreadsInv' /\ InitialInv'
  <2>1. CASE calls = {}
    <3>1. JobDone(t, th, Unknown(job)) BY <1>9, <2>1
    <3>2. Unknown(job) \in BOOLEAN BY DEF Unknown
    <3>3. th.pc # "idle" /\ th.jobs # <<>> BY <1>5 DEF ThreadOK
    <3> QED BY <1>1, <1>5, <3>1, <3>2, <3>3, JobDoneOK
  <2>2. CASE calls # {}
    <3>1. calls \subseteq CallOf
      <4>1. ASSUME NEW e \in named PROVE [name |-> e, old |-> None, new |-> eips[e]] \in CallOf
        <5>1. e \in EIPs /\ eips[e] \in EIPObject /\ eips[e] # None BY <1>1, <1>7
        <5> QED BY <5>1 DEF CallOf, Call
      <4> QED BY <1>8, <4>1
    <3>2. calls \in SUBSET Call BY <3>1 DEF CallOf
    <3>3. PICK new : new = [[th EXCEPT !.calls = calls] EXCEPT !.pc = "lock"] OBVIOUS
    <3>4. th \in ThreadState BY <1>5 DEF ThreadOK
    <3>5. new \in ThreadState BY <3>2, <3>3, <3>4 DEF ThreadState
    <3>6. new.pc = "lock" /\ new.ops = th.ops /\ new.calls = calls BY <3>3, <3>4 DEF ThreadState
    <3>7. ThreadOK(t, new) BY <1>5, <3>1, <3>5, <3>6 DEF ThreadOK
    <3>8. ThreadOK(t, [[th EXCEPT !.calls = calls] EXCEPT !.pc = "lock"]) BY <3>3, <3>7
    <3>9. Goto(t, "lock", [th EXCEPT !.calls = calls]) /\ UNCHANGED <<entry, initial>> BY <1>9, <2>2
    <3> QED BY <1>1, <3>8, <3>9, GotoOK
  <2> QED BY <2>1, <2>2
<1> QED BY <1>2, <1>3, <1>10, HandlerFrame

LEMMA ListFailsOK == ASSUME TypeInv, NEW t \in Threads, ListFails(t) PROVE TypeInv'
<1>1. EntriesInv /\ ThreadsInv /\ InitialInv BY DEF TypeInv
<1>2. PICK th : th = thread[t] OBVIOUS
<1>3. ThreadOK(t, th) /\ th.pc = "list" BY <1>1, <1>2 DEF ThreadsInv, ListFails
<1>4. th.pc # "idle" /\ th.jobs # <<>> BY <1>3 DEF ThreadOK
<1>5. JobDone(t, th, TRUE) BY <1>2 DEF ListFails
<1>6. EntriesInv' /\ ThreadsInv' /\ InitialInv' BY <1>1, <1>3, <1>4, <1>5, JobDoneOK
<1>7. UNCHANGED <<scenario, nodes, eips, reach, events, seen, cache, mutex, changes, restarts>>
      /\ failures' = failures + 1
  BY DEF ListFails, APIFails
<1>8. VersionsInv' BY <1>7, VersionsSame DEF TypeInv
<1>9. ObjectsInv' /\ CacheInv' /\ MutexInv' BY <1>7 DEF TypeInv, ObjectsInv, CacheInv, MutexInv
<1> QED BY <1>6, <1>8, <1>9 DEF TypeInv

\* The status and the spec of a call.
LEMMA CallParts ==
    ASSUME NEW call \in CallOf
    PROVE  call.name \in EIPs /\ CallStatus(call) \subseteq StatusItem /\ CallSpec(call) \subseteq IPs
<1>1. call \in Call /\ (call.old # None \/ call.new # None) BY DEF CallOf
<1>2. call.name \in EIPs /\ call.old \in EIPObject \cup {None} /\ call.new \in EIPObject \cup {None} BY <1>1 DEF Call
<1> QED BY <1>1, <1>2 DEF CallStatus, CallSpec, EIPObject

LEMMA ValidateOK == ASSUME TypeInv, NEW t \in Threads, Validate(t) PROVE TypeInv'
<1>1. EntriesInv /\ ThreadsInv /\ InitialInv /\ cache \in CacheType BY DEF TypeInv, CacheInv
<1>2. PICK th : th = thread[t] OBVIOUS
<1>3. ThreadOK(t, th) /\ th.pc = "lock" BY <1>1, <1>2 DEF ThreadsInv, Validate
<1>4. PICK call \in th.calls :
         LET keep   == KeptStatus(cache, call)
             remove == CallStatus(call) \ keep
         IN  /\ cache' = DeleteAssignments(cache, remove)
             /\ Goto(t, "assign", [th EXCEPT !.call = call, !.keep = keep, !.remove = remove,
                                             !.ips = IPsToAssign(call, keep, remove)])
  BY <1>2 DEF Validate
<1>5. PICK keep : keep = KeptStatus(cache, call) OBVIOUS
<1>6. PICK remove : remove = CallStatus(call) \ keep OBVIOUS
<1>7. PICK ips : ips = IPsToAssign(call, keep, remove) OBVIOUS
<1>8. call \in CallOf BY <1>3 DEF ThreadOK
<1>9. call \in Call \cup {None} BY <1>8 DEF CallOf
<1>10. keep \in SUBSET StatusItem /\ remove \in SUBSET StatusItem /\ ips \in SUBSET IPs
  BY <1>5, <1>6, <1>7, <1>8, CallParts DEF KeptStatus, IPsToAssign
<1>11. /\ cache' = DeleteAssignments(cache, remove)
       /\ Goto(t, "assign", [th EXCEPT !.call = call, !.keep = keep, !.remove = remove, !.ips = ips])
  BY <1>4, <1>5, <1>6, <1>7
<1>12. PICK new : new = [[th EXCEPT !.call = call, !.keep = keep, !.remove = remove, !.ips = ips] EXCEPT !.pc = "assign"]
  OBVIOUS
<1>13. th \in ThreadState BY <1>3 DEF ThreadOK
<1>14. new \in ThreadState BY <1>9, <1>10, <1>12, <1>13 DEF ThreadState
<1>15. new.pc = "assign" /\ new.ops = th.ops /\ new.calls = th.calls /\ new.call = call BY <1>12, <1>13 DEF ThreadState
<1>16. ThreadOK(t, new) BY <1>3, <1>8, <1>14, <1>15 DEF ThreadOK
<1>17. thread' = [thread EXCEPT ![t] = new] BY <1>11, <1>12 DEF Goto
<1>18. ThreadsInv' BY <1>1, <1>16, <1>17, ThreadsSet
<1>19. CacheInv' BY <1>1, <1>11, DeleteType DEF CacheInv
<1>20. UNCHANGED <<scenario, nodes, eips, reach, events, seen, entry, initial, changes, failures, restarts>> /\ mutex' = t
  BY DEF Validate
<1>21. VersionsInv' BY <1>20, VersionsSame DEF TypeInv
<1>22. ObjectsInv' /\ EntriesInv' /\ InitialInv' /\ MutexInv'
  BY <1>1, <1>20 DEF TypeInv, ObjectsInv, EntriesInv, InitialInv, MutexInv
<1> QED BY <1>18, <1>19, <1>21, <1>22 DEF TypeInv

\* The step that assigns: what it does with the cache and the thread.
LEMMA AssignDoes ==
    ASSUME TypeInv, NEW t \in Threads, Assign(t)
    PROVE  \E r : /\ \/ r = [cache |-> cache, items |-> {}]
                     \/ r \in AssignEgressIPs(cache, thread[t].call.name, thread[t].ips)
                  /\ cache' = r.cache
                  /\ thread' = [thread EXCEPT ![t] = [[thread[t] EXCEPT !.add = r.items, !.ips = {}] EXCEPT !.pc = "keep"]]
<1>1. PICK r \in IF thread[t].ips = {} THEN {[cache |-> cache, items |-> {}]}
                 ELSE AssignEgressIPs(cache, thread[t].call.name, thread[t].ips) :
         cache' = r.cache /\ Goto(t, "keep", [thread[t] EXCEPT !.add = r.items, !.ips = {}])
  BY DEF Assign
<1> HIDE DEF AssignEgressIPs
<1> QED BY <1>1 DEF Goto

LEMMA AssignOK == ASSUME TypeInv, NEW t \in Threads, Assign(t) PROVE TypeInv'
<1>1. EntriesInv /\ ThreadsInv /\ InitialInv /\ cache \in CacheType BY DEF TypeInv, CacheInv
<1>2. PICK th : th = thread[t] OBVIOUS
<1>3. ThreadOK(t, th) /\ th.pc = "assign" BY <1>1, <1>2 DEF ThreadsInv, Assign
<1>4. th \in ThreadState /\ th.call \in CallOf BY <1>3 DEF ThreadOK
<1>5. th.ips \in SUBSET IPs BY <1>4 DEF ThreadState
<1>6. th.call.name \in EIPs BY <1>4, CallParts
<1>7. PICK r : /\ \/ r = [cache |-> cache, items |-> {}]
                  \/ r \in AssignEgressIPs(cache, th.call.name, th.ips)
               /\ cache' = r.cache
               /\ thread' = [thread EXCEPT ![t] = [[th EXCEPT !.add = r.items, !.ips = {}] EXCEPT !.pc = "keep"]]
  BY <1>2, AssignDoes
<1>8. r.cache \in CacheType /\ r.items \in SUBSET StatusItem
  <2>1. CASE r = [cache |-> cache, items |-> {}] BY <1>1, <2>1
  <2>2. CASE r \in AssignEgressIPs(cache, th.call.name, th.ips)
    BY <1>1, <1>5, <1>6, <2>2, AssignmentSound
  <2> QED BY <1>7, <2>1, <2>2
<1>9. PICK new : new = [[th EXCEPT !.add = r.items, !.ips = {}] EXCEPT !.pc = "keep"] OBVIOUS
<1>10. new \in ThreadState BY <1>4, <1>8, <1>9 DEF ThreadState
<1>11. new.pc = "keep" /\ new.ops = th.ops /\ new.calls = th.calls /\ new.call = th.call BY <1>4, <1>9 DEF ThreadState
<1>12. ThreadOK(t, new) BY <1>3, <1>10, <1>11 DEF ThreadOK
<1>13. ThreadsInv' BY <1>1, <1>7, <1>9, <1>12, ThreadsSet
<1>14. CacheInv' BY <1>7, <1>8 DEF CacheInv
<1>15. UNCHANGED HandlerVars /\ UNCHANGED <<entry, initial>> BY DEF Assign
<1>16. EntriesInv' /\ InitialInv' BY <1>1, <1>15 DEF EntriesInv, InitialInv
<1> QED BY <1>13, <1>14, <1>15, <1>16, HandlerFrame

LEMMA KeepOK == ASSUME TypeInv, NEW t \in Threads, Keep(t) PROVE TypeInv'
<1>1. EntriesInv /\ ThreadsInv /\ InitialInv /\ cache \in CacheType BY DEF TypeInv, CacheInv
<1>2. PICK th : th = thread[t] OBVIOUS
<1>3. ThreadOK(t, th) /\ th.pc = "keep" BY <1>1, <1>2 DEF ThreadsInv, Keep
<1>4. th \in ThreadState /\ th.call \in CallOf BY <1>3 DEF ThreadOK
<1>5. th.call.name \in EIPs BY <1>4, CallParts
<1>6. cache' = AddAssignments(cache, th.call.name, th.keep \cup th.add) /\ Goto(t, "patch", th) BY <1>2 DEF Keep
<1>7. CacheInv' BY <1>1, <1>5, <1>6, AddType DEF CacheInv
<1>8. PICK new : new = [th EXCEPT !.pc = "patch"] OBVIOUS
<1>9. new \in ThreadState BY <1>4, <1>8 DEF ThreadState
<1>10. new.pc = "patch" /\ new.ops = th.ops /\ new.calls = th.calls /\ new.call = th.call BY <1>4, <1>8 DEF ThreadState
<1>11. ThreadOK(t, new) BY <1>3, <1>9, <1>10 DEF ThreadOK
<1>12. thread' = [thread EXCEPT ![t] = new] BY <1>6, <1>8 DEF Goto
<1>13. ThreadsInv' BY <1>1, <1>11, <1>12, ThreadsSet
<1>14. UNCHANGED HandlerVars /\ UNCHANGED <<entry, initial>> BY DEF Keep
<1>15. EntriesInv' /\ InitialInv' BY <1>1, <1>14 DEF EntriesInv, InitialInv
<1> QED BY <1>7, <1>13, <1>14, <1>15, HandlerFrame

LEMMA PatchOK == ASSUME TypeInv, NEW t \in Threads, Patch(t) PROVE TypeInv'
<1>1. ObjectsInv /\ VersionsInv /\ EntriesInv /\ ThreadsInv /\ InitialInv BY DEF TypeInv
<1>2. PICK th : th = thread[t] OBVIOUS
<1>3. ThreadOK(t, th) /\ th.pc = "patch" BY <1>1, <1>2 DEF ThreadsInv, Patch
<1>4. th \in ThreadState /\ th.call \in CallOf BY <1>3 DEF ThreadOK
<1>5. th.keep \in SUBSET StatusItem /\ th.add \in SUBSET StatusItem BY <1>4 DEF ThreadState
<1>6. PICK e : e = th.call.name OBVIOUS
<1>7. e \in EIPs BY <1>4, <1>6, CallParts
<1>8. PICK eip : eip = [eips[e] EXCEPT !.status = th.keep \cup th.add] OBVIOUS
<1>9. \E failed \in BOOLEAN : CallDone(t, failed) BY DEF Patch
<1>10. EntriesInv' /\ ThreadsInv' /\ InitialInv' /\ MutexInv' BY <1>1, <1>2, <1>3, <1>9, CallDoneOK
<1>11. UNCHANGED <<scenario, nodes, reach, seen, cache, changes, failures, restarts>> BY DEF Patch
<1>12. CacheInv' BY <1>11 DEF TypeInv, CacheInv
<1>13. \/ UNCHANGED <<eips, events>>
       \/ /\ eips[e] # None /\ eips' = [eips EXCEPT ![e] = eip]
          /\ events' = IF eip = eips[e] THEN events ELSE [events EXCEPT ![e] = Append(events[e], eip)]
  <2>1. e \in Workers BY <1>7 DEF Workers
  <2>2. e \in DOMAIN events BY <1>1, <2>1 DEF VersionsInv
  <2> QED BY <1>2, <1>6, <1>8, <2>2 DEF Patch
<1>14. ObjectsInv' /\ VersionsInv'
  <2>1. CASE UNCHANGED <<eips, events>>
    <3>1. ObjectsInv' BY <1>1, <1>11, <2>1 DEF ObjectsInv
    <3>2. VersionsInv' BY <1>1, <1>11, <2>1, VersionsSame
    <3> QED BY <3>1, <3>2
  <2>2. CASE /\ eips[e] # None /\ eips' = [eips EXCEPT ![e] = eip]
             /\ events' = IF eip = eips[e] THEN events ELSE [events EXCEPT ![e] = Append(events[e], eip)]
    <3>1. eips[e] \in EIPObject BY <1>1, <1>7, <2>2 DEF ObjectsInv
    <3>2. eip \in EIPObject BY <1>5, <1>8, <3>1 DEF EIPObject
    <3>3. ObjectsInv' BY <1>1, <1>11, <2>2, <3>2 DEF ObjectsInv
    <3>4. e \in Workers /\ e \notin Nodes BY <1>7, ConstantsTyped DEF Workers
    <3>5. VersionsOK(e, events[e], seen[e], eips[e]) BY <1>1, <3>4 DEF VersionsInv, Latest
    <3>6. DOMAIN events' = Workers /\ DOMAIN seen' = Workers BY <1>1, <1>11, <2>2 DEF VersionsInv
    <3>7. Latest(e)' = eip BY <1>1, <1>7, <2>2, <3>4 DEF Latest, ObjectsInv
    <3>8. ASSUME NEW j \in Workers \ {e}
          PROVE  events'[j] = events[j] /\ seen'[j] = seen[j] /\ Latest(j)' = Latest(j)
      BY <1>1, <1>11, <2>2 DEF VersionsInv, Latest, ObjectsInv, Workers
    <3>9. VersionsOK(e, events'[e], seen'[e], Latest(e)')
      <4>1. CASE eip = eips[e]
        <5>1. events'[e] = events[e] /\ seen'[e] = seen[e] BY <1>11, <2>2, <4>1
        <5> QED BY <3>5, <3>7, <4>1, <5>1
      <4>2. CASE eip # eips[e]
        <5>1. events'[e] = Append(events[e], eip) /\ seen'[e] = seen[e] BY <1>1, <1>11, <2>2, <3>4, <4>2 DEF VersionsInv
        <5>2. eip \in VersionOf(e) BY <3>2, <3>4 DEF VersionOf, ObjectOf
        <5>3. VersionsOK(e, Append(events[e], eip), seen[e], eip) BY <2>2, <3>5, <5>2, VersionsAppend
        <5> QED BY <3>7, <5>1, <5>3
      <4> QED BY <4>1, <4>2
    <3>10. VersionsInv' BY <1>1, <3>4, <3>6, <3>8, <3>9, VersionsSet
    <3> QED BY <3>3, <3>10
  <2> QED BY <1>13, <2>1, <2>2
<1> QED BY <1>10, <1>12, <1>14 DEF TypeInv

LEMMA PatchFailsOK == ASSUME TypeInv, NEW t \in Threads, PatchFails(t) PROVE TypeInv'
<1>1. EntriesInv /\ ThreadsInv /\ InitialInv BY DEF TypeInv
<1>2. thread[t].pc = "patch" /\ CallDone(t, TRUE) BY DEF PatchFails
<1>3. EntriesInv' /\ ThreadsInv' /\ InitialInv' /\ MutexInv' BY <1>1, <1>2, CallDoneOK
<1>4. UNCHANGED <<scenario, nodes, eips, reach, events, seen, cache, changes, restarts>> /\ failures' = failures + 1
  BY DEF PatchFails, APIFails
<1>5. VersionsInv' BY <1>4, VersionsSame DEF TypeInv
<1>6. ObjectsInv' /\ CacheInv' BY <1>4 DEF TypeInv, ObjectsInv, CacheInv
<1> QED BY <1>3, <1>5, <1>6 DEF TypeInv

LEMMA TypeStep == ASSUME TypeInv, [Next]_vars PROVE TypeInv'
<1>1. CASE Environment BY <1>1, EnvironmentOK
<1>2. CASE CheckReachability BY <1>2, CheckReachabilityOK
<1>3. ASSUME NEW k \in Workers, WorkerStep(k) PROVE TypeInv'
  <2>1. CASE HandleEvent(k) BY <2>1, HandleEventOK
  <2>2. CASE Retry(k) BY <2>2, RetryOK
  <2>3. CASE NodeLabel(k)
    <3>1. k \in Nodes BY <2>3 DEF NodeLabel
    <3> QED BY <2>3, <3>1, NodeLabelOK
  <2>4. CASE NodeAdded(k)
    <3>1. k \in Nodes BY <2>4 DEF NodeAdded
    <3> QED BY <2>4, <3>1, NodeAddedOK
  <2>5. CASE NodeUpdated(k)
    <3>1. k \in Nodes BY <2>5 DEF NodeUpdated
    <3> QED BY <2>5, <3>1, NodeUpdatedOK
  <2>6. CASE NodeDeleted(k)
    <3>1. k \in Nodes BY <2>6 DEF NodeDeleted
    <3> QED BY <2>6, <3>1, NodeDeletedOK
  <2> QED BY <1>3, <2>1, <2>2, <2>3, <2>4, <2>5, <2>6 DEF WorkerStep
<1>4. ASSUME NEW t \in Threads, CallStep(t) \/ Failure(t) PROVE TypeInv'
  <2>1. CASE List(t) BY <2>1, ListOK
  <2>2. CASE Validate(t) BY <2>2, ValidateOK
  <2>3. CASE Assign(t) BY <2>3, AssignOK
  <2>4. CASE Keep(t) BY <2>4, KeepOK
  <2>5. CASE Patch(t) BY <2>5, PatchOK
  <2>6. CASE ListFails(t) BY <2>6, ListFailsOK
  <2>7. CASE PatchFails(t) BY <2>7, PatchFailsOK
  <2> QED BY <1>4, <2>1, <2>2, <2>3, <2>4, <2>5, <2>6, <2>7 DEF CallStep, Failure
<1>5. CASE UNCHANGED vars
  <2>1. UNCHANGED <<scenario, nodes, eips, reach, events, seen, entry, initial, cache, mutex, thread,
                    changes, failures, restarts>>
    BY <1>5 DEF vars
  <2>2. VersionsInv' BY <2>1, VersionsSame DEF TypeInv
  <2> QED BY <2>1, <2>2 DEF TypeInv, ObjectsInv, EntriesInv, ThreadsInv, CacheInv, MutexInv, InitialInv
<1> QED BY <1>1, <1>2, <1>3, <1>4, <1>5 DEF Next, System

\* The controller never leaves its types, although the events, the retry entries
\* and the snapshots that its goroutines hold are of different ages: no handler is
\* called without the object it looks into, and the cache stays well formed while
\* the setters of node state and reconcileEgressIP take turns on it.
THEOREM TypeCorrect == Spec => []TypeOK
<1>1. Spec => []TypeInv BY InitOK, TypeStep, PTL DEF Spec
<1>2. TypeInv => TypeOK BY TypeInvType
<1> QED BY <1>1, <1>2, PTL

-----------------------------------------------------------------------------
(***************************************************************************)
(* The constraints on assignments                                          *)
(***************************************************************************)

\* An assignment that is not in the cache yet is the only one of the EgressIP on
\* its node afterwards.
LEMMA CountedOnce ==
    ASSUME NEW c \in CacheType, NEW name \in EIPs, NEW items \in SUBSET StatusItem, NEW x \in items,
           Fresh(c, name, items, x)
    PROVE  AllocationCount(AddAssignments(c, name, items), x.node, name) = 1
<1>1. PICK d : d = AddAssignments(c, name, items) OBVIOUS
<1>2. x.node \in Nodes /\ x.ip \in IPs /\ x = [ip |-> x.ip, node |-> x.node] BY DEF StatusItem
<1>3. c[x.node] # None BY DEF Fresh, IsAssignable
<1>4. \A ip \in IPs : c[x.node].allocations[ip] # name BY NoneCounted DEF Fresh
<1>5. \A ip \in IPs : d[x.node].allocations[ip] =
                          IF [ip |-> ip, node |-> x.node] \in items THEN name ELSE c[x.node].allocations[ip]
  BY <1>1, <1>2, <1>3, AddType
<1>6. \A ip \in IPs : [ip |-> ip, node |-> x.node] \in items <=> ip = x.ip
  <2>1. ASSUME NEW ip \in IPs, [ip |-> ip, node |-> x.node] \in items PROVE ip = x.ip
    <3>1. PICK y \in items : y = [ip |-> ip, node |-> x.node] BY <2>1
    <3>2. y.node = x.node /\ y.ip = ip BY <3>1
    <3>3. y = x BY <3>2 DEF Fresh
    <3> QED BY <3>2, <3>3
  <2> QED BY <1>2, <2>1
<1>7. {ip \in IPs : d[x.node].allocations[ip] = name} = {x.ip}
  <2>1. ASSUME NEW ip \in IPs PROVE d[x.node].allocations[ip] = name <=> ip = x.ip
    <3>1. CASE [ip |-> ip, node |-> x.node] \in items
      <4>1. d[x.node].allocations[ip] = name BY <1>5, <3>1
      <4>2. ip = x.ip BY <1>6, <3>1
      <4> QED BY <4>1, <4>2
    <3>2. CASE [ip |-> ip, node |-> x.node] \notin items
      <4>1. d[x.node].allocations[ip] = c[x.node].allocations[ip] BY <1>5, <3>2
      <4>2. ip # x.ip BY <1>6, <3>2
      <4> QED BY <1>4, <4>1, <4>2
    <3> QED BY <3>1, <3>2
  <2> QED BY <1>2, <2>1
<1>8. Cardinality({x.ip}) = 1 BY FS_Singleton
<1>9. AllocationCount(d, x.node, name) = 1 BY <1>7, <1>8 DEF AllocationCount
<1> QED BY <1>1, <1>9

LEMMA AssignSound ==
    ASSUME TypeInv, NEW t \in Threads, Assign(t)
    PROVE  \A x \in thread'[t].add : AssignedSoundly(t, thread[t].call.name, x)
<1>1. ThreadsInv /\ cache \in CacheType BY DEF TypeInv, CacheInv
<1>2. PICK th : th = thread[t] OBVIOUS
<1>3. ThreadOK(t, th) /\ th.pc = "assign" BY <1>1, <1>2 DEF ThreadsInv, Assign
<1>4. th \in ThreadState /\ th.call \in CallOf BY <1>3 DEF ThreadOK
<1>5. PICK ips \in SUBSET IPs : ips = th.ips BY <1>4 DEF ThreadState
<1>6. PICK name \in EIPs : name = th.call.name BY <1>4, CallParts
<1>7. PICK r : /\ \/ r = [cache |-> cache, items |-> {}]
                  \/ r \in AssignEgressIPs(cache, name, ips)
               /\ cache' = r.cache
               /\ thread' = [thread EXCEPT ![t] = [[th EXCEPT !.add = r.items, !.ips = {}] EXCEPT !.pc = "keep"]]
  BY <1>2, <1>5, <1>6, AssignDoes
<1>8. thread'[t].add = r.items
  <2>1. PICK new : new = [[th EXCEPT !.add = r.items, !.ips = {}] EXCEPT !.pc = "keep"] OBVIOUS
  <2>2. new.add = r.items BY <1>4, <2>1 DEF ThreadState
  <2>3. thread'[t] = new BY <1>1, <1>7, <2>1 DEF ThreadsInv
  <2> QED BY <2>2, <2>3
<1>9. CASE r = [cache |-> cache, items |-> {}]
  <2>1. thread'[t].add = {} BY <1>8, <1>9
  <2> QED BY <2>1
<1>10. CASE r \in AssignEgressIPs(cache, name, ips)
  <2>1. /\ r.items \in SUBSET StatusItem
        /\ r.cache = AddAssignments(cache, name, r.items)
        /\ \A x \in r.items : ItemOK(cache, name, ips, r.items, x)
    BY <1>1, <1>10, AssignmentSound
  <2>2. ASSUME NEW x \in r.items PROVE AssignedSoundly(t, name, x)
    <3>1. /\ x.ip \in ips /\ CanHost(nodes[x.node], x.ip) /\ ~AddrConflict(x.ip)
          /\ Recorded(cache, name, x) \/ Fresh(cache, name, r.items, x)
      BY <2>1 DEF ItemOK
    <3>2. CASE Recorded(cache, name, x)
      BY <1>2, <1>5, <3>1, <3>2 DEF AssignedSoundly, Recorded
    <3>3. CASE Fresh(cache, name, r.items, x)
      <4>1. PICK items \in SUBSET StatusItem : items = r.items BY <2>1
      <4>2. AllocationCount(AddAssignments(cache, name, items), x.node, name) = 1
        BY <1>1, <3>3, <4>1, CountedOnce
      <4>3. AllocationCount(cache', x.node, name) = 1 BY <1>7, <2>1, <4>1, <4>2
      <4> QED BY <1>2, <1>5, <1>8, <3>1, <3>3, <4>3 DEF AssignedSoundly, Fresh
    <3> QED BY <3>1, <3>2, <3>3
  <2> QED BY <1>2, <1>6, <1>8, <2>2
<1> QED BY <1>7, <1>9, <1>10

\* Only that step leads from "assign" to "keep": the others leave a thread alone,
\* or move one that is elsewhere.
Elsewhere(t) == thread'[t] = thread[t] \/ thread[t].pc # "assign" \/ thread'[t].pc # "keep"

LEMMA OneMoves ==
    ASSUME ThreadsInv, NEW u \in Threads, thread[u].pc # "assign", NEW th, thread' = [thread EXCEPT ![u] = th],
           NEW t \in Threads
    PROVE  Elsewhere(t)
BY DEF ThreadsInv, Elsewhere

LEMMA NoneMoves == ASSUME thread' = thread, NEW t \in Threads PROVE Elsewhere(t)
BY DEF Elsewhere

\* A step sets at most one thread, which is not assigning.
MovesOne(u) == thread[u].pc # "assign" /\ \E th : thread' = [thread EXCEPT ![u] = th]

LEMMA ReturnedMoves ==
    ASSUME NEW u, NEW th, NEW err, Returned(u, th, err) PROVE \E new : thread' = [thread EXCEPT ![u] = new]
BY DEF Returned

LEMMA JobDoneMoves ==
    ASSUME NEW u, NEW th, NEW err, JobDone(u, th, err) PROVE \E new : thread' = [thread EXCEPT ![u] = new]
<1>1. CASE Returned(u, th, err) BY <1>1, ReturnedMoves
<1>2. CASE ~Returned(u, th, err)
  <2>1. thread' = [thread EXCEPT ![u] = [Idle EXCEPT !.pc = "list", !.retry = th.retry, !.jobs = Tail(th.jobs),
                                                     !.ops = th.ops]]
    BY <1>2 DEF JobDone
  <2> QED BY <2>1
<1> QED BY <1>1, <1>2

LEMMA RunJobsMoves ==
    ASSUME NEW u, NEW jobs, RunJobs(u, jobs) PROVE \E new : thread' = [thread EXCEPT ![u] = new]
<1>1. CASE jobs = <<>>
  <2>1. Returned(u, thread[u], FALSE) BY <1>1 DEF RunJobs
  <2> QED BY <2>1, ReturnedMoves
<1>2. CASE jobs # <<>> BY <1>2 DEF RunJobs, Goto
<1> QED BY <1>1, <1>2

LEMMA CallDoneMoves ==
    ASSUME NEW u, NEW failed, CallDone(u, failed) PROVE \E new : thread' = [thread EXCEPT ![u] = new]
<1>1. PICK th : th = thread[u] OBVIOUS
<1>2. PICK err : err = (th.err \/ failed) OBVIOUS
<1>3. PICK rest : rest = th.calls \ {th.call} OBVIOUS
<1>4. CASE rest # {}
  <2>1. thread' = [thread EXCEPT ![u] = [Idle EXCEPT !.pc = "lock", !.retry = th.retry, !.calls = rest, !.err = err,
                                                     !.ops = th.ops, !.jobs = th.jobs]]
    BY <1>1, <1>2, <1>3, <1>4 DEF CallDone
  <2> QED BY <2>1
<1>5. CASE rest = {}
  <2>1. Returned(u, th, err) \/ JobDone(u, th, err) BY <1>1, <1>2, <1>3, <1>5 DEF CallDone
  <2> QED BY <2>1, ReturnedMoves, JobDoneMoves
<1> QED BY <1>4, <1>5

LEMMA WorkerMoves ==
    ASSUME NEW k \in Workers, WorkerStep(k) PROVE thread' = thread \/ MovesOne(k)
<1>1. CASE HandleEvent(k)
  <2>1. thread[k].pc = "idle" /\ (thread' = thread \/ \E ops : Start(k, ops, FALSE)) BY <1>1 DEF HandleEvent
  <2> QED BY <2>1 DEF Start, MovesOne
<1>2. CASE Retry(k)
  <2>1. thread[k].pc = "idle" /\ (thread' = thread \/ \E ops : Start(k, ops, TRUE)) BY <1>2 DEF Retry
  <2> QED BY <2>1 DEF Start, MovesOne
<1>3. CASE NodeLabel(k)
  <2>1. thread[k].pc = "op" BY <1>3 DEF NodeLabel
  <2>2. (\E jobs : RunJobs(k, jobs)) \/ (\E th : Goto(k, "probed", th))
    <3> USE DEF NodeLabel
    <3>1. PICK op : op = Head(thread[k].ops) OBVIOUS
    <3>2. PICK hadLabel : hadLabel = (op.op = "update" /\ op.old.label) OBVIOUS
    <3>3. CASE op.op = "update" /\ ~hadLabel /\ ~op.new.label
      <4>1. RunJobs(k, <<>>) BY <1>3, <3>1, <3>2, <3>3
      <4> QED BY <4>1
    <3>4. CASE hadLabel /\ ~op.new.label
      <4>1. RunJobs(k, JobOf("delete", k)) BY <1>3, <3>1, <3>2, <3>4
      <4> HIDE DEF NodeLabel
      <4> QED BY <4>1
    <3>5. CASE ~(op.op = "update" /\ ~hadLabel /\ ~op.new.label) /\ ~(hadLabel /\ ~op.new.label)
      <4>1. \E r : Goto(k, "probed", [thread[k] EXCEPT !.reachable = r]) BY <1>3, <3>1, <3>2, <3>5
      <4> HIDE DEF NodeLabel
      <4> QED BY <4>1
    <3> QED BY <3>3, <3>4, <3>5
  <2> QED BY <2>1, <2>2, RunJobsMoves DEF Goto, MovesOne
<1>4. CASE NodeAdded(k)
  <2>1. thread[k].pc = "probed" /\ \E jobs : RunJobs(k, jobs) BY <1>4 DEF NodeAdded
  <2> QED BY <2>1, RunJobsMoves DEF MovesOne
<1>5. CASE NodeUpdated(k)
  <2>1. thread[k].pc = "probed" /\ \E jobs : RunJobs(k, jobs) BY <1>5 DEF NodeUpdated
  <2> QED BY <2>1, RunJobsMoves DEF MovesOne
<1>6. CASE NodeDeleted(k)
  <2>1. thread[k].pc = "op" /\ \E jobs : RunJobs(k, jobs) BY <1>6 DEF NodeDeleted
  <2> QED BY <2>1, RunJobsMoves DEF MovesOne
<1> QED BY <1>1, <1>2, <1>3, <1>4, <1>5, <1>6 DEF WorkerStep

LEMMA OtherCallsMove ==
    ASSUME NEW u \in Threads, List(u) \/ Validate(u) \/ Keep(u) \/ Patch(u) \/ Failure(u) PROVE MovesOne(u)
<1>1. CASE List(u)
  <2>1. thread[u].pc = "list" /\ ((\E err : JobDone(u, thread[u], err)) \/ (\E th : Goto(u, "lock", th)))
    BY <1>1 DEF List
  <2> QED BY <2>1, JobDoneMoves DEF Goto, MovesOne
<1>2. CASE Validate(u)
  <2>1. thread[u].pc = "lock" /\ \E th : Goto(u, "assign", th) BY <1>2 DEF Validate
  <2> QED BY <2>1 DEF Goto, MovesOne
<1>3. CASE Keep(u) BY <1>3 DEF Keep, Goto, MovesOne
<1>4. CASE Patch(u)
  <2>1. thread[u].pc = "patch" /\ \E failed : CallDone(u, failed) BY <1>4 DEF Patch
  <2> QED BY <2>1, CallDoneMoves DEF MovesOne
<1>5. CASE ListFails(u)
  <2>1. thread[u].pc = "list" /\ JobDone(u, thread[u], TRUE) BY <1>5 DEF ListFails
  <2> QED BY <2>1, JobDoneMoves DEF MovesOne
<1>6. CASE PatchFails(u)
  <2>1. thread[u].pc = "patch" /\ CallDone(u, TRUE) BY <1>6 DEF PatchFails
  <2> QED BY <2>1, CallDoneMoves DEF MovesOne
<1> QED BY <1>1, <1>2, <1>3, <1>4, <1>5, <1>6 DEF Failure

LEMMA EnvironmentMoves == ASSUME Environment, NEW t \in Threads PROVE Elsewhere(t)
<1>1. CASE Restart
  <2>1. thread'[t] = Idle BY <1>1 DEF Restart
  <2> QED BY <2>1 DEF Elsewhere, Idle
<1>2. CASE ~Restart
  <2>1. thread' = thread
    <3>1. ASSUME NEW n \in Nodes, NEW node, SetNode(n, node) PROVE thread' = thread BY <3>1 DEF SetNode, UserVars
    <3>2. ASSUME NEW e \in EIPs, NEW eip, SetEIP(e, eip) PROVE thread' = thread BY <3>2 DEF SetEIP, UserVars
    <3>3. ASSUME NEW n \in Nodes, CreateNode(n) PROVE thread' = thread
      <4>1. \E node : SetNode(n, node) BY <3>3 DEF CreateNode
      <4> QED BY <3>1, <4>1
    <3>4. ASSUME NEW n \in Nodes, DeleteNode(n) PROVE thread' = thread BY <3>1, <3>4 DEF DeleteNode
    <3>5. ASSUME NEW n \in Nodes, ChangeNode(n) PROVE thread' = thread
      <4>1. \E node : SetNode(n, node) BY <3>5 DEF ChangeNode
      <4> QED BY <3>1, <4>1
    <3>6. ASSUME NEW n \in Nodes, ChangeReach(n) PROVE thread' = thread BY <3>6 DEF ChangeReach, UserVars
    <3>7. ASSUME NEW e \in EIPs, CreateEIP(e) \/ UpdateEIP(e) \/ DeleteEIP(e) PROVE thread' = thread
      <4>1. \E eip : SetEIP(e, eip) BY <3>7 DEF CreateEIP, UpdateEIP, DeleteEIP
      <4> QED BY <3>2, <4>1
    <3> QED BY <1>2, <3>3, <3>4, <3>5, <3>6, <3>7 DEF Environment
  <2> QED BY <2>1, NoneMoves
<1> QED BY <1>1, <1>2

LEMMA ConstraintsStep ==
    ASSUME TypeInv, [Next]_vars
    PROVE  [\A t \in Threads : thread[t].pc = "assign" /\ thread'[t].pc = "keep" =>
               \A x \in thread'[t].add : AssignedSoundly(t, thread[t].call.name, x)]_vars
<1> SUFFICES ASSUME NEW t \in Threads, thread[t].pc = "assign", thread'[t].pc = "keep"
             PROVE  \A x \in thread'[t].add : AssignedSoundly(t, thread[t].call.name, x)
  OBVIOUS
<1>1. ThreadsInv BY DEF TypeInv
<1>2. ~Elsewhere(t)
  <2>1. thread'[t] # thread[t] OBVIOUS
  <2> QED BY <2>1 DEF Elsewhere
<1>3. ASSUME NEW u \in Threads, MovesOne(u) PROVE FALSE
  <2>1. PICK th : thread' = [thread EXCEPT ![u] = th] BY <1>3 DEF MovesOne
  <2> QED BY <1>1, <1>2, <1>3, <2>1, OneMoves DEF MovesOne
<1>4. thread' # thread BY <1>2, NoneMoves
<1>5. ~Environment BY <1>2, EnvironmentMoves
<1>6. ~CheckReachability
  <2> SUFFICES ASSUME CheckReachability PROVE FALSE OBVIOUS
  <2>1. thread[Loop].pc = "idle" /\ \E jobs : RunJobs(Loop, jobs) BY DEF CheckReachability
  <2>2. MovesOne(Loop) BY <2>1, RunJobsMoves DEF MovesOne
  <2>3. Loop \in Threads BY DEF Threads
  <2> QED BY <1>3, <2>2, <2>3
<1>7. ASSUME NEW k \in Workers, WorkerStep(k) PROVE FALSE
  <2>1. k \in Threads BY DEF Threads
  <2> QED BY <1>3, <1>4, <1>7, <2>1, WorkerMoves
<1>8. ASSUME NEW u \in Threads, Failure(u) PROVE FALSE BY <1>3, <1>8, OtherCallsMove
<1>9. ~UNCHANGED vars BY <1>4 DEF vars
<1>10. PICK u \in Threads : CallStep(u) BY <1>5, <1>6, <1>7, <1>8, <1>9 DEF Next, System
<1>11. Assign(u) BY <1>3, <1>10, OtherCallsMove DEF CallStep
<1>12. u = t
  <2> SUFFICES ASSUME u # t PROVE FALSE OBVIOUS
  <2>1. PICK th : thread' = [thread EXCEPT ![u] = th] BY <1>11, AssignDoes
  <2>2. thread'[t] = thread[t] BY <1>1, <2>1 DEF ThreadsInv
  <2> QED BY <1>2, <2>2 DEF Elsewhere
<1> QED BY <1>11, <1>12, AssignSound

\* assignEgressIPs keeps its constraints a to d in every assignment of every
\* goroutine, for any number of nodes, EgressIP objects and IPs, in whatever order
\* the nodes and the IPs are gone through.
THEOREM Assignments == Spec => AssignmentConstraints
<1>1. Spec => []TypeInv BY InitOK, TypeStep, PTL DEF Spec
<1>2. TypeInv /\ [Next]_vars =>
          [\A t \in Threads : thread[t].pc = "assign" /\ thread'[t].pc = "keep" =>
              \A x \in thread'[t].add : AssignedSoundly(t, thread[t].call.name, x)]_vars
  BY ConstraintsStep
<1> QED BY <1>1, <1>2, PTL DEF Spec, AssignmentConstraints

=============================================================================
