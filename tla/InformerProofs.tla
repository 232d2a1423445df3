--------------------------- MODULE InformerProofs ---------------------------
(***************************************************************************)
(* Proofs about the shared informer, for any number of objects, handlers,  *)
(* changes, additions and removals.                                        *)
(***************************************************************************)
EXTENDS Informer, SequenceTheorems, TLAPS

\* What handler h should know of an object that is in state obj.
Want(h, obj) == IF obj # None /\ FilterFunc(h, obj) THEN obj ELSE None

\* The states of k from the last one that was delivered on to the present one.
Ahead(k) == {pending[k][i].old : i \in DOMAIN pending[k]} \cup {store[k]}

\* Who holds the lock, and which handlers are registered and dead.
LockInv ==
    /\ \A h \in Handlers : /\ writer = h <=> phase[h] \in {"listed", "adding"}
                           /\ h \in handlers <=> phase[h] \in {"registered", "removing"}
                           /\ h \in tombstone <=> phase[h] \in {"removing", "removed"}
    /\ writer # None => \A k \in Keys : active[k] = None

\* Each undelivered event of k begins where the one before it ended, and the
\* last ends with what is stored.
ChainInv == \A k \in Keys :
    /\ \A i \in 1 .. Len(pending[k]) :
         pending[k][i].new = IF i = Len(pending[k]) THEN store[k] ELSE pending[k][i + 1].old
    /\ active[k] # None =>
         active[k].ev.new = IF pending[k] = <<>> THEN store[k] ELSE pending[k][1].old

\* The calls that are left in a delivery a of k lead the handler to the new state.
CallsLead(a) ==
    /\ a.calls \in {<<>>, <<"add">>, <<"update">>, <<"delete">>, <<"delete", "add">>}
    /\ a.calls = <<"delete">> => Want(a.cur, a.ev.new) = None
    /\ a.calls \in {<<"add">>, <<"update">>, <<"delete", "add">>} =>
         Want(a.cur, a.ev.new) = a.ev.new

\* What holds of a delivery a in progress.
InProgress(a) ==
    /\ a.todo \subseteq handlers
    /\ a.cur \in handlers \cup {None}
    /\ a.cur \notin a.todo
    /\ a.calls # <<>> => a.cur # None
    /\ a.running => a.calls # <<>>
    /\ CallsLead(a)

DeliveryInv == \A k \in Keys : active[k] # None => InProgress(active[k])

\* Object obj is what h should know in one of the states of k from the last
\* delivered one on: h is behind, or ahead of the events, but on their way.
OnTheWay(h, k, obj) == \E s \in Ahead(k) : obj = Want(h, s)

\* What h knows of k is obj, and with delivery a it is on the way, or it is
\* about to be told of the event, or is being told.
Informed(h, k, a, obj) ==
    \/ OnTheWay(h, k, obj)
    \/ a # None /\ h \in a.todo /\ obj = Want(h, a.ev.old)
    \/ a # None /\ h = a.cur /\ a.calls # <<>>

ViewInv == \A h \in Handlers, k \in Keys :
    phase[h] = "registered" => Informed(h, k, active[k], view[h][k])

\* What a handler that is being added was told, or is going to be, is on the way.
AddInv == \A h \in Handlers, k \in Keys :
    /\ phase[h] = "listed" => OnTheWay(h, k, items[h][k])
    /\ phase[h] = "adding" =>
         OnTheWay(h, k, IF items[h][k] = None THEN view[h][k] ELSE items[h][k])

IndInv == TypeOK /\ LockInv /\ ChainInv /\ DeliveryInv /\ ViewInv /\ AddInv

-----------------------------------------------------------------------------
(***************************************************************************)
(* Sequences, deliveries and the states ahead                              *)
(***************************************************************************)

\* A sequence that is not empty: its first element and the rest.
LEMMA HeadAndTail ==
    ASSUME NEW S, NEW q \in Seq(S), q # <<>>
    PROVE  /\ Head(q) \in S /\ Tail(q) \in Seq(S)
           /\ Len(q) \in Nat /\ Len(q) >= 1 /\ Head(q) = q[1]
           /\ Len(Tail(q)) = Len(q) - 1
           /\ \A i \in 1 .. Len(Tail(q)) : Tail(q)[i] = q[i + 1]
OBVIOUS

\* An empty sequence has length 0.
LEMMA EmptyIffNoLength ==
    ASSUME NEW S, NEW q \in Seq(S)
    PROVE  q = <<>> <=> Len(q) = 0
OBVIOUS

\* A sequence with an element added at the end.
LEMMA Appended ==
    ASSUME NEW S, NEW q \in Seq(S), NEW x \in S
    PROVE  /\ Append(q, x) \in Seq(S)
           /\ Len(q) \in Nat /\ Len(Append(q, x)) = Len(q) + 1
           /\ \A i \in 1 .. Len(q) : Append(q, x)[i] = q[i]
           /\ Append(q, x)[Len(q) + 1] = x
OBVIOUS

\* The fields of a delivery in progress.
LEMMA ActiveType ==
    ASSUME TypeOK, NEW k \in Keys, active[k] # None
    PROVE  /\ active[k] \in Delivery
           /\ active[k].ev \in EventType
           /\ active[k].todo \in SUBSET Handlers
           /\ active[k].cur \in Handlers \cup {None}
           /\ active[k].calls \in Seq(OpKind)
           /\ active[k].running \in BOOLEAN
<1>1. active[k] \in Delivery BY DEF TypeOK
<1> QED BY <1>1 DEF Delivery

\* What is stored is ahead; so is where an undelivered event begins.
LEMMA AheadHas ==
    ASSUME TypeOK, NEW k \in Keys
    PROVE  /\ store[k] \in Ahead(k)
           /\ \A i \in 1 .. Len(pending[k]) : pending[k][i].old \in Ahead(k)
<1>1. pending[k] \in Seq(EventType) BY DEF TypeOK
<1>2. DOMAIN pending[k] = 1 .. Len(pending[k]) BY <1>1
<1> QED BY <1>2 DEF Ahead

\* A change of the store adds a state and forgets none.
LEMMA ChangeAhead ==
    ASSUME TypeOK, NEW k \in Keys, NEW new \in Object \cup {None}, Change(k, new),
           NEW j \in Keys
    PROVE  Ahead(j) \subseteq Ahead(j)'
<1> DEFINE e == [old |-> store[k], new |-> new]
<1>1. pending[k] \in Seq(EventType) /\ pending[j] \in Seq(EventType) BY DEF TypeOK
<1>2. e \in EventType BY DEF TypeOK, EventType
<1>3. e.old = store[k] OBVIOUS
<1> HIDE DEF e
<1>4. CASE j = k
  <2>1. pending'[k] = Append(pending[k], e) BY DEF Change, TypeOK, e
  <2>2. DOMAIN pending[k] = 1 .. Len(pending[k]) BY <1>1
  <2>3. DOMAIN pending'[k] = 1 .. Len(pending[k]) + 1 /\ Len(pending[k]) \in Nat
    BY <1>1, <1>2, <2>1, Appended
  <2>4. \A i \in 1 .. Len(pending[k]) : pending'[k][i] = pending[k][i] BY <1>1, <1>2, <2>1, Appended
  <2>5. pending'[k][Len(pending[k]) + 1].old = store[k] BY <1>1, <1>2, <1>3, <2>1, Appended
  <2>6. Len(pending[k]) + 1 \in DOMAIN pending'[k] BY <2>3
  <2>7. \A i \in 1 .. Len(pending[k]) : i \in DOMAIN pending'[k] BY <2>3
  <2> QED BY <1>4, <2>2, <2>4, <2>5, <2>6, <2>7 DEF Ahead
<1>5. CASE j # k
  <2>1. pending'[j] = pending[j] /\ store'[j] = store[j] BY <1>5 DEF Change, TypeOK
  <2> QED BY <2>1 DEF Ahead
<1> QED BY <1>4, <1>5

\* Only the beginning of an event that is delivered is left behind.
LEMMA RLockAhead ==
    ASSUME TypeOK, NEW k \in Keys, RLock(k), NEW j \in Keys
    PROVE  Ahead(j) \subseteq Ahead(j)' \cup (IF j = k THEN {Head(pending[k]).old} ELSE {})
<1>1. pending[k] \in Seq(EventType) /\ pending[k] # <<>> BY DEF TypeOK, RLock
<1>2. store' = store BY DEF RLock
<1>3. CASE j = k
  <2>1. pending'[k] = Tail(pending[k]) BY DEF RLock, TypeOK
  <2>2. ASSUME NEW i \in DOMAIN pending[k], i # 1
        PROVE  i - 1 \in DOMAIN pending'[k] /\ pending'[k][i - 1] = pending[k][i]
    <3>1. i \in 1 .. Len(pending[k]) BY <1>1, <2>2
    <3>2. i - 1 \in 1 .. Len(Tail(pending[k])) BY <1>1, <2>2, <3>1, HeadAndTail
    <3>3. Tail(pending[k])[i - 1] = pending[k][(i - 1) + 1] BY <1>1, <3>2, HeadAndTail
    <3>4. DOMAIN Tail(pending[k]) = 1 .. Len(Tail(pending[k])) BY <1>1, HeadAndTail
    <3> QED BY <2>1, <3>1, <3>2, <3>3, <3>4
  <2>3. pending[k][1] = Head(pending[k]) BY <1>1, HeadAndTail
  <2> QED BY <1>2, <1>3, <2>2, <2>3 DEF Ahead
<1>4. CASE j # k
  <2>1. pending'[j] = pending[j] BY <1>4 DEF RLock, TypeOK
  <2> QED BY <1>2, <1>4, <2>1 DEF Ahead
<1> QED BY <1>3, <1>4

\* The calls for an event lead a handler to the new state; no call is needed
\* only if the handler is to know of neither state.
LEMMA CallsForLead ==
    ASSUME NEW h, NEW ev \in EventType
    PROVE  /\ CallsFor(h, ev) \in {<<>>, <<"add">>, <<"update">>, <<"delete">>, <<"delete", "add">>}
           /\ CallsFor(h, ev) = <<"delete">> => Want(h, ev.new) = None
           /\ CallsFor(h, ev) \in {<<"add">>, <<"update">>, <<"delete", "add">>} =>
                Want(h, ev.new) = ev.new
           /\ CallsFor(h, ev) = <<>> => Want(h, ev.old) = Want(h, ev.new)
<1> DEFINE in(obj) == obj # None /\ FilterFunc(h, obj)
           add == IF in(ev.new) THEN <<"add">> ELSE <<>>
           del == IF in(ev.old) THEN <<"delete">> ELSE <<>>
<1>1. del \o add = IF in(ev.old) THEN IF in(ev.new) THEN <<"delete", "add">> ELSE <<"delete">>
                   ELSE IF in(ev.new) THEN <<"add">> ELSE <<>>
  <2>1. <<"delete">> \o <<"add">> = <<"delete", "add">>
    <3> DEFINE c == <<"delete">> \o <<"add">>
               d == <<"delete", "add">>
    <3>1. c \in Seq(OpKind) /\ d \in Seq(OpKind) BY DEF OpKind
    <3>2. Len(c) = 2 /\ c[1] = "delete" /\ c[2] = "add" OBVIOUS
    <3>3. Len(d) = 2 /\ d[1] = "delete" /\ d[2] = "add" OBVIOUS
    <3> HIDE DEF c, d
    <3>4. \A i \in 1 .. Len(c) : c[i] = d[i] BY <3>2, <3>3
    <3>5. c = d BY <3>1, <3>2, <3>3, <3>4, SeqEqual
    <3> QED BY <3>5 DEF c, d
  <2>2. <<"delete">> \o <<>> = <<"delete">> OBVIOUS
  <2>3. <<>> \o <<"add">> = <<"add">> OBVIOUS
  <2>4. <<>> \o <<>> = <<>> OBVIOUS
  <2> HIDE DEF in
  <2> QED BY <2>1, <2>2, <2>3, <2>4
<1>2. Want(h, ev.old) = (IF in(ev.old) THEN ev.old ELSE None)
      /\ Want(h, ev.new) = (IF in(ev.new) THEN ev.new ELSE None)
  BY DEF Want
<1>3. \/ CallsFor(h, ev) = del \o add
      \/ CallsFor(h, ev) = <<"update">> /\ in(ev.new)
  BY DEF CallsFor
<1>4. /\ <<"delete", "add">> # <<"delete">> /\ <<"add">> # <<"delete">>
      /\ <<"update">> # <<"delete">> /\ <<>> # <<"delete">>
      /\ <<"delete", "add">> # <<>> /\ <<"add">> # <<>> /\ <<"update">> # <<>>
  OBVIOUS
<1> HIDE DEF in, add, del
<1> QED BY <1>1, <1>2, <1>3, <1>4

-----------------------------------------------------------------------------
(***************************************************************************)
(* Every step keeps the invariant                                          *)
(***************************************************************************)

\* The store changes: the chain of events gets longer at its end.
LEMMA ChangeKeeps ==
    ASSUME IndInv, NEW k \in Keys, NEW new \in Object \cup {None}, Change(k, new)
    PROVE  IndInv'
<1> USE DEF IndInv
<1> DEFINE e == [old |-> store[k], new |-> new]
<1>1. e \in EventType /\ e.old = store[k] /\ e.new = new BY DEF TypeOK, EventType
<1>2. pending' = [pending EXCEPT ![k] = Append(@, e)] BY DEF Change
<1>3. pending[k] \in Seq(EventType) BY DEF TypeOK
<1> HIDE DEF e
<1>4. TypeOK'
  <2>1. store' \in [Keys -> Object \cup {None}] BY DEF Change, TypeOK
  <2>2. changes' \in 0 .. MaxChanges BY MaxChangesIsNat DEF Change, TypeOK
  <2>3. pending' \in [Keys -> Seq(EventType)] BY <1>1, <1>2, <1>3, Appended DEF TypeOK
  <2> QED BY <2>1, <2>2, <2>3 DEF Change, TypeOK
<1>5. LockInv' BY DEF LockInv, Change
<1>6. ChainInv'
  <2> SUFFICES ASSUME NEW j \in Keys
               PROVE  /\ \A i \in 1 .. Len(pending'[j]) :
                           pending'[j][i].new = IF i = Len(pending'[j]) THEN store'[j]
                                                ELSE pending'[j][i + 1].old
                      /\ active'[j] # None =>
                           active'[j].ev.new = IF pending'[j] = <<>> THEN store'[j]
                                               ELSE pending'[j][1].old
    BY DEF ChainInv
  <2>1. CASE j # k
    <3>1. pending'[j] = pending[j] /\ store'[j] = store[j] /\ active'[j] = active[j]
      BY <2>1 DEF Change, TypeOK
    <3> QED BY <3>1 DEF ChainInv
  <2>2. CASE j = k
    <3> DEFINE q == pending[k]
               n == Len(q)
    <3>1. pending'[k] = Append(q, e) /\ store'[k] = new /\ active'[k] = active[k]
      BY <1>2 DEF Change, TypeOK
    <3>2. /\ n \in Nat /\ Len(pending'[k]) = n + 1
          /\ \A i \in 1 .. n : pending'[k][i] = q[i]
          /\ pending'[k][n + 1] = e
      BY <1>1, <1>3, <3>1, Appended
    <3>3. \A i \in 1 .. n : q[i].new = IF i = n THEN store[k] ELSE q[i + 1].old BY DEF ChainInv
    <3>4. active[k] # None => active[k].ev.new = IF q = <<>> THEN store[k] ELSE q[1].old
      BY DEF ChainInv
    <3>5. q = <<>> <=> n = 0 BY <1>3
    <3>6. pending'[k] # <<>>
      <4>1. pending'[k] \in Seq(EventType) BY <1>1, <1>3, <3>1, Appended
      <4> QED BY <3>2, <4>1
    <3> HIDE DEF q, n
    <3>7. ASSUME NEW i \in 1 .. n + 1
          PROVE  pending'[k][i].new = IF i = n + 1 THEN new ELSE pending'[k][i + 1].old
      <4>1. CASE i = n + 1 BY <1>1, <3>2, <4>1
      <4>2. CASE i = n
        <5>1. i \in 1 .. n /\ i # n + 1 BY <3>2, <4>2
        <5> QED BY <1>1, <3>2, <3>3, <4>2, <5>1
      <4>3. CASE i < n
        <5>1. i \in 1 .. n /\ i + 1 \in 1 .. n /\ i # n + 1 /\ i # n BY <3>2, <4>3
        <5> QED BY <3>2, <3>3, <5>1
      <4> QED BY <3>2, <4>1, <4>2, <4>3
    <3>8. pending'[k][1].old = IF n = 0 THEN store[k] ELSE q[1].old
      <4>1. CASE n = 0 BY <1>1, <3>2, <4>1
      <4>2. CASE n # 0
        <5>1. 1 \in 1 .. n BY <3>2, <4>2
        <5> QED BY <3>2, <4>2, <5>1
      <4> QED BY <4>1, <4>2
    <3> QED BY <2>2, <3>1, <3>2, <3>4, <3>5, <3>6, <3>7, <3>8
  <2> QED BY <2>1, <2>2
<1>7. DeliveryInv' BY DEF DeliveryInv, InProgress, CallsLead, Want, FilterFunc, Change
<1>8. \A obj : \A h \in Handlers, j \in Keys : OnTheWay(h, j, obj) => OnTheWay(h, j, obj)'
  BY ChangeAhead DEF OnTheWay, Want, FilterFunc
<1>9. UNCHANGED <<active, writer, handlers, phase, tombstone, items, view>> BY DEF Change
<1>10. ViewInv' BY <1>8, <1>9 DEF ViewInv, Informed, Want, FilterFunc
<1>11. AddInv' BY <1>8, <1>9 DEF AddInv
<1> QED BY <1>4, <1>5, <1>6, <1>7, <1>10, <1>11

\* Without a writer no handler is being added.
LEMMA NoAddition ==
    ASSUME LockInv, writer = None, NEW h \in Handlers
    PROVE  phase[h] \notin {"listed", "adding"}
BY NoneIsNil DEF LockInv

\* A delivery begins: its event is the first of the chain, and all registered
\* handlers are to be told.
LEMMA RLockKeeps ==
    ASSUME IndInv, NEW k \in Keys, RLock(k)
    PROVE  IndInv'
<1> USE DEF IndInv
<1> DEFINE q == pending[k]
           n == Len(q)
           a == [ev |-> Head(q), todo |-> handlers, cur |-> None, calls |-> <<>>, running |-> FALSE]
<1>1. q \in Seq(EventType) /\ q # <<>> BY DEF TypeOK, RLock
<1>2. /\ Head(q) \in EventType /\ Tail(q) \in Seq(EventType)
      /\ n \in Nat /\ n >= 1 /\ Head(q) = q[1]
      /\ Len(Tail(q)) = n - 1
      /\ \A i \in 1 .. n - 1 : Tail(q)[i] = q[i + 1]
  BY <1>1, HeadAndTail
<1>3. a \in Delivery
  <2>1. handlers \in SUBSET Handlers BY DEF TypeOK
  <2>2. <<>> \in Seq(OpKind) OBVIOUS
  <2> QED BY <1>2, <2>1, <2>2 DEF Delivery
<1>4. active' = [active EXCEPT ![k] = a] BY DEF RLock
<1>5. /\ a.ev = Head(q) /\ a.todo = handlers /\ a.cur = None /\ a.calls = <<>> /\ a.running = FALSE
      /\ a # None
  BY <1>3, NoneIsNoDelivery
<1> HIDE DEF a
<1>6. active'[k] = a /\ \A j \in Keys : j # k => active'[j] = active[j] BY <1>4 DEF TypeOK
<1>7. pending' = [pending EXCEPT ![k] = Tail(q)] BY DEF RLock
<1>8. pending'[k] = Tail(q) /\ \A j \in Keys : j # k => pending'[j] = pending[j]
  BY <1>7 DEF TypeOK
<1>9. /\ UNCHANGED <<store, changes, writer, handlers, phase, tombstone, items, view>>
      /\ active[k] = None /\ writer = None
  BY DEF RLock
<1>10. TypeOK'
  <2>1. pending' \in [Keys -> Seq(EventType)] BY <1>2, <1>7 DEF TypeOK
  <2>2. active' \in [Keys -> Delivery \cup {None}] BY <1>3, <1>4 DEF TypeOK
  <2>3. \A j \in Keys : active'[j] # None => active'[j].todo \subseteq handlers
    BY <1>5, <1>6 DEF TypeOK
  <2> QED BY <1>9, <2>1, <2>2, <2>3 DEF TypeOK
<1>11. LockInv' BY <1>9 DEF LockInv
<1>12. ChainInv'
  <2> SUFFICES ASSUME NEW j \in Keys
               PROVE  /\ \A i \in 1 .. Len(pending'[j]) :
                           pending'[j][i].new = IF i = Len(pending'[j]) THEN store[j]
                                                ELSE pending'[j][i + 1].old
                      /\ active'[j] # None =>
                           active'[j].ev.new = IF pending'[j] = <<>> THEN store[j]
                                               ELSE pending'[j][1].old
    BY <1>9 DEF ChainInv
  <2>1. CASE j # k BY <1>6, <1>8, <2>1 DEF ChainInv
  <2>2. CASE j = k
    <3>1. \A i \in 1 .. n : q[i].new = IF i = n THEN store[k] ELSE q[i + 1].old BY DEF ChainInv
    <3> HIDE DEF q, n
    <3>2. Tail(q) = <<>> <=> n = 1
      <4> DEFINE m == Len(Tail(q))
      <4>1. Tail(q) = <<>> <=> m = 0 BY <1>2, EmptyIffNoLength
      <4>2. m = n - 1 /\ n \in Nat BY <1>2
      <4> HIDE DEF m
      <4>3. m = 0 <=> n = 1 BY <4>2
      <4> QED BY <4>1, <4>3
    <3>3. ASSUME NEW i \in 1 .. n - 1
          PROVE  Tail(q)[i].new = IF i = n - 1 THEN store[k] ELSE Tail(q)[i + 1].old
      <4>1. i + 1 \in 1 .. n /\ (i + 1 = n <=> i = n - 1) BY <1>2
      <4>2. CASE i = n - 1 BY <1>2, <3>1, <4>1, <4>2
      <4>3. CASE i # n - 1
        <5>1. i + 1 \in 1 .. n - 1 BY <1>2, <4>3
        <5> QED BY <1>2, <3>1, <4>1, <4>3, <5>1
      <4> QED BY <4>2, <4>3
    <3>4. Head(q).new = IF Tail(q) = <<>> THEN store[k] ELSE Tail(q)[1].old
      <4>1. 1 \in 1 .. n BY <1>2
      <4>2. CASE n = 1 BY <1>2, <3>1, <3>2, <4>1, <4>2
      <4>3. CASE n # 1
        <5>1. 1 \in 1 .. n - 1 BY <1>2, <4>3
        <5> QED BY <1>2, <3>1, <3>2, <4>1, <4>3, <5>1
      <4> QED BY <4>2, <4>3
    <3>5. pending'[j] = Tail(q) /\ Len(pending'[j]) = n - 1 /\ store[j] = store[k]
      BY <1>2, <1>8, <2>2
    <3>6. active'[j].ev.new = Head(q).new BY <1>5, <1>6, <2>2
    <3>7. \A i \in 1 .. Len(pending'[j]) :
             pending'[j][i].new = IF i = Len(pending'[j]) THEN store[j] ELSE pending'[j][i + 1].old
      BY <3>3, <3>5
    <3>8. active'[j].ev.new = IF pending'[j] = <<>> THEN store[j] ELSE pending'[j][1].old
      BY <3>4, <3>5, <3>6
    <3> QED BY <3>7, <3>8
  <2> QED BY <2>1, <2>2
<1>13. DeliveryInv'
  <2>1. InProgress(a)
    <3>1. None \notin handlers BY NoneIsNil DEF TypeOK
    <3>2. <<>> # <<"delete">> /\ <<>> # <<"add">> /\ <<>> # <<"update">> /\ <<>> # <<"delete", "add">>
      OBVIOUS
    <3> QED BY <1>5, <3>1, <3>2 DEF InProgress, CallsLead
  <2>2. \A j \in Keys : active'[j] # None => InProgress(active'[j])
    BY <1>6, <2>1 DEF DeliveryInv
  <2> QED BY <1>9, <2>2 DEF DeliveryInv, InProgress, CallsLead, Want, FilterFunc
<1>14. ViewInv'
  <2> SUFFICES ASSUME NEW h \in Handlers, NEW j \in Keys, phase[h] = "registered"
               PROVE  Informed(h, j, active[j], view[h][j])'
    BY <1>9 DEF ViewInv
  <2>1. CASE j # k
    <3>1. Ahead(j) \subseteq Ahead(j)' BY <2>1, RLockAhead
    <3>2. Informed(h, j, active[j], view[h][j]) BY DEF ViewInv
    <3>3. active'[j] = active[j] /\ view'[h][j] = view[h][j] BY <1>6, <1>9, <2>1
    <3> QED BY <3>1, <3>2, <3>3 DEF Informed, OnTheWay, Want, FilterFunc
  <2>2. CASE j = k
    <3>1. PICK s \in Ahead(k) : view[h][k] = Want(h, s) BY <1>9, <2>2 DEF ViewInv, Informed, OnTheWay
    <3>2. CASE s \in Ahead(k)'
      <4>1. OnTheWay(h, k, view[h][k])' BY <1>9, <3>1, <3>2 DEF OnTheWay, Want, FilterFunc
      <4> QED BY <2>2, <4>1 DEF Informed
    <3>3. CASE s = Head(q).old
      <4>1. h \in handlers BY DEF LockInv
      <4>2. /\ active'[k] # None /\ h \in active'[k].todo /\ view'[h][k] = Want(h, active'[k].ev.old)
        BY <1>5, <1>6, <1>9, <3>1, <3>3, <4>1
      <4> QED BY <2>2, <4>2 DEF Informed, Want, FilterFunc
    <3> QED BY <3>2, <3>3, RLockAhead
  <2> QED BY <2>1, <2>2
<1>15. AddInv' BY <1>9, NoAddition DEF AddInv
<1> QED BY <1>10, <1>11, <1>12, <1>13, <1>14, <1>15

\* The delivery of k goes on, or ends with a = None: what has to be shown of it.
LEMMA DeliveryKeeps ==
    ASSUME IndInv, NEW k \in Keys, active[k] # None,
           NEW a \in Delivery \cup {None},
           active' = [active EXCEPT ![k] = a],
           UNCHANGED <<store, changes, pending, writer, handlers, phase, tombstone, items>>,
           a # None => a.ev = active[k].ev /\ InProgress(a),
           view' \in [Handlers -> [Keys -> Object \cup {None, Leftover}]],
           \A h \in Handlers, j \in Keys : j # k => view'[h][j] = view[h][j],
           \A h \in Handlers : phase[h] = "registered" => Informed(h, k, a, view'[h][k])
    PROVE  IndInv'
<1> USE DEF IndInv
<1>1. active'[k] = a /\ \A j \in Keys : j # k => active'[j] = active[j] BY DEF TypeOK
<1>2. writer = None BY DEF LockInv
<1>3. TypeOK'
  <2>1. active' \in [Keys -> Delivery \cup {None}] BY DEF TypeOK
  <2>2. \A j \in Keys : active'[j] # None => active'[j].todo \subseteq handlers
    BY <1>1 DEF TypeOK, InProgress
  <2> QED BY <2>1, <2>2 DEF TypeOK
<1>4. LockInv' BY <1>2 DEF LockInv
<1>5. ChainInv'
  <2>1. \A j \in Keys : active'[j] # None => active[j] # None /\ active'[j].ev = active[j].ev
    BY <1>1
  <2> QED BY <2>1 DEF ChainInv
<1>6. DeliveryInv'
  <2>1. \A j \in Keys : active'[j] # None => InProgress(active'[j]) BY <1>1 DEF DeliveryInv
  <2> QED BY <2>1 DEF DeliveryInv, InProgress, CallsLead, Want, FilterFunc
<1>7. ViewInv'
  <2>1. \A h \in Handlers, j \in Keys : phase[h] = "registered" => Informed(h, j, active'[j], view'[h][j])
    BY <1>1 DEF ViewInv
  <2>2. \A j \in Keys : Ahead(j)' = Ahead(j) BY DEF Ahead
  <2> SUFFICES ASSUME NEW h \in Handlers, NEW j \in Keys, phase[h] = "registered"
               PROVE  Informed(h, j, active[j], view[h][j])'
    BY DEF ViewInv
  <2> QED BY <2>1, <2>2 DEF Informed, OnTheWay, Want, FilterFunc
<1>8. AddInv' BY <1>2, NoAddition DEF AddInv
<1> QED BY <1>3, <1>4, <1>5, <1>6, <1>7, <1>8

\* A delivery ends in a state that is ahead.
LEMMA NewIsAhead ==
    ASSUME TypeOK, ChainInv, NEW k \in Keys, active[k] # None
    PROVE  active[k].ev.new \in Ahead(k)
<1>1. active[k].ev.new = IF pending[k] = <<>> THEN store[k] ELSE pending[k][1].old BY DEF ChainInv
<1>2. pending[k] \in Seq(EventType) BY DEF TypeOK
<1>3. pending[k] # <<>> => 1 \in 1 .. Len(pending[k]) BY <1>2
<1> QED BY <1>1, <1>3, AheadHas

\* A handler's turn: without a call it is on the way already.
LEMMA NextHandlerKeeps ==
    ASSUME IndInv, NEW k \in Keys, NEW h \in Handlers, NextHandler(k, h)
    PROVE  IndInv'
<1> USE DEF IndInv
<1> DEFINE b == active[k]
           c == CallsFor(h, b.ev)
           a == [b EXCEPT !.todo = @ \ {h}, !.cur = h, !.calls = c]
<1>1. active[k] # None /\ h \in b.todo /\ b.calls = <<>>
      /\ UNCHANGED <<store, changes, pending, writer, handlers, phase, tombstone, items, view>>
  BY DEF NextHandler, IsNextHandler
<1>2. /\ b \in Delivery /\ b.ev \in EventType /\ b.todo \in SUBSET Handlers /\ b.running \in BOOLEAN
  BY <1>1, ActiveType
<1>3. InProgress(b) BY <1>1 DEF DeliveryInv
<1>4. /\ c \in {<<>>, <<"add">>, <<"update">>, <<"delete">>, <<"delete", "add">>}
      /\ c = <<"delete">> => Want(h, b.ev.new) = None
      /\ c \in {<<"add">>, <<"update">>, <<"delete", "add">>} => Want(h, b.ev.new) = b.ev.new
      /\ c = <<>> => Want(h, b.ev.old) = Want(h, b.ev.new)
  <2> HIDE DEF b
  <2> QED BY <1>2, CallsForLead
<1>5. c \in Seq(OpKind)
  <2> HIDE DEF c
  <2>1. /\ <<>> \in Seq(OpKind) /\ <<"add">> \in Seq(OpKind) /\ <<"update">> \in Seq(OpKind)
        /\ <<"delete">> \in Seq(OpKind) /\ <<"delete", "add">> \in Seq(OpKind)
    BY DEF OpKind
  <2> QED BY <1>4, <2>1
<1>6. a \in Delivery
  <2> HIDE DEF b, c
  <2> QED BY <1>2, <1>5 DEF Delivery
<1>7. active' = [active EXCEPT ![k] = a] BY DEF NextHandler
<1>8. a.ev = b.ev /\ a.todo = b.todo \ {h} /\ a.cur = h /\ a.calls = c /\ a.running = b.running
  <2> HIDE DEF b, c
  <2> QED BY <1>2 DEF Delivery
<1> HIDE DEF c, a
<1>9. InProgress(a)
  <2>1. h \in handlers /\ ~b.running BY <1>1, <1>3 DEF InProgress
  <2>2. CallsLead(a) BY <1>4, <1>8 DEF CallsLead
  <2>3. h # None BY NoneIsNil
  <2> QED BY <1>3, <1>8, <2>1, <2>2, <2>3 DEF InProgress
<1>10. ASSUME NEW g \in Handlers, phase[g] = "registered"
       PROVE  Informed(g, k, a, view'[g][k])
  <2>1. Informed(g, k, b, view[g][k]) BY <1>10 DEF ViewInv
  <2>2. b.ev.new \in Ahead(k) BY <1>1, NewIsAhead
  <2>3. CASE g # h
    <3>1. a # None BY <1>6, NoneIsNoDelivery
    <3> QED BY <1>1, <1>8, <2>1, <2>3, <3>1 DEF Informed
  <2>4. CASE g = h /\ c # <<>>
    <3>1. a # None BY <1>6, NoneIsNoDelivery
    <3> QED BY <1>8, <2>4, <3>1 DEF Informed
  <2>5. CASE g = h /\ c = <<>>
    <3>1. OnTheWay(h, k, view[h][k]) \/ view[h][k] = Want(h, b.ev.new)
      BY <1>1, <1>4, <2>1, <2>5 DEF Informed
    <3>2. OnTheWay(h, k, view[h][k]) BY <2>2, <3>1 DEF OnTheWay
    <3> QED BY <1>1, <2>5, <3>2 DEF Informed
  <2> QED BY <2>3, <2>4, <2>5
<1>11. view' \in [Handlers -> [Keys -> Object \cup {None, Leftover}]] BY <1>1 DEF TypeOK
<1> QED BY <1>1, <1>6, <1>7, <1>8, <1>9, <1>10, <1>11, DeliveryKeeps

\* The calls that are left shrink from the front.
LEMMA CallsShrink ==
    ASSUME NEW c \in {<<"add">>, <<"update">>, <<"delete">>, <<"delete", "add">>}
    PROVE  /\ Tail(c) \in Seq(OpKind)
           /\ Head(c) \in OpKind
           /\ c = <<"delete", "add">> => Tail(c) = <<"add">>
           /\ c # <<"delete", "add">> => Tail(c) = <<>> /\ c = <<Head(c)>>
<1>1. c \in Seq(OpKind) /\ c # <<>>
  <2>1. /\ <<"add">> \in Seq(OpKind) /\ <<"update">> \in Seq(OpKind)
        /\ <<"delete">> \in Seq(OpKind) /\ <<"delete", "add">> \in Seq(OpKind)
    BY DEF OpKind
  <2>2. <<"add">> # <<>> /\ <<"update">> # <<>> /\ <<"delete">> # <<>> /\ <<"delete", "add">> # <<>>
    OBVIOUS
  <2> QED BY <2>1, <2>2
<1>2. Tail(<<"add">>) = <<>> /\ Head(<<"add">>) = "add" OBVIOUS
<1>3. Tail(<<"update">>) = <<>> /\ Head(<<"update">>) = "update" OBVIOUS
<1>4. Tail(<<"delete">>) = <<>> /\ Head(<<"delete">>) = "delete" OBVIOUS
<1>5. Tail(<<"delete", "add">>) = <<"add">> OBVIOUS
<1>6. Head(c) \in OpKind /\ Tail(c) \in Seq(OpKind) BY <1>1, HeadAndTail
<1> QED BY <1>2, <1>3, <1>4, <1>5, <1>6

\* A delivery after its first call.
LEMMA CallsLeft ==
    ASSUME NEW b \in Delivery, InProgress(b), b.calls # <<>>,
           NEW a, a = [b EXCEPT !.calls = Tail(@), !.running = FALSE] \/ a = [b EXCEPT !.calls = Tail(@)],
           b.running => a = [b EXCEPT !.calls = Tail(@), !.running = FALSE]
    PROVE  /\ a \in Delivery /\ a # None /\ InProgress(a)
           /\ a.ev = b.ev /\ a.todo = b.todo /\ a.cur = b.cur /\ a.calls = Tail(b.calls)
<1>1. b.calls \in {<<"add">>, <<"update">>, <<"delete">>, <<"delete", "add">>}
  BY DEF InProgress, CallsLead
<1>2. Tail(b.calls) \in Seq(OpKind) BY <1>1, CallsShrink
<1>3. a \in Delivery /\ a.ev = b.ev /\ a.todo = b.todo /\ a.cur = b.cur /\ a.calls = Tail(b.calls)
  BY <1>2 DEF Delivery
<1>4. ~a.running
  <2>1. CASE a = [b EXCEPT !.calls = Tail(@), !.running = FALSE] BY <2>1 DEF Delivery
  <2>2. CASE a = [b EXCEPT !.calls = Tail(@)] /\ ~b.running BY <2>2 DEF Delivery
  <2> QED BY <2>1, <2>2
<1>5. CallsLead(a)
  <2>1. CASE b.calls = <<"delete", "add">>
    <3>1. a.calls = <<"add">> BY <1>1, <1>3, <2>1, CallsShrink
    <3>2. <<"add">> # <<"delete">> OBVIOUS
    <3> QED BY <1>3, <2>1, <3>1, <3>2 DEF InProgress, CallsLead
  <2>2. CASE b.calls # <<"delete", "add">>
    <3>1. a.calls = <<>> BY <1>1, <1>3, <2>2, CallsShrink
    <3>2. <<>> # <<"delete">> /\ <<>> # <<"add">> /\ <<>> # <<"update">> /\ <<>> # <<"delete", "add">>
      OBVIOUS
    <3> QED BY <3>1, <3>2 DEF CallsLead
  <2> QED BY <2>1, <2>2
<1>6. InProgress(a) BY <1>3, <1>4, <1>5 DEF InProgress
<1> QED BY <1>3, <1>6, NoneIsNoDelivery

\* A call is dropped if its handler is dead, or else begins.
LEMMA CheckTombstoneKeeps ==
    ASSUME IndInv, NEW k \in Keys, CheckTombstone(k)
    PROVE  IndInv'
<1> USE DEF IndInv
<1> DEFINE b == active[k]
<1>1. /\ active[k] # None /\ b.calls # <<>> /\ ~b.running
      /\ UNCHANGED <<store, changes, pending, writer, handlers, phase, tombstone, items, view>>
  BY DEF CheckTombstone
<1>2. b \in Delivery BY <1>1, ActiveType
<1>3. InProgress(b) BY <1>1 DEF DeliveryInv
<1>4. \A g \in Handlers : phase[g] = "registered" => Informed(g, k, b, view'[g][k])
  BY <1>1 DEF ViewInv
<1>5. view' \in [Handlers -> [Keys -> Object \cup {None, Leftover}]] BY <1>1 DEF TypeOK
<1>6. CASE b.cur \in tombstone
  <2> DEFINE a == [b EXCEPT !.calls = Tail(@)]
  <2>1. active' = [active EXCEPT ![k] = a] BY <1>6 DEF CheckTombstone
  <2>2. /\ a \in Delivery /\ a # None /\ InProgress(a)
        /\ a.ev = b.ev /\ a.todo = b.todo /\ a.cur = b.cur
    <3> HIDE DEF b
    <3> QED BY <1>1, <1>2, <1>3, CallsLeft
  <2>3. \A g \in Handlers : phase[g] = "registered" => g # b.cur BY <1>6 DEF LockInv
  <2> HIDE DEF a
  <2>4. \A g \in Handlers : phase[g] = "registered" => Informed(g, k, a, view'[g][k])
    BY <1>4, <2>2, <2>3 DEF Informed
  <2> QED BY <1>1, <1>5, <2>1, <2>2, <2>4, DeliveryKeeps
<1>7. CASE b.cur \notin tombstone
  <2> DEFINE a == [b EXCEPT !.running = TRUE]
  <2>1. active' = [active EXCEPT ![k] = a] BY <1>7 DEF CheckTombstone
  <2>2. /\ a \in Delivery
        /\ a.ev = b.ev /\ a.todo = b.todo /\ a.cur = b.cur /\ a.calls = b.calls
    <3> HIDE DEF b
    <3> QED BY <1>2 DEF Delivery
  <2> HIDE DEF a
  <2>3. a # None /\ InProgress(a)
    BY <1>1, <1>3, <2>2, NoneIsNoDelivery DEF InProgress, CallsLead
  <2>4. \A g \in Handlers : phase[g] = "registered" => Informed(g, k, a, view'[g][k])
    BY <1>4, <2>2, <2>3 DEF Informed
  <2> QED BY <1>1, <1>5, <2>1, <2>2, <2>3, <2>4, DeliveryKeeps
<1> QED BY <1>6, <1>7

\* After its last call the handler knows the new state.
LEMMA CallKeeps ==
    ASSUME IndInv, NEW k \in Keys, Call(k)
    PROVE  IndInv'
<1> USE DEF IndInv
<1> DEFINE b == active[k]
           h == b.cur
           a == [b EXCEPT !.calls = Tail(@), !.running = FALSE]
           v == IF Head(b.calls) = "delete" THEN None ELSE b.ev.new
<1>1. /\ active[k] # None /\ b.running
      /\ UNCHANGED <<store, changes, pending, writer, handlers, phase, tombstone, items>>
      /\ view' = [view EXCEPT ![h][k] = v]
  BY DEF Call
<1>2. b \in Delivery /\ b.ev \in EventType BY <1>1, ActiveType
<1>3. InProgress(b) BY <1>1 DEF DeliveryInv
<1>4. b.calls # <<>> /\ h \in handlers /\ h \in Handlers
  BY <1>1, <1>3 DEF InProgress, TypeOK
<1>5. active' = [active EXCEPT ![k] = a] BY DEF Call
<1>6. /\ a \in Delivery /\ a # None /\ InProgress(a)
      /\ a.ev = b.ev /\ a.todo = b.todo /\ a.cur = h /\ a.calls = Tail(b.calls)
  <2> HIDE DEF b
  <2> QED BY <1>2, <1>3, <1>4, CallsLeft
<1>7. v \in Object \cup {None, Leftover} BY <1>2 DEF EventType
<1>8. b.ev.new \in Ahead(k) BY <1>1, NewIsAhead
<1> HIDE DEF a, v
<1>9. /\ view' \in [Handlers -> [Keys -> Object \cup {None, Leftover}]]
      /\ view'[h][k] = v
      /\ \A g \in Handlers, j \in Keys : g # h \/ j # k => view'[g][j] = view[g][j]
  BY <1>1, <1>4, <1>7 DEF TypeOK
<1>10. ASSUME NEW g \in Handlers, phase[g] = "registered"
       PROVE  Informed(g, k, a, view'[g][k])
  <2>1. CASE g # h BY <1>6, <1>9, <1>10, <2>1 DEF ViewInv, Informed
  <2>2. CASE g = h /\ Tail(b.calls) # <<>> BY <1>6, <2>2 DEF Informed
  <2>3. CASE g = h /\ Tail(b.calls) = <<>>
    <3>1. b.calls \in {<<"add">>, <<"update">>, <<"delete">>, <<"delete", "add">>}
      BY <1>3, <1>4 DEF InProgress, CallsLead
    <3>2. b.calls # <<"delete", "add">>
      <4>1. <<"add">> # <<>> OBVIOUS
      <4> QED BY <2>3, <3>1, <4>1, CallsShrink
    <3>3. b.calls = <<Head(b.calls)>> BY <3>1, <3>2, CallsShrink
    <3>4. v = Want(h, b.ev.new)
      <4>1. CASE b.calls = <<"delete">>
        <5>1. Head(b.calls) = "delete" BY <4>1
        <5> QED BY <1>3, <4>1, <5>1 DEF InProgress, CallsLead, v
      <4>2. CASE b.calls \in {<<"add">>, <<"update">>}
        <5>1. Head(<<"add">>) # "delete" /\ Head(<<"update">>) # "delete" OBVIOUS
        <5>2. Head(b.calls) # "delete" BY <4>2, <5>1
        <5> QED BY <1>3, <4>2, <5>2 DEF InProgress, CallsLead, v
      <4> QED BY <3>1, <3>2, <4>1, <4>2
    <3>5. view'[g][k] = Want(g, b.ev.new) BY <1>9, <2>3, <3>4
    <3>6. OnTheWay(g, k, view'[g][k]) BY <1>8, <3>5 DEF OnTheWay
    <3> QED BY <3>6 DEF Informed
  <2> QED BY <2>1, <2>2, <2>3
<1>11. /\ a \in Delivery \cup {None}
       /\ a # None => a.ev = active[k].ev /\ InProgress(a)
       /\ \A g \in Handlers, j \in Keys : j # k => view'[g][j] = view[g][j]
  BY <1>6, <1>9
<1>12. /\ active[k] # None
       /\ UNCHANGED <<store, changes, pending, writer, handlers, phase, tombstone, items>>
       /\ view' \in [Handlers -> [Keys -> Object \cup {None, Leftover}]]
  BY <1>1, <1>9
<1> HIDE DEF IndInv, b, h
<1> QED BY <1>5, <1>10, <1>11, <1>12, DeliveryKeeps

\* A delivery ends: everybody has been told.
LEMMA RUnlockKeeps ==
    ASSUME IndInv, NEW k \in Keys, RUnlock(k)
    PROVE  IndInv'
<1> USE DEF IndInv
<1>1. /\ active[k] # None /\ active[k].todo = {} /\ active[k].calls = <<>>
      /\ active' = [active EXCEPT ![k] = None]
      /\ UNCHANGED <<store, changes, pending, writer, handlers, phase, tombstone, items, view>>
  BY DEF RUnlock
<1>2. \A g \in Handlers : phase[g] = "registered" => Informed(g, k, None, view'[g][k])
  BY <1>1 DEF ViewInv, Informed
<1>3. view' \in [Handlers -> [Keys -> Object \cup {None, Leftover}]] BY <1>1 DEF TypeOK
<1> QED BY <1>1, <1>2, <1>3, DeliveryKeeps

\* A step of the addition or removal of handlers, which leaves the events
\* alone: what has to be shown of it.
LEMMA RegistryKeeps ==
    ASSUME IndInv, UNCHANGED <<store, changes, pending, active>>,
           writer' \in Handlers \cup {None}, handlers' \subseteq Handlers,
           phase' \in [Handlers -> Phase], tombstone' \subseteq Handlers,
           items' \in [Handlers -> [Keys -> Object \cup {None}]],
           view' \in [Handlers -> [Keys -> Object \cup {None, Leftover}]],
           LockInv',
           handlers \subseteq handlers' \/ \A k \in Keys : active[k] = None,
           \A h \in Handlers, k \in Keys :
             /\ phase'[h] = "registered" => Informed(h, k, active[k], view'[h][k])
             /\ phase'[h] = "listed" => OnTheWay(h, k, items'[h][k])
             /\ phase'[h] = "adding" =>
                  OnTheWay(h, k, IF items'[h][k] = None THEN view'[h][k] ELSE items'[h][k])
    PROVE  IndInv'
<1> USE DEF IndInv
<1>1. TypeOK' BY DEF TypeOK
<1>2. ChainInv' BY DEF ChainInv
<1>3. DeliveryInv'
  <2>1. \A k \in Keys : active[k] # None =>
          /\ InProgress(active[k])
          /\ active[k].todo \subseteq handlers'
          /\ active[k].cur \in handlers' \cup {None}
    BY DEF DeliveryInv, InProgress
  <2> QED BY <2>1 DEF DeliveryInv, InProgress, CallsLead, Want, FilterFunc
<1>4. \A k \in Keys : Ahead(k)' = Ahead(k) BY DEF Ahead
<1>5. ViewInv'
  <2> SUFFICES ASSUME NEW h \in Handlers, NEW k \in Keys, phase'[h] = "registered"
               PROVE  Informed(h, k, active[k], view[h][k])'
    BY DEF ViewInv
  <2> QED BY <1>4 DEF Informed, OnTheWay, Want, FilterFunc
<1>6. AddInv' BY <1>4 DEF AddInv, OnTheWay, Want, FilterFunc
<1> QED BY <1>1, <1>2, <1>3, <1>5, <1>6

\* What the invariant says of the handlers, with the fields it is about typed.
LEMMA RegistryInv ==
    ASSUME IndInv
    PROVE  /\ writer \in Handlers \cup {None} /\ handlers \subseteq Handlers
           /\ phase \in [Handlers -> Phase] /\ tombstone \subseteq Handlers
           /\ items \in [Handlers -> [Keys -> Object \cup {None}]]
           /\ view \in [Handlers -> [Keys -> Object \cup {None, Leftover}]]
           /\ \A h \in Handlers, k \in Keys :
                /\ phase[h] = "registered" => Informed(h, k, active[k], view[h][k])
                /\ phase[h] = "listed" => OnTheWay(h, k, items[h][k])
                /\ phase[h] = "adding" =>
                     OnTheWay(h, k, IF items[h][k] = None THEN view[h][k] ELSE items[h][k])
<1>1. ViewInv /\ AddInv /\ TypeOK BY DEF IndInv
<1> QED BY <1>1 DEF TypeOK, ViewInv, AddInv

\* A handler takes the lock and lists the objects.
LEMMA AddHandlerKeeps ==
    ASSUME IndInv, NEW h \in Handlers, AddHandler(h)
    PROVE  IndInv'
<1>1. /\ phase[h] = "new" /\ phase' = [phase EXCEPT ![h] = "locking"]
      /\ UNCHANGED <<store, changes, pending, active, writer, handlers, tombstone, items, view>>
  BY DEF AddHandler
<1>2. phase' \in [Handlers -> Phase] BY <1>1, RegistryInv DEF Phase
<1>3. \A g \in Handlers : phase'[g] = IF g = h THEN "locking" ELSE phase[g] BY <1>1, RegistryInv
<1>4. LockInv' BY <1>1, <1>3 DEF IndInv, LockInv
<1> QED BY <1>1, <1>2, <1>3, <1>4, RegistryInv, RegistryKeeps

\* What is listed is the present state.
LEMMA LockAndListKeeps ==
    ASSUME IndInv, NEW h \in Handlers, LockAndList(h)
    PROVE  IndInv'
<1> DEFINE l == [k \in Keys |-> Want(h, store[k])]
<1>1. /\ phase[h] = "locking" /\ phase' = [phase EXCEPT ![h] = "listed"] /\ writer' = h
      /\ writer = None /\ (\A k \in Keys : active[k] = None)
      /\ UNCHANGED <<store, changes, pending, active, handlers, tombstone, view>>
  BY DEF LockAndList, Idle
<1>2. items' = [items EXCEPT ![h] = l] BY DEF LockAndList, Want
<1>3. l \in [Keys -> Object \cup {None}] BY DEF IndInv, TypeOK, Want
<1>4. \A k \in Keys : l[k] = Want(h, store[k]) OBVIOUS
<1> HIDE DEF l
<1>5. /\ items' \in [Handlers -> [Keys -> Object \cup {None}]] /\ items'[h] = l
      /\ \A g \in Handlers : g # h => items'[g] = items[g]
  BY <1>2, <1>3, RegistryInv
<1>6. phase' \in [Handlers -> Phase] BY <1>1, RegistryInv DEF Phase
<1>7. \A g \in Handlers : phase'[g] = IF g = h THEN "listed" ELSE phase[g] BY <1>1, RegistryInv
<1>8. LockInv' BY <1>1, <1>7, NoneIsNil DEF IndInv, LockInv
<1>9. \A k \in Keys : OnTheWay(h, k, items'[h][k]) BY <1>4, <1>5, AheadHas DEF OnTheWay, IndInv
<1> QED BY <1>1, <1>5, <1>6, <1>7, <1>8, <1>9, RegistryInv, RegistryKeeps

\* Its function for existing objects succeeds.
LEMMA ProcessExistingKeeps ==
    ASSUME IndInv, NEW h \in Handlers, ProcessExisting(h)
    PROVE  IndInv'
<1> DEFINE v == [k \in Keys |-> IF items[h][k] = None THEN None ELSE view[h][k]]
<1>1. /\ phase[h] = "listed" /\ phase' = [phase EXCEPT ![h] = "adding"]
      /\ view' = [view EXCEPT ![h] = v]
      /\ UNCHANGED <<store, changes, pending, active, writer, handlers, tombstone, items>>
  BY DEF ProcessExisting
<1>2. v \in [Keys -> Object \cup {None, Leftover}] BY RegistryInv
<1>3. \A k \in Keys : items[h][k] = None => v[k] = None OBVIOUS
<1> HIDE DEF v
<1>4. /\ view' \in [Handlers -> [Keys -> Object \cup {None, Leftover}]] /\ view'[h] = v
      /\ \A g \in Handlers : g # h => view'[g] = view[g]
  BY <1>1, <1>2, RegistryInv
<1>5. phase' \in [Handlers -> Phase] BY <1>1, RegistryInv DEF Phase
<1>6. \A g \in Handlers : phase'[g] = IF g = h THEN "adding" ELSE phase[g] BY <1>1, RegistryInv
<1>7. LockInv' BY <1>1, <1>6 DEF IndInv, LockInv
<1>8. \A k \in Keys : OnTheWay(h, k, IF items'[h][k] = None THEN view'[h][k] ELSE items'[h][k])
  BY <1>1, <1>3, <1>4, RegistryInv
<1> QED BY <1>1, <1>4, <1>5, <1>6, <1>7, <1>8, RegistryInv, RegistryKeeps

\* Its function for existing objects fails; nothing is registered.
LEMMA ProcessExistingFailsKeeps ==
    ASSUME IndInv, NEW h \in Handlers, ProcessExistingFails(h)
    PROVE  IndInv'
<1>1. /\ phase[h] = "listed" /\ phase' = [phase EXCEPT ![h] = "failed"] /\ writer' = None
      /\ items' = [items EXCEPT ![h] = Nothing]
      /\ UNCHANGED <<store, changes, pending, active, handlers, tombstone, view>>
  BY DEF ProcessExistingFails
<1>2. Nothing \in [Keys -> Object \cup {None}] BY DEF Nothing
<1>3. /\ items' \in [Handlers -> [Keys -> Object \cup {None}]]
      /\ \A g \in Handlers : g # h => items'[g] = items[g]
  BY <1>1, <1>2, RegistryInv
<1>4. phase' \in [Handlers -> Phase] BY <1>1, RegistryInv DEF Phase
<1>5. \A g \in Handlers : phase'[g] = IF g = h THEN "failed" ELSE phase[g] BY <1>1, RegistryInv
<1>6. \A g \in Handlers : g # h => phase[g] \notin {"listed", "adding"}
  BY <1>1 DEF IndInv, LockInv
<1>7. LockInv' BY <1>1, <1>5, <1>6, NoneIsNil DEF IndInv, LockInv
<1> QED BY <1>1, <1>3, <1>4, <1>5, <1>7, RegistryInv, RegistryKeeps

\* It is told of one of the objects listed.
LEMMA InitialAddKeeps ==
    ASSUME IndInv, NEW h \in Handlers, NEW k \in Keys, InitialAdd(h, k)
    PROVE  IndInv'
<1>1. /\ phase[h] = "adding" /\ items[h][k] # None
      /\ view' = [view EXCEPT ![h][k] = items[h][k]]
      /\ items' = [items EXCEPT ![h][k] = None]
      /\ UNCHANGED <<store, changes, pending, active, writer, handlers, phase, tombstone>>
  BY DEF InitialAdd
<1>2. /\ view' \in [Handlers -> [Keys -> Object \cup {None, Leftover}]]
      /\ view'[h][k] = items[h][k]
      /\ \A g \in Handlers, j \in Keys : g # h \/ j # k => view'[g][j] = view[g][j]
  BY <1>1, RegistryInv
<1>3. /\ items' \in [Handlers -> [Keys -> Object \cup {None}]]
      /\ items'[h][k] = None
      /\ \A g \in Handlers, j \in Keys : g # h \/ j # k => items'[g][j] = items[g][j]
  BY <1>1, RegistryInv
<1>4. LockInv' BY <1>1 DEF IndInv, LockInv
<1> QED BY <1>1, <1>2, <1>3, <1>4, RegistryInv, RegistryKeeps

\* A handler that has been told of everything listed is on the way.
LEMMA RegisterKeeps ==
    ASSUME IndInv, NEW h \in Handlers, Register(h)
    PROVE  IndInv'
<1>1. /\ phase[h] = "adding" /\ phase' = [phase EXCEPT ![h] = "registered"] /\ writer' = None
      /\ items[h] = Nothing /\ handlers' = handlers \cup {h}
      /\ UNCHANGED <<store, changes, pending, active, tombstone, items, view>>
  BY DEF Register
<1>2. phase' \in [Handlers -> Phase] BY <1>1, RegistryInv DEF Phase
<1>3. \A g \in Handlers : phase'[g] = IF g = h THEN "registered" ELSE phase[g] BY <1>1, RegistryInv
<1>4. \A g \in Handlers : g # h => phase[g] \notin {"listed", "adding"}
  BY <1>1 DEF IndInv, LockInv
<1>5. LockInv' BY <1>1, <1>3, <1>4, NoneIsNil DEF IndInv, LockInv
<1>6. \A k \in Keys : items[h][k] = None BY <1>1 DEF Nothing
<1>7. \A k \in Keys : Informed(h, k, active[k], view'[h][k]) BY <1>1, <1>6, RegistryInv DEF Informed
<1>8. handlers' \subseteq Handlers /\ writer' \in Handlers \cup {None} BY <1>1, RegistryInv
<1> QED BY <1>1, <1>2, <1>3, <1>5, <1>7, <1>8, RegistryInv, RegistryKeeps

\* Handlers are killed.
LEMMA KillKeeps ==
    ASSUME IndInv, NEW hs \in SUBSET Handlers, Kill(hs),
           \A h \in hs : phase[h] = "registered",
           UNCHANGED <<store, changes, pending, active, writer, handlers, items, view>>
    PROVE  IndInv'
<1>1. phase' \in [Handlers -> Phase] BY RegistryInv DEF Kill, Phase
<1>2. \A g \in Handlers : phase'[g] = IF g \in hs THEN "removing" ELSE phase[g] BY DEF Kill
<1>3. tombstone' = tombstone \cup hs BY DEF Kill
<1>4. LockInv' BY <1>2, <1>3 DEF IndInv, LockInv
<1>5. tombstone' \subseteq Handlers BY <1>3, RegistryInv
<1> QED BY <1>1, <1>2, <1>4, <1>5, RegistryInv, RegistryKeeps

\* A removal begins: the handler is dead from now on.
LEMMA DeleteHandlerKeeps ==
    ASSUME IndInv, NEW h \in Handlers, DeleteHandler(h)
    PROVE  IndInv'
<1>1. /\ phase[h] = "removing" /\ phase' = [phase EXCEPT ![h] = "removed"]
      /\ handlers' = handlers \ {h} /\ (\A k \in Keys : active[k] = None)
      /\ UNCHANGED <<store, changes, pending, active, writer, tombstone, items, view>>
  BY DEF DeleteHandler, Idle
<1>2. phase' \in [Handlers -> Phase] BY <1>1, RegistryInv DEF Phase
<1>3. \A g \in Handlers : phase'[g] = IF g = h THEN "removed" ELSE phase[g] BY <1>1, RegistryInv
<1>4. LockInv' BY <1>1, <1>3 DEF IndInv, LockInv
<1>5. handlers' \subseteq Handlers BY <1>1, RegistryInv
<1> QED BY <1>1, <1>2, <1>3, <1>4, <1>5, RegistryInv, RegistryKeeps

-----------------------------------------------------------------------------
(***************************************************************************)
(* The theorems                                                            *)
(***************************************************************************)

\* The invariant holds before anything is registered.
LEMMA InitOK ==
    ASSUME Init
    PROVE  IndInv
<1> USE DEF Init
<1>1. \A k \in Keys : pending[k] = <<>> /\ active[k] = None OBVIOUS
<1>2. \A h \in Handlers : phase[h] = "new" OBVIOUS
<1>3. TypeOK
  <2>1. pending \in [Keys -> Seq(EventType)] OBVIOUS
  <2>2. active \in [Keys -> Delivery \cup {None}] OBVIOUS
  <2>3. store \in [Keys -> Object \cup {None}] BY DEF Nothing
  <2>4. items \in [Handlers -> [Keys -> Object \cup {None}]] BY DEF Nothing
  <2>5. phase \in [Handlers -> Phase] BY DEF Phase
  <2>6. view \in [Handlers -> [Keys -> Object \cup {None, Leftover}]]
    <3>1. ASSUME NEW h \in Handlers PROVE view[h] \in [Keys -> Object \cup {None, Leftover}]
      <4>1. view[h] \in [Keys -> {None, Leftover}] OBVIOUS
      <4> QED BY <4>1
    <3> QED BY <3>1
  <2>7. changes \in 0 .. MaxChanges BY MaxChangesIsNat
  <2> QED BY <1>1, <2>1, <2>2, <2>3, <2>4, <2>5, <2>6, <2>7 DEF TypeOK
<1>4. LockInv BY <1>2, NoneIsNil DEF LockInv
<1>5. ChainInv BY <1>1 DEF ChainInv
<1>6. DeliveryInv BY <1>1 DEF DeliveryInv
<1>7. ViewInv BY <1>2 DEF ViewInv
<1>8. AddInv BY <1>2 DEF AddInv
<1> QED BY <1>3, <1>4, <1>5, <1>6, <1>7, <1>8 DEF IndInv

\* The revisions that the informer's store gets are objects.
LEMMA StoreKeeps ==
    ASSUME IndInv, NEW k \in Keys, Create(k) \/ Modify(k) \/ Remove(k)
    PROVE  IndInv'
<1>1. changes < MaxChanges => changes + 1 \in 1 .. MaxChanges
  BY MaxChangesIsNat DEF IndInv, TypeOK
<1>2. CASE Create(k)
  <2>1. PICK b \in BOOLEAN : Change(k, [uid |-> changes + 1, rev |-> changes + 1, labelled |-> b])
    BY <1>2 DEF Create
  <2> DEFINE new == [uid |-> changes + 1, rev |-> changes + 1, labelled |-> b]
  <2>2. changes < MaxChanges BY <2>1 DEF Change
  <2>3. new \in Object BY <1>1, <2>2 DEF Object
  <2> HIDE DEF new
  <2>4. Change(k, new) BY <2>1 DEF new
  <2> QED BY <2>3, <2>4, ChangeKeeps
<1>3. CASE Modify(k)
  <2>1. PICK b \in BOOLEAN : /\ store[k] # None
                             /\ Change(k, [store[k] EXCEPT !.rev = changes + 1, !.labelled = b])
    BY <1>3 DEF Modify
  <2> DEFINE new == [store[k] EXCEPT !.rev = changes + 1, !.labelled = b]
  <2>2. changes < MaxChanges BY <2>1 DEF Change
  <2>3. store[k] \in Object BY <2>1 DEF IndInv, TypeOK
  <2>4. new \in Object BY <1>1, <2>2, <2>3 DEF Object
  <2> HIDE DEF new
  <2>5. Change(k, new) BY <2>1 DEF new
  <2> QED BY <2>4, <2>5, ChangeKeeps
<1>4. CASE Remove(k) BY <1>4, ChangeKeeps DEF Remove
<1> QED BY <1>2, <1>3, <1>4

\* Every step keeps the invariant.
LEMMA NextOK ==
    ASSUME IndInv, [Next]_vars
    PROVE  IndInv'
<1>1. ASSUME NEW k \in Keys, Create(k) \/ Modify(k) \/ Remove(k) PROVE IndInv'
  BY <1>1, StoreKeeps
<1>2. ASSUME NEW k \in Keys, Deliver(k) PROVE IndInv'
  BY <1>2, RLockKeeps, NextHandlerKeeps, CheckTombstoneKeeps, CallKeeps, RUnlockKeeps DEF Deliver
<1>3. ASSUME NEW h \in Handlers, AddHandler(h) \/ LockAndList(h) \/ Add(h) PROVE IndInv'
  BY <1>3, AddHandlerKeeps, LockAndListKeeps, ProcessExistingKeeps, ProcessExistingFailsKeeps,
     InitialAddKeeps, RegisterKeeps DEF Add
<1>4. ASSUME NEW h \in Handlers, RemoveHandler(h) PROVE IndInv'
  <2>1. {h} \in SUBSET Handlers OBVIOUS
  <2> QED BY <1>4, <2>1, KillKeeps DEF RemoveHandler
<1>5. ASSUME NEW h \in Handlers, DeleteHandler(h) PROVE IndInv' BY <1>5, DeleteHandlerKeeps
<1>6. CASE RemoveAllHandlers
  <2> DEFINE hs == handlers \ tombstone
  <2>1. hs \in SUBSET Handlers BY RegistryInv
  <2>2. \A h \in hs : phase[h] = "registered" BY RegistryInv DEF IndInv, LockInv
  <2> HIDE DEF hs
  <2>3. Kill(hs) /\ UNCHANGED <<store, changes, pending, active, writer, handlers, items, view>>
    BY <1>6 DEF RemoveAllHandlers, hs
  <2> QED BY <2>1, <2>2, <2>3, KillKeeps
<1>7. CASE UNCHANGED vars
  <2>1. LockInv' BY <1>7 DEF IndInv, LockInv, vars
  <2> QED BY <1>7, <2>1, RegistryInv, RegistryKeeps DEF vars
<1> QED BY <1>1, <1>2, <1>3, <1>4, <1>5, <1>6, <1>7 DEF Next

\* The inductive invariant: who holds the lock, that the undelivered events are a
\* chain up to what is stored, and that every handler is on the way along it.
THEOREM Invariance == Spec => []IndInv
BY InitOK, NextOK, PTL DEF Spec

\* Type correctness; among others, a handler is in the deliveries in progress only
\* as long as it is registered.
THEOREM TypeCorrect == Spec => []TypeOK
<1>1. IndInv => TypeOK BY DEF IndInv
<1> QED BY <1>1, Invariance, PTL

\* When no event of an object is on its way every live handler knows exactly what
\* the store has, for any number of objects and handlers, whatever changed while
\* handlers were added or removed.
THEOREM Convergence == Spec => []ConvergedWhenIdle
<1>1. IndInv => ConvergedWhenIdle
  <2> SUFFICES ASSUME IndInv, NEW h \in handlers \ tombstone, NEW k \in Keys,
                      pending[k] = <<>>, active[k] = None
               PROVE  view[h][k] = Wanted(h, k)
    BY DEF ConvergedWhenIdle
  <2>1. h \in Handlers /\ phase[h] = "registered" BY RegistryInv DEF IndInv, LockInv
  <2>2. OnTheWay(h, k, view[h][k]) BY <2>1, RegistryInv DEF Informed
  <2>3. Ahead(k) = {store[k]} BY DEF Ahead
  <2> QED BY <2>2, <2>3 DEF OnTheWay, Want, Wanted
<1> QED BY <1>1, Invariance, PTL

\* Once the removal of a handler is done no function of it runs or will run.
THEOREM Quiet == Spec => []RemovedIsQuiet
<1>1. IndInv => RemovedIsQuiet
  <2> SUFFICES ASSUME IndInv, NEW h \in Handlers, phase[h] = "removed",
                      NEW k \in Keys, active[k] # None
               PROVE  active[k].cur # h /\ h \notin active[k].todo
    BY DEF RemovedIsQuiet
  <2>1. h \notin handlers BY DEF IndInv, LockInv
  <2>2. InProgress(active[k]) BY DEF IndInv, DeliveryInv
  <2> QED BY <2>1, <2>2, NoneIsNil DEF InProgress
<1> QED BY <1>1, Invariance, PTL

=============================================================================
