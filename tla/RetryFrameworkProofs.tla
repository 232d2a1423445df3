------------------------ MODULE RetryFrameworkProofs ------------------------
(***************************************************************************)
(* Proofs about the retry framework, for any number of objects, types,     *)
(* changes, failures, retries and requests.                                *)
(***************************************************************************)
EXTENDS RetryFramework, SequenceTheorems, TLAPS

\* The states of k from the last one that was handled on to the cached one.
Ahead(k) == {pending[k][i].old : i \in DOMAIN pending[k]} \cup {store[k]}

\* The states the events of k that are not handled yet lead to.
News(k) == {pending[k][i].new : i \in DOMAIN pending[k]}

Running(s) == s # None /\ s.phase = "running"

\* There is nothing to configure in state s any more.
Over(s) == s = None \/ s.phase = "completed"

\* An event is about some object, and objects of other types than pods are
\* always running.
EventOK(ev) == /\ ev.old # None \/ ev.new # None
               /\ ~resource.pods /\ ev.old # None => Running(ev.old)

\* So is the cached one, which is the last that was created.
CachedOK(k) == /\ store[k] # None => store[k].uid = uids[k]
               /\ ~resource.pods => /\ listed[k] = None
                                    /\ store[k] # None => Running(store[k])

ObjectsInv == \A k \in Keys : /\ CachedOK(k)
                              /\ \A i \in 1 .. Len(pending[k]) : EventOK(pending[k][i])

\* Each event of k that is not handled yet begins where the one before it ended,
\* and the last ends with what is cached.
ChainInv == \A k \in Keys : \A i \in 1 .. Len(pending[k]) :
    pending[k][i].new = IF i = Len(pending[k]) THEN store[k] ELSE pending[k][i + 1].old

\* What UpdateFunc has read is a state that the events lead to.
LatestInv == \A k \in Keys : latest[k] # None => IsUpdate(k) /\ latest[k] \in News(k)

\* With entry e and h configured an object that goes through the states S is
\* not forgotten: without an entry one of these states is configured already or
\* needs nothing to be added, and an entry that adds nothing is due to such a state.
Covered(S, e, h) ==
    /\ e = None => \E s \in S : Running(s) => h = s
    /\ e # None /\ e.newObj = None => \E s \in S : ~Running(s)

CoveredInv == \A k \in Keys : k \notin gaveUp => Covered(Ahead(k), retryEntries[k], held[k])

\* What is configured for an object that is gone is removed or going to be.
Gone(e, h) == IF e = None THEN h = None ELSE e.oldObj # None

GoneInv == \A k \in Keys :
    ~resource.pods /\ k \notin gaveUp /\ pending[k] = <<>> /\ store[k] = None =>
        Gone(retryEntries[k], held[k])

\* As long as nothing fails and nobody asks for retries there are no entries.
QuietInv == ~failed /\ requests = 0 => \A k \in Keys : retryEntries[k] = None /\ listed[k] = None

\* The life of a pod that nothing disturbs.
PodLife(k) ==
    /\ uids[k] = 0 => store[k] = None /\ pending[k] = <<>> /\ k \notin terminated
    /\ \A i \in 1 .. Len(pending[k]) :
         /\ pending[k][i].old = None => i = 1 /\ k \notin terminated
         /\ pending[k][i].new # None /\ Over(pending[k][i].new) => Over(store[k])
    /\ k \in terminated => held[k] = None /\ Over(store[k]) /\ Over(latest[k])
    /\ pending[k] = <<>> /\ Over(store[k]) => held[k] = None

PodInv == \A k \in Keys : resource.pods /\ Undisturbed(k) => PodLife(k)

IndInv == TypeOK /\ ObjectsInv /\ ChainInv /\ LatestInv /\ CoveredInv /\ GoneInv /\ QuietInv /\ PodInv

-----------------------------------------------------------------------------
(***************************************************************************)
(* Sequences and the states ahead                                          *)
(***************************************************************************)

\* A sequence that is not empty: its first element and the rest.
LEMMA HeadAndTail ==
    ASSUME NEW S, NEW q \in Seq(S), q # <<>>
    PROVE  /\ Head(q) \in S /\ Tail(q) \in Seq(S)
           /\ Len(q) \in Nat /\ Len(q) >= 1 /\ Head(q) = q[1]
           /\ Len(Tail(q)) = Len(q) - 1
           /\ \A i \in 1 .. Len(q) - 1 : Tail(q)[i] = q[i + 1]
OBVIOUS

\* The length and the elements of a sequence.
LEMMA Lengths ==
    ASSUME NEW S, NEW q \in Seq(S)
    PROVE  /\ Len(q) \in Nat /\ DOMAIN q = 1 .. Len(q)
           /\ q = <<>> <=> Len(q) = 0
           /\ \A i \in 1 .. Len(q) : q[i] \in S
OBVIOUS

\* The elements of a concatenation.
LEMMA Concatenated ==
    ASSUME NEW S, NEW q \in Seq(S), NEW r \in Seq(S)
    PROVE  /\ q \o r \in Seq(S)
           /\ Len(q) \in Nat /\ Len(r) \in Nat /\ Len(q \o r) = Len(q) + Len(r)
           /\ \A i \in 1 .. Len(q) : (q \o r)[i] = q[i]
           /\ \A i \in 1 .. Len(r) : (q \o r)[Len(q) + i] = r[i]
<1>1. /\ q \o r \in Seq(S)
      /\ Len(q \o r) = Len(q) + Len(r)
      /\ \A i \in 1 .. Len(q) + Len(r) : (q \o r)[i] = IF i <= Len(q) THEN q[i] ELSE r[i - Len(q)]
  BY ConcatProperties
<1>2. Len(q) \in Nat /\ Len(r) \in Nat OBVIOUS
<1> DEFINE c == q \o r
           m == Len(q)
           n == Len(r)
<1> HIDE DEF c, m, n
<1>3. \A i \in 1 .. m + n : c[i] = IF i <= m THEN q[i] ELSE r[i - m] BY <1>1 DEF c, m, n
<1>4. m \in Nat /\ n \in Nat BY <1>2 DEF m, n
<1>5. ASSUME NEW i \in 1 .. m PROVE c[i] = q[i]
  <2>1. i \in 1 .. m + n /\ i <= m BY <1>4
  <2> QED BY <1>3, <2>1
<1>6. ASSUME NEW i \in 1 .. n PROVE c[m + i] = r[i]
  <2>1. m + i \in 1 .. m + n /\ ~(m + i <= m) /\ (m + i) - m = i BY <1>4
  <2> QED BY <1>3, <2>1
<1> QED BY <1>1, <1>2, <1>5, <1>6 DEF c, m, n

\* What the invariant says of the events of an object.
LEMMA EventsTyped ==
    ASSUME TypeOK, NEW k \in Keys
    PROVE  /\ pending[k] \in Seq(EventType) /\ Len(pending[k]) \in Nat
           /\ DOMAIN pending[k] = 1 .. Len(pending[k])
           /\ pending[k] = <<>> <=> Len(pending[k]) = 0
           /\ \A i \in 1 .. Len(pending[k]) :
                /\ pending[k][i] \in EventType
                /\ pending[k][i].old \in ObjectOrNil /\ pending[k][i].new \in ObjectOrNil
<1>1. pending[k] \in Seq(EventType) BY DEF TypeOK
<1>2. \A ev \in EventType : ev.old \in ObjectOrNil /\ ev.new \in ObjectOrNil BY DEF EventType
<1> QED BY <1>1, <1>2, Lengths

\* The event that is handled next; it is behind, the others and what is cached
\* are where the events lead to.
LEMMA FirstEvent ==
    ASSUME TypeOK, ChainInv, ObjectsInv, NEW k \in Keys, pending[k] # <<>>
    PROVE  /\ Event1(k) = pending[k][1]
           /\ Event1(k).old \in ObjectOrNil /\ Event1(k).new \in ObjectOrNil
           /\ Event1(k).old # None \/ Event1(k).new # None
           /\ Event1(k).new \in News(k) /\ store[k] \in News(k)
           /\ Ahead(k) \subseteq News(k) \cup {Event1(k).old}
           /\ Tail(pending[k]) = <<>> => Event1(k).new = store[k] /\ News(k) = {store[k]}
<1> DEFINE q == pending[k]
           n == Len(q)
<1>1. q \in Seq(EventType) /\ n \in Nat /\ n >= 1 /\ DOMAIN q = 1 .. n
  BY EventsTyped, HeadAndTail
<1>2. Event1(k) = q[1] /\ Len(Tail(q)) = n - 1 /\ Tail(q) \in Seq(EventType)
  BY <1>1, HeadAndTail DEF Event1
<1>3. \A i \in 1 .. n : q[i].new = IF i = n THEN store[k] ELSE q[i + 1].old BY DEF ChainInv
<1>4. Tail(q) = <<>> => n = 1
  <2>1. Tail(q) = <<>> => Len(Tail(q)) = 0 BY <1>2, Lengths
  <2> QED BY <1>1, <1>2, <2>1
<1>5. /\ q[1].old \in ObjectOrNil /\ q[1].new \in ObjectOrNil
      /\ q[1].old # None \/ q[1].new # None
  BY <1>1, EventsTyped DEF ObjectsInv, EventOK
<1> HIDE DEF q, n
<1>6. News(k) = {q[i].new : i \in 1 .. n} BY <1>1 DEF News, q
<1>7. Ahead(k) = {q[i].old : i \in 1 .. n} \cup {store[k]} BY <1>1 DEF Ahead, q
<1>8. 1 \in 1 .. n /\ n \in 1 .. n BY <1>1
<1>9. q[1].new \in News(k) /\ store[k] \in News(k) BY <1>3, <1>6, <1>8
<1>10. ASSUME NEW i \in 1 .. n, i # 1 PROVE q[i].old \in News(k)
  <2>1. i - 1 \in 1 .. n /\ i - 1 # n /\ (i - 1) + 1 = i BY <1>1, <1>10
  <2>2. q[i - 1].new = q[i].old BY <1>3, <2>1
  <2> QED BY <1>6, <2>1, <2>2
<1>11. Ahead(k) \subseteq News(k) \cup {q[1].old} BY <1>7, <1>9, <1>10
<1>12. n = 1 => q[1].new = store[k] /\ News(k) = {store[k]} BY <1>3, <1>6, <1>8
<1> QED BY <1>2, <1>4, <1>5, <1>9, <1>11, <1>12 DEF q

\* When an event has been handled, what the events led to is ahead.
LEMMA HandledAhead ==
    ASSUME TypeOK, ChainInv, NEW k \in Keys, pending[k] # <<>>,
           pending' = [pending EXCEPT ![k] = Tail(@)], store' = store
    PROVE  News(k) \subseteq Ahead(k)'
<1> DEFINE q == pending[k]
           n == Len(q)
           r == Tail(q)
<1>1. q \in Seq(EventType) /\ n \in Nat /\ n >= 1 /\ DOMAIN q = 1 .. n
  BY EventsTyped, HeadAndTail
<1>2. r \in Seq(EventType) /\ Len(r) = n - 1 /\ \A i \in 1 .. n - 1 : r[i] = q[i + 1]
  BY <1>1, HeadAndTail
<1>3. DOMAIN r = 1 .. n - 1 BY <1>2, Lengths
<1>4. pending'[k] = r BY DEF TypeOK
<1>5. \A i \in 1 .. n : q[i].new = IF i = n THEN store[k] ELSE q[i + 1].old BY DEF ChainInv
<1> HIDE DEF q, n, r
<1>6. News(k) = {q[i].new : i \in 1 .. n} BY <1>1 DEF News, q
<1>7. Ahead(k)' = {r[i].old : i \in 1 .. n - 1} \cup {store[k]} BY <1>3, <1>4 DEF Ahead
<1>8. ASSUME NEW i \in 1 .. n PROVE q[i].new \in Ahead(k)'
  <2>1. CASE i = n BY <1>5, <1>7, <2>1
  <2>2. CASE i # n
    <3>1. i \in 1 .. n - 1 BY <1>1, <2>2
    <3> QED BY <1>2, <1>5, <1>7, <2>2, <3>1
  <2> QED BY <2>1, <2>2
<1> QED BY <1>6, <1>8

-----------------------------------------------------------------------------
(***************************************************************************)
(* Retry entries and the type's functions                                  *)
(***************************************************************************)

\* What an entry has; without one there is nothing.
NewOf(e) == IF e = None THEN None ELSE e.newObj
OldOf(e) == IF e = None THEN None ELSE e.oldObj

\* The fields of an entry.
LEMMA EntryType ==
    ASSUME NEW e \in RetryObjEntry
    PROVE  /\ e # None /\ e.newObj \in ObjectOrNil /\ e.oldObj \in ObjectOrNil
           /\ e.config \in ObjectOrNil /\ e.failedAttempts \in 0 .. MaxFailedAttempts
           /\ NewOf(e) = e.newObj /\ OldOf(e) = e.oldObj
<1>1. e # None BY NoneIsNil
<1> QED BY <1>1 DEF RetryObjEntry, NewOf, OldOf

\* An entry whose time stamp is set has not failed and keeps its objects.
LEMMA StampedType ==
    ASSUME NEW e \in RetryObjEntry \cup {None}
    PROVE  /\ Stamped(e) \in RetryObjEntry /\ Stamped(e).failedAttempts = 0
           /\ Stamped(e).newObj = NewOf(e) /\ Stamped(e).oldObj = OldOf(e)
<1>1. 0 \in 0 .. MaxFailedAttempts BY MaxFailedAttemptsIsNat
<1>2. CASE e = None BY <1>1, <1>2 DEF Stamped, RetryObjEntry, NewOf, OldOf, ObjectOrNil
<1>3. CASE e # None
  <2>1. e \in RetryObjEntry BY <1>3
  <2>2. Stamped(e) = [e EXCEPT !.failedAttempts = 0, !.due = FALSE] BY <1>3 DEF Stamped
  <2> QED BY <1>1, <1>3, <2>1, <2>2 DEF RetryObjEntry, NewOf, OldOf
<1> QED BY <1>2, <1>3

\* An entry for an object to be added.
LEMMA AddedType ==
    ASSUME NEW e \in RetryObjEntry \cup {None}, NEW obj \in ObjectOrNil, NEW b \in BOOLEAN
    PROVE  LET f == initRetryObjWithAddBackoff(e, obj, b) IN
           /\ f \in RetryObjEntry /\ f.failedAttempts = 0 /\ f.newObj = obj /\ f.oldObj = OldOf(e)
<1> DEFINE t == Stamped(e)
<1>1. t \in RetryObjEntry /\ t.failedAttempts = 0 /\ t.oldObj = OldOf(e) BY StampedType
<1> HIDE DEF t
<1>2. initRetryObjWithAddBackoff(e, obj, b) = [t EXCEPT !.newObj = obj, !.force = b]
  BY DEF initRetryObjWithAddBackoff, t
<1> QED BY <1>1, <1>2 DEF RetryObjEntry

\* An entry for an object to be updated.
LEMMA UpdatedType ==
    ASSUME NEW e \in RetryObjEntry \cup {None}, NEW old \in ObjectOrNil, NEW new \in ObjectOrNil
    PROVE  LET f == initRetryObjWithUpdate(e, old, new) IN
           /\ f \in RetryObjEntry /\ f.failedAttempts = 0 /\ f.newObj = new
<1> DEFINE t == Stamped(e)
<1>1. t \in RetryObjEntry /\ t.failedAttempts = 0 BY StampedType
<1> HIDE DEF t
<1>2. initRetryObjWithUpdate(e, old, new) = [t EXCEPT !.newObj = new, !.config = old]
  BY DEF initRetryObjWithUpdate, t
<1> QED BY <1>1, <1>2 DEF RetryObjEntry

\* An entry for an object to be deleted.
LEMMA DeletedType ==
    ASSUME NEW e \in RetryObjEntry \cup {None}, NEW obj \in ObjectOrNil, NEW b \in BOOLEAN
    PROVE  LET f == InitRetryObjWithDelete(e, obj, b) IN
           /\ f \in RetryObjEntry /\ f.failedAttempts = 0 /\ f.oldObj = obj
<1> DEFINE t == Stamped(e)
           new == IF b THEN None ELSE t.newObj
<1>1. t \in RetryObjEntry /\ t.failedAttempts = 0 BY StampedType
<1>2. InitRetryObjWithDelete(e, obj, b) = [t EXCEPT !.oldObj = obj, !.newObj = new]
  BY DEF InitRetryObjWithDelete
<1>3. new \in ObjectOrNil BY <1>1, EntryType DEF ObjectOrNil
<1> HIDE DEF t, new
<1> QED BY <1>1, <1>2, <1>3 DEF RetryObjEntry

\* An entry of which nothing is to be deleted any more.
LEMMA RemovedType ==
    ASSUME NEW e \in RetryObjEntry
    PROVE  LET f == removeDeleteFromRetryObj(e) IN
           f \in RetryObjEntry /\ f.failedAttempts = e.failedAttempts /\ f.newObj = e.newObj
BY DEF removeDeleteFromRetryObj, RetryObjEntry, ObjectOrNil

\* An entry with one more failed attempt.
LEMMA IncreasedType ==
    ASSUME NEW e \in RetryObjEntry, e.failedAttempts < MaxFailedAttempts
    PROVE  LET f == increaseFailedAttemptsCounter(e) IN
           f \in RetryObjEntry /\ f.newObj = e.newObj /\ f.oldObj = e.oldObj
<1>1. e.failedAttempts + 1 \in 0 .. MaxFailedAttempts
  BY EntryType, MaxFailedAttemptsIsNat
<1> QED BY <1>1 DEF increaseFailedAttemptsCounter, RetryObjEntry

\* The first failure of an entry just stamped is within the limit.
LEMMA FirstFailure ==
    ASSUME NEW e \in RetryObjEntry, e.failedAttempts = 0
    PROVE  LET f == increaseFailedAttemptsCounter(e) IN
           f \in RetryObjEntry /\ f.newObj = e.newObj /\ f.oldObj = e.oldObj
<1>1. e.failedAttempts < MaxFailedAttempts BY MaxFailedAttemptsIsNat
<1> QED BY <1>1, IncreasedType

\* A call of one of the type's functions succeeds, or it fails and has done its
\* work or not.
LEMMA OutcomeOf ==
    ASSUME NEW before, NEW after, NEW o \in Outcomes(before, after)
    PROVE  /\ o.ok \in BOOLEAN
           /\ o.ok => o.held = after
           /\ o.held = before \/ o.held = after
<1>1. \/ o = [ok |-> TRUE, held |-> after]
      \/ o = [ok |-> FALSE, held |-> before]
      \/ o = [ok |-> FALSE, held |-> after]
  BY DEF Outcomes
<1>2. CASE o = [ok |-> TRUE, held |-> after]
  <2>1. o.ok = TRUE /\ o.held = after BY <1>2, Zenon
  <2> QED BY <2>1
<1>3. CASE o = [ok |-> FALSE, held |-> before]
  <2>1. o.ok = FALSE /\ o.held = before BY <1>3, Zenon
  <2> QED BY <2>1
<1>4. CASE o = [ok |-> FALSE, held |-> after]
  <2>1. o.ok = FALSE /\ o.held = after BY <1>4, Zenon
  <2> QED BY <2>1
<1> QED BY <1>1, <1>2, <1>3, <1>4

\* A call that is not made.
LEMMA NoCallOf ==
    ASSUME NEW h
    PROVE  NoCall(h).ok = TRUE /\ NoCall(h).held = h
BY Zenon DEF NoCall

-----------------------------------------------------------------------------
(***************************************************************************)
(* What has to be shown of a step                                          *)
(***************************************************************************)

\* A step that handles the first event of k and ends with entry e and h
\* configured.
LEMMA HandleKeeps ==
    ASSUME IndInv, NEW k \in Keys, pending[k] # <<>>, Handled(k),
           NEW e \in RetryObjEntry \cup {None}, NEW h \in ObjectOrNil,
           retryEntries' = [retryEntries EXCEPT ![k] = e],
           held' = [held EXCEPT ![k] = h],
           failed' \in BOOLEAN, failed => failed',
           terminated' \subseteq Keys,
           \A j \in Keys : j # k => (j \in terminated' <=> j \in terminated),
           k \notin gaveUp => Covered(News(k), e, h),
           ~resource.pods /\ Event1(k).new = None => Gone(e, h),
           ~failed' /\ requests = 0 => e = None,
           resource.pods /\ Undisturbed(k) /\ ~failed' =>
             /\ k \in terminated' => h = None /\ Over(store[k])
             /\ Tail(pending[k]) = <<>> /\ Over(store[k]) => h = None
    PROVE  IndInv'
<1> USE DEF IndInv
<1> DEFINE q == pending[k]
           n == Len(q)
           r == Tail(q)
<1>1. /\ pending' = [pending EXCEPT ![k] = Tail(@)] /\ latest' = [latest EXCEPT ![k] = None]
      /\ UNCHANGED <<resource, store, changes, uids, listed, requests, requested, loop, gaveUp>>
  BY DEF Handled, informerVars, listVars, loopVars
<1>2. q \in Seq(EventType) /\ n \in Nat /\ n >= 1 BY EventsTyped, HeadAndTail
<1>3. r \in Seq(EventType) /\ Len(r) = n - 1 /\ \A i \in 1 .. n - 1 : r[i] = q[i + 1]
  BY <1>2, HeadAndTail
<1>4. /\ pending'[k] = r /\ latest'[k] = None /\ retryEntries'[k] = e /\ held'[k] = h
      /\ \A j \in Keys : j # k => /\ pending'[j] = pending[j] /\ latest'[j] = latest[j]
                                  /\ retryEntries'[j] = retryEntries[j] /\ held'[j] = held[j]
  BY <1>1 DEF TypeOK
<1>5. \A i \in 1 .. n - 1 : i + 1 \in 1 .. n /\ i + 1 # 1 BY <1>2
<1>6. TypeOK'
  <2>1. pending' \in [Keys -> Seq(EventType)] BY <1>1, <1>3 DEF TypeOK
  <2>2. latest' \in [Keys -> ObjectOrNil] BY <1>1 DEF TypeOK, ObjectOrNil
  <2>3. retryEntries' \in [Keys -> RetryObjEntry \cup {None}] /\ held' \in [Keys -> ObjectOrNil]
    BY DEF TypeOK
  <2> QED BY <1>1, <2>1, <2>2, <2>3 DEF TypeOK
<1>7. ChainInv'
  <2> SUFFICES ASSUME NEW j \in Keys, NEW i \in 1 .. Len(pending'[j])
               PROVE  pending'[j][i].new = IF i = Len(pending'[j]) THEN store[j]
                                           ELSE pending'[j][i + 1].old
    BY <1>1 DEF ChainInv
  <2>1. CASE j # k BY <1>4, <2>1 DEF ChainInv
  <2>2. CASE j = k
    <3>1. \A m \in 1 .. n : q[m].new = IF m = n THEN store[k] ELSE q[m + 1].old BY DEF ChainInv
    <3>2. i \in 1 .. n - 1 BY <1>3, <1>4, <2>2
    <3> HIDE DEF q, n, r
    <3>3. i + 1 \in 1 .. n /\ (i + 1 = n <=> i = n - 1) BY <1>2, <3>2
    <3>4. CASE i = n - 1 BY <1>3, <1>4, <2>2, <3>1, <3>2, <3>3, <3>4
    <3>5. CASE i # n - 1
      <4>1. i + 1 \in 1 .. n - 1 BY <1>2, <3>2, <3>5
      <4> QED BY <1>3, <1>4, <2>2, <3>1, <3>2, <3>3, <3>5, <4>1
    <3> QED BY <3>4, <3>5
  <2> QED BY <2>1, <2>2
<1>8. ObjectsInv'
  <2>1. \A j \in Keys : CachedOK(j)' BY <1>1 DEF ObjectsInv, CachedOK, Running
  <2>2. ASSUME NEW j \in Keys, NEW i \in 1 .. Len(pending'[j]) PROVE EventOK(pending'[j][i])
    <3>1. CASE j # k BY <1>4, <3>1 DEF ObjectsInv
    <3>2. CASE j = k
      <4>1. i \in 1 .. n - 1 BY <1>3, <1>4, <3>2
      <4>2. pending'[j][i] = q[i + 1] BY <1>3, <1>4, <3>2, <4>1
      <4> QED BY <1>5, <4>1, <4>2 DEF ObjectsInv
    <3> QED BY <3>1, <3>2
  <2>3. \A ev : EventOK(ev) => EventOK(ev)' BY <1>1 DEF EventOK, Running
  <2> QED BY <2>1, <2>2, <2>3 DEF ObjectsInv, EventOK, Running
<1>9. LatestInv'
  <2> SUFFICES ASSUME NEW j \in Keys, latest'[j] # None
               PROVE  IsUpdate(j)' /\ latest'[j] \in News(j)'
    BY DEF LatestInv
  <2>1. j # k BY <1>4
  <2>2. pending'[j] = pending[j] /\ latest'[j] = latest[j] BY <1>4, <2>1
  <2> QED BY <2>2 DEF LatestInv, IsUpdate, Event1, News
<1>10. CoveredInv'
  <2> SUFFICES ASSUME NEW j \in Keys, j \notin gaveUp
               PROVE  Covered(Ahead(j), retryEntries[j], held[j])'
    BY <1>1 DEF CoveredInv
  <2>1. CASE j # k
    <3>1. Ahead(j)' = Ahead(j) BY <1>1, <1>4, <2>1 DEF Ahead
    <3> QED BY <1>4, <2>1, <3>1 DEF CoveredInv, Covered, Running
  <2>2. CASE j = k
    <3>1. News(k) \subseteq Ahead(k)' BY <1>1, HandledAhead
    <3> QED BY <1>4, <2>2, <3>1 DEF Covered, Running
  <2> QED BY <2>1, <2>2
<1>11. GoneInv'
  <2> SUFFICES ASSUME NEW j \in Keys, ~resource.pods, j \notin gaveUp, pending'[j] = <<>>, store[j] = None
               PROVE  Gone(retryEntries'[j], held'[j])
    BY <1>1 DEF GoneInv, Gone
  <2>1. CASE j # k BY <1>4, <2>1 DEF GoneInv
  <2>2. CASE j = k BY <1>4, <2>2, FirstEvent
  <2> QED BY <2>1, <2>2
<1>12. QuietInv'
  <2> SUFFICES ASSUME ~failed', requests = 0, NEW j \in Keys
               PROVE  retryEntries'[j] = None /\ listed[j] = None
    BY <1>1 DEF QuietInv
  <2>1. ~failed OBVIOUS
  <2> QED BY <1>4, <2>1 DEF QuietInv
<1>13. PodInv'
  <2> SUFFICES ASSUME NEW j \in Keys, resource.pods, Undisturbed(j)'
               PROVE  PodLife(j)'
    BY <1>1 DEF PodInv
  <2>1. ~failed' /\ Undisturbed(j) BY <1>1 DEF Undisturbed
  <2>2. PodLife(j) BY <2>1 DEF PodInv
  <2>3. CASE j # k BY <1>1, <1>4, <2>2, <2>3 DEF PodLife, Over
  <2>4. CASE j = k
    <3>1. uids[k] # 0 BY <2>2, <2>4 DEF PodLife
    <3>2. ASSUME NEW i \in 1 .. n - 1
          PROVE  r[i].old # None /\ (r[i].new # None /\ Over(r[i].new) => Over(store[k]))
      BY <1>3, <1>5, <2>2, <2>4 DEF PodLife
    <3>3. Over(store[k])' <=> Over(store[k]) BY <1>1 DEF Over
    <3>4. Over(latest[k])' BY <1>4 DEF Over
    <3>5. Len(pending'[k]) = n - 1 BY <1>3, <1>4
    <3>6. \A i \in 1 .. n - 1 : pending'[k][i].new # None /\ Over(pending[k][i].new)' => Over(store[k])
      BY <1>4, <3>2 DEF Over
    <3>7. \A i \in 1 .. n - 1 : pending'[k][i].old # None BY <1>4, <3>2
    <3>8. k \in terminated' => held'[k] = None /\ Over(store[k])' BY <1>4, <2>1, <2>4, <3>3
    <3>9. pending'[k] = <<>> /\ Over(store[k])' => held'[k] = None BY <1>4, <2>1, <2>4, <3>3
    <3> HIDE DEF n, r
    <3> QED BY <1>1, <2>4, <3>1, <3>3, <3>4, <3>5, <3>6, <3>7, <3>8, <3>9 DEF PodLife
  <2> QED BY <2>3, <2>4
<1> QED BY <1>6, <1>7, <1>8, <1>9, <1>10, <1>11, <1>12, <1>13

\* A step that handles no event and changes no object.
LEMMA OtherKeeps ==
    ASSUME IndInv, UNCHANGED <<informerVars, pending, latest, terminated>>,
           listed' \in [Keys -> ObjectOrNil],
           requests' \in 0 .. MaxRequests, requests' = 0 => requests = 0,
           retryEntries' \in [Keys -> RetryObjEntry \cup {None}],
           requested' \in BOOLEAN, loop' \subseteq Keys,
           held' \in [Keys -> ObjectOrNil],
           gaveUp \subseteq gaveUp', gaveUp' \subseteq Keys,
           failed' \in BOOLEAN, failed => failed',
           ~resource.pods => \A k \in Keys : listed'[k] = None,
           \A k \in Keys :
             /\ k \notin gaveUp' => Covered(Ahead(k), retryEntries'[k], held'[k])
             /\ ~resource.pods /\ k \notin gaveUp' /\ pending[k] = <<>> /\ store[k] = None =>
                  Gone(retryEntries'[k], held'[k])
             /\ ~failed' /\ requests' = 0 =>
                  retryEntries'[k] = None /\ listed'[k] = None /\ held'[k] = held[k]
    PROVE  IndInv'
<1> USE DEF IndInv
<1>1. UNCHANGED <<resource, store, changes, uids, pending, latest, terminated>> BY DEF informerVars
<1>2. TypeOK' BY <1>1 DEF TypeOK
<1>3. ChainInv' BY <1>1 DEF ChainInv
<1>4. ObjectsInv' BY <1>1 DEF ObjectsInv, CachedOK, EventOK, Running
<1>5. LatestInv' BY <1>1 DEF LatestInv, IsUpdate, Event1, News
<1>6. \A k \in Keys : Ahead(k)' = Ahead(k) BY <1>1 DEF Ahead
<1>7. CoveredInv' BY <1>6 DEF CoveredInv, Covered, Running
<1>8. GoneInv' BY <1>1 DEF GoneInv, Gone
<1>9. QuietInv' BY DEF QuietInv
<1>10. PodInv'
  <2> SUFFICES ASSUME NEW k \in Keys, resource.pods, Undisturbed(k)'
               PROVE  PodLife(k)'
    BY <1>1 DEF PodInv
  <2>1. ~failed' /\ requests' = 0 BY DEF Undisturbed
  <2>2. Undisturbed(k) BY <1>1, <2>1 DEF Undisturbed
  <2>3. PodLife(k) BY <2>2 DEF PodInv
  <2>4. held'[k] = held[k] BY <2>1
  <2> QED BY <1>1, <2>3, <2>4 DEF PodLife, Over
<1> QED BY <1>2, <1>3, <1>4, <1>5, <1>7, <1>8, <1>9, <1>10

\* What the invariant says of entries and what is configured.
LEMMA EntriesInv ==
    ASSUME IndInv
    PROVE  /\ listed \in [Keys -> ObjectOrNil] /\ requests \in 0 .. MaxRequests
           /\ retryEntries \in [Keys -> RetryObjEntry \cup {None}]
           /\ requested \in BOOLEAN /\ loop \subseteq Keys
           /\ held \in [Keys -> ObjectOrNil] /\ gaveUp \subseteq Keys /\ failed \in BOOLEAN
           /\ store \in [Keys -> ObjectOrNil]
           /\ ~resource.pods => \A k \in Keys : listed[k] = None
           /\ \A k \in Keys :
                /\ k \notin gaveUp => Covered(Ahead(k), retryEntries[k], held[k])
                /\ ~resource.pods /\ k \notin gaveUp /\ pending[k] = <<>> /\ store[k] = None =>
                     Gone(retryEntries[k], held[k])
                /\ ~failed /\ requests = 0 => retryEntries[k] = None /\ listed[k] = None
                /\ store[k] \in Ahead(k)
<1> USE DEF IndInv
<1>1. \A k \in Keys : store[k] \in Ahead(k) BY DEF Ahead
<1>2. TypeOK /\ CoveredInv /\ GoneInv /\ QuietInv /\ ObjectsInv OBVIOUS
<1>3. ~resource.pods => \A k \in Keys : listed[k] = None BY <1>2 DEF ObjectsInv, CachedOK
<1> QED BY <1>1, <1>2, <1>3 DEF TypeOK, CoveredInv, GoneInv, QuietInv

\* A step of the retry loop that ends with entry e and h configured for k.
LEMMA EntryKeeps ==
    ASSUME IndInv, NEW k \in Keys, retryEntries[k] # None,
           UNCHANGED <<informerVars, listVars, pending, latest, terminated>>,
           NEW e \in RetryObjEntry \cup {None}, NEW h \in ObjectOrNil,
           retryEntries' = [retryEntries EXCEPT ![k] = e],
           held' = [held EXCEPT ![k] = h],
           requested' \in BOOLEAN, loop' \subseteq Keys,
           gaveUp \subseteq gaveUp', gaveUp' \subseteq Keys,
           failed' \in BOOLEAN, failed => failed',
           k \notin gaveUp' => Covered(Ahead(k), e, h),
           ~resource.pods /\ k \notin gaveUp' /\ pending[k] = <<>> /\ store[k] = None => Gone(e, h)
    PROVE  IndInv'
<1>1. UNCHANGED <<informerVars, pending, latest, terminated>> /\ UNCHANGED <<listed, requests>>
  BY DEF listVars
<1>2. /\ retryEntries' \in [Keys -> RetryObjEntry \cup {None}] /\ held' \in [Keys -> ObjectOrNil]
      /\ retryEntries'[k] = e /\ held'[k] = h
      /\ \A j \in Keys : j # k => retryEntries'[j] = retryEntries[j] /\ held'[j] = held[j]
  BY EntriesInv
<1>3. ~(~failed' /\ requests' = 0) BY <1>1, EntriesInv
<1> QED BY <1>1, <1>2, <1>3, EntriesInv, OtherKeeps

-----------------------------------------------------------------------------
(***************************************************************************)
(* The retry loop and requests                                             *)
(***************************************************************************)

\* The retry loop, until it tries.
LEMMA LoopKeeps ==
    ASSUME IndInv, NEW k \in Keys, RetryGone(k) \/ RetryDrop(k) \/ RetryEarly(k) \/ BackoffExpires(k)
    PROVE  IndInv'
<1>1. loop \ {k} \subseteq Keys BY EntriesInv
<1>2. CASE RetryGone(k) \/ RetryEarly(k)
  <2>1. /\ loop' \subseteq Keys /\ UNCHANGED <<informerVars, pending, latest, terminated>>
        /\ UNCHANGED <<listed, requests, requested, retryEntries, held, gaveUp, failed>>
    BY <1>1, <1>2 DEF RetryGone, RetryEarly, Retried, listVars
  <2> QED BY <2>1, EntriesInv, OtherKeeps
<1>3. CASE RetryDrop(k)
  <2>1. /\ retryEntries[k] # None /\ retryEntries' = [retryEntries EXCEPT ![k] = None]
        /\ gaveUp' = gaveUp \cup {k} /\ loop' \subseteq Keys
        /\ UNCHANGED <<informerVars, listVars, pending, latest, terminated>>
        /\ UNCHANGED <<requested, held, failed>>
    BY <1>1, <1>3 DEF RetryDrop, Retried
  <2>2. held' = [held EXCEPT ![k] = held[k]] /\ held[k] \in ObjectOrNil BY <2>1, EntriesInv
  <2>3. gaveUp' \subseteq Keys /\ gaveUp \subseteq gaveUp' /\ k \in gaveUp' BY <2>1, EntriesInv
  <2> QED BY <2>1, <2>2, <2>3, EntriesInv, EntryKeeps
<1>4. CASE BackoffExpires(k)
  <2> DEFINE e == [retryEntries[k] EXCEPT !.due = TRUE]
  <2>1. /\ retryEntries[k] # None /\ retryEntries' = [retryEntries EXCEPT ![k] = e]
        /\ UNCHANGED <<informerVars, listVars, pending, latest, terminated>>
        /\ UNCHANGED <<requested, loop, held, gaveUp, failed>>
    BY <1>4 DEF BackoffExpires, loopVars
  <2>2. retryEntries[k] \in RetryObjEntry BY <2>1, EntriesInv
  <2>3. /\ e \in RetryObjEntry /\ e.newObj = retryEntries[k].newObj /\ e.oldObj = retryEntries[k].oldObj
    BY <2>2 DEF RetryObjEntry
  <2> HIDE DEF e
  <2>4. e # None BY <2>3, EntryType
  <2>5. held' = [held EXCEPT ![k] = held[k]] /\ held[k] \in ObjectOrNil BY <2>1, EntriesInv
  <2>6. k \notin gaveUp' => Covered(Ahead(k), e, held[k])
    BY <2>1, <2>3, <2>4, EntriesInv DEF Covered
  <2>7. ~resource.pods /\ k \notin gaveUp' /\ pending[k] = <<>> /\ store[k] = None => Gone(e, held[k])
    BY <2>1, <2>3, <2>4, EntriesInv DEF Gone
  <2>8. requested' \in BOOLEAN /\ loop' \subseteq Keys /\ failed' \in BOOLEAN BY <2>1, EntriesInv
  <2> QED BY <2>1, <2>3, <2>5, <2>6, <2>7, <2>8, EntriesInv, EntryKeeps
<1> QED BY <1>2, <1>3, <1>4

\* Passes of the loop and requests from other controllers.
LEMMA RequestKeeps ==
    ASSUME IndInv, \/ RequestRetryObjs \/ Iterate
                   \/ \E k \in Keys : ListPods(k) \/ AddRetryObjWithAddNoBackoff(k)
    PROVE  IndInv'
<1>1. requests < MaxRequests => requests + 1 \in 0 .. MaxRequests /\ requests + 1 # 0
  BY BoundsAreNat, EntriesInv
<1>2. CASE RequestRetryObjs
  <2>1. /\ requests < MaxRequests /\ requests' = requests + 1 /\ requested' = TRUE
        /\ UNCHANGED <<informerVars, pending, latest, terminated>>
        /\ UNCHANGED <<listed, loop, retryEntries, held, gaveUp, failed>>
    BY <1>2 DEF RequestRetryObjs
  <2>2. requested' \in BOOLEAN BY <2>1
  <2> QED BY <1>1, <2>1, <2>2, EntriesInv, OtherKeeps
<1>3. CASE Iterate
  <2>1. PICK b \in BOOLEAN : IterateRetryResources(b) BY <1>3 DEF Iterate
  <2>2. /\ requested' \in BOOLEAN /\ loop' \subseteq Keys
        /\ UNCHANGED <<informerVars, pending, latest, terminated>>
        /\ UNCHANGED <<listed, requests, retryEntries, held, gaveUp, failed>>
    BY <2>1 DEF IterateRetryResources, listVars
  <2> QED BY <2>2, EntriesInv, OtherKeeps
<1>4. ASSUME NEW k \in Keys, ListPods(k) PROVE IndInv'
  <2>1. /\ requests < MaxRequests /\ requests' = requests + 1 /\ resource.pods
        /\ listed' = [listed EXCEPT ![k] = store[k]]
        /\ UNCHANGED <<informerVars, pending, latest, terminated>>
        /\ UNCHANGED <<requested, loop, retryEntries, held, gaveUp, failed>>
    BY <1>4 DEF ListPods, loopVars
  <2>2. listed' \in [Keys -> ObjectOrNil] BY <2>1, EntriesInv
  <2> QED BY <1>1, <2>1, <2>2, EntriesInv, OtherKeeps
<1>5. ASSUME NEW k \in Keys, AddRetryObjWithAddNoBackoff(k) PROVE IndInv'
  <2> DEFINE e == initRetryObjWithAddBackoff(retryEntries[k], listed[k], TRUE)
  <2>1. /\ listed[k] # None /\ listed' = [listed EXCEPT ![k] = None]
        /\ retryEntries' = [retryEntries EXCEPT ![k] = e]
        /\ UNCHANGED <<informerVars, pending, latest, terminated>>
        /\ UNCHANGED <<requests, requested, loop, held, gaveUp, failed>>
    BY <1>5 DEF AddRetryObjWithAddNoBackoff, loopVars
  <2>2. e \in RetryObjEntry /\ e.newObj = listed[k]
    <3>1. retryEntries[k] \in RetryObjEntry \cup {None} /\ listed[k] \in ObjectOrNil BY EntriesInv
    <3>2. TRUE \in BOOLEAN OBVIOUS
    <3> QED BY <3>1, <3>2, AddedType, Zenon
  <2> HIDE DEF e
  <2>3. resource.pods BY <2>1, EntriesInv
  <2>4. ~(~failed /\ requests = 0) BY <2>1, EntriesInv
  <2>5. listed' \in [Keys -> ObjectOrNil] BY <2>1, EntriesInv DEF ObjectOrNil
  <2>6. /\ retryEntries' \in [Keys -> RetryObjEntry \cup {None}] /\ retryEntries'[k] = e
        /\ \A j \in Keys : j # k => retryEntries'[j] = retryEntries[j]
    BY <2>1, <2>2, EntriesInv
  <2>7. Covered(Ahead(k), e, held[k]) BY <2>1, <2>2, EntryType DEF Covered
  <2>8. \A j \in Keys : j \notin gaveUp => Covered(Ahead(j), retryEntries'[j], held[j])
    BY <2>6, <2>7, EntriesInv
  <2> QED BY <2>1, <2>3, <2>4, <2>5, <2>6, <2>8, EntriesInv, OtherKeeps
<1> QED BY <1>2, <1>3, <1>4, <1>5

\* The entry of an attempt that failed.
LEMMA FailedType ==
    ASSUME NEW e \in RetryObjEntry, e.failedAttempts < MaxFailedAttempts, NEW stamp \in BOOLEAN
    PROVE  LET f == [increaseFailedAttemptsCounter(e) EXCEPT !.due = IF stamp THEN FALSE ELSE @] IN
           f \in RetryObjEntry /\ f # None /\ f.newObj = e.newObj /\ f.oldObj = e.oldObj
<1> DEFINE c == increaseFailedAttemptsCounter(e)
           f == [c EXCEPT !.due = IF stamp THEN FALSE ELSE @]
<1>1. c \in RetryObjEntry /\ c.newObj = e.newObj /\ c.oldObj = e.oldObj BY IncreasedType
<1> HIDE DEF c
<1>2. f \in RetryObjEntry /\ f.newObj = c.newObj /\ f.oldObj = c.oldObj BY <1>1 DEF RetryObjEntry
<1>3. f # None BY <1>2, EntryType
<1> QED BY <1>1, <1>2, <1>3 DEF c

\* An attempt that ends with entry e and outcome o.
LEMMA TriedKeeps ==
    ASSUME IndInv, NEW k \in Keys, retryEntries[k] # None, Retried(k), UNCHANGED gaveUp,
           NEW e \in RetryObjEntry \cup {None}, NEW o, o.ok \in BOOLEAN, o.held \in ObjectOrNil,
           Finish(k, e, o),
           k \notin gaveUp => Covered(Ahead(k), e, o.held),
           ~resource.pods /\ k \notin gaveUp /\ pending[k] = <<>> /\ store[k] = None => Gone(e, o.held)
    PROVE  IndInv'
<1>1. /\ loop' = loop \ {k} /\ UNCHANGED <<informerVars, listVars, pending, latest, terminated>>
      /\ requested' = requested
  BY DEF Retried
<1>2. loop' \subseteq Keys /\ requested' \in BOOLEAN /\ gaveUp \subseteq gaveUp' /\ gaveUp' \subseteq Keys
  BY <1>1, EntriesInv
<1>3. /\ retryEntries' = [retryEntries EXCEPT ![k] = e] /\ held' = [held EXCEPT ![k] = o.held]
      /\ failed' = (failed \/ ~o.ok)
  BY DEF Finish
<1>4. failed' \in BOOLEAN /\ (failed => failed') BY <1>3
<1> QED BY <1>1, <1>2, <1>3, <1>4, EntryKeeps

\* A retry deletes the old object and adds the cached one.
LEMMA RetryKeeps ==
    ASSUME IndInv, NEW k \in Keys, ResourceRetry(k)
    PROVE  IndInv'
<1> DEFINE r == retryEntries[k]
           e == [r EXCEPT !.force = FALSE, !.newObj = IF @ = None THEN None ELSE store[k]]
           h == held[k]
           A == Ahead(k)
           gone == ~resource.pods /\ k \notin gaveUp /\ pending[k] = <<>> /\ store[k] = None
           Fails(f, o) == \E stamp \in BOOLEAN : RetryFails(k, f, o, stamp)
<1>1. /\ r # None /\ r.failedAttempts < MaxFailedAttempts /\ Retried(k) /\ UNCHANGED gaveUp
      /\ IF resource.needsUpdateDuringRetry /\ e.config # None /\ e.newObj # None
         THEN \E u \in UpdateResource(h, e.config, e.newObj) :
                IF u.ok THEN Finish(k, None, u) ELSE RetryFails(k, e, u, TRUE)
         ELSE RetryDeleteAndAdd(k, e)
  BY DEF ResourceRetry
<1>2. /\ r \in RetryObjEntry /\ h \in ObjectOrNil /\ store[k] \in ObjectOrNil /\ store[k] \in A
      /\ None \in ObjectOrNil
  BY <1>1, EntriesInv DEF ObjectOrNil
<1>3. /\ e \in RetryObjEntry /\ e.failedAttempts = r.failedAttempts /\ e.oldObj = r.oldObj
      /\ e.newObj = IF r.newObj = None THEN None ELSE store[k]
  BY <1>2 DEF RetryObjEntry
<1> HIDE DEF e
<1>4. e # None /\ e.failedAttempts < MaxFailedAttempts /\ e.newObj \in ObjectOrNil
  BY <1>1, <1>3, EntryType
<1>5. k \notin gaveUp /\ e.newObj = None => \E s \in A : ~Running(s)
  <2>1. CASE r.newObj = None BY <1>1, <2>1, EntriesInv DEF Covered
  <2>2. CASE r.newObj # None BY <1>2, <1>3, <2>2 DEF Running
  <2> QED BY <2>1, <2>2
<1>6. gone => e.newObj = None /\ e.oldObj # None
  BY <1>1, <1>3, EntriesInv DEF Gone
<1>7. e.newObj # None => e.newObj = store[k] BY <1>3
<1> HIDE DEF A, h, r, gone, Fails
<1>8. ASSUME NEW f \in RetryObjEntry, f.failedAttempts < MaxFailedAttempts, f.newObj = e.newObj,
             gone => f.oldObj # None,
             NEW o, o.ok \in BOOLEAN, o.held \in ObjectOrNil,
             Fails(f, o)
      PROVE  IndInv'
  <2>0. PICK stamp \in BOOLEAN : RetryFails(k, f, o, stamp) BY <1>8 DEF Fails
  <2> DEFINE g == [increaseFailedAttemptsCounter(f) EXCEPT !.due = IF stamp THEN FALSE ELSE @]
  <2>1. g \in RetryObjEntry /\ g # None /\ g.newObj = f.newObj /\ g.oldObj = f.oldObj
    BY <1>8, FailedType
  <2>2. Finish(k, g, o) BY <2>0 DEF RetryFails
  <2> HIDE DEF g
  <2>3. k \notin gaveUp => Covered(A, g, o.held) BY <1>5, <1>8, <2>1 DEF Covered
  <2>4. gone => Gone(g, o.held) BY <1>8, <2>1 DEF Gone
  <2> QED BY <1>1, <1>8, <2>1, <2>2, <2>3, <2>4, TriedKeeps DEF A, r, gone
<1>9. ASSUME NEW o, o.ok \in BOOLEAN, o.held \in ObjectOrNil, Finish(k, None, o),
             e.newObj # None /\ IsResourceScheduled(e.newObj) => o.held = e.newObj,
             gone => o.held = None
      PROVE  IndInv'
  <2>1. k \notin gaveUp => Covered(A, None, o.held)
    <3>1. CASE e.newObj = None BY <1>5, <3>1 DEF Covered
    <3>2. CASE e.newObj # None
      <4>1. Running(store[k]) => o.held = store[k]
        BY <1>7, <1>9, <3>2 DEF Running, IsResourceScheduled
      <4> QED BY <1>2, <4>1 DEF Covered
    <3> QED BY <3>1, <3>2
  <2>2. gone => Gone(None, o.held) BY <1>9 DEF Gone
  <2> QED BY <1>1, <1>9, <2>1, <2>2, TriedKeeps DEF A, r, gone
<1>10. CASE resource.needsUpdateDuringRetry /\ e.config # None /\ e.newObj # None
  <2> DEFINE after == IF IsResourceScheduled(e.newObj) THEN e.newObj ELSE h
  <2>1. PICK u \in Outcomes(h, after) : IF u.ok THEN Finish(k, None, u) ELSE RetryFails(k, e, u, TRUE)
    BY <1>1, <1>10 DEF UpdateResource
  <2>2. after \in ObjectOrNil BY <1>2, <1>4
  <2>3. u.ok \in BOOLEAN /\ (u.ok => u.held = after) /\ u.held \in ObjectOrNil
    BY <1>2, <2>2, OutcomeOf
  <2>4. ~gone BY <1>6, <1>10
  <2>7. u.ok \in BOOLEAN /\ u.held \in ObjectOrNil BY <2>3
  <2>5. CASE u.ok
    <3>1. Finish(k, None, u) BY <2>1, <2>5
    <3>2. IsResourceScheduled(e.newObj) => u.held = e.newObj BY <2>3, <2>5
    <3> QED BY <1>9, <2>3, <2>4, <3>1, <3>2
  <2>6. CASE ~u.ok
    <3>1. Fails(e, u) BY <2>1, <2>6 DEF Fails
    <3> QED BY <1>3, <1>4, <1>8, <2>7, <2>4, <3>1
  <2> QED BY <2>5, <2>6
<1>11. CASE RetryDeleteAndAdd(k, e)
  <2> DEFINE f == [e EXCEPT !.oldObj = None]
  <2>1. /\ f \in RetryObjEntry /\ f.failedAttempts = e.failedAttempts /\ f.newObj = e.newObj
        /\ f.oldObj = None
    BY <1>2, <1>3 DEF RetryObjEntry
  <2>2. CASE e.oldObj # None /\ ~IsResourceScheduled(e.oldObj)
    <3>1. Fails(e, NoCall(h)) BY <1>11, <2>2 DEF RetryDeleteAndAdd, h, Fails
    <3>2. NoCall(h).ok \in BOOLEAN /\ NoCall(h).held \in ObjectOrNil BY <1>2, NoCallOf
    <3> QED BY <1>3, <1>4, <1>6, <1>8, <3>1, <3>2
  <2>3. CASE ~(e.oldObj # None /\ ~IsResourceScheduled(e.oldObj))
    <3>1. PICK d \in IF e.oldObj = None THEN {NoCall(h)} ELSE Outcomes(h, None) :
            IF ~d.ok
            THEN RetryFails(k, e, d, TRUE)
            ELSE IF f.newObj # None /\ ~IsResourceScheduled(f.newObj)
                 THEN RetryFails(k, f, d, FALSE)
                 ELSE \E a \in IF f.newObj = None THEN {NoCall(d.held)} ELSE AddResource(d.held, f.newObj) :
                        IF a.ok THEN Finish(k, None, a) ELSE RetryFails(k, f, a, TRUE)
      BY <1>11, <2>3 DEF RetryDeleteAndAdd, DeleteResource, h
    <3> HIDE DEF f
    <3>2. d.ok \in BOOLEAN /\ d.held \in ObjectOrNil /\ (gone /\ d.ok => d.held = None)
      <4>1. CASE e.oldObj = None BY <1>2, <1>6, <3>1, <4>1, NoCallOf
      <4>2. CASE e.oldObj # None BY <1>2, <3>1, <4>2, OutcomeOf
      <4> QED BY <4>1, <4>2
    <3>6. d.ok \in BOOLEAN /\ d.held \in ObjectOrNil BY <3>2
    <3>3. CASE ~d.ok
      <4>1. Fails(e, d) BY <3>1, <3>3 DEF Fails
      <4> QED BY <1>3, <1>4, <1>6, <1>8, <3>6, <4>1
    <3>4. CASE d.ok /\ f.newObj # None /\ ~IsResourceScheduled(f.newObj)
      <4>1. Fails(f, d) BY <3>1, <3>4 DEF Fails
      <4>2. ~gone BY <1>6, <2>1, <3>4
      <4> QED BY <1>4, <1>8, <2>1, <3>6, <4>1, <4>2
    <3>5. CASE d.ok /\ ~(f.newObj # None /\ ~IsResourceScheduled(f.newObj))
      <4>1. PICK a \in IF f.newObj = None THEN {NoCall(d.held)} ELSE AddResource(d.held, f.newObj) :
              IF a.ok THEN Finish(k, None, a) ELSE RetryFails(k, f, a, TRUE)
        BY <3>1, <3>5
      <4>2. CASE f.newObj = None
        <5>1. a = NoCall(d.held) BY <4>1, <4>2
        <5>2. a.ok = TRUE /\ a.held = d.held BY <5>1, NoCallOf
        <5>3. Finish(k, None, a) /\ a.ok \in BOOLEAN BY <4>1, <5>2
        <5>4. a.held \in ObjectOrNil /\ (gone => a.held = None) BY <3>2, <3>5, <5>2
        <5> QED BY <1>9, <2>1, <4>2, <5>3, <5>4
      <4>3. CASE f.newObj # None
        <5>1. a \in Outcomes(d.held, f.newObj) BY <3>5, <4>1, <4>3 DEF AddResource
        <5>2. a.ok \in BOOLEAN /\ (a.ok => a.held = f.newObj) /\ a.held \in ObjectOrNil
          BY <1>4, <2>1, <3>2, <5>1, OutcomeOf
        <5>3. ~gone BY <1>6, <2>1, <4>3
        <5>6. a.ok \in BOOLEAN /\ a.held \in ObjectOrNil BY <5>2
        <5>4. CASE a.ok
          <6>1. Finish(k, None, a) BY <4>1, <5>4
          <6>2. a.held = e.newObj BY <2>1, <5>2, <5>4
          <6> QED BY <1>9, <5>3, <5>6, <6>1, <6>2
        <5>5. CASE ~a.ok
          <6>1. Fails(f, a) BY <4>1, <5>5 DEF Fails
          <6> QED BY <1>4, <1>8, <2>1, <5>3, <5>6, <6>1
        <5> QED BY <5>4, <5>5
      <4> QED BY <4>2, <4>3
    <3> QED BY <3>3, <3>4, <3>5
  <2> QED BY <2>2, <2>3
<1> QED BY <1>1, <1>10, <1>11

-----------------------------------------------------------------------------
(***************************************************************************)
(* The event handlers                                                      *)
(***************************************************************************)

\* The entry of an object that is to be added.
LEMMA AddedEntry ==
    ASSUME NEW e \in RetryObjEntry \cup {None}, NEW obj \in ObjectOrNil
    PROVE  LET f == initRetryObjWithAdd(e, obj) IN
           /\ f \in RetryObjEntry /\ f.failedAttempts = 0 /\ f.newObj = obj /\ f.oldObj = OldOf(e)
<1>1. PICK b \in BOOLEAN : initRetryObjWithAdd(e, obj) = initRetryObjWithAddBackoff(e, obj, b)
  BY Zenon DEF initRetryObjWithAdd
<1> QED BY <1>1, AddedType

\* The entry of an object whose handling failed for the first time.
LEMMA FailedEntry ==
    ASSUME NEW e \in RetryObjEntry, e.failedAttempts = 0
    PROVE  LET f == increaseFailedAttemptsCounter(e) IN
           /\ f \in RetryObjEntry \cup {None} /\ f # None
           /\ f.newObj = e.newObj /\ f.oldObj = e.oldObj
BY FirstFailure, EntryType

\* What the invariant says of an object when one of its events is handled.
LEMMA HandlerInv ==
    ASSUME IndInv, NEW k \in Keys, pending[k] # <<>>
    PROVE  /\ retryEntries[k] \in RetryObjEntry \cup {None} /\ held[k] \in ObjectOrNil
           /\ latest[k] \in ObjectOrNil /\ store[k] \in ObjectOrNil /\ None \in ObjectOrNil
           /\ terminated \subseteq Keys /\ failed \in BOOLEAN
           /\ Event1(k).old \in ObjectOrNil /\ Event1(k).new \in ObjectOrNil
           /\ Event1(k).old # None \/ Event1(k).new # None
           /\ Event1(k).new \in News(k) /\ store[k] \in News(k)
           /\ latest[k] # None => latest[k] \in News(k) /\ IsUpdate(k)
           /\ Ahead(k) \subseteq News(k) \cup {Event1(k).old}
           /\ Tail(pending[k]) = <<>> => Event1(k).new = store[k] /\ News(k) = {store[k]}
           /\ ~resource.pods /\ Event1(k).old # None => Running(Event1(k).old)
           /\ k \notin gaveUp => Covered(Ahead(k), retryEntries[k], held[k])
           /\ ~failed /\ requests = 0 => retryEntries[k] = None
           /\ resource.pods /\ Undisturbed(k) =>
                /\ Event1(k).old = None => k \notin terminated
                /\ \A s \in News(k) : s # None /\ Over(s) => Over(store[k])
                /\ k \in terminated => held[k] = None /\ Over(store[k]) /\ Over(latest[k])
<1> USE DEF IndInv
<1>1. TypeOK /\ ChainInv /\ ObjectsInv /\ LatestInv OBVIOUS
<1>2. /\ Event1(k).old \in ObjectOrNil /\ Event1(k).new \in ObjectOrNil
      /\ Event1(k).old # None \/ Event1(k).new # None
      /\ Event1(k).new \in News(k) /\ store[k] \in News(k)
      /\ Ahead(k) \subseteq News(k) \cup {Event1(k).old}
      /\ Tail(pending[k]) = <<>> => Event1(k).new = store[k] /\ News(k) = {store[k]}
      /\ Event1(k) = pending[k][1]
  BY <1>1, FirstEvent
<1>3. 1 \in 1 .. Len(pending[k]) BY <1>1, EventsTyped
<1>4. DOMAIN pending[k] = 1 .. Len(pending[k]) BY <1>1, EventsTyped
<1>5. ~resource.pods /\ Event1(k).old # None => Running(Event1(k).old)
  BY <1>1, <1>2, <1>3 DEF ObjectsInv, EventOK
<1>6. ASSUME resource.pods, Undisturbed(k)
      PROVE  /\ Event1(k).old = None => k \notin terminated
             /\ \A s \in News(k) : s # None /\ Over(s) => Over(store[k])
             /\ k \in terminated => held[k] = None /\ Over(store[k]) /\ Over(latest[k])
  <2>1. PodLife(k) BY <1>6 DEF PodInv
  <2>2. Event1(k).old = None => k \notin terminated BY <1>2, <1>3, <2>1 DEF PodLife
  <2>3. \A s \in News(k) : s # None /\ Over(s) => Over(store[k])
    <3>1. \A i \in 1 .. Len(pending[k]) :
            pending[k][i].new # None /\ Over(pending[k][i].new) => Over(store[k])
      BY <2>1 DEF PodLife
    <3> QED BY <1>4, <3>1 DEF News
  <2> QED BY <2>1, <2>2, <2>3 DEF PodLife
<1>7. /\ retryEntries[k] \in RetryObjEntry \cup {None} /\ held[k] \in ObjectOrNil
      /\ latest[k] \in ObjectOrNil /\ store[k] \in ObjectOrNil /\ None \in ObjectOrNil
      /\ terminated \subseteq Keys /\ failed \in BOOLEAN
  BY <1>1 DEF TypeOK, ObjectOrNil
<1>8. latest[k] # None => latest[k] \in News(k) /\ IsUpdate(k) BY <1>1 DEF LatestInv
<1>9. /\ k \notin gaveUp => Covered(Ahead(k), retryEntries[k], held[k])
      /\ ~failed /\ requests = 0 => retryEntries[k] = None
  BY EntriesInv
<1> QED BY <1>2, <1>5, <1>6, <1>7, <1>8, <1>9

\* A handler that ends with entry e and outcome o.
LEMMA FinishKeeps ==
    ASSUME IndInv, NEW k \in Keys, pending[k] # <<>>, Handled(k),
           NEW e \in RetryObjEntry \cup {None}, NEW o, o.ok \in BOOLEAN, o.held \in ObjectOrNil,
           Finish(k, e, o), o.ok => e = None,
           terminated' = terminated \/ terminated' = terminated \cup {k},
           k \notin gaveUp => Covered(News(k), e, o.held),
           ~resource.pods /\ Event1(k).new = None => Gone(e, o.held),
           resource.pods /\ Undisturbed(k) /\ o.ok =>
             /\ k \in terminated' => o.held = None /\ Over(store[k])
             /\ Tail(pending[k]) = <<>> /\ Over(store[k]) => o.held = None
    PROVE  IndInv'
<1>1. /\ retryEntries' = [retryEntries EXCEPT ![k] = e] /\ held' = [held EXCEPT ![k] = o.held]
      /\ failed' = (failed \/ ~o.ok)
  BY DEF Finish
<1>2. failed' \in BOOLEAN /\ (failed => failed') /\ (~failed' => o.ok) BY <1>1
<1>3. terminated' \subseteq Keys /\ \A j \in Keys : j # k => (j \in terminated' <=> j \in terminated)
  BY HandlerInv
<1>4. ~failed' => e = None BY <1>2
<1>5. resource.pods /\ Undisturbed(k) /\ ~failed' =>
        /\ k \in terminated' => o.held = None /\ Over(store[k])
        /\ Tail(pending[k]) = <<>> /\ Over(store[k]) => o.held = None
  BY <1>2
<1>6. failed' \in BOOLEAN /\ (failed => failed') BY <1>2
<1> QED BY <1>1, <1>3, <1>4, <1>5, <1>6, HandleKeeps

\* A handler that has nothing to do for its event.
LEMMA SkipKeeps ==
    ASSUME IndInv, NEW k \in Keys, pending[k] # <<>>, Handled(k),
           UNCHANGED <<retryEntries, held, failed>>,
           terminated' \in {terminated, terminated \cup {k}, terminated \ {k}},
           k \notin gaveUp => Covered(News(k), retryEntries[k], held[k]),
           ~resource.pods => Event1(k).new # None,
           resource.pods /\ Undisturbed(k) =>
             /\ k \in terminated' => held[k] = None /\ Over(store[k])
             /\ Tail(pending[k]) = <<>> /\ Over(store[k]) => held[k] = None
    PROVE  IndInv'
<1>1. retryEntries \in [Keys -> RetryObjEntry \cup {None}] /\ held \in [Keys -> ObjectOrNil]
  BY EntriesInv
<1>2. retryEntries' = [retryEntries EXCEPT ![k] = retryEntries[k]] /\ held' = [held EXCEPT ![k] = held[k]]
  BY <1>1
<1>3. terminated' \subseteq Keys /\ \A j \in Keys : j # k => (j \in terminated' <=> j \in terminated)
  BY HandlerInv
<1>4. retryEntries[k] \in RetryObjEntry \cup {None} /\ held[k] \in ObjectOrNil BY <1>1
<1>5. failed' \in BOOLEAN /\ (failed => failed') /\ (~failed' /\ requests = 0 => retryEntries[k] = None)
  BY HandlerInv
<1>6. ~resource.pods /\ Event1(k).new = None => Gone(retryEntries[k], held[k]) OBVIOUS
<1> QED BY <1>2, <1>3, <1>4, <1>5, <1>6, HandleKeeps

\* A handler that has removed what was configured leaves no entry.
LEMMA ReleaseKeeps ==
    ASSUME IndInv, NEW k \in Keys, pending[k] # <<>>, Handled(k),
           NEW s \in News(k), ~Running(s),
           NEW o, o.ok \in BOOLEAN, o.held = None, Finish(k, None, o),
           terminated' = terminated \/ terminated' = terminated \cup {k},
           resource.pods /\ Undisturbed(k) /\ k \in terminated' => Over(store[k])
    PROVE  IndInv'
<1>1. Covered(News(k), None, o.held) /\ Gone(None, o.held) BY DEF Covered, Gone
<1>2. o.held \in ObjectOrNil BY DEF ObjectOrNil
<1> QED BY <1>1, <1>2, FinishKeeps

\* The resources of an object in terminal state are removed once.
LEMMA TerminalKeeps ==
    ASSUME IndInv, NEW k \in Keys, pending[k] # <<>>, Event1(k).new # None, Handled(k),
           NEW obj \in News(k), obj \in ObjectOrNil, obj # None, IsObjectInTerminalState(obj),
           ProcessObjectInTerminalState(k, obj)
    PROVE  IndInv'
<1>1. ~Running(obj) /\ Over(obj) BY DEF Running, Over, IsObjectInTerminalState
<1>2. \A e, h : (e = None \/ e # None) => Covered(News(k), e, h) BY <1>1 DEF Covered
<1>3. terminated' = terminated \cup {k} BY DEF ProcessObjectInTerminalState
<1>4. CASE k \in terminated
  <2>1. UNCHANGED <<retryEntries, held, failed>> BY <1>4 DEF ProcessObjectInTerminalState
  <2>2. resource.pods /\ Undisturbed(k) => held[k] = None /\ Over(store[k]) BY <1>4, HandlerInv
  <2>3. Covered(News(k), retryEntries[k], held[k]) BY <1>2
  <2> QED BY <1>3, <2>1, <2>2, <2>3, SkipKeeps
<1>5. CASE k \notin terminated
  <2> DEFINE i == InitRetryObjWithDelete(retryEntries[k], obj, TRUE)
             f == increaseFailedAttemptsCounter(i)
  <2>1. PICK d \in Outcomes(held[k], None) : Finish(k, IF d.ok THEN None ELSE f, d)
    BY <1>5 DEF ProcessObjectInTerminalState, DeleteResource
  <2>2. d.ok \in BOOLEAN /\ (d.ok => d.held = None) /\ d.held \in ObjectOrNil
    BY HandlerInv, OutcomeOf
  <2>3. i \in RetryObjEntry /\ i.failedAttempts = 0
    <3>1. retryEntries[k] \in RetryObjEntry \cup {None} BY HandlerInv
    <3>2. PICK b \in BOOLEAN : i = InitRetryObjWithDelete(retryEntries[k], obj, b) BY Zenon
    <3> QED BY <3>1, <3>2, DeletedType
  <2>4. f \in RetryObjEntry \cup {None} BY <2>3, FailedEntry
  <2>5. resource.pods /\ Undisturbed(k) => Over(store[k]) BY <1>1, HandlerInv
  <2> HIDE DEF f, i
  <2>6. CASE d.ok
    <3>1. Finish(k, None, d) /\ d.held = None BY <2>1, <2>2, <2>6
    <3>2. d.ok \in BOOLEAN BY <2>2
    <3> QED BY <1>1, <1>3, <2>5, <3>1, <3>2, ReleaseKeeps
  <2>7. CASE ~d.ok
    <3>1. Finish(k, f, d) BY <2>1, <2>7
    <3>2. d.ok \in BOOLEAN /\ d.held \in ObjectOrNil BY <2>2
    <3>3. Covered(News(k), f, d.held) BY <1>2
    <3> QED BY <1>3, <2>4, <2>7, <3>1, <3>2, <3>3, FinishKeeps
  <2> QED BY <2>6, <2>7
<1> QED BY <1>4, <1>5

\* A handler whose call failed leaves an entry to add an object the events lead to.
LEMMA FailKeeps ==
    ASSUME IndInv, NEW k \in Keys, pending[k] # <<>>, Event1(k).new # None, Handled(k),
           NEW f \in RetryObjEntry, f.failedAttempts = 0, f.newObj # None,
           NEW o, o.ok \in BOOLEAN, ~o.ok, o.held \in ObjectOrNil,
           Finish(k, increaseFailedAttemptsCounter(f), o), UNCHANGED terminated
    PROVE  IndInv'
<1> DEFINE e == increaseFailedAttemptsCounter(f)
<1>1. e \in RetryObjEntry \cup {None} /\ e # None /\ e.newObj = f.newObj BY FailedEntry
<1>2. Finish(k, e, o) OBVIOUS
<1> HIDE DEF e
<1>3. Covered(News(k), e, o.held) BY <1>1 DEF Covered
<1> QED BY <1>1, <1>2, <1>3, FinishKeeps

\* A handler that has added an object the events lead to, if it is scheduled,
\* leaves no entry.
LEMMA DoneKeeps ==
    ASSUME IndInv, NEW k \in Keys, pending[k] # <<>>, Event1(k).new # None, Handled(k),
           NEW obj \in News(k), obj # None,
           NEW o, o.ok \in BOOLEAN, o.held \in ObjectOrNil,
           IsResourceScheduled(obj) => o.held = obj,
           Finish(k, None, o), UNCHANGED terminated,
           resource.pods /\ Undisturbed(k) => k \notin terminated /\ ~IsObjectInTerminalState(obj)
    PROVE  IndInv'
<1>1. Covered(News(k), None, o.held) BY DEF Covered, Running, IsResourceScheduled
<1>2. resource.pods /\ Undisturbed(k) /\ Tail(pending[k]) = <<>> => ~Over(store[k])
  BY HandlerInv DEF Over, IsObjectInTerminalState
<1> QED BY <1>1, <1>2, FinishKeeps

\* The handler of an addition keeps the invariant.
LEMMA AddFuncKeeps ==
    ASSUME IndInv, NEW k \in Keys, AddFunc(k)
    PROVE  IndInv'
<1> DEFINE obj == Event1(k).new
           r == retryEntries[k]
           h == held[k]
           e == initRetryObjWithAdd(r, obj)
<1>1. pending[k] # <<>> /\ Event1(k).old = None /\ Handled(k) BY DEF AddFunc
<1>2. obj # None /\ obj \in News(k) /\ obj \in ObjectOrNil BY <1>1, HandlerInv
<1>3. /\ r \in RetryObjEntry \cup {None} /\ h \in ObjectOrNil /\ None \in ObjectOrNil
      /\ resource.pods /\ Undisturbed(k) => k \notin terminated
  BY <1>1, HandlerInv
<1>4. CASE IsObjectInTerminalState(obj)
  <2>1. ProcessObjectInTerminalState(k, obj) BY <1>4 DEF AddFunc
  <2> QED BY <1>1, <1>2, <1>4, <2>1, TerminalKeeps
<1>5. CASE ~IsObjectInTerminalState(obj)
  <2> DEFINE f == IF e.oldObj = None THEN e ELSE removeDeleteFromRetryObj(e)
  <2>1. PICK d \in IF e.oldObj = None THEN {NoCall(h)} ELSE Outcomes(h, None) :
          IF ~d.ok THEN Finish(k, increaseFailedAttemptsCounter(e), d)
          ELSE \E a \in AddResource(d.held, obj) :
                 Finish(k, IF a.ok THEN None ELSE increaseFailedAttemptsCounter(f), a)
    BY <1>5 DEF AddFunc, DeleteResource
  <2>2. UNCHANGED terminated BY <1>5 DEF AddFunc
  <2>3. e \in RetryObjEntry /\ e.failedAttempts = 0 /\ e.newObj = obj BY <1>2, <1>3, AddedEntry
  <2>4. f \in RetryObjEntry /\ f.failedAttempts = 0 /\ f.newObj = obj BY <2>3, RemovedType
  <2> HIDE DEF e, f, obj, h
  <2>5. d.ok \in BOOLEAN /\ d.held \in ObjectOrNil
    <3>1. CASE e.oldObj = None BY <1>3, <2>1, <3>1, NoCallOf
    <3>2. CASE e.oldObj # None BY <1>3, <2>1, <3>2, OutcomeOf
    <3> QED BY <3>1, <3>2
  <2>6. CASE ~d.ok
    <3>1. Finish(k, increaseFailedAttemptsCounter(e), d) BY <2>1, <2>6
    <3> QED BY <1>1, <1>2, <2>2, <2>3, <2>5, <2>6, <3>1, FailKeeps DEF obj
  <2>7. CASE d.ok
    <3> DEFINE after == IF IsResourceScheduled(obj) THEN obj ELSE d.held
    <3>1. PICK a \in Outcomes(d.held, after) :
            Finish(k, IF a.ok THEN None ELSE increaseFailedAttemptsCounter(f), a)
      BY <2>1, <2>7 DEF AddResource
    <3>2. after \in ObjectOrNil BY <1>2, <2>5
    <3>3. a.ok \in BOOLEAN /\ (a.ok => a.held = after) /\ a.held \in ObjectOrNil
      BY <2>5, <3>2, OutcomeOf
    <3>4. a.ok \in BOOLEAN /\ a.held \in ObjectOrNil BY <3>3
    <3>5. CASE a.ok
      <4>1. Finish(k, None, a) BY <3>1, <3>5
      <4>2. IsResourceScheduled(obj) => a.held = obj BY <3>3, <3>5
      <4> QED BY <1>1, <1>2, <1>3, <1>5, <2>2, <3>4, <4>1, <4>2, DoneKeeps DEF obj
    <3>6. CASE ~a.ok
      <4>1. Finish(k, increaseFailedAttemptsCounter(f), a) BY <3>1, <3>6
      <4> QED BY <1>1, <1>2, <2>2, <2>4, <3>4, <3>6, <4>1, FailKeeps DEF obj
    <3> QED BY <3>4, <3>5, <3>6
  <2> QED BY <2>5, <2>6, <2>7
<1> QED BY <1>4, <1>5

\* Step 2 of UpdateFunc with entry e and h configured.
LEMMA Step2Keeps ==
    ASSUME IndInv, NEW k \in Keys, latest[k] # None, Handled(k), UNCHANGED terminated,
           retryEntries[k] # None \/ ~IsObjectInTerminalState(latest[k]),
           NEW e \in RetryObjEntry \cup {None}, NEW h \in ObjectOrNil, UpdateStep2(k, e, h)
    PROVE  IndInv'
<1> DEFINE new == latest[k]
           old == Event1(k).old
           after == IF IsResourceScheduled(new) THEN new ELSE h
           i == IF resource.hasUpdateFunc /\ resource.needsUpdateDuringRetry
                THEN initRetryObjWithUpdate(e, old, new) ELSE initRetryObjWithAdd(e, new)
<1>1. IsUpdate(k) BY DEF IndInv, LatestInv
<1>2. pending[k] # <<>> /\ Event1(k).new # None BY <1>1 DEF IsUpdate
<1>3. new \in News(k) /\ new \in ObjectOrNil /\ old \in ObjectOrNil BY <1>2, HandlerInv
<1>4. PICK u \in Outcomes(h, after) :
        Finish(k, IF u.ok THEN None ELSE increaseFailedAttemptsCounter(i), u)
  BY DEF UpdateStep2, UpdateResource, AddResource
<1>5. after \in ObjectOrNil BY <1>3
<1>6. u.ok \in BOOLEAN /\ (u.ok => u.held = after) /\ u.held \in ObjectOrNil BY <1>5, OutcomeOf
<1>7. u.ok \in BOOLEAN /\ u.held \in ObjectOrNil BY <1>6
<1>8. i \in RetryObjEntry /\ i.failedAttempts = 0 /\ i.newObj = new
  <2>1. CASE resource.hasUpdateFunc /\ resource.needsUpdateDuringRetry BY <1>3, <2>1, UpdatedType
  <2>2. CASE ~(resource.hasUpdateFunc /\ resource.needsUpdateDuringRetry) BY <1>3, <2>2, AddedEntry
  <2> QED BY <2>1, <2>2
<1> HIDE DEF i
<1>9. CASE u.ok
  <2>1. Finish(k, None, u) BY <1>4, <1>9
  <2>2. IsResourceScheduled(new) => u.held = new BY <1>6, <1>9
  <2>3. resource.pods /\ Undisturbed(k) => k \notin terminated /\ ~IsObjectInTerminalState(new)
    <3> SUFFICES ASSUME resource.pods, Undisturbed(k)
                 PROVE  k \notin terminated /\ ~IsObjectInTerminalState(new)
      OBVIOUS
    <3>1. retryEntries[k] = None BY <1>2, HandlerInv DEF Undisturbed
    <3>2. ~Over(new) BY <3>1 DEF Over, IsObjectInTerminalState
    <3> QED BY <1>2, <3>1, <3>2, HandlerInv
  <2> QED BY <1>2, <1>3, <1>7, <2>1, <2>2, <2>3, DoneKeeps
<1>10. CASE ~u.ok
  <2>1. Finish(k, increaseFailedAttemptsCounter(i), u) BY <1>4, <1>10
  <2> QED BY <1>2, <1>7, <1>8, <1>10, <2>1, FailKeeps
<1> QED BY <1>7, <1>9, <1>10

\* The handler of an update keeps the invariant.
LEMMA UpdateFuncKeeps ==
    ASSUME IndInv, NEW k \in Keys, UpdateFunc(k)
    PROVE  IndInv'
<1> DEFINE e == retryEntries[k]
           new == latest[k]
           old == Event1(k).old
           h == held[k]
           marked == e # None /\ e.oldObj # None
<1>1. new # None /\ Handled(k) BY DEF UpdateFunc
<1>2. IsUpdate(k) BY <1>1 DEF IndInv, LatestInv
<1>3. pending[k] # <<>> /\ Event1(k).new # None BY <1>2 DEF IsUpdate
<1>4. /\ new \in News(k) /\ new \in ObjectOrNil /\ old \in ObjectOrNil /\ h \in ObjectOrNil
      /\ e \in RetryObjEntry \cup {None} /\ None \in ObjectOrNil
  BY <1>1, <1>3, HandlerInv
<1>5. ASSUME NEW d \in Outcomes(h, None)
      PROVE  d.ok \in BOOLEAN /\ d.held \in ObjectOrNil
  BY <1>4, OutcomeOf
<1>6. ASSUME NEW f \in RetryObjEntry, f.failedAttempts = 0, f.newObj = new,
             NEW d \in Outcomes(h, None), ~d.ok,
             Finish(k, increaseFailedAttemptsCounter(f), d), UNCHANGED terminated
      PROVE  IndInv'
  <2>1. d.ok \in BOOLEAN /\ d.held \in ObjectOrNil BY <1>5
  <2> QED BY <1>1, <1>3, <1>6, <2>1, FailKeeps
<1>7. CASE marked /\ UNCHANGED terminated /\ \E d \in Outcomes(h, None) :
             IF d.ok THEN UpdateStep2(k, removeDeleteFromRetryObj(e), d.held)
             ELSE Finish(k, increaseFailedAttemptsCounter(initRetryObjWithAdd(e, new)), d)
  <2>1. PICK d \in Outcomes(h, None) :
             IF d.ok THEN UpdateStep2(k, removeDeleteFromRetryObj(e), d.held)
             ELSE Finish(k, increaseFailedAttemptsCounter(initRetryObjWithAdd(e, new)), d)
    BY <1>7
  <2>2. e \in RetryObjEntry BY <1>4, <1>7
  <2>3. removeDeleteFromRetryObj(e) \in RetryObjEntry BY <2>2, RemovedType
  <2>4. CASE d.ok
    <3>1. UpdateStep2(k, removeDeleteFromRetryObj(e), d.held) BY <2>1, <2>4
    <3>2. d.held \in ObjectOrNil /\ retryEntries[k] # None BY <1>5, <1>7
    <3> QED BY <1>1, <1>7, <2>3, <3>1, <3>2, Step2Keeps
  <2>5. CASE ~d.ok
    <3> DEFINE f == initRetryObjWithAdd(e, new)
    <3>1. Finish(k, increaseFailedAttemptsCounter(f), d) BY <2>1, <2>5
    <3>2. f \in RetryObjEntry /\ f.failedAttempts = 0 /\ f.newObj = new BY <1>4, AddedEntry
    <3> HIDE DEF f
    <3> QED BY <1>6, <1>7, <2>5, <3>1, <3>2
  <2>6. d.ok \in BOOLEAN BY <1>5
  <2> QED BY <2>4, <2>5, <2>6
<1>8. CASE IsObjectInTerminalState(new) /\ ProcessObjectInTerminalState(k, new)
  BY <1>1, <1>3, <1>4, <1>8, TerminalKeeps
<1>9. CASE /\ ~IsObjectInTerminalState(new)
           /\ UNCHANGED terminated
           /\ \E d \in Outcomes(h, None) :
               IF d.ok
               THEN UpdateStep2(k, IF e = None THEN e ELSE removeDeleteFromRetryObj(e), d.held)
               ELSE Finish(k, increaseFailedAttemptsCounter(
                                initRetryObjWithAdd(InitRetryObjWithDelete(e, old, FALSE), new)), d)
  <2> DEFINE g == IF e = None THEN e ELSE removeDeleteFromRetryObj(e)
             i == InitRetryObjWithDelete(e, old, FALSE)
             f == initRetryObjWithAdd(i, new)
  <2>1. PICK d \in Outcomes(h, None) :
               IF d.ok THEN UpdateStep2(k, g, d.held)
               ELSE Finish(k, increaseFailedAttemptsCounter(f), d)
    BY <1>9
  <2>2. g \in RetryObjEntry \cup {None} BY <1>4, RemovedType
  <2>3. i \in RetryObjEntry
    <3>1. PICK b \in BOOLEAN : i = InitRetryObjWithDelete(e, old, b) BY Zenon
    <3> QED BY <1>4, <3>1, DeletedType
  <2>4. f \in RetryObjEntry /\ f.failedAttempts = 0 /\ f.newObj = new BY <1>4, <2>3, AddedEntry
  <2> HIDE DEF f, g, i
  <2>5. CASE d.ok
    <3>1. UpdateStep2(k, g, d.held) BY <2>1, <2>5
    <3>2. d.held \in ObjectOrNil BY <1>5
    <3> QED BY <1>1, <1>9, <2>2, <3>1, <3>2, Step2Keeps
  <2>6. CASE ~d.ok
    <3>1. Finish(k, increaseFailedAttemptsCounter(f), d) BY <2>1, <2>6
    <3> QED BY <1>6, <1>9, <2>4, <2>6, <3>1
  <2>7. d.ok \in BOOLEAN BY <1>5
  <2> QED BY <2>5, <2>6, <2>7
<1>10. CASE ~IsObjectInTerminalState(new) /\ UpdateStep2(k, e, h) /\ UNCHANGED terminated
  BY <1>1, <1>4, <1>10, Step2Keeps
<1> QED BY <1>7, <1>8, <1>9, <1>10 DEF UpdateFunc, DeleteResource

\* An update that changes nothing, and one of an object that is gone.
LEMMA UpdateSkipKeeps ==
    ASSUME IndInv, NEW k \in Keys, UpdateEqual(k) \/ UpdateGone(k)
    PROVE  IndInv'
<1>1. IsUpdate(k) /\ Handled(k) BY DEF UpdateEqual, UpdateGone
<1>2. pending[k] # <<>> /\ Event1(k).new # None BY <1>1 DEF IsUpdate
<1>3. CASE UpdateEqual(k)
  <2>1. ~resource.pods /\ Event1(k).old = Event1(k).new /\ UNCHANGED <<retryEntries, terminated, held, failed>>
    BY <1>3 DEF UpdateEqual, AreResourcesEqual
  <2>2. Ahead(k) \subseteq News(k) BY <1>2, <2>1, HandlerInv
  <2>3. k \notin gaveUp => Covered(News(k), retryEntries[k], held[k])
    BY <1>2, <2>2, HandlerInv DEF Covered
  <2> QED BY <1>1, <1>2, <2>1, <2>3, SkipKeeps
<1>4. CASE UpdateGone(k) /\ IsObjectInTerminalState(Event1(k).new)
  <2>1. ProcessObjectInTerminalState(k, Event1(k).new) BY <1>4 DEF UpdateGone
  <2>2. Event1(k).new \in News(k) /\ Event1(k).new \in ObjectOrNil BY <1>2, HandlerInv
  <2> QED BY <1>1, <1>2, <1>4, <2>1, <2>2, TerminalKeeps
<1>5. CASE UpdateGone(k) /\ ~IsObjectInTerminalState(Event1(k).new)
  <2>1. store[k] = None /\ UNCHANGED <<retryEntries, terminated, held, failed>>
    BY <1>5 DEF UpdateGone
  <2>2. Covered(News(k), retryEntries[k], held[k]) BY <1>2, <2>1, HandlerInv DEF Covered, Running
  <2>3. Tail(pending[k]) # <<>> BY <1>2, <2>1, HandlerInv
  <2>4. resource.pods /\ Undisturbed(k) /\ k \in terminated => held[k] = None /\ Over(store[k])
    BY <1>2, HandlerInv
  <2> QED BY <1>1, <1>2, <2>1, <2>2, <2>3, <2>4, SkipKeeps
<1> QED BY <1>3, <1>4, <1>5

\* The handler of a deletion keeps the invariant.
LEMMA DeleteFuncKeeps ==
    ASSUME IndInv, NEW k \in Keys, DeleteFunc(k)
    PROVE  IndInv'
<1> DEFINE obj == Event1(k).old
<1>1. pending[k] # <<>> /\ Event1(k).new = None /\ Handled(k) BY DEF DeleteFunc
<1>2. /\ obj # None /\ obj \in ObjectOrNil /\ None \in News(k) /\ held[k] \in ObjectOrNil
      /\ None \in ObjectOrNil /\ retryEntries[k] \in RetryObjEntry \cup {None}
  BY <1>1, HandlerInv
<1>3. ~Running(None) BY DEF Running
<1>4. resource.pods /\ Undisturbed(k) /\ k \in terminated => held[k] = None /\ Over(store[k])
  BY <1>1, HandlerInv
<1>5. CASE IsObjectInTerminalState(obj) /\ k \in terminated
  <2>1. terminated' = terminated \ {k} /\ UNCHANGED <<retryEntries, held, failed>> BY <1>5 DEF DeleteFunc
  <2>2. resource.pods BY <1>1, <1>2, <1>5, HandlerInv DEF Running, IsObjectInTerminalState
  <2>3. Covered(News(k), retryEntries[k], held[k]) BY <1>2, <1>3 DEF Covered
  <2> QED BY <1>1, <1>4, <1>5, <2>1, <2>2, <2>3, SkipKeeps
<1>6. CASE ~(IsObjectInTerminalState(obj) /\ k \in terminated)
  <2> DEFINE i == InitRetryObjWithDelete(retryEntries[k], obj, FALSE)
             f == increaseFailedAttemptsCounter(i)
  <2>1. PICK d \in Outcomes(held[k], None) : Finish(k, IF d.ok THEN None ELSE f, d)
    BY <1>6 DEF DeleteFunc, DeleteResource
  <2>2. UNCHANGED terminated BY <1>6 DEF DeleteFunc
  <2>3. d.ok \in BOOLEAN /\ (d.ok => d.held = None) /\ d.held \in ObjectOrNil BY <1>2, OutcomeOf
  <2>4. d.ok \in BOOLEAN /\ d.held \in ObjectOrNil BY <2>3
  <2>5. i \in RetryObjEntry /\ i.failedAttempts = 0 /\ i.oldObj = obj
    <3>1. PICK b \in BOOLEAN : i = InitRetryObjWithDelete(retryEntries[k], obj, b) BY Zenon
    <3> QED BY <1>2, <3>1, DeletedType
  <2>6. f \in RetryObjEntry \cup {None} /\ f # None /\ f.oldObj = obj BY <2>5, FailedEntry
  <2> HIDE DEF f, i
  <2>7. CASE d.ok
    <3>1. Finish(k, None, d) /\ d.held = None BY <2>1, <2>3, <2>7
    <3> QED BY <1>1, <1>2, <1>3, <1>4, <2>2, <2>4, <3>1, ReleaseKeeps
  <2>8. CASE ~d.ok
    <3>1. Finish(k, f, d) BY <2>1, <2>8
    <3>2. Covered(News(k), f, d.held) BY <1>2, <1>3, <2>6 DEF Covered
    <3>3. Gone(f, d.held) BY <1>2, <2>6 DEF Gone
    <3> QED BY <1>1, <2>2, <2>4, <2>6, <2>8, <3>1, <3>2, <3>3, FinishKeeps
  <2> QED BY <2>4, <2>7, <2>8
<1> QED BY <1>5, <1>6

\* What UpdateFunc reads before it takes the lock.
LEMMA GetLatestKeeps ==
    ASSUME IndInv, NEW k \in Keys, GetLatest(k)
    PROVE  IndInv'
<1> USE DEF IndInv
<1>1. /\ IsUpdate(k) /\ latest' = [latest EXCEPT ![k] = store[k]]
      /\ UNCHANGED <<resource, store, changes, uids, listed, requests, pending, retryEntries,
                     terminated, requested, loop, held, gaveUp, failed>>
  BY DEF GetLatest, informerVars, listVars, loopVars
<1>2. pending[k] # <<>> BY <1>1 DEF IsUpdate
<1>3. latest'[k] = store[k] /\ \A j \in Keys : j # k => latest'[j] = latest[j] BY <1>1 DEF TypeOK
<1>4. TypeOK' BY <1>1 DEF TypeOK
<1>5. ObjectsInv' BY <1>1 DEF ObjectsInv, CachedOK, EventOK, Running
<1>6. ChainInv' BY <1>1 DEF ChainInv
<1>7. \A j \in Keys : Ahead(j)' = Ahead(j) /\ News(j)' = News(j) /\ (IsUpdate(j)' <=> IsUpdate(j))
  BY <1>1 DEF Ahead, News, IsUpdate, Event1
<1>8. LatestInv'
  <2>1. store[k] \in News(k) BY <1>2, HandlerInv
  <2> QED BY <1>1, <1>3, <1>7, <2>1 DEF LatestInv
<1>9. CoveredInv' BY <1>1, <1>7 DEF CoveredInv, Covered, Running
<1>10. GoneInv' BY <1>1 DEF GoneInv, Gone
<1>11. QuietInv' BY <1>1 DEF QuietInv
<1>12. PodInv'
  <2> SUFFICES ASSUME NEW j \in Keys, resource.pods, Undisturbed(j)
               PROVE  PodLife(j)'
    BY <1>1 DEF PodInv, Undisturbed
  <2>1. PodLife(j) BY DEF PodInv
  <2>2. j \in terminated => Over(latest'[j])
    <3>1. CASE j = k BY <1>3, <2>1, <3>1 DEF PodLife
    <3>2. CASE j # k BY <1>3, <2>1, <3>2 DEF PodLife
    <3> QED BY <3>1, <3>2
  <2> QED BY <1>1, <2>1, <2>2 DEF PodLife, Over
<1> QED BY <1>4, <1>5, <1>6, <1>8, <1>9, <1>10, <1>11, <1>12

-----------------------------------------------------------------------------
(***************************************************************************)
(* Changes of objects                                                      *)
(***************************************************************************)

\* A change of k to new whose events ev lead there from what was cached; u
\* objects have been created under k.
LEMMA ChangeKeeps ==
    ASSUME IndInv, NEW k \in Keys, NEW new \in ObjectOrNil,
           NEW ev \in Seq(EventType), NEW m \in Nat, m = Len(ev), m # 0, Change(k, new, ev),
           ev[1].old = store[k],
           \A i \in 1 .. m : ev[i].new = IF i = m THEN new ELSE ev[i + 1].old,
           \A i \in 1 .. m : EventOK(ev[i]) /\ (ev[i].new # None => ev[i].new = new),
           NEW u \in 1 .. MaxObjects, u = IF new = None THEN uids[k] ELSE new.uid, uids[k] <= u,
           ~resource.pods /\ new # None => Running(new),
           u <= 1 => /\ \A i \in 1 .. m : i # 1 => ev[i].old # None
                     /\ store[k] = None => uids[k] = 0
                     /\ store[k] # None /\ Over(store[k]) => Over(new)
    PROVE  IndInv'
<1> USE DEF IndInv
<1> DEFINE q == pending[k]
           n == Len(q)
           c == q \o ev
<1>1. /\ changes < MaxChanges /\ changes' = changes + 1
      /\ store' = [store EXCEPT ![k] = new] /\ uids' = [uids EXCEPT ![k] = u]
      /\ pending' = [pending EXCEPT ![k] = c]
      /\ UNCHANGED <<resource, listed, requests, latest, retryEntries, terminated, requested, loop,
                     held, gaveUp, failed>>
  BY DEF Change, listVars, loopVars, TypeOK
<1>2. q \in Seq(EventType) /\ n \in Nat BY EventsTyped
<1>3. /\ c \in Seq(EventType) /\ Len(c) = n + m
      /\ \A i \in 1 .. n : c[i] = q[i]
      /\ \A i \in 1 .. m : c[n + i] = ev[i]
  BY <1>2, Concatenated
<1>4. /\ store'[k] = new /\ uids'[k] = u /\ pending'[k] = c
      /\ \A j \in Keys : j # k => /\ store'[j] = store[j] /\ uids'[j] = uids[j]
                                  /\ pending'[j] = pending[j]
  BY <1>1 DEF TypeOK
<1>5. DOMAIN c = 1 .. n + m /\ DOMAIN q = 1 .. n BY <1>2, <1>3, Lengths
<1>6. c # <<>>
  <2>1. Len(c) # 0 BY <1>2, <1>3
  <2> QED BY <1>3, <2>1, Lengths
<1>7. \A i \in 1 .. n : q[i].new = IF i = n THEN store[k] ELSE q[i + 1].old BY DEF ChainInv
<1>8. \A i \in 1 .. n : EventOK(q[i]) BY DEF ObjectsInv
<1>9. changes + 1 \in 0 .. MaxChanges BY <1>1, BoundsAreNat DEF TypeOK
<1> HIDE DEF q, n, c
<1>10. \A i \in 1 .. n + m : i \in 1 .. n \/ \E j \in 1 .. m : i = n + j
  <2> SUFFICES ASSUME NEW i \in 1 .. n + m, i \notin 1 .. n PROVE \E j \in 1 .. m : i = n + j
    OBVIOUS
  <2>1. i - n \in 1 .. m /\ i = n + (i - n) BY <1>2
  <2> QED BY <2>1
<1>11. 1 \in 1 .. m /\ \A i \in 1 .. n : i \in 1 .. n + m /\ i # n + m BY <1>2
<1>12. ASSUME NEW j \in 1 .. m PROVE n + j \in 1 .. n + m /\ (j # m => n + j # n + m)
  <2>1. j \in Nat /\ 1 <= j /\ j <= m OBVIOUS
  <2> QED BY <1>2, <2>1
<1>13. TypeOK'
  <2>1. uids' \in [Keys -> 0 .. MaxObjects]
    <3>1. u \in 0 .. MaxObjects BY BoundsAreNat
    <3> QED BY <1>1, <3>1 DEF TypeOK
  <2>2. pending' \in [Keys -> Seq(EventType)] BY <1>1, <1>3 DEF TypeOK
  <2> QED BY <1>1, <1>9, <2>1, <2>2 DEF TypeOK
<1>14. ObjectsInv'
  <2>1. ASSUME NEW j \in Keys PROVE CachedOK(j)'
    <3>1. CASE j = k BY <1>1, <1>4, <3>1 DEF ObjectsInv, CachedOK, Running
    <3>2. CASE j # k BY <1>1, <1>4, <3>2 DEF ObjectsInv, CachedOK, Running
    <3> QED BY <3>1, <3>2
  <2>2. ASSUME NEW j \in Keys, NEW i \in 1 .. Len(pending'[j]) PROVE EventOK(pending'[j][i])
    <3>1. CASE j # k BY <1>4, <3>1 DEF ObjectsInv
    <3>2. CASE j = k
      <4>1. i \in 1 .. n + m /\ pending'[j][i] = c[i] BY <1>3, <1>4, <3>2
      <4>2. CASE i \in 1 .. n BY <1>3, <1>8, <4>1, <4>2
      <4>3. CASE \E x \in 1 .. m : i = n + x BY <1>3, <4>1, <4>3
      <4> QED BY <1>10, <4>1, <4>2, <4>3
    <3> QED BY <3>1, <3>2
  <2>3. \A ev1 : EventOK(ev1) => EventOK(ev1)' BY <1>1 DEF EventOK, Running
  <2> QED BY <2>1, <2>2, <2>3 DEF ObjectsInv, EventOK, Running
<1>15. ChainInv'
  <2> SUFFICES ASSUME NEW j \in Keys, NEW i \in 1 .. Len(pending'[j])
               PROVE  pending'[j][i].new = IF i = Len(pending'[j]) THEN store'[j]
                                           ELSE pending'[j][i + 1].old
    BY DEF ChainInv
  <2>1. CASE j # k BY <1>4, <2>1 DEF ChainInv
  <2>2. CASE j = k
    <3>0. i \in 1 .. n + m /\ Len(pending'[j]) = n + m /\ pending'[j] = c BY <1>3, <1>4, <2>2
    <3>1. CASE i \in 1 .. n /\ i # n
      <4>1. i + 1 \in 1 .. n BY <1>2, <3>1
      <4> QED BY <1>3, <1>7, <1>11, <3>0, <3>1, <4>1
    <3>2. CASE i \in 1 .. n /\ i = n
      <4>1. c[i + 1] = ev[1] BY <1>3, <1>11, <3>2
      <4> QED BY <1>3, <1>7, <1>11, <3>0, <3>2, <4>1
    <3>3. CASE \E x \in 1 .. m : i = n + x
      <4>1. PICK x \in 1 .. m : i = n + x BY <3>3
      <4>2. CASE x = m BY <1>3, <1>4, <1>12, <2>2, <3>0, <4>1, <4>2
      <4>3. CASE x # m
        <5>1. x + 1 \in 1 .. m /\ i + 1 = n + (x + 1) BY <1>2, <4>1, <4>3
        <5> QED BY <1>3, <1>12, <3>0, <4>1, <4>3, <5>1
      <4> QED BY <4>2, <4>3
    <3> QED BY <1>10, <3>0, <3>1, <3>2, <3>3
  <2> QED BY <2>1, <2>2
<1>16. LatestInv'
  <2> SUFFICES ASSUME NEW j \in Keys, latest[j] # None
               PROVE  IsUpdate(j)' /\ latest[j] \in News(j)'
    BY <1>1 DEF LatestInv
  <2>1. IsUpdate(j) /\ latest[j] \in News(j) BY DEF LatestInv
  <2>2. CASE j # k BY <1>4, <2>1, <2>2 DEF IsUpdate, Event1, News
  <2>3. CASE j = k
    <3>1. q # <<>> BY <2>1, <2>3 DEF IsUpdate, q
    <3>2. Head(q) = q[1] /\ Head(c) = c[1] BY <1>2, <1>3, <1>6, <3>1, HeadAndTail
    <3>3. 1 \in 1 .. n BY <1>2, <3>1, HeadAndTail DEF n
    <3>4. Head(c) = Head(q) BY <1>3, <3>2, <3>3
    <3>5. Event1(k)' = Event1(k) /\ Event1(k) = Head(q) BY <1>4, <3>4 DEF Event1, q
    <3>6. IsUpdate(k)' BY <1>4, <1>6, <2>1, <2>3, <3>5 DEF IsUpdate
    <3>7. News(k) = {q[i].new : i \in 1 .. n} BY <1>5 DEF News, q
    <3>8. News(k)' = {c[i].new : i \in 1 .. n + m} BY <1>4, <1>5 DEF News
    <3>9. News(k) \subseteq News(k)' BY <1>3, <1>11, <3>7, <3>8
    <3> QED BY <2>1, <2>3, <3>6, <3>9
  <2> QED BY <2>2, <2>3
<1>17. CoveredInv'
  <2> SUFFICES ASSUME NEW j \in Keys, j \notin gaveUp
               PROVE  Covered(Ahead(j)', retryEntries[j], held[j])
    BY <1>1 DEF CoveredInv, Covered, Running
  <2>1. Ahead(j) \subseteq Ahead(j)'
    <3>1. CASE j # k BY <1>4, <3>1 DEF Ahead
    <3>2. CASE j = k
      <4>1. Ahead(k) = {q[i].old : i \in 1 .. n} \cup {store[k]} BY <1>5 DEF Ahead, q
      <4>2. Ahead(k)' = {c[i].old : i \in 1 .. n + m} \cup {new} BY <1>4, <1>5 DEF Ahead
      <4>3. store[k] \in Ahead(k)' BY <1>3, <1>11, <1>12, <4>2
      <4> QED BY <1>3, <1>11, <3>2, <4>1, <4>2, <4>3
    <3> QED BY <3>1, <3>2
  <2>2. Covered(Ahead(j), retryEntries[j], held[j]) BY DEF CoveredInv
  <2> QED BY <2>1, <2>2 DEF Covered
<1>18. GoneInv' BY <1>1, <1>4, <1>6 DEF GoneInv, Gone
<1>19. QuietInv' BY <1>1 DEF QuietInv
<1>20. PodInv'
  <2> SUFFICES ASSUME NEW j \in Keys, resource.pods, Undisturbed(j)'
               PROVE  PodLife(j)'
    BY <1>1 DEF PodInv
  <2>1. CASE j # k
    <3>1. Undisturbed(j) BY <1>1, <1>4, <2>1 DEF Undisturbed
    <3>2. PodLife(j) BY <3>1 DEF PodInv
    <3> QED BY <1>1, <1>4, <2>1, <3>2 DEF PodLife, Over
  <2>2. CASE j = k
    <3>1. u <= 1 /\ ~failed /\ requests = 0 BY <1>1, <1>4, <2>2 DEF Undisturbed
    <3>2. uids[k] <= 1
      <4>1. uids[k] \in Nat BY BoundsAreNat DEF TypeOK
      <4> QED BY <3>1, <4>1
    <3>3. PodLife(k) BY <3>1, <3>2 DEF PodInv, Undisturbed
    <3>4. uids'[k] # 0 BY <1>4
    <3>5. store[k] = None => q = <<>> /\ n = 0 /\ k \notin terminated
      BY <1>2, <3>1, <3>3 DEF PodLife, q, n
    <3>6. Over(store[k]) => store[k] = None \/ Over(new) BY <3>1
    <3>7. ASSUME NEW i \in 1 .. n + m
          PROVE  /\ c[i].old = None => i = 1 /\ k \notin terminated
                 /\ c[i].new # None /\ Over(c[i].new) => Over(new)
      <4>1. CASE i \in 1 .. n
        <5>1. /\ q[i].old = None => i = 1 /\ k \notin terminated
              /\ q[i].new # None /\ Over(q[i].new) => Over(store[k])
          BY <3>3, <4>1 DEF PodLife, q, n
        <5>2. store[k] # None BY <1>2, <3>5, <4>1
        <5> QED BY <1>3, <3>6, <4>1, <5>1, <5>2
      <4>2. CASE \E x \in 1 .. m : i = n + x
        <5>1. PICK x \in 1 .. m : i = n + x BY <4>2
        <5>2. c[i] = ev[x] BY <1>3, <5>1
        <5>3. c[i].new # None /\ Over(c[i].new) => Over(new) BY <5>2
        <5>4. c[i].old = None => x = 1 /\ store[k] = None BY <3>1, <5>2
        <5>5. store[k] = None /\ x = 1 => i = 1 /\ k \notin terminated BY <3>5, <5>1
        <5> QED BY <5>3, <5>4, <5>5
      <4> QED BY <1>10, <4>1, <4>2
    <3>8. k \in terminated => held[k] = None /\ Over(new) /\ Over(latest[k])
      BY <3>3, <3>5, <3>6 DEF PodLife
    <3>9. Len(pending'[k]) = n + m BY <1>3, <1>4
    <3>10. \A i \in 1 .. n + m :
             /\ pending'[k][i].old = None => i = 1 /\ k \notin terminated
             /\ pending'[k][i].new # None /\ Over(pending[k][i].new)' => Over(store[k])'
      BY <1>4, <3>7 DEF Over
    <3>11. k \in terminated => held'[k] = None /\ Over(store[k])' /\ Over(latest[k])'
      BY <1>1, <1>4, <3>8 DEF Over
    <3>12. pending'[k] # <<>> BY <1>4, <1>6
    <3> QED BY <1>1, <2>2, <3>4, <3>9, <3>10, <3>11, <3>12 DEF PodLife
  <2> QED BY <2>1, <2>2
<1> QED BY <1>13, <1>14, <1>15, <1>16, <1>17, <1>18, <1>19, <1>20

\* The events of a change.
LEMMA OneEvent ==
    ASSUME NEW old \in ObjectOrNil, NEW new \in ObjectOrNil
    PROVE  LET ev == Event(old, new) IN
           /\ ev \in Seq(EventType) /\ Len(ev) = 1
           /\ ev[1].old = old /\ ev[1].new = new
BY DEF Event, EventType

\* A replaced object has a deletion and an addition on their way.
LEMMA TwoEvents ==
    ASSUME NEW old \in ObjectOrNil, NEW new \in ObjectOrNil
    PROVE  LET ev == Event(old, None) \o Event(None, new) IN
           /\ ev \in Seq(EventType) /\ Len(ev) = 2
           /\ ev[1].old = old /\ ev[1].new = None /\ ev[2].old = None /\ ev[2].new = new
<1> DEFINE a == Event(old, None)
           b == Event(None, new)
<1>1. None \in ObjectOrNil BY DEF ObjectOrNil
<1>2. /\ a \in Seq(EventType) /\ Len(a) = 1 /\ b \in Seq(EventType) /\ Len(b) = 1
      /\ a[1].old = old /\ a[1].new = None /\ b[1].old = None /\ b[1].new = new
  BY <1>1, OneEvent
<1> HIDE DEF a, b
<1>3. /\ a \o b \in Seq(EventType) /\ Len(a \o b) = 1 + 1
      /\ \A i \in 1 .. 1 : (a \o b)[i] = a[i]
      /\ \A i \in 1 .. 1 : (a \o b)[1 + i] = b[i]
  <2>1. a \in Seq(EventType) /\ b \in Seq(EventType) BY <1>2
  <2>2. /\ a \o b \in Seq(EventType) /\ Len(a \o b) = Len(a) + Len(b)
        /\ \A i \in 1 .. Len(a) : (a \o b)[i] = a[i]
        /\ \A i \in 1 .. Len(b) : (a \o b)[Len(a) + i] = b[i]
    BY <2>1, Concatenated
  <2> QED BY <1>2, <2>2
<1>4. (a \o b)[1] = a[1] /\ (a \o b)[2] = b[1]
  <2>1. 1 \in 1 .. 1 /\ 1 + 1 = 2 OBVIOUS
  <2> QED BY <1>3, <2>1
<1> QED BY <1>2, <1>3, <1>4 DEF a, b

\* A change of k that is reported as one event.
LEMMA SingleKeeps ==
    ASSUME IndInv, NEW k \in Keys, NEW new \in ObjectOrNil, Change(k, new, Event(store[k], new)),
           store[k] # None \/ new # None,
           NEW u \in 1 .. MaxObjects, u = IF new = None THEN uids[k] ELSE new.uid, uids[k] <= u,
           ~resource.pods /\ new # None => Running(new),
           u <= 1 => /\ store[k] = None => uids[k] = 0
                     /\ store[k] # None /\ Over(store[k]) => Over(new)
    PROVE  IndInv'
<1> DEFINE ev == Event(store[k], new)
<1>1. store[k] \in ObjectOrNil BY EntriesInv
<1>2. ev \in Seq(EventType) /\ 1 = Len(ev) /\ ev[1].old = store[k] /\ ev[1].new = new
  BY <1>1, OneEvent
<1>3. EventOK(ev[1]) BY <1>2 DEF EventOK, IndInv, ObjectsInv, CachedOK
<1>4. Change(k, new, ev) OBVIOUS
<1> HIDE DEF ev
<1>5. \A i \in 1 .. 1 : i = 1 OBVIOUS
<1>6. /\ \A i \in 1 .. 1 : ev[i].new = IF i = 1 THEN new ELSE ev[i + 1].old
      /\ \A i \in 1 .. 1 : EventOK(ev[i]) /\ (ev[i].new # None => ev[i].new = new)
      /\ \A i \in 1 .. 1 : i # 1 => ev[i].old # None
      /\ 1 \in Nat /\ 1 # 0
  BY <1>2, <1>3, <1>5
<1> QED BY <1>2, <1>4, <1>6, ChangeKeeps

\* What the invariant says of the cached object.
LEMMA CachedInv ==
    ASSUME IndInv, NEW k \in Keys
    PROVE  /\ store[k] \in ObjectOrNil /\ uids[k] \in 0 .. MaxObjects /\ changes \in 0 .. MaxChanges
           /\ store[k] # None => store[k] \in Object /\ store[k].uid = uids[k] /\ uids[k] \in 1 .. MaxObjects
           /\ ~resource.pods /\ store[k] # None => Running(store[k])
<1>1. /\ store[k] \in ObjectOrNil /\ uids[k] \in 0 .. MaxObjects /\ changes \in 0 .. MaxChanges
  BY DEF IndInv, TypeOK
<1>2. CachedOK(k) BY DEF IndInv, ObjectsInv
<1>3. store[k] # None => store[k] \in Object BY <1>1 DEF ObjectOrNil
<1>4. store[k] # None => store[k].uid \in 1 .. MaxObjects BY <1>3 DEF Object
<1> QED BY <1>1, <1>2, <1>3, <1>4 DEF CachedOK

\* The phases of the type's objects.
LEMMA PhasesOf ==
    ASSUME NEW p \in Phases
    PROVE  p \in Phase /\ (~resource.pods => p = "running")
BY DEF Phases, Phase

\* An object is created.
LEMMA CreateKeeps ==
    ASSUME IndInv, NEW k \in Keys, Create(k)
    PROVE  IndInv'
<1>1. PICK p \in Phases :
        LET new == [uid |-> uids[k] + 1, rev |-> changes + 1, phase |-> p]
        IN /\ uids[k] < MaxObjects
           /\ Change(k, new, (IF store[k] = None THEN <<>> ELSE Event(store[k], None)) \o Event(None, new))
  BY DEF Create
<1> DEFINE new == [uid |-> uids[k] + 1, rev |-> changes + 1, phase |-> p]
           u == uids[k] + 1
<1>2. Change(k, new, (IF store[k] = None THEN <<>> ELSE Event(store[k], None)) \o Event(None, new))
  BY <1>1
<1>3. changes < MaxChanges /\ uids[k] < MaxObjects BY <1>1 DEF Change
<1>4. u \in 1 .. MaxObjects /\ changes + 1 \in 1 .. MaxChanges BY <1>3, BoundsAreNat, CachedInv
<1>5. new \in Object /\ new.uid = u /\ new.phase = p BY <1>4, PhasesOf DEF Object
<1>6. /\ uids[k] <= u /\ (u <= 1 => uids[k] = 0) /\ (store[k] # None => ~(u <= 1))
  BY BoundsAreNat, CachedInv
<1> HIDE DEF new, u
<1>7. new # None /\ new \in ObjectOrNil BY <1>5, NoneIsNil DEF ObjectOrNil
<1>8. ~resource.pods => Running(new) BY <1>5, <1>7, PhasesOf DEF Running
<1>9. u = IF new = None THEN uids[k] ELSE new.uid BY <1>5, <1>7
<1>10. None \in ObjectOrNil /\ store[k] \in ObjectOrNil BY CachedInv DEF ObjectOrNil
<1>11. CASE store[k] = None
  <2>1. Event(None, new) \in Seq(EventType) BY <1>7, <1>10, OneEvent
  <2>2. <<>> \o Event(None, new) = Event(None, new) BY <2>1, ConcatEmptySeq
  <2>3. Change(k, new, Event(store[k], new)) BY <1>2, <1>11, <2>2
  <2> QED BY <1>4, <1>6, <1>7, <1>8, <1>9, <1>11, <2>3, SingleKeeps
<1>12. CASE store[k] # None
  <2> DEFINE ev == Event(store[k], None) \o Event(None, new)
  <2>1. Change(k, new, ev) BY <1>2, <1>12
  <2>2. /\ ev \in Seq(EventType) /\ 2 = Len(ev) /\ ev[1].old = store[k] /\ ev[1].new = None
        /\ ev[2].old = None /\ ev[2].new = new
    BY <1>7, <1>10, TwoEvents
  <2> HIDE DEF ev
  <2>3. EventOK(ev[1]) /\ EventOK(ev[2]) BY <1>7, <1>12, <2>2, CachedInv DEF EventOK
  <2>4. \A i \in 1 .. 2 : i = 1 \/ i = 2 OBVIOUS
  <2> DEFINE m == 2
  <2>5. /\ \A i \in 1 .. m : ev[i].new = IF i = m THEN new ELSE ev[i + 1].old
        /\ \A i \in 1 .. m : EventOK(ev[i]) /\ (ev[i].new # None => ev[i].new = new)
        /\ m \in Nat /\ m # 0 /\ m = Len(ev)
    BY <2>2, <2>3, <2>4
  <2>6. ev \in Seq(EventType) /\ ev[1].old = store[k] BY <2>2
  <2>7. ~(u <= 1) /\ uids[k] <= u BY <1>6, <1>12
  <2> HIDE DEF m
  <2> QED BY <1>4, <1>7, <1>8, <1>9, <2>1, <2>5, <2>6, <2>7, ChangeKeeps
<1> QED BY <1>11, <1>12

\* An object is modified.
LEMMA ModifyKeeps ==
    ASSUME IndInv, NEW k \in Keys, Modify(k)
    PROVE  IndInv'
<1>1. PICK p \in Phases :
        /\ store[k] # None
        /\ Rank[store[k].phase] <= Rank[p]
        /\ LET new == [store[k] EXCEPT !.rev = changes + 1, !.phase = p] IN
            Change(k, new, Event(store[k], new))
  BY DEF Modify
<1> DEFINE new == [store[k] EXCEPT !.rev = changes + 1, !.phase = p]
           u == uids[k]
<1>2. Change(k, new, Event(store[k], new)) /\ changes < MaxChanges BY <1>1 DEF Change
<1>3. changes + 1 \in 1 .. MaxChanges BY <1>2, BoundsAreNat, CachedInv
<1>4. store[k] \in Object /\ store[k].uid = u /\ u \in 1 .. MaxObjects BY <1>1, CachedInv
<1>5. new \in Object /\ new.uid = u /\ new.phase = p BY <1>3, <1>4, PhasesOf DEF Object
<1>6. u <= u BY <1>4, BoundsAreNat
<1> HIDE DEF new, u
<1>7. new # None /\ new \in ObjectOrNil BY <1>5, NoneIsNil DEF ObjectOrNil
<1>8. ~resource.pods => Running(new) BY <1>5, <1>7, PhasesOf DEF Running
<1>9. Over(store[k]) => Over(new)
  <2>1. p \in Phase BY PhasesOf
  <2>2. store[k].phase = "completed" => p = "completed" BY <1>1, <2>1 DEF Rank, Phase
  <2> QED BY <1>1, <1>5, <2>2 DEF Over
<1> QED BY <1>1, <1>2, <1>4, <1>5, <1>6, <1>7, <1>8, <1>9, SingleKeeps DEF u

\* An object is updated with no change that matters, or removed.
LEMMA ResyncKeeps ==
    ASSUME IndInv, NEW k \in Keys, Resync(k) \/ Remove(k)
    PROVE  IndInv'
<1>1. store[k] # None BY DEF Resync, Remove
<1>2. /\ store[k] \in ObjectOrNil /\ store[k].uid = uids[k] /\ uids[k] \in 1 .. MaxObjects
      /\ ~resource.pods => Running(store[k])
  BY <1>1, CachedInv
<1>3. uids[k] <= uids[k] BY <1>2, BoundsAreNat
<1>4. CASE Resync(k)
  <2>1. Change(k, store[k], Event(store[k], store[k])) BY <1>4 DEF Resync
  <2> QED BY <1>1, <1>2, <1>3, <2>1, SingleKeeps
<1>5. CASE Remove(k)
  <2>1. Change(k, None, Event(store[k], None)) BY <1>5 DEF Remove
  <2>2. None \in ObjectOrNil /\ Over(None) BY DEF ObjectOrNil, Over
  <2> QED BY <1>1, <1>2, <1>3, <2>1, <2>2, SingleKeeps
<1> QED BY <1>4, <1>5

-----------------------------------------------------------------------------
(***************************************************************************)
(* The theorems                                                            *)
(***************************************************************************)

\* The invariant holds before the first event.
LEMMA InitOK ==
    ASSUME Init
    PROVE  IndInv
<1> USE DEF Init
<1>1. \A k \in Keys : /\ store[k] = None /\ listed[k] = None /\ latest[k] = None /\ held[k] = None
                      /\ retryEntries[k] = None /\ pending[k] = <<>> /\ Len(pending[k]) = 0
                      /\ uids[k] = 0
  OBVIOUS
<1>2. TypeOK
  <2>1. 0 \in 0 .. MaxObjects /\ 0 \in 0 .. MaxChanges /\ 0 \in 0 .. MaxRequests BY BoundsAreNat
  <2>2. <<>> \in Seq(EventType) OBVIOUS
  <2> QED BY <2>1, <2>2 DEF TypeOK, ObjectOrNil
<1>3. \A k \in Keys : 1 .. Len(pending[k]) = {}
  <2>1. 1 .. 0 = {} OBVIOUS
  <2> QED BY <1>1, <2>1
<1>4. ObjectsInv BY <1>1, <1>3 DEF ObjectsInv, CachedOK
<1>5. ChainInv BY <1>3 DEF ChainInv
<1>6. LatestInv BY <1>1 DEF LatestInv
<1>7. CoveredInv BY <1>1 DEF CoveredInv, Covered, Ahead, Running
<1>8. GoneInv BY <1>1 DEF GoneInv, Gone
<1>9. QuietInv BY <1>1 DEF QuietInv
<1>10. PodInv BY <1>1, <1>3 DEF PodInv, PodLife
<1> QED BY <1>2, <1>4, <1>5, <1>6, <1>7, <1>8, <1>9, <1>10 DEF IndInv

\* A step that changes nothing keeps the invariant.
LEMMA StutterOK ==
    ASSUME IndInv, UNCHANGED vars
    PROVE  IndInv'
<1>1. UNCHANGED <<resource, store, changes, uids, listed, requests, pending, latest, retryEntries,
                  terminated, requested, loop, held, gaveUp, failed>>
  BY DEF vars, informerVars, listVars, loopVars
<1>2. UNCHANGED <<informerVars, pending, latest, terminated>> BY <1>1 DEF informerVars
<1> QED BY <1>1, <1>2, EntriesInv, OtherKeeps

\* Every step keeps the invariant.
LEMMA NextOK ==
    ASSUME IndInv, Next
    PROVE  IndInv'
<1>1. CASE RequestRetryObjs \/ Iterate BY <1>1, RequestKeeps
<1>2. ASSUME NEW k \in Keys, Create(k) PROVE IndInv' BY <1>2, CreateKeeps
<1>3. ASSUME NEW k \in Keys, Modify(k) PROVE IndInv' BY <1>3, ModifyKeeps
<1>4. ASSUME NEW k \in Keys, Resync(k) \/ Remove(k) PROVE IndInv' BY <1>4, ResyncKeeps
<1>5. ASSUME NEW k \in Keys, Handle(k) PROVE IndInv'
  BY <1>5, AddFuncKeeps, UpdateSkipKeeps, GetLatestKeeps, UpdateFuncKeeps, DeleteFuncKeeps DEF Handle
<1>6. ASSUME NEW k \in Keys, Retry(k) \/ BackoffExpires(k) PROVE IndInv'
  BY <1>6, LoopKeeps, RetryKeeps DEF Retry
<1>7. ASSUME NEW k \in Keys, ListPods(k) \/ AddRetryObjWithAddNoBackoff(k) PROVE IndInv'
  BY <1>7, RequestKeeps
<1> QED BY <1>1, <1>2, <1>3, <1>4, <1>5, <1>6, <1>7 DEF Next

\* The invariant is inductive: whatever the handlers, the retry loop and the
\* changes of objects do in whatever order, no object is forgotten.
THEOREM Invariance == Spec => []IndInv
<1>1. Init => IndInv BY InitOK
<1>2. IndInv /\ [Next]_vars => IndInv' BY NextOK, StutterOK
<1> QED BY <1>1, <1>2, PTL DEF Spec

\* Every variable keeps its type; in particular the number of failed attempts
\* of an entry never exceeds its limit, in the handlers and in the loop.
THEOREM TypeCorrect == Spec => []TypeOK
<1>1. IndInv => TypeOK BY DEF IndInv
<1> QED BY <1>1, Invariance, PTL

\* The invariant says that settled objects are configured.
LEMMA ReconciledOK ==
    ASSUME IndInv
    PROVE  ReconciledWhenSettled
<1> SUFFICES ASSUME NEW k \in Keys, Settled(k), store[k] # None, store[k].phase = "running"
             PROVE  held[k] = store[k]
  BY DEF ReconciledWhenSettled
<1>1. pending[k] = <<>> /\ retryEntries[k] = None /\ k \notin gaveUp BY DEF Settled
<1>2. Ahead(k) = {store[k]} BY <1>1 DEF Ahead
<1>3. Covered(Ahead(k), None, held[k]) BY <1>1, EntriesInv
<1> QED BY <1>2, <1>3 DEF Covered, Running

\* When no event of a live object is left and no retry of it, exactly what is
\* cached is configured: the handlers, which see late events, and the loop,
\* which sees the cache, never leave an older revision behind.
THEOREM Reconciled == Spec => []ReconciledWhenSettled
<1>1. IndInv => ReconciledWhenSettled BY ReconciledOK
<1> QED BY <1>1, Invariance, PTL

\* The invariant says that settled objects that are gone or completed are not.
LEMMA ReleasedOK ==
    ASSUME IndInv
    PROVE  ReleasedWhenGone /\ CompletedPodReleased
<1>1. ASSUME NEW k \in Keys, Settled(k), resource.pods, Undisturbed(k), Over(store[k])
      PROVE  held[k] = None
  <2>1. pending[k] = <<>> BY <1>1 DEF Settled
  <2>2. PodLife(k) BY <1>1 DEF IndInv, PodInv
  <2> QED BY <1>1, <2>1, <2>2 DEF PodLife
<1>2. ASSUME NEW k \in Keys, Settled(k), ~resource.pods, store[k] = None
      PROVE  held[k] = None
  <2>1. pending[k] = <<>> /\ retryEntries[k] = None /\ k \notin gaveUp BY <1>2 DEF Settled
  <2> QED BY <1>2, <2>1, EntriesInv DEF Gone
<1>3. ReleasedWhenGone BY <1>1, <1>2 DEF ReleasedWhenGone, Over
<1>4. ASSUME NEW k \in Keys, store[k] # None, store[k].phase = "completed" PROVE resource.pods
  <2>1. ~resource.pods => Running(store[k]) BY <1>4, CachedInv
  <2> QED BY <1>4, <2>1 DEF Running
<1>5. CompletedPodReleased BY <1>1, <1>4 DEF CompletedPodReleased, Over
<1> QED BY <1>3, <1>5

\* When no event of an object that is gone is left and no retry of it, nothing
\* is configured for it any more: for every type other than pods whatever
\* failed, and for pods as long as nothing disturbs them.
THEOREM Released == Spec => []ReleasedWhenGone
<1>1. IndInv => ReleasedWhenGone BY ReleasedOK
<1> QED BY <1>1, Invariance, PTL

\* A completed pod has released what it had, although UpdateFunc handles the
\* cached pod, which may have completed before its events say so, and each of
\* these events is handled again.
THEOREM CompletedReleased == Spec => []CompletedPodReleased
<1>1. IndInv => CompletedPodReleased BY ReleasedOK
<1> QED BY <1>1, Invariance, PTL

=============================================================================
