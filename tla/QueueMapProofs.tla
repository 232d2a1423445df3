--------------------------- MODULE QueueMapProofs ---------------------------
(***************************************************************************)
(* Proofs about the event queues, for any number of objects, of queues of  *)
(* any capacity and of events.                                             *)
(***************************************************************************)
EXTENDS QueueMap, TLAPS

-----------------------------------------------------------------------------
(***************************************************************************)
(* Sending to and receiving from a channel                                 *)
(***************************************************************************)

\* What a send does to the channel's sequence (queue <- event in enqueueEvent).
LEMMA AppendFacts ==
    ASSUME NEW S, NEW s \in Seq(S), NEW x \in S
    PROVE  /\ Append(s, x) \in Seq(S)
           /\ Len(Append(s, x)) = Len(s) + 1
           /\ \A i \in 1 .. Len(s) : Append(s, x)[i] = s[i]
           /\ Append(s, x)[Len(s) + 1] = x
  OBVIOUS

\* What a receive does to the channel's sequence (<-queue in processEvents).
LEMMA TailFacts ==
    ASSUME NEW S, NEW s \in Seq(S), s # <<>>
    PROVE  /\ Len(s) \in Nat /\ Len(s) >= 1
           /\ Head(s) = s[1]
           /\ s[1] \in S
           /\ Tail(s) \in Seq(S)
           /\ Len(Tail(s)) = Len(s) - 1
           /\ \A i \in 1 .. Len(s) - 1 : Tail(s)[i] = s[i + 1]
  OBVIOUS

\* getNewQueueNum returns the number of a queue.
LEMMA NewQueueNumsAreQueues == NewQueueNums \subseteq Queues
  BY DEF NewQueueNums

\* The typing facts of an event record.
LEMMA EventFacts ==
    ASSUME NEW e \in Event
    PROVE  /\ e.key \in Keys /\ e.seq \in Nat /\ e.del \in BOOLEAN
           /\ e.entry \in Entries /\ e.entry # None /\ e # None
  BY NoneIsNil DEF Event

\* What the type invariant says of the event at a place in a channel.
LEMMA QueuedEvent ==
    ASSUME TypeOK, NEW q \in Queues, NEW i \in 1 .. Len(queues[q])
    PROVE  queues[q][i] \in Event
  BY DEF TypeOK

-----------------------------------------------------------------------------
(***************************************************************************)
(* Every action preserves the inductive invariant                          *)
(***************************************************************************)

\* The dispatcher getting an entry preserves the invariant: an object with
\* events in flight keeps its entry and its queue.
LEMMA GetQueueMapEntryPreserves ==
    ASSUME IndInv, NEW k \in Keys, NEW del \in BOOLEAN, GetQueueMapEntry(k, del)
    PROVE  IndInv'
<1> USE DEF IndInv
<1>1. PICK e \in Entries :
        /\ ReuseEntry(k, e) \/ CreateEntry(k, e)
        /\ sending' = [key |-> k, seq |-> issued[k] + 1, del |-> del, entry |-> e]
  BY DEF GetQueueMapEntry
<1>2. /\ sending = None /\ ~closed
      /\ issued' = [issued EXCEPT ![k] = @ + 1]
      /\ exists' = IF del THEN exists \ {k} ELSE exists \cup {k}
      /\ UNCHANGED <<queues, processing, exited, stopped, closed, started, finished>>
  BY DEF GetQueueMapEntry, lifeVars
<1>3. /\ issued[k] \in Nat /\ finished[k] \in Nat /\ started[k] \in Nat
      /\ e # None
      /\ sending' \in Event /\ sending' # None
  BY <1>1, NoneIsNil DEF TypeOK, Event
\* The entry of k afterwards, and its counter.
<1>4. /\ entries' \in [Keys -> Entries \cup {None}]
      /\ entries'[k] = e
      /\ \A j \in Keys \ {k} : entries'[j] = entries[j] /\ entries[j] # e
      /\ refcount' \in [Entries -> Int]
      /\ refcount'[e] = issued[k] + 1 - finished[k]
      /\ \A d \in Entries \ {e} : refcount'[d] = refcount[d]
      /\ queue' \in [Entries -> Queues]
      /\ \A d \in Entries \ {e} : queue'[d] = queue[d]
      /\ issued[k] # finished[k] => entries[k] = e /\ queue' = queue
  <2>1. CASE ReuseEntry(k, e)
    <3>1. refcount[e] = issued[k] - finished[k] /\ entries[k] = e
      BY <2>1 DEF ReuseEntry, RefcountIsInFlight
    <3>2. CASE refcount[e] + 1 = 1
      <4>1. PICK q \in NewQueueNums : queue' = [queue EXCEPT ![e] = q]
        BY <2>1, <3>2 DEF ReuseEntry
      <4>2. queue' \in [Entries -> Queues] /\ \A d \in Entries \ {e} : queue'[d] = queue[d]
        BY <4>1, NewQueueNumsAreQueues DEF TypeOK
      <4>3. issued[k] = finished[k] BY <1>3, <3>1, <3>2
      <4>4. /\ entries' = entries
            /\ refcount' = [refcount EXCEPT ![e] = @ + 1]
        BY <2>1 DEF ReuseEntry
      <4>5. /\ refcount' \in [Entries -> Int]
            /\ refcount'[e] = issued[k] + 1 - finished[k]
            /\ \A d \in Entries \ {e} : refcount'[d] = refcount[d]
        BY <1>3, <3>1, <4>4 DEF TypeOK
      <4>6. \A j \in Keys \ {k} : entries'[j] = entries[j] /\ entries[j] # e
        BY <1>3, <3>1, <4>4 DEF TypeOK, EntryInv
      <4>7. entries' \in [Keys -> Entries \cup {None}] /\ entries'[k] = e
        BY <3>1, <4>4 DEF TypeOK
      <4> QED BY <4>2, <4>3, <4>5, <4>6, <4>7
    <3>3. CASE refcount[e] + 1 # 1
      BY <1>3, <2>1, <3>1, <3>3 DEF ReuseEntry, TypeOK, EntryInv
    <3> QED BY <3>2, <3>3
  <2>2. CASE CreateEntry(k, e)
    <3>1. issued[k] = finished[k] /\ entries[k] = None /\ Unreachable(e)
      BY <2>2 DEF CreateEntry, RefcountIsInFlight
    <3>2. PICK q \in NewQueueNums : queue' = [queue EXCEPT ![e] = q]
      BY <2>2 DEF CreateEntry
    <3> QED BY <1>3, <2>2, <3>1, <3>2, NewQueueNumsAreQueues DEF CreateEntry, TypeOK, Unreachable
  <2> QED BY <1>1, <2>1, <2>2
<1>5. started[k] <= issued[k] /\ finished[k] <= started[k]
  BY <1>3 DEF HistoryInv
\* Events that were in flight keep their entry and their queue.
<1>6. ASSUME NEW x \in Event, x.entry = entries[x.key], x.seq <= issued[x.key],
             finished[x.key] < x.seq
      PROVE  x.entry = entries'[x.key] /\ queue'[x.entry] = queue[x.entry]
  <2>1. x.key \in Keys /\ x.seq \in Nat /\ x.entry \in Entries
    BY EventFacts
  <2>2. CASE x.key = k
    <3>1. issued[k] # finished[k] BY <1>3, <1>6, <2>1, <2>2
    <3> QED BY <1>4, <1>6, <2>1, <2>2, <3>1
  <2>3. CASE x.key # k
    BY <1>4, <1>6, <2>1, <2>3
  <2> QED BY <2>2, <2>3
<1>7. TypeOK'
  <2>1. stopped' \in BOOLEAN /\ closed' \in BOOLEAN
    BY <1>2, Zenon DEF TypeOK
  <2>2. exists' \subseteq Keys /\ issued' \in [Keys -> Nat]
    BY <1>2, <1>3 DEF TypeOK
  <2>3. /\ sending' \in Event \cup {None}
        /\ queues' \in [Queues -> Seq(Event)]
        /\ \A q \in Queues : Len(queues'[q]) <= QueueCap
        /\ processing' \in [Queues -> Event \cup {None}]
        /\ exited' \subseteq Queues
        /\ started' \in [Keys -> Nat] /\ finished' \in [Keys -> Nat]
    BY <1>2, <1>3 DEF TypeOK
  <2> QED BY <1>4, <2>1, <2>2, <2>3, Zenon DEF TypeOK
<1>8. EntryInv'
  <2> SUFFICES ASSUME NEW i \in Keys, NEW j \in Keys, entries'[i] = entries'[j],
                      entries'[i] # None
               PROVE i = j
    BY DEF EntryInv
  <2>1. CASE i = k \/ j = k BY <1>4, <2>1
  <2>2. CASE i # k /\ j # k BY <1>4, <2>2 DEF EntryInv
  <2> QED BY <2>1, <2>2
<1>9. QueuedInv'
  <2> SUFFICES ASSUME NEW q \in Queues, NEW i \in 1 .. Len(queues[q]), NEW x, x = queues[q][i]
               PROVE /\ x.entry = entries'[x.key]
                     /\ queue'[x.entry] = q
                     /\ started[x.key] < x.seq
                     /\ x.seq <= issued'[x.key]
                     /\ x.seq = issued'[x.key] => (x.del <=> x.key \notin exists')
    BY <1>2 DEF QueuedInv
  <2>1. x \in Event BY QueuedEvent
  <2>2. x.key \in Keys /\ x.seq \in Nat /\ x.entry \in Entries BY <2>1, EventFacts
  <2>3. /\ x.entry = entries[x.key] /\ queue[x.entry] = q
        /\ started[x.key] < x.seq /\ x.seq <= issued[x.key]
        /\ x.seq = issued[x.key] => (x.del <=> x.key \notin exists)
    BY DEF QueuedInv
  <2>4. finished[x.key] < x.seq
    <3>1. finished[x.key] \in Nat /\ started[x.key] \in Nat BY <2>2 DEF TypeOK
    <3>2. finished[x.key] <= started[x.key] BY <2>2, <3>1 DEF HistoryInv
    <3> QED BY <2>2, <2>3, <3>1, <3>2
  <2>5. x.entry = entries'[x.key] /\ queue'[x.entry] = q
    BY <1>6, <2>1, <2>3, <2>4
  <2>6. CASE x.key = k
    <3>1. issued'[x.key] = issued[k] + 1 BY <1>2, <2>6 DEF TypeOK
    <3> QED BY <1>3, <2>2, <2>3, <2>5, <2>6, <3>1
  <2>7. CASE x.key # k
    <3>1. issued'[x.key] = issued[x.key] /\ (x.key \in exists' <=> x.key \in exists)
      BY <1>2, <2>2, <2>7 DEF TypeOK
    <3> QED BY <2>3, <2>5, <3>1
  <2> QED BY <2>6, <2>7
<1>10. ProcessingInv'
  <2> SUFFICES ASSUME NEW q \in Queues, processing[q] # None, NEW x, x = processing[q]
               PROVE /\ x.entry = entries'[x.key]
                     /\ queue'[x.entry] = q
                     /\ x.seq = started[x.key]
                     /\ started[x.key] = finished[x.key] + 1
                     /\ x.seq = issued'[x.key] => (x.del <=> x.key \notin exists')
    BY <1>2 DEF ProcessingInv
  <2>1. x \in Event BY DEF TypeOK
  <2>2. x.key \in Keys /\ x.seq \in Nat /\ x.entry \in Entries BY <2>1, EventFacts
  <2>3. /\ x.entry = entries[x.key] /\ queue[x.entry] = q
        /\ x.seq = started[x.key] /\ started[x.key] = finished[x.key] + 1
        /\ x.seq = issued[x.key] => (x.del <=> x.key \notin exists)
    BY DEF ProcessingInv
  <2>4. x.seq <= issued[x.key] /\ finished[x.key] < x.seq
    BY <2>2, <2>3 DEF HistoryInv, TypeOK
  <2>5. x.entry = entries'[x.key] /\ queue'[x.entry] = q
    BY <1>6, <2>1, <2>3, <2>4
  <2>6. CASE x.key = k
    <3>1. issued'[x.key] = issued[k] + 1 BY <1>2, <2>6 DEF TypeOK
    <3> QED BY <1>3, <2>2, <2>3, <2>4, <2>5, <2>6, <3>1
  <2>7. CASE x.key # k
    <3>1. issued'[x.key] = issued[x.key] /\ (x.key \in exists' <=> x.key \in exists)
      BY <1>2, <2>2, <2>7 DEF TypeOK
    <3> QED BY <2>3, <2>5, <3>1
  <2> QED BY <2>6, <2>7
<1>11. SendingInv'
  <2>1. issued'[k] = issued[k] + 1 /\ (del <=> k \notin exists')
    BY <1>2 DEF TypeOK
  <2>2. ASSUME NEW q \in Queues, NEW i \in 1 .. Len(queues[q]), queues[q][i].key = k
        PROVE  queues[q][i].seq < issued[k] + 1
    <3>1. queues[q][i].seq <= issued[k] BY <2>2 DEF QueuedInv
    <3> QED BY <1>3, <3>1, QueuedEvent, EventFacts
  <2> QED BY <1>1, <1>2, <1>3, <1>4, <1>5, <2>1, <2>2 DEF SendingInv
<1>12. OrderInv'
  BY <1>2 DEF OrderInv
<1>13. PresentInv'
  <2> SUFFICES ASSUME NEW j \in Keys, NEW n \in Nat, started[j] < n, n <= issued'[j]
               PROVE Waiting(j, n)'
    BY <1>2 DEF PresentInv
  <2>1. CASE n <= issued[j]
    BY <1>2, <2>1 DEF PresentInv, Waiting
  <2>2. CASE ~(n <= issued[j])
    <3>1. j = k /\ n = issued[k] + 1 BY <1>2, <1>3, <2>2 DEF TypeOK
    <3> QED BY <1>1, <1>3, <3>1 DEF Waiting
  <2> QED BY <2>1, <2>2
<1>14. HistoryInv'
  <2> SUFFICES ASSUME NEW j \in Keys
               PROVE /\ started[j] <= issued'[j]
                     /\ \/ started[j] = finished[j]
                        \/ /\ started[j] = finished[j] + 1
                           /\ \E q \in Queues : processing[q] # None /\ processing[q].key = j
    BY <1>2 DEF HistoryInv
  <2> QED BY <1>2, <1>3 DEF HistoryInv, TypeOK
<1>15. ExitInv'
  BY <1>2 DEF ExitInv
<1>16. RefcountIsInFlight'
  <2> SUFFICES ASSUME NEW j \in Keys
               PROVE IF entries'[j] = None THEN issued'[j] = finished[j]
                     ELSE refcount'[entries'[j]] = issued'[j] - finished[j]
    BY <1>2 DEF RefcountIsInFlight
  <2>1. CASE j = k
    BY <1>2, <1>3, <1>4, <2>1 DEF TypeOK
  <2>2. CASE j # k
    <3>1. issued'[j] = issued[j] /\ entries'[j] = entries[j] /\ entries[j] # e
      BY <1>2, <1>4, <2>2 DEF TypeOK
    <3> QED BY <1>4, <3>1 DEF RefcountIsInFlight, TypeOK
  <2> QED BY <2>1, <2>2
<1>17. NoEntryLeak'
  <2> SUFFICES ASSUME NEW j \in Keys, issued'[j] = finished[j], j \notin exists'
               PROVE entries'[j] = None
    BY <1>2 DEF NoEntryLeak
  <2>1. j # k BY <1>2, <1>3, <1>5 DEF TypeOK
  <2> QED BY <1>2, <1>4, <2>1 DEF NoEntryLeak, TypeOK
<1> QED
  BY <1>7, <1>8, <1>9, <1>10, <1>11, <1>12, <1>13, <1>14, <1>15, <1>16, <1>17

\* The dispatcher sending the event preserves the invariant: it is newer than
\* every event of its object in the channel.
LEMMA EnqueueEventPreserves ==
    ASSUME IndInv, EnqueueEvent
    PROVE  IndInv'
<1> USE DEF IndInv
<1> DEFINE q0 == queue[sending.entry]
<1>1. /\ sending # None /\ sending' = None
      /\ Len(queues[q0]) < QueueCap
      /\ queues' = [queues EXCEPT ![q0] = Append(@, sending)]
  BY DEF EnqueueEvent
<1>u. UNCHANGED <<entries, queue, refcount, processing, exited, stopped, closed,
                  exists, issued, started, finished>>
  BY DEF EnqueueEvent, mapVars, lifeVars, histVars
<1>2. sending \in Event BY <1>1 DEF TypeOK
<1>3. /\ sending.key \in Keys /\ sending.seq \in Nat /\ sending.entry \in Entries
      /\ q0 \in Queues
  BY <1>2, EventFacts DEF TypeOK
<1>4. /\ queues'[q0] \in Seq(Event)
      /\ Len(queues[q0]) \in Nat
      /\ Len(queues'[q0]) = Len(queues[q0]) + 1
      /\ \A i \in 1 .. Len(queues[q0]) : queues'[q0][i] = queues[q0][i]
      /\ queues'[q0][Len(queues[q0]) + 1] = sending
  <2>1. queues[q0] \in Seq(Event) /\ queues'[q0] = Append(queues[q0], sending)
    BY <1>1, <1>3 DEF TypeOK
  <2>2. Len(queues[q0]) \in Nat BY <2>1
  <2> QED BY <1>2, <2>1, <2>2, AppendFacts
<1>5. \A q \in Queues \ {q0} : queues'[q] = queues[q]
  BY <1>1 DEF TypeOK
\* An event in a channel afterwards was there before, at the same place, or is
\* the one sent.
<1>6. ASSUME NEW q \in Queues, NEW i \in 1 .. Len(queues'[q])
      PROVE  \/ i \in 1 .. Len(queues[q]) /\ queues'[q][i] = queues[q][i]
             \/ q = q0 /\ i = Len(queues[q0]) + 1 /\ queues'[q][i] = sending
  <2>1. CASE q = q0
    <3> DEFINE len == Len(queues[q0])
    <3>1. len \in Nat /\ Len(queues'[q0]) = len + 1 BY <1>4
    <3>2. i \in 1 .. len + 1 BY <2>1, <3>1
    <3> HIDE DEF len
    <3>3. i \in 1 .. len \/ i = len + 1 BY <3>1, <3>2
    <3>4. CASE i \in 1 .. len BY <1>4, <2>1, <3>4 DEF len
    <3>5. CASE i = len + 1 BY <1>4, <2>1, <3>5 DEF len
    <3> QED BY <3>3, <3>4, <3>5
  <2>2. CASE q # q0 BY <1>5, <2>2
  <2> QED BY <2>1, <2>2
<1>7. TypeOK'
  <2>1. queues' \in [Queues -> Seq(Event)]
    BY <1>1, <1>2, <1>3, <1>4 DEF TypeOK
  <2>2. \A q \in Queues : Len(queues'[q]) <= QueueCap
    <3> TAKE q \in Queues
    <3>1. CASE q = q0 BY <1>1, <1>4, <3>1, BoundsAreNat
    <3>2. CASE q # q0 BY <1>5, <3>2 DEF TypeOK
    <3> QED BY <3>1, <3>2
  <2>3. sending' \in Event \cup {None} BY <1>1
  <2> QED BY <1>u, <2>1, <2>2, <2>3, Zenon DEF TypeOK
<1>8. EntryInv'
  BY <1>u DEF EntryInv
<1>9. QueuedInv'
  <2> SUFFICES ASSUME NEW q \in Queues, NEW i \in 1 .. Len(queues'[q]), NEW x, x = queues'[q][i]
               PROVE /\ x.entry = entries[x.key]
                     /\ queue[x.entry] = q
                     /\ started[x.key] < x.seq
                     /\ x.seq <= issued[x.key]
                     /\ x.seq = issued[x.key] => (x.del <=> x.key \notin exists)
    BY <1>u DEF QueuedInv
  <2>1. CASE i \in 1 .. Len(queues[q]) /\ queues'[q][i] = queues[q][i]
    BY <2>1 DEF QueuedInv
  <2>2. CASE q = q0 /\ queues'[q][i] = sending
    <3>1. sending.seq = issued[sending.key] /\ started[sending.key] < issued[sending.key]
      BY <1>1 DEF SendingInv
    <3>2. /\ sending.entry = entries[sending.key]
          /\ sending.del <=> sending.key \notin exists
      BY <1>1 DEF SendingInv
    <3> QED BY <1>3, <2>2, <3>1, <3>2
  <2> QED BY <1>6, <2>1, <2>2
<1>10. ProcessingInv'
  BY <1>u DEF ProcessingInv
<1>11. SendingInv'
  BY <1>1 DEF SendingInv
<1>12. OrderInv'
  <2> SUFFICES ASSUME NEW q \in Queues, NEW i \in 1 .. Len(queues'[q]),
                      NEW j \in 1 .. Len(queues'[q]), i < j,
                      queues'[q][i].key = queues'[q][j].key
               PROVE queues'[q][i].seq < queues'[q][j].seq
    BY DEF OrderInv
  <2>1. CASE j \in 1 .. Len(queues[q]) /\ queues'[q][j] = queues[q][j]
    <3>1. i \in 1 .. Len(queues[q]) /\ queues'[q][i] = queues[q][i]
      BY <1>4, <1>6, <2>1
    <3> QED BY <2>1, <3>1 DEF OrderInv
  <2>2. CASE q = q0 /\ j = Len(queues[q0]) + 1 /\ queues'[q][j] = sending
    <3>1. i \in 1 .. Len(queues[q]) /\ queues'[q][i] = queues[q][i]
      BY <1>4, <1>6, <2>2
    <3> QED BY <1>1, <2>2, <3>1 DEF SendingInv
  <2> QED BY <1>6, <2>1, <2>2
<1>13. PresentInv'
  <2> SUFFICES ASSUME NEW k \in Keys, NEW n \in Nat, started[k] < n, n <= issued[k]
               PROVE Waiting(k, n)'
    BY <1>u DEF PresentInv
  <2>1. Waiting(k, n) BY DEF PresentInv
  <2>2. CASE \E q \in Queues : \E i \in 1 .. Len(queues[q]) :
               queues[q][i].key = k /\ queues[q][i].seq = n
    <3>0. PICK q \in Queues : \E i \in 1 .. Len(queues[q]) :
            queues[q][i].key = k /\ queues[q][i].seq = n
      BY <2>2
    <3>1. PICK i \in 1 .. Len(queues[q]) : queues[q][i].key = k /\ queues[q][i].seq = n
      BY <3>0
    <3>2. i \in 1 .. Len(queues'[q]) /\ queues'[q][i] = queues[q][i]
      <4>1. CASE q = q0 BY <1>4, <4>1
      <4>2. CASE q # q0 BY <1>5, <4>2
      <4> QED BY <4>1, <4>2
    <3> QED BY <3>1, <3>2 DEF Waiting
  <2>3. CASE sending # None /\ sending.key = k /\ sending.seq = n
    <3>1. Len(queues[q0]) + 1 \in 1 .. Len(queues'[q0])
      BY <1>4
    <3> QED BY <1>3, <1>4, <2>3, <3>1 DEF Waiting
  <2> QED BY <2>1, <2>2, <2>3 DEF Waiting
<1>14. HistoryInv'
  BY <1>u DEF HistoryInv
<1>15. ExitInv'
  BY <1>1, <1>u, <1>4, <1>5 DEF ExitInv
<1>16. RefcountIsInFlight' /\ NoEntryLeak'
  BY <1>u DEF RefcountIsInFlight, NoEntryLeak
<1> QED
  BY <1>7, <1>8, <1>9, <1>10, <1>11, <1>12, <1>13, <1>14, <1>15, <1>16

\* The event a worker receives is the next one of its object, and no other
\* worker handles that object.
LEMMA ReceivedIsNext ==
    ASSUME IndInv, NEW q0 \in Queues, processing[q0] = None, queues[q0] # <<>>
    PROVE  LET e == queues[q0][1] IN
           /\ e \in Event
           /\ e.seq = started[e.key] + 1
           /\ started[e.key] = finished[e.key]
<1> USE DEF IndInv
<1> DEFINE e == queues[q0][1]
<1> HIDE DEF e
<1>1. Len(queues[q0]) \in Nat /\ Len(queues[q0]) >= 1 /\ e \in Event
  BY TailFacts DEF TypeOK, e
<1>2. /\ e.key \in Keys /\ e.seq \in Nat
      /\ started[e.key] \in Nat /\ finished[e.key] \in Nat /\ issued[e.key] \in Nat
  BY <1>1, EventFacts DEF TypeOK
<1>3. /\ e.entry = entries[e.key] /\ queue[e.entry] = q0
      /\ started[e.key] < e.seq /\ e.seq <= issued[e.key]
  BY <1>1 DEF QueuedInv, e
<1>4. started[e.key] = finished[e.key]
  <2>1. ASSUME NEW q \in Queues, processing[q] # None, processing[q].key = e.key
        PROVE  FALSE
    <3>1. queue[entries[e.key]] = q BY <2>1 DEF ProcessingInv
    <3> QED BY <1>3, <2>1, <3>1
  <2> QED BY <1>2, <2>1 DEF HistoryInv
<1>5. Waiting(e.key, started[e.key] + 1)
  BY <1>2, <1>3 DEF PresentInv
<1>6. CASE \E q \in Queues : \E i \in 1 .. Len(queues[q]) :
             queues[q][i].key = e.key /\ queues[q][i].seq = started[e.key] + 1
  <2>1. PICK q \in Queues : \E i \in 1 .. Len(queues[q]) :
             queues[q][i].key = e.key /\ queues[q][i].seq = started[e.key] + 1
    BY <1>6
  <2>2. PICK i \in 1 .. Len(queues[q]) :
             queues[q][i].key = e.key /\ queues[q][i].seq = started[e.key] + 1
    BY <2>1
  <2>3. q = q0 BY <1>3, <2>2 DEF QueuedInv
  <2>4. CASE i = 1 BY <1>1, <1>2, <1>4, <2>2, <2>3, <2>4 DEF e
  <2>5. CASE i > 1
    <3>1. e.seq < started[e.key] + 1
      BY <1>1, <2>2, <2>3, <2>5 DEF OrderInv, e
    <3> QED BY <1>2, <1>3, <3>1
  <2> QED BY <2>4, <2>5
<1>7. CASE sending # None /\ sending.key = e.key /\ sending.seq = started[e.key] + 1
  <2>1. e.seq < started[e.key] + 1
    BY <1>1, <1>7 DEF SendingInv, e
  <2> QED BY <1>2, <1>3, <2>1
<1> QED BY <1>5, <1>6, <1>7, <1>1, <1>4 DEF Waiting, e

\* A worker receiving an event preserves the invariant.
LEMMA ProcessEventsPreserves ==
    ASSUME IndInv, NEW q0 \in Queues, ProcessEvents(q0)
    PROVE  IndInv'
<1> USE DEF IndInv
<1> DEFINE e == queues[q0][1]
<1> HIDE DEF e
<1>1. /\ q0 \notin exited /\ processing[q0] = None /\ queues[q0] # <<>>
      /\ queues[q0] \in Seq(Event)
  BY DEF ProcessEvents, TypeOK
<1>2. /\ e \in Event /\ e # None /\ e.key \in Keys /\ e.seq \in Nat
      /\ started[e.key] \in Nat /\ finished[e.key] \in Nat /\ issued[e.key] \in Nat
      /\ e.seq = started[e.key] + 1
      /\ started[e.key] = finished[e.key]
  BY <1>1, ReceivedIsNext, EventFacts DEF TypeOK, e
<1>3. /\ Len(queues[q0]) \in Nat /\ Len(queues[q0]) >= 1
      /\ Head(queues[q0]) = e
  BY <1>1, TailFacts DEF e
<1>4. /\ processing' = [processing EXCEPT ![q0] = e]
      /\ started' = [started EXCEPT ![e.key] = e.seq]
      /\ queues' = [queues EXCEPT ![q0] = Tail(@)]
  BY <1>3 DEF ProcessEvents
<1>u. UNCHANGED <<entries, queue, refcount, sending, exited, stopped, closed,
                  exists, issued, finished>>
  BY DEF ProcessEvents, mapVars, lifeVars
<1>5. /\ queues'[q0] \in Seq(Event)
      /\ Len(queues'[q0]) = Len(queues[q0]) - 1
      /\ \A i \in 1 .. Len(queues[q0]) - 1 : queues'[q0][i] = queues[q0][i + 1]
  BY <1>1, <1>4, TailFacts DEF TypeOK
<1>6. \A q \in Queues \ {q0} : queues'[q] = queues[q] /\ processing'[q] = processing[q]
  BY <1>4 DEF TypeOK
<1>7. processing'[q0] = e
  BY <1>4 DEF TypeOK
<1>8. /\ started'[e.key] = e.seq
      /\ \A k \in Keys \ {e.key} : started'[k] = started[k]
  BY <1>2, <1>4 DEF TypeOK
<1>9. /\ e.entry = entries[e.key] /\ queue[e.entry] = q0
      /\ e.seq <= issued[e.key]
      /\ e.seq = issued[e.key] => (e.del <=> e.key \notin exists)
  BY <1>3 DEF QueuedInv, e
\* Where an event in a channel was before the step.
<1>10. ASSUME NEW q \in Queues, NEW i \in 1 .. Len(queues'[q])
       PROVE  \E j \in 1 .. Len(queues[q]) :
                /\ queues'[q][i] = queues[q][j]
                /\ q = q0 => j = i + 1
                /\ q # q0 => j = i
  <2>1. CASE q = q0
    <3>1. i + 1 \in 1 .. Len(queues[q]) /\ i \in 1 .. Len(queues[q0]) - 1
      BY <1>3, <1>5, <2>1
    <3> QED BY <1>5, <2>1, <3>1
  <2>2. CASE q # q0 BY <1>6, <2>2
  <2> QED BY <2>1, <2>2
\* An event of the same object left in a channel is newer than e.
<1>11. ASSUME NEW q \in Queues, NEW i \in 1 .. Len(queues'[q]), queues'[q][i].key = e.key
       PROVE  e.seq < queues'[q][i].seq
  <2>1. PICK j \in 1 .. Len(queues[q]) :
                /\ queues'[q][i] = queues[q][j]
                /\ q = q0 => j = i + 1
                /\ q # q0 => j = i
    BY <1>10
  <2>2. q = q0 BY <1>9, <1>11, <2>1 DEF QueuedInv
  <2>3. j > 1 /\ 1 \in 1 .. Len(queues[q0]) BY <1>3, <2>1, <2>2
  <2> QED BY <1>11, <2>1, <2>2, <2>3 DEF OrderInv, e
<1>12. TypeOK'
  <2>1. queues' \in [Queues -> Seq(Event)]
    BY <1>4, <1>5 DEF TypeOK
  <2>2. \A q \in Queues : Len(queues'[q]) <= QueueCap
    <3> TAKE q \in Queues
    <3>1. CASE q = q0 BY <1>3, <1>5, <3>1, BoundsAreNat DEF TypeOK
    <3>2. CASE q # q0 BY <1>6, <3>2 DEF TypeOK
    <3> QED BY <3>1, <3>2
  <2>3. processing' \in [Queues -> Event \cup {None}] BY <1>2, <1>4 DEF TypeOK
  <2>4. started' \in [Keys -> Nat] BY <1>2, <1>4 DEF TypeOK
  <2> QED BY <1>u, <2>1, <2>2, <2>3, <2>4, Zenon DEF TypeOK
<1>13. EntryInv'
  BY <1>u DEF EntryInv
<1>14. QueuedInv'
  <2> SUFFICES ASSUME NEW q \in Queues, NEW i \in 1 .. Len(queues'[q]), NEW x, x = queues'[q][i]
               PROVE /\ x.entry = entries[x.key]
                     /\ queue[x.entry] = q
                     /\ started'[x.key] < x.seq
                     /\ x.seq <= issued[x.key]
                     /\ x.seq = issued[x.key] => (x.del <=> x.key \notin exists)
    BY <1>u DEF QueuedInv
  <2>1. PICK j \in 1 .. Len(queues[q]) : x = queues[q][j]
    BY <1>10
  <2>2. x.key \in Keys BY <2>1, QueuedEvent, EventFacts
  <2>3. /\ x.entry = entries[x.key] /\ queue[x.entry] = q
        /\ started[x.key] < x.seq /\ x.seq <= issued[x.key]
        /\ x.seq = issued[x.key] => (x.del <=> x.key \notin exists)
    BY <2>1 DEF QueuedInv
  <2>4. started'[x.key] < x.seq
    <3>1. CASE x.key = e.key BY <1>8, <1>11, <3>1
    <3>2. CASE x.key # e.key BY <1>8, <2>2, <2>3, <3>2
    <3> QED BY <3>1, <3>2
  <2> QED BY <2>3, <2>4
<1>15. ProcessingInv'
  <2> SUFFICES ASSUME NEW q \in Queues, processing'[q] # None, NEW x, x = processing'[q]
               PROVE /\ x.entry = entries[x.key]
                     /\ queue[x.entry] = q
                     /\ x.seq = started'[x.key]
                     /\ started'[x.key] = finished[x.key] + 1
                     /\ x.seq = issued[x.key] => (x.del <=> x.key \notin exists)
    BY <1>u DEF ProcessingInv
  <2>1. CASE q = q0 BY <1>2, <1>7, <1>8, <1>9, <2>1
  <2>2. CASE q # q0
    <3>1. x = processing[q] /\ x \in Event BY <1>6, <2>2 DEF TypeOK
    <3>2. /\ x.entry = entries[x.key] /\ queue[x.entry] = q
          /\ x.seq = started[x.key] /\ started[x.key] = finished[x.key] + 1
          /\ x.seq = issued[x.key] => (x.del <=> x.key \notin exists)
      BY <1>6, <2>2, <3>1 DEF ProcessingInv
    <3>3. x.key \in Keys /\ x.key # e.key BY <1>9, <2>2, <3>1, <3>2, EventFacts
    <3> QED BY <1>8, <3>2, <3>3
  <2> QED BY <2>1, <2>2
<1>16. SendingInv'
  <2> SUFFICES ASSUME sending # None
               PROVE /\ sending.entry = entries[sending.key]
                     /\ sending.seq = issued[sending.key]
                     /\ started'[sending.key] < issued[sending.key]
                     /\ sending.del <=> sending.key \notin exists
                     /\ \A q \in Queues : \A i \in 1 .. Len(queues'[q]) :
                          queues'[q][i].key = sending.key => queues'[q][i].seq < sending.seq
    BY <1>u DEF SendingInv
  <2>1. sending.key \in Keys BY EventFacts DEF TypeOK
  <2>2. /\ sending.entry = entries[sending.key]
        /\ sending.seq = issued[sending.key]
        /\ started[sending.key] < issued[sending.key]
        /\ sending.del <=> sending.key \notin exists
    BY DEF SendingInv
  <2>3. \A q \in Queues : \A i \in 1 .. Len(queues'[q]) :
           queues'[q][i].key = sending.key => queues'[q][i].seq < sending.seq
    <3> SUFFICES ASSUME NEW q \in Queues, NEW i \in 1 .. Len(queues'[q]),
                        queues'[q][i].key = sending.key
                 PROVE  queues'[q][i].seq < sending.seq
      OBVIOUS
    <3>1. PICK j \in 1 .. Len(queues[q]) : queues'[q][i] = queues[q][j]
      BY <1>10
    <3> QED BY <3>1 DEF SendingInv
  <2>4. started'[sending.key] < issued[sending.key]
    <3>1. CASE sending.key = e.key
      <4>1. e.seq < sending.seq BY <1>3, <3>1 DEF SendingInv, e
      <4> QED BY <1>8, <2>2, <3>1, <4>1
    <3>2. CASE sending.key # e.key BY <1>8, <2>1, <2>2, <3>2
    <3> QED BY <3>1, <3>2
  <2> QED BY <2>2, <2>3, <2>4
<1>17. OrderInv'
  <2> SUFFICES ASSUME NEW q \in Queues, NEW i \in 1 .. Len(queues'[q]),
                      NEW j \in 1 .. Len(queues'[q]), i < j,
                      queues'[q][i].key = queues'[q][j].key
               PROVE queues'[q][i].seq < queues'[q][j].seq
    BY DEF OrderInv
  <2>1. PICK a \in 1 .. Len(queues[q]) :
          queues'[q][i] = queues[q][a] /\ (q = q0 => a = i + 1) /\ (q # q0 => a = i)
    BY <1>10
  <2>2. PICK b \in 1 .. Len(queues[q]) :
          queues'[q][j] = queues[q][b] /\ (q = q0 => b = j + 1) /\ (q # q0 => b = j)
    BY <1>10
  <2>3. a < b BY <2>1, <2>2
  <2> QED BY <2>1, <2>2, <2>3 DEF OrderInv
<1>18. PresentInv'
  <2> SUFFICES ASSUME NEW k \in Keys, NEW n \in Nat, started'[k] < n, n <= issued[k]
               PROVE Waiting(k, n)'
    BY <1>u DEF PresentInv
  <2>1. started[k] < n /\ (k = e.key => n # e.seq)
    <3>1. CASE k = e.key BY <1>2, <1>8, <3>1
    <3>2. CASE k # e.key BY <1>8, <3>2
    <3> QED BY <3>1, <3>2
  <2>2. Waiting(k, n) BY <2>1 DEF PresentInv
  <2>3. CASE \E q \in Queues : \E i \in 1 .. Len(queues[q]) :
               queues[q][i].key = k /\ queues[q][i].seq = n
    <3>0. PICK q \in Queues : \E i \in 1 .. Len(queues[q]) :
            queues[q][i].key = k /\ queues[q][i].seq = n
      BY <2>3
    <3>1. PICK i \in 1 .. Len(queues[q]) : queues[q][i].key = k /\ queues[q][i].seq = n
      BY <3>0
    <3>2. \E j \in 1 .. Len(queues'[q]) : queues'[q][j] = queues[q][i]
      <4>1. CASE q = q0
        <5>1. i # 1 BY <2>1, <3>1, <4>1 DEF e
        <5>2. i - 1 \in 1 .. Len(queues'[q]) /\ i - 1 \in 1 .. Len(queues[q0]) - 1
          BY <1>3, <1>5, <4>1, <5>1
        <5>3. queues'[q][i - 1] = queues[q][(i - 1) + 1] BY <1>5, <4>1, <5>2
        <5>4. (i - 1) + 1 = i OBVIOUS
        <5> QED BY <5>2, <5>3, <5>4
      <4>2. CASE q # q0 BY <1>6, <4>2
      <4> QED BY <4>1, <4>2
    <3> QED BY <3>1, <3>2 DEF Waiting
  <2>4. CASE sending # None /\ sending.key = k /\ sending.seq = n
    BY <1>u, <2>4 DEF Waiting
  <2> QED BY <2>2, <2>3, <2>4 DEF Waiting
<1>19. HistoryInv'
  <2> SUFFICES ASSUME NEW k \in Keys
               PROVE /\ started'[k] <= issued[k]
                     /\ \/ started'[k] = finished[k]
                        \/ /\ started'[k] = finished[k] + 1
                           /\ \E q \in Queues : processing'[q] # None /\ processing'[q].key = k
    BY <1>u DEF HistoryInv
  <2>1. CASE k = e.key BY <1>2, <1>7, <1>8, <1>9, <2>1
  <2>2. CASE k # e.key
    <3>1. started'[k] = started[k] BY <1>8, <2>2
    <3>2. ASSUME NEW q \in Queues, processing[q] # None PROVE processing'[q] = processing[q]
      BY <1>1, <1>6, <3>2
    <3> QED BY <3>1, <3>2 DEF HistoryInv
  <2> QED BY <2>1, <2>2
<1>20. ExitInv'
  <2> SUFFICES ASSUME NEW q \in exited
               PROVE processing'[q] = None /\ (stopped \/ (closed /\ queues'[q] = <<>>))
    BY <1>u DEF ExitInv
  <2>1. q # q0 /\ q \in Queues BY <1>1 DEF TypeOK
  <2> QED BY <1>6, <2>1 DEF ExitInv
<1>21. RefcountIsInFlight' /\ NoEntryLeak'
  BY <1>u DEF RefcountIsInFlight, NoEntryLeak
<1> QED
  BY <1>12, <1>13, <1>14, <1>15, <1>16, <1>17, <1>18, <1>19, <1>20, <1>21

\* A worker finishing an event preserves the invariant: the entry is dropped
\* only with the last event of a deleted object.
LEMMA ReleasePreserves ==
    ASSUME IndInv, NEW q0 \in Queues, ReleaseQueueMapEntry(q0)
    PROVE  IndInv'
<1> USE DEF IndInv
<1> DEFINE e == processing[q0]
<1> HIDE DEF e
<1>1. /\ e # None /\ e \in Event
      /\ processing' = [processing EXCEPT ![q0] = None]
      /\ refcount' = [refcount EXCEPT ![e.entry] = @ - 1]
      /\ entries' = IF e.del /\ refcount[e.entry] - 1 <= 0
                    THEN [entries EXCEPT ![e.key] = None]
                    ELSE entries
      /\ finished' = [finished EXCEPT ![e.key] = @ + 1]
  BY DEF ReleaseQueueMapEntry, TypeOK, e
<1>u. UNCHANGED <<queue, queues, sending, exited, stopped, closed, exists, issued, started>>
  BY DEF ReleaseQueueMapEntry, lifeVars
<1>2. /\ e.key \in Keys /\ e.seq \in Nat /\ e.entry \in Entries /\ e.entry # None
      /\ e.del \in BOOLEAN
      /\ started[e.key] \in Nat /\ finished[e.key] \in Nat /\ issued[e.key] \in Nat
  BY <1>1, EventFacts DEF TypeOK
<1>3. /\ e.entry = entries[e.key] /\ queue[e.entry] = q0
      /\ e.seq = started[e.key] /\ started[e.key] = finished[e.key] + 1
      /\ e.seq = issued[e.key] => (e.del <=> e.key \notin exists)
      /\ started[e.key] <= issued[e.key]
      /\ refcount[e.entry] = issued[e.key] - finished[e.key]
  BY <1>1, <1>2 DEF ProcessingInv, HistoryInv, RefcountIsInFlight, e
<1>4. /\ finished'[e.key] = started[e.key]
      /\ \A k \in Keys \ {e.key} : finished'[k] = finished[k]
  BY <1>1, <1>2, <1>3 DEF TypeOK
<1>5. /\ refcount' \in [Entries -> Int]
      /\ refcount'[e.entry] = issued[e.key] - started[e.key]
      /\ \A d \in Entries \ {e.entry} : refcount'[d] = refcount[d]
  BY <1>1, <1>2, <1>3 DEF TypeOK
\* The entry is dropped exactly when e is a delete and the newest event.
<1>6. /\ entries' \in [Keys -> Entries \cup {None}]
      /\ \A k \in Keys \ {e.key} : entries'[k] = entries[k]
      /\ IF e.del /\ issued[e.key] = started[e.key]
         THEN entries'[e.key] = None
         ELSE entries'[e.key] = e.entry
  <2>1. refcount[e.entry] - 1 <= 0 <=> issued[e.key] = started[e.key]
    BY <1>2, <1>3
  <2>2. CASE e.del /\ issued[e.key] = started[e.key]
    BY <1>1, <1>2, <2>1, <2>2 DEF TypeOK
  <2>3. CASE ~(e.del /\ issued[e.key] = started[e.key])
    BY <1>1, <1>2, <1>3, <2>1, <2>3 DEF TypeOK
  <2> QED BY <2>2, <2>3
<1>7. /\ processing'[q0] = None
      /\ \A q \in Queues \ {q0} : processing'[q] = processing[q]
  BY <1>1 DEF TypeOK
\* No other worker handles the object of e.
<1>8. ASSUME NEW q \in Queues, processing'[q] # None
      PROVE  /\ processing'[q] = processing[q] /\ processing[q] # None
             /\ processing[q].key \in Keys \ {e.key}
  <2>1. q # q0 /\ processing'[q] = processing[q] /\ processing[q] # None BY <1>7, <1>8
  <2>2. processing[q].key \in Keys BY <2>1, EventFacts DEF TypeOK
  <2>3. queue[entries[processing[q].key]] = q BY <2>1 DEF ProcessingInv
  <2> QED BY <1>3, <2>1, <2>2, <2>3
<1>9. TypeOK'
  <2>1. processing' \in [Queues -> Event \cup {None}] BY <1>1 DEF TypeOK
  <2>2. finished' \in [Keys -> Nat] BY <1>1, <1>2 DEF TypeOK
  <2> QED BY <1>u, <1>5, <1>6, <2>1, <2>2, Zenon DEF TypeOK
<1>10. EntryInv'
  <2> SUFFICES ASSUME NEW i \in Keys, NEW j \in Keys, entries'[i] = entries'[j],
                      entries'[i] # None
               PROVE i = j
    BY DEF EntryInv
  <2>1. entries'[i] = entries[i] /\ entries'[j] = entries[j] BY <1>3, <1>6
  <2> QED BY <2>1 DEF EntryInv
<1>11. QueuedInv'
  <2> SUFFICES ASSUME NEW q \in Queues, NEW i \in 1 .. Len(queues[q]), NEW x, x = queues[q][i]
               PROVE /\ x.entry = entries'[x.key]
                     /\ queue[x.entry] = q
                     /\ started[x.key] < x.seq
                     /\ x.seq <= issued[x.key]
                     /\ x.seq = issued[x.key] => (x.del <=> x.key \notin exists)
    BY <1>u DEF QueuedInv
  <2>1. /\ x.entry = entries[x.key] /\ queue[x.entry] = q
        /\ started[x.key] < x.seq /\ x.seq <= issued[x.key]
        /\ x.seq = issued[x.key] => (x.del <=> x.key \notin exists)
    BY DEF QueuedInv
  <2>2. x.key \in Keys /\ x.seq \in Nat BY QueuedEvent, EventFacts
  <2>3. entries'[x.key] = entries[x.key]
    <3>1. CASE x.key = e.key
      <4>1. issued[e.key] # started[e.key] BY <1>2, <2>1, <2>2, <3>1
      <4> QED BY <1>3, <1>6, <3>1, <4>1
    <3>2. CASE x.key # e.key BY <1>6, <2>2, <3>2
    <3> QED BY <3>1, <3>2
  <2> QED BY <2>1, <2>3
<1>12. ProcessingInv'
  <2> SUFFICES ASSUME NEW q \in Queues, processing'[q] # None, NEW x, x = processing'[q]
               PROVE /\ x.entry = entries'[x.key]
                     /\ queue[x.entry] = q
                     /\ x.seq = started[x.key]
                     /\ started[x.key] = finished'[x.key] + 1
                     /\ x.seq = issued[x.key] => (x.del <=> x.key \notin exists)
    BY <1>u DEF ProcessingInv
  <2>1. x = processing[q] /\ processing[q] # None /\ x.key \in Keys \ {e.key} BY <1>8
  <2>2. /\ x.entry = entries[x.key] /\ queue[x.entry] = q
        /\ x.seq = started[x.key] /\ started[x.key] = finished[x.key] + 1
        /\ x.seq = issued[x.key] => (x.del <=> x.key \notin exists)
    BY <2>1 DEF ProcessingInv
  <2> QED BY <1>4, <1>6, <2>1, <2>2
<1>13. SendingInv'
  <2> SUFFICES ASSUME sending # None
               PROVE /\ sending.entry = entries'[sending.key]
                     /\ sending.seq = issued[sending.key]
                     /\ started[sending.key] < issued[sending.key]
                     /\ sending.del <=> sending.key \notin exists
                     /\ \A q \in Queues : \A i \in 1 .. Len(queues[q]) :
                          queues[q][i].key = sending.key => queues[q][i].seq < sending.seq
    BY <1>u DEF SendingInv
  <2>1. sending.key \in Keys BY EventFacts DEF TypeOK
  <2>2. entries'[sending.key] = entries[sending.key]
    <3>1. CASE sending.key = e.key
      <4>1. issued[e.key] # started[e.key] BY <1>2, <3>1 DEF SendingInv
      <4> QED BY <1>3, <1>6, <3>1, <4>1
    <3>2. CASE sending.key # e.key BY <1>6, <2>1, <3>2
    <3> QED BY <3>1, <3>2
  <2> QED BY <2>2 DEF SendingInv
<1>14. OrderInv'
  BY <1>u DEF OrderInv
<1>15. PresentInv'
  BY <1>u DEF PresentInv, Waiting
<1>16. HistoryInv'
  <2> SUFFICES ASSUME NEW k \in Keys
               PROVE /\ started[k] <= issued[k]
                     /\ \/ started[k] = finished'[k]
                        \/ /\ started[k] = finished'[k] + 1
                           /\ \E q \in Queues : processing'[q] # None /\ processing'[q].key = k
    BY <1>u DEF HistoryInv
  <2>1. CASE k = e.key BY <1>3, <1>4, <2>1
  <2>2. CASE k # e.key
    <3>1. ASSUME NEW q \in Queues, processing[q] # None, processing[q].key = k
          PROVE  processing'[q] = processing[q]
      BY <1>7, <2>2, <3>1 DEF e
    <3> QED BY <1>4, <2>2, <3>1 DEF HistoryInv
  <2> QED BY <2>1, <2>2
<1>17. ExitInv'
  <2> SUFFICES ASSUME NEW q \in exited PROVE processing'[q] = None
    BY <1>u DEF ExitInv
  <2> QED BY <1>7 DEF ExitInv, TypeOK
<1>18. RefcountIsInFlight'
  <2> SUFFICES ASSUME NEW k \in Keys
               PROVE IF entries'[k] = None THEN issued[k] = finished'[k]
                     ELSE refcount'[entries'[k]] = issued[k] - finished'[k]
    BY <1>u DEF RefcountIsInFlight
  <2>1. CASE k = e.key BY <1>2, <1>4, <1>5, <1>6, <2>1
  <2>2. CASE k # e.key
    <3>1. entries'[k] = entries[k] /\ finished'[k] = finished[k] BY <1>4, <1>6, <2>2
    <3>2. entries[k] # e.entry BY <1>2, <1>3, <2>2 DEF EntryInv
    <3> QED BY <1>5, <3>1, <3>2 DEF RefcountIsInFlight, TypeOK
  <2> QED BY <2>1, <2>2
<1>19. NoEntryLeak'
  <2> SUFFICES ASSUME NEW k \in Keys, issued[k] = finished'[k], k \notin exists
               PROVE entries'[k] = None
    BY <1>u DEF NoEntryLeak
  <2>1. CASE k = e.key BY <1>2, <1>3, <1>4, <1>6, <2>1
  <2>2. CASE k # e.key BY <1>4, <1>6, <2>2 DEF NoEntryLeak
  <2> QED BY <2>1, <2>2
<1> QED
  BY <1>9, <1>10, <1>11, <1>12, <1>13, <1>14, <1>15, <1>16, <1>17, <1>18, <1>19

\* A worker returning, shutdown and stop preserve the invariant: no state but
\* theirs changes.
LEMMA LifecyclePreserves ==
    ASSUME IndInv, (\E q \in Queues : WorkerReturns(q)) \/ Shutdown \/ Stop
    PROVE  IndInv'
<1> USE DEF IndInv
<1>u. UNCHANGED <<entries, queue, refcount, queues, sending, processing,
                  exists, issued, started, finished>>
  BY DEF WorkerReturns, Shutdown, Stop, mapVars, chanVars, histVars
<1>1. TypeOK'
  <2>1. exited' \subseteq Queues
    BY DEF WorkerReturns, Shutdown, Stop, chanVars, TypeOK
  <2>2. stopped' \in BOOLEAN /\ closed' \in BOOLEAN
    BY Zenon DEF WorkerReturns, Shutdown, Stop, lifeVars, TypeOK
  <2> QED BY <1>u, <2>1, <2>2, Zenon DEF TypeOK
<1>2. EntryInv' /\ QueuedInv' /\ ProcessingInv' /\ SendingInv' /\ OrderInv'
  BY <1>u DEF EntryInv, QueuedInv, ProcessingInv, SendingInv, OrderInv
<1>3. PresentInv' /\ HistoryInv' /\ RefcountIsInFlight' /\ NoEntryLeak'
  BY <1>u DEF PresentInv, Waiting, HistoryInv, RefcountIsInFlight, NoEntryLeak
<1>4. ExitInv'
  <2>1. CASE \E q \in Queues : WorkerReturns(q)
    <3>1. PICK q \in Queues : WorkerReturns(q) BY <2>1
    <3>2. /\ exited' = exited \cup {q} /\ processing[q] = None
          /\ stopped \/ (closed /\ queues[q] = <<>>)
          /\ stopped' = stopped /\ closed' = closed
      BY <3>1 DEF WorkerReturns, lifeVars
    <3> QED BY <1>u, <3>2 DEF ExitInv
  <2>2. CASE Shutdown
    BY <1>u, <2>2 DEF Shutdown, ExitInv, chanVars
  <2>3. CASE Stop
    BY <1>u, <2>3 DEF Stop, ExitInv, chanVars
  <2> QED BY <2>1, <2>2, <2>3
<1> QED BY <1>1, <1>2, <1>3, <1>4

-----------------------------------------------------------------------------
(***************************************************************************)
(* The theorems                                                            *)
(***************************************************************************)

\* The inductive invariant holds in every reachable state of the queue map.
THEOREM Invariance == Spec => []IndInv
<1>1. Init => IndInv
  <2> SUFFICES ASSUME Init PROVE IndInv
    OBVIOUS
  <2> USE DEF Init
  <2>1. 0 \in Queues /\ (\A q \in Queues : queues[q] = <<>> /\ Len(queues[q]) = 0)
    BY AtLeastTwoQueues DEF Queues
  <2>2. TypeOK
    <3>1. stopped \in BOOLEAN /\ closed \in BOOLEAN BY Zenon
    <3>2. queues \in [Queues -> Seq(Event)] /\ (\A q \in Queues : Len(queues[q]) <= QueueCap)
      BY <2>1, BoundsAreNat
    <3>3. entries \in [Keys -> Entries \cup {None}] /\ processing \in [Queues -> Event \cup {None}]
      OBVIOUS
    <3>4. /\ queue \in [Entries -> Queues] /\ refcount \in [Entries -> Int]
          /\ sending \in Event \cup {None} /\ exited \subseteq Queues /\ exists \subseteq Keys
          /\ issued \in [Keys -> Nat] /\ started \in [Keys -> Nat] /\ finished \in [Keys -> Nat]
      BY <2>1
    <3> QED BY <3>1, <3>2, <3>3, <3>4 DEF TypeOK
  <2>3. QueuedInv /\ OrderInv BY <2>1 DEF QueuedInv, OrderInv
  <2>4. EntryInv /\ ProcessingInv /\ SendingInv /\ ExitInv
    BY DEF EntryInv, ProcessingInv, SendingInv, ExitInv
  <2>5. PresentInv /\ HistoryInv BY DEF PresentInv, HistoryInv
  <2>6. RefcountIsInFlight /\ NoEntryLeak BY DEF RefcountIsInFlight, NoEntryLeak
  <2> QED BY <2>2, <2>3, <2>4, <2>5, <2>6 DEF IndInv
<1>2. IndInv /\ [Next]_vars => IndInv'
  <2> SUFFICES ASSUME IndInv, [Next]_vars PROVE IndInv'
    OBVIOUS
  <2>1. CASE \E k \in Keys, del \in BOOLEAN : GetQueueMapEntry(k, del)
    BY <2>1, GetQueueMapEntryPreserves
  <2>2. CASE EnqueueEvent
    BY <2>2, EnqueueEventPreserves
  <2>3. CASE \E q \in Queues : ProcessEvents(q)
    BY <2>3, ProcessEventsPreserves
  <2>4. CASE \E q \in Queues : ReleaseQueueMapEntry(q)
    BY <2>4, ReleasePreserves
  <2>5. CASE (\E q \in Queues : WorkerReturns(q)) \/ Shutdown \/ Stop
    BY <2>5, LifecyclePreserves
  <2>6. CASE UNCHANGED vars
    <3>1. UNCHANGED <<entries, queue, refcount, queues, sending, processing, exited,
                      stopped, closed, exists, issued, started, finished>>
      BY <2>6 DEF vars, mapVars, chanVars, lifeVars, histVars
    <3>2. TypeOK' BY <3>1, Zenon DEF TypeOK, IndInv
    <3>3. /\ EntryInv' /\ QueuedInv' /\ ProcessingInv' /\ SendingInv' /\ OrderInv'
      BY <3>1 DEF IndInv, EntryInv, QueuedInv, ProcessingInv, SendingInv, OrderInv
    <3>4. /\ PresentInv' /\ HistoryInv' /\ ExitInv' /\ RefcountIsInFlight' /\ NoEntryLeak'
      BY <3>1 DEF IndInv, PresentInv, Waiting, HistoryInv, ExitInv, RefcountIsInFlight, NoEntryLeak
    <3> QED BY <3>2, <3>3, <3>4 DEF IndInv
  <2> QED BY <2>1, <2>2, <2>3, <2>4, <2>5, <2>6 DEF Next, Worker
<1> QED BY <1>1, <1>2, PTL DEF Spec

\* No two workers ever have events of the same object: its unhandled events
\* are all in the queue its entry names.
THEOREM Serialized == Spec => []OneQueuePerObject
<1>1. IndInv => OneQueuePerObject
  <2> SUFFICES ASSUME IndInv, NEW k \in Keys, NEW q \in Queues, BusyIn(k, q)
               PROVE /\ \A p \in Queues : BusyIn(k, p) => p = q
                     /\ sending # None /\ sending.key = k => queue[sending.entry] = q
    BY DEF OneQueuePerObject
  <2>1. ASSUME NEW p \in Queues, BusyIn(k, p) PROVE queue[entries[k]] = p
    BY <2>1 DEF IndInv, BusyIn, QueuedInv, ProcessingInv
  <2>2. queue[entries[k]] = q BY <2>1
  <2>3. sending # None /\ sending.key = k => sending.entry = entries[k]
    BY DEF IndInv, SendingInv
  <2> QED BY <2>1, <2>2, <2>3
<1> QED BY <1>1, Invariance, PTL

\* The reference counter of an entry is exactly the number of unhandled
\* events, although adds and updates give theirs back without the lock.
THEOREM RefcountExact == Spec => []RefcountIsInFlight
<1>1. IndInv => RefcountIsInFlight BY DEF IndInv
<1> QED BY <1>1, Invariance, PTL

\* The entries map holds nothing for a deleted object whose events are
\* handled.
THEOREM EntriesReclaimed == Spec => []NoEntryLeak
<1>1. IndInv => NoEntryLeak BY DEF IndInv
<1> QED BY <1>1, Invariance, PTL

\* Waiting for the workers of a closed map is waiting for all of its events.
THEOREM Drained == Spec => []DrainedOnShutdown
<1>1. IndInv => DrainedOnShutdown
  <2> SUFFICES ASSUME IndInv, closed, ~stopped, exited = Queues PROVE issued = finished
    BY DEF DrainedOnShutdown
  <2>1. /\ sending = None
        /\ \A q \in Queues : processing[q] = None /\ queues[q] = <<>>
    BY DEF IndInv, ExitInv
  <2>2. ASSUME NEW k \in Keys PROVE issued[k] = finished[k]
    <3>1. /\ issued[k] \in Nat /\ started[k] \in Nat /\ finished[k] \in Nat
          /\ started[k] <= issued[k] /\ started[k] = finished[k]
      BY <2>1 DEF IndInv, TypeOK, HistoryInv
    <3>2. ~Waiting(k, issued[k]) BY <2>1 DEF Waiting
    <3>3. ~(started[k] < issued[k]) BY <3>1, <3>2 DEF IndInv, PresentInv
    <3> QED BY <3>1, <3>3
  <2> QED BY <2>2 DEF IndInv, TypeOK
<1> QED BY <1>1, Invariance, PTL

\* The queue map implements one FIFO with a single consumer per object.
THEOREM Refinement == Spec => ImplementsKeyedFIFO
<1>1. Init => Abstract!Init
  BY DEF Init, Abstract!Init
<1>2. IndInv /\ [Next]_vars => [Abstract!Next]_(Abstract!vars)
  <2> SUFFICES ASSUME IndInv, [Next]_vars
               PROVE  Abstract!Next \/ UNCHANGED <<issued, started, finished>>
    BY DEF Abstract!vars
  <2>1. CASE \E k \in Keys, del \in BOOLEAN : GetQueueMapEntry(k, del)
    <3>1. PICK k \in Keys : /\ issued' = [issued EXCEPT ![k] = @ + 1]
                            /\ UNCHANGED <<started, finished>>
      BY <2>1 DEF GetQueueMapEntry
    <3> QED BY <3>1 DEF Abstract!Next, Abstract!Issue
  <2>2. CASE \E q \in Queues : ProcessEvents(q)
    <3>1. PICK q \in Queues : ProcessEvents(q) BY <2>2
    <3> DEFINE e == queues[q][1]
    <3> HIDE DEF e
    <3>2. processing[q] = None /\ queues[q] # <<>> /\ queues[q] \in Seq(Event)
      BY <3>1 DEF ProcessEvents, IndInv, TypeOK
    <3>3. Head(queues[q]) = e /\ 1 \in 1 .. Len(queues[q]) BY <3>2, TailFacts DEF e
    <3>4. e \in Event /\ e.seq = started[e.key] + 1 /\ started[e.key] = finished[e.key]
      BY <3>2, ReceivedIsNext DEF e
    <3>5. e.key \in Keys /\ started[e.key] < issued[e.key]
      <4>1. /\ e.key \in Keys /\ e.seq \in Nat /\ e.seq <= issued[e.key]
            /\ started[e.key] \in Nat /\ issued[e.key] \in Nat
        BY <3>3, <3>4, EventFacts DEF IndInv, QueuedInv, TypeOK, e
      <4> QED BY <3>4, <4>1
    <3>6. /\ started' = [started EXCEPT ![e.key] = @ + 1]
          /\ UNCHANGED <<issued, finished>>
      BY <3>1, <3>3, <3>4 DEF ProcessEvents
    <3> QED BY <3>4, <3>5, <3>6 DEF Abstract!Next, Abstract!Start
  <2>3. CASE \E q \in Queues : ReleaseQueueMapEntry(q)
    <3>1. PICK q \in Queues : ReleaseQueueMapEntry(q) BY <2>3
    <3> DEFINE e == processing[q]
    <3> HIDE DEF e
    <3>2. /\ e # None /\ e \in Event
          /\ finished' = [finished EXCEPT ![e.key] = @ + 1]
          /\ UNCHANGED <<issued, started>>
      BY <3>1 DEF ReleaseQueueMapEntry, IndInv, TypeOK, e
    <3>3. e.key \in Keys /\ finished[e.key] < started[e.key]
      BY <3>2, EventFacts DEF IndInv, ProcessingInv, TypeOK, e
    <3> QED BY <3>2, <3>3 DEF Abstract!Next, Abstract!Finish
  <2>4. CASE EnqueueEvent \/ (\E q \in Queues : WorkerReturns(q)) \/ Shutdown \/ Stop
    BY <2>4 DEF EnqueueEvent, WorkerReturns, Shutdown, Stop, histVars
  <2>5. CASE UNCHANGED vars
    BY <2>5 DEF vars, histVars
  <2> QED BY <2>1, <2>2, <2>3, <2>4, <2>5 DEF Next, Worker
<1> QED BY <1>1, <1>2, Invariance, PTL DEF Spec, ImplementsKeyedFIFO, Abstract!Spec

\* Type correctness: among others, no channel holds more than its capacity, for any
\* number of objects, queues and events.
THEOREM TypeCorrect == Spec => []TypeOK
<1>1. IndInv => TypeOK BY DEF IndInv
<1> QED BY <1>1, Invariance, PTL

=============================================================================
