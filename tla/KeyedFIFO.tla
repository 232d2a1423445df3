----------------------------- MODULE KeyedFIFO ------------------------------
(***************************************************************************)
(* What the event queues of the watch factory promise for one object: its  *)
(* events are numbered as the informer issues them, are handled in that    *)
(* order and one at a time.  Events of different objects are unordered.    *)
(***************************************************************************)
EXTENDS Integers

CONSTANT Keys

VARIABLES issued,   \* issued[k]: number of events issued for object k
          started,  \* started[k]: number of the event last handed to the handlers
          finished  \* finished[k]: number of events handled

vars == <<issued, started, finished>>

Init == /\ issued = [k \in Keys |-> 0]
        /\ started = [k \in Keys |-> 0]
        /\ finished = [k \in Keys |-> 0]

Issue(k) == /\ issued' = [issued EXCEPT ![k] = @ + 1]
            /\ UNCHANGED <<started, finished>>

Start(k) == /\ started[k] = finished[k]
            /\ started[k] < issued[k]
            /\ started' = [started EXCEPT ![k] = @ + 1]
            /\ UNCHANGED <<issued, finished>>

Finish(k) == /\ finished[k] < started[k]
             /\ finished' = [finished EXCEPT ![k] = @ + 1]
             /\ UNCHANGED <<issued, started>>

Next == \E k \in Keys : Issue(k) \/ Start(k) \/ Finish(k)

Spec == Init /\ [][Next]_vars
=============================================================================
