------------------------------- MODULE Bitmap -------------------------------
(***************************************************************************)
(* The allocation bitmap with the round robin strategy                     *)
(* (go-controller/pkg/allocator/bitmap, bitmap.go), which the ID and the   *)
(* subnet allocators use.  Every method runs under the bitmap's own lock,  *)
(* so a method is an operator on the bitmap's value.  The counter of the   *)
(* code is the number of allocated offsets.                                *)
(***************************************************************************)
EXTENDS Integers

\* A bitmap of max offsets.
AllocationBitmap(max) == [allocated : SUBSET (0 .. max - 1), nextAlloc : 0 .. max - 1]

NewBitmap(excluded) == [allocated |-> excluded, nextAlloc |-> 0]

Full(b, max) == 0 .. max - 1 \subseteq b.allocated

\* The offset that AllocateBit finds in a bitmap that is not full: the first
\* free one from nextAlloc on, wrapping round.
AllocateBit(b, max) ==
    CHOOSE at \in 0 .. max - 1 :
        /\ at \notin b.allocated
        /\ \A other \in (0 .. max - 1) \ b.allocated :
               (at - b.nextAlloc) % max <= (other - b.nextAlloc) % max

\* Fault: the next offset is not wrapped.
AllocateNextUnwrapped(b, max) == [allocated |-> b.allocated \cup {AllocateBit(b, max)},
                                  nextAlloc |-> AllocateBit(b, max) + 1]

AllocateNext(b, max) == [allocated |-> b.allocated \cup {AllocateBit(b, max)},
                         nextAlloc |-> (AllocateBit(b, max) + 1) % max]

Allocate(b, offset) == [b EXCEPT !.allocated = @ \cup {offset}]

Release(b, offset) == [b EXCEPT !.allocated = @ \ {offset}]
=============================================================================
