---------------------------- MODULE BitmapProofs ----------------------------
(***************************************************************************)
(* Proofs about the allocation bitmap, for any number of offsets.          *)
(***************************************************************************)
EXTENDS Bitmap, NaturalsInduction, WellFoundedInduction, TLAPS

\* A set of numbers that is not empty has a smallest one, which is where a scan
\* that counts upwards stops.
LEMMA SmallestOf ==
    ASSUME NEW T, T \subseteq Nat, T # {}
    PROVE  \E x \in T : \A y \in T : x <= y
<1> DEFINE R == OpToRel(<, Nat)
<1>1. IsWellFoundedOn(R, Nat) BY NatLessThanWellFounded
<1>2. \A x, y \in Nat : <<y, x>> \in R <=> y < x
  BY DEF OpToRel
<1> HIDE DEF R
<1>3. PICK x \in T : \A y \in T : ~(<<y, x>> \in R)
  BY <1>1, WFMin
<1>4. ASSUME NEW y \in T PROVE x <= y
  <2>1. x \in Nat /\ y \in Nat OBVIOUS
  <2>2. ~(<<y, x>> \in R) BY <1>3
  <2>3. ~(y < x) BY <1>2, <2>1, <2>2, Zenon
  <2> QED BY <2>1, <2>3
<1> QED BY <1>4

\* The scan of AllocateBit finds a free offset of the range unless the bitmap
\* is full.
LEMMA AllocateBitIsFree ==
    ASSUME NEW max \in Nat \ {0}, NEW b, b.nextAlloc \in 0 .. max - 1, ~Full(b, max)
    PROVE  AllocateBit(b, max) \in (0 .. max - 1) \ b.allocated
<1> DEFINE free == (0 .. max - 1) \ b.allocated
           distance(at) == (at - b.nextAlloc) % max
           T == {distance(at) : at \in free}
<1>1. \A at \in free : distance(at) \in Nat
  OBVIOUS
<1>2. T \subseteq Nat /\ T # {}
  <2>1. free # {} BY DEF Full
  <2> HIDE DEF distance, free
  <2> QED BY <1>1, <2>1
<1>3. PICK x \in T : \A y \in T : x <= y
  <2> HIDE DEF T
  <2> QED BY <1>2, SmallestOf
<1>4. \E at \in free : \A other \in free : distance(at) <= distance(other)
  <2> HIDE DEF distance, free
  <2> QED BY <1>3
<1> QED BY <1>4 DEF AllocateBit

\* AllocateNext, Allocate and Release keep a bitmap within its range.
LEMMA BitmapTypes ==
    ASSUME NEW max \in Nat \ {0}, NEW b \in AllocationBitmap(max)
    PROVE  /\ ~Full(b, max) => AllocateNext(b, max) \in AllocationBitmap(max)
           /\ \A offset \in 0 .. max - 1 : Allocate(b, offset) \in AllocationBitmap(max)
           /\ \A offset : Release(b, offset) \in AllocationBitmap(max)
<1>0. b.nextAlloc \in 0 .. max - 1 /\ b.allocated \subseteq 0 .. max - 1
  BY DEF AllocationBitmap
<1>1. ASSUME ~Full(b, max) PROVE AllocateNext(b, max) \in AllocationBitmap(max)
  <2>1. AllocateBit(b, max) \in 0 .. max - 1 BY <1>0, <1>1, AllocateBitIsFree
  <2>2. (AllocateBit(b, max) + 1) % max \in 0 .. max - 1 BY <2>1
  <2> QED BY <1>0, <2>1, <2>2 DEF AllocateNext, AllocationBitmap
<1> QED BY <1>0, <1>1 DEF Allocate, Release, AllocationBitmap

=============================================================================
