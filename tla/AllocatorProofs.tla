-------------------------- MODULE AllocatorProofs ---------------------------
(***************************************************************************)
(* What the allocator of Allocator.tla promises keeps blocks apart, for a  *)
(* section and requests of any size.  HeapProofs.tla has that Heap.tla     *)
(* implements it.                                                          *)
(***************************************************************************)
EXTENDS Allocator, TLAPS

BlockSet == [at : Nat, room : Nat]

(* The inductive invariant: the types, and what NoOverlap says. *)
AllocatorTypeOK ==
  /\ held \in [Slots -> BlockSet \union {Empty}]
  /\ ask \in Requests

AllocatorInv == AllocatorTypeOK /\ NoOverlap

(* The room a request needs is a natural number: alignment only adds.      *)
LEMMA NeededType ==
  ASSUME AllocatorAssumption, NEW n \in Nat
  PROVE  Needed(n) \in Nat
<1>1. Align \in Nat /\ Align > 0
  BY DEF AllocatorAssumption
<1>2. (-n) % Align \in 0 .. Align - 1
  BY <1>1
<1> QED
  BY <1>2 DEF Needed

LEMMA InitInv == AllocatorAssumption /\ Init => AllocatorInv
  BY DEF Init, AllocatorInv, AllocatorTypeOK, NoOverlap

(* What suits slot k is a block apart from all others. *)
LEMMA AllocateKeepsApart ==
  ASSUME AllocatorAssumption, AllocatorInv, NEW k \in Slots, Allocate(k)
  PROVE  AllocatorInv'
<1> DEFINE block == held'[k]
<1>1. /\ block.at \in Nat /\ block.room \in Nat
      /\ block \in BlockSet
  <2>1. ask \in Nat
    BY DEF AllocatorAssumption, AllocatorInv, AllocatorTypeOK
  <2>2. \A r \in Aligned(MinRest - 1) : Needed(ask) + r \in Nat
    BY <2>1, NeededType DEF Aligned
  <2>3. block \in [at : Aligned(Bytes), room : {Needed(ask) + r : r \in Aligned(MinRest - 1)}]
    BY DEF Allocate, Suits
  <2> QED
    BY <2>2, <2>3 DEF Aligned, BlockSet
<1>2. held' = [held EXCEPT ![k] = block] /\ ask' = ask
  BY DEF Allocate
<1>3. AllocatorTypeOK'
  BY <1>1, <1>2 DEF AllocatorInv, AllocatorTypeOK
<1>4. block.at + Header + block.room <= Bytes
  BY DEF Allocate, Suits
<1>5. \A l \in Slots \ {k} :
        /\ held'[l] = held[l]
        /\ held[l] = Empty \/ Disjoint(block, held[l])
  BY <1>2 DEF Allocate, Suits, AllocatorInv, AllocatorTypeOK
<1>6. NoOverlap'
  <2> SUFFICES ASSUME NEW m \in Slots, NEW l \in Slots,
                      held'[m] # Empty, held'[l] # Empty
               PROVE  /\ held'[m].at + Header + held'[m].room <= Bytes
                      /\ m # l => Disjoint(held'[m], held'[l])
    BY DEF NoOverlap
  <2>1. CASE m = k
    BY <2>1, <1>4, <1>5 DEF Disjoint
  <2>2. CASE m # k /\ l = k
    BY <2>2, <1>5 DEF AllocatorInv, NoOverlap, Disjoint
  <2>3. CASE m # k /\ l # k
    BY <2>3, <1>5 DEF AllocatorInv, NoOverlap
  <2> QED
    BY <2>1, <2>2, <2>3
<1> QED
  BY <1>3, <1>6 DEF AllocatorInv

LEMMA FreeKeepsApart ==
  ASSUME AllocatorInv, NEW k \in Slots, Free(k)
  PROVE  AllocatorInv'
<1>1. AllocatorTypeOK'
  BY DEF AllocatorInv, AllocatorTypeOK, Free
<1>2. NoOverlap'
  BY DEF AllocatorInv, AllocatorTypeOK, NoOverlap, Free
<1> QED
  BY <1>1, <1>2 DEF AllocatorInv

(* Whatever is asked for and given back in any order, no byte is in two    *)
(* blocks and every block lies in the section (malloc and free of heap.c). *)
THEOREM BlocksApart ==
  ASSUME AllocatorAssumption
  PROVE  Spec => []NoOverlap
<1>1. Init => AllocatorInv
  BY InitInv
<1>2. AllocatorInv /\ [Next]_vars => AllocatorInv'
  <2> SUFFICES ASSUME AllocatorInv, [Next]_vars
               PROVE  AllocatorInv'
    OBVIOUS
  <2>1. ASSUME NEW k \in Slots, Allocate(k) PROVE AllocatorInv'
    BY <2>1, AllocateKeepsApart
  <2>2. ASSUME NEW k \in Slots, Free(k) PROVE AllocatorInv'
    BY <2>2, FreeKeepsApart
  <2>3. CASE UNCHANGED vars
    BY <2>3 DEF AllocatorInv, AllocatorTypeOK, NoOverlap, vars
  <2> QED
    BY <2>1, <2>2, <2>3 DEF Next
<1>3. AllocatorInv => NoOverlap
  BY DEF AllocatorInv
<1> QED
  BY <1>1, <1>2, <1>3, PTL DEF Spec

=============================================================================
