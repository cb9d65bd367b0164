----------------------------- MODULE Allocator ------------------------------
(***************************************************************************)
(* What malloc and free of src/user/heap.c promise to a program that keeps *)
(* blocks in slots and asks for a block whenever a slot is empty: it gets  *)
(* one.  A block lies behind its header, in the section, and no two        *)
(* overlap; it has room for what was asked, and the rest is too small to   *)
(* be a block of its own.                                                  *)
(***************************************************************************)
EXTENDS Integers

CONSTANTS
  Bytes,     \* size of the section
  Header,    \* bytes in front of a block
  Align,     \* addresses and rooms are multiples of it
  MinRest,   \* the least rest that becomes a block
  Slots,
  Requests   \* sizes that can be asked for

(* What the constants of an instance have to be. *)
AllocatorAssumption ==
  /\ Bytes \in Nat /\ Header \in Nat
  /\ Align \in Nat \ {0} /\ MinRest \in Nat \ {0}
  /\ Requests \subseteq Nat

VARIABLES
  held,  \* of each slot, the block in it, or Empty
  ask    \* the size asked for next

vars == <<held, ask>>

Empty == [at |-> -1, room |-> -1]

Aligned(n) == {k \in 0 .. n : k % Align = 0}

(* The least room for n bytes. *)
Needed(n) == n + ((-n) % Align)

(* Two blocks, headers included. *)
Disjoint(a, b) ==
  \/ a.at + Header + a.room <= b.at
  \/ b.at + Header + b.room <= a.at

(* A block that can be given out for slot k. *)
Suits(block, k) ==
  /\ block \in [at : Aligned(Bytes), room : {Needed(ask) + r : r \in Aligned(MinRest - 1)}]
  /\ block.at + Header + block.room <= Bytes
  /\ \A l \in Slots \ {k} : held[l] = Empty \/ Disjoint(block, held[l])

Init ==
  /\ held = [k \in Slots |-> Empty]
  /\ ask \in Requests

Allocate(k) ==
  /\ held[k] = Empty
  /\ held' = [held EXCEPT ![k] = held'[k]]
  /\ Suits(held'[k], k)
  /\ UNCHANGED ask

Free(k) ==
  /\ held[k] # Empty
  /\ held' = [held EXCEPT ![k] = Empty]
  /\ ask' \in Requests

Next == \E k \in Slots : Allocate(k) \/ Free(k)

Spec == Init /\ [][Next]_vars

(* No byte is in two blocks, and each block is in the section. *)
NoOverlap ==
  \A k, l \in Slots : held[k] # Empty /\ held[l] # Empty =>
    /\ held[k].at + Header + held[k].room <= Bytes
    /\ k # l => Disjoint(held[k], held[l])

=============================================================================
