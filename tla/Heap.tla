-------------------------------- MODULE Heap --------------------------------
(***************************************************************************)
(* The heap of a process, src/user/heap.c, under the program that uses it, *)
(* malloc_loop() of src/user/user_thread.c.                                *)
(*                                                                         *)
(* Addresses are bytes from HEAP_BASE.  A block is named by the address of *)
(* its header, of three words: ctrl (its size, a multiple of 4, plus two   *)
(* flags), prev_size, and, in a free block, next_free.  Headers are kept   *)
(* in one memory of words, so that those of blocks that were split or      *)
(* merged away stay where they were, and are overwritten, as in the code.  *)
(***************************************************************************)
EXTENDS Integers, Sequences, FiniteSets

CONSTANTS
  MB_HEXA,            \* bytes of the heap section
  PTRS_ARRAY_LENGTH,  \* blocks the program holds
  FirstSize,          \* the size it asks for at first, 0x20
  Sizes,              \* the sizes X*256 + X*16 + X it asks for later
  Warmup,             \* calls of malloc before find_next_free searches, 15
  IntMax,             \* the largest int that counts calls, 2^31 - 1
  CounterWraps        \* does a run last for IntMax calls of malloc?

ASSUME HeapAssumption ==
  /\ MB_HEXA \in Nat /\ MB_HEXA % 4 = 0
  /\ PTRS_ARRAY_LENGTH \in Nat \ {0}
  /\ FirstSize \in Nat \ {0} /\ Sizes \subseteq Nat \ {0}
  /\ Warmup \in Nat /\ IntMax \in Nat /\ IntMax > Warmup
  /\ CounterWraps \in BOOLEAN

VARIABLES
  heap,  \* the memory of the heap, and the globals of heap.c
  ptrs,  \* the blocks the program holds
  i,     \* its index into ptrs
  ask,   \* the size it asks for next
  pc     \* the call it makes next

vars == <<heap, ptrs, i, ask, pc>>

HEAP_BASE == 0
NULL == -1
RB_HEADER_SIZE == 8
FB_HEADER_SIZE == 12
TOP_BLOCK  == 1
FREE_BLOCK == 2

Words == {a \in 0 .. MB_HEXA - 1 : a % 4 = 0}
round_up(n) == IF n % 4 = 0 THEN n ELSE n + 4 - (n % 4)

(* What the program asks for. *)
Requests == Sizes \union {FirstSize}

(* The program fills its array within the warm-up, and there is room for   *)
(* what it holds: a block is up to 8 bytes larger than the request, and    *)
(* below each may lie a free one that is too small.                        *)
ASSUME RoomAssumption ==
  /\ PTRS_ARRAY_LENGTH > Warmup
  /\ \A n \in Requests : PTRS_ARRAY_LENGTH * (2 * round_up(n) + 24) <= MB_HEXA

-----------------------------------------------------------------------------
(* Headers.  A store outside the section is only noted. *)

Stored(h, a, v) ==
  IF a \in Words THEN [h EXCEPT !.mem[a] = v] ELSE [h EXCEPT !.strayed = TRUE]

Ctrl(h, b) == h.mem[b]
Size(h, b) == Ctrl(h, b) - (Ctrl(h, b) % 4)
IsTop(h, b)  == Ctrl(h, b) % 2 = 1
IsFree(h, b) == (Ctrl(h, b) \div 2) % 2 = 1
PrevSize(h, b) == h.mem[b + 4]
NextFree(h, b) == h.mem[b + 8]

SetCtrl(h, b, size, flags) == Stored(h, b, size + flags)
SetPrevSize(h, b, v) == Stored(h, b + 4, v)
SetNextFree(h, b, v) ==
  IF b = NULL THEN [h EXCEPT !.strayed = TRUE] ELSE Stored(h, b + 8, v)

TopFlag(h, b) == IF IsTop(h, b) THEN TOP_BLOCK ELSE 0

(* The neighbours of a block, as its header has them. *)
Above(h, b) == b + Size(h, b) + RB_HEADER_SIZE
Below(h, b) == b - PrevSize(h, b) - RB_HEADER_SIZE

(* The addresses that a loop visits from a on, up to the one where it      *)
(* stays: each loop goes up or down, and ends within the section.          *)
Trail(next, a) ==
  LET from[k \in Nat] ==
        [x \in DOMAIN next |->
           IF k = 0 \/ next[x] = x THEN <<x>> ELSE <<x>> \o from[k-1][next[x]]]
  IN  from[MB_HEXA][a]

(* Where it ends. *)
End(next, a) == LET trail == Trail(next, a) IN trail[Len(trail)]

(* From header to header, up to a free block, or down to one. *)
ToFree(h) == [a \in Words |-> IF IsFree(h, a) THEN a ELSE Above(h, a)]

DownToFree(h) ==
  [a \in Words \union {NULL} |->
     IF a = NULL \/ IsFree(h, a) THEN a
     ELSE IF Below(h, a) \in HEAP_BASE .. HEAP_BASE + MB_HEXA THEN Below(h, a)
     ELSE NULL]

(* The next free block above b, or NULL for the top block.  In the first   *)
(* calls it is the next block, free or not.                                *)
find_next_free(h, b) ==
  IF IsTop(h, b) THEN NULL
  ELSE IF h.counter > Warmup THEN End(ToFree(h), Above(h, b))
  ELSE Above(h, b)

(* The next free block downwards, b included, or NULL. *)
find_prev_free(h, b) ==
  IF b < HEAP_BASE THEN NULL ELSE End(DownToFree(h), b)

(* Mutants of update_first_free_block: it looks down from the lowest       *)
(* block; it is not called.                                                *)
UpdateDownwards(h) == [h EXCEPT !.first_free_block = find_prev_free(h, HEAP_BASE)]

UpdateForgotten(h) == h

(* The lowest free block, or else the top one. *)
update_first_free_block(h) ==
  LET next == [a \in Words |-> IF IsTop(h, a) THEN a ELSE ToFree(h)[a]]
  IN  [h EXCEPT !.first_free_block = End(next, HEAP_BASE)]

(* prev->next_free = find_next_free(prev), if there is a prev. *)
Relinked(h, prev) ==
  IF prev = NULL THEN h ELSE SetNextFree(h, prev, find_next_free(h, prev))

-----------------------------------------------------------------------------
(* malloc *)

(* The first call lays out two blocks.  The top one counts its own header  *)
(* as space.                                                               *)
FirstMalloc(h, n) ==
  LET top == HEAP_BASE + n + RB_HEADER_SIZE
      h1 == SetPrevSize(SetCtrl(h, HEAP_BASE, n, 0), HEAP_BASE, 0)
      h2 == SetCtrl(h1, top, MB_HEXA - n - RB_HEADER_SIZE, FREE_BLOCK + TOP_BLOCK)
  IN [SetNextFree(SetPrevSize(h2, top, n), top, NULL)
        EXCEPT !.first_free_block = top, !.heap_initialized = TRUE]

(* Mutant of Fitting: the first free block will do. *)
FittingFirst(h, n) == h.first_free_block

(* The first free block that n bytes fit into, or NULL. *)
Fitting(h, n) ==
  LET next == [a \in Words \union {NULL} |->
                 IF a = NULL \/ n <= Size(h, a) THEN a
                 ELSE IF IsTop(h, a) THEN NULL
                 ELSE NextFree(h, a)]
  IN  End(next, h.first_free_block)

(* Mutants of Split: the rest is not marked free; the block above the rest *)
(* is not told.                                                            *)
SplitReserves(h, b, n) ==
  LET above == b + n + RB_HEADER_SIZE
      size  == Size(h, b) - n - RB_HEADER_SIZE
      h1 == SetCtrl(h, above, size, TopFlag(h, b))
      h2 == SetPrevSize(h1, above, n)
      h3 == SetPrevSize(h2, above + size + RB_HEADER_SIZE, size)
  IN  SetNextFree(h3, above, NULL)

SplitUntold(h, b, n) ==
  LET above == b + n + RB_HEADER_SIZE
      size  == Size(h, b) - n - RB_HEADER_SIZE
      h1 == SetCtrl(h, above, size, FREE_BLOCK + TopFlag(h, b))
      h2 == SetPrevSize(h1, above, n)
      h4 == SetNextFree(h2, find_prev_free(h2, Below(h, b)), above)
  IN  SetNextFree(h4, above, IF IsTop(h, b) THEN NULL ELSE find_next_free(h4, above))

(* The end of block b becomes a free block of its own. *)
Split(h, b, n) ==
  LET above == b + n + RB_HEADER_SIZE
      size  == Size(h, b) - n - RB_HEADER_SIZE
      h1 == SetCtrl(h, above, size, FREE_BLOCK + TopFlag(h, b))
      h2 == SetPrevSize(h1, above, n)
      h3 == SetPrevSize(h2, above + size + RB_HEADER_SIZE, size)
      h4 == SetNextFree(h3, find_prev_free(h3, Below(h, b)), above)
  IN  SetNextFree(h4, above, IF IsTop(h, b) THEN NULL ELSE find_next_free(h4, above))

(* counter++.  A shorter run stays where the counter means the same.       *)
Counted(c) ==
  IF c < IntMax THEN c + 1 ELSE IF CounterWraps THEN -IntMax - 1 ELSE c

(* Block b is taken for n bytes; less than a header that is left over goes *)
(* with it.                                                                *)
Taken(h, b, n) ==
  LET rest == Size(h, b) - n
      h1 == IF rest >= FB_HEADER_SIZE THEN Split(h, b, n) ELSE h
      h2 == IF IsTop(h, b) /\ rest <= 0 THEN [h1 EXCEPT !.top_block_flag = TRUE] ELSE h1
      h3 == SetCtrl(h2, b, n, 0)
      h4 == IF b = HEAP_BASE THEN h3 ELSE SetPrevSize(h3, b, Size(h3, Below(h, b)))
      h5 == IF rest < FB_HEADER_SIZE
            THEN SetCtrl(h4, b, n + rest, IF h4.top_block_flag THEN TOP_BLOCK ELSE 0)
            ELSE h4
      h6 == Relinked(h5, find_prev_free(h4, b))
  IN  [update_first_free_block(h6) EXCEPT !.counter = Counted(@)]

(* malloc(nbytes): the heap afterwards, and the block that is returned. *)
malloc(h, nbytes) ==
  LET n == round_up(nbytes)
      b == Fitting(h, n)
  IN IF ~h.heap_initialized THEN [heap |-> FirstMalloc(h, n), block |-> HEAP_BASE]
     ELSE IF b = NULL       THEN [heap |-> h, block |-> NULL]
     ELSE                        [heap |-> Taken(h, b, n), block |-> b]

-----------------------------------------------------------------------------
(* free *)

(* check_merge_with_top: the block above, if free, becomes a part of b.    *)
(* The search for the free block below finds b itself.                     *)
MergeWithTop(h, b) ==
  LET next == Above(h, b)
      h1 == SetCtrl(h, b, Size(h, b) + Size(h, next) + RB_HEADER_SIZE,
                    FREE_BLOCK + TopFlag(h, b) + TopFlag(h, next))
      h2 == IF IsTop(h, next)
            THEN SetCtrl([h1 EXCEPT !.first_free_block = b], next, Size(h, next), FREE_BLOCK)
            ELSE h1
      h3 == SetPrevSize(h2, Above(h, next), Size(h2, b))
  IN  IF IsFree(h, next) THEN SetNextFree(h3, find_prev_free(h3, b), b) ELSE h

(* Mutant of MergesWithBottom: the lowest block does not count. *)
MergesAboveLowest(h, b) == Below(h, b) > HEAP_BASE /\ IsFree(h, Below(h, b))

MergesWithBottom(h, b) == Below(h, b) >= HEAP_BASE /\ IsFree(h, Below(h, b))

(* check_merge_with_bottom: b becomes a part of the block below, if free.  *)
MergeWithBottom(h, b) ==
  LET prev == Below(h, b)
      h1 == SetCtrl(h, prev, Size(h, prev) + Size(h, b) + RB_HEADER_SIZE,
                    FREE_BLOCK + TopFlag(h, b))
      h2 == SetCtrl(SetNextFree(h1, b, NULL), b, Size(h, b), FREE_BLOCK)
  IN  IF ~MergesWithBottom(h, b) THEN h
      ELSE IF IsTop(h, b) THEN h2
      ELSE SetPrevSize(h2, Above(h, b), Size(h2, prev))

(* Mutant of Released: the links of the free blocks below are not renewed. *)
ReleasedUnlinked(h, b) ==
  LET marked == SetCtrl(h, b, Size(h, b), FREE_BLOCK + TopFlag(h, b))
      h1 == MergeWithTop(marked, b)
      h2 == MergeWithBottom(h1, b)
      start == IF MergesWithBottom(h1, b) THEN Below(h, b) ELSE b
  IN  update_first_free_block(SetNextFree(h2, b, find_next_free(h2, start)))

(* The reserved block b is given back. *)
Released(h, b) ==
  LET marked == SetCtrl(h, b, Size(h, b), FREE_BLOCK + TopFlag(h, b))
      h1 == MergeWithTop(marked, b)
      h2 == MergeWithBottom(h1, b)
      start == IF MergesWithBottom(h1, b) THEN Below(h, b) ELSE b
      h3 == SetNextFree(h2, b, find_next_free(h2, start))
      h4 == Relinked(h3, find_prev_free(h3, Below(h, b)))
  IN  [update_first_free_block(h4) EXCEPT !.top_block_flag = FALSE]

(* The whole section is one reserved block. *)
ReleasedWhole(h, b) ==
  [SetCtrl(h, b, Size(h, b) + Size(h, Above(h, b)), FREE_BLOCK + TOP_BLOCK)
     EXCEPT !.first_free_block = HEAP_BASE]

free(h, b) ==
  IF b = NULL \/ IsFree(h, b) THEN h
  ELSE IF IsTop(h, b) /\ PrevSize(h, b) = 0 THEN ReleasedWhole(h, b)
  ELSE Released(h, b)

-----------------------------------------------------------------------------
(* malloc_loop().  Which of Sizes is asked for follows from the address    *)
(* freed before, and is left open here.                                    *)

Init ==
  /\ heap = [mem |-> [a \in Words |-> 0], first_free_block |-> HEAP_BASE,
             heap_initialized |-> FALSE, counter |-> 1,
             top_block_flag |-> FALSE, strayed |-> FALSE]
  /\ ptrs = [k \in 0 .. PTRS_ARRAY_LENGTH - 1 |-> NULL]
  /\ i = 0
  /\ ask = FirstSize
  /\ pc = "init_ptrs_array"

Allocates ==
  LET r == malloc(heap, ask) IN
  /\ heap' = r.heap
  /\ ptrs' = [ptrs EXCEPT ![i] = r.block]
  /\ i' = (i + 1) % PTRS_ARRAY_LENGTH

InitPtrs ==
  /\ pc = "init_ptrs_array"
  /\ Allocates
  /\ pc' = IF i' = 0 THEN "free" ELSE pc
  /\ UNCHANGED ask

(* X is at most 0xf: for the largest size the block is freed twice. *)
FreesTwice(size) == \A s \in Sizes : s <= size

Free ==
  /\ pc = "free"
  /\ heap' = free(heap, ptrs[i])
  /\ ask' \in Sizes
  /\ pc' = IF FreesTwice(ask') THEN "free again" ELSE "malloc"
  /\ UNCHANGED <<ptrs, i>>

FreeAgain ==
  /\ pc = "free again"
  /\ heap' = free(heap, ptrs[i])
  /\ pc' = "malloc"
  /\ UNCHANGED <<ptrs, i, ask>>

Malloc ==
  /\ pc = "malloc"
  /\ Allocates
  /\ pc' = "free"
  /\ UNCHANGED ask

Next == InitPtrs \/ Free \/ FreeAgain \/ Malloc

Spec == Init /\ [][Next]_vars

-----------------------------------------------------------------------------

(* What a walk over all headers, from the lowest to the top one, finds.    *)
Walk ==
  LET next == [a \in Words |-> IF IsTop(heap, a) THEN a ELSE Above(heap, a)]
  IN  IF heap.heap_initialized THEN Trail(next, HEAP_BASE) ELSE <<>>

Blocks == {Walk[k] : k \in DOMAIN Walk}
FreeBlocks == {b \in Blocks : IsFree(heap, b)}

(* The list that starts with first_free_block. *)
FreeList ==
  LET next == [a \in Words |-> IF IsTop(heap, a) THEN a ELSE NextFree(heap, a)]
  IN  IF heap.heap_initialized THEN Trail(next, heap.first_free_block) ELSE <<>>

(* The blocks the program may use. *)
Held == {k \in DOMAIN ptrs : ptrs[k] # NULL /\ (k = i => pc = "free")}

(* first_free_block and what the program holds are addresses in the heap,  *)
(* or NULL for a refused request.                                          *)
HeapTypeOK ==
  /\ DOMAIN heap.mem = Words
  /\ heap.first_free_block \in Words
  /\ \A k \in DOMAIN ptrs : ptrs[k] \in Words \union {NULL}

(* The blocks tile the section: each header agrees with its neighbours on  *)
(* the sizes, and the top block ends where the section does, but for the   *)
(* header that FirstMalloc counted as space.                               *)
Tiled ==
  \A k \in DOMAIN Walk :
    /\ PrevSize(heap, Walk[k]) = IF k = 1 THEN 0 ELSE Size(heap, Walk[k-1])
    /\ k = Len(Walk) => Above(heap, Walk[k]) = MB_HEXA + RB_HEADER_SIZE

(* No block is given out twice, none that is held is taken as free, and    *)
(* none is lost: the reserved blocks are those the program holds.          *)
ReservedIsHeld ==
  /\ \A k, l \in Held : ptrs[k] = ptrs[l] => k = l
  /\ Blocks \ FreeBlocks = {ptrs[k] : k \in Held}

(* The search for a free block above another (heap.c:95) and the one for   *)
(* the first free block end at the top block at the latest: under the      *)
(* program's requests it is never given out.                               *)
TopStaysFree == heap.heap_initialized => IsFree(heap, Walk[Len(Walk)])

(* The free list has all the free blocks, and only these, from the lowest  *)
(* to the highest: a request is refused only when no block has the room.   *)
FreeListComplete ==
  /\ {FreeList[k] : k \in DOMAIN FreeList} = FreeBlocks
  /\ \A k \in 2 .. Len(FreeList) : FreeList[k-1] < FreeList[k]

(* Two free blocks never lie side by side: what was freed can be given out *)
(* in one piece.                                                           *)
Coalesced ==
  \A k \in 2 .. Len(Walk) : ~(IsFree(heap, Walk[k-1]) /\ IsFree(heap, Walk[k]))

(* malloc and free are the allocator of Allocator.tla: whatever was split  *)
(* and merged before, a block overlaps no other and keeps the room asked   *)
(* for, with less than a header to spare, and the program gets every block *)
(* it asks for.  The section given out is one header longer than MB_HEXA   *)
(* (see Tiled).                                                            *)
Promise == INSTANCE Allocator WITH
  Bytes <- MB_HEXA + RB_HEADER_SIZE, Header <- RB_HEADER_SIZE, Align <- 4,
  MinRest <- FB_HEADER_SIZE, Slots <- 0 .. PTRS_ARRAY_LENGTH - 1,
  Requests <- Requests,
  held <- [k \in DOMAIN ptrs |->
             IF k \in Held THEN [at |-> ptrs[k], room |-> Size(heap, ptrs[k])]
             ELSE [at |-> -1, room |-> -1]]
ImplementsAllocator == Promise!Spec

ASSUME PromiseAssumption == Promise!AllocatorAssumption

(* What of a state the program and the properties read: of the memory, the *)
(* headers of the blocks there are, and the one that is freed twice.  TLC  *)
(* takes two states that differ in nothing else for one.                   *)
Live ==
  UNION {{b, b + 4} : b \in Blocks} \union {b + 8 : b \in FreeBlocks}
    \union (IF pc = "free again" THEN {ptrs[i]} ELSE {})

ReadView == <<[heap EXCEPT !.mem = [a \in Live \ {NULL} |-> heap.mem[a]]], ptrs, i, ask, pc>>

-----------------------------------------------------------------------------
(* What heap.h says and the code does not keep. *)

(* malloc "allocates memory in heap" (heap.h:32): it writes in the section *)
(* of the heap and nowhere else.                                           *)
StaysInHeap == ~heap.strayed

=============================================================================
