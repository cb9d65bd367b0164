----------------------------- MODULE HeapProofs -----------------------------
(***************************************************************************)
(* Theorems on the heap, for a section, an array and requests of any size, *)
(* as long as the section has room for what the array holds                *)
(* (RoomAssumption) and the counter of find_next_free has not wrapped      *)
(* (~CounterWraps): blocks tile the section, the free list has every free  *)
(* block, and malloc and free are those that Allocator.tla promises.       *)
(***************************************************************************)
EXTENDS Heap, FiniteSetTheorems, SequenceTheorems, WellFoundedInduction, TLAPS

-----------------------------------------------------------------------------
(* Induction over natural numbers, by sets of them. *)

Less == {pair \in Nat \X Nat : pair[1] < pair[2]}

(* A set of naturals has a least member.                                   *)
LEMMA LeastNumber ==
  ASSUME NEW T \in SUBSET Nat, T # {}
  PROVE  \E x \in T : \A y \in T : x <= y
<1>1. IsWellFoundedOn(Less, Nat)
  BY NatLessThanWellFounded DEF OpToRel, Less
<1>2. PICK x \in T : \A y \in T : ~ (<<y, x>> \in Less)
  BY <1>1, WFMin
<1>3. ASSUME NEW y \in T PROVE x <= y
  <2>1. <<y, x>> \in Less <=> y < x
    BY DEF Less
  <2> QED
    BY <1>2, <2>1
<1> QED
  BY <1>3

LEMMA FromPrevious ==
  ASSUME NEW S, 0 \in S, \A n \in Nat : n \in S => n + 1 \in S
  PROVE  Nat \subseteq S
<1> SUFFICES ASSUME Nat \ S # {} PROVE FALSE
  OBVIOUS
<1>1. PICK n \in Nat \ S : \A m \in Nat \ S : n <= m
  BY LeastNumber
<1>2. n - 1 \in Nat /\ n - 1 \in S
  BY <1>1
<1> QED
  BY <1>2

-----------------------------------------------------------------------------
(* Trails. *)

(* What a trail of k more steps is, if those of k - 1 steps are g.         *)
TrailStep(g, k, next) ==
  [x \in DOMAIN next |-> IF k = 0 \/ next[x] = x THEN <<x>> ELSE <<x>> \o g[next[x]]]

IsTrails(f, next) == f = [k \in Nat |-> TrailStep(f[k-1], k, next)]

StartsTrails(f, next, n) == \A k \in 0 .. n : f[k] = TrailStep(f[k-1], k, next)

(* The first step does not depend on one before.                           *)
LEMMA TrailStart ==
  ASSUME NEW g, NEW next
  PROVE  TrailStep(g, 0, next) = [x \in DOMAIN next |-> <<x>>]
  BY DEF TrailStep

LEMMA SameTrails ==
  ASSUME NEW f, NEW g, NEW next, NEW n \in Nat,
         StartsTrails(f, next, n), StartsTrails(g, next, n)
  PROVE  \A k \in 0 .. n : f[k] = g[k]
<1> DEFINE S == {k \in Nat : k <= n => f[k] = g[k]}
<1>1. 0 \in S
  BY TrailStart DEF StartsTrails
<1>2. ASSUME NEW k \in Nat, k \in S PROVE k + 1 \in S
  <2>1. CASE k + 1 <= n
    <3>1. k + 1 \in 0 .. n /\ k = (k + 1) - 1 /\ f[k] = g[k]
      BY <1>2, <2>1
    <3>2. f[k + 1] = TrailStep(f[k], k + 1, next) /\ g[k + 1] = TrailStep(g[k], k + 1, next)
      BY <3>1 DEF StartsTrails
    <3> QED
      BY <3>1, <3>2
  <2> QED
    BY <2>1
<1> HIDE DEF S
<1>3. Nat \subseteq S
  BY <1>1, <1>2, FromPrevious
<1> QED
  BY <1>3 DEF S

LEMMA TrailsStart ==
  ASSUME NEW next, NEW n \in Nat
  PROVE  \E f : StartsTrails(f, next, n)
<1> DEFINE S == {k \in Nat : \E f : StartsTrails(f, next, k)}
<1>1. 0 \in S
  <2>1. StartsTrails([k \in Nat |-> [x \in DOMAIN next |-> <<x>>]], next, 0)
    BY TrailStart DEF StartsTrails
  <2> QED
    BY <2>1
<1>2. ASSUME NEW k \in Nat, k \in S PROVE k + 1 \in S
  <2>1. PICK f : StartsTrails(f, next, k)
    BY <1>2
  <2> DEFINE g == [j \in Nat |-> IF j <= k THEN f[j] ELSE TrailStep(f[k], k + 1, next)]
  <2>2. ASSUME NEW j \in 0 .. k + 1 PROVE g[j] = TrailStep(g[j - 1], j, next)
    <3>1. CASE j = 0
      <4>1. g[0] = f[0] /\ f[0] = TrailStep(f[0 - 1], 0, next)
        BY <2>1 DEF StartsTrails
      <4> QED
        BY <3>1, <4>1, TrailStart
    <3>2. CASE j \in 1 .. k
      <4>1. /\ g[j] = f[j] /\ g[j - 1] = f[j - 1]
            /\ f[j] = TrailStep(f[j - 1], j, next)
        BY <2>1, <3>2 DEF StartsTrails
      <4> QED
        BY <4>1
    <3>3. CASE j = k + 1
      BY <3>3
    <3> QED
      BY <3>1, <3>2, <3>3
  <2>3. StartsTrails(g, next, k + 1)
    BY <2>2 DEF StartsTrails
  <2> QED
    BY <2>3
<1> HIDE DEF S
<1>3. Nat \subseteq S
  BY <1>1, <1>2, FromPrevious
<1> QED
  BY <1>3 DEF S

(* The recursion that Trail is defined by has a solution.                  *)
LEMMA TrailsExist ==
  ASSUME NEW next
  PROVE  \E f : IsTrails(f, next)
<1> DEFINE G(n) == CHOOSE f : StartsTrails(f, next, n)
           f == [n \in Nat |-> G(n)[n]]
<1>1. \A n \in Nat : StartsTrails(G(n), next, n)
  BY TrailsStart
<1>2. ASSUME NEW n \in Nat PROVE f[n] = TrailStep(f[n - 1], n, next)
  <2>1. CASE n = 0
    <3>1. G(0)[0] = TrailStep(G(0)[0 - 1], 0, next)
      BY <1>1 DEF StartsTrails
    <3> QED
      BY <2>1, <3>1, TrailStart
  <2>2. CASE n # 0
    <3>1. n - 1 \in Nat /\ n \in 0 .. n /\ n - 1 \in 0 .. n - 1
      BY <2>2
    <3>2. StartsTrails(G(n), next, n - 1) /\ StartsTrails(G(n - 1), next, n - 1)
      BY <1>1, <3>1 DEF StartsTrails
    <3> HIDE DEF G
    <3>3. G(n)[n - 1] = G(n - 1)[n - 1]
      BY <3>1, <3>2, SameTrails
    <3>4. G(n)[n] = TrailStep(G(n)[n - 1], n, next)
      BY <1>1, <3>1 DEF StartsTrails
    <3> QED
      BY <3>1, <3>3, <3>4
  <2> QED
    BY <2>1, <2>2
<1>3. f = [n \in Nat |-> TrailStep(f[n - 1], n, next)]
  <2> HIDE DEF G
  <2>1. f = [n \in Nat |-> f[n]]
    OBVIOUS
  <2> HIDE DEF f
  <2> QED
    BY <1>2, <2>1
<1>4. IsTrails(f, next)
  BY <1>3 DEF IsTrails
<1> QED
  BY <1>4

(* Each address of a trail but the last is left for the next one.          *)
IsTrail(t, next, J, a) ==
  /\ t \in Seq(J) /\ Len(t) >= 1
  /\ t[1] = a
  /\ \A j \in 1 .. Len(t) - 1 : t[j + 1] = next[t[j]] /\ next[t[j]] # t[j]
  /\ next[t[Len(t)]] = t[Len(t)]

(* A loop ends that stays within J while a measure of its address falls.   *)
Falls(next, J, m) ==
  /\ J \subseteq DOMAIN next
  /\ \A x \in J : next[x] # x => next[x] \in J /\ m[next[x]] < m[x]

LEMMA TrailLonger ==
  ASSUME NEW next, NEW J, NEW x \in J, next[x] \in J, next[x] # x,
         NEW s, IsTrail(s, next, J, next[x])
  PROVE  IsTrail(<<x>> \o s, next, J, x)
<1> DEFINE t == <<x>> \o s
<1>1. s \in Seq(J) /\ Len(s) \in Nat /\ Len(s) >= 1 /\ s[1] = next[x]
  BY DEF IsTrail
<1>2. <<x>> \in Seq(J) /\ Len(<<x>>) = 1 /\ <<x>>[1] = x
  OBVIOUS
<1>3. /\ t \in Seq(J) /\ Len(t) = Len(s) + 1 /\ t[1] = x
      /\ \A j \in 2 .. Len(s) + 1 : t[j] = s[j - 1]
  BY <1>1, <1>2, ConcatProperties
<1> HIDE DEF t
<1>4. ASSUME NEW j \in 1 .. Len(t) - 1
      PROVE  t[j + 1] = next[t[j]] /\ next[t[j]] # t[j]
  <2>1. CASE j = 1
    BY <1>1, <1>3, <2>1
  <2>2. CASE j # 1
    <3>1. j - 1 \in 1 .. Len(s) - 1 /\ (j - 1) + 1 = j
      BY <1>1, <1>3, <2>2
    <3>2. t[j + 1] = s[j] /\ t[j] = s[j - 1]
      BY <1>1, <1>3, <2>2
    <3>3. s[j] = next[s[j - 1]] /\ next[s[j - 1]] # s[j - 1]
      BY <3>1 DEF IsTrail
    <3> QED
      BY <3>2, <3>3
  <2> QED
    BY <2>1, <2>2
<1>5. next[t[Len(t)]] = t[Len(t)]
  BY <1>1, <1>3 DEF IsTrail
<1>6. IsTrail(t, next, J, x)
  BY <1>1, <1>3, <1>4, <1>5 DEF IsTrail
<1> QED
  BY <1>6 DEF t

LEMMA TrailDefined ==
  ASSUME NEW next, NEW J, NEW m \in [J -> Nat], Falls(next, J, m),
         NEW a \in J, m[a] <= MB_HEXA
  PROVE  IsTrail(Trail(next, a), next, J, a)
<1> DEFINE f == CHOOSE g : IsTrails(g, next)
<1>1. Trail(next, a) = f[MB_HEXA][a]
  BY Zenon DEF Trail, IsTrails, TrailStep
<1>2. IsTrails(f, next)
  BY TrailsExist
<1> HIDE DEF f
<1>3. ASSUME NEW k \in Nat, NEW x \in J
      PROVE  f[k][x] = IF k = 0 \/ next[x] = x THEN <<x>> ELSE <<x>> \o f[k-1][next[x]]
  <2>1. f[k] = TrailStep(f[k - 1], k, next)
    BY <1>2 DEF IsTrails
  <2>2. x \in DOMAIN next
    BY DEF Falls
  <2> QED
    BY <2>1, <2>2 DEF TrailStep
<1>4. ASSUME NEW x \in J, next[x] = x PROVE IsTrail(<<x>>, next, J, x)
  <2>1. <<x>> \in Seq(J) /\ Len(<<x>>) = 1 /\ <<x>>[1] = x
    OBVIOUS
  <2> QED
    BY <1>4, <2>1 DEF IsTrail
<1> DEFINE S == {k \in Nat : \A x \in J : m[x] <= k => IsTrail(f[k][x], next, J, x)}
<1>5. 0 \in S
  <2> SUFFICES ASSUME NEW x \in J, m[x] <= 0 PROVE IsTrail(f[0][x], next, J, x)
    OBVIOUS
  <2>1. next[x] = x
    BY DEF Falls
  <2> QED
    BY <1>3, <1>4, <2>1
<1>6. ASSUME NEW k \in Nat, k \in S PROVE k + 1 \in S
  <2> SUFFICES ASSUME NEW x \in J, m[x] <= k + 1 PROVE IsTrail(f[k + 1][x], next, J, x)
    OBVIOUS
  <2>0. f[k + 1][x] = IF next[x] = x THEN <<x>> ELSE <<x>> \o f[k][next[x]]
    <3> DEFINE l == k + 1
    <3>1. l \in Nat /\ l # 0 /\ l - 1 = k
      OBVIOUS
    <3> HIDE DEF l
    <3>2. f[l][x] = IF l = 0 \/ next[x] = x THEN <<x>> ELSE <<x>> \o f[l - 1][next[x]]
      BY <1>3, <3>1
    <3>3. f[l][x] = IF next[x] = x THEN <<x>> ELSE <<x>> \o f[k][next[x]]
      BY <3>1, <3>2
    <3> QED
      BY <3>3 DEF l
  <2>1. CASE next[x] = x
    BY <1>4, <2>0, <2>1
  <2>2. CASE next[x] # x
    <3>1. next[x] \in J /\ m[next[x]] < m[x]
      BY <2>2 DEF Falls
    <3>2. m[next[x]] <= k
      BY <3>1
    <3>3. IsTrail(f[k][next[x]], next, J, next[x])
      BY <1>6, <3>1, <3>2
    <3>4. f[k + 1][x] = <<x>> \o f[k][next[x]]
      BY <2>0, <2>2
    <3> QED
      BY <2>2, <3>1, <3>3, <3>4, TrailLonger
  <2> QED
    BY <2>1, <2>2
<1> HIDE DEF S
<1>7. MB_HEXA \in S
  BY <1>5, <1>6, FromPrevious, HeapAssumption
<1> QED
  BY <1>1, <1>7 DEF S

(* The loop ends at an address of J where it stays.                        *)
LEMMA EndDefined ==
  ASSUME NEW next, NEW J, NEW m \in [J -> Nat], Falls(next, J, m),
         NEW a \in J, m[a] <= MB_HEXA
  PROVE  End(next, a) \in J /\ next[End(next, a)] = End(next, a)
<1>1. IsTrail(Trail(next, a), next, J, a)
  BY TrailDefined
<1> QED
  BY <1>1 DEF End, IsTrail

-----------------------------------------------------------------------------
(* The memory. *)

USE DEF HEAP_BASE, NULL, RB_HEADER_SIZE, FB_HEADER_SIZE, TOP_BLOCK, FREE_BLOCK

Heaps == [mem : [Words -> Int], first_free_block : Int, heap_initialized : BOOLEAN,
          counter : Int, top_block_flag : BOOLEAN, strayed : BOOLEAN]

LEMMA WordFacts ==
  ASSUME NEW w \in Words
  PROVE  w \in Int /\ 0 <= w /\ w < MB_HEXA /\ w % 4 = 0
  BY HeapAssumption DEF Words

LEMMA WordFurther ==
  ASSUME NEW w \in Words, NEW s \in Int, s % 4 = 0, 0 <= w + s, w + s < MB_HEXA
  PROVE  w + s \in Words
  BY HeapAssumption DEF Words

(* A store changes one word, or none if the address is not in the heap.    *)
SameGlobals(h, g) ==
  /\ g.first_free_block = h.first_free_block /\ g.heap_initialized = h.heap_initialized
  /\ g.counter = h.counter /\ g.top_block_flag = h.top_block_flag

Writes(h, g, a, v) ==
  /\ g \in Heaps /\ SameGlobals(h, g)
  /\ \A w \in Words : g.mem[w] = IF w = a THEN v ELSE h.mem[w]

LEMMA StoredWrites ==
  ASSUME NEW h \in Heaps, NEW a, NEW v \in Int
  PROVE  Writes(h, Stored(h, a, v), a, v)
<1>1. CASE a \in Words
  <2>1. Stored(h, a, v) = [h EXCEPT !.mem = [h.mem EXCEPT ![a] = v]]
    BY <1>1 DEF Stored, Heaps
  <2>2. [h.mem EXCEPT ![a] = v] \in [Words -> Int]
    BY DEF Heaps
  <2> QED
    BY <2>1, <2>2 DEF Heaps, Writes, SameGlobals
<1>2. CASE a \notin Words
  BY <1>2 DEF Stored, Writes, SameGlobals, Heaps
<1> QED
  BY <1>1, <1>2

LEMMA SetWrites ==
  ASSUME NEW h \in Heaps, NEW b \in Int, NEW v \in Int, NEW f \in 0 .. 3
  PROVE  /\ Writes(h, SetCtrl(h, b, v, f), b, v + f)
         /\ Writes(h, SetPrevSize(h, b, v), b + 4, v)
         /\ Writes(h, SetNextFree(h, b, v), b + 8, v)
<1>1. v + f \in Int
  OBVIOUS
<1>2. ASSUME b = NULL PROVE Writes(h, SetNextFree(h, b, v), b + 8, v)
  <2>1. b + 8 \notin Words
    <3> SUFFICES ASSUME 7 \in Words PROVE FALSE
      BY <1>2
    <3> QED
      BY WordFacts
  <2> QED
    BY <1>2, <2>1 DEF SetNextFree, Writes, SameGlobals, Heaps
<1> QED
  BY <1>1, <1>2, StoredWrites DEF SetCtrl, SetPrevSize, SetNextFree

(* What a header says is in its first two words.                           *)
LEMMA SameHeader ==
  ASSUME NEW h, NEW g, NEW b, g.mem[b] = h.mem[b]
  PROVE  /\ Size(g, b) = Size(h, b) /\ Above(g, b) = Above(h, b)
         /\ (IsTop(g, b) <=> IsTop(h, b)) /\ (IsFree(g, b) <=> IsFree(h, b))
  BY DEF Size, Above, IsTop, IsFree, Ctrl

HasHeader(h, b, s, f) == s \in Int /\ s % 4 = 0 /\ f \in 0 .. 3 /\ h.mem[b] = s + f

LEMMA HeaderFields ==
  ASSUME NEW h, NEW b, NEW s, NEW f, HasHeader(h, b, s, f)
  PROVE  /\ Size(h, b) = s
         /\ IsTop(h, b) <=> f \in {1, 3}
         /\ IsFree(h, b) <=> f \in {2, 3}
<1> USE DEF HasHeader
<1>1. PICK q \in Int : s = 4 * q
  OBVIOUS
<1>2. (s + f) % 4 = f /\ (s + f) % 2 = f % 2 /\ (s + f) \div 2 = 2 * q + (f \div 2)
  BY <1>1
<1>3. (2 * q + (f \div 2)) % 2 = (f \div 2) % 2
  OBVIOUS
<1> QED
  BY <1>2, <1>3 DEF Size, IsTop, IsFree, Ctrl

(* A size is a number of words.                                            *)
LEMMA SizeType ==
  ASSUME NEW h \in Heaps, NEW b \in Words
  PROVE  /\ Size(h, b) \in Int /\ Size(h, b) % 4 = 0
         /\ h.mem[b] \in Int
         /\ \E f \in 0 .. 3 : h.mem[b] = Size(h, b) + f
         /\ TopFlag(h, b) \in 0 .. 1
<1>1. h.mem[b] \in Int
  BY DEF Heaps
<1>2. \A c \in Int : c - (c % 4) \in Int /\ (c - (c % 4)) % 4 = 0 /\ c % 4 \in 0 .. 3
  OBVIOUS
<1> QED
  BY <1>1, <1>2 DEF Size, Ctrl, TopFlag

-----------------------------------------------------------------------------
(* Walks over headers, in any part C of the heap where they lead from one  *)
(* header to the next.                                                     *)

(* x is the least member of F above b, or NULL.                            *)
Follows(F, b, x) ==
  IF \E c \in F : c > b
  THEN x \in F /\ x > b /\ \A c \in F : c > b => x <= c
  ELSE x = NULL

(* x is the greatest member of F up to b, or NULL.                         *)
Precedes(F, b, x) ==
  IF \E c \in F : c <= b
  THEN x \in F /\ x <= b /\ \A c \in F : c <= b => c <= x
  ELSE x = NULL

LeadsUp(h, C) ==
  \A c \in C : ~IsFree(h, c) =>
    /\ Above(h, c) \in C /\ Above(h, c) > c
    /\ \A d \in C : d > c => d >= Above(h, c)

LeadsDown(h, C) ==
  \A c \in C : ~IsFree(h, c) =>
    \/ /\ Below(h, c) < HEAP_BASE
       /\ \A d \in C : d >= c
    \/ /\ Below(h, c) \in C /\ Below(h, c) < c
       /\ \A d \in C : d < c => d <= Below(h, c)

LEMMA WalkUp ==
  ASSUME NEW h \in Heaps, NEW C \in SUBSET Words, LeadsUp(h, C), NEW a \in C
  PROVE  LET x == End(ToFree(h), a)
         IN  /\ x \in C /\ IsFree(h, x) /\ x >= a
             /\ \A d \in C : IsFree(h, d) /\ d >= a => x <= d
<1> DEFINE J == {c \in C : c >= a /\ \A d \in C : IsFree(h, d) /\ d >= a => c <= d}
           m == [c \in J |-> MB_HEXA - c]
           next == ToFree(h)
<1>1. \A c \in C : c \in Int /\ 0 <= c /\ c < MB_HEXA /\ MB_HEXA - c \in Nat
  BY WordFacts, HeapAssumption
<1>2. m \in [J -> Nat]
  BY <1>1
<1>3. ASSUME NEW c \in J, next[c] # c
      PROVE  next[c] \in J /\ m[next[c]] < m[c]
  <2>1. c \in C /\ c \in Words /\ c >= a
    OBVIOUS
  <2>2. ~IsFree(h, c) /\ next[c] = Above(h, c)
    BY <1>3, <2>1 DEF ToFree
  <2>3. /\ Above(h, c) \in C /\ Above(h, c) > c
        /\ \A d \in C : d > c => d >= Above(h, c)
    BY <2>1, <2>2 DEF LeadsUp
  <2>4. ASSUME NEW d \in C, IsFree(h, d), d >= a PROVE Above(h, c) <= d
    <3>1. c <= d /\ c # d
      BY <2>2, <2>4
    <3> QED
      BY <1>1, <2>3, <3>1
  <2>5. Above(h, c) \in J
    BY <1>1, <2>1, <2>3, <2>4
  <2> QED
    BY <1>1, <2>2, <2>3, <2>5, HeapAssumption
<1>4. Falls(next, J, m)
  <2>1. J \subseteq DOMAIN next
    BY DEF ToFree
  <2> HIDE DEF J, m, next
  <2> QED
    BY <1>3, <2>1 DEF Falls
<1>5. a \in J /\ m[a] <= MB_HEXA
  BY <1>1, HeapAssumption
<1>6. End(next, a) \in J /\ next[End(next, a)] = End(next, a)
  <2> HIDE DEF J, m, next
  <2> QED
    BY <1>2, <1>4, <1>5, EndDefined
<1>7. ASSUME NEW x \in J, next[x] = x PROVE IsFree(h, x)
  <2>1. x \in Words /\ x \in C /\ x \in Int
    BY <1>1
  <2> SUFFICES ASSUME ~IsFree(h, x) PROVE FALSE
    OBVIOUS
  <2>2. Above(h, x) = x /\ Above(h, x) > x
    BY <1>7, <2>1 DEF ToFree, LeadsUp
  <2> QED
    BY <2>1, <2>2
<1> QED
  BY <1>6, <1>7

LEMMA WalkDown ==
  ASSUME NEW h \in Heaps, NEW C \in SUBSET Words, LeadsDown(h, C),
         NEW a \in Int, a \in C \/ a < HEAP_BASE
  PROVE  Precedes({c \in C : IsFree(h, c)}, a, find_prev_free(h, a))
<1>1. \A c \in C : c \in Int /\ 0 <= c /\ c < MB_HEXA /\ c + 1 \in Nat /\ c + 1 <= MB_HEXA
  BY WordFacts, HeapAssumption
<1>2. CASE a < HEAP_BASE
  BY <1>1, <1>2 DEF find_prev_free, Precedes
<1>3. CASE a >= HEAP_BASE
  <2> DEFINE F == {c \in C : IsFree(h, c)}
             None == ~ \E d \in F : d <= a
             J == {c \in C \union {NULL} :
                     IF c = NULL THEN None ELSE c <= a /\ \A d \in F : d <= a => d <= c}
             m == [c \in J |-> c + 1]
             next == DownToFree(h)
  <2>1. a \in C
    BY <1>3
  <2>2. m \in [J -> Nat]
    BY <1>1
  <2>3. ASSUME NEW c \in J, next[c] # c
        PROVE  next[c] \in J /\ m[next[c]] < m[c]
    <3>1. c \in Words \union {NULL}
      OBVIOUS
    <3>2. c # NULL /\ ~IsFree(h, c)
      BY <2>3, <3>1 DEF DownToFree
    <3>3. c \in C /\ c \in Words /\ c <= a /\ \A d \in F : d <= a => d <= c
      BY <3>2
    <3>4. next[c] = IF Below(h, c) \in HEAP_BASE .. HEAP_BASE + MB_HEXA THEN Below(h, c) ELSE NULL
      BY <3>1, <3>2 DEF DownToFree
    <3>5. CASE Below(h, c) < HEAP_BASE /\ \A d \in C : d >= c
      <4>1. next[c] = NULL
        BY <3>4, <3>5
      <4>2. None
        <5> SUFFICES ASSUME NEW d \in F, d <= a PROVE FALSE
          OBVIOUS
        <5>1. d <= c /\ d >= c /\ d # c
          BY <3>2, <3>3, <3>5
        <5> QED
          BY <1>1, <3>3, <5>1
      <4> QED
        BY <1>1, <3>3, <4>1, <4>2
    <3>6. CASE Below(h, c) \in C /\ Below(h, c) < c /\ \A d \in C : d < c => d <= Below(h, c)
      <4> DEFINE y == Below(h, c)
      <4>0. y \in C /\ y \in Int /\ 0 <= y /\ y < MB_HEXA /\ y < c /\ c \in Int /\ MB_HEXA \in Int
        BY <1>1, <3>3, <3>6, HeapAssumption
      <4> HIDE DEF y
      <4>1. next[c] = y
        <5>1. y \in HEAP_BASE .. HEAP_BASE + MB_HEXA
          BY <4>0
        <5> QED
          BY <3>4, <5>1 DEF y
      <4>2. ASSUME NEW d \in F, d <= a PROVE d <= y
        <5>1. d \in C /\ d <= c /\ d # c
          BY <3>2, <3>3, <4>2
        <5> QED
          BY <1>1, <3>3, <3>6, <5>1 DEF y
      <4>3. y \in J
        <5>1. y <= a /\ y # NULL
          BY <4>0, <3>3, <1>3
        <5> QED
          BY <4>0, <4>2, <5>1
      <4>4. m[y] = y + 1 /\ m[c] = c + 1
        BY <4>3
      <4> QED
        BY <4>0, <4>1, <4>3, <4>4
    <3> QED
      BY <3>2, <3>3, <3>5, <3>6 DEF LeadsDown
  <2>4. Falls(next, J, m)
    <3>1. J \subseteq DOMAIN next
      BY DEF DownToFree
    <3> HIDE DEF J, m, next
    <3> QED
      BY <2>3, <3>1 DEF Falls
  <2>5. a \in J /\ m[a] <= MB_HEXA
    BY <1>1, <2>1
  <2> DEFINE x == End(next, a)
  <2>6. x \in J /\ next[x] = x
    <3> HIDE DEF J, m, next
    <3> QED
      BY <2>2, <2>4, <2>5, EndDefined
  <2>7. find_prev_free(h, a) = x
    BY <1>3 DEF find_prev_free
  <2> HIDE DEF x
  <2>8. CASE x = NULL
    BY <2>6, <2>7, <2>8 DEF Precedes
  <2>9. CASE x # NULL
    <3>1. x \in C /\ x \in Words /\ x <= a /\ \A d \in F : d <= a => d <= x
      BY <2>6, <2>9
    <3>2. IsFree(h, x)
      <4> SUFFICES ASSUME ~IsFree(h, x) PROVE FALSE
        OBVIOUS
      <4>1. next[x] = IF Below(h, x) \in HEAP_BASE .. HEAP_BASE + MB_HEXA THEN Below(h, x) ELSE NULL
        BY <2>9, <3>1 DEF DownToFree
      <4>2. Below(h, x) < HEAP_BASE \/ Below(h, x) < x
        BY <3>1 DEF LeadsDown
      <4> QED
        BY <1>1, <2>6, <2>9, <3>1, <4>1, <4>2
    <3> QED
      BY <2>7, <3>1, <3>2 DEF Precedes
  <2> QED
    BY <2>8, <2>9
<1> QED
  BY <1>2, <1>3

-----------------------------------------------------------------------------
(* Blocks. *)

TopEnd == MB_HEXA + RB_HEADER_SIZE

(* The blocks B tile the heap: their headers agree with one another, from  *)
(* the lowest block to the top one, and nothing is left between them.      *)
Tiles(h, B) ==
  /\ B \subseteq Words /\ HEAP_BASE \in B /\ PrevSize(h, HEAP_BASE) = 0
  /\ \A b \in B : Size(h, b) >= 4 /\ (IsTop(h, b) => Size(h, b) >= FB_HEADER_SIZE)
  /\ \A b \in B \ {HEAP_BASE} : Below(h, b) \in B /\ Above(h, Below(h, b)) = b
  /\ \A b \in B : IF IsTop(h, b) THEN Above(h, b) = TopEnd ELSE Above(h, b) \in B
  /\ \A b, c \in B : b < c => Above(h, b) <= c

FreeOf(h, B) == {b \in B : IsFree(h, b)}

TopsFree(h, B) == \A b \in B : IsTop(h, b) => IsFree(h, b)

(* A header and the link behind it lie in the heap. *)
LEMMA BlockFacts ==
  ASSUME NEW h \in Heaps, NEW B, Tiles(h, B), NEW b \in B
  PROVE  /\ b \in Words /\ b \in Int /\ 0 <= b /\ b + 8 < MB_HEXA
         /\ b + 4 \in Words /\ b + 8 \in Words
         /\ Size(h, b) \in Int /\ Size(h, b) % 4 = 0 /\ Size(h, b) >= 4
         /\ Above(h, b) = b + Size(h, b) + 8
         /\ PrevSize(h, b) \in Int /\ Below(h, b) = b - PrevSize(h, b) - 8
<1>1. b \in Words /\ b \in Int /\ 0 <= b /\ b < MB_HEXA /\ MB_HEXA \in Nat
  BY WordFacts, HeapAssumption DEF Tiles
<1>2. Size(h, b) \in Int /\ Size(h, b) % 4 = 0
  BY <1>1, SizeType
<1>3. Size(h, b) >= 4 /\ Above(h, b) = b + Size(h, b) + 8 /\ Below(h, b) = b - PrevSize(h, b) - 8
  BY DEF Tiles, Above, Below
<1>4. b + 8 < MB_HEXA
  <2>1. CASE IsTop(h, b)
    BY <1>1, <1>2, <1>3, <2>1 DEF Tiles, TopEnd
  <2>2. CASE ~IsTop(h, b)
    <3>1. Above(h, b) \in Words
      BY <2>2 DEF Tiles
    <3>2. Above(h, b) < MB_HEXA
      BY <3>1, WordFacts
    <3> QED
      BY <1>1, <1>2, <1>3, <3>2
  <2> QED
    BY <2>1, <2>2
<1>5. b + 4 \in Words /\ b + 8 \in Words
  BY <1>1, <1>4, WordFurther
<1>6. PrevSize(h, b) \in Int
  BY <1>5 DEF PrevSize, Heaps
<1> QED
  BY <1>1, <1>2, <1>3, <1>4, <1>5, <1>6

LEMMA TopIs ==
  ASSUME NEW h \in Heaps, NEW B, Tiles(h, B)
  PROVE  \E t \in B : /\ IsTop(h, t)
                      /\ \A b \in B : b <= t /\ (IsTop(h, b) => b = t)
<1> DEFINE T == {MB_HEXA - b : b \in B}
<1>1. \A b \in B : b \in Int /\ MB_HEXA - b \in Nat /\ MB_HEXA \in Int
  BY BlockFacts, HeapAssumption
<1>2. T \in SUBSET Nat /\ T # {}
  BY <1>1 DEF Tiles
<1>3. PICK x \in T : \A y \in T : x <= y
  BY <1>2, LeastNumber
<1>4. PICK t \in B : x = MB_HEXA - t
  BY <1>3
<1>5. ASSUME NEW b \in B PROVE b <= t
  <2>1. x <= MB_HEXA - b
    BY <1>3
  <2> QED
    BY <1>1, <1>4, <2>1
<1>6. IsTop(h, t)
  <2> SUFFICES ASSUME ~IsTop(h, t) PROVE FALSE
    OBVIOUS
  <2>1. Above(h, t) \in B /\ Above(h, t) > t
    BY BlockFacts DEF Tiles
  <2> QED
    BY <1>1, <1>5, <2>1
<1>7. ASSUME NEW b \in B, IsTop(h, b) PROVE b = t
  <2> SUFFICES ASSUME b < t PROVE FALSE
    BY <1>1, <1>5
  <2>1. Above(h, b) <= t /\ Above(h, b) = MB_HEXA + 8
    BY <1>7 DEF Tiles, TopEnd
  <2>2. t < MB_HEXA
    BY BlockFacts, HeapAssumption
  <2> QED
    BY <1>1, <2>1, <2>2
<1> QED
  BY <1>5, <1>6, <1>7

LEMMA BelowBlock ==
  ASSUME NEW h \in Heaps, NEW B, Tiles(h, B), NEW b \in B, b # HEAP_BASE
  PROVE  /\ Below(h, b) \in B /\ Below(h, b) < b /\ ~IsTop(h, Below(h, b))
         /\ Above(h, Below(h, b)) = b
         /\ \A d \in B : d < b => d <= Below(h, b)
<1> DEFINE c == Below(h, b)
<1>1. c \in B /\ Above(h, c) = b
  BY DEF Tiles
<1> HIDE DEF c
<1>2. c < b
  BY <1>1, BlockFacts
<1>3. ~IsTop(h, c)
  <2> SUFFICES ASSUME IsTop(h, c) PROVE FALSE
    OBVIOUS
  <2>1. b = MB_HEXA + 8
    BY <1>1 DEF Tiles, TopEnd
  <2> QED
    BY <2>1, BlockFacts, HeapAssumption
<1>4. ASSUME NEW d \in B, d < b PROVE d <= c
  <2> SUFFICES ASSUME c < d PROVE FALSE
    BY <1>1, BlockFacts
  <2>1. Above(h, c) <= d
    BY <1>1 DEF Tiles
  <2> QED
    BY <1>1, <1>4, <2>1, BlockFacts
<1> QED
  BY <1>1, <1>2, <1>3, <1>4 DEF c

LEMMA AboveBlock ==
  ASSUME NEW h \in Heaps, NEW B, Tiles(h, B), NEW b \in B, ~IsTop(h, b)
  PROVE  /\ Above(h, b) \in B /\ Above(h, b) > b /\ Above(h, b) # HEAP_BASE
         /\ Below(h, Above(h, b)) = b
         /\ \A d \in B : d > b => d >= Above(h, b)
<1> DEFINE c == Above(h, b)
<1>1. c \in B /\ c > b /\ c # HEAP_BASE
  BY BlockFacts DEF Tiles
<1> HIDE DEF c
<1>2. /\ Below(h, c) \in B /\ Below(h, c) < c /\ Above(h, Below(h, c)) = c
      /\ \A d \in B : d < c => d <= Below(h, c)
  BY <1>1, BelowBlock
<1>3. b <= Below(h, c)
  BY <1>1, <1>2
<1>4. Below(h, c) = b
  <2> SUFFICES ASSUME b < Below(h, c) PROVE FALSE
    BY <1>2, <1>3, BlockFacts
  <2>1. c <= Below(h, c)
    BY <1>2 DEF Tiles, c
  <2> QED
    BY <1>1, <1>2, <2>1, BlockFacts
<1>5. \A d \in B : d > b => d >= c
  BY <1>1, BlockFacts DEF Tiles, c
<1> QED
  BY <1>1, <1>4, <1>5 DEF c

LEMMA TilesLead ==
  ASSUME NEW h \in Heaps, NEW B, Tiles(h, B)
  PROVE  TopsFree(h, B) => LeadsUp(h, B)
<1> SUFFICES ASSUME TopsFree(h, B), NEW c \in B, ~IsFree(h, c)
             PROVE  /\ Above(h, c) \in B /\ Above(h, c) > c
                    /\ \A d \in B : d > c => d >= Above(h, c)
  BY DEF LeadsUp
<1>1. ~IsTop(h, c)
  BY DEF TopsFree
<1> QED
  BY <1>1, AboveBlock

(* The first free block above a block. *)
LEMMA NextFound ==
  ASSUME NEW h \in Heaps, NEW B, Tiles(h, B), TopsFree(h, B), h.counter > Warmup,
         NEW b \in B
  PROVE  Follows(FreeOf(h, B), b, find_next_free(h, b))
<1>1. \A d \in B : d \in Int
  BY BlockFacts
<1>2. PICK t \in B : IsTop(h, t) /\ \A d \in B : d <= t /\ (IsTop(h, d) => d = t)
  BY TopIs
<1>3. CASE IsTop(h, b)
  <2>1. b = t /\ find_next_free(h, b) = NULL
    BY <1>2, <1>3 DEF find_next_free
  <2> QED
    BY <1>1, <1>2, <2>1 DEF Follows, FreeOf
<1>4. CASE ~IsTop(h, b)
  <2> DEFINE a == Above(h, b)
             x == find_next_free(h, b)
  <2>1. a \in B /\ a > b /\ \A d \in B : d > b => d >= a
    BY <1>4, AboveBlock
  <2>2. x = End(ToFree(h), a)
    BY <1>4 DEF find_next_free
  <2>3. B \in SUBSET Words /\ LeadsUp(h, B)
    BY TilesLead DEF Tiles
  <2> HIDE DEF a, x
  <2>4. x \in B /\ IsFree(h, x) /\ x >= a /\ \A d \in B : IsFree(h, d) /\ d >= a => x <= d
    BY <2>1, <2>2, <2>3, WalkUp
  <2>5. Follows(FreeOf(h, B), b, x)
    BY <1>1, <2>1, <2>4 DEF Follows, FreeOf
  <2> QED
    BY <2>5 DEF x
<1> QED
  BY <1>3, <1>4

IsFirst(F, x) == x \in F /\ \A c \in F : x <= c

(* update_first_free_block() finds the lowest free block.                  *)
LEMMA FirstFound ==
  ASSUME NEW h \in Heaps, NEW B, Tiles(h, B), TopsFree(h, B)
  PROVE  \E x : /\ update_first_free_block(h) = [h EXCEPT !.first_free_block = x]
                /\ IsFirst(FreeOf(h, B), x)
<1> DEFINE next == [a \in Words |-> IF IsTop(h, a) THEN a ELSE ToFree(h)[a]]
           F == FreeOf(h, B)
           J == {c \in B : \A d \in F : c <= d}
           m == [c \in J |-> MB_HEXA - c]
           x == End(next, HEAP_BASE)
<1>1. \A c \in B : c \in Words /\ c \in Int /\ 0 <= c /\ MB_HEXA - c \in Nat /\ MB_HEXA \in Int
  BY BlockFacts, HeapAssumption
<1>2. F \subseteq B /\ HEAP_BASE \in B
  BY DEF FreeOf, Tiles
<1>3. m \in [J -> Nat] /\ J \subseteq DOMAIN next
  BY <1>1
<1>4. ASSUME NEW c \in J, next[c] # c PROVE next[c] \in J /\ m[next[c]] < m[c]
  <2>1. c \in B /\ \A d \in F : c <= d
    OBVIOUS
  <2>2. ~IsTop(h, c) /\ ~IsFree(h, c) /\ next[c] = Above(h, c)
    BY <1>1, <1>4, <2>1 DEF ToFree
  <2>3. Above(h, c) \in B /\ Above(h, c) > c /\ \A d \in B : d > c => d >= Above(h, c)
    BY <2>1, <2>2, AboveBlock
  <2>4. \A d \in F : Above(h, c) <= d
    BY <1>1, <1>2, <2>1, <2>2, <2>3 DEF FreeOf
  <2> QED
    BY <1>1, <2>1, <2>2, <2>3, <2>4
<1>5. HEAP_BASE \in J /\ m[HEAP_BASE] <= MB_HEXA
  <2>1. HEAP_BASE \in J
    BY <1>1, <1>2
  <2> QED
    BY <1>1, <1>2, <2>1
<1>6. x \in J /\ next[x] = x
  <2> HIDE DEF J, m, next
  <2>1. Falls(next, J, m)
    BY <1>3, <1>4 DEF Falls
  <2> QED
    BY <1>3, <1>5, <2>1, EndDefined
<1>7. x \in F
  <2> SUFFICES ASSUME ~IsFree(h, x) PROVE FALSE
    BY <1>6 DEF FreeOf
  <2>1. ~IsTop(h, x)
    BY <1>6 DEF TopsFree
  <2>2. next[x] = Above(h, x) /\ Above(h, x) > x
    BY <1>1, <1>6, <2>1, AboveBlock DEF ToFree
  <2> QED
    BY <1>1, <1>6, <2>2
<1>8. update_first_free_block(h) = [h EXCEPT !.first_free_block = x]
  BY DEF update_first_free_block
<1> HIDE DEF x
<1> QED
  BY <1>6, <1>7, <1>8 DEF IsFirst

-----------------------------------------------------------------------------
(* The list of the free blocks. *)

Linked(h, B) ==
  /\ IsFirst(FreeOf(h, B), h.first_free_block)
  /\ \A b \in FreeOf(h, B) : Follows(FreeOf(h, B), b, NextFree(h, b))

(* malloc finds the first block of the list that n bytes fit into.         *)
LEMMA FittingFound ==
  ASSUME NEW h \in Heaps, NEW B, Tiles(h, B), TopsFree(h, B), Linked(h, B),
         NEW n \in Int, \E b \in FreeOf(h, B) : n <= Size(h, b)
  PROVE  IsFirst({b \in FreeOf(h, B) : n <= Size(h, b)}, Fitting(h, n))
<1> DEFINE next == [a \in Words \union {NULL} |->
                      IF a = NULL \/ n <= Size(h, a) THEN a
                      ELSE IF IsTop(h, a) THEN NULL
                      ELSE NextFree(h, a)]
           F == FreeOf(h, B)
           J == {c \in F : \A d \in F : n <= Size(h, d) => c <= d}
           m == [c \in J |-> MB_HEXA - c]
           x == End(next, h.first_free_block)
<1>1. \A c \in F : /\ c \in B /\ c \in Words /\ c \in Int /\ 0 <= c /\ c # NULL
                   /\ MB_HEXA - c \in Nat /\ MB_HEXA \in Int
  BY BlockFacts, HeapAssumption DEF FreeOf
<1>2. PICK t \in B : IsTop(h, t) /\ \A d \in B : d <= t /\ (IsTop(h, d) => d = t)
  BY TopIs
<1>3. m \in [J -> Nat] /\ J \subseteq DOMAIN next
  BY <1>1
<1>4. ASSUME NEW c \in J, ~(n <= Size(h, c))
      PROVE  ~IsTop(h, c) /\ NextFree(h, c) \in J /\ NextFree(h, c) > c
  <2>1. PICK e \in F : n <= Size(h, e)
    OBVIOUS
  <2>2. c < e
    BY <1>1, <1>4, <2>1
  <2>3. ~IsTop(h, c)
    BY <1>1, <1>2, <2>2
  <2>4. Follows(F, c, NextFree(h, c))
    BY DEF Linked
  <2>5. NextFree(h, c) \in F /\ NextFree(h, c) > c /\ \A d \in F : d > c => NextFree(h, c) <= d
    BY <2>2, <2>4 DEF Follows
  <2>6. ASSUME NEW d \in F, n <= Size(h, d) PROVE NextFree(h, c) <= d
    <3>1. c <= d /\ c # d
      BY <1>4, <2>6
    <3> QED
      BY <1>1, <2>5, <3>1
  <2> QED
    BY <2>3, <2>5, <2>6
<1>5. ASSUME NEW c \in J, next[c] # c PROVE next[c] \in J /\ m[next[c]] < m[c]
  <2>1. ~(n <= Size(h, c))
    BY <1>1, <1>5
  <2>2. ~IsTop(h, c) /\ NextFree(h, c) \in J /\ NextFree(h, c) > c
    BY <1>4, <2>1
  <2>3. next[c] = NextFree(h, c)
    BY <1>1, <2>1, <2>2
  <2> QED
    BY <1>1, <2>2, <2>3
<1>6. h.first_free_block \in J
  BY DEF Linked, IsFirst
<1>7. m[h.first_free_block] <= MB_HEXA
  BY <1>1, <1>6
<1>8. x \in J /\ next[x] = x
  <2> HIDE DEF J, m, next
  <2>1. Falls(next, J, m)
    BY <1>3, <1>5 DEF Falls
  <2> QED
    BY <1>3, <1>6, <1>7, <2>1, EndDefined
<1>9. n <= Size(h, x)
  <2> SUFFICES ASSUME ~(n <= Size(h, x)) PROVE FALSE
    OBVIOUS
  <2>1. ~IsTop(h, x) /\ NextFree(h, x) \in J /\ NextFree(h, x) > x
    BY <1>4, <1>8
  <2>2. next[x] = NextFree(h, x)
    BY <1>1, <1>8, <2>1
  <2> QED
    BY <1>1, <1>8, <2>1, <2>2
<1>10. Fitting(h, n) = x
  BY DEF Fitting
<1> HIDE DEF x
<1> QED
  BY <1>8, <1>9, <1>10 DEF IsFirst

-----------------------------------------------------------------------------
(* How the order of free blocks changes. *)

LEMMA FollowsSame ==
  ASSUME NEW F \in SUBSET Int, NEW G \in SUBSET Int, NEW b \in Int, NEW c \in Int,
         \A d \in Int : d \in F /\ d > b <=> d \in G /\ d > c,
         NEW x, Follows(F, b, x)
  PROVE  Follows(G, c, x)
<1>1. \A d \in F : d \in Int /\ (d > b => d \in G /\ d > c)
  OBVIOUS
<1>2. \A d \in G : d \in Int /\ (d > c => d \in F /\ d > b)
  OBVIOUS
<1> QED
  BY <1>1, <1>2 DEF Follows

(* A change above b does not concern a member that another one below b     *)
(* follows.                                                                *)
LEMMA FollowsBelow ==
  ASSUME NEW F \in SUBSET Int, NEW G \in SUBSET Int, NEW b \in Int,
         \A d \in Int : d < b => (d \in F <=> d \in G),
         NEW c \in F, NEW e \in F, c < e, e < b, NEW x, Follows(F, c, x)
  PROVE  Follows(G, c, x)
<1>1. x \in F /\ x > c /\ x <= e /\ x \in Int
  BY DEF Follows
<1>2. x \in G
  BY <1>1
<1>3. ASSUME NEW d \in G, d > c PROVE x <= d
  <2>1. CASE d < b
    BY <1>1, <1>3, <2>1 DEF Follows
  <2>2. CASE d >= b
    BY <1>1, <2>2
  <2> QED
    BY <2>1, <2>2
<1> QED
  BY <1>1, <1>2, <1>3 DEF Follows

LEMMA PrecedesFacts ==
  ASSUME NEW F \in SUBSET Int, NEW b \in Int, NEW x, Precedes(F, b - 1, x)
  PROVE  x \in Int /\ (x = NULL \/ (x \in F /\ x < b))
<1>1. CASE \E c \in F : c <= b - 1
  <2>1. x \in F /\ x <= b - 1
    BY <1>1 DEF Precedes
  <2>2. x \in Int
    BY <2>1
  <2> QED
    BY <2>1, <2>2
<1>2. CASE ~ \E c \in F : c <= b - 1
  BY <1>2 DEF Precedes
<1> QED
  BY <1>1, <1>2

LEMMA PrecedesOne ==
  ASSUME NEW F \in SUBSET Int, NEW b \in Int, NEW x, NEW y,
         Precedes(F, b, x), Precedes(F, b, y)
  PROVE  x = y
<1>1. CASE \E c \in F : c <= b
  <2>1. x \in F /\ y \in F /\ x <= y /\ y <= x
    BY <1>1 DEF Precedes
  <2> QED
    BY <2>1
<1>2. CASE ~ \E c \in F : c <= b
  BY <1>2 DEF Precedes
<1> QED
  BY <1>1, <1>2

-----------------------------------------------------------------------------
(* How blocks change. *)

LEMMA HeadersApart ==
  ASSUME NEW h \in Heaps, NEW B, Tiles(h, B), NEW b \in B, NEW c \in B, b < c
  PROVE  b + 12 <= c
<1>1. Above(h, b) <= c /\ Above(h, b) >= b + 12
  BY BlockFacts DEF Tiles
<1> QED
  BY <1>1, BlockFacts

(* What other words hold does not matter. *)
SameHeaders(h, g, C) == \A c \in C : g.mem[c] = h.mem[c] /\ g.mem[c + 4] = h.mem[c + 4]

LEMMA HeaderKept ==
  ASSUME NEW h, NEW g, NEW C, SameHeaders(h, g, C), NEW c \in C
  PROVE  /\ Size(g, c) = Size(h, c) /\ Above(g, c) = Above(h, c)
         /\ (IsTop(g, c) <=> IsTop(h, c)) /\ (IsFree(g, c) <=> IsFree(h, c))
         /\ PrevSize(g, c) = PrevSize(h, c) /\ Below(g, c) = Below(h, c)
  BY SameHeader DEF SameHeaders, PrevSize, Below

(* No two free blocks lie side by side. *)
Settled(h, B) == \A b \in B : IsFree(h, b) /\ ~IsTop(h, b) => ~IsFree(h, Above(h, b))

LEMMA TilesSame ==
  ASSUME NEW h \in Heaps, NEW g \in Heaps, NEW B, Tiles(h, B), SameHeaders(h, g, B)
  PROVE  /\ Tiles(g, B) /\ FreeOf(g, B) = FreeOf(h, B)
         /\ TopsFree(h, B) => TopsFree(g, B)
         /\ Settled(h, B) => Settled(g, B)
<1>1. \A c \in B : /\ Size(g, c) = Size(h, c) /\ Above(g, c) = Above(h, c)
                   /\ (IsTop(g, c) <=> IsTop(h, c)) /\ (IsFree(g, c) <=> IsFree(h, c))
                   /\ PrevSize(g, c) = PrevSize(h, c) /\ Below(g, c) = Below(h, c)
  BY HeaderKept
<1>2. Tiles(g, B)
  BY <1>1 DEF Tiles
<1>3. FreeOf(g, B) = FreeOf(h, B)
  BY <1>1 DEF FreeOf
<1>4. TopsFree(h, B) => TopsFree(g, B)
  BY <1>1 DEF TopsFree
<1>5. ASSUME Settled(h, B) PROVE Settled(g, B)
  <2>1. \A c \in B : ~IsTop(h, c) => Above(h, c) \in B
    BY DEF Tiles
  <2> QED
    BY <1>1, <1>5, <2>1 DEF Settled
<1> QED
  BY <1>2, <1>3, <1>4, <1>5

(* The blocks from s up to z become one, with flags f: when blocks are     *)
(* merged, or one is taken as it is.                                       *)
Merged(B, s, z) == {c \in B : c <= s \/ c >= z}

MergeDone(h, g, B, s, z, f) ==
  /\ s \in B /\ z \in Int /\ (z \in B \/ z = TopEnd) /\ s < z
  /\ f \in 0 .. 3
  /\ z = TopEnd <=> f \in {1, 3}
  /\ g.mem[s] = (z - s - 8) + f /\ g.mem[s + 4] = h.mem[s + 4]
  /\ z \in B => g.mem[z] = h.mem[z] /\ g.mem[z + 4] = z - s - 8
  /\ SameHeaders(h, g, Merged(B, s, z) \ {s, z})
  /\ z = TopEnd => z - s - 8 >= FB_HEADER_SIZE

MergeShape(h, g, B, s, z, f) ==
  /\ Tiles(g, Merged(B, s, z))
  /\ Size(g, s) = z - s - 8 /\ Above(g, s) = z
  /\ IsTop(g, s) <=> f \in {1, 3}
  /\ IsFree(g, s) <=> f \in {2, 3}
  /\ \A c \in Merged(B, s, z) \ {s} :
       /\ Size(g, c) = Size(h, c) /\ Above(g, c) = Above(h, c)
       /\ (IsTop(g, c) <=> IsTop(h, c)) /\ (IsFree(g, c) <=> IsFree(h, c))

LEMMA MergeTiles ==
  ASSUME NEW h \in Heaps, NEW g \in Heaps, NEW B, Tiles(h, B),
         NEW s, NEW z, NEW f, MergeDone(h, g, B, s, z, f)
  PROVE  MergeShape(h, g, B, s, z, f)
<1> DEFINE C == Merged(B, s, z)
<1>a. C = {c \in B : c <= s \/ c >= z}
  BY DEF Merged
<1> HIDE DEF C
<1>b. /\ s \in B /\ z \in Int /\ (z \in B \/ z = TopEnd) /\ s < z
      /\ f \in 0 .. 3
      /\ z = TopEnd <=> f \in {1, 3}
      /\ g.mem[s] = (z - s - 8) + f /\ g.mem[s + 4] = h.mem[s + 4]
      /\ z \in B => g.mem[z] = h.mem[z] /\ g.mem[z + 4] = z - s - 8
      /\ SameHeaders(h, g, C \ {s, z})
      /\ z = TopEnd => z - s - 8 >= FB_HEADER_SIZE
  BY DEF MergeDone, C
<1> USE <1>a, <1>b
<1>1. \A c \in B : /\ c \in Int /\ c \in Words /\ c % 4 = 0 /\ 0 <= c /\ c + 8 < MB_HEXA
                   /\ Size(h, c) \in Int /\ Size(h, c) >= 4
                   /\ Above(h, c) = c + Size(h, c) + 8
                   /\ PrevSize(h, c) \in Int /\ Below(h, c) = c - PrevSize(h, c) - 8
  BY BlockFacts, WordFacts
<1>2. MB_HEXA \in Int /\ MB_HEXA % 4 = 0 /\ TopEnd = MB_HEXA + 8
  BY HeapAssumption DEF TopEnd
<1>3. Above(h, s) <= z
  <2>1. CASE z \in B
    BY <2>1 DEF Tiles
  <2>2. CASE z = TopEnd
    <3>1. CASE IsTop(h, s)
      BY <2>2, <3>1 DEF Tiles
    <3>2. CASE ~IsTop(h, s)
      <4>1. Above(h, s) \in B
        BY <3>2 DEF Tiles
      <4> QED
        BY <1>1, <1>2, <2>2, <4>1
    <3> QED
      BY <3>1, <3>2
  <2> QED
    BY <2>1, <2>2
<1>4. z % 4 = 0 /\ (z - s - 8) % 4 = 0 /\ z - s - 8 >= 4
  <2>1. z % 4 = 0
    BY <1>1, <1>2
  <2> QED
    BY <1>1, <1>3, <2>1
<1>5. /\ Size(g, s) = z - s - 8 /\ Above(g, s) = z
      /\ IsTop(g, s) <=> f \in {1, 3}
      /\ IsFree(g, s) <=> f \in {2, 3}
  <2>1. HasHeader(g, s, z - s - 8, f)
    BY <1>1, <1>4 DEF HasHeader
  <2>2. /\ Size(g, s) = z - s - 8
        /\ IsTop(g, s) <=> f \in {1, 3}
        /\ IsFree(g, s) <=> f \in {2, 3}
    BY <2>1, HeaderFields
  <2> QED
    BY <1>1, <2>2 DEF Above
<1>6. ASSUME NEW c \in C \ {s}
      PROVE  /\ c \in B /\ c # s /\ (c < s \/ c >= z)
             /\ Size(g, c) = Size(h, c) /\ Above(g, c) = Above(h, c)
             /\ (IsTop(g, c) <=> IsTop(h, c)) /\ (IsFree(g, c) <=> IsFree(h, c))
             /\ c # z => Below(g, c) = Below(h, c)
             /\ c = z => Below(g, c) = s
  <2>1. c \in B /\ c # s /\ (c < s \/ c >= z)
    BY <1>1
  <2>2. CASE c = z
    <3>1. Below(g, z) = s
      BY <1>1, <2>1, <2>2 DEF Below, PrevSize
    <3> QED
      BY <2>1, <2>2, <3>1, SameHeader
  <2>3. CASE c # z
    BY <2>1, <2>3, HeaderKept
  <2> QED
    BY <2>2, <2>3
<1>7. C \subseteq B /\ s \in C
  BY <1>1
<1>8. C \subseteq Words /\ HEAP_BASE \in C /\ PrevSize(g, HEAP_BASE) = 0
  <2>1. HEAP_BASE \in B /\ HEAP_BASE <= s
    BY <1>1 DEF Tiles
  <2>2. HEAP_BASE \in C /\ HEAP_BASE # z
    BY <1>1, <2>1
  <2>3. g.mem[HEAP_BASE + 4] = h.mem[HEAP_BASE + 4]
    BY <2>2 DEF SameHeaders
  <2> QED
    BY <1>1, <1>7, <2>2, <2>3 DEF Tiles, PrevSize
<1>9. ASSUME NEW c \in C
      PROVE  /\ Size(g, c) >= 4 /\ (IsTop(g, c) => Size(g, c) >= FB_HEADER_SIZE)
             /\ IF IsTop(g, c) THEN Above(g, c) = TopEnd ELSE Above(g, c) \in C
  <2>1. CASE c = s
    <3>1. z \in B => z \in C
      BY <1>1
    <3> QED
      BY <1>4, <1>5, <2>1, <3>1
  <2>2. CASE c # s
    <3>1. Size(g, c) >= 4 /\ (IsTop(g, c) => Size(g, c) >= FB_HEADER_SIZE)
      BY <1>6, <2>2 DEF Tiles
    <3>2. ASSUME ~IsTop(g, c) PROVE Above(g, c) \in C
      <4>1. Above(h, c) \in B /\ Above(h, c) > c
        <5>1. c \in B /\ ~IsTop(h, c)
          BY <1>6, <2>2, <3>2
        <5>2. Above(h, c) \in B
          BY <5>1 DEF Tiles
        <5> QED
          BY <1>1, <5>1, <5>2
      <4>2. c < s => Above(h, c) <= s
        BY <1>6, <2>2 DEF Tiles
      <4> QED
        BY <1>1, <1>6, <2>2, <4>1, <4>2
    <3> QED
      BY <1>6, <2>2, <3>1, <3>2 DEF Tiles
  <2> QED
    BY <2>1, <2>2
<1>10. ASSUME NEW c \in C \ {HEAP_BASE}
       PROVE  Below(g, c) \in C /\ Above(g, Below(g, c)) = c
  <2>1. CASE c = z
    BY <1>1, <1>5, <1>6, <1>7, <2>1
  <2>2. CASE c # z
    <3> DEFINE d == Below(h, c)
    <3>1. Below(g, c) = d
      <4>1. CASE c = s
        BY <4>1 DEF Below, PrevSize, d
      <4>2. CASE c # s
        BY <1>6, <2>2, <4>2
      <4> QED
        BY <4>1, <4>2
    <3>2. d \in B /\ d < c /\ Above(h, d) = c /\ \A e \in B : e < c => e <= d
      BY <1>7, BelowBlock
    <3> HIDE DEF d
    <3>3. d < s \/ d >= z
      <4>1. CASE c <= s
        BY <1>1, <1>7, <3>2, <4>1
      <4>2. CASE c > s
        <5>1. c > z /\ z \in B
          <6>1. c >= z /\ c \in B
            BY <1>1, <4>2
          <6>2. c < TopEnd
            <7>1. c \in Int /\ c + 8 < MB_HEXA
              BY <1>1, <6>1
            <7> QED
              BY <1>2, <7>1
          <6>3. z # TopEnd
            BY <1>1, <1>2, <6>1, <6>2
          <6> QED
            BY <1>1, <2>2, <6>1, <6>3
        <5> QED
          BY <1>1, <3>2, <5>1
      <4> QED
        BY <1>1, <1>7, <4>1, <4>2
    <3>4. d \in C \ {s}
      BY <1>1, <3>2, <3>3
    <3> QED
      BY <1>6, <3>1, <3>2, <3>4
  <2> QED
    BY <2>1, <2>2
<1>11. ASSUME NEW c \in C, NEW d \in C, c < d PROVE Above(g, c) <= d
  <2>1. CASE c = s
    BY <1>1, <1>5, <1>7, <1>11, <2>1
  <2>2. CASE c # s
    BY <1>6, <1>7, <1>11, <2>2 DEF Tiles
  <2> QED
    BY <2>1, <2>2
<1>12. Tiles(g, C)
  BY <1>8, <1>9, <1>10, <1>11 DEF Tiles
<1> QED
  BY <1>5, <1>6, <1>12 DEF MergeShape, C

(* The end of block b becomes a free block e. *)
SplitDone(h, g, B, b, n, e, s, a) ==
  /\ e = b + n + 8 /\ s = Size(h, b) - n - 8 /\ a = Above(h, b)
  /\ g.mem[b] = n /\ g.mem[b + 4] = h.mem[b + 4]
  /\ g.mem[e] = s + (FREE_BLOCK + TopFlag(h, b)) /\ g.mem[e + 4] = n
  /\ ~IsTop(h, b) => g.mem[a] = h.mem[a] /\ g.mem[a + 4] = s
  /\ SameHeaders(h, g, B \ {b, a})

SplitShape(h, g, B, b, n, e, s, a) ==
  /\ e \in Words /\ e \notin B /\ b < e /\ e + 12 <= a
  /\ Tiles(g, B \union {e})
  /\ Size(g, b) = n /\ Above(g, b) = e /\ ~IsTop(g, b) /\ ~IsFree(g, b)
  /\ Size(g, e) = s /\ Above(g, e) = a /\ (IsTop(g, e) <=> IsTop(h, b)) /\ IsFree(g, e)
  /\ \A c \in B \ {b} : /\ Size(g, c) = Size(h, c) /\ Above(g, c) = Above(h, c)
                        /\ (IsTop(g, c) <=> IsTop(h, c)) /\ (IsFree(g, c) <=> IsFree(h, c))

LEMMA SplitTiles ==
  ASSUME NEW h \in Heaps, NEW g \in Heaps, NEW B, Tiles(h, B), NEW b \in B,
         NEW n \in Int, n % 4 = 0, n >= 4,
         NEW e, NEW s, NEW a, SplitDone(h, g, B, b, n, e, s, a),
         s >= 4, IsTop(h, b) => s >= FB_HEADER_SIZE
  PROVE  SplitShape(h, g, B, b, n, e, s, a)
<1> DEFINE C == B \union {e}
<1>0. C = B \union {e}
  OBVIOUS
<1> HIDE DEF C
<1> USE <1>0
<1> USE DEF SplitDone
<1>1. \A c \in B : /\ c \in Int /\ c \in Words /\ c % 4 = 0 /\ 0 <= c /\ c + 8 < MB_HEXA
                   /\ Size(h, c) \in Int /\ Size(h, c) % 4 = 0 /\ Size(h, c) >= 4
                   /\ Above(h, c) = c + Size(h, c) + 8
                   /\ PrevSize(h, c) \in Int /\ Below(h, c) = c - PrevSize(h, c) - 8
  BY BlockFacts, WordFacts
<1>2. MB_HEXA \in Int /\ MB_HEXA % 4 = 0 /\ TopEnd = MB_HEXA + 8
  BY HeapAssumption DEF TopEnd
<1>3. e \in Int /\ s \in Int /\ a \in Int /\ e % 4 = 0 /\ s % 4 = 0 /\ a = e + s + 8
  BY <1>1
<1>4. b < e /\ e + 12 <= a
  BY <1>1, <1>3
<1>5. IF IsTop(h, b) THEN a = TopEnd ELSE a \in B
  BY DEF Tiles
<1>6. e \in Words
  <2>1. e + 8 < MB_HEXA
    <3>1. CASE IsTop(h, b)
      BY <1>2, <1>3, <1>5, <3>1
    <3>2. CASE ~IsTop(h, b)
      BY <1>1, <1>2, <1>3, <1>4, <1>5, <3>2
    <3> QED
      BY <3>1, <3>2
  <2> QED
    BY <1>1, <1>2, <1>3, <1>4, <2>1 DEF Words
<1>7. \A c \in B : c > b => c >= a
  BY DEF Tiles
<1>8. e \notin B
  BY <1>3, <1>4, <1>7
<1>9. Size(g, b) = n /\ Above(g, b) = e /\ ~IsTop(g, b) /\ ~IsFree(g, b)
  <2>1. HasHeader(g, b, n, 0)
    BY DEF HasHeader
  <2>2. Size(g, b) = n /\ ~IsTop(g, b) /\ ~IsFree(g, b)
    BY <2>1, HeaderFields
  <2> QED
    BY <2>2, <1>1 DEF Above
<1>10. Size(g, e) = s /\ Above(g, e) = a /\ (IsTop(g, e) <=> IsTop(h, b)) /\ IsFree(g, e)
  <2> DEFINE f == FREE_BLOCK + TopFlag(h, b)
  <2>1. f \in 0 .. 3 /\ (f \in {1, 3} <=> IsTop(h, b)) /\ f \in {2, 3}
    BY DEF TopFlag
  <2>2. HasHeader(g, e, s, f)
    BY <1>3, <2>1 DEF HasHeader
  <2> HIDE DEF f
  <2>3. Size(g, e) = s /\ (IsTop(g, e) <=> f \in {1, 3}) /\ (IsFree(g, e) <=> f \in {2, 3})
    BY <2>2, HeaderFields
  <2>4. IsTop(g, e) \in BOOLEAN /\ IsTop(h, b) \in BOOLEAN
    BY DEF IsTop
  <2> QED
    BY <1>3, <2>1, <2>3, <2>4 DEF Above
<1>11. ASSUME NEW c \in B \ {b}
       PROVE  /\ Size(g, c) = Size(h, c) /\ Above(g, c) = Above(h, c)
              /\ (IsTop(g, c) <=> IsTop(h, c)) /\ (IsFree(g, c) <=> IsFree(h, c))
              /\ c # a => Below(g, c) = Below(h, c) /\ PrevSize(g, c) = PrevSize(h, c)
              /\ c = a => Below(g, c) = e
  <2>1. CASE c = a
    <3>1. ~IsTop(h, b)
      BY <1>1, <1>2, <1>5, <2>1
    <3>2. g.mem[c] = h.mem[c] /\ g.mem[c + 4] = s
      BY <2>1, <3>1
    <3>3. Below(g, c) = e
      BY <1>3, <2>1, <3>2 DEF Below, PrevSize
    <3> QED
      BY <2>1, <3>2, <3>3, SameHeader
  <2>2. CASE c # a
    BY <2>2, HeaderKept
  <2> QED
    BY <2>1, <2>2
<1>12. /\ C \subseteq Words /\ HEAP_BASE \in C /\ PrevSize(g, HEAP_BASE) = 0
       /\ Below(g, b) = Below(h, b)
  <2>1. HEAP_BASE \in B /\ PrevSize(h, HEAP_BASE) = 0
    BY DEF Tiles
  <2>2. HEAP_BASE # a
    BY <1>1, <1>3, <1>4
  <2>3. PrevSize(g, b) = PrevSize(h, b)
    BY DEF PrevSize
  <2>4. PrevSize(g, HEAP_BASE) = 0
    BY <1>11, <2>1, <2>2, <2>3
  <2> QED
    BY <1>1, <1>6, <2>1, <2>3, <2>4 DEF Below
<1>13. ASSUME NEW c \in C
       PROVE  /\ Size(g, c) >= 4 /\ (IsTop(g, c) => Size(g, c) >= FB_HEADER_SIZE)
              /\ IF IsTop(g, c) THEN Above(g, c) = TopEnd ELSE Above(g, c) \in C
  <2>1. CASE c = b
    BY <1>9, <2>1
  <2>2. CASE c = e
    BY <1>5, <1>10, <2>2
  <2>3. CASE c \in B \ {b}
    BY <1>11, <2>3 DEF Tiles
  <2> QED
    BY <2>1, <2>2, <2>3
<1>14. ASSUME NEW c \in C \ {HEAP_BASE}
       PROVE  Below(g, c) \in C /\ Above(g, Below(g, c)) = c
  <2>1. CASE c = e
    <3>1. Below(g, e) = b
      BY <1>1, <1>3 DEF Below, PrevSize
    <3> QED
      BY <1>9, <2>1, <3>1
  <2>2. CASE c \in B /\ c = a
    BY <1>3, <1>4, <1>10, <1>11, <2>2
  <2>3. CASE c \in B /\ c # a
    <3>1. Below(g, c) = Below(h, c)
      BY <1>11, <1>12, <2>3
    <3>2. Below(h, c) \in B /\ Above(h, Below(h, c)) = c
      BY <2>3 DEF Tiles
    <3>3. Below(h, c) # b
      BY <2>3, <3>2
    <3> QED
      BY <1>11, <3>1, <3>2, <3>3
  <2> QED
    BY <2>1, <2>2, <2>3
<1>15. ASSUME NEW c \in C, NEW d \in C, c < d PROVE Above(g, c) <= d
  <2>1. CASE c = b
    BY <1>1, <1>3, <1>4, <1>7, <1>9, <1>15, <2>1
  <2>2. CASE c = e
    BY <1>1, <1>3, <1>4, <1>7, <1>10, <1>15, <2>2
  <2>3. CASE c \in B \ {b} /\ d = e
    <3>1. c < b
      BY <1>1, <1>3, <1>4, <1>7, <1>15, <2>3
    <3>2. Above(h, c) <= b
      BY <2>3, <3>1 DEF Tiles
    <3> QED
      BY <1>1, <1>3, <1>4, <1>11, <2>3, <3>2
  <2>4. CASE c \in B \ {b} /\ d \in B
    BY <1>11, <1>15, <2>4 DEF Tiles
  <2> QED
    BY <2>1, <2>2, <2>3, <2>4
<1>16. Tiles(g, C)
  BY <1>12, <1>13, <1>14, <1>15 DEF Tiles
<1> QED
  BY <1>4, <1>6, <1>8, <1>9, <1>10, <1>11, <1>16 DEF SplitShape

-----------------------------------------------------------------------------
(* Searches while the headers on one side are as they were. *)

LEMMA UpFound ==
  ASSUME NEW h \in Heaps, NEW g \in Heaps, NEW B, Tiles(h, B), TopsFree(h, B),
         NEW b \in B, ~IsTop(h, b), NEW a, a = Above(h, b),
         \A c \in B : c >= a => g.mem[c] = h.mem[c]
  PROVE  Follows(FreeOf(h, B), b, End(ToFree(g), a))
<1> DEFINE C == {c \in B : c >= a}
           x == End(ToFree(g), a)
<1>1. \A c \in B : c \in Int /\ c \in Words
  BY BlockFacts
<1>2. a \in B /\ a > b /\ \A d \in B : d > b => d >= a
  BY AboveBlock
<1>3. LeadsUp(g, C)
  <2> SUFFICES ASSUME NEW c \in C, ~IsFree(g, c)
               PROVE  /\ Above(g, c) \in C /\ Above(g, c) > c
                      /\ \A d \in C : d > c => d >= Above(g, c)
    BY DEF LeadsUp
  <2>1. Above(g, c) = Above(h, c) /\ ~IsFree(h, c)
    BY SameHeader
  <2>2. /\ Above(h, c) \in B /\ Above(h, c) > c
        /\ \A d \in B : d > c => d >= Above(h, c)
    BY <2>1, TilesLead DEF LeadsUp
  <2> QED
    BY <1>1, <1>2, <2>1, <2>2
<1>4. a \in C /\ C \in SUBSET Words
  BY <1>1, <1>2
<1> HIDE DEF x
<1>5. x \in C /\ IsFree(g, x) /\ x >= a /\ \A d \in C : IsFree(g, d) /\ d >= a => x <= d
  <2> HIDE DEF C
  <2> QED
    BY <1>3, <1>4, WalkUp DEF x
<1>6. \A c \in C : (IsFree(g, c) <=> IsFree(h, c))
  BY SameHeader
<1>7. x \in FreeOf(h, B) /\ x > b /\ \A d \in FreeOf(h, B) : d > b => x <= d
  BY <1>1, <1>2, <1>5, <1>6 DEF FreeOf
<1> QED
  BY <1>7 DEF Follows, x

SameBelow(h, g, B, b) == SameHeaders(h, g, {c \in B : c < b})

LEMMA LeadDown ==
  ASSUME NEW h \in Heaps, NEW g \in Heaps, NEW B, Tiles(h, B), NEW b \in B,
         SameBelow(h, g, B, b), NEW C, C \subseteq B, \A c \in B : c < b => c \in C,
         \A c \in C : c < b \/ (c = b /\ Below(g, b) = Below(h, b))
  PROVE  LeadsDown(g, C)
<1> SUFFICES ASSUME NEW c \in C, ~IsFree(g, c)
             PROVE  \/ /\ Below(g, c) < HEAP_BASE
                       /\ \A d \in C : d >= c
                    \/ /\ Below(g, c) \in C /\ Below(g, c) < c
                       /\ \A d \in C : d < c => d <= Below(g, c)
  BY DEF LeadsDown
<1>1. \A d \in B : d \in Int /\ d >= 0
  BY BlockFacts
<1>2. c \in B /\ c <= b /\ C \subseteq B
  BY <1>1
<1>3. Below(g, c) = Below(h, c)
  <2>1. CASE c < b
    <3>1. c \in {d \in B : d < b}
      BY <1>2, <2>1
    <3> HIDE DEF SameHeaders
    <3> QED
      BY <3>1, HeaderKept DEF SameBelow
  <2>2. CASE c = b
    BY <1>1, <2>2
  <2> QED
    BY <1>1, <1>2, <2>1, <2>2
<1>4. CASE c = HEAP_BASE
  <2>1. Below(h, c) < HEAP_BASE
    BY <1>4 DEF Tiles, Below
  <2> QED
    BY <1>1, <1>2, <1>3, <1>4, <2>1
<1>5. CASE c # HEAP_BASE
  <2>1. /\ Below(h, c) \in B /\ Below(h, c) < c
        /\ \A d \in B : d < c => d <= Below(h, c)
    BY <1>2, <1>5, BelowBlock
  <2>2. Below(h, c) \in C
    BY <1>1, <1>2, <2>1
  <2> QED
    BY <1>2, <1>3, <2>1, <2>2
<1> QED
  BY <1>4, <1>5

(* The free block below b is found from the block below it, and from b     *)
(* itself if b is not free.                                                *)
LEMMA PrevFound ==
  ASSUME NEW h \in Heaps, NEW g \in Heaps, NEW B, Tiles(h, B), NEW b \in B,
         SameBelow(h, g, B, b)
  PROVE  Precedes(FreeOf(h, B), b - 1, find_prev_free(g, Below(h, b)))
<1> DEFINE C == {c \in B : c < b}
           a == Below(h, b)
           x == find_prev_free(g, a)
<1>1. \A d \in B : d \in Int /\ d \in Words
  BY BlockFacts
<1>2. LeadsDown(g, C)
  <2>1. C \subseteq B /\ (\A c \in B : c < b => c \in C) /\ \A c \in C : c < b
    OBVIOUS
  <2> HIDE DEF C
  <2> QED
    BY <2>1, LeadDown
<1>3. a \in Int /\ (a \in C \/ a < HEAP_BASE) /\ \A d \in C : d <= a
  <2>1. CASE b = HEAP_BASE
    <3>1. a = -8
      BY <2>1 DEF Tiles, Below
    <3>2. C = {}
      BY <2>1, BlockFacts
    <3> HIDE DEF a, C
    <3> QED
      BY <3>1, <3>2
  <2>2. CASE b # HEAP_BASE
    BY <1>1, <2>2, BelowBlock
  <2> QED
    BY <2>1, <2>2
<1>4. C \in SUBSET Words
  BY <1>1
<1>5. \A d \in C : (IsFree(g, d) <=> IsFree(h, d))
  BY HeaderKept DEF SameBelow
<1>6. a < b
  BY <1>1, <1>3, BlockFacts
<1> HIDE DEF a, x
<1>7. Precedes({c \in C : IsFree(g, c)}, a, x)
  <2> HIDE DEF C
  <2> QED
    BY <1>2, <1>3, <1>4, WalkDown DEF x
<1>8. \A d : d \in FreeOf(h, B) /\ d <= b - 1 <=> d \in {c \in C : IsFree(g, c)} /\ d <= a
  BY <1>1, <1>3, <1>5, <1>6 DEF FreeOf
<1>9. Precedes(FreeOf(h, B), b - 1, x)
  BY <1>7, <1>8 DEF Precedes
<1> QED
  BY <1>9 DEF a, x

LEMMA PrevFoundFrom ==
  ASSUME NEW h \in Heaps, NEW g \in Heaps, NEW B, Tiles(h, B), NEW b \in B,
         SameBelow(h, g, B, b),
         ~IsFree(g, b), g.mem[b + 4] = h.mem[b + 4]
  PROVE  Precedes(FreeOf(h, B), b - 1, find_prev_free(g, b))
<1> DEFINE C == {c \in B : c <= b}
           x == find_prev_free(g, b)
<1>1. \A d \in B : d \in Int /\ d \in Words
  BY BlockFacts
<1>2. LeadsDown(g, C)
  <2>1. Below(g, b) = Below(h, b)
    BY DEF Below, PrevSize
  <2>2. /\ C \subseteq B /\ \A c \in B : c < b => c \in C
        /\ \A c \in C : c < b \/ c = b
    BY <1>1
  <2> HIDE DEF C
  <2> QED
    BY <2>1, <2>2, LeadDown
<1>3. b \in C /\ C \in SUBSET Words
  BY <1>1
<1>4. \A d \in C : d # b => (IsFree(g, d) <=> IsFree(h, d))
  <2> SUFFICES ASSUME NEW d \in C, d # b PROVE (IsFree(g, d) <=> IsFree(h, d))
    OBVIOUS
  <2>1. d \in {c \in B : c < b}
    BY <1>1
  <2> QED
    BY <2>1, HeaderKept DEF SameBelow
<1> HIDE DEF x
<1>5. Precedes({c \in C : IsFree(g, c)}, b, x)
  <2> HIDE DEF C
  <2> QED
    BY <1>1, <1>2, <1>3, WalkDown DEF x
<1>6. \A d : d \in FreeOf(h, B) /\ d <= b - 1 <=> d \in {c \in C : IsFree(g, c)} /\ d <= b
  BY <1>1, <1>4 DEF FreeOf
<1>7. Precedes(FreeOf(h, B), b - 1, x)
  BY <1>5, <1>6 DEF Precedes
<1> QED
  BY <1>7 DEF x

(* A free block is found from itself.                                      *)
LEMMA FreeFound ==
  ASSUME NEW h, NEW b \in Words, IsFree(h, b)
  PROVE  find_prev_free(h, b) = b
<1> DEFINE next == DownToFree(h)
<1>1. b \in Int /\ b >= 0 /\ MB_HEXA \in Nat
  BY WordFacts, HeapAssumption
<1>2. next[b] = b /\ {b} \subseteq DOMAIN next
  BY DEF DownToFree
<1>3. Falls(next, {b}, [c \in {b} |-> 0])
  <2> HIDE DEF next
  <2> QED
    BY <1>2 DEF Falls
<1>4. [c \in {b} |-> 0] \in [{b} -> Nat] /\ [c \in {b} |-> 0][b] <= MB_HEXA
  BY <1>1
<1>5. End(next, b) \in {b}
  <2> HIDE DEF next
  <2> QED
    BY <1>3, <1>4, EndDefined
<1> QED
  BY <1>1, <1>5 DEF find_prev_free

(* The links after a change between lo and hi, where m is free afterwards  *)
(* or nothing, and p is the free block below.                              *)
SameOutside(F, G, lo, hi) ==
  \A d \in Int : d < lo \/ d >= hi => (d \in F <=> d \in G)

AllLinked(F, mem) == \A d \in F : Follows(F, d, mem[d + 8])

LinkedInside(G, D, lo, hi, p, mem) ==
  \A d \in D : (lo <= d /\ d < hi) \/ d = p => Follows(G, d, mem[d + 8])

LinksOutside(G, lo, hi, p, old, new) ==
  \A d \in G : (d < lo /\ d # p) \/ d >= hi => new[d + 8] = old[d + 8]

LEMMA LinksKept ==
  ASSUME NEW F \in SUBSET Int, NEW G \in SUBSET Int, NEW old, NEW new,
         NEW lo \in Int, NEW hi \in Int, lo <= hi, NEW p, Precedes(F, lo - 1, p),
         AllLinked(F, old), SameOutside(F, G, lo, hi),
         LinkedInside(G, G, lo, hi, p, new), LinksOutside(G, lo, hi, p, old, new)
  PROVE  AllLinked(G, new)
<1> USE DEF AllLinked, SameOutside, LinkedInside, LinksOutside
<1> SUFFICES ASSUME NEW d \in G PROVE Follows(G, d, new[d + 8])
  OBVIOUS
<1>1. CASE (lo <= d /\ d < hi) \/ d = p
  BY <1>1
<1>2. CASE d < lo /\ d # p
  <2>1. d \in F
    BY <1>2
  <2>2. p \in F /\ p <= lo - 1 /\ d <= p
    BY <1>2, <2>1 DEF Precedes
  <2>3. d < p /\ p < lo
    BY <1>2, <2>2
  <2>4. \A c \in Int : c < lo => (c \in F <=> c \in G)
    OBVIOUS
  <2>5. Follows(F, d, old[d + 8]) /\ new[d + 8] = old[d + 8]
    BY <1>2, <2>1
  <2> QED
    BY <2>1, <2>2, <2>3, <2>4, <2>5, FollowsBelow
<1>3. CASE d >= hi
  <2>1. d \in F
    BY <1>3
  <2>2. \A c \in Int : c \in F /\ c > d <=> c \in G /\ c > d
    BY <1>3
  <2>3. Follows(F, d, old[d + 8]) /\ new[d + 8] = old[d + 8]
    BY <1>3, <2>1
  <2> QED
    BY <2>2, <2>3, FollowsSame
<1> QED
  BY <1>1, <1>2, <1>3

-----------------------------------------------------------------------------
(* What malloc and free keep: the blocks B tile the heap, those that are   *)
(* free are coalesced and linked in order, and the top block is free.      *)
Laid(h, B) ==
  /\ h \in Heaps /\ h.heap_initialized /\ ~h.top_block_flag
  /\ Tiles(h, B) /\ TopsFree(h, B) /\ Settled(h, B) /\ Linked(h, B)

LEMMA LinkApart ==
  ASSUME NEW h \in Heaps, NEW B, Tiles(h, B), NEW b \in B, NEW c \in B
  PROVE  b + 8 # c /\ b + 8 # c + 4
<1>1. b \in Int /\ c \in Int
  BY BlockFacts
<1>2. b = c \/ b + 12 <= c \/ c + 12 <= b
  BY <1>1, HeadersApart
<1> QED
  BY <1>1, <1>2

LEMMA FreeNumbers ==
  ASSUME NEW h \in Heaps, NEW B, Tiles(h, B)
  PROVE  FreeOf(h, B) \in SUBSET Int /\ FreeOf(h, B) \subseteq B
  BY BlockFacts DEF FreeOf

(* The links are right again when the one of r is renewed, the blocks      *)
(* between lo and hi changed before, and only the link of r is not right.  *)
MayRelink(h, B, k, C, lo, hi, p, r) ==
  /\ h \in Heaps /\ Tiles(h, B) /\ Linked(h, B)
  /\ k \in Heaps /\ Tiles(k, C) /\ TopsFree(k, C) /\ Settled(k, C)
  /\ lo \in Int /\ hi \in Int /\ lo <= hi
  /\ SameOutside(FreeOf(h, B), FreeOf(k, C), lo, hi)
  /\ Precedes(FreeOf(h, B), lo - 1, p)
  /\ (r = NULL \/ (r \in FreeOf(k, C) /\ k.counter > Warmup))
  /\ (r = NULL \/ r = p \/ (lo <= r /\ r < hi))
  /\ LinkedInside(FreeOf(k, C), FreeOf(k, C) \ {r}, lo, hi, p, k.mem)
  /\ LinksOutside(FreeOf(k, C) \ {r}, lo, hi, p, h.mem, k.mem)

Relaid(k, C, g) ==
  /\ g \in Heaps
  /\ Tiles(g, C) /\ TopsFree(g, C) /\ Settled(g, C) /\ Linked(g, C)
  /\ SameHeaders(k, g, C) /\ FreeOf(g, C) = FreeOf(k, C)
  /\ g.counter = k.counter /\ g.top_block_flag = k.top_block_flag
  /\ g.heap_initialized = k.heap_initialized

LEMMA RelinkWorks ==
  ASSUME NEW h, NEW B, NEW k, NEW C, NEW lo, NEW hi, NEW p, NEW r,
         MayRelink(h, B, k, C, lo, hi, p, r)
  PROVE  Relaid(k, C, update_first_free_block(Relinked(k, r)))
<1> DEFINE F == FreeOf(h, B)
           G == FreeOf(k, C)
           g == update_first_free_block(Relinked(k, r))
<1>0. /\ h \in Heaps /\ Tiles(h, B) /\ Linked(h, B)
      /\ k \in Heaps /\ Tiles(k, C) /\ TopsFree(k, C) /\ Settled(k, C)
      /\ lo \in Int /\ hi \in Int /\ lo <= hi
      /\ SameOutside(F, G, lo, hi)
      /\ Precedes(F, lo - 1, p)
      /\ r = NULL \/ (r \in G /\ k.counter > Warmup)
      /\ r = NULL \/ r = p \/ (lo <= r /\ r < hi)
      /\ LinkedInside(G, G \ {r}, lo, hi, p, k.mem)
      /\ LinksOutside(G \ {r}, lo, hi, p, h.mem, k.mem)
      /\ F = FreeOf(h, B) /\ G = FreeOf(k, C) /\ g = update_first_free_block(Relinked(k, r))
  BY DEF MayRelink
<1> USE <1>0
<1> HIDE DEF F, G, g
<1> DEFINE j == Relinked(k, r)
<1>1. F \in SUBSET Int /\ G \in SUBSET Int /\ G \subseteq C
  BY FreeNumbers
<1>2. \A c \in C : c \in Int /\ c \in Words /\ c + 4 \in Words /\ c + 8 \in Words /\ 0 <= c
  BY BlockFacts
<1>3. /\ j \in Heaps /\ SameGlobals(k, j) /\ SameHeaders(k, j, C)
      /\ \A d \in G \ {r} : j.mem[d + 8] = k.mem[d + 8]
      /\ r \in G => Follows(G, r, j.mem[r + 8])
  <2>1. CASE r = NULL
    <3>1. j = k /\ r \notin G
      BY <1>1, <1>2, <2>1 DEF Relinked
    <3> HIDE DEF j
    <3> QED
      BY <3>1 DEF SameGlobals, SameHeaders
  <2>2. CASE r # NULL
    <3> DEFINE x == find_next_free(k, r)
    <3>1. j = SetNextFree(k, r, x)
      BY <2>2 DEF Relinked
    <3>2. r \in G /\ k.counter > Warmup /\ r \in C /\ r \in Int
      BY <1>1, <1>2, <2>2
    <3>3. Follows(G, r, x)
      BY <3>2, NextFound
    <3> HIDE DEF x, j
    <3>4. x \in Int
      BY <1>1, <3>3 DEF Follows
    <3>5. Writes(k, j, r + 8, x)
      <4>1. 0 \in 0 .. 3
        OBVIOUS
      <4> QED
        BY <3>1, <3>2, <3>4, <4>1, SetWrites
    <3>6. j \in Heaps /\ SameGlobals(k, j) /\ j.mem[r + 8] = x
      BY <1>2, <3>2, <3>5 DEF Writes
    <3>7. SameHeaders(k, j, C)
      <4> SUFFICES ASSUME NEW c \in C PROVE j.mem[c] = k.mem[c] /\ j.mem[c + 4] = k.mem[c + 4]
        BY DEF SameHeaders
      <4>1. r + 8 # c /\ r + 8 # c + 4
        BY <3>2, LinkApart
      <4> QED
        BY <1>2, <3>5, <4>1 DEF Writes
    <3>8. ASSUME NEW d \in G \ {r} PROVE j.mem[d + 8] = k.mem[d + 8]
      <4>1. d + 8 # r + 8 /\ d + 8 \in Words
        BY <1>1, <1>2, <3>2
      <4> QED
        BY <3>5, <4>1 DEF Writes
    <3> QED
      BY <3>3, <3>6, <3>7, <3>8
  <2> QED
    BY <2>1, <2>2
<1> HIDE DEF j
<1>4. Tiles(j, C) /\ FreeOf(j, C) = G /\ TopsFree(j, C) /\ Settled(j, C)
  BY <1>3, TilesSame
<1>5. AllLinked(G, j.mem)
  <2>1. AllLinked(F, h.mem)
    BY DEF Linked, NextFree, AllLinked
  <2>2. LinkedInside(G, G, lo, hi, p, j.mem)
    BY <1>3 DEF LinkedInside
  <2>3. LinksOutside(G, lo, hi, p, h.mem, j.mem)
    <3> SUFFICES ASSUME NEW d \in G, (d < lo /\ d # p) \/ d >= hi
                 PROVE  j.mem[d + 8] = h.mem[d + 8]
      BY DEF LinksOutside
    <3>1. d \in Int /\ d # NULL
      BY <1>1, <1>2
    <3>2. p = NULL \/ p <= lo - 1
      BY DEF Precedes
    <3>3. d # r
      BY <3>1, <3>2
    <3> QED
      BY <1>3, <3>3 DEF LinksOutside
  <2> QED
    BY <1>1, <2>1, <2>2, <2>3, LinksKept
<1>6. PICK x : /\ g = [j EXCEPT !.first_free_block = x]
               /\ IsFirst(G, x)
  BY <1>3, <1>4, FirstFound DEF j
<1>7. x \in Int
  BY <1>1, <1>6 DEF IsFirst
<1>8. /\ g \in Heaps /\ g.mem = j.mem /\ g.first_free_block = x
      /\ g.counter = j.counter /\ g.top_block_flag = j.top_block_flag
      /\ g.heap_initialized = j.heap_initialized
  BY <1>3, <1>6, <1>7 DEF Heaps
<1>9. SameHeaders(j, g, C) /\ SameHeaders(k, g, C)
  BY <1>3, <1>8 DEF SameHeaders
<1>10. Tiles(g, C) /\ FreeOf(g, C) = G /\ TopsFree(g, C) /\ Settled(g, C)
  BY <1>3, <1>4, <1>8, <1>9, TilesSame
<1>11. Linked(g, C)
  BY <1>5, <1>6, <1>8, <1>10 DEF Linked, NextFree, AllLinked
<1> QED
  BY <1>3, <1>8, <1>9, <1>10, <1>11 DEF SameGlobals, Relaid, g

LEMMA LaidSame ==
  ASSUME NEW h \in Heaps, NEW g \in Heaps, NEW B,
         Tiles(h, B), TopsFree(h, B), Settled(h, B), Linked(h, B),
         g.mem = h.mem, g.first_free_block = h.first_free_block,
         g.heap_initialized, ~g.top_block_flag
  PROVE  Laid(g, B) /\ FreeOf(g, B) = FreeOf(h, B)
<1>1. SameHeaders(h, g, B)
  BY DEF SameHeaders
<1>2. Tiles(g, B) /\ FreeOf(g, B) = FreeOf(h, B) /\ TopsFree(g, B) /\ Settled(g, B)
  BY <1>1, TilesSame
<1>3. Linked(g, B)
  BY <1>2 DEF Linked, NextFree
<1> QED
  BY <1>2, <1>3 DEF Laid

-----------------------------------------------------------------------------
(* malloc takes a block. *)

(* In the first calls only the top block is free. *)
Searches(h, B) == h.counter > Warmup \/ \A b \in FreeOf(h, B) : IsTop(h, b)

(* Block b of B can be taken for n bytes; the top block has to stay.       *)
Takes(h, B, b, n) ==
  /\ Laid(h, B) /\ Searches(h, B) /\ b \in FreeOf(h, B)
  /\ n \in Int /\ n % 4 = 0 /\ n >= 4 /\ n <= Size(h, b)
  /\ IsTop(h, b) => Size(h, b) >= n + 20

LEMMA TakesFacts ==
  ASSUME NEW h, NEW B, NEW b, NEW n, Takes(h, B, b, n)
  PROVE  /\ h \in Heaps /\ Tiles(h, B) /\ TopsFree(h, B) /\ Settled(h, B) /\ Linked(h, B)
         /\ h.heap_initialized /\ ~h.top_block_flag
         /\ n \in Int /\ n % 4 = 0 /\ n >= 4 /\ n <= Size(h, b)
         /\ b \in B /\ IsFree(h, b) /\ b \in Int /\ 0 <= b
         /\ Size(h, b) \in Int /\ Above(h, b) = b + Size(h, b) + 8 /\ Above(h, b) \in Int
         /\ \A c \in B : /\ c \in Int /\ 0 <= c
                         /\ c \in Words /\ c + 4 \in Words /\ c + 8 \in Words
                         /\ c <= b \/ c = Above(h, b) \/ c >= Above(h, b) + 12
                         /\ c = b \/ c + 12 <= b \/ c >= b + 12
<1>1. h \in Heaps /\ Tiles(h, B) /\ b \in B
  BY DEF Takes, Laid, FreeOf
<1>2. \A c \in B : /\ c \in Int /\ 0 <= c /\ Size(h, c) \in Int
                   /\ Above(h, c) = c + Size(h, c) + 8
                   /\ c \in Words /\ c + 4 \in Words /\ c + 8 \in Words
  BY <1>1, BlockFacts
<1>3. ASSUME NEW c \in B PROVE c <= b \/ c = Above(h, b) \/ c >= Above(h, b) + 12
  <2>1. CASE IsTop(h, b)
    <3>1. PICK t \in B : IsTop(h, t) /\ \A d \in B : d <= t /\ (IsTop(h, d) => d = t)
      BY <1>1, TopIs
    <3> QED
      BY <1>1, <2>1, <3>1
  <2>2. CASE ~IsTop(h, b)
    <3>1. Above(h, b) \in B /\ (c > b => c >= Above(h, b))
      BY <1>1, <2>2, AboveBlock
    <3>2. c > b /\ c # Above(h, b) => c >= Above(h, b) + 12
      BY <1>1, <1>2, <3>1, HeadersApart
    <3> QED
      BY <1>1, <1>2, <3>2
  <2> QED
    BY <2>1, <2>2
<1>4. \A c \in B : c = b \/ c + 12 <= b \/ c >= b + 12
  BY <1>1, <1>2, HeadersApart
<1> QED
  BY <1>1, <1>2, <1>3, <1>4 DEF Takes, Laid, FreeOf

LEMMA SplitAddress ==
  ASSUME NEW h, NEW B, NEW b, NEW n, Takes(h, B, b, n), Size(h, b) >= n + 12,
         NEW e, e = b + n + 8
  PROVE  /\ e \in Int /\ e >= b + 12 /\ e + 12 <= Above(h, b)
         /\ e \in Words /\ e + 4 \in Words /\ e + 8 \in Words
<1>1. /\ h \in Heaps /\ Tiles(h, B) /\ b \in B /\ n \in Int /\ n % 4 = 0 /\ n >= 4
      /\ b \in Int /\ 0 <= b /\ Size(h, b) \in Int /\ Above(h, b) = b + Size(h, b) + 8
      /\ \A c \in B : c \in Int /\ c \in Words
  BY TakesFacts
<1>2. b % 4 = 0 /\ MB_HEXA \in Int
  BY <1>1, WordFacts, HeapAssumption
<1>3. e \in Int /\ e % 4 = 0 /\ e >= b + 12 /\ e + 12 <= Above(h, b)
  BY <1>1, <1>2
<1>4. e + 8 < MB_HEXA
  <2>1. CASE IsTop(h, b)
    <3>1. Above(h, b) = MB_HEXA + 8 /\ Size(h, b) >= n + 20
      BY <1>1, <2>1 DEF Tiles, TopEnd, Takes
    <3> QED
      BY <1>1, <1>2, <3>1
  <2>2. CASE ~IsTop(h, b)
    <3>1. Above(h, b) \in Words
      BY <1>1, <2>2 DEF Tiles
    <3>2. Above(h, b) \in Int /\ Above(h, b) < MB_HEXA
      BY <3>1, WordFacts
    <3> QED
      BY <1>2, <1>3, <3>2
  <2> QED
    BY <2>1, <2>2
<1>5. e \in Words
  BY <1>1, <1>2, <1>3, <1>4 DEF Words
<1>6. e + 4 \in Words /\ e + 8 \in Words
  <2>1. 4 \in Int /\ 8 \in Int /\ 4 % 4 = 0 /\ 8 % 4 = 0 /\ 0 <= e
    BY <1>1, <1>3
  <2> QED
    BY <1>2, <1>3, <1>4, <1>5, <2>1, WordFurther
<1> QED
  BY <1>3, <1>5, <1>6

(* The next free block above a free one that is split.                     *)
LEMMA NextAfterSplit ==
  ASSUME NEW h, NEW B, NEW b, NEW n, Takes(h, B, b, n), Size(h, b) >= n + 12,
         NEW e, e = b + n + 8, NEW k \in Heaps, k.counter = h.counter,
         k.mem[e] = Size(h, b) - n - 8 + (FREE_BLOCK + TopFlag(h, b)),
         \A c \in B : c >= Above(h, b) => k.mem[c] = h.mem[c]
  PROVE  Follows(FreeOf(h, B), b, IF IsTop(h, b) THEN NULL ELSE find_next_free(k, e))
<1>1. /\ h \in Heaps /\ Tiles(h, B) /\ TopsFree(h, B) /\ b \in B /\ IsFree(h, b) /\ b \in Int
      /\ Size(h, b) \in Int /\ n \in Int /\ n % 4 = 0 /\ Above(h, b) = b + Size(h, b) + 8
      /\ \A c \in B : c \in Int
  BY TakesFacts
<1>2. PICK t \in B : IsTop(h, t) /\ \A c \in B : c <= t /\ (IsTop(h, c) => c = t)
  BY <1>1, TopIs
<1>3. CASE IsTop(h, b)
  BY <1>1, <1>2, <1>3 DEF Follows, FreeOf
<1>4. CASE ~IsTop(h, b)
  <2> DEFINE s == Size(h, b) - n - 8
  <2>1. Size(h, b) % 4 = 0 /\ s % 4 = 0 /\ s \in Int
    BY <1>1, BlockFacts
  <2>2. k.mem[e] = s + 2
    BY <1>4 DEF TopFlag
  <2> HIDE DEF s
  <2>3. HasHeader(k, e, s, 2)
    BY <2>1, <2>2 DEF HasHeader
  <2>4. Size(k, e) = s /\ ~IsTop(k, e)
    BY <2>3, HeaderFields
  <2>5. Above(k, e) = Above(h, b)
    BY <1>1, <2>4 DEF Above, s
  <2>6. h.counter > Warmup
    BY <1>1, <1>4 DEF Takes, Searches
  <2>7. find_next_free(k, e) = End(ToFree(k), Above(h, b))
    BY <2>4, <2>5, <2>6 DEF find_next_free
  <2>8. Follows(FreeOf(h, B), b, End(ToFree(k), Above(h, b)))
    BY <1>1, <1>4, UpFound
  <2> QED
    BY <1>4, <2>7, <2>8
<1> QED
  BY <1>3, <1>4

(* The words that splitting block b writes, p being the free block below,  *)
(* and x the one above.                                                    *)
SplitWrites(h, k, b, n, p, x) ==
  LET e == b + n + 8
      s == Size(h, b) - n - 8
      a == Above(h, b)
  IN  /\ k \in Heaps /\ SameGlobals(h, k)
      /\ \A w \in Words :
           k.mem[w] = IF w = b THEN n
                      ELSE IF w = e + 8 THEN x
                      ELSE IF w = p + 8 THEN e
                      ELSE IF w = a + 4 THEN s
                      ELSE IF w = e + 4 THEN n
                      ELSE IF w = e THEN s + (FREE_BLOCK + TopFlag(h, b))
                      ELSE h.mem[w]

LEMMA SplitWorks ==
  ASSUME NEW h, NEW B, NEW b, NEW n, Takes(h, B, b, n), Size(h, b) >= n + 12
  PROVE  \E p, x : /\ Precedes(FreeOf(h, B), b - 1, p)
                   /\ Follows(FreeOf(h, B), b, x)
                   /\ SplitWrites(h, SetCtrl(Split(h, b, n), b, n, 0), b, n, p, x)
<1> DEFINE e == b + n + 8
           s == Size(h, b) - n - 8
           a == Above(h, b)
           h1 == SetCtrl(h, e, s, FREE_BLOCK + TopFlag(h, b))
           h2 == SetPrevSize(h1, e, n)
           h3 == SetPrevSize(h2, e + s + 8, s)
           p == find_prev_free(h3, Below(h, b))
           h4 == SetNextFree(h3, p, e)
           x == IF IsTop(h, b) THEN NULL ELSE find_next_free(h4, e)
           h5 == SetNextFree(h4, e, x)
           k == SetCtrl(h5, b, n, 0)
<1>1. k = SetCtrl(Split(h, b, n), b, n, 0)
  BY DEF Split
<1>2. /\ h \in Heaps /\ Tiles(h, B) /\ b \in B /\ b \in Int /\ b \in Words /\ n \in Int /\ n >= 4
      /\ s \in Int /\ a \in Int /\ a = e + s + 8 /\ a = (e + s) + 8
      /\ \A c \in B : /\ c \in Int /\ 0 <= c
                      /\ c \in Words /\ c + 4 \in Words /\ c + 8 \in Words
                      /\ c <= b \/ c = a \/ c >= a + 12
                      /\ c = b \/ c + 12 <= b \/ c >= b + 12
  BY TakesFacts
<1>3. /\ e \in Int /\ e >= b + 12 /\ e + 12 <= a
      /\ e \in Words /\ e + 4 \in Words /\ e + 8 \in Words
  BY SplitAddress
<1>4. FREE_BLOCK + TopFlag(h, b) \in 0 .. 3 /\ 0 \in 0 .. 3
  BY DEF TopFlag
<1> DEFINE f == FREE_BLOCK + TopFlag(h, b)
<1> HIDE DEF e, s, a, f
<1>5. Writes(h, h1, e, s + f)
  BY <1>2, <1>3, <1>4, SetWrites DEF f
<1> HIDE DEF h1
<1>6. Writes(h1, h2, e + 4, n)
  BY <1>2, <1>3, <1>4, <1>5, SetWrites DEF Writes
<1> HIDE DEF h2
<1>7. Writes(h2, h3, a + 4, s)
  <2>1. h2 \in Heaps
    BY <1>6 DEF Writes
  <2>2. h3 = SetPrevSize(h2, a, s)
    BY <1>2
  <2> HIDE DEF h3
  <2> QED
    BY <1>2, <1>4, <2>1, <2>2, SetWrites
<1> HIDE DEF h3
<1>8. SameBelow(h, h3, B, b) /\ h3 \in Heaps
  <2>1. ASSUME NEW c \in B, c < b PROVE h3.mem[c] = h.mem[c] /\ h3.mem[c + 4] = h.mem[c + 4]
    <3>1. /\ c # e /\ c # e + 4 /\ c # a + 4 /\ c + 4 # e /\ c + 4 # e + 4 /\ c + 4 # a + 4
          /\ c \in Words /\ c + 4 \in Words
      BY <1>2, <1>3, <2>1
    <3> QED
      BY <1>5, <1>6, <1>7, <3>1 DEF Writes
  <2> QED
    BY <1>7, <2>1 DEF SameBelow, SameHeaders, Writes
<1>9. Precedes(FreeOf(h, B), b - 1, p)
  BY <1>2, <1>8, PrevFound
<1> HIDE DEF p
<1>10. p \in Int /\ (p = NULL \/ (p \in B /\ p < b))
  BY <1>2, <1>9, PrecedesFacts, FreeNumbers
<1>11. ASSUME NEW w \in Words, w >= b PROVE w # p + 8
  <2>1. CASE p = NULL
    <3>1. w % 4 = 0
      BY WordFacts
    <3> QED
      BY <2>1, <3>1
  <2>2. CASE p # NULL
    <3>1. p + 12 <= b
      BY <1>2, <1>10, <2>2
    <3> QED
      BY <1>2, <1>10, <1>11, <3>1, WordFacts
  <2> QED
    BY <2>1, <2>2
<1>12. Writes(h3, h4, p + 8, e)
  BY <1>3, <1>4, <1>8, <1>10, SetWrites
<1> HIDE DEF h4
<1>13. /\ h4 \in Heaps /\ h4.counter = h.counter
       /\ h4.mem[e] = s + f
       /\ \A c \in B : c >= a => h4.mem[c] = h.mem[c]
  <2>1. h4 \in Heaps /\ h4.counter = h.counter
    BY <1>5, <1>6, <1>7, <1>12 DEF Writes, SameGlobals
  <2>3. h4.mem[e] = s + f
    <3>1. e # p + 8 /\ e # a + 4 /\ e # e + 4
      BY <1>2, <1>3, <1>11
    <3> QED
      BY <1>3, <1>5, <1>6, <1>7, <1>12, <3>1 DEF Writes
  <2>4. ASSUME NEW c \in B, c >= a PROVE h4.mem[c] = h.mem[c]
    <3>1. c # e /\ c # e + 4 /\ c # p + 8
      BY <1>2, <1>3, <1>11, <2>4
    <3>2. c # a + 4
      BY <1>2, <1>3, <2>4
    <3> QED
      BY <1>2, <1>5, <1>6, <1>7, <1>12, <3>1, <3>2 DEF Writes
  <2> QED
    BY <2>1, <2>3, <2>4
<1>14. Follows(FreeOf(h, B), b, x)
  BY <1>13, NextAfterSplit DEF e, s, a, f
<1> HIDE DEF x
<1>15. x \in Int
  BY <1>2, <1>14, FreeNumbers DEF Follows
<1>16. Writes(h4, h5, e + 8, x)
  BY <1>3, <1>4, <1>13, <1>15, SetWrites
<1> HIDE DEF h5
<1>17. Writes(h5, k, b, n)
  <2>1. h5 \in Heaps
    BY <1>16 DEF Writes
  <2>2. Writes(h5, k, b, n + 0)
    BY <1>2, <1>4, <2>1, SetWrites
  <2> QED
    BY <1>2, <2>2
<1> HIDE DEF k
<1>18. k \in Heaps /\ SameGlobals(h, k)
  BY <1>5, <1>6, <1>7, <1>12, <1>16, <1>17 DEF Writes, SameGlobals
<1>19. ASSUME NEW w \in Words
       PROVE  k.mem[w] = IF w = b THEN n
                      ELSE IF w = e + 8 THEN x
                      ELSE IF w = p + 8 THEN e
                      ELSE IF w = a + 4 THEN s
                      ELSE IF w = e + 4 THEN n
                      ELSE IF w = e THEN s + f
                      ELSE h.mem[w]
  BY <1>5, <1>6, <1>7, <1>12, <1>16, <1>17 DEF Writes
<1>20. SplitWrites(h, k, b, n, p, x)
  BY <1>18, <1>19 DEF SplitWrites, e, s, a, f
<1> QED
  BY <1>1, <1>9, <1>14, <1>20

(* What the header words of the blocks hold after that.                    *)
LEMMA SplitHeaders ==
  ASSUME NEW h, NEW B, NEW b, NEW n, Takes(h, B, b, n), Size(h, b) >= n + 12,
         NEW k, NEW p, NEW x, Precedes(FreeOf(h, B), b - 1, p), SplitWrites(h, k, b, n, p, x),
         NEW e, e = b + n + 8, NEW s, s = Size(h, b) - n - 8, NEW a, a = Above(h, b)
  PROVE  /\ k.mem[b] = n /\ k.mem[b + 4] = h.mem[b + 4]
         /\ k.mem[e] = s + (FREE_BLOCK + TopFlag(h, b)) /\ k.mem[e + 4] = n /\ k.mem[e + 8] = x
         /\ ~IsTop(h, b) => k.mem[a] = h.mem[a] /\ k.mem[a + 4] = s
         /\ SameHeaders(h, k, B \ {b, a})
         /\ \A c \in B \ {b, p} : k.mem[c + 8] = h.mem[c + 8]
<1>1. /\ h \in Heaps /\ Tiles(h, B) /\ b \in B /\ b \in Int /\ b \in Words /\ n \in Int /\ n >= 4
      /\ s \in Int /\ a \in Int /\ a = e + s + 8
      /\ \A c \in B : /\ c \in Int /\ 0 <= c
                      /\ c \in Words /\ c + 4 \in Words /\ c + 8 \in Words
                      /\ c <= b \/ c = a \/ c >= a + 12
                      /\ c = b \/ c + 12 <= b \/ c >= b + 12
  BY TakesFacts
<1>2. /\ e \in Int /\ e >= b + 12 /\ e + 12 <= a
      /\ e \in Words /\ e + 4 \in Words /\ e + 8 \in Words
  BY SplitAddress
<1>3. p \in Int /\ (p = NULL \/ (p \in B /\ p < b))
  BY <1>1, PrecedesFacts, FreeNumbers
<1>4. ASSUME NEW w \in Words, w >= b PROVE w # p + 8
  <2>1. CASE p = NULL
    <3>1. w % 4 = 0
      BY WordFacts
    <3> QED
      BY <2>1, <3>1
  <2>2. CASE p # NULL
    <3>1. p + 12 <= b
      BY <1>1, <1>3, <2>2
    <3> QED
      BY <1>1, <1>3, <1>4, <3>1, WordFacts
  <2> QED
    BY <2>1, <2>2
<1>5. \A w \in Words :
           k.mem[w] = IF w = b THEN n
                      ELSE IF w = e + 8 THEN x
                      ELSE IF w = p + 8 THEN e
                      ELSE IF w = a + 4 THEN s
                      ELSE IF w = e + 4 THEN n
                      ELSE IF w = e THEN s + (FREE_BLOCK + TopFlag(h, b))
                      ELSE h.mem[w]
  BY DEF SplitWrites
<1>6. \A c \in B : c >= a => c = a \/ c >= a + 12
  BY <1>1, <1>2
<1>7. k.mem[b] = n /\ k.mem[b + 4] = h.mem[b + 4]
  <2>1. b + 4 # b /\ b + 4 # e + 8 /\ b + 4 # p + 8 /\ b + 4 # a + 4 /\ b + 4 # e + 4 /\ b + 4 # e
    BY <1>1, <1>2, <1>4
  <2>2. b + 4 \in Words
    BY <1>1
  <2> QED
    BY <1>1, <1>5, <2>1, <2>2
<1>8. k.mem[e] = s + (FREE_BLOCK + TopFlag(h, b))
  <2>1. e # b /\ e # e + 8 /\ e # p + 8 /\ e # a + 4 /\ e # e + 4
    BY <1>1, <1>2, <1>4
  <2> QED
    BY <1>2, <1>5, <2>1
<1>9. k.mem[e + 4] = n
  <2>1. e + 4 # b /\ e + 4 # e + 8 /\ e + 4 # p + 8 /\ e + 4 # a + 4
    BY <1>1, <1>2, <1>4
  <2> QED
    BY <1>2, <1>5, <2>1
<1>10. k.mem[e + 8] = x
  <2>1. e + 8 # b
    BY <1>1, <1>2
  <2> QED
    BY <1>2, <1>5, <2>1
<1>11. ASSUME ~IsTop(h, b) PROVE k.mem[a] = h.mem[a] /\ k.mem[a + 4] = s
  <2>1. a \in Words /\ a + 4 \in Words
    BY <1>1, <1>11 DEF Tiles
  <2>2. a # b /\ a # e + 8 /\ a # p + 8 /\ a # a + 4 /\ a # e + 4 /\ a # e
    BY <1>1, <1>2, <1>4, <2>1
  <2>3. a + 4 # b /\ a + 4 # e + 8 /\ a + 4 # p + 8
    BY <1>1, <1>2, <1>4, <2>1
  <2> QED
    BY <1>5, <2>1, <2>2, <2>3
<1>12. ASSUME NEW c \in B, c # b
       PROVE  /\ c # a => k.mem[c] = h.mem[c] /\ k.mem[c + 4] = h.mem[c + 4]
              /\ c # p => k.mem[c + 8] = h.mem[c + 8]
  <2>1. /\ c \in Words /\ c + 4 \in Words /\ c + 8 \in Words /\ c \in Int
        /\ c + 12 <= b \/ c = a \/ c >= a + 12
    BY <1>1, <1>6, <1>12
  <2>2. c # p + 8 /\ c + 4 # p + 8
    <3>1. CASE p = NULL
      <4>1. c \in Words /\ c + 4 \in Words
        BY <1>1
      <4>2. c % 4 = 0 /\ (c + 4) % 4 = 0
        BY <4>1, WordFacts
      <4> QED
        BY <3>1, <4>2
    <3>2. CASE p # NULL
      BY <1>1, <1>3, <3>2, LinkApart
    <3> QED
      BY <3>1, <3>2
  <2>3. /\ c # b /\ c # e + 8 /\ c # e + 4 /\ c # e /\ (c # a => c # a + 4)
        /\ c + 4 # b /\ c + 4 # e + 8 /\ c + 4 # e + 4 /\ c + 4 # e /\ (c # a => c + 4 # a + 4)
        /\ c + 8 # b /\ c + 8 # e + 8 /\ c + 8 # e + 4 /\ c + 8 # e /\ c + 8 # a + 4
    BY <1>1, <1>2, <2>1
  <2>4. ASSUME c # a PROVE k.mem[c] = h.mem[c] /\ k.mem[c + 4] = h.mem[c + 4]
    BY <1>5, <2>1, <2>2, <2>3, <2>4
  <2>5. ASSUME c # p PROVE k.mem[c + 8] = h.mem[c + 8]
    <3>1. c + 8 # p + 8
      BY <1>3, <2>1, <2>5
    <3> QED
      BY <1>5, <2>1, <2>3, <3>1
  <2> QED
    BY <2>4, <2>5
<1>13. SameHeaders(h, k, B \ {b, a})
  BY <1>12 DEF SameHeaders
<1> QED
  BY <1>7, <1>8, <1>9, <1>10, <1>11, <1>12, <1>13

(* What malloc promises: block b is reserved, no other one, and has the    *)
(* room for n bytes.                                                       *)
Took(h, B, b, n, g, C) ==
  /\ Laid(g, C)
  /\ C \ FreeOf(g, C) = (B \ FreeOf(h, B)) \union {b}
  /\ \A c \in B \ FreeOf(h, B) : Size(g, c) = Size(h, c)
  /\ Size(g, b) \in {n, n + 4, n + 8}
  /\ g.counter = Counted(h.counter)
  /\ (\A c \in FreeOf(h, B) : IsTop(h, c)) => \A c \in FreeOf(g, C) : IsTop(g, c)

LEMMA CountedType ==
  ASSUME NEW h \in Heaps
  PROVE  Counted(h.counter) \in Int
<1>1. h.counter \in Int /\ IntMax \in Int
  BY HeapAssumption DEF Heaps
<1> QED
  BY <1>1 DEF Counted

LEMMA SplitTook ==
  ASSUME NEW h, NEW B, NEW b, NEW n, Takes(h, B, b, n), Size(h, b) >= n + 12,
         NEW k, NEW p, NEW x,
         Precedes(FreeOf(h, B), b - 1, p), Follows(FreeOf(h, B), b, x),
         SplitWrites(h, k, b, n, p, x),
         NEW g, g = [update_first_free_block(Relinked(k, find_prev_free(k, b)))
                       EXCEPT !.counter = Counted(@)]
  PROVE  \E C : Took(h, B, b, n, g, C)
<1> DEFINE F == FreeOf(h, B)
           e == b + n + 8
           s == Size(h, b) - n - 8
           a == Above(h, b)
           C == B \union {e}
           G == (F \ {b}) \union {e}
<1>1. /\ h \in Heaps /\ Tiles(h, B) /\ TopsFree(h, B) /\ Settled(h, B) /\ Linked(h, B)
      /\ h.heap_initialized /\ ~h.top_block_flag
      /\ b \in B /\ IsFree(h, b) /\ b \in Int /\ n \in Int /\ n % 4 = 0 /\ n >= 4
      /\ s \in Int /\ a \in Int /\ a = e + s + 8 /\ s >= 4 /\ Size(h, b) \in Int
      /\ \A c \in B : /\ c \in Int /\ 0 <= c
                      /\ c <= b \/ c = a \/ c >= a + 12
  BY TakesFacts
<1>2. e \in Int /\ e >= b + 12 /\ e + 12 <= a
  BY SplitAddress
<1>3. k \in Heaps /\ SameGlobals(h, k)
  BY DEF SplitWrites
<1>4. IsTop(h, b) => s >= FB_HEADER_SIZE
  BY <1>1 DEF Takes
<1> HIDE DEF e, s, a
<1>5. /\ k.mem[b] = n /\ k.mem[b + 4] = h.mem[b + 4]
      /\ k.mem[e] = s + (FREE_BLOCK + TopFlag(h, b)) /\ k.mem[e + 4] = n /\ k.mem[e + 8] = x
      /\ ~IsTop(h, b) => k.mem[a] = h.mem[a] /\ k.mem[a + 4] = s
      /\ SameHeaders(h, k, B \ {b, a})
      /\ \A c \in B \ {b, p} : k.mem[c + 8] = h.mem[c + 8]
  BY SplitHeaders DEF e, s, a
<1> HIDE DEF C
<1>6. /\ e \notin B
      /\ Tiles(k, C)
      /\ Size(k, b) = n /\ Above(k, b) = e /\ ~IsTop(k, b) /\ ~IsFree(k, b)
      /\ Size(k, e) = s /\ Above(k, e) = a /\ (IsTop(k, e) <=> IsTop(h, b)) /\ IsFree(k, e)
      /\ \A c \in B \ {b} : /\ Size(k, c) = Size(h, c) /\ Above(k, c) = Above(h, c)
                            /\ (IsTop(k, c) <=> IsTop(h, c)) /\ (IsFree(k, c) <=> IsFree(h, c))
  <2>1. e = b + n + 8 /\ s = Size(h, b) - n - 8 /\ a = Above(h, b) /\ C = B \union {e}
    BY DEF e, s, a, C
  <2>2. SplitDone(h, k, B, b, n, e, s, a)
    BY <1>5, <2>1 DEF SplitDone
  <2>3. SplitShape(h, k, B, b, n, e, s, a)
    BY <1>1, <1>3, <1>4, <2>2, SplitTiles
  <2> QED
    BY <2>1, <2>3 DEF SplitShape
<1>7. FreeOf(k, C) = G
  BY <1>1, <1>6 DEF FreeOf, C
<1>8. TopsFree(k, C)
  BY <1>1, <1>6 DEF TopsFree, C
<1>9. Settled(k, C)
  <2> SUFFICES ASSUME NEW c \in C, IsFree(k, c), ~IsTop(k, c) PROVE ~IsFree(k, Above(k, c))
    BY DEF Settled
  <2>1. CASE c = e
    <3>1. ~IsTop(h, b) /\ Above(k, c) = a
      BY <1>6, <2>1
    <3>2. ~IsFree(h, a) /\ a \in B
      BY <1>1, <3>1 DEF Settled, Tiles, a
    <3>3. a # b
      BY <1>1, <1>2
    <3> QED
      BY <1>6, <3>1, <3>2, <3>3
  <2>2. CASE c # e
    <3>1. c \in B \ {b} /\ IsFree(h, c) /\ ~IsTop(h, c) /\ Above(k, c) = Above(h, c)
      BY <1>6, <2>2 DEF C
    <3>2. Above(h, c) \in B /\ ~IsFree(h, Above(h, c))
      BY <1>1, <3>1 DEF Settled, Tiles
    <3> QED
      BY <1>6, <3>1, <3>2
  <2> QED
    BY <2>1, <2>2
<1>10. find_prev_free(k, b) = p
  <2>1. SameBelow(h, k, B, b)
    <3> SUFFICES ASSUME NEW c \in B, c < b PROVE k.mem[c] = h.mem[c] /\ k.mem[c + 4] = h.mem[c + 4]
      BY DEF SameBelow, SameHeaders
    <3>1. c \in B \ {b, a}
      BY <1>1, <1>2
    <3> QED
      BY <1>5, <3>1 DEF SameHeaders
  <2>2. Precedes(F, b - 1, find_prev_free(k, b))
    BY <1>1, <1>3, <1>5, <1>6, <2>1, PrevFoundFrom
  <2> QED
    BY <1>1, <2>2, PrecedesOne, FreeNumbers
<1> DEFINE j == update_first_free_block(Relinked(k, p))
<1>11. F \in SUBSET Int /\ F \subseteq B /\ G \in SUBSET Int
  BY <1>1, <1>2, FreeNumbers
<1>12. p \in Int /\ (p = NULL \/ (p \in F /\ p < b))
  BY <1>1, <1>11, PrecedesFacts
<1>13. /\ j \in Heaps
       /\ Tiles(j, C) /\ TopsFree(j, C) /\ Settled(j, C) /\ Linked(j, C)
       /\ SameHeaders(k, j, C) /\ FreeOf(j, C) = G
       /\ j.counter = k.counter /\ j.top_block_flag = k.top_block_flag
       /\ j.heap_initialized = k.heap_initialized
  <2>1. SameOutside(F, G, b, a)
    BY <1>1, <1>2, <1>11 DEF SameOutside
  <2>2. p = NULL \/ (p \in G /\ k.counter > Warmup)
    <3> SUFFICES ASSUME p # NULL PROVE p \in G /\ k.counter > Warmup
      OBVIOUS
    <3>1. p \in F /\ p \in B /\ p < b /\ b \in F
      BY <1>1, <1>11, <1>12 DEF FreeOf
    <3>2. ~IsTop(h, p)
      <4>1. PICK t \in B : IsTop(h, t) /\ \A d \in B : d <= t /\ (IsTop(h, d) => d = t)
        BY <1>1, TopIs
      <4> QED
        BY <1>1, <3>1, <4>1
    <3>3. h.counter > Warmup
      BY <3>1, <3>2 DEF Takes, Searches
    <3> QED
      BY <1>1, <1>3, <3>1, <3>3 DEF SameGlobals
  <2>3. LinkedInside(G, G \ {p}, b, a, p, k.mem)
    <3> SUFFICES ASSUME NEW d \in G \ {p}, b <= d, d < a
                 PROVE  Follows(G, d, k.mem[d + 8])
      BY DEF LinkedInside
    <3>1. d = e
      BY <1>1, <1>11
    <3>2. \A c \in Int : c \in F /\ c > b <=> c \in G /\ c > e
      BY <1>1, <1>2, <1>11
    <3>3. Follows(G, e, x)
      BY <1>1, <1>2, <1>11, <3>2, FollowsSame
    <3> QED
      BY <1>5, <3>1, <3>3
  <2>4. LinksOutside(G \ {p}, b, a, p, h.mem, k.mem)
    <3> SUFFICES ASSUME NEW d \in G \ {p}, d < b \/ d >= a PROVE k.mem[d + 8] = h.mem[d + 8]
      BY DEF LinksOutside
    <3>1. d \in B \ {b, p}
      BY <1>1, <1>2, <1>11
    <3> QED
      BY <1>5, <3>1
  <2>5. b <= a
    BY <1>1, <1>2
  <2>6. MayRelink(h, B, k, C, b, a, p, p)
    <3> HIDE DEF G
    <3> QED
      BY <1>1, <1>3, <1>6, <1>7, <1>8, <1>9, <2>1, <2>2, <2>3, <2>4, <2>5 DEF MayRelink
  <2> QED
    BY <1>7, <2>6, RelinkWorks DEF Relaid
<1>14. g = [j EXCEPT !.counter = Counted(j.counter)]
  BY <1>10
<1> HIDE DEF j, G, F
<1>15. /\ g \in Heaps /\ g.mem = j.mem /\ g.first_free_block = j.first_free_block
       /\ g.heap_initialized /\ ~g.top_block_flag /\ g.counter = Counted(h.counter)
  <2>1. Counted(j.counter) \in Int
    BY <1>13, CountedType
  <2>2. /\ g \in Heaps /\ g.mem = j.mem /\ g.first_free_block = j.first_free_block
        /\ g.heap_initialized = j.heap_initialized /\ g.top_block_flag = j.top_block_flag
        /\ g.counter = Counted(j.counter)
    BY <1>13, <1>14, <2>1 DEF Heaps
  <2>3. j.heap_initialized /\ ~j.top_block_flag /\ j.counter = h.counter
    BY <1>1, <1>3, <1>13 DEF SameGlobals
  <2> QED
    BY <2>2, <2>3
<1>16. Laid(g, C) /\ FreeOf(g, C) = G
  BY <1>13, <1>15, LaidSame
<1>17. \A c \in C : Size(g, c) = Size(k, c) /\ (IsTop(g, c) <=> IsTop(k, c))
  <2>1. SameHeaders(k, g, C)
    BY <1>13, <1>15 DEF SameHeaders
  <2> QED
    BY <2>1, HeaderKept
<1>18. C \ FreeOf(g, C) = (B \ F) \union {b}
  BY <1>1, <1>2, <1>6, <1>11, <1>16 DEF C, G
<1>19. \A c \in B \ F : c # b /\ Size(g, c) = Size(h, c)
  <2>1. b \in F
    BY <1>1 DEF F, FreeOf
  <2> QED
    BY <1>6, <1>17, <2>1 DEF C
<1>20. Size(g, b) = n
  <2>1. b \in C
    BY <1>1 DEF C
  <2>2. Size(k, b) = n
    BY <1>1, <1>6
  <2> QED
    BY <1>17, <2>1, <2>2
<1>21. ASSUME \A c \in F : IsTop(h, c), NEW c \in G PROVE IsTop(g, c)
  <2>1. b \in F /\ c \in C
    BY <1>1, <1>7 DEF F, FreeOf
  <2> QED
    BY <1>6, <1>17, <1>11, <1>21, <2>1 DEF C, G
<1> QED
  BY <1>15, <1>16, <1>18, <1>19, <1>20, <1>21 DEF Took, F

(* The size of the block below is what the header says of it.              *)
LEMMA PrevSizeSame ==
  ASSUME NEW h \in Heaps, NEW k \in Heaps, NEW B, Tiles(h, B), NEW b \in B, b # HEAP_BASE,
         SameBelow(h, k, B, b)
  PROVE  Size(k, Below(h, b)) = h.mem[b + 4]
<1> DEFINE d == Below(h, b)
<1>1. d \in B /\ d < b /\ Above(h, d) = b
  BY BelowBlock
<1>2. d = b - PrevSize(h, b) - 8 /\ PrevSize(h, b) \in Int /\ b \in Int
  BY BlockFacts
<1> HIDE DEF d
<1>3. Above(h, d) = d + Size(h, d) + 8 /\ Size(h, d) \in Int /\ d \in Int
  BY <1>1, BlockFacts
<1>4. Size(h, d) = PrevSize(h, b)
  BY <1>1, <1>2, <1>3
<1>5. Size(k, d) = Size(h, d)
  <2>1. d \in {c \in B : c < b}
    BY <1>1
  <2> QED
    BY <2>1, HeaderKept DEF SameBelow
<1> QED
  BY <1>4, <1>5 DEF d, PrevSize

(* SetPrevSize(., b, .) as malloc calls it changes nothing.                *)
PrevSet(h, k, b) == IF b = HEAP_BASE THEN k ELSE SetPrevSize(k, b, Size(k, Below(h, b)))

SameContents(k, j) ==
  j \in Heaps /\ SameGlobals(k, j) /\ \A w \in Words : j.mem[w] = k.mem[w]

LEMMA PrevSetSame ==
  ASSUME NEW h \in Heaps, NEW k \in Heaps, NEW B, Tiles(h, B), NEW b \in B,
         SameBelow(h, k, B, b), k.mem[b + 4] = h.mem[b + 4]
  PROVE  SameContents(k, PrevSet(h, k, b))
<1> USE DEF SameContents
<1>1. CASE b = HEAP_BASE
  <2>1. PrevSet(h, k, b) = k
    BY <1>1 DEF PrevSet
  <2> QED
    BY <2>1 DEF SameGlobals
<1>2. CASE b # HEAP_BASE
  <2> DEFINE v == Size(k, Below(h, b))
             j == SetPrevSize(k, b, v)
  <2>1. v = h.mem[b + 4]
    BY <1>2, PrevSizeSame
  <2>2. b \in Int /\ b + 4 \in Words /\ v \in Int /\ 0 \in 0 .. 3
    BY <2>1, BlockFacts DEF Heaps
  <2>3. PrevSet(h, k, b) = j
    BY <1>2 DEF PrevSet
  <2> HIDE DEF v
  <2>4. Writes(k, j, b + 4, v)
    BY <2>2, SetWrites
  <2> HIDE DEF j
  <2> QED
    BY <2>1, <2>3, <2>4 DEF Writes
<1> QED
  BY <1>1, <1>2

(* Enough is left over for a block.                                        *)
LEMMA TakenSplit ==
  ASSUME NEW h, NEW B, NEW b, NEW n, Takes(h, B, b, n), Size(h, b) >= n + 12
  PROVE  \E C : Took(h, B, b, n, Taken(h, b, n), C)
<1> DEFINE k1 == SetCtrl(Split(h, b, n), b, n, 0)
           k == PrevSet(h, k1, b)
<1>1. /\ h \in Heaps /\ Tiles(h, B) /\ b \in B /\ b \in Int /\ n \in Int /\ Size(h, b) \in Int
      /\ \A c \in B : c \in Int /\ c \in Words /\ (c = b \/ c + 12 <= b \/ c >= b + 12)
  BY TakesFacts
<1>2. Taken(h, b, n) = [update_first_free_block(Relinked(k, find_prev_free(k, b)))
                          EXCEPT !.counter = Counted(@)]
  <2>1. Size(h, b) - n >= 12
    BY <1>1
  <2>2. ~(Size(h, b) - n < 12) /\ ~(Size(h, b) - n <= 0)
    BY <1>1, <2>1
  <2> QED
    BY <2>1, <2>2 DEF Taken, PrevSet
<1>3. PICK p, x : /\ Precedes(FreeOf(h, B), b - 1, p)
                  /\ Follows(FreeOf(h, B), b, x)
                  /\ SplitWrites(h, k1, b, n, p, x)
  BY SplitWorks
<1> DEFINE e == b + n + 8
           s == Size(h, b) - n - 8
           a == Above(h, b)
<1> HIDE DEF k1
<1>4. k1.mem[b + 4] = h.mem[b + 4] /\ SameHeaders(h, k1, B \ {b, a})
  BY <1>3, SplitHeaders
<1>5. k1 \in Heaps /\ SameGlobals(h, k1)
  BY <1>3 DEF SplitWrites
<1>6. SameBelow(h, k1, B, b)
  <2>1. e >= b + 12 /\ e + 12 <= a /\ a \in Int /\ e \in Int
    BY TakesFacts, SplitAddress
  <2>2. \A c \in B : c < b => c \in B \ {b, a}
    BY <1>1, <2>1
  <2> QED
    BY <1>4, <2>2 DEF SameHeaders, SameBelow
<1>7. SameContents(k1, k)
  BY <1>1, <1>4, <1>5, <1>6, PrevSetSame
<1> HIDE DEF k
<1>8. SplitWrites(h, k, b, n, p, x)
  BY <1>3, <1>7 DEF SplitWrites, SameGlobals, SameContents
<1> QED
  BY <1>2, <1>3, <1>8, SplitTook

(* What is left over goes with the block.                                  *)
LEMMA TakenWhole ==
  ASSUME NEW h, NEW B, NEW b, NEW n, Takes(h, B, b, n), Size(h, b) < n + 12
  PROVE  \E C : Took(h, B, b, n, Taken(h, b, n), C)
<1> DEFINE F == FreeOf(h, B)
           z == Size(h, b)
           a == Above(h, b)
           k1 == SetCtrl(h, b, n, 0)
           k2 == PrevSet(h, k1, b)
           k == SetCtrl(k2, b, n + (z - n), 0)
           p == find_prev_free(k2, b)
           j == update_first_free_block(Relinked(k, p))
           g == Taken(h, b, n)
           G == F \ {b}
<1>1. /\ h \in Heaps /\ Tiles(h, B) /\ TopsFree(h, B) /\ Settled(h, B) /\ Linked(h, B)
      /\ h.heap_initialized /\ ~h.top_block_flag
      /\ b \in B /\ IsFree(h, b) /\ b \in Int /\ n \in Int /\ n % 4 = 0 /\ n >= 4 /\ n <= z
      /\ z \in Int /\ a \in Int /\ a = b + z + 8
      /\ \A c \in B : /\ c \in Int /\ 0 <= c
                      /\ c \in Words /\ c + 4 \in Words /\ c + 8 \in Words
                      /\ c <= b \/ c = a \/ c >= a + 12
                      /\ c = b \/ c + 12 <= b \/ c >= b + 12
  BY TakesFacts
<1>2. ~IsTop(h, b) /\ a \in B
  <2>1. ~(z >= n + 20)
    BY <1>1
  <2>2. ~IsTop(h, b)
    BY <2>1 DEF Takes
  <2> QED
    BY <1>1, <2>2 DEF Tiles
<1>3. z - n \in {0, 4, 8} /\ z % 4 = 0
  <2>1. z % 4 = 0
    BY <1>1, BlockFacts
  <2> QED
    BY <1>1, <2>1
<1>4. 0 \in 0 .. 3
  OBVIOUS
<1> HIDE DEF z, a
<1>5. Writes(h, k1, b, n)
  <2>1. Writes(h, k1, b, n + 0)
    BY <1>1, <1>4, SetWrites
  <2> QED
    BY <1>1, <2>1
<1> HIDE DEF k1
<1>6. k1 \in Heaps /\ SameGlobals(h, k1) /\ k1.mem[b + 4] = h.mem[b + 4] /\ SameBelow(h, k1, B, b)
  <2>1. ASSUME NEW c \in B, c < b PROVE k1.mem[c] = h.mem[c] /\ k1.mem[c + 4] = h.mem[c + 4]
    <3>1. c # b /\ c + 4 # b
      BY <1>1, <2>1
    <3> QED
      BY <1>1, <1>5, <3>1 DEF Writes
  <2>2. b + 4 # b
    BY <1>1
  <2> QED
    BY <1>1, <1>5, <2>1, <2>2 DEF Writes, SameBelow, SameHeaders
<1>7. SameContents(k1, k2)
  BY <1>1, <1>6, PrevSetSame
<1> HIDE DEF k2
<1>8. /\ k2 \in Heaps /\ ~k2.top_block_flag /\ SameGlobals(h, k2)
      /\ k2.mem[b] = n /\ k2.mem[b + 4] = h.mem[b + 4] /\ SameBelow(h, k2, B, b)
  <2>1. k2 \in Heaps /\ ~k2.top_block_flag /\ SameGlobals(h, k2)
    BY <1>1, <1>6, <1>7 DEF SameContents, SameGlobals
  <2>2. k2.mem[b] = n /\ k2.mem[b + 4] = h.mem[b + 4]
    BY <1>1, <1>5, <1>6, <1>7 DEF SameContents, Writes
  <2>3. SameBelow(h, k2, B, b)
    BY <1>1, <1>6, <1>7 DEF SameContents, SameBelow, SameHeaders
  <2> QED
    BY <2>1, <2>2, <2>3
<1>9. g = [j EXCEPT !.counter = Counted(j.counter)]
  <2>1. z - n < 12
    BY <1>1, <1>3
  <2>2. z - n < 12 /\ ~(z - n >= 12) /\ ~IsTop(h, b) /\ ~k2.top_block_flag
    BY <1>1, <1>2, <1>8, <2>1
  <2> QED
    BY <2>2 DEF Taken, PrevSet, k2, k1, z
<1>10. Writes(k2, k, b, z)
  <2>1. n + (z - n) \in Int /\ n + (z - n) + 0 = z
    BY <1>1
  <2>2. Writes(k2, k, b, n + (z - n) + 0)
    BY <1>1, <1>4, <1>8, <2>1, SetWrites
  <2> QED
    BY <2>1, <2>2
<1> HIDE DEF k
<1>11. k \in Heaps /\ SameGlobals(h, k) /\ \A w \in Words : k.mem[w] = IF w = b THEN z ELSE h.mem[w]
  <2>1. k \in Heaps /\ SameGlobals(h, k)
    BY <1>8, <1>10 DEF Writes, SameGlobals
  <2>2. ASSUME NEW w \in Words PROVE k.mem[w] = IF w = b THEN z ELSE h.mem[w]
    BY <1>5, <1>7, <1>10 DEF SameContents, Writes
  <2> QED
    BY <2>1, <2>2
<1>12. MergeShape(h, k, B, b, a, 0) /\ Merged(B, b, a) = B
  <2>1. Merged(B, b, a) = B
    <3>1. \A c \in B : c <= b \/ c >= a
      BY <1>1
    <3> QED
      BY <3>1 DEF Merged
  <2>2. a # TopEnd
    <3>1. a \in Words
      BY <1>1, <1>2
    <3>2. a < MB_HEXA /\ MB_HEXA \in Int
      BY <3>1, WordFacts, HeapAssumption
    <3>3. TopEnd = MB_HEXA + 8
      BY DEF TopEnd
    <3> HIDE DEF a
    <3> QED
      BY <3>2, <3>3
  <2>3. k.mem[b] = (a - b - 8) + 0 /\ k.mem[b + 4] = h.mem[b + 4]
    BY <1>1, <1>11
  <2>4. k.mem[a] = h.mem[a] /\ k.mem[a + 4] = a - b - 8
    <3>1. Below(h, a) = b
      BY <1>1, <1>2, AboveBlock DEF a
    <3>2. Below(h, a) = a - h.mem[a + 4] - 8 /\ h.mem[a + 4] \in Int
      BY <1>1, <1>2, BlockFacts DEF PrevSize
    <3>3. a # b /\ a + 4 # b /\ a \in Words /\ a + 4 \in Words
      BY <1>1, <1>2, <1>3
    <3>4. h.mem[a + 4] = a - b - 8
      BY <1>1, <3>1, <3>2
    <3>5. k.mem[a] = h.mem[a] /\ k.mem[a + 4] = h.mem[a + 4]
      BY <1>11, <3>3
    <3> QED
      BY <3>4, <3>5
  <2>5. SameHeaders(h, k, B \ {b, a})
    <3> SUFFICES ASSUME NEW c \in B, c # b PROVE k.mem[c] = h.mem[c] /\ k.mem[c + 4] = h.mem[c + 4]
      BY DEF SameHeaders
    <3>1. c + 4 # b
      BY <1>1
    <3> QED
      BY <1>1, <1>11, <3>1
  <2>6. b < a /\ 0 \in 0 .. 3 /\ 0 \notin {1, 3}
    BY <1>1, <1>3
  <2>7. MergeDone(h, k, B, b, a, 0)
    BY <1>1, <1>2, <2>1, <2>2, <2>3, <2>4, <2>5, <2>6 DEF MergeDone
  <2> QED
    BY <1>1, <1>11, <2>1, <2>7, MergeTiles
<1>13. /\ Tiles(k, B) /\ Size(k, b) = z /\ ~IsTop(k, b) /\ ~IsFree(k, b)
       /\ \A c \in B \ {b} : /\ Size(k, c) = Size(h, c) /\ Above(k, c) = Above(h, c)
                             /\ (IsTop(k, c) <=> IsTop(h, c)) /\ (IsFree(k, c) <=> IsFree(h, c))
  BY <1>1, <1>12 DEF MergeShape
<1>14. FreeOf(k, B) = G /\ TopsFree(k, B)
  BY <1>1, <1>13 DEF FreeOf, TopsFree
<1>15. Settled(k, B)
  <2> SUFFICES ASSUME NEW c \in B, IsFree(k, c), ~IsTop(k, c) PROVE ~IsFree(k, Above(k, c))
    BY DEF Settled
  <2>1. c # b /\ IsFree(h, c) /\ ~IsTop(h, c) /\ Above(k, c) = Above(h, c)
    BY <1>13
  <2>2. Above(h, c) \in B /\ ~IsFree(h, Above(h, c))
    BY <1>1, <2>1 DEF Settled, Tiles
  <2> QED
    BY <1>13, <2>1, <2>2
<1>16. Precedes(F, b - 1, p)
  <2>1. HasHeader(k2, b, n, 0)
    BY <1>1, <1>4, <1>8 DEF HasHeader
  <2>2. ~IsFree(k2, b)
    BY <2>1, HeaderFields
  <2> QED
    BY <1>1, <1>8, <2>2, PrevFoundFrom
<1>17. F \in SUBSET Int /\ F \subseteq B /\ G \in SUBSET Int
  BY <1>1, FreeNumbers
<1> HIDE DEF p
<1>18. p \in Int /\ (p = NULL \/ (p \in F /\ p < b))
  BY <1>1, <1>16, <1>17, PrecedesFacts
<1>19. /\ j \in Heaps
       /\ Tiles(j, B) /\ TopsFree(j, B) /\ Settled(j, B) /\ Linked(j, B)
       /\ SameHeaders(k, j, B) /\ FreeOf(j, B) = G
       /\ j.counter = k.counter /\ j.top_block_flag = k.top_block_flag
       /\ j.heap_initialized = k.heap_initialized
  <2>1. SameOutside(F, G, b, a)
    BY <1>1, <1>3, <1>17 DEF SameOutside
  <2>2. p = NULL \/ (p \in G /\ k.counter > Warmup)
    <3> SUFFICES ASSUME p # NULL PROVE p \in G /\ k.counter > Warmup
      OBVIOUS
    <3>1. p \in F /\ p < b /\ b \in F
      BY <1>1, <1>18 DEF FreeOf
    <3>2. h.counter > Warmup
      BY <1>2, <3>1 DEF Takes, Searches
    <3> QED
      BY <1>1, <1>11, <3>1, <3>2 DEF SameGlobals
  <2>3. LinkedInside(G, G \ {p}, b, a, p, k.mem)
    BY <1>1, <1>17 DEF LinkedInside
  <2>4. LinksOutside(G \ {p}, b, a, p, h.mem, k.mem)
    <3> SUFFICES ASSUME NEW d \in G \ {p} PROVE k.mem[d + 8] = h.mem[d + 8]
      BY DEF LinksOutside
    <3>1. d \in B /\ d # b
      BY <1>17
    <3>2. d + 8 # b /\ d + 8 \in Words
      BY <1>1, <3>1
    <3> QED
      BY <1>11, <3>2
  <2>5. b <= a
    BY <1>1, <1>3
  <2>6. MayRelink(h, B, k, B, b, a, p, p)
    <3> HIDE DEF G
    <3> QED
      BY <1>1, <1>11, <1>13, <1>14, <1>15, <1>16, <2>1, <2>2, <2>3, <2>4, <2>5 DEF MayRelink
  <2> QED
    BY <1>14, <2>6, RelinkWorks DEF Relaid
<1> HIDE DEF j, G, F, g
<1>20. /\ g \in Heaps /\ g.mem = j.mem /\ g.first_free_block = j.first_free_block
       /\ g.heap_initialized /\ ~g.top_block_flag /\ g.counter = Counted(h.counter)
  <2>1. Counted(j.counter) \in Int
    BY <1>19, CountedType
  <2> QED
    BY <1>1, <1>9, <1>11, <1>19, <2>1 DEF Heaps, SameGlobals
<1>21. Laid(g, B) /\ FreeOf(g, B) = G
  BY <1>19, <1>20, LaidSame
<1>22. \A c \in B : Size(g, c) = Size(k, c) /\ (IsTop(g, c) <=> IsTop(k, c))
  <2>1. SameHeaders(k, g, B)
    BY <1>19, <1>20 DEF SameHeaders
  <2> QED
    BY <2>1, HeaderKept
<1>23. b \in F
  BY <1>1 DEF F, FreeOf
<1>24. B \ FreeOf(g, B) = (B \ F) \union {b}
  BY <1>1, <1>17, <1>21, <1>23 DEF G
<1>25. \A c \in B \ F : c # b /\ Size(g, c) = Size(h, c)
  BY <1>13, <1>22, <1>23
<1>26. Size(g, b) \in {n, n + 4, n + 8}
  BY <1>1, <1>3, <1>13, <1>22
<1>27. ~ \A c \in F : IsTop(h, c)
  BY <1>2, <1>23
<1> QED
  BY <1>20, <1>21, <1>24, <1>25, <1>26, <1>27 DEF Took, F, g

LEMMA TakenWorks ==
  ASSUME NEW h, NEW B, NEW b, NEW n, Takes(h, B, b, n)
  PROVE  \E C : Took(h, B, b, n, Taken(h, b, n), C)
<1>1. Size(h, b) \in Int /\ n \in Int
  BY TakesFacts
<1> QED
  BY <1>1, TakenSplit, TakenWhole

-----------------------------------------------------------------------------
(* free gives a block back. *)

(* Block b is reserved, and find_next_free searches.                       *)
Gives(h, B, b) == Laid(h, B) /\ h.counter > Warmup /\ b \in B /\ ~IsFree(h, b)

SameCount(h, k) ==
  /\ k.counter = h.counter /\ k.top_block_flag = h.top_block_flag
  /\ k.heap_initialized = h.heap_initialized

(* The blocks from s up to z, b and free ones, are one, which is free.     *)
Unites(h, k, B, b, s, z, f) ==
  /\ k \in Heaps /\ SameCount(h, k) /\ MergeDone(h, k, B, s, z, f)
  /\ f \in {2, 3} /\ s <= b /\ b < z
  /\ z \in B => ~IsFree(h, z)
  /\ \A c \in B : s <= c /\ c < z /\ c # b => IsFree(h, c)
  /\ \A c \in B \ {b} : k.mem[c + 8] = h.mem[c + 8]

LEMMA GivesFacts ==
  ASSUME NEW h, NEW B, NEW b, Gives(h, B, b)
  PROVE  /\ h \in Heaps /\ Tiles(h, B) /\ TopsFree(h, B) /\ Settled(h, B) /\ Linked(h, B)
         /\ h.heap_initialized /\ ~h.top_block_flag
         /\ b \in B /\ ~IsFree(h, b) /\ ~IsTop(h, b) /\ Above(h, b) \in B
         /\ \A c \in B : /\ c \in Int /\ 0 <= c
                         /\ c \in Words /\ c + 4 \in Words /\ c + 8 \in Words
                         /\ Size(h, c) \in Int /\ Size(h, c) % 4 = 0 /\ Size(h, c) >= 4
                         /\ Above(h, c) = c + Size(h, c) + 8 /\ Above(h, c) \in Int
         /\ \A c, d \in B : c = d \/ c + 12 <= d \/ d + 12 <= c
         /\ \A c \in B : c <= b \/ c >= Above(h, b)
<1>1. h \in Heaps /\ Tiles(h, B) /\ TopsFree(h, B) /\ b \in B /\ ~IsFree(h, b)
  BY DEF Gives, Laid
<1>2. ~IsTop(h, b) /\ Above(h, b) \in B
  BY <1>1 DEF TopsFree, Tiles
<1>3. \A c \in B : /\ c \in Int /\ 0 <= c
                   /\ c \in Words /\ c + 4 \in Words /\ c + 8 \in Words
                   /\ Size(h, c) \in Int /\ Size(h, c) % 4 = 0 /\ Size(h, c) >= 4
                   /\ Above(h, c) = c + Size(h, c) + 8 /\ Above(h, c) \in Int
  BY <1>1, BlockFacts
<1>4. \A c, d \in B : c = d \/ c + 12 <= d \/ d + 12 <= c
  BY <1>1, <1>3, HeadersApart
<1>5. \A c \in B : c <= b \/ c >= Above(h, b)
  BY <1>1, <1>3 DEF Tiles
<1> QED
  BY <1>1, <1>2, <1>3, <1>4, <1>5 DEF Gives, Laid

(* The header of b says that it is free. *)
Marked(h, b) == SetCtrl(h, b, Size(h, b), FREE_BLOCK + TopFlag(h, b))

LEMMA MarkedWrites ==
  ASSUME NEW h, NEW B, NEW b, Gives(h, B, b)
  PROVE  /\ Writes(h, Marked(h, b), b, Size(h, b) + 2)
         /\ Size(Marked(h, b), b) = Size(h, b) /\ ~IsTop(Marked(h, b), b)
         /\ Above(Marked(h, b), b) = Above(h, b)
         /\ \A c \in B \ {b} : Marked(h, b).mem[c] = h.mem[c]
<1> DEFINE m == Marked(h, b)
           s == Size(h, b)
<1>1. /\ h \in Heaps /\ b \in B /\ ~IsTop(h, b) /\ b \in Int /\ b \in Words
      /\ s \in Int /\ s % 4 = 0 /\ Above(h, b) = b + s + 8
      /\ \A c \in B : c \in Words
  BY GivesFacts
<1>2. m = SetCtrl(h, b, s, 2)
  BY <1>1 DEF Marked, TopFlag
<1> HIDE DEF m, s
<1>3. 2 \in 0 .. 3
  OBVIOUS
<1>4. Writes(h, m, b, s + 2)
  BY <1>1, <1>2, <1>3, SetWrites
<1>5. HasHeader(m, b, s, 2)
  BY <1>1, <1>3, <1>4 DEF HasHeader, Writes
<1>6. Size(m, b) = s /\ ~IsTop(m, b)
  BY <1>5, HeaderFields
<1>7. Above(m, b) = Above(h, b)
  BY <1>6 DEF Above, s
<1>8. \A c \in B \ {b} : m.mem[c] = h.mem[c]
  BY <1>1, <1>4 DEF Writes
<1> QED
  BY <1>4, <1>6, <1>7, <1>8 DEF m, s

(* The block above is reserved. *)
LEMMA MergesNotUp ==
  ASSUME NEW h, NEW B, NEW b, Gives(h, B, b), ~IsFree(h, Above(h, b))
  PROVE  Unites(h, MergeWithTop(Marked(h, b), b), B, b, b, Above(h, b), 2)
<1> DEFINE m == Marked(h, b)
           s == Size(h, b)
           a == Above(h, b)
<1>1. /\ h \in Heaps /\ Tiles(h, B) /\ b \in B /\ ~IsTop(h, b) /\ a \in B /\ b \in Int /\ b \in Words
      /\ s \in Int /\ s >= 4 /\ a = b + s + 8 /\ a \in Int
      /\ \A c \in B : /\ c \in Int /\ c \in Words /\ c + 4 \in Words /\ c + 8 \in Words
                      /\ c = b \/ c + 12 <= b \/ b + 12 <= c
                      /\ c <= b \/ c >= a
  BY GivesFacts
<1>2. Writes(h, m, b, s + 2) /\ Above(m, b) = a /\ m.mem[a] = h.mem[a]
  BY <1>1, MarkedWrites
<1>3. MergeWithTop(m, b) = m
  <2>1. ~IsFree(m, a)
    BY <1>2, SameHeader
  <2> QED
    BY <1>2, <2>1 DEF MergeWithTop
<1> HIDE DEF m, s, a
<1>4. \A w \in Words : m.mem[w] = IF w = b THEN s + 2 ELSE h.mem[w]
  BY <1>2 DEF Writes
<1>5. SameHeaders(h, m, Merged(B, b, a) \ {b, a})
  <2> SUFFICES ASSUME NEW c \in B, c # b PROVE m.mem[c] = h.mem[c] /\ m.mem[c + 4] = h.mem[c + 4]
    BY DEF SameHeaders, Merged
  <2>1. c + 4 # b
    BY <1>1
  <2> QED
    BY <1>1, <1>4, <2>1
<1>6. m.mem[b] = (a - b - 8) + 2 /\ m.mem[b + 4] = h.mem[b + 4]
  <2>1. b + 4 # b /\ b + 4 \in Words /\ s = a - b - 8
    BY <1>1
  <2> QED
    BY <1>1, <1>4, <2>1
<1>7. m.mem[a] = h.mem[a] /\ m.mem[a + 4] = a - b - 8
  <2>1. Below(h, a) = b
    BY <1>1, AboveBlock DEF a
  <2>2. Below(h, a) = a - h.mem[a + 4] - 8 /\ h.mem[a + 4] \in Int
    BY <1>1, BlockFacts DEF PrevSize
  <2>3. h.mem[a + 4] = a - b - 8
    BY <1>1, <2>1, <2>2
  <2>4. a # b /\ a + 4 # b /\ a \in Words /\ a + 4 \in Words
    BY <1>1
  <2> QED
    BY <1>4, <2>3, <2>4
<1>8. a # TopEnd
  <2>1. a < MB_HEXA /\ MB_HEXA \in Int /\ TopEnd = MB_HEXA + 8
    BY <1>1, HeapAssumption, WordFacts DEF TopEnd
  <2> QED
    BY <1>1, <2>1
<1>9. MergeDone(h, m, B, b, a, 2)
  <2>1. b < a /\ 2 \in 0 .. 3 /\ 2 \notin {1, 3}
    BY <1>1
  <2> QED
    BY <1>1, <1>5, <1>6, <1>7, <1>8, <2>1 DEF MergeDone
<1>10. m \in Heaps /\ SameCount(h, m)
  BY <1>2 DEF Writes, SameGlobals, SameCount
<1>11. \A c \in B \ {b} : m.mem[c + 8] = h.mem[c + 8]
  <2> SUFFICES ASSUME NEW c \in B \ {b} PROVE m.mem[c + 8] = h.mem[c + 8]
    OBVIOUS
  <2>1. c + 8 # b
    BY <1>1
  <2> QED
    BY <1>1, <1>4, <2>1
<1>12. ~IsFree(h, a)
  BY DEF a
<1>13. b < a /\ b <= b /\ 2 \in {2, 3} /\ \A c \in B : ~(b <= c /\ c < a /\ c # b)
  BY <1>1
<1>14. Unites(h, m, B, b, b, a, 2)
  BY <1>9, <1>10, <1>11, <1>12, <1>13 DEF Unites
<1> QED
  BY <1>3, <1>14 DEF m, a

(* What check_merge_with_top writes when the block above is free.          *)
UpWrites(h, k, b, a, z, f) ==
  /\ k \in Heaps /\ SameCount(h, k)
  /\ \A w \in Words : w # a =>
       k.mem[w] = IF w = b + 8 THEN b
                  ELSE IF w = z + 4 THEN z - b - 8
                  ELSE IF w = b THEN z - b - 8 + f
                  ELSE h.mem[w]

LEMMA MergeUpWrites ==
  ASSUME NEW h, NEW B, NEW b, Gives(h, B, b), NEW a, a = Above(h, b), IsFree(h, a),
         NEW z, z = Above(h, a), NEW f, f = FREE_BLOCK + TopFlag(h, a)
  PROVE  UpWrites(h, MergeWithTop(Marked(h, b), b), b, a, z, f)
<1> DEFINE m == Marked(h, b)
           k1 == SetCtrl(m, b, Size(m, b) + Size(m, a) + RB_HEADER_SIZE,
                         FREE_BLOCK + TopFlag(m, b) + TopFlag(m, a))
           k2 == IF IsTop(m, a)
                 THEN SetCtrl([k1 EXCEPT !.first_free_block = b], a, Size(m, a), FREE_BLOCK)
                 ELSE k1
           k3 == SetPrevSize(k2, Above(m, a), Size(k2, b))
           k == SetNextFree(k3, find_prev_free(k3, b), b)
<1>1. /\ h \in Heaps /\ Tiles(h, B) /\ b \in B /\ ~IsTop(h, b) /\ a \in B /\ b \in Int /\ b \in Words
      /\ b + 8 \in Words
      /\ a \in Int /\ a \in Words /\ a >= b + 12 /\ z \in Int /\ z >= a + 12 /\ z % 4 = 0
      /\ a = b + Size(h, b) + 8 /\ Size(h, b) \in Int
      /\ z = a + Size(h, a) + 8 /\ Size(h, a) \in Int
  <2>1. a % 4 = 0 /\ Size(h, a) % 4 = 0
    BY GivesFacts, WordFacts
  <2> QED
    BY <2>1, GivesFacts
<1>2. /\ Writes(h, m, b, Size(h, b) + 2) /\ Size(m, b) = Size(h, b) /\ ~IsTop(m, b)
      /\ Above(m, b) = a /\ m.mem[a] = h.mem[a]
  <2>1. a \in B /\ a # b
    BY <1>1
  <2> HIDE DEF k1, k2, k3, k
  <2>2. /\ Writes(h, m, b, Size(h, b) + 2) /\ Size(m, b) = Size(h, b) /\ ~IsTop(m, b)
        /\ Above(m, b) = Above(h, b)
    BY MarkedWrites
  <2> HIDE DEF m
  <2>3. m.mem[a] = h.mem[a]
    BY <1>1, <2>1, <2>2 DEF Writes
  <2> QED
    BY <2>2, <2>3
<1>3. /\ Size(m, a) = Size(h, a) /\ Above(m, a) = z /\ TopFlag(m, a) = TopFlag(h, a)
      /\ IsFree(m, a)
  BY <1>2, SameHeader DEF TopFlag
<1>4. f \in {2, 3}
  BY DEF TopFlag
<1>5. MergeWithTop(m, b) = k
  BY <1>2, <1>3 DEF MergeWithTop
<1>6. Size(m, b) + Size(m, a) + 8 = z - b - 8 /\ z - b - 8 \in Int
  BY <1>1, <1>2, <1>3
<1>7. FREE_BLOCK + TopFlag(m, b) + TopFlag(m, a) = f
  <2>1. TopFlag(m, b) = 0 /\ TopFlag(h, a) \in 0 .. 1
    BY <1>2 DEF TopFlag
  <2> QED
    BY <1>3, <2>1
<1>8. m \in Heaps
  BY <1>2 DEF Writes
<1> HIDE DEF m
<1>9. Writes(m, k1, b, z - b - 8 + f)
  <2> DEFINE v == z - b - 8
  <2>1. k1 = SetCtrl(m, b, v, f)
    BY <1>6, <1>7
  <2>2. v \in Int /\ f \in 0 .. 3
    BY <1>4, <1>6
  <2> HIDE DEF k1, v
  <2>3. Writes(m, k1, b, v + f)
    BY <1>1, <1>8, <2>1, <2>2, SetWrites
  <2> QED
    BY <2>3 DEF v
<1> HIDE DEF k1
<1>10. k1 \in Heaps /\ SameCount(m, k1)
  BY <1>9 DEF Writes, SameGlobals, SameCount
<1>11. k2 \in Heaps /\ SameCount(k1, k2) /\ \A w \in Words : w # a => k2.mem[w] = k1.mem[w]
  <2>1. CASE ~IsTop(m, a)
    <3>1. k2 = k1
      BY <2>1
    <3> HIDE DEF k2
    <3> QED
      BY <1>10, <3>1 DEF SameCount
  <2>2. CASE IsTop(m, a)
    <3> DEFINE j == [k1 EXCEPT !.first_free_block = b]
    <3>1. k2 = SetCtrl(j, a, Size(m, a), 2)
      BY <2>2
    <3>2. j \in Heaps /\ j.mem = k1.mem /\ SameCount(k1, j)
      BY <1>1, <1>10 DEF Heaps, SameCount
    <3>3. Size(m, a) \in Int /\ 2 \in 0 .. 3
      BY <1>1, <1>3
    <3> HIDE DEF j, k2
    <3>4. Writes(j, k2, a, Size(m, a) + 2)
      BY <1>1, <3>1, <3>2, <3>3, SetWrites
    <3> QED
      BY <3>2, <3>4 DEF Writes, SameGlobals, SameCount
  <2> QED
    BY <2>1, <2>2
<1> HIDE DEF k2
<1>12. k2.mem[b] = z - b - 8 + f
  BY <1>1, <1>9, <1>11 DEF Writes
<1>13. Size(k2, b) = z - b - 8
  <2>1. (z - b - 8) % 4 = 0
    <3>1. b % 4 = 0
      BY <1>1, WordFacts
    <3> QED
      BY <1>1, <3>1
  <2>2. HasHeader(k2, b, z - b - 8, f)
    BY <1>4, <1>6, <1>12, <2>1 DEF HasHeader
  <2> QED
    BY <2>2, HeaderFields
<1>14. Writes(k2, k3, z + 4, z - b - 8)
  <2>1. k3 = SetPrevSize(k2, z, z - b - 8)
    BY <1>3, <1>13
  <2>2. 0 \in 0 .. 3
    OBVIOUS
  <2> HIDE DEF k3
  <2> QED
    BY <1>1, <1>6, <1>11, <2>1, <2>2, SetWrites
<1> HIDE DEF k3
<1>15. find_prev_free(k3, b) = b
  <2>1. k3.mem[b] = z - b - 8 + f
    <3>1. z + 4 # b
      BY <1>1
    <3> QED
      BY <1>1, <1>12, <1>14, <3>1 DEF Writes
  <2>2. (z - b - 8) % 4 = 0
    <3>1. b % 4 = 0
      BY <1>1, WordFacts
    <3> QED
      BY <1>1, <3>1
  <2>3. HasHeader(k3, b, z - b - 8, f)
    BY <1>4, <1>6, <2>1, <2>2 DEF HasHeader
  <2>4. IsFree(k3, b)
    BY <1>4, <2>3, HeaderFields
  <2> QED
    BY <1>1, <2>4, FreeFound
<1>16. Writes(k3, k, b + 8, b)
  <2>1. k = SetNextFree(k3, b, b) /\ 0 \in 0 .. 3 /\ k3 \in Heaps
    BY <1>14, <1>15 DEF Writes
  <2> HIDE DEF k
  <2> QED
    BY <1>1, <2>1, SetWrites
<1> HIDE DEF k
<1>17. k \in Heaps /\ SameCount(h, k)
  BY <1>2, <1>9, <1>11, <1>14, <1>16 DEF Writes, SameGlobals, SameCount
<1>18. ASSUME NEW w \in Words, w # a
       PROVE  k.mem[w] = IF w = b + 8 THEN b
                         ELSE IF w = z + 4 THEN z - b - 8
                         ELSE IF w = b THEN z - b - 8 + f
                         ELSE h.mem[w]
  BY <1>2, <1>9, <1>11, <1>14, <1>16, <1>18 DEF Writes
<1>19. UpWrites(h, k, b, a, z, f)
  BY <1>17, <1>18 DEF UpWrites
<1> QED
  BY <1>5, <1>19 DEF m

(* The block above is free. *)
LEMMA MergesUp ==
  ASSUME NEW h, NEW B, NEW b, Gives(h, B, b), NEW a, a = Above(h, b), IsFree(h, a),
         NEW z, z = Above(h, a), NEW f, f = FREE_BLOCK + TopFlag(h, a)
  PROVE  Unites(h, MergeWithTop(Marked(h, b), b), B, b, b, z, f)
<1> DEFINE k == MergeWithTop(Marked(h, b), b)
<1>1. UpWrites(h, k, b, a, z, f)
  BY MergeUpWrites
<1> HIDE DEF k
<1>2. /\ h \in Heaps /\ Tiles(h, B) /\ Settled(h, B) /\ b \in B /\ a \in B
      /\ b \in Int /\ a \in Int /\ z \in Int
      /\ a >= b + 12 /\ z >= a + 12
      /\ \A c \in B : /\ c \in Int /\ c \in Words /\ c + 4 \in Words /\ c + 8 \in Words
                      /\ c = b \/ c + 12 <= b \/ b + 12 <= c
                      /\ c = a \/ c + 12 <= a \/ a + 12 <= c
                      /\ c <= b \/ c >= a
  BY GivesFacts
<1>3. \A c \in B : c <= a \/ c >= z
  BY <1>2 DEF Tiles
<1>4. \A w \in Words : w # a =>
        k.mem[w] = IF w = b + 8 THEN b
                   ELSE IF w = z + 4 THEN z - b - 8
                   ELSE IF w = b THEN z - b - 8 + f
                   ELSE h.mem[w]
  BY <1>1 DEF UpWrites
<1>5. /\ f \in {2, 3} /\ (z = TopEnd <=> f = 3) /\ (z \in B \/ z = TopEnd)
      /\ z \in B => ~IsFree(h, z) /\ z # TopEnd
      /\ z = TopEnd => z - b - 8 >= 12
  <2>1. CASE IsTop(h, a)
    <3>1. z = TopEnd /\ Size(h, a) >= 12 /\ f = 3
      BY <1>2, <2>1 DEF Tiles, TopFlag
    <3>2. z \notin B
      <4>1. TopEnd \notin Words
        BY HeapAssumption, WordFacts DEF TopEnd
      <4> QED
        BY <1>2, <3>1, <4>1
    <3> QED
      BY <1>2, <3>1, <3>2
  <2>2. CASE ~IsTop(h, a)
    <3>1. z \in B /\ ~IsFree(h, z) /\ f = 2
      BY <1>2, <2>2 DEF Tiles, Settled, TopFlag
    <3>2. z # TopEnd
      <4>1. TopEnd \notin Words
        BY HeapAssumption, WordFacts DEF TopEnd
      <4> QED
        BY <1>2, <3>1, <4>1
    <3> QED
      BY <3>1, <3>2
  <2> QED
    BY <2>1, <2>2
<1>6. \A c \in B : c > a => c = z \/ c >= z + 12
  <2> SUFFICES ASSUME NEW c \in B, c > a, c # z PROVE c >= z + 12
    OBVIOUS
  <2>1. c > z
    BY <1>2, <1>3
  <2>2. z \in B
    <3>1. c < MB_HEXA /\ TopEnd = MB_HEXA + 8 /\ MB_HEXA \in Int
      BY <1>2, WordFacts, HeapAssumption DEF TopEnd
    <3> QED
      BY <1>2, <1>5, <2>1, <3>1
  <2> QED
    BY <1>2, <2>1, <2>2, HeadersApart
<1>7. ASSUME NEW c \in B, c # b, c # a
      PROVE  /\ k.mem[c] = h.mem[c] /\ (c # z => k.mem[c + 4] = h.mem[c + 4])
             /\ k.mem[c + 8] = h.mem[c + 8]
  <2>1. /\ c \in Words /\ c + 4 \in Words /\ c + 8 \in Words /\ c \in Int
        /\ c + 12 <= b \/ c = z \/ c >= z + 12
    BY <1>2, <1>3, <1>6, <1>7
  <2>2. /\ c # a /\ c # b + 8 /\ c # z + 4 /\ c # b
        /\ c + 4 # a /\ c + 4 # b + 8 /\ (c # z => c + 4 # z + 4) /\ c + 4 # b
        /\ c + 8 # a /\ c + 8 # b + 8 /\ c + 8 # z + 4 /\ c + 8 # b
    BY <1>2, <2>1
  <2> QED
    BY <1>4, <2>1, <2>2
<1>8. ASSUME NEW c \in B, c # b PROVE k.mem[c + 8] = h.mem[c + 8]
  <2>1. CASE c = a
    <3>1. a + 8 # a /\ a + 8 # b + 8 /\ a + 8 # z + 4 /\ a + 8 # b /\ a + 8 \in Words
      BY <1>2
    <3> QED
      BY <1>4, <2>1, <3>1
  <2>2. CASE c # a
    BY <1>7, <1>8, <2>2
  <2> QED
    BY <2>1, <2>2
<1>9. k.mem[b] = (z - b - 8) + f /\ k.mem[b + 4] = h.mem[b + 4]
  <2>1. /\ b \in Words /\ b # a /\ b # b + 8 /\ b # z + 4
        /\ b + 4 \in Words /\ b + 4 # a /\ b + 4 # b + 8 /\ b + 4 # z + 4 /\ b + 4 # b
    BY <1>2
  <2> QED
    BY <1>4, <2>1
<1>10. z \in B => k.mem[z] = h.mem[z] /\ k.mem[z + 4] = z - b - 8
  <2> SUFFICES ASSUME z \in B PROVE k.mem[z] = h.mem[z] /\ k.mem[z + 4] = z - b - 8
    OBVIOUS
  <2>1. z # a /\ z # b /\ z + 4 \in Words /\ z + 4 # a /\ z + 4 # b + 8
    BY <1>2
  <2> QED
    BY <1>4, <1>7, <2>1
<1>11. SameHeaders(h, k, Merged(B, b, z) \ {b, z})
  <2> SUFFICES ASSUME NEW c \in B, c # b, c # z, c <= b \/ c >= z
               PROVE  k.mem[c] = h.mem[c] /\ k.mem[c + 4] = h.mem[c + 4]
    BY DEF SameHeaders, Merged
  <2>1. c # a
    BY <1>2
  <2> QED
    BY <1>7, <2>1
<1>12. b < z /\ f \in 0 .. 3 /\ (f = 3 <=> f \in {1, 3})
  BY <1>2, <1>5
<1>13. MergeDone(h, k, B, b, z, f)
  BY <1>2, <1>5, <1>9, <1>10, <1>11, <1>12 DEF MergeDone
<1>14. \A c \in B : b <= c /\ c < z /\ c # b => IsFree(h, c)
  <2> SUFFICES ASSUME NEW c \in B, b < c, c < z PROVE c = a
    BY <1>2
  <2> QED
    BY <1>2, <1>3
<1>15. k \in Heaps /\ SameCount(h, k)
  BY <1>1 DEF UpWrites
<1>16. b <= b
  BY <1>2
<1> QED
  BY <1>5, <1>8, <1>12, <1>13, <1>14, <1>15, <1>16 DEF Unites, k

LEMMA MergedUp ==
  ASSUME NEW h, NEW B, NEW b, Gives(h, B, b)
  PROVE  \E z, f : Unites(h, MergeWithTop(Marked(h, b), b), B, b, b, z, f)
<1>1. CASE IsFree(h, Above(h, b))
  BY <1>1, MergesUp
<1>2. CASE ~IsFree(h, Above(h, b))
  BY <1>2, MergesNotUp
<1> QED
  BY <1>1, <1>2

(* The block that was merged so far, and the one below. *)
LEMMA UnitesFacts ==
  ASSUME NEW h, NEW B, NEW b, Gives(h, B, b), NEW k, NEW z, NEW f,
         Unites(h, k, B, b, b, z, f)
  PROVE  /\ k \in Heaps /\ b < z /\ z \in Int /\ f \in {2, 3} /\ (f = 3 <=> z = TopEnd)
         /\ z \in B \/ z = TopEnd
         /\ k.mem[b] = (z - b - 8) + f /\ Size(k, b) = z - b - 8
         /\ (IsTop(k, b) <=> f = 3) /\ IsFree(k, b) /\ TopFlag(k, b) = f - 2
         /\ Below(k, b) = Below(h, b)
         /\ \A c \in B : c < b => /\ k.mem[c] = h.mem[c] /\ k.mem[c + 4] = h.mem[c + 4]
                                  /\ Size(k, c) = Size(h, c)
                                  /\ (IsFree(k, c) <=> IsFree(h, c))
<1>1. /\ MergeDone(h, k, B, b, z, f) /\ k \in Heaps /\ f \in {2, 3} /\ b < z
  BY DEF Unites
<1>2. /\ z \in Int /\ (z \in B \/ z = TopEnd) /\ (z = TopEnd <=> f \in {1, 3})
      /\ k.mem[b] = (z - b - 8) + f /\ k.mem[b + 4] = h.mem[b + 4]
      /\ SameHeaders(h, k, Merged(B, b, z) \ {b, z})
  BY <1>1 DEF MergeDone
<1>3. f = 3 <=> z = TopEnd
  BY <1>1, <1>2
<1>4. b \in Int /\ b % 4 = 0 /\ z % 4 = 0
  <2>1. \A c \in B : c \in Int /\ c % 4 = 0
    BY GivesFacts, WordFacts
  <2>2. TopEnd % 4 = 0
    BY HeapAssumption DEF TopEnd
  <2> QED
    BY <1>2, <2>1, <2>2, GivesFacts
<1>5. HasHeader(k, b, z - b - 8, f)
  <2>1. (z - b - 8) % 4 = 0 /\ z - b - 8 \in Int
    BY <1>2, <1>4
  <2> QED
    BY <1>1, <1>2, <2>1 DEF HasHeader
<1>6. Size(k, b) = z - b - 8 /\ (IsTop(k, b) <=> f \in {1, 3}) /\ (IsFree(k, b) <=> f \in {2, 3})
  BY <1>5, HeaderFields
<1>7. (IsTop(k, b) <=> f = 3) /\ IsFree(k, b) /\ TopFlag(k, b) = f - 2
  BY <1>1, <1>6 DEF TopFlag
<1>8. Below(k, b) = Below(h, b)
  BY <1>2 DEF Below, PrevSize
<1>9. ASSUME NEW c \in B, c < b
      PROVE  /\ k.mem[c] = h.mem[c] /\ k.mem[c + 4] = h.mem[c + 4]
             /\ Size(k, c) = Size(h, c) /\ (IsFree(k, c) <=> IsFree(h, c))
  <2>1. c \in Int
    BY GivesFacts
  <2>2. c \in Merged(B, b, z) \ {b, z}
    BY <1>1, <1>2, <1>4, <1>9, <2>1 DEF Merged
  <2>3. k.mem[c] = h.mem[c] /\ k.mem[c + 4] = h.mem[c + 4]
    BY <1>2, <2>2 DEF SameHeaders
  <2> QED
    BY <2>3, SameHeader
<1> QED
  BY <1>1, <1>2, <1>3, <1>6, <1>7, <1>8, <1>9

(* The block below is reserved, or there is none. *)
LEMMA MergesNotDown ==
  ASSUME NEW h, NEW B, NEW b, Gives(h, B, b), NEW k, NEW z, NEW f,
         Unites(h, k, B, b, b, z, f), b = HEAP_BASE \/ ~IsFree(h, Below(h, b))
  PROVE  ~MergesWithBottom(k, b) /\ MergeWithBottom(k, b) = k
<1>1. ~MergesWithBottom(k, b)
  <2>1. CASE b = HEAP_BASE
    <3>1. Below(h, b) = -8
      BY <2>1, GivesFacts DEF Tiles, Below
    <3>2. ~(Below(k, b) >= 0)
      BY <3>1, UnitesFacts
    <3> QED
      BY <3>2 DEF MergesWithBottom
  <2>2. CASE b # HEAP_BASE
    <3>1. Below(h, b) \in B /\ Below(h, b) < b
      BY <2>2, GivesFacts, BelowBlock
    <3>2. ~IsFree(k, Below(k, b))
      BY <2>2, <3>1, UnitesFacts
    <3> QED
      BY <3>2 DEF MergesWithBottom
  <2> QED
    BY <2>1, <2>2
<1> QED
  BY <1>1 DEF MergeWithBottom

(* What check_merge_with_bottom writes when the block below is free.       *)
DownWrites(k, g, b, q, z, f) ==
  /\ g \in Heaps /\ SameCount(k, g)
  /\ \A w \in Words :
       g.mem[w] = IF w = z + 4 THEN z - q - 8
                  ELSE IF w = b THEN z - b - 8 + FREE_BLOCK
                  ELSE IF w = b + 8 THEN NULL
                  ELSE IF w = q THEN z - q - 8 + f
                  ELSE k.mem[w]

LEMMA MergeDownWrites ==
  ASSUME NEW h, NEW B, NEW b, Gives(h, B, b), NEW k, NEW z, NEW f,
         Unites(h, k, B, b, b, z, f), b # HEAP_BASE, NEW q, q = Below(h, b), IsFree(h, q)
  PROVE  MergesWithBottom(k, b) /\ DownWrites(k, MergeWithBottom(k, b), b, q, z, f)
<1> DEFINE k1 == SetCtrl(k, q, Size(k, q) + Size(k, b) + RB_HEADER_SIZE, FREE_BLOCK + TopFlag(k, b))
           k2 == SetNextFree(k1, b, NULL)
           k3 == SetCtrl(k2, b, Size(k, b), FREE_BLOCK)
           k4 == IF IsTop(k, b) THEN k3 ELSE SetPrevSize(k3, Above(k, b), Size(k3, q))
<1>1. /\ k \in Heaps /\ b < z /\ z \in Int /\ f \in {2, 3} /\ (f = 3 <=> z = TopEnd)
      /\ Size(k, b) = z - b - 8 /\ (IsTop(k, b) <=> f = 3) /\ TopFlag(k, b) = f - 2
      /\ Below(k, b) = q
      /\ \A c \in B : c < b => Size(k, c) = Size(h, c) /\ (IsFree(k, c) <=> IsFree(h, c))
  BY UnitesFacts
<1>2. /\ h \in Heaps /\ Tiles(h, B) /\ b \in Int /\ b \in Words /\ b + 8 \in Words
  BY GivesFacts
<1>3. q \in B /\ q < b /\ Above(h, q) = b
  BY <1>2, BelowBlock, GivesFacts
<1>4. q \in Int /\ q \in Words /\ 0 <= q /\ Size(h, q) = b - q - 8
  <2>1. q \in Int /\ 0 <= q /\ q \in Words /\ Size(h, q) \in Int /\ Above(h, q) = q + Size(h, q) + 8
    BY <1>3, GivesFacts
  <2> QED
    BY <1>2, <1>3, <2>1
<1>5. MergesWithBottom(k, b)
  BY <1>1, <1>3, <1>4 DEF MergesWithBottom
<1>6. MergeWithBottom(k, b) = k4
  BY <1>1, <1>5 DEF MergeWithBottom
<1>7. Size(k, q) + Size(k, b) + 8 = z - q - 8 /\ FREE_BLOCK + TopFlag(k, b) = f
  BY <1>1, <1>2, <1>3, <1>4
<1>8. Writes(k, k1, q, z - q - 8 + f)
  <2> DEFINE v == z - q - 8
  <2>1. k1 = SetCtrl(k, q, v, f)
    BY <1>7
  <2>2. v \in Int /\ f \in 0 .. 3
    BY <1>1, <1>4
  <2> HIDE DEF k1, v
  <2>3. Writes(k, k1, q, v + f)
    BY <1>1, <1>4, <2>1, <2>2, SetWrites
  <2> QED
    BY <2>3 DEF v
<1> HIDE DEF k1
<1>9. Writes(k1, k2, b + 8, NULL)
  <2>1. k1 \in Heaps /\ NULL \in Int /\ 0 \in 0 .. 3
    BY <1>8 DEF Writes
  <2> QED
    BY <1>2, <2>1, SetWrites
<1> HIDE DEF k2
<1>10. Writes(k2, k3, b, z - b - 8 + 2)
  <2> DEFINE v == z - b - 8
  <2>1. k3 = SetCtrl(k2, b, v, 2)
    BY <1>1
  <2>2. v \in Int /\ 2 \in 0 .. 3 /\ k2 \in Heaps
    BY <1>1, <1>2, <1>9 DEF Writes
  <2> HIDE DEF k3, v
  <2>3. Writes(k2, k3, b, v + 2)
    BY <1>2, <2>1, <2>2, SetWrites
  <2> QED
    BY <2>3 DEF v
<1> HIDE DEF k3
<1>11. Size(k3, q) = z - q - 8
  <2>1. q # b /\ q # b + 8
    BY <1>2, <1>3, <1>4
  <2>2. k3.mem[q] = z - q - 8 + f
    BY <1>4, <1>8, <1>9, <1>10, <2>1 DEF Writes
  <2>3. (z - q - 8) % 4 = 0 /\ z - q - 8 \in Int
    <3>1. q % 4 = 0 /\ TopEnd % 4 = 0
      BY <1>4, WordFacts, HeapAssumption DEF TopEnd
    <3>2. z % 4 = 0
      <4>1. z \in B \/ z = TopEnd
        BY UnitesFacts
      <4>2. z \in B => z \in Words
        BY GivesFacts
      <4> QED
        BY <3>1, <4>1, <4>2, WordFacts
    <3> QED
      BY <1>1, <1>4, <3>1, <3>2
  <2>4. HasHeader(k3, q, z - q - 8, f)
    BY <1>1, <2>2, <2>3 DEF HasHeader
  <2> QED
    BY <2>4, HeaderFields
<1>12. k4 \in Heaps /\ SameGlobals(k3, k4)
       /\ \A w \in Words : k4.mem[w] = IF w = z + 4 THEN z - q - 8 ELSE k3.mem[w]
  <2>1. k3 \in Heaps
    BY <1>10 DEF Writes
  <2>2. CASE IsTop(k, b)
    <3>1. z + 4 \notin Words
      BY <1>1, <2>2, HeapAssumption, WordFacts DEF TopEnd
    <3> QED
      BY <2>1, <2>2, <3>1 DEF SameGlobals
  <2>3. CASE ~IsTop(k, b)
    <3> DEFINE v == z - q - 8
    <3>1. Above(k, b) = z
      BY <1>1, <1>2 DEF Above
    <3>2. k4 = SetPrevSize(k3, z, v)
      BY <1>11, <2>3, <3>1
    <3>3. v \in Int /\ 0 \in 0 .. 3
      BY <1>1, <1>4
    <3> HIDE DEF k4, v
    <3>4. Writes(k3, k4, z + 4, v)
      BY <1>1, <2>1, <3>2, <3>3, SetWrites
    <3> QED
      BY <3>4 DEF Writes, v
  <2> QED
    BY <2>2, <2>3
<1> HIDE DEF k4
<1>13. SameCount(k, k4)
  BY <1>8, <1>9, <1>10, <1>12 DEF Writes, SameGlobals, SameCount
<1>14. b # b + 8
  BY <1>2
<1>15. ASSUME NEW w \in Words
       PROVE  k4.mem[w] = IF w = z + 4 THEN z - q - 8
                          ELSE IF w = b THEN z - b - 8 + FREE_BLOCK
                          ELSE IF w = b + 8 THEN NULL
                          ELSE IF w = q THEN z - q - 8 + f
                          ELSE k.mem[w]
  BY <1>8, <1>9, <1>10, <1>12, <1>14 DEF Writes
<1>16. DownWrites(k, k4, b, q, z, f)
  BY <1>12, <1>13, <1>15 DEF DownWrites
<1> QED
  BY <1>5, <1>6, <1>16

(* The block below is free. *)
LEMMA MergesDown ==
  ASSUME NEW h, NEW B, NEW b, Gives(h, B, b), NEW k, NEW z, NEW f,
         Unites(h, k, B, b, b, z, f), b # HEAP_BASE, NEW q, q = Below(h, b), IsFree(h, q)
  PROVE  /\ MergesWithBottom(k, b)
         /\ Unites(h, MergeWithBottom(k, b), B, b, q, z, f)
         /\ IsFree(MergeWithBottom(k, b), b)
<1> DEFINE g == MergeWithBottom(k, b)
<1>1. MergesWithBottom(k, b) /\ DownWrites(k, g, b, q, z, f)
  BY MergeDownWrites
<1> HIDE DEF g
<1>2. /\ k \in Heaps /\ b < z /\ z \in Int /\ f \in {2, 3} /\ (f = 3 <=> z = TopEnd)
      /\ z \in B \/ z = TopEnd
      /\ \A c \in B : c < b => k.mem[c] = h.mem[c] /\ k.mem[c + 4] = h.mem[c + 4]
  BY UnitesFacts
<1>3. /\ h \in Heaps /\ Tiles(h, B) /\ b \in B /\ b \in Int
      /\ \A c \in B : /\ c \in Int /\ 0 <= c
                      /\ c \in Words /\ c + 4 \in Words /\ c + 8 \in Words
      /\ \A c, d \in B : c = d \/ c + 12 <= d \/ d + 12 <= c
  BY GivesFacts
<1>4. q \in B /\ q < b /\ q \in Int /\ q + 12 <= b /\ \A d \in B : d < b => d <= q
  <2>1. q \in B /\ q < b /\ \A d \in B : d < b => d <= q
    BY <1>3, BelowBlock
  <2> QED
    BY <1>3, <2>1
<1>5. MergeDone(h, k, B, b, z, f) /\ SameCount(h, k) /\ (z \in B => ~IsFree(h, z))
      /\ (\A c \in B : b <= c /\ c < z /\ c # b => IsFree(h, c))
      /\ (\A c \in B \ {b} : k.mem[c + 8] = h.mem[c + 8])
  BY DEF Unites
<1>6. /\ z \in B => k.mem[z] = h.mem[z]
      /\ SameHeaders(h, k, Merged(B, b, z) \ {b, z})
      /\ z = TopEnd => z - b - 8 >= 12
  BY <1>5 DEF MergeDone
<1>7. \A w \in Words :
        g.mem[w] = IF w = z + 4 THEN z - q - 8
                   ELSE IF w = b THEN z - b - 8 + 2
                   ELSE IF w = b + 8 THEN NULL
                   ELSE IF w = q THEN z - q - 8 + f
                   ELSE k.mem[w]
  BY <1>1 DEF DownWrites
<1>8. g \in Heaps /\ SameCount(h, g)
  BY <1>1, <1>5 DEF DownWrites, SameCount
<1>9. \A c \in B : /\ c = z \/ c + 12 <= z \/ z + 12 <= c
                   /\ c = b \/ c + 12 <= b \/ b + 12 <= c
                   /\ c = q \/ c + 12 <= q \/ q + 12 <= c
  <2>1. TopEnd \in Int /\ \A c \in B : c + 12 <= TopEnd
    <3>1. TopEnd = MB_HEXA + 8 /\ MB_HEXA \in Int
      BY HeapAssumption DEF TopEnd
    <3>2. ASSUME NEW c \in B PROVE c + 12 <= TopEnd
      <4>1. c + 8 < MB_HEXA /\ c \in Int
        BY <1>3, BlockFacts
      <4>2. c + 8 \in Words
        BY <1>3
      <4>3. c + 8 + 4 <= MB_HEXA
        <5>1. (c + 8) % 4 = 0 /\ MB_HEXA % 4 = 0
          BY <4>2, WordFacts, HeapAssumption
        <5> QED
          BY <3>1, <4>1, <5>1
      <4> QED
        BY <3>1, <4>1, <4>3
    <3> QED
      BY <3>1, <3>2
  <2> QED
    BY <1>2, <1>3, <1>4, <2>1
<1>10. g.mem[q] = (z - q - 8) + f /\ g.mem[q + 4] = h.mem[q + 4]
  <2>1. /\ q # z + 4 /\ q # b /\ q # b + 8
        /\ q + 4 # z + 4 /\ q + 4 # b /\ q + 4 # b + 8 /\ q + 4 # q
    BY <1>2, <1>3, <1>4
  <2> QED
    BY <1>2, <1>3, <1>4, <1>7, <2>1
<1>11. z \in B => g.mem[z] = h.mem[z] /\ g.mem[z + 4] = z - q - 8
  <2> SUFFICES ASSUME z \in B PROVE g.mem[z] = h.mem[z] /\ g.mem[z + 4] = z - q - 8
    OBVIOUS
  <2>1. z # z + 4 /\ z # b /\ z # b + 8 /\ z # q
    BY <1>2, <1>3, <1>4
  <2> QED
    BY <1>3, <1>6, <1>7, <2>1
<1>12. ASSUME NEW c \in B, c # b PROVE g.mem[c + 8] = h.mem[c + 8]
  <2>1. /\ c + 8 # z + 4 /\ c + 8 # b /\ c + 8 # b + 8 /\ c + 8 # q
    BY <1>2, <1>3, <1>4, <1>9, <1>12
  <2> QED
    BY <1>3, <1>5, <1>7, <1>12, <2>1
<1>13. SameHeaders(h, g, Merged(B, q, z) \ {q, z})
  <2> SUFFICES ASSUME NEW c \in B, c # q, c # z, c <= q \/ c >= z
               PROVE  g.mem[c] = h.mem[c] /\ g.mem[c + 4] = h.mem[c + 4]
    BY DEF SameHeaders, Merged
  <2>1. c # b /\ (c <= b \/ c >= z)
    BY <1>2, <1>3, <1>4
  <2>2. c \in Merged(B, b, z) \ {b, z}
    BY <2>1 DEF Merged
  <2>3. k.mem[c] = h.mem[c] /\ k.mem[c + 4] = h.mem[c + 4]
    BY <1>6, <2>2 DEF SameHeaders
  <2>4. /\ c # z + 4 /\ c # b /\ c # b + 8 /\ c # q
        /\ c + 4 # z + 4 /\ c + 4 # b /\ c + 4 # b + 8 /\ c + 4 # q
    BY <1>2, <1>3, <1>4, <1>9, <2>1
  <2> QED
    BY <1>3, <1>7, <2>3, <2>4
<1>14. q < z /\ q <= b /\ f \in 0 .. 3 /\ (z = TopEnd <=> f \in {1, 3})
       /\ (z = TopEnd => z - q - 8 >= 12)
  BY <1>2, <1>3, <1>4, <1>6
<1>15. MergeDone(h, g, B, q, z, f)
  BY <1>2, <1>4, <1>10, <1>11, <1>13, <1>14 DEF MergeDone
<1>16. \A c \in B : q <= c /\ c < z /\ c # b => IsFree(h, c)
  <2> SUFFICES ASSUME NEW c \in B, q <= c, c < z, c # b PROVE IsFree(h, c)
    OBVIOUS
  <2>1. c = q \/ c >= b
    BY <1>3, <1>4
  <2> QED
    BY <1>5, <2>1
<1>17. Unites(h, g, B, b, q, z, f)
  BY <1>2, <1>5, <1>8, <1>12, <1>14, <1>15, <1>16 DEF Unites
<1>18. IsFree(g, b)
  <2>1. b # z + 4
    BY <1>2, <1>3
  <2>2. g.mem[b] = z - b - 8 + 2
    BY <1>3, <1>7, <2>1
  <2>3. (z - b - 8) % 4 = 0 /\ z - b - 8 \in Int
    <3>1. b % 4 = 0 /\ TopEnd % 4 = 0
      BY <1>3, WordFacts, HeapAssumption DEF TopEnd
    <3>2. z % 4 = 0
      BY <1>2, <1>3, <3>1, WordFacts
    <3> QED
      BY <1>2, <1>3, <3>1, <3>2
  <2>4. HasHeader(g, b, z - b - 8, 2)
    BY <2>2, <2>3 DEF HasHeader
  <2> QED
    BY <2>4, HeaderFields
<1> QED
  BY <1>1, <1>17, <1>18 DEF g

(* Nothing free is left below the blocks that were merged. *)
Lowest(h, B, s) == \A c \in B : IsFree(h, c) /\ ~IsTop(h, c) => Above(h, c) # s

(* The blocks after merging. *)
United(h, B, k, C, b, s, z) ==
  /\ k \in Heaps /\ Tiles(k, C) /\ TopsFree(k, C) /\ Settled(k, C)
  /\ C = Merged(B, s, z) /\ s \in C /\ s \in FreeOf(k, C)
  /\ \A d \in Int : d \in FreeOf(k, C) <=> d = s \/ (d \in FreeOf(h, B) /\ (d < s \/ d >= z))
  /\ C \ FreeOf(k, C) = (B \ FreeOf(h, B)) \ {b}
  /\ \A c \in C \ {s} : Size(k, c) = Size(h, c)

LEMMA UnitesTiles ==
  ASSUME NEW h, NEW B, NEW b, Gives(h, B, b), NEW k, NEW s, NEW z, NEW f,
         Unites(h, k, B, b, s, z, f), Lowest(h, B, s)
  PROVE  United(h, B, k, Merged(B, s, z), b, s, z)
<1> DEFINE C == Merged(B, s, z)
<1>1. /\ h \in Heaps /\ Tiles(h, B) /\ TopsFree(h, B) /\ Settled(h, B)
      /\ b \in B /\ ~IsFree(h, b)
      /\ \A c \in B : c \in Int
  BY GivesFacts
<1>2. /\ k \in Heaps /\ MergeDone(h, k, B, s, z, f) /\ f \in {2, 3} /\ s <= b /\ b < z
      /\ z \in B => ~IsFree(h, z)
      /\ \A c \in B : s <= c /\ c < z /\ c # b => IsFree(h, c)
  BY DEF Unites
<1>3. s \in B /\ z \in Int /\ s < z /\ (z \in B \/ z = TopEnd) /\ (z = TopEnd <=> f \in {1, 3})
  BY <1>2 DEF MergeDone
<1>4. MergeShape(h, k, B, s, z, f)
  BY <1>1, <1>2, MergeTiles
<1>5. /\ Tiles(k, C) /\ Above(k, s) = z
      /\ (IsTop(k, s) <=> f \in {1, 3}) /\ IsFree(k, s)
      /\ \A c \in C \ {s} :
           /\ Size(k, c) = Size(h, c) /\ Above(k, c) = Above(h, c)
           /\ (IsTop(k, c) <=> IsTop(h, c)) /\ (IsFree(k, c) <=> IsFree(h, c))
  BY <1>2, <1>4 DEF MergeShape
<1>6. C \subseteq B /\ s \in C /\ \A c \in B : c \in C <=> c <= s \/ c >= z
  BY <1>1, <1>3 DEF Merged
<1> HIDE DEF C
<1>7. TopsFree(k, C)
  BY <1>1, <1>5, <1>6 DEF TopsFree
<1>8. Settled(k, C)
  <2> SUFFICES ASSUME NEW c \in C, IsFree(k, c), ~IsTop(k, c) PROVE ~IsFree(k, Above(k, c))
    BY DEF Settled
  <2>1. Above(k, c) \in C
    BY <1>5 DEF Tiles
  <2>2. CASE c = s
    <3>1. z \in B /\ z # s
      BY <1>1, <1>3, <1>5, <2>2
    <3> QED
      BY <1>2, <1>5, <2>1, <2>2, <3>1
  <2>3. CASE c # s
    <3>1. IsFree(h, c) /\ ~IsTop(h, c) /\ Above(k, c) = Above(h, c)
      BY <1>5, <2>3
    <3>2. ~IsFree(h, Above(h, c)) /\ Above(h, c) # s
      BY <1>1, <1>6, <3>1 DEF Settled, Lowest
    <3> QED
      BY <1>5, <2>1, <3>1, <3>2
  <2> QED
    BY <2>2, <2>3
<1>9. ASSUME NEW d \in Int
      PROVE  d \in FreeOf(k, C) <=> d = s \/ (d \in FreeOf(h, B) /\ (d < s \/ d >= z))
  <2>1. CASE d = s
    BY <1>5, <1>6, <2>1 DEF FreeOf
  <2>2. CASE d # s /\ d \in B
    <3>1. d \in C <=> d < s \/ d >= z
      BY <1>1, <1>3, <1>6, <2>2
    <3> QED
      BY <1>5, <2>2, <3>1 DEF FreeOf
  <2>3. CASE d \notin B
    BY <1>3, <1>6, <2>3 DEF FreeOf
  <2> QED
    BY <2>1, <2>2, <2>3
<1>10. C \ FreeOf(k, C) = (B \ FreeOf(h, B)) \ {b}
  <2>1. ASSUME NEW c \in B PROVE c \in C \ FreeOf(k, C) <=> c \in (B \ FreeOf(h, B)) \ {b}
    <3>1. CASE c = b
      <4>1. s # b => b \notin C
        BY <1>1, <1>2, <1>3, <1>6
      <4> QED
        BY <1>5, <1>6, <3>1, <4>1 DEF FreeOf
    <3>2. CASE c # b /\ c = s
      BY <1>1, <1>2, <1>3, <1>5, <1>6, <3>2 DEF FreeOf
    <3>3. CASE c # b /\ c # s /\ c \in C
      BY <1>5, <3>3 DEF FreeOf
    <3>4. CASE c # b /\ c \notin C
      BY <1>1, <1>2, <1>3, <1>6, <3>4 DEF FreeOf
    <3> QED
      BY <3>1, <3>2, <3>3, <3>4
  <2> QED
    BY <1>6, <2>1
<1>11. s \in FreeOf(k, C)
  BY <1>5, <1>6 DEF FreeOf
<1> QED
  BY <1>2, <1>5, <1>6, <1>7, <1>8, <1>9, <1>10, <1>11 DEF United, C

(* The link of b is set to the next free block above the merged ones.      *)
Relinking(h, B, j, C, b, s, z, x) ==
  /\ United(h, B, j, C, b, s, z) /\ SameCount(h, j)
  /\ Follows(FreeOf(j, C), s, x) /\ j.mem[b + 8] = x
  /\ \A c \in B \ {b} : j.mem[c + 8] = h.mem[c + 8]

LEMMA LinkWritten ==
  ASSUME NEW h, NEW B, NEW b, Gives(h, B, b), NEW k, NEW s, NEW z, NEW f,
         Unites(h, k, B, b, s, z, f), Lowest(h, B, s),
         NEW j, j = SetNextFree(k, b, find_next_free(k, s))
  PROVE  /\ \E x : Relinking(h, B, j, Merged(B, s, z), b, s, z, x)
         /\ \A w \in Words : w # b + 8 => j.mem[w] = k.mem[w]
<1> DEFINE C == Merged(B, s, z)
           x == find_next_free(k, s)
<1>1. United(h, B, k, C, b, s, z)
  BY UnitesTiles
<1> HIDE DEF C
<1>2. /\ k \in Heaps /\ Tiles(k, C) /\ TopsFree(k, C) /\ Settled(k, C)
      /\ C = Merged(B, s, z) /\ s \in C
  BY <1>1 DEF United
<1>3. /\ h \in Heaps /\ Tiles(h, B) /\ b \in B /\ b \in Int /\ b + 8 \in Words /\ h.counter > Warmup
      /\ \A c \in B : c \in Int /\ c \in Words /\ c + 4 \in Words /\ c + 8 \in Words
  BY GivesFacts DEF Gives
<1>4. SameCount(h, k) /\ \A c \in B \ {b} : k.mem[c + 8] = h.mem[c + 8]
  BY DEF Unites
<1>5. Follows(FreeOf(k, C), s, x)
  <2>1. k.counter > Warmup
    BY <1>3, <1>4 DEF SameCount
  <2> QED
    BY <1>2, <2>1, NextFound
<1>6. FreeOf(k, C) \in SUBSET Int
  BY <1>2, FreeNumbers
<1>7. x \in Int
  <2>1. x = NULL \/ x \in FreeOf(k, C)
    BY <1>5 DEF Follows
  <2> QED
    BY <1>6, <2>1
<1> HIDE DEF x
<1>8. Writes(k, j, b + 8, x)
  <2>1. j = SetNextFree(k, b, x) /\ 0 \in 0 .. 3
    BY DEF x
  <2> QED
    BY <1>2, <1>3, <1>7, <2>1, SetWrites
<1>9. j \in Heaps /\ SameGlobals(k, j) /\ j.mem[b + 8] = x
      /\ \A w \in Words : w # b + 8 => j.mem[w] = k.mem[w]
  BY <1>3, <1>8 DEF Writes
<1>10. C \subseteq B
  BY <1>2 DEF Merged
<1>11. SameHeaders(k, j, C)
  <2> SUFFICES ASSUME NEW c \in C PROVE j.mem[c] = k.mem[c] /\ j.mem[c + 4] = k.mem[c + 4]
    BY DEF SameHeaders
  <2>1. c \in B /\ c \in Words /\ c + 4 \in Words
    BY <1>3, <1>10
  <2>2. c # b + 8 /\ c + 4 # b + 8
    BY <1>3, <2>1, LinkApart
  <2> QED
    BY <1>9, <2>1, <2>2
<1>12. /\ Tiles(j, C) /\ FreeOf(j, C) = FreeOf(k, C) /\ TopsFree(j, C) /\ Settled(j, C)
  BY <1>2, <1>9, <1>11, TilesSame
<1>13. \A c \in C : Size(j, c) = Size(k, c)
  BY <1>11, HeaderKept
<1>14. United(h, B, j, C, b, s, z)
  <2>1. \A c \in C \ {s} : Size(k, c) = Size(h, c)
    BY <1>1 DEF United
  <2>2. \A c \in C \ {s} : Size(j, c) = Size(h, c)
    BY <1>13, <2>1
  <2>3. /\ s \in FreeOf(k, C)
        /\ \A d \in Int : d \in FreeOf(k, C) <=> d = s \/ (d \in FreeOf(h, B) /\ (d < s \/ d >= z))
        /\ C \ FreeOf(k, C) = (B \ FreeOf(h, B)) \ {b}
    BY <1>1 DEF United
  <2> QED
    BY <1>2, <1>9, <1>12, <2>2, <2>3 DEF United
<1>15. ASSUME NEW c \in B \ {b} PROVE j.mem[c + 8] = h.mem[c + 8]
  <2>1. c + 8 # b + 8 /\ c + 8 \in Words
    BY <1>3
  <2> QED
    BY <1>4, <1>9, <2>1
<1>16. SameCount(h, j)
  BY <1>4, <1>9 DEF SameCount, SameGlobals
<1>17. Relinking(h, B, j, C, b, s, z, x)
  BY <1>5, <1>9, <1>12, <1>14, <1>15, <1>16 DEF Relinking
<1> QED
  BY <1>9, <1>17 DEF C

(* b was not merged with the block below: the link of the free block below *)
(* it is renewed.                                                          *)
LEMMA RelinkBelow ==
  ASSUME NEW h, NEW B, NEW b, Gives(h, B, b), NEW j, NEW C, NEW z, NEW x,
         Relinking(h, B, j, C, b, b, z, x), NEW r, Precedes(FreeOf(h, B), b - 1, r),
         z \in Int, b < z
  PROVE  MayRelink(h, B, j, C, b, z, r, r)
<1> DEFINE F == FreeOf(h, B)
           G == FreeOf(j, C)
<1>1. /\ h \in Heaps /\ Tiles(h, B) /\ Linked(h, B) /\ b \in B /\ b \in Int /\ h.counter > Warmup
  BY GivesFacts DEF Gives
<1>2. /\ j \in Heaps /\ Tiles(j, C) /\ TopsFree(j, C) /\ Settled(j, C)
      /\ \A d \in Int : d \in G <=> d = b \/ (d \in F /\ (d < b \/ d >= z))
      /\ SameCount(h, j) /\ Follows(G, b, x) /\ j.mem[b + 8] = x
      /\ \A c \in B \ {b} : j.mem[c + 8] = h.mem[c + 8]
  BY DEF Relinking, United
<1>3. F \in SUBSET Int /\ F \subseteq B /\ G \in SUBSET Int
  BY <1>1, <1>2, FreeNumbers
<1> HIDE DEF F, G
<1>4. SameOutside(F, G, b, z)
  BY <1>1, <1>2 DEF SameOutside
<1>5. r = NULL \/ r \in G
  <2>1. r \in Int /\ (r = NULL \/ (r \in F /\ r < b))
    <3>1. Precedes(F, b - 1, r)
      BY DEF F
    <3> QED
      BY <1>1, <1>3, <3>1, PrecedesFacts
  <2> QED
    BY <1>2, <2>1
<1>6. j.counter > Warmup
  BY <1>1, <1>2 DEF SameCount
<1>7. LinkedInside(G, G \ {r}, b, z, r, j.mem)
  <2> SUFFICES ASSUME NEW d \in G \ {r}, (b <= d /\ d < z) \/ d = r
               PROVE  Follows(G, d, j.mem[d + 8])
    BY DEF LinkedInside
  <2>1. d = b
    BY <1>1, <1>2, <1>3
  <2> QED
    BY <1>2, <2>1
<1>8. LinksOutside(G \ {r}, b, z, r, h.mem, j.mem)
  <2> SUFFICES ASSUME NEW d \in G \ {r}, (d < b /\ d # r) \/ d >= z
               PROVE  j.mem[d + 8] = h.mem[d + 8]
    BY DEF LinksOutside
  <2>1. d \in Int /\ d # b
    BY <1>1, <1>3
  <2>2. d \in B
    BY <1>2, <1>3, <2>1
  <2> QED
    BY <1>2, <2>1, <2>2
<1>9. b <= z
  BY <1>1
<1> QED
  BY <1>1, <1>2, <1>4, <1>5, <1>6, <1>7, <1>8, <1>9 DEF MayRelink, F, G

(* b was merged with the block q below, whose link is renewed.             *)
LEMMA RelinkMerged ==
  ASSUME NEW h, NEW B, NEW b, Gives(h, B, b), NEW j, NEW C, NEW q, NEW z, NEW x,
         Relinking(h, B, j, C, b, q, z, x), q \in FreeOf(h, B), q < b,
         NEW p, Precedes(FreeOf(h, B), q - 1, p), z \in Int, b < z
  PROVE  MayRelink(h, B, j, C, q, z, p, q)
<1> DEFINE F == FreeOf(h, B)
           G == FreeOf(j, C)
<1>1. /\ h \in Heaps /\ Tiles(h, B) /\ Linked(h, B) /\ b \in B /\ b \in Int /\ h.counter > Warmup
      /\ ~IsFree(h, b)
  BY GivesFacts DEF Gives
<1>2. /\ j \in Heaps /\ Tiles(j, C) /\ TopsFree(j, C) /\ Settled(j, C)
      /\ \A d \in Int : d \in G <=> d = q \/ (d \in F /\ (d < q \/ d >= z))
      /\ SameCount(h, j)
      /\ \A c \in B \ {b} : j.mem[c + 8] = h.mem[c + 8]
  BY DEF Relinking, United
<1>3. F \in SUBSET Int /\ F \subseteq B /\ G \in SUBSET Int /\ b \notin F
  BY <1>1, <1>2, FreeNumbers DEF FreeOf
<1>4. q \in Int /\ q \in F /\ q \in G
  BY <1>2, <1>3
<1>5. \A d \in F : Follows(F, d, h.mem[d + 8])
  BY <1>1 DEF Linked, NextFree
<1> HIDE DEF F, G
<1>6. SameOutside(F, G, q, z)
  BY <1>2, <1>4 DEF SameOutside
<1>7. j.counter > Warmup
  BY <1>1, <1>2 DEF SameCount
<1>8. p = NULL \/ (p \in F /\ p < q)
  <2>1. Precedes(F, q - 1, p)
    BY DEF F
  <2> QED
    BY <1>3, <1>4, <2>1, PrecedesFacts
<1>9. LinkedInside(G, G \ {q}, q, z, p, j.mem)
  <2> SUFFICES ASSUME NEW d \in G \ {q}, (q <= d /\ d < z) \/ d = p
               PROVE  Follows(G, d, j.mem[d + 8])
    BY DEF LinkedInside
  <2>1. d \in Int /\ d # q /\ d \in F /\ (d < q \/ d >= z)
    BY <1>2, <1>3
  <2>2. d = p
    BY <1>4, <2>1
  <2>3. d < q
    <3>1. p # NULL
      BY <1>1, <1>3, <2>1, <2>2, GivesFacts
    <3> QED
      BY <1>8, <2>2, <3>1
  <2>4. Follows(F, d, h.mem[d + 8])
    BY <1>5, <2>1
  <2>5. \A e \in Int : e < q + 1 => (e \in F <=> e \in G)
    BY <1>2, <1>4
  <2>6. Follows(G, d, h.mem[d + 8])
    <3>1. q + 1 \in Int /\ q < q + 1
      BY <1>4
    <3> QED
      BY <1>3, <1>4, <2>1, <2>3, <2>4, <2>5, <3>1, FollowsBelow
  <2>7. d \in B \ {b}
    BY <1>3, <2>1
  <2> QED
    BY <1>2, <2>6, <2>7
<1>10. LinksOutside(G \ {q}, q, z, p, h.mem, j.mem)
  <2> SUFFICES ASSUME NEW d \in G \ {q}, (d < q /\ d # p) \/ d >= z
               PROVE  j.mem[d + 8] = h.mem[d + 8]
    BY DEF LinksOutside
  <2>1. d \in B \ {b}
    BY <1>2, <1>3
  <2> QED
    BY <1>2, <2>1
<1>11. q <= z /\ q < z
  BY <1>1, <1>4
<1> QED
  BY <1>1, <1>2, <1>4, <1>6, <1>7, <1>9, <1>10, <1>11 DEF MayRelink, F, G

(* What free promises: block b is free, and all others are as they were.   *)
Gave(h, B, b, g, C) ==
  /\ Laid(g, C)
  /\ C \ FreeOf(g, C) = (B \ FreeOf(h, B)) \ {b}
  /\ \A c \in (B \ FreeOf(h, B)) \ {b} : Size(g, c) = Size(h, c)
  /\ IsFree(g, b) /\ g.counter = h.counter

LEMMA RelinkGave ==
  ASSUME NEW h, NEW B, NEW b, Gives(h, B, b), NEW j, NEW C, NEW s, NEW z, NEW x,
         Relinking(h, B, j, C, b, s, z, x), s = b \/ IsFree(h, s), IsFree(j, b),
         NEW p, NEW r, MayRelink(h, B, j, C, s, z, p, r), r = NULL \/ r + 8 # b,
         NEW g, g = [update_first_free_block(Relinked(j, r)) EXCEPT !.top_block_flag = FALSE]
  PROVE  Gave(h, B, b, g, C)
<1> DEFINE u == update_first_free_block(Relinked(j, r))
<1>1. Relaid(j, C, u)
  BY RelinkWorks
<1>2. /\ h \in Heaps /\ Tiles(h, B) /\ b \in B /\ b \in Words /\ ~IsFree(h, b)
      /\ h.heap_initialized /\ ~h.top_block_flag
  BY GivesFacts
<1>3. /\ j \in Heaps /\ C = Merged(B, s, z) /\ SameCount(h, j)
      /\ C \ FreeOf(j, C) = (B \ FreeOf(h, B)) \ {b}
      /\ \A c \in C \ {s} : Size(j, c) = Size(h, c)
  BY DEF Relinking, United
<1>4. u.mem[b] = j.mem[b]
  <2>1. Relinked(j, r).mem[b] = j.mem[b]
    <3>1. CASE r = NULL
      BY <3>1 DEF Relinked
    <3>2. CASE r # NULL
      <4>1. r + 8 # b
        BY <3>2
      <4>2. Relinked(j, r) = IF r + 8 \in Words
                             THEN [j EXCEPT !.mem[r + 8] = find_next_free(j, r)]
                             ELSE [j EXCEPT !.strayed = TRUE]
        BY <3>2 DEF Relinked, SetNextFree, Stored
      <4> QED
        BY <1>2, <1>3, <4>1, <4>2 DEF Heaps
    <3> QED
      BY <3>1, <3>2
  <2>2. u.mem = Relinked(j, r).mem
    <3>1. r = NULL => Relinked(j, r) = j
      BY DEF Relinked
    <3>2. r # NULL => Relinked(j, r) = IF r + 8 \in Words
                             THEN [j EXCEPT !.mem[r + 8] = find_next_free(j, r)]
                             ELSE [j EXCEPT !.strayed = TRUE]
      BY DEF Relinked, SetNextFree, Stored
    <3>3. \A e : [Relinked(j, r) EXCEPT !.first_free_block = e].mem = Relinked(j, r).mem
      BY <1>3, <3>1, <3>2 DEF Heaps
    <3> QED
      BY <3>3 DEF update_first_free_block
  <2> QED
    BY <2>1, <2>2
<1> HIDE DEF u
<1>5. /\ u \in Heaps /\ Tiles(u, C) /\ TopsFree(u, C) /\ Settled(u, C) /\ Linked(u, C)
      /\ SameHeaders(j, u, C) /\ FreeOf(u, C) = FreeOf(j, C)
      /\ u.counter = j.counter /\ u.heap_initialized = j.heap_initialized
  BY <1>1 DEF Relaid
<1>6. g = [u EXCEPT !.top_block_flag = FALSE]
  BY DEF u
<1>7. /\ g \in Heaps /\ g.mem = u.mem /\ g.first_free_block = u.first_free_block
      /\ g.heap_initialized = u.heap_initialized /\ g.counter = u.counter /\ ~g.top_block_flag
  BY <1>5, <1>6 DEF Heaps
<1>8. g.heap_initialized
  BY <1>2, <1>3, <1>5, <1>7 DEF SameCount
<1>9. Laid(g, C) /\ FreeOf(g, C) = FreeOf(u, C)
  BY <1>5, <1>7, <1>8, LaidSame
<1>10. C \ FreeOf(g, C) = (B \ FreeOf(h, B)) \ {b}
  BY <1>3, <1>5, <1>9
<1>11. ASSUME NEW c \in (B \ FreeOf(h, B)) \ {b} PROVE Size(g, c) = Size(h, c)
  <2>1. c \in C /\ c # s
    BY <1>3, <1>11 DEF FreeOf
  <2>2. Size(u, c) = Size(j, c)
    BY <1>5, <2>1, HeaderKept
  <2>3. g.mem[c] = u.mem[c]
    BY <1>7
  <2>4. Size(g, c) = Size(u, c)
    BY <2>3, SameHeader
  <2> QED
    BY <1>3, <2>1, <2>2, <2>4
<1>12. IsFree(g, b)
  <2>1. g.mem[b] = j.mem[b]
    BY <1>4, <1>7
  <2> QED
    BY <2>1, SameHeader
<1>13. g.counter = h.counter
  BY <1>3, <1>5, <1>7 DEF SameCount
<1> QED
  BY <1>9, <1>10, <1>11, <1>12, <1>13 DEF Gave

LEMMA ReleasedAlone ==
  ASSUME NEW h, NEW B, NEW b, Gives(h, B, b), b = HEAP_BASE \/ ~IsFree(h, Below(h, b))
  PROVE  \E C : Gave(h, B, b, Released(h, b), C)
<1> DEFINE k == MergeWithTop(Marked(h, b), b)
<1>1. PICK z, f : Unites(h, k, B, b, b, z, f)
  BY MergedUp
<1> DEFINE j == SetNextFree(k, b, find_next_free(k, b))
           r == find_prev_free(j, Below(h, b))
           g == [update_first_free_block(Relinked(j, r)) EXCEPT !.top_block_flag = FALSE]
<1>2. ~MergesWithBottom(k, b) /\ MergeWithBottom(k, b) = k
  BY <1>1, MergesNotDown
<1>3. Released(h, b) = g
  BY <1>2 DEF Released, Marked
<1> HIDE DEF k
<1>4. /\ h \in Heaps /\ Tiles(h, B) /\ b \in B /\ b \in Int /\ 0 <= b /\ b + 8 \in Words
      /\ b % 4 = 0
      /\ \A c \in B : c \in Int /\ c \in Words /\ c + 4 \in Words /\ c + 8 \in Words
  BY GivesFacts, WordFacts
<1>5. Lowest(h, B, b)
  <2> SUFFICES ASSUME NEW c \in B, IsFree(h, c), ~IsTop(h, c), Above(h, c) = b PROVE FALSE
    BY DEF Lowest
  <2>1. b # HEAP_BASE /\ Below(h, b) = c
    BY <1>4, AboveBlock
  <2> QED
    BY <2>1
<1>6. /\ \E x : Relinking(h, B, j, Merged(B, b, z), b, b, z, x)
      /\ \A w \in Words : w # b + 8 => j.mem[w] = k.mem[w]
  BY <1>1, <1>5, LinkWritten
<1> HIDE DEF j
<1>7. PICK x : Relinking(h, B, j, Merged(B, b, z), b, b, z, x)
  BY <1>6
<1>8. j \in Heaps /\ IsFree(j, b)
  BY <1>7 DEF Relinking, United, FreeOf
<1>9. z \in Int /\ b < z /\ \A c \in B : c < b => k.mem[c] = h.mem[c] /\ k.mem[c + 4] = h.mem[c + 4]
  BY <1>1, UnitesFacts
<1>10. SameBelow(h, j, B, b)
  <2> SUFFICES ASSUME NEW c \in B, c < b PROVE j.mem[c] = h.mem[c] /\ j.mem[c + 4] = h.mem[c + 4]
    BY DEF SameBelow, SameHeaders
  <2>1. c # b + 8 /\ c + 4 # b + 8
    BY <1>4
  <2> QED
    BY <1>4, <1>6, <1>9, <2>1
<1>11. Precedes(FreeOf(h, B), b - 1, r)
  BY <1>4, <1>8, <1>10, PrevFound
<1> HIDE DEF r
<1>12. MayRelink(h, B, j, Merged(B, b, z), b, z, r, r)
  BY <1>7, <1>9, <1>11, RelinkBelow
<1>13. r = NULL \/ r + 8 # b
  <2>1. FreeOf(h, B) \in SUBSET Int /\ FreeOf(h, B) \subseteq B
    BY <1>4, FreeNumbers
  <2>2. r = NULL \/ r \in B
    BY <1>4, <1>11, <2>1, PrecedesFacts
  <2> QED
    BY <1>4, <2>2, LinkApart
<1>14. Gave(h, B, b, g, Merged(B, b, z))
  BY <1>7, <1>8, <1>12, <1>13, RelinkGave
<1> QED
  BY <1>3, <1>14

LEMMA ReleasedMerged ==
  ASSUME NEW h, NEW B, NEW b, Gives(h, B, b), b # HEAP_BASE, IsFree(h, Below(h, b))
  PROVE  \E C : Gave(h, B, b, Released(h, b), C)
<1> DEFINE k == MergeWithTop(Marked(h, b), b)
           q == Below(h, b)
<1>1. PICK z, f : Unites(h, k, B, b, b, z, f)
  BY MergedUp
<1> DEFINE m == MergeWithBottom(k, b)
           j == SetNextFree(m, b, find_next_free(m, q))
           r == find_prev_free(j, q)
           g == [update_first_free_block(Relinked(j, r)) EXCEPT !.top_block_flag = FALSE]
<1>2. MergesWithBottom(k, b) /\ Unites(h, m, B, b, q, z, f) /\ IsFree(m, b)
  BY <1>1, MergesDown
<1>3. Released(h, b) = g
  BY <1>2 DEF Released, Marked
<1> HIDE DEF k, m
<1>4. /\ h \in Heaps /\ Tiles(h, B) /\ Settled(h, B) /\ b \in B /\ b \in Int /\ 0 <= b
      /\ b \in Words /\ b + 8 \in Words /\ b % 4 = 0
      /\ \A c \in B : c \in Int /\ c \in Words /\ c + 4 \in Words /\ c + 8 \in Words
  BY GivesFacts, WordFacts
<1>5. q \in B /\ q < b /\ ~IsTop(h, q) /\ Above(h, q) = b
  BY <1>4, BelowBlock
<1>6. Lowest(h, B, q)
  <2> SUFFICES ASSUME NEW c \in B, IsFree(h, c), ~IsTop(h, c), Above(h, c) = q PROVE FALSE
    BY DEF Lowest
  <2> QED
    BY <1>4 DEF Settled
<1>7. z \in Int /\ b < z
  BY <1>1, UnitesFacts
<1>8. /\ \E x : Relinking(h, B, j, Merged(B, q, z), b, q, z, x)
      /\ \A w \in Words : w # b + 8 => j.mem[w] = m.mem[w]
  BY <1>2, <1>6, LinkWritten
<1> HIDE DEF j
<1>9. PICK x : Relinking(h, B, j, Merged(B, q, z), b, q, z, x)
  BY <1>8
<1>10. j \in Heaps /\ IsFree(j, q)
  BY <1>9 DEF Relinking, United, FreeOf
<1>11. IsFree(j, b)
  <2>1. b # b + 8
    BY <1>4
  <2>2. j.mem[b] = m.mem[b]
    BY <1>4, <1>8, <2>1
  <2> QED
    BY <1>2, <2>2, SameHeader
<1>12. r = q
  BY <1>4, <1>5, <1>10, FreeFound
<1> HIDE DEF r
<1> DEFINE p == find_prev_free(h, Below(h, q))
<1>13. Precedes(FreeOf(h, B), q - 1, p)
  <2>1. SameBelow(h, h, B, q)
    BY DEF SameBelow, SameHeaders
  <2> QED
    BY <1>4, <1>5, <2>1, PrevFound
<1> HIDE DEF p
<1>14. q \in FreeOf(h, B)
  BY <1>5 DEF FreeOf
<1> HIDE DEF q
<1>15. MayRelink(h, B, j, Merged(B, q, z), q, z, p, q)
  BY <1>5, <1>7, <1>9, <1>13, <1>14, RelinkMerged
<1>16. q + 8 # b /\ IsFree(h, q)
  BY <1>4, <1>5, <1>14, LinkApart DEF FreeOf
<1>17. Gave(h, B, b, g, Merged(B, q, z))
  BY <1>9, <1>11, <1>12, <1>15, <1>16, RelinkGave
<1> QED
  BY <1>3, <1>17

LEMMA ReleasedWorks ==
  ASSUME NEW h, NEW B, NEW b, Gives(h, B, b)
  PROVE  \E C : Gave(h, B, b, Released(h, b), C)
<1>1. CASE b = HEAP_BASE \/ ~IsFree(h, Below(h, b))
  BY <1>1, ReleasedAlone
<1>2. CASE b # HEAP_BASE /\ IsFree(h, Below(h, b))
  BY <1>2, ReleasedMerged
<1> QED
  BY <1>1, <1>2

(* free of a block that was given out, and of one that was freed before.   *)
LEMMA FreeWorks ==
  ASSUME NEW h, NEW B, NEW b, Gives(h, B, b)
  PROVE  \E C : Gave(h, B, b, free(h, b), C)
<1>1. ~IsFree(h, b) /\ ~IsTop(h, b) /\ b # NULL
  BY GivesFacts
<1>2. free(h, b) = Released(h, b)
  BY <1>1 DEF free
<1> QED
  BY <1>2, ReleasedWorks

-----------------------------------------------------------------------------
(* There is room for every request. *)

LEMMA RoundedUp ==
  ASSUME NEW n \in Nat \ {0}
  PROVE  /\ round_up(n) \in Int /\ round_up(n) % 4 = 0 /\ round_up(n) >= 4
         /\ round_up(n) = n + ((-n) % 4)
<1>1. CASE n % 4 = 0
  BY <1>1 DEF round_up
<1>2. CASE n % 4 # 0
  BY <1>2 DEF round_up
<1> QED
  BY <1>1, <1>2

LEMMA TimesMore ==
  ASSUME NEW k \in Nat, NEW m \in Int, NEW n \in Int, m <= n
  PROVE  k * m <= k * n /\ k * m \in Int /\ k * n \in Int
<1>1. n - m \in Nat
  OBVIOUS
<1>2. k * (n - m) >= 0
  BY <1>1
<1>3. k * (n - m) = k * n - k * m
  OBVIOUS
<1> QED
  BY <1>2, <1>3

LEMMA TimesNext ==
  ASSUME NEW k \in Nat, NEW n \in Int
  PROVE  k * (n + 1) = k * n + k /\ k * n \in Int
OBVIOUS

Asked == {round_up(n) : n \in Requests}

(* The most that is asked for. *)
MaxAsk == CHOOSE m \in Asked : \A n \in Asked : n <= m

(* What a reserved block takes and a free one below it that is too small. *)
Share == 2 * MaxAsk + 24

LEMMA MaxAskFacts ==
  /\ MaxAsk \in Nat /\ MaxAsk >= 4
  /\ \A n \in Requests : round_up(n) \in Int /\ round_up(n) <= MaxAsk
  /\ Share \in Nat /\ Share > 0 /\ PTRS_ARRAY_LENGTH * Share <= MB_HEXA
<1>1. \A n \in Requests : n \in Nat \ {0}
  BY HeapAssumption DEF Requests
<1>2. \A m \in Asked : m \in Nat /\ m >= 4
  BY <1>1, RoundedUp DEF Asked
<1>3. \A m \in Asked : PTRS_ARRAY_LENGTH * (2 * m + 24) <= MB_HEXA
  BY RoomAssumption DEF Asked
<1>4. \A m \in Asked : m <= MB_HEXA
  <2> SUFFICES ASSUME NEW m \in Asked PROVE m <= MB_HEXA
    OBVIOUS
  <2>1. m \in Nat /\ PTRS_ARRAY_LENGTH \in Nat /\ PTRS_ARRAY_LENGTH >= 1 /\ MB_HEXA \in Nat
    BY <1>2, HeapAssumption
  <2> DEFINE v == 2 * m + 24
  <2>2. v \in Nat /\ m <= v /\ PTRS_ARRAY_LENGTH * v <= MB_HEXA
    BY <1>3, <2>1
  <2> HIDE DEF v
  <2>3. v * 1 <= v * PTRS_ARRAY_LENGTH /\ v * PTRS_ARRAY_LENGTH = PTRS_ARRAY_LENGTH * v
    BY <2>1, <2>2, TimesMore
  <2> QED
    BY <2>1, <2>2, <2>3
<1>5. \E m \in Asked : \A n \in Asked : n <= m
  <2> DEFINE T == {MB_HEXA - m : m \in Asked}
  <2>1. T \in SUBSET Nat
    BY <1>2, <1>4, HeapAssumption
  <2>2. T # {}
    BY DEF Asked, Requests
  <2>3. PICK x \in T : \A y \in T : x <= y
    BY <2>1, <2>2, LeastNumber
  <2>4. PICK m \in Asked : x = MB_HEXA - m
    BY <2>3
  <2>5. ASSUME NEW n \in Asked PROVE n <= m
    <3>1. MB_HEXA - m <= MB_HEXA - n
      BY <2>3, <2>4
    <3> QED
      BY <1>2, <3>1, HeapAssumption
  <2> QED
    BY <2>5
<1>6. MaxAsk \in Asked /\ \A n \in Asked : n <= MaxAsk
  BY <1>5 DEF MaxAsk
<1>7. \A n \in Requests : round_up(n) \in Asked
  BY DEF Asked
<1>8. Share \in Nat /\ Share > 0
  BY <1>2, <1>6 DEF Share
<1>9. PTRS_ARRAY_LENGTH * Share <= MB_HEXA
  BY <1>3, <1>6 DEF Share
<1> QED
  BY <1>2, <1>6, <1>7, <1>8, <1>9

(* The reserved blocks below b. *)
ReservedBelow(h, B, b) == {c \in B \ FreeOf(h, B) : c < b}

LEMMA BlocksFinite ==
  ASSUME NEW h \in Heaps, NEW B, Tiles(h, B)
  PROVE  \A S \in SUBSET B : IsFiniteSet(S) /\ Cardinality(S) \in Nat
<1>1. MB_HEXA \in Int
  BY HeapAssumption
<1>2. IsFiniteSet(0 .. MB_HEXA)
  BY <1>1, FS_Interval
<1>3. B \in SUBSET (0 .. MB_HEXA)
  BY <1>1, BlockFacts
<1> QED
  BY <1>2, <1>3, FS_Subset, FS_CardinalityType

(* The free blocks but the top one are too small, and no reserved one is   *)
(* much larger than what was asked for.                                    *)
Crowded(h, B) ==
  /\ Laid(h, B)
  /\ \A c \in B \ FreeOf(h, B) : Size(h, c) <= MaxAsk + 8
  /\ \A c \in FreeOf(h, B) : ~IsTop(h, c) => Size(h, c) <= MaxAsk

(* How far up block b can lie. *)
LiesLow(h, B, b) ==
  b <= Share * Cardinality(ReservedBelow(h, B, b))
         + IF b # HEAP_BASE /\ IsFree(h, Below(h, b)) THEN MaxAsk + 8 ELSE 0

LEMMA CrowdedBelow ==
  ASSUME NEW h, NEW B, Crowded(h, B), NEW b \in B
  PROVE  LiesLow(h, B, b)
<1>1. h \in Heaps /\ Tiles(h, B) /\ Settled(h, B)
  BY DEF Crowded, Laid
<1>2. \A c \in B : c \in Nat /\ Size(h, c) \in Int /\ Above(h, c) = c + Size(h, c) + 8
  BY <1>1, BlockFacts
<1>3. MaxAsk \in Nat /\ Share \in Nat /\ Share = 2 * MaxAsk + 24
  BY MaxAskFacts DEF Share
<1>4. \A c \in B : Cardinality(ReservedBelow(h, B, c)) \in Nat /\ IsFiniteSet(ReservedBelow(h, B, c))
  BY <1>1, BlocksFinite DEF ReservedBelow
<1> DEFINE T == {c \in B : ~LiesLow(h, B, c)}
<1> SUFFICES ASSUME T # {} PROVE FALSE
  OBVIOUS
<1>5. T \in SUBSET Nat
  BY <1>2
<1>6. PICK c \in T : \A d \in T : c <= d
  BY <1>5, LeastNumber
<1>7. c \in B /\ ~LiesLow(h, B, c)
  BY <1>6
<1> DEFINE R(d) == Cardinality(ReservedBelow(h, B, d))
<1>8. c # HEAP_BASE
  <2> SUFFICES ASSUME c = 0 PROVE FALSE
    OBVIOUS
  <2> DEFINE y == Share * R(c)
  <2>1. y \in Int /\ y >= 0
    <3>1. R(c) \in Nat
      BY <1>4, <1>7
    <3> HIDE DEF R
    <3> QED
      BY <1>3, <3>1
  <2>2. LiesLow(h, B, c) <=> c <= y + 0
    BY DEF LiesLow
  <2> HIDE DEF y
  <2> QED
    BY <1>7, <2>1, <2>2
<1> DEFINE a == Below(h, c)
<1>9. a \in B /\ a < c /\ ~IsTop(h, a) /\ Above(h, a) = c /\ \A d \in B : d < c => d <= a
  BY <1>1, <1>7, <1>8, BelowBlock
<1> HIDE DEF a
<1>10. LiesLow(h, B, a)
  <2>1. a \notin T
    BY <1>2, <1>6, <1>7, <1>9
  <2> QED
    BY <1>9, <2>1
<1>11. R(a) \in Nat /\ R(c) \in Nat /\ a \in Nat /\ c \in Nat /\ c = a + Size(h, a) + 8
       /\ Size(h, a) \in Int
  BY <1>2, <1>4, <1>7, <1>9
<1>12. CASE ~IsFree(h, a)
  <2>1. ReservedBelow(h, B, c) = ReservedBelow(h, B, a) \union {a}
    <3>1. \A d \in B : d < c <=> d < a \/ d = a
      BY <1>2, <1>7, <1>9
    <3>2. a \in B \ FreeOf(h, B)
      BY <1>9, <1>12 DEF FreeOf
    <3> QED
      BY <3>1, <3>2 DEF ReservedBelow
  <2>2. a \notin ReservedBelow(h, B, a)
    BY <1>11 DEF ReservedBelow
  <2>3. R(c) = R(a) + 1
    BY <1>4, <1>9, <2>1, <2>2, FS_AddElement
  <2>4. Size(h, a) <= MaxAsk + 8
    BY <1>9, <1>12 DEF Crowded, FreeOf
  <2>5. a <= Share * R(a) + MaxAsk + 8
    <3>1. a <= Share * R(a) + IF a # 0 /\ IsFree(h, Below(h, a)) THEN MaxAsk + 8 ELSE 0
      BY <1>10 DEF LiesLow
    <3> DEFINE x == Share * R(a)
    <3>2. x \in Int
      <4> HIDE DEF R
      <4> QED
        BY <1>3, <1>11
    <3>3. a <= x + IF a # 0 /\ IsFree(h, Below(h, a)) THEN MaxAsk + 8 ELSE 0
      BY <3>1
    <3> HIDE DEF x
    <3>4. a <= x + MaxAsk + 8
      BY <1>3, <1>11, <3>2, <3>3
    <3> QED
      BY <3>4 DEF x
  <2>6. Share * R(c) = Share * R(a) + Share /\ Share * R(a) \in Int
    <3> HIDE DEF R
    <3> QED
      BY <1>3, <1>11, <2>3, TimesNext
  <2>7. c <= Share * R(c)
    <3> DEFINE x == Share * R(a)
               y == Share * R(c)
    <3>1. x \in Int /\ y = x + Share /\ a <= x + MaxAsk + 8
      BY <2>5, <2>6
    <3> HIDE DEF x, y
    <3>2. c <= y
      BY <1>3, <1>11, <2>4, <3>1
    <3> QED
      BY <3>2 DEF y
  <2>8. LiesLow(h, B, c)
    <3>1. ~IsFree(h, Below(h, c))
      BY <1>12 DEF a
    <3> DEFINE y == Share * R(c)
    <3>2. y \in Int /\ c <= y
      BY <1>3, <2>6, <2>7
    <3>3. LiesLow(h, B, c) <=> c <= y + 0
      BY <3>1 DEF LiesLow
    <3> HIDE DEF y
    <3> QED
      BY <3>2, <3>3
  <2> QED
    BY <1>7, <2>8
<1>13. CASE IsFree(h, a)
  <2>1. ReservedBelow(h, B, c) = ReservedBelow(h, B, a)
    <3>1. \A d \in B : d < c <=> d < a \/ d = a
      BY <1>2, <1>7, <1>9
    <3>2. a \notin B \ FreeOf(h, B)
      BY <1>9, <1>13 DEF FreeOf
    <3> QED
      BY <3>1, <3>2 DEF ReservedBelow
  <2>2. Size(h, a) <= MaxAsk
    BY <1>9, <1>13 DEF Crowded, FreeOf
  <2>3. ~(a # 0 /\ IsFree(h, Below(h, a)))
    <3> SUFFICES ASSUME a # 0, IsFree(h, Below(h, a)) PROVE FALSE
      OBVIOUS
    <3>1. Below(h, a) \in B /\ ~IsTop(h, Below(h, a)) /\ Above(h, Below(h, a)) = a
      BY <1>1, <1>9, BelowBlock
    <3> QED
      BY <1>1, <1>13, <3>1 DEF Settled
  <2> DEFINE x == Share * R(a)
  <2>4. x \in Int
    <3> HIDE DEF R
    <3> QED
      BY <1>3, <1>11
  <2>5. LiesLow(h, B, a) <=> a <= x + 0
    BY <2>3 DEF LiesLow
  <2>6. LiesLow(h, B, c) <=> c <= x + (MaxAsk + 8)
    BY <1>8, <1>13, <2>1 DEF LiesLow, a
  <2> HIDE DEF x
  <2> QED
    BY <1>3, <1>7, <1>10, <1>11, <2>2, <2>4, <2>5, <2>6
<1> QED
  BY <1>12, <1>13

(* With one pointer left the top block has the room. *)
LEMMA TopHasRoom ==
  ASSUME NEW h, NEW B, Crowded(h, B), NEW t \in B, IsTop(h, t),
         Cardinality(B \ FreeOf(h, B)) < PTRS_ARRAY_LENGTH
  PROVE  Size(h, t) >= Share
<1>1. h \in Heaps /\ Tiles(h, B) /\ Settled(h, B) /\ TopsFree(h, B)
  BY DEF Crowded, Laid
<1>2. t \in Int /\ Size(h, t) \in Int /\ Above(h, t) = t + Size(h, t) + 8
  BY <1>1, BlockFacts
<1>3. Above(h, t) = MB_HEXA + 8 /\ MB_HEXA \in Int
  BY <1>1, HeapAssumption DEF Tiles, TopEnd
<1>4. Size(h, t) = MB_HEXA - t
  BY <1>2, <1>3
<1>5. Share \in Nat /\ PTRS_ARRAY_LENGTH * Share <= MB_HEXA
  BY MaxAskFacts
<1>6. ~(t # HEAP_BASE /\ IsFree(h, Below(h, t)))
  <2> SUFFICES ASSUME t # HEAP_BASE, IsFree(h, Below(h, t)) PROVE FALSE
    OBVIOUS
  <2>1. Below(h, t) \in B /\ ~IsTop(h, Below(h, t)) /\ Above(h, Below(h, t)) = t
    BY <1>1, BelowBlock
  <2> QED
    BY <1>1, <2>1 DEF Settled, TopsFree
<1> DEFINE r == Cardinality(ReservedBelow(h, B, t))
<1>7. r \in Nat /\ r + 1 <= PTRS_ARRAY_LENGTH /\ PTRS_ARRAY_LENGTH \in Nat
  <2> DEFINE S == B \ FreeOf(h, B)
  <2>1. ReservedBelow(h, B, t) \in SUBSET S
    BY DEF ReservedBelow
  <2>2. IsFiniteSet(S) /\ Cardinality(S) \in Nat
    BY <1>1, BlocksFinite
  <2>3. r <= Cardinality(S) /\ r \in Nat
    BY <1>1, <2>1, <2>2, FS_Subset, FS_CardinalityType
  <2> QED
    BY <2>2, <2>3, HeapAssumption
<1>8. t <= Share * r + 0
  BY <1>6, CrowdedBelow DEF LiesLow
<1> HIDE DEF r
<1>9. Share * r + Share <= Share * PTRS_ARRAY_LENGTH /\ Share * r \in Int
      /\ Share * PTRS_ARRAY_LENGTH \in Int
      /\ Share * PTRS_ARRAY_LENGTH = PTRS_ARRAY_LENGTH * Share
  <2>1. Share * (r + 1) <= Share * PTRS_ARRAY_LENGTH /\ Share * PTRS_ARRAY_LENGTH \in Int
    BY <1>5, <1>7, TimesMore
  <2>2. Share * (r + 1) = Share * r + Share /\ Share * r \in Int
    BY <1>5, <1>7, TimesNext
  <2>3. Share * PTRS_ARRAY_LENGTH = PTRS_ARRAY_LENGTH * Share
    BY <1>5, <1>7
  <2> QED
    BY <2>1, <2>2, <2>3
<1> QED
  BY <1>2, <1>3, <1>4, <1>5, <1>8, <1>9

(* malloc finds a block. *)
LEMMA MallocFinds ==
  ASSUME NEW h, NEW B, Laid(h, B), Searches(h, B),
         \A c \in B \ FreeOf(h, B) : Size(h, c) <= MaxAsk + 8,
         Cardinality(B \ FreeOf(h, B)) < PTRS_ARRAY_LENGTH,
         NEW n \in Int, n % 4 = 0, n >= 4, n <= MaxAsk
  PROVE  Takes(h, B, Fitting(h, n), n)
<1> DEFINE b == Fitting(h, n)
           S == {c \in FreeOf(h, B) : n <= Size(h, c)}
<1>1. h \in Heaps /\ Tiles(h, B) /\ TopsFree(h, B) /\ Linked(h, B)
  BY DEF Laid
<1>2. PICK t \in B : IsTop(h, t) /\ \A c \in B : c <= t /\ (IsTop(h, c) => c = t)
  BY <1>1, TopIs
<1>3. t \in FreeOf(h, B)
  BY <1>1, <1>2 DEF TopsFree, FreeOf
<1>4. \A c \in B : c \in Int /\ Size(h, c) \in Int
  BY <1>1, BlockFacts
<1>5. MaxAsk \in Nat /\ Share = 2 * MaxAsk + 24
  BY MaxAskFacts DEF Share
<1>6. FreeOf(h, B) \subseteq B
  BY DEF FreeOf
<1>7. CASE \E c \in FreeOf(h, B) : ~IsTop(h, c) /\ n <= Size(h, c)
  <2>1. PICK c \in FreeOf(h, B) : ~IsTop(h, c) /\ n <= Size(h, c)
    BY <1>7
  <2>2. IsFirst(S, b)
    BY <1>1, <2>1, FittingFound
  <2> HIDE DEF b
  <2>3. b \in FreeOf(h, B) /\ n <= Size(h, b) /\ b <= c
    BY <2>1, <2>2 DEF IsFirst
  <2>4. ~IsTop(h, b)
    BY <1>2, <1>4, <1>6, <2>1, <2>3
  <2>5. Takes(h, B, b, n)
    BY <2>3, <2>4 DEF Takes
  <2> QED
    BY <2>5 DEF b
<1>8. CASE \A c \in FreeOf(h, B) : ~IsTop(h, c) => ~(n <= Size(h, c))
  <2>1. Crowded(h, B)
    BY <1>4, <1>5, <1>6, <1>8 DEF Crowded
  <2>2. Size(h, t) >= Share
    BY <1>2, <2>1, TopHasRoom
  <2>3. n <= Size(h, t) /\ Size(h, t) >= n + 20
    BY <1>2, <1>4, <1>5, <2>2
  <2>4. IsFirst(S, b)
    BY <1>1, <1>3, <2>3, FittingFound
  <2> HIDE DEF b
  <2>5. b \in FreeOf(h, B) /\ n <= Size(h, b)
    BY <2>4 DEF IsFirst
  <2>6. b = t
    BY <1>2, <1>6, <1>8, <2>5
  <2>7. Takes(h, B, b, n)
    BY <2>3, <2>5, <2>6 DEF Takes
  <2> QED
    BY <2>7 DEF b
<1> QED
  BY <1>7, <1>8

-----------------------------------------------------------------------------
(* The first call lays out the heap. *)

LEMMA FirstWrites ==
  ASSUME NEW h \in Heaps, NEW n \in Int, n % 4 = 0, n >= 4, n + 20 <= MB_HEXA
  PROVE  LET g == FirstMalloc(h, n)
             t == n + 8
         IN  /\ g \in Heaps /\ g.heap_initialized /\ g.first_free_block = t
             /\ g.counter = h.counter /\ g.top_block_flag = h.top_block_flag
             /\ g.mem[0] = n /\ g.mem[4] = 0
             /\ g.mem[t] = (MB_HEXA - t) + 3 /\ g.mem[t + 4] = n /\ g.mem[t + 8] = NULL
             /\ 0 \in Words /\ t \in Words /\ t + 4 \in Words /\ t + 8 \in Words
<1> DEFINE t == n + 8
           v == MB_HEXA - n - 8
           h1 == SetCtrl(h, 0, n, 0)
           h2 == SetPrevSize(h1, 0, 0)
           h3 == SetCtrl(h2, t, v, 3)
           h4 == SetPrevSize(h3, t, n)
           h5 == SetNextFree(h4, t, NULL)
           g == [h5 EXCEPT !.first_free_block = t, !.heap_initialized = TRUE]
<1>1. FirstMalloc(h, n) = g
  <2>1. HEAP_BASE + n + RB_HEADER_SIZE = t /\ FREE_BLOCK + TOP_BLOCK = 3
    OBVIOUS
  <2> QED
    BY <2>1 DEF FirstMalloc
<1>2. MB_HEXA \in Int /\ MB_HEXA % 4 = 0 /\ t \in Int /\ v \in Int /\ t % 4 = 0 /\ t >= 12
      /\ v = MB_HEXA - t /\ NULL \in Int /\ 0 \in 0 .. 3 /\ 3 \in 0 .. 3
  BY HeapAssumption
<1>3. /\ 0 \in Words /\ 4 \in Words /\ t \in Words /\ t + 4 \in Words /\ t + 8 \in Words
  BY <1>2 DEF Words
<1> HIDE DEF t, v, h1
<1>4. Writes(h, h1, 0, n + 0)
  BY <1>2, SetWrites DEF h1
<1>5. Writes(h1, h2, 0 + 4, 0)
  <2>1. h1 \in Heaps
    BY <1>4 DEF Writes
  <2> QED
    BY <1>2, <2>1, SetWrites
<1> HIDE DEF h2
<1>6. Writes(h2, h3, t, v + 3)
  <2>1. h2 \in Heaps
    BY <1>5 DEF Writes
  <2> QED
    BY <1>2, <2>1, SetWrites
<1> HIDE DEF h3
<1>7. Writes(h3, h4, t + 4, n)
  <2>1. h3 \in Heaps
    BY <1>6 DEF Writes
  <2> QED
    BY <1>2, <2>1, SetWrites
<1> HIDE DEF h4
<1>8. Writes(h4, h5, t + 8, NULL)
  <2>1. h4 \in Heaps
    BY <1>7 DEF Writes
  <2> QED
    BY <1>2, <2>1, SetWrites
<1> HIDE DEF h5
<1>9. h5 \in Heaps /\ SameGlobals(h, h5)
  BY <1>4, <1>5, <1>6, <1>7, <1>8 DEF Writes, SameGlobals
<1>10. /\ h5.mem[0] = n /\ h5.mem[4] = 0
       /\ h5.mem[t] = v + 3 /\ h5.mem[t + 4] = n /\ h5.mem[t + 8] = NULL
  <2>1. /\ t # 0 /\ t + 4 # 0 /\ t + 8 # 0 /\ t # 4 /\ t + 4 # 4 /\ t + 8 # 4
        /\ t + 4 # t /\ t + 8 # t /\ t + 8 # t + 4 /\ 0 + 4 = 4 /\ n + 0 = n
    BY <1>2
  <2> QED
    BY <1>3, <1>4, <1>5, <1>6, <1>7, <1>8, <2>1 DEF Writes
<1>11. /\ g \in Heaps /\ g.mem = h5.mem /\ g.heap_initialized /\ g.first_free_block = t
       /\ g.counter = h5.counter /\ g.top_block_flag = h5.top_block_flag
  BY <1>2, <1>9 DEF Heaps
<1> HIDE DEF g
<1>12. g.mem[t] = (MB_HEXA - t) + 3
  BY <1>2, <1>10, <1>11
<1> QED
  BY <1>1, <1>3, <1>9, <1>10, <1>11, <1>12 DEF SameGlobals, t

LEMMA FirstLaid ==
  ASSUME NEW h \in Heaps, ~h.top_block_flag,
         NEW n \in Int, n % 4 = 0, n >= 4, n + 20 <= MB_HEXA,
         NEW g, g = FirstMalloc(h, n), NEW t, t = n + 8
  PROVE  /\ Laid(g, {0, t}) /\ FreeOf(g, {0, t}) = {t}
         /\ Size(g, 0) = n /\ IsTop(g, t) /\ g.counter = h.counter
<1> DEFINE B == {0, t}
<1>1. /\ g \in Heaps /\ g.heap_initialized /\ g.first_free_block = t
      /\ g.counter = h.counter /\ ~g.top_block_flag
      /\ g.mem[0] = n /\ g.mem[4] = 0
      /\ g.mem[t] = (MB_HEXA - t) + 3 /\ g.mem[t + 4] = n /\ g.mem[t + 8] = NULL
      /\ 0 \in Words /\ t \in Words
  BY FirstWrites
<1>2. MB_HEXA \in Int /\ MB_HEXA % 4 = 0 /\ t \in Int /\ t % 4 = 0 /\ t >= 12
      /\ MB_HEXA - t >= 12
  BY HeapAssumption
<1>3. HasHeader(g, 0, n, 0)
  <2>1. n = n + 0 /\ 0 \in 0 .. 3
    OBVIOUS
  <2> QED
    BY <1>1, <2>1 DEF HasHeader
<1>4. HasHeader(g, t, MB_HEXA - t, 3)
  <2>1. (MB_HEXA - t) % 4 = 0 /\ MB_HEXA - t \in Int /\ 3 \in 0 .. 3
    BY <1>2
  <2> QED
    BY <1>1, <2>1 DEF HasHeader
<1>5. Size(g, 0) = n /\ ~IsTop(g, 0) /\ ~IsFree(g, 0)
  BY <1>3, HeaderFields
<1>6. Size(g, t) = MB_HEXA - t /\ IsTop(g, t) /\ IsFree(g, t)
  BY <1>4, HeaderFields
<1>7. Above(g, 0) = t /\ Above(g, t) = TopEnd /\ PrevSize(g, 0) = 0 /\ Below(g, t) = 0
  <2>1. PrevSize(g, 0) = g.mem[4]
    BY DEF PrevSize
  <2>2. PrevSize(g, t) = n
    BY <1>1 DEF PrevSize
  <2>3. Above(g, 0) = n + 8
    BY <1>5 DEF Above
  <2>4. Above(g, t) = MB_HEXA + 8
    BY <1>2, <1>6 DEF Above
  <2> QED
    BY <1>1, <2>1, <2>2, <2>3, <2>4 DEF Below, TopEnd
<1>8. Tiles(g, B)
  <2>1. B \subseteq Words /\ 0 \in B
    BY <1>1
  <2>2. \A b \in B : Size(g, b) >= 4 /\ (IsTop(g, b) => Size(g, b) >= 12)
    BY <1>2, <1>5, <1>6
  <2>3. \A b \in B \ {0} : Below(g, b) \in B /\ Above(g, Below(g, b)) = b
    BY <1>7
  <2>4. \A b \in B : IF IsTop(g, b) THEN Above(g, b) = TopEnd ELSE Above(g, b) \in B
    BY <1>5, <1>6, <1>7
  <2>5. \A b, c \in B : b < c => Above(g, b) <= c
    BY <1>2, <1>7
  <2> QED
    BY <1>7, <2>1, <2>2, <2>3, <2>4, <2>5 DEF Tiles
<1>9. FreeOf(g, B) = {t}
  BY <1>5, <1>6 DEF FreeOf
<1>10. TopsFree(g, B) /\ Settled(g, B)
  BY <1>5, <1>6 DEF TopsFree, Settled
<1>11. Linked(g, B)
  <2>1. IsFirst({t}, t)
    BY <1>2 DEF IsFirst
  <2>2. Follows({t}, t, NextFree(g, t))
    <3>1. ~\E c \in {t} : c > t
      BY <1>2
    <3> QED
      BY <1>1, <3>1 DEF Follows, NextFree
  <2> QED
    BY <1>1, <1>9, <2>1, <2>2 DEF Linked
<1> QED
  BY <1>1, <1>5, <1>6, <1>8, <1>9, <1>10, <1>11 DEF Laid

LEMMA MallocWorks ==
  ASSUME NEW h, NEW B, Laid(h, B), Searches(h, B),
         \A c \in B \ FreeOf(h, B) : Size(h, c) <= MaxAsk + 8,
         Cardinality(B \ FreeOf(h, B)) < PTRS_ARRAY_LENGTH,
         NEW size \in Requests
  PROVE  \E b \in FreeOf(h, B) : \E C :
           /\ malloc(h, size) = [heap |-> Taken(h, b, round_up(size)), block |-> b]
           /\ Took(h, B, b, round_up(size), Taken(h, b, round_up(size)), C)
<1> DEFINE n == round_up(size)
           b == Fitting(h, n)
<1>1. n \in Int /\ n % 4 = 0 /\ n >= 4 /\ n <= MaxAsk
  <2>1. size \in Nat \ {0}
    BY HeapAssumption DEF Requests
  <2> QED
    BY <2>1, RoundedUp, MaxAskFacts
<1> HIDE DEF n
<1>2. Takes(h, B, b, n)
  BY <1>1, MallocFinds
<1> HIDE DEF b
<1>3. b \in FreeOf(h, B) /\ h.heap_initialized
  BY <1>2 DEF Takes, Laid
<1>4. b # NULL
  <2>1. 0 <= b
    BY <1>2, TakesFacts
  <2> QED
    BY <2>1
<1>5. malloc(h, size) = [heap |-> Taken(h, b, n), block |-> b]
  BY <1>3, <1>4 DEF malloc, n, b
<1>6. \E C : Took(h, B, b, n, Taken(h, b, n), C)
  BY <1>2, TakenWorks
<1> QED
  BY <1>3, <1>5, <1>6 DEF n

-----------------------------------------------------------------------------
(* The program. *)

Index == 0 .. PTRS_ARRAY_LENGTH - 1

Types ==
  /\ heap \in Heaps
  /\ ptrs \in [Index -> Words \union {NULL}]
  /\ i \in Index
  /\ ask \in Requests
  /\ pc \in {"init_ptrs_array", "free", "free again", "malloc"}

(* Before the first call of malloc. *)
Fresh ==
  /\ heap.first_free_block = HEAP_BASE /\ heap.counter = 1 /\ ~heap.top_block_flag
  /\ pc = "init_ptrs_array" /\ i = 0 /\ \A k \in Index : ptrs[k] = NULL

(* The reserved blocks of B are those that the slots H of p hold, each of  *)
(* them one, with the room that was asked for.                             *)
Keeps(h, B, p, H) ==
  /\ B \ FreeOf(h, B) = {p[k] : k \in H}
  /\ \A k, l \in H : p[k] = p[l] => k = l
  /\ \A k \in H : Size(h, p[k]) <= MaxAsk + 8

(* What the phase of the program says of the blocks. *)
Phase(h, B) ==
  /\ pc = "init_ptrs_array" =>
       /\ i > 0 /\ \A k \in Index : ptrs[k] # NULL <=> k < i
       /\ \A b \in FreeOf(h, B) : IsTop(h, b)
       /\ h.counter >= i \/ h.counter > Warmup
  /\ pc # "init_ptrs_array" =>
       h.counter > Warmup /\ \A k \in Index : ptrs[k] # NULL
  /\ pc = "free again" => IsFree(h, ptrs[i])

Owned(B) == Laid(heap, B) /\ Keeps(heap, B, ptrs, Held) /\ Phase(heap, B)

(* The inductive invariant: once malloc was called, there are blocks that  *)
(* tile the heap, the reserved ones being those that are held.             *)
HeapInv ==
  /\ Types
  /\ IF heap.heap_initialized THEN \E B : Owned(B) ELSE Fresh

LEMMA IndexType ==
  /\ PTRS_ARRAY_LENGTH \in Nat /\ PTRS_ARRAY_LENGTH >= 1
  /\ \A k \in Index : k \in Int /\ 0 <= k /\ k < PTRS_ARRAY_LENGTH
BY HeapAssumption DEF Index

LEMMA HeldIs ==
  ASSUME Types
  PROVE  /\ Held \subseteq Index
         /\ pc # "free" => i \notin Held
         /\ (\A k \in Index : ptrs[k] # NULL) => Held = IF pc = "free" THEN Index ELSE Index \ {i}
         /\ (\A k \in Index : ptrs[k] = NULL) => Held = {}
         /\ (\A k \in Index : ptrs[k] # NULL <=> k < i) => Held = {k \in Index : k < i}
<1>1. DOMAIN ptrs = Index /\ i \in Index
  BY DEF Types
<1>2. Held = {k \in Index : ptrs[k] # NULL /\ (k = i => pc = "free")}
  BY <1>1 DEF Held
<1>3. \A k \in Index : k < i => k # i
  BY <1>1, IndexType
<1> QED
  BY <1>1, <1>2, <1>3

(* No more blocks are held than there are pointers but for the next one.   *)
LEMMA HeldCount ==
  ASSUME Types, pc # "free"
  PROVE  Cardinality({ptrs[k] : k \in Held}) < PTRS_ARRAY_LENGTH
<1> DEFINE T == {ptrs[k] : k \in Held}
           f == [k \in Held |-> ptrs[k]]
<1>1. PTRS_ARRAY_LENGTH \in Nat /\ PTRS_ARRAY_LENGTH >= 1 /\ i \in Index
  BY IndexType DEF Types
<1>2. IsFiniteSet(Index) /\ Cardinality(Index) = PTRS_ARRAY_LENGTH
  BY <1>1, FS_Interval DEF Index
<1>3. IsFiniteSet(Index \ {i}) /\ Cardinality(Index \ {i}) = PTRS_ARRAY_LENGTH - 1
  BY <1>1, <1>2, FS_RemoveElement
<1>4. Held \in SUBSET (Index \ {i})
  BY HeldIs
<1>5. IsFiniteSet(Held) /\ Cardinality(Held) <= PTRS_ARRAY_LENGTH - 1
  BY <1>3, <1>4, FS_Subset
<1>6. f \in Surjection(Held, T)
  BY DEF Surjection
<1>7. Cardinality(T) <= Cardinality(Held) /\ IsFiniteSet(T)
  BY <1>5, <1>6, FS_Surjection
<1>8. Cardinality(T) \in Nat /\ Cardinality(Held) \in Nat
  BY <1>5, <1>7, FS_CardinalityType
<1> QED
  BY <1>1, <1>5, <1>7, <1>8

(* What a call of malloc does to what is held. *)
Gained(b, C) ==
  /\ Laid(heap', C)
  /\ C \ FreeOf(heap', C) = {ptrs[k] : k \in Held} \union {b}
  /\ \A k \in Held : ptrs[k] # b /\ Size(heap', ptrs[k]) = Size(heap, ptrs[k])
  /\ Size(heap', b) \in {round_up(ask), round_up(ask) + 4, round_up(ask) + 8}
  /\ ptrs' = [ptrs EXCEPT ![i] = b]
  /\ pc = "init_ptrs_array" =>
       /\ \A c \in FreeOf(heap', C) : IsTop(heap', c)
       /\ heap'.counter >= i + 1 \/ heap'.counter > Warmup
  /\ pc # "init_ptrs_array" => heap'.counter > Warmup

LEMMA CountedMore ==
  ASSUME ~CounterWraps, NEW c \in Int
  PROVE  /\ c > Warmup => Counted(c) > Warmup
         /\ Counted(c) >= c + 1 \/ Counted(c) > Warmup
BY HeapAssumption DEF Counted

LEMMA FirstAllocates ==
  ASSUME HeapInv, ~heap.heap_initialized, Allocates
  PROVE  \E b, C : Gained(b, C)
<1> DEFINE n == round_up(ask)
           t == n + 8
           g == FirstMalloc(heap, n)
<1>1. Types /\ Fresh
  BY DEF HeapInv
<1>2. n \in Int /\ n % 4 = 0 /\ n >= 4 /\ n <= MaxAsk
  <2>1. ask \in Requests /\ ask \in Nat \ {0}
    BY <1>1, HeapAssumption DEF Types, Requests
  <2> QED
    BY <2>1, RoundedUp, MaxAskFacts
<1>3. n + 20 <= MB_HEXA
  <2>1. Share * 1 <= Share * PTRS_ARRAY_LENGTH
        /\ Share * PTRS_ARRAY_LENGTH = PTRS_ARRAY_LENGTH * Share
    <3>1. Share \in Nat
      BY MaxAskFacts
    <3>2. 1 \in Int /\ PTRS_ARRAY_LENGTH \in Int /\ 1 <= PTRS_ARRAY_LENGTH
      BY HeapAssumption
    <3> QED
      BY <3>1, <3>2, TimesMore
  <2>2. Share = 2 * MaxAsk + 24 /\ MaxAsk \in Nat /\ PTRS_ARRAY_LENGTH * Share <= MB_HEXA
    BY MaxAskFacts DEF Share
  <2>3. Share <= MB_HEXA
    BY <2>1, <2>2, HeapAssumption
  <2> QED
    BY <1>2, <2>2, <2>3, HeapAssumption
<1>4. heap' = g /\ ptrs' = [ptrs EXCEPT ![i] = 0]
  <2>1. malloc(heap, ask) = [heap |-> g, block |-> 0]
    BY DEF malloc
  <2> QED
    BY <2>1 DEF Allocates
<1> HIDE DEF n, g
<1>5. /\ Laid(g, {0, t}) /\ FreeOf(g, {0, t}) = {t}
      /\ Size(g, 0) = n /\ IsTop(g, t) /\ g.counter = heap.counter
  BY <1>1, <1>2, <1>3, FirstLaid DEF Types, Fresh, g
<1>6. Held = {}
  BY <1>1, HeldIs DEF Fresh
<1>7. {0, t} \ {t} = {0}
  BY <1>2
<1>8. i = 0 /\ pc = "init_ptrs_array" /\ heap.counter = 1
  BY <1>1 DEF Fresh
<1>9. Gained(0, {0, t})
  BY <1>4, <1>5, <1>6, <1>7, <1>8 DEF Gained, n
<1> QED
  BY <1>9

LEMMA NextAllocates ==
  ASSUME ~CounterWraps, HeapInv, heap.heap_initialized, Allocates,
         pc \in {"init_ptrs_array", "malloc"}
  PROVE  \E b, C : Gained(b, C)
<1>1. Types
  BY DEF HeapInv
<1>2. PICK B : Owned(B)
  BY DEF HeapInv
<1>3. Laid(heap, B) /\ Keeps(heap, B, ptrs, Held) /\ Phase(heap, B)
  BY <1>2 DEF Owned
<1>4. heap \in Heaps /\ ask \in Requests /\ heap.counter \in Int /\ i \in Int
  <2>1. heap \in Heaps /\ ask \in Requests /\ i \in Index
    BY <1>1 DEF Types
  <2>2. heap.counter \in Int
    BY <2>1 DEF Heaps
  <2> QED
    BY <2>1, <2>2, IndexType
<1>5. Searches(heap, B)
  BY <1>3 DEF Phase, Searches
<1> DEFINE R == B \ FreeOf(heap, B)
           n == round_up(ask)
<1>6. R = {ptrs[k] : k \in Held} /\ \A k \in Held : ptrs[k] \in R
  BY <1>3 DEF Keeps
<1>7. \A c \in R : Size(heap, c) <= MaxAsk + 8
  BY <1>3, <1>6 DEF Keeps
<1>8. Cardinality(R) < PTRS_ARRAY_LENGTH
  BY <1>1, <1>6, HeldCount
<1>9. PICK b \in FreeOf(heap, B) : \E C :
        /\ malloc(heap, ask) = [heap |-> Taken(heap, b, n), block |-> b]
        /\ Took(heap, B, b, n, Taken(heap, b, n), C)
  BY <1>3, <1>4, <1>5, <1>7, <1>8, MallocWorks
<1>10. PICK C : /\ malloc(heap, ask) = [heap |-> Taken(heap, b, n), block |-> b]
                /\ Took(heap, B, b, n, Taken(heap, b, n), C)
  BY <1>9
<1>11. heap' = Taken(heap, b, n) /\ ptrs' = [ptrs EXCEPT ![i] = b]
  BY <1>10 DEF Allocates
<1>12. /\ Laid(heap', C)
       /\ C \ FreeOf(heap', C) = R \union {b}
       /\ \A c \in R : Size(heap', c) = Size(heap, c)
       /\ Size(heap', b) \in {n, n + 4, n + 8}
       /\ heap'.counter = Counted(heap.counter)
       /\ (\A c \in FreeOf(heap, B) : IsTop(heap, c)) => \A c \in FreeOf(heap', C) : IsTop(heap', c)
  BY <1>10, <1>11 DEF Took
<1>13. b \notin R
  BY <1>9
<1> HIDE DEF R
<1>14. \A k \in Held : ptrs[k] # b /\ Size(heap', ptrs[k]) = Size(heap, ptrs[k])
  BY <1>6, <1>12, <1>13
<1>15. pc = "init_ptrs_array" =>
         /\ \A c \in FreeOf(heap', C) : IsTop(heap', c)
         /\ heap'.counter >= i + 1 \/ heap'.counter > Warmup
  <2> SUFFICES ASSUME pc = "init_ptrs_array"
               PROVE  /\ \A c \in FreeOf(heap', C) : IsTop(heap', c)
                      /\ heap'.counter >= i + 1 \/ heap'.counter > Warmup
    OBVIOUS
  <2>1. /\ \A c \in FreeOf(heap, B) : IsTop(heap, c)
        /\ heap.counter >= i \/ heap.counter > Warmup
    BY <1>3 DEF Phase
  <2>2. \A c \in FreeOf(heap', C) : IsTop(heap', c)
    BY <1>12, <2>1
  <2>3. /\ heap.counter > Warmup => Counted(heap.counter) > Warmup
        /\ Counted(heap.counter) >= heap.counter + 1 \/ Counted(heap.counter) > Warmup
        /\ Counted(heap.counter) \in Int
    BY <1>4, CountedMore, CountedType
  <2>4. Counted(heap.counter) >= i + 1 \/ Counted(heap.counter) > Warmup
    BY <1>4, <2>1, <2>3
  <2> QED
    BY <1>12, <2>2, <2>4
<1>16. pc # "init_ptrs_array" => heap'.counter > Warmup
  <2>1. pc # "init_ptrs_array" => heap.counter > Warmup
    BY <1>3 DEF Phase
  <2> QED
    BY <1>4, <1>12, <2>1, CountedMore
<1>17. Gained(b, C)
  BY <1>6, <1>11, <1>12, <1>14, <1>15, <1>16 DEF Gained
<1> QED
  BY <1>17

Allocating == InitPtrs \/ Malloc

(* What the slots hold before the call.                                    *)
LEMMA HeldBefore ==
  ASSUME HeapInv
  PROVE  /\ Types
         /\ pc = "init_ptrs_array" => \A k \in Index : ptrs[k] # NULL <=> k < i
         /\ pc # "init_ptrs_array" =>
              heap.heap_initialized /\ \A k \in Index : ptrs[k] # NULL
         /\ \A k, l \in Held : ptrs[k] = ptrs[l] => k = l
         /\ \A k \in Held : Size(heap, ptrs[k]) <= MaxAsk + 8
<1>1. Types
  BY DEF HeapInv
<1>2. CASE heap.heap_initialized
  <2>1. PICK B : Owned(B)
    BY <1>2 DEF HeapInv
  <2> QED
    BY <1>1, <1>2, <2>1 DEF Owned, Keeps, Phase
<1>3. CASE ~heap.heap_initialized
  <2>1. Fresh
    BY <1>3 DEF HeapInv
  <2>2. Held = {}
    BY <1>1, <2>1, HeldIs DEF Fresh
  <2>3. \A k \in Index : ptrs[k] # NULL <=> k < i
    BY <2>1, IndexType DEF Fresh
  <2> QED
    BY <1>1, <2>1, <2>2, <2>3 DEF Fresh
<1> QED
  BY <1>2, <1>3

LEMMA NextIndex ==
  ASSUME NEW k \in Index
  PROVE  /\ (k + 1) % PTRS_ARRAY_LENGTH \in Index
         /\ (k + 1) % PTRS_ARRAY_LENGTH =
              IF k = PTRS_ARRAY_LENGTH - 1 THEN 0 ELSE k + 1
<1>1. PTRS_ARRAY_LENGTH \in Nat /\ PTRS_ARRAY_LENGTH >= 1 /\ k \in Int /\ 0 <= k
      /\ k < PTRS_ARRAY_LENGTH
  BY IndexType
<1>2. CASE k = PTRS_ARRAY_LENGTH - 1
  BY <1>1, <1>2 DEF Index
<1>3. CASE k # PTRS_ARRAY_LENGTH - 1
  BY <1>1, <1>3 DEF Index
<1> QED
  BY <1>2, <1>3

LEMMA AllocatingGains ==
  ASSUME ~CounterWraps, HeapInv, Allocating
  PROVE  \E b, C : Gained(b, C)
<1>1. Allocates /\ pc \in {"init_ptrs_array", "malloc"}
  BY DEF Allocating, InitPtrs, Malloc
<1>2. CASE heap.heap_initialized
  BY <1>1, <1>2, NextAllocates
<1>3. CASE ~heap.heap_initialized
  BY <1>1, <1>3, FirstAllocates
<1> QED
  BY <1>2, <1>3

(* The slot at the index holds the block, whatever is called next.         *)
LEMMA AllocatingHolds ==
  ASSUME HeapInv, Allocating, NEW b, NEW C, Gained(b, C)
  PROVE  /\ Types' /\ b \in Words /\ i \in Index /\ i \notin Held
         /\ Held \subseteq Index /\ Held' = Held \union {i}
         /\ DOMAIN ptrs' = Index /\ DOMAIN ptrs = Index
         /\ ptrs'[i] = b /\ \A k \in Index \ {i} : ptrs'[k] = ptrs[k]
         /\ pc' = "init_ptrs_array" =>
              /\ pc = "init_ptrs_array" /\ i' = i + 1
              /\ \A k \in Index : ptrs'[k] # NULL <=> k < i'
         /\ pc' # "init_ptrs_array" =>
              pc' = "free" /\ \A k \in Index : ptrs'[k] # NULL
         /\ pc = "init_ptrs_array" /\ pc' = "free" => i + 1 = PTRS_ARRAY_LENGTH
<1>1. /\ Types
      /\ pc = "init_ptrs_array" => \A k \in Index : ptrs[k] # NULL <=> k < i
      /\ pc # "init_ptrs_array" => \A k \in Index : ptrs[k] # NULL
  BY HeldBefore
<1>2. /\ i \in Index /\ ptrs \in [Index -> Words \union {NULL}] /\ ask \in Requests
  BY <1>1 DEF Types
<1>3. /\ i' = (i + 1) % PTRS_ARRAY_LENGTH /\ ask' = ask
      /\ pc \in {"init_ptrs_array", "malloc"}
      /\ pc' = IF pc = "init_ptrs_array" /\ i' # 0 THEN "init_ptrs_array" ELSE "free"
  BY DEF Allocating, InitPtrs, Malloc, Allocates
<1>4. Laid(heap', C) /\ b \in C /\ ptrs' = [ptrs EXCEPT ![i] = b]
  BY DEF Gained
<1>5. heap' \in Heaps /\ b \in Words
  BY <1>4 DEF Laid, Tiles
<1>6. NULL \notin Words
  BY WordFacts
<1>7. b # NULL
  BY <1>5, <1>6
<1>8. /\ ptrs' \in [Index -> Words \union {NULL}] /\ DOMAIN ptrs' = Index /\ DOMAIN ptrs = Index
      /\ ptrs'[i] = b /\ \A k \in Index \ {i} : ptrs'[k] = ptrs[k]
  BY <1>2, <1>4, <1>5
<1>9. i' \in Index /\ i' = IF i = PTRS_ARRAY_LENGTH - 1 THEN 0 ELSE i + 1
  BY <1>2, <1>3, NextIndex
<1>10. Types'
  BY <1>2, <1>3, <1>5, <1>8, <1>9 DEF Types
<1>11. i \notin Held /\ Held \subseteq Index
  BY <1>1, <1>3, HeldIs
<1>12. Held' = {k \in Index : ptrs'[k] # NULL /\ (k = i' => pc' = "free")}
  BY <1>8 DEF Held
<1>13. CASE pc = "malloc"
  <2>1. pc' = "free" /\ \A k \in Index : ptrs'[k] # NULL
    BY <1>1, <1>3, <1>7, <1>8, <1>13
  <2>2. Held = Index \ {i}
    BY <1>1, <1>13, HeldIs
  <2>3. Held' = Held \union {i}
    BY <1>2, <1>12, <2>1, <2>2
  <2> QED
    BY <1>2, <1>5, <1>8, <1>10, <1>11, <1>13, <2>1, <2>3
<1>14. CASE pc = "init_ptrs_array"
  <2>1. Held = {k \in Index : k < i}
    BY <1>1, <1>14, HeldIs
  <2>2. \A k \in Index : k \in Int /\ 0 <= k /\ k < PTRS_ARRAY_LENGTH
    BY IndexType
  <2>3. \A k \in Index : ptrs'[k] # NULL <=> k < i + 1
    BY <1>1, <1>2, <1>7, <1>8, <1>14, <2>2
  <2>4. CASE i = PTRS_ARRAY_LENGTH - 1
    <3>1. pc' = "free" /\ i + 1 = PTRS_ARRAY_LENGTH
      BY <1>2, <1>3, <1>9, <2>2, <2>4, IndexType
    <3>2. \A k \in Index : ptrs'[k] # NULL
      BY <2>2, <2>3, <3>1
    <3>3. Held' = Held \union {i}
      <4>1. Held' = Index
        BY <1>12, <3>1, <3>2
      <4>2. \A k \in Index : k < i \/ k = i
        BY <1>2, <2>2, <3>1
      <4> QED
        BY <1>2, <2>1, <4>1, <4>2
    <3> QED
      BY <1>2, <1>5, <1>8, <1>10, <1>11, <3>1, <3>2, <3>3
  <2>5. CASE i # PTRS_ARRAY_LENGTH - 1
    <3>1. i' = i + 1 /\ pc' = "init_ptrs_array"
      BY <1>2, <1>3, <1>9, <1>14, <2>2, <2>5
    <3>2. Held' = {k \in Index : k < i + 1}
      BY <1>2, <1>12, <2>2, <2>3, <3>1
    <3>3. Held' = Held \union {i}
      BY <1>2, <2>1, <2>2, <3>2
    <3> QED
      BY <1>2, <1>5, <1>8, <1>10, <1>11, <1>14, <2>3, <3>1, <3>3
  <2> QED
    BY <2>4, <2>5
<1> QED
  BY <1>3, <1>13, <1>14

LEMMA AllocatingInv ==
  ASSUME ~CounterWraps, HeapInv, Allocating
  PROVE  HeapInv'
<1>1. PICK b, C : Gained(b, C)
  BY AllocatingGains
<1>2. /\ Types' /\ b \in Words /\ i \in Index /\ i \notin Held
      /\ Held \subseteq Index /\ Held' = Held \union {i}
      /\ ptrs'[i] = b /\ \A k \in Index \ {i} : ptrs'[k] = ptrs[k]
      /\ pc' = "init_ptrs_array" =>
           /\ pc = "init_ptrs_array" /\ i' = i + 1
           /\ \A k \in Index : ptrs'[k] # NULL <=> k < i'
      /\ pc' # "init_ptrs_array" =>
           pc' = "free" /\ \A k \in Index : ptrs'[k] # NULL
      /\ pc = "init_ptrs_array" /\ pc' = "free" => i + 1 = PTRS_ARRAY_LENGTH
  BY <1>1, AllocatingHolds
<1>3. /\ Laid(heap', C)
      /\ C \ FreeOf(heap', C) = {ptrs[k] : k \in Held} \union {b}
      /\ \A k \in Held : ptrs[k] # b /\ Size(heap', ptrs[k]) = Size(heap, ptrs[k])
      /\ Size(heap', b) \in {round_up(ask), round_up(ask) + 4, round_up(ask) + 8}
      /\ pc = "init_ptrs_array" =>
           /\ \A c \in FreeOf(heap', C) : IsTop(heap', c)
           /\ heap'.counter >= i + 1 \/ heap'.counter > Warmup
      /\ pc # "init_ptrs_array" => heap'.counter > Warmup
  BY <1>1 DEF Gained
<1>4. /\ Types
      /\ \A k, l \in Held : ptrs[k] = ptrs[l] => k = l
      /\ \A k \in Held : Size(heap, ptrs[k]) <= MaxAsk + 8
  BY HeldBefore
<1>5. \A k \in Held : k # i /\ ptrs'[k] = ptrs[k]
  BY <1>2
<1>6. C \ FreeOf(heap', C) = {ptrs'[k] : k \in Held'}
  <2>1. {ptrs'[k] : k \in Held \union {i}} = {ptrs'[k] : k \in Held} \union {b}
    BY <1>2
  <2>2. {ptrs'[k] : k \in Held} = {ptrs[k] : k \in Held}
    BY <1>5
  <2> QED
    BY <1>2, <1>3, <2>1, <2>2
<1>7. \A k, l \in Held' : ptrs'[k] = ptrs'[l] => k = l
  BY <1>2, <1>3, <1>4, <1>5
<1>8. Size(heap', b) <= MaxAsk + 8
  <2>1. round_up(ask) \in Int /\ round_up(ask) <= MaxAsk /\ MaxAsk \in Int
    <3>1. ask \in Requests
      BY <1>4 DEF Types
    <3> QED
      BY <3>1, MaxAskFacts
  <2> QED
    BY <1>3, <2>1
<1>9. \A k \in Held' : Size(heap', ptrs'[k]) <= MaxAsk + 8
  <2> SUFFICES ASSUME NEW k \in Held' PROVE Size(heap', ptrs'[k]) <= MaxAsk + 8
    OBVIOUS
  <2>1. CASE k = i
    BY <1>2, <1>8, <2>1
  <2>2. CASE k \in Held
    BY <1>3, <1>4, <1>5, <2>2
  <2> QED
    BY <1>2, <2>1, <2>2
<1>10. Keeps(heap', C, ptrs', Held')
  BY <1>6, <1>7, <1>9 DEF Keeps
<1>11. Phase(heap, C)'
  <2>1. pc' = "init_ptrs_array" =>
          /\ i' > 0 /\ \A k \in Index : ptrs'[k] # NULL <=> k < i'
          /\ \A c \in FreeOf(heap', C) : IsTop(heap', c)
          /\ heap'.counter >= i' \/ heap'.counter > Warmup
    <3>1. 0 <= i /\ i \in Int
      BY <1>2, IndexType
    <3> QED
      BY <1>2, <1>3, <3>1
  <2>2. pc' # "init_ptrs_array" => heap'.counter > Warmup
    <3>1. CASE pc # "init_ptrs_array"
      BY <1>3, <3>1
    <3>2. CASE pc = "init_ptrs_array" /\ pc' # "init_ptrs_array"
      <4>1. i + 1 = PTRS_ARRAY_LENGTH
        BY <1>2, <3>2
      <4>2. heap'.counter \in Int
        BY <1>3 DEF Laid, Heaps
      <4> QED
        BY <1>3, <3>2, <4>1, <4>2, RoomAssumption, HeapAssumption
    <3> QED
      BY <3>1, <3>2
  <2> QED
    BY <1>2, <2>1, <2>2 DEF Phase
<1>12. Owned(C)'
  BY <1>3, <1>10, <1>11 DEF Owned
<1>13. heap'.heap_initialized
  BY <1>3 DEF Laid
<1> QED
  BY <1>2, <1>12, <1>13 DEF HeapInv

(* What a call of free does: the slot at the index is given back.          *)
LEMMA FreeFrees ==
  ASSUME HeapInv, Free
  PROVE  \E B, C : /\ Owned(B) /\ Gave(heap, B, ptrs[i], heap', C)
                   /\ heap.counter > Warmup
<1>1. Types /\ pc = "free" /\ heap.heap_initialized /\ \A k \in Index : ptrs[k] # NULL
  BY HeldBefore DEF Free
<1>2. PICK B : Owned(B)
  BY <1>1 DEF HeapInv
<1>3. Laid(heap, B) /\ Keeps(heap, B, ptrs, Held) /\ heap.counter > Warmup
  BY <1>1, <1>2 DEF Owned, Phase
<1>4. i \in Held
  BY <1>1, HeldIs DEF Types
<1>5. ptrs[i] \in B \ FreeOf(heap, B)
  BY <1>3, <1>4 DEF Keeps
<1>6. Gives(heap, B, ptrs[i])
  BY <1>3, <1>5 DEF Gives, FreeOf
<1>7. PICK C : Gave(heap, B, ptrs[i], free(heap, ptrs[i]), C)
  BY <1>6, FreeWorks
<1>8. heap' = free(heap, ptrs[i])
  BY DEF Free
<1> QED
  BY <1>2, <1>3, <1>7, <1>8

LEMMA FreeHolds ==
  ASSUME HeapInv, Free
  PROVE  /\ heap' \in Heaps => Types'
         /\ Held = Index /\ Held' = Index \ {i} /\ i \in Index /\ DOMAIN ptrs = Index
         /\ ptrs' = ptrs /\ i' = i /\ pc' \in {"free again", "malloc"}
         /\ ask' \in Requests
         /\ \A k \in Index : ptrs[k] # NULL
<1>1. Types /\ pc = "free" /\ \A k \in Index : ptrs[k] # NULL
  BY HeldBefore DEF Free
<1>2. /\ ptrs' = ptrs /\ i' = i /\ pc' \in {"free again", "malloc"} /\ ask' \in Requests
  BY DEF Free, Requests
<1>3. heap' \in Heaps => Types'
  BY <1>1, <1>2 DEF Types
<1>4. DOMAIN ptrs = Index /\ i \in Index
  BY <1>1 DEF Types
<1>5. Held = Index
  BY <1>1, HeldIs
<1>6. Held' = Index \ {i}
  BY <1>1, <1>2, <1>4 DEF Held
<1> QED
  BY <1>1, <1>2, <1>3, <1>4, <1>5, <1>6

LEMMA FreeInv ==
  ASSUME HeapInv, Free
  PROVE  HeapInv'
<1>1. PICK B, C : Owned(B) /\ Gave(heap, B, ptrs[i], heap', C) /\ heap.counter > Warmup
  BY FreeFrees
<1>2. /\ Keeps(heap, B, ptrs, Held) /\ Phase(heap, B)
  BY <1>1 DEF Owned
<1>3. /\ heap' \in Heaps => Types'
      /\ Held = Index /\ Held' = Index \ {i} /\ i \in Index
      /\ ptrs' = ptrs /\ i' = i /\ pc' \in {"free again", "malloc"}
      /\ \A k \in Index : ptrs[k] # NULL
  BY FreeHolds
<1>4. /\ Laid(heap', C)
      /\ C \ FreeOf(heap', C) = (B \ FreeOf(heap, B)) \ {ptrs[i]}
      /\ \A c \in (B \ FreeOf(heap, B)) \ {ptrs[i]} : Size(heap', c) = Size(heap, c)
      /\ IsFree(heap', ptrs[i]) /\ heap'.counter > Warmup
  BY <1>1 DEF Gave
<1>5. /\ B \ FreeOf(heap, B) = {ptrs[k] : k \in Index}
      /\ \A k, l \in Index : ptrs[k] = ptrs[l] => k = l
      /\ \A k \in Index : Size(heap, ptrs[k]) <= MaxAsk + 8
  BY <1>2, <1>3 DEF Keeps
<1>6. C \ FreeOf(heap', C) = {ptrs[k] : k \in Index \ {i}}
  BY <1>3, <1>4, <1>5
<1>7. \A k \in Index \ {i} : Size(heap', ptrs[k]) <= MaxAsk + 8
  BY <1>4, <1>5, <1>6
<1>8. Keeps(heap, C, ptrs, Held)'
  BY <1>3, <1>5, <1>6, <1>7 DEF Keeps
<1>9. Phase(heap, C)'
  BY <1>3, <1>4 DEF Phase
<1>10. Owned(C)'
  BY <1>4, <1>8, <1>9 DEF Owned
<1>11. heap' \in Heaps /\ heap'.heap_initialized
  BY <1>4 DEF Laid
<1> QED
  BY <1>3, <1>10, <1>11 DEF HeapInv

(* The block is free: the second call does nothing.                        *)
LEMMA FreeAgainHolds ==
  ASSUME HeapInv, FreeAgain
  PROVE  /\ heap' = heap /\ ptrs' = ptrs /\ i' = i /\ ask' = ask
         /\ pc = "free again" /\ pc' = "malloc" /\ Held' = Held
<1>1. Types /\ pc = "free again" /\ heap.heap_initialized
  BY HeldBefore DEF FreeAgain
<1>2. PICK B : Owned(B)
  BY <1>1 DEF HeapInv
<1>3. IsFree(heap, ptrs[i])
  BY <1>1, <1>2 DEF Owned, Phase
<1>4. heap' = heap
  BY <1>3 DEF FreeAgain, free
<1>5. /\ ptrs' = ptrs /\ i' = i /\ ask' = ask /\ pc' = "malloc"
  BY DEF FreeAgain
<1>6. Held' = Held
  BY <1>1, <1>5 DEF Held
<1> QED
  BY <1>1, <1>4, <1>5, <1>6

LEMMA FreeAgainInv ==
  ASSUME HeapInv, FreeAgain
  PROVE  HeapInv'
<1>1. /\ heap' = heap /\ ptrs' = ptrs /\ i' = i /\ ask' = ask
      /\ pc = "free again" /\ pc' = "malloc" /\ Held' = Held
  BY FreeAgainHolds
<1>2. Types /\ heap.heap_initialized
  BY <1>1, HeldBefore
<1>3. PICK B : Owned(B)
  BY <1>2 DEF HeapInv
<1>4. Types'
  BY <1>1, <1>2 DEF Types
<1>5. Laid(heap, B)' /\ Keeps(heap, B, ptrs, Held)'
  BY <1>1, <1>3 DEF Owned
<1>6. Phase(heap, B)'
  BY <1>1, <1>3 DEF Owned, Phase
<1>7. Owned(B)'
  BY <1>5, <1>6 DEF Owned
<1> QED
  BY <1>1, <1>2, <1>4, <1>7 DEF HeapInv

LEMMA InitHeapInv == Init => HeapInv
<1> SUFFICES ASSUME Init PROVE HeapInv
  OBVIOUS
<1>1. heap \in Heaps
  BY DEF Init, Heaps
<1>2. ptrs \in [Index -> Words \union {NULL}] /\ \A k \in Index : ptrs[k] = NULL
  BY DEF Init, Index
<1>3. i \in Index /\ ask \in Requests /\ pc = "init_ptrs_array" /\ i = 0
  <2>1. 0 \in Index
    BY IndexType DEF Index
  <2> QED
    BY <2>1 DEF Init, Requests
<1>4. Types
  BY <1>1, <1>2, <1>3 DEF Types
<1>5. Fresh /\ ~heap.heap_initialized
  BY <1>2, <1>3 DEF Init, Fresh
<1> QED
  BY <1>4, <1>5 DEF HeapInv

LEMMA StutterInv ==
  ASSUME HeapInv, UNCHANGED vars
  PROVE  HeapInv'
<1>1. /\ heap' = heap /\ ptrs' = ptrs /\ i' = i /\ ask' = ask /\ pc' = pc
  BY DEF vars
<1>2. Held' = Held
  BY <1>1 DEF Held
<1> QED
  BY <1>1, <1>2 DEF HeapInv, Types, Fresh, Owned, Phase

(* What the calls of malloc_loop leave of the heap, as long as the counter *)
(* of calls does not wrap.                                                 *)
THEOREM HeapInvariant ==
  ASSUME ~CounterWraps
  PROVE  Spec => []HeapInv
<1>1. Init => HeapInv
  BY InitHeapInv
<1>2. HeapInv /\ [Next]_vars => HeapInv'
  <2> SUFFICES ASSUME HeapInv, [Next]_vars PROVE HeapInv'
    OBVIOUS
  <2>1. CASE InitPtrs
    BY <2>1, AllocatingInv DEF Allocating
  <2>2. CASE Malloc
    BY <2>2, AllocatingInv DEF Allocating
  <2>3. CASE Free
    BY <2>3, FreeInv
  <2>4. CASE FreeAgain
    BY <2>4, FreeAgainInv
  <2>5. CASE UNCHANGED vars
    BY <2>5, StutterInv
  <2> QED
    BY <2>1, <2>2, <2>3, <2>4, <2>5 DEF Next
<1> QED
  BY <1>1, <1>2, PTL DEF Spec

-----------------------------------------------------------------------------
(* What the program and the properties see of the blocks. *)

LEMMA OwnedHeap ==
  ASSUME HeapInv, NEW B, Owned(B)
  PROVE  /\ heap \in Heaps /\ heap.heap_initialized
         /\ Tiles(heap, B) /\ TopsFree(heap, B) /\ Settled(heap, B) /\ Linked(heap, B)
         /\ B \subseteq Words
         /\ \A b \in B : b \in Int /\ 0 <= b /\ b < MB_HEXA
BY WordFacts DEF Owned, Laid, Tiles

(* The walk goes through the blocks from the lowest to the top one.        *)
LEMMA WalkSteps ==
  ASSUME HeapInv, NEW B, Owned(B)
  PROVE  /\ Walk \in Seq(B) /\ Len(Walk) \in Nat /\ Len(Walk) >= 1
         /\ DOMAIN Walk = 1 .. Len(Walk) /\ \A k \in DOMAIN Walk : Walk[k] \in B
         /\ Walk[1] = HEAP_BASE
         /\ \A k \in DOMAIN Walk : k # Len(Walk) =>
              /\ k + 1 \in DOMAIN Walk
              /\ ~IsTop(heap, Walk[k]) /\ Walk[k + 1] = Above(heap, Walk[k])
         /\ IsTop(heap, Walk[Len(Walk)])
<1> DEFINE next == [a \in Words |-> IF IsTop(heap, a) THEN a ELSE Above(heap, a)]
           m == [b \in B |-> MB_HEXA - b]
<1>1. /\ heap \in Heaps /\ heap.heap_initialized /\ Tiles(heap, B) /\ B \subseteq Words
      /\ \A b \in B : b \in Int /\ 0 <= b /\ b < MB_HEXA
  BY OwnedHeap
<1>2. MB_HEXA \in Int
  BY HeapAssumption
<1>3. m \in [B -> Nat]
  BY <1>1, <1>2
<1>4. \A b \in B : next[b] = IF IsTop(heap, b) THEN b ELSE Above(heap, b)
  BY <1>1
<1>5. DOMAIN next = Words
  OBVIOUS
<1> HIDE DEF next
<1>6. \A b \in B : ~IsTop(heap, b) => Above(heap, b) \in B /\ Above(heap, b) > b
  BY <1>1, AboveBlock
<1>7. Falls(next, B, m)
  <2> SUFFICES ASSUME NEW b \in B, next[b] # b PROVE next[b] \in B /\ m[next[b]] < m[b]
    BY <1>1, <1>5 DEF Falls
  <2> QED
    BY <1>1, <1>2, <1>4, <1>6
<1>8. 0 \in B /\ m[0] <= MB_HEXA
  BY <1>1, <1>2 DEF Tiles
<1> HIDE DEF m
<1>9. Walk = Trail(next, 0)
  BY <1>1 DEF Walk, next
<1>10. IsTrail(Walk, next, B, 0)
  BY <1>3, <1>7, <1>8, <1>9, TrailDefined
<1>11. /\ Walk \in Seq(B) /\ Len(Walk) >= 1 /\ Walk[1] = 0
       /\ \A j \in 1 .. Len(Walk) - 1 : Walk[j + 1] = next[Walk[j]] /\ next[Walk[j]] # Walk[j]
       /\ next[Walk[Len(Walk)]] = Walk[Len(Walk)]
  BY <1>10 DEF IsTrail
<1>12. Len(Walk) \in Nat /\ DOMAIN Walk = 1 .. Len(Walk) /\ \A k \in DOMAIN Walk : Walk[k] \in B
  BY <1>11
<1>13. ASSUME NEW k \in DOMAIN Walk, k # Len(Walk)
       PROVE  /\ k + 1 \in DOMAIN Walk
              /\ ~IsTop(heap, Walk[k]) /\ Walk[k + 1] = Above(heap, Walk[k])
  <2>1. k \in 1 .. Len(Walk) - 1 /\ k + 1 \in DOMAIN Walk /\ Walk[k] \in B
    BY <1>12, <1>13
  <2> QED
    BY <1>4, <1>11, <2>1
<1>14. IsTop(heap, Walk[Len(Walk)])
  <2> DEFINE t == Walk[Len(Walk)]
  <2>1. t \in B
    BY <1>11, <1>12
  <2>2. next[t] = t
    BY <1>11
  <2> HIDE DEF t
  <2>3. IsTop(heap, t)
    BY <1>1, <1>4, <1>6, <2>1, <2>2
  <2> QED
    BY <2>3 DEF t
<1> QED
  BY <1>11, <1>12, <1>13, <1>14

LEMMA WalkVisits ==
  ASSUME HeapInv, NEW B, Owned(B)
  PROVE  Blocks = B /\ FreeBlocks = FreeOf(heap, B)
<1>1. /\ heap \in Heaps /\ Tiles(heap, B)
      /\ \A b \in B : b \in Int /\ 0 <= b
  BY OwnedHeap
<1>2. /\ DOMAIN Walk = 1 .. Len(Walk) /\ \A k \in DOMAIN Walk : Walk[k] \in B
      /\ Len(Walk) \in Nat /\ Len(Walk) >= 1
      /\ Walk[1] = 0
      /\ \A k \in DOMAIN Walk : k # Len(Walk) =>
           k + 1 \in DOMAIN Walk /\ Walk[k + 1] = Above(heap, Walk[k])
      /\ IsTop(heap, Walk[Len(Walk)])
  BY WalkSteps
<1>3. Blocks \subseteq B
  BY <1>2 DEF Blocks
<1>4. B \subseteq Blocks
  <2> DEFINE T == B \ Blocks
  <2> SUFFICES ASSUME T # {} PROVE FALSE
    OBVIOUS
  <2>1. T \in SUBSET Nat
    BY <1>1
  <2>2. PICK b \in T : \A c \in T : b <= c
    BY <2>1, LeastNumber
  <2>3. 0 \in Blocks
    BY <1>2 DEF Blocks
  <2>4. b \in B /\ b # 0 /\ b \notin Blocks
    BY <2>2, <2>3
  <2>5. /\ Below(heap, b) \in B /\ Below(heap, b) < b /\ ~IsTop(heap, Below(heap, b))
        /\ Above(heap, Below(heap, b)) = b
    BY <1>1, <2>4, BelowBlock
  <2>6. Below(heap, b) \in Blocks
    <3>1. ~(b <= Below(heap, b))
      BY <1>1, <2>4, <2>5
    <3> QED
      BY <2>2, <2>5, <3>1
  <2>7. PICK k \in DOMAIN Walk : Walk[k] = Below(heap, b)
    BY <2>6 DEF Blocks
  <2>8. k # Len(Walk)
    BY <1>2, <2>5, <2>7
  <2>9. k + 1 \in DOMAIN Walk /\ Walk[k + 1] = b
    BY <1>2, <2>5, <2>7, <2>8
  <2> QED
    BY <2>4, <2>9 DEF Blocks
<1> QED
  BY <1>3, <1>4 DEF FreeBlocks, FreeOf

LEMMA InvTypes ==
  ASSUME HeapInv
  PROVE  HeapTypeOK
<1>1. heap \in Heaps /\ ptrs \in [Index -> Words \union {NULL}]
  BY DEF HeapInv, Types
<1>2. heap.first_free_block \in Words
  <2>1. CASE heap.heap_initialized
    <3>1. PICK B : Owned(B)
      BY <2>1 DEF HeapInv
    <3> QED
      BY <3>1, OwnedHeap DEF Linked, IsFirst, FreeOf
  <2>2. CASE ~heap.heap_initialized
    <3>1. heap.first_free_block = 0
      BY <2>2 DEF HeapInv, Fresh
    <3>2. MB_HEXA > 0 /\ MB_HEXA \in Int
      <4>1. Share * 1 <= Share * PTRS_ARRAY_LENGTH
            /\ Share * PTRS_ARRAY_LENGTH = PTRS_ARRAY_LENGTH * Share
        <5>1. Share \in Nat /\ 1 \in Int
          BY MaxAskFacts
        <5> QED
          BY <5>1, IndexType, TimesMore
      <4> QED
        BY <4>1, MaxAskFacts, HeapAssumption
    <3> QED
      BY <3>1, <3>2 DEF Words
  <2> QED
    BY <2>1, <2>2
<1> QED
  BY <1>1, <1>2 DEF HeapTypeOK, Heaps

LEMMA InvTiled ==
  ASSUME HeapInv
  PROVE  Tiled /\ Coalesced /\ TopStaysFree
<1>1. CASE heap.heap_initialized
  <2>1. PICK B : Owned(B)
    BY <1>1 DEF HeapInv
  <2>2. /\ heap \in Heaps /\ Tiles(heap, B) /\ TopsFree(heap, B) /\ Settled(heap, B)
        /\ \A b \in B : b \in Int
    BY <2>1, OwnedHeap
  <2>3. /\ DOMAIN Walk = 1 .. Len(Walk) /\ \A k \in DOMAIN Walk : Walk[k] \in B
        /\ Len(Walk) \in Nat /\ Len(Walk) >= 1
        /\ Walk[1] = 0
        /\ \A k \in DOMAIN Walk : k # Len(Walk) =>
             /\ ~IsTop(heap, Walk[k]) /\ Walk[k + 1] = Above(heap, Walk[k])
        /\ IsTop(heap, Walk[Len(Walk)])
    BY <2>1, WalkSteps
  <2>4. ASSUME NEW k \in DOMAIN Walk, k # 1
        PROVE  /\ k - 1 \in DOMAIN Walk /\ Walk[k - 1] \in B /\ ~IsTop(heap, Walk[k - 1])
               /\ Walk[k] = Above(heap, Walk[k - 1])
    <3>1. k - 1 \in DOMAIN Walk /\ k - 1 # Len(Walk) /\ (k - 1) + 1 = k
      BY <2>3, <2>4
    <3> QED
      BY <2>3, <3>1
  <2>5. ASSUME NEW k \in DOMAIN Walk
        PROVE  PrevSize(heap, Walk[k]) = IF k = 1 THEN 0 ELSE Size(heap, Walk[k - 1])
    <3>1. CASE k = 1
      BY <2>2, <2>3, <3>1 DEF Tiles
    <3>2. CASE k # 1
      <4> DEFINE a == Walk[k - 1]
                 b == Walk[k]
      <4>1. a \in B /\ b \in B /\ ~IsTop(heap, a) /\ b = Above(heap, a)
        BY <2>3, <2>4, <3>2
      <4> HIDE DEF a, b
      <4>2. Below(heap, b) = a
        BY <2>2, <4>1, AboveBlock
      <4>3. /\ a \in Int /\ Size(heap, a) \in Int /\ Above(heap, a) = a + Size(heap, a) + 8
            /\ b \in Int /\ PrevSize(heap, b) \in Int /\ Below(heap, b) = b - PrevSize(heap, b) - 8
        BY <2>2, <4>1, BlockFacts
      <4>4. PrevSize(heap, b) = Size(heap, a)
        BY <4>1, <4>2, <4>3
      <4> QED
        BY <3>2, <4>4 DEF a, b
    <3> QED
      BY <3>1, <3>2
  <2>6. Above(heap, Walk[Len(Walk)]) = MB_HEXA + 8
    BY <2>2, <2>3 DEF Tiles, TopEnd
  <2>7. Tiled
    BY <2>5, <2>6 DEF Tiled
  <2>8. Coalesced
    <3> SUFFICES ASSUME NEW k \in 2 .. Len(Walk),
                        IsFree(heap, Walk[k - 1]), IsFree(heap, Walk[k])
                 PROVE  FALSE
      BY DEF Coalesced
    <3>1. k \in DOMAIN Walk /\ k # 1
      BY <2>3
    <3> QED
      BY <2>2, <2>4, <3>1 DEF Settled
  <2>9. TopStaysFree
    BY <2>2, <2>3 DEF TopStaysFree, TopsFree
  <2> QED
    BY <2>7, <2>8, <2>9
<1>2. CASE ~heap.heap_initialized
  <2>1. Walk = << >>
    BY <1>2 DEF Walk
  <2>2. DOMAIN Walk = {} /\ 2 .. Len(Walk) = {}
    BY <2>1
  <2> QED
    BY <1>2, <2>2 DEF Tiled, Coalesced, TopStaysFree
<1> QED
  BY <1>1, <1>2

LEMMA InvHeld ==
  ASSUME HeapInv
  PROVE  ReservedIsHeld
<1>1. CASE heap.heap_initialized
  <2>1. PICK B : Owned(B)
    BY <1>1 DEF HeapInv
  <2>2. Keeps(heap, B, ptrs, Held)
    BY <2>1 DEF Owned
  <2>3. Blocks = B /\ FreeBlocks = FreeOf(heap, B)
    BY <2>1, WalkVisits
  <2> QED
    BY <2>2, <2>3 DEF Keeps, ReservedIsHeld
<1>2. CASE ~heap.heap_initialized
  <2>1. Walk = << >>
    BY <1>2 DEF Walk
  <2>2. Blocks = {}
    BY <2>1 DEF Blocks
  <2>3. Held = {}
    BY <1>2, HeldIs DEF HeapInv, Fresh
  <2> QED
    BY <2>2, <2>3 DEF ReservedIsHeld, FreeBlocks
<1> QED
  BY <1>1, <1>2

(* The list goes up through free blocks and ends at the top one.           *)
LEMMA ListSteps ==
  ASSUME HeapInv, NEW B, Owned(B), NEW F, F = FreeOf(heap, B)
  PROVE  /\ FreeList \in Seq(F) /\ Len(FreeList) \in Nat /\ Len(FreeList) >= 1
         /\ DOMAIN FreeList = 1 .. Len(FreeList) /\ \A k \in DOMAIN FreeList : FreeList[k] \in F
         /\ IsFirst(F, FreeList[1])
         /\ \A k \in DOMAIN FreeList : k # Len(FreeList) =>
              /\ k + 1 \in DOMAIN FreeList
              /\ FreeList[k + 1] > FreeList[k]
              /\ Follows(F, FreeList[k], FreeList[k + 1])
         /\ \A c \in F : c <= FreeList[Len(FreeList)]
<1> DEFINE next == [a \in Words |-> IF IsTop(heap, a) THEN a ELSE NextFree(heap, a)]
           m == [b \in F |-> MB_HEXA - b]
<1>1. /\ heap \in Heaps /\ heap.heap_initialized /\ Tiles(heap, B) /\ TopsFree(heap, B)
      /\ Linked(heap, B) /\ B \subseteq Words
      /\ \A b \in B : b \in Int /\ 0 <= b /\ b < MB_HEXA
  BY OwnedHeap
<1>2. MB_HEXA \in Int
  BY HeapAssumption
<1>3. F \subseteq B /\ F \subseteq Words /\ \A b \in F : b \in Int /\ 0 <= b /\ b < MB_HEXA
  BY <1>1 DEF FreeOf
<1>4. m \in [F -> Nat]
  BY <1>2, <1>3
<1>5. DOMAIN next = Words /\ \A b \in F : next[b] = IF IsTop(heap, b) THEN b ELSE NextFree(heap, b)
  BY <1>3
<1> HIDE DEF next
<1>6. PICK t \in B : IsTop(heap, t) /\ \A b \in B : b <= t /\ (IsTop(heap, b) => b = t)
  BY <1>1, TopIs
<1>7. t \in F
  BY <1>1, <1>6 DEF TopsFree, FreeOf
<1>8. ASSUME NEW b \in F, ~IsTop(heap, b)
      PROVE  /\ NextFree(heap, b) \in F /\ NextFree(heap, b) > b
             /\ Follows(F, b, NextFree(heap, b))
  <2>1. Follows(F, b, NextFree(heap, b))
    BY <1>1 DEF Linked
  <2>2. t > b
    <3>1. b <= t /\ b # t
      BY <1>3, <1>6, <1>8
    <3> QED
      BY <1>3, <1>7, <3>1
  <2>3. \E c \in F : c > b
    BY <1>7, <2>2
  <2> QED
    BY <2>1, <2>3 DEF Follows
<1>9. Falls(next, F, m)
  <2> SUFFICES ASSUME NEW b \in F, next[b] # b PROVE next[b] \in F /\ m[next[b]] < m[b]
    BY <1>3, <1>5 DEF Falls
  <2>1. ~IsTop(heap, b) /\ next[b] = NextFree(heap, b)
    BY <1>5
  <2>2. next[b] \in F /\ next[b] > b
    BY <1>8, <2>1
  <2> QED
    BY <1>2, <1>3, <2>2
<1> DEFINE a == heap.first_free_block
<1>10. IsFirst(F, a)
  BY <1>1 DEF Linked
<1>11. a \in F /\ m[a] <= MB_HEXA
  BY <1>2, <1>3, <1>10 DEF IsFirst
<1> HIDE DEF m, a
<1>12. FreeList = Trail(next, a)
  BY <1>1 DEF FreeList, next, a
<1>13. IsTrail(FreeList, next, F, a)
  BY <1>4, <1>9, <1>11, <1>12, TrailDefined
<1>14. /\ FreeList \in Seq(F) /\ Len(FreeList) >= 1 /\ FreeList[1] = a
       /\ \A j \in 1 .. Len(FreeList) - 1 :
            FreeList[j + 1] = next[FreeList[j]] /\ next[FreeList[j]] # FreeList[j]
       /\ next[FreeList[Len(FreeList)]] = FreeList[Len(FreeList)]
  BY <1>13 DEF IsTrail
<1>15. /\ Len(FreeList) \in Nat /\ DOMAIN FreeList = 1 .. Len(FreeList)
       /\ \A k \in DOMAIN FreeList : FreeList[k] \in F
  BY <1>14
<1>16. ASSUME NEW k \in DOMAIN FreeList, k # Len(FreeList)
       PROVE  /\ k + 1 \in DOMAIN FreeList
              /\ FreeList[k + 1] > FreeList[k]
              /\ Follows(F, FreeList[k], FreeList[k + 1])
  <2>1. k \in 1 .. Len(FreeList) - 1 /\ k + 1 \in DOMAIN FreeList /\ FreeList[k] \in F
    BY <1>15, <1>16
  <2>2. ~IsTop(heap, FreeList[k]) /\ FreeList[k + 1] = NextFree(heap, FreeList[k])
    BY <1>5, <1>14, <2>1
  <2> QED
    BY <1>8, <2>1, <2>2
<1>17. \A c \in F : c <= FreeList[Len(FreeList)]
  <2> DEFINE e == FreeList[Len(FreeList)]
  <2>1. e \in F /\ next[e] = e
    BY <1>14, <1>15
  <2> HIDE DEF e
  <2>2. IsTop(heap, e)
    <3> SUFFICES ASSUME ~IsTop(heap, e) PROVE FALSE
      OBVIOUS
    <3>1. e > e /\ e \in Int
      BY <1>3, <1>5, <1>8, <2>1
    <3> QED
      BY <3>1
  <2>3. e = t
    BY <1>3, <1>6, <2>1, <2>2
  <2>4. \A c \in F : c <= e
    BY <1>3, <1>6, <2>3
  <2> QED
    BY <2>4 DEF e
<1> QED
  BY <1>10, <1>14, <1>15, <1>16, <1>17

LEMMA InvListed ==
  ASSUME HeapInv
  PROVE  FreeListComplete
<1>1. CASE heap.heap_initialized
  <2>1. PICK B : Owned(B)
    BY <1>1 DEF HeapInv
  <2> DEFINE F == FreeOf(heap, B)
             n == Len(FreeList)
             S == {FreeList[k] : k \in DOMAIN FreeList}
  <2>2. F \in SUBSET Int
    BY <2>1, OwnedHeap, FreeNumbers
  <2>3. /\ n \in Nat /\ n >= 1
        /\ DOMAIN FreeList = 1 .. n /\ \A k \in DOMAIN FreeList : FreeList[k] \in F
        /\ IsFirst(F, FreeList[1])
        /\ \A k \in DOMAIN FreeList : k # n =>
             /\ k + 1 \in DOMAIN FreeList
             /\ FreeList[k + 1] > FreeList[k]
             /\ Follows(F, FreeList[k], FreeList[k + 1])
        /\ \A c \in F : c <= FreeList[n]
    BY <2>1, ListSteps
  <2> HIDE DEF F, n
  <2>4. ASSUME NEW k \in DOMAIN FreeList, k # 1
        PROVE  /\ k - 1 \in DOMAIN FreeList /\ FreeList[k - 1] \in F
               /\ FreeList[k] > FreeList[k - 1] /\ Follows(F, FreeList[k - 1], FreeList[k])
    <3>1. k - 1 \in DOMAIN FreeList /\ k - 1 # n /\ (k - 1) + 1 = k
      BY <2>3, <2>4
    <3> QED
      BY <2>3, <3>1
  <2>5. F \subseteq S
    <3> SUFFICES ASSUME NEW c \in F, c \notin S PROVE FALSE
      OBVIOUS
    <3> DEFINE T == {k \in DOMAIN FreeList : FreeList[k] > c}
    <3>1. n \in T
      <4>1. n \in DOMAIN FreeList /\ FreeList[n] # c /\ c <= FreeList[n] /\ FreeList[n] \in F
        BY <2>3
      <4>2. FreeList[n] > c
        BY <2>2, <4>1
      <4> QED
        BY <4>1, <4>2
    <3>2. T \in SUBSET Nat /\ T # {}
      BY <2>3, <3>1
    <3>3. PICK k \in T : \A l \in T : k <= l
      BY <3>2, LeastNumber
    <3>4. k \in DOMAIN FreeList /\ FreeList[k] > c /\ FreeList[k] \in F
      BY <2>3, <3>3
    <3>5. k # 1
      <4>1. FreeList[1] <= c
        BY <2>3 DEF IsFirst
      <4>2. c \in Int /\ FreeList[k] \in Int
        BY <2>2, <3>4
      <4>3. FreeList[k] # FreeList[1]
        <5> DEFINE x == FreeList[k]
                   y == FreeList[1]
        <5>1. x \in Int /\ x > c /\ y <= c
          BY <3>4, <4>1, <4>2
        <5> HIDE DEF x, y
        <5>2. x # y
          BY <4>2, <5>1
        <5> QED
          BY <5>2 DEF x, y
      <4> QED
        BY <4>3
    <3>6. /\ k - 1 \in DOMAIN FreeList /\ FreeList[k - 1] \in F
          /\ Follows(F, FreeList[k - 1], FreeList[k])
      BY <2>4, <3>4, <3>5
    <3>7. k - 1 \notin T
      <4>1. k \in Int /\ ~(k <= k - 1)
        BY <2>3, <3>4
      <4> QED
        BY <3>3, <4>1
    <3>8. c > FreeList[k - 1]
      <4> DEFINE x == FreeList[k - 1]
      <4>1. ~(x > c) /\ x # c
        BY <3>6, <3>7
      <4>2. c \in Int /\ x \in Int
        BY <2>2, <3>6
      <4> HIDE DEF x
      <4>3. c > x
        BY <4>1, <4>2
      <4> QED
        BY <4>3 DEF x
    <3>9. FreeList[k] <= c
      BY <3>6, <3>8 DEF Follows
    <3> QED
      BY <2>2, <3>4, <3>9
  <2>6. S \subseteq F
    BY <2>3
  <2>7. \A k \in 2 .. n : FreeList[k - 1] < FreeList[k]
    <3> SUFFICES ASSUME NEW k \in 2 .. n PROVE FreeList[k - 1] < FreeList[k]
      OBVIOUS
    <3>1. k \in DOMAIN FreeList /\ k # 1
      BY <2>3
    <3>2. FreeList[k - 1] \in F /\ FreeList[k] \in F /\ FreeList[k] > FreeList[k - 1]
      BY <2>3, <2>4, <3>1
    <3> QED
      BY <2>2, <3>2
  <2>8. FreeBlocks = F
    BY <2>1, WalkVisits DEF F
  <2>9. S = FreeBlocks
    BY <2>5, <2>6, <2>8
  <2> QED
    BY <2>7, <2>9 DEF FreeListComplete, n
<1>2. CASE ~heap.heap_initialized
  <2>1. Walk = << >> /\ FreeList = << >>
    BY <1>2 DEF Walk, FreeList
  <2>2. FreeBlocks = {}
    BY <2>1 DEF FreeBlocks, Blocks
  <2>3. DOMAIN FreeList = {} /\ 2 .. Len(FreeList) = {}
    BY <2>1
  <2> QED
    BY <2>2, <2>3 DEF FreeListComplete
<1> QED
  BY <1>1, <1>2

(* The globals of heap.c and the pointers of the program are addresses in  *)
(* the heap.                                                               *)
THEOREM HeapTypeCorrect ==
  ASSUME ~CounterWraps
  PROVE  Spec => []HeapTypeOK
<1>1. HeapInv => HeapTypeOK
  BY InvTypes
<1> QED
  BY <1>1, HeapInvariant, PTL

(* The blocks tile the heap after every call of malloc and free.           *)
THEOREM HeapIsTiled ==
  ASSUME ~CounterWraps
  PROVE  Spec => []Tiled
<1>1. HeapInv => Tiled
  BY InvTiled
<1> QED
  BY <1>1, HeapInvariant, PTL

(* malloc gives out no block twice, and free loses none.                   *)
THEOREM BlocksAreHeldOnce ==
  ASSUME ~CounterWraps
  PROVE  Spec => []ReservedIsHeld
<1>1. HeapInv => ReservedIsHeld
  BY InvHeld
<1> QED
  BY <1>1, HeapInvariant, PTL

(* What malloc searches has every free block.                              *)
THEOREM EveryFreeBlockIsListed ==
  ASSUME ~CounterWraps
  PROVE  Spec => []FreeListComplete
<1>1. HeapInv => FreeListComplete
  BY InvListed
<1> QED
  BY <1>1, HeapInvariant, PTL

(* free merges what it gives back with the free blocks beside it.          *)
THEOREM FreeBlocksAreMerged ==
  ASSUME ~CounterWraps
  PROVE  Spec => []Coalesced
<1>1. HeapInv => Coalesced
  BY InvTiled
<1> QED
  BY <1>1, HeapInvariant, PTL

(* The searches of find_next_free and update_first_free_block end in the   *)
(* heap: malloc leaves the top block free.                                 *)
THEOREM TopBlockStaysFree ==
  ASSUME ~CounterWraps
  PROVE  Spec => []TopStaysFree
<1>1. HeapInv => TopStaysFree
  BY InvTiled
<1> QED
  BY <1>1, HeapInvariant, PTL

-----------------------------------------------------------------------------
(* The allocator of Allocator.tla. *)

Block(k) ==
  IF k \in Held THEN [at |-> ptrs[k], room |-> Size(heap, ptrs[k])]
  ELSE [at |-> -1, room |-> -1]

InSlots == [k \in DOMAIN ptrs |-> Block(k)]

LEMMA RoomNeeded ==
  ASSUME NEW n \in Requests
  PROVE  Promise!Needed(n) = round_up(n)
<1>1. n \in Nat \ {0}
  BY HeapAssumption DEF Requests
<1> QED
  BY <1>1, RoundedUp DEF Promise!Needed

LEMMA RestIsSmall ==
  Promise!Aligned(FB_HEADER_SIZE - 1) = {0, 4, 8}
<1>1. FB_HEADER_SIZE - 1 = 11
  OBVIOUS
<1>2. ASSUME NEW k \in 0 .. 11 PROVE k % 4 = 0 <=> k \in {0, 4, 8}
  OBVIOUS
<1>3. Promise!Aligned(11) = {k \in 0 .. 11 : k % 4 = 0}
  BY DEF Promise!Aligned
<1> QED
  BY <1>1, <1>2, <1>3

(* A block that malloc returns is one that the allocator may give out.     *)
LEMMA AllocatingRefines ==
  ASSUME ~CounterWraps, HeapInv, Allocating
  PROVE  Promise!Next
<1>1. PICK b, C : Gained(b, C)
  BY AllocatingGains
<1>2. /\ b \in Words /\ i \in Index /\ i \notin Held
      /\ Held \subseteq Index /\ Held' = Held \union {i}
      /\ DOMAIN ptrs' = Index /\ DOMAIN ptrs = Index
      /\ ptrs'[i] = b /\ \A k \in Index \ {i} : ptrs'[k] = ptrs[k]
  BY <1>1, AllocatingHolds
<1>3. /\ Laid(heap', C)
      /\ C \ FreeOf(heap', C) = {ptrs[k] : k \in Held} \union {b}
      /\ \A k \in Held : ptrs[k] # b /\ Size(heap', ptrs[k]) = Size(heap, ptrs[k])
      /\ Size(heap', b) \in {round_up(ask), round_up(ask) + 4, round_up(ask) + 8}
  BY <1>1 DEF Gained
<1>4. /\ heap' \in Heaps /\ Tiles(heap', C)
      /\ \A c \in C : /\ c \in Int /\ Size(heap', c) \in Int
                      /\ Above(heap', c) = c + Size(heap', c) + 8
  BY <1>3, BlockFacts DEF Laid
<1>5. b \in C /\ \A k \in Held : ptrs[k] \in C
  BY <1>3
<1>6. ask \in Requests
  BY DEF HeapInv, Types
<1>7. InSlots' = [InSlots EXCEPT ![i] = InSlots'[i]]
  <2>1. ASSUME NEW k \in Index \ {i} PROVE Block(k)' = Block(k)
    BY <1>2, <1>3, <2>1 DEF Block
  <2>2. DOMAIN InSlots = Index /\ \A k \in Index : InSlots[k] = Block(k)
    BY <1>2 DEF InSlots
  <2>3. InSlots' = [k \in Index |-> Block(k)']
    BY <1>2 DEF InSlots
  <2>4. \A k \in Index \ {i} : InSlots'[k] = InSlots[k]
    BY <2>1, <2>2, <2>3
  <2> HIDE DEF InSlots
  <2> QED
    BY <1>2, <2>2, <2>3, <2>4
<1> DEFINE block == [at |-> b, room |-> Size(heap', b)]
<1>8. InSlots'[i] = block
  <2>1. i \in Held'
    BY <1>2
  <2> QED
    BY <1>2, <2>1 DEF InSlots, Block
<1>9. InSlots[i] = [at |-> -1, room |-> -1]
  BY <1>2 DEF InSlots, Block
<1>10. b \in Promise!Aligned(MB_HEXA + RB_HEADER_SIZE)
  <2>1. b \in 0 .. MB_HEXA + 8 /\ b % 4 = 0
    BY <1>2, WordFacts, HeapAssumption
  <2> QED
    BY <2>1 DEF Promise!Aligned
<1>11. Size(heap', b) \in {Promise!Needed(ask) + r : r \in Promise!Aligned(FB_HEADER_SIZE - 1)}
  <2>1. round_up(ask) \in Int
    BY <1>6, MaxAskFacts
  <2>2. Size(heap', b) \in {round_up(ask) + r : r \in {0, 4, 8}}
    BY <1>3, <2>1
  <2> QED
    BY <1>6, <2>2, RestIsSmall, RoomNeeded
<1>12. b + RB_HEADER_SIZE + Size(heap', b) <= MB_HEXA + RB_HEADER_SIZE
  <2>1. Above(heap', b) <= MB_HEXA + 8
    <3>1. CASE IsTop(heap', b)
      BY <1>4, <1>5, <3>1, HeapAssumption DEF Tiles, TopEnd
    <3>2. CASE ~IsTop(heap', b)
      <4>1. Above(heap', b) \in Words
        BY <1>4, <1>5, <3>2 DEF Tiles
      <4> QED
        BY <4>1, WordFacts, HeapAssumption
    <3> QED
      BY <3>1, <3>2
  <2>2. b \in Int /\ Size(heap', b) \in Int /\ Above(heap', b) = b + Size(heap', b) + 8
    BY <1>4, <1>5
  <2> QED
    BY <2>1, <2>2, HeapAssumption
<1>13. ASSUME NEW l \in Index \ {i}
       PROVE  InSlots[l] = [at |-> -1, room |-> -1] \/ Promise!Disjoint(block, InSlots[l])
  <2>1. CASE l \notin Held
    BY <1>2, <2>1 DEF InSlots, Block
  <2>2. CASE l \in Held
    <3> DEFINE c == ptrs[l]
    <3>1. InSlots[l] = [at |-> c, room |-> Size(heap, c)]
      BY <1>2, <2>2 DEF InSlots, Block
    <3>2. c \in C /\ c # b /\ Size(heap', c) = Size(heap, c)
      BY <1>3, <1>5, <2>2
    <3> HIDE DEF c
    <3>3. /\ c \in Int /\ Size(heap', c) \in Int /\ Above(heap', c) = c + Size(heap', c) + 8
          /\ b \in Int /\ Size(heap', b) \in Int /\ Above(heap', b) = b + Size(heap', b) + 8
      BY <1>4, <1>5, <3>2
    <3>4. b < c \/ c < b
      BY <3>2, <3>3
    <3>5. Above(heap', b) <= c \/ Above(heap', c) <= b
      BY <1>4, <1>5, <3>2, <3>4 DEF Tiles
    <3>6. b + 8 + Size(heap', b) <= c \/ c + 8 + Size(heap, c) <= b
      BY <3>2, <3>3, <3>5
    <3> QED
      BY <3>1, <3>6 DEF Promise!Disjoint
  <2> QED
    BY <2>1, <2>2
<1>14. block \in [at : Promise!Aligned(MB_HEXA + RB_HEADER_SIZE),
                  room : {Promise!Needed(ask) + r : r \in Promise!Aligned(FB_HEADER_SIZE - 1)}]
  BY <1>10, <1>11
<1>15. ask' = ask
  BY DEF Allocating, InitPtrs, Malloc
<1> HIDE DEF block
<1>16. block.at = b /\ block.room = Size(heap', b)
  BY DEF block
<1>17. Promise!Suits(block, i)
  BY <1>2, <1>12, <1>13, <1>14, <1>16
     DEF Promise!Suits, Promise!Empty, InSlots, Block, Index
<1>18. ASSUME NEW j \in Index, j = i PROVE Promise!Allocate(j)
  BY <1>7, <1>8, <1>9, <1>15, <1>17, <1>18 DEF Promise!Allocate, Promise!Empty, InSlots, Block
<1>19. PICK j \in Index : j = i
  BY <1>2
<1>20. Promise!Allocate(j)
  BY <1>18, <1>19
<1> QED
  BY <1>20 DEF Promise!Next, Index

LEMMA FreeRefines ==
  ASSUME HeapInv, Free
  PROVE  Promise!Next
<1>1. PICK B, C : Owned(B) /\ Gave(heap, B, ptrs[i], heap', C) /\ heap.counter > Warmup
  BY FreeFrees
<1>2. /\ Held = Index /\ Held' = Index \ {i} /\ i \in Index /\ DOMAIN ptrs = Index
      /\ ptrs' = ptrs /\ i' = i /\ ask' \in Requests
      /\ \A k \in Index : ptrs[k] # NULL
  BY FreeHolds
<1>3. \A c \in (B \ FreeOf(heap, B)) \ {ptrs[i]} : Size(heap', c) = Size(heap, c)
  BY <1>1 DEF Gave
<1>4. /\ B \ FreeOf(heap, B) = {ptrs[k] : k \in Index}
      /\ \A k, l \in Index : ptrs[k] = ptrs[l] => k = l
  BY <1>1, <1>2 DEF Owned, Keeps
<1>5. \A k \in Index \ {i} : Size(heap', ptrs[k]) = Size(heap, ptrs[k])
  BY <1>2, <1>3, <1>4
<1>6. ASSUME NEW k \in Index \ {i} PROVE Block(k)' = Block(k)
  BY <1>2, <1>5 DEF Block
<1>7. Block(i)' = [at |-> -1, room |-> -1]
  BY <1>2 DEF Block
<1>8. InSlots' = [InSlots EXCEPT ![i] = [at |-> -1, room |-> -1]]
  <2>1. DOMAIN InSlots = Index /\ \A k \in Index : InSlots[k] = Block(k)
    BY <1>2 DEF InSlots
  <2>2. InSlots' = [k \in Index |-> Block(k)']
    BY <1>2 DEF InSlots
  <2> HIDE DEF InSlots
  <2> QED
    BY <1>2, <1>6, <1>7, <2>1, <2>2
<1>9. InSlots[i] # [at |-> -1, room |-> -1]
  <2>1. InSlots[i] = [at |-> ptrs[i], room |-> Size(heap, ptrs[i])]
    BY <1>2 DEF InSlots, Block
  <2>2. ptrs[i] # -1
    BY <1>2
  <2>3. InSlots[i].at = ptrs[i] /\ [at |-> -1, room |-> -1].at = -1
    BY <2>1
  <2> QED
    BY <2>2, <2>3
<1>10. ASSUME NEW j \in Index, j = i PROVE Promise!Free(j)
  BY <1>2, <1>8, <1>9, <1>10 DEF Promise!Free, Promise!Empty, InSlots, Block
<1>11. PICK j \in Index : j = i
  BY <1>2
<1>12. Promise!Free(j)
  BY <1>10, <1>11
<1> QED
  BY <1>12 DEF Promise!Next, Index

(* Every run of the program is one that the allocator allows: malloc       *)
(* grants every request, with room and apart from what is held.            *)
THEOREM HeapRefinesAllocator ==
  ASSUME ~CounterWraps
  PROVE  Spec => ImplementsAllocator
<1>1. Init => Promise!Init
  <2> SUFFICES ASSUME Init PROVE Promise!Init
    OBVIOUS
  <2>1. HeapInv /\ ~heap.heap_initialized
    BY InitHeapInv DEF Init
  <2>2. Held = {} /\ DOMAIN ptrs = Index /\ ask \in Requests
    BY <2>1, HeldIs DEF HeapInv, Fresh, Types
  <2>3. InSlots = [k \in Index |-> [at |-> -1, room |-> -1]]
    BY <2>2 DEF InSlots, Block
  <2> QED
    BY <2>2, <2>3 DEF Promise!Init, Promise!Empty, InSlots, Block, Index
<1>2. HeapInv /\ [Next]_vars => [Promise!Next]_(Promise!vars)
  <2> SUFFICES ASSUME HeapInv, [Next]_vars PROVE [Promise!Next]_(Promise!vars)
    OBVIOUS
  <2>1. CASE InitPtrs
    BY <2>1, AllocatingRefines DEF Allocating
  <2>2. CASE Malloc
    BY <2>2, AllocatingRefines DEF Allocating
  <2>3. CASE Free
    BY <2>3, FreeRefines
  <2>4. CASE FreeAgain
    <3>1. /\ heap' = heap /\ ptrs' = ptrs /\ i' = i /\ ask' = ask /\ Held' = Held
      BY <2>4, FreeAgainHolds
    <3> QED
      BY <3>1 DEF Promise!vars
  <2>5. CASE UNCHANGED vars
    <3>1. /\ heap' = heap /\ ptrs' = ptrs /\ ask' = ask /\ Held' = Held
      BY <2>5 DEF vars, Held
    <3> QED
      BY <3>1 DEF Promise!vars
  <2> QED
    BY <2>1, <2>2, <2>3, <2>4, <2>5 DEF Next
<1>3. Spec => []HeapInv
  BY HeapInvariant
<1> QED
  BY <1>1, <1>2, <1>3, PTL DEF Spec, ImplementsAllocator, Promise!Spec

(* A block ends where the section does at the latest. *)
LEMMA EndsInside ==
  ASSUME HeapInv, NEW B, Owned(B), NEW b \in B
  PROVE  /\ b \in Int /\ Size(heap, b) \in Int /\ Above(heap, b) = b + Size(heap, b) + 8
         /\ Above(heap, b) <= MB_HEXA + 8
<1>1. heap \in Heaps /\ Tiles(heap, B)
  BY OwnedHeap
<1>2. b \in Int /\ Size(heap, b) \in Int /\ Above(heap, b) = b + Size(heap, b) + 8
  BY <1>1, BlockFacts
<1>3. CASE IsTop(heap, b)
  <2>1. Above(heap, b) = MB_HEXA + 8
    BY <1>1, <1>3 DEF Tiles, TopEnd
  <2> QED
    BY <1>2, <2>1, HeapAssumption
<1>4. CASE ~IsTop(heap, b)
  <2>1. Above(heap, b) \in Words
    BY <1>1, <1>4 DEF Tiles
  <2> QED
    BY <1>2, <2>1, WordFacts, HeapAssumption
<1> QED
  BY <1>2, <1>3, <1>4

LEMMA InvApart ==
  ASSUME HeapInv
  PROVE  Promise!NoOverlap
<1>1. Types
  BY DEF HeapInv
<1>2. DOMAIN ptrs = Index
  BY <1>1 DEF Types
<1>3. \A k \in Index : InSlots[k] = Block(k)
  BY <1>2 DEF InSlots
<1>4. CASE ~heap.heap_initialized
  <2>1. Held = {}
    BY <1>4, HeldIs DEF HeapInv, Fresh
  <2>2. \A k \in Index : InSlots[k] = [at |-> -1, room |-> -1]
    BY <1>3, <2>1 DEF Block
  <2> QED
    BY <2>2 DEF Promise!NoOverlap, Promise!Empty, InSlots, Block, Index
<1>5. CASE heap.heap_initialized
  <2>1. PICK B : Owned(B)
    BY <1>5 DEF HeapInv
  <2>2. /\ B \ FreeOf(heap, B) = {ptrs[k] : k \in Held}
        /\ \A k, l \in Held : ptrs[k] = ptrs[l] => k = l
    BY <2>1 DEF Owned, Keeps
  <2>3. \A k \in Held : ptrs[k] \in B
    BY <2>2
  <2>4. ASSUME NEW k \in Index, InSlots[k] # [at |-> -1, room |-> -1]
        PROVE  /\ k \in Held /\ InSlots[k].at = ptrs[k]
               /\ InSlots[k].room = Size(heap, ptrs[k])
    <3>1. InSlots[k] = Block(k)
      BY <1>3
    <3>2. k \in Held
      BY <2>4, <3>1 DEF Block
    <3>3. InSlots[k] = [at |-> ptrs[k], room |-> Size(heap, ptrs[k])]
      BY <3>1, <3>2 DEF Block
    <3> DEFINE c == ptrs[k]
               n == Size(heap, ptrs[k])
    <3>4. InSlots[k] = [at |-> c, room |-> n]
      BY <3>3
    <3> HIDE DEF c, n
    <3>5. InSlots[k].at = c /\ InSlots[k].room = n
      BY <3>4
    <3> QED
      BY <3>2, <3>5 DEF c, n
  <2>5. ASSUME NEW k \in Index, NEW l \in Index,
               InSlots[k] # [at |-> -1, room |-> -1],
               InSlots[l] # [at |-> -1, room |-> -1]
        PROVE  /\ InSlots[k].at + 8 + InSlots[k].room <= MB_HEXA + 8
               /\ k # l => Promise!Disjoint(InSlots[k], InSlots[l])
    <3> DEFINE b == ptrs[k]
               c == ptrs[l]
    <3>1. /\ InSlots[k].at = b /\ InSlots[k].room = Size(heap, b)
          /\ InSlots[l].at = c /\ InSlots[l].room = Size(heap, c)
          /\ b \in B /\ c \in B /\ (k # l => b # c)
      BY <2>2, <2>3, <2>4, <2>5
    <3> HIDE DEF b, c
    <3>2. /\ b \in Int /\ Size(heap, b) \in Int /\ Above(heap, b) = b + Size(heap, b) + 8
          /\ Above(heap, b) <= MB_HEXA + 8
          /\ c \in Int /\ Size(heap, c) \in Int /\ Above(heap, c) = c + Size(heap, c) + 8
      BY <2>1, <3>1, EndsInside
    <3>3. b # c => Above(heap, b) <= c \/ Above(heap, c) <= b
      <4>1. b # c => b < c \/ c < b
        BY <3>2
      <4> QED
        BY <2>1, <3>1, <4>1, OwnedHeap DEF Tiles
    <3>4. b + 8 + Size(heap, b) <= MB_HEXA + 8
      BY <3>2, HeapAssumption
    <3>5. k # l => b + 8 + Size(heap, b) <= c \/ c + 8 + Size(heap, c) <= b
      BY <3>1, <3>2, <3>3
    <3> QED
      BY <3>1, <3>4, <3>5 DEF Promise!Disjoint
  <2> QED
    BY <2>5 DEF Promise!NoOverlap, Promise!Empty, InSlots, Block, Index
<1> QED
  BY <1>4, <1>5

(* No byte is in two blocks that the program holds, and every block it     *)
(* holds lies in the section.                                              *)
THEOREM HeldBlocksApart ==
  ASSUME ~CounterWraps
  PROVE  Spec => []Promise!NoOverlap
<1>1. HeapInv => Promise!NoOverlap
  BY InvApart
<1> QED
  BY <1>1, HeapInvariant, PTL

=============================================================================
