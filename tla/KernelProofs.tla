---------------------------- MODULE KernelProofs ----------------------------
(***************************************************************************)
(* Theorems on the kernel, for any number of threads, processes and        *)
(* characters and a ring of any size: no thread is lost between two        *)
(* queues, no wakeup is lost, and the kernel is a scheduler that           *)
(* ProcessTable.tla asks for, so that what is proved there holds here.     *)
(* First, what the scheduler's functions on its queues do to the threads   *)
(* in them: Tick, Dispatch, RoundRobin and EndCurrent of Kernel.tla lose   *)
(* none and double none.                                                   *)
(***************************************************************************)
EXTENDS Kernel, FiniteSetTheorems, SequenceTheorems, TLAPS

-----------------------------------------------------------------------------
(* Queues without repetitions. *)

(* The ranks of the members of a set of positions number them from 1 on.   *)
LEMMA RankBijective ==
  ASSUME NEW n \in Nat, NEW I \in SUBSET (1 .. n)
  PROVE  LET rank == [i \in I |-> Cardinality({j \in I : j <= i})]
         IN  /\ Cardinality(I) \in Nat
             /\ rank \in [I -> 1 .. Cardinality(I)]
             /\ \A i, k \in I : rank[i] = rank[k] => i = k
             /\ \A k \in 1 .. Cardinality(I) : \E i \in I : rank[i] = k
<1> DEFINE upto(i) == {j \in I : j <= i}
           rank == [i \in I |-> Cardinality(upto(i))]
<1>0. I \subseteq Int
  OBVIOUS
<1>1. IsFiniteSet(I) /\ Cardinality(I) \in Nat
  <2>1. IsFiniteSet(1 .. n)
    BY FS_Interval
  <2> QED
    BY <2>1, FS_Subset, FS_CardinalityType
<1>2. ASSUME NEW i \in I
      PROVE  IsFiniteSet(upto(i)) /\ Cardinality(upto(i)) \in 1 .. Cardinality(I)
  <2>1. IsFiniteSet(upto(i)) /\ Cardinality(upto(i)) <= Cardinality(I)
    BY <1>1, FS_Subset
  <2>2. Cardinality(upto(i)) \in Nat /\ Cardinality(upto(i)) # 0
    <3>1. i \in upto(i)
      OBVIOUS
    <3> QED
      BY <2>1, <3>1, FS_CardinalityType, FS_EmptySet
  <2> QED
    BY <1>1, <2>1, <2>2
<1>3. rank \in [I -> 1 .. Cardinality(I)]
  BY <1>2
<1>4. ASSUME NEW i \in I, NEW k \in I, rank[i] = rank[k]
      PROVE  i = k
  <2>1. ASSUME NEW a \in I, NEW b \in I, Cardinality(upto(a)) = Cardinality(upto(b)), a < b
        PROVE  FALSE
    <3>1. upto(a) \subseteq upto(b) /\ b \in upto(b) /\ b \notin upto(a)
      <4>1. \A x \in I : x <= a => x <= b
        BY <1>0, <2>1
      <4>2. b <= b /\ ~(b <= a)
        BY <1>0, <2>1
      <4> QED
        BY <4>1, <4>2
    <3>2. upto(a) = upto(b)
      BY <1>2, <2>1, <3>1, FS_Subset
    <3> QED
      BY <3>1, <3>2
  <2>2. i \in Int /\ k \in Int
    OBVIOUS
  <2> QED
    BY <1>4, <2>1, <2>2
<1>5. \A k \in 1 .. Cardinality(I) : \E i \in I : rank[i] = k
  <2>1. rank \in Injection(I, 1 .. Cardinality(I))
    BY <1>3, <1>4 DEF Injection, IsInjective
  <2>2. IsFiniteSet(1 .. Cardinality(I)) /\ Cardinality(1 .. Cardinality(I)) = Cardinality(I)
    BY <1>1, FS_Interval
  <2>3. rank \in Surjection(I, 1 .. Cardinality(I))
    BY <2>1, <2>2, FS_Injection
  <2> QED
    BY <2>3 DEF Surjection
<1> QED
  BY <1>1, <1>3, <1>4, <1>5

(* Those(s, S) has the members of S in s, each once if s has each once.    *)
LEMMA ThoseProperties ==
  ASSUME NEW T, NEW s \in Seq(T), IsInjective(s), NEW S
  PROVE  /\ Those(s, S) \in Seq(T)
         /\ IsInjective(Those(s, S))
         /\ Range(Those(s, S)) = Range(s) \intersect S
<1> DEFINE I == {i \in DOMAIN s : s[i] \in S}
           rank == [i \in I |-> Cardinality({j \in I : j <= i})]
           at(k) == CHOOSE i \in I : Cardinality({j \in I : j <= i}) = k
           n == Cardinality(I)
<1>1. Len(s) \in Nat /\ I \in SUBSET (1 .. Len(s))
  OBVIOUS
<1>2. /\ n \in Nat
      /\ rank \in [I -> 1 .. n]
      /\ \A i, k \in I : rank[i] = rank[k] => i = k
      /\ \A k \in 1 .. n : \E i \in I : rank[i] = k
  BY <1>1, RankBijective
<1>3. ASSUME NEW k \in 1 .. n
      PROVE  at(k) \in I /\ rank[at(k)] = k
  BY <1>2
<1>4. Those(s, S) = [k \in 1 .. n |-> s[at(k)]]
  <2>1. CASE s = <<>>
    <3>1. I = {} /\ n = 0
      BY <2>1, FS_EmptySet
    <3>2. [k \in 1 .. n |-> s[at(k)]] = <<>>
      <4> DEFINE taken == [k \in 1 .. n |-> s[at(k)]]
      <4> HIDE DEF n, at
      <4>1. taken \in Seq({s[at(k)] : k \in 1 .. n}) /\ Len(taken) = 0
        BY <3>1
      <4> HIDE DEF taken
      <4>2. taken = <<>>
        BY <4>1, EmptySeq
      <4> QED
        BY <4>2 DEF taken
    <3> QED
      BY <2>1, <3>2 DEF Those
  <2>2. CASE s # <<>>
    BY <2>2 DEF Those
  <2> QED
    BY <2>1, <2>2
<1> HIDE DEF I, rank, at, n
<1>5. \A i \in I : i \in DOMAIN s /\ s[i] \in S /\ s[i] \in T
  BY DEF I
<1>6. Those(s, S) \in Seq(T)
  BY <1>2, <1>3, <1>4, <1>5
<1>7. IsInjective(Those(s, S))
  BY <1>2, <1>3, <1>4, <1>5 DEF IsInjective
<1>8. ASSUME NEW i \in I
      PROVE  \E k \in 1 .. n : s[at(k)] = s[i]
  BY <1>2, <1>3
<1>9. Range(Those(s, S)) = Range(s) \intersect S
  <2>1. \A x \in Range(s) \intersect S : \E i \in I : x = s[i]
    BY DEF Range, I
  <2>2. Range(Those(s, S)) = {s[at(k)] : k \in 1 .. n}
    BY <1>4 DEF Range
  <2>3. \A x \in Range(s) \intersect S : x \in Range(Those(s, S))
    BY <1>8, <2>1, <2>2
  <2>4. \A k \in 1 .. n : s[at(k)] \in Range(s) \intersect S
    BY <1>3, <1>5 DEF Range
  <2> QED
    BY <2>2, <2>3, <2>4
<1> QED
  BY <1>6, <1>7, <1>9

(* Who joins a queue at its end.                                           *)
LEMMA AppendQueue ==
  ASSUME NEW T, NEW s \in Seq(T), IsInjective(s), NEW x \in T, x \notin Range(s)
  PROVE  /\ Append(s, x) \in Seq(T)
         /\ IsInjective(Append(s, x))
         /\ Range(Append(s, x)) = Range(s) \union {x}
<1> DEFINE a == Append(s, x)
           n == Len(s)
<1>1. /\ a \in Seq(T) /\ n \in Nat
      /\ DOMAIN a = 1 .. n + 1
      /\ DOMAIN s = 1 .. n
      /\ \A i \in 1 .. n : a[i] = s[i]
      /\ a[n + 1] = x
  BY AppendProperties, LenProperties
<1>2. \A i \in 1 .. n + 1 : i \in 1 .. n \/ i = n + 1
  BY <1>1
<1>3. \A i \in 1 .. n : i \in 1 .. n + 1
  BY <1>1
<1>4. n + 1 \in 1 .. n + 1
  BY <1>1
<1> HIDE DEF a, n
<1>5. \A i \in 1 .. n : s[i] # x
  BY <1>1 DEF Range
<1>6. IsInjective(a)
  BY <1>1, <1>2, <1>5 DEF IsInjective
<1>7. Range(a) = Range(s) \union {x}
  BY <1>1, <1>2, <1>3, <1>4 DEF Range
<1> QED
  BY <1>1, <1>6, <1>7 DEF a

(* A queue goes behind another one.                                        *)
LEMMA ConcatQueues ==
  ASSUME NEW T, NEW s \in Seq(T), IsInjective(s), NEW r \in Seq(T), IsInjective(r),
         Range(s) \intersect Range(r) = {}
  PROVE  /\ s \o r \in Seq(T)
         /\ IsInjective(s \o r)
         /\ Range(s \o r) = Range(s) \union Range(r)
<1> DEFINE c == s \o r
           m == Len(s)
           n == Len(r)
<1>1. /\ c \in Seq(T) /\ m \in Nat /\ n \in Nat
      /\ DOMAIN c = 1 .. m + n
      /\ DOMAIN s = 1 .. m /\ DOMAIN r = 1 .. n
      /\ \A i \in 1 .. m + n : c[i] = IF i <= m THEN s[i] ELSE r[i - m]
  BY ConcatProperties, LenProperties
<1> HIDE DEF c, m, n
<1>2. \A i \in 1 .. m, j \in 1 .. n : s[i] # r[j]
  BY <1>1 DEF Range
<1>3. \A i \in 1 .. m + n :
        \/ i \in 1 .. m /\ c[i] = s[i]
        \/ i - m \in 1 .. n /\ c[i] = r[i - m]
  BY <1>1
<1>4. IsInjective(c)
  <2> SUFFICES ASSUME NEW i \in 1 .. m + n, NEW j \in 1 .. m + n, c[i] = c[j]
               PROVE  i = j
    BY <1>1 DEF IsInjective
  <2>1. CASE i \in 1 .. m /\ j \in 1 .. m
    <3>1. s[i] = s[j]
      BY <1>1, <2>1
    <3> QED
      BY <1>1, <2>1, <3>1 DEF IsInjective
  <2>2. CASE i - m \in 1 .. n /\ j - m \in 1 .. n
    <3>1. r[i - m] = r[j - m]
      BY <1>1, <2>2
    <3>2. i - m = j - m
      BY <1>1, <2>2, <3>1 DEF IsInjective
    <3> QED
      BY <1>1, <3>2
  <2> QED
    BY <1>1, <1>2, <1>3, <2>1, <2>2
<1>5. Range(c) = Range(s) \union Range(r)
  <2>1. \A i \in 1 .. m : i \in 1 .. m + n /\ c[i] = s[i]
    BY <1>1
  <2>2. \A j \in 1 .. n : m + j \in 1 .. m + n /\ c[m + j] = r[j]
    BY <1>1
  <2>3. \A x \in Range(c) : x \in Range(s) \union Range(r)
    BY <1>1, <1>3 DEF Range
  <2>4. ASSUME NEW x \in Range(s) PROVE x \in Range(c)
    <3>1. PICK i \in 1 .. m : s[i] = x
      BY <1>1 DEF Range
    <3>2. i \in DOMAIN c /\ c[i] = x
      BY <1>1, <2>1, <3>1
    <3> QED
      BY <3>2 DEF Range
  <2>5. ASSUME NEW x \in Range(r) PROVE x \in Range(c)
    <3>1. PICK j \in 1 .. n : r[j] = x
      BY <1>1 DEF Range
    <3>2. m + j \in DOMAIN c /\ c[m + j] = x
      BY <1>1, <2>2, <3>1
    <3> QED
      BY <3>2 DEF Range
  <2> QED
    BY <2>3, <2>4, <2>5
<1> QED
  BY <1>1, <1>4, <1>5 DEF c

(* The first one leaves a queue.                                           *)
LEMMA TailQueue ==
  ASSUME NEW T, NEW s \in Seq(T), IsInjective(s), s # <<>>
  PROVE  /\ Head(s) \in Range(s)
         /\ Tail(s) \in Seq(T)
         /\ IsInjective(Tail(s))
         /\ Range(Tail(s)) = Range(s) \ {Head(s)}
<1> DEFINE t == Tail(s)
           n == Len(s)
<1>1. /\ t \in Seq(T) /\ n \in Nat \ {0}
      /\ DOMAIN t = 1 .. n - 1
      /\ DOMAIN s = 1 .. n
      /\ \A i \in 1 .. n - 1 : t[i] = s[i + 1]
      /\ Head(s) = s[1]
  BY HeadTailProperties, LenProperties, EmptySeq
<1> HIDE DEF t, n
<1>2. \A i \in 1 .. n - 1 : i + 1 \in 1 .. n /\ i + 1 # 1 /\ t[i] = s[i + 1]
  BY <1>1
<1>3. \A i \in 1 .. n : i = 1 \/ (i - 1 \in 1 .. n - 1 /\ t[i - 1] = s[i])
  BY <1>1
<1>4. 1 \in 1 .. n
  BY <1>1
<1>5. IsInjective(t)
  <2> SUFFICES ASSUME NEW i \in 1 .. n - 1, NEW j \in 1 .. n - 1, t[i] = t[j]
               PROVE  i = j
    BY <1>1 DEF IsInjective
  <2>1. i + 1 \in DOMAIN s /\ j + 1 \in DOMAIN s /\ s[i + 1] = s[j + 1]
    BY <1>1, <1>2
  <2>2. i + 1 = j + 1
    BY <2>1 DEF IsInjective
  <2> QED
    BY <1>1, <2>2
<1>6. Range(t) = Range(s) \ {Head(s)}
  <2>1. \A i \in 1 .. n : s[i] = Head(s) => i = 1
    BY <1>1, <1>4 DEF IsInjective
  <2>2. ASSUME NEW x \in Range(t) PROVE x \in Range(s) \ {Head(s)}
    <3>1. PICK i \in 1 .. n - 1 : t[i] = x
      BY <1>1 DEF Range
    <3>2. i + 1 \in 1 .. n /\ i + 1 # 1 /\ s[i + 1] = x
      BY <1>2, <3>1
    <3>3. x # Head(s)
      BY <2>1, <3>2
    <3> QED
      BY <1>1, <3>2, <3>3 DEF Range
  <2>3. ASSUME NEW x \in Range(s) \ {Head(s)} PROVE x \in Range(t)
    <3>1. PICK i \in 1 .. n : s[i] = x
      BY <1>1 DEF Range
    <3>2. i # 1
      BY <1>1, <3>1
    <3>3. i - 1 \in 1 .. n - 1 /\ t[i - 1] = x
      BY <1>3, <3>1, <3>2
    <3> QED
      BY <1>1, <3>3 DEF Range
  <2> QED
    BY <2>2, <2>3
<1> QED
  BY <1>1, <1>4, <1>5, <1>6 DEF t, Range

(* Queues of one and of none.                                              *)
LEMMA SingleQueue ==
  ASSUME NEW T, NEW x \in T
  PROVE  /\ <<x>> \in Seq(T)
         /\ IsInjective(<<x>>)
         /\ Range(<<x>>) = {x}
  BY DEF IsInjective, Range

LEMMA EmptyQueue ==
  ASSUME NEW T
  PROVE  /\ <<>> \in Seq(T)
         /\ IsInjective(<<>>)
         /\ Range(<<>>) = {}
         /\ \A s \in Seq(T) : Range(s) = {} => s = <<>>
<1>1. <<>> \in Seq(T) /\ DOMAIN <<>> = {}
  OBVIOUS
<1>2. ASSUME NEW s \in Seq(T), s # <<>>
      PROVE  Range(s) # {}
  <2>1. 1 \in DOMAIN s
    BY <1>2, EmptySeq, LenProperties
  <2> QED
    BY <2>1 DEF Range
<1> QED
  BY <1>1, <1>2 DEF IsInjective, Range

-----------------------------------------------------------------------------
(* The scheduler's functions. *)

QueueRecords ==
  [current : Threads \union {Idle}, ready : Seq(Threads), sleeping : Seq(Threads),
   cycles : [Threads -> 0 .. MaxCycles]]

(* The threads of S, and no others, are ready or sleep, each once. *)
Queued(q, S) ==
  /\ q \in QueueRecords
  /\ IsInjective(q.ready) /\ IsInjective(q.sleeping)
  /\ Range(q.ready) \intersect Range(q.sleeping) = {}
  /\ Range(q.ready) \union Range(q.sleeping) = S

LEMMA QueuedThreads ==
  ASSUME NEW q, NEW S, Queued(q, S)
  PROVE  S \subseteq Threads /\ Idle \notin S /\ q.current \in Threads \union {Idle}
<1>1. /\ q.ready \in Seq(Threads) /\ q.sleeping \in Seq(Threads)
      /\ q.current \in Threads \union {Idle}
  BY DEF Queued, QueueRecords
<1>2. Range(q.ready) \subseteq Threads /\ Range(q.sleeping) \subseteq Threads
  BY <1>1, RangeOfSeq
<1>3. Idle \notin Threads
  BY DEF Threads, Idle
<1> QED
  BY <1>1, <1>2, <1>3 DEF Queued

(* A tick moves threads from one queue to the other. *)
LEMMA TickQueued ==
  ASSUME NEW q, NEW S, Queued(q, S)
  PROVE  Queued(Tick(q), S) /\ Tick(q).current = q.current
<1> DEFINE woken == Those(q.sleeping, Rested(q))
           asleep == Those(q.sleeping, Threads \ Rested(q))
           fewer == [t \in Threads |-> IF t \in Rested(q) THEN 0 ELSE q.cycles[t] - 1]
<1>1. /\ q \in QueueRecords
      /\ q.ready \in Seq(Threads) /\ q.sleeping \in Seq(Threads)
      /\ IsInjective(q.ready) /\ IsInjective(q.sleeping)
  BY DEF Queued, QueueRecords
<1>2. /\ woken \in Seq(Threads) /\ IsInjective(woken)
      /\ Range(woken) = Range(q.sleeping) \intersect Rested(q)
  BY <1>1, ThoseProperties
<1>3. /\ asleep \in Seq(Threads) /\ IsInjective(asleep)
      /\ Range(asleep) = Range(q.sleeping) \intersect (Threads \ Rested(q))
  BY <1>1, ThoseProperties
<1>4. Range(q.sleeping) \subseteq Threads
  BY <1>1, RangeOfSeq
<1>5. fewer \in [Threads -> 0 .. MaxCycles]
  BY <1>1, KernelAssumption DEF Rested, QueueRecords
<1>6. Tick(q) = [q EXCEPT !.ready = q.ready \o woken, !.sleeping = asleep, !.cycles = fewer]
  BY DEF Tick
<1> HIDE DEF woken, asleep, fewer
<1>7. Range(q.ready) \intersect Range(woken) = {}
  BY <1>2 DEF Queued
<1>8. /\ q.ready \o woken \in Seq(Threads) /\ IsInjective(q.ready \o woken)
      /\ Range(q.ready \o woken) = Range(q.ready) \union Range(woken)
  BY <1>1, <1>2, <1>7, ConcatQueues
<1>9. /\ Tick(q) \in QueueRecords
      /\ Tick(q).current = q.current
      /\ Tick(q).ready = q.ready \o woken
      /\ Tick(q).sleeping = asleep
  BY <1>1, <1>3, <1>5, <1>6, <1>8 DEF QueueRecords
<1>10. /\ Range(q.ready \o woken) \intersect Range(asleep) = {}
       /\ Range(q.ready \o woken) \union Range(asleep) = S
  BY <1>2, <1>3, <1>4, <1>8 DEF Queued
<1> QED
  BY <1>3, <1>8, <1>9, <1>10 DEF Queued

(* The thread that gets the processor leaves the queue. *)
LEMMA DispatchQueued ==
  ASSUME NEW q, NEW S, Queued(q, S)
  PROVE  /\ Queued(Dispatch(q), S \ {Dispatch(q).current})
         /\ Dispatch(q).current \in S \union {Idle}
         /\ Dispatch(q).cycles = q.cycles
         /\ Dispatch(q).sleeping = q.sleeping
<1>1. /\ q \in QueueRecords
      /\ q.ready \in Seq(Threads) /\ q.sleeping \in Seq(Threads)
      /\ IsInjective(q.ready) /\ IsInjective(q.sleeping)
  BY DEF Queued, QueueRecords
<1>2. S \subseteq Threads /\ Idle \notin S
  BY QueuedThreads
<1>3. CASE q.ready = <<>>
  <2>1. Dispatch(q) = [q EXCEPT !.current = Idle]
    BY <1>3 DEF Dispatch
  <2>2. /\ Dispatch(q) \in QueueRecords
        /\ Dispatch(q).current = Idle
        /\ Dispatch(q).ready = q.ready /\ Dispatch(q).sleeping = q.sleeping
        /\ Dispatch(q).cycles = q.cycles
    BY <1>1, <2>1 DEF QueueRecords
  <2> QED
    BY <1>2, <2>2 DEF Queued
<1>4. CASE q.ready # <<>>
  <2>1. Dispatch(q) = [q EXCEPT !.current = Head(q.ready), !.ready = Tail(q.ready)]
    BY <1>4 DEF Dispatch
  <2>2. /\ Head(q.ready) \in Range(q.ready)
        /\ Tail(q.ready) \in Seq(Threads)
        /\ IsInjective(Tail(q.ready))
        /\ Range(Tail(q.ready)) = Range(q.ready) \ {Head(q.ready)}
    BY <1>1, <1>4, TailQueue
  <2>3. Head(q.ready) \in S /\ Head(q.ready) \notin Range(q.sleeping)
    BY <2>2 DEF Queued
  <2>4. /\ Dispatch(q) \in QueueRecords
        /\ Dispatch(q).current = Head(q.ready)
        /\ Dispatch(q).ready = Tail(q.ready) /\ Dispatch(q).sleeping = q.sleeping
        /\ Dispatch(q).cycles = q.cycles
    BY <1>1, <1>2, <2>1, <2>2, <2>3 DEF QueueRecords
  <2> QED
    BY <1>1, <2>2, <2>3, <2>4 DEF Queued
<1> QED
  BY <1>3, <1>4

(* A thread that is in no queue becomes the last one ready. *)
LEMMA ReadyQueued ==
  ASSUME NEW q, NEW S, Queued(q, S), NEW t \in Threads \ S
  PROVE  Queued([q EXCEPT !.ready = Append(@, t)], S \union {t})
<1> DEFINE r == [q EXCEPT !.ready = Append(@, t)]
<1>1. /\ q \in QueueRecords
      /\ q.ready \in Seq(Threads) /\ IsInjective(q.ready)
      /\ t \notin Range(q.ready)
  BY DEF Queued, QueueRecords
<1>2. /\ Append(q.ready, t) \in Seq(Threads)
      /\ IsInjective(Append(q.ready, t))
      /\ Range(Append(q.ready, t)) = Range(q.ready) \union {t}
  BY <1>1, AppendQueue
<1>3. r \in QueueRecords /\ r.ready = Append(q.ready, t) /\ r.sleeping = q.sleeping
  BY <1>1, <1>2 DEF QueueRecords
<1> HIDE DEF r
<1>4. Queued(r, S \union {t})
  BY <1>2, <1>3 DEF Queued
<1> QED
  BY <1>4 DEF r

(* A thread that is in no queue becomes the first one ready. *)
LEMMA FirstQueued ==
  ASSUME NEW q, NEW S, Queued(q, S), NEW t \in Threads \ S
  PROVE  Queued([q EXCEPT !.ready = <<t>> \o @], S \union {t})
<1> DEFINE first == <<t>>
           r == [q EXCEPT !.ready = first \o @]
<1>1. /\ q \in QueueRecords
      /\ q.ready \in Seq(Threads) /\ IsInjective(q.ready)
      /\ t \notin Range(q.ready)
  BY DEF Queued, QueueRecords
<1>2. first \in Seq(Threads) /\ IsInjective(first) /\ Range(first) = {t}
  BY SingleQueue
<1> HIDE DEF first
<1>3. Range(first) \intersect Range(q.ready) = {}
  BY <1>1, <1>2
<1>4. /\ first \o q.ready \in Seq(Threads)
      /\ IsInjective(first \o q.ready)
      /\ Range(first \o q.ready) = {t} \union Range(q.ready)
  BY <1>1, <1>2, <1>3, ConcatQueues
<1>5. r \in QueueRecords /\ r.ready = first \o q.ready /\ r.sleeping = q.sleeping
  BY <1>1, <1>4 DEF QueueRecords
<1> HIDE DEF r
<1>6. Queued(r, S \union {t})
  BY <1>4, <1>5 DEF Queued
<1> QED
  BY <1>6 DEF r, first

(* A thread that is in no queue falls asleep. *)
LEMMA SleepQueued ==
  ASSUME NEW q, NEW S, Queued(q, S), NEW t \in Threads \ S, NEW c \in 0 .. MaxCycles
  PROVE  Queued([q EXCEPT !.sleeping = Append(@, t), !.cycles[t] = c], S \union {t})
<1> DEFINE r == [q EXCEPT !.sleeping = Append(@, t), !.cycles[t] = c]
<1>1. /\ q \in QueueRecords
      /\ q.sleeping \in Seq(Threads) /\ IsInjective(q.sleeping)
      /\ t \notin Range(q.sleeping)
  BY DEF Queued, QueueRecords
<1>2. /\ Append(q.sleeping, t) \in Seq(Threads)
      /\ IsInjective(Append(q.sleeping, t))
      /\ Range(Append(q.sleeping, t)) = Range(q.sleeping) \union {t}
  BY <1>1, AppendQueue
<1>3. r \in QueueRecords /\ r.ready = q.ready /\ r.sleeping = Append(q.sleeping, t)
  BY <1>1, <1>2 DEF QueueRecords
<1> HIDE DEF r
<1>4. Queued(r, S \union {t})
  BY <1>2, <1>3 DEF Queued
<1> QED
  BY <1>4 DEF r

(* The end of a thread's time slice, and of a thread. *)
LEMMA EndQueued ==
  ASSUME NEW q, NEW S, Queued(q, S)
  PROVE  /\ Queued(EndCurrent(q), S \ {EndCurrent(q).current})
         /\ EndCurrent(q).current \in S \union {Idle}
  BY TickQueued, DispatchQueued DEF EndCurrent

LEMMA RoundRobinQueued ==
  ASSUME NEW q, NEW S, Queued(q, S), q.current \notin S
  PROVE  /\ Queued(RoundRobin(q), (S \union {q.current}) \ {Idle, RoundRobin(q).current})
         /\ RoundRobin(q).current \in S \union {q.current, Idle}
<1> DEFINE r == Tick(q)
           s == [r EXCEPT !.ready = Append(@, r.current)]
<1>1. Queued(r, S) /\ r.current = q.current
  BY TickQueued
<1>2. Idle \notin S /\ q.current \in Threads \union {Idle}
  BY QueuedThreads
<1>3. RoundRobin(q) = IF r.current = Idle THEN Dispatch(r) ELSE Dispatch(s)
  BY DEF RoundRobin, Requeue
<1> HIDE DEF r, s
<1>4. CASE q.current = Idle
  <2>1. (S \union {q.current}) \ {Idle, Dispatch(r).current} = S \ {Dispatch(r).current}
    BY <1>2, <1>4
  <2> QED
    BY <1>1, <1>3, <1>4, <2>1, DispatchQueued
<1>5. CASE q.current # Idle
  <2>1. Queued(s, S \union {q.current})
    BY <1>1, <1>2, <1>5, ReadyQueued DEF s
  <2>2. (S \union {q.current}) \ {Idle, Dispatch(s).current}
          = (S \union {q.current}) \ {Dispatch(s).current}
    BY <1>2, <1>5
  <2>3. /\ Queued(Dispatch(s), (S \union {q.current}) \ {Dispatch(s).current})
        /\ Dispatch(s).current \in (S \union {q.current}) \union {Idle}
    BY <2>1, DispatchQueued
  <2> QED
    BY <1>1, <1>3, <1>5, <2>2, <2>3
<1> QED
  BY <1>4, <1>5

-----------------------------------------------------------------------------
(* Every thread is in one place. *)

(* The threads in use are the one that runs, those that wait, and those in *)
(* the scheduler's queues; each is there once.                             *)
Placed ==
  /\ free \in Seq(Threads) /\ IsInjective(free)
  /\ waiting \in Seq(Threads) /\ IsInjective(waiting)
  /\ Range(waiting) \subseteq Used
  /\ current \in (Used \ Range(waiting)) \union {Idle}
  /\ Queued(Queues, Used \ (Range(waiting) \union {current}))

(* A thread is counted once in a queue without repetitions. *)
LEMMA TimesInjective ==
  ASSUME NEW q, IsInjective(q), NEW t
  PROVE  Times(t, q) = IF t \in Range(q) THEN 1 ELSE 0
<1> DEFINE places == {i \in DOMAIN q : q[i] = t}
<1>1. CASE t \in Range(q)
  <2>1. PICK k \in DOMAIN q : q[k] = t
    BY <1>1 DEF Range
  <2>2. places = {k}
    BY <2>1 DEF IsInjective
  <2> QED
    BY <1>1, <2>2, FS_Singleton DEF Times
<1>2. CASE t \notin Range(q)
  <2>1. places = {}
    BY <1>2 DEF Range
  <2> QED
    BY <1>2, <2>1, FS_EmptySet DEF Times
<1> QED
  BY <1>1, <1>2

LEMMA PlacedOnce == Placed => OnePlace
<1> SUFFICES ASSUME Placed, NEW t \in Threads
             PROVE  Times(t, free) + Times(t, ready) + Times(t, waiting)
                      + Times(t, sleeping) + (IF t = current THEN 1 ELSE 0) = 1
  BY DEF OnePlace
<1>1. /\ IsInjective(ready) /\ IsInjective(sleeping)
      /\ Range(ready) \intersect Range(sleeping) = {}
      /\ Range(ready) \union Range(sleeping) = Used \ (Range(waiting) \union {current})
  BY DEF Placed, Queued, Queues
<1>2. IsInjective(free) /\ IsInjective(waiting)
  BY DEF Placed
<1>3. /\ Times(t, free) = IF t \in Range(free) THEN 1 ELSE 0
      /\ Times(t, ready) = IF t \in Range(ready) THEN 1 ELSE 0
      /\ Times(t, waiting) = IF t \in Range(waiting) THEN 1 ELSE 0
      /\ Times(t, sleeping) = IF t \in Range(sleeping) THEN 1 ELSE 0
  BY <1>1, <1>2, TimesInjective
<1>4. /\ Range(waiting) \intersect Range(free) = {}
      /\ current \notin Range(waiting) /\ current \notin Range(free) \intersect Threads
      /\ t \in Used <=> t \notin Range(free)
  BY DEF Placed, Used, Threads, Idle
<1> QED
  BY <1>1, <1>3, <1>4

LEMMA PlacedInit == Init => Placed
<1> SUFFICES ASSUME Init PROVE Placed
  OBVIOUS
<1>1. /\ InitThread \in Threads /\ Idle \notin Threads
      /\ \A t \in Threads : t = InitThread \/ t \in 1 .. MAX_THREADS - 1
      /\ 1 .. MAX_THREADS - 1 \subseteq Threads /\ InitThread \notin 1 .. MAX_THREADS - 1
  BY ProcessesAssumption DEF Threads, Idle, InitThread
<1>2. free = [i \in 1 .. MAX_THREADS - 1 |-> i]
  BY DEF Init
<1>3. free \in Seq(Threads) /\ IsInjective(free) /\ Range(free) = 1 .. MAX_THREADS - 1
  BY <1>1, <1>2, ProcessesAssumption DEF IsInjective, Range
<1>4. Used = {InitThread}
  BY <1>1, <1>3 DEF Used
<1>5. /\ <<>> \in Seq(Threads) /\ IsInjective(<<>>) /\ Range(<<>>) = {}
  BY EmptyQueue
<1>6. /\ Queues \in QueueRecords
      /\ Queues.ready = <<>> /\ Queues.sleeping = <<>>
  BY <1>1, <1>5, KernelAssumption DEF Init, Queues, QueueRecords
<1>7. Queued(Queues, {})
  BY <1>5, <1>6 DEF Queued
<1>8. /\ current = InitThread /\ waiting = <<>>
      /\ Used \ (Range(waiting) \union {current}) = {}
  BY <1>4, <1>5 DEF Init
<1> QED
  BY <1>3, <1>4, <1>5, <1>7, <1>8 DEF Placed

(* The scheduler goes on with the queues q. *)
LEMMA BecomePlaced ==
  ASSUME NEW q,
         Become(q),
         free' \in Seq(Threads), IsInjective(free'),
         waiting' \in Seq(Threads), IsInjective(waiting'),
         Range(waiting') \subseteq Used',
         q.current \in (Used' \ Range(waiting')) \union {Idle},
         Queued(q, Used' \ (Range(waiting') \union {q.current}))
  PROVE  Placed'
<1>1. q \in QueueRecords
  BY DEF Queued
<1>2. q = [current |-> q.current, ready |-> q.ready,
           sleeping |-> q.sleeping, cycles |-> q.cycles]
  BY <1>1 DEF QueueRecords
<1>3. Queues' = q /\ current' = q.current
  BY <1>2 DEF Become, Queues
<1> QED
  BY <1>3 DEF Placed

(* What the invariant says of the queues, for the lemmas on them. *)
LEMMA PlacedQueues ==
  ASSUME Placed
  PROVE  LET S == Used \ (Range(waiting) \union {current})
         IN  /\ Queued(Queues, S)
             /\ Queues.current = current
             /\ current \notin S
             /\ S \subseteq Threads /\ Idle \notin Threads
             /\ Used \subseteq Threads
             /\ Range(waiting) \subseteq Used
             /\ current \in (Used \ Range(waiting)) \union {Idle}
<1>1. Used \subseteq Threads /\ Idle \notin Threads
  BY DEF Used, Threads, Idle
<1> QED
  BY <1>1 DEF Placed, Queues

(* What the timer does, without the values that TimerIrq binds one by one. *)
LEMMA TimerTurns ==
  ASSUME TimerIrq
  PROVE  /\ Become(RoundRobin(Queues))
         /\ userdata' = OnSchedule(userdata, thread_process_arr, current,
                                   RoundRobin(Queues).current)
         /\ UNCHANGED <<thread_process_arr, reserved, threads_active, scheduler_pid>>
         /\ UNCHANGED <<free, charVars>>
  BY DEF TimerIrq, RoundRobin

LEMMA TimerIrqPlaced ==
  ASSUME Placed, TimerIrq
  PROVE  Placed' /\ current' \in Used' \union {Idle}
<1> DEFINE S == Used \ (Range(waiting) \union {current})
           q == RoundRobin(Queues)
<1>1. Become(q) /\ free' = free /\ waiting' = waiting
  BY TimerTurns DEF charVars
<1>2. /\ Queued(q, (S \union {current}) \ {Idle, q.current})
      /\ q.current \in S \union {current, Idle}
  BY PlacedQueues, RoundRobinQueued
<1> HIDE DEF q
<1>3. Used' = Used
  BY <1>1 DEF Used
<1>4. (S \union {current}) \ {Idle, q.current} = Used \ (Range(waiting) \union {q.current})
  BY PlacedQueues
<1>5. q.current \in (Used \ Range(waiting)) \union {Idle}
  BY <1>2, PlacedQueues
<1> QED
  BY <1>1, <1>2, <1>3, <1>4, <1>5, BecomePlaced DEF Placed, Become

LEMMA UartIrqPlaced ==
  ASSUME Placed, UartIrq
  PROVE  Placed' /\ UNCHANGED <<current, free>>
<1> DEFINE S == Used \ (Range(waiting) \union {current})
<1>1. UNCHANGED <<current, free, sleeping, cycles>>
  BY DEF UartIrq
<1>2. Used' = Used
  BY <1>1 DEF Used
<1>3. CASE waiting = <<>>
  <2>1. UNCHANGED <<ready, waiting>>
    BY <1>3 DEF UartIrq
  <2> QED
    BY <1>1, <1>2, <2>1 DEF Placed, Queues
<1>4. CASE waiting # <<>>
  <2> DEFINE t == Head(waiting)
             q == [Queues EXCEPT !.ready = Append(@, t)]
  <2>1. waiting' = Tail(waiting) /\ ready' = Append(ready, t)
    BY <1>4 DEF UartIrq
  <2>2. /\ t \in Range(waiting)
        /\ waiting' \in Seq(Threads) /\ IsInjective(waiting')
        /\ Range(waiting') = Range(waiting) \ {t}
    BY <1>4, <2>1, TailQueue DEF Placed
  <2>3. t \in Threads \ S
    BY <2>2, PlacedQueues
  <2>4. Queued(q, S \union {t})
    BY <2>3, PlacedQueues, ReadyQueued
  <2>5. q.current = current /\ Become(q)
    BY <1>1, <2>1 DEF Become, Queues
  <2> HIDE DEF q
  <2>6. S \union {t} = Used \ (Range(waiting') \union {q.current})
    BY <2>2, <2>5, PlacedQueues
  <2> QED
    BY <1>1, <1>2, <2>2, <2>4, <2>5, <2>6, BecomePlaced DEF Placed
<1> QED
  BY <1>1, <1>3, <1>4

LEMMA NewThreadPlaced ==
  ASSUME Placed, NewThread, free # <<>>
  PROVE  /\ Placed'
         /\ Head(free) \in Threads \ Used
         /\ Used' = Used \union {Head(free)}
         /\ current' = current
<1> DEFINE S == Used \ (Range(waiting) \union {current})
           t == Head(free)
           q == [Queues EXCEPT !.ready = <<t>> \o @]
<1>1. /\ ready' = <<t>> \o ready
      /\ free' = Tail(free)
      /\ UNCHANGED <<current, sleeping, cycles, waiting>>
  BY DEF NewThread, charVars
<1>2. /\ t \in Range(free)
      /\ free' \in Seq(Threads) /\ IsInjective(free')
      /\ Range(free') = Range(free) \ {t}
      /\ Range(free) \subseteq Threads
  BY <1>1, TailQueue, RangeOfSeq DEF Placed
<1>3. t \in Threads \ Used /\ Used' = Used \union {t}
  BY <1>2 DEF Used
<1>4. Queued(q, S \union {t})
  BY <1>3, PlacedQueues, FirstQueued
<1>5. q.current = current /\ Become(q)
  BY <1>1 DEF Become, Queues
<1> HIDE DEF q
<1>6. S \union {t} = Used' \ (Range(waiting') \union {q.current})
  BY <1>1, <1>3, <1>5, PlacedQueues
<1>7. Range(waiting') \subseteq Used' /\ q.current \in (Used' \ Range(waiting')) \union {Idle}
  BY <1>1, <1>3, <1>5, PlacedQueues
<1>8. waiting' \in Seq(Threads) /\ IsInjective(waiting')
  BY <1>1 DEF Placed
<1>9. Placed'
  BY <1>2, <1>4, <1>5, <1>6, <1>7, <1>8, BecomePlaced
<1> QED
  BY <1>1, <1>3, <1>9

LEMMA SleepPlaced ==
  ASSUME Placed, Sleep
  PROVE  Placed' /\ current' \in Used' \union {Idle} /\ free' = free
<1> DEFINE S == Used \ (Range(waiting) \union {current})
           q == Dispatch(Queues)
<1> PICK c \in 1 .. MaxCycles :
       Become([q EXCEPT !.sleeping = Append(@, current), !.cycles[current] = c])
  BY DEF Sleep, LeaveProcessor
<1> DEFINE r == [q EXCEPT !.sleeping = Append(@, current), !.cycles[current] = c]
<1>1. UNCHANGED <<free, waiting>> /\ current \in Used
  BY DEF Sleep, UserRuns, charVars
<1>2. Used' = Used
  BY <1>1 DEF Used
<1>3. Queued(q, S \ {q.current}) /\ q.current \in S \union {Idle}
  BY PlacedQueues, DispatchQueued
<1>4. current \in Threads \ (S \ {q.current}) /\ current # q.current
  BY <1>1, <1>3, PlacedQueues
<1>5. Become(r)
  OBVIOUS
<1> HIDE DEF q
<1>6. c \in 0 .. MaxCycles
  BY KernelAssumption
<1>7. Queued(r, (S \ {q.current}) \union {current}) /\ r.current = q.current
  <2>1. Queued(r, (S \ {q.current}) \union {current})
    BY <1>3, <1>4, <1>6, SleepQueued
  <2> QED
    BY <1>3, <2>1 DEF Queued, QueueRecords
<1> HIDE DEF r
<1>8. (S \ {q.current}) \union {current} = Used' \ (Range(waiting') \union {r.current})
  BY <1>1, <1>2, <1>3, <1>4, <1>7, PlacedQueues
<1>9. r.current \in (Used' \ Range(waiting')) \union {Idle}
  BY <1>1, <1>2, <1>3, <1>7
<1>10. Placed'
  BY <1>1, <1>2, <1>5, <1>7, <1>8, <1>9, BecomePlaced DEF Placed
<1> QED
  BY <1>1, <1>5, <1>9, <1>10 DEF Become

LEMMA WaitForCharPlaced ==
  ASSUME Placed, WaitForChar
  PROVE  Placed' /\ current' \in Used' \union {Idle} /\ free' = free
<1> DEFINE S == Used \ (Range(waiting) \union {current})
           q == Dispatch(Queues)
<1>1. /\ Become(q)
      /\ waiting' = Append(waiting, current)
      /\ free' = free /\ current \in Used
  BY DEF WaitForChar, LeaveProcessor, UserRuns
<1>2. Used' = Used
  BY <1>1 DEF Used
<1>3. Queued(q, S \ {q.current}) /\ q.current \in S \union {Idle}
  BY PlacedQueues, DispatchQueued
<1> HIDE DEF q
<1>4. current \in Threads /\ current \notin Range(waiting)
  BY <1>1, PlacedQueues
<1>5. /\ waiting' \in Seq(Threads) /\ IsInjective(waiting')
      /\ Range(waiting') = Range(waiting) \union {current}
  BY <1>1, <1>4, AppendQueue DEF Placed
<1>6. S \ {q.current} = Used' \ (Range(waiting') \union {q.current})
  BY <1>2, <1>5
<1>7. /\ Range(waiting') \subseteq Used'
      /\ q.current \in (Used' \ Range(waiting')) \union {Idle}
  BY <1>1, <1>2, <1>3, <1>5, PlacedQueues
<1>8. free' \in Seq(Threads) /\ IsInjective(free')
  BY <1>1 DEF Placed
<1>9. Placed'
  BY <1>1, <1>3, <1>5, <1>6, <1>7, <1>8, BecomePlaced
<1> QED
  BY <1>1, <1>7, <1>9 DEF Become

(* The id of a thread that ends is free again, and the processor goes on   *)
(* with the queues q that all the other threads are in.                    *)
LEMMA EndPlaced ==
  ASSUME Placed, current \in Used, NEW q,
         Become(q), free' = Append(free, current), waiting' = waiting,
         Queued(q, (Used \ (Range(waiting) \union {current})) \ {q.current}),
         q.current \in (Used \ (Range(waiting) \union {current})) \union {Idle}
  PROVE  /\ Placed'
         /\ Used' = Used \ {current}
         /\ current' \in Used' \union {Idle}
<1>1. current \in Threads /\ current \notin Range(free) /\ current \notin Range(waiting)
  BY PlacedQueues DEF Used
<1>2. /\ free' \in Seq(Threads) /\ IsInjective(free')
      /\ Range(free') = Range(free) \union {current}
  BY <1>1, AppendQueue DEF Placed
<1>3. Used' = Used \ {current}
  BY <1>2 DEF Used
<1>4. (Used \ (Range(waiting) \union {current})) \ {q.current}
        = Used' \ (Range(waiting') \union {q.current})
  BY <1>3
<1>5. /\ Range(waiting') \subseteq Used'
      /\ q.current \in (Used' \ Range(waiting')) \union {Idle}
  BY <1>1, <1>3, PlacedQueues
<1>6. waiting' \in Seq(Threads) /\ IsInjective(waiting')
  BY DEF Placed
<1>7. Placed'
  BY <1>2, <1>4, <1>5, <1>6, BecomePlaced
<1> QED
  BY <1>3, <1>5, <1>7 DEF Become

LEMMA MayEndUsed ==
  ASSUME Placed, MayEnd
  PROVE  current \in Used /\ current # ShellThread
<1>1. InitThread # Idle /\ InitThread # ShellThread
  BY DEF InitThread, Idle, ShellThread
<1> QED
  BY <1>1, PlacedQueues DEF MayEnd, InitRuns, UserRuns

LEMMA ExitPlaced ==
  ASSUME Placed, Exit
  PROVE  /\ Placed'
         /\ Used' = Used \ {current}
         /\ current' \in Used' \union {Idle}
<1> DEFINE S == Used \ (Range(waiting) \union {current})
           q == EndCurrent(Queues)
<1>1. MayEnd /\ Become(q) /\ free' = Append(free, current) /\ waiting' = waiting
  BY DEF Exit, charVars
<1>2. Queued(q, S \ {q.current}) /\ q.current \in S \union {Idle}
  BY PlacedQueues, EndQueued
<1> QED
  BY <1>1, <1>2, MayEndUsed, EndPlaced

LEMMA UnknownCallPlaced ==
  ASSUME Placed, UnknownCall
  PROVE  /\ Placed'
         /\ Used' = Used \ {current}
         /\ current' \in Used' \union {Idle}
         /\ EndCurrent(Queues).current \in Used' \union {Idle}
<1> DEFINE S == Used \ (Range(waiting) \union {current})
           q == EndCurrent(Queues)
           r == RoundRobin(q)
<1>1. /\ Become(r) /\ free' = Append(free, current) /\ waiting' = waiting
      /\ current \in Used
  BY DEF UnknownCall, UserRuns, charVars
<1>2. Queued(q, S \ {q.current}) /\ q.current \in S \union {Idle}
  BY PlacedQueues, EndQueued
<1>3. /\ Queued(r, ((S \ {q.current}) \union {q.current}) \ {Idle, r.current})
      /\ r.current \in (S \ {q.current}) \union {q.current, Idle}
  BY <1>2, RoundRobinQueued
<1> HIDE DEF q, r
<1>4. Idle \notin S
  BY PlacedQueues
<1>5. /\ ((S \ {q.current}) \union {q.current}) \ {Idle, r.current} = S \ {r.current}
      /\ r.current \in S \union {Idle}
  BY <1>2, <1>3, <1>4
<1>6. /\ Placed' /\ Used' = Used \ {current} /\ current' \in Used' \union {Idle}
  BY <1>1, <1>3, <1>5, EndPlaced
<1> QED
  BY <1>2, <1>6 DEF q

-----------------------------------------------------------------------------
(* The kernel schedules as ProcessTable.tla asks. *)

(* Until the shell is started nothing but init() can be there: no id has   *)
(* been given out, and thread 0 has no process.                            *)
Booted ==
  ShellThread \notin Used =>
    /\ free = [i \in 1 .. MAX_THREADS - 1 |-> i]
    /\ thread_process_arr[InitThread] = None

(* The process table of both modules is the same one. *)
LEMMA SameTable ==
  /\ Table!Threads = Threads /\ Table!Procs = Procs /\ Table!Flags = Flags
  /\ Table!Idle = Idle /\ Table!None = None
  /\ Table!InitThread = InitThread /\ Table!ShellThread = ShellThread
  /\ Table!InitRuns <=> InitRuns
  /\ Table!vars = <<processVars, Used, current>>
  /\ Table!processVars = processVars
  /\ Table!ProcessInit <=> ProcessInit
  BY DEF Table!Threads, Threads, Table!Procs, Procs, Table!Flags, Flags,
         Table!Idle, Idle, Table!None, None, Table!InitThread, InitThread,
         Table!ShellThread, ShellThread, Table!InitRuns, InitRuns,
         Table!vars, Table!processVars, processVars,
         Table!ProcessInit, ProcessInit, Table!Boot, Boot

LEMMA SameCallbacks ==
  ASSUME NEW n
  PROVE  /\ Table!NewProcess(n) <=> NewProcess(n)
         /\ Table!OnCreate(n, "PARENT") <=> OnCreate(n, "PARENT")
         /\ \A flags : Table!OnCreate(n, flags) <=> OnCreate(n, flags)
         /\ Table!NoProcessLeft <=> NoProcessLeft
         /\ Table!OnExit(n) <=> OnExit(n)
<1>1. /\ Table!Threads = Threads /\ Table!Procs = Procs
      /\ Table!None = None /\ Table!ShellThread = ShellThread /\ Table!Last = Last
      /\ Table!Aliased <=> Aliased
  BY DEF Table!Threads, Threads, Table!Procs, Procs, Table!None, None,
         Table!ShellThread, ShellThread, Table!Last, Last, Table!Aliased, Aliased
<1>2. \A pid : Table!FindFreeProcess(pid) <=> FindFreeProcess(pid)
  BY <1>1 DEF Table!FindFreeProcess, FindFreeProcess
<1>3. Table!NewProcess(n) <=> NewProcess(n)
  BY <1>1, <1>2 DEF Table!NewProcess, NewProcess
<1>4. Table!JoinProcess(n) <=> JoinProcess(n)
  BY DEF Table!JoinProcess, JoinProcess
<1>5. Table!NoProcessLeft <=> NoProcessLeft
  BY <1>1, <1>2 DEF Table!NoProcessLeft, NoProcessLeft
<1>6. Table!OnExit(n) <=> OnExit(n)
  BY <1>1
  DEF Table!OnExit, OnExit, Table!LeaveProcess, LeaveProcess,
      Table!LeaveNoProcess, LeaveNoProcess
<1> QED
  BY <1>3, <1>4, <1>5, <1>6 DEF Table!OnCreate, OnCreate

LEMMA SameSwitch ==
  ASSUME NEW ud, NEW arr, NEW old, NEW next
  PROVE  Table!OnSchedule(ud, arr, old, next) = OnSchedule(ud, arr, old, next)
  BY DEF Table!OnSchedule, OnSchedule, Table!Idle, Idle, Table!ProcessOf, ProcessOf,
         Table!DataSection, DataSection, Table!Procs, Procs, Table!Threads, Threads,
         Table!None, None, Table!Unknown, Unknown

(* A step of the kernel that changes nothing ProcessTable.tla speaks of.   *)
LEMMA StutterRefines ==
  ASSUME Booted, UNCHANGED <<processVars, Used, current, free>>
  PROVE  Booted' /\ UNCHANGED Table!vars
<1>1. Booted'
  BY DEF Booted, processVars
<1>2. UNCHANGED Table!vars
  BY DEF Table!vars, Table!processVars, processVars
<1> QED
  BY <1>1, <1>2

LEMMA BootedInit == Init => Booted
<1> SUFFICES ASSUME Init PROVE Booted
  OBVIOUS
<1>1. InitThread \in Threads
  BY ProcessesAssumption DEF Threads, InitThread
<1> QED
  BY <1>1 DEF Init, ProcessInit, Booted

LEMMA InitRefines == Init => Table!Init
<1> SUFFICES ASSUME Init PROVE Table!Init
  OBVIOUS
<1>1. \A t \in Threads : t = InitThread \/ t \in 1 .. MAX_THREADS - 1
  BY ProcessesAssumption DEF Threads, InitThread
<1>2. InitThread \in Threads /\ InitThread \notin 1 .. MAX_THREADS - 1
  BY ProcessesAssumption DEF Threads, InitThread
<1>3. Range(free) = 1 .. MAX_THREADS - 1
  BY DEF Init, Range
<1>4. Used = {InitThread}
  BY <1>1, <1>2, <1>3 DEF Used
<1> QED
  BY <1>4, SameTable DEF Table!Init, Init

(* A switch of the kernel is one of ProcessTable.tla. *)
LEMMA SwitchRefines ==
  ASSUME Booted, NEW next, next \in Used \union {Idle}, free' = free,
         current' = next,
         userdata' = OnSchedule(userdata, thread_process_arr, current, next),
         UNCHANGED <<thread_process_arr, reserved, threads_active, scheduler_pid>>
  PROVE  Booted' /\ Table!Next
<1>1. Used' = Used
  BY DEF Used
<1>2. Booted'
  BY <1>1 DEF Booted
<1>3. Table!Switch(next)
  BY <1>1, SameSwitch, SameTable DEF Table!Switch, Table!SwitchTo
<1>4. next \in Table!Threads \union {Table!Idle}
  BY SameTable DEF Used
<1> QED
  BY <1>2, <1>3, <1>4 DEF Table!Next

(* Until the shell is started no other thread runs. *)
LEMMA BootedRuns ==
  ASSUME Booted, ShellThread \notin Used
  PROVE  /\ Used = {InitThread}
         /\ free # <<>> /\ Head(free) = ShellThread
         /\ ~UserRuns /\ ~MayEnd
<1>1. /\ \A t \in Threads : t = InitThread \/ t \in 1 .. MAX_THREADS - 1
      /\ InitThread \in Threads /\ InitThread \notin 1 .. MAX_THREADS - 1
      /\ 1 \in 1 .. MAX_THREADS - 1 /\ MAX_THREADS - 1 \in Nat
  BY ProcessesAssumption DEF Threads, InitThread
<1>2. free = [i \in 1 .. MAX_THREADS - 1 |-> i]
  BY DEF Booted
<1>3. Range(free) = 1 .. MAX_THREADS - 1
  BY <1>2 DEF Range
<1>4. Used = {InitThread}
  BY <1>1, <1>3 DEF Used
<1>5. Len(free) = MAX_THREADS - 1 /\ free # <<>> /\ Head(free) = 1
  BY <1>1, <1>2
<1>6. ~UserRuns
  BY <1>4 DEF UserRuns, InitRuns, Booted
<1> QED
  BY <1>4, <1>5, <1>6 DEF ShellThread, MayEnd

LEMMA StartShellRefines ==
  ASSUME Placed, Booted, StartShell
  PROVE  Placed' /\ Booted' /\ Table!Next
<1>1. /\ InitRuns /\ ShellThread \notin Used
      /\ OnCreate(Head(free), "PARENT") /\ NewThread
  BY DEF StartShell
<1>2. free # <<>> /\ Head(free) = ShellThread
  BY <1>1, BootedRuns
<1>3. /\ Placed' /\ Used' = Used \union {ShellThread}
      /\ current' = current
  BY <1>1, <1>2, NewThreadPlaced
<1>4. Booted'
  BY <1>3 DEF Booted
<1>5. Table!NewProcess(ShellThread)
  BY <1>1, <1>2, SameCallbacks DEF OnCreate
<1>6. Table!StartShell
  BY <1>1, <1>3, <1>5, SameTable DEF Table!StartShell
<1> QED
  BY <1>3, <1>4, <1>6 DEF Table!Next

LEMMA ExecRefines ==
  ASSUME Placed, Booted, NEW flags \in Flags, Exec(flags)
  PROVE  Placed' /\ Booted' /\ Table!Next
<1> DEFINE t == Head(free)
<1>1. UserRuns /\ free # <<>> /\ OnCreate(t, flags) /\ NewThread
  BY DEF Exec
<1>2. /\ Placed' /\ t \in Threads \ Used /\ Used' = Used \union {t}
      /\ current' = current
  BY <1>1, NewThreadPlaced
<1>3. ShellThread \in Used
  BY <1>1, BootedRuns
<1>4. Booted'
  BY <1>2, <1>3 DEF Booted
<1>5. Table!OnCreate(t, flags)
  BY <1>1, SameCallbacks
<1>6. Table!Exec(t, flags)
  BY <1>1, <1>2, <1>5, SameTable DEF Table!Exec, UserRuns
<1>7. t \in Table!Threads /\ flags \in Table!Flags
  BY <1>2, SameTable
<1> HIDE DEF t
<1> QED
  BY <1>2, <1>4, <1>6, <1>7 DEF Table!Next

(* A step that leaves the scheduler's queues and the ids alone.            *)
LEMMA QueuesStay ==
  ASSUME Placed, UNCHANGED <<current, free, ready, waiting, sleeping, cycles>>
  PROVE  Placed' /\ Used' = Used
  BY DEF Placed, Queues, Used

LEMMA ExecRefusedRefines ==
  ASSUME Placed, Booted, ExecRefused
  PROVE  Placed' /\ Booted' /\ Table!Next
<1>1. /\ UserRuns /\ free # <<>> /\ NoProcessLeft
      /\ UNCHANGED <<current, free, ready, waiting, sleeping, cycles>>
  BY DEF ExecRefused, kernelVars, charVars
<1>2. Placed' /\ Used' = Used
  BY <1>1, QueuesStay
<1>3. Booted'
  BY <1>1, <1>2, BootedRuns DEF Booted
<1>4. Head(free) \in Range(free) /\ Range(free) \subseteq Threads
  BY <1>1, TailQueue, RangeOfSeq DEF Placed
<1>5. Used # Threads
  BY <1>4 DEF Used
<1>6. Table!NoProcessLeft
  BY <1>1, SameCallbacks
<1>7. Table!ExecRefused
  BY <1>1, <1>2, <1>5, <1>6, SameTable DEF Table!ExecRefused, UserRuns
<1> QED
  BY <1>2, <1>3, <1>7 DEF Table!Next

(* MayEnd of both modules. *)
LEMMA EndRefines ==
  ASSUME Booted, current \in Used, current # ShellThread, MayEnd \/ UserRuns
  PROVE  Table!MayEnd(current) /\ ShellThread \in Used \ {current}
<1>1. ShellThread \in Used
  BY BootedRuns
<1> QED
  BY <1>1, SameTable DEF Table!MayEnd

LEMMA ExitRefines ==
  ASSUME Placed, Booted, Exit
  PROVE  Placed' /\ Booted' /\ Table!Next
<1> DEFINE next == EndCurrent(Queues).current
<1>1. /\ MayEnd /\ OnExit(current)
      /\ current' = next
      /\ userdata' = OnSchedule(userdata, thread_process_arr', current, next)
  BY DEF Exit, Become
<1>2. /\ Placed' /\ Used' = Used \ {current} /\ current' \in Used' \union {Idle}
  BY ExitPlaced
<1>3. current \in Used /\ current # ShellThread
  BY <1>1, MayEndUsed
<1> HIDE DEF next
<1>4. Table!MayEnd(current) /\ ShellThread \in Used'
  BY <1>1, <1>2, <1>3, EndRefines
<1>5. Booted'
  BY <1>4 DEF Booted
<1>6. Table!OnExit(current)
  BY <1>1, SameCallbacks
<1>7. Table!Exit(next)
  BY <1>1, <1>2, <1>4, <1>6, SameTable, SameSwitch DEF Table!Exit, Table!SwitchTo
<1>8. next \in Table!Threads \union {Table!Idle}
  BY <1>1, <1>2, SameTable DEF Used
<1> QED
  BY <1>2, <1>5, <1>7, <1>8 DEF Table!Next

LEMMA UnknownCallRefines ==
  ASSUME Placed, Booted, UnknownCall
  PROVE  Placed' /\ Booted' /\ Table!Next
<1> DEFINE skipped == EndCurrent(Queues).current
           next == RoundRobin(EndCurrent(Queues)).current
<1>1. /\ UserRuns /\ current # ShellThread /\ OnExit(current)
      /\ current' = next
      /\ userdata' =
           OnSchedule(OnSchedule(userdata, thread_process_arr', current, skipped),
                      thread_process_arr', skipped, next)
  BY DEF UnknownCall, Become
<1>2. /\ Placed' /\ Used' = Used \ {current}
      /\ {skipped, current'} \subseteq Used' \union {Idle}
  BY UnknownCallPlaced
<1> HIDE DEF skipped, next
<1>3. Table!MayEnd(current) /\ ShellThread \in Used'
  BY <1>1, <1>2, EndRefines DEF UserRuns
<1>4. Booted'
  BY <1>3 DEF Booted
<1>5. Table!OnExit(current)
  BY <1>1, SameCallbacks
<1>6. Table!UnknownCall(skipped, next)
  BY <1>1, <1>2, <1>3, <1>5, SameTable, SameSwitch DEF Table!UnknownCall
<1>7. skipped \in Table!Threads \union {Table!Idle} /\ next \in Table!Threads \union {Table!Idle}
  BY <1>1, <1>2, SameTable DEF Used
<1> QED
  BY <1>2, <1>4, <1>6, <1>7 DEF Table!Next

(* Every step keeps the threads in their places, and is a step of          *)
(* ProcessTable.tla or changes nothing there.                              *)
LEMMA StepRefines ==
  ASSUME Placed, Booted, [Next]_vars
  PROVE  Placed' /\ Booted' /\ [Table!Next]_(Table!vars)
<1>1. CASE TimerIrq
  <2>1. /\ userdata' = OnSchedule(userdata, thread_process_arr, current, current')
        /\ UNCHANGED <<thread_process_arr, reserved, threads_active, scheduler_pid>>
        /\ free' = free
    BY <1>1, TimerTurns DEF Become
  <2>2. Placed' /\ current' \in Used' \union {Idle}
    BY <1>1, TimerIrqPlaced
  <2>3. Used' = Used
    BY <2>1 DEF Used
  <2> QED
    BY <2>1, <2>2, <2>3, SwitchRefines
<1>2. CASE UartIrq
  <2>1. Placed' /\ UNCHANGED <<processVars, current, free>>
    BY <1>2, UartIrqPlaced DEF UartIrq
  <2>2. Used' = Used
    BY <2>1 DEF Used
  <2> QED
    BY <2>1, <2>2, StutterRefines
<1>3. CASE StartShell
  BY <1>3, StartShellRefines
<1>4. ASSUME NEW flags \in Flags, Exec(flags)
      PROVE  Placed' /\ Booted' /\ [Table!Next]_(Table!vars)
  BY <1>4, ExecRefines
<1>5. CASE ExecRefused
  BY <1>5, ExecRefusedRefines
<1>6. CASE Sleep
  <2>1. PICK c \in 1 .. MaxCycles :
          LeaveProcessor([Dispatch(Queues) EXCEPT !.sleeping = Append(@, current),
                                                  !.cycles[current] = c])
    BY <1>6 DEF Sleep
  <2>2. /\ userdata' = OnSchedule(userdata, thread_process_arr, current, current')
        /\ UNCHANGED <<thread_process_arr, reserved, threads_active, scheduler_pid>>
    BY <2>1 DEF LeaveProcessor, Become
  <2>3. Placed' /\ current' \in Used' \union {Idle} /\ free' = free
    BY <1>6, SleepPlaced
  <2>4. Used' = Used
    BY <2>3 DEF Used
  <2> QED
    BY <2>2, <2>3, <2>4, SwitchRefines
<1>7. CASE GetChar
  <2>1. UNCHANGED <<processVars, current, free, ready, waiting, sleeping, cycles>>
    BY <1>7 DEF GetChar
  <2>2. Placed' /\ Used' = Used
    BY <2>1, QueuesStay
  <2> QED
    BY <2>1, <2>2, StutterRefines
<1>8. CASE WaitForChar
  <2>1. /\ userdata' = OnSchedule(userdata, thread_process_arr, current, current')
        /\ UNCHANGED <<thread_process_arr, reserved, threads_active, scheduler_pid>>
    BY <1>8 DEF WaitForChar, LeaveProcessor, Become
  <2>2. Placed' /\ current' \in Used' \union {Idle} /\ free' = free
    BY <1>8, WaitForCharPlaced
  <2>3. Used' = Used
    BY <2>2 DEF Used
  <2> QED
    BY <2>1, <2>2, <2>3, SwitchRefines
<1>9. CASE Exit
  BY <1>9, ExitRefines
<1>10. CASE UnknownCall
  BY <1>10, UnknownCallRefines
<1>11. CASE UNCHANGED vars
  <2>1. UNCHANGED <<processVars, current, free, ready, waiting, sleeping, cycles>>
    BY <1>11 DEF vars, kernelVars, charVars
  <2>2. Placed' /\ Used' = Used
    BY <2>1, QueuesStay
  <2> QED
    BY <2>1, <2>2, StutterRefines
<1> QED
  BY <1>1, <1>2, <1>3, <1>4, <1>5, <1>6, <1>7, <1>8, <1>9, <1>10, <1>11 DEF Next

(* The threads keep their places, and nothing but init() runs before the   *)
(* shell is started: the two invariants that every step needs.             *)
THEOREM PlacesAreKept == Spec => [](Placed /\ Booted)
<1>1. Init => Placed /\ Booted
  BY PlacedInit, BootedInit
<1>2. Placed /\ Booted /\ [Next]_vars => (Placed /\ Booted)'
  BY StepRefines
<1> QED
  BY <1>1, <1>2, PTL DEF Spec

(* No thread is lost between two queues, queued twice, or run and queued,  *)
(* and no id is given out twice (scheduler_new_thread, the tick, the end   *)
(* of threads, and the hand-over of a character).                          *)
THEOREM EveryThreadHasOnePlace == Spec => []OnePlace
  BY PlacesAreKept, PlacedOnce, PTL

(* The kernel is a scheduler that ProcessTable.tla asks for: it calls the  *)
(* callbacks of src/scheduler/scheduler.c for the threads, at the times    *)
(* and in the order that module allows.                                    *)
THEOREM KernelRefinesTable == Spec => ImplementsProcessTable
<1>1. Init => Table!Init
  BY InitRefines
<1>2. Placed /\ Booted /\ [Next]_vars => [Table!Next]_(Table!vars)
  BY StepRefines
<1> QED
  BY <1>1, <1>2, PlacesAreKept, PTL DEF Spec, ImplementsProcessTable, Table!Spec

(* What is proved of ProcessTable.tla, for the threads of the kernel.      *)
TableTheorems == INSTANCE ProcessTableProofs WITH used <- Used

LEMMA TableAssumption == TableTheorems!ProcessesAssumption
  BY ProcessesAssumption DEF TableTheorems!ProcessesAssumption

(* The steps of ProcessTable.tla are those the proofs there speak of. *)
LEMMA TableStep ==
  ASSUME [Table!Next]_(Table!vars)
  PROVE  [TableTheorems!Next]_(TableTheorems!vars)
<1>1. Table!Next => TableTheorems!Next
  BY DEF Table!Next, TableTheorems!Next, Table!StartShell, TableTheorems!StartShell,
         Table!Exec, TableTheorems!Exec,
         Table!ExecRefused, TableTheorems!ExecRefused,
         Table!Switch, TableTheorems!Switch, Table!Exit, TableTheorems!Exit,
         Table!UnknownCall, TableTheorems!UnknownCall,
         Table!SwitchTo, TableTheorems!SwitchTo,
         Table!Threads, TableTheorems!Threads, Table!Idle, TableTheorems!Idle,
         Table!Flags, TableTheorems!Flags, Table!InitRuns, TableTheorems!InitRuns,
         Table!InitThread, TableTheorems!InitThread,
         Table!ShellThread, TableTheorems!ShellThread,
         Table!NewProcess, TableTheorems!NewProcess,
         Table!JoinProcess, TableTheorems!JoinProcess,
         Table!OnCreate, TableTheorems!OnCreate,
         Table!NoProcessLeft, TableTheorems!NoProcessLeft,
         Table!FindFreeProcess, TableTheorems!FindFreeProcess,
         Table!MayEnd, TableTheorems!MayEnd, Table!OnExit, TableTheorems!OnExit,
         Table!LeaveProcess, TableTheorems!LeaveProcess,
         Table!LeaveNoProcess, TableTheorems!LeaveNoProcess,
         Table!OnSchedule, TableTheorems!OnSchedule,
         Table!ProcessOf, TableTheorems!ProcessOf,
         Table!DataSection, TableTheorems!DataSection,
         Table!Procs, TableTheorems!Procs, Table!None, TableTheorems!None,
         Table!Unknown, TableTheorems!Unknown, Table!Aliased, TableTheorems!Aliased,
         Table!Last, TableTheorems!Last
<1> QED
  BY <1>1
  DEF Table!vars, TableTheorems!vars, Table!processVars, TableTheorems!processVars

LEMMA InitIsInit == Table!Init => TableTheorems!Init
  BY DEF Table!Init, TableTheorems!Init, Table!ProcessInit, TableTheorems!ProcessInit,
         Table!Procs, TableTheorems!Procs, Table!Threads, TableTheorems!Threads,
         Table!InitThread, TableTheorems!InitThread, Table!None, TableTheorems!None,
         Table!Boot, TableTheorems!Boot

LEMMA TableIsTable == ImplementsProcessTable => TableTheorems!Spec
<1>1. Table!Init => TableTheorems!Init
  BY InitIsInit
<1>2. [Table!Next]_(Table!vars) => [TableTheorems!Next]_(TableTheorems!vars)
  BY TableStep
<1> QED
  BY <1>1, <1>2, PTL DEF ImplementsProcessTable, Table!Spec, TableTheorems!Spec

(* So the invariant of the process table holds in the kernel: counters     *)
(* count the threads in use, no process is lost, an id that is free        *)
(* belongs to none, and a thread that runs sees the data of its process.   *)
THEOREM KernelKeepsTable == ~Aliased => (Spec => []TableTheorems!IInv)
<1>1. ~Aliased => ~TableTheorems!Aliased
  BY DEF Aliased, TableTheorems!Aliased
<1>2. ~TableTheorems!Aliased => (TableTheorems!Spec => []TableTheorems!IInv)
  BY TableTheorems!TableInvariant, TableAssumption
<1> QED
  BY <1>1, <1>2, KernelRefinesTable, TableIsTable, PTL

(* What that says in the words of this module. *)
LEMMA TableFacts ==
  ASSUME ~Aliased, TableTheorems!IInv
  PROVE  /\ thread_process_arr \in [Threads -> Procs \union {None}]
         /\ reserved \in [Procs -> BOOLEAN]
         /\ threads_active \in [Procs -> Nat]
         /\ scheduler_pid \in Procs
         /\ \A p \in Procs :
              threads_active[p] = Cardinality({t \in Used : thread_process_arr[t] = p})
         /\ current # Idle /\ thread_process_arr[current] # None
              => userdata = thread_process_arr[current]
<1>1. MAX_THREADS \in Nat
  BY ProcessesAssumption
<1>2. ASSUME NEW S PROVE TableTheorems!Cardinality(S) = Cardinality(S)
  BY DEF TableTheorems!Cardinality, Cardinality
<1> QED
  BY <1>1, <1>2
  DEF TableTheorems!IInv, TableTheorems!TypeOK, TableTheorems!TableInv,
      TableTheorems!Accounting, TableTheorems!ThreadsOf, TableTheorems!Isolation,
      TableTheorems!Sees, TableTheorems!Threads, Threads, TableTheorems!Procs, Procs,
      TableTheorems!None, None, TableTheorems!Idle, Idle, TableTheorems!Aliased, Aliased

(* A step of the kernel keeps the invariants of queues and table, and the  *)
(* owner of every thread that lives on.                                    *)
LEMMA KernelTableStep ==
  ASSUME ~Aliased, Placed, Booted, TableTheorems!IInv, [Next]_vars
  PROVE  /\ Placed' /\ Booted' /\ TableTheorems!IInv'
         /\ \A t \in Used \intersect Used' :
              thread_process_arr'[t] = thread_process_arr[t]
<1>1. Placed' /\ Booted' /\ [TableTheorems!Next]_(TableTheorems!vars)
  BY StepRefines, TableStep
<1>2. ~TableTheorems!Aliased
  BY DEF Aliased, TableTheorems!Aliased
<1> QED
  BY <1>1, <1>2, TableTheorems!StepIInv, TableAssumption

-----------------------------------------------------------------------------
(* No wakeup is lost. *)

(* The inductive invariant: the types of what a character passes through,  *)
(* and that nobody waits while the ring holds one.                         *)
WakeupInv ==
  /\ waiting \in Seq(Threads)
  /\ head \in Nat /\ tail \in Nat
  /\ NoLostWakeup

LEMMA WakeupInit == Init => WakeupInv
  BY DEF Init, WakeupInv, NoLostWakeup, Empty, Ring

(* A step that leaves the ring and those who wait for it alone. *)
LEMMA WakeupStutter ==
  ASSUME WakeupInv, UNCHANGED <<waiting, head, tail, slots>>
  PROVE  WakeupInv'
  BY DEF WakeupInv, NoLostWakeup, Empty, Ring

(* The character that arrives goes to the thread that waits at once: the   *)
(* ring was empty before and is again.                                     *)
LEMMA UartIrqWakes ==
  ASSUME WakeupInv, UartIrq
  PROVE  WakeupInv'
<1> DEFINE stored == StoredIn(Ring, arrived + 1)
<1>1. CASE waiting = <<>>
  <2>1. waiting' = <<>>
    BY <1>1 DEF UartIrq
  <2>2. head' = stored.head /\ tail' = stored.tail
    BY <1>1 DEF UartIrq, RingBecomes
  <2>3. stored.head \in Nat /\ stored.tail \in Nat
    BY DEF StoredIn, Ring, WakeupInv
  <2> QED
    BY <2>1, <2>2, <2>3 DEF WakeupInv, NoLostWakeup
<1>2. CASE waiting # <<>>
  <2>1. head = tail
    BY <1>2 DEF WakeupInv, NoLostWakeup, Empty, Ring
  <2>2. stored.head = head + 1 /\ stored.tail = tail
    BY <2>1, KernelAssumption DEF StoredIn, Ring, WakeupInv
  <2>3. head' = stored.head /\ tail' = stored.tail + 1
    BY <1>2 DEF UartIrq, Takes, RingBecomes, StoredIn, Ring
  <2>4. head' = tail' /\ head' \in Nat /\ tail' \in Nat
    BY <2>1, <2>2, <2>3 DEF WakeupInv
  <2>5. waiting' \in Seq(Threads)
    <3>1. waiting' = Tail(waiting)
      BY <1>2 DEF UartIrq
    <3>2. waiting \in Seq(Threads) /\ waiting # <<>>
      BY <1>2 DEF WakeupInv
    <3> QED
      BY <3>1, <3>2
  <2> QED
    BY <2>4, <2>5 DEF WakeupInv, NoLostWakeup, Empty, Ring
<1> QED
  BY <1>1, <1>2

(* A GETC that finds a character finds nobody who waits for it. *)
LEMMA GetCharTakes ==
  ASSUME WakeupInv, GetChar
  PROVE  WakeupInv'
<1>1. waiting = <<>> /\ waiting' = <<>>
  BY DEF GetChar, WakeupInv, NoLostWakeup
<1>2. head' = head /\ tail' = tail + 1
  BY DEF GetChar, Takes, RingBecomes, Ring
<1> QED
  BY <1>1, <1>2 DEF WakeupInv, NoLostWakeup

(* A GETC that waits has found the ring empty. *)
LEMMA WaitForCharWaits ==
  ASSUME WakeupInv, WaitForChar
  PROVE  WakeupInv'
<1>1. current \in Threads
  BY DEF WaitForChar, UserRuns, Used
<1>2. waiting' \in Seq(Threads)
  BY <1>1 DEF WaitForChar, WakeupInv
<1>3. head' = tail' /\ head' = head /\ tail' = tail
  BY DEF WaitForChar, ringVars, Empty, Ring
<1> QED
  BY <1>2, <1>3 DEF WakeupInv, NoLostWakeup, Empty, Ring

LEMMA WakeupStep ==
  ASSUME WakeupInv, [Next]_vars
  PROVE  WakeupInv'
<1> USE DEF charVars, ringVars, kernelVars
<1>1. CASE TimerIrq
  BY <1>1, TimerTurns, WakeupStutter
<1>2. CASE UartIrq
  BY <1>2, UartIrqWakes
<1>3. CASE StartShell
  BY <1>3, WakeupStutter DEF StartShell, NewThread
<1>4. ASSUME NEW flags \in Flags, Exec(flags) PROVE WakeupInv'
  BY <1>4, WakeupStutter DEF Exec, NewThread
<1>5. CASE ExecRefused
  BY <1>5, WakeupStutter DEF ExecRefused
<1>6. CASE Sleep
  BY <1>6, WakeupStutter DEF Sleep
<1>7. CASE GetChar
  BY <1>7, GetCharTakes
<1>8. CASE WaitForChar
  BY <1>8, WaitForCharWaits
<1>9. CASE Exit
  BY <1>9, WakeupStutter DEF Exit
<1>10. CASE UnknownCall
  BY <1>10, WakeupStutter DEF UnknownCall
<1>11. CASE UNCHANGED vars
  BY <1>11, WakeupStutter DEF vars
<1> QED
  BY <1>1, <1>2, <1>3, <1>4, <1>5, <1>6, <1>7, <1>8, <1>9, <1>10, <1>11 DEF Next

(* No thread waits for a character that the ring already holds (syscall    *)
(* GETC and the UART interrupt, whose callback is exceptions.c:29-32).     *)
THEOREM WakeupNotLost == Spec => []NoLostWakeup
<1>1. Init => WakeupInv
  BY WakeupInit
<1>2. WakeupInv /\ [Next]_vars => WakeupInv'
  BY WakeupStep
<1>3. WakeupInv => NoLostWakeup
  BY DEF WakeupInv
<1> QED
  BY <1>1, <1>2, <1>3, PTL DEF Spec

-----------------------------------------------------------------------------
(* Types. *)

(* Characters that arrived are in the ring, and between tail and head.     *)
RingTyped ==
  /\ arrived \in 0 .. MaxChars
  /\ slots \in [0 .. RingSize - 1 -> 0 .. arrived]
  /\ given \in 0 .. arrived
  /\ head \in 0 .. arrived /\ tail \in 0 .. head
  /\ head - tail <= RingSize + 1

LEMMA SlotInRing ==
  ASSUME NEW k \in Nat
  PROVE  k % RingSize \in 0 .. RingSize - 1
  BY KernelAssumption

LEMMA RingTypedInit == Init => RingTyped
  BY KernelAssumption DEF Init, RingTyped

(* What the UART leaves in the ring. *)
LEMMA StoredFields ==
  ASSUME NEW c
  PROVE  LET r == StoredIn(Ring, c)
         IN  /\ r.tail = tail
             /\ IF head - tail > RingSize
                THEN r.head = head /\ r.slots = slots
                ELSE /\ r.head = head + 1
                     /\ r.slots = [slots EXCEPT ![head % RingSize] = c]
  BY DEF StoredIn, Ring

LEMMA StoredTyped ==
  ASSUME RingTyped, arrived < MaxChars
  PROVE  LET r == StoredIn(Ring, arrived + 1)
         IN  /\ r.slots \in [0 .. RingSize - 1 -> 0 .. arrived + 1]
             /\ r.head \in 0 .. arrived + 1 /\ tail \in 0 .. r.head
             /\ r.head - tail <= RingSize + 1
<1> DEFINE r == StoredIn(Ring, arrived + 1)
<1>1. /\ head \in Nat /\ tail \in Nat /\ arrived \in Nat /\ RingSize \in Nat
      /\ head <= arrived /\ tail <= head /\ head - tail <= RingSize + 1
  BY KernelAssumption DEF RingTyped
<1>2. IF head - tail > RingSize
      THEN r.head = head /\ r.slots = slots
      ELSE /\ r.head = head + 1
           /\ r.slots = [slots EXCEPT ![head % RingSize] = arrived + 1]
  BY StoredFields
<1> HIDE DEF r
<1>3. r.slots \in [0 .. RingSize - 1 -> 0 .. arrived + 1]
  <2>1. slots \in [0 .. RingSize - 1 -> 0 .. arrived + 1]
    BY <1>1 DEF RingTyped
  <2>2. head % RingSize \in 0 .. RingSize - 1
    BY <1>1, SlotInRing
  <2>3. [slots EXCEPT ![head % RingSize] = arrived + 1]
          \in [0 .. RingSize - 1 -> 0 .. arrived + 1]
    <3>1. arrived + 1 \in 0 .. arrived + 1
      BY <1>1
    <3> QED
      BY <2>1, <2>2, <3>1
  <2> QED
    BY <1>2, <2>1, <2>3
<1>4. /\ r.head \in 0 .. arrived + 1 /\ tail \in 0 .. r.head
      /\ r.head - tail <= RingSize + 1
  BY <1>1, <1>2
<1> QED
  BY <1>3, <1>4 DEF r

LEMMA UartIrqTyped ==
  ASSUME RingTyped, WakeupInv, UartIrq
  PROVE  RingTyped'
<1> DEFINE r == StoredIn(Ring, arrived + 1)
<1>1. arrived < MaxChars /\ arrived' = arrived + 1
  BY DEF UartIrq
<1>2. /\ r.slots \in [0 .. RingSize - 1 -> 0 .. arrived + 1]
      /\ r.head \in 0 .. arrived + 1
      /\ r.tail = tail /\ tail \in 0 .. r.head
      /\ r.head - tail <= RingSize + 1
  BY <1>1, StoredTyped, StoredFields
<1>3. arrived' \in 0 .. MaxChars /\ arrived \in 0 .. MaxChars
  BY <1>1, KernelAssumption DEF RingTyped
<1>4. CASE waiting = <<>>
  <2>1. slots' = r.slots /\ head' = r.head /\ tail' = r.tail /\ given' = given
    BY <1>4 DEF UartIrq, RingBecomes
  <2>2. given' \in 0 .. arrived'
    BY <1>1, <1>3, <2>1 DEF RingTyped
  <2> HIDE DEF r
  <2> QED
    BY <1>1, <1>2, <1>3, <2>1, <2>2 DEF RingTyped
<1>5. CASE waiting # <<>>
  <2>1. /\ given' = r.slots[r.tail % RingSize]
        /\ slots' = r.slots /\ head' = r.head /\ tail' = r.tail + 1
    BY <1>5 DEF UartIrq, Takes, RingBecomes, Oldest, StoredIn, Ring
  <2>2. head = tail
    BY <1>5 DEF WakeupInv, NoLostWakeup, Empty, Ring
  <2>3. tail \in Nat /\ tail % RingSize \in 0 .. RingSize - 1
    BY SlotInRing DEF WakeupInv
  <2>5. r.head = tail + 1
    <3>1. ~(head - tail > RingSize)
      BY <2>2, <2>3, KernelAssumption
    <3> QED
      BY <2>2, <3>1, StoredFields
  <2> HIDE DEF r
  <2>4. given' \in 0 .. arrived'
    BY <1>1, <1>2, <2>1, <2>3
  <2> QED
    BY <1>1, <1>2, <1>3, <2>1, <2>3, <2>4, <2>5, KernelAssumption DEF RingTyped
<1> QED
  BY <1>4, <1>5

LEMMA GetCharTyped ==
  ASSUME RingTyped, GetChar
  PROVE  RingTyped'
<1>1. /\ head # tail /\ arrived' = arrived
      /\ given' = slots[tail % RingSize]
      /\ slots' = slots /\ head' = head /\ tail' = tail + 1
  BY DEF GetChar, Takes, RingBecomes, Oldest, Empty, Ring
<1>2. tail \in Nat /\ head \in Nat /\ arrived \in Nat
  BY DEF RingTyped
<1>3. given' \in 0 .. arrived
  BY <1>1, <1>2, SlotInRing DEF RingTyped
<1> QED
  BY <1>1, <1>2, <1>3, KernelAssumption DEF RingTyped

LEMMA RingTypedStutter ==
  ASSUME RingTyped, UNCHANGED <<arrived, slots, given, head, tail>>
  PROVE  RingTyped'
  BY DEF RingTyped

LEMMA StepTyped ==
  ASSUME RingTyped, WakeupInv, [Next]_vars
  PROVE  RingTyped'
<1> USE RingTypedStutter DEF charVars, ringVars
<1>1. CASE TimerIrq
  BY <1>1, TimerTurns
<1>2. CASE UartIrq
  BY <1>2, UartIrqTyped
<1>3. CASE StartShell
  BY <1>3 DEF StartShell, NewThread
<1>4. ASSUME NEW flags \in Flags, Exec(flags) PROVE RingTyped'
  BY <1>4 DEF Exec, NewThread
<1>5. CASE ExecRefused
  BY <1>5 DEF ExecRefused, kernelVars
<1>6. CASE Sleep
  BY <1>6 DEF Sleep
<1>7. CASE GetChar
  BY <1>7, GetCharTyped
<1>8. CASE WaitForChar
  BY <1>8 DEF WaitForChar
<1>9. CASE Exit
  BY <1>9 DEF Exit
<1>10. CASE UnknownCall
  BY <1>10 DEF UnknownCall
<1>11. CASE UNCHANGED vars
  BY <1>11 DEF vars, kernelVars
<1> QED
  BY <1>1, <1>2, <1>3, <1>4, <1>5, <1>6, <1>7, <1>8, <1>9, <1>10, <1>11 DEF Next

LEMMA TypesTogether == Placed /\ RingTyped => TypeOK
  BY DEF Placed, Queued, QueueRecords, Queues, Used, RingTyped, TypeOK

(* Queues hold threads, a sleeper never has fewer than 0 cycles to go,     *)
(* tail never passes head, and the ring never has more than one character  *)
(* too many, however interrupts and calls follow each other.               *)
THEOREM KernelTypeCorrect == Spec => []TypeOK
<1>1. Init => Placed /\ Booted /\ WakeupInv /\ RingTyped
  BY PlacedInit, BootedInit, WakeupInit, RingTypedInit
<1>2. Placed /\ Booted /\ WakeupInv /\ RingTyped /\ [Next]_vars
        => (Placed /\ Booted /\ WakeupInv /\ RingTyped)'
  BY StepRefines, StepTyped, WakeupStep
<1>3. Placed /\ Booted /\ WakeupInv /\ RingTyped => TypeOK
  BY TypesTogether
<1> QED
  BY <1>1, <1>2, <1>3, PTL DEF Spec

-----------------------------------------------------------------------------
(* Ready threads are served in their turn. *)

(* Who stands in front of t stands there also when others join behind it.  *)
LEMMA InFrontConcat ==
  ASSUME NEW s \in Seq(Threads), IsInjective(s), NEW r \in Seq(Threads), IsInjective(r),
         Range(s) \intersect Range(r) = {}, NEW t \in Range(s)
  PROVE  InFront(s \o r, t) = InFront(s, t)
<1> DEFINE c == s \o r
           m == Len(s)
           n == Len(r)
<1>1. /\ m \in Nat /\ n \in Nat
      /\ DOMAIN c = 1 .. m + n
      /\ DOMAIN s = 1 .. m /\ DOMAIN r = 1 .. n
      /\ \A i \in 1 .. m + n : c[i] = IF i <= m THEN s[i] ELSE r[i - m]
  BY ConcatProperties, LenProperties
<1> HIDE DEF c, m, n
<1>2. \A j \in 1 .. m + n : c[j] = t => j \in 1 .. m
  <2>1. \A k \in 1 .. n : r[k] # t
    BY <1>1 DEF Range
  <2>2. \A j \in 1 .. m + n : j \in 1 .. m \/ (j - m \in 1 .. n /\ c[j] = r[j - m])
    BY <1>1
  <2> QED
    BY <2>1, <2>2
<1>3. \A i \in 1 .. m : i \in 1 .. m + n /\ c[i] = s[i]
  BY <1>1
<1>4. \A i \in 1 .. m + n, j \in 1 .. m : i < j => i \in 1 .. m
  BY <1>1
<1>5. ASSUME NEW x \in InFront(c, t) PROVE x \in InFront(s, t)
  <2>1. PICK i \in 1 .. m + n : c[i] = x /\ \E j \in 1 .. m + n : i < j /\ c[j] = t
    BY <1>1, <1>5 DEF InFront
  <2>2. PICK j \in 1 .. m + n : i < j /\ c[j] = t
    BY <2>1
  <2> QED
    BY <1>1, <1>2, <1>3, <1>4, <2>1, <2>2 DEF InFront
<1>6. ASSUME NEW x \in InFront(s, t) PROVE x \in InFront(c, t)
  BY <1>1, <1>3, <1>6 DEF InFront
<1> QED
  BY <1>5, <1>6 DEF c

LEMMA InFrontAppend ==
  ASSUME NEW s \in Seq(Threads), IsInjective(s), NEW x \in Threads, x \notin Range(s),
         NEW t \in Range(s)
  PROVE  InFront(Append(s, x), t) = InFront(s, t)
<1>1. <<x>> \in Seq(Threads) /\ IsInjective(<<x>>) /\ Range(<<x>>) = {x}
  BY SingleQueue
<1>2. Append(s, x) = s \o <<x>>
  OBVIOUS
<1>3. Range(s) \intersect Range(<<x>>) = {}
  BY <1>1
<1>4. InFront(s \o <<x>>, t) = InFront(s, t)
  <2> DEFINE r == <<x>>
  <2>1. r \in Seq(Threads) /\ IsInjective(r) /\ Range(s) \intersect Range(r) = {}
    BY <1>1, <1>3
  <2> HIDE DEF r
  <2>2. InFront(s \o r, t) = InFront(s, t)
    BY <2>1, InFrontConcat
  <2> QED
    BY <2>2 DEF r
<1> QED
  BY <1>2, <1>4

(* A thread that goes to the head of the queue. *)
LEMMA InFrontFirst ==
  ASSUME NEW s \in Seq(Threads), NEW x \in Threads, x \notin Range(s), NEW t \in Range(s)
  PROVE  InFront(<<x>> \o s, t) = InFront(s, t) \union {x}
<1> DEFINE c == <<x>> \o s
           n == Len(s)
<1>1. /\ n \in Nat
      /\ DOMAIN c = 1 .. 1 + n /\ DOMAIN s = 1 .. n
      /\ c[1] = x
      /\ \A i \in 1 .. n : c[i + 1] = s[i]
  BY ConcatProperties, LenProperties
<1> HIDE DEF c, n
<1>2. \A i \in 1 .. 1 + n : i = 1 \/ (i - 1 \in 1 .. n /\ c[i] = s[i - 1])
  BY <1>1
<1>3. x # t
  OBVIOUS
<1>4. ASSUME NEW y \in InFront(c, t), y # x PROVE y \in InFront(s, t)
  <2>1. PICK i \in 1 .. 1 + n, j \in 1 .. 1 + n : c[i] = y /\ i < j /\ c[j] = t
    BY <1>1, <1>4 DEF InFront
  <2>2. /\ i - 1 \in 1 .. n /\ s[i - 1] = y
        /\ j - 1 \in 1 .. n /\ s[j - 1] = t
    BY <1>1, <1>2, <1>3, <1>4, <2>1
  <2>3. i - 1 < j - 1
    BY <1>1, <2>1
  <2> QED
    BY <1>1, <2>2, <2>3 DEF InFront
<1>5. ASSUME NEW y \in InFront(s, t) PROVE y \in InFront(c, t)
  <2>1. PICK i \in 1 .. n, j \in 1 .. n : s[i] = y /\ i < j /\ s[j] = t
    BY <1>1, <1>5 DEF InFront
  <2>2. /\ i + 1 \in 1 .. 1 + n /\ c[i + 1] = y
        /\ j + 1 \in 1 .. 1 + n /\ c[j + 1] = t /\ i + 1 < j + 1
    BY <1>1, <2>1
  <2> QED
    BY <1>1, <2>2 DEF InFront
<1>6. x \in InFront(c, t)
  <2>1. PICK j \in 1 .. n : s[j] = t
    BY <1>1 DEF Range
  <2>2. 1 \in 1 .. 1 + n /\ j + 1 \in 1 .. 1 + n /\ 1 < j + 1 /\ c[j + 1] = t
    BY <1>1, <2>1
  <2> QED
    BY <1>1, <2>2 DEF InFront
<1> QED
  BY <1>4, <1>5, <1>6 DEF c

(* The first one of a queue leaves it.                                     *)
LEMMA InFrontTail ==
  ASSUME NEW s \in Seq(Threads), IsInjective(s), s # <<>>,
         NEW t \in Range(s), t # Head(s)
  PROVE  /\ t \in Range(Tail(s))
         /\ Head(s) \in InFront(s, t)
         /\ InFront(Tail(s), t) = InFront(s, t) \ {Head(s)}
<1> DEFINE r == Tail(s)
           n == Len(s)
<1>1. /\ n \in Nat \ {0}
      /\ DOMAIN r = 1 .. n - 1 /\ DOMAIN s = 1 .. n
      /\ \A i \in 1 .. n - 1 : r[i] = s[i + 1]
      /\ Head(s) = s[1]
  BY HeadTailProperties, LenProperties, EmptySeq
<1> HIDE DEF r, n
<1>2. \A i \in 1 .. n - 1 : i + 1 \in 1 .. n /\ r[i] = s[i + 1] /\ i + 1 # 1
  BY <1>1
<1>3. \A i \in 1 .. n : i = 1 \/ (i - 1 \in 1 .. n - 1 /\ r[i - 1] = s[i])
  BY <1>1
<1>4. 1 \in 1 .. n /\ \A i \in 1 .. n : s[i] = Head(s) => i = 1
  BY <1>1 DEF IsInjective
<1>5. PICK k \in 1 .. n : s[k] = t
  BY <1>1 DEF Range
<1>6. t \in Range(r)
  <2>1. k - 1 \in 1 .. n - 1 /\ r[k - 1] = t
    BY <1>1, <1>3, <1>5
  <2> QED
    BY <1>1, <2>1 DEF Range
<1>7. Head(s) \in InFront(s, t)
  <2>1. 1 < k
    BY <1>1, <1>5
  <2> QED
    BY <1>1, <1>4, <1>5, <2>1 DEF InFront
<1>8. ASSUME NEW x \in InFront(r, t) PROVE x \in InFront(s, t) \ {Head(s)}
  <2>1. PICK i \in 1 .. n - 1, j \in 1 .. n - 1 : r[i] = x /\ i < j /\ r[j] = t
    BY <1>1, <1>8 DEF InFront
  <2>2. /\ i + 1 \in 1 .. n /\ s[i + 1] = x /\ i + 1 # 1
        /\ j + 1 \in 1 .. n /\ s[j + 1] = t /\ i + 1 < j + 1
    BY <1>1, <1>2, <2>1
  <2> QED
    BY <1>1, <1>4, <2>2 DEF InFront
<1>9. ASSUME NEW x \in InFront(s, t), x # Head(s) PROVE x \in InFront(r, t)
  <2>1. PICK i \in 1 .. n, j \in 1 .. n : s[i] = x /\ i < j /\ s[j] = t
    BY <1>1, <1>9 DEF InFront
  <2>2. /\ i - 1 \in 1 .. n - 1 /\ r[i - 1] = x
        /\ j - 1 \in 1 .. n - 1 /\ r[j - 1] = t
    BY <1>1, <1>3, <1>9, <2>1
  <2>3. i - 1 < j - 1
    BY <1>1, <2>1
  <2> QED
    BY <1>1, <2>2, <2>3 DEF InFront
<1> QED
  BY <1>6, <1>7, <1>8, <1>9 DEF r

(* From the queues q to the queues r it has become t's turn, or one that   *)
(* was in front of t has had its turn and nobody has come there instead.   *)
Served(q, r, t) ==
  \/ t = r.current
  \/ /\ t \in Range(r.ready)
     /\ InFront(r.ready, t) \subseteq InFront(q.ready, t)
     /\ InFront(r.ready, t) # InFront(q.ready, t)

LEMMA TickWaits ==
  ASSUME NEW q, NEW S, Queued(q, S), NEW t \in Range(q.ready)
  PROVE  /\ t \in Range(Tick(q).ready)
         /\ InFront(Tick(q).ready, t) = InFront(q.ready, t)
         /\ Head(Tick(q).ready) = Head(q.ready)
<1> DEFINE woken == Those(q.sleeping, Rested(q))
<1>1. /\ q.ready \in Seq(Threads) /\ q.sleeping \in Seq(Threads)
      /\ IsInjective(q.ready) /\ IsInjective(q.sleeping)
  BY DEF Queued, QueueRecords
<1>2. /\ woken \in Seq(Threads) /\ IsInjective(woken)
      /\ Range(woken) = Range(q.sleeping) \intersect Rested(q)
  BY <1>1, ThoseProperties
<1>3. Tick(q).ready = q.ready \o woken
  BY DEF Tick, Queued, QueueRecords
<1> HIDE DEF woken
<1>4. Range(q.ready) \intersect Range(woken) = {}
  BY <1>2 DEF Queued
<1>5. Range(q.ready \o woken) = Range(q.ready) \union Range(woken)
  BY <1>1, <1>2, <1>4, ConcatQueues
<1>6. InFront(q.ready \o woken, t) = InFront(q.ready, t)
  BY <1>1, <1>2, <1>4, InFrontConcat
<1>7. Head(q.ready \o woken) = Head(q.ready)
  <2>1. q.ready # <<>>
    BY EmptyQueue
  <2> QED
    BY <1>1, <1>2, <2>1
<1> QED
  BY <1>3, <1>5, <1>6, <1>7

LEMMA DispatchServes ==
  ASSUME NEW q, NEW S, Queued(q, S), NEW t \in Range(q.ready)
  PROVE  Served(q, Dispatch(q), t) /\ Dispatch(q).current = Head(q.ready)
<1>1. /\ q \in QueueRecords
      /\ q.ready \in Seq(Threads) /\ IsInjective(q.ready) /\ q.ready # <<>>
  BY EmptyQueue DEF Queued, QueueRecords
<1>2. /\ Dispatch(q).current = Head(q.ready)
      /\ Dispatch(q).ready = Tail(q.ready)
  BY <1>1 DEF Dispatch, QueueRecords
<1>3. CASE t # Head(q.ready)
  <2>1. /\ t \in Range(Tail(q.ready))
        /\ Head(q.ready) \in InFront(q.ready, t)
        /\ InFront(Tail(q.ready), t) = InFront(q.ready, t) \ {Head(q.ready)}
    BY <1>1, <1>3, InFrontTail
  <2> QED
    BY <1>2, <2>1 DEF Served
<1> QED
  BY <1>2, <1>3 DEF Served

LEMMA EndServes ==
  ASSUME NEW q, NEW S, Queued(q, S), NEW t \in Range(q.ready)
  PROVE  Served(q, EndCurrent(q), t) /\ EndCurrent(q).current = Head(q.ready)
<1> DEFINE r == Tick(q)
<1>1. Queued(r, S)
  BY TickQueued
<1>2. /\ t \in Range(r.ready)
      /\ InFront(r.ready, t) = InFront(q.ready, t)
      /\ Head(r.ready) = Head(q.ready)
  BY TickWaits
<1>3. EndCurrent(q) = Dispatch(r)
  BY DEF EndCurrent
<1> HIDE DEF r
<1>4. Served(r, Dispatch(r), t) /\ Dispatch(r).current = Head(r.ready)
  BY <1>1, <1>2, DispatchServes
<1> QED
  BY <1>2, <1>3, <1>4 DEF Served

LEMMA RoundRobinServes ==
  ASSUME NEW q, NEW S, Queued(q, S), q.current \notin S, NEW t \in Range(q.ready)
  PROVE  Served(q, RoundRobin(q), t)
<1> DEFINE r == Tick(q)
           s == [r EXCEPT !.ready = Append(@, r.current)]
<1>1. Queued(r, S) /\ r.current = q.current
  BY TickQueued
<1>2. t \in Range(r.ready) /\ InFront(r.ready, t) = InFront(q.ready, t)
  BY TickWaits
<1>3. RoundRobin(q) = IF r.current = Idle THEN Dispatch(r) ELSE Dispatch(s)
  BY DEF RoundRobin, Requeue
<1> HIDE DEF r
<1>4. CASE r.current = Idle
  <2>1. Served(r, Dispatch(r), t)
    BY <1>1, <1>2, DispatchServes
  <2> QED
    BY <1>2, <1>3, <1>4, <2>1 DEF Served
<1>5. CASE r.current # Idle
  <2>1. r.current \in Threads \ S
    BY <1>1, <1>5, QueuedThreads
  <2>2. Queued(s, S \union {r.current})
    BY <1>1, <2>1, ReadyQueued
  <2>3. /\ r \in QueueRecords /\ r.ready \in Seq(Threads) /\ IsInjective(r.ready)
        /\ r.current \notin Range(r.ready)
    BY <1>1, <2>1 DEF Queued, QueueRecords
  <2>4. s.ready = Append(r.ready, r.current)
    BY <2>3 DEF QueueRecords
  <2> HIDE DEF s
  <2>5. t \in Range(s.ready) /\ InFront(s.ready, t) = InFront(r.ready, t)
    BY <1>2, <2>1, <2>3, <2>4, AppendQueue, InFrontAppend
  <2>6. Served(s, Dispatch(s), t)
    BY <2>2, <2>5, DispatchServes
  <2> QED
    BY <1>2, <1>3, <1>5, <2>5, <2>6 DEF Served
<1> QED
  BY <1>4, <1>5

(* What FirstComeFirstServed says of a step. *)
InTurn(t) ==
  \/ t = current'
  \/ /\ t \in Range(ready')
     /\ Ahead(t)' \subseteq Ahead(t) \union (Used' \ Used)
     /\ TimerIrq => Ahead(t)' # Ahead(t)
  \/ UnknownCall /\ t = Head(ready)

LEMMA ServedInTurn ==
  ASSUME NEW t, NEW q, Served(Queues, q, t), current' = q.current, ready' = q.ready
  PROVE  InTurn(t)
<1>1. Queues.ready = ready
  BY DEF Queues
<1>2. t = current' \/ (/\ t \in Range(ready')
                       /\ InFront(ready', t) \subseteq InFront(ready, t)
                       /\ InFront(ready', t) # InFront(ready, t))
  BY <1>1 DEF Served
<1>3. Ahead(t)' = InFront(ready', t) /\ Ahead(t) = InFront(ready, t)
  BY DEF Ahead
<1> QED
  BY <1>2, <1>3 DEF InTurn

(* A step in which the processor stays where it is. *)
LEMMA WaitsInTurn ==
  ASSUME NEW t, ~TimerIrq, t \in Range(ready'),
         InFront(ready', t) \subseteq InFront(ready, t) \union (Used' \ Used)
  PROVE  InTurn(t)
<1>1. Ahead(t)' = InFront(ready', t) /\ Ahead(t) = InFront(ready, t)
  BY DEF Ahead
<1> QED
  BY <1>1 DEF InTurn

(* A timer interrupt takes the processor from the thread that has it.      *)
LEMMA TimerInTurn ==
  ASSUME Placed, TimerIrq, NEW t \in Range(ready)
  PROVE  InTurn(t)
<1> DEFINE q == RoundRobin(Queues)
<1>1. current' = q.current /\ ready' = q.ready
  BY TimerTurns DEF Become
<1>2. Served(Queues, q, t)
  <2>1. t \in Range(Queues.ready)
    BY DEF Queues
  <2> QED
    BY <2>1, PlacedQueues, RoundRobinServes
<1> HIDE DEF q
<1> QED
  BY <1>1, <1>2, ServedInTurn

(* Calls that leave the processor, where the queues after it are those     *)
(* that Dispatch leaves, but for the thread that has gone to sleep.        *)
LEMMA LeaveInTurn ==
  ASSUME Placed, Sleep \/ WaitForChar, NEW t \in Range(ready)
  PROVE  InTurn(t)
<1> DEFINE q == Dispatch(Queues)
<1>1. q \in QueueRecords
  BY PlacedQueues, DispatchQueued DEF Queued
<1>2. Served(Queues, q, t)
  <2>1. t \in Range(Queues.ready)
    BY DEF Queues
  <2> QED
    BY <2>1, PlacedQueues, DispatchServes
<1>3. current' = q.current /\ ready' = q.ready
  <2>1. CASE Sleep
    <3> PICK c \in 1 .. MaxCycles :
           Become([q EXCEPT !.sleeping = Append(@, current), !.cycles[current] = c])
      BY <2>1 DEF Sleep, LeaveProcessor
    <3> HIDE DEF q
    <3> QED
      BY <1>1 DEF Become, QueueRecords
  <2>2. CASE WaitForChar
    BY <2>2 DEF WaitForChar, LeaveProcessor, Become
  <2> QED
    BY <2>1, <2>2
<1> HIDE DEF q
<1> QED
  BY <1>2, <1>3, ServedInTurn

LEMMA ExitInTurn ==
  ASSUME Placed, Exit, NEW t \in Range(ready)
  PROVE  InTurn(t)
<1> DEFINE q == EndCurrent(Queues)
<1>1. current' = q.current /\ ready' = q.ready
  BY DEF Exit, Become
<1>2. Served(Queues, q, t)
  <2>1. t \in Range(Queues.ready)
    BY DEF Queues
  <2> QED
    BY <2>1, PlacedQueues, EndServes
<1> HIDE DEF q
<1> QED
  BY <1>1, <1>2, ServedInTurn

(* An unknown call takes two from in front of t, if t is not the first.    *)
LEMMA UnknownInTurn ==
  ASSUME Placed, UnknownCall, NEW t \in Range(ready)
  PROVE  InTurn(t)
<1> DEFINE S == Used \ (Range(waiting) \union {current})
           q == EndCurrent(Queues)
           r == RoundRobin(q)
<1>1. current' = r.current /\ ready' = r.ready
  BY DEF UnknownCall, Become
<1>2. t \in Range(Queues.ready) /\ Queues.ready = ready
  BY DEF Queues
<1>3. Queued(q, S \ {q.current}) /\ q.current \notin S \ {q.current}
  BY PlacedQueues, EndQueued
<1>4. Served(Queues, q, t) /\ q.current = Head(ready)
  BY <1>2, PlacedQueues, EndServes
<1> HIDE DEF S, q
<1>5. CASE t = q.current
  BY <1>4, <1>5 DEF InTurn
<1>6. CASE t # q.current
  <2>1. t \in Range(q.ready)
    BY <1>4, <1>6 DEF Served
  <2>2. Served(q, r, t)
    BY <1>3, <2>1, RoundRobinServes
  <2> HIDE DEF r
  <2>3. Served(Queues, r, t)
    BY <1>4, <1>6, <2>2 DEF Served
  <2> QED
    BY <1>1, <2>3, ServedInTurn
<1> QED
  BY <1>5, <1>6

(* A new thread goes to the head of the queue. *)
LEMMA NewInTurn ==
  ASSUME Placed, ~TimerIrq, NewThread, free # <<>>, NEW t \in Range(ready)
  PROVE  InTurn(t)
<1> DEFINE h == Head(free)
<1>1. ready' = <<h>> \o ready
  BY DEF NewThread
<1>2. h \in Threads \ Used /\ Used' = Used \union {h}
  BY NewThreadPlaced
<1>3. ready \in Seq(Threads) /\ IsInjective(ready) /\ Range(ready) \subseteq Used
  BY DEF Placed, Queued, QueueRecords, Queues
<1> HIDE DEF h
<1>4. h \notin Range(ready)
  BY <1>2, <1>3
<1>5. InFront(ready', t) = InFront(ready, t) \union {h}
  BY <1>1, <1>2, <1>3, <1>4, InFrontFirst
<1>6. t \in Range(ready')
  <2> DEFINE first == <<h>>
  <2>1. first \in Seq(Threads) /\ IsInjective(first) /\ Range(first) = {h}
    BY <1>2, SingleQueue
  <2>2. ready' = first \o ready
    BY <1>1
  <2> HIDE DEF first
  <2>3. Range(first) \intersect Range(ready) = {}
    BY <1>4, <2>1
  <2>4. Range(first \o ready) = Range(first) \union Range(ready)
    BY <1>3, <2>1, <2>3, ConcatQueues
  <2> QED
    BY <2>2, <2>4
<1> QED
  BY <1>2, <1>5, <1>6, WaitsInTurn

(* Who is handed a character goes to the end of the queue. *)
LEMMA UartInTurn ==
  ASSUME Placed, ~TimerIrq, UartIrq, NEW t \in Range(ready)
  PROVE  InTurn(t)
<1>1. ready \in Seq(Threads) /\ IsInjective(ready)
  BY DEF Placed, Queued, QueueRecords, Queues
<1>2. CASE waiting = <<>>
  <2>1. ready' = ready
    BY <1>2 DEF UartIrq
  <2> QED
    BY <2>1, WaitsInTurn
<1>3. CASE waiting # <<>>
  <2> DEFINE w == Head(waiting)
  <2>1. ready' = Append(ready, w)
    BY <1>3 DEF UartIrq
  <2>2. w \in Range(waiting)
    BY <1>3, TailQueue DEF Placed
  <2>3. /\ Range(waiting) \subseteq Threads
        /\ Range(ready) \subseteq Used \ Range(waiting)
    BY PlacedQueues DEF Placed, Queued, Queues
  <2> HIDE DEF w
  <2>4. w \in Threads /\ w \notin Range(ready)
    BY <2>2, <2>3
  <2>5. InFront(ready', t) = InFront(ready, t)
    BY <1>1, <2>1, <2>4, InFrontAppend
  <2>6. t \in Range(ready')
    BY <1>1, <2>1, <2>4, AppendQueue
  <2> QED
    BY <2>5, <2>6, WaitsInTurn
<1> QED
  BY <1>2, <1>3

LEMMA StepInTurn ==
  ASSUME Placed, Booted, Next, NEW t \in Range(ready)
  PROVE  InTurn(t)
<1>1. CASE TimerIrq
  BY <1>1, TimerInTurn
<1>2. CASE ~TimerIrq
  <2>1. CASE UartIrq
    BY <1>2, <2>1, UartInTurn
  <2>2. CASE StartShell
    <3>1. free # <<>> /\ NewThread
      BY <2>2, BootedRuns DEF StartShell
    <3> QED
      BY <1>2, <3>1, NewInTurn
  <2>3. ASSUME NEW flags \in Flags, Exec(flags) PROVE InTurn(t)
    BY <1>2, <2>3, NewInTurn DEF Exec
  <2>4. CASE ExecRefused \/ GetChar
    <3>1. ready' = ready
      BY <2>4 DEF ExecRefused, GetChar, kernelVars
    <3> QED
      BY <1>2, <3>1, WaitsInTurn
  <2>5. CASE Sleep \/ WaitForChar
    BY <2>5, LeaveInTurn
  <2>6. CASE Exit
    BY <2>6, ExitInTurn
  <2>7. CASE UnknownCall
    BY <2>7, UnknownInTurn
  <2> QED
    BY <1>2, <2>1, <2>2, <2>3, <2>4, <2>5, <2>6, <2>7 DEF Next
<1> QED
  BY <1>1, <1>2

(* A ready thread keeps its turn: only threads that are created come in    *)
(* front of it, and each time slice brings it forward, for any number of   *)
(* threads; the one exception is the thread that is first when another     *)
(* makes an unknown call (scheduler_round_robin, scheduler.h:138-147;      *)
(* exceptions.c:131-132).                                                  *)
THEOREM ReadyThreadsKeepTheirTurn == Spec => FirstComeFirstServed
<1> DEFINE AllInTurn == \A t \in Range(ready) : InTurn(t)
<1>1. Placed /\ Booted /\ [Next]_vars => [AllInTurn]_vars
  BY StepInTurn
<1>2. [AllInTurn]_vars =>
        [\A t \in Range(ready) :
           \/ t = current'
           \/ /\ t \in Range(ready')
              /\ Ahead(t)' \subseteq Ahead(t) \union (Used' \ Used)
              /\ TimerIrq => Ahead(t)' # Ahead(t)
           \/ UnknownCall /\ t = Head(ready)]_vars
  BY DEF InTurn
<1> HIDE DEF AllInTurn
<1> QED
  BY <1>1, <1>2, PlacesAreKept, PTL DEF Spec, FirstComeFirstServed

=============================================================================
