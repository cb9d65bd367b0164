------------------------ MODULE KernelHistoryProofs -------------------------
(***************************************************************************)
(* What the histories of the kernel show, for any number of threads and    *)
(* characters, sleeps of any length and a ring of any size: characters     *)
(* leave in the order in which they came, and a sleep is shortened by the  *)
(* ends of other threads only, and by no more than they account for.       *)
(***************************************************************************)
EXTENDS KernelHistory, SleepHistory, KernelProofs

-----------------------------------------------------------------------------
(* A history changes nothing: what holds of the kernel holds here.         *)

LEMMA HistoryStep == [HistoryNext]_<<vars, overfull>> => [Next]_vars
  BY DEF HistoryNext

LEMMA SleepersStep == [SleepersNext]_<<vars, sleepVars>> => [Next]_vars
  BY DEF SleepersNext, Ticks, Next

-----------------------------------------------------------------------------
(* Positions in the ring. *)

LEMMA Quotient ==
  ASSUME NEW a \in Nat
  PROVE  /\ a = RingSize * (a \div RingSize) + (a % RingSize)
         /\ a \div RingSize \in Nat /\ a % RingSize \in Nat
  BY KernelAssumption

LEMMA Multiple ==
  ASSUME NEW q \in Int, q >= 1
  PROVE  RingSize * q >= RingSize
  BY KernelAssumption

(* Characters less than RingSize apart have slots of their own.            *)
LEMMA SlotsApart ==
  ASSUME NEW a \in Nat, NEW b \in Nat, a < b, b - a < RingSize
  PROVE  a % RingSize # b % RingSize
<1> SUFFICES ASSUME a % RingSize = b % RingSize PROVE FALSE
  OBVIOUS
<1> DEFINE x == a \div RingSize
           y == b \div RingSize
<1>1. /\ a = RingSize * x + (a % RingSize) /\ b = RingSize * y + (b % RingSize)
      /\ x \in Int /\ y \in Int /\ a % RingSize \in Int
  BY Quotient
<1> HIDE DEF x, y
<1>2. b - a = RingSize * y - RingSize * x
  BY <1>1, KernelAssumption
<1>3. RingSize * y - RingSize * x = RingSize * (y - x)
  BY <1>1, KernelAssumption
<1>4. CASE y - x >= 1
  BY <1>1, <1>2, <1>3, <1>4, Multiple, KernelAssumption
<1>5. CASE y - x <= 0
  <2>1. RingSize * (y - x) <= 0
    BY <1>1, <1>5, KernelAssumption
  <2> QED
    BY <1>2, <1>3, <2>1
<1> QED
  BY <1>1, <1>4, <1>5

-----------------------------------------------------------------------------
(* Characters keep their order. *)

(* How many characters nobody has taken. *)
Waits == head - tail

(* The unread characters are those that arrived last, in their order.      *)
Ordered ==
  \A k \in 1 .. Waits : slots[(tail + k - 1) % RingSize] = arrived - Waits + k

(* The inductive invariant. *)
CharsInv ==
  /\ overfull \in {"never", "before", "now"}
  /\ Waits > RingSize => overfull = "now"
  /\ overfull # "now" => Ordered /\ given <= arrived - Waits
  /\ overfull = "never" => given = arrived - Waits

LEMMA RingNumbers ==
  ASSUME RingTyped
  PROVE  /\ head \in Nat /\ tail \in Nat /\ arrived \in Nat /\ given \in Nat
         /\ RingSize \in Nat /\ RingSize >= 1
         /\ Waits \in Nat /\ Waits <= RingSize + 1
         /\ head = tail + Waits
         /\ given <= arrived
         /\ Waits <= arrived
  BY KernelAssumption DEF RingTyped, Waits

LEMMA CharsInvMeaning ==
  ASSUME RingTyped, CharsInv
  PROVE  CharsInOrder
<1>1. Waits \in Nat /\ arrived \in Nat
  BY RingNumbers
<1>2. Unread = [k \in 1 .. Waits |-> slots[(tail + k - 1) % RingSize]]
  BY DEF Unread, Waits
<1>3. Len(Unread) = Waits
  BY <1>1, <1>2
<1>4. Ordered => Unread = [k \in 1 .. Len(Unread) |-> arrived - Len(Unread) + k]
  BY <1>2, <1>3 DEF Ordered
<1> QED
  BY <1>3, <1>4 DEF CharsInOrder, CharsInv

LEMMA CharsInit == HistoryInit => CharsInv
<1> SUFFICES ASSUME HistoryInit PROVE CharsInv
  OBVIOUS
<1>1. Waits = 0 /\ arrived = 0 /\ given = 0 /\ overfull = "never"
  BY DEF HistoryInit, Init, Waits
<1> QED
  BY <1>1, KernelAssumption DEF CharsInv, Ordered

(* A step that leaves the ring alone. *)
LEMMA CharsStutter ==
  ASSUME RingTyped, CharsInv, UNCHANGED <<arrived, slots, given, head, tail>>, WatchRing
  PROVE  CharsInv'
<1>1. Waits' = Waits /\ (Ordered' <=> Ordered)
  BY DEF Waits, Ordered
<1>2. /\ Waits \in Nat /\ arrived \in Nat /\ given <= arrived
      /\ head = tail <=> Waits = 0
  BY RingNumbers
<1>3. Waits = 0 => Ordered
  BY DEF Ordered
<1>4. overfull' = IF Waits > RingSize THEN "now"
                  ELSE IF overfull = "now" /\ Waits = 0 THEN "before"
                  ELSE overfull
  BY <1>2 DEF WatchRing, Waits
<1> QED
  BY <1>1, <1>2, <1>3, <1>4 DEF CharsInv

(* A character is stored and nobody waits for it.                          *)
LEMMA CharsStored ==
  ASSUME RingTyped, CharsInv, UartIrq, waiting = <<>>, WatchRing
  PROVE  CharsInv'
<1> DEFINE r == StoredIn(Ring, arrived + 1)
<1>1. /\ arrived' = arrived + 1 /\ given' = given
      /\ slots' = r.slots /\ head' = r.head /\ tail' = r.tail
  BY DEF UartIrq, RingBecomes
<1>2. /\ r.tail = tail
      /\ IF Waits > RingSize
         THEN r.head = head /\ r.slots = slots
         ELSE /\ r.head = head + 1
              /\ r.slots = [slots EXCEPT ![head % RingSize] = arrived + 1]
  BY StoredFields DEF Waits
<1> HIDE DEF r
<1>3. /\ head \in Nat /\ tail \in Nat /\ arrived \in Nat /\ given \in Nat
      /\ RingSize \in Nat /\ RingSize >= 1
      /\ Waits \in Nat /\ Waits <= RingSize + 1 /\ head = tail + Waits
  BY RingNumbers
<1>4. CASE Waits > RingSize
  <2>1. Waits' = Waits
    BY <1>1, <1>2, <1>4 DEF Waits
  <2>2. overfull' = "now"
    BY <1>4, <2>1 DEF WatchRing, Waits
  <2> QED
    BY <2>2 DEF CharsInv
<1>5. CASE Waits = RingSize
  <2>1. Waits' = RingSize + 1
    BY <1>1, <1>2, <1>3, <1>5 DEF Waits
  <2>2. overfull' = "now"
    BY <1>3, <2>1 DEF WatchRing, Waits
  <2> QED
    BY <2>2 DEF CharsInv
<1>6. CASE Waits < RingSize
  <2>1. /\ head' = head + 1 /\ tail' = tail
        /\ slots' = [slots EXCEPT ![head % RingSize] = arrived + 1]
        /\ Waits' = Waits + 1
    BY <1>1, <1>2, <1>3, <1>6 DEF Waits
  <2>2. overfull' = overfull
    BY <1>3, <1>6, <2>1 DEF WatchRing, Waits
  <2>3. ASSUME Ordered PROVE Ordered'
    <3> SUFFICES \A k \in 1 .. Waits + 1 :
                   slots'[(tail + k - 1) % RingSize] = (arrived + 1) - (Waits + 1) + k
      <4>1. Waits' = Waits + 1 /\ tail' = tail /\ arrived' = arrived + 1
        BY <1>1, <2>1
      <4> QED
        BY <4>1 DEF Ordered
    <3> TAKE k \in 1 .. Waits + 1
    <3>1. DOMAIN slots = 0 .. RingSize - 1 /\ head % RingSize \in 0 .. RingSize - 1
      BY <1>3, SlotInRing DEF RingTyped
    <3>2. CASE k = Waits + 1
      <4>1. tail + k - 1 = head
        BY <1>3, <3>2
      <4> QED
        BY <1>3, <2>1, <3>1, <3>2, <4>1
    <3>3. CASE k \in 1 .. Waits
      <4>1. /\ tail + k - 1 \in Nat /\ tail + k - 1 < head
            /\ head - (tail + k - 1) < RingSize
        BY <1>3, <1>6, <3>3
      <4>2. (tail + k - 1) % RingSize # head % RingSize
        BY <1>3, <4>1, SlotsApart
      <4>3. slots'[(tail + k - 1) % RingSize] = slots[(tail + k - 1) % RingSize]
        BY <1>3, <2>1, <3>1, <4>1, <4>2, SlotInRing
      <4>4. slots[(tail + k - 1) % RingSize] = arrived - Waits + k
        BY <2>3, <3>3 DEF Ordered
      <4> QED
        BY <1>3, <3>3, <4>3, <4>4
    <3> QED
      BY <1>3, <3>2, <3>3
  <2> QED
    BY <1>1, <1>3, <1>6, <2>1, <2>2, <2>3 DEF CharsInv
<1> QED
  BY <1>3, <1>4, <1>5, <1>6

(* A character goes to the thread that waits for it. *)
LEMMA CharsHandedOver ==
  ASSUME RingTyped, WakeupInv, CharsInv, UartIrq, waiting # <<>>, WatchRing
  PROVE  CharsInv'
<1> DEFINE r == StoredIn(Ring, arrived + 1)
<1>1. /\ arrived' = arrived + 1
      /\ given' = r.slots[r.tail % RingSize]
      /\ slots' = r.slots /\ head' = r.head /\ tail' = r.tail + 1
  BY DEF UartIrq, Takes, RingBecomes, Oldest, StoredIn, Ring
<1>2. /\ head \in Nat /\ tail \in Nat /\ arrived \in Nat
      /\ RingSize \in Nat /\ RingSize >= 1
  BY RingNumbers
<1>3. head = tail
  BY DEF WakeupInv, NoLostWakeup, Empty, Ring
<1>4. /\ r.tail = tail /\ r.head = head + 1
      /\ r.slots = [slots EXCEPT ![head % RingSize] = arrived + 1]
  <2>1. ~(head - tail > RingSize)
    BY <1>2, <1>3
  <2> QED
    BY <2>1, StoredFields
<1> HIDE DEF r
<1>5. given' = arrived + 1
  BY <1>1, <1>2, <1>3, <1>4, SlotInRing DEF RingTyped
<1>6. Waits' = 0
  BY <1>1, <1>2, <1>3, <1>4 DEF Waits
<1>7. overfull' \in {"never", "before"}
  <2>1. head' = tail' /\ ~(head' - tail' > RingSize)
    BY <1>1, <1>2, <1>3, <1>4
  <2> QED
    BY <2>1 DEF WatchRing, CharsInv
<1>8. Ordered'
  BY <1>6 DEF Ordered
<1> QED
  BY <1>1, <1>2, <1>5, <1>6, <1>7, <1>8 DEF CharsInv

(* A GETC takes the oldest character. *)
LEMMA CharsTaken ==
  ASSUME RingTyped, CharsInv, GetChar, RingTyped', WatchRing
  PROVE  CharsInv'
<1>1. /\ head # tail /\ arrived' = arrived
      /\ given' = slots[tail % RingSize]
      /\ slots' = slots /\ head' = head /\ tail' = tail + 1
  BY DEF GetChar, Takes, RingBecomes, Oldest, Empty, Ring
<1>2. /\ head \in Nat /\ tail \in Nat /\ arrived \in Nat
      /\ RingSize \in Nat /\ RingSize >= 1
      /\ Waits \in Nat /\ Waits <= RingSize + 1 /\ head = tail + Waits
  BY RingNumbers
<1>3. Waits >= 1 /\ Waits' = Waits - 1
  BY <1>1, <1>2 DEF Waits
<1>4. ASSUME Ordered
      PROVE  Ordered' /\ given' = arrived' - Waits'
  <2>1. slots[(tail + 1 - 1) % RingSize] = arrived - Waits + 1
    BY <1>2, <1>3, <1>4 DEF Ordered
  <2>2. given' = arrived' - Waits'
    BY <1>1, <1>2, <1>3, <2>1
  <2>3. ASSUME NEW k \in 1 .. Waits - 1
        PROVE  slots[(tail + 1 + k - 1) % RingSize] = arrived - (Waits - 1) + k
    <3>1. k + 1 \in 1 .. Waits
      BY <1>2
    <3>2. slots[(tail + (k + 1) - 1) % RingSize] = arrived - Waits + (k + 1)
      BY <1>4, <3>1 DEF Ordered
    <3> QED
      BY <1>2, <3>2
  <2> QED
    BY <1>1, <1>3, <2>2, <2>3 DEF Ordered
<1>5. overfull' = IF overfull = "now" /\ Waits' = 0 THEN "before" ELSE overfull
  <2>1. ~(Waits' > RingSize)
    BY <1>2, <1>3
  <2> QED
    BY <1>1, <1>2, <1>3, <2>1 DEF WatchRing, Waits
<1>6. Waits' = 0 => Ordered'
  BY DEF Ordered
<1>7. given' <= arrived' /\ given' \in Nat /\ arrived' \in Nat
  BY DEF RingTyped
<1> QED
  BY <1>1, <1>2, <1>3, <1>4, <1>5, <1>6, <1>7 DEF CharsInv

(* The steps of the kernel, by what they do to characters. *)
LEMMA CharsStep ==
  ASSUME Placed, RingTyped, WakeupInv, CharsInv,
         [HistoryNext]_<<vars, overfull>>
  PROVE  CharsInv'
<1> USE DEF charVars, ringVars
<1>1. CASE UNCHANGED <<vars, overfull>>
  <2>1. UNCHANGED <<arrived, slots, given, head, tail, overfull>>
    BY <1>1 DEF vars, kernelVars
  <2>2. Waits' = Waits /\ (Ordered' <=> Ordered)
    BY <2>1 DEF Waits, Ordered
  <2> QED
    BY <2>1, <2>2 DEF CharsInv
<1>2. CASE HistoryNext
  <2>0. WatchRing
    BY <1>2 DEF HistoryNext
  <2>1. CASE UartIrq
    BY <2>0, <2>1, CharsStored, CharsHandedOver
  <2>2. CASE GetChar
    <3>1. RingTyped'
      BY <2>2, GetCharTyped
    <3> QED
      BY <2>0, <2>2, <3>1, CharsTaken
  <2>3. ASSUME UNCHANGED <<arrived, slots, given, head, tail>>
        PROVE  CharsInv'
    BY <2>0, <2>3, CharsStutter
  <2>4. CASE TimerIrq \/ Exit \/ UnknownCall
    BY <2>3, <2>4, TimerTurns DEF Exit, UnknownCall
  <2>5. CASE StartShell \/ (\E flags \in Flags : Exec(flags))
    BY <2>3, <2>5 DEF StartShell, Exec, NewThread
  <2>6. CASE ExecRefused \/ Sleep \/ WaitForChar
    BY <2>3, <2>6 DEF ExecRefused, Sleep, WaitForChar, kernelVars
  <2> QED
    BY <1>2, <2>1, <2>2, <2>4, <2>5, <2>6 DEF HistoryNext, Next
<1> QED
  BY <1>1, <1>2

(* What holds in every state of the kernel with its history. *)
KernelInv == Placed /\ Booted /\ WakeupInv /\ RingTyped

LEMMA KernelInvInit == Init => KernelInv
  BY PlacedInit, BootedInit, WakeupInit, RingTypedInit DEF KernelInv

LEMMA KernelInvStep ==
  ASSUME KernelInv, [Next]_vars
  PROVE  KernelInv'
  BY StepRefines, StepTyped, WakeupStep DEF KernelInv

(* Characters leave the kernel in the order in which they arrived, none    *)
(* twice, and as long as the ring never held one too many none is missing  *)
(* (uart_handle_irq, uart_getc, and exceptions.c:29-32 between them).      *)
THEOREM CharsKeepTheirOrder == HistorySpec => []CharsInOrder
<1>1. HistoryInit => KernelInv /\ CharsInv
  BY KernelInvInit, CharsInit DEF HistoryInit
<1>2. KernelInv /\ CharsInv /\ [HistoryNext]_<<vars, overfull>>
        => (KernelInv /\ CharsInv)'
  <2> SUFFICES ASSUME KernelInv, CharsInv, [HistoryNext]_<<vars, overfull>>
               PROVE  (KernelInv /\ CharsInv)'
    OBVIOUS
  <2>1. [Next]_vars
    BY HistoryStep
  <2>2. KernelInv'
    BY <2>1, KernelInvStep
  <2> QED
    BY <2>2, CharsStep DEF KernelInv
<1>3. KernelInv /\ CharsInv => CharsInOrder
  BY CharsInvMeaning DEF KernelInv
<1> QED
  BY <1>1, <1>2, <1>3, PTL DEF HistorySpec

-----------------------------------------------------------------------------
(* Sleeps are as long as they were asked for. *)

(* The inductive invariant: what a sleeper asked for is what it slept, what*)
(* was taken off, and what it still has to sit out.                        *)
SleepInv ==
  /\ asked \in [Threads -> Int]
  /\ slices \in [Threads -> Int] /\ hurried \in [Threads -> Int]
  /\ \A t \in Range(sleeping) : slices[t] + hurried[t] + cycles[t] = asked[t]

(* After a tick those sleep on that had a cycle to go, with one less.      *)
LEMMA TickSleepers ==
  ASSUME NEW S, NEW q, Queued(q, S)
  PROVE  /\ Range(Tick(q).sleeping) = {t \in Range(q.sleeping) : q.cycles[t] # 0}
         /\ \A t \in Range(Tick(q).sleeping) : Tick(q).cycles[t] = q.cycles[t] - 1
<1>1. /\ q \in QueueRecords /\ IsInjective(q.sleeping)
      /\ q.sleeping \in Seq(Threads)
  BY DEF Queued, QueueRecords
<1>2. Range(q.sleeping) \subseteq Threads
  BY <1>1, RangeOfSeq
<1>3. /\ Tick(q).sleeping = Those(q.sleeping, Threads \ Rested(q))
      /\ Tick(q).cycles = [t \in Threads |-> IF t \in Rested(q) THEN 0 ELSE q.cycles[t] - 1]
  BY <1>1 DEF Tick, QueueRecords
<1>4. Range(Tick(q).sleeping) = Range(q.sleeping) \intersect (Threads \ Rested(q))
  BY <1>1, <1>3, ThoseProperties
<1> QED
  BY <1>2, <1>3, <1>4 DEF Rested

(* The processor goes to another thread: nobody's sleep changes. *)
LEMMA DispatchSleepers ==
  ASSUME NEW q \in QueueRecords
  PROVE  /\ Dispatch(q).sleeping = q.sleeping /\ Dispatch(q).cycles = q.cycles
         /\ EndCurrent(q).sleeping = Tick(q).sleeping
         /\ EndCurrent(q).cycles = Tick(q).cycles
         /\ RoundRobin(q).sleeping = Tick(q).sleeping
         /\ RoundRobin(q).cycles = Tick(q).cycles
  BY DEF Dispatch, EndCurrent, RoundRobin, Requeue, Tick, QueueRecords

(* What ShortenedByEndsOnly says of a step. *)
Slept ==
  \A t \in Range(sleeping) :
    IF t \in Range(sleeping')
    THEN slices'[t] + hurried'[t] <= asked[t]
    ELSE slices'[t] >= asked[t] + 1 - hurried'[t]

LEMMA SleepTypes ==
  ASSUME Placed
  PROVE  /\ Queues \in QueueRecords
         /\ sleeping \in Seq(Threads) /\ Range(sleeping) \subseteq Threads
         /\ \A t \in Threads : cycles[t] \in Nat
<1>1. Queues \in QueueRecords
  BY DEF Placed, Queued
<1>2. sleeping \in Seq(Threads) /\ cycles \in [Threads -> 0 .. MaxCycles]
  BY <1>1 DEF Queues, QueueRecords
<1>3. Range(sleeping) \subseteq Threads
  BY <1>2, RangeOfSeq
<1> QED
  BY <1>1, <1>2, <1>3, KernelAssumption

(* A step brings n ticks of the timer and m others, and wakes the sleepers *)
(* that have sat out their cycles by then.                                 *)
LEMMA TicksSlept ==
  ASSUME Placed, SleepInv, Placed', Remember,
         NEW n \in Nat, NEW m \in Nat,
         slices' = More(slices, n), hurried' = More(hurried, m),
         Range(sleeping') \subseteq Range(sleeping),
         \A t \in Range(sleeping') : cycles'[t] = cycles[t] - (n + m),
         \A t \in Range(sleeping) \ Range(sleeping') : cycles[t] < n + m
  PROVE  SleepInv' /\ Slept
<1>1. Range(sleeping) \subseteq Threads /\ \A t \in Threads : cycles[t] \in Nat
  BY SleepTypes
<1>2. \A t \in Range(sleeping') : cycles'[t] \in Nat
  <2>1. \A t \in Threads : cycles'[t] \in 0 .. MaxCycles
    BY DEF Placed, Queued, QueueRecords, Queues
  <2> QED
    BY <1>1, <2>1, KernelAssumption
<1>3. \A t \in Threads : slices[t] \in Int /\ hurried[t] \in Int /\ asked[t] \in Int
  BY DEF SleepInv
<1>4. \A t \in Range(sleeping) :
        /\ slices'[t] = slices[t] + n /\ hurried'[t] = hurried[t] + m
        /\ asked'[t] = asked[t]
  BY <1>1 DEF More, Remember
<1>5. \A t \in Range(sleeping') : slices'[t] + hurried'[t] + cycles'[t] = asked'[t]
  BY <1>1, <1>3, <1>4 DEF SleepInv
<1>6. slices' \in [Threads -> Int] /\ hurried' \in [Threads -> Int]
  BY <1>3 DEF More
<1>7. asked' \in [Threads -> Int]
  BY <1>1, <1>2, <1>3 DEF Remember
<1>8. Slept
  <2> SUFFICES ASSUME NEW t \in Range(sleeping)
               PROVE  IF t \in Range(sleeping')
                      THEN slices'[t] + hurried'[t] <= asked[t]
                      ELSE slices'[t] >= asked[t] + 1 - hurried'[t]
    BY DEF Slept
  <2>1. /\ slices[t] + hurried[t] + cycles[t] = asked[t]
        /\ slices[t] \in Int /\ hurried[t] \in Int /\ asked[t] \in Int
        /\ cycles[t] \in Nat
        /\ slices'[t] = slices[t] + n /\ hurried'[t] = hurried[t] + m
    BY <1>1, <1>3, <1>4 DEF SleepInv
  <2>2. CASE t \in Range(sleeping')
    <3>1. cycles'[t] \in Nat /\ cycles'[t] = cycles[t] - (n + m)
      BY <1>2, <2>2
    <3> QED
      BY <2>1, <2>2, <3>1
  <2>3. CASE t \notin Range(sleeping')
    <3>1. cycles[t] < n + m
      BY <2>3
    <3> QED
      BY <2>1, <2>3, <3>1
  <2> QED
    BY <2>2, <2>3
<1> QED
  BY <1>5, <1>6, <1>7, <1>8 DEF SleepInv

(* A thread falls asleep; those that sleep already go on. *)
LEMMA FallsAsleep ==
  ASSUME Placed, SleepInv, Sleep, Placed', Remember,
         slices' = More(slices, 0), hurried' = More(hurried, 0)
  PROVE  SleepInv' /\ Slept
<1> PICK c \in 1 .. MaxCycles :
       LeaveProcessor([Dispatch(Queues) EXCEPT !.sleeping = Append(@, current),
                                               !.cycles[current] = c])
  BY DEF Sleep
<1>1. /\ Queues \in QueueRecords /\ Queues.sleeping = sleeping /\ Queues.cycles = cycles
      /\ Range(sleeping) \subseteq Threads /\ \A t \in Threads : cycles[t] \in Nat
      /\ cycles \in [Threads -> 0 .. MaxCycles]
  BY SleepTypes DEF Queues, QueueRecords
<1>2. /\ Dispatch(Queues) \in QueueRecords
      /\ Dispatch(Queues).sleeping = sleeping /\ Dispatch(Queues).cycles = cycles
  <2>1. Queued(Dispatch(Queues),
               (Used \ (Range(waiting) \union {current})) \ {Dispatch(Queues).current})
    BY PlacedQueues, DispatchQueued
  <2> QED
    BY <1>1, <2>1, DispatchSleepers DEF Queued
<1>3. sleeping' = Append(sleeping, current) /\ cycles' = [cycles EXCEPT ![current] = c]
  BY <1>2 DEF LeaveProcessor, Become, QueueRecords
<1>4. current \in Threads /\ current \notin Range(sleeping)
  <2>1. current \in Used
    BY DEF Sleep, UserRuns
  <2> QED
    BY <2>1, PlacedQueues DEF Placed, Queued, Queues
<1>5. Range(sleeping') = Range(sleeping) \union {current}
  BY <1>3, <1>4, AppendQueue, SleepTypes DEF Placed, Queued, Queues
<1>6. \A t \in Threads : slices[t] \in Int /\ hurried[t] \in Int /\ asked[t] \in Int
  BY DEF SleepInv
<1>7. \A t \in Range(sleeping) :
        /\ slices'[t] = slices[t] /\ hurried'[t] = hurried[t]
        /\ asked'[t] = asked[t] /\ cycles'[t] = cycles[t]
  BY <1>1, <1>3, <1>4, <1>6 DEF More, Remember
<1>8. /\ slices'[current] = 0 /\ hurried'[current] = 0
      /\ cycles'[current] = c /\ asked'[current] = c
  BY <1>1, <1>3, <1>4, <1>5 DEF More, Remember
<1>9. \A t \in Range(sleeping') : slices'[t] + hurried'[t] + cycles'[t] = asked'[t]
  BY <1>5, <1>7, <1>8, KernelAssumption DEF SleepInv
<1>10. \A t \in Threads : cycles'[t] \in Int
  BY <1>1, <1>3, KernelAssumption
<1>11. asked' \in [Threads -> Int]
  BY <1>6, <1>10 DEF Remember
<1>12. slices' \in [Threads -> Int] /\ hurried' \in [Threads -> Int]
  BY <1>6 DEF More
<1>13. Slept
  BY <1>1, <1>5, <1>6, <1>7 DEF Slept, SleepInv
<1> QED
  BY <1>9, <1>11, <1>12, <1>13 DEF SleepInv

LEMMA SleepStep ==
  ASSUME Placed, SleepInv, Placed', [SleepersNext]_<<vars, sleepVars>>
  PROVE  SleepInv' /\ (UNCHANGED <<vars, sleepVars>> \/ Slept)
<1> DEFINE S == Used \ (Range(waiting) \union {current})
<1>1. /\ Queued(Queues, S)
      /\ Queues \in QueueRecords /\ Queues.sleeping = sleeping /\ Queues.cycles = cycles
      /\ Range(sleeping) \subseteq Threads /\ \A t \in Threads : cycles[t] \in Nat
  BY SleepTypes DEF Queues, Placed
<1>2. CASE UNCHANGED <<vars, sleepVars>>
  BY <1>2 DEF SleepInv, vars, kernelVars, sleepVars
<1>3. CASE SleepersNext
  <2>0. Remember
    BY <1>3 DEF SleepersNext
  <2>1. CASE Ticks(TimerIrq, 1, 0)
    <3>1. sleeping' = Tick(Queues).sleeping /\ cycles' = Tick(Queues).cycles
      BY <1>1, <2>1, TimerTurns, DispatchSleepers DEF Ticks, Become
    <3>2. /\ Range(sleeping') = {t \in Range(sleeping) : cycles[t] # 0}
          /\ \A t \in Range(sleeping') : cycles'[t] = cycles[t] - 1
      BY <1>1, <3>1, TickSleepers
    <3>3. \A t \in Range(sleeping) \ Range(sleeping') : cycles[t] < 1 + 0
      BY <1>1, <3>2
    <3>4. slices' = More(slices, 1) /\ hurried' = More(hurried, 0)
      BY <2>1 DEF Ticks
    <3> QED
      BY <2>0, <3>2, <3>3, <3>4, TicksSlept
  <2>2. CASE Ticks(Exit, 0, 1)
    <3>1. sleeping' = Tick(Queues).sleeping /\ cycles' = Tick(Queues).cycles
      BY <1>1, <2>2, DispatchSleepers DEF Ticks, Exit, Become
    <3>2. /\ Range(sleeping') = {t \in Range(sleeping) : cycles[t] # 0}
          /\ \A t \in Range(sleeping') : cycles'[t] = cycles[t] - 1
      BY <1>1, <3>1, TickSleepers
    <3>3. \A t \in Range(sleeping) \ Range(sleeping') : cycles[t] < 0 + 1
      BY <1>1, <3>2
    <3>4. slices' = More(slices, 0) /\ hurried' = More(hurried, 1)
      BY <2>2 DEF Ticks
    <3> QED
      BY <2>0, <3>2, <3>3, <3>4, TicksSlept
  <2>3. CASE Ticks(UnknownCall, 0, 2)
    <3> DEFINE q == EndCurrent(Queues)
               r == RoundRobin(q)
    <3>1. /\ Queued(q, S \ {q.current}) /\ q \in QueueRecords
          /\ q.sleeping = Tick(Queues).sleeping /\ q.cycles = Tick(Queues).cycles
      BY <1>1, EndQueued, DispatchSleepers DEF Queued
    <3>2. sleeping' = r.sleeping /\ cycles' = r.cycles
      BY <2>3 DEF Ticks, UnknownCall, Become
    <3> HIDE DEF q
    <3>3. sleeping' = Tick(q).sleeping /\ cycles' = Tick(q).cycles
      BY <3>1, <3>2, DispatchSleepers
    <3>4. /\ Range(q.sleeping) = {t \in Range(sleeping) : cycles[t] # 0}
          /\ \A t \in Range(q.sleeping) : q.cycles[t] = cycles[t] - 1
      BY <1>1, <3>1, TickSleepers
    <3>5. /\ Range(sleeping') = {t \in Range(q.sleeping) : q.cycles[t] # 0}
          /\ \A t \in Range(sleeping') : cycles'[t] = q.cycles[t] - 1
      BY <3>1, <3>3, TickSleepers
    <3>6. /\ Range(sleeping') \subseteq Range(sleeping)
          /\ \A t \in Range(sleeping') : cycles'[t] = cycles[t] - (0 + 2)
          /\ \A t \in Range(sleeping) \ Range(sleeping') : cycles[t] < 0 + 2
      BY <1>1, <3>4, <3>5
    <3>7. slices' = More(slices, 0) /\ hurried' = More(hurried, 2)
      BY <2>3 DEF Ticks
    <3> QED
      BY <2>0, <3>6, <3>7, TicksSlept
  <2>4. CASE Ticks(UartIrq \/ StartShell \/ (\E flags \in Flags : Exec(flags))
                     \/ ExecRefused \/ Sleep \/ GetChar \/ WaitForChar, 0, 0)
    <3>1. slices' = More(slices, 0) /\ hurried' = More(hurried, 0)
      BY <2>4 DEF Ticks
    <3>2. CASE Sleep
      BY <2>0, <3>1, <3>2, FallsAsleep
    <3>3. ASSUME sleeping' = sleeping, cycles' = cycles
          PROVE  SleepInv' /\ Slept
      <4>1. /\ \A t \in Range(sleeping') : cycles'[t] = cycles[t] - (0 + 0)
            /\ \A t \in Range(sleeping) \ Range(sleeping') : cycles[t] < 0 + 0
            /\ Range(sleeping') \subseteq Range(sleeping)
        BY <1>1, <3>3
      <4> QED
        BY <2>0, <3>1, <4>1, TicksSlept
    <3>4. CASE WaitForChar
      <4>1. sleeping' = sleeping /\ cycles' = cycles
        BY <1>1, <3>4, DispatchSleepers DEF WaitForChar, LeaveProcessor, Become
      <4> QED
        BY <3>3, <4>1
    <3>5. CASE UartIrq \/ GetChar \/ ExecRefused
      BY <3>3, <3>5 DEF UartIrq, GetChar, ExecRefused, kernelVars
    <3>6. CASE StartShell \/ (\E flags \in Flags : Exec(flags))
      BY <3>3, <3>6 DEF StartShell, Exec, NewThread
    <3> QED
      BY <2>4, <3>2, <3>4, <3>5, <3>6 DEF Ticks
  <2> QED
    BY <1>3, <2>1, <2>2, <2>3, <2>4 DEF SleepersNext
<1> QED
  BY <1>2, <1>3

LEMMA SleepInit == SleepersInit => SleepInv
<1> SUFFICES ASSUME SleepersInit PROVE SleepInv
  OBVIOUS
<1>1. Range(sleeping) = {}
  BY EmptyQueue DEF SleepersInit, Init
<1> QED
  BY <1>1 DEF SleepersInit, SleepInv

(* Who asked for some cycles sleeps through as many slices of the timer at *)
(* least and one more at most, but for what the ends of threads take off:  *)
(* one tick for an exit, two for an unknown call (scheduler.h:160-162).    *)
THEOREM SleepersSleepTheirSlices == SleepersSpec => ShortenedByEndsOnly
<1>1. SleepersInit => KernelInv /\ SleepInv
  BY KernelInvInit, SleepInit DEF SleepersInit
<1>2. KernelInv /\ SleepInv /\ [SleepersNext]_<<vars, sleepVars>>
        => (KernelInv /\ SleepInv)' /\ [Slept]_<<vars, sleepVars>>
  <2> SUFFICES ASSUME KernelInv, SleepInv, [SleepersNext]_<<vars, sleepVars>>
               PROVE  (KernelInv /\ SleepInv)' /\ [Slept]_<<vars, sleepVars>>
    OBVIOUS
  <2>1. [Next]_vars
    BY SleepersStep
  <2>2. KernelInv'
    BY <2>1, KernelInvStep
  <2> QED
    BY <2>2, SleepStep DEF KernelInv
<1> QED
  BY <1>1, <1>2, PTL DEF SleepersSpec, ShortenedByEndsOnly, Slept

=============================================================================
