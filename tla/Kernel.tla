------------------------------- MODULE Kernel -------------------------------
(***************************************************************************)
(* The running kernel: the scheduler with its queues, the interrupts, the  *)
(* system calls, exception() and the process table.                        *)
(*                                                                         *)
(* The scheduler, the trampolines and the UART buffer come as an object    *)
(* file (out/e4.o) with the contract of include/scheduler.h, exceptions.h  *)
(* and uart.h; what is modelled here is what that code does with the       *)
(* callbacks of src/scheduler and src/system and with the calls            *)
(* exception() makes.  Interrupts are masked in the kernel, so that every  *)
(* call and every interrupt is one step; between two steps any thread, and *)
(* the idle thread, can be interrupted.                                    *)
(*                                                                         *)
(* The programs that run are left open: a user thread makes any of Calls,  *)
(* at any time.                                                            *)
(***************************************************************************)
EXTENDS Processes, Sequences, Functions

CONSTANTS
  Calls,      \* what user threads do, of AllCalls
  RingSize,   \* slots of the UART's ring buffer, 32
  MaxCycles,  \* bound: the longest sleep asked for
  MaxChars    \* bound: characters that arrive at the UART

(* EXIT stands also for an abort in user mode, which ends the thread alike. *)
AllCalls == {"EXIT", "EXEC", "GETC", "SLEEP", "UNKNOWN"}

ASSUME KernelAssumption ==
  /\ Calls \subseteq AllCalls
  /\ RingSize \in Nat \ {0}
  /\ MaxCycles \in Nat /\ MaxChars \in Nat

VARIABLES
  current,   \* the thread that runs
  free,      \* ids that can be given to new threads
  ready,     \* threads that wait for the processor
  waiting,   \* threads that wait for a character
  sleeping,  \* threads that sleep
  cycles,    \* for a thread that sleeps, the ticks it will still sit out
  arrived,   \* how many characters have arrived: each has its number
  slots,     \* the slots of the ring buffer, each with a character or 0
  head,      \* how many characters have been stored in the ring
  tail,      \* how many have been taken from it
  given      \* the character that was handed to a thread last, 0 for none

ringVars == <<slots, head, tail>>
charVars == <<waiting, arrived, ringVars, given>>
kernelVars == <<current, free, ready, sleeping, cycles, charVars>>
vars == <<processVars, kernelVars>>

(* timer_start() has returned to init(). *)
Init ==
  /\ ProcessInit
  /\ current = InitThread
  /\ free = [i \in 1 .. MAX_THREADS - 1 |-> i]
  /\ ready = <<>> /\ waiting = <<>> /\ sleeping = <<>>
  /\ cycles = [t \in Threads |-> 0]
  /\ arrived = 0 /\ given = 0
  /\ slots = [k \in 0 .. RingSize - 1 |-> 0]
  /\ head = 0 /\ tail = 0

-----------------------------------------------------------------------------
(* The scheduler's queues, as one value that its functions pass on.        *)

Queues == [current |-> current, ready |-> ready,
           sleeping |-> sleeping, cycles |-> cycles]

Become(q) ==
  /\ current' = q.current
  /\ ready' = q.ready
  /\ sleeping' = q.sleeping
  /\ cycles' = q.cycles

(* The members of S in a queue, in their order.  (This is SelectSeq, by    *)
(* their ranks: SelectSeq is recursive, and nothing is proved about that.) *)
Those(queue, S) ==
  LET places == {i \in DOMAIN queue : queue[i] \in S}
      Rank(i) == Cardinality({j \in places : j <= i})
  IN  IF queue = <<>> THEN <<>>
      ELSE [k \in 1 .. Cardinality(places) |-> queue[CHOOSE i \in places : Rank(i) = k]]

(* Who has sat out its cycles, and is woken by the next tick if it sleeps. *)
Rested(q) == {t \in Threads : q.cycles[t] = 0}

(* Mutants of Tick: the cycles of a woken thread are lowered too; cycles   *)
(* are not lowered at all; a woken thread goes in front of those that are  *)
(* ready.                                                                  *)
TickUnderflows(q) ==
  [q EXCEPT
    !.ready    = @ \o Those(q.sleeping, Rested(q)),
    !.sleeping = Those(@, Threads \ Rested(q)),
    !.cycles   = [t \in Threads |-> IF t \in Range(q.sleeping) THEN @[t] - 1 ELSE @[t]]]

TickForgets(q) ==
  [q EXCEPT
    !.ready    = @ \o Those(q.sleeping, Rested(q)),
    !.sleeping = Those(@, Threads \ Rested(q))]

TickFirst(q) ==
  [q EXCEPT
    !.ready    = Those(q.sleeping, Rested(q)) \o @,
    !.sleeping = Those(@, Threads \ Rested(q)),
    !.cycles   = [t \in Threads |-> IF t \in Rested(q) THEN 0 ELSE @[t] - 1]]

(* A tick: who has sat out its cycles becomes ready, in the order in which *)
(* the threads fell asleep; the others have one cycle less to go.          *)
Tick(q) ==
  [q EXCEPT
    !.ready    = @ \o Those(q.sleeping, Rested(q)),
    !.sleeping = Those(@, Threads \ Rested(q)),
    !.cycles   = [t \in Threads |-> IF t \in Rested(q) THEN 0 ELSE @[t] - 1]]

(* The processor goes to the first ready thread, or to the idle thread.    *)
Dispatch(q) ==
  IF q.ready = <<>>
  THEN [q EXCEPT !.current = Idle]
  ELSE [q EXCEPT !.current = Head(q.ready), !.ready = Tail(@)]

(* Mutant of Requeue: the thread that ran becomes the first one ready, as  *)
(* a new thread does.                                                      *)
RequeueFirst(q) ==
  IF q.current = Idle
  THEN Dispatch(q)
  ELSE Dispatch([q EXCEPT !.ready = <<q.current>> \o @])

(* The thread that ran becomes the last one ready, and the next one runs.  *)
Requeue(q) ==
  IF q.current = Idle
  THEN Dispatch(q)
  ELSE Dispatch([q EXCEPT !.ready = Append(@, q.current)])

(* scheduler_round_robin. *)
RoundRobin(q) == Requeue(Tick(q))

(* Mutant of EndCurrent: the thread that ended is put back. *)
EndReadies(q) == RoundRobin(q)

(* scheduler_end_current_thread, which ticks as a time slice does. *)
EndCurrent(q) == Dispatch(Tick(q))

-----------------------------------------------------------------------------
(* Interrupts. *)

(* The timer: the thread that runs is preempted.  (The next queues are     *)
(* RoundRobin(Queues).  They are bound by \E, step by step: in a fair      *)
(* action TLC would compute a LET or an argument anew wherever it is used.) *)
TimerIrq ==
  \E s \in {Queues} : \E r \in {Tick(s)} : \E q \in {Requeue(r)} :
  /\ Become(q)
  /\ userdata' = OnSchedule(userdata, thread_process_arr, current, q.current)
  /\ UNCHANGED <<thread_process_arr, reserved, threads_active, scheduler_pid>>
  /\ UNCHANGED <<free, charVars>>

(* The ring as the call finds it, or as it is after a character was stored. *)
Ring == [slots |-> slots, head |-> head, tail |-> tail]
Empty(r) == r.head = r.tail
Oldest(r) == r.slots[r.tail % RingSize]

(* uart_handle_irq: a character is dropped when more than RingSize wait,   *)
(* so that one more than there are slots is stored, over the oldest.       *)
StoredIn(r, c) ==
  IF r.head - r.tail > RingSize
  THEN r
  ELSE [r EXCEPT !.slots[r.head % RingSize] = c, !.head = @ + 1]

RingBecomes(r) ==
  /\ slots' = r.slots
  /\ head' = r.head
  /\ tail' = r.tail

(* Mutant of Takes: uart_peekc for uart_getc. *)
Peeks(r) ==
  /\ given' = Oldest(r)
  /\ RingBecomes(r)

(* uart_getc, for a thread that gets the character. *)
Takes(r) ==
  /\ given' = Oldest(r)
  /\ RingBecomes([r EXCEPT !.tail = @ + 1])

(* Mutant of UartIrq: a character is stored and nobody is told, as after an *)
(* exception_on_uart_irq() that returns 1.                                 *)
UartIrqSilent ==
  /\ arrived < MaxChars
  /\ arrived' = arrived + 1
  /\ RingBecomes(StoredIn(Ring, arrived + 1))
  /\ UNCHANGED <<processVars, current, free, ready, waiting, sleeping, cycles, given>>

(* The UART: a character is stored; exception_on_uart_irq() returns 0, so  *)
(* that the oldest character goes to the thread that waited longest.       *)
UartIrq ==
  LET stored == StoredIn(Ring, arrived + 1) IN
  /\ arrived < MaxChars
  /\ arrived' = arrived + 1
  /\ IF waiting = <<>>
     THEN /\ RingBecomes(stored)
          /\ UNCHANGED <<ready, waiting, given>>
     ELSE /\ Takes(stored)
          /\ waiting' = Tail(waiting)
          /\ ready' = Append(ready, Head(waiting))
  /\ UNCHANGED <<processVars, current, free, sleeping, cycles>>

-----------------------------------------------------------------------------
(* System calls. *)

Used == Threads \ Range(free)

(* Thread 0 is still init(): user threads have a process. *)
InitRuns == current = InitThread /\ thread_process_arr[InitThread] = None
UserRuns == current \in Used /\ ~InitRuns

(* scheduler_new_thread: the new thread is the first one ready. *)
NewThread ==
  /\ ready' = <<Head(free)>> \o ready
  /\ free' = Tail(free)
  /\ UNCHANGED <<current, sleeping, cycles, charVars>>

(* The last statement of init(). *)
StartShell ==
  /\ InitRuns /\ ShellThread \notin Used
  /\ OnCreate(Head(free), "PARENT")
  /\ NewThread

Exec(flags) ==
  /\ "EXEC" \in Calls
  /\ UserRuns
  /\ free # <<>>
  /\ OnCreate(Head(free), flags)
  /\ NewThread

(* scheduler_on_create refused: the id goes back to where it came from. *)
ExecRefused ==
  /\ "EXEC" \in Calls
  /\ UserRuns
  /\ free # <<>>
  /\ NoProcessLeft
  /\ UNCHANGED kernelVars

(* Mutant of LeaveProcessor: scheduler_on_schedule is not called. *)
LeaveUnmapped(q) ==
  /\ Become(q)
  /\ UNCHANGED processVars

(* The thread that runs is taken off the processor, which goes to next. *)
LeaveProcessor(q) ==
  /\ Become(q)
  /\ userdata' = OnSchedule(userdata, thread_process_arr, current, q.current)
  /\ UNCHANGED <<thread_process_arr, reserved, threads_active, scheduler_pid>>

(* SLEEP.  For 0 cycles it returns at once. *)
Sleep ==
  LET q == Dispatch(Queues) IN
  /\ "SLEEP" \in Calls
  /\ UserRuns
  /\ \E c \in 1 .. MaxCycles :
       LeaveProcessor([q EXCEPT !.sleeping = Append(@, current),
                                !.cycles[current] = c])
  /\ UNCHANGED <<free, charVars>>

(* GETC when a character is there. *)
GetChar ==
  /\ "GETC" \in Calls
  /\ UserRuns
  /\ ~Empty(Ring)
  /\ Takes(Ring)
  /\ UNCHANGED <<processVars, current, free, ready, waiting, sleeping, cycles, arrived>>

(* GETC when there is none. *)
WaitForChar ==
  /\ "GETC" \in Calls
  /\ UserRuns
  /\ Empty(Ring)
  /\ LeaveProcessor(Dispatch(Queues))
  /\ waiting' = Append(waiting, current)
  /\ UNCHANGED <<free, arrived, ringVars, given>>

(* start_usr() never ends; init() ends once it has started the shell. *)
MayEnd ==
  \/ InitRuns /\ ShellThread \in Used
  \/ "EXIT" \in Calls /\ UserRuns /\ current # ShellThread

(* EXIT, and E_PABT and E_DABT of exception() for a user thread. *)
Exit ==
  LET q == EndCurrent(Queues) IN
  /\ MayEnd
  /\ OnExit(current)
  /\ Become(q)
  /\ userdata' = OnSchedule(userdata, thread_process_arr', current, q.current)
  /\ free' = Append(free, current)
  /\ UNCHANGED charVars

(* E_SWI of exception(), default case: the thread ends, which gives the    *)
(* processor to another one, and then that one gives it up unused.         *)
UnknownCall ==
  LET q == EndCurrent(Queues)
      r == RoundRobin(q)
  IN
  /\ "UNKNOWN" \in Calls
  /\ UserRuns /\ current # ShellThread
  /\ OnExit(current)
  /\ Become(r)
  /\ userdata' =
       OnSchedule(OnSchedule(userdata, thread_process_arr', current, q.current),
                  thread_process_arr', q.current, r.current)
  /\ free' = Append(free, current)
  /\ UNCHANGED charVars

-----------------------------------------------------------------------------

Next ==
  \/ TimerIrq
  \/ UartIrq
  \/ StartShell
  \/ \E flags \in Flags : Exec(flags)
  \/ ExecRefused
  \/ Sleep
  \/ GetChar
  \/ WaitForChar
  \/ Exit
  \/ UnknownCall

Spec == Init /\ [][Next]_vars

-----------------------------------------------------------------------------

(* Queues hold ids of threads, the ring characters that arrived; a sleeper *)
(* has no fewer than 0 and no more cycles to go than it asked for, however *)
(* many ticks a call brings; tail never passes head, nor head tail by more *)
(* than the one character too many.                                        *)
TypeOK ==
  /\ current \in Threads \union {Idle}
  /\ {free, ready, waiting, sleeping} \subseteq Seq(Threads)
  /\ cycles \in [Threads -> 0 .. MaxCycles]
  /\ arrived \in 0 .. MaxChars
  /\ slots \in [0 .. RingSize - 1 -> 0 .. arrived]
  /\ given \in 0 .. arrived
  /\ head \in 0 .. arrived /\ tail \in 0 .. head
  /\ head - tail <= RingSize + 1

(* How often a thread is in a queue. *)
Times(t, queue) == Cardinality({i \in DOMAIN queue : queue[i] = t})

(* Every thread is in one place and there once: no id is given out twice,  *)
(* no thread is run twice in a round, and none is lost between two queues, *)
(* also where a call and a tick move several threads at once.              *)
OnePlace ==
  \A t \in Threads :
    Times(t, free) + Times(t, ready) + Times(t, waiting) + Times(t, sleeping)
      + (IF t = current THEN 1 ELSE 0) = 1

(* No thread waits for a character that is already there: what a GETC      *)
(* found and what an interrupt stored in between cannot miss each other.   *)
NoLostWakeup == waiting # <<>> => Empty(Ring)

(* The scheduler of this module is one that ProcessTable.tla asks for. *)
Table == INSTANCE ProcessTable WITH used <- Used
ImplementsProcessTable == Table!Spec

(* Who is in a queue in front of t. *)
InFront(queue, t) ==
  LET places == {i \in DOMAIN queue : \E j \in DOMAIN queue : i < j /\ queue[j] = t}
  IN  {queue[i] : i \in places}

Ahead(t) == InFront(ready, t)

(* Ready threads are served in their turn: until one has the processor it  *)
(* stays in the queue, nobody gets in front of it but threads that are     *)
(* created (scheduler_new_thread), not even one that wakes or gets a       *)
(* character in the same step, and each time slice takes one from in front *)
(* of it (scheduler_round_robin).  Only the thread that would be next can  *)
(* lose its turn, when another one makes an unknown call                   *)
(* (exceptions.c:131-132).                                                 *)
FirstComeFirstServed ==
  [][\A t \in Range(ready) :
       \/ t = current'
       \/ /\ t \in Range(ready')
          /\ Ahead(t)' \subseteq Ahead(t) \union (Used' \ Used)
          /\ TimerIrq => Ahead(t)' # Ahead(t)
       \/ UnknownCall /\ t = Head(ready)]_vars

(* A thread that is ready or sleeps runs again, whatever the others call:  *)
(* new threads go in front of it, but the ids for them run out; a sleeper  *)
(* is woken, as ticks go on.  Only if threads end by unknown calls for     *)
(* ever can it be passed over for ever: each takes the processor from the  *)
(* thread that would have run (exceptions.c:131-132).                      *)
RunsAgain ==
  \/ []<><<UnknownCall>>_vars
  \/ \A t \in Threads : t \in Range(ready) \union Range(sleeping) ~> t = current

=============================================================================
