# ARMv7-OS in TLA+

A model of the kernel and of the user programs of this repository: a small
operating system for the Raspberry Pi 2 with at most 32 threads in at most 8
processes, an MMU that gives each process its own data and heap section, a heap,
and a shell that starts a process for every key. Paths are relative to `src/`;
the `map` of `PROJECT.json` names the lines behind every definition.

## The system

| part | state | operations | who calls it |
|---|---|---|---|
| process table, `system/process.c` | `thread_process_arr`, `process_array` (`reserved`, `threads_active`, `data_address`) | `process_create`, `process_switch`, `free_process`, `get_process_id` | the callbacks |
| callbacks, `scheduler/scheduler.c` | `scheduler_pid` | `scheduler_on_create`, `_on_exit`, `_on_schedule` | the scheduler |
| scheduler, trampolines, UART, timer, `kprintf`: `out/e4.o` with `include/*.h` | ready, waiting and sleeping queues, cycles, free ids, UART ring; frames on the stacks of exceptions | round robin, sleep, wait, create, end, notify | interrupts, system calls, `exception()` |
| exceptions, `system/exceptions.c` | – | `exception`, `exception_on_uart_irq` | the trampolines, for aborts and unknown calls |
| start, `system/start.c`, `entry.S` | where the stacks lie | `start_kernel`, `init` | reset, then thread 0 |
| memory, `memory/mmu.c` | `L1_TABLE`, TLB | `mmu_init`, `map_userdata_to`, `copy_userdata_template` | `init`, `process_switch`, `process_create` |
| heap, `user/heap.c` | block headers, `first_free_block`, `counter`, flags; one per process | `malloc`, `free` | `malloc_loop` |
| programs, `user/*.c` | `global_counter`, `ptrs` of each process | `start_usr`, `anwendung`, `user_parent_runner`, `child_runner`, `malloc_loop` | threads |
| output, `user/user_kprintf.c` | `buff`, `tmp`, `i`, `j`, `offset` of each process | `usr_kprintf` | programs |

The library handles interrupts and the system calls 0 to 4 itself
(`include/exceptions.h:67-71`) and calls back into `src/scheduler` and
`src/system`. The kernel runs with interrupts masked: a call or an interrupt is
one step. Between two steps any thread, `init()` and the idle thread can be
preempted.

What is hard here: a switch past the idle thread or past a thread without a
process; ids of threads and processes that are given out again; state that is
global to the kernel but belongs to a caller (`scheduler_pid`); a call that is
refused half-way; two switches in one call; characters that arrive while a
thread decides to wait, or more of them than the ring holds; threads of one process
that race on its data, the index of `usr_kprintf` included; stacks that have to be
apart; and long sequences of `malloc` and `free`. `PROJECT.json` lists these as hazards, each at
its line, with the properties aimed at it.

## Modules

| module | models | state and actions |
|---|---|---|
| `Processes` | `process.c` and the three callbacks | the table as functions of thread and process ids; `OnCreate`, `OnExit`, `OnSchedule` are the callbacks. No behaviour of its own |
| `ProcessTable` | the table under any scheduler: an abstract specification | adds `used` and `current`; `Switch`, `Exit`, `UnknownCall` choose the next thread freely |
| `Kernel` | the scheduler with its queues, the UART ring, system calls, `exception()` | one action per system call and interrupt. `ImplementsProcessTable` says that it refines `ProcessTable`, with `used` the threads whose id is not free |
| `KernelHistory` | `Kernel` with a history variable and the fairness of the timer | whether the ring was overfull: needed to state `CharsInOrder` |
| `SleepHistory` | `Kernel` with history variables | what a sleeper asked for and the timer interrupts and other ticks since: needed to state `SleepsInFull` and `ShortenedByEndsOnly` |
| `Mmu` | the layout and the permissions of the translation table | operators only; permissions are sets of AP bits, so that `\|=` is a union |
| `Memory` | `ProcessTable` composed with the table, a TLB and the contents of sections | `Create` copies the data, `Leave` follows the switch, `Store` is a store in user mode, through any entry of the table that lets it |
| `Programs` | the shell and the counting processes on `Kernel` | one action per statement that touches `global_counter` or makes a system call, so that a preemption between load and store is a behaviour |
| `Allocator` | what `malloc` and `free` promise: an abstract specification | `held` and `ask`; `Allocate` gives any block that suits |
| `Heap` | `heap.c` under `malloc_loop` | one memory of words; `malloc` and `free` are operators on it, the program's calls are the actions. `ImplementsAllocator` says that it refines `Allocator` |
| `Output` | `usr_kprintf` under preemption | the global index and, per thread, the copy of it in a register; one action per branch of the loop, with the load and the store of `i++` apart |
| `Stacks` | the stacks of `start_kernel()` and who writes on them | one memory of words; threads push and pop, exceptions push frames |
| `ProcessTableProofs`, `MemoryProofs`, `KernelProofs`, `KernelHistoryProofs`, `ProgramsProofs`, `AllocatorProofs`, `HeapProofs`, `OutputProofs` | theorems on the modules they are named after | – |

`Kernel`, `Memory` and `Programs` extend what they compose. `Output` and `Stacks`
stand alone: `usr_kprintf` shares nothing with the kernel but the fact of being
preempted, and nothing else in the model depends on the words of a stack.

Some choices that are not obvious:

* `process_array[-1]` is read and written by the code (`scheduler.c:13-15`, `:30`,
  `process.c:8`). The constant `Below` says what lies there: memory this code does
  not look at, or the end of `thread_process_arr`, which `process.h:20-21` declares
  just before and which linkers may place so.
* Thread 1 is the shell and `scheduler_on_exit` exempts it; it never ends. Thread 0
  is `init()`, without a process, until it has ended and its id is given out again.
* A new thread goes to the head of the ready queue, an ended thread's id to the end
  of the free ids, and `scheduler_end_current_thread` ticks like a time slice: this is
  what the object file does.
* The ring drops a character only when more than all its slots are in use
  (`out/e4.o`), so that one too many is stored over the oldest one and order is lost
  until the ring is read empty: `CharsInOrder` says so exactly. It is not what
  `uart.h:19-20` says, that the buffer drops a character when it is full; the run reaches
  this case. With 32 slots this takes 33 keys that nobody reads.
* `usr_kprintf` is compiled with `-O2` (`user/Makefile:39`): the compiler keeps `i` in
  a register between two system calls, stores it before each and loads it after it.
  `Output` therefore has both.
* In `Output` a conversion prints its whole text in one step: the digits are computed
  in locals, and nothing that other threads do changes them.
* In `Stacks` the stacks are those of `start.c:14-18`, in units of a stack. The fields of
  `struct stack_setup` are what `kernel_setup` and `scheduler_init` make of them
  (`out/e4.o`): the stack of thread t ends t stacks below `tasks_sp`, aborts use the
  stack of calls.
* The loops of `heap.c` are trails in `Heap`: the addresses that a loop visits under the
  function that takes each to the next, up to the one where it stays. `Trail` bounds
  their length by the section, where the code has no bound: that no loop leaves the
  section or runs for ever under `malloc_loop` is part of what is proved.
* The contents of a section are one value in `Memory` and the one variable
  `global_counter` in `Programs`. `copy_userdata_template` copies 10000 bytes of a section
  (`MB`, `mmu.c:32`, `:99`); the user data that are linked take about 1500, so that the
  value stands for them.
* `Store` goes through the entry of the address, as the core does. `mmu.c:132-148` and
  `:167-168` let user mode write the sections 0, 4, 5 and 8 to 55 at their own addresses,
  so that a store can change the data and the heap of any process: nothing confines the
  stores of a thread to its own process, and no property says so. `heap_overrun` has a
  store of this kind, into the data of process 0. In `Memory` stores go to the data and
  heap sections; what sections 0, 4 and 5 and the stacks hold is not modelled there.
* Headers of blocks that were split or merged away stay in `Heap`'s memory. `ReadView`
  lets TLC identify two states that differ only in words nobody reads: headers are
  only reached from headers, so that the words outside `Live` have no influence on
  any later step until they are written.

## Runs

All were chosen so that the case at stake happens; the bounds are named constants.

| run | result | shows |
|---|---|---|
| `memory` | passes | 4 threads, 3 processes in the table's real layout: `init()`, the shell and processes of several threads coexist, ids are used again, EXEC is refused. The table: `TypeOK`, `Accounting`, `NoProcessLost`, `Isolation`, `FreeThreadsUnattached`, `OwnerStable`. The sections: `MemoryTypeOK`, `OwnSections`, `KernelShielded`, `StartsFromCreator` |
| `kernel` | passes | 4 threads, 2 processes, 4 characters, 2 slots, all calls: threads compete in every queue, the ring takes the one character too many and drops the next. `OnePlace`, `FirstComeFirstServed`, `NoLostWakeup`, `CharsInOrder`, the refinement of `ProcessTable`, and `RunsAgain`: a ready thread runs and a sleeper wakes. New threads overtake, but ids run out, and ticks go on |
| `programs` | passes | 4 threads, 2 characters, `LOOP_LENGTH` 2: `CountedBeforeFreed`, `LowestNeverFalls`, `ProcessesEnd`; calls of EXEC are refused on the way. 2 is the least length at which a stale count can be written over a higher one |
| `heap` | passes | 4 pointers, two sizes and a first one that make rests of 0, 4, 8 and more bytes: `Tiled`, `ReservedIsHeld`, `FreeListComplete`, `Coalesced`, `TopStaysFree`, and the refinement of `Allocator` |
| `output` | passes | two threads of a process, all formats of up to 3 characters with literals, widths and conversions, known and unknown: `PrintsItsFormat`, `AloneStaysInFormat` |
| `sleep_short` | violated | the shell sleeps for one slice, another thread and `init()` end, and it wakes before any timer interrupt (`scheduler.h:160-162`) |
| `refused_exec` | violated | with `Below = "thread_process_arr"` a refused EXEC moves thread 31 to another process |
| `child_joins` | violated | two keys in a row: a child joins the wrong process (`scheduler.c:39`) |
| `heap_overrun` | violated | `malloc` writes behind the section and through a null pointer |
| `heap_counter` | violated | after the counter of `find_next_free` has wrapped a held block is given out |
| `printf_race` | violated | two threads of a process in `usr_kprintf`: one reads on behind the NUL of its format |
| `irq_stack` | violated | an interrupt writes its frame over the stack of thread 1 (`start.c:14`) |

The violations are the findings of `PROJECT.json`, each with the sentence of the
repository that it contradicts.

What some properties say in particular. `RunsAgain` has one exception, which the code
needs: `exception()` ends a thread for an unknown call and then calls round robin as
well (`exceptions.c:131-132`), which puts the thread that got the processor back at the
end of the queue. If threads end so for ever, one can be passed over for ever.
`FirstComeFirstServed` is the part of `RunsAgain` that is about single steps, and has the
same exception: a ready thread stays in the queue until it runs, only threads that are
created get in front of it, and each time slice takes one from there. That an awakened
sleeper or a reader of a character does not overtake is part of it.
`StartsFromCreator` says what `copy_userdata_template` (`mmu.c:98-100`) does: its source
is read through the mapping of the moment, so that a process starts with the variables
of the process that made the call, not with what was linked.
`KernelShielded` is what the permissions do promise: whatever was switched, no entry lets
user mode reach the kernel's code and data (sections 1 to 3, the table among them), nor
write the section of the linked user data. The kernel's own stacks in section 0 are open
to user mode (`mmu.c:156`).
`SleepsInFull` is the sentence of `scheduler.h:160-162`, and the code breaks it: the end
of another thread ticks like a time slice. What is left of the sentence is
`ShortenedByEndsOnly`: each end takes one tick off a sleep, two if it is by an unknown
call, and nothing else does; this is proved only.

A process of the table may be given out again while a thread runs in it: a child joins
`scheduler_pid`, also when the process of that id has been freed (`scheduler.c:38-40`), and
`process_create` then takes it for free and copies over its data. This is the other half of
what `child_joins` shows. `Accounting` and `NoProcessLost` hold all the same, as they
count the threads that joined.

Bounds. `MAX_THREADS` and `MAX_PROCESSES` are small in the runs; the theorems on
`ProcessTable`, `Memory` and `Kernel` hold for any. 4 threads are the least for which
the code's own constants 0 and 1 leave two ids that are given out and used again.
`MaxCycles` and `MaxChars` bound sleeps and characters. `RingSize` is 2, so that 4
characters pass its limit; in `programs` the ring is larger than all characters, as it is
for a user who types less than 33 keys ahead. `PidCap` stops the word that refused calls
raise. `L1_TABLE_SIZE` is 60 rather than 4096: no memory of the program lies in the sections
above 55.
`IntMax` stands for 2^31 - 1; in `heap` the run is shorter than that
(`CounterWraps = FALSE`), and the counter stays at `IntMax`, where only
`counter > Warmup` is asked of it. `RoomAssumption` names what the program sees to: its
array is long enough to use up `Warmup` (64 against 15), and the section has room for all
it holds with a free block that is too small below each, 64 * (2 * 4096 + 24) bytes of
2^20. Then no request is refused; `Allocator` has no refusal, so that the refinement says
so. TLC evaluates the assumption for the constants of each run of `Heap`. In `Output`, `Word` has 8 bits, so that the least int and numbers of one to
three digits are among the arguments; an index from `MaxLen + 2` on reads a NUL.
`Stacks` has three stacks of three words and frames of two: only that a frame is no
longer than a stack (17 words of 256) matters.

`memory` assumes a core that loads a translation only when it is used. With
`SpeculativeWalk = TRUE` a core may load the old entry between the flush and the
write in `map_userdata_to` (`mmu.c:78-80`), and `OwnSections` fails; the hardware
may do so, the emulator does not.

Fairness. `FairSpec` (in `KernelHistory`) has weak fairness of the timer interrupt alone: the timer runs
freely and interrupts are unmasked whenever a thread runs. No thread has to make a
call. `ProgramsSpec` adds strong fairness for each thread but the shell: a thread that
has the processor again and again gets to its next statement, as a time slice is much
longer than a statement. Nobody has to type.

## Why the counting processes end

`ProcessesEnd` is not obvious, since `global_counter++` is a load and a store and a
thread may write back an old count; the counter of a process can fall below
`LOOP_LENGTH` after others have seen it reached, and it can also go well beyond it.
But the least of the counter and of all values still to be stored never falls
(`LowestNeverFalls`; only the parent takes it back, once, when it resets
`global_counter`), and it rises when each thread has stored once more. The first half is
checked and proved, the second needs fairness. `CountedBeforeFreed` is its counterpart for
safety: the last thread leaves only when nobody can lower the counter any more.

## Proofs

For all values of the constants, from the named assumptions of the modules.

**`ProcessTableProofs`**, for `MAX_THREADS >= 4`, `MAX_PROCESSES >= 1` and
`Below = "foreign"` (`~Aliased`): the six properties of the process table. The inductive
invariant is `IInv`: `TypeOK`, `Accounting`, `NoProcessLost`, `FreeThreadsUnattached` and
`Isolation`. None is inductive alone: `threads_active` stays above zero because it counts
threads (`Accounting`), counting needs that a new thread was in no process
(`FreeThreadsUnattached`), and the switch may only skip the mapping because the thread
before saw its own data (`Isolation`).

* `Attach` and `Detach`: how the threads of a process change when one enters or leaves.
* `CreateKeepsTable`, `ExitKeepsTable`: the callbacks keep the table's invariant.
* `ScheduleShows`: `OnSchedule` shows the next thread its own process if the last one
  saw its own; applied twice for `UnknownCall`.
* `InitIInv`, `StepIInv`: initial states and steps; `TableInvariant` and the theorems
  for the single properties follow.

`OwnerStable` is the property that `refused_exec` violates without `~Aliased`: the
assumption is needed.

**`MemoryProofs`**, for at most 8 processes, `~Aliased` and `SpeculativeWalk = FALSE`:
`OwnSections`, `KernelShielded` and `StartsFromCreator`. The invariant adds to `IInv` that
the table has writable entries for the sections of all processes, that the switch has
changed none but two of its entries and that the core goes by those of the process
`userdata` names (`Mapped`), that only `init()` has no process (`Attached`: else a thread
could run that sees nobody's data), and that before the shell runs nothing was
switched (`BeforeShell`: only then does the shell start with what was linked). `Layout`,
`ProcessSectionsWritable` and `KernelSections` say what the ranges of `mmu.c:132-180` come
to; `SwitchKeepsMapped`, `CreateStep` and `LeaveStep` are the steps.

**`MemoryProofs`** also has `MemoryTypeOK`, under the same assumptions. It needs `Fresh`:
what a section holds is a value only once a process has been created in it, so that the
types follow from what the creator's section held (`CreatorHasData`).

**`KernelProofs`**, without further assumption. It starts with what the library's functions on
the queues come to: a queue without repetitions that is cut (`Those`), appended to or
joined with another one is again one, of the threads one expects; so `Tick`, `Dispatch`, `RoundRobin` and `EndCurrent` lose no thread and double
none. The inductive invariant of the kernel is `Placed` (the threads in use are the one
that runs, those that wait and those in the scheduler's queues, each once, and all other
ids are free, each once) and `Booted` (what is known of threads 0 and 1 until `init()`
has ended). From it:

* `OnePlace`, which is `Placed` said by counting.
* `ImplementsProcessTable`: each action of `Kernel` is the step of `ProcessTable` with the
  same callback, or a stutter. `Placed` gives what the abstract steps ask for, that the
  next thread is in use or the idle thread, and that a new id was not in use.
* `KernelKeepsTable`: with the refinement, the theorems of `ProcessTableProofs` hold of the
  kernel's own scheduling; they are cited through `INSTANCE`, under `~Aliased`.
* `TypeOK`, from both.
* `FirstComeFirstServed`, an action property. The lemmas on `InFront` say who is in front of
  a thread in a queue that is cut or joined with another. A tick puts who wakes behind all
  that are ready (`TickWaits`), a time slice and the end of a thread take the first one out
  (`RoundRobinServes`, `EndServes`), and there is one lemma per action (`...InTurn`). All
  rest on `Placed`: a thread that is ready stands in one place of one queue.
* `NoLostWakeup`, by the invariant that who waits finds the ring empty and that head and
  tail are numbers. `UartIrqWakes` is the case that matters: a character that arrives
  while a thread waits is stored in an empty ring, and taken at once.

**`KernelHistoryProofs`**, without further assumption: `CharsInOrder` and
`ShortenedByEndsOnly`. For the first the invariant says that the ring is overfull whenever it
holds more than `RingSize` characters, and that what is unread arrived last, in order;
`SlotsApart` says that characters less than `RingSize` apart do not share a slot. For the
second it relates the cycles left to the slices passed and to what the ends of other
threads took off.

**`ProgramsProofs`**. `ProgramsRunOnKernel`, without further assumption: every step of the
programs is one of `Kernel` or a stutter, so that what is proved of `Kernel` holds under
them. Under `~Aliased`: `ProgramsTypeOK`, `CountedBeforeFreed` and `LowestNeverFalls`. The
invariant is `Counted`: a process whose counter is below `LOOP_LENGTH` has a thread that
goes through the loop once more, namely one that is in it. A thread that stores an old count is such a
thread itself, so that a stale store never leaves a process short. It rests on what
`KernelProofs` has of the threads in use, and on `Accounting`: the thread with which a
process ends is its last. `LowestNeverFalls` needs no more than that: a thread counts in
the data of its own process (`CountsInOwn`), it stays in that process (`OwnerStable`), and
what it stores is above a count that was in play (`StoreNoLower`); a thread that starts, a
child that joins in the middle included, has nothing loaded that it could store
(`StartedNoLower`).

**`OutputProofs`**, without further assumption: `OutputTypeOK`, `PrintsItsFormat` and
`AloneStaysInFormat`, for
any set of threads, formats of any length and words of any size. The invariant `Position`
says of each undisturbed call that what is printed so far are the pieces of the format
up to the index, each with its text. So the index is no further than the NUL, which is
`AloneStaysInFormat`; `printf_race` shows that it may be where threads overlap. `NumeralRight` is what the digits come to: for each
number and base 10 or 16 the loop of `usr_intToStr` makes digits in range, without a
leading zero, whose value is the number. It is an induction over the number. The library's
induction theorems cannot be used here, as they take an operator; instead it is done with the
set of counterexamples and its least element (`LeastNumber`, `FromSmaller`), which
needs sets only, and the functions `Remainders` and `ValueOf` are shown to exist in the
same way (`StepsDefine`).

**`AllocatorProofs`**, for `AllocatorAssumption`: `BlocksApart`, that blocks in hand lie
in the section and overlap nowhere.

**`HeapProofs`**, for `HeapAssumption`, `RoomAssumption` and `~CounterWraps`: all that the
run `heap` checks, for a section, an array and requests of any size. The inductive invariant
`HeapInv` says that once `malloc` was called there is a set of blocks with

* `Laid`: they tile the section (`Tiles`: neighbours have each other's addresses, by size
  and by `prev_size`), no two free ones touch (`Settled`), every free one links to the next
  (`Linked`), `first_free_block` is the first of them, and the top block is free;
* `Keeps`: those that are not free are the ones `ptrs` holds, each once, none more than 8
  bytes larger than the greatest request;
* `Phase`: while the array is filled only the top block is free, so that it does not
  matter that `find_next_free` does not search yet; afterwards it searches.

None of it is inductive alone. The searches find what they look for only because headers
tile the section; tiles are kept only because `prev_size` was right before; a merge drops
the right link only because the list is complete and ordered; and the stores of `malloc` and
`free` stay in the section only because the top block is free. The argument in its order:

* `TrailDefined`, `EndDefined`: a loop that goes up or down through a set of addresses ends, and
  where. `WalkUp`, `WalkDown` are those over blocks that tile the section; from them
  `NextFound`, `PrevFound`, `FirstFound` and `FittingFound` say what the searches return.
* `SplitTiles`, `MergeTiles`: a block cut in two, or up to three united, leave tiles.
  `LinksKept`: writing the one link below the change leaves the free list right.
* `TakenWorks`: what `malloc` does to the blocks, split or given out whole; `SplitWrites`
  has the six words that a split stores, in the order in which the code stores them.
* `ReleasedWorks`: what `free` does, alone or merged with the block above, the one below or
  both (`MergesUp`, `MergesDown`, `RelinkMerged`). After a merge with the block below, `free` writes a link into a
  header that is none any more, and the block below gets its own a few lines later.
* `MallocFinds`: a block with the room exists for every request. As no two free
  blocks touch, there lies at most one below each reserved block and one more
  (`CrowdedBelow`); with one slot of `ptrs` empty these leave the top block the room
  (`TopHasRoom`).
* `AllocatingInv`, `FreeInv`, `FreeAgainInv`: the steps of the program. `FreeAgainInv` is the second
  `free` of a pointer (`user_thread.c:39`): its block was merged or not, and either way the
  word at the pointer still has the flag of a free block, so that the call returns.
* `InvTiled`, `InvHeld`, `InvListed`: the properties follow; `HeapRefinesAllocator` maps
  the calls to the steps of `Allocator`, and `HeldBlocksApart` is its promise `NoOverlap`.

`~CounterWraps` is needed: `heap_counter` shows what happens after 2^31 - 1 calls.
`heap_overrun` is no contradiction: what `malloc` stores outside the section may hit
somebody else's words, but no later call of `malloc` or `free` reads it.

Only model-checked: liveness, `RunsAgain` and `ProcessesEnd`, which is out of the prover's
reach (what of them is safety is `FirstComeFirstServed` and `LowestNeverFalls`, proved above),
and the violations of the findings, which are runs of a small instance by their nature.

## Not modelled

* What registers hold: a context is saved and restored in the object file, and the model
  has it as "the thread goes on where it was". `Stacks` shows where this breaks.
* `PUTC` and `kprintf`: they write to the UART and change no state that others read.
* Aborts of the kernel itself (`exceptions.c:144-147`), which stop the system, and the
  cases of `exception()` that the library never forwards (`exceptions.c:93-120`,
  `:158-167`) with `uart_interrupt_cases`.
* Flags of EXEC other than 0 and 1, which no program passes: `scheduler_on_create` would
  return 0 and leave a thread without a process (`scheduler.c:38-43`).
* A store that goes astray, but for those of `malloc` in `Heap`: what it does to the words of
  another process, of a stack or of a program's code has no place in the models that own
  these words, so that their properties hold for programs that store where they mean to.
* The least int in `usr_kprintf` (`n *= -1` leaves it negative; the model says that anything
  is printed) and a format that ends in `%`: no program of the repository has either.
* A heap that fills: under `malloc_loop` it does not (`TopStaysFree`), and nobody else
  calls `malloc`.
* `create_security_breach`, `print_line`, `usr_strlen`, `usr_strcpy` and `usr_memcpy`, which
  have no caller, and the debug printouts.
* `entry.S`, the coprocessor accessors, the LED driver, the assembly helpers and the build.

## Plan

1. (done) `Processes`, `ProcessTable`, its proofs; `Kernel`; `Mmu`, `Memory`;
   `Programs`; `Heap`.
2. (done) The ring's limit and a clock for sleeps in `Kernel`, `KernelHistory` and `SleepHistory`;
   `Output`; `Stacks`; `Allocator` and the refinement by `Heap`; proofs on `Memory`,
   `Kernel` and `Allocator`.
3. (done) Proofs: `OnePlace` of `Kernel` and its refinement of `ProcessTable` for any number of
   threads; `CharsInOrder` for a ring of any size and `ShortenedByEndsOnly`;
   `CountedBeforeFreed` of `Programs`; `PrintsItsFormat` of `Output`; all type invariants;
   `Heap`, its invariants and its refinement of `Allocator`.
4. (done) Proofs of the safety under the two liveness properties, `FirstComeFirstServed` and
   `LowestNeverFalls`; of `AloneStaysInFormat`; that the programs run on `Kernel`.

With this every invariant and action property and both refinements that the passing runs
check are theorems.
