--------------------------- MODULE ProgramsProofs ---------------------------
(***************************************************************************)
(* Theorems on the user programs, for any number of threads, processes,    *)
(* keys and any LOOP_LENGTH, where nothing aliases thread_process_arr: a   *)
(* counting process is given up only when it has counted to LOOP_LENGTH.   *)
(***************************************************************************)
EXTENDS Programs, KernelProofs

(* What is known of the kernel in every state. *)
Kept == Placed /\ Booted /\ TableTheorems!IInv

(* Every step of the programs is one of the kernel, or none. *)
LEMMA ProgramsStep ==
  ASSUME [ProgramsNext]_allVars
  PROVE  [Next]_vars
<1>1. ThreadStep => Next \/ UNCHANGED vars
  <2> USE DEF Next, Flags
  <2>1. InitExec => Next
    BY DEF InitExec
  <2>2. ShellGetc \/ ShellIgnores \/ ShellExec \/ ShellExecRefused => Next \/ UNCHANGED vars
    BY DEF ShellGetc, ShellIgnores, ShellExec, ShellExecRefused, Computes
  <2>3. \A id : ParentExec(id) \/ ParentExecRefused(id) => Next \/ UNCHANGED vars
    BY DEF ParentExec, ParentExecRefused, vars
  <2>4. ParentReset \/ While \/ Load \/ Store => UNCHANGED vars
    BY DEF ParentReset, While, Load, Store, Computes
  <2>5. SleepOne \/ Return => Next
    BY DEF SleepOne, Return
  <2> QED
    BY <2>1, <2>2, <2>3, <2>4, <2>5 DEF ThreadStep
<1>2. Interrupt => Next
  BY DEF Interrupt, Next
<1> QED
  BY <1>1, <1>2 DEF ProgramsNext, allVars

(* The programs only do what the kernel lets any thread do: what is proved *)
(* of the kernel holds under them, aliasing or not (syscall_handler(),     *)
(* exceptions.c, is their only way into it).                               *)
THEOREM ProgramsRunOnKernel ==
  ProgramsSpec => Spec /\ FirstComeFirstServed /\ ImplementsProcessTable
                       /\ [](OnePlace /\ NoLostWakeup)
<1>1. ProgramsInit => Init
  BY DEF ProgramsInit
<1>2. [ProgramsNext]_allVars => [Next]_vars
  BY ProgramsStep
<1>3. ProgramsSpec => Spec
  BY <1>1, <1>2, PTL DEF ProgramsSpec, Spec
<1> QED
  BY <1>3, ReadyThreadsKeepTheirTurn, KernelRefinesTable, EveryThreadHasOnePlace,
     WakeupNotLost, PTL

LEMMA KeptInit == ~Aliased /\ Init => Kept
<1>1. ~Aliased => ~TableTheorems!Aliased
  BY DEF Aliased, TableTheorems!Aliased
<1>2. Init => TableTheorems!Init
  BY InitRefines, InitIsInit
<1> QED
  BY <1>1, <1>2, PlacedInit, BootedInit, TableTheorems!InitIInv, TableAssumption DEF Kept

LEMMA KeptStep ==
  ASSUME ~Aliased, Kept, [ProgramsNext]_allVars
  PROVE  /\ Kept'
         /\ \A t \in Used \intersect Used' :
              thread_process_arr'[t] = thread_process_arr[t]
  BY ProgramsStep, KernelTableStep DEF Kept

-----------------------------------------------------------------------------
(* The inductive invariant. *)

Functions == {"init", "start_usr", "malloc_loop", "none"} \union Counting

Statements ==
  {"none", "syscall_exec", "syscall_exit", "syscall_getc", "anwendung", "forever",
   "reset", "exec id2", "exec id3", "while", "load", "store", "syscall_sleep"}

(* A thread has a statement to run from its creation to its end. *)
Running ==
  /\ program \in [Threads -> Functions]
  /\ pc \in [Threads -> Statements]
  /\ \A t \in Threads : pc[t] = "none" <=> t \notin Used

(* Counting threads have a process, and what they count are numbers. *)
Attached ==
  /\ loaded \in [Threads -> Nat]
  /\ global_counter \in [Procs -> Nat]
  /\ \A t \in Threads :
       program[t] \in Counting => t \in Used /\ thread_process_arr[t] \in Procs

(* A thread of p that is not about to end. *)
GoesOn(p) ==
  \E t \in Used : thread_process_arr[t] = p /\ pc[t] # "syscall_exit"

(* A process that has not counted to the end has a thread that goes on:    *)
(* who loads and stores an old count goes through the loop once more.      *)
Counted ==
  \A p \in Procs :
    reserved[p] => global_counter[p] >= LOOP_LENGTH \/ GoesOn(p)

ProgramsInv == Running /\ Attached /\ Counted

LEMMA ProgramsInvInit == ProgramsInit => ProgramsInv
<1> SUFFICES ASSUME ProgramsInit PROVE ProgramsInv
  OBVIOUS
<1>1. Used = {InitThread} /\ InitThread \in Threads
  <2>1. Table!Init
    BY InitRefines DEF ProgramsInit
  <2> QED
    BY <2>1, SameTable, ProcessesAssumption DEF Table!Init, InitThread, Threads
<1>2. Running
  <2>1. program \in [Threads -> Functions]
    BY DEF ProgramsInit, Functions
  <2>2. pc \in [Threads -> Statements]
    BY DEF ProgramsInit, Statements
  <2>3. \A t \in Threads : pc[t] = "none" <=> t \notin Used
    BY <1>1 DEF ProgramsInit
  <2> QED
    BY <2>1, <2>2, <2>3 DEF Running
<1>3. Attached
  BY DEF ProgramsInit, Attached, Counting
<1>4. Counted
  BY DEF ProgramsInit, Init, ProcessInit, Counted
<1> QED
  BY <1>2, <1>3, <1>4 DEF ProgramsInv

(* A thread that counts sees the counter of its process. *)
LEMMA CountsInOwn ==
  ASSUME ~Aliased, Kept, Attached, Counts
  PROVE  /\ current \in Used /\ current \in Threads
         /\ userdata \in Procs /\ thread_process_arr[current] = userdata
<1>1. current # Idle /\ current \in Used /\ Used \subseteq Threads
  BY PlacedQueues DEF Kept, Counts
<1>2. thread_process_arr[current] \in Procs
  BY <1>1 DEF Attached, Counts
<1>3. thread_process_arr[current] # None
  BY <1>2 DEF Procs, None
<1> QED
  BY <1>1, <1>2, <1>3, TableFacts DEF Kept

-----------------------------------------------------------------------------
(* The steps. *)

(* The thread that runs goes on with another statement; no thread is       *)
(* created and none ends.                                                  *)
LEMMA GoesOnKeeps ==
  ASSUME Kept, Running, Counted, current # Idle,
         NEW s \in Statements \ {"none", "syscall_exit"}, Goto(s),
         UNCHANGED <<program, free, thread_process_arr, reserved>>,
         \A p \in Procs : \/ global_counter'[p] = global_counter[p]
                          \/ thread_process_arr[current] = p
  PROVE  Running' /\ Counted'
<1>1. current \in Used /\ Used \subseteq Threads /\ Used' = Used
  BY PlacedQueues DEF Kept, Used
<1>2. /\ pc' \in [Threads -> Statements]
      /\ pc'[current] = s
      /\ \A t \in Threads : t # current => pc'[t] = pc[t]
  BY <1>1 DEF Goto, Running
<1>3. Running'
  BY <1>1, <1>2 DEF Running
<1>4. \A p \in Procs : GoesOn(p) \/ thread_process_arr[current] = p => GoesOn(p)'
  BY <1>1, <1>2 DEF GoesOn
<1> QED
  BY <1>3, <1>4 DEF Counted

(* A thread is created, by one that goes on or by init(), which has no     *)
(* process.                                                                *)
LEMMA StartedKeeps ==
  ASSUME ~Aliased, Kept, Kept', ProgramsInv,
         NewThread, free # <<>>, current # Idle,
         NEW function \in Functions,
         NEW first \in Statements \ {"none", "syscall_exit"},
         NEW after \in Statements \ {"none"},
         after = "syscall_exit" => thread_process_arr[current] = None,
         Started(function, first, after),
         \A t \in Used : thread_process_arr'[t] = thread_process_arr[t],
         thread_process_arr'[Head(free)] \in Procs,
         \A p \in Procs :
           reserved'[p] => reserved[p] \/ p = thread_process_arr'[Head(free)],
         \A p \in Procs : reserved[p] => global_counter'[p] = global_counter[p],
         loaded' = loaded, global_counter' \in [Procs -> Nat]
  PROVE  ProgramsInv'
<1> DEFINE h == Head(free)
<1>1. h \in Threads \ Used /\ Used' = Used \union {h}
  BY NewThreadPlaced DEF Kept
<1>2. current \in Used /\ Used \subseteq Threads
  BY PlacedQueues DEF Kept
<1>3. /\ program' = [program EXCEPT ![h] = function]
      /\ pc' = [pc EXCEPT ![h] = first, ![current] = after]
      /\ thread_process_arr'[h] \in Procs
      /\ \A p \in Procs : reserved'[p] => reserved[p] \/ p = thread_process_arr'[h]
  BY DEF Started
<1> HIDE DEF h
<1>4. /\ pc' \in [Threads -> Statements] /\ program' \in [Threads -> Functions]
      /\ pc'[h] = first /\ pc'[current] = after /\ program'[h] = function
      /\ \A t \in Threads \ {h} : program'[t] = program[t]
      /\ \A t \in Threads \ {h, current} : pc'[t] = pc[t]
  BY <1>1, <1>2, <1>3 DEF ProgramsInv, Running
<1>5. Running'
  BY <1>1, <1>2, <1>4 DEF Running, ProgramsInv
<1>6. Attached'
  <2> SUFFICES ASSUME NEW t \in Threads, program'[t] \in Counting
               PROVE  t \in Used' /\ thread_process_arr'[t] \in Procs
    BY DEF Attached, ProgramsInv, Counting
  <2>1. CASE t = h
    BY <1>1, <1>3, <2>1
  <2>2. CASE t # h
    BY <1>1, <1>4, <2>2 DEF Attached, ProgramsInv
  <2> QED
    BY <2>1, <2>2
<1>7. Counted'
  <2> SUFFICES ASSUME NEW p \in Procs, reserved'[p]
               PROVE  global_counter'[p] >= LOOP_LENGTH \/ GoesOn(p)'
    BY DEF Counted
  <2>1. CASE p = thread_process_arr'[h]
    BY <1>1, <1>4, <2>1 DEF GoesOn
  <2>2. CASE p # thread_process_arr'[h]
    <3>1. reserved[p] /\ global_counter'[p] = global_counter[p]
      BY <1>3, <2>2
    <3>2. ASSUME NEW t \in Used, thread_process_arr[t] = p, pc[t] # "syscall_exit"
          PROVE  GoesOn(p)'
      <4>1. t \in Used' /\ t \in Threads \ {h} /\ thread_process_arr'[t] = p
        BY <1>1, <1>2, <3>2
      <4>2. pc'[t] # "syscall_exit"
        <5>1. CASE t = current
          <6>1. p # None
            BY DEF Procs, None
          <6> QED
            BY <1>4, <3>2, <5>1, <6>1
        <5>2. CASE t # current
          BY <1>4, <3>2, <4>1, <5>2
        <5> QED
          BY <5>1, <5>2
      <4> QED
        BY <4>1, <4>2 DEF GoesOn
    <3> QED
      BY <3>1, <3>2 DEF Counted, ProgramsInv, GoesOn
  <2> QED
    BY <2>1, <2>2
<1> QED
  BY <1>5, <1>6, <1>7 DEF ProgramsInv

(* What a creation does to the process table. *)
LEMMA CreateFacts ==
  ASSUME ~Aliased, Kept, NEW n \in Threads \ Used, NEW flags, OnCreate(n, flags)
  PROVE  /\ thread_process_arr'[n] \in Procs
         /\ \A p \in Procs :
              /\ reserved[p] => reserved'[p]
              /\ reserved'[p] => reserved[p] \/ p = thread_process_arr'[n]
<1>1. /\ thread_process_arr \in [Threads -> Procs \union {None}]
      /\ reserved \in [Procs -> BOOLEAN] /\ scheduler_pid \in Procs
  BY TableFacts DEF Kept
<1>2. CASE NewProcess(n)
  BY <1>1, <1>2 DEF NewProcess
<1>3. CASE JoinProcess(n)
  BY <1>1, <1>3 DEF JoinProcess
<1> QED
  BY <1>2, <1>3 DEF OnCreate

LEMMA CopyKeeps ==
  ASSUME global_counter \in [Procs -> Nat], DataCopied
  PROVE  /\ global_counter' \in [Procs -> Nat]
         /\ \A p \in Procs : reserved[p] => global_counter'[p] = global_counter[p]
  BY DEF DataCopied

(* What CountedBeforeFreed says of a step. *)
FreedCounted ==
  \A p \in Procs : reserved[p] /\ ~reserved'[p] => global_counter[p] >= LOOP_LENGTH

(* Two threads are more than one. *)
LEMMA AloneInProcess ==
  ASSUME NEW S, S \subseteq Threads, Cardinality(S) <= 1, NEW t \in S, NEW u \in S
  PROVE  t = u
<1> SUFFICES ASSUME t # u PROVE FALSE
  OBVIOUS
<1>1. IsFiniteSet(Threads)
  BY FS_Interval, ProcessesAssumption DEF Threads
<1>2. IsFiniteSet(S) /\ Cardinality(S) \in Nat
  BY <1>1, FS_Subset, FS_CardinalityType
<1>3. IsFiniteSet({t}) /\ Cardinality({t}) = 1
  BY FS_Singleton
<1>4. IsFiniteSet({t} \union {u}) /\ Cardinality({t} \union {u}) = 2
  BY <1>3, FS_AddElement
<1>5. Cardinality({t} \union {u}) <= Cardinality(S)
  BY <1>2, FS_Subset
<1> QED
  BY <1>2, <1>4, <1>5

LEMMA ReturnKeeps ==
  ASSUME ~Aliased, Kept, Kept', ProgramsInv, Return,
         \A t \in Used \intersect Used' :
           thread_process_arr'[t] = thread_process_arr[t]
  PROVE  ProgramsInv' /\ FreedCounted
<1>1. /\ current # Idle /\ pc[current] = "syscall_exit" /\ Exit
      /\ program' = [program EXCEPT ![current] = "none"]
      /\ pc' = [pc EXCEPT ![current] = "none"]
      /\ loaded' = loaded /\ global_counter' = global_counter
  BY DEF Return, Goto
<1>2. Used' = Used \ {current}
  BY <1>1, ExitPlaced DEF Kept
<1>3. current \in Used /\ current # ShellThread /\ Used \subseteq Threads
  BY <1>1, PlacedQueues, MayEndUsed DEF Kept, Exit
<1>4. /\ pc' \in [Threads -> Statements] /\ program' \in [Threads -> Functions]
      /\ pc'[current] = "none" /\ program'[current] = "none"
      /\ \A t \in Threads \ {current} : pc'[t] = pc[t] /\ program'[t] = program[t]
  BY <1>1, <1>3 DEF ProgramsInv, Running, Functions, Statements
<1>5. \A t \in Used \ {current} : thread_process_arr'[t] = thread_process_arr[t]
  BY <1>2
<1>6. Running'
  BY <1>2, <1>3, <1>4 DEF Running, ProgramsInv
<1>7. Attached'
  <2> SUFFICES ASSUME NEW t \in Threads, program'[t] \in Counting
               PROVE  t \in Used' /\ thread_process_arr'[t] \in Procs
    BY <1>1 DEF Attached, ProgramsInv, Counting
  <2>1. t # current
    BY <1>4 DEF Counting
  <2>2. t \in Used /\ thread_process_arr[t] \in Procs
    BY <1>4, <2>1 DEF Attached, ProgramsInv
  <2> QED
    BY <1>2, <1>5, <2>1, <2>2
<1>8. /\ reserved \in [Procs -> BOOLEAN] /\ threads_active \in [Procs -> Nat]
      /\ \A p \in Procs :
           threads_active[p] = Cardinality({t \in Used : thread_process_arr[t] = p})
  BY TableFacts DEF Kept
<1>9. /\ \A p \in Procs : reserved'[p] => reserved[p]
      /\ \A p \in Procs : reserved[p] /\ ~reserved'[p]
           => p = thread_process_arr[current] /\ threads_active[p] <= 1
  <2>1. OnExit(current)
    BY <1>1 DEF Exit
  <2> QED
    BY <1>3, <1>8, <2>1 DEF OnExit, LeaveProcess, LeaveNoProcess
<1>10. Counted'
  <2> SUFFICES ASSUME NEW p \in Procs, reserved'[p]
               PROVE  global_counter'[p] >= LOOP_LENGTH \/ GoesOn(p)'
    BY DEF Counted
  <2>1. reserved[p]
    BY <1>9
  <2>2. ASSUME NEW t \in Used, thread_process_arr[t] = p, pc[t] # "syscall_exit"
        PROVE  GoesOn(p)'
    BY <1>1, <1>2, <1>3, <1>4, <1>5, <2>2 DEF GoesOn
  <2> QED
    BY <1>1, <2>1, <2>2 DEF Counted, ProgramsInv, GoesOn
<1>11. FreedCounted
  <2> SUFFICES ASSUME NEW p \in Procs, reserved[p], ~reserved'[p]
               PROVE  global_counter[p] >= LOOP_LENGTH
    BY DEF FreedCounted
  <2> DEFINE S == {t \in Used : thread_process_arr[t] = p}
  <2>1. Cardinality(S) <= 1 /\ current \in S /\ S \subseteq Threads
    BY <1>3, <1>8, <1>9
  <2>2. \A t \in S : t = current
    BY <2>1, AloneInProcess
  <2>3. ~GoesOn(p)
    BY <1>1, <2>2 DEF GoesOn
  <2> QED
    BY <2>3 DEF Counted, ProgramsInv
<1> QED
  BY <1>6, <1>7, <1>10, <1>11 DEF ProgramsInv

(* A step of the thread that runs in which no thread is created or ends.   *)
LEMMA RunsOn ==
  ASSUME Kept, ProgramsInv, current # Idle,
         NEW s \in Statements \ {"none", "syscall_exit"}, Goto(s),
         UNCHANGED <<program, free, thread_process_arr, reserved>>,
         loaded' \in [Threads -> Nat], global_counter' \in [Procs -> Nat],
         \A p \in Procs : \/ global_counter'[p] = global_counter[p]
                          \/ thread_process_arr[current] = p
  PROVE  ProgramsInv' /\ FreedCounted
<1>1. Running' /\ Counted'
  BY GoesOnKeeps DEF ProgramsInv
<1>2. Attached'
  BY DEF Attached, ProgramsInv, Used, Counting
<1> QED
  BY <1>1, <1>2 DEF ProgramsInv, FreedCounted

LEMMA InitExecKeeps ==
  ASSUME ~Aliased, Kept, Kept', ProgramsInv, InitExec,
         \A t \in Used \intersect Used' :
           thread_process_arr'[t] = thread_process_arr[t]
  PROVE  ProgramsInv' /\ FreedCounted
<1>1. /\ current # Idle /\ InitRuns /\ ShellThread \notin Used
      /\ OnCreate(Head(free), "PARENT") /\ NewThread
      /\ Started("start_usr", "syscall_getc", "syscall_exit")
      /\ DataCopied /\ loaded' = loaded
  BY DEF InitExec, At, StartShell
<1>2. free # <<>>
  BY <1>1, BootedRuns DEF Kept
<1>3. Head(free) \in Threads \ Used /\ Used' = Used \union {Head(free)}
  BY <1>1, <1>2, NewThreadPlaced DEF Kept
<1>4. /\ thread_process_arr'[Head(free)] \in Procs
      /\ \A p \in Procs :
           /\ reserved[p] => reserved'[p]
           /\ reserved'[p] => reserved[p] \/ p = thread_process_arr'[Head(free)]
  BY <1>1, <1>3, CreateFacts
<1>5. /\ global_counter' \in [Procs -> Nat]
      /\ \A p \in Procs : reserved[p] => global_counter'[p] = global_counter[p]
  BY <1>1, CopyKeeps DEF ProgramsInv, Attached
<1>6. thread_process_arr[current] = None
  BY <1>1 DEF InitRuns
<1>7. \A t \in Used : thread_process_arr'[t] = thread_process_arr[t]
  BY <1>3
<1>8. /\ "start_usr" \in Functions
      /\ "syscall_getc" \in Statements \ {"none", "syscall_exit"}
      /\ "syscall_exit" \in Statements \ {"none"}
  BY DEF Functions, Statements
<1>9. ProgramsInv'
  BY <1>1, <1>2, <1>4, <1>5, <1>6, <1>7, <1>8, StartedKeeps
<1> QED
  BY <1>4, <1>9 DEF FreedCounted

LEMMA ExecKeeps ==
  ASSUME ~Aliased, Kept, Kept', ProgramsInv, current # Idle,
         NEW flags \in Flags, Exec(flags),
         NEW function \in Functions,
         NEW first \in Statements \ {"none", "syscall_exit"},
         NEW after \in Statements \ {"none", "syscall_exit"},
         Started(function, first, after),
         \/ DataCopied
         \/ flags = "CHILD" /\ global_counter' = global_counter,
         loaded' = loaded,
         \A t \in Used \intersect Used' :
           thread_process_arr'[t] = thread_process_arr[t]
  PROVE  ProgramsInv' /\ FreedCounted
<1>1. free # <<>> /\ OnCreate(Head(free), flags) /\ NewThread
  BY DEF Exec
<1>2. Head(free) \in Threads \ Used /\ Used' = Used \union {Head(free)}
  BY <1>1, NewThreadPlaced DEF Kept
<1>3. /\ thread_process_arr'[Head(free)] \in Procs
      /\ \A p \in Procs :
           /\ reserved[p] => reserved'[p]
           /\ reserved'[p] => reserved[p] \/ p = thread_process_arr'[Head(free)]
  BY <1>1, <1>2, CreateFacts
<1>4. /\ global_counter' \in [Procs -> Nat]
      /\ \A p \in Procs : reserved[p] => global_counter'[p] = global_counter[p]
  BY CopyKeeps DEF ProgramsInv, Attached
<1>5. \A t \in Used : thread_process_arr'[t] = thread_process_arr[t]
  BY <1>2
<1>6. ProgramsInv'
  BY <1>1, <1>3, <1>4, <1>5, StartedKeeps
<1> QED
  BY <1>3, <1>6 DEF FreedCounted

LEMMA CountingKeeps ==
  ASSUME ~Aliased, Kept, ProgramsInv, While \/ Load \/ Store \/ SleepOne \/ ParentReset
  PROVE  ProgramsInv' /\ FreedCounted
<1> DEFINE Stays == UNCHANGED <<program, free, thread_process_arr, reserved>>
<1>1. /\ current \in Used /\ current \in Threads /\ current # Idle
      /\ userdata \in Procs /\ thread_process_arr[current] = userdata
  <2>1. Counts
    BY DEF While, Load, Store, SleepOne, ParentReset, At, Counts, Counting
  <2> QED
    BY <2>1, CountsInOwn DEF ProgramsInv, Counts
<1>2. loaded \in [Threads -> Nat] /\ global_counter \in [Procs -> Nat]
  BY DEF ProgramsInv, Attached
<1>3. {"load", "store", "syscall_sleep", "while", "exec id2"}
        \subseteq Statements \ {"none", "syscall_exit"}
  BY DEF Statements
<1>4. CASE While
  <2>1. Stays /\ UNCHANGED <<loaded, global_counter>> /\ current' = current
    BY <1>4 DEF While, Computes, vars, kernelVars, processVars
  <2>2. CASE global_counter[userdata] < LOOP_LENGTH
    <3>1. Goto("load")
      BY <1>4, <2>2 DEF While
    <3> QED
      BY <1>1, <1>2, <1>3, <2>1, <3>1, RunsOn
  <2>3. CASE ~(global_counter[userdata] < LOOP_LENGTH)
    <3>1. Goto("syscall_exit")
      BY <1>4, <2>3 DEF While
    <3>2. Used' = Used /\ Used \subseteq Threads
      BY <2>1 DEF Used
    <3>3. /\ pc' \in [Threads -> Statements] /\ pc'[current] = "syscall_exit"
          /\ \A t \in Threads \ {current} : pc'[t] = pc[t]
      BY <1>1, <3>1 DEF Goto, ProgramsInv, Running, Statements
    <3>4. Running'
      BY <1>1, <2>1, <3>2, <3>3 DEF ProgramsInv, Running
    <3>5. Attached'
      BY <2>1, <3>2 DEF ProgramsInv, Attached, Counting
    <3>6. global_counter[userdata] >= LOOP_LENGTH
      BY <1>1, <1>2, <2>3, ProgramsAssumption
    <3>7. \A p \in Procs \ {userdata} : GoesOn(p) => GoesOn(p)'
      BY <1>1, <2>1, <3>2, <3>3 DEF GoesOn
    <3>8. Counted'
      BY <2>1, <3>6, <3>7 DEF ProgramsInv, Counted
    <3> QED
      BY <2>1, <3>4, <3>5, <3>8 DEF ProgramsInv, FreedCounted
  <2> QED
    BY <2>2, <2>3
<1>5. CASE Load
  <2>1. /\ Stays /\ global_counter' = global_counter /\ Goto("store")
        /\ loaded' \in [Threads -> Nat]
    BY <1>1, <1>2, <1>5 DEF Load, Computes, vars, kernelVars, processVars
  <2> QED
    BY <1>1, <1>2, <1>3, <2>1, RunsOn
<1>6. CASE Store
  <2>1. /\ Stays /\ Goto("syscall_sleep")
        /\ loaded' \in [Threads -> Nat] /\ global_counter' \in [Procs -> Nat]
        /\ \A p \in Procs : global_counter'[p] = global_counter[p] \/ p = userdata
    BY <1>1, <1>2, <1>6 DEF Store, Computes, vars, kernelVars, processVars
  <2> QED
    BY <1>1, <1>3, <2>1, RunsOn
<1>7. CASE ParentReset
  <2>1. /\ Stays /\ Goto("exec id2") /\ loaded' = loaded
        /\ global_counter' \in [Procs -> Nat]
        /\ \A p \in Procs : global_counter'[p] = global_counter[p] \/ p = userdata
    BY <1>1, <1>2, <1>7 DEF ParentReset, Computes, vars, kernelVars, processVars
  <2> QED
    BY <1>1, <1>2, <1>3, <2>1, RunsOn
<1>8. CASE SleepOne
  <2>1. /\ Stays /\ Goto("while") /\ UNCHANGED <<loaded, global_counter>>
    BY <1>8 DEF SleepOne, Sleep, LeaveProcessor
  <2> QED
    BY <1>1, <1>2, <1>3, <2>1, RunsOn
<1> QED
  BY <1>4, <1>5, <1>6, <1>7, <1>8

LEMMA ProgramsInvStep ==
  ASSUME ~Aliased, Kept, ProgramsInv, [ProgramsNext]_allVars
  PROVE  ProgramsInv' /\ FreedCounted
<1>1. /\ Kept'
      /\ \A t \in Used \intersect Used' :
           thread_process_arr'[t] = thread_process_arr[t]
  BY KeptStep
<1>2. loaded \in [Threads -> Nat] /\ global_counter \in [Procs -> Nat]
  BY DEF ProgramsInv, Attached
<1>3. /\ {"syscall_getc", "anwendung", "exec id2", "exec id3", "while", "reset", "forever"}
           \subseteq Statements \ {"none", "syscall_exit"}
      /\ {"user_parent_runner", "child_runner", "malloc_loop"} \subseteq Functions
  BY DEF Statements, Functions, Counting
<1>4. ASSUME UNCHANGED <<program, pc, loaded, global_counter>>,
             UNCHANGED <<free, thread_process_arr, reserved>>
      PROVE  ProgramsInv' /\ FreedCounted
  BY <1>4
  DEF ProgramsInv, Running, Attached, Counted, GoesOn, FreedCounted, Used, Counting
<1>5. CASE UNCHANGED allVars
  BY <1>4, <1>5 DEF allVars, vars, processVars, kernelVars, programVars
<1>6. CASE Interrupt
  BY <1>4, <1>6 DEF Interrupt, TimerIrq, UartIrq, processVars, programVars
<1>7. CASE InitExec
  BY <1>1, <1>7, InitExecKeeps
<1>8. CASE ShellGetc \/ ShellIgnores \/ ShellExecRefused
  <2>1. current # Idle /\ UNCHANGED <<program, loaded, global_counter>>
    BY <1>8 DEF ShellGetc, ShellIgnores, ShellExecRefused, At, Computes
  <2>2. UNCHANGED <<free, thread_process_arr, reserved>>
    <3>1. GetChar \/ WaitForChar => UNCHANGED <<free, thread_process_arr, reserved>>
      BY DEF GetChar, WaitForChar, LeaveProcessor, processVars
    <3>2. ExecRefused \/ UNCHANGED vars => UNCHANGED <<free, thread_process_arr, reserved>>
      BY DEF ExecRefused, NoProcessLeft, vars, processVars, kernelVars
    <3> QED
      BY <1>8, <3>1, <3>2 DEF ShellGetc, ShellIgnores, ShellExecRefused, Computes
  <2>3. Goto("anwendung") \/ Goto("syscall_getc")
    BY <1>8 DEF ShellGetc, ShellIgnores, ShellExecRefused
  <2> QED
    BY <1>2, <1>3, <2>1, <2>2, <2>3, RunsOn
<1>9. CASE ShellExec
  <2>1. /\ current # Idle /\ Exec("PARENT") /\ DataCopied /\ loaded' = loaded
        /\ \/ Started("user_parent_runner", "reset", "syscall_getc")
           \/ Started("malloc_loop", "forever", "syscall_getc")
    BY <1>9 DEF ShellExec, At
  <2>2. "PARENT" \in Flags
    BY DEF Flags
  <2> QED
    BY <1>1, <1>3, <2>1, <2>2, ExecKeeps
<1>10. ASSUME NEW id \in {"id2", "id3"}, ParentExec(id) \/ ParentExecRefused(id)
       PROVE  ProgramsInv' /\ FreedCounted
  <2>1. current # Idle /\ UNCHANGED <<loaded, global_counter>>
    BY <1>10 DEF ParentExec, ParentExecRefused, At
  <2>2. AfterExec[id] \in Statements \ {"none", "syscall_exit"}
    <3>1. AfterExec["id2"] = "exec id3" /\ AfterExec["id3"] = "while"
      BY Zenon DEF AfterExec
    <3> QED
      BY <1>3, <3>1
  <2>3. CASE ParentExec(id)
    <3>1. Exec("CHILD") /\ Started("child_runner", "while", AfterExec[id])
      BY <2>3 DEF ParentExec
    <3>2. "CHILD" \in Flags
      BY DEF Flags
    <3> QED
      BY <1>1, <1>3, <2>1, <2>2, <3>1, <3>2, ExecKeeps
  <2>4. CASE ParentExecRefused(id)
    <3>1. Goto(AfterExec[id]) /\ UNCHANGED <<program, free, thread_process_arr, reserved>>
      BY <2>4 DEF ParentExecRefused, vars, processVars, kernelVars
    <3> QED
      BY <1>2, <2>1, <2>2, <3>1, RunsOn
  <2> QED
    BY <1>10, <2>3, <2>4
<1>11. CASE While \/ Load \/ Store \/ SleepOne \/ ParentReset
  BY <1>11, CountingKeeps
<1>12. CASE Return
  BY <1>1, <1>12, ReturnKeeps
<1> QED
  BY <1>5, <1>6, <1>7, <1>8, <1>9, <1>10, <1>11, <1>12 DEF ProgramsNext, ThreadStep

-----------------------------------------------------------------------------

(* Where nothing aliases thread_process_arr, the kernel's invariants and   *)
(* those of the programs hold together.                                    *)
THEOREM ProgramsInvariant == ~Aliased => (ProgramsSpec => [](Kept /\ ProgramsInv))
<1> SUFFICES ASSUME ~Aliased PROVE ProgramsSpec => [](Kept /\ ProgramsInv)
  OBVIOUS
<1>1. ProgramsInit => Kept /\ ProgramsInv
  BY KeptInit, ProgramsInvInit DEF ProgramsInit
<1>2. Kept /\ ProgramsInv /\ [ProgramsNext]_allVars => (Kept /\ ProgramsInv)'
  BY KeptStep, ProgramsInvStep
<1> QED
  BY <1>1, <1>2, PTL DEF ProgramsSpec

(* A thread has a function and a statement to run as long as it lives, and *)
(* what it counts are numbers, also where it was preempted between a load  *)
(* and a store of global_counter.                                          *)
THEOREM ProgramsTypeCorrect == ~Aliased => (ProgramsSpec => []ProgramsTypeOK)
<1>1. Kept /\ ProgramsInv => ProgramsTypeOK
  BY DEF ProgramsInv, Running, Attached, ProgramsTypeOK, Functions, Used
<1> QED
  BY <1>1, ProgramsInvariant, PTL

(* A counting process is given up only when it has counted to LOOP_LENGTH, *)
(* although its threads race on global_counter, its children can join      *)
(* another process, and that process may not have reset its counter yet    *)
(* (user_thread_functions.c; scheduler_on_exit).                           *)
THEOREM ProcessesCountToTheEnd == ~Aliased => (ProgramsSpec => CountedBeforeFreed)
<1> SUFFICES ASSUME ~Aliased PROVE ProgramsSpec => CountedBeforeFreed
  OBVIOUS
<1>1. Kept /\ ProgramsInv /\ [ProgramsNext]_allVars => [FreedCounted]_allVars
  BY ProgramsInvStep
<1> QED
  BY <1>1, ProgramsInvariant, PTL DEF ProgramsSpec, CountedBeforeFreed, FreedCounted

-----------------------------------------------------------------------------
(* The lowest count of a process. *)

(* What LowestNeverFalls says of a step and of one process. *)
NoLower(p) == \A new \in CountsOf(p)' : \E old \in CountsOf(p) : old <= new

(* Nothing new comes into play in p: a thread that is about to store in it *)
(* was so before, with the same count.                                     *)
LEMMA CountsKeptNoLower ==
  ASSUME Attached, NEW p \in Procs,
         global_counter'[p] = global_counter[p],
         \A t \in Used' : thread_process_arr'[t] = p /\ pc'[t] = "store"
           => /\ t \in Used /\ thread_process_arr[t] = p /\ pc[t] = "store"
              /\ loaded'[t] = loaded[t]
  PROVE  NoLower(p)
<1>1. \A new \in CountsOf(p)' : new \in CountsOf(p)
  BY DEF CountsOf
<1>2. CountsOf(p) \subseteq Nat
  BY DEF CountsOf, Attached, Used
<1> QED
  BY <1>1, <1>2 DEF NoLower

(* A thread loads the counter: its count is in play already. *)
LEMMA LoadNoLower ==
  ASSUME ~Aliased, Kept, Running, Attached, Load, NEW p \in Procs
  PROVE  NoLower(p)
<1>1. /\ current \in Used /\ current \in Threads
      /\ userdata \in Procs /\ thread_process_arr[current] = userdata
  BY CountsInOwn DEF Load
<1>2. /\ Used' = Used /\ thread_process_arr' = thread_process_arr
      /\ global_counter' = global_counter
      /\ loaded' = [loaded EXCEPT ![current] = global_counter[userdata]]
      /\ pc' = [pc EXCEPT ![current] = "store"]
  BY DEF Load, Computes, vars, processVars, kernelVars, Used, Goto
<1>3. \A t \in Used' \ {current} :
        t \in Threads /\ loaded'[t] = loaded[t] /\ pc'[t] = pc[t]
  BY <1>2 DEF Running, Attached, Used
<1>4. loaded'[current] = global_counter[userdata]
  BY <1>1, <1>2 DEF Attached
<1>5. CASE p = userdata
  <2>1. \A new \in CountsOf(p)' : new \in CountsOf(p)
    BY <1>2, <1>3, <1>4, <1>5 DEF CountsOf
  <2>2. CountsOf(p) \subseteq Nat
    BY DEF CountsOf, Attached, Used
  <2> QED
    BY <2>1, <2>2 DEF NoLower
<1>6. CASE p # userdata
  BY <1>1, <1>2, <1>3, <1>6, CountsKeptNoLower
<1> QED
  BY <1>5, <1>6

(* A thread stores: what it had loaded was in play, and is raised. *)
LEMMA StoreNoLower ==
  ASSUME ~Aliased, Kept, Running, Attached, Store, NEW p \in Procs
  PROVE  NoLower(p)
<1>1. /\ current \in Used /\ current \in Threads
      /\ userdata \in Procs /\ thread_process_arr[current] = userdata
  BY CountsInOwn DEF Store
<1>2. /\ Used' = Used /\ thread_process_arr' = thread_process_arr
      /\ global_counter' = [global_counter EXCEPT ![userdata] = loaded[current] + 1]
      /\ loaded' = [loaded EXCEPT ![current] = 0]
      /\ pc[current] = "store" /\ pc' = [pc EXCEPT ![current] = "syscall_sleep"]
  BY DEF Store, Computes, vars, processVars, kernelVars, Used, Goto
<1>3. /\ pc'[current] # "store"
      /\ \A t \in Used' \ {current} :
           t \in Threads /\ loaded'[t] = loaded[t] /\ pc'[t] = pc[t]
  BY <1>1, <1>2 DEF Running, Attached, Used
<1>4. CASE p = userdata
  <2>1. global_counter'[p] = loaded[current] + 1
    BY <1>1, <1>2, <1>4 DEF Attached
  <2>2. \A new \in CountsOf(p)' : new = loaded[current] + 1 \/ new \in CountsOf(p)
    BY <1>2, <1>3, <2>1 DEF CountsOf
  <2>3. loaded[current] \in CountsOf(p)
    BY <1>1, <1>2, <1>4 DEF CountsOf
  <2>4. CountsOf(p) \subseteq Nat
    BY DEF CountsOf, Attached, Used
  <2> QED
    BY <2>2, <2>3, <2>4 DEF NoLower
<1>5. CASE p # userdata
  <2>1. global_counter'[p] = global_counter[p]
    BY <1>1, <1>2, <1>5 DEF Attached
  <2> QED
    BY <1>2, <1>3, <2>1, CountsKeptNoLower
<1> QED
  BY <1>4, <1>5

(* A thread is created, at another statement than a store. *)
LEMMA StartedNoLower ==
  ASSUME Kept, Running, Attached, NewThread, free # <<>>, current # Idle,
         NEW function, NEW first, NEW after, "store" \notin {first, after},
         Started(function, first, after), loaded' = loaded,
         \A t \in Used : thread_process_arr'[t] = thread_process_arr[t],
         NEW p \in Procs, global_counter'[p] = global_counter[p]
  PROVE  NoLower(p)
<1> DEFINE h == Head(free)
<1>1. h \in Threads \ Used /\ Used' = Used \union {h}
  BY NewThreadPlaced DEF Kept
<1>2. current \in Used /\ Used \subseteq Threads
  BY PlacedQueues DEF Kept
<1>3. pc' = [pc EXCEPT ![h] = first, ![current] = after]
  BY DEF Started
<1> HIDE DEF h
<1>4. /\ pc'[h] # "store" /\ pc'[current] # "store"
      /\ \A t \in Used \ {current} : pc'[t] = pc[t]
  BY <1>1, <1>2, <1>3 DEF Running
<1> QED
  BY <1>1, <1>4, CountsKeptNoLower

(* A step in which no thread is created, and the one that runs, if it      *)
(* moves, goes on or ends, but not to a store.                             *)
LEMMA OthersNoLower ==
  ASSUME Kept, Running, Attached, Used' \subseteq Used,
         \A t \in Used \intersect Used' :
           thread_process_arr'[t] = thread_process_arr[t],
         pc' = pc \/ \E s : s # "store" /\ current # Idle /\ Goto(s),
         loaded' = loaded, NEW p \in Procs, global_counter'[p] = global_counter[p]
  PROVE  NoLower(p)
<1>1. current # Idle => current \in Used
  BY PlacedQueues DEF Kept
<1>2. Used \subseteq Threads
  BY DEF Used
<1>3. \A t \in Used : pc'[t] = "store" => pc[t] = "store"
  BY <1>1, <1>2 DEF Goto, Running
<1> QED
  BY <1>3, CountsKeptNoLower

LEMMA StepNoLower ==
  ASSUME ~Aliased, Kept, ProgramsInv, [ProgramsNext]_allVars,
         NEW p \in Procs, reserved[p], reserved'[p],
         ~(ParentReset /\ userdata = p)
  PROVE  NoLower(p)
<1>1. /\ Running /\ Attached
      /\ \A t \in Used \intersect Used' :
           thread_process_arr'[t] = thread_process_arr[t]
  BY KeptStep DEF ProgramsInv
<1>2. CASE UNCHANGED allVars \/ Interrupt
  <2>1. UNCHANGED <<program, pc, loaded, global_counter, free>>
    BY <1>2 DEF allVars, vars, kernelVars, programVars, Interrupt, TimerIrq, UartIrq
  <2> QED
    BY <1>1, <2>1, OthersNoLower DEF Used
<1>3. CASE InitExec \/ ShellExec
  <2>1. PICK function, first, after :
          /\ "store" \notin {first, after} /\ Started(function, first, after)
          /\ NewThread /\ DataCopied /\ loaded' = loaded /\ current # Idle
    BY <1>3 DEF InitExec, ShellExec, At, StartShell, Exec
  <2>2. free # <<>>
    BY <1>3, BootedRuns DEF InitExec, StartShell, ShellExec, Exec, Kept
  <2>3. Head(free) \in Threads \ Used /\ Used' = Used \union {Head(free)}
    BY <2>1, <2>2, NewThreadPlaced DEF Kept
  <2>4. global_counter'[p] = global_counter[p]
    BY <1>1, <2>1, CopyKeeps DEF Attached
  <2> QED
    BY <1>1, <2>1, <2>2, <2>3, <2>4, StartedNoLower
<1>4. CASE ShellGetc \/ ShellIgnores \/ ShellExecRefused
  <2>1. /\ current # Idle /\ UNCHANGED <<loaded, global_counter>>
        /\ Goto("anwendung") \/ Goto("syscall_getc")
    BY <1>4 DEF ShellGetc, ShellIgnores, ShellExecRefused, At
  <2>2. free' = free
    <3>1. GetChar \/ WaitForChar => free' = free
      BY DEF GetChar, WaitForChar
    <3>2. ExecRefused \/ UNCHANGED vars => free' = free
      BY DEF ExecRefused, vars, kernelVars
    <3> QED
      BY <1>4, <3>1, <3>2 DEF ShellGetc, ShellIgnores, ShellExecRefused, Computes
  <2> QED
    BY <1>1, <2>1, <2>2, OthersNoLower DEF Used
<1>5. ASSUME NEW id \in {"id2", "id3"}, ParentExec(id) \/ ParentExecRefused(id)
      PROVE  NoLower(p)
  <2>1. current # Idle /\ UNCHANGED <<loaded, global_counter>>
    BY <1>5 DEF ParentExec, ParentExecRefused, At
  <2>2. AfterExec[id] # "store"
    <3>1. AfterExec["id2"] = "exec id3" /\ AfterExec["id3"] = "while"
      BY Zenon DEF AfterExec
    <3> QED
      BY <3>1
  <2>3. CASE ParentExec(id)
    <3>1. /\ Exec("CHILD") /\ NewThread /\ free # <<>>
          /\ Started("child_runner", "while", AfterExec[id])
      BY <2>3 DEF ParentExec, Exec
    <3>2. Head(free) \in Threads \ Used /\ Used' = Used \union {Head(free)}
      BY <3>1, NewThreadPlaced DEF Kept
    <3> QED
      BY <1>1, <2>1, <2>2, <3>1, <3>2, StartedNoLower
  <2>4. CASE ParentExecRefused(id)
    <3>1. Goto(AfterExec[id]) /\ free' = free
      BY <2>4 DEF ParentExecRefused, vars, kernelVars
    <3> QED
      BY <1>1, <2>1, <2>2, <3>1, OthersNoLower DEF Used
  <2> QED
    BY <1>5, <2>3, <2>4
<1>6. CASE ParentReset
  <2>1. /\ current # Idle /\ free' = free /\ loaded' = loaded /\ Goto("exec id2")
        /\ global_counter' = [global_counter EXCEPT ![userdata] = 0]
    BY <1>6 DEF ParentReset, At, Computes, vars, kernelVars
  <2>2. global_counter'[p] = global_counter[p]
    BY <1>1, <1>6, <2>1 DEF Attached
  <2> QED
    BY <1>1, <2>1, <2>2, OthersNoLower DEF Used
<1>7. CASE While
  <2>1. /\ current # Idle /\ free' = free /\ UNCHANGED <<loaded, global_counter>>
        /\ Goto("load") \/ Goto("syscall_exit")
    BY <1>7 DEF While, Counts, Computes, vars, kernelVars
  <2> QED
    BY <1>1, <2>1, OthersNoLower DEF Used
<1>8. CASE Load
  BY <1>1, <1>8, LoadNoLower
<1>9. CASE Store
  BY <1>1, <1>9, StoreNoLower
<1>10. CASE SleepOne
  <2>1. /\ current # Idle /\ free' = free /\ UNCHANGED <<loaded, global_counter>>
        /\ Goto("while")
    BY <1>10 DEF SleepOne, Counts, Sleep
  <2> QED
    BY <1>1, <2>1, OthersNoLower DEF Used
<1>11. CASE Return
  <2>1. /\ current # Idle /\ Exit /\ UNCHANGED <<loaded, global_counter>>
        /\ Goto("none")
    BY <1>11 DEF Return
  <2>2. Used' \subseteq Used
    BY <2>1, ExitPlaced DEF Kept
  <2> QED
    BY <1>1, <2>1, <2>2, OthersNoLower
<1> QED
  BY <1>2, <1>3, <1>4, <1>5, <1>6, <1>7, <1>8, <1>9, <1>10, <1>11
  DEF ProgramsNext, ThreadStep

(* The lowest count in play in a process never falls, whatever its threads *)
(* store back over each other and whoever joins it: each round of a thread *)
(* brings the process nearer to its end (global_counter++ of               *)
(* user_thread_functions.c, a load and a store).                           *)
THEOREM LowestCountNeverFalls == ~Aliased => (ProgramsSpec => LowestNeverFalls)
<1> SUFFICES ASSUME ~Aliased PROVE ProgramsSpec => LowestNeverFalls
  OBVIOUS
<1> DEFINE Falls == \A p \in Procs :
                      reserved[p] /\ reserved'[p] /\ ~(ParentReset /\ userdata = p)
                        => NoLower(p)
<1>1. Kept /\ ProgramsInv /\ [ProgramsNext]_allVars => [Falls]_allVars
  BY StepNoLower
<1>2. [Falls]_allVars =>
        [\A p \in Procs :
           reserved[p] /\ reserved'[p] /\ ~(ParentReset /\ userdata = p)
             => \A new \in CountsOf(p)' : \E old \in CountsOf(p) : old <= new]_allVars
  BY DEF NoLower
<1> HIDE DEF Falls
<1> QED
  BY <1>1, <1>2, ProgramsInvariant, PTL DEF ProgramsSpec, LowestNeverFalls

=============================================================================
