------------------------------ MODULE Programs ------------------------------
(***************************************************************************)
(* The user programs on the kernel: start_usr() reads characters and       *)
(* starts a process running user_parent_runner() for each; that one starts *)
(* two threads running child_runner(), and the three count together to     *)
(* LOOP_LENGTH in the global_counter of their process.                     *)
(*                                                                         *)
(* A load and a store of global_counter are steps of their own: a thread   *)
(* can be preempted between them.  usr_kprintf() prints between two steps  *)
(* and is left out.                                                        *)
(***************************************************************************)
EXTENDS Kernel

CONSTANT LOOP_LENGTH

ASSUME ProgramsAssumption == LOOP_LENGTH \in Nat \ {0}

VARIABLES
  program,         \* the function a thread was created to run
  pc,              \* the statement it runs next
  loaded,          \* the value of global_counter a thread has loaded
  global_counter   \* of each process

programVars == <<program, pc, loaded, global_counter>>
allVars == <<vars, programVars>>

ProgramsInit ==
  /\ Init
  /\ program = [t \in Threads |-> IF t = InitThread THEN "init" ELSE "none"]
  /\ pc = [t \in Threads |-> IF t = InitThread THEN "syscall_exec" ELSE "none"]
  /\ loaded = [t \in Threads |-> 0]
  /\ global_counter = [p \in Procs |-> 0]

-----------------------------------------------------------------------------

(* The running thread is at a statement of a function. *)
At(function, statement) ==
  current # Idle /\ program[current] = function /\ pc[current] = statement

Goto(statement) == pc' = [pc EXCEPT ![current] = statement]

(* Mutant of Started: the context is set up for the caller. *)
StartedCaller(function, first, after) ==
  /\ program' = [program EXCEPT ![current] = function]
  /\ pc' = [pc EXCEPT ![current] = first]

(* Head(free) is about to run a function from its first statement. *)
Started(function, first, after) ==
  /\ program' = [program EXCEPT ![Head(free)] = function]
  /\ pc' = [pc EXCEPT ![Head(free)] = first, ![current] = after]

(* The data of a process that is created are those of its creator. *)
DataCopied ==
  global_counter' = [p \in Procs |->
    IF ~reserved[p] /\ reserved'[p] /\ userdata \in Procs
    THEN global_counter[userdata]
    ELSE global_counter[p]]

(* A statement that is not a system call. *)
Computes == UNCHANGED <<vars, program>>

InitExec ==
  /\ At("init", "syscall_exec")
  /\ StartShell
  /\ Started("start_usr", "syscall_getc", "syscall_exit")
  /\ DataCopied
  /\ UNCHANGED loaded

ShellGetc ==
  /\ At("start_usr", "syscall_getc")
  /\ GetChar \/ WaitForChar
  /\ Goto("anwendung")
  /\ UNCHANGED <<program, loaded, global_counter>>

(* A character that is 0 or not ASCII is ignored. *)
ShellIgnores ==
  /\ At("start_usr", "anwendung")
  /\ Computes
  /\ Goto("syscall_getc")
  /\ UNCHANGED <<loaded, global_counter>>

(* anwendung(c): "m" starts malloc_loop(), another key the counting        *)
(* threads.  It does not look at the result.                               *)
ShellExec ==
  /\ At("start_usr", "anwendung")
  /\ Exec("PARENT")
  /\ \/ Started("user_parent_runner", "reset", "syscall_getc")
     \/ Started("malloc_loop", "forever", "syscall_getc")
  /\ DataCopied
  /\ UNCHANGED loaded

ShellExecRefused ==
  /\ At("start_usr", "anwendung")
  /\ ExecRefused \/ (free = <<>> /\ UNCHANGED vars)
  /\ Goto("syscall_getc")
  /\ UNCHANGED <<program, loaded, global_counter>>

ParentReset ==
  /\ At("user_parent_runner", "reset")
  /\ Computes
  /\ global_counter' = [global_counter EXCEPT ![userdata] = 0]
  /\ Goto("exec id2")
  /\ UNCHANGED loaded

(* The statement after each of the two calls of syscall_exec. *)
AfterExec == [id2 |-> "exec id3", id3 |-> "while"]

ParentExec(id) ==
  /\ At("user_parent_runner", "exec " \o id)
  /\ Exec("CHILD")
  /\ Started("child_runner", "while", AfterExec[id])
  /\ UNCHANGED <<loaded, global_counter>>

ParentExecRefused(id) ==
  /\ At("user_parent_runner", "exec " \o id)
  /\ free = <<>>
  /\ Goto(AfterExec[id])
  /\ UNCHANGED <<vars, program, loaded, global_counter>>

(* The loop that parents and children run. *)
Counting == {"user_parent_runner", "child_runner"}
Counts == current # Idle /\ program[current] \in Counting

While ==
  /\ Counts /\ pc[current] = "while"
  /\ Computes
  /\ Goto(IF global_counter[userdata] < LOOP_LENGTH THEN "load" ELSE "syscall_exit")
  /\ UNCHANGED <<loaded, global_counter>>

(* Mutant of Load: the count stays in a register, as without volatile. *)
LoadStale ==
  /\ Counts /\ pc[current] = "load"
  /\ Computes
  /\ Goto("store")
  /\ UNCHANGED <<loaded, global_counter>>

Load ==
  /\ Counts /\ pc[current] = "load"
  /\ Computes
  /\ loaded' = [loaded EXCEPT ![current] = global_counter[userdata]]
  /\ Goto("store")
  /\ UNCHANGED global_counter

Store ==
  /\ Counts /\ pc[current] = "store"
  /\ Computes
  /\ global_counter' = [global_counter EXCEPT ![userdata] = loaded[current] + 1]
  /\ loaded' = [loaded EXCEPT ![current] = 0]
  /\ Goto("syscall_sleep")

SleepOne ==
  /\ Counts /\ pc[current] = "syscall_sleep"
  /\ Sleep
  /\ Goto("while")
  /\ UNCHANGED <<program, loaded, global_counter>>

(* A function returns into syscall_exit. *)
Return ==
  /\ current # Idle /\ pc[current] = "syscall_exit"
  /\ Exit
  /\ program' = [program EXCEPT ![current] = "none"]
  /\ Goto("none")
  /\ UNCHANGED <<loaded, global_counter>>

ThreadStep ==
  \/ InitExec
  \/ ShellGetc \/ ShellIgnores \/ ShellExec \/ ShellExecRefused
  \/ ParentReset
  \/ \E id \in {"id2", "id3"} : ParentExec(id) \/ ParentExecRefused(id)
  \/ While \/ Load \/ Store \/ SleepOne
  \/ Return

Interrupt == (TimerIrq \/ UartIrq) /\ UNCHANGED programVars

ProgramsNext == ThreadStep \/ Interrupt

(* The timer never stops, and a thread that has the processor again and    *)
(* again gets to its next statement: a time slice lasts longer than that.  *)
Fairness ==
  /\ WF_allVars(TimerIrq /\ UNCHANGED programVars)
  /\ \A t \in Threads \ {ShellThread} : SF_allVars(current = t /\ ThreadStep)

ProgramsSpec == ProgramsInit /\ [][ProgramsNext]_allVars /\ Fairness

-----------------------------------------------------------------------------

(* Every thread has a function to run from the moment it is created until  *)
(* its id is free again; counts are natural numbers.                       *)
ProgramsTypeOK ==
  /\ program \in [Threads -> {"init", "start_usr", "malloc_loop", "none"}
                             \union Counting]
  /\ loaded \in [Threads -> Nat]
  /\ global_counter \in [Procs -> Nat]
  /\ \A t \in Threads : pc[t] = "none" <=> t \in Range(free)

Malloc == {t \in Threads : program[t] = "malloc_loop"}

(* Every counting process ends, although its threads overwrite each        *)
(* other's counts: the lowest of them only grows (LowestNeverFalls).  Its  *)
(* number, its threads and its data can then be used for the next          *)
(* character; what stays is the shell and the malloc loops.                *)
ProcessesEnd ==
  <>[](/\ Used = {ShellThread} \union Malloc
       /\ \A p \in Procs :
            reserved[p] <=> \E t \in Used : thread_process_arr[t] = p)

(* A counting process is not given up before it has counted to             *)
(* LOOP_LENGTH: neither while another of its threads would still store an  *)
(* old, lower count, nor by the end of one thread among three.             *)
CountedBeforeFreed ==
  [][\A p \in Procs :
       reserved[p] /\ ~reserved'[p] => global_counter[p] >= LOOP_LENGTH]_allVars

(* The counts in play in a process: its global_counter, and what threads   *)
(* of it have loaded, have yet to raise and will store back.               *)
CountsOf(p) ==
  {global_counter[p]} \union
  {loaded[t] : t \in {u \in Used : thread_process_arr[u] = p /\ pc[u] = "store"}}

(* Every count that comes into play in a process is no lower than one that *)
(* was, so that the lowest never falls: not by a stale count that is       *)
(* stored, not by a child that joins in the middle, and not by what other  *)
(* processes count in the meantime.  Only the parent's own reset of        *)
(* global_counter (user_thread_functions.c:24) takes the count back.       *)
LowestNeverFalls ==
  [][\A p \in Procs :
       reserved[p] /\ reserved'[p] /\ ~(ParentReset /\ userdata = p)
         => \A new \in CountsOf(p)' : \E old \in CountsOf(p) : old <= new]_allVars

(* A child counts with the thread that created it: user_thread_functions.c *)
(* has both count to LOOP_LENGTH in one global_counter.                    *)
ChildJoinsCreator ==
  [][\A t \in Threads :
       program[t] = "none" /\ program'[t] = "child_runner"
         => thread_process_arr'[t] = thread_process_arr[current]]_allVars

=============================================================================
