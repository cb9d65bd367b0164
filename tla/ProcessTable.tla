---------------------------- MODULE ProcessTable ----------------------------
(***************************************************************************)
(* The process table under any scheduler.  What this module asks of the    *)
(* scheduler is no more than include/scheduler.h promises of its           *)
(* callbacks: the id of a new thread is of none in use, the processor goes *)
(* to a thread in use or to the idle thread, and a thread that ended is    *)
(* not in use.  In what order threads run is left open: Kernel.tla fixes   *)
(* it and is shown to implement this module.                               *)
(*                                                                         *)
(* The program starts in thread 0, in init(), where timer_start() returns: *)
(* from there on it can be preempted.                                      *)
(***************************************************************************)
EXTENDS Processes

VARIABLES
  used,      \* the threads that were created and have not ended
  current    \* the thread that runs

vars == <<processVars, used, current>>

Init ==
  /\ ProcessInit
  /\ used = {InitThread}
  /\ current = InitThread

-----------------------------------------------------------------------------

SwitchTo(next, arr) ==
  /\ current' = next
  /\ userdata' = OnSchedule(userdata, arr, current, next)

(* Thread 0 is still init(): user threads have a process. *)
InitRuns == current = InitThread /\ thread_process_arr[InitThread] = None

(* init() starts the shell in a process of its own. *)
StartShell ==
  /\ InitRuns /\ ShellThread \notin used
  /\ NewProcess(ShellThread)
  /\ used' = used \union {ShellThread}
  /\ UNCHANGED current

(* EXEC by a user thread, granted. *)
Exec(n, flags) ==
  /\ current \in used /\ ~InitRuns
  /\ n \notin used
  /\ OnCreate(n, flags)
  /\ used' = used \union {n}
  /\ UNCHANGED current

(* EXEC by a user thread, refused by scheduler_on_create: the scheduler    *)
(* drops the thread it was about to create.                                *)
ExecRefused ==
  /\ current \in used /\ ~InitRuns
  /\ used # Threads
  /\ NoProcessLeft
  /\ UNCHANGED <<used, current>>

(* The running thread is preempted, sleeps or waits. *)
Switch(next) ==
  /\ next \in used \union {Idle}
  /\ SwitchTo(next, thread_process_arr)
  /\ UNCHANGED <<thread_process_arr, reserved, threads_active, scheduler_pid, used>>

(* start_usr() never ends; init() ends once it has started the shell. *)
MayEnd(t) == t \in used \ {ShellThread} /\ ShellThread \in used

(* EXIT, or an abort in user mode. *)
Exit(next) ==
  /\ MayEnd(current)
  /\ OnExit(current)
  /\ used' = used \ {current}
  /\ next \in used' \union {Idle}
  /\ SwitchTo(next, thread_process_arr')

(* A system call with an unknown number: exception() ends the thread and   *)
(* then gives the processor away again, to next, past the thread the       *)
(* scheduler had given it to.                                              *)
UnknownCall(skipped, next) ==
  /\ MayEnd(current)
  /\ OnExit(current)
  /\ used' = used \ {current}
  /\ {skipped, next} \subseteq used' \union {Idle}
  /\ current' = next
  /\ userdata' =
       OnSchedule(OnSchedule(userdata, thread_process_arr', current, skipped),
                  thread_process_arr', skipped, next)

Next ==
  \/ StartShell
  \/ \E n \in Threads, flags \in Flags : Exec(n, flags)
  \/ ExecRefused
  \/ \E next \in Threads \union {Idle} : Switch(next) \/ Exit(next)
  \/ \E skipped, next \in Threads \union {Idle} : UnknownCall(skipped, next)

Spec == Init /\ [][Next]_vars

-----------------------------------------------------------------------------

ThreadsOf(p) == {t \in used : thread_process_arr[t] = p}

(* Fields and ids stay in the ranges the arrays were declared for; only    *)
(* where the words before process_array are thread_process_arr can that    *)
(* array leave its range, and then no further than PidCap.                 *)
TypeOK ==
  /\ thread_process_arr \in
       [Threads -> IF Aliased THEN -2 .. MAX_PROCESSES + PidCap
                              ELSE Procs \union {None}]
  /\ reserved \in [Procs -> BOOLEAN]
  /\ threads_active \in [Procs -> 0 .. MAX_THREADS]
  /\ scheduler_pid \in Procs
  /\ userdata \in Procs \union {Boot, Unknown}
  /\ used \subseteq Threads
  /\ current \in used \union {Idle}

(* threads_active counts, for every process and also for a free one, the   *)
(* threads thread_process_arr gives it (scheduler.c: raised in             *)
(* scheduler_on_create, lowered in scheduler_on_exit).                     *)
Accounting ==
  \A p \in Procs : threads_active[p] = Cardinality(ThreadsOf(p))

(* No process stays reserved when its last thread is gone: none of the     *)
(* MAX_PROCESSES is ever lost (scheduler_on_exit, free_process).           *)
NoProcessLost ==
  \A p \in Procs : reserved[p] => ThreadsOf(p) # {}

(* When thread t runs, a process it belongs to is the one ud shows. *)
Sees(ud, arr, t) == t # Idle /\ arr[t] # None => ud = arr[t]

(* A thread of a process that runs sees the data section of its process    *)
(* and of no other, after every switch, also past the idle thread, past    *)
(* threads without a process, and after a thread ended                     *)
(* (scheduler_on_schedule skips the mapping when the two ids are equal).   *)
Isolation == Sees(userdata, thread_process_arr, current)

(* The id of a thread that is not in use belongs to no process: what       *)
(* get_process_id says of it was reset when its last owner ended.          *)
FreeThreadsUnattached ==
  \A t \in Threads \ used : thread_process_arr[t] = None

(* As long as a thread lives nothing moves it to another process: not the  *)
(* creation of threads, nor a refused one, nor the end of others.          *)
OwnerStable ==
  [][\A t \in used \intersect used' :
       thread_process_arr'[t] = thread_process_arr[t]]_vars

=============================================================================
