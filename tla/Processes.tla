----------------------------- MODULE Processes -----------------------------
(***************************************************************************)
(* The process table: src/system/process.c and the three callbacks of      *)
(* src/scheduler/scheduler.c by which the scheduler tells it that a thread *)
(* was created, ended, or that the processor goes from one thread to       *)
(* another.                                                                *)
(*                                                                         *)
(* The fields of process_array are functions of the process id.  The       *)
(* translation table of src/memory/mmu.c appears by the one entry the      *)
(* switch changes: userdata is the process whose data section              *)
(* L1_TABLE[USER_DATA] points to.                                          *)
(***************************************************************************)
EXTENDS Integers, FiniteSets

CONSTANTS
  MAX_THREADS,    \* ids of threads are 0 .. MAX_THREADS-1
  MAX_PROCESSES,  \* ids of processes are 0 .. MAX_PROCESSES-1
  Below,          \* what the linker put in front of process_array
  PidCap          \* bound: refused executions add to a word no further than this

ASSUME ProcessesAssumption ==
  /\ MAX_THREADS \in Nat /\ MAX_THREADS >= 4
  /\ MAX_PROCESSES \in Nat \ {0}
  /\ Below \in {"foreign", "thread_process_arr"}
  /\ PidCap \in Nat

VARIABLES
  thread_process_arr,  \* the process a thread belongs to
  reserved,            \* process_array[p].reserved
  threads_active,      \* process_array[p].threads_active
  scheduler_pid,       \* the process created last
  userdata             \* whose data section the user data pages show

processVars ==
  <<thread_process_arr, reserved, threads_active, scheduler_pid, userdata>>

Threads == 0 .. MAX_THREADS - 1
Procs   == 0 .. MAX_PROCESSES - 1

None == -1            \* "no process", and the result of a failed search
Idle == -1            \* IDLE_THREAD_ID
InitThread  == 0      \* runs init(), in system mode, and can be given out again after it
ShellThread == 1      \* runs start_usr()
Last == MAX_THREADS - 1

Boot    == -2         \* USER_DATA still maps the section the linker filled
Unknown == -3         \* USER_DATA maps a section no process owns

Flags == {"PARENT", "CHILD"}

(***************************************************************************)
(* The code also indexes process_array with -1.  What it then reads and    *)
(* writes are the words in front of the array: either memory none of this  *)
(* code looks at ("foreign"), or the end of thread_process_arr, declared   *)
(* just before it ("thread_process_arr").  In the second case              *)
(* process_array[-1].threads_active is thread_process_arr[MAX_THREADS-1]   *)
(* and process_array[-1].reserved is thread_process_arr[MAX_THREADS-3].    *)
(***************************************************************************)
Aliased == Below = "thread_process_arr"

ProcessInit ==
  /\ thread_process_arr = [t \in Threads |-> None]
  /\ reserved = [p \in Procs |-> FALSE]
  /\ threads_active = [p \in Procs |-> 0]
  /\ scheduler_pid = 0
  /\ userdata = Boot

(* get_process_id, over a given thread_process_arr. *)
ProcessOf(arr, t) == IF t \in Threads THEN arr[t] ELSE None

(* find_free_process_address() returns pid: the first process that is not  *)
(* reserved, or None.                                                      *)
FindFreeProcess(pid) ==
  \/ pid \in Procs /\ ~reserved[pid] /\ \A q \in 0 .. pid-1 : reserved[q]
  \/ pid = None /\ \A p \in Procs : reserved[p]

-----------------------------------------------------------------------------

(* scheduler_on_create(n, PARENT) when process_create finds a process.     *)
NewProcess(n) ==
  \E pid \in Procs :
    /\ FindFreeProcess(pid)
    /\ thread_process_arr' = [thread_process_arr EXCEPT ![n] = pid]
    /\ reserved' = [reserved EXCEPT ![pid] = TRUE]
    /\ threads_active' = [threads_active EXCEPT ![pid] = @ + 1]
    /\ scheduler_pid' = pid
    /\ UNCHANGED userdata

(* scheduler_on_create(n, PARENT) when all are taken: the counter of       *)
(* process_array[-1] is raised before the result -1 is looked at.          *)
NoProcessLeft ==
  /\ FindFreeProcess(None)
  /\ IF Aliased
     THEN /\ thread_process_arr[Last] < PidCap
          /\ thread_process_arr' = [thread_process_arr EXCEPT ![Last] = @ + 1]
     ELSE UNCHANGED thread_process_arr
  /\ UNCHANGED <<reserved, threads_active, scheduler_pid, userdata>>

(* Mutant of JoinProcess: the counter is forgotten. *)
JoinUncounted(n) ==
  /\ thread_process_arr' = [thread_process_arr EXCEPT ![n] = scheduler_pid]
  /\ UNCHANGED <<reserved, threads_active, scheduler_pid, userdata>>

(* scheduler_on_create(n, CHILD): the thread joins the process created     *)
(* last, whichever process the caller belongs to.                          *)
JoinProcess(n) ==
  /\ thread_process_arr' = [thread_process_arr EXCEPT ![n] = scheduler_pid]
  /\ threads_active' = [threads_active EXCEPT ![scheduler_pid] = @ + 1]
  /\ UNCHANGED <<reserved, scheduler_pid, userdata>>

(* scheduler_on_create(n, flags) when it returns 0.  (It also returns 0 for *)
(* flags other than 0 and 1, which the model leaves out as no program of   *)
(* the repository passes them: the thread would be in no process.)         *)
OnCreate(n, flags) ==
  \/ flags = "PARENT" /\ NewProcess(n)
  \/ flags = "CHILD"  /\ JoinProcess(n)

-----------------------------------------------------------------------------

(* Mutants of LeaveProcess: the counter is lowered once more when the      *)
(* process is freed; the process is never freed; the thread keeps its      *)
(* process; all threads of the process lose it.                            *)
LeaveTwice(t) ==
  LET pid == thread_process_arr[t] IN
  /\ pid \in Procs
  /\ threads_active' = [threads_active EXCEPT ![pid] = IF @ = 1 THEN -1 ELSE @ - 1]
  /\ reserved' = [reserved EXCEPT ![pid] = @ /\ threads_active[pid] - 1 > 0]
  /\ thread_process_arr' = [thread_process_arr EXCEPT ![t] = None]

LeaveReserved(t) ==
  LET pid == thread_process_arr[t] IN
  /\ pid \in Procs
  /\ threads_active' = [threads_active EXCEPT ![pid] = @ - 1]
  /\ thread_process_arr' = [thread_process_arr EXCEPT ![t] = None]
  /\ UNCHANGED reserved

LeaveUnreset(t) ==
  LET pid == thread_process_arr[t] IN
  /\ pid \in Procs
  /\ threads_active' = [threads_active EXCEPT ![pid] = @ - 1]
  /\ reserved' = [reserved EXCEPT ![pid] = @ /\ threads_active[pid] - 1 > 0]
  /\ UNCHANGED thread_process_arr

LeaveTogether(t) ==
  LET pid == thread_process_arr[t] IN
  /\ pid \in Procs
  /\ threads_active' = [threads_active EXCEPT ![pid] = 0]
  /\ reserved' = [reserved EXCEPT ![pid] = FALSE]
  /\ thread_process_arr' = [u \in Threads |->
        IF thread_process_arr[u] = pid THEN None ELSE thread_process_arr[u]]

(* scheduler_on_exit(t) for a thread with a process. *)
LeaveProcess(t) ==
  LET pid == thread_process_arr[t] IN
  /\ pid \in Procs
  /\ threads_active' = [threads_active EXCEPT ![pid] = @ - 1]
  /\ reserved' = [reserved EXCEPT ![pid] = @ /\ threads_active[pid] - 1 > 0]
  /\ thread_process_arr' = [thread_process_arr EXCEPT ![t] = None]

(* scheduler_on_exit(t) for a thread without one, as init() is: the        *)
(* counter it lowers and the process it frees are those of                 *)
(* process_array[-1].  A pid past the array touches foreign memory.        *)
LeaveNoProcess(t) ==
  LET pid == thread_process_arr[t]
      lowered == [thread_process_arr EXCEPT ![Last] = @ - 1]
      freed == IF lowered[Last] <= 0
               THEN [lowered EXCEPT ![MAX_THREADS - 3] = 0]
               ELSE lowered
  IN
  /\ pid \notin Procs
  /\ thread_process_arr' =
       IF Aliased /\ pid = None THEN [freed EXCEPT ![t] = None]
                                ELSE [thread_process_arr EXCEPT ![t] = None]
  /\ UNCHANGED <<reserved, threads_active>>

(* scheduler_on_exit(t).  Thread 1 is exempt. *)
OnExit(t) ==
  /\ UNCHANGED scheduler_pid
  /\ \/ t = ShellThread /\ UNCHANGED <<thread_process_arr, reserved, threads_active>>
     \/ t # ShellThread /\ (LeaveProcess(t) \/ LeaveNoProcess(t))

-----------------------------------------------------------------------------

(* process_switch(pid): map_userdata_to(process_array[pid].data_address). *)
DataSection(pid) == IF pid \in Procs THEN pid ELSE Unknown

(* Mutant of OnSchedule: nothing is mapped when the idle thread is left,   *)
(* as nothing is when it is entered.                                       *)
ScheduleSkipsIdle(ud, arr, old, next) ==
  IF Idle \in {old, next} \/ ProcessOf(arr, old) = ProcessOf(arr, next)
  THEN ud
  ELSE DataSection(ProcessOf(arr, next))

(* scheduler_on_schedule(old, next): what USER_DATA maps afterwards, when  *)
(* it mapped ud and thread_process_arr is arr.                             *)
OnSchedule(ud, arr, old, next) ==
  IF next = Idle \/ ProcessOf(arr, old) = ProcessOf(arr, next)
  THEN ud
  ELSE DataSection(ProcessOf(arr, next))

=============================================================================
