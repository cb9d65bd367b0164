------------------------- MODULE ProcessTableProofs -------------------------
(***************************************************************************)
(* What ProcessTable.tla promises holds for any number of threads and      *)
(* processes, as long as the words in front of process_array are foreign   *)
(* to this code (Below = "foreign"); the run RefusedExec shows that it     *)
(* does not hold otherwise.                                                *)
(***************************************************************************)
EXTENDS ProcessTable, FiniteSetTheorems, TLAPS

(* What is said of the table and of the threads in it. *)
TableInv ==
  /\ Accounting
  /\ NoProcessLost
  /\ FreeThreadsUnattached

(* The inductive invariant. *)
IInv == TypeOK /\ TableInv /\ Isolation

(* The owners a thread can have where nothing aliases thread_process_arr. *)
Owners == [Threads -> Procs \union {None}]

-----------------------------------------------------------------------------
(* Threads of a process can be counted. *)

LEMMA ThreadsFinite ==
  ASSUME NEW S, S \subseteq Threads
  PROVE  IsFiniteSet(S) /\ Cardinality(S) \in 0 .. MAX_THREADS
<1>1. IsFiniteSet(Threads) /\ Cardinality(Threads) = MAX_THREADS
  BY FS_Interval, ProcessesAssumption DEF Threads
<1>2. IsFiniteSet(S) /\ Cardinality(S) <= MAX_THREADS
  BY <1>1, FS_Subset
<1> QED
  BY <1>2, FS_CardinalityType

(* The switch shows a thread its own process, if the one before saw its.   *)
LEMMA ScheduleShows ==
  ASSUME NEW arr \in Owners,
         NEW ud \in Procs \union {Boot, Unknown},
         NEW old \in Threads \union {Idle},
         NEW next \in Threads \union {Idle},
         Sees(ud, arr, old)
  PROVE  /\ OnSchedule(ud, arr, old, next) \in Procs \union {Boot, Unknown}
         /\ Sees(OnSchedule(ud, arr, old, next), arr, next)
<1>1. Idle \notin Threads /\ None \notin Procs
  BY ProcessesAssumption DEF Threads, Procs, Idle, None
<1>2. CASE next = Idle
  BY <1>2 DEF OnSchedule, Sees
<1>3. CASE next # Idle /\ ProcessOf(arr, old) = ProcessOf(arr, next)
  BY <1>1, <1>3 DEF OnSchedule, Sees, ProcessOf, Owners
<1>4. CASE next # Idle /\ ProcessOf(arr, old) # ProcessOf(arr, next)
  BY <1>1, <1>4 DEF OnSchedule, Sees, ProcessOf, Owners, DataSection
<1> QED
  BY <1>2, <1>3, <1>4

(* A created thread enters one process; the others keep their threads.     *)
LEMMA Attach ==
  ASSUME NEW n \in Threads \ used, NEW pid \in Procs,
         TypeOK, thread_process_arr \in Owners,
         used' = used \union {n},
         thread_process_arr' = [thread_process_arr EXCEPT ![n] = pid]
  PROVE  /\ thread_process_arr' \in Owners
         /\ \A t \in used : thread_process_arr'[t] = thread_process_arr[t]
         /\ \A p \in Procs :
              /\ ThreadsOf(p)' = IF p = pid THEN ThreadsOf(p) \union {n}
                                            ELSE ThreadsOf(p)
              /\ Cardinality(ThreadsOf(p)') =
                   IF p = pid THEN Cardinality(ThreadsOf(p)) + 1
                              ELSE Cardinality(ThreadsOf(p))
<1>1. used \subseteq Threads
  BY DEF TypeOK
<1>2. \A t \in used : thread_process_arr'[t] = thread_process_arr[t]
  BY <1>1 DEF Owners
<1>3. thread_process_arr'[n] = pid /\ thread_process_arr' \in Owners
  BY DEF Owners
<1>4. ASSUME NEW p \in Procs
      PROVE  ThreadsOf(p)' = IF p = pid THEN ThreadsOf(p) \union {n}
                                        ELSE ThreadsOf(p)
  BY <1>2, <1>3 DEF ThreadsOf
<1>5. ASSUME NEW p \in Procs
      PROVE  IsFiniteSet(ThreadsOf(p)) /\ n \notin ThreadsOf(p)
  BY <1>1, ThreadsFinite DEF ThreadsOf
<1> QED
  BY <1>2, <1>3, <1>4, <1>5, FS_AddElement

(* A thread that ended leaves its process. *)
LEMMA Detach ==
  ASSUME NEW t \in used,
         TypeOK, thread_process_arr \in Owners,
         used' = used \ {t},
         thread_process_arr' = [thread_process_arr EXCEPT ![t] = None]
  PROVE  /\ thread_process_arr' \in Owners
         /\ \A u \in used' : thread_process_arr'[u] = thread_process_arr[u]
         /\ \A p \in Procs :
              /\ ThreadsOf(p)' = ThreadsOf(p) \ {t}
              /\ Cardinality(ThreadsOf(p)') =
                   IF p = thread_process_arr[t]
                   THEN Cardinality(ThreadsOf(p)) - 1
                   ELSE Cardinality(ThreadsOf(p))
<1>1. used \subseteq Threads
  BY DEF TypeOK
<1>2. \A u \in used' : thread_process_arr'[u] = thread_process_arr[u]
  BY <1>1 DEF Owners
<1>3. thread_process_arr' \in Owners
  BY DEF Owners
<1>4. ASSUME NEW p \in Procs
      PROVE  ThreadsOf(p)' = ThreadsOf(p) \ {t}
  BY <1>2 DEF ThreadsOf
<1>5. ASSUME NEW p \in Procs
      PROVE  /\ IsFiniteSet(ThreadsOf(p))
             /\ t \in ThreadsOf(p) <=> p = thread_process_arr[t]
  BY <1>1, ThreadsFinite DEF ThreadsOf
<1> QED
  BY <1>2, <1>3, <1>4, <1>5, FS_RemoveElement

-----------------------------------------------------------------------------
(* The table keeps its invariant over the creation and the end of a        *)
(* thread, whatever the scheduler then does.                               *)

LEMMA CreateKeepsTable ==
  ASSUME ~Aliased, TypeOK, TableInv,
         NEW n \in Threads \ used,
         used' = used \union {n},
         NewProcess(n) \/ JoinProcess(n)
  PROVE  /\ TableInv'
         /\ thread_process_arr' \in Owners
         /\ \A t \in used : thread_process_arr'[t] = thread_process_arr[t]
         /\ reserved' \in [Procs -> BOOLEAN]
         /\ threads_active' \in [Procs -> 0 .. MAX_THREADS]
         /\ scheduler_pid' \in Procs
<1> DEFINE Joins(pid) ==
      /\ thread_process_arr' = [thread_process_arr EXCEPT ![n] = pid]
      /\ threads_active' = [threads_active EXCEPT ![pid] = @ + 1]
      /\ reserved' \in [Procs -> BOOLEAN]
      /\ \A p \in Procs : reserved'[p] => p = pid \/ reserved[p]
      /\ scheduler_pid' = pid
<1>1. PICK pid \in Procs : Joins(pid)
  <2>1. CASE NewProcess(n)
    BY <2>1 DEF NewProcess, TypeOK
  <2>2. CASE JoinProcess(n)
    BY <2>2 DEF JoinProcess, TypeOK
  <2> QED
    BY <2>1, <2>2
<1>2. thread_process_arr \in Owners
  BY DEF TypeOK, Owners
<1>3. /\ thread_process_arr' \in Owners
      /\ \A t \in used : thread_process_arr'[t] = thread_process_arr[t]
      /\ \A p \in Procs :
           /\ ThreadsOf(p)' = IF p = pid THEN ThreadsOf(p) \union {n}
                                         ELSE ThreadsOf(p)
           /\ Cardinality(ThreadsOf(p)') =
                IF p = pid THEN Cardinality(ThreadsOf(p)) + 1
                           ELSE Cardinality(ThreadsOf(p))
  BY <1>1, <1>2, Attach
<1>4. Accounting'
  BY <1>1, <1>3 DEF Accounting, TableInv, TypeOK
<1>5. threads_active' \in [Procs -> 0 .. MAX_THREADS]
  <2>1. used' \subseteq Threads
    BY DEF TypeOK
  <2>2. \A p \in Procs : threads_active'[p] \in 0 .. MAX_THREADS
    BY <1>4, <2>1, ThreadsFinite DEF Accounting, ThreadsOf
  <2> QED
    BY <1>1, <2>2 DEF TypeOK
<1>6. NoProcessLost'
  BY <1>1, <1>3 DEF NoProcessLost, TableInv
<1>7. FreeThreadsUnattached'
  BY <1>1 DEF FreeThreadsUnattached, TableInv, TypeOK
<1> QED
  BY <1>1, <1>3, <1>4, <1>5, <1>6, <1>7 DEF TableInv

LEMMA ExitKeepsTable ==
  ASSUME ~Aliased, TypeOK, TableInv,
         NEW t \in used, t # ShellThread,
         used' = used \ {t},
         OnExit(t)
  PROVE  /\ TableInv'
         /\ thread_process_arr' = [thread_process_arr EXCEPT ![t] = None]
         /\ thread_process_arr' \in Owners
         /\ \A u \in used' : thread_process_arr'[u] = thread_process_arr[u]
         /\ reserved' \in [Procs -> BOOLEAN]
         /\ threads_active' \in [Procs -> 0 .. MAX_THREADS]
         /\ scheduler_pid' \in Procs
<1>1. thread_process_arr' = [thread_process_arr EXCEPT ![t] = None]
  BY DEF OnExit, LeaveProcess, LeaveNoProcess
<1>2. thread_process_arr \in Owners
  BY DEF TypeOK, Owners
<1>3. /\ thread_process_arr' \in Owners
      /\ \A u \in used' : thread_process_arr'[u] = thread_process_arr[u]
      /\ \A p \in Procs :
           /\ ThreadsOf(p)' = ThreadsOf(p) \ {t}
           /\ Cardinality(ThreadsOf(p)') =
                IF p = thread_process_arr[t]
                THEN Cardinality(ThreadsOf(p)) - 1
                ELSE Cardinality(ThreadsOf(p))
  BY <1>1, <1>2, Detach
<1>4. /\ DOMAIN threads_active' = Procs
      /\ \A p \in Procs :
           threads_active'[p] = IF p = thread_process_arr[t]
                                THEN threads_active[p] - 1
                                ELSE threads_active[p]
  BY DEF OnExit, LeaveProcess, LeaveNoProcess, TypeOK
<1>5. Accounting'
  BY <1>3, <1>4 DEF Accounting, TableInv
<1>6. threads_active' \in [Procs -> 0 .. MAX_THREADS]
  <2>1. used' \subseteq Threads
    BY DEF TypeOK
  <2>2. \A p \in Procs : threads_active'[p] \in 0 .. MAX_THREADS
    BY <1>5, <2>1, ThreadsFinite DEF Accounting, ThreadsOf
  <2>3. threads_active' = [p \in Procs |-> threads_active'[p]]
    BY <1>4 DEF OnExit, LeaveProcess, LeaveNoProcess, TypeOK
  <2> QED
    BY <2>2, <2>3
<1>7. reserved' \in [Procs -> BOOLEAN]
  BY DEF OnExit, LeaveProcess, LeaveNoProcess, TypeOK
<1>8. NoProcessLost'
  <2> SUFFICES ASSUME NEW p \in Procs, reserved'[p]
               PROVE  ThreadsOf(p)' # {}
    BY DEF NoProcessLost
  <2>1. reserved[p]
    BY DEF OnExit, LeaveProcess, LeaveNoProcess, TypeOK
  <2>2. CASE p = thread_process_arr[t]
    <3>1. threads_active[p] - 1 > 0
      BY <2>2 DEF OnExit, LeaveProcess, LeaveNoProcess, TypeOK
    <3>2. Cardinality(ThreadsOf(p)') > 0
      BY <1>4, <1>5, <2>2, <3>1 DEF Accounting
    <3> QED
      BY <3>2, FS_EmptySet
  <2>3. CASE p # thread_process_arr[t]
    <3>1. t \notin ThreadsOf(p)
      BY <2>3 DEF ThreadsOf
    <3> QED
      BY <1>3, <2>1, <3>1 DEF NoProcessLost, TableInv
  <2> QED
    BY <2>2, <2>3
<1>9. FreeThreadsUnattached'
  BY <1>1 DEF FreeThreadsUnattached, TableInv, TypeOK
<1> QED
  BY <1>1, <1>3, <1>5, <1>6, <1>7, <1>8, <1>9 DEF TableInv, OnExit, TypeOK

-----------------------------------------------------------------------------
(* The invariant is inductive. *)

LEMMA InitIInv == ~Aliased /\ Init => IInv
<1> SUFFICES ASSUME ~Aliased, Init PROVE IInv
  OBVIOUS
<1>1. TypeOK
  BY ProcessesAssumption
  DEF Init, ProcessInit, TypeOK, Threads, Procs, InitThread, None, Boot
<1>2. \A p \in Procs : ThreadsOf(p) = {}
  BY ProcessesAssumption
  DEF Init, ProcessInit, ThreadsOf, InitThread, Threads, Procs, None
<1>3. TableInv
  BY <1>2, FS_EmptySet
  DEF TableInv, Accounting, NoProcessLost, FreeThreadsUnattached, Init, ProcessInit
<1>4. Isolation
  BY ProcessesAssumption
  DEF Init, ProcessInit, Isolation, Sees, InitThread, Threads
<1> QED
  BY <1>1, <1>3, <1>4 DEF IInv

(* A step keeps the invariant, and the owner of every thread that lives on. *)
LEMMA StepIInv ==
  ASSUME ~Aliased, IInv, [Next]_vars
  PROVE  /\ IInv'
         /\ \A t \in used \intersect used' :
              thread_process_arr'[t] = thread_process_arr[t]
<1> DEFINE OwnersKept == \A t \in used \intersect used' :
                           thread_process_arr'[t] = thread_process_arr[t]
<1> USE DEF IInv
<1>1. /\ used \subseteq Threads /\ current \in Threads \union {Idle}
      /\ thread_process_arr \in Owners
  BY DEF TypeOK, Owners
<1>2. Idle \notin Threads
  BY DEF Threads, Idle
<1>3. ASSUME NEW n \in Threads \ used,
             NewProcess(n) \/ JoinProcess(n),
             used' = used \union {n},
             UNCHANGED current
      PROVE  IInv' /\ OwnersKept
  <2>1. /\ TableInv'
        /\ thread_process_arr' \in Owners
        /\ \A t \in used : thread_process_arr'[t] = thread_process_arr[t]
        /\ reserved' \in [Procs -> BOOLEAN]
        /\ threads_active' \in [Procs -> 0 .. MAX_THREADS]
        /\ scheduler_pid' \in Procs
    BY <1>3, CreateKeepsTable
  <2>2. userdata' = userdata
    BY <1>3 DEF NewProcess, JoinProcess
  <2>3. TypeOK'
    BY <1>1, <1>3, <2>1, <2>2 DEF TypeOK, Owners, Aliased
  <2>4. Isolation'
    BY <1>3, <2>1, <2>2 DEF Isolation, Sees, TypeOK
  <2> QED
    BY <2>1, <2>3, <2>4
<1>4. ASSUME MayEnd(current),
             OnExit(current),
             used' = used \ {current}
      PROVE  /\ TableInv'
             /\ thread_process_arr' = [thread_process_arr EXCEPT ![current] = None]
             /\ thread_process_arr' \in Owners
             /\ OwnersKept
             /\ reserved' \in [Procs -> BOOLEAN]
             /\ threads_active' \in [Procs -> 0 .. MAX_THREADS]
             /\ scheduler_pid' \in Procs
             /\ Sees(userdata, thread_process_arr', current)
  <2>1. current \in used /\ current # ShellThread
    BY <1>4 DEF MayEnd
  <2>2. /\ TableInv'
        /\ thread_process_arr' = [thread_process_arr EXCEPT ![current] = None]
        /\ thread_process_arr' \in Owners
        /\ \A u \in used' : thread_process_arr'[u] = thread_process_arr[u]
        /\ reserved' \in [Procs -> BOOLEAN]
        /\ threads_active' \in [Procs -> 0 .. MAX_THREADS]
        /\ scheduler_pid' \in Procs
    BY <1>4, <2>1, ExitKeepsTable
  <2>3. Sees(userdata, thread_process_arr', current)
    BY <1>1, <2>1, <2>2 DEF Sees, Owners
  <2> QED
    BY <2>2, <2>3
<1>5. CASE StartShell
  BY <1>3, <1>5, ProcessesAssumption DEF StartShell, ShellThread, Threads
<1>6. CASE \E n \in Threads, flags \in Flags : Exec(n, flags)
  BY <1>3, <1>6 DEF Exec, OnCreate
<1>7. CASE ExecRefused
  <2>1. UNCHANGED vars
    BY <1>7 DEF ExecRefused, NoProcessLeft, vars, processVars
  <2> QED
    BY <2>1
    DEF vars, processVars, TypeOK, TableInv, Accounting, NoProcessLost, ThreadsOf,
        FreeThreadsUnattached, Isolation, Sees, Aliased
<1>8. CASE \E next \in Threads \union {Idle} : Switch(next)
  <2> PICK next \in Threads \union {Idle} : Switch(next)
    BY <1>8
  <2>1. /\ next \in used \union {Idle}
        /\ current' = next
        /\ userdata' = OnSchedule(userdata, thread_process_arr, current, next)
        /\ UNCHANGED <<thread_process_arr, reserved, threads_active, scheduler_pid, used>>
    BY DEF Switch, SwitchTo
  <2>2. userdata' \in Procs \union {Boot, Unknown} /\ Isolation'
    BY <1>1, <2>1, ScheduleShows DEF Isolation, TypeOK
  <2>3. TypeOK' /\ TableInv' /\ OwnersKept
    BY <2>1, <2>2
    DEF TypeOK, TableInv, Accounting, NoProcessLost, FreeThreadsUnattached,
        ThreadsOf, Aliased
  <2> QED
    BY <2>2, <2>3
<1>9. CASE \E next \in Threads \union {Idle} : Exit(next)
  <2> PICK next \in Threads \union {Idle} : Exit(next)
    BY <1>9
  <2>1. /\ next \in used' \union {Idle}
        /\ used' = used \ {current}
        /\ current' = next
        /\ userdata' = OnSchedule(userdata, thread_process_arr', current, next)
        /\ MayEnd(current) /\ OnExit(current)
    BY DEF Exit, SwitchTo
  <2>2. userdata' \in Procs \union {Boot, Unknown} /\ Isolation'
    BY <1>1, <1>4, <2>1, ScheduleShows DEF Isolation, TypeOK
  <2>3. TypeOK'
    BY <1>1, <1>4, <2>1, <2>2 DEF TypeOK, Owners, Aliased
  <2> QED
    BY <1>4, <2>1, <2>2, <2>3
<1>10. CASE \E skipped, next \in Threads \union {Idle} : UnknownCall(skipped, next)
  <2> PICK skipped \in Threads \union {Idle}, next \in Threads \union {Idle} :
        UnknownCall(skipped, next)
    BY <1>10
  <2> DEFINE between == OnSchedule(userdata, thread_process_arr', current, skipped)
  <2>1. /\ {skipped, next} \subseteq used' \union {Idle}
        /\ used' = used \ {current}
        /\ current' = next
        /\ userdata' = OnSchedule(between, thread_process_arr', skipped, next)
        /\ MayEnd(current) /\ OnExit(current)
    BY DEF UnknownCall
  <2>2. /\ between \in Procs \union {Boot, Unknown}
        /\ Sees(between, thread_process_arr', skipped)
    BY <1>1, <1>4, <2>1, ScheduleShows DEF TypeOK
  <2> HIDE DEF between
  <2>3. userdata' \in Procs \union {Boot, Unknown} /\ Isolation'
    BY <1>4, <2>1, <2>2, ScheduleShows DEF Isolation
  <2>4. TypeOK'
    BY <1>1, <1>4, <2>1, <2>3 DEF TypeOK, Owners, Aliased
  <2> QED
    BY <1>4, <2>1, <2>3, <2>4
<1>11. CASE UNCHANGED vars
  BY <1>11
  DEF vars, processVars, TypeOK, TableInv, Accounting, NoProcessLost, ThreadsOf,
      FreeThreadsUnattached, Isolation, Sees, Aliased
<1> QED
  BY <1>5, <1>6, <1>7, <1>8, <1>9, <1>10, <1>11 DEF Next

-----------------------------------------------------------------------------

(* The invariant holds in every state of every behaviour. *)
THEOREM TableInvariant == ~Aliased => (Spec => []IInv)
<1> SUFFICES ASSUME ~Aliased PROVE Spec => []IInv
  OBVIOUS
<1>1. Init => IInv
  BY InitIInv
<1>2. IInv /\ [Next]_vars => IInv'
  BY StepIInv
<1> QED
  BY <1>1, <1>2, PTL DEF Spec

(* Ids, counters and the mapping of the user data stay in their ranges. *)
THEOREM TypeCorrect == ~Aliased => (Spec => []TypeOK)
<1>1. IInv => TypeOK
  BY DEF IInv
<1> QED
  BY <1>1, TableInvariant, PTL

(* threads_active is the number of threads of its process. *)
THEOREM AccountingHolds == ~Aliased => (Spec => []Accounting)
<1>1. IInv => Accounting
  BY DEF IInv, TableInv
<1> QED
  BY <1>1, TableInvariant, PTL

(* Processes do not stay reserved without a thread. *)
THEOREM NoProcessIsLost == ~Aliased => (Spec => []NoProcessLost)
<1>1. IInv => NoProcessLost
  BY DEF IInv, TableInv
<1> QED
  BY <1>1, TableInvariant, PTL

(* An id that is not in use belongs to no process. *)
THEOREM FreeThreadsStayUnattached == ~Aliased => (Spec => []FreeThreadsUnattached)
<1>1. IInv => FreeThreadsUnattached
  BY DEF IInv, TableInv
<1> QED
  BY <1>1, TableInvariant, PTL

(* A thread that runs sees the data of its own process. *)
THEOREM IsolationHolds == ~Aliased => (Spec => []Isolation)
<1>1. IInv => Isolation
  BY DEF IInv
<1> QED
  BY <1>1, TableInvariant, PTL

(* No thread is ever moved to another process. *)
THEOREM OwnersAreStable == ~Aliased => (Spec => OwnerStable)
<1> SUFFICES ASSUME ~Aliased PROVE Spec => OwnerStable
  OBVIOUS
<1>1. IInv /\ [Next]_vars
        => [\A t \in used \intersect used' :
              thread_process_arr'[t] = thread_process_arr[t]]_vars
  BY StepIInv
<1>2. Spec => []IInv
  BY TableInvariant
<1> QED
  BY <1>1, <1>2, PTL DEF Spec, OwnerStable

=============================================================================
