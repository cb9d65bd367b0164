---------------------------- MODULE MemoryProofs ----------------------------
(***************************************************************************)
(* Theorems on Memory, for any number of threads, of processes up to the 8 *)
(* the table has sections for, and of sections: where the words in front   *)
(* of process_array are foreign memory and the core loads a translation    *)
(* only when it is used.                                                   *)
(***************************************************************************)
EXTENDS Memory, ProcessTableProofs

(* The entry of a section that both modes may write. *)
Writable(s) == [section |-> s, ap |-> AP_FULL_ACCESS]

(* The table has its entries for the processes, all but two of its entries *)
(* are as mmu_init() left them, and the core goes by those of the process  *)
(* whose data the user sees.                                               *)
Mapped ==
  /\ DOMAIN L1_TABLE = Sections
  /\ DOMAIN contents = PrivateSections
  /\ \A s \in Sections \ UserEntries :
       L1_TABLE[s] = [section |-> s, ap |-> Granted(s)]
  /\ \A p \in Procs :
       /\ L1_TABLE[DataAddress(p)] = Writable(DataAddress(p))
       /\ L1_TABLE[HeapAddress(p)] = Writable(HeapAddress(p))
       /\ userdata = p =>
            /\ tlb[USER_DATA] = Writable(DataAddress(p))
            /\ tlb[USER_HEAP] = Writable(HeapAddress(p))

(* Only init() has no process. *)
Attached == \A t \in used \ {InitThread} : thread_process_arr[t] # None

(* Until the shell is started init() is alone, and the user's data are     *)
(* where they were linked.                                                 *)
BeforeShell ==
  ShellThread \notin used =>
    /\ used = {InitThread}
    /\ thread_process_arr[InitThread] = None
    /\ tlb[USER_DATA].section = USER_DATA

(* The inductive invariant. *)
MemoryInv == IInv /\ Mapped /\ Attached /\ BeforeShell

-----------------------------------------------------------------------------
(* The layout of the table. *)

(* The sections of processes are in the table and apart from each other    *)
(* and from the entries that the switch changes.                           *)
LEMMA Layout ==
  /\ UserEntries \subseteq Sections
  /\ USER_DATA # USER_HEAP
  /\ \A p \in Procs :
       /\ {DataAddress(p), HeapAddress(p)} \subseteq Sections \ UserEntries
       /\ DataAddress(p) + 16 = HeapAddress(p)
       /\ \A q \in Procs : /\ DataAddress(p) # HeapAddress(q)
                           /\ DataAddress(p) = DataAddress(q) => p = q
                           /\ HeapAddress(p) = HeapAddress(q) => p = q
<1>1. /\ MAX_PROCESSES \in Nat /\ MAX_PROCESSES <= 8
      /\ L1_TABLE_SIZE \in Nat /\ L1_TABLE_SIZE >= 56
  BY ProcessesAssumption, MemoryAssumption
<1> QED
  BY <1>1 DEF UserEntries, USER_DATA, USER_HEAP, Sections, DataAddress,
              HeapAddress, Procs

(* mmu_init() makes the data and heap sections of processes writable.      *)
LEMMA ProcessSectionsWritable ==
  \A p \in Procs : /\ Granted(DataAddress(p)) = AP_FULL_ACCESS
                   /\ Granted(HeapAddress(p)) = AP_FULL_ACCESS
<1> TAKE p \in Procs
<1>1. p \in 0 .. 7
  BY ProcessesAssumption, MemoryAssumption DEF Procs
<1>2. ASSUME NEW s \in 8 .. 15 \union 16 .. 47
      PROVE  Granted(s) = AP_FULL_ACCESS
  <2>1. /\ s \notin {KERNEL_INIT, KERNEL_TEXT, KERNEL_RODATA}
        /\ s \notin {0, USER_TEXT, USER_RODATA, USER_HEAP}
        /\ s # USER_DATA
        /\ s \notin Beyond /\ s \notin HeapSections
    BY MemoryAssumption
    DEF KERNEL_INIT, KERNEL_TEXT, KERNEL_RODATA, USER_TEXT, USER_RODATA, USER_HEAP,
        USER_DATA, Beyond, HeapSections
  <2>2. s \in ProcessSections \union StackSections
    BY DEF ProcessSections, StackSections
  <2> QED
    BY <2>1, <2>2, Zenon DEF Granted
<1>3. DataAddress(p) \in 8 .. 15 /\ HeapAddress(p) \in 16 .. 47
  BY <1>1 DEF DataAddress, HeapAddress
<1> QED
  BY <1>2, <1>3

-----------------------------------------------------------------------------
(* Steps. *)

(* With the invariant, a thread of a process that runs has its own sections. *)
LEMMA InvGivesOwnSections == ~Aliased /\ MemoryInv => OwnSections
<1> SUFFICES ASSUME ~Aliased, MemoryInv,
                    NEW p \in Procs, current # Idle, thread_process_arr[current] = p
             PROVE  userdata = p
  BY DEF OwnSections, MemoryInv, Mapped, Writable
<1>1. p # None
  BY ProcessesAssumption DEF Procs, None
<1> QED
  BY <1>1 DEF MemoryInv, IInv, Isolation, Sees

(* Where the stores of a thread go.                                        *)
LEMMA SectionsInUse ==
  ASSUME ~Aliased, MemoryInv, NEW p \in Procs,
         current # Idle, thread_process_arr[current] = p
  PROVE  tlb[USER_DATA].section = DataAddress(p) /\ tlb[USER_HEAP].section = HeapAddress(p)
<1>1. /\ tlb[USER_DATA] = [section |-> DataAddress(p), ap |-> AP_FULL_ACCESS]
      /\ tlb[USER_HEAP] = [section |-> HeapAddress(p), ap |-> AP_FULL_ACCESS]
  BY InvGivesOwnSections, Zenon DEF OwnSections
<1> QED
  BY <1>1

(* The ranges of mmu.c leave the kernel's sections to the kernel.          *)
LEMMA KernelSections ==
  ASSUME NEW s \in {KERNEL_INIT, KERNEL_TEXT, KERNEL_RODATA}
  PROVE  ~UserReads(Granted(s)) /\ s # USER_DATA
<1>1. /\ s \notin {0, USER_TEXT, USER_RODATA, USER_HEAP} /\ s # USER_DATA
      /\ s \notin Beyond
      /\ s \notin ProcessSections \union StackSections /\ s \notin HeapSections
  BY MemoryAssumption
  DEF KERNEL_INIT, KERNEL_TEXT, KERNEL_RODATA, USER_TEXT, USER_RODATA, USER_HEAP,
      USER_DATA, Beyond, ProcessSections, StackSections, HeapSections
<1>2. Granted(s) = AP_SYS_ACCESS
  BY <1>1, Zenon DEF Granted
<1> QED
  BY <1>1, <1>2 DEF UserReads, AP_SYS_ACCESS

(* With the invariant, user mode reaches none of them.                     *)
LEMMA InvShieldsKernel == ~Aliased /\ MemoryInv => KernelShielded
<1> DEFINE Kernel == {KERNEL_INIT, KERNEL_TEXT, KERNEL_RODATA}
<1> SUFFICES ASSUME ~Aliased, MemoryInv,
                    current # Idle, thread_process_arr[current] # None,
                    NEW e \in Sections
             PROVE  /\ UserReads(Entry(e).ap) => Entry(e).section \notin Kernel
                    /\ UserWrites(Entry(e).ap) => Entry(e).section # USER_DATA
  BY DEF KernelShielded
<1>1. CASE e \in UserEntries
  <2>1. thread_process_arr[current] \in Procs
    BY DEF MemoryInv, IInv, TypeOK, Aliased
  <2>2. PICK p \in Procs : Entry(e).section \in {DataAddress(p), HeapAddress(p)}
    BY <1>1, <2>1, SectionsInUse DEF Entry, UserEntries
  <2>3. \A s \in {DataAddress(p), HeapAddress(p)} : s \notin Kernel /\ s # USER_DATA
    BY ProcessesAssumption
    DEF Procs, DataAddress, HeapAddress, KERNEL_INIT, KERNEL_TEXT, KERNEL_RODATA,
        USER_DATA
  <2> QED
    BY <2>2, <2>3
<1>2. CASE e \notin UserEntries
  <2>1. Entry(e).section = e /\ Entry(e).ap = Granted(e)
    BY <1>2 DEF Entry, MemoryInv, Mapped
  <2> QED
    BY <1>2, <2>1, KernelSections DEF UserEntries
<1> QED
  BY <1>1, <1>2

(* The invariant holds when mmu_init() and process_init() are done.        *)
LEMMA InitMemoryInv == ~Aliased /\ MemoryInit => MemoryInv
<1> SUFFICES ASSUME ~Aliased, MemoryInit PROVE MemoryInv
  OBVIOUS
<1>1. IInv
  BY InitIInv DEF MemoryInit
<1>2. \A s \in Sections : L1_TABLE[s] = [section |-> s, ap |-> Granted(s)]
  BY DEF MemoryInit, L1_TABLE_init
<1>3. \A p \in Procs : userdata # p
  BY ProcessesAssumption DEF MemoryInit, Init, ProcessInit, Procs, Boot
<1>4. Mapped
  BY <1>2, <1>3, Layout, ProcessSectionsWritable
  DEF Mapped, Writable, MemoryInit, L1_TABLE_init
<1>5. tlb[USER_DATA].section = USER_DATA
  BY <1>2, Layout DEF MemoryInit, UserEntries, L1_TABLE_init
<1>6. thread_process_arr[InitThread] = None /\ used = {InitThread}
  BY ProcessesAssumption DEF MemoryInit, Init, ProcessInit, InitThread, Threads
<1> QED
  BY <1>1, <1>4, <1>5, <1>6 DEF MemoryInv, Attached, BeforeShell

(* A thread that a step creates has a process, and before the shell runs   *)
(* no other is created, nor does a thread end.                             *)
LEMMA CreateStep ==
  ASSUME ~Aliased, MemoryInv, Create
  PROVE  /\ [Next]_vars
         /\ userdata' = userdata
         /\ Attached'
         /\ ShellThread \in used'
         /\ ShellThread \notin used => thread_process_arr[current] = None
<1>1. [Next]_vars
  BY DEF Create, Next
<1>2. \A t \in used \intersect used' : thread_process_arr'[t] = thread_process_arr[t]
  BY <1>1, StepIInv DEF MemoryInv
<1>3. /\ used \subseteq Threads /\ scheduler_pid \in Procs /\ None \notin Procs
      /\ thread_process_arr \in [Threads -> Procs \union {None}]
      /\ ShellThread \in Threads /\ ShellThread # InitThread
  BY ProcessesAssumption
  DEF MemoryInv, IInv, TypeOK, Aliased, None, Procs, Threads, ShellThread, InitThread
<1>4. CASE StartShell
  <2>1. userdata' = userdata /\ used' = used \union {ShellThread}
        /\ thread_process_arr'[ShellThread] \in Procs
    BY <1>3, <1>4 DEF StartShell, NewProcess
  <2> QED
    BY <1>1, <1>2, <1>3, <1>4, <2>1 DEF MemoryInv, Attached, StartShell, InitRuns
<1>5. CASE \E n \in Threads, flags \in Flags : Exec(n, flags)
  <2> PICK n \in Threads, flags \in Flags : Exec(n, flags)
    BY <1>5
  <2>1. userdata' = userdata /\ used' = used \union {n}
        /\ thread_process_arr'[n] \in Procs
    BY <1>3 DEF Exec, OnCreate, NewProcess, JoinProcess
  <2>2. ShellThread \in used
    BY <1>3 DEF MemoryInv, BeforeShell, Exec, InitRuns
  <2> QED
    BY <1>1, <1>2, <1>3, <2>1, <2>2 DEF MemoryInv, Attached
<1>6. CASE ExecRefused
  <2>1. UNCHANGED <<userdata, used, thread_process_arr>>
    BY <1>6 DEF ExecRefused, NoProcessLeft
  <2>2. ShellThread \in used
    BY <1>6 DEF MemoryInv, BeforeShell, ExecRefused, InitRuns
  <2> QED
    BY <1>1, <2>1, <2>2 DEF MemoryInv, Attached
<1> QED
  BY <1>4, <1>5, <1>6 DEF Create

(* A step that takes a thread off the processor takes no process from a    *)
(* thread that stays, and before the shell runs it is a preemption only.   *)
LEMMA LeaveStep ==
  ASSUME ~Aliased, MemoryInv, Leave
  PROVE  /\ [Next]_vars
         /\ used' \subseteq used
         /\ Attached'
         /\ reserved' \in [Procs -> BOOLEAN]
         /\ \A p \in Procs : reserved'[p] => reserved[p]
         /\ ShellThread \notin used' =>
              /\ ShellThread \notin used
              /\ used' = used /\ userdata' = userdata
              /\ thread_process_arr'[InitThread] = thread_process_arr[InitThread]
<1>1. [Next]_vars
  BY DEF Leave, Next
<1>2. /\ \A t \in used \intersect used' : thread_process_arr'[t] = thread_process_arr[t]
      /\ reserved' \in [Procs -> BOOLEAN]
  BY <1>1, StepIInv DEF MemoryInv, IInv, TypeOK
<1>3. reserved \in [Procs -> BOOLEAN] /\ current \in used \union {Idle}
  BY DEF MemoryInv, IInv, TypeOK
<1>4. CASE \E next \in Threads \union {Idle} : Switch(next)
  <2> PICK next \in Threads \union {Idle} : Switch(next)
    BY <1>4
  <2>1. UNCHANGED <<used, thread_process_arr, reserved>>
    BY DEF Switch
  <2>2. ASSUME ShellThread \notin used PROVE userdata' = userdata
    <3>1. {current, next} \subseteq {InitThread, Idle}
          /\ thread_process_arr[InitThread] = None
      BY <1>3, <2>2 DEF MemoryInv, BeforeShell, Switch
    <3>2. ProcessOf(thread_process_arr, current) = None
          /\ ProcessOf(thread_process_arr, next) = None
      BY <3>1, ProcessesAssumption DEF ProcessOf, Threads, InitThread, Idle
    <3> QED
      BY <3>2 DEF Switch, SwitchTo, OnSchedule
  <2> QED
    BY <1>1, <1>2, <2>1, <2>2 DEF MemoryInv, Attached
<1>5. ASSUME NEW next \in Threads \union {Idle}, NEW skipped \in Threads \union {Idle},
             Exit(next) \/ UnknownCall(skipped, next)
      PROVE  /\ used' \subseteq used
             /\ ShellThread \in used'
             /\ \A p \in Procs : reserved'[p] => reserved[p]
  <2>1. used' = used \ {current} /\ MayEnd(current) /\ OnExit(current)
    BY <1>5 DEF Exit, UnknownCall
  <2> QED
    BY <1>3, <2>1 DEF MayEnd, OnExit, LeaveProcess, LeaveNoProcess
<1> QED
  BY <1>1, <1>2, <1>4, <1>5 DEF Leave, MemoryInv, Attached

(* What StartsFromCreator says of a step.                                  *)
Creates(p) == ~reserved[p] /\ reserved'[p]

CreatorStep ==
  \A p \in Procs :
    Creates(p)
      => contents'[DataAddress(p)] =
           IF thread_process_arr[current] = None
           THEN contents[USER_DATA]
           ELSE contents[DataAddress(thread_process_arr[current])]

(* The thread that calls EXEC shows the data of its process to the copy.   *)
LEMMA CreatorSection ==
  ASSUME ~Aliased, MemoryInv, Create
  PROVE  tlb[USER_DATA].section = IF thread_process_arr[current] = None
                                  THEN USER_DATA
                                  ELSE DataAddress(thread_process_arr[current])
<1>1. /\ current \in used /\ current # Idle
      /\ thread_process_arr[current] \in Procs \union {None} /\ None \notin Procs
  <2>1. /\ used \subseteq Threads /\ current \in used \union {Idle}
        /\ thread_process_arr \in [Threads -> Procs \union {None}]
    BY DEF MemoryInv, IInv, TypeOK, Aliased
  <2>2. current \in used \/ current = InitThread
    BY DEF Create, StartShell, Exec, ExecRefused, InitRuns
  <2>3. Idle \notin Threads /\ InitThread # Idle /\ None \notin Procs
    BY ProcessesAssumption DEF Threads, Idle, InitThread, None, Procs
  <2> QED
    BY <2>1, <2>2, <2>3
<1>2. CASE thread_process_arr[current] \in Procs
  BY <1>1, <1>2, SectionsInUse
<1>3. CASE thread_process_arr[current] = None
  <2>1. current = InitThread
    BY <1>1, <1>3 DEF MemoryInv, Attached
  <2>2. ShellThread \notin used
    BY <1>3, <2>1 DEF Create, StartShell, Exec, ExecRefused, InitRuns
  <2> QED
    BY <1>3, <2>2 DEF MemoryInv, BeforeShell
<1> QED
  BY <1>1, <1>2, <1>3

(* The switch leaves the entries of processes alone, and the core goes by  *)
(* those of the process switched to.                                       *)
LEMMA SwitchKeepsMapped ==
  ASSUME SpeculativeWalk = FALSE, Mapped, FollowSwitch, UNCHANGED contents
  PROVE  Mapped'
<1>1. CASE userdata' = userdata
  BY <1>1 DEF FollowSwitch, Mapped
<1>2. CASE userdata' # userdata
  <2>1. tlb' = [e \in UserEntries |-> L1_TABLE'[e]]
    BY <1>2 DEF FollowSwitch
  <2>2. DOMAIN L1_TABLE' = Sections
        /\ \A s \in Sections \ UserEntries : L1_TABLE'[s] = L1_TABLE[s]
    BY <1>2 DEF FollowSwitch, MapUserdataTo, Mapped, UserEntries
  <2>3. ASSUME NEW p \in Procs, userdata' = p
        PROVE  /\ L1_TABLE'[USER_DATA] = Writable(DataAddress(p))
               /\ L1_TABLE'[USER_HEAP] = Writable(HeapAddress(p))
    <3>1. L1_TABLE' = [L1_TABLE EXCEPT ![USER_DATA] = L1_TABLE[DataAddress(p)],
                                       ![USER_HEAP] = L1_TABLE[HeapAddress(p)]]
      BY <1>2, <2>3, Layout DEF FollowSwitch, MapUserdataTo
    <3> QED
      BY <3>1, Layout DEF Mapped, UserEntries
  <2>4. tlb'[USER_DATA] = L1_TABLE'[USER_DATA] /\ tlb'[USER_HEAP] = L1_TABLE'[USER_HEAP]
    BY <2>1 DEF UserEntries
  <2> QED
    BY <2>2, <2>3, <2>4, Layout DEF Mapped
<1> QED
  BY <1>1, <1>2

(* Every step keeps the invariant and is as StartsFromCreator says.        *)
LEMMA StepMemoryInv ==
  ASSUME ~Aliased, SpeculativeWalk = FALSE, MemoryInv, [MemoryNext]_allVars
  PROVE  MemoryInv' /\ CreatorStep
<1>1. ASSUME [Next]_vars PROVE IInv'
  BY <1>1, StepIInv DEF MemoryInv
<1>2. CASE Create
  <2>1. Mapped'
    BY <1>2, CreateStep DEF Create, CopyTemplate, MemoryInv, Mapped
  <2>2. BeforeShell'
    BY <1>2, CreateStep DEF BeforeShell
  <2>3. \A p \in Procs : Creates(p) =>
          contents'[DataAddress(p)] = contents[tlb[USER_DATA].section]
    BY <1>2 DEF Create, CopyTemplate, Creates, PrivateSections
  <2>4. CreatorStep
    BY <1>2, <2>3, CreatorSection DEF CreatorStep
  <2> QED
    BY <1>1, <1>2, <2>1, <2>2, <2>4, CreateStep DEF MemoryInv
<1>3. CASE Leave
  <2>1. Mapped' /\ UNCHANGED contents
    BY <1>3, SwitchKeepsMapped DEF Leave, MemoryInv
  <2>2. BeforeShell'
    <3>1. userdata' = userdata => UNCHANGED tlb
      BY <1>3 DEF Leave, FollowSwitch
    <3> QED
      BY <1>3, <3>1, LeaveStep DEF MemoryInv, BeforeShell
  <2>3. CreatorStep
    BY <1>3, LeaveStep DEF CreatorStep, Creates
  <2> QED
    BY <1>1, <1>3, <2>1, <2>2, <2>3, LeaveStep DEF MemoryInv
<1>4. ASSUME NEW e \in PrivateSections, NEW v \in Values, Store(e, v)
      PROVE  MemoryInv' /\ CreatorStep
  <2>1. UNCHANGED <<vars, L1_TABLE, tlb>>
    BY <1>4 DEF Store
  <2>2. Mapped' /\ Attached' /\ BeforeShell'
    BY <1>4, <2>1
    DEF MemoryInv, Mapped, Attached, BeforeShell, Store, vars, processVars
  <2>3. CreatorStep
    BY <2>1 DEF CreatorStep, Creates, vars, processVars
  <2> QED
    BY <1>1, <2>1, <2>2, <2>3 DEF MemoryInv
<1>5. CASE UNCHANGED allVars
  <2>1. UNCHANGED <<vars, L1_TABLE, tlb, contents>>
    BY <1>5 DEF allVars, memoryVars
  <2> QED
    BY <1>1, <2>1
    DEF MemoryInv, Mapped, Attached, BeforeShell, CreatorStep, Creates,
        vars, processVars
<1> QED
  BY <1>2, <1>3, <1>4, <1>5 DEF MemoryNext

-----------------------------------------------------------------------------

(* What the theorems ask of the linker and of the core. *)
Plain == ~Aliased /\ SpeculativeWalk = FALSE

(* The invariant holds in every state of every behaviour.                  *)
LEMMA MemoryInvariant == Plain => (MemorySpec => []MemoryInv)
<1> SUFFICES ASSUME Plain PROVE MemorySpec => []MemoryInv
  OBVIOUS
<1>1. MemoryInit => MemoryInv
  BY InitMemoryInv DEF Plain
<1>2. MemoryInv /\ [MemoryNext]_allVars => MemoryInv'
  BY StepMemoryInv DEF Plain
<1> QED
  BY <1>1, <1>2, PTL DEF MemorySpec

(* A running thread has the data and the heap section of its process, and  *)
(* may write both.                                                         *)
THEOREM SectionsAreOwn == Plain => (MemorySpec => []OwnSections)
<1> SUFFICES ASSUME Plain PROVE MemorySpec => []OwnSections
  OBVIOUS
<1>1. MemoryInv => OwnSections
  BY InvGivesOwnSections DEF Plain
<1> QED
  BY <1>1, MemoryInvariant, PTL

(* No entry lets the threads of processes reach the kernel's sections or   *)
(* write the linked user data, whatever was switched before.               *)
THEOREM KernelIsShielded == Plain => (MemorySpec => []KernelShielded)
<1> SUFFICES ASSUME Plain PROVE MemorySpec => []KernelShielded
  OBVIOUS
<1>1. MemoryInv => KernelShielded
  BY InvShieldsKernel DEF Plain
<1> QED
  BY <1>1, MemoryInvariant, PTL

(* A process starts with the data that its creator has.                    *)
THEOREM DataComeFromCreator == Plain => (MemorySpec => StartsFromCreator)
<1> SUFFICES ASSUME Plain PROVE MemorySpec => StartsFromCreator
  OBVIOUS
<1>1. MemoryInv /\ [MemoryNext]_allVars =>
        [\A p \in Procs :
           ~reserved[p] /\ reserved'[p]
             => contents'[DataAddress(p)] =
                  IF thread_process_arr[current] = None
                  THEN contents[USER_DATA]
                  ELSE contents[DataAddress(thread_process_arr[current])]]_allVars
  BY StepMemoryInv DEF Plain, CreatorStep, Creates
<1> QED
  BY <1>1, MemoryInvariant, PTL DEF MemorySpec, StartsFromCreator

-----------------------------------------------------------------------------
(* Types. *)

(* The core goes by the entries of the table as they are, and every        *)
(* section that is written or copied holds a value.                        *)
Fresh ==
  /\ tlb = [e \in UserEntries |-> L1_TABLE[e]]
  /\ contents \in [PrivateSections -> Values]

(* What EXEC copies lies in a section that holds a value.                  *)
LEMMA CreatorHasData ==
  ASSUME ~Aliased, MemoryInv, Create
  PROVE  tlb[USER_DATA].section \in PrivateSections
<1>1. thread_process_arr[current] = None \/ thread_process_arr[current] \in Procs
  <2>1. /\ used \subseteq Threads /\ current \in used \union {Idle}
        /\ thread_process_arr \in [Threads -> Procs \union {None}]
    BY DEF MemoryInv, IInv, TypeOK, Aliased
  <2>2. current \in used \/ current = InitThread
    BY DEF Create, StartShell, Exec, ExecRefused, InitRuns
  <2>3. InitThread \in Threads
    BY ProcessesAssumption DEF Threads, InitThread
  <2> QED
    BY <2>1, <2>2, <2>3
<1> QED
  BY <1>1, CreatorSection DEF PrivateSections, UserEntries

(* A step leaves no translation in the core that the table does not have.  *)
LEMMA StepFresh ==
  ASSUME Plain, MemoryInv, Fresh, [MemoryNext]_allVars
  PROVE  Fresh'
<1>1. CASE Create
  <2>1. contents[tlb[USER_DATA].section] \in Values
    BY <1>1, CreatorHasData DEF Plain, Fresh
  <2>2. contents' \in [PrivateSections -> Values]
    BY <1>1, <2>1 DEF Create, CopyTemplate, Fresh
  <2> QED
    BY <1>1, <2>2 DEF Create, Fresh
<1>2. CASE Leave
  BY <1>2 DEF Leave, FollowSwitch, Fresh, Plain
<1>3. ASSUME NEW e \in PrivateSections, NEW v \in Values, Store(e, v)
      PROVE  Fresh'
  BY <1>3 DEF Store, Fresh
<1>4. CASE UNCHANGED allVars
  BY <1>4 DEF allVars, memoryVars, Fresh
<1> QED
  BY <1>1, <1>2, <1>3, <1>4 DEF MemoryNext

(* The core goes by no translation that the switch has overwritten, and    *)
(* sections hold values.                                                   *)
THEOREM MemoryTypeCorrect == Plain => (MemorySpec => []MemoryTypeOK)
<1> SUFFICES ASSUME Plain PROVE MemorySpec => []MemoryTypeOK
  OBVIOUS
<1>1. MemoryInit => Fresh
  BY Layout DEF MemoryInit, Fresh, Values, L1_TABLE_init
<1>2. MemoryInv /\ Fresh /\ [MemoryNext]_allVars => Fresh'
  BY StepFresh
<1>3. MemoryInv /\ Fresh => MemoryTypeOK
  BY Layout DEF MemoryInv, Mapped, Fresh, MemoryTypeOK
<1> QED
  BY <1>1, <1>2, <1>3, MemoryInvariant, PTL DEF MemorySpec

=============================================================================
