------------------------------- MODULE Memory -------------------------------
(***************************************************************************)
(* The address spaces of the processes: the process table composed with    *)
(* the translation table it drives.  Threads store through the table,      *)
(* process_create copies a data section through it, and the switch changes *)
(* it.                                                                     *)
(*                                                                         *)
(* What a section holds is one value.  The table has the layout of the     *)
(* code, 8 process and 32 stack sections, however few processes and        *)
(* threads are in play.                                                    *)
(***************************************************************************)
EXTENDS ProcessTable

CONSTANTS
  L1_TABLE_SIZE,   \* bound: sections of the table that are modelled
  SpeculativeWalk  \* may the core load a translation nobody asked for?

ASSUME MemoryAssumption ==
  /\ MAX_PROCESSES <= 8
  /\ L1_TABLE_SIZE \in Nat /\ L1_TABLE_SIZE >= 24 + 32
  /\ SpeculativeWalk \in BOOLEAN

INSTANCE Mmu WITH MAX_THREADS <- 32, MAX_PROCESSES <- 8

VARIABLES
  L1_TABLE,   \* the translation table
  tlb,        \* the entries of the user's data and heap the core goes by
  contents    \* what a section holds

memoryVars == <<L1_TABLE, tlb, contents>>
allVars == <<vars, memoryVars>>

(* The entries the switch changes, and where it leads for process p. *)
UserEntries == {USER_DATA, USER_HEAP}
HeapAddress(p) == DataAddress(p) + 16
PrivateSections == UserEntries \union {DataAddress(p) : p \in Procs}
                               \union {HeapAddress(p) : p \in Procs}

Values == {"linked", "written"}

(* An entry found past the table, when process_array[-1] is switched to.   *)
Garbage == [section |-> -1, ap |-> AP_NO_ACCESS]

(* mmu_init() and process_init() are done; the linker has filled section   *)
(* USER_DATA.                                                              *)
MemoryInit ==
  /\ Init
  /\ L1_TABLE = L1_TABLE_init
  /\ tlb = [e \in UserEntries |-> L1_TABLE_init[e]]
  /\ contents = [s \in PrivateSections |-> "linked"]

-----------------------------------------------------------------------------

(* Mutant of CopyTemplate: the data of the process created last. *)
CopyLastCreated ==
  contents' = [s \in PrivateSections |->
    IF \E p \in Procs : s = DataAddress(p) /\ ~reserved[p] /\ reserved'[p]
    THEN contents[DataAddress(scheduler_pid)]
    ELSE contents[s]]

(* copy_userdata_template(DataAddress(p)) for a process p that a step      *)
(* creates.  The source is an address in the user's data, and so what is   *)
(* mapped there now.  Of the section 10000 bytes are copied, MB of         *)
(* mmu.c:32; the linked user data are shorter, and the value of a section  *)
(* stands for them.                                                        *)
CopyTemplate ==
  contents' = [s \in PrivateSections |->
    IF \E p \in Procs : s = DataAddress(p) /\ ~reserved[p] /\ reserved'[p]
    THEN contents[tlb[USER_DATA].section]
    ELSE contents[s]]

(* Mutant of FollowSwitch: the translations are not flushed. *)
FollowUnflushed ==
  IF userdata' = userdata
  THEN UNCHANGED <<L1_TABLE, tlb>>
  ELSE /\ L1_TABLE' = IF userdata' \in Procs
                      THEN MapUserdataTo(L1_TABLE, DataAddress(userdata'))
                      ELSE [L1_TABLE EXCEPT ![USER_DATA] = Garbage,
                                            ![USER_HEAP] = Garbage]
       /\ UNCHANGED tlb

(* process_switch, if the step switches: the translations are flushed, and *)
(* then the entries change; one that is loaded in between stays.           *)
FollowSwitch ==
  IF userdata' = userdata
  THEN UNCHANGED <<L1_TABLE, tlb>>
  ELSE /\ L1_TABLE' = IF userdata' \in Procs
                      THEN MapUserdataTo(L1_TABLE, DataAddress(userdata'))
                      ELSE [L1_TABLE EXCEPT ![USER_DATA] = Garbage,
                                            ![USER_HEAP] = Garbage]
       /\ \E stale \in SUBSET UserEntries :
            /\ SpeculativeWalk \/ stale = {}
            /\ tlb' = [e \in UserEntries |->
                         IF e \in stale THEN L1_TABLE[e] ELSE L1_TABLE'[e]]

(* By what the core translates an address in section e; entries that       *)
(* nobody changes are in the TLB as they are in the table.                 *)
Entry(e) == IF e \in UserEntries THEN tlb[e] ELSE L1_TABLE[e]

(* A user thread stores v at an address in section e: where the entry      *)
(* lets it, and that is not its own data and heap only.                    *)
Store(e, v) ==
  /\ current \in used /\ ~InitRuns
  /\ UserWrites(Entry(e).ap)
  /\ contents' = [contents EXCEPT ![Entry(e).section] = v]
  /\ UNCHANGED <<vars, L1_TABLE, tlb>>

Create ==
  /\ \/ StartShell
     \/ \E n \in Threads, flags \in Flags : Exec(n, flags)
     \/ ExecRefused
  /\ CopyTemplate
  /\ UNCHANGED <<L1_TABLE, tlb>>

Leave ==
  /\ \/ \E next \in Threads \union {Idle} : Switch(next) \/ Exit(next)
     \/ \E skipped, next \in Threads \union {Idle} : UnknownCall(skipped, next)
  /\ FollowSwitch
  /\ UNCHANGED contents

MemoryNext ==
  \/ Create
  \/ Leave
  \/ \E e \in PrivateSections, v \in Values : Store(e, v)

MemorySpec == MemoryInit /\ [][MemoryNext]_allVars

-----------------------------------------------------------------------------

(* The core goes by entries that the table has, at no time by one that the  *)
(* switch has overwritten; sections hold values.                           *)
MemoryTypeOK ==
  /\ DOMAIN L1_TABLE = Sections
  /\ tlb \in [UserEntries -> {L1_TABLE[s] : s \in Sections} \union {Garbage}]
  /\ contents \in [PrivateSections -> Values]

(* While a thread of a process runs, what the core uses for the user's     *)
(* data and heap are the two sections of that process, and the thread may  *)
(* write both: a thread is never stopped by the read-only entry the table  *)
(* starts with, nor by what the switch to init() left there.               *)
OwnSections ==
  \A p \in Procs :
    current # Idle /\ thread_process_arr[current] = p =>
      /\ tlb[USER_DATA] = [section |-> DataAddress(p), ap |-> AP_FULL_ACCESS]
      /\ tlb[USER_HEAP] = [section |-> HeapAddress(p), ap |-> AP_FULL_ACCESS]

(* Whatever was switched before a thread of a process runs: through no     *)
(* entry of the table does user mode reach the kernel's sections, which    *)
(* "only kernel can access" (mmu.c:157-159) and which hold the table       *)
(* itself, and through none does it write the section of the linked user   *)
(* data, "only readable" (mmu.c:169).  Apart from that a store is not held *)
(* back from the sections of other processes.                              *)
KernelShielded ==
  current # Idle /\ thread_process_arr[current] # None =>
    \A e \in Sections :
      /\ UserReads(Entry(e).ap)
           => Entry(e).section \notin {KERNEL_INIT, KERNEL_TEXT, KERNEL_RODATA}
      /\ UserWrites(Entry(e).ap) => Entry(e).section # USER_DATA

(* A process starts with the data its creator has at that moment: those of *)
(* the process of the thread that called EXEC, or what was linked, for the *)
(* shell that init() starts.  It does not start with the user data         *)
(* template of mmu.c:95, whose address the switch has mapped elsewhere.    *)
StartsFromCreator ==
  [][\A p \in Procs :
       ~reserved[p] /\ reserved'[p]
         => contents'[DataAddress(p)] =
              IF thread_process_arr[current] = None
              THEN contents[USER_DATA]
              ELSE contents[DataAddress(thread_process_arr[current])]]_allVars

=============================================================================
