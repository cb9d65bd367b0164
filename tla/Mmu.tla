-------------------------------- MODULE Mmu --------------------------------
(***************************************************************************)
(* The translation table of src/memory/mmu.c: one entry for each section   *)
(* of a megabyte.  A section is named by its index in L1_TABLE, and an     *)
(* entry holds the section it leads to and its access permission.  The     *)
(* permission is the set of the AP bits that are set, so that the code's   *)
(* |= is a union.                                                          *)
(***************************************************************************)
EXTENDS Integers

CONSTANTS
  MAX_THREADS, MAX_PROCESSES,
  L1_TABLE_SIZE   \* bound: sections of the table that are modelled

Sections == 0 .. L1_TABLE_SIZE - 1

KERNEL_INIT   == 1
KERNEL_TEXT   == 2
KERNEL_RODATA == 3
USER_TEXT     == 4
USER_RODATA   == 5
USER_DATA     == 6
USER_HEAP     == 7

AP_NO_ACCESS      == {}
AP_SYS_ACCESS     == {"AP0"}
AP_SYS_READ_ONLY  == {"AP2", "AP0"}
AP_BOTH_READ_ONLY == {"AP2", "AP1", "AP0"}
AP_READ_ONLY      == {"AP1"}
AP_FULL_ACCESS    == {"AP1", "AP0"}

(* With what permissions the processor lets user mode load and store. *)
UserReads(ap)  == "AP1" \in ap
UserWrites(ap) == ap = AP_FULL_ACCESS

ProcessSections == 8 .. 8 + MAX_PROCESSES - 1
StackSections   == 16 .. 16 + MAX_THREADS - 1
HeapSections    == 16 + MAX_THREADS .. 24 + MAX_THREADS - 1
Beyond          == 128 .. L1_TABLE_SIZE - 1

(* data_address of a process, set by init_processes_array. *)
DataAddress(p) == 8 + p

(* Mutant of Granted: the loop over the process sections starts one late. *)
GrantedLate(i) ==
  UNION {
    IF i \in {KERNEL_INIT, KERNEL_TEXT, KERNEL_RODATA} THEN AP_SYS_ACCESS ELSE {},
    IF i \in {0, USER_TEXT, USER_RODATA, USER_HEAP} THEN AP_FULL_ACCESS ELSE {},
    IF i = USER_DATA THEN AP_BOTH_READ_ONLY ELSE {},
    IF i \in Beyond THEN AP_FULL_ACCESS ELSE {},
    IF i \in (ProcessSections \union StackSections) \ {8} THEN AP_FULL_ACCESS ELSE {},
    IF i \in HeapSections THEN AP_FULL_ACCESS ELSE {} }

(* Mutant of Granted: the sections of the user's program start at 3. *)
GrantedWide(i) ==
  UNION {
    IF i \in {KERNEL_INIT, KERNEL_TEXT, KERNEL_RODATA} THEN AP_SYS_ACCESS ELSE {},
    IF i \in {0, USER_TEXT, USER_RODATA, USER_HEAP} THEN AP_FULL_ACCESS ELSE {},
    IF i = USER_DATA THEN AP_BOTH_READ_ONLY ELSE {},
    IF i \in Beyond THEN AP_FULL_ACCESS ELSE {},
    IF i \in ProcessSections \union StackSections \union KERNEL_RODATA .. USER_TEXT
      THEN AP_FULL_ACCESS ELSE {},
    IF i \in HeapSections THEN AP_FULL_ACCESS ELSE {} }

(* L1_TABLE_init, init_process_sections and init_heap_sections: the bits   *)
(* section i collects, over the statements that name it.                   *)
Granted(i) ==
  UNION {
    IF i \in {KERNEL_INIT, KERNEL_TEXT, KERNEL_RODATA} THEN AP_SYS_ACCESS ELSE {},
    IF i \in {0, USER_TEXT, USER_RODATA, USER_HEAP} THEN AP_FULL_ACCESS ELSE {},
    IF i = USER_DATA THEN AP_BOTH_READ_ONLY ELSE {},
    IF i \in Beyond THEN AP_FULL_ACCESS ELSE {},
    IF i \in ProcessSections \union StackSections THEN AP_FULL_ACCESS ELSE {},
    IF i \in HeapSections THEN AP_FULL_ACCESS ELSE {} }

L1_TABLE_init == [i \in Sections |-> [section |-> i, ap |-> Granted(i)]]

(* map_userdata_to(new): the heap section is found 16 entries on. *)
MapUserdataTo(table, new) ==
  [table EXCEPT ![USER_DATA] = table[new], ![USER_HEAP] = table[new + 16]]

=============================================================================
