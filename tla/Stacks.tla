------------------------------- MODULE Stacks -------------------------------
(***************************************************************************)
(* Where start_kernel() of src/system/start.c puts the stacks, and what    *)
(* the trampolines of out/e4.o, the scheduler and the threads write there. *)
(*                                                                         *)
(* Addresses are words.  A stack grows downwards, from the address that is *)
(* given for it.  A thread pushes words of its own, written as its id; an  *)
(* exception pushes a frame with the registers of the thread it            *)
(* interrupts, in which the scheduler then puts those of the thread that   *)
(* runs next.                                                              *)
(***************************************************************************)
EXTENDS Integers

CONSTANTS
  MAX_THREADS,  \* stacks for threads, 32
  STACK_SIZE,   \* words of a stack, 256
  FrameWords    \* words an exception pushes, 17 for the registers alone; <= STACK_SIZE

Threads == 0 .. MAX_THREADS - 1

(* struct stack_setup.  kernel_setup() sets svc_sp for aborts as well.     *)
STACK_BASE == MAX_THREADS * STACK_SIZE
irq_sp   == STACK_BASE
tasks_sp == STACK_BASE + STACK_SIZE
und_sp   == STACK_BASE + 2 * STACK_SIZE + STACK_SIZE * MAX_THREADS
svc_sp   == STACK_BASE + 4 * STACK_SIZE + STACK_SIZE * MAX_THREADS

(* scheduler_init: the stack of thread t. *)
Top(t) == tasks_sp - t * STACK_SIZE

VARIABLES
  current,  \* the thread that runs
  sp,       \* the stack pointer of each thread
  mem       \* the words of all stacks

vars == <<current, sp, mem>>

None == -1

Init ==
  /\ current = 0
  /\ sp = [t \in Threads |-> Top(t)]
  /\ mem = [a \in 0 .. svc_sp - 1 |-> None]

(* A thread pushes a word; bound: it keeps within its stack. *)
Push ==
  LET a == sp[current] - 1 IN
  /\ a >= Top(current) - STACK_SIZE
  /\ sp' = [sp EXCEPT ![current] = a]
  /\ mem' = [mem EXCEPT ![a] = current]
  /\ UNCHANGED current

Pop ==
  /\ sp[current] < Top(current)
  /\ sp' = [sp EXCEPT ![current] = @ + 1]
  /\ UNCHANGED <<current, mem>>

(* A frame is pushed below top. *)
Frame(top) ==
  /\ mem' = [a \in DOMAIN mem |-> IF a \in top - FrameWords .. top - 1 THEN None ELSE mem[a]]
  /\ UNCHANGED sp

(* An interrupt, a call or an abort, after which any thread may run. *)
Interrupt == Frame(irq_sp) /\ current' \in Threads
Call == Frame(svc_sp) /\ current' \in Threads

(* An undefined instruction, to which exception() returns. *)
Undefined == Frame(und_sp) /\ UNCHANGED current

Next == Push \/ Pop \/ Interrupt \/ Call \/ Undefined

Spec == Init /\ [][Next]_vars

(* The area below tasks_sp is there for the stacks of the user threads     *)
(* (scheduler.h:94-96): what a thread has pushed there stays until it pops *)
(* it.                                                                     *)
PushedStays == \A t \in Threads : \A a \in sp[t] .. Top(t) - 1 : mem[a] = t

=============================================================================
