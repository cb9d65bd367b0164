---------------------------- MODULE SleepHistory ----------------------------
(***************************************************************************)
(* Kernel with history variables, for how long a thread sleeps compared    *)
(* with what it asked for.  No step of Kernel depends on them.             *)
(***************************************************************************)
EXTENDS Kernel

VARIABLES
  asked,    \* for a thread that sleeps, the cycles it asked for
  slices,   \* and the timer interrupts since
  hurried   \* and the other ticks: those that the end of a thread brings

sleepVars == <<asked, slices, hurried>>

SleepersInit ==
  /\ Init
  /\ asked = [t \in Threads |-> 0]
  /\ slices = [t \in Threads |-> 0]
  /\ hurried = [t \in Threads |-> 0]

(* n more of what is counted, for the threads that slept until now. *)
More(count, n) ==
  [t \in Threads |-> IF t \in Range(sleeping) THEN count[t] + n ELSE 0]

(* The interrupts and calls with the ticks they bring: from the timer, and *)
(* from elsewhere.                                                         *)
Ticks(step, timer, other) ==
  /\ step
  /\ slices' = More(slices, timer)
  /\ hurried' = More(hurried, other)

(* What a sleeper asked for is remembered as long as it sleeps. *)
Remember ==
  asked' = [t \in Threads |-> IF t \in Range(sleeping) THEN asked[t]
                              ELSE IF t \in Range(sleeping') THEN cycles'[t]
                              ELSE 0]

SleepersNext ==
  /\ \/ Ticks(TimerIrq, 1, 0)
     \/ Ticks(Exit, 0, 1)
     \/ Ticks(UnknownCall, 0, 2)
     \/ Ticks(UartIrq \/ StartShell \/ (\E flags \in Flags : Exec(flags))
                \/ ExecRefused \/ Sleep \/ GetChar \/ WaitForChar, 0, 0)
  /\ Remember

SleepersSpec == SleepersInit /\ [][SleepersNext]_<<vars, sleepVars>>

-----------------------------------------------------------------------------

(* scheduler.h:160-162, on scheduler_current_sleep: "Diese Zeit kann nicht *)
(* unterschritten werden", where the time is a number of slices, from one  *)
(* timer interrupt to the next.  Whoever wakes has slept through as many   *)
(* timer interrupts at least as it asked for.                              *)
SleepsInFull ==
  [][\A t \in Range(sleeping) \ Range(sleeping') :
       slices'[t] >= asked[t]]_<<vars, sleepVars>>

(* What the code keeps instead: only the ends of other threads shorten a   *)
(* sleep, each by one tick, or by two if it is by an unknown call          *)
(* (scheduler_end_current_thread, exceptions.c:131-132).  Otherwise it is  *)
(* as long as scheduler.h:160-162 says, and one slice longer at most.      *)
ShortenedByEndsOnly ==
  [][\A t \in Range(sleeping) :
       IF t \in Range(sleeping')
       THEN slices'[t] + hurried'[t] <= asked[t]
       ELSE slices'[t] >= asked[t] + 1 - hurried'[t]]_<<vars, sleepVars>>

=============================================================================
