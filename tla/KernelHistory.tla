--------------------------- MODULE KernelHistory ---------------------------
(***************************************************************************)
(* Kernel with a history variable, for what can only be said of the        *)
(* characters in the ring when one knows what happened before, and with    *)
(* the fairness of the timer.  No step of Kernel depends on the history.   *)
(***************************************************************************)
EXTENDS Kernel

VARIABLE
  overfull  \* whether the ring holds a character too many, or held one before

HistoryInit == Init /\ overfull = "never"

(* From the character too many until the ring is empty again, the order is *)
(* lost; with the next one it is there again.                              *)
WatchRing ==
  overfull' = IF head' - tail' > RingSize THEN "now"
              ELSE IF overfull = "now" /\ head' = tail' THEN "before"
              ELSE overfull

HistoryNext == Next /\ WatchRing

HistorySpec == HistoryInit /\ [][HistoryNext]_<<vars, overfull>>

(* The timer never stops. *)
FairSpec == HistorySpec /\ WF_vars(TimerIrq)

-----------------------------------------------------------------------------

(* The characters nobody has taken, from the oldest on. *)
Unread == [k \in 1 .. head - tail |-> slots[(tail + k - 1) % RingSize]]

(* Characters leave the kernel in the order in which they came in, none is *)
(* handed out twice, and the newest are not lost (uart.h:18-19): at all    *)
(* times but from a character too many in the ring until it is read empty. *)
(* As long as this never happened not a single one is missing.             *)
CharsInOrder ==
  /\ overfull # "now" =>
       /\ Unread = [k \in 1 .. Len(Unread) |-> arrived - Len(Unread) + k]
       /\ given <= arrived - Len(Unread)
  /\ overfull = "never" => given = arrived - Len(Unread)

=============================================================================
