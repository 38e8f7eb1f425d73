------------------------------- MODULE Semaphore -------------------------------
(***************************************************************************)
(* What the transmit thread takes a Pxsema for: a counter, posted by any       *)
(* thread, on which one thread waits.  A post is never lost, and while the    *)
(* counter is not zero the waiting thread goes on.                          *)
(***************************************************************************)
EXTENDS Integers

VARIABLES
  value,
  waiting       \* the one thread that waits is in wait()

vars == <<value, waiting>>

Init ==
  /\ value = 0
  /\ waiting = FALSE

Post ==
  /\ value' = value + 1
  /\ UNCHANGED waiting

Enter ==
  /\ ~waiting
  /\ waiting' = TRUE
  /\ UNCHANGED value

Pass ==
  /\ waiting
  /\ value > 0
  /\ value' = value - 1
  /\ waiting' = FALSE

Next == Post \/ Enter \/ Pass

Spec == Init /\ [][Next]_vars /\ WF_vars(Pass)
=============================================================================
