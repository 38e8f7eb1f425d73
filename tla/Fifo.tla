--------------------------------- MODULE Fifo ---------------------------------
(***************************************************************************)
(* What the lock-free queues of zita-njbridge promise to their one writer     *)
(* and one reader: a bounded queue, each element of which is read once, in   *)
(* order, as it was written.  RxQueues and TxQueues take it for granted.    *)
(***************************************************************************)
EXTENDS Integers, Sequences

CONSTANTS
  Elements,
  Size

VARIABLES
  q,            \* written and not read
  out           \* the last element read

Init ==
  /\ q = <<>>
  /\ out \in Elements

Put ==
  /\ Len(q) < Size
  /\ \E x \in Elements : q' = Append(q, x)
  /\ UNCHANGED out

Get ==
  /\ q # <<>>
  /\ out' = Head(q)
  /\ q' = Tail(q)

Reset ==
  /\ q' = <<>>
  /\ UNCHANGED out

Next == Put \/ Get \/ Reset

Spec == Init /\ [][Next]_<<q, out>>
=============================================================================
