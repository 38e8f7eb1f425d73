------------------------------ MODULE TxQueues ------------------------------
(***************************************************************************)
(* What the three threads of zita-j2n share: the queues main() allocates    *)
(* (zita-j2n.cc), the semaphore of the transmit thread and its stop flag.   *)
(***************************************************************************)
EXTENDS Integers, Sequences, FiniteSets

CONSTANTS
  Npack,        \* packets per period
  PackqSize,    \* slots of the packet queue, Npack for each period in 50 ms
  TimeqSize,    \* slots of the timestamp queue, 4 in the program
  InfoqSize     \* slots of the info queue, 16

ASSUME TxSizes ==
  /\ Npack \in Nat \ {0}
  /\ PackqSize \in Nat /\ PackqSize >= Npack
  /\ TimeqSize \in Nat \ {0}
  /\ InfoqSize \in Nat \ {0}

VARIABLES
  packq,        \* packets, from the Jack callback to the transmit thread
  stamps,       \* timestamps written and not yet read, the same way
  infoq,        \* states, from the Jack callback to main()
  sem,          \* the transmit thread's semaphore
  nstop         \* Nettx::_stop

shared == <<packq, stamps, infoq, sem, nstop>>

(* A packet of samples is known by its place in its period, from 1, and the   *)
(* first one is the timed one.  SUSP says that Jack is freewheeling, GOODBYE  *)
(* is the descriptor with the TERM flag, and NOTHING was sent yet.            *)
SUSP    == 0
GOODBYE == -1
NOTHING == -2
Packets == SUSP..Npack

(* The states but TERM are one kind of info: main() passes over them.        *)
Infos == {"INFO", "TERM"}

(* Jacktx::report                                                          *)
Report(q, info) == IF Len(q) < InfoqSize THEN Append(q, info) ELSE q

TxQueuesInit ==
  /\ packq = <<>>
  /\ stamps = 0
  /\ infoq = <<>>
  /\ sem = 0
  /\ nstop = FALSE

TxQueuesTypeOK ==
  /\ packq \in Seq(Packets) /\ Len(packq) <= PackqSize
  /\ stamps \in Nat
  /\ infoq \in Seq(Infos) /\ Len(infoq) <= InfoqSize
  /\ sem \in Nat
  /\ nstop \in BOOLEAN
=============================================================================
