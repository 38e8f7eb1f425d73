------------------------------ MODULE RxQueues ------------------------------
(***************************************************************************)
(* What the three threads of zita-n2j share: the lock-free queues main()   *)
(* allocates (zita-n2j.cc) and passes to both ends.  Each has one writer    *)
(* and one reader, so an element is appended and removed in one step; what  *)
(* a queue element holds is cut down to what its reader branches on.        *)
(***************************************************************************)
EXTENDS Integers, Sequences, FiniteSets

CONSTANTS
  CommqSize,    \* slots of the command queue, 16 in the program
  TimeqSize,    \* slots of the timing queue, 256
  InfoqSize     \* slots of the info queue, 256

ASSUME QueueSizes ==
  /\ CommqSize \in Nat \ {0}
  /\ TimeqSize \in Nat \ {0}
  /\ InfoqSize \in Nat \ {0}

VARIABLES
  commq,        \* commands, from the Jack callback to the receive thread
  timeq,        \* time points and events, the other way
  infoq,        \* status, from the Jack callback to main()
  dry           \* the audio queue: cycles read since audio was last written

queues == <<commq, timeq, infoq, dry>>

Commands == {"WAIT", "PROC"}

(* A time point is OLD when the receive thread wrote it under a command      *)
(* that was in force before the latest synchronisation began, and NEW        *)
(* otherwise.  The program does not tell them apart.                        *)
TimePoints == {"NEW", "OLD"}
StopMarks  == {"WAIT", "TERM", "FAIL"}
Records    == TimePoints \cup StopMarks

(* SYNC0 to PROC2 are one kind of info: main() only prints them.            *)
EndMarks == {"FATAL", "TXEND", "WAIT"}
Infos    == EndMarks \cup {"INFO"}

(* Mutant: no test for room.                                                *)
PutAlways(q, size, x) == Append(q, x)

(* Netrx::send and Jackrx::sendinfo drop what they write to a full queue.   *)
PutIfRoom(q, size, x) == IF Len(q) < size THEN Append(q, x) ELSE q

QueuesInit ==
  /\ commq = <<>>
  /\ timeq = <<>>
  /\ infoq = <<>>
  /\ dry = 0

QueuesTypeOK ==
  /\ commq \in Seq(Commands)
  /\ timeq \in Seq(Records) /\ Len(timeq) <= TimeqSize
  /\ infoq \in Seq(Infos) /\ Len(infoq) <= InfoqSize
=============================================================================
