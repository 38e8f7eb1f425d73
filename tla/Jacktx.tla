-------------------------------- MODULE Jacktx --------------------------------
(***************************************************************************)
(* The Jack client of zita-j2n (jacktx.cc).  A cycle that sends is cut into  *)
(* steps: the transmit thread, which has the higher priority, runs between   *)
(* the commit of a packet and the post of the semaphore.                    *)
(***************************************************************************)
EXTENDS TxQueues

CONSTANTS
  SecCycles,    \* cycles in a second
  StampInit,    \* what _tscnt may hold at first, in cycles: nothing sets it
  StampMax      \* bound: with more timestamps unread no more are counted

ASSUME JacktxParams ==
  /\ SecCycles \in Nat \ {0}
  /\ StampInit \subseteq Int
  /\ StampMax \in Nat

VARIABLES
  jstate,       \* _state
  jpc,          \* "idle", to "pack" the next packet, to "post" for the last one
  left,         \* packets of this period still to be queued
  freew,        \* _freew
  tscnt,        \* _tscnt, in cycles
  since,        \* history: cycles since the last timestamp, or -1
  jalive        \* the Jack server still calls us

jvars == <<jstate, jpc, left, freew, tscnt, since, jalive>>

(* Mutant: the queue is never full.                                         *)
RoomAlways == TRUE

Room == Len(packq) < PackqSize

JacktxInit ==
  /\ jstate = "INIT"
  /\ jpc = "idle"
  /\ left = 0
  /\ freew = FALSE
  /\ tscnt \in StampInit
  /\ since = -1
  /\ jalive = TRUE

(* start()                                                                 *)
JacktxStart ==
  /\ jstate' = "SEND"
  /\ infoq' = Report(infoq, "INFO")
  /\ UNCHANGED <<jpc, left, freew, tscnt, since, jalive>>

Tell(state) ==
  /\ jstate' = state
  /\ infoq' = Report(infoq, IF state = "TERM" THEN "TERM" ELSE "INFO")

(* The transmit queue is full.                                              *)
GiveUp ==
  /\ ~Room
  /\ Tell("TERM")
  /\ jpc' = "idle"
  /\ left' = 0
  /\ UNCHANGED <<packq, stamps>>

Clock == tscnt + 1 >= SecCycles

(* Send periodic timestamp: written without looking for room.               *)
Stamp ==
  /\ tscnt' = IF Clock THEN tscnt + 1 - SecCycles ELSE tscnt + 1
  /\ stamps' = IF Clock /\ stamps <= StampMax THEN stamps + 1 ELSE stamps
  /\ since' = IF Clock THEN 0
              ELSE IF since \in 0..SecCycles THEN since + 1 ELSE since

(* Mutant: a client that gave up is silent.                                 *)
TermSilent ==
  /\ jstate = "TERM"
  /\ UNCHANGED <<packq, stamps, infoq, jstate, jpc, left, tscnt, since>>

CycleTerm ==
  /\ jstate = "TERM"
  /\ Tell("TERM")
  /\ UNCHANGED <<packq, stamps, jpc, left, tscnt, since>>

(* Mutant: the suspend packet is dropped when the queue is full.            *)
SuspendDropped ==
  /\ freew
  /\ jstate = "SEND"
  /\ packq' = IF Room THEN Append(packq, SUSP) ELSE packq
  /\ jpc' = IF Room THEN "post" ELSE "idle"
  /\ Tell("SUSP")
  /\ UNCHANGED <<stamps, left, tscnt, since>>

(* Jack entered freewheeling state.                                         *)
CycleSuspend ==
  /\ freew
  /\ jstate = "SEND"
  /\ \/ /\ Room
        /\ packq' = Append(packq, SUSP)
        /\ jpc' = "post"
        /\ Tell("SUSP")
        /\ UNCHANGED <<stamps, left>>
     \/ GiveUp
  /\ UNCHANGED <<tscnt, since>>

CycleRest ==
  /\ jstate = "INIT" \/ (jstate = "SUSP" /\ freew)
  /\ UNCHANGED <<packq, stamps, infoq, jstate, jpc, left, tscnt, since>>

(* A period begins, the first one after freewheeling included.              *)
CycleSend ==
  /\ ~freew
  /\ \/ jstate = "SEND" /\ UNCHANGED <<jstate, infoq>>
     \/ jstate = "SUSP" /\ Tell("SEND")
  /\ Stamp
  /\ jpc' = "pack"
  /\ left' = Npack
  /\ UNCHANGED packq

(* The next packet of the period.                                           *)
CyclePut ==
  /\ Room
  /\ packq' = Append(packq, Npack - left + 1)
  /\ left' = left - 1
  /\ jpc' = "post"
  /\ UNCHANGED <<stamps, infoq, jstate, tscnt, since>>

(* Mutant: the packet is dropped, and the period goes on.                   *)
FullDropped ==
  /\ ~Room
  /\ left' = left - 1
  /\ jpc' = IF left = 1 THEN "idle" ELSE "pack"
  /\ UNCHANGED <<packq, stamps, infoq, jstate, tscnt, since>>

CycleFull == GiveUp /\ UNCHANGED <<tscnt, since>>

(* Mutant: nobody is told of the packet.                                    *)
PostForgotten ==
  /\ sem' = sem
  /\ jpc' = IF left = 0 THEN "idle" ELSE "pack"

(* Nettx::trigger                                                          *)
CyclePost ==
  /\ sem' = sem + 1
  /\ jpc' = IF left = 0 THEN "idle" ELSE "pack"

JacktxTypeOK ==
  /\ jstate \in {"INIT", "SEND", "SUSP", "TERM"}
  /\ jpc \in {"idle", "pack", "post"}
  /\ left \in 0..Npack
  /\ freew \in BOOLEAN
  /\ tscnt \in Int
  /\ since \in -1..(SecCycles + 1)
  /\ jalive \in BOOLEAN
=============================================================================
