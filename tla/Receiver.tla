------------------------------ MODULE Receiver ------------------------------
(***************************************************************************)
(* zita-n2j: main() (zita-n2j.cc) with its receive thread and its Jack       *)
(* client.  The threads synchronise by time, not by locks: each number of     *)
(* cycles below is a delay of the code, and JackMayRun says that no more      *)
(* cycles fit in it.                                                        *)
(***************************************************************************)
EXTENDS Netrx, Jackrx

CONSTANTS
  PacketLag,    \* cycles while the receive thread works on one packet
  PollCycles,   \* cycles in the 250 ms between two looks at the info queue
  DrainCycles,  \* cycles in the 100 ms between closing the socket and the end
  QuitCycles,   \* cycles while main() deletes the queues and then the client
  Packets,      \* what may arrive: samples, "SUSP", "TERM", or "FAIL"
  FreewheelAt,  \* the states of the Jack client in which freewheeling starts,
  ResizeAt,     \* the period size changes,
  ShutdownAt,   \* the Jack server goes away,
  SigintAt,     \* the user stops the program
  ThreadRefused \* the receive thread may not be created

ASSUME ReceiverParams ==
  /\ {PacketLag, PollCycles, DrainCycles, QuitCycles} \subseteq Nat
  /\ Packets \subseteq DataPackets \cup {"SUSP", "TERM", "FAIL"}
  /\ ThreadRefused \in BOOLEAN
  /\ UNION {FreewheelAt, ResizeAt, ShutdownAt, SigintAt} \subseteq IDLE..FATAL

VARIABLES
  main,         \* where main() is
  stop,         \* the static flag
  audioq,       \* the audio queue is allocated
  tick,         \* cycles since main() last went to sleep
  lag           \* cycles since the receive thread took its packet

vars == <<queues, nvars, jvars, main, stop, audioq, tick, lag>>

Places == {"info", "start", "run", "drain", "quit", "exit"}

Init ==
  /\ QueuesInit
  /\ NetrxInit
  /\ JackrxInit
  /\ main = "info"
  /\ stop = FALSE
  /\ audioq = FALSE
  /\ tick = 0
  /\ lag = 0

-----------------------------------------------------------------------------
(* main()                                                                  *)

(* A descriptor arrived: any will do, and its flags are not looked at.  Nor is *)
(* whether the thread was created.                                          *)
MainInfo ==
  /\ main = "info"
  /\ audioq' = TRUE
  /\ NetrxStart \/ (ThreadRefused /\ UNCHANGED nvars)
  /\ main' = "start"
  /\ UNCHANGED <<queues, jvars, stop, tick, lag>>

MainSockFail ==
  /\ main = "info"
  /\ "FAIL" \in Packets
  /\ stop' = TRUE
  /\ main' = "quit"
  /\ tick' = 0
  /\ UNCHANGED <<queues, nvars, jvars, audioq, lag>>

MainStart ==
  /\ main = "start"
  /\ JackStart
  /\ main' = "run"
  /\ tick' = 0
  /\ UNCHANGED <<nvars, stop, audioq, lag>>

(* checkstatus() reads up to the first info that ends the session or says   *)
(* that the client waits.                                                   *)
IsEnd(info) == info \in EndMarks
EndAt == SelectInSeq(infoq, IsEnd)
Told  == IF EndAt = 0 THEN "INFO" ELSE infoq[EndAt]

(* Mutant: the infos behind the one that stops the loop are lost.           *)
UnreadLost == <<>>

Unread == IF EndAt = 0 THEN <<>> ELSE SubSeq(infoq, EndAt + 1, Len(infoq))

MainPoll ==
  /\ main = "run"
  /\ ~stop
  /\ infoq' = Unread
  /\ stop' = (Told = "FATAL")
  /\ main' = IF Told \in {"FATAL", "TXEND"} THEN "drain" ELSE "run"
  /\ tick' = 0
  /\ UNCHANGED <<commq, timeq, dry, nvars, jvars, audioq, lag>>

MainStop ==
  /\ main = "run"
  /\ stop
  /\ main' = "drain"
  /\ tick' = 0
  /\ UNCHANGED <<queues, nvars, jvars, stop, audioq, lag>>

MainDrained ==
  /\ main = "drain"
  /\ npc = "off"
  /\ tick = DrainCycles \/ ~jalive
  /\ audioq' = FALSE
  /\ main' = IF stop THEN "quit" ELSE "info"
  /\ tick' = 0
  /\ UNCHANGED <<queues, nvars, jvars, stop, lag>>

MainExit ==
  /\ main = "quit"
  /\ main' = "exit"
  /\ UNCHANGED <<queues, nvars, jvars, stop, audioq, tick, lag>>

(* The handler is installed while the session runs.                         *)
SigInt ==
  /\ main \in {"run", "drain"}
  /\ jstate \in SigintAt
  /\ stop' = TRUE
  /\ UNCHANGED <<queues, nvars, jvars, main, audioq, tick, lag>>

-----------------------------------------------------------------------------
(* The receive thread, its socket and the sender behind it                   *)

Receiving == main \in {"start", "run"}

NetStep(step) ==
  /\ step
  /\ lag' = 0
  /\ UNCHANGED <<jvars, main, stop, audioq, tick>>

PacketArrives(packet) ==
  /\ Receiving
  /\ packet \in Packets
  /\ NetStep(NetrxData(packet))

SuspArrives == Receiving /\ "SUSP" \in Packets /\ NetStep(NetrxSusp)
TermArrives == Receiving /\ "TERM" \in Packets /\ NetStep(NetrxTerm)
SockFails   == Receiving /\ "FAIL" \in Packets /\ NetStep(NetrxFail)
SockClosed  == main = "drain" /\ NetStep(NetrxFail)
Written     == NetStep(NetrxWrite)
Dropped     == NetStep(NetrxDrop)

-----------------------------------------------------------------------------
(* Jack                                                                    *)

(* The time the code counts on: the receive thread is done with a packet    *)
(* within PacketLag cycles, and gone two cycles before main() stops waiting  *)
(* for it.                                                                 *)
JackMayRun ==
  /\ jalive
  /\ npc \in DataPackets => lag < PacketLag
  /\ main = "run" => tick < PollCycles
  /\ main = "drain" => tick < IF npc = "off" THEN DrainCycles ELSE DrainCycles - 2
  /\ main = "quit" => tick < QuitCycles
  /\ main # "exit"

JackCycle ==
  /\ JackMayRun
  /\ Cycle
  /\ tick' = IF main \in {"run", "drain", "quit"} THEN tick + 1 ELSE tick
  /\ lag' = IF npc \in DataPackets THEN lag + 1 ELSE 0
  /\ nsync' = IF CycleSync /\ nsync = "new" THEN "old" ELSE nsync
  /\ UNCHANGED <<npc, nstate, nfirst, main, stop, audioq>>

JackEvent(callback) ==
  /\ jalive
  /\ main # "exit"
  /\ callback
  /\ UNCHANGED <<nvars, main, stop, audioq, tick, lag>>

(* Bounded by CommqSize, the room for commands that nobody checks.          *)
Freewheel(yesno) ==
  /\ yesno => jstate \in FreewheelAt /\ Len(commq) < CommqSize
  /\ JackEvent(JackFreewheel(yesno))

Buffsize == jstate \in ResizeAt /\ JackEvent(JackBuffsize)
Shutdown == jstate \in ShutdownAt /\ JackEvent(JackShutdown)

Terminated == main = "exit" /\ UNCHANGED vars

Main ==
  \/ MainInfo \/ MainSockFail \/ MainStart \/ MainPoll \/ MainStop
  \/ MainDrained \/ MainExit \/ SigInt

Network ==
  \/ \E packet \in DataPackets : PacketArrives(packet)
  \/ SuspArrives \/ TermArrives \/ SockFails \/ SockClosed \/ Written \/ Dropped

Callback == Buffsize \/ Shutdown \/ \E yesno \in BOOLEAN : Freewheel(yesno)

Next == Main \/ Network \/ JackCycle \/ Callback \/ Terminated

Spec == Init /\ [][Next]_vars

(* What runs, runs on: Jack calls back, sleeps and writes end, and recv()   *)
(* returns when the socket is closed.  Nothing is assumed of the sender.    *)
Fairness ==
  /\ WF_vars(JackCycle)
  /\ WF_vars(MainStart) /\ WF_vars(MainPoll) /\ WF_vars(MainStop)
  /\ WF_vars(MainDrained) /\ WF_vars(MainExit)
  /\ WF_vars(Written \/ Dropped)
  /\ WF_vars(SockClosed)

FairSpec == Spec /\ Fairness

(* A sender that stays: timed packets keep arriving in order, and           *)
(* freewheeling ends.                                                       *)
SenderStays ==
  /\ SF_vars(PacketArrives("timed"))
  /\ SF_vars(npc = "timed" /\ Written)
  /\ WF_vars(Freewheel(FALSE))

LiveSpec == FairSpec /\ SenderStays

-----------------------------------------------------------------------------
MainTypeOK ==
  /\ main \in Places
  /\ stop \in BOOLEAN
  /\ audioq \in BOOLEAN
  /\ tick \in Nat
  /\ lag \in Nat

(* Every variable has its type; the bounded queues never hold more than      *)
(* their size.                                                              *)
TypeOK == QueuesTypeOK /\ NetrxTypeOK /\ JackrxTypeOK /\ MainTypeOK

(* A cycle that reads, aligns or resets the audio queue.                    *)
TouchesAudio == jstate \in Synced \/ (jstate = WAIT /\ ~freew /\ count + 1 = 0)

(* The receive thread is gone and the Jack client cannot know.              *)
Deaf ==
  jstate \in Synced /\ npc = "off" /\ StopAt = 0 /\ Len(timeq) < TimeqSize

(* The Jack callback works on the queues only while they exist: main()      *)
(* deletes the audio queue after each session, and all of them at the end,   *)
(* with the callback still running, and relies on it having fallen idle.     *)
(* It has, unless it was deaf to the end of the receive thread.              *)
QueuesAlive ==
  jalive /\ ~Deaf =>
    /\ TouchesAudio => audioq
    /\ main = "quit" => ~TouchesAudio /\ jstate < TXEND

(* The commands in the queue are in the order the receive thread must obey   *)
(* them: a PROC is never behind another command, and while the Jack client   *)
(* waits the thread has read WAIT or will.                                  *)
CommandsInOrder ==
  /\ \A i \in DOMAIN commq : commq[i] = "PROC" => i = 1
  /\ jstate = WAIT => IF commq = <<>> THEN nstate # "PROC" ELSE Last(commq) = "WAIT"

(* When the receive thread has obeyed the command to start and then stopped  *)
(* writing, the Jack client is going to find out.                           *)
JackWillNotice ==
  jstate \in Synced /\ commq = <<>> /\ nstate # "PROC"
    => StopAt # 0 \/ Len(timeq) >= TimeqSize

(* The queues are reset while the thread writes a packet in one case only:   *)
(* it found a command to start that had already been withdrawn.  This is about *)
(* packets of samples: the thread's other records are single steps (Netrx).   *)
QuietReset ==
  [][JackCycle /\ CycleSync => npc \notin DataPackets \/ nsync = "held"]_vars

(* Tracking uses two time points, and neither is left from an earlier       *)
(* synchronisation (one written under a withdrawn command excepted).         *)
TimesFresh ==
  jstate \in {PROC1, PROC2} => a0 = "NEW" /\ a1 = "NEW"

(* A session whose Jack client gave up, or lost its server, ends: its last   *)
(* word is never lost between the callback and main().                      *)
EndReported ==
  (main = "run" /\ (jstate >= TXEND \/ ~jalive)) ~> (main # "run")

(* The thread's last record is an error that the next cycle reads.           *)
ErrorAhead ==
  jstate \in Synced /\ Len(timeq) < TimeqSize /\ StopAt # 0 /\ timeq[StopAt] = "FAIL"

(* A new period size during a session, and an error of the receive thread     *)
(* that finds the client synchronised, end the program and not only the       *)
(* session.  An error recorded while the client waits does not: initsync()    *)
(* erases it as it erases TERM (TermEndsSession), and so does the restart     *)
(* when it took the last slot.  Freewheeling may come first: it overwrites    *)
(* FATAL (JackFreewheel).                                                  *)
FatalStops ==
  (main = "run" /\ (jstate = FATAL \/ ErrorAhead)) ~> (main = "exit" \/ freew)

(* "Nothing a sender can do will affect the receiver(s)" but their audio     *)
(* (zita-njbridge.1): when it stops, the session ends and the next one can   *)
(* begin.                                                                   *)
TermEndsSession ==
  (main = "run" /\ npc = "off") ~> (main # "run")

(* A sender that falls silent is noticed: the client does not track audio    *)
(* that has stopped.                                                        *)
SilenceNoticed ==
  (main = "run" /\ jstate \in {PROC1, PROC2})
    ~> (npc \in DataPackets \/ jstate \notin {PROC1, PROC2} \/ ~jalive)

(* Waiting ends: once Jack is not freewheeling the client synchronises.      *)
WaitEnds ==
  (jstate = WAIT /\ ~freew) ~> (jstate # WAIT \/ freew \/ ~jalive \/ main = "exit")

(* While the sender stays, a started synchronisation does not hang: audio    *)
(* flows, or the client decides to wait or to give up.                      *)
SyncCompletes ==
  (jstate = SYNC0) ~> (jstate \in {PROC1, PROC2, WAIT} \/ jstate >= TXEND \/ ~jalive)
=============================================================================
