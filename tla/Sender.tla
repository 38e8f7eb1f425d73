-------------------------------- MODULE Sender --------------------------------
(***************************************************************************)
(* zita-j2n: main() (zita-j2n.cc) with its transmit thread and its Jack      *)
(* client.                                                                 *)
(***************************************************************************)
EXTENDS Nettx, Jacktx, SequencesExt

CONSTANTS
  PollCycles,   \* cycles in the 500 ms between two looks at the info queue
  NetKeepsUp,   \* the transmit thread has run out of work when a cycle begins
  ThreadRefused, \* the transmit thread may not be created
  SemMax        \* bound: at this count main() waits for the thread, or without
                \* a thread does not count its wake-ups

ASSUME SenderParams ==
  /\ PollCycles \in Nat
  /\ NetKeepsUp \in BOOLEAN
  /\ ThreadRefused \in BOOLEAN
  /\ SemMax \in Nat

VARIABLES
  main,         \* where main() is
  stop,         \* the static flag
  tick          \* cycles since main() last woke the transmit thread

mvars == <<main, stop, tick>>
vars == <<shared, tvars, jvars, mvars>>

Places == {"setup", "sleep", "check", "stop", "post", "drain", "exit", "dead"}

Running == main \in {"sleep", "check"}

Init ==
  /\ TxQueuesInit
  /\ NettxInit
  /\ JacktxInit
  /\ main = "setup"
  /\ stop = FALSE
  /\ tick = 0

-----------------------------------------------------------------------------
(* main()                                                                  *)

(* Nobody looks whether the thread was created.                             *)
MainStart ==
  /\ main = "setup"
  /\ NettxStart \/ (ThreadRefused /\ UNCHANGED tvars)
  /\ JacktxStart
  /\ main' = "sleep"
  /\ UNCHANGED <<packq, stamps, sem, nstop, stop, tick>>

(* Mutant: the transmit thread is not woken for a descriptor.               *)
TriggerForgotten ==
  /\ main = "sleep"
  /\ main' = "check"
  /\ tick' = 0
  /\ UNCHANGED <<shared, tvars, jvars, stop>>

(* Half a second is over: a descriptor, unless a packet takes its place.     *)
MainTrigger ==
  /\ main = "sleep"
  /\ \/ sem < SemMax /\ sem' = sem + 1
     \/ tpc = "off" /\ sem >= SemMax /\ sem' = sem
  /\ main' = "check"
  /\ tick' = 0
  /\ UNCHANGED <<packq, stamps, infoq, nstop, tvars, jvars, stop>>

(* checkstatus() reads up to the first TERM.                                *)
IsTerm(info) == info = "TERM"
TermAt == SelectInSeq(infoq, IsTerm)

MainCheck ==
  /\ main = "check"
  /\ infoq' = IF TermAt = 0 THEN <<>> ELSE SubSeq(infoq, TermAt + 1, Len(infoq))
  /\ stop' = (stop \/ TermAt # 0)
  /\ main' = IF stop' THEN "stop" ELSE "sleep"
  /\ UNCHANGED <<packq, stamps, sem, nstop, tvars, jvars, tick>>

(* Nettx::stop                                                             *)
MainStop ==
  /\ main = "stop"
  /\ nstop' = TRUE
  /\ main' = "post"
  /\ UNCHANGED <<packq, stamps, infoq, sem, tvars, jvars, stop, tick>>

(* Mutant: the thread is not woken to see the flag.                         *)
MainPostForgotten ==
  /\ main = "post"
  /\ main' = "drain"
  /\ UNCHANGED <<shared, tvars, jvars, stop, tick>>

MainPost ==
  /\ main = "post"
  /\ sem' = sem + 1
  /\ main' = "drain"
  /\ UNCHANGED <<packq, stamps, infoq, nstop, tvars, jvars, stop, tick>>

(* 100 ms later everything is deleted, the Jack client first.  The transmit  *)
(* thread is gone by then: it has one packet to send.                       *)
MainExit ==
  /\ main = "drain"
  /\ tpc = "off"
  /\ jpc = "idle"
  /\ jalive' = FALSE
  /\ main' = "exit"
  /\ UNCHANGED <<shared, tvars, jstate, jpc, left, freew, tscnt, since, stop, tick>>

(* Looked at when the loop comes round.                                     *)
SigInt ==
  /\ Running
  /\ stop' = TRUE
  /\ UNCHANGED <<shared, tvars, jvars, main, tick>>

MainWork ==
  MainStart \/ MainTrigger \/ MainCheck \/ MainStop \/ MainPost \/ MainExit

-----------------------------------------------------------------------------
(* The transmit thread                                                     *)

Thread ==
  /\ TxWake \/ TxStop \/ TxSend \/ TxCommit \/ TxDescriptor
  /\ UNCHANGED <<jvars, mvars>>

-----------------------------------------------------------------------------
(* Jack: it calls back as soon as the client is active, for at least 100 ms   *)
(* before start().                                                         *)

JackMayRun ==
  /\ jalive
  /\ jpc = "idle"
  /\ Running => tick < PollCycles
  /\ NetKeepsUp /\ Running => tpc = "wait" /\ sem = 0

(* report() without the info queue, which start() passes: a null pointer, and *)
(* the process is gone.                                                     *)
NullReport ==
  /\ main = "setup"
  /\ main' = "dead"
  /\ jalive' = FALSE
  /\ UNCHANGED <<shared, tvars, jstate, jpc, left, freew, tscnt, since, stop, tick>>

CycleDies == JackMayRun /\ jstate = "TERM" /\ NullReport

JackCycle ==
  /\ JackMayRun
  /\ main = "setup" => jstate # "TERM"
  /\ CycleTerm \/ CycleSuspend \/ CycleRest \/ CycleSend
  /\ tick' = IF Running THEN tick + 1 ELSE tick
  /\ UNCHANGED <<sem, nstop, tvars, freew, jalive, main, stop>>

JackPack ==
  /\ jpc = "pack"
  /\ CyclePut \/ CycleFull
  /\ UNCHANGED <<sem, nstop, tvars, freew, jalive, mvars>>

JackPost ==
  /\ jpc = "post"
  /\ CyclePost
  /\ UNCHANGED <<packq, stamps, infoq, nstop, tvars, mvars,
                 jstate, left, freew, tscnt, since, jalive>>

(* Read at the beginning of a cycle only.                                   *)
Freewheel ==
  /\ jalive /\ jpc = "idle"
  /\ freew' = ~freew
  /\ UNCHANGED <<shared, tvars, mvars, jstate, jpc, left, tscnt, since, jalive>>

(* The period size changed.  Before start() this is forgotten, unless a cycle *)
(* comes in between.                                                       *)
Buffsize ==
  /\ jalive /\ jpc = "idle"
  /\ jstate' = "TERM"
  /\ UNCHANGED <<shared, tvars, mvars, jpc, left, freew, tscnt, since, jalive>>

ShutdownDies == jalive /\ jpc = "idle" /\ NullReport

Shutdown ==
  /\ jalive /\ jpc = "idle" /\ main # "setup"
  /\ jalive' = FALSE
  /\ infoq' = Report(infoq, "TERM")
  /\ UNCHANGED <<packq, stamps, sem, nstop, tvars, mvars,
                 jstate, jpc, left, freew, tscnt, since>>

Jack ==
  \/ JackCycle \/ JackPack \/ JackPost \/ CycleDies
  \/ Freewheel \/ Buffsize \/ Shutdown \/ ShutdownDies

Terminated == main \in {"exit", "dead"} /\ UNCHANGED vars

Next == MainWork \/ SigInt \/ Thread \/ Jack \/ Terminated

Spec == Init /\ [][Next]_vars

(* Every thread that can go on goes on.                                     *)
Fairness ==
  /\ WF_vars(MainWork)
  /\ WF_vars(Thread)
  /\ WF_vars(JackCycle) /\ WF_vars(JackPack) /\ WF_vars(JackPost)

FairSpec == Spec /\ Fairness

-----------------------------------------------------------------------------
(* Every variable has its type; no bounded queue holds more than its size.   *)
TypeOK ==
  /\ TxQueuesTypeOK
  /\ NettxTypeOK
  /\ JacktxTypeOK
  /\ main \in Places
  /\ stop \in BOOLEAN
  /\ tick \in Nat

(* The transmit thread never sleeps on a packet: when it is blocked and the   *)
(* Jack callback is not just about to wake it, the queue is empty.  main()    *)
(* wakes it too, and the wake-ups are not told apart.                       *)
NoLostWakeup == tpc = "wait" /\ sem = 0 /\ jpc # "post" => packq = <<>>

(* What may come after what on the network.                                 *)
Follows(last, next) ==
  \/ last \in 1..(Npack - 1) /\ next = last + 1
  \/ last \in {NOTHING, Npack} /\ next \in {1, SUSP}
  \/ last = SUSP /\ next = 1

(* Descriptors apart, the receivers get whole periods, in order and led by    *)
(* the timed packet, and a suspension stands only between two periods; only  *)
(* the end of the program may cut a period short.                           *)
WholePeriods == [][Follows(wire, wire') \/ wire' = GOODBYE]_wire

(* The packet the receivers get last if nothing more is queued.             *)
Latest == IF packq = <<>> THEN wire ELSE Last(packq)

(* While the client is suspended the suspend packet is the last one queued:   *)
(* it was not dropped, nothing of a period is behind it, and by WholePeriods  *)
(* the period before it is complete.                                        *)
SuspendAnnounced == jstate = "SUSP" /\ wire # GOODBYE => Latest = SUSP

(* The receivers get the suspend packet even when freewheeling is over before *)
(* its turn comes, unless the program ends first or has no transmit thread.   *)
SuspendSent == (jstate = "SUSP" /\ tpc # "off") ~> (wire = SUSP \/ nstop)

(* From start() on: when the transmit queue overflows, the period size        *)
(* changes or the Jack server goes away, the program ends.  A change before   *)
(* start() is not among these (see Buffsize).                               *)
FatalEnds == (Running /\ (jstate = "TERM" \/ ~jalive)) ~> (main = "exit")

(* A transmit thread that was not created is missed: the packets nobody sends *)
(* fill the queue and the program ends, unless Jack freewheels.              *)
MissingThreadEnds == (Running /\ tpc = "off") ~> (main = "exit" \/ freew)

(* When the program is stopped, by the user or by its client, the receivers   *)
(* are told, if it has a transmit thread.  Without one they never are.       *)
GoodbyeSent == (stop /\ tpc # "off") ~> (main = "exit" /\ wire = GOODBYE)

(* The timestamp queue is written without looking for room: descriptors go   *)
(* out often enough to empty it, as long as the program runs.               *)
StampsFit == Running => stamps <= TimeqSize

(* Descriptors, by which a receiver that starts late finds the sender, keep   *)
(* going out although packets of samples take the wake-ups meant for them.   *)
DescriptorsFlow ==
  []<>~Running \/ []<><<Thread /\ TxDescriptor>>_vars

(* "Send periodic timestamp": two timestamps are a second apart.            *)
StampsPeriodic ==
  [][stamps' > stamps => since = -1 \/ since + 1 >= SecCycles]_vars
=============================================================================
