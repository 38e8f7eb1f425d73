-------------------------------- MODULE Jackrx --------------------------------
(***************************************************************************)
(* The Jack client of zita-n2j (jackrx.cc).  A cycle of jack_process is one  *)
(* step, split by the branch it takes.  The delay error, the loop filter and *)
(* the resampler are real arithmetic: what they decide is a choice here.     *)
(***************************************************************************)
EXTENDS RxQueues, SequencesExt

CONSTANTS
  Ppsec,        \* _ppsec, periods per second
  SettleSecs,   \* seconds in PROC1, 4 in the program
  RestartSecs,  \* seconds to wait when the loop is lost, 10
  DryLimit,     \* cycles without audio until rd_avail < -_limit
  Skips         \* the number of cycles Jack may have skipped before one

ASSUME JackrxParams ==
  /\ Ppsec \in Nat
  /\ SettleSecs \in Nat
  /\ RestartSecs \in Nat
  /\ DryLimit \in Nat
  /\ Skips \subseteq Nat

VARIABLES
  jstate,       \* _state
  count,        \* _count
  freew,        \* _freew
  a0, a1,       \* the last two time points: "none", or what the record was
  jalive        \* the Jack server still calls us

jvars == <<jstate, count, freew, a0, a1, jalive>>

IDLE  == 1
WAIT  == 2
SYNC0 == 3
SYNC1 == 4
SYNC2 == 5
PROC1 == 6
PROC2 == 7
TXEND == 8
FATAL == 9
Synced == SYNC0..PROC2

(* Mutants: a wait of a sixteenth of a second, and of none.                 *)
HalfSecTooShort == Ppsec \div 16
QuarterSecNone  == 0

HalfSec    == Ppsec \div 2
QuarterSec == Ppsec \div 4

Inform(q, what) == PutIfRoom(q, InfoqSize, what)

(* A counter that has passed the value it is compared with stays there.     *)
CountUp(n, limit) == IF n > limit THEN n ELSE n + 1

JackrxInit ==    \* the constructor has returned
  /\ jstate = IDLE
  /\ count = 0
  /\ freew = FALSE
  /\ a0 = "none"
  /\ a1 = "none"
  /\ jalive = TRUE

(* Mutant: the receive thread is not told to wait.                          *)
InitWaitUntold(nwait, informed) ==
  /\ count' = -nwait
  /\ commq' = commq
  /\ jstate' = WAIT
  /\ infoq' = IF nwait > Ppsec THEN Inform(informed, "WAIT") ELSE informed

(* initwait (nwait), with the info queue as its caller leaves it.  The      *)
(* command is written without looking for room.                             *)
InitWait(nwait, informed) ==
  /\ count' = -nwait
  /\ commq' = Append(commq, "WAIT")
  /\ jstate' = WAIT
  /\ infoq' = IF nwait > Ppsec THEN Inform(informed, "WAIT") ELSE informed

(* Mutants: the command queue is not reset, and the command not given.      *)
SyncCommandsKept == Append(commq, "PROC")
SyncCommandsNone == <<>>

(* initsync: every queue but the info queue starts anew.                    *)
SyncCommands == <<"PROC">>

InitSync ==
  /\ commq' = SyncCommands
  /\ timeq' = <<>>
  /\ dry' = 0
  /\ a0' = "none"
  /\ a1' = "none"
  /\ jstate' = SYNC0
  /\ infoq' = Inform(infoq, "INFO")

JackStart ==
  /\ InitWait(HalfSec, infoq)
  /\ UNCHANGED <<timeq, dry, freew, a0, a1, jalive>>

-----------------------------------------------------------------------------
(* jack_process, one action for each way through it.                        *)

CycleIdle ==
  /\ jstate = IDLE
  /\ UNCHANGED <<queues, jvars>>

(* Mutants: the reason is lost, and the report is repeated for ever.        *)
ReasonLost == "TXEND"

Reason == IF jstate = TXEND THEN "TXEND" ELSE "FATAL"

CycleDoneAgain ==
  /\ jstate >= TXEND
  /\ infoq' = Inform(infoq, Reason)
  /\ UNCHANGED <<commq, timeq, dry, jvars>>

CycleDone ==
  /\ jstate >= TXEND
  /\ infoq' = Inform(infoq, Reason)
  /\ jstate' = IDLE
  /\ UNCHANGED <<commq, timeq, dry, count, freew, a0, a1, jalive>>

CycleHold ==
  /\ jstate = WAIT
  /\ freew \/ count + 1 # 0
  /\ count' = IF freew THEN count ELSE CountUp(count, 0)
  /\ UNCHANGED <<queues, jstate, freew, a0, a1, jalive>>

CycleSync ==
  /\ jstate = WAIT
  /\ ~freew
  /\ count + 1 = 0
  /\ count' = 0
  /\ InitSync
  /\ UNCHANGED <<freew, jalive>>

(* Too many records wait to be read.                                        *)
CycleFull ==
  /\ jstate \in Synced
  /\ Len(timeq) >= TimeqSize
  /\ InitWait(HalfSec, infoq)
  /\ UNCHANGED <<timeq, dry, freew, a0, a1, jalive>>

(* The queue is read up to the first record that is not a time point, which  *)
(* is left in it.  The last time point read is kept; the one before it is    *)
(* that of an earlier cycle.                                                *)
IsStop(record) == record \in StopMarks
StopAt == SelectInSeq(timeq, IsStop)
Times  == IF StopAt = 0 THEN timeq ELSE SubSeq(timeq, 1, StopAt - 1)

Stepped == IF Times # <<>> /\ jstate < SYNC2 THEN jstate + 1 ELSE jstate
Informed == IF Stepped # jstate THEN Inform(infoq, "INFO") ELSE infoq

ReadTimes ==
  /\ jstate \in Synced
  /\ Len(timeq) < TimeqSize
  /\ IF Times = <<>>
     THEN UNCHANGED <<a0, a1>>
     ELSE a0' = a1 /\ a1' = Last(Times)

CycleStopped(why) ==
  /\ ReadTimes
  /\ StopAt # 0
  /\ timeq[StopAt] = why
  /\ timeq' = SubSeq(timeq, StopAt, Len(timeq))
  /\ UNCHANGED <<dry, freew, jalive>>

CycleSusp ==
  /\ CycleStopped("WAIT")
  /\ InitWait(HalfSec, Informed)

CycleTerm ==
  /\ CycleStopped("TERM")
  /\ jstate' = TXEND
  /\ infoq' = Informed
  /\ UNCHANGED <<commq, count>>

CycleFail ==
  /\ CycleStopped("FAIL")
  /\ jstate' = FATAL
  /\ infoq' = Informed
  /\ UNCHANGED <<commq, count>>

ReadAll ==
  /\ ReadTimes
  /\ StopAt = 0
  /\ timeq' = <<>>
  /\ UNCHANGED <<freew, jalive>>

(* Not synchronised yet: silence.                                           *)
CycleSilent ==
  /\ ReadAll
  /\ Stepped < SYNC2
  /\ jstate' = Stepped
  /\ infoq' = Informed
  /\ UNCHANGED <<commq, dry, count>>

(* The loop filter finds the error beyond repair.                           *)
CycleLost ==
  /\ ReadAll
  /\ Stepped >= SYNC2
  /\ InitWait(RestartSecs * Ppsec, Informed)
  /\ UNCHANGED dry

(* Mutant: the limit has the wrong sign.                                    *)
StarvedNever(used) == used < -DryLimit

Starved(used) == used > DryLimit

(* Audio goes to the ports.  The audio queue may be read beyond what was    *)
(* written, for DryLimit cycles.                                            *)
CycleRun(skipped) ==
  LET start == IF Stepped = SYNC2 THEN PROC1 ELSE Stepped
      now   == IF start = PROC1 THEN CountUp(count, SettleSecs * Ppsec) ELSE count
      kept  == IF start = PROC1 /\ now = SettleSecs * Ppsec THEN PROC2 ELSE start
      used  == dry + 1 + skipped
  IN  /\ ReadAll
      /\ Stepped >= SYNC2
      /\ count' = now
      /\ dry' = IF used > DryLimit THEN DryLimit + 1 ELSE used
      /\ infoq' = Inform(Informed, "INFO")
      /\ jstate' = IF Starved(used) THEN TXEND ELSE kept
      /\ UNCHANGED commq

Cycle ==
  \/ CycleIdle \/ CycleDone \/ CycleHold \/ CycleSync \/ CycleFull
  \/ CycleSusp \/ CycleTerm \/ CycleFail
  \/ CycleSilent \/ CycleLost
  \/ \E skipped \in Skips : CycleRun(skipped)

-----------------------------------------------------------------------------
(* The other Jack callbacks.                                                *)

JackFreewheel(yesno) ==
  /\ freew # yesno
  /\ freew' = yesno
  /\ IF yesno
     THEN InitWait(QuarterSec, infoq)
     ELSE UNCHANGED <<count, commq, jstate, infoq>>
  /\ UNCHANGED <<timeq, dry, a0, a1, jalive>>

(* The period size changed.                                                 *)
JackBuffsize ==
  /\ jstate' = FATAL
  /\ UNCHANGED <<queues, count, freew, a0, a1, jalive>>

JackShutdown ==
  /\ jalive' = FALSE
  /\ infoq' = Inform(infoq, "FATAL")
  /\ UNCHANGED <<commq, timeq, dry, jstate, count, freew, a0, a1>>

JackrxTypeOK ==
  /\ jstate \in IDLE..FATAL
  /\ count \in Int
  /\ freew \in BOOLEAN
  /\ a0 \in TimePoints \cup {"none"}
  /\ a1 \in TimePoints \cup {"none"}
  /\ jalive \in BOOLEAN
  /\ dry \in 0..(DryLimit + 1)
=============================================================================
