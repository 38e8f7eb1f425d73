--------------------------- MODULE ReceiverProofs ---------------------------
(***************************************************************************)
(* Theorems about the receiver, for every size of its queues and every      *)
(* value of its delays.                                                    *)
(***************************************************************************)
EXTENDS Receiver, SequenceTheorems, Arithmetic

-----------------------------------------------------------------------------
(* The helpers on sequences                                                *)

(* What the drain loop of the Jack callback stops at.                      *)
LEMMA StopAtIsFirst ==
  ASSUME timeq \in Seq(Records)
  PROVE  /\ StopAt \in 0..Len(timeq)
         /\ StopAt = 0 => \A i \in 1..Len(timeq) : timeq[i] \notin StopMarks
         /\ StopAt # 0 => timeq[StopAt] \in StopMarks
         /\ \A i \in 1..(StopAt - 1) : timeq[i] \notin StopMarks
<1> DEFINE I == {i \in 1..Len(timeq) : IsStop(timeq[i])}
<1>1. StopAt = IF I # {} THEN Min(I) ELSE 0
  BY DEF StopAt, SelectInSeq
<1>2. Len(timeq) \in Nat
  BY LenProperties
<1>3. CASE I = {}
  BY <1>1, <1>2, <1>3 DEF IsStop
<1>4. CASE I # {}
  <2>1. I \subseteq Nat
    OBVIOUS
  <2>2. Min(I) \in I /\ \A y \in I : Min(I) <= y
    BY <2>1, <1>4, MinIsLeast
  <2>3. StopAt \in I /\ \A y \in I : StopAt <= y
    BY <2>2, <1>1, <1>4
  <2>. QED
    BY <2>3, <1>2 DEF IsStop
<1>. QED
  BY <1>3, <1>4

LEMMA EndAtInRange ==
  ASSUME infoq \in Seq(Infos)
  PROVE  EndAt \in 0..Len(infoq)
<1> DEFINE I == {i \in 1..Len(infoq) : IsEnd(infoq[i])}
<1>1. EndAt = IF I # {} THEN Min(I) ELSE 0
  BY DEF EndAt, SelectInSeq
<1>2. I # {} => Min(I) \in I
  <2>1. I \subseteq Nat
    OBVIOUS
  <2>. QED
    BY <2>1, MinIsLeast
<1>3. Len(infoq) \in Nat
  BY LenProperties
<1>. QED
  BY <1>1, <1>2, <1>3

LEMMA PutIfRoomType ==
  ASSUME NEW S, NEW q \in Seq(S), NEW size \in Nat, Len(q) <= size, NEW x \in S
  PROVE  PutIfRoom(q, size, x) \in Seq(S) /\ Len(PutIfRoom(q, size, x)) <= size
  BY DEF PutIfRoom

-----------------------------------------------------------------------------
(* Type correctness, thread by thread                                      *)

LEMMA InitWaitType ==
  ASSUME QueuesTypeOK, NEW n \in Nat, NEW iq \in Seq(Infos),
         Len(iq) <= InfoqSize, InitWait(n, iq)
  PROVE  /\ count' \in Int /\ jstate' \in IDLE..FATAL
         /\ commq' \in Seq(Commands)
         /\ infoq' \in Seq(Infos) /\ Len(infoq') <= InfoqSize
<1>1. Append(commq, "WAIT") \in Seq(Commands)
  BY DEF QueuesTypeOK, Commands
<1>2. Inform(iq, "WAIT") \in Seq(Infos) /\ Len(Inform(iq, "WAIT")) <= InfoqSize
  BY PutIfRoomType, QueueSizes DEF Inform, Infos, EndMarks
<1>. QED
  BY <1>1, <1>2 DEF InitWait, WAIT, IDLE, FATAL

LEMMA WaitsType == {HalfSec, QuarterSec, RestartSecs * Ppsec} \subseteq Nat
  BY JackrxParams DEF HalfSec, QuarterSec

LEMMA NetrxType ==
  ASSUME QueuesTypeOK, NetrxTypeOK,
         \/ NetrxFail \/ NetrxTerm \/ NetrxSusp
         \/ \E packet \in DataPackets : NetrxData(packet)
         \/ NetrxWrite \/ NetrxDrop
  PROVE  QueuesTypeOK' /\ NetrxTypeOK' /\ dry' \in {0, dry}
<1>1. \A x \in Records : /\ PutIfRoom(timeq, TimeqSize, x) \in Seq(Records)
                         /\ Len(PutIfRoom(timeq, TimeqSize, x)) <= TimeqSize
  BY PutIfRoomType, QueueSizes DEF QueuesTypeOK
<1>2. CASE NetrxFail
  BY <1>1, <1>2 DEF NetrxFail, NetrxExit, QueuesTypeOK, NetrxTypeOK, Records, StopMarks
<1>3. CASE NetrxTerm
  BY <1>1, <1>3 DEF NetrxTerm, NetrxExit, QueuesTypeOK, NetrxTypeOK, Records, StopMarks
<1>4. CASE NetrxSusp
  BY <1>1, <1>4 DEF NetrxSusp, QueuesTypeOK, NetrxTypeOK, Records, StopMarks
<1>5. CASE \E packet \in DataPackets : NetrxData(packet)
  <2>1. PICK packet \in DataPackets : NetrxData(packet)
    BY <1>5
  <2>2. commq # <<>> => Head(commq) \in Commands /\ Tail(commq) \in Seq(Commands)
    BY DEF QueuesTypeOK
  <2>3. nstate' \in {"INIT", "WAIT", "PROC"} /\ commq' \in Seq(Commands)
    BY <2>1, <2>2 DEF NetrxData, NetrxTypeOK, QueuesTypeOK, Commands
  <2>. QED
    BY <2>1, <2>3 DEF NetrxData, QueuesTypeOK, NetrxTypeOK, Syncs
<1>6. CASE NetrxWrite
  BY <1>1, <1>6 DEF NetrxWrite, QueuesTypeOK, NetrxTypeOK, Records, TimePoints
<1>7. CASE NetrxDrop
  BY <1>7 DEF NetrxDrop, queues, QueuesTypeOK, NetrxTypeOK
<1>. QED
  BY <1>2, <1>3, <1>4, <1>5, <1>6, <1>7

(* The time points read in one cycle, and the state they lead to.           *)
LEMMA ReadTimesType ==
  ASSUME QueuesTypeOK, JackrxTypeOK, jstate \in Synced
  PROVE  /\ Times \in Seq(TimePoints)
         /\ Stepped \in Synced
         /\ Informed \in Seq(Infos) /\ Len(Informed) <= InfoqSize
<1>1. Times \in Seq(TimePoints)
  <2> USE DEF QueuesTypeOK
  <2>1. /\ StopAt \in 0..Len(timeq)
        /\ StopAt = 0 => \A i \in 1..Len(timeq) : timeq[i] \notin StopMarks
        /\ \A i \in 1..(StopAt - 1) : timeq[i] \notin StopMarks
    BY StopAtIsFirst
  <2>2. Len(timeq) \in Nat /\ \A i \in 1..Len(timeq) : timeq[i] \in Records
    BY LenProperties, ElementOfSeq
  <2>3. CASE StopAt = 0
    <3>1. \A i \in 1..Len(timeq) : timeq[i] \in TimePoints
      BY <2>1, <2>2, <2>3 DEF Records
    <3>2. SubSeq(timeq, 1, Len(timeq)) \in Seq(TimePoints)
      BY <3>1, <2>2, SubSeqProperties
    <3>. QED
      BY <3>2, <2>3, SubSeqFull DEF Times
  <2>4. CASE StopAt # 0
    <3>1. StopAt - 1 \in Int /\ \A i \in 1..(StopAt - 1) : timeq[i] \in TimePoints
      BY <2>1, <2>2 DEF Records
    <3>. QED
      BY <3>1, <2>4, SubSeqProperties DEF Times
  <2>. QED
    BY <2>3, <2>4
<1>2. Stepped \in Synced
  BY DEF Stepped, Synced, SYNC0, SYNC2, PROC2
<1>3. Informed \in Seq(Infos) /\ Len(Informed) <= InfoqSize
  BY PutIfRoomType, QueueSizes DEF Informed, Inform, QueuesTypeOK, Infos
<1>. QED
  BY <1>1, <1>2, <1>3

LEMMA ReadTimesStep ==
  ASSUME QueuesTypeOK, JackrxTypeOK, ReadTimes
  PROVE  a0' \in TimePoints \cup {"none"} /\ a1' \in TimePoints \cup {"none"}
<1>1. CASE Times = <<>>
  BY <1>1 DEF ReadTimes, JackrxTypeOK
<1>2. CASE Times # <<>>
  <2>1. Times \in Seq(TimePoints)
    BY ReadTimesType DEF ReadTimes
  <2>2. Len(Times) \in 1..Len(Times)
    BY <2>1, <1>2, EmptySeq
  <2>3. Last(Times) \in TimePoints
    BY <2>1, <2>2, ElementOfSeq DEF Last
  <2>. QED
    BY <2>3, <1>2 DEF ReadTimes, JackrxTypeOK
<1>. QED
  BY <1>1, <1>2

LEMMA CycleType ==
  ASSUME QueuesTypeOK, JackrxTypeOK, Cycle
  PROVE  QueuesTypeOK' /\ JackrxTypeOK'
<1> USE DEF QueuesTypeOK, JackrxTypeOK
<1> DEFINE Fits(iq) == iq \in Seq(Infos) /\ Len(iq) <= InfoqSize
           Numbered == /\ IDLE..FATAL = 1..9 /\ Synced = 3..7
                       /\ {IDLE, SYNC0, TXEND, FATAL, PROC1, PROC2} \subseteq IDLE..FATAL
<1>0. Numbered
  BY DEF IDLE, FATAL, Synced, SYNC0, PROC1, PROC2, TXEND
<1>1. \A iq, x : Fits(iq) /\ x \in Infos => Fits(Inform(iq, x))
  BY PutIfRoomType, QueueSizes DEF Inform
<1>2. \A n, iq : n \in Nat /\ Fits(iq) /\ InitWait(n, iq)
        => /\ count' \in Int /\ jstate' \in IDLE..FATAL
           /\ commq' \in Seq(Commands) /\ Fits(infoq')
  BY InitWaitType
<1>3. {"INFO", "TXEND", "FATAL"} \subseteq Infos
  BY DEF Infos, EndMarks
<1>4. jstate \in Synced => Fits(Informed) /\ Stepped \in Synced
  BY ReadTimesType
<1>5. ReadTimes => a0' \in TimePoints \cup {"none"} /\ a1' \in TimePoints \cup {"none"}
  BY ReadTimesStep
<1>6. CASE CycleIdle
  BY <1>6 DEF CycleIdle, queues, jvars
<1>7. CASE CycleDone
  BY <1>7, <1>0, <1>1, <1>3 DEF CycleDone, Reason
<1>8. CASE CycleHold
  BY <1>8 DEF CycleHold, CountUp, queues
<1>9. CASE CycleSync
  BY <1>9, <1>0, <1>1, <1>3, JackrxParams, QueueSizes DEF CycleSync, InitSync, SyncCommands, Commands
<1>10. CASE CycleFull
  BY <1>10, <1>2, WaitsType DEF CycleFull
<1>11. ASSUME NEW why, CycleStopped(why)
       PROVE  /\ timeq' \in Seq(Records) /\ Len(timeq') <= TimeqSize
              /\ Fits(Informed)
              /\ a0' \in TimePoints \cup {"none"} /\ a1' \in TimePoints \cup {"none"}
  <2>1. StopAt \in 1..Len(timeq) /\ Len(timeq) \in Nat
    BY <1>11, StopAtIsFirst, LenProperties DEF CycleStopped
  <2>2. \A i \in StopAt..Len(timeq) : timeq[i] \in Records
    BY <2>1, ElementOfSeq
  <2>3. /\ SubSeq(timeq, StopAt, Len(timeq)) \in Seq(Records)
        /\ Len(SubSeq(timeq, StopAt, Len(timeq))) = Len(timeq) - StopAt + 1
    BY <2>1, <2>2, SubSeqProperties
  <2>4. timeq' \in Seq(Records) /\ Len(timeq') <= TimeqSize
    BY <2>1, <2>3, <1>11, QueueSizes DEF CycleStopped
  <2>. QED
    BY <2>4, <1>4, <1>5, <1>11 DEF CycleStopped, ReadTimes
<1>12. CASE CycleSusp
  BY <1>12, <1>11, <1>2, WaitsType DEF CycleSusp, CycleStopped
<1>13. CASE CycleTerm
  BY <1>13, <1>11, <1>0 DEF CycleTerm, CycleStopped
<1>14. CASE CycleFail
  BY <1>14, <1>11, <1>0 DEF CycleFail, CycleStopped
<1>15. CASE CycleSilent
  BY <1>15, <1>0, <1>4, <1>5, QueueSizes DEF CycleSilent, ReadAll, ReadTimes
<1>16. CASE CycleLost
  BY <1>16, <1>2, <1>4, <1>5, QueueSizes, WaitsType DEF CycleLost, ReadAll, ReadTimes
<1>17. ASSUME NEW skipped \in Skips, CycleRun(skipped)
       PROVE  QueuesTypeOK' /\ JackrxTypeOK'
  <2>1. Fits(Inform(Informed, "INFO")) /\ Stepped \in Synced
    BY <1>17, <1>1, <1>3, <1>4 DEF CycleRun, ReadAll, ReadTimes
  <2>2. CountUp(count, SettleSecs * Ppsec) \in Int
    BY DEF CountUp
  <2>3. dry' \in 0..(DryLimit + 1)
    BY <1>17, JackrxParams DEF CycleRun
  <2>4. jstate' \in IDLE..FATAL
    BY <1>17, <2>1 DEF CycleRun, Synced, IDLE, SYNC0, SYNC2, PROC1, PROC2, TXEND, FATAL
  <2>. QED
    BY <1>17, <1>5, <2>1, <2>2, <2>3, <2>4, QueueSizes DEF CycleRun, ReadAll, ReadTimes
<1>. QED
  BY <1>6, <1>7, <1>8, <1>9, <1>10, <1>12, <1>13, <1>14, <1>15, <1>16, <1>17 DEF Cycle

LEMMA CallbacksType ==
  ASSUME QueuesTypeOK, JackrxTypeOK,
         \/ JackStart \/ JackBuffsize \/ JackShutdown
         \/ \E yesno \in BOOLEAN : JackFreewheel(yesno)
  PROVE  QueuesTypeOK' /\ JackrxTypeOK'
<1> USE DEF QueuesTypeOK, JackrxTypeOK
<1>1. \A n : n \in Nat /\ InitWait(n, infoq)
        => /\ count' \in Int /\ jstate' \in IDLE..FATAL
           /\ commq' \in Seq(Commands)
           /\ infoq' \in Seq(Infos) /\ Len(infoq') <= InfoqSize
  BY InitWaitType
<1>2. CASE JackStart
  BY <1>2, <1>1, WaitsType DEF JackStart
<1>3. CASE JackBuffsize
  BY <1>3 DEF JackBuffsize, queues, IDLE, FATAL
<1>4. CASE JackShutdown
  <2>1. Inform(infoq, "FATAL") \in Seq(Infos) /\ Len(Inform(infoq, "FATAL")) <= InfoqSize
    BY PutIfRoomType, QueueSizes DEF Inform, Infos, EndMarks
  <2>. QED
    BY <1>4, <2>1 DEF JackShutdown
<1>5. CASE \E yesno \in BOOLEAN : JackFreewheel(yesno)
  <2>1. PICK yesno \in BOOLEAN : JackFreewheel(yesno)
    BY <1>5
  <2>2. CASE yesno
    BY <2>1, <2>2, <1>1, WaitsType DEF JackFreewheel
  <2>3. CASE ~yesno
    BY <2>1, <2>3 DEF JackFreewheel
  <2>. QED
    BY <2>2, <2>3
<1>. QED
  BY <1>2, <1>3, <1>4, <1>5

LEMMA InitType == Init => TypeOK
<1> SUFFICES ASSUME Init PROVE TypeOK
  OBVIOUS
<1>1. QueuesTypeOK
  BY QueueSizes DEF Init, QueuesInit, QueuesTypeOK
<1>2. NetrxTypeOK
  BY DEF Init, NetrxInit, NetrxTypeOK, Syncs
<1>3. JackrxTypeOK
  <2>1. dry \in 0..(DryLimit + 1)
    BY JackrxParams DEF Init, QueuesInit
  <2>2. IDLE \in IDLE..FATAL
    BY DEF IDLE, FATAL
  <2>3. freew \in BOOLEAN /\ jalive \in BOOLEAN
    BY Zenon DEF Init, JackrxInit
  <2>. QED
    BY <2>1, <2>2, <2>3 DEF Init, JackrxInit, JackrxTypeOK
<1>4. MainTypeOK
  BY DEF Init, MainTypeOK, Places
<1>. QED
  BY <1>1, <1>2, <1>3, <1>4 DEF TypeOK

LEMMA NextType == TypeOK /\ [Next]_vars => TypeOK'
<1> SUFFICES ASSUME TypeOK, [Next]_vars PROVE TypeOK'
  OBVIOUS
<1>1. CASE MainInfo
  <2>1. CASE NetrxStart
    BY <1>1, <2>1 DEF MainInfo, NetrxStart, queues, jvars,
       TypeOK, QueuesTypeOK, NetrxTypeOK, JackrxTypeOK, MainTypeOK, Places
  <2>2. CASE UNCHANGED nvars
    BY <1>1, <2>2 DEF MainInfo, queues, nvars, jvars,
       TypeOK, QueuesTypeOK, NetrxTypeOK, JackrxTypeOK, MainTypeOK, Places
  <2>. QED
    BY <1>1, <2>1, <2>2 DEF MainInfo
<1>2. CASE MainSockFail \/ MainStop \/ MainDrained \/ MainExit \/ SigInt
  <2>1. QueuesTypeOK' /\ NetrxTypeOK' /\ JackrxTypeOK'
    BY <1>2 DEF MainSockFail, MainStop, MainDrained, MainExit, SigInt, queues, nvars, jvars,
       TypeOK, QueuesTypeOK, NetrxTypeOK, JackrxTypeOK
  <2>2. main' \in Places /\ tick' \in Nat /\ lag' \in Nat
    BY <1>2 DEF MainSockFail, MainStop, MainDrained, MainExit, SigInt, TypeOK, MainTypeOK, Places
  <2>3. stop' \in BOOLEAN /\ audioq' \in BOOLEAN
    BY <1>2 DEF MainSockFail, MainStop, MainDrained, MainExit, SigInt, TypeOK, MainTypeOK
  <2>. QED
    BY <2>1, <2>2, <2>3 DEF TypeOK, MainTypeOK
<1>3. CASE MainStart
  BY <1>3, CallbacksType DEF MainStart, nvars, TypeOK, NetrxTypeOK, MainTypeOK, Places
<1>4. CASE MainPoll
  <2>1. Unread \in Seq(Infos) /\ Len(Unread) <= InfoqSize
    <3>1. EndAt \in 0..Len(infoq) /\ Len(infoq) \in Nat
      BY EndAtInRange, LenProperties DEF TypeOK, QueuesTypeOK
    <3>2. CASE EndAt = 0
      BY <3>2, QueueSizes DEF Unread
    <3>3. CASE EndAt # 0
      <4>1. /\ EndAt + 1 \in Int
            /\ \A i \in (EndAt + 1)..Len(infoq) : infoq[i] \in Infos
        BY <3>1, <3>3, ElementOfSeq DEF TypeOK, QueuesTypeOK
      <4>2. /\ SubSeq(infoq, EndAt + 1, Len(infoq)) \in Seq(Infos)
            /\ Len(SubSeq(infoq, EndAt + 1, Len(infoq))) <= Len(infoq)
        BY <4>1, <3>1, <3>3, SubSeqProperties
      <4>. QED
        BY <4>2, <3>1, <3>3, QueueSizes DEF Unread, TypeOK, QueuesTypeOK
    <3>. QED
      BY <3>2, <3>3
  <2>2. QueuesTypeOK' /\ NetrxTypeOK' /\ JackrxTypeOK'
    BY <1>4, <2>1 DEF MainPoll, nvars, jvars, TypeOK, QueuesTypeOK, NetrxTypeOK, JackrxTypeOK
  <2>3. MainTypeOK'
    BY <1>4 DEF MainPoll, TypeOK, MainTypeOK, Places
  <2>. QED
    BY <2>2, <2>3 DEF TypeOK
<1>5. CASE Network
  <2>1. /\ \/ NetrxFail \/ NetrxTerm \/ NetrxSusp
           \/ \E packet \in DataPackets : NetrxData(packet)
           \/ NetrxWrite \/ NetrxDrop
        /\ lag' = 0
        /\ UNCHANGED <<jvars, main, stop, audioq, tick>>
    BY <1>5 DEF Network, PacketArrives, SuspArrives, TermArrives, SockFails, SockClosed,
       Written, Dropped, NetStep
  <2>2. QueuesTypeOK' /\ NetrxTypeOK' /\ dry' \in {0, dry}
    BY <2>1, NetrxType DEF TypeOK
  <2>3. JackrxTypeOK'
    BY <2>1, <2>2, JackrxParams DEF jvars, TypeOK, JackrxTypeOK
  <2>4. MainTypeOK'
    BY <2>1 DEF TypeOK, MainTypeOK
  <2>. QED
    BY <2>2, <2>3, <2>4 DEF TypeOK
<1>6. CASE JackCycle
  <2>1. QueuesTypeOK' /\ JackrxTypeOK'
    BY <1>6, CycleType DEF JackCycle, TypeOK
  <2>2. NetrxTypeOK' /\ MainTypeOK'
    BY <1>6 DEF JackCycle, TypeOK, NetrxTypeOK, MainTypeOK, Syncs
  <2>. QED
    BY <2>1, <2>2 DEF TypeOK
<1>7. CASE Callback
  <2>1. /\ \/ JackBuffsize \/ JackShutdown
           \/ \E yesno \in BOOLEAN : JackFreewheel(yesno)
        /\ UNCHANGED <<nvars, main, stop, audioq, tick, lag>>
    BY <1>7 DEF Callback, Buffsize, Shutdown, Freewheel, JackEvent
  <2>. QED
    BY <2>1, CallbacksType DEF nvars, TypeOK, NetrxTypeOK, MainTypeOK
<1>8. CASE Terminated
  BY <1>8 DEF Terminated, vars, queues, nvars, jvars,
     TypeOK, QueuesTypeOK, NetrxTypeOK, JackrxTypeOK, MainTypeOK
<1>9. CASE UNCHANGED vars
  BY <1>9 DEF vars, queues, nvars, jvars,
     TypeOK, QueuesTypeOK, NetrxTypeOK, JackrxTypeOK, MainTypeOK
<1>10. CASE Main
  BY <1>10, <1>1, <1>2, <1>3, <1>4 DEF Main
<1>. QED
  BY <1>5, <1>6, <1>7, <1>8, <1>9, <1>10 DEF Next

(* Every variable of the receiver keeps its type, and the bounded queues     *)
(* their bounds.                                                            *)
THEOREM TypeCorrect == Spec => []TypeOK
<1>1. Init => TypeOK
  BY InitType
<1>2. TypeOK /\ [Next]_vars => TypeOK'
  BY NextType
<1>. QED
  BY <1>1, <1>2, PTL DEF Spec

-----------------------------------------------------------------------------
(***************************************************************************)
(* What the Jack client and the receive thread may rely on.  Each step is   *)
(* first reduced to what it does to the commands, the records and the two   *)
(* states.                                                                  *)
(***************************************************************************)

-----------------------------------------------------------------------------
(* The steps of the Jack client                                            *)

Waits  == /\ commq' = Append(commq, "WAIT")
          /\ jstate' = WAIT
          /\ RestartSecs > 0 => count' <= -QuarterSec
Starts == /\ CycleSync
          /\ commq' = SyncCommands
          /\ jstate' = SYNC0
Holds  == /\ UNCHANGED <<commq, timeq, jstate>>
          /\ jstate = WAIT => count' <= count + 1
Reads  == /\ commq' = commq
          /\ jstate \in Synced /\ jstate' # WAIT
          /\ StopAt = 0 /\ Len(timeq) < TimeqSize
Leaves == /\ commq' = commq
          /\ jstate' \in {IDLE, TXEND, FATAL}

JackMoves == Waits \/ Starts \/ Holds \/ Reads \/ Leaves

LEMMA InitWaitWaits ==
  ASSUME NEW n \in {HalfSec, QuarterSec, RestartSecs * Ppsec}, NEW iq, InitWait(n, iq)
  PROVE  Waits
<1>1. HalfSec >= QuarterSec /\ Ppsec >= QuarterSec /\ QuarterSec \in Nat
  BY JackrxParams DEF HalfSec, QuarterSec
<1>2. RestartSecs > 0 => RestartSecs * Ppsec >= Ppsec
  <2> SUFFICES ASSUME RestartSecs > 0 PROVE RestartSecs * Ppsec >= Ppsec
    OBVIOUS
  <2>1. RestartSecs * Ppsec = Ppsec + (RestartSecs - 1) * Ppsec
    BY JackrxParams
  <2>2. (RestartSecs - 1) * Ppsec \in Nat
    BY JackrxParams
  <2>. QED
    BY <2>1, <2>2, JackrxParams
<1>3. RestartSecs > 0 => n >= QuarterSec
  BY <1>1, <1>2, JackrxParams
<1>. QED
  BY <1>1, <1>3, WaitsType DEF InitWait, Waits

LEMMA CycleMoves ==
  ASSUME QueuesTypeOK, JackrxTypeOK, Cycle
  PROVE  JackMoves
<1>1. CASE CycleIdle \/ CycleHold
  BY <1>1 DEF CycleIdle, CycleHold, CountUp, queues, jvars, IDLE, WAIT, JackMoves, Holds, JackrxTypeOK
<1>2. CASE CycleDone \/ CycleTerm \/ CycleFail
  BY <1>2 DEF CycleDone, CycleTerm, CycleFail, JackMoves, Leaves
<1>3. CASE CycleSync
  BY <1>3 DEF CycleSync, InitSync, JackMoves, Starts
<1>4. CASE CycleFull \/ CycleSusp \/ CycleLost
  BY <1>4, InitWaitWaits DEF CycleFull, CycleSusp, CycleLost, JackMoves
<1>5. CASE CycleSilent \/ \E skipped \in Skips : CycleRun(skipped)
  <2>1. ReadAll /\ commq' = commq
    BY <1>5 DEF CycleSilent, CycleRun
  <2>2. Stepped \in Synced
    BY <2>1, ReadTimesType DEF ReadAll, ReadTimes
  <2>3. jstate' # WAIT
    BY <1>5, <2>2 DEF CycleSilent, CycleRun, Synced, WAIT, SYNC0, SYNC2, PROC1, PROC2, TXEND
  <2>. QED
    BY <2>1, <2>3 DEF ReadAll, ReadTimes, JackMoves, Reads
<1>. QED
  BY <1>1, <1>2, <1>3, <1>4, <1>5 DEF Cycle

LEMMA JackSteps ==
  ASSUME TypeOK, JackCycle \/ Callback \/ MainStart
  PROVE  JackMoves /\ UNCHANGED <<npc, nstate>>
<1>1. CASE JackCycle
  BY <1>1, CycleMoves DEF JackCycle, TypeOK
<1>2. CASE MainStart
  BY <1>2, InitWaitWaits DEF MainStart, JackStart, JackMoves, nvars
<1>3. CASE Callback
  <2>1. /\ \/ JackBuffsize \/ JackShutdown
           \/ \E yesno \in BOOLEAN : JackFreewheel(yesno)
        /\ UNCHANGED nvars
    BY <1>3 DEF Callback, Buffsize, Shutdown, Freewheel, JackEvent
  <2> SUFFICES JackMoves
    BY <2>1 DEF nvars
  <2>2. CASE JackBuffsize
    BY <2>2 DEF JackBuffsize, queues, JackMoves, Leaves
  <2>3. CASE JackShutdown
    BY <2>3 DEF JackShutdown, JackMoves, Holds, TypeOK, JackrxTypeOK
  <2>4. CASE \E yesno \in BOOLEAN : JackFreewheel(yesno)
    BY <2>4, InitWaitWaits DEF JackFreewheel, JackMoves, Holds, TypeOK, JackrxTypeOK
  <2>. QED
    BY <2>1, <2>2, <2>3, <2>4
<1>. QED
  BY <1>1, <1>2, <1>3

-----------------------------------------------------------------------------
(* The steps of the receive thread                                         *)

Enters == /\ UNCHANGED <<commq, timeq>>
          /\ npc = "off" /\ npc' = "recv"
          /\ nstate' = "WAIT"
Obeys  == /\ commq # <<>>
          /\ commq' = Tail(commq) /\ timeq' = timeq
          /\ nstate' = Head(commq)
          /\ npc' # "off"
          /\ npc' \in DataPackets => nstate' = "PROC"
          /\ nstate' = "PROC" => nsync' = IF commq' = <<>> THEN "new" ELSE "held"
Stops  == /\ commq' = commq
          /\ npc' \notin DataPackets
          /\ nstate' \in {"INIT", "WAIT"}
          /\ npc' = "off" => nstate' = "INIT"
          /\ \E mark \in StopMarks : timeq' = PutIfRoom(timeq, TimeqSize, mark)
GoesOn == /\ UNCHANGED <<commq, nstate>>
          /\ npc' # "off"
          /\ npc' \in DataPackets => nstate = "PROC" /\ commq = <<>>
          /\ \/ timeq' = timeq
             \/ \E time \in TimePoints : timeq' = PutIfRoom(timeq, TimeqSize, time)

ThreadMoves == Enters \/ Obeys \/ Stops \/ GoesOn

ThreadStarts == MainInfo /\ NetrxStart

LEMMA ThreadSteps ==
  ASSUME TypeOK, Network \/ ThreadStarts
  PROVE  ThreadMoves /\ UNCHANGED <<jstate, count>>
<1>1. CASE ThreadStarts
  BY <1>1 DEF ThreadStarts, MainInfo, NetrxStart, queues, jvars, ThreadMoves, Enters
<1>2. CASE Network
  <2>1. /\ \/ NetrxFail \/ NetrxTerm \/ NetrxSusp
           \/ \E packet \in DataPackets : NetrxData(packet)
           \/ NetrxWrite \/ NetrxDrop
        /\ UNCHANGED jvars
    BY <1>2 DEF Network, PacketArrives, SuspArrives, TermArrives, SockFails, SockClosed,
       Written, Dropped, NetStep
  <2> SUFFICES ThreadMoves
    BY <2>1 DEF jvars
  <2>2. CASE NetrxFail \/ NetrxTerm \/ NetrxSusp
    BY <2>2 DEF NetrxFail, NetrxTerm, NetrxExit, NetrxSusp, StopMarks, DataPackets,
       ThreadMoves, Stops
  <2>3. CASE \E packet \in DataPackets : NetrxData(packet)
    <3>1. PICK packet \in DataPackets : NetrxData(packet)
      BY <2>3
    <3>2. CASE commq # <<>>
      BY <3>1, <3>2 DEF NetrxData, DataPackets, ThreadMoves, Obeys
    <3>3. CASE commq = <<>>
      BY <3>1, <3>3 DEF NetrxData, DataPackets, ThreadMoves, GoesOn
    <3>. QED
      BY <3>2, <3>3
  <2>4. CASE NetrxWrite
    <3>1. (IF nsync = "old" THEN "OLD" ELSE "NEW") \in TimePoints
      BY DEF TimePoints
    <3>. QED
      BY <2>4, <3>1 DEF NetrxWrite, DataPackets, ThreadMoves, GoesOn
  <2>5. CASE NetrxDrop
    BY <2>5 DEF NetrxDrop, queues, DataPackets, ThreadMoves, GoesOn
  <2>. QED
    BY <2>1, <2>2, <2>3, <2>4, <2>5
<1>. QED
  BY <1>1, <1>2

(* The other steps do not touch any of this.                                *)
LEMMA OtherSteps ==
  ASSUME [Next]_vars, ~(JackCycle \/ Callback \/ MainStart \/ Network \/ ThreadStarts)
  PROVE  UNCHANGED <<commq, timeq, nvars, jstate, count, lag>>
  BY DEF Next, Main, MainInfo, ThreadStarts, MainSockFail, MainPoll, MainStop, MainDrained, MainExit, SigInt,
     Terminated, vars, queues, jvars

-----------------------------------------------------------------------------
(* The order of the commands                                               *)

LEMMA CommandsInit == Init => CommandsInOrder
  BY DEF Init, QueuesInit, JackrxInit, CommandsInOrder, IDLE, WAIT

LEMMA CommandsAppended ==
  ASSUME commq \in Seq(Commands), CommandsInOrder, commq' = Append(commq, "WAIT")
  PROVE  /\ \A i \in DOMAIN commq' : commq'[i] = "PROC" => i = 1
         /\ commq' # <<>> /\ Last(commq') = "WAIT"
<1>1. /\ Len(commq) \in Nat /\ Len(commq') = Len(commq) + 1
      /\ DOMAIN commq = 1..Len(commq) /\ DOMAIN commq' = 1..Len(commq')
      /\ \A i \in 1..Len(commq) : commq'[i] = commq[i]
      /\ commq'[Len(commq) + 1] = "WAIT"
  BY AppendProperties, LenProperties DEF Commands
<1>. QED
  BY <1>1 DEF CommandsInOrder, Last

LEMMA CommandsRead ==
  ASSUME commq \in Seq(Commands), CommandsInOrder, Obeys
  PROVE  /\ \A i \in DOMAIN commq' : commq'[i] = "PROC" => i = 1
         /\ jstate = WAIT => IF commq' = <<>> THEN nstate' # "PROC" ELSE Last(commq') = "WAIT"
<1>1. /\ Len(commq) \in Nat \ {0} /\ commq' \in Seq(Commands)
      /\ Len(commq') = Len(commq) - 1
      /\ DOMAIN commq = 1..Len(commq) /\ DOMAIN commq' = 1..Len(commq')
      /\ \A i \in 1..Len(commq') : commq'[i] = commq[i + 1]
      /\ Head(commq) = commq[1]
  BY HeadTailProperties, LenProperties, EmptySeq DEF Obeys
<1>2. \A i \in 1..Len(commq') : commq'[i] # "PROC"
  BY <1>1 DEF CommandsInOrder
<1>3. CASE commq' = <<>>
  <2>1. Len(commq) = 1
    BY <1>1, <1>3, EmptySeq
  <2>. QED
    BY <1>1, <1>2, <1>3, <2>1 DEF CommandsInOrder, Obeys, Last
<1>4. CASE commq' # <<>>
  <2>1. Len(commq') >= 1
    BY <1>1, <1>4, EmptySeq
  <2>2. Last(commq') = Last(commq)
    BY <1>1, <2>1 DEF Last
  <2>. QED
    BY <1>1, <1>2, <1>4, <2>2 DEF CommandsInOrder, Obeys
<1>. QED
  BY <1>3, <1>4

LEMMA CommandsNext == TypeOK /\ CommandsInOrder /\ [Next]_vars => CommandsInOrder'
<1> SUFFICES ASSUME TypeOK, CommandsInOrder, [Next]_vars PROVE CommandsInOrder'
  OBVIOUS
<1>0. commq \in Seq(Commands)
  BY DEF TypeOK, QueuesTypeOK
<1>1. CASE JackCycle \/ Callback \/ MainStart
  <2>1. JackMoves /\ nstate' = nstate
    BY <1>1, JackSteps
  <2>2. CASE Waits
    BY <2>2, <1>0, CommandsAppended DEF Waits, CommandsInOrder
  <2>3. CASE Starts
    BY <2>3 DEF Starts, SyncCommands, CommandsInOrder, WAIT, SYNC0
  <2>4. CASE Holds
    BY <2>1, <2>4 DEF Holds, CommandsInOrder
  <2>5. CASE Reads
    BY <2>5 DEF Reads, CommandsInOrder
  <2>6. CASE Leaves
    BY <2>6 DEF Leaves, CommandsInOrder, IDLE, WAIT, TXEND, FATAL
  <2>. QED
    BY <2>1, <2>2, <2>3, <2>4, <2>5, <2>6 DEF JackMoves
<1>2. CASE Network \/ ThreadStarts
  <2>1. ThreadMoves /\ jstate' = jstate
    BY <1>2, ThreadSteps
  <2>2. CASE Enters \/ Stops \/ GoesOn
    BY <2>1, <2>2 DEF Enters, Stops, GoesOn, CommandsInOrder
  <2>3. CASE Obeys
    BY <2>1, <2>3, <1>0, CommandsRead DEF CommandsInOrder
  <2>. QED
    BY <2>1, <2>2, <2>3 DEF ThreadMoves
<1>3. CASE ~(JackCycle \/ Callback \/ MainStart \/ Network \/ ThreadStarts)
  BY <1>3, OtherSteps DEF nvars, CommandsInOrder
<1>. QED
  BY <1>1, <1>2, <1>3

(* The receive thread is never left with a command to start behind a        *)
(* command to wait, and cannot be active unnoticed while the client waits.  *)
THEOREM CommandsAreInOrder == Spec => []CommandsInOrder
<1>1. Init => CommandsInOrder
  BY CommandsInit
<1>2. TypeOK /\ CommandsInOrder /\ [Next]_vars => CommandsInOrder'
  BY CommandsNext
<1>. QED
  BY <1>1, <1>2, TypeCorrect, PTL DEF Spec

-----------------------------------------------------------------------------
(* The end of the packets is noticed                                       *)

(* Once synchronisation has begun, the command to start is the only one in   *)
(* the queue; and a thread that is gone is not active.                      *)
NoticeInv ==
  /\ JackWillNotice
  /\ jstate \in Synced => commq \in {<<>>, <<"PROC">>}
  /\ npc = "off" => nstate = "INIT"

(* The client cannot but notice: a mark is in the queue, or it is full.      *)
Noticeable == (\E i \in 1..Len(timeq) : timeq[i] \in StopMarks) \/ Len(timeq) >= TimeqSize

LEMMA NoticeableMeans ==
  TypeOK => ((StopAt # 0 \/ Len(timeq) >= TimeqSize) <=> Noticeable)
<1> SUFFICES ASSUME timeq \in Seq(Records)
             PROVE  (StopAt # 0 \/ Len(timeq) >= TimeqSize) <=> Noticeable
  BY DEF TypeOK, QueuesTypeOK
<1>1. /\ StopAt \in 0..Len(timeq)
      /\ StopAt = 0 => \A i \in 1..Len(timeq) : timeq[i] \notin StopMarks
      /\ StopAt # 0 => timeq[StopAt] \in StopMarks
  BY StopAtIsFirst
<1>. QED
  BY <1>1, LenProperties DEF Noticeable

LEMMA NoticeableMeansNext ==
  TypeOK' => ((StopAt # 0 \/ Len(timeq) >= TimeqSize)' <=> Noticeable')
  BY NoticeableMeans, PTL

LEMMA MarkPut ==
  ASSUME timeq \in Seq(Records), NEW record \in Records,
         timeq' = PutIfRoom(timeq, TimeqSize, record),
         record \in StopMarks \/ Noticeable
  PROVE  Noticeable'
<1>1. CASE Len(timeq) < TimeqSize
  <2>1. /\ Len(timeq) \in Nat /\ Len(timeq') = Len(timeq) + 1
        /\ \A i \in 1..Len(timeq) : timeq'[i] = timeq[i]
        /\ timeq'[Len(timeq) + 1] = record
    BY <1>1, AppendProperties, LenProperties DEF PutIfRoom
  <2>. QED
    BY <1>1, <2>1, QueueSizes DEF Noticeable
<1>2. CASE ~(Len(timeq) < TimeqSize)
  BY <1>2, QueueSizes, LenProperties DEF PutIfRoom, Noticeable
<1>. QED
  BY <1>1, <1>2

LEMMA NoticeInit == Init => NoticeInv
  BY DEF Init, QueuesInit, NetrxInit, JackrxInit, NoticeInv, JackWillNotice,
     Synced, IDLE, SYNC0, PROC2

LEMMA NoticeNext == TypeOK /\ NoticeInv /\ [Next]_vars => NoticeInv'
<1> SUFFICES ASSUME TypeOK, NoticeInv, [Next]_vars PROVE NoticeInv'
  OBVIOUS
<1>0. /\ timeq \in Seq(Records) /\ timeq' \in Seq(Records)
      /\ commq \in Seq(Commands)
  BY NextType DEF TypeOK, QueuesTypeOK
<1>1. /\ (StopAt # 0 \/ Len(timeq) >= TimeqSize) <=> Noticeable
      /\ (StopAt # 0 \/ Len(timeq) >= TimeqSize)' <=> Noticeable'
  BY NextType, NoticeableMeans, NoticeableMeansNext
<1>2. WAIT \notin Synced /\ {IDLE, TXEND, FATAL} \cap Synced = {}
  BY DEF Synced, IDLE, WAIT, SYNC0, PROC2, TXEND, FATAL
<1>3. CASE JackCycle \/ Callback \/ MainStart
  <2>1. JackMoves /\ nstate' = nstate /\ npc' = npc
    BY <1>3, JackSteps
  <2>2. CASE Waits \/ Leaves
    BY <2>1, <2>2, <1>2 DEF Waits, Leaves, NoticeInv, JackWillNotice
  <2>3. CASE Starts
    BY <2>1, <2>3 DEF Starts, SyncCommands, NoticeInv, JackWillNotice
  <2>4. CASE Holds
    BY <2>1, <2>4, <1>1 DEF Holds, NoticeInv, JackWillNotice, Noticeable
  <2>5. CASE Reads
    <3>1. commq # <<>> \/ nstate = "PROC"
      BY <2>5, <1>0, LenProperties, QueueSizes DEF Reads, NoticeInv, JackWillNotice
    <3>. QED
      BY <3>1, <2>1, <2>5 DEF Reads, NoticeInv, JackWillNotice
  <2>. QED
    BY <2>1, <2>2, <2>3, <2>4, <2>5 DEF JackMoves
<1>4. CASE Network \/ ThreadStarts
  <2>1. ThreadMoves /\ jstate' = jstate
    BY <1>4, ThreadSteps
  <2>2. CASE Enters
    BY <2>1, <2>2, <1>1 DEF Enters, NoticeInv, JackWillNotice, Noticeable
  <2>3. CASE Obeys
    BY <2>1, <2>3 DEF Obeys, NoticeInv, JackWillNotice
  <2>4. CASE Stops
    <3>1. Noticeable'
      BY <2>4, <1>0, MarkPut DEF Stops, Records
    <3>. QED
      BY <2>1, <2>4, <3>1, <1>1 DEF Stops, NoticeInv, JackWillNotice
  <2>5. CASE GoesOn
    <3>1. Noticeable => Noticeable'
      <4>1. CASE timeq' = timeq
        BY <4>1 DEF Noticeable
      <4>2. CASE \E time \in TimePoints : timeq' = PutIfRoom(timeq, TimeqSize, time)
        BY <4>2, <1>0, MarkPut DEF Records
      <4>. QED
        BY <4>1, <4>2, <2>5 DEF GoesOn
    <3>. QED
      BY <2>1, <2>5, <3>1, <1>1 DEF GoesOn, NoticeInv, JackWillNotice
  <2>. QED
    BY <2>1, <2>2, <2>3, <2>4, <2>5 DEF ThreadMoves
<1>5. CASE ~(JackCycle \/ Callback \/ MainStart \/ Network \/ ThreadStarts)
  BY <1>5, <1>1, OtherSteps DEF nvars, NoticeInv, JackWillNotice, Noticeable
<1>. QED
  BY <1>3, <1>4, <1>5

(* A receive thread that has stopped writing, suspended by its sender or     *)
(* gone for good, always leaves a mark or a full queue for a client that     *)
(* has begun to synchronise with it.                                       *)
THEOREM StopsAreNoticed == Spec => []JackWillNotice
<1>1. Init => NoticeInv
  BY NoticeInit
<1>2. TypeOK /\ NoticeInv /\ [Next]_vars => NoticeInv'
  BY NoticeNext
<1>3. NoticeInv => JackWillNotice
  BY DEF NoticeInv
<1>. QED
  BY <1>1, <1>2, <1>3, TypeCorrect, PTL DEF Spec

-----------------------------------------------------------------------------
(* The queues are reset while nobody writes                                *)

(* While the client waits, a packet the thread works on has been in its      *)
(* hands for as long as the wait, but for the quarter of a second that any    *)
(* wait lasts at least.                                                    *)
QuietInv ==
  jstate = WAIT /\ npc \in DataPackets /\ nsync # "held" => count <= lag - QuarterSec

LEMMA QuietInit == Init => QuietInv
  BY DEF Init, JackrxInit, QuietInv, IDLE, WAIT

(* A packet that is taken while the client waits is one for a withdrawn      *)
(* command: the queue ends with the command to wait.                        *)
LEMMA TakenIsHeld ==
  ASSUME commq \in Seq(Commands), CommandsInOrder, jstate = WAIT, Obeys,
         nstate' = "PROC"
  PROVE  nsync' = "held"
<1>1. CASE commq' = <<>>
  BY <1>1, CommandsRead
<1>2. CASE commq' # <<>>
  BY <1>2 DEF Obeys
<1>. QED
  BY <1>1, <1>2

LEMMA QuietNext ==
  ASSUME RestartSecs > 0, TypeOK, CommandsInOrder, QuietInv, [Next]_vars
  PROVE  QuietInv'
<1>0. /\ commq \in Seq(Commands) /\ QuarterSec \in Nat
      /\ count \in Int /\ lag \in Nat /\ count' \in Int /\ lag' \in Nat
  BY NextType, WaitsType DEF TypeOK, QueuesTypeOK, JackrxTypeOK, MainTypeOK
<1>1. CASE JackCycle \/ Callback \/ MainStart
  <2>1. JackMoves /\ npc' = npc
    BY <1>1, JackSteps
  <2>2. CASE Waits
    <3>1. count' <= -QuarterSec
      BY <2>2 DEF Waits
    <3>2. \A c \in Int, l, q \in Nat : c <= -q => c <= l - q
      OBVIOUS
    <3>3. count' <= lag' - QuarterSec
      BY <3>1, <3>2, <1>0
    <3>. QED
      BY <3>3 DEF QuietInv
  <2>3. CASE Starts \/ Reads \/ Leaves
    BY <2>3 DEF Starts, Reads, Leaves, QuietInv, IDLE, WAIT, SYNC0, TXEND, FATAL
  <2>4. CASE Holds
    <3>1. CASE JackCycle
      BY <3>1, <2>1, <2>4, <1>0 DEF Holds, JackCycle, CycleSync, InitSync, QuietInv
    <3>2. CASE Callback \/ MainStart
      <4>1. Waits \/ Leaves \/ UNCHANGED <<jstate, count, npc, nsync, lag>>
        BY <3>2, InitWaitWaits DEF MainStart, JackStart, Callback, Buffsize, Shutdown, Freewheel,
           JackEvent, JackBuffsize, JackShutdown, JackFreewheel, queues, nvars, Leaves
      <4>. QED
        BY <4>1, <2>2, <2>3 DEF QuietInv
    <3>. QED
      BY <3>1, <3>2, <1>1
  <2>. QED
    BY <2>1, <2>2, <2>3, <2>4 DEF JackMoves
<1>2. CASE Network \/ ThreadStarts
  <2>1. ThreadMoves /\ UNCHANGED <<jstate, count>>
    BY <1>2, ThreadSteps
  <2>2. CASE Enters \/ Stops
    BY <2>2 DEF Enters, Stops, DataPackets, QuietInv
  <2>3. CASE Obeys
    BY <2>1, <2>3, <1>0, TakenIsHeld DEF Obeys, QuietInv
  <2>4. CASE GoesOn
    BY <2>1, <2>4 DEF GoesOn, CommandsInOrder, QuietInv
  <2>. QED
    BY <2>1, <2>2, <2>3, <2>4 DEF ThreadMoves
<1>3. CASE ~(JackCycle \/ Callback \/ MainStart \/ Network \/ ThreadStarts)
  BY <1>3, OtherSteps DEF nvars, QuietInv
<1>. QED
  BY <1>1, <1>2, <1>3

LEMMA QuietStep ==
  ASSUME RestartSecs > 0, PacketLag < QuarterSec, TypeOK, QuietInv
  PROVE  JackCycle /\ CycleSync => npc \notin DataPackets \/ nsync = "held"
<1> SUFFICES ASSUME JackCycle, CycleSync, npc \in DataPackets, nsync # "held"
             PROVE  FALSE
  OBVIOUS
<1>1. QuarterSec \in Nat /\ count \in Int /\ lag \in Nat /\ PacketLag \in Nat
  BY WaitsType, ReceiverParams DEF TypeOK, JackrxTypeOK, MainTypeOK
<1>2. count = -1 /\ count <= lag - QuarterSec
  BY <1>1 DEF CycleSync, QuietInv
<1>3. lag < PacketLag
  BY DEF JackCycle, JackMayRun
<1>. QED
  BY <1>1, <1>2, <1>3

(* When the receive thread is done with a packet in less than a quarter of   *)
(* a second, no synchronisation begins, and no queue is reset, while it      *)
(* writes one, unless it does so for a command that was withdrawn.           *)
THEOREM ResetsAreQuiet ==
  ASSUME RestartSecs > 0, PacketLag < QuarterSec
  PROVE  Spec => QuietReset
<1>1. Init => QuietInv
  BY QuietInit
<1>2. TypeOK /\ CommandsInOrder /\ QuietInv /\ [Next]_vars => QuietInv'
  BY QuietNext
<1>3. TypeOK /\ QuietInv
        => [JackCycle /\ CycleSync => npc \notin DataPackets \/ nsync = "held"]_vars
  BY QuietStep
<1>. QED
  BY <1>1, <1>2, <1>3, TypeCorrect, CommandsAreInOrder, PTL DEF Spec, QuietReset

-----------------------------------------------------------------------------
(* Tracking uses fresh time points                                         *)

(* While the client synchronises or tracks, a thread that has not read the   *)
(* command yet holds no packet and finds the command before it takes one, so *)
(* no time point of an earlier synchronisation is queued or was read.        *)
FreshInv ==
  jstate \in Synced =>
    /\ nsync = "old" => npc \notin DataPackets /\ commq # <<>>
    /\ \A i \in 1..Len(timeq) : timeq[i] # "OLD"
    /\ jstate >= SYNC1 => a1 = "NEW"
    /\ jstate >= SYNC2 => a0 = "NEW"

(* What a cycle that reads the queue to its end does to the time points.    *)
ReadsOn == /\ ReadTimes
           /\ commq' = commq /\ timeq' = <<>>
           /\ jstate' >= SYNC1 => Stepped >= SYNC1
           /\ jstate' >= SYNC2 => Stepped >= SYNC2

LEMMA FreshJackSteps ==
  ASSUME TypeOK, JackCycle \/ Callback \/ MainStart
  PROVE  /\ npc' = npc
         /\ \/ jstate' \notin Synced
            \/ JackCycle /\ CycleSync
            \/ UNCHANGED <<jstate, timeq, commq, nsync, a0, a1>>
            \/ ReadsOn /\ nsync' = nsync
<1>0. WAIT \notin Synced /\ IDLE \notin Synced /\ TXEND \notin Synced /\ FATAL \notin Synced
  BY DEF Synced, IDLE, WAIT, SYNC0, PROC2, TXEND, FATAL
<1>1. npc' = npc
  BY JackSteps
<1>2. CASE JackCycle
  <2>1. Cycle /\ (~CycleSync => nsync' = nsync)
    BY <1>2 DEF JackCycle
  <2>2. CASE CycleSync
    BY <2>2, <1>1, <1>2
  <2>3. CASE CycleIdle \/ CycleHold
    BY <2>3, <2>1, <1>1, <1>0 DEF CycleIdle, CycleHold, CycleSync, IDLE, WAIT, queues, jvars
  <2>4. CASE CycleDone \/ CycleTerm \/ CycleFail
    BY <2>4, <1>0, <1>1 DEF CycleDone, CycleTerm, CycleFail
  <2>5. CASE CycleFull \/ CycleSusp \/ CycleLost
    BY <2>5, <1>0, <1>1 DEF CycleFull, CycleSusp, CycleLost, InitWait
  <2>6. CASE CycleSilent \/ \E skipped \in Skips : CycleRun(skipped)
    <3>1. ReadAll /\ commq' = commq /\ (jstate' = Stepped \/ Stepped >= SYNC2)
      BY <2>6 DEF CycleSilent, CycleRun
    <3>2. ~CycleSync
      BY <3>1, <1>0 DEF ReadAll, ReadTimes, CycleSync
    <3>3. Stepped >= SYNC2 => Stepped >= SYNC1
      <4>1. Stepped \in Synced
        BY <3>1, ReadTimesType DEF ReadAll, ReadTimes, TypeOK
      <4>. QED
        BY <4>1 DEF Synced, SYNC0, SYNC1, SYNC2, PROC2
    <3>4. ReadsOn
      BY <3>1, <3>3 DEF ReadAll, ReadsOn
    <3>. QED
      BY <3>2, <3>4, <2>1, <1>1
  <2>. QED
    BY <2>1, <2>2, <2>3, <2>4, <2>5, <2>6 DEF Cycle
<1>3. CASE MainStart
  BY <1>0, <1>1, <1>3 DEF MainStart, JackStart, InitWait
<1>4. CASE Callback
  <2>1. /\ \/ JackBuffsize \/ JackShutdown
           \/ \E yesno \in BOOLEAN : JackFreewheel(yesno)
        /\ UNCHANGED nvars
    BY <1>4 DEF Callback, Buffsize, Shutdown, Freewheel, JackEvent
  <2>2. CASE JackBuffsize
    BY <2>2, <1>0, <1>1 DEF JackBuffsize
  <2>3. CASE JackShutdown
    BY <2>1, <2>3, <1>1 DEF JackShutdown, nvars
  <2>4. CASE \E yesno \in BOOLEAN : JackFreewheel(yesno)
    BY <2>1, <2>4, <1>0, <1>1 DEF JackFreewheel, InitWait, nvars
  <2>. QED
    BY <2>1, <2>2, <2>3, <2>4
<1>. QED
  BY <1>2, <1>3, <1>4

(* The last time point read is a new one when no old one is queued.         *)
LEMMA ReadIsNew ==
  ASSUME TypeOK, jstate \in Synced, Times # <<>>,
         \A i \in 1..Len(timeq) : timeq[i] # "OLD"
  PROVE  Last(Times) = "NEW"
<1>1. timeq \in Seq(Records) /\ Len(timeq) \in Nat
  BY LenProperties DEF TypeOK, QueuesTypeOK
<1>2. Times \in Seq(TimePoints)
  BY ReadTimesType DEF TypeOK
<1>3. Len(Times) \in 1..Len(Times)
  BY <1>2, EmptySeq
<1>4. Last(Times) \in TimePoints
  BY <1>2, <1>3, ElementOfSeq DEF Last
<1>5. \E i \in 1..Len(timeq) : Times[Len(Times)] = timeq[i]
  <2>1. StopAt \in 0..Len(timeq)
    BY <1>1, StopAtIsFirst
  <2>2. CASE StopAt = 0
    BY <2>2, <1>3 DEF Times
  <2>3. CASE StopAt # 0
    <3>1. /\ StopAt - 1 \in Int
          /\ \A i \in 1..(StopAt - 1) : timeq[i] \in Records
      BY <1>1, <2>1, ElementOfSeq
    <3>2. /\ Len(SubSeq(timeq, 1, StopAt - 1)) = StopAt - 1
          /\ \A i \in 1..(StopAt - 1) : SubSeq(timeq, 1, StopAt - 1)[i] = timeq[i]
      BY <3>1, <2>1, <2>3, <1>1, SubSeqProperties
    <3>. QED
      BY <3>2, <2>1, <2>3, <1>1, <1>3 DEF Times
  <2>. QED
    BY <2>2, <2>3
<1>. QED
  BY <1>4, <1>5 DEF TimePoints, Last

(* A record that is not an old time point leaves none behind.               *)
LEMMA FreshPut ==
  ASSUME timeq \in Seq(Records), NEW record \in Records \ {"OLD"},
         timeq' = PutIfRoom(timeq, TimeqSize, record),
         \A i \in 1..Len(timeq) : timeq[i] # "OLD"
  PROVE  \A i \in 1..Len(timeq') : timeq'[i] # "OLD"
<1>1. CASE Len(timeq) < TimeqSize
  <2>1. /\ Len(timeq) \in Nat /\ Len(timeq') = Len(timeq) + 1
        /\ \A i \in 1..Len(timeq) : timeq'[i] = timeq[i]
        /\ timeq'[Len(timeq) + 1] = record
    BY <1>1, AppendProperties, LenProperties DEF PutIfRoom
  <2>. QED
    BY <2>1
<1>2. CASE ~(Len(timeq) < TimeqSize)
  BY <1>2 DEF PutIfRoom
<1>. QED
  BY <1>1, <1>2

LEMMA FreshInit == Init => FreshInv
  BY DEF Init, JackrxInit, FreshInv, Synced, IDLE, SYNC0, PROC2

LEMMA FreshThread ==
  ASSUME TypeOK, NoticeInv, FreshInv, Network \/ ThreadStarts
  PROVE  FreshInv'
<1>1. UNCHANGED <<jstate, a0, a1>>
  BY DEF ThreadStarts, MainInfo, Network, PacketArrives, SuspArrives, TermArrives, SockFails,
     SockClosed, Written, Dropped, NetStep, jvars
<1> SUFFICES ASSUME jstate \in Synced
             PROVE  /\ nsync' = "old" => npc' \notin DataPackets /\ commq' # <<>>
                    /\ \A i \in 1..Len(timeq') : timeq'[i] # "OLD"
  BY <1>1 DEF FreshInv
<1>2. /\ nsync = "old" => npc \notin DataPackets /\ commq # <<>>
      /\ \A i \in 1..Len(timeq) : timeq[i] # "OLD"
      /\ commq \in {<<>>, <<"PROC">>}
      /\ timeq \in Seq(Records)
  BY DEF FreshInv, NoticeInv, TypeOK, QueuesTypeOK
<1>3. CASE ThreadStarts
  BY <1>2, <1>3 DEF ThreadStarts, MainInfo, NetrxStart, queues, DataPackets
<1>4. CASE Network
  <2>1. \/ NetrxFail \/ NetrxTerm \/ NetrxSusp
        \/ \E packet \in DataPackets : NetrxData(packet)
        \/ NetrxWrite \/ NetrxDrop
    BY <1>4 DEF Network, PacketArrives, SuspArrives, TermArrives, SockFails, SockClosed,
       Written, Dropped, NetStep
  <2>2. CASE NetrxFail \/ NetrxTerm \/ NetrxSusp
    <3>1. /\ UNCHANGED <<commq, nsync>> /\ npc' \notin DataPackets
          /\ \E mark \in StopMarks : timeq' = PutIfRoom(timeq, TimeqSize, mark)
      BY <2>2 DEF NetrxFail, NetrxTerm, NetrxExit, NetrxSusp, StopMarks, DataPackets
    <3>2. StopMarks \subseteq Records \ {"OLD"}
      BY DEF StopMarks, Records
    <3>. QED
      BY <3>1, <3>2, <1>2, FreshPut
  <2>3. CASE \E packet \in DataPackets : NetrxData(packet)
    <3>1. PICK packet \in DataPackets : NetrxData(packet)
      BY <2>3
    <3>2. CASE commq = <<"PROC">>
      <4>1. nsync' = "new"
        BY <3>1, <3>2 DEF NetrxData
      <4>. QED
        BY <3>1, <4>1, <1>2 DEF NetrxData
    <3>3. CASE commq = <<>>
      BY <3>1, <3>3, <1>2 DEF NetrxData
    <3>. QED
      BY <1>2, <3>2, <3>3
  <2>4. CASE NetrxWrite
    <3>1. nsync # "old" /\ UNCHANGED <<commq, nsync>>
      BY <2>4, <1>2 DEF NetrxWrite
    <3>2. timeq' = timeq \/ timeq' = PutIfRoom(timeq, TimeqSize, "NEW")
      BY <2>4, <3>1 DEF NetrxWrite
    <3>3. "NEW" \in Records \ {"OLD"}
      BY DEF Records, TimePoints
    <3>. QED
      BY <3>1, <3>2, <3>3, <1>2, FreshPut
  <2>5. CASE NetrxDrop
    BY <2>5, <1>2 DEF NetrxDrop, queues, DataPackets
  <2>. QED
    BY <2>1, <2>2, <2>3, <2>4, <2>5
<1>. QED
  BY <1>3, <1>4

LEMMA FreshNext ==
  ASSUME RestartSecs > 0, PacketLag < QuarterSec,
         TypeOK, NoticeInv, QuietInv, FreshInv, [Next]_vars
  PROVE  FreshInv'
<1>1. CASE JackCycle \/ Callback \/ MainStart
  <2>1. /\ npc' = npc
        /\ \/ jstate' \notin Synced
           \/ JackCycle /\ CycleSync
           \/ UNCHANGED <<jstate, timeq, commq, nsync, a0, a1>>
           \/ ReadsOn /\ nsync' = nsync
    BY <1>1, FreshJackSteps
  <2>2. CASE jstate' \notin Synced
    BY <2>2 DEF FreshInv
  <2>3. CASE JackCycle /\ CycleSync
    <3>1. npc \notin DataPackets \/ nsync = "held"
      BY <2>3, QuietStep
    <3>2. nsync' = "old" => nsync # "held"
      BY <2>3 DEF JackCycle
    <3>3. commq' # <<>> /\ Len(timeq') = 0 /\ jstate' = SYNC0
      BY <2>3 DEF CycleSync, InitSync, SyncCommands
    <3>. QED
      BY <2>1, <3>1, <3>2, <3>3 DEF FreshInv, SYNC0, SYNC1, SYNC2
  <2>4. CASE UNCHANGED <<jstate, timeq, commq, nsync, a0, a1>>
    BY <2>1, <2>4 DEF FreshInv
  <2>5. CASE ReadsOn /\ nsync' = nsync
    <3>1. jstate \in Synced /\ jstate \in Int
      BY <2>5 DEF ReadsOn, ReadTimes, Synced
    <3>2. jstate' >= SYNC1 => a1' = "NEW"
      <4>1. CASE Times = <<>>
        BY <2>5, <3>1, <4>1 DEF ReadsOn, ReadTimes, Stepped, FreshInv
      <4>2. CASE Times # <<>>
        BY <2>5, <3>1, <4>2, ReadIsNew DEF ReadsOn, ReadTimes, FreshInv
      <4>. QED
        BY <4>1, <4>2
    <3>3. jstate' >= SYNC2 => a0' = "NEW"
      <4>1. CASE Times = <<>>
        BY <2>5, <3>1, <4>1 DEF ReadsOn, ReadTimes, Stepped, FreshInv
      <4>2. CASE Times # <<>>
        <5>1. Stepped >= SYNC2 => jstate >= SYNC1
          BY <3>1 DEF Stepped, SYNC1, SYNC2
        <5>. QED
          BY <2>5, <3>1, <4>2, <5>1 DEF ReadsOn, ReadTimes, FreshInv
      <4>. QED
        BY <4>1, <4>2
    <3>. QED
      BY <2>1, <2>5, <3>1, <3>2, <3>3 DEF ReadsOn, FreshInv
  <2>. QED
    BY <2>1, <2>2, <2>3, <2>4, <2>5
<1>2. CASE Network \/ ThreadStarts
  BY <1>2, FreshThread
<1>3. CASE ~(JackCycle \/ Callback \/ MainStart \/ Network \/ ThreadStarts)
  <2>1. UNCHANGED <<a0, a1>>
    BY <1>3 DEF Next, Main, MainInfo, ThreadStarts, MainSockFail, MainPoll, MainStop,
       MainDrained, MainExit, SigInt, Terminated, vars, jvars
  <2>. QED
    BY <1>3, <2>1, OtherSteps DEF nvars, FreshInv
<1>. QED
  BY <1>1, <1>2, <1>3

(* When the receive thread is done with a packet in less than a quarter of   *)
(* a second, the delay is tracked from two time points of the same           *)
(* synchronisation, however often the client waits and begins again, and     *)
(* whenever packets come: the resets of initsync and the order of the        *)
(* commands leave no time point behind.                                     *)
THEOREM TimesAlwaysFresh ==
  ASSUME RestartSecs > 0, PacketLag < QuarterSec
  PROVE  Spec => []TimesFresh
<1>1. Init => NoticeInv /\ QuietInv /\ FreshInv
  BY NoticeInit, QuietInit, FreshInit
<1>2. /\ TypeOK /\ CommandsInOrder /\ NoticeInv /\ QuietInv /\ FreshInv /\ [Next]_vars
      => NoticeInv' /\ QuietInv' /\ FreshInv'
  BY NoticeNext, QuietNext, FreshNext
<1>3. FreshInv => TimesFresh
  BY DEF FreshInv, TimesFresh, Synced, SYNC0, SYNC1, SYNC2, PROC1, PROC2
<1>. QED
  BY <1>1, <1>2, <1>3, TypeCorrect, CommandsAreInOrder, PTL DEF Spec

-----------------------------------------------------------------------------
(* The callback works on no queue that is gone                             *)

(* The two words that end a session.                                       *)
Ends == {"TXEND", "FATAL"}
NoEnds(q) == \A i \in 1..Len(q) : q[i] \notin Ends

(* Cycles since the last poll that saw nothing: the most that can have gone  *)
(* by since main() was told to stop.                                        *)
Elapsed == IF main = "run" THEN tick
           ELSE IF main = "drain" THEN PollCycles + tick
           ELSE PollCycles + DrainCycles + tick

(* Where main() is, and what it has by then.                               *)
Phases ==
  /\ main \in {"start", "run", "drain"} => audioq
  /\ main \in {"info", "start"} => ~stop
  /\ main \in {"quit", "exit"} => stop
  /\ main \in {"info", "quit", "exit"} => npc = "off"
  /\ main = "run" => tick <= PollCycles
  /\ main = "drain" => tick <= IF npc = "off" THEN DrainCycles ELSE DrainCycles - 2
  /\ main \in {"quit", "exit"} => tick <= QuitCycles

(* Between two sessions the client is idle.                                *)
IdleBetween ==
  main \in {"info", "start"} \/ (main = "drain" /\ ~stop) => jstate = IDLE

(* The word that ends a session is in the queue once, after it the client    *)
(* is idle, and main() is still to read it or needs it no more.              *)
LastWord ==
  \A i \in 1..Len(infoq) : infoq[i] \in Ends =>
    /\ jstate = IDLE
    /\ main = "run" \/ stop
    /\ \A k \in 1..Len(infoq) : infoq[k] \in Ends => k = i

(* A wait that began before the stop, or since, is longer than what is left. *)
WaitsLong == stop /\ jstate = WAIT => count < Elapsed - HalfSec

(* A client that synchronises with a thread that is gone has its mark, or    *)
(* begins with nothing and gets nothing.                                    *)
HasMark ==
  jstate \in Synced /\ npc = "off"
    => Noticeable \/ (jstate = SYNC0 /\ timeq = <<>>)

(* Two cycles are left to read the mark and to report it.                   *)
EndsInTime ==
  main = "drain" =>
    /\ jstate \in Synced => tick <= DrainCycles - 2 \/ (npc = "off" /\ ~Noticeable)
    /\ jstate >= TXEND => tick <= DrainCycles - 1

Harmless ==
  main \in {"quit", "exit"}
    => jstate \in {IDLE, WAIT} \/ (jstate \in Synced /\ ~Noticeable)

AliveInv ==
  /\ Phases
  /\ jalive => /\ IdleBetween /\ LastWord /\ WaitsLong
               /\ HasMark /\ EndsInTime /\ Harmless

LEMMA InformWords ==
  ASSUME NEW q \in Seq(Infos), NEW info \in Infos, NoEnds(q)
  PROVE  /\ info \notin Ends => NoEnds(Inform(q, info))
         /\ \A i, k \in 1..Len(Inform(q, info)) :
              Inform(q, info)[i] \in Ends /\ Inform(q, info)[k] \in Ends => k = i
<1>1. CASE Len(q) < InfoqSize
  <2>1. /\ Inform(q, info) = Append(q, info)
        /\ Len(q) \in Nat /\ Len(Append(q, info)) = Len(q) + 1
        /\ \A i \in 1..Len(q) : Append(q, info)[i] = q[i]
        /\ Append(q, info)[Len(q) + 1] = info
    BY <1>1, AppendProperties, LenProperties DEF Inform, PutIfRoom
  <2>2. \A i \in 1..(Len(q) + 1) : i # Len(q) + 1 => Append(q, info)[i] \notin Ends
    BY <2>1 DEF NoEnds
  <2>. QED
    BY <2>1, <2>2 DEF NoEnds
<1>2. CASE ~(Len(q) < InfoqSize)
  BY <1>2 DEF Inform, PutIfRoom, NoEnds
<1>. QED
  BY <1>1, <1>2

(* The ways through jack_process, by what they do to the session.            *)
Quietly == NoEnds(infoq) => NoEnds(infoq')
Sleeps  == jstate = IDLE /\ UNCHANGED <<jstate, infoq, timeq, count>>
Reports == /\ jstate >= TXEND /\ jstate' = IDLE
           /\ infoq' = Inform(infoq, Reason) /\ timeq' = timeq
Counts  == /\ jstate = WAIT /\ jstate' = WAIT /\ count' <= count + 1
           /\ UNCHANGED <<infoq, timeq>>
Begins  == CycleSync /\ Quietly
Gives   == /\ jstate \in Synced /\ Noticeable /\ Quietly
           /\ (jstate' = WAIT /\ count' <= -HalfSec) \/ jstate' \in {TXEND, FATAL}
Plays   == /\ jstate \in Synced /\ ~Noticeable /\ Quietly
           /\ timeq' = <<>>
           /\ jstate = SYNC0 /\ timeq = <<>> => jstate' = SYNC0
           /\ jstate' = WAIT => count' <= -HalfSec

LEMMA CycleKinds ==
  ASSUME RestartSecs > 0, TypeOK, Cycle
  PROVE  jalive' = jalive /\ (Sleeps \/ Reports \/ Counts \/ Begins \/ Gives \/ Plays)
<1>0. /\ infoq \in Seq(Infos) /\ count \in Int /\ HalfSec \in Nat
      /\ {"INFO", "WAIT"} \subseteq Infos \ Ends
  BY WaitsType DEF TypeOK, QueuesTypeOK, JackrxTypeOK, Infos, EndMarks, Ends
<1>1. (StopAt # 0 \/ Len(timeq) >= TimeqSize) <=> Noticeable
  BY NoticeableMeans
<1>2. jstate \in Synced => Informed \in Seq(Infos) /\ (NoEnds(infoq) => NoEnds(Informed))
  BY <1>0, InformWords, ReadTimesType DEF Informed, TypeOK
<1>3. RestartSecs * Ppsec >= HalfSec
  <2>1. RestartSecs * Ppsec = Ppsec + (RestartSecs - 1) * Ppsec
    BY JackrxParams
  <2>2. (RestartSecs - 1) * Ppsec \in Nat
    BY JackrxParams
  <2>. QED
    BY <2>1, <2>2, JackrxParams DEF HalfSec
<1>4. ASSUME NEW n \in {HalfSec, RestartSecs * Ppsec}, NEW iq \in Seq(Infos),
             NoEnds(infoq) => NoEnds(iq), InitWait(n, iq)
      PROVE  jstate' = WAIT /\ count' <= -HalfSec /\ Quietly
  <2>1. count' <= -HalfSec
    BY <1>0, <1>3, <1>4, WaitsType DEF InitWait
  <2>2. NoEnds(iq) => NoEnds(Inform(iq, "WAIT"))
    BY <1>0, InformWords
  <2>. QED
    BY <1>4, <2>1, <2>2 DEF InitWait, Quietly
<1>5. CASE CycleIdle
  BY <1>5 DEF CycleIdle, queues, jvars, Sleeps
<1>6. CASE CycleDone
  BY <1>6 DEF CycleDone, Reports
<1>7. CASE CycleHold
  <2>1. CountUp(count, 0) <= count + 1
    BY <1>0 DEF CountUp
  <2>. QED
    BY <1>0, <1>7, <2>1 DEF CycleHold, queues, Counts
<1>8. CASE CycleSync
  BY <1>0, <1>8, InformWords DEF CycleSync, InitSync, Begins, Quietly
<1>9. CASE CycleFull
  BY <1>0, <1>1, <1>4, <1>9 DEF CycleFull, Gives
<1>10. CASE CycleSusp
  BY <1>1, <1>2, <1>4, <1>10 DEF CycleSusp, CycleStopped, ReadTimes, Gives
<1>11. CASE CycleTerm \/ CycleFail
  BY <1>1, <1>2, <1>11 DEF CycleTerm, CycleFail, CycleStopped, ReadTimes, Gives, Quietly
<1>12. CASE CycleSilent \/ CycleLost \/ \E skipped \in Skips : CycleRun(skipped)
  <2>1. /\ jstate \in Synced /\ ~Noticeable
        /\ timeq' = <<>> /\ jalive' = jalive
    BY <1>1, <1>12, LenProperties, QueueSizes DEF CycleSilent, CycleLost, CycleRun, ReadAll,
       ReadTimes, TypeOK, QueuesTypeOK
  <2>2. jstate = SYNC0 /\ timeq = <<>> => Stepped = SYNC0
    BY <1>1, <2>1 DEF Stepped, Times, Noticeable
  <2>3. Stepped \in Synced
    BY <2>1, ReadTimesType DEF TypeOK
  <2>4. CASE CycleSilent
    BY <1>2, <2>1, <2>2, <2>3, <2>4 DEF CycleSilent, Synced, SYNC0, WAIT, PROC2, Plays, Quietly
  <2>5. CASE CycleLost
    <3>1. InitWait(RestartSecs * Ppsec, Informed) /\ Stepped >= SYNC2
      BY <2>5 DEF CycleLost
    <3>2. jstate' = WAIT /\ count' <= -HalfSec /\ Quietly
      BY <1>2, <1>4, <2>1, <3>1
    <3>. QED
      BY <2>1, <2>2, <3>1, <3>2 DEF Plays, SYNC0, SYNC2
  <2>6. CASE \E skipped \in Skips : CycleRun(skipped)
    <3>1. /\ infoq' = Inform(Informed, "INFO") /\ Stepped >= SYNC2
          /\ jstate' \in {TXEND, PROC1, PROC2, Stepped}
      BY <2>6 DEF CycleRun
    <3>2. Quietly
      BY <1>0, <1>2, <2>1, <3>1, InformWords DEF Quietly
    <3>. QED
      BY <2>1, <2>2, <2>3, <3>1, <3>2 DEF Plays, Synced, SYNC0, SYNC2, PROC1, PROC2, TXEND, WAIT
  <2>. QED
    BY <1>12, <2>1, <2>4, <2>5, <2>6
<1>13. jalive' = jalive
  BY DEF Cycle, CycleIdle, CycleDone, CycleHold, CycleSync, CycleFull, CycleSusp, CycleTerm,
     CycleFail, CycleSilent, CycleLost, CycleRun, CycleStopped, ReadAll, jvars
<1>. QED
  BY <1>5, <1>6, <1>7, <1>8, <1>9, <1>10, <1>11, <1>12, <1>13 DEF Cycle

LEMMA AliveInit == Init => AliveInv
  BY DEF Init, QueuesInit, NetrxInit, JackrxInit, AliveInv, Phases, IdleBetween, LastWord,
     WaitsLong, HasMark, EndsInTime, Harmless, IDLE, WAIT, Synced, SYNC0, TXEND

(* What the hypotheses of the theorem say of the delays.                    *)
DelaysFit ==
  /\ RestartSecs > 0
  /\ DrainCycles >= 2
  /\ PollCycles + (DrainCycles + QuitCycles) < HalfSec

LEMMA AliveCycle ==
  ASSUME DelaysFit, TypeOK, AliveInv, JackCycle
  PROVE  AliveInv'
<1>0. /\ infoq \in Seq(Infos) /\ count \in Int /\ count' \in Int /\ HalfSec \in Nat
      /\ {tick, PollCycles, DrainCycles, QuitCycles} \subseteq Nat
      /\ jstate \in IDLE..FATAL /\ jalive \in BOOLEAN
  BY NextType, WaitsType, ReceiverParams DEF TypeOK, QueuesTypeOK, JackrxTypeOK, MainTypeOK, Next
<1>1. /\ UNCHANGED <<main, stop, audioq, npc>> /\ jalive' = jalive /\ jalive
      /\ tick' = IF main \in {"run", "drain", "quit"} THEN tick + 1 ELSE tick
      /\ main = "run" => tick < PollCycles
      /\ main = "drain" => tick < IF npc = "off" THEN DrainCycles ELSE DrainCycles - 2
      /\ main = "quit" => tick < QuitCycles
      /\ main # "exit" /\ main \in Places
  BY CycleKinds DEF JackCycle, JackMayRun, TypeOK, MainTypeOK, DelaysFit
<1>2. Sleeps \/ Reports \/ Counts \/ Begins \/ Gives \/ Plays
  BY CycleKinds DEF JackCycle, DelaysFit
<1>3. Phases /\ IdleBetween /\ LastWord /\ WaitsLong /\ HasMark /\ EndsInTime /\ Harmless
  BY <1>1 DEF AliveInv
<1>4. jstate # IDLE => NoEnds(infoq) /\ (main = "run" \/ stop)
  BY <1>1, <1>3 DEF LastWord, NoEnds, IdleBetween, Phases, Places
<1>5. Quietly /\ jstate # IDLE => LastWord'
  BY <1>4 DEF Quietly, LastWord, NoEnds
<1>6. stop => Elapsed' = Elapsed + 1 /\ Elapsed \in Nat
  <2>1. stop => main \in {"run", "drain", "quit"}
    BY <1>1, <1>3 DEF Phases, Places
  <2>2. main \in {"run", "drain", "quit"} => tick' = tick + 1
    BY <1>1
  <2>3. main' = main /\ tick \in Nat /\ PollCycles \in Nat /\ DrainCycles \in Nat
    BY <1>0, <1>1
  <2>. QED
    BY <2>1, <2>2, <2>3 DEF Elapsed
<1>7. Phases'
  BY <1>0, <1>1, <1>3 DEF Phases
<1> DEFINE Numbers == /\ IDLE = 1 /\ WAIT = 2 /\ SYNC0 = 3 /\ TXEND = 8 /\ FATAL = 9
                      /\ Synced = 3..7
<1>8. Numbers
  BY DEF IDLE, WAIT, SYNC0, TXEND, FATAL, Synced, PROC2
<1>9. timeq' = <<>> => ~Noticeable'
  BY QueueSizes DEF Noticeable
<1>10. timeq' = timeq => Noticeable' = Noticeable
  BY DEF Noticeable
<1> HIDE DEF Numbers
<1>11. CASE Sleeps
  BY <1>1, <1>3, <1>7, <1>8, <1>11 DEF Sleeps, Numbers, AliveInv, IdleBetween, LastWord, WaitsLong,
     HasMark, EndsInTime, Harmless
<1>12. CASE Reports
  <2>1. LastWord'
    <3>1. Reason \in Infos
      BY DEF Reason, Infos, EndMarks
    <3>. QED
      BY <1>0, <1>1, <1>4, <1>8, <1>12, <3>1, InformWords DEF Reports, Numbers, LastWord
  <2>. QED
    BY <1>1, <1>7, <1>8, <1>12, <2>1 DEF Reports, Numbers, AliveInv, IdleBetween, WaitsLong,
       HasMark, EndsInTime, Harmless
<1>13. CASE Counts
  <2>1. LastWord'
    BY <1>4, <1>8, <1>13 DEF Counts, Numbers, LastWord, NoEnds
  <2>2. WaitsLong'
    BY <1>0, <1>1, <1>3, <1>6, <1>13 DEF Counts, WaitsLong
  <2>. QED
    BY <1>1, <1>3, <1>7, <1>8, <1>13, <2>1, <2>2 DEF Counts, Numbers, AliveInv, IdleBetween,
       HasMark, EndsInTime, Harmless
<1>14. CASE Begins
  <2>1. jstate = WAIT /\ jstate' = SYNC0 /\ timeq' = <<>> /\ Quietly
    BY <1>14 DEF Begins, CycleSync, InitSync
  <2>. QED
    BY <1>0, <1>1, <1>3, <1>5, <1>7, <1>8, <1>9, <2>1 DEF Numbers, Phases, AliveInv, IdleBetween,
       WaitsLong, HasMark, EndsInTime, Harmless
<1>15. CASE Gives
  <2>1. WaitsLong'
    BY <1>0, <1>1, <1>6, <1>8, <1>15 DEF Gives, Numbers, WaitsLong
  <2>2. EndsInTime'
    BY <1>0, <1>1, <1>3, <1>7, <1>8, <1>15 DEF Gives, Numbers, EndsInTime, Phases
  <2>. QED
    BY <1>1, <1>3, <1>5, <1>7, <1>8, <1>15, <2>1, <2>2 DEF Gives, Numbers, AliveInv, IdleBetween,
       HasMark, Harmless
<1>16. CASE Plays
  <2>1. WaitsLong'
    BY <1>0, <1>1, <1>6, <1>8, <1>16 DEF Plays, Numbers, WaitsLong
  <2>2. npc = "off" => jstate' = SYNC0
    BY <1>3, <1>16 DEF Plays, HasMark
  <2>3. EndsInTime'
    BY <1>0, <1>1, <1>7, <1>8, <1>9, <1>16, <2>2 DEF Plays, Numbers, EndsInTime, Phases
  <2>. QED
    BY <1>1, <1>3, <1>5, <1>7, <1>8, <1>9, <1>16, <2>1, <2>2, <2>3 DEF Plays, Numbers, Phases,
       AliveInv, IdleBetween, HasMark, Harmless
<1>. QED
  BY <1>2, <1>11, <1>12, <1>13, <1>14, <1>15, <1>16

(* The end of a session, told in time, is all that main() reads.            *)
LEMMA AlivePoll ==
  ASSUME DelaysFit, TypeOK, AliveInv, MainPoll
  PROVE  AliveInv'
<1>0. /\ infoq \in Seq(Infos) /\ Len(infoq) \in Nat
      /\ {tick, PollCycles, DrainCycles, QuitCycles} \subseteq Nat /\ jalive \in BOOLEAN
  BY ReceiverParams, LenProperties DEF TypeOK, QueuesTypeOK, MainTypeOK, JackrxTypeOK
<1>1. /\ main = "run" /\ ~stop /\ tick' = 0 /\ infoq' = Unread
      /\ stop' = (Told = "FATAL")
      /\ main' = IF Told \in {"FATAL", "TXEND"} THEN "drain" ELSE "run"
      /\ UNCHANGED <<timeq, npc, jstate, count, jalive, audioq>>
  BY DEF MainPoll, nvars, jvars
<1>2. Phases'
  BY <1>0, <1>1 DEF AliveInv, Phases, DelaysFit
<1>3. ASSUME jalive PROVE IdleBetween' /\ LastWord' /\ (main' = "drain" => jstate = IDLE)
  <2>1. EndAt \in 0..Len(infoq)
    BY <1>0, EndAtInRange
  <2>2. LastWord
    BY <1>3 DEF AliveInv
  <2>3. CASE EndAt = 0
    <3>1. Len(infoq') = 0 /\ main' = "run"
      BY <1>1, <2>3 DEF Unread, Told
    <3>. QED
      BY <3>1 DEF IdleBetween, LastWord
  <2>4. CASE EndAt # 0
    <3>1. /\ \A i \in (EndAt + 1)..Len(infoq) : infoq[i] \in Infos
          /\ EndAt + 1 \in Int
      BY <1>0, <2>1, <2>4, ElementOfSeq
    <3>2. /\ Len(infoq') = Len(infoq) - EndAt
          /\ \A i \in 1..Len(infoq') : infoq'[i] = infoq[EndAt + i]
      <4>1. CASE EndAt + 1 > Len(infoq)
        BY <1>0, <1>1, <2>1, <2>4, <4>1, <3>1, SubSeqProperties DEF Unread
      <4>2. CASE EndAt + 1 <= Len(infoq)
        BY <1>0, <1>1, <2>1, <2>4, <4>2, <3>1, SubSeqProperties DEF Unread
      <4>. QED
        BY <1>0, <2>1, <4>1, <4>2
    <3>3. ASSUME NEW m \in 1..Len(infoq')
          PROVE  /\ EndAt + m \in 1..Len(infoq) /\ EndAt + m # EndAt
                 /\ infoq'[m] = infoq[EndAt + m] /\ EndAt \in 1..Len(infoq)
      BY <1>0, <2>1, <2>4, <3>2
    <3>4. ASSUME NEW m \in 1..Len(infoq'), infoq'[m] \in Ends
          PROVE  jstate = IDLE /\ Told \notin Ends
      BY <2>2, <2>4, <3>4, <3>3 DEF LastWord, Told
    <3>5. ASSUME NEW m \in 1..Len(infoq'), NEW k \in 1..Len(infoq'),
                 infoq'[m] \in Ends, infoq'[k] \in Ends
          PROVE  k = m
      <4>1. EndAt + m = EndAt + k
        BY <2>2, <3>5, <3>3 DEF LastWord
      <4>. QED
        BY <1>0, <2>1, <4>1
    <3>6. Told \in Ends => jstate = IDLE
      BY <2>1, <2>2, <2>4 DEF LastWord, Told
    <3>. QED
      BY <1>1, <3>4, <3>5, <3>6 DEF IdleBetween, LastWord, Ends
  <2>. QED
    BY <2>1, <2>3, <2>4
<1>4. ASSUME jalive PROVE WaitsLong' /\ HasMark' /\ EndsInTime' /\ Harmless'
  <2>1. HasMark
    BY <1>4 DEF AliveInv
  <2>2. Noticeable' = Noticeable
    BY <1>1 DEF Noticeable
  <2>3. stop' => jstate = IDLE
    BY <1>1, <1>3, <1>4
  <2>. QED
    BY <1>0, <1>1, <1>3, <1>4, <2>1, <2>2, <2>3 DEF WaitsLong, HasMark, EndsInTime, Harmless,
       IDLE, WAIT, Synced, SYNC0, TXEND
<1>. QED
  BY <1>1, <1>2, <1>3, <1>4 DEF AliveInv

LEMMA AliveMain ==
  ASSUME DelaysFit, WAIT \notin SigintAt, TypeOK, AliveInv,
         \/ MainInfo \/ MainSockFail \/ MainStart \/ MainStop
         \/ MainDrained \/ MainExit \/ SigInt
  PROVE  AliveInv'
<1>0. /\ infoq \in Seq(Infos) /\ count \in Int /\ HalfSec \in Nat
      /\ {tick, PollCycles, DrainCycles, QuitCycles} \subseteq Nat
      /\ jstate \in IDLE..FATAL /\ jalive \in BOOLEAN /\ main \in Places
  BY WaitsType, ReceiverParams DEF TypeOK, QueuesTypeOK, JackrxTypeOK, MainTypeOK
<1>1. timeq' = timeq => Noticeable' = Noticeable
  BY DEF Noticeable
<1> DEFINE Client == /\ IdleBetween /\ LastWord /\ WaitsLong
                     /\ HasMark /\ EndsInTime /\ Harmless
           Numbers == /\ IDLE = 1 /\ WAIT = 2 /\ SYNC0 = 3 /\ TXEND = 8 /\ FATAL = 9
                      /\ Synced = 3..7
<1>2. Numbers
  BY DEF IDLE, WAIT, SYNC0, TXEND, FATAL, Synced, PROC2
<1> HIDE DEF Numbers
<1>3. CASE MainInfo
  <2>1. /\ main = "info" /\ main' = "start" /\ audioq' /\ npc' \in {npc, "recv"}
        /\ UNCHANGED <<infoq, timeq, jstate, count, jalive, stop, tick>>
    BY <1>3 DEF MainInfo, NetrxStart, queues, nvars, jvars
  <2>2. Phases'
    BY <2>1 DEF AliveInv, Phases
  <2>3. jalive => Client'
    BY <1>2, <2>1 DEF AliveInv, Phases, Numbers, IdleBetween, LastWord, WaitsLong, HasMark,
       EndsInTime, Harmless
  <2>. QED
    BY <2>1, <2>2, <2>3 DEF AliveInv
<1>4. CASE MainSockFail
  <2>1. /\ main = "info" /\ main' = "quit" /\ stop' /\ tick' = 0
        /\ UNCHANGED <<infoq, timeq, jstate, count, jalive, npc, audioq>>
    BY <1>4 DEF MainSockFail, queues, nvars, jvars
  <2>2. Phases'
    BY <1>0, <2>1 DEF AliveInv, Phases
  <2>3. jalive => Client'
    BY <1>2, <2>1 DEF AliveInv, Phases, Numbers, IdleBetween, LastWord, WaitsLong, HasMark,
       EndsInTime, Harmless
  <2>. QED
    BY <2>1, <2>2, <2>3 DEF AliveInv
<1>5. CASE MainStart
  <2>1. /\ main = "start" /\ main' = "run" /\ tick' = 0 /\ jstate' = WAIT
        /\ infoq' \in {infoq, Inform(infoq, "WAIT")}
        /\ UNCHANGED <<jalive, npc, audioq, stop>>
    BY <1>5 DEF MainStart, JackStart, InitWait, nvars
  <2>2. Phases'
    BY <1>0, <2>1 DEF AliveInv, Phases
  <2>3. jalive => NoEnds(infoq)
    BY <2>1 DEF AliveInv, Phases, LastWord, NoEnds
  <2>4. jalive => NoEnds(infoq')
    BY <1>0, <2>1, <2>3, InformWords DEF Infos, EndMarks, Ends
  <2>5. jalive => Client'
    BY <1>2, <2>1, <2>4 DEF AliveInv, Phases, Numbers, IdleBetween, LastWord, NoEnds, WaitsLong,
       HasMark, EndsInTime, Harmless
  <2>. QED
    BY <2>1, <2>2, <2>5 DEF AliveInv
<1>6. CASE MainStop
  <2>1. /\ main = "run" /\ stop /\ main' = "drain" /\ tick' = 0
        /\ UNCHANGED <<infoq, timeq, jstate, count, jalive, npc, audioq, stop>>
    BY <1>6 DEF MainStop, queues, nvars, jvars
  <2>2. Phases'
    BY <1>0, <2>1 DEF AliveInv, Phases, DelaysFit
  <2>3. jalive => WaitsLong'
    BY <1>0, <2>1 DEF AliveInv, Phases, WaitsLong, Elapsed
  <2>4. jalive => Client'
    BY <1>0, <1>1, <2>1, <2>3 DEF AliveInv, DelaysFit, IdleBetween, LastWord, HasMark,
       EndsInTime, Harmless
  <2>. QED
    BY <2>1, <2>2, <2>4 DEF AliveInv
<1>7. CASE MainDrained
  <2>1. /\ main = "drain" /\ npc = "off" /\ main' = IF stop THEN "quit" ELSE "info"
        /\ jalive => tick = DrainCycles
        /\ ~audioq' /\ tick' = 0
        /\ UNCHANGED <<infoq, timeq, jstate, count, jalive, npc, stop>>
    BY <1>7 DEF MainDrained, queues, nvars, jvars
  <2>2. Phases'
    BY <1>0, <2>1 DEF AliveInv, Phases
  <2>3. jalive => WaitsLong'
    BY <1>0, <2>1 DEF AliveInv, WaitsLong, Elapsed
  <2>4. jalive => Harmless' /\ jstate < TXEND
    BY <1>0, <1>1, <1>2, <2>1 DEF AliveInv, Numbers, EndsInTime, Harmless
  <2>5. jalive => Client'
    BY <1>0, <1>1, <2>1, <2>3, <2>4 DEF AliveInv, IdleBetween, LastWord, HasMark, EndsInTime
  <2>. QED
    BY <2>1, <2>2, <2>5 DEF AliveInv
<1>8. CASE MainExit
  <2>1. /\ main = "quit" /\ main' = "exit"
        /\ UNCHANGED <<infoq, timeq, jstate, count, jalive, npc, stop, audioq, tick>>
    BY <1>8 DEF MainExit, queues, nvars, jvars
  <2>. QED
    BY <1>1, <2>1 DEF AliveInv, Phases, IdleBetween, LastWord, WaitsLong, Elapsed, HasMark,
       EndsInTime, Harmless
<1>9. CASE SigInt
  <2>1. /\ main \in {"run", "drain"} /\ jstate # WAIT /\ stop'
        /\ UNCHANGED <<infoq, timeq, jstate, count, jalive, npc, main, audioq, tick>>
    BY <1>9 DEF SigInt, queues, nvars, jvars
  <2>. QED
    BY <1>1, <2>1 DEF AliveInv, Phases, IdleBetween, LastWord, WaitsLong, HasMark,
       EndsInTime, Harmless
<1>. QED
  BY <1>3, <1>4, <1>5, <1>6, <1>7, <1>8, <1>9

LEMMA AliveThread ==
  ASSUME TypeOK, AliveInv, Network
  PROVE  AliveInv'
<1>0. timeq \in Seq(Records) /\ {tick, DrainCycles} \subseteq Nat /\ npc \in {"off", "recv"} \cup DataPackets
  BY ReceiverParams DEF TypeOK, QueuesTypeOK, MainTypeOK, NetrxTypeOK
<1>1. /\ npc # "off"
      /\ UNCHANGED <<infoq, jstate, count, jalive, main, stop, audioq, tick>>
      /\ \/ npc' # "off"
         \/ \E mark \in StopMarks : timeq' = PutIfRoom(timeq, TimeqSize, mark)
  BY <1>0 DEF Network, PacketArrives, SuspArrives, TermArrives, SockFails, SockClosed, Written,
     Dropped, NetStep, NetrxData, NetrxFail, NetrxTerm, NetrxExit, NetrxSusp, NetrxWrite,
     NetrxDrop, DataPackets, StopMarks, queues, jvars
<1>2. main \notin {"info", "quit", "exit"}
  BY <1>1 DEF AliveInv, Phases
<1>3. Phases'
  BY <1>0, <1>1, <1>2 DEF AliveInv, Phases
<1>4. npc' = "off" => Noticeable'
  BY <1>0, <1>1, MarkPut DEF Records
<1>. QED
  BY <1>1, <1>2, <1>3, <1>4 DEF AliveInv, Phases, IdleBetween, LastWord, WaitsLong, Elapsed,
     HasMark, EndsInTime, Harmless

LEMMA AliveCallback ==
  ASSUME FreewheelAt = {}, ResizeAt = {}, TypeOK, AliveInv, Callback
  PROVE  AliveInv'
<1>1. UNCHANGED <<npc, main, stop, audioq, tick>>
  BY DEF Callback, Buffsize, Shutdown, Freewheel, JackEvent, nvars
<1>2. Phases'
  BY <1>1 DEF AliveInv, Phases
<1>3. ~jalive' \/ UNCHANGED <<infoq, timeq, jstate, count, jalive>>
  <2>1. CASE Buffsize
    BY <2>1 DEF Buffsize
  <2>2. CASE Shutdown
    BY <2>2 DEF Shutdown, JackEvent, JackShutdown
  <2>3. CASE \E yesno \in BOOLEAN : Freewheel(yesno)
    <3>1. PICK yesno \in BOOLEAN : Freewheel(yesno)
      BY <2>3
    <3>2. ~yesno /\ JackFreewheel(yesno)
      BY <3>1 DEF Freewheel, JackEvent
    <3>. QED
      BY <3>2 DEF JackFreewheel
  <2>. QED
    BY <2>1, <2>2, <2>3 DEF Callback
<1>. QED
  BY <1>1, <1>2, <1>3 DEF AliveInv, Phases, IdleBetween, LastWord, WaitsLong, Elapsed,
     HasMark, Noticeable, EndsInTime, Harmless

LEMMA AliveNext ==
  ASSUME DelaysFit, FreewheelAt = {}, ResizeAt = {}, WAIT \notin SigintAt,
         TypeOK, AliveInv, [Next]_vars
  PROVE  AliveInv'
<1>1. CASE Main
  BY <1>1, AliveMain, AlivePoll DEF Main
<1>2. CASE Terminated \/ UNCHANGED vars
  BY <1>2 DEF Terminated, vars, queues, nvars, jvars, AliveInv, Phases, IdleBetween, LastWord,
     WaitsLong, Elapsed, HasMark, Noticeable, EndsInTime, Harmless
<1>. QED
  BY <1>1, <1>2, AliveThread, AliveCycle, AliveCallback DEF Next

(* Idle, deaf, or far from the end of its wait: no queue is missing.        *)
LEMMA AliveIsEnough == DelaysFit /\ TypeOK /\ AliveInv => QueuesAlive
<1> SUFFICES ASSUME DelaysFit, TypeOK, AliveInv, jalive, ~Deaf
             PROVE  /\ TouchesAudio => audioq
                    /\ main = "quit" => ~TouchesAudio /\ jstate < TXEND
  BY DEF QueuesAlive
<1>1. /\ count \in Int /\ HalfSec \in Nat /\ main \in Places
      /\ {tick, PollCycles, DrainCycles, QuitCycles} \subseteq Nat
  BY WaitsType, ReceiverParams DEF TypeOK, JackrxTypeOK, MainTypeOK
<1>2. (StopAt # 0 \/ Len(timeq) >= TimeqSize) <=> Noticeable
  BY NoticeableMeans
<1>3. Len(timeq) \in Nat
  BY LenProperties DEF TypeOK, QueuesTypeOK
<1>4. CASE main \in {"quit", "exit"}
  <2>1. npc = "off" /\ stop /\ tick <= QuitCycles
    BY <1>4 DEF AliveInv, Phases
  <2>2. jstate = WAIT => count + 1 # 0
    BY <1>1, <1>4, <2>1 DEF AliveInv, WaitsLong, Elapsed, DelaysFit
  <2>3. ~(jstate \in Synced /\ ~Noticeable)
    BY <1>2, <1>3, <2>1, QueueSizes DEF Deaf
  <2>4. jstate \in {IDLE, WAIT}
    BY <1>4, <2>3 DEF AliveInv, Harmless
  <2>. QED
    BY <2>2, <2>4 DEF TouchesAudio, IDLE, WAIT, Synced, SYNC0, PROC2, TXEND
<1>5. CASE main = "info"
  BY <1>5 DEF AliveInv, IdleBetween, TouchesAudio, IDLE, WAIT, Synced, SYNC0, PROC2
<1>6. CASE main \in {"start", "run", "drain"}
  BY <1>6 DEF AliveInv, Phases
<1>. QED
  BY <1>1, <1>4, <1>5, <1>6 DEF Places

(* When the delays of main() fit into the half second of a wait, nobody      *)
(* freewheels or changes the period size, and the user does not stop the     *)
(* program while the client waits, main() may delete the queues when it      *)
(* does, with the callback still running and no lock between them: the mark  *)
(* of the receive thread's end has made the client idle, or it waits for     *)
(* longer than main() lives.  The one exception is a client that was deaf.   *)
THEOREM QueuesOutliveTheirUse ==
  ASSUME DelaysFit, FreewheelAt = {}, ResizeAt = {}, WAIT \notin SigintAt
  PROVE  Spec => []QueuesAlive
<1>1. Init => AliveInv
  BY AliveInit
<1>2. TypeOK /\ AliveInv /\ [Next]_vars => AliveInv'
  BY AliveNext
<1>3. TypeOK /\ AliveInv => QueuesAlive
  BY AliveIsEnough
<1>. QED
  BY <1>1, <1>2, <1>3, TypeCorrect, PTL DEF Spec
=============================================================================
