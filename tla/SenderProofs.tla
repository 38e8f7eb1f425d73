---------------------------- MODULE SenderProofs ----------------------------
(***************************************************************************)
(* Theorems about the sender, for every number of packets per period and     *)
(* every size of its queues.                                               *)
(***************************************************************************)
EXTENDS Sender, SequenceTheorems, Arithmetic

-----------------------------------------------------------------------------
(* Type correctness                                                        *)

LEMMA ReportType ==
  ASSUME NEW q \in Seq(Infos), Len(q) <= InfoqSize, NEW info \in Infos
  PROVE  Report(q, info) \in Seq(Infos) /\ Len(Report(q, info)) <= InfoqSize
  BY TxSizes DEF Report

LEMMA SendInit == Init => TypeOK
<1> SUFFICES ASSUME Init PROVE TypeOK
  OBVIOUS
<1>1. TxQueuesTypeOK
  <2>1. nstop \in BOOLEAN
    BY Zenon DEF Init, TxQueuesInit
  <2>. QED
    BY <2>1, TxSizes DEF Init, TxQueuesInit, TxQueuesTypeOK
<1>2. NettxTypeOK
  BY DEF Init, NettxInit, NettxTypeOK
<1>3. JacktxTypeOK
  <2>1. freew \in BOOLEAN /\ jalive \in BOOLEAN
    BY Zenon DEF Init, JacktxInit
  <2>. QED
    BY <2>1, TxSizes, JacktxParams DEF Init, JacktxInit, JacktxTypeOK
<1>4. main \in Places /\ stop \in BOOLEAN /\ tick \in Nat
  BY DEF Init, Places
<1>. QED
  BY <1>1, <1>2, <1>3, <1>4 DEF TypeOK

(* The slot that is sent from is in use until it is released.               *)
SlotHeld == tpc = "sent" => packq # <<>>

(* A period that is being packed has a packet left.                         *)
PackLeft == jpc = "pack" => left > 0

LEMMA ThreadType ==
  ASSUME TxQueuesTypeOK, NettxTypeOK, SlotHeld,
         TxWake \/ TxStop \/ TxSend \/ TxCommit \/ TxDescriptor
  PROVE  TxQueuesTypeOK' /\ NettxTypeOK' /\ SlotHeld'
<1> USE DEF TxQueuesTypeOK, NettxTypeOK, SlotHeld
<1>1. packq # <<>> => /\ Head(packq) \in Packets /\ Tail(packq) \in Seq(Packets)
                      /\ Len(Tail(packq)) <= PackqSize
  <2> SUFFICES ASSUME packq # <<>>
               PROVE  /\ Head(packq) \in Packets /\ Tail(packq) \in Seq(Packets)
                      /\ Len(Tail(packq)) <= PackqSize
    OBVIOUS
  <2>1. /\ Head(packq) \in Packets /\ Tail(packq) \in Seq(Packets)
        /\ Len(Tail(packq)) = Len(packq) - 1 /\ Len(packq) \in Nat
    BY HeadTailProperties, LenProperties
  <2>. QED
    BY <2>1, TxSizes
<1>2. CASE TxWake
  BY <1>2 DEF TxWake
<1>3. CASE TxStop
  BY <1>3 DEF TxStop, shared
<1>4. CASE TxSend
  BY <1>4, <1>1 DEF TxSend, shared
<1>5. CASE TxCommit
  BY <1>5, <1>1 DEF TxCommit
<1>6. CASE TxDescriptor
  BY <1>6 DEF TxDescriptor
<1>. QED
  BY <1>2, <1>3, <1>4, <1>5, <1>6

(* The steps of the Jack client.                                            *)
LEMMA AppendType ==
  ASSUME packq \in Seq(Packets), Room, NEW packet \in Packets
  PROVE  /\ Append(packq, packet) \in Seq(Packets)
         /\ Len(Append(packq, packet)) <= PackqSize
         /\ Append(packq, packet) # <<>>
<1>1. /\ Append(packq, packet) \in Seq(Packets)
      /\ Len(Append(packq, packet)) = Len(packq) + 1 /\ Len(packq) \in Nat
  BY AppendProperties, LenProperties
<1>2. Len(packq) + 1 <= PackqSize
  BY <1>1, TxSizes DEF Room
<1>3. Append(packq, packet) # <<>>
  OBVIOUS
<1>. QED
  BY <1>1, <1>2, <1>3

LEMMA TellType ==
  ASSUME TxQueuesTypeOK, NEW state \in {"SEND", "SUSP", "TERM"}, Tell(state)
  PROVE  /\ infoq' \in Seq(Infos) /\ Len(infoq') <= InfoqSize
         /\ jstate' \in {"INIT", "SEND", "SUSP", "TERM"}
<1>1. (IF state = "TERM" THEN "TERM" ELSE "INFO") \in Infos
  BY DEF Infos
<1>. QED
  BY <1>1, ReportType DEF Tell, TxQueuesTypeOK

LEMMA JackType ==
  ASSUME TypeOK, PackLeft, JackCycle \/ JackPack \/ JackPost
  PROVE  /\ TxQueuesTypeOK' /\ JacktxTypeOK' /\ tick' \in Nat
         /\ PackLeft'
         /\ packq' # packq => packq' # <<>>
<1> USE DEF TypeOK, TxQueuesTypeOK, JacktxTypeOK, PackLeft
<1>1. CASE JackPost
  BY <1>1 DEF JackPost, CyclePost, mvars
<1>2. CASE JackPack
  <2>1. CASE CyclePut
    <3>1. Npack - left + 1 \in Packets /\ left - 1 \in 0..Npack
      BY <1>2, TxSizes DEF JackPack, Packets, SUSP
    <3>. QED
      BY <1>2, <2>1, <3>1, AppendType DEF JackPack, CyclePut, mvars
  <2>2. CASE CycleFull
    <3>1. /\ infoq' \in Seq(Infos) /\ Len(infoq') <= InfoqSize
          /\ jstate' \in {"INIT", "SEND", "SUSP", "TERM"}
      BY <2>2, TellType DEF CycleFull, GiveUp
    <3>. QED
      BY <1>2, <2>2, <3>1, TxSizes DEF JackPack, CycleFull, GiveUp, mvars
  <2>. QED
    BY <1>2, <2>1, <2>2 DEF JackPack
<1>3. CASE JackCycle
  <2>1. tick' \in Nat /\ UNCHANGED <<sem, nstop, freew, jalive>> /\ jpc = "idle"
    BY <1>3 DEF JackCycle, JackMayRun
  <2>2. CASE CycleTerm
    BY <2>1, <2>2, TellType DEF CycleTerm
  <2>3. CASE CycleSuspend
    <3>1. SUSP \in Packets
      BY TxSizes DEF Packets, SUSP
    <3>2. /\ infoq' \in Seq(Infos) /\ Len(infoq') <= InfoqSize
          /\ jstate' \in {"INIT", "SEND", "SUSP", "TERM"}
      BY <2>3, TellType DEF CycleSuspend, GiveUp
    <3>3. CASE GiveUp
      BY <2>1, <2>3, <3>2, <3>3, TxSizes DEF CycleSuspend, GiveUp
    <3>4. CASE Room /\ packq' = Append(packq, SUSP) /\ jpc' = "post" /\ UNCHANGED <<stamps, left>>
      BY <2>1, <2>3, <3>1, <3>2, <3>4, AppendType DEF CycleSuspend
    <3>. QED
      BY <2>3, <3>3, <3>4 DEF CycleSuspend
  <2>4. CASE CycleRest
    BY <2>1, <2>4 DEF CycleRest
  <2>5. CASE CycleSend
    <3>1. stamps' \in Nat /\ tscnt' \in Int /\ since' \in -1..(SecCycles + 1)
      BY <2>5, JacktxParams DEF CycleSend, Stamp
    <3>2. /\ infoq' \in Seq(Infos) /\ Len(infoq') <= InfoqSize
          /\ jstate' \in {"INIT", "SEND", "SUSP", "TERM"}
      BY <2>5, TellType DEF CycleSend
    <3>3. /\ UNCHANGED <<packq, sem, nstop, freew, jalive>>
          /\ jpc' = "pack" /\ left' = Npack
      BY <2>1, <2>5 DEF CycleSend
    <3>. QED
      BY <2>1, <3>1, <3>2, <3>3, TxSizes
  <2>. QED
    BY <1>3, <2>2, <2>3, <2>4, <2>5 DEF JackCycle
<1>. QED
  BY <1>1, <1>2, <1>3

LEMMA UnreadType ==
  ASSUME TxQueuesTypeOK
  PROVE  LET rest == IF TermAt = 0 THEN <<>> ELSE SubSeq(infoq, TermAt + 1, Len(infoq))
         IN  rest \in Seq(Infos) /\ Len(rest) <= InfoqSize
<1> USE DEF TxQueuesTypeOK
<1> DEFINE I == {i \in 1..Len(infoq) : IsTerm(infoq[i])}
<1>1. Len(infoq) \in Nat
  BY LenProperties
<1>2. TermAt = IF I # {} THEN Min(I) ELSE 0
  BY DEF TermAt, SelectInSeq
<1>3. I # {} => Min(I) \in I
  <2>1. I \subseteq Nat
    OBVIOUS
  <2>. QED
    BY <2>1, MinIsLeast
<1>4. CASE TermAt = 0
  BY <1>4, TxSizes
<1>5. CASE TermAt # 0
  <2>1. TermAt \in 1..Len(infoq)
    BY <1>2, <1>3, <1>5
  <2>2. /\ TermAt + 1 \in Int
        /\ \A i \in (TermAt + 1)..Len(infoq) : infoq[i] \in Infos
    BY <1>1, <2>1, ElementOfSeq
  <2>3. /\ SubSeq(infoq, TermAt + 1, Len(infoq)) \in Seq(Infos)
        /\ Len(SubSeq(infoq, TermAt + 1, Len(infoq))) <= Len(infoq)
    BY <1>1, <2>1, <2>2, SubSeqProperties
  <2>. QED
    BY <1>1, <1>5, <2>3, TxSizes
<1>. QED
  BY <1>4, <1>5

(* What the proofs below know of a state, besides their own invariants.      *)
Sound == TypeOK /\ SlotHeld /\ PackLeft

LEMMA SoundInit == Init => Sound
  BY SendInit DEF Init, NettxInit, JacktxInit, Sound, SlotHeld, PackLeft

LEMMA SoundNext == Sound /\ [Next]_vars => Sound'
<1> SUFFICES ASSUME Sound, [Next]_vars PROVE Sound'
  OBVIOUS
<1>1. CASE MainStart
  <2>1. Report(infoq, "INFO") \in Seq(Infos) /\ Len(Report(infoq, "INFO")) <= InfoqSize
    BY ReportType DEF Sound, TypeOK, TxQueuesTypeOK, Infos
  <2>. QED
    BY <1>1, <2>1 DEF MainStart, NettxStart, tvars, JacktxStart, Sound, TypeOK, SlotHeld, PackLeft,
       TxQueuesTypeOK, NettxTypeOK, JacktxTypeOK, Places
<1>2. CASE MainTrigger \/ MainStop \/ MainPost \/ SigInt
  <2>1. nstop' \in BOOLEAN /\ stop' \in BOOLEAN
    BY <1>2, Zenon DEF MainTrigger, MainStop, MainPost, SigInt, shared, Sound, TypeOK, TxQueuesTypeOK
  <2>. QED
    BY <1>2, <2>1 DEF MainTrigger, MainStop, MainPost, SigInt, shared, tvars, jvars, Sound, TypeOK,
       SlotHeld, PackLeft, TxQueuesTypeOK, NettxTypeOK, JacktxTypeOK, Places
<1>3. CASE MainCheck
  <2>1. infoq' \in Seq(Infos) /\ Len(infoq') <= InfoqSize
    BY <1>3, UnreadType DEF MainCheck, Sound, TypeOK
  <2>2. stop' \in BOOLEAN
    BY <1>3, Zenon DEF MainCheck, Sound, TypeOK
  <2>. QED
    BY <1>3, <2>1, <2>2 DEF MainCheck, tvars, jvars, Sound, TypeOK, SlotHeld, PackLeft,
       TxQueuesTypeOK, NettxTypeOK, JacktxTypeOK, Places
<1>4. CASE MainExit
  <2>1. jalive' \in BOOLEAN
    BY <1>4, Zenon DEF MainExit
  <2>. QED
    BY <1>4, <2>1 DEF MainExit, shared, tvars, Sound, TypeOK, SlotHeld, PackLeft,
       TxQueuesTypeOK, NettxTypeOK, JacktxTypeOK, Places
<1>5. CASE Thread
  BY <1>5, ThreadType DEF Thread, jvars, mvars, Sound, TypeOK, PackLeft, JacktxTypeOK
<1>6. CASE JackCycle \/ JackPack \/ JackPost
  <2>1. UNCHANGED <<tvars, main, stop>>
    BY <1>6 DEF JackCycle, JackPack, JackPost, mvars
  <2>. QED
    BY <1>6, <2>1, JackType DEF tvars, Sound, TypeOK, SlotHeld, NettxTypeOK
<1>7. CASE Freewheel \/ Buffsize
  <2>1. freew' \in BOOLEAN
    BY <1>7, Zenon DEF Freewheel, Buffsize, Sound, TypeOK, JacktxTypeOK
  <2>. QED
    BY <1>7, <2>1 DEF Freewheel, Buffsize, shared, tvars, mvars, Sound, TypeOK, SlotHeld, PackLeft,
       TxQueuesTypeOK, NettxTypeOK, JacktxTypeOK
<1>8. CASE Shutdown
  <2>1. infoq' \in Seq(Infos) /\ Len(infoq') <= InfoqSize
    BY <1>8, ReportType DEF Shutdown, Sound, TypeOK, TxQueuesTypeOK, Infos
  <2>2. jalive' \in BOOLEAN
    BY <1>8, Zenon DEF Shutdown
  <2>. QED
    BY <1>8, <2>1, <2>2 DEF Shutdown, tvars, mvars, Sound, TypeOK, SlotHeld, PackLeft,
       TxQueuesTypeOK, NettxTypeOK, JacktxTypeOK
<1>9. CASE CycleDies \/ ShutdownDies
  <2>1. jalive' \in BOOLEAN
    BY <1>9, Zenon DEF CycleDies, ShutdownDies, NullReport
  <2>. QED
    BY <1>9, <2>1 DEF CycleDies, ShutdownDies, NullReport, shared, tvars, Sound, TypeOK,
       SlotHeld, PackLeft, TxQueuesTypeOK, NettxTypeOK, JacktxTypeOK, Places
<1>10. CASE Terminated \/ UNCHANGED vars
  BY <1>10 DEF Terminated, vars, shared, tvars, jvars, mvars, Sound, TypeOK, SlotHeld, PackLeft,
     TxQueuesTypeOK, NettxTypeOK, JacktxTypeOK
<1>. QED
  BY <1>1, <1>2, <1>3, <1>4, <1>5, <1>6, <1>7, <1>8, <1>9, <1>10 DEF Next, MainWork, Jack

(* Every variable of the sender keeps its type, and the bounded queues their *)
(* bounds.                                                                 *)
THEOREM TypeCorrect == Spec => []TypeOK
<1>1. Init => Sound
  BY SoundInit
<1>2. Sound /\ [Next]_vars => Sound'
  BY SoundNext
<1>3. Sound => TypeOK
  BY DEF Sound
<1>. QED
  BY <1>1, <1>2, <1>3, PTL DEF Spec

-----------------------------------------------------------------------------
(* Wake-ups                                                                *)

(* For each packet in the queue there is a wake-up: still in the semaphore,  *)
(* being obeyed, or about to be posted.  Nothing is queued before start().  *)
WakeInv ==
  /\ tpc # "off" => Len(packq) <= sem + (IF tpc \in {"woken", "sent"} THEN 1 ELSE 0)
                                      + (IF jpc = "post" THEN 1 ELSE 0)
  /\ main = "setup" => packq = <<>> /\ jstate \in {"INIT", "TERM"} /\ jpc = "idle"

LEMMA WakeInit == Init => WakeInv
  BY DEF Init, TxQueuesInit, NettxInit, JacktxInit, WakeInv

LEMMA WakeNext == Sound /\ WakeInv /\ [Next]_vars => WakeInv'
<1> SUFFICES ASSUME Sound, WakeInv, [Next]_vars PROVE WakeInv'
  OBVIOUS
<1>0. packq \in Seq(Packets) /\ Len(packq) \in Nat /\ sem \in Nat
  BY LenProperties DEF Sound, TypeOK, TxQueuesTypeOK
<1>1. CASE MainStart
  BY <1>0, <1>1 DEF MainStart, NettxStart, tvars, JacktxStart, WakeInv
<1>2. CASE MainTrigger \/ MainPost
  BY <1>0, <1>2 DEF MainTrigger, MainPost, tvars, jvars, WakeInv
<1>3. CASE MainCheck \/ MainStop \/ MainExit \/ SigInt
  BY <1>3 DEF MainCheck, MainStop, MainExit, SigInt, shared, tvars, jvars, WakeInv
<1>4. CASE Thread
  <2>1. tpc = "sent" => /\ packq # <<>>
                        /\ Len(Tail(packq)) = Len(packq) - 1
    BY <1>0, HeadTailProperties DEF Sound, SlotHeld
  <2>2. UNCHANGED <<jpc, jstate, main>>
    BY <1>4 DEF Thread, jvars, mvars
  <2>3. CASE TxWake
    BY <1>0, <2>2, <2>3 DEF TxWake, WakeInv
  <2>4. CASE TxStop \/ TxSend
    BY <2>2, <2>4 DEF TxStop, TxSend, shared, WakeInv
  <2>5. CASE TxCommit
    BY <1>0, <2>1, <2>2, <2>5, EmptySeq DEF TxCommit, WakeInv
  <2>6. CASE TxDescriptor
    BY <1>0, <2>2, <2>6 DEF TxDescriptor, WakeInv
  <2>. QED
    BY <1>4, <2>3, <2>4, <2>5, <2>6 DEF Thread
<1>5. CASE JackCycle
  <2>1. UNCHANGED <<sem, tpc, main>> /\ jpc = "idle"
    BY <1>5 DEF JackCycle, JackMayRun, tvars
  <2>2. CASE CycleSuspend
    <3>1. SUSP \in Packets
      BY TxSizes DEF Packets, SUSP
    <3>2. Len(Append(packq, SUSP)) = Len(packq) + 1
      BY <1>0, <3>1, AppendProperties
    <3>. QED
      BY <1>0, <2>1, <2>2, <3>2 DEF CycleSuspend, GiveUp, WakeInv
  <2>3. CASE CycleTerm \/ CycleRest \/ CycleSend
    BY <2>1, <2>3 DEF CycleTerm, CycleRest, CycleSend, Tell, WakeInv
  <2>. QED
    BY <1>5, <2>2, <2>3 DEF JackCycle
<1>6. CASE JackPack
  <2>1. UNCHANGED <<sem, tpc, main>> /\ jpc = "pack" /\ main # "setup"
    BY <1>6 DEF JackPack, tvars, mvars, WakeInv
  <2>2. CASE CyclePut
    <3>1. Npack - left + 1 \in Packets
      BY <2>1, TxSizes DEF Packets, SUSP, Sound, PackLeft, TypeOK, JacktxTypeOK
    <3>2. Len(Append(packq, Npack - left + 1)) = Len(packq) + 1
      BY <1>0, <3>1, AppendProperties
    <3>. QED
      BY <1>0, <2>1, <2>2, <3>2 DEF CyclePut, WakeInv
  <2>3. CASE CycleFull
    BY <2>1, <2>3 DEF CycleFull, GiveUp, WakeInv
  <2>. QED
    BY <1>6, <2>2, <2>3 DEF JackPack
<1>7. CASE JackPost
  BY <1>0, <1>7 DEF JackPost, CyclePost, tvars, mvars, WakeInv
<1>8. CASE Freewheel \/ Buffsize \/ Shutdown \/ CycleDies \/ ShutdownDies
  BY <1>8 DEF Freewheel, Buffsize, Shutdown, CycleDies, ShutdownDies, NullReport,
     shared, tvars, mvars, WakeInv
<1>9. CASE Terminated \/ UNCHANGED vars
  BY <1>9 DEF Terminated, vars, shared, tvars, jvars, mvars, WakeInv
<1>. QED
  BY <1>1, <1>2, <1>3, <1>4, <1>5, <1>6, <1>7, <1>8, <1>9 DEF Next, MainWork, Jack

(* The transmit thread never sleeps on a packet, although main() wakes it     *)
(* too and any wake-up is good for any packet.                              *)
THEOREM NoWakeupIsLost == Spec => []NoLostWakeup
<1>1. Init => Sound /\ WakeInv
  BY SoundInit, WakeInit
<1>2. Sound /\ WakeInv /\ [Next]_vars => Sound' /\ WakeInv'
  BY SoundNext, WakeNext
<1>3. Sound /\ WakeInv => NoLostWakeup
  BY LenProperties, EmptySeq DEF Sound, TypeOK, TxQueuesTypeOK, WakeInv, NoLostWakeup
<1>. QED
  BY <1>1, <1>2, <1>3, PTL DEF Spec

-----------------------------------------------------------------------------
(* The order of the packets                                                *)

(* What the network and the queue hold together is in order.                *)
Ordered ==
  /\ tpc = "sent" => wire = packq[1]
  /\ tpc # "sent" /\ packq # <<>> => Follows(wire, packq[1])
  /\ \A i \in 1..(Len(packq) - 1) : Follows(packq[i], packq[i + 1])

(* The Jack client goes on with what may follow it.                         *)
Continued ==
  /\ left > 0 => Follows(Latest, Npack - left + 1) /\ jstate = "SEND" /\ jpc # "idle"
  /\ left = 0 /\ jstate = "SEND" => Latest \in {NOTHING, Npack}
  /\ jstate = "SUSP" => Latest = SUSP /\ left = 0
  /\ jstate = "INIT" => Latest = NOTHING /\ left = 0

(* Until the goodbye is sent; after that there is no thread.                 *)
FlowInv ==
  /\ wire # GOODBYE => Ordered /\ Continued
  /\ wire = GOODBYE => tpc = "off" /\ main # "setup"
  /\ main = "setup" =>
       /\ tpc = "off" /\ packq = <<>> /\ wire = NOTHING
       /\ jstate \in {"INIT", "TERM"} /\ jpc = "idle" /\ left = 0

LEMMA FlowInit == Init => FlowInv
  BY DEF Init, TxQueuesInit, NettxInit, JacktxInit, FlowInv, Ordered, Continued, Latest, Last,
     NOTHING, GOODBYE

LEMMA PutOrdered ==
  ASSUME packq \in Seq(Packets), SlotHeld, Ordered,
         NEW packet \in Packets, Follows(Latest, packet),
         packq' = Append(packq, packet), UNCHANGED <<tpc, wire>>
  PROVE  Ordered' /\ Latest' = packet
<1>1. /\ Len(packq) \in Nat /\ Len(packq') = Len(packq) + 1 /\ packq' # <<>>
      /\ \A i \in 1..Len(packq) : packq'[i] = packq[i]
      /\ packq'[Len(packq) + 1] = packet
      /\ packq # <<>> <=> Len(packq) > 0
  BY AppendProperties, LenProperties, EmptySeq
<1>2. Latest' = packet
  BY <1>1 DEF Latest, Last
<1>3. CASE packq = <<>>
  BY <1>1, <1>2, <1>3 DEF SlotHeld, Ordered, Latest, Last
<1>4. CASE packq # <<>>
  <2>1. \A i \in 1..(Len(packq') - 1) : Follows(packq'[i], packq'[i + 1])
    <3> SUFFICES ASSUME NEW i \in 1..(Len(packq') - 1)
                 PROVE  Follows(packq'[i], packq'[i + 1])
      OBVIOUS
    <3>1. CASE i < Len(packq)
      BY <1>1, <3>1 DEF Ordered
    <3>2. CASE i = Len(packq)
      BY <1>1, <1>4, <3>2 DEF Latest, Last
    <3>. QED
      BY <1>1, <3>1, <3>2
  <2>. QED
    BY <1>1, <1>2, <1>4, <2>1 DEF Ordered
<1>. QED
  BY <1>3, <1>4, <1>2

LEMMA CommitOrdered ==
  ASSUME packq \in Seq(Packets), SlotHeld, Ordered, TxCommit
  PROVE  Ordered' /\ Latest' = Latest
<1>1. /\ Len(packq) \in Nat \ {0} /\ packq' \in Seq(Packets)
      /\ Len(packq') = Len(packq) - 1
      /\ \A i \in 1..Len(packq') : packq'[i] = packq[i + 1]
  BY HeadTailProperties, LenProperties, EmptySeq DEF TxCommit, SlotHeld
<1>2. wire = packq[1] /\ wire' = wire /\ tpc' = "wait" /\ packq # <<>>
  BY DEF TxCommit, Ordered, SlotHeld
<1>3. packq' = <<>> <=> Len(packq) = 1
  BY <1>1, EmptySeq
<1>4. Latest' = Latest
  BY <1>1, <1>2, <1>3 DEF Latest, Last
<1>5. packq' # <<>> => Follows(wire', packq'[1])
  BY <1>1, <1>2, <1>3 DEF Ordered
<1>6. \A i \in 1..(Len(packq') - 1) : Follows(packq'[i], packq'[i + 1])
  BY <1>1 DEF Ordered
<1>. QED
  BY <1>2, <1>4, <1>5, <1>6 DEF Ordered

LEMMA FlowNext == Sound /\ FlowInv /\ [Next]_vars => FlowInv'
<1> SUFFICES ASSUME Sound, FlowInv, [Next]_vars PROVE FlowInv'
  OBVIOUS
<1>0. /\ packq \in Seq(Packets) /\ SlotHeld /\ left \in 0..Npack
      /\ Npack \in Nat \ {0}
  BY TxSizes DEF Sound, TypeOK, TxQueuesTypeOK, JacktxTypeOK
<1>1. CASE MainStart
  BY <1>1 DEF MainStart, NettxStart, tvars, JacktxStart, FlowInv, Ordered, Continued, Latest, Last,
     NOTHING, GOODBYE
<1>2. CASE MainTrigger \/ MainPost \/ MainCheck \/ MainStop \/ SigInt
  BY <1>2 DEF MainTrigger, MainPost, MainCheck, MainStop, SigInt, shared, tvars, jvars,
     FlowInv, Ordered, Continued, Latest, Last
<1>3. CASE MainExit
  BY <1>3 DEF MainExit, shared, tvars, FlowInv, Ordered, Continued, Latest, Last
<1>4. CASE Thread
  <2>1. UNCHANGED <<jpc, left, jstate, main>>
    BY <1>4 DEF Thread, jvars, mvars
  <2>2. tpc # "off" /\ main # "setup" /\ Ordered /\ Continued
    BY <1>4 DEF Thread, TxWake, TxStop, TxSend, TxCommit, TxDescriptor, FlowInv
  <2>3. CASE TxWake \/ TxDescriptor
    BY <2>1, <2>2, <2>3 DEF TxWake, TxDescriptor, FlowInv, Ordered, Continued, Latest, Last
  <2>4. CASE TxStop
    BY <2>1, <2>2, <2>4 DEF TxStop, FlowInv
  <2>5. CASE TxSend
    <3>1. Head(packq) = packq[1] /\ Head(packq) \in Packets
      BY <1>0, <2>5, HeadTailProperties DEF TxSend
    <3>2. Head(packq) # GOODBYE
      BY <1>0, <3>1 DEF Packets, SUSP, GOODBYE
    <3>3. Ordered' /\ Continued'
      BY <1>0, <2>1, <2>2, <2>5, <3>1 DEF TxSend, shared, Ordered, Continued, Latest, Last
    <3>. QED
      BY <2>1, <2>2, <2>5, <3>2, <3>3 DEF TxSend, FlowInv
  <2>6. CASE TxCommit
    <3>1. Ordered' /\ Continued'
      BY <1>0, <2>1, <2>2, <2>6, CommitOrdered DEF Continued
    <3>. QED
      BY <2>1, <2>2, <2>6, <3>1 DEF TxCommit, FlowInv
  <2>. QED
    BY <1>4, <2>3, <2>4, <2>5, <2>6 DEF Thread
<1>5. CASE JackCycle
  <2>1. UNCHANGED <<tpc, wire, main>> /\ jpc = "idle"
    BY <1>5 DEF JackCycle, JackMayRun, tvars
  <2>2. CASE wire = GOODBYE
    BY <2>1, <2>2 DEF FlowInv
  <2>3. CASE wire # GOODBYE
    <3>1. Ordered /\ Continued /\ left = 0
      BY <1>0, <2>1, <2>3 DEF FlowInv, Continued
    <3>2. CASE CycleSuspend
      <4>1. Follows(Latest, SUSP) /\ SUSP \in Packets /\ main # "setup"
        BY <1>0, <3>1, <3>2 DEF CycleSuspend, Continued, Follows, Packets, SUSP, FlowInv
      <4>2. CASE GiveUp
        BY <2>1, <3>1, <4>1, <4>2 DEF GiveUp, Tell, FlowInv, Ordered, Continued, Latest, Last
      <4>3. CASE /\ packq' = Append(packq, SUSP) /\ jpc' = "post"
                 /\ Tell("SUSP") /\ UNCHANGED <<stamps, left>>
        BY <1>0, <2>1, <3>1, <4>1, <4>3, PutOrdered DEF Tell, FlowInv, Continued
      <4>. QED
        BY <3>2, <4>2, <4>3 DEF CycleSuspend
    <3>3. CASE CycleTerm \/ CycleRest
      BY <2>1, <3>1, <3>3 DEF CycleTerm, CycleRest, Tell, FlowInv, Ordered, Continued, Latest, Last
    <3>4. CASE CycleSend
      <4>1. Follows(Latest, 1) /\ main # "setup" /\ jstate' = "SEND"
        BY <3>1, <3>4 DEF CycleSend, Tell, Continued, Follows, FlowInv
      <4>2. Npack - Npack + 1 = 1
        BY <1>0
      <4>. QED
        BY <1>0, <2>1, <3>1, <3>4, <4>1, <4>2 DEF CycleSend, FlowInv, Ordered, Continued, Latest, Last
    <3>. QED
      BY <1>5, <3>2, <3>3, <3>4 DEF JackCycle
  <2>. QED
    BY <2>2, <2>3
<1>6. CASE JackPack
  <2>1. UNCHANGED <<tpc, wire, main>> /\ jpc = "pack" /\ main # "setup" /\ left \in 1..Npack
    BY <1>0, <1>6 DEF JackPack, tvars, mvars, FlowInv, Sound, PackLeft
  <2>2. CASE wire = GOODBYE
    BY <2>1, <2>2 DEF FlowInv
  <2>3. CASE wire # GOODBYE
    <3>1. /\ Ordered /\ Continued /\ jstate = "SEND"
          /\ Follows(Latest, Npack - left + 1)
      BY <2>1, <2>3 DEF FlowInv, Continued
    <3>2. CASE CyclePut
      <4>1. Npack - left + 1 \in Packets
        BY <1>0, <2>1 DEF Packets, SUSP
      <4>2. Ordered' /\ Latest' = Npack - left + 1
        BY <1>0, <2>1, <3>1, <3>2, <4>1, PutOrdered DEF CyclePut
      <4>3. /\ left' > 0 => Follows(Npack - left + 1, Npack - left' + 1)
            /\ left' = 0 => Npack - left + 1 = Npack
        BY <1>0, <2>1, <3>2 DEF CyclePut, Follows
      <4>. QED
        BY <2>1, <3>1, <3>2, <4>2, <4>3 DEF CyclePut, FlowInv, Continued
    <3>3. CASE CycleFull
      BY <2>1, <3>1, <3>3 DEF CycleFull, GiveUp, Tell, FlowInv, Ordered, Continued, Latest, Last
    <3>. QED
      BY <1>6, <3>2, <3>3 DEF JackPack
  <2>. QED
    BY <2>2, <2>3
<1>7. CASE JackPost
  BY <1>7 DEF JackPost, CyclePost, tvars, mvars, FlowInv, Ordered, Continued, Latest, Last
<1>8. CASE Freewheel \/ Buffsize \/ Shutdown \/ CycleDies \/ ShutdownDies
  BY <1>0, <1>8 DEF Freewheel, Buffsize, Shutdown, CycleDies, ShutdownDies, NullReport,
     shared, tvars, mvars, FlowInv, Ordered, Continued, Latest, Last
<1>9. CASE Terminated \/ UNCHANGED vars
  BY <1>9 DEF Terminated, vars, shared, tvars, jvars, mvars, FlowInv, Ordered, Continued, Latest, Last
<1>. QED
  BY <1>1, <1>2, <1>3, <1>4, <1>5, <1>6, <1>7, <1>8, <1>9 DEF Next, MainWork, Jack

LEMMA FlowStep ==
  Sound /\ FlowInv /\ [Next]_vars => [Follows(wire, wire') \/ wire' = GOODBYE]_wire
<1> SUFFICES ASSUME Sound, FlowInv, [Next]_vars, wire' # wire
             PROVE  Follows(wire, wire') \/ wire' = GOODBYE
  OBVIOUS
<1>1. TxSend \/ TxStop
  BY DEF Next, MainWork, MainStart, MainTrigger, MainCheck, MainStop, MainPost, MainExit, SigInt,
     NettxStart, Thread, TxWake, TxCommit, TxDescriptor,
     Jack, JackCycle, JackPack, JackPost, Freewheel, Buffsize, Shutdown,
     CycleDies, ShutdownDies, NullReport,
     Terminated, vars, tvars
<1>2. CASE TxSend
  <2>1. Head(packq) = packq[1] /\ Ordered
    BY <1>2, HeadTailProperties DEF TxSend, FlowInv, Sound, TypeOK, TxQueuesTypeOK
  <2>. QED
    BY <1>2, <2>1 DEF TxSend, Ordered
<1>3. CASE TxStop
  BY <1>3 DEF TxStop
<1>. QED
  BY <1>1, <1>2, <1>3

(* The receivers get whole periods, each led by its timed packet, whatever    *)
(* the speed of the transmit thread; only the end of the program may cut one  *)
(* short.                                                                  *)
THEOREM PeriodsAreWhole == Spec => WholePeriods
<1>1. Init => Sound /\ FlowInv
  BY SoundInit, FlowInit
<1>2. Sound /\ FlowInv /\ [Next]_vars => Sound' /\ FlowInv'
  BY SoundNext, FlowNext
<1>3. Sound /\ FlowInv /\ [Next]_vars => [Follows(wire, wire') \/ wire' = GOODBYE]_wire
  BY FlowStep
<1>. QED
  BY <1>1, <1>2, <1>3, PTL DEF Spec, WholePeriods

(* A suspended client's suspend packet is the last one queued or sent: it was *)
(* neither dropped nor overtaken, whatever the speed of the transmit thread    *)
(* and however often Jack begins and ends freewheeling.                     *)
THEOREM SuspensionsAreAnnounced == Spec => []SuspendAnnounced
<1>1. Init => Sound /\ FlowInv
  BY SoundInit, FlowInit
<1>2. Sound /\ FlowInv /\ [Next]_vars => Sound' /\ FlowInv'
  BY SoundNext, FlowNext
<1>3. FlowInv => SuspendAnnounced
  BY DEF FlowInv, Continued, SuspendAnnounced
<1>. QED
  BY <1>1, <1>2, <1>3, PTL DEF Spec

-----------------------------------------------------------------------------
(* Timestamps                                                              *)

(* Wake-ups without a packet: each makes the thread send a descriptor.       *)
Spare == sem + (IF tpc \in {"woken", "sent"} THEN 1 ELSE 0)
             + (IF jpc = "post" THEN 1 ELSE 0) - Len(packq)

(* While the program runs one timestamp at most is unread.  Unless the thread *)
(* is going to send a descriptor, main() has not woken it since the           *)
(* timestamp was written, so that its cycles count in both counters.         *)
StampInv ==
  /\ tscnt < SecCycles
  /\ nstop => main \notin {"setup", "sleep", "check"}
  /\ main = "setup" => stamps = 0
  /\ Running => /\ tpc # "off"
                /\ stamps <= 1
                /\ stamps = 1 /\ Spare = 0 => 0 <= tscnt /\ tscnt < tick

LEMMA StampStarts ==
  ASSUME \A t \in StampInit : t < SecCycles, Init
  PROVE  StampInv
  BY DEF Init, TxQueuesInit, JacktxInit, StampInv, Running

LEMMA SpareCounts ==
  ASSUME Sound
  PROVE  /\ packq \in Seq(Packets) /\ Len(packq) \in Nat /\ sem \in Nat
         /\ stamps \in Nat /\ tscnt \in Int /\ tick \in Nat /\ Spare \in Int
<1>1. packq \in Seq(Packets) /\ sem \in Nat
  BY DEF Sound, TypeOK, TxQueuesTypeOK
<1>2. Len(packq) \in Nat
  BY <1>1, LenProperties
<1>. QED
  BY <1>1, <1>2 DEF Sound, TypeOK, TxQueuesTypeOK, JacktxTypeOK, Spare

(* A step that neither writes nor reads a timestamp and keeps the wake-ups.   *)
LEMMA StampSame ==
  ASSUME Sound, StampInv, UNCHANGED <<stamps, tscnt, nstop, tpc>>,
         Spare' = Spare, tick' = tick, main' = main \/ main' \notin {"setup", "sleep", "check"}
           \/ (main' = "sleep" /\ main = "check")
  PROVE  StampInv'
  BY DEF StampInv, Running

(* A step of the transmit thread while the program runs.                     *)
LEMMA StampThread ==
  ASSUME Sound, WakeInv, StampInv, Thread
  PROVE  StampInv'
<1>0. /\ packq \in Seq(Packets) /\ Len(packq) \in Nat /\ sem \in Nat
      /\ stamps \in Nat /\ tscnt \in Int /\ tick \in Nat /\ Spare \in Int
  BY SpareCounts
<1>1. UNCHANGED <<tscnt, main, tick, jpc>>
  BY DEF Thread, jvars, mvars
<1>2. CASE TxWake
  <2>1. Spare' = Spare
    BY <1>0, <1>1, <1>2 DEF TxWake, Spare
  <2>. QED
    BY <1>1, <1>2, <2>1 DEF TxWake, StampInv, Running
<1>3. CASE TxStop
  BY <1>1, <1>3 DEF TxStop, shared, StampInv, Running
<1>4. CASE TxSend
  <2>1. Spare' = Spare
    BY <1>0, <1>1, <1>4 DEF TxSend, shared, Spare
  <2>. QED
    BY <1>1, <1>4, <2>1 DEF TxSend, shared, StampInv, Running
<1>5. CASE TxCommit
  <2>1. packq # <<>> /\ Len(Tail(packq)) = Len(packq) - 1
    BY <1>0, <1>5, HeadTailProperties DEF TxCommit, Sound, SlotHeld
  <2>2. Spare' = Spare
    BY <1>0, <1>1, <1>5, <2>1 DEF TxCommit, Spare
  <2>. QED
    BY <1>1, <1>5, <2>2 DEF TxCommit, StampInv, Running
<1>6. CASE TxDescriptor
  <2>1. stamps <= 1 => stamps' = 0
    BY <1>0, <1>6 DEF TxDescriptor
  <2>2. main = "setup" => stamps' = 0
    BY <1>6 DEF TxDescriptor, StampInv
  <2>. QED
    BY <1>1, <1>6, <2>1, <2>2 DEF TxDescriptor, StampInv, Running
<1>. QED
  BY <1>2, <1>3, <1>4, <1>5, <1>6 DEF Thread

(* When a cycle begins, the thread has sent all it was woken for.            *)
LEMMA NothingSpare ==
  ASSUME NetKeepsUp, Sound, WakeInv, JackMayRun, Running
  PROVE  Spare = 0 /\ tick < PollCycles
<1>1. Len(packq) \in Nat
  BY SpareCounts
<1>2. tpc = "wait" /\ sem = 0 /\ jpc = "idle" /\ tick < PollCycles
  BY DEF JackMayRun, Running
<1>. QED
  BY <1>1, <1>2 DEF WakeInv, Spare

(* A cycle: a timestamp is due only when no other is unread.                 *)
LEMMA StampCycle ==
  ASSUME NetKeepsUp, PollCycles <= SecCycles, Sound, WakeInv, StampInv, JackCycle
  PROVE  StampInv'
<1>0. /\ packq \in Seq(Packets) /\ Len(packq) \in Nat /\ sem \in Nat
      /\ stamps \in Nat /\ tscnt \in Int /\ tick \in Nat /\ Spare \in Int
      /\ SecCycles \in Nat \ {0} /\ PollCycles \in Nat
  BY SpareCounts, JacktxParams, SenderParams
<1>1. /\ UNCHANGED <<sem, nstop, tpc, main>> /\ jpc = "idle"
      /\ Running => tick' = tick + 1 /\ Spare = 0 /\ tick < PollCycles
  BY NothingSpare DEF JackCycle, tvars, JackMayRun, Running
<1>2. CASE CycleSend
  <2>1. main # "setup"
    BY <1>2 DEF CycleSend, WakeInv
  <2>2. CASE Clock
    <3>1. tscnt' = 0 /\ stamps' \in {stamps, stamps + 1} /\ tscnt = SecCycles - 1
      BY <1>0, <1>2, <2>2 DEF CycleSend, Stamp, Clock, StampInv
    <3>2. Running => stamps = 0
      BY <1>0, <1>1, <3>1 DEF StampInv
    <3>. QED
      BY <1>0, <1>1, <2>1, <3>1, <3>2 DEF StampInv, Running
  <2>3. CASE ~Clock
    <3>1. tscnt' = tscnt + 1 /\ stamps' = stamps /\ tscnt' < SecCycles
      BY <1>0, <1>2, <2>3 DEF CycleSend, Stamp, Clock
    <3>. QED
      BY <1>0, <1>1, <2>1, <3>1 DEF StampInv, Running
  <2>. QED
    BY <2>2, <2>3
<1>3. CASE CycleTerm \/ CycleRest \/ CycleSuspend
  <2>1. UNCHANGED <<stamps, tscnt>>
    BY <1>3 DEF CycleTerm, CycleRest, CycleSuspend, GiveUp
  <2>. QED
    BY <1>0, <1>1, <2>1 DEF StampInv, Running
<1>. QED
  BY <1>2, <1>3 DEF JackCycle

LEMMA StampNext ==
  ASSUME NetKeepsUp, ~ThreadRefused, PollCycles <= SecCycles, Sound, WakeInv, StampInv, [Next]_vars
  PROVE  StampInv'
<1>0. /\ packq \in Seq(Packets) /\ Len(packq) \in Nat /\ sem \in Nat
      /\ stamps \in Nat /\ tscnt \in Int /\ tick \in Nat /\ Spare \in Int
  BY SpareCounts
<1>1. CASE MainStart
  BY <1>1 DEF MainStart, NettxStart, JacktxStart, StampInv, Running
<1>2. CASE MainTrigger
  <2>1. main = "sleep" /\ main' = "check" /\ UNCHANGED <<stamps, nstop, tpc, tscnt>>
    BY <1>2 DEF MainTrigger, tvars, jvars
  <2>2. Spare' = Spare + 1 /\ Spare >= 0
    <3>1. Spare >= 0
      BY <1>0, <2>1 DEF WakeInv, StampInv, Running, Spare
    <3>2. sem' = sem + 1
      BY <1>2, <2>1 DEF MainTrigger, StampInv, Running
    <3>3. Spare' = Spare + 1
      BY <1>0, <1>2, <3>2 DEF MainTrigger, tvars, jvars, Spare
    <3>. QED
      BY <3>1, <3>3
  <2>. QED
    BY <1>0, <2>1, <2>2 DEF StampInv, Running
<1>3. CASE MainCheck
  <2>1. Spare' = Spare
    BY <1>3 DEF MainCheck, tvars, jvars, Spare
  <2>. QED
    BY <1>3, <2>1, StampSame DEF MainCheck, tvars, jvars
<1>4. CASE MainStop \/ MainPost \/ MainExit
  BY <1>4 DEF MainStop, MainPost, MainExit, shared, tvars, jvars, StampInv, Running
<1>5. CASE SigInt
  BY <1>5 DEF SigInt, shared, tvars, jvars, StampInv, Running, Spare
<1>6. CASE Thread
  BY <1>6, StampThread
<1>7. CASE JackCycle
  BY <1>7, StampCycle
<1>8. CASE JackPack
  <2>1. UNCHANGED <<sem, nstop, tpc, main, tick, tscnt, stamps>> /\ jpc = "pack"
    BY <1>8 DEF JackPack, CyclePut, CycleFull, GiveUp, tvars, mvars
  <2>2. CASE CyclePut
    <3>1. Npack - left + 1 \in Packets
      BY <2>1, TxSizes DEF Packets, SUSP, Sound, PackLeft, TypeOK, JacktxTypeOK
    <3>2. Len(Append(packq, Npack - left + 1)) = Len(packq) + 1
      BY <1>0, <3>1, AppendProperties
    <3>3. Spare' = Spare
      BY <1>0, <2>1, <2>2, <3>2 DEF CyclePut, Spare
    <3>. QED
      BY <2>1, <3>3, StampSame
  <2>3. CASE CycleFull
    <3>1. Spare' = Spare
      BY <2>1, <2>3 DEF CycleFull, GiveUp, Spare
    <3>. QED
      BY <2>1, <3>1, StampSame
  <2>. QED
    BY <1>8, <2>2, <2>3 DEF JackPack
<1>9. CASE JackPost
  <2>1. Spare' = Spare
    BY <1>0, <1>9 DEF JackPost, CyclePost, tvars, Spare
  <2>. QED
    BY <1>9, <2>1, StampSame DEF JackPost, tvars, mvars
<1>10. CASE CycleDies \/ ShutdownDies
  BY <1>10 DEF CycleDies, ShutdownDies, NullReport, shared, tvars, StampInv, Running
<1>11. CASE Freewheel \/ Buffsize \/ Shutdown
  <2>1. Spare' = Spare /\ UNCHANGED <<stamps, tscnt, nstop, tpc, tick, main>>
    BY <1>11 DEF Freewheel, Buffsize, Shutdown, shared, tvars, mvars, Spare
  <2>. QED
    BY <2>1, StampSame
<1>12. CASE Terminated \/ UNCHANGED vars
  <2>1. Spare' = Spare /\ UNCHANGED <<stamps, tscnt, nstop, tpc, tick, main>>
    BY <1>12 DEF Terminated, vars, shared, tvars, jvars, mvars, Spare
  <2>. QED
    BY <2>1, StampSame
<1>. QED
  BY <1>1, <1>2, <1>3, <1>4, <1>5, <1>6, <1>7, <1>8, <1>9, <1>10, <1>11, <1>12 DEF Next, MainWork, Jack

(* The queue of timestamps, which is written without a look at its room, never *)
(* holds more than it has slots: when main() looks at least once a second, the *)
(* transmit thread exists and is done before the next cycle, and _tscnt, which nothing *)
(* sets, began with less than a second (Jacktx::jack_process, Nettx::thr_main). *)
THEOREM StampsAlwaysFit ==
  ASSUME NetKeepsUp, ~ThreadRefused, PollCycles <= SecCycles, \A t \in StampInit : t < SecCycles
  PROVE  Spec => []StampsFit
<1>1. Init => Sound /\ WakeInv /\ StampInv
  BY SoundInit, WakeInit, StampStarts
<1>2. Sound /\ WakeInv /\ StampInv /\ [Next]_vars => Sound' /\ WakeInv' /\ StampInv'
  BY SoundNext, WakeNext, StampNext
<1>3. Sound /\ StampInv => StampsFit
  BY SpareCounts, TxSizes DEF StampInv, Running, StampsFit
<1>. QED
  BY <1>1, <1>2, <1>3, PTL DEF Spec
=============================================================================
