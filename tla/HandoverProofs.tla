---------------------------- MODULE HandoverProofs ----------------------------
(***************************************************************************)
(* The semaphore of pxthread.h and the queue behind it, for every number of  *)
(* packets, every range of the counters and every bound on the posts.        *)
(***************************************************************************)
EXTENDS Handover, LfqueueProofs

-----------------------------------------------------------------------------
(* The semaphore                                                             *)

SemSound == SemTypeOK /\ SemMutex /\ NeverAsleepOnCount

LEMMA SemStarts == SemInit => SemSound
BY PxsemaParams DEF SemInit, SemSound, SemTypeOK, SemMutex, NeverAsleepOnCount, WAITER, FREE

LEMMA PostKeeps ==
  ASSUME SemSound, NEW p \in Posters, PostNext(p)
  PROVE  SemSound'
<1>. USE PxsemaParams DEF SemSound, SemTypeOK, SemMutex, NeverAsleepOnCount, WAITER, FREE
<1>1. CASE PostLock(p)
  BY <1>1 DEF PostLock
<1>2. CASE PostCount(p)
  BY <1>2 DEF PostCount, Signal
<1>3. CASE PostUnlock(p)
  BY <1>3 DEF PostUnlock
<1>. QED
  BY <1>1, <1>2, <1>3 DEF PostNext

LEMMA WaitKeeps ==
  ASSUME SemSound, WaitEnter \/ WaitNext \/ WakeForNothing
  PROVE  SemSound'
<1>. USE PxsemaParams DEF SemSound, SemTypeOK, SemMutex, NeverAsleepOnCount, WAITER, FREE
<1>1. CASE WaitEnter
  BY <1>1 DEF WaitEnter
<1>2. CASE WaitLock
  BY <1>2 DEF WaitLock
<1>3. CASE WaitSleep
  BY <1>3 DEF WaitSleep
<1>4. CASE WaitCount
  BY <1>4 DEF WaitCount, MayPass
<1>5. CASE WaitUnlock
  BY <1>5 DEF WaitUnlock
<1>6. CASE WakeForNothing
  BY <1>6 DEF WakeForNothing
<1>. QED
  BY <1>1, <1>2, <1>3, <1>4, <1>5, <1>6 DEF WaitNext

LEMMA SemKeeps ==
  ASSUME SemSound, [SemNext]_semvars
  PROVE  SemSound'
<1>1. CASE \E p \in Posters : PostNext(p)
  BY <1>1, PostKeeps
<1>2. CASE WaitEnter \/ WaitNext \/ WakeForNothing
  BY <1>2, WaitKeeps
<1>3. CASE UNCHANGED semvars
  BY <1>3 DEF semvars, SemSound, SemTypeOK, SemMutex, NeverAsleepOnCount
<1>. QED
  BY <1>1, <1>2, <1>3 DEF SemNext

(* A post counts, a wait that passes counts down, and nothing else touches   *)
(* the counter: the steps of the emulation are those of a semaphore.         *)
LEMMA SemRefines ==
  ASSUME SemSound, [SemNext]_semvars
  PROVE  [Counter!Next]_Counter!vars
<1>. USE DEF Counter!vars, Counter!Next
<1>1. ASSUME NEW p \in Posters, PostNext(p) PROVE [Counter!Next]_Counter!vars
  <2>1. CASE PostCount(p)
    BY <2>1 DEF PostCount, Counter!Post
  <2>2. CASE PostLock(p) \/ PostUnlock(p)
    BY <2>2 DEF PostLock, PostUnlock
  <2>. QED
    BY <1>1, <2>1, <2>2 DEF PostNext
<1>2. CASE WaitEnter
  BY <1>2 DEF WaitEnter, Counter!Enter
<1>3. CASE WaitCount
  BY <1>3 DEF WaitCount, MayPass, Counter!Pass, SemSound, SemTypeOK
<1>4. CASE WaitLock \/ WaitSleep \/ WaitUnlock \/ WakeForNothing
  BY <1>4 DEF WaitLock, WaitSleep, WaitUnlock, WakeForNothing
<1>5. CASE UNCHANGED semvars
  BY <1>5 DEF semvars
<1>. QED
  BY <1>1, <1>2, <1>3, <1>4, <1>5 DEF SemNext, WaitNext

-----------------------------------------------------------------------------
(* The queue and the semaphore together                                      *)

LEMMA HandIsBoth ==
  ASSUME [HandNext]_handvars
  PROVE  [Next]_vars /\ [SemNext]_semvars
<1>. USE DEF vars, semvars
<1>1. CASE HandStore
  BY <1>1 DEF HandStore, Next
<1>2. CASE HandCommit
  BY <1>2 DEF HandCommit, Next
<1>3. CASE HandTrigger \/ HandTick
  BY <1>3, HandoverParams DEF HandTrigger, HandTick, SemNext
<1>4. CASE HandEnter \/ HandWait \/ HandWake
  BY <1>4 DEF HandEnter, HandWait, HandWake, SemNext
<1>5. CASE HandSend \/ HandSent
  BY <1>5 DEF HandSend, HandSent, Next
<1>6. CASE HandDescriptor
  BY <1>6 DEF HandDescriptor
<1>7. CASE UNCHANGED handvars
  BY <1>7 DEF handvars
<1>. QED
  BY <1>1, <1>2, <1>3, <1>4, <1>5, <1>6, <1>7 DEF HandNext, HandThread

(* With the semaphore and main() around it the ring is still the bounded       *)
(* queue of Fifo (lfqueue.h).                                                *)
THEOREM HandImplementsFifo == HandSpec => ImplementsFifo
<1>1. HandInit => Init
  BY DEF HandInit
<1>2. [HandNext]_handvars => [Next]_vars
  BY HandIsBoth
<1>3. Spec => ImplementsFifo
  BY Implements
<1>. QED
  BY <1>1, <1>2, <1>3, PTL DEF HandSpec, Spec

(* Where each thread is when a packet has no count.                           *)
Placed ==
  /\ owed \in BOOLEAN /\ passed \in BOOLEAN
  /\ wpc = "stored" => ~owed
  /\ ppc[JACK] # "out" => owed
  /\ passed => spc = "out" /\ rpc = "idle"
  /\ rpc = "loaded" => spc = "out"

HandSound == Sound /\ SemSound /\ Placed /\ PacketsCounted

LEMMA HandStarts == HandInit => HandSound
<1> SUFFICES ASSUME HandInit PROVE HandSound
  OBVIOUS
<1>1. Sound /\ rd_avail = 0
  BY InitSound DEF HandInit
<1>2. SemSound
  BY SemStarts DEF HandInit
<1>3. Placed
  BY HandoverParams DEF HandInit, Init, SemInit, Placed
<1>4. PacketsCounted
  BY <1>1, HandoverParams DEF HandInit, Init, SemInit, PacketsCounted
<1>. QED
  BY <1>1, <1>2, <1>3, <1>4 DEF HandSound

(* The number of packets after a step of the callback and of the thread.      *)
LEMMA OneQueued ==
  ASSUME Sound, wr_commit
  PROVE  rd_avail' = rd_avail + 1
<1>1. nwr \in Int /\ nrd \in Int
  BY Ranges DEF Sound
<1>2. (nwr - nrd) % W < K
  BY DEF Sound, wr_commit, rd_avail
<1>3. (((nwr + 1) % W) - nrd) % W = ((nwr - nrd) % W) + 1
  BY <1>1, <1>2, OneMore
<1>. QED
  BY <1>3 DEF wr_commit, rd_avail

LEMMA OneTaken ==
  ASSUME Sound, rd_commit
  PROVE  rd_avail' = rd_avail - 1
<1>1. nwr \in Int /\ nrd \in 0..(W - 1)
  BY Ranges DEF Sound, LfqueueTypeOK
<1>2. (nwr - nrd) % W > 0
  BY DEF Sound, rd_commit, rd_avail
<1>3. (nwr - ((nrd + 1) % W)) % W = ((nwr - nrd) % W) - 1
  BY <1>1, <1>2, OneLess
<1>. QED
  BY <1>3 DEF rd_commit, rd_avail

LEMMA HandKeeps ==
  ASSUME HandSound, [HandNext]_handvars
  PROVE  Placed' /\ PacketsCounted'
<1>. USE DEF HandSound
<1>1. rd_avail \in Nat /\ scount \in Nat
  BY Ranges DEF Sound, SemSound, SemTypeOK
<1>2. JACK \in Posters /\ MAIN \in Posters /\ JACK # MAIN /\ ppc \in [Posters -> {"out", "locked", "counted"}]
  BY HandoverParams DEF JACK, MAIN, SemSound, SemTypeOK
<1>3. CASE HandStore
  <2>1. rd_avail' = rd_avail
    BY <1>3 DEF HandStore, Store, rd_avail
  <2>. QED
    BY <1>1, <1>3, <2>1 DEF HandStore, Store, Placed, PacketsCounted, semvars
<1>4. CASE HandCommit
  <2>1. rd_avail' = rd_avail + 1
    BY <1>4, OneQueued DEF HandCommit
  <2>. QED
    BY <1>1, <1>4, <2>1 DEF HandCommit, wr_commit, Placed, PacketsCounted, semvars
<1>5. CASE HandTrigger
  <2>1. rd_avail' = rd_avail
    BY <1>5 DEF HandTrigger, vars, rd_avail
  <2>2. CASE PostLock(JACK)
    BY <1>1, <1>2, <1>5, <2>1, <2>2 DEF HandTrigger, PostLock, vars, Placed, PacketsCounted
  <2>3. CASE PostCount(JACK)
    <3>1. scount' = scount + 1 /\ ppc'[JACK] = "counted" /\ ppc[JACK] = "locked" /\ owed /\ owed'
      BY <1>2, <1>5, <2>3 DEF HandTrigger, PostCount
    <3>2. spc' = spc \/ (spc = "asleep" /\ spc' = "woken")
      BY <2>3 DEF PostCount
    <3>3. UNCHANGED <<vars, passed>>
      BY <1>5 DEF HandTrigger
    <3>. QED
      BY <1>1, <2>1, <3>1, <3>2, <3>3 DEF vars, Placed, PacketsCounted
  <2>4. CASE PostUnlock(JACK)
    BY <1>1, <1>2, <1>5, <2>1, <2>4 DEF HandTrigger, PostUnlock, vars, Placed, PacketsCounted
  <2>. QED
    BY <1>5, <2>2, <2>3, <2>4 DEF HandTrigger, PostNext
<1>6. CASE HandTick
  <2>1. rd_avail' = rd_avail
    BY <1>6 DEF HandTick, vars, rd_avail
  <2>. QED
    BY <1>1, <1>2, <1>6, <2>1
       DEF HandTick, PostNext, PostLock, PostCount, PostUnlock, vars, Placed, PacketsCounted
<1>7. CASE HandEnter \/ HandWait \/ HandWake
  <2>1. rd_avail' = rd_avail
    BY <1>7 DEF HandEnter, HandWait, HandWake, vars, rd_avail
  <2>2. CASE HandEnter
    BY <1>1, <2>1, <2>2 DEF HandEnter, WaitEnter, vars, Placed, PacketsCounted
  <2>3. CASE HandWait
    <3>1. spc # "out" /\ ~passed /\ rpc # "loaded"
      BY <2>3 DEF HandWait, WaitNext, WaitLock, WaitSleep, WaitCount, WaitUnlock, Placed
    <3>2. CASE WaitLock \/ WaitSleep
      BY <1>1, <2>1, <2>3, <3>1, <3>2 DEF HandWait, WaitLock, WaitSleep, vars, Placed, PacketsCounted
    <3>3. CASE WaitCount
      BY <1>1, <2>1, <2>3, <3>1, <3>3 DEF HandWait, WaitCount, MayPass, vars, Placed, PacketsCounted
    <3>4. CASE WaitUnlock
      <4>1. rpc = "idle"
        BY <3>1 DEF Sound, LfqueueTypeOK
      <4>. QED
        BY <1>1, <2>1, <2>3, <3>1, <3>4, <4>1 DEF HandWait, WaitUnlock, vars, Placed, PacketsCounted
    <3>. QED
      BY <2>3, <3>2, <3>3, <3>4 DEF HandWait, WaitNext
  <2>4. CASE HandWake
    BY <1>1, <2>1, <2>4 DEF HandWake, WakeForNothing, vars, Placed, PacketsCounted
  <2>. QED
    BY <1>7, <2>2, <2>3, <2>4
<1>8. CASE HandSend
  <2>1. rd_avail' = rd_avail
    BY <1>8 DEF HandSend, Load, rd_avail
  <2>. QED
    BY <1>1, <1>8, <2>1 DEF HandSend, Load, semvars, Placed, PacketsCounted
<1>9. CASE HandSent
  <2>1. rd_avail' = rd_avail - 1
    BY <1>9, OneTaken DEF HandSent
  <2>. QED
    BY <1>1, <1>9, <2>1 DEF HandSent, rd_commit, semvars, Placed, PacketsCounted
<1>10. CASE HandDescriptor
  <2>1. rd_avail' = 0
    BY <1>10 DEF HandDescriptor, vars, rd_avail
  <2>. QED
    <3>1. UNCHANGED <<wpc, rpc, scount, ppc, spc, owed>> /\ passed' = FALSE
      BY <1>10 DEF HandDescriptor, vars, semvars
    <3>2. Placed'
      BY <3>1 DEF Placed
    <3>3. PacketsCounted'
      BY <1>1, <2>1, <3>1 DEF PacketsCounted
    <3>. QED
      BY <3>2, <3>3
<1>11. CASE UNCHANGED handvars
  <2>1. rd_avail' = rd_avail
    BY <1>11 DEF handvars, vars, rd_avail
  <2>. QED
    <3>1. UNCHANGED <<wpc, rpc, scount, ppc, spc, owed, passed>>
      BY <1>11 DEF handvars, vars, semvars
    <3>2. Placed'
      BY <3>1 DEF Placed
    <3>3. PacketsCounted'
      BY <2>1, <3>1 DEF PacketsCounted
    <3>. QED
      BY <3>2, <3>3
<1>. QED
  BY <1>3, <1>4, <1>5, <1>6, <1>7, <1>8, <1>9, <1>10, <1>11 DEF HandNext, HandThread

LEMMA AlwaysHandSound == HandSpec => []HandSound
<1>1. HandInit => HandSound
  BY HandStarts
<1>2. HandSound /\ [HandNext]_handvars => HandSound'
  <2> SUFFICES ASSUME HandSound, [HandNext]_handvars PROVE HandSound'
    OBVIOUS
  <2>1. [Next]_vars /\ [SemNext]_semvars
    BY HandIsBoth
  <2>2. Sound' /\ SemSound'
    BY <2>1, NextKeepsSound, SemKeeps DEF HandSound
  <2>. QED
    BY <2>2, HandKeeps DEF HandSound
<1>. QED
  BY <1>1, <1>2, PTL DEF HandSpec

(* No packet is left without a count: it is in the semaphore, owed by the      *)
(* callback or in the thread's hands (jacktx.cc, nettx.cc).                   *)
THEOREM PacketsAlwaysCounted == HandSpec => []PacketsCounted
<1>1. HandSound => PacketsCounted
  BY DEF HandSound
<1>. QED
  BY <1>1, AlwaysHandSound, PTL

(* The thread does not sleep on a count, though only a post from zero signals *)
(* it (pxthread.h); with the theorem above, nor on a packet.                  *)
THEOREM NeverAsleep == HandSpec => []NeverAsleepOnCount
<1>1. HandSound => NeverAsleepOnCount
  BY DEF HandSound, SemSound
<1>. QED
  BY <1>1, AlwaysHandSound, PTL

(* With all the threads around it the emulation makes only the steps of a      *)
(* semaphore (pxthread.h): no post is lost or counted twice, and wait() does  *)
(* not return without one.  That it does return is left to TLC.              *)
THEOREM HandCounts == HandSpec => Counter!Init /\ [][Counter!Next]_Counter!vars
<1>1. HandInit => SemSound /\ Counter!Init
  BY SemStarts DEF HandInit, SemInit, Counter!Init
<1>2. SemSound /\ [HandNext]_handvars => SemSound' /\ [Counter!Next]_Counter!vars
  BY HandIsBoth, SemKeeps, SemRefines
<1>. QED
  BY <1>1, <1>2, PTL DEF HandSpec

(* Of the threads that use the semaphore one at a time is inside             *)
(* (pxthread.h).                                                             *)
THEOREM OneInside == HandSpec => []SemMutex
<1>1. HandSound => SemMutex
  BY DEF HandSound, SemSound
<1>. QED
  BY <1>1, AlwaysHandSound, PTL
=============================================================================
