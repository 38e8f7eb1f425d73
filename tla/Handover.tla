------------------------------- MODULE Handover -------------------------------
(***************************************************************************)
(* How packets get from the Jack callback of zita-j2n to its transmit thread *)
(* where the semaphore is the one of Pxsema: the ring of Lfqueue, and a post *)
(* behind every commit.  main() posts as well, for the descriptors, so that  *)
(* the thread may find no packet when it gets past the semaphore, or one     *)
(* that has not been posted for.                                             *)
(***************************************************************************)
EXTENDS Lfqueue, Pxsema

JACK == "jack"
MAIN == "main"

ASSUME HandoverParams == Posters = {JACK, MAIN}

VARIABLES
  owed,         \* the callback has committed a packet and not posted yet
  passed        \* the thread is past wait() and has not looked at the queue

handvars == <<vars, semvars, owed, passed>>

HandInit == Init /\ SemInit /\ owed = FALSE /\ passed = FALSE

(* Jacktx::jack_process                                                      *)
HandStore ==
  /\ ~owed
  /\ \E x \in Elements : Store(x)
  /\ UNCHANGED <<semvars, owed, passed>>

(* Mutant: the thread is not told of every packet.                           *)
CommitOnly == wr_commit /\ UNCHANGED <<semvars, owed, passed>>

HandCommit ==
  /\ wr_commit
  /\ owed' = TRUE
  /\ UNCHANGED <<semvars, passed>>

HandTrigger ==
  /\ owed
  /\ PostNext(JACK)
  /\ owed' = (ppc[JACK] # "counted")
  /\ UNCHANGED <<vars, passed>>

(* main()                                                                    *)
HandTick == PostNext(MAIN) /\ UNCHANGED <<vars, owed, passed>>

(* Nettx::thr_main                                                           *)
HandEnter ==
  /\ rpc = "idle"
  /\ ~passed
  /\ WaitEnter
  /\ UNCHANGED <<vars, owed, passed>>

HandWait ==
  /\ WaitNext
  /\ passed' = (spc = "passed")
  /\ UNCHANGED <<vars, owed>>

HandWake == WakeForNothing /\ UNCHANGED <<vars, owed, passed>>

HandSend ==
  /\ passed
  /\ Load
  /\ passed' = FALSE
  /\ UNCHANGED <<semvars, owed>>

HandSent == rd_commit /\ UNCHANGED <<semvars, owed, passed>>

HandDescriptor ==
  /\ passed
  /\ rd_avail = 0
  /\ passed' = FALSE
  /\ UNCHANGED <<vars, semvars, owed>>

HandThread == HandEnter \/ HandWait \/ HandSend \/ HandSent \/ HandDescriptor

HandNext == HandStore \/ HandCommit \/ HandTrigger \/ HandTick \/ HandThread \/ HandWake

(* The callback comes to its end, main() to the end of a post it began, and  *)
(* the thread goes on whenever it can; of several threads at the mutex each  *)
(* gets it in the end.  Nothing makes the callback or main() begin.          *)
HandFairness ==
  /\ WF_handvars(HandCommit)
  /\ SF_handvars(HandTrigger)
  /\ WF_handvars(ppc[MAIN] # "out" /\ HandTick)
  /\ SF_handvars(HandThread)

HandSpec == HandInit /\ [][HandNext]_handvars /\ HandFairness

-----------------------------------------------------------------------------
Queued == {(nrd + i) % W : i \in 0..(rd_avail - 1)}

(* There is a count for each packet in the queue, unless the callback is      *)
(* about to give it one or the thread has it in hand: a thread that sends a   *)
(* packet for a count of main()'s leaves a count behind, and never a packet.  *)
PacketsCounted ==
  rd_avail <= scount
    + (IF owed /\ ppc[JACK] # "counted" THEN 1 ELSE 0)
    + (IF spc = "passed" \/ passed \/ rpc = "loaded" THEN 1 ELSE 0)

(* Each packet the callback commits is taken by the thread, though no other  *)
(* packet follows it and main() may never post again.                        *)
PacketsTaken == \A n \in 0..(W - 1) : n \in Queued ~> n \notin Queued
=============================================================================
