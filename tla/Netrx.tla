-------------------------------- MODULE Netrx --------------------------------
(***************************************************************************)
(* The receive thread of zita-n2j, Netrx::thr_main (netrx.cc).  It blocks   *)
(* in recv(); a packet of samples takes two steps, the command check and    *)
(* the write, because the Jack callback may run between them and reset the  *)
(* queues.  A packet that is not valid, or a descriptor without flags, is    *)
(* ignored by the thread in every state and is a stuttering step.           *)
(***************************************************************************)
EXTENDS RxQueues

VARIABLES
  npc,          \* "off", in "recv", or working on a "timed" or "plain" packet
  nstate,       \* _state, "INIT" as long as the thread does not run
  nfirst,       \* _first, wait for a timed packet before writing
  nsync         \* history: the synchronisation this thread works for (below)

nvars == <<npc, nstate, nfirst, nsync>>

(* The last PROC command read was the latest one written ("new"), the latest *)
(* but already withdrawn by a WAIT right behind it ("held"), or one in force *)
(* when the queues were reset ("old").                                      *)
Syncs == {"new", "held", "old"}

DataPackets == {"timed", "plain"}

NetrxInit ==
  /\ npc = "off"
  /\ nstate = "INIT"
  /\ nfirst = FALSE
  /\ nsync = "old"

(* Netrx::start and the entry of thr_main.                                  *)
NetrxStart ==
  /\ npc = "off"
  /\ npc' = "recv"
  /\ nstate' = "WAIT"
  /\ UNCHANGED <<nfirst, nsync>>

(* The thread leaves its loop: it tells the Jack callback why and is gone,  *)
(* whether or not the queue had room for the record.  A record is written and *)
(* committed in one step, here and in NetrxSusp: a reset of the queue between *)
(* the two is not modelled.                                                *)
NetrxExit(why) ==
  /\ npc = "recv"
  /\ npc' = "off"
  /\ nstate' = "INIT"
  /\ timeq' = PutIfRoom(timeq, TimeqSize, why)
  /\ UNCHANGED <<commq, infoq, dry, nfirst, nsync>>

NetrxFail == NetrxExit("FAIL")   \* recv() returned an error or end of file
NetrxTerm == NetrxExit("TERM")   \* the sender's last packet

(* Mutant: the Jack client is not told.                                     *)
NetrxSuspUntold ==
  /\ npc = "recv"
  /\ nstate' = "WAIT"
  /\ UNCHANGED <<queues, npc, nfirst, nsync>>

(* The sender freewheels.  Commands are not looked at.                      *)
NetrxSusp ==
  /\ npc = "recv"
  /\ nstate' = "WAIT"
  /\ timeq' = PutIfRoom(timeq, TimeqSize, "WAIT")
  /\ UNCHANGED <<commq, infoq, dry, npc, nfirst, nsync>>

(* A packet of samples arrives: one command at most is read, and the packet *)
(* is dropped unless the thread is active.                                  *)
NetrxData(packet) ==
  LET told == commq # <<>>
      cmd  == IF told THEN Head(commq) ELSE nstate
  IN  /\ npc = "recv"
      /\ commq' = IF told THEN Tail(commq) ELSE commq
      /\ nstate' = cmd
      /\ nfirst' = (nfirst \/ (told /\ cmd = "PROC"))
      /\ nsync' = IF told /\ cmd = "PROC"
                  THEN IF Tail(commq) = <<>> THEN "new" ELSE "held"
                  ELSE nsync
      /\ npc' = IF cmd = "PROC" THEN packet ELSE "recv"
      /\ UNCHANGED <<timeq, infoq, dry>>

(* The rest of the loop for a packet whose frames follow what was written,  *)
(* with silence for the missing ones: time point, then samples.             *)
NetrxWrite ==
  /\ npc \in DataPackets
  /\ nfirst => npc = "timed"
  /\ npc' = "recv"
  /\ nfirst' = FALSE
  /\ timeq' = IF npc = "timed"
              THEN PutIfRoom(timeq, TimeqSize, IF nsync = "old" THEN "OLD" ELSE "NEW")
              ELSE timeq
  /\ dry' = 0
  /\ UNCHANGED <<commq, infoq, nstate, nsync>>

(* Dropped: a first packet without a time, or frames that were already      *)
(* replaced by silence (late, duplicated, or counted anew by the sender).   *)
NetrxDrop ==
  /\ npc \in DataPackets
  /\ nfirst => npc = "plain"
  /\ npc' = "recv"
  /\ UNCHANGED <<queues, nstate, nfirst, nsync>>

NetrxTypeOK ==
  /\ npc \in {"off", "recv"} \cup DataPackets
  /\ nstate \in {"INIT", "WAIT", "PROC"}
  /\ nfirst \in BOOLEAN
  /\ nsync \in Syncs
=============================================================================
