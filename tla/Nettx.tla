-------------------------------- MODULE Nettx --------------------------------
(***************************************************************************)
(* The transmit thread of zita-j2n, Nettx::thr_main (nettx.cc).  Each count  *)
(* of the semaphore makes it send one packet: what the Jack callback queued, *)
(* or the descriptor when there is nothing.                                *)
(***************************************************************************)
EXTENDS TxQueues

VARIABLES
  tpc,          \* "off", in "wait", "woken", or "sent" with the slot still held
  wire          \* history: the last packet that is not a descriptor
                \* or NOTHING

tvars == <<tpc, wire>>

NettxInit ==
  /\ tpc = "off"
  /\ wire = NOTHING

(* Nettx::start and the entry of thr_main.                                  *)
NettxStart ==
  /\ tpc = "off"
  /\ tpc' = "wait"
  /\ UNCHANGED wire

TxWake ==
  /\ tpc = "wait"
  /\ sem > 0
  /\ sem' = sem - 1
  /\ tpc' = "woken"
  /\ UNCHANGED <<packq, stamps, infoq, nstop, wire>>

(* The descriptor becomes the last packet, and the socket is closed.  What   *)
(* is still queued is not sent.                                             *)
TxStop ==
  /\ tpc = "woken"
  /\ nstop
  /\ tpc' = "off"
  /\ wire' = GOODBYE
  /\ UNCHANGED shared

TxSend ==
  /\ tpc = "woken"
  /\ ~nstop
  /\ packq # <<>>
  /\ tpc' = "sent"
  /\ wire' = Head(packq)
  /\ UNCHANGED shared

TxCommit ==
  /\ tpc = "sent"
  /\ tpc' = "wait"
  /\ packq' = Tail(packq)
  /\ UNCHANGED <<stamps, infoq, sem, nstop, wire>>

TxDescriptor ==
  /\ tpc = "woken"
  /\ ~nstop
  /\ packq = <<>>
  /\ tpc' = "wait"
  /\ stamps' = IF stamps > 0 THEN stamps - 1 ELSE stamps
  /\ UNCHANGED <<packq, infoq, sem, nstop, wire>>

NettxTypeOK ==
  /\ tpc \in {"off", "wait", "woken", "sent"}
  /\ wire \in Packets \cup {GOODBYE, NOTHING}
=============================================================================
