------------------------------- MODULE LfqInt32 -------------------------------
(***************************************************************************)
(* Lfq_int32 of lfqueue.h, the queue of commands to the receive thread and     *)
(* of the sender's infos.  wr_int32() and rd_int32() count and move the       *)
(* element in one expression, data[nwr++ & mask] = v: which store or load     *)
(* comes first is not sequenced, and GCC counts first.                     *)
(***************************************************************************)
EXTENDS Lfqueue

VARIABLE wval   \* the element the writer has counted and not stored

allvars == <<vars, wval>>

IntInit == Init /\ wval \in Elements

WriteCounted(x) ==
  /\ wpc = "idle"
  /\ wr_avail > 0
  /\ wval' = x
  /\ nwr' = (nwr + 1) % W
  /\ wpc' = "counted"
  /\ UNCHANGED <<data, nrd, rpc, got, taken>>

WriteStored ==
  /\ wpc = "counted"
  /\ data' = [data EXCEPT ![(nwr - 1) % K] = wval]
  /\ wpc' = "idle"
  /\ UNCHANGED <<nwr, nrd, rpc, got, taken, wval>>

ReadCounted ==
  /\ rpc = "idle"
  /\ rd_avail > 0
  /\ nrd' = (nrd + 1) % W
  /\ rpc' = "counted"
  /\ UNCHANGED <<data, nwr, wpc, got, taken, wval>>

ReadLoaded ==
  /\ rpc = "counted"
  /\ got' = data[(nrd - 1) % K]
  /\ taken' = got'
  /\ rpc' = "idle"
  /\ UNCHANGED <<data, nwr, nrd, wpc, wval>>

IntNext ==
  \/ Next /\ UNCHANGED wval
  \/ \E x \in Elements : WriteCounted(x)
  \/ WriteStored \/ ReadCounted \/ ReadLoaded

IntSpec == IntInit /\ [][IntNext]_allvars

-----------------------------------------------------------------------------
(* From the element that is read, or being read, to the last one counted,    *)
(* with the value the writer is about to store.                             *)
Oldest == IF rpc = "counted" THEN nrd - 1 ELSE nrd
Counted == (nwr - Oldest) % W
IntContents ==
  [i \in 1..Counted |->
     IF wpc = "counted" /\ i = Counted THEN wval ELSE data[(Oldest + i - 1) % K]]

IntAbstract == INSTANCE Fifo WITH Size <- K, q <- IntContents, out <- taken

(* "Single element read/write" (lfqueue.h): what is read is what was written. *)
IntImplementsFifo == IntAbstract!Spec
=============================================================================
