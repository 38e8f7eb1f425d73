------------------------------- MODULE Lfqueue -------------------------------
(***************************************************************************)
(* A queue of lfqueue.h with single elements (Lfq_timedata, Lfq_infodata,     *)
(* Lfq_packdata): a ring and two counters that are never reduced, each        *)
(* changed by one thread only.  There are no locks: the users of the queue   *)
(* test, use the element where the counter points, and then commit, and the   *)
(* other thread runs in between.  Stores are taken to become visible in the  *)
(* order in which they are made.                                           *)
(***************************************************************************)
EXTENDS Integers, Sequences

CONSTANTS
  W,            \* the counters count modulo W, 2^32 in the program
  K,            \* _nelm, a power of two
  Elements

ASSUME LfqueueParams ==
  /\ K \in Nat \ {0} /\ W \in Nat \ {0} /\ W % K = 0 /\ 2 * K <= W
  /\ Elements # {}

VARIABLES
  data,         \* _data
  nwr, nrd,     \* _nwr, _nrd
  wpc,          \* the writer is "idle" or has "stored" the next element
  rpc,          \* the reader is "idle" or has "loaded" it
  got,          \* what the reader has loaded
  taken         \* and what it was done with last

vars == <<data, nwr, nrd, wpc, rpc, got, taken>>

(* The slots are allocated, not written: an element is anything.             *)
Init ==
  /\ data \in [0..(K - 1) -> Elements]
  /\ nwr = 0
  /\ nrd = 0
  /\ wpc = "idle"
  /\ rpc = "idle"
  /\ \E x \in Elements : got = x /\ taken = x

(* Mutant: room for one element more.                                       *)
OneTooMany == (nrd + K + 1 - nwr) % W

wr_avail == (nrd + K - nwr) % W
rd_avail == (nwr - nrd) % W

Store(x) ==
  /\ wpc = "idle"
  /\ wr_avail > 0
  /\ data' = [data EXCEPT ![nwr % K] = x]
  /\ wpc' = "stored"
  /\ UNCHANGED <<nwr, nrd, rpc, got, taken>>

wr_commit ==
  /\ wpc = "stored"
  /\ nwr' = (nwr + 1) % W
  /\ wpc' = "idle"
  /\ UNCHANGED <<data, nrd, rpc, got, taken>>

Load ==
  /\ rpc = "idle"
  /\ rd_avail > 0
  /\ got' = data[nrd % K]
  /\ rpc' = "loaded"
  /\ UNCHANGED <<data, nwr, nrd, wpc, taken>>

rd_commit ==
  /\ rpc = "loaded"
  /\ nrd' = (nrd + 1) % W
  /\ taken' = got
  /\ rpc' = "idle"
  /\ UNCHANGED <<data, nwr, wpc, got>>

(* Called by one of the two, when the other is idle.                        *)
reset ==
  /\ wpc = "idle"
  /\ rpc = "idle"
  /\ nwr' = 0
  /\ nrd' = 0
  /\ UNCHANGED <<data, wpc, rpc, got, taken>>

Next ==
  \/ \E x \in Elements : Store(x)
  \/ wr_commit \/ Load \/ rd_commit \/ reset

Spec == Init /\ [][Next]_vars

-----------------------------------------------------------------------------
Contents == [i \in 1..rd_avail |-> data[(nrd + i - 1) % K]]

Abstract == INSTANCE Fifo WITH Size <- K, q <- Contents, out <- taken

(* The queue is the bounded FIFO queue its users take it for, with the        *)
(* counters wrapping and each thread stopped in the middle of its operation. *)
ImplementsFifo == Abstract!Spec
=============================================================================
