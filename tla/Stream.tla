-------------------------------- MODULE Stream --------------------------------
(***************************************************************************)
(* The frames of one session, from the sender's counter (jacktx.cc) over a   *)
(* network that loses, repeats and reorders packets, through the continuity  *)
(* check of Netrx::thr_main (netrx.cc) and the audio queue (lfqueue.h), which *)
(* may overrun, to the resampler that reads it (jackrx.cc).                 *)
(* A frame is its number, counted without end; the program's counters wrap.  *)
(***************************************************************************)
EXTENDS Integers

CONSTANTS
  W,            \* the counters count modulo W, 2^32 in the program
  K,            \* frames in the audio queue, a power of two
  Lengths,      \* frames in a packet
  Skips,        \* frames Jack skips before a cycle
  Offsets,      \* the delays the client may align to, in frames behind the last
  Limit,        \* a reader further ahead than this gives the session up
  Late,         \* a packet later than this many frames is lost
  MaxGap,       \* bound: the sender's lead over the frames written and read
  MaxFrames     \* bound: frames sent

ASSUME StreamParams ==
  /\ K \in Nat \ {0} /\ W \in Nat \ {0} /\ W % K = 0 /\ W % 2 = 0
  /\ Lengths \subseteq Nat \ {0} /\ Skips \subseteq Nat /\ Offsets \subseteq Int
  /\ {Limit, Late, MaxGap, MaxFrames} \subseteq Nat
  /\ 2 * Late < W /\ 2 * MaxGap < W /\ 2 * Limit < W
  /\ K <= W \div 2
  /\ \A n \in Lengths : 2 * n < W

VARIABLES
  next,         \* frames sent or skipped, the sender's _count
  air,          \* packets on their way
  first,        \* _first, wait for a timed packet
  nwr, nrd,     \* the counters of the audio queue
  ring,         \* its frames
  aligned,      \* the reader tracks (PROC1 or PROC2)
  heard,        \* the last frame read
  top,          \* history: the frame after the last one written
  gaps          \* history: some packet did not follow the one before it

rx   == <<first, nwr, ring, top, gaps>>
vars == <<next, air, nrd, aligned, heard, rx>>

SILENT == -1

(* int32_t, in two's complement.                                           *)
Signed(n) == IF n % W < W \div 2 THEN n % W ELSE (n % W) - W

(* Mutant: the queue is not cleared.                                        *)
ClearedNot == ring

Cleared == [i \in 0..(K - 1) |-> SILENT]

(* initsync() has just been called, for the first time.                     *)
Init ==
  /\ next = 0
  /\ air = {}
  /\ first = TRUE
  /\ nwr = 0
  /\ nrd = 0
  /\ ring = [i \in 0..(K - 1) |-> SILENT]
  /\ aligned = FALSE
  /\ heard = SILENT
  /\ top = 0
  /\ gaps = FALSE

-----------------------------------------------------------------------------
(* The sender, and the network behind it                                    *)

(* Mutants: the comparison is unsigned, or the range has one value too many. *)
AheadUnsigned(a, b) == (a - b) % W
AheadByOne(a, b) == Signed(a - b + 1)

(* How far one counter is ahead of another: fc - nwr, nwr - nrd.             *)
Ahead(a, b) == Signed(a - b)

(* The next packet.  Cycles are skipped before a period, and the first packet *)
(* of a period is timed.  What is too late now is lost.                     *)
Send(n, skip, timed) ==
  LET start == next + skip
  IN  /\ skip > 0 => timed
      /\ start + n <= MaxFrames
      /\ ~first => start + n - top <= MaxGap
      /\ aligned => start + n - (top - Signed(nwr - nrd)) <= MaxGap
      /\ next' = start + n
      /\ air' = {p \in air : p.start + Late >= next'}
                  \cup {[start |-> start, n |-> n, timed |-> timed]}
      /\ UNCHANGED <<nrd, aligned, heard, rx>>

-----------------------------------------------------------------------------
(* The receive thread                                                      *)

(* Where the write pointer stands at nwr + base: dc frames of silence, then    *)
(* those of the packet.  The queue takes them all, and the later ones replace *)
(* the earlier ones.                                                       *)
Write(packet, base, dc) ==
  LET end == nwr + base + dc + packet.n
      Back(i) == (end - 1 - i) % K            \* frames behind the last
  IN  /\ ring' = [i \in 0..(K - 1) |->
                    IF Back(i) < packet.n THEN packet.start + packet.n - 1 - Back(i)
                    ELSE IF Back(i) < packet.n + dc THEN SILENT ELSE ring[i]]
      /\ nwr' = end % W
      /\ top' = packet.start + packet.n

(* The queue's counters are set to the frame count of the first packet.      *)
ReceiveFirst(packet) ==
  /\ first
  /\ packet.timed
  /\ first' = FALSE
  /\ Write(packet, packet.start % W, 0)
  /\ gaps' = FALSE

(* Missing frames are replaced by silence.                                  *)
ReceiveNext(packet) ==
  LET dc == Ahead(packet.start % W, nwr)
  IN  /\ ~first
      /\ dc >= 0
      /\ Write(packet, 0, dc)
      /\ gaps' = (gaps \/ packet.start # top)
      /\ UNCHANGED first

(* An untimed packet before the first one, or frames already replaced.       *)
ReceiveLate(packet) ==
  /\ IF first THEN ~packet.timed ELSE Ahead(packet.start % W, nwr) < 0
  /\ UNCHANGED rx

(* The packet may come again.                                               *)
Receive(packet) ==
  /\ packet \in air
  /\ ReceiveFirst(packet) \/ ReceiveNext(packet) \/ ReceiveLate(packet)
  /\ air' \in {air, air \ {packet}}
  /\ UNCHANGED <<next, nrd, aligned, heard>>

-----------------------------------------------------------------------------
(* The Jack client                                                         *)

(* initsync(), while the receive thread waits.                              *)
Restart ==
  /\ nwr' = 0
  /\ nrd' = 0
  /\ ring' = Cleared
  /\ first' = TRUE
  /\ aligned' = FALSE
  /\ heard' = SILENT
  /\ UNCHANGED <<next, air, top, gaps>>

(* SYNC2 to PROC1: the first delay error is corrected in one step.           *)
Align(offset) ==
  /\ ~first
  /\ ~aligned
  /\ nrd' = (nwr - offset) % W
  /\ aligned' = TRUE
  /\ UNCHANGED <<next, air, heard, rx>>

(* The resampler takes a frame, or a zero when there is none.                *)
Capture ==
  /\ aligned
  /\ Ahead(nwr, nrd) >= -Limit
  /\ heard' = IF Ahead(nwr, nrd) > 0 THEN ring[nrd % K] ELSE SILENT
  /\ nrd' = (nrd + 1) % W
  /\ UNCHANGED <<next, air, aligned, rx>>

(* Jack skipped cycles.                                                     *)
SkipRead(frames) ==
  /\ aligned
  /\ frames > 0
  /\ Ahead(nwr, nrd) >= -Limit
  /\ nrd' = (nrd + frames) % W
  /\ UNCHANGED <<next, air, aligned, heard, rx>>

Next ==
  \/ \E n \in Lengths, skip \in Skips, timed \in BOOLEAN : Send(n, skip, timed)
  \/ \E packet \in air : Receive(packet)
  \/ Restart
  \/ \E offset \in Offsets : Align(offset)
  \/ Capture
  \/ \E frames \in Skips : SkipRead(frames)

Spec == Init /\ [][Next]_vars

-----------------------------------------------------------------------------
(* The last K places of the audio queue hold the frames of their own number   *)
(* or silence, whatever the network did to the packets, when the counters    *)
(* wrapped and when the queue overran; after a restart nothing is left in it *)
(* of what was before.                                                      *)
InPlace ==
  IF first
  THEN ring = [i \in 0..(K - 1) |-> SILENT]
  ELSE /\ nwr = top % W
       /\ \A f \in (top - K)..(top - 1) : ring[f % K] \in {f, SILENT}

(* A late or repeated packet is told from a fresh one: what is written is     *)
(* never written again, and a packet of new frames is never dropped.        *)
FreshTaken ==
  [][\A packet \in air :
       ~first /\ Receive(packet) => (packet.start >= top <=> top' # top)]_vars

(* Packets that follow each other are all in the queue: no silence between.   *)
NothingMissing ==
  ~first /\ ~gaps =>
    \A f, g \in (top - K)..(top - 1) :
      f < g /\ ring[f % K] # SILENT => ring[g % K] # SILENT

(* Unless the queue overran, each frame is read in its turn or replaced by    *)
(* silence: the audio is never shifted, and never that of another time.     *)
ReadInTurn ==
  [][Capture /\ Signed(nwr - nrd) <= K
       => heard' \in {top - Signed(nwr - nrd), SILENT}]_vars
=============================================================================
