------------------------------ MODULE Packetize ------------------------------
(***************************************************************************)
(* How a period is divided into packets: their number (packetsperperiod,     *)
(* netdata.cc, called once by main()), and the Bresenham loop of             *)
(* Jacktx::jack_process that gives each its frames, one packet per step.    *)
(***************************************************************************)
EXTENDS Integers

CONSTANTS
  Periods,      \* Jack's period sizes, in frames
  PacketSizes,  \* bytes in a packet, the MTU less the IP and UDP headers
  SampleBytes,  \* 2, 3 or 4
  Channels

ADATA == 20     \* where the samples begin

(* One frame at least fits in a packet.  main() does not make sure of it.    *)
ASSUME PacketizeParams ==
  /\ Periods \subseteq Nat \ {0}
  /\ PacketSizes \subseteq Nat
  /\ SampleBytes \subseteq Nat \ {0}
  /\ Channels \subseteq Nat \ {0}
  /\ \A size \in PacketSizes, b \in SampleBytes, n \in Channels : ADATA + b * n <= size

VARIABLES
  bsize,        \* _bsize, the period
  room,         \* frames that fit in a packet
  j,            \* packets made of this period
  sum,          \* their frames: where the next packet begins
  nfram,        \* the frames of the last one
  bdiff         \* Bresenham's error

vars == <<bsize, room, j, sum, nfram, bdiff>>

FramesPerPacket(size, b, n) == (size - ADATA) \div (b * n)

(* Mutant: the last, shorter packet is forgotten.                           *)
TooFewPackets(period, n) == IF period < n THEN 1 ELSE period \div n

PacketsPerPeriod(period, n) == (period + n - 1) \div n

npack == PacketsPerPeriod(bsize, room)
bstep == bsize \div npack

(* Mutant: the first packet of a period gets one frame more.                *)
OneMore(error) == IF error <= 0 THEN 1 ELSE 0

Extra(error) == IF error < 0 THEN 1 ELSE 0

Init ==
  /\ bsize \in Periods
  /\ \E size \in PacketSizes, b \in SampleBytes, n \in Channels :
       room = FramesPerPacket(size, b, n)
  /\ j = 0
  /\ sum = 0
  /\ nfram = 0
  /\ bdiff = 0

Packet ==
  /\ j < npack
  /\ nfram' = bstep + Extra(bdiff)
  /\ sum' = sum + nfram'
  /\ bdiff' = bdiff + nfram' * npack - bsize
  /\ j' = j + 1
  /\ UNCHANGED <<bsize, room>>

Period ==
  /\ j = npack
  /\ j' = 0
  /\ sum' = 0
  /\ bdiff' = 0
  /\ UNCHANGED <<bsize, room, nfram>>

Next == Packet \/ Period

Spec == Init /\ [][Next]_vars

-----------------------------------------------------------------------------
(* No packet reads beyond Jack's buffer, and together they hold the period:  *)
(* the frame count of the next period follows that of this one.              *)
SplitExact == sum <= bsize /\ (j = npack => sum = bsize)

(* No packet is empty, and none is longer than the receivers were told.      *)
SplitFits == j > 0 => nfram \in 1..room

(* The packets are even: the frames sent are never off an even division by   *)
(* as much as one.                                                         *)
SplitEven == npack * sum - j * bsize \in (-npack + 1)..(npack - 1)
=============================================================================
