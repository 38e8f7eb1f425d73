-------------------------- MODULE PacketizeProofs --------------------------
(***************************************************************************)
(* The division of a period into packets is exact, for every period and      *)
(* every packet size that holds a frame.                                   *)
(***************************************************************************)
EXTENDS Packetize, Arithmetic, TLAPS

-----------------------------------------------------------------------------
(* The division                                                            *)

(* n frames fit: packets enough for a period, and not more than its frames.   *)
LEMMA EnoughPackets ==
  ASSUME NEW period \in Nat \ {0}, NEW n \in Nat \ {0}, NEW p \in Int,
         n * p <= period + n - 1, period + n - 1 < n * p + n
  PROVE  p \in Nat \ {0} /\ period <= n * p /\ p <= period
<1>. n * p \in Int
  OBVIOUS
<1>1. period <= n * p
  OBVIOUS
<1>2. p >= 1
  <2> SUFFICES ASSUME p <= 0 PROVE FALSE
    OBVIOUS
  <2>1. n * p <= n * 0
    BY Monotone
  <2>2. n * 0 = 0
    OBVIOUS
  <2>. QED
    BY <2>1, <2>2, <1>1
<1>3. p <= period
  <2> SUFFICES ASSUME period + 1 <= p PROVE FALSE
    OBVIOUS
  <2>1. n * (period + 1) <= n * p
    BY Monotone
  <2>2. n * (period + 1) = n * period + n * 1
    BY Distributes
  <2>3. period * 1 <= period * n
    BY Monotone
  <2>4. n * period \in Int /\ period * n = n * period /\ n * 1 = n /\ period * 1 = period
    OBVIOUS
  <2>5. n * period + n <= period + n - 1
    BY <2>1, <2>2, <2>4
  <2>. QED
    BY <2>3, <2>4, <2>5
<1>. QED
  BY <1>1, <1>2, <1>3

(* The frames each of them has at least.                                    *)
LEMMA FramesEach ==
  ASSUME NEW period \in Nat \ {0}, NEW n \in Nat \ {0}, NEW p \in Nat \ {0},
         period <= n * p, p <= period,
         NEW s \in Int, p * s <= period, period < p * s + p
  PROVE  s \in Nat \ {0} /\ s <= n /\ (s = n => period = p * s)
<1>. p * s \in Int /\ n * p \in Int /\ n * p = p * n
  OBVIOUS
<1>1. s >= 1
  <2> SUFFICES ASSUME s <= 0 PROVE FALSE
    OBVIOUS
  <2>1. p * s <= p * 0
    BY Monotone
  <2>2. p * 0 = 0
    OBVIOUS
  <2>. QED
    BY <2>1, <2>2
<1>2. s <= n
  <2> SUFFICES ASSUME n + 1 <= s PROVE FALSE
    OBVIOUS
  <2>1. p * (n + 1) <= p * s
    BY Monotone
  <2>2. p * (n + 1) = p * n + p * 1 /\ p * 1 = p
    BY Distributes
  <2>. QED
    BY <2>1, <2>2
<1>. QED
  BY <1>1, <1>2

LEMMA Packets ==
  ASSUME NEW period \in Nat \ {0}, NEW n \in Nat \ {0}
  PROVE  LET p == PacketsPerPeriod(period, n)
             s == period \div p
         IN  /\ p \in Nat \ {0} /\ s \in Nat \ {0}
             /\ p * s <= period /\ period < p * s + p
             /\ s <= n /\ (s = n => period = p * s)
<1>1. PICK p \in Int : /\ p = PacketsPerPeriod(period, n)
                       /\ n * p <= period + n - 1 /\ period + n - 1 < n * p + n
  <2>1. period + n - 1 \in Int
    OBVIOUS
  <2>. QED
    BY <2>1, Division DEF PacketsPerPeriod
<1>2. p \in Nat \ {0} /\ period <= n * p /\ p <= period
  BY <1>1, EnoughPackets
<1>3. PICK s \in Int : s = period \div p /\ p * s <= period /\ period < p * s + p
  BY <1>2, Division
<1>4. s \in Nat \ {0} /\ s <= n /\ (s = n => period = p * s)
  BY <1>2, <1>3, FramesEach
<1>. QED
  BY <1>1, <1>2, <1>3, <1>4

(* A frame of c bytes fits in d bytes.                                      *)
LEMMA OneFits ==
  ASSUME NEW c \in Nat \ {0}, NEW d \in Int, c <= d
  PROVE  d \div c \in Nat \ {0}
<1>1. PICK q \in Int : q = d \div c /\ d < c * q + c
  BY Division
<1>2. q >= 1
  <2> SUFFICES ASSUME q <= 0 PROVE FALSE
    BY <1>1
  <2>1. c * q <= c * 0
    BY <1>1, Monotone
  <2>2. c * 0 = 0 /\ c * q \in Int
    BY <1>1
  <2>. QED
    BY <2>1, <2>2, <1>1
<1>. QED
  BY <1>1, <1>2

LEMMA RoomForFrames ==
  ASSUME NEW size \in PacketSizes, NEW b \in SampleBytes, NEW n \in Channels
  PROVE  FramesPerPacket(size, b, n) \in Nat \ {0}
<1>1. /\ b \in Nat \ {0} /\ n \in Nat \ {0} /\ size \in Nat
      /\ ADATA + b * n <= size /\ ADATA \in Nat
  BY PacketizeParams DEF ADATA
<1>2. b * n \in Nat \ {0}
  <2>1. b * 1 <= b * n
    BY <1>1, Monotone
  <2>. QED
    BY <2>1, <1>1
<1>3. size - ADATA \in Int /\ b * n <= size - ADATA
  BY <1>1, <1>2
<1>. QED
  BY <1>2, <1>3, OneFits DEF FramesPerPacket

-----------------------------------------------------------------------------
(* The loop                                                                *)

(* What the division of a period leaves: p packets of s frames, or one more. *)
Divides(b, n, p, s) ==
  /\ b \in Nat \ {0} /\ n \in Nat \ {0} /\ p \in Nat \ {0} /\ s \in Nat \ {0}
  /\ p * s <= b /\ b < p * s + p
  /\ s <= n /\ (s = n => b = p * s)

Near(d, b, p, s) == d \in Int /\ p * s - b <= d /\ d <= p * s - b + p - 1

(* Bresenham's error is the error of the sum, and it is small.  It is never   *)
(* negative when a packet has no room for one frame more.                  *)
Sound ==
  /\ Divides(bsize, room, npack, bstep)
  /\ j \in 0..npack
  /\ sum \in Int
  /\ bdiff = npack * sum - j * bsize
  /\ Near(bdiff, bsize, npack, bstep)
  /\ SplitFits

LEMMA ErrorStaysNear ==
  ASSUME NEW b, NEW n, NEW p, NEW s, Divides(b, n, p, s), NEW d, Near(d, b, p, s)
  PROVE  /\ s + Extra(d) \in 1..n
         /\ Near(d + (s + Extra(d)) * p - b, b, p, s)
<1>1. /\ b \in Int /\ n \in Int /\ p \in Int /\ s \in Int /\ d \in Int
      /\ s >= 1 /\ s <= n /\ p >= 1
      /\ p * s <= b /\ b < p * s + p /\ (s = n => b = p * s)
      /\ p * s - b <= d /\ d <= p * s - b + p - 1
  BY DEF Divides, Near
<1>2. p * s \in Int
  BY <1>1
<1>3. CASE d < 0
  <2>1. Extra(d) = 1
    BY <1>3 DEF Extra
  <2>2. (s + 1) * p = p * s + p
    <3>1. p * (s + 1) = p * s + p * 1 /\ p * 1 = p /\ (s + 1) * p = p * (s + 1)
      BY <1>1, Distributes
    <3>. QED
      BY <3>1
  <2>3. s + 1 <= n
    BY <1>1, <1>2, <1>3
  <2>. QED
    BY <2>1, <2>2, <2>3, <1>1, <1>2, <1>3 DEF Near
<1>4. CASE d >= 0
  <2>1. Extra(d) = 0
    BY <1>1, <1>4 DEF Extra
  <2>2. (s + 0) * p = p * s
    BY <1>1
  <2>. QED
    BY <2>1, <2>2, <1>1, <1>2, <1>4 DEF Near
<1>. QED
  BY <1>1, <1>3, <1>4

(* The error remains that of the sum.                                       *)
LEMMA ErrorOfSum ==
  ASSUME NEW b \in Int, NEW p \in Int, NEW t \in Int, NEW f \in Int, NEW i \in Int
  PROVE  p * t - i * b + f * p - b = p * (t + f) - (i + 1) * b
<1>1. p * (t + f) = p * t + p * f /\ p * f = f * p
  BY Distributes
<1>2. b * (i + 1) = b * i + b * 1 /\ b * 1 = b /\ b * i = i * b /\ b * (i + 1) = (i + 1) * b
  BY Distributes
<1>3. p * t \in Int /\ i * b \in Int /\ f * p \in Int
  OBVIOUS
<1>. QED
  BY <1>1, <1>2, <1>3

(* A sum with a small error.                                                *)
LEMMA SumOfError ==
  ASSUME NEW b \in Nat, NEW p \in Nat \ {0}, NEW t \in Int, NEW i \in 0..p,
         -p < p * t - i * b, p * t - i * b < p
  PROVE  t <= b /\ (i = p => t = b)
<1>1. p * t \in Int /\ i * b \in Int /\ p * b \in Int /\ b * i = i * b /\ b * p = p * b
  OBVIOUS
<1>2. t <= b
  <2> SUFFICES ASSUME b + 1 <= t PROVE FALSE
    OBVIOUS
  <2>1. p * (b + 1) <= p * t
    BY Monotone
  <2>2. p * (b + 1) = p * b + p * 1 /\ p * 1 = p
    BY Distributes
  <2>3. b * i <= b * p
    BY Monotone
  <2>. QED
    BY <2>1, <2>2, <2>3, <1>1
<1>3. ASSUME i = p PROVE t = b
  <2>1. p * (t + (-b)) = p * t + p * (-b) /\ p * (-b) = -(p * b)
    BY Distributes
  <2>2. p * (t - b) = p * t - p * b
    BY <2>1, <1>1
  <2>3. t - b = 0
    BY <2>2, <1>1, <1>3, SmallMultiple
  <2>. QED
    BY <2>3
<1>. QED
  BY <1>2, <1>3

LEMMA InitSound == Init => Sound
<1> SUFFICES ASSUME Init PROVE Sound
  OBVIOUS
<1>1. bsize \in Nat \ {0} /\ room \in Nat \ {0}
  BY PacketizeParams, RoomForFrames DEF Init
<1>2. Divides(bsize, room, npack, bstep)
  BY <1>1, Packets DEF Divides, npack, bstep
<1>3. j = 0 /\ sum = 0 /\ bdiff = 0
  BY DEF Init
<1> HIDE DEF npack, bstep
<1>4. npack \in Nat \ {0} /\ bstep \in Nat \ {0} /\ npack * bstep \in Int
      /\ npack * bstep <= bsize /\ bsize < npack * bstep + npack
  BY <1>2 DEF Divides
<1>5. npack * 0 = 0 /\ 0 * bsize = 0
  BY <1>1, <1>4
<1>. QED
  BY <1>1, <1>2, <1>3, <1>4, <1>5 DEF Sound, Near, SplitFits

LEMMA PacketSound == Sound /\ Packet => Sound'
<1> SUFFICES ASSUME Sound, Packet PROVE Sound'
  OBVIOUS
<1>1. bsize' = bsize /\ room' = room /\ npack' = npack /\ bstep' = bstep
  BY DEF Packet, npack, bstep
<1>2. /\ Divides(bsize, room, npack, bstep) /\ Near(bdiff, bsize, npack, bstep)
      /\ j \in 0..npack /\ j < npack /\ j' = j + 1 /\ sum \in Int
      /\ bdiff = npack * sum - j * bsize
      /\ nfram' = bstep + Extra(bdiff) /\ sum' = sum + nfram'
      /\ bdiff' = bdiff + nfram' * npack - bsize
  BY DEF Sound, Packet
<1>3. bsize \in Int /\ npack \in Nat /\ bstep \in Nat /\ room \in Nat
  BY <1>2 DEF Divides
<1>4. nfram' \in 1..room /\ Near(bdiff', bsize, npack, bstep)
  BY <1>2, ErrorStaysNear
<1>5. bdiff' = npack * sum' - j' * bsize
  BY <1>2, <1>3, <1>4, ErrorOfSum
<1>6. j' \in 0..npack /\ sum' \in Int
  BY <1>2, <1>3, <1>4
<1>. QED
  BY <1>1, <1>2, <1>4, <1>5, <1>6 DEF Sound, SplitFits

LEMMA PeriodSound == Sound /\ Period => Sound'
<1> SUFFICES ASSUME Sound, Period PROVE Sound'
  OBVIOUS
<1>1. bsize' = bsize /\ room' = room /\ npack' = npack /\ bstep' = bstep
  BY DEF Period, npack, bstep
<1>2. Divides(bsize, room, npack, bstep) /\ j' = 0 /\ sum' = 0 /\ bdiff' = 0
  BY DEF Sound, Period
<1>3. npack \in Nat \ {0} /\ bstep \in Nat \ {0} /\ bsize \in Nat \ {0}
      /\ npack * bstep \in Int
      /\ npack * bstep <= bsize /\ bsize < npack * bstep + npack
  BY <1>2 DEF Divides
<1>4. npack * 0 = 0 /\ 0 * bsize = 0
  BY <1>3
<1>. QED
  BY <1>1, <1>2, <1>3, <1>4 DEF Sound, Near, SplitFits

LEMMA SoundSplits == Sound => SplitExact /\ SplitFits /\ SplitEven
<1> SUFFICES ASSUME Sound PROVE SplitExact /\ SplitFits /\ SplitEven
  OBVIOUS
<1>1. /\ npack \in Nat \ {0} /\ bsize \in Nat /\ bstep \in Nat /\ npack * bstep \in Int
      /\ npack * bstep <= bsize /\ bsize < npack * bstep + npack
      /\ j \in 0..npack /\ sum \in Int
      /\ bdiff = npack * sum - j * bsize
      /\ bdiff \in Int
      /\ npack * bstep - bsize <= bdiff /\ bdiff <= npack * bstep - bsize + npack - 1
  BY DEF Sound, Divides, Near
<1>2. bdiff \in Int /\ -npack < bdiff /\ bdiff < npack
  BY <1>1
<1>3. SplitExact
  BY <1>1, <1>2, SumOfError DEF SplitExact
<1>4. SplitEven
  BY <1>1, <1>2 DEF SplitEven
<1>. QED
  BY <1>3, <1>4 DEF Sound

LEMMA AlwaysSound == Spec => []Sound
<1>1. Sound /\ [Next]_vars => Sound'
  <2> SUFFICES ASSUME Sound, [Next]_vars PROVE Sound'
    OBVIOUS
  <2>1. CASE Packet
    BY <2>1, PacketSound
  <2>2. CASE Period
    BY <2>2, PeriodSound
  <2>3. CASE UNCHANGED vars
    BY <2>3 DEF vars, Sound, SplitFits, npack, bstep
  <2>. QED
    BY <2>1, <2>2, <2>3 DEF Next
<1>. QED
  BY InitSound, <1>1, PTL DEF Spec

(* The packets of a period hold the period, whatever its size and the room   *)
(* in a packet: the next one starts at the frame where this one ends.      *)
THEOREM SplitIsExact == Spec => []SplitExact
  BY AlwaysSound, SoundSplits, PTL

(* No packet is empty or longer than the length main() announced.           *)
THEOREM SplitAlwaysFits == Spec => []SplitFits
  BY AlwaysSound, SoundSplits, PTL

(* The Bresenham loop is never off an even division by one frame.           *)
THEOREM SplitIsEven == Spec => []SplitEven
  BY AlwaysSound, SoundSplits, PTL
=============================================================================
