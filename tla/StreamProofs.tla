----------------------------- MODULE StreamProofs -----------------------------
(***************************************************************************)
(* The frames of a session, for every size of the queue, every range of the   *)
(* counters and every network that is late by less than half of it.          *)
(***************************************************************************)
EXTENDS Stream, Arithmetic

-----------------------------------------------------------------------------
(* Differences of counters                                                   *)

LEMMA Sizes ==
  /\ K \in Nat \ {0} /\ W \in Nat \ {0} /\ W % K = 0
  /\ W \div 2 \in Nat /\ W = 2 * (W \div 2) /\ K <= W \div 2
  BY StreamParams

LEMMA RemainderOfDifference ==
  ASSUME NEW m \in Nat \ {0}, NEW a \in Int, NEW b \in Int
  PROVE  (a - (b % m)) % m = (a - b) % m
<1>1. PICK q \in Int : b = m * q + (b % m) /\ b % m \in Int
  <2>1. b \div m \in Int /\ b = m * (b \div m) + (b % m) /\ b % m \in Int
    BY Remainder
  <2>. QED
    BY <2>1
<1>2. a - (b % m) = m * q + (a - b) /\ a - b \in Int
  BY <1>1
<1>3. (m * q + (a - b)) % m = (a - b) % m
  BY <1>2, RemainderShift
<1>. QED
  BY <1>2, <1>3

LEMMA SignedExact ==
  ASSUME NEW n \in Int, NEW d \in Int, n % W = d % W, -W <= 2 * d, 2 * d < W
  PROVE  Signed(n) = d
<1>1. CASE d >= 0
  <2>1. d \in 0..(W - 1) /\ d < W \div 2
    BY <1>1, Sizes
  <2>2. d % W = d
    BY <2>1, Sizes, SmallRemainder
  <2>. QED
    BY <2>1, <2>2 DEF Signed
<1>2. CASE d < 0
  <2>1. d + W \in 0..(W - 1) /\ d + W >= W \div 2 /\ d = W * (-1) + (d + W)
    BY <1>2, Sizes
  <2>2. (W * (-1) + (d + W)) % W = d + W
    BY <2>1, Sizes, RemainderUnique
  <2>3. n % W = d + W
    BY <2>1, <2>2
  <2>. QED
    BY <2>1, <2>3, Sizes DEF Signed
<1>. QED
  BY <1>1, <1>2

(* Counters of near frames tell which one is ahead, and how far.              *)
LEMMA AheadExact ==
  ASSUME NEW a \in Int, NEW b \in Int, -W <= 2 * (a - b), 2 * (a - b) < W
  PROVE  Ahead(a % W, b % W) = a - b
<1>1. a % W \in Int /\ b % W \in Int
  BY Sizes, Remainder
<1>2. ((a % W) - (b % W)) % W = ((a % W) - b) % W
  BY <1>1, Sizes, RemainderOfDifference
<1>3. ((a % W) + (-b)) % W = (a + (-b)) % W
  <2>1. -b \in Int
    OBVIOUS
  <2>. QED
    BY <2>1, Sizes, RemainderOfSum
<1>4. (a % W) - b = (a % W) + (-b) /\ a - b = a + (-b)
  BY <1>1
<1>5. ((a % W) - (b % W)) % W = (a - b) % W
  BY <1>2, <1>3, <1>4
<1>6. (a % W) - (b % W) \in Int /\ a - b \in Int
  BY <1>1
<1>7. Signed((a % W) - (b % W)) = a - b
  BY <1>5, <1>6, SignedExact
<1>. QED
  BY <1>7 DEF Ahead

-----------------------------------------------------------------------------
(* What is always true                                                       *)

Airborne(p) ==
  /\ p.start \in Nat /\ p.n \in Nat \ {0}
  /\ p.start + p.n <= next
  /\ 2 * (next - p.start) < W

StreamType ==
  /\ next \in Nat
  /\ top \in Int
  /\ nwr \in 0..(W - 1) /\ nrd \in 0..(W - 1)
  /\ ring \in [0..(K - 1) -> Int]

(* The receiver is never more than half the counters' range behind, and a     *)
(* reader is aligned only to a queue that has been written.                  *)
StreamSound ==
  /\ StreamType
  /\ \A p \in air : Airborne(p)
  /\ aligned => ~first
  /\ IF first THEN nwr = 0 ELSE top <= next /\ 2 * (next - top) < W
  /\ InPlace
  /\ NothingMissing

LEMMA StreamStarts == Init => StreamSound
<1> SUFFICES ASSUME Init PROVE StreamSound
  OBVIOUS
<1>1. StreamType
  BY Sizes DEF Init, StreamType, SILENT
<1>. QED
  BY <1>1 DEF Init, StreamSound, InPlace, NothingMissing

-----------------------------------------------------------------------------
(* Writing                                                                  *)

(* What the last K places hold once a packet is written where it belongs.     *)
LEMMA Written ==
  ASSUME StreamType, NEW packet, packet.start \in Nat, packet.n \in Nat \ {0},
         NEW base \in Int, NEW dc \in Nat,
         (nwr + base + dc) % W = packet.start % W,
         Write(packet, base, dc)
  PROVE  /\ top' = packet.start + packet.n /\ nwr' = top' % W
         /\ nwr' \in 0..(W - 1) /\ ring' \in [0..(K - 1) -> Int]
         /\ \A f \in (top' - K)..(top' - 1) :
              /\ f % K \in 0..(K - 1)
              /\ ring'[f % K] = IF top' - 1 - f < packet.n THEN f
                                ELSE IF top' - 1 - f < packet.n + dc THEN SILENT
                                ELSE ring[f % K]
<1> DEFINE behind == nwr + base + dc
           end == nwr + base + dc + packet.n
           Back(i) == (end - 1 - i) % K
<1>0. behind \in Int /\ end \in Int /\ end = behind + packet.n /\ packet.n \in Int
  <2>1. nwr \in Int
    BY Sizes DEF StreamType
  <2>. QED
    BY <2>1
<1>1. top' = packet.start + packet.n /\ nwr' = end % W /\ top' \in Int
  BY DEF Write, end
<1>. HIDE DEF behind, end, Back
<1>2. end % W = top' % W
  <2>1. W \in Nat \ {0} /\ packet.start \in Int
    BY Sizes
  <2>2. ((behind % W) + packet.n) % W = (behind + packet.n) % W
    BY <1>0, <2>1, RemainderOfSum, Zenon
  <2>3. ((packet.start % W) + packet.n) % W = (packet.start + packet.n) % W
    BY <1>0, <2>1, RemainderOfSum, Zenon
  <2>4. behind % W = packet.start % W
    BY DEF behind
  <2>. QED
    BY <1>0, <1>1, <2>2, <2>3, <2>4, Zenon
<1>3. end % K = top' % K
  <2>1. (end % W) % K = end % K
    BY <1>0, Sizes, RemainderOfRemainder
  <2>2. (top' % W) % K = top' % K
    BY <1>1, Sizes, RemainderOfRemainder
  <2>. QED
    BY <1>2, <2>1, <2>2
<1>4. ring' = [i \in 0..(K - 1) |->
                 IF Back(i) < packet.n THEN packet.start + packet.n - 1 - Back(i)
                 ELSE IF Back(i) < packet.n + dc THEN SILENT ELSE ring[i]]
  BY DEF Write, Back, end
<1>5. \A i \in 0..(K - 1) : Back(i) \in 0..(K - 1)
  <2> SUFFICES ASSUME NEW i \in 0..(K - 1) PROVE Back(i) \in 0..(K - 1)
    OBVIOUS
  <2>1. end - 1 - i \in Int
    BY <1>0
  <2>. QED
    BY <2>1, Sizes, Remainder DEF Back
<1>6. ring' \in [0..(K - 1) -> Int]
  <2> SUFFICES ASSUME NEW i \in 0..(K - 1) PROVE ring'[i] \in Int
    BY <1>4
  <2>1. ring[i] \in Int /\ Back(i) \in Int
    <3>1. ring[i] \in Int
      BY DEF StreamType
    <3>2. Back(i) \in 0..(K - 1)
      BY <1>5, Zenon
    <3>. QED
      BY <3>1, <3>2, Sizes
  <2>. QED
    BY <1>4, <2>1 DEF SILENT
<1>7. ASSUME NEW f \in (top' - K)..(top' - 1)
      PROVE  f % K \in 0..(K - 1) /\ Back(f % K) = top' - 1 - f
  <2>1. f \in Int /\ K \in Nat \ {0} /\ end - 1 \in Int /\ -1 - f \in Int
    BY <1>0, <1>1, Sizes
  <2>2. f % K \in 0..(K - 1)
    BY <2>1, Remainder
  <2>3. (end - 1 - (f % K)) % K = (end - 1 - f) % K
    BY <2>1, RemainderOfDifference
  <2>4. ((end % K) + (-1 - f)) % K = (end + (-1 - f)) % K
    BY <1>0, <2>1, RemainderOfSum
  <2>5. ((top' % K) + (-1 - f)) % K = (top' + (-1 - f)) % K
    BY <1>1, <2>1, RemainderOfSum
  <2>6. end - 1 - f = end + (-1 - f) /\ top' + (-1 - f) = top' - 1 - f
    BY <1>0, <1>1, <2>1
  <2>7. top' - 1 - f \in 0..(K - 1)
    BY <1>1, <2>1
  <2>8. (top' - 1 - f) % K = top' - 1 - f
    BY <2>1, <2>7, SmallRemainder
  <2>. QED
    BY <1>3, <2>2, <2>3, <2>4, <2>5, <2>6, <2>8 DEF Back
<1>8. ASSUME NEW f \in (top' - K)..(top' - 1)
      PROVE  ring'[f % K] = IF top' - 1 - f < packet.n THEN f
                            ELSE IF top' - 1 - f < packet.n + dc THEN SILENT
                            ELSE ring[f % K]
  <2>1. f % K \in 0..(K - 1) /\ Back(f % K) = top' - 1 - f /\ f \in Int
    BY <1>1, <1>7, Sizes
  <2>2. packet.start + packet.n - 1 - (top' - 1 - f) = f
    BY <1>1, <2>1
  <2>. QED
    BY <1>4, <2>1, <2>2
<1>9. end % W \in 0..(W - 1)
  BY <1>0, Sizes, Remainder
<1>. QED
  BY <1>1, <1>2, <1>6, <1>7, <1>8, <1>9

(* After a write the places are right, and silent only where frames are        *)
(* missing.                                                                 *)
LEMMA WrittenInPlace ==
  ASSUME StreamType, InPlace, NothingMissing,
         NEW packet, packet.start \in Nat, packet.n \in Nat \ {0},
         NEW base \in Int, NEW dc \in Nat,
         (nwr + base + dc) % W = packet.start % W,
         Write(packet, base, dc),
         ~first', dc = IF first THEN 0 ELSE packet.start - top,
         gaps' \/ first \/ (~gaps /\ packet.start = top)
  PROVE  InPlace' /\ NothingMissing'
<1> DEFINE Old(f) == ring[f % K]
           New(f) == ring'[f % K]
           places == (top' - K)..(top' - 1)
<1>0. top \in Int /\ top' \in Int /\ K \in Nat \ {0} /\ packet.start \in Int /\ packet.n \in Int
  BY Sizes DEF StreamType, Write
<1>1. /\ top' = packet.start + packet.n /\ nwr' = top' % W
      /\ \A f \in places : f % K \in 0..(K - 1)
      /\ \A f \in places : New(f) = IF top' - 1 - f < packet.n THEN f
                                  ELSE IF top' - 1 - f < packet.n + dc THEN SILENT
                                  ELSE Old(f)
  BY Written, Zenon
<1>2. \A f \in places : Old(f) \in {f, SILENT} \/ top' - 1 - f < packet.n + dc
  <2>1. CASE first
    BY <1>1, <2>1 DEF InPlace
  <2>2. CASE ~first
    <3> SUFFICES ASSUME NEW f \in places, ~(top' - 1 - f < packet.n + dc)
                 PROVE  Old(f) \in {f, SILENT}
      OBVIOUS
    <3>1. f \in (top - K)..(top - 1)
      BY <1>0, <1>1, <2>2
    <3>. QED
      BY <2>2, <3>1 DEF InPlace
  <2>. QED
    BY <2>1, <2>2
<1>3. \A f \in places : New(f) \in {f, SILENT}
  BY <1>1, <1>2
<1>4. InPlace'
  BY <1>1, <1>3 DEF InPlace
<1>5. ASSUME ~gaps', NEW f \in places, NEW g \in places, f < g, New(f) # SILENT
      PROVE  New(g) # SILENT
  <2>0. first \/ (~gaps /\ packet.start = top)
    BY <1>5
  <2>1. dc = 0 /\ f \in Int /\ g \in Int
    BY <1>0, <2>0
  <2>2. CASE top' - 1 - g < packet.n
    <3>1. New(g) = g /\ g >= packet.start
      BY <1>0, <1>1, <2>1, <2>2
    <3>. QED
      BY <2>1, <3>1 DEF SILENT
  <2>3. CASE ~(top' - 1 - g < packet.n)
    <3>1. ~(top' - 1 - f < packet.n)
      BY <1>0, <1>5, <2>1, <2>3
    <3>2. New(f) = Old(f) /\ New(g) = Old(g)
      BY <1>1, <2>1, <2>3, <3>1, <1>0
    <3>3. CASE first
      BY <1>1, <1>5, <3>2, <3>3 DEF InPlace
    <3>4. CASE ~first
      <4>1. f \in (top - K)..(top - 1) /\ g \in (top - K)..(top - 1) /\ ~gaps
        BY <1>0, <1>1, <1>5, <2>0, <2>1, <2>3, <3>1, <3>4
      <4>. QED
        BY <1>5, <3>2, <3>4, <4>1 DEF NothingMissing
    <3>. QED
      BY <3>3, <3>4
  <2>. QED
    BY <2>2, <2>3
<1>6. NothingMissing'
  BY <1>5 DEF NothingMissing
<1>. QED
  BY <1>4, <1>6

-----------------------------------------------------------------------------
(* Steps                                                                    *)

(* A packet in the air is told from those already written, and its distance   *)
(* from them is what the counters say.                                      *)
LEMMA DistanceExact ==
  ASSUME StreamSound, ~first, NEW packet \in air
  PROVE  /\ Ahead(packet.start % W, nwr) = packet.start - top
         /\ packet.start \in Nat /\ packet.n \in Nat \ {0} /\ top \in Int
<1>1. /\ packet.start \in Nat /\ packet.n \in Nat \ {0}
      /\ packet.start + packet.n <= next
      /\ 2 * (next - packet.start) < W
      /\ next \in Nat /\ top \in Int /\ nwr = top % W
      /\ top <= next /\ 2 * (next - top) < W
  BY DEF StreamSound, StreamType, Airborne, InPlace
<1>2. \A s, n, t, x, w \in Int :
         n > 0 /\ s + n <= x /\ 2 * (x - s) < w /\ t <= x /\ 2 * (x - t) < w
           => -w <= 2 * (s - t) /\ 2 * (s - t) < w
  OBVIOUS
<1>3. packet.start \in Int /\ packet.n \in Int /\ next \in Int /\ W \in Int /\ packet.n > 0
  BY <1>1, Sizes
<1>4. -W <= 2 * (packet.start - top) /\ 2 * (packet.start - top) < W
  BY <1>1, <1>2, <1>3, Zenon
<1>. QED
  BY <1>1, <1>3, <1>4, AheadExact, Zenon

LEMMA FirstSound ==
  ASSUME StreamSound, NEW packet \in air, ReceiveFirst(packet), next' = next, UNCHANGED <<nrd, aligned>>,
         air' \subseteq air
  PROVE  StreamSound'
<1>1. /\ packet.start \in Nat /\ packet.n \in Nat \ {0}
      /\ packet.start + packet.n <= next /\ 2 * (next - packet.start) < W
      /\ next \in Nat /\ nwr = 0 /\ first /\ ~first' /\ ~gaps' /\ StreamType
      /\ packet.start \in Int
  BY DEF StreamSound, StreamType, Airborne, ReceiveFirst
<1>. DEFINE base == packet.start % W
<1>b. base \in 0..(W - 1) /\ W \in Nat \ {0}
  BY <1>1, Sizes, Remainder, Zenon
<1>2. base \in Int /\ 0 \in Nat /\ Write(packet, base, 0)
  BY <1>b DEF ReceiveFirst
<1>3. (nwr + base + 0) % W = packet.start % W
  <2>1. nwr + base + 0 = base
    BY <1>1, <1>b
  <2>2. base % W = base
    BY <1>b, SmallRemainder, Zenon
  <2>. QED
    BY <2>1, <2>2
<1>. HIDE DEF base
<1>4. /\ top' = packet.start + packet.n
      /\ nwr' \in 0..(W - 1) /\ ring' \in [0..(K - 1) -> Int]
  BY <1>1, <1>2, <1>3, Written
<1>5. InPlace' /\ NothingMissing'
  BY <1>1, <1>2, <1>3, WrittenInPlace DEF StreamSound
<1>6. StreamType'
  BY <1>1, <1>4 DEF StreamType
<1>7. \A p \in air' : Airborne(p)'
  BY DEF StreamSound, Airborne
<1>8. top' <= next' /\ 2 * (next' - top') < W
  <2>1. PICK s, n : s = packet.start /\ n = packet.n
    OBVIOUS
  <2>2. s \in Nat /\ n \in Nat \ {0} /\ s + n <= next /\ 2 * (next - s) < W /\ top' = s + n
    BY <1>1, <1>4, <2>1
  <2>3. s + n <= next /\ 2 * (next - (s + n)) < W
    BY <1>1, <2>2, Sizes
  <2>. QED
    BY <2>2, <2>3
<1>. QED
  BY <1>1, <1>5, <1>6, <1>7, <1>8 DEF StreamSound

LEMMA NextSound ==
  ASSUME StreamSound, NEW packet \in air, ReceiveNext(packet), next' = next, UNCHANGED <<nrd, aligned>>,
         air' \subseteq air
  PROVE  StreamSound' /\ packet.start >= top /\ top' # top
<1>1. /\ packet.start \in Nat /\ packet.n \in Nat \ {0}
      /\ packet.start + packet.n <= next /\ 2 * (next - packet.start) < W
      /\ next \in Nat /\ top \in Int /\ nwr = top % W /\ ~first /\ ~first' /\ StreamType
  BY DEF StreamSound, StreamType, Airborne, ReceiveNext, InPlace
<1>. DEFINE dc == Ahead(packet.start % W, nwr)
<1>2. dc = packet.start - top
  BY <1>1, DistanceExact
<1>3. dc \in Nat /\ Write(packet, 0, dc) /\ gaps' = (gaps \/ packet.start # top)
  <2>1. dc >= 0 /\ Write(packet, 0, dc) /\ gaps' = (gaps \/ packet.start # top)
    BY DEF ReceiveNext
  <2>. QED
    BY <1>1, <1>2, <2>1
<1>. HIDE DEF dc
<1>4. (nwr + 0 + dc) % W = packet.start % W
  <2>0. dc \in Int /\ W \in Nat \ {0}
    BY <1>3, Sizes
  <2>1. ((top % W) + dc) % W = (top + dc) % W
    BY <1>1, <2>0, RemainderOfSum, Zenon
  <2>2. top + dc = packet.start /\ top % W \in Int
    BY <1>1, <1>2, Sizes
  <2>. QED
    BY <1>1, <1>3, <2>1, <2>2
<1>5. /\ top' = packet.start + packet.n
      /\ nwr' \in 0..(W - 1) /\ ring' \in [0..(K - 1) -> Int]
  BY <1>1, <1>3, <1>4, Written
<1>6. InPlace' /\ NothingMissing'
  <2>1. InPlace /\ NothingMissing /\ 0 \in Int
    BY DEF StreamSound
  <2>2. dc = IF first THEN 0 ELSE packet.start - top
    BY <1>1, <1>2
  <2>3. gaps' \/ first \/ (~gaps /\ packet.start = top)
    BY <1>3, Zenon
  <2>. QED
    BY <1>1, <1>3, <1>4, <2>1, <2>2, <2>3, WrittenInPlace
<1>7. StreamType'
  BY <1>1, <1>5 DEF StreamType
<1>8. \A p \in air' : Airborne(p)'
  BY DEF StreamSound, Airborne
<1>9. top' <= next' /\ 2 * (next' - top') < W /\ packet.start >= top /\ top' # top
  <2>1. packet.start \in Int /\ packet.n \in Int /\ packet.n > 0 /\ W \in Int /\ next \in Int
    BY <1>1, Sizes
  <2>2. packet.start >= top
    BY <1>1, <1>2, <1>3, <2>1
  <2>3. top' <= next /\ top' # top
    BY <1>1, <1>5, <2>1, <2>2
  <2>4. next - top' < next - packet.start
    BY <1>5, <2>1
  <2>5. 2 * (next - top') < W
    BY <1>1, <1>5, <2>1, <2>4
  <2>. QED
    BY <2>2, <2>3, <2>5
<1>. QED
  BY <1>1, <1>6, <1>7, <1>8, <1>9 DEF StreamSound

LEMMA LateIsOld ==
  ASSUME StreamSound, ~first, NEW packet \in air, ReceiveLate(packet)
  PROVE  packet.start < top /\ top' = top
<1>1. Ahead(packet.start % W, nwr) < 0 /\ top' = top
  BY DEF ReceiveLate, rx
<1>. QED
  BY <1>1, DistanceExact

LEMMA ReceiveSound ==
  ASSUME StreamSound, NEW packet \in air, Receive(packet)
  PROVE  StreamSound'
<1>1. air' \subseteq air /\ next' = next /\ UNCHANGED <<nrd, aligned>>
  BY DEF Receive
<1>2. CASE ReceiveFirst(packet)
  BY <1>1, <1>2, FirstSound
<1>3. CASE ReceiveNext(packet)
  BY <1>1, <1>3, NextSound
<1>4. CASE ReceiveLate(packet)
  BY <1>1, <1>4 DEF ReceiveLate, rx, StreamSound, StreamType, Airborne, InPlace, NothingMissing
<1>. QED
  BY <1>2, <1>3, <1>4 DEF Receive

LEMMA SendSound ==
  ASSUME StreamSound, NEW n \in Lengths, NEW skip \in Skips, NEW timed \in BOOLEAN,
         Send(n, skip, timed)
  PROVE  StreamSound'
<1>1. /\ next \in Nat /\ n \in Nat \ {0} /\ skip \in Nat /\ 2 * n < W /\ W \in Nat
      /\ Late \in Nat /\ MaxGap \in Nat /\ 2 * Late < W /\ 2 * MaxGap < W
  BY StreamParams DEF StreamSound, StreamType
<1>2. /\ next' = next + skip + n
      /\ ~first => next + skip + n - top <= MaxGap
      /\ UNCHANGED <<nrd, aligned, rx>>
      /\ \A p \in air' : (p \in air /\ p.start + Late >= next')
                          \/ p = [start |-> next + skip, n |-> n, timed |-> timed]
  BY DEF Send
<1>3. ASSUME NEW p \in air' PROVE Airborne(p)'
  <2>1. CASE p \in air /\ p.start + Late >= next'
    BY <1>1, <1>2, <2>1 DEF StreamSound, Airborne
  <2>2. CASE p = [start |-> next + skip, n |-> n, timed |-> timed]
    BY <1>1, <1>2, <2>2 DEF Airborne
  <2>. QED
    BY <1>2, <2>1, <2>2
<1>4. ~first => top <= next' /\ 2 * (next' - top) < W
  BY <1>1, <1>2 DEF StreamSound, StreamType
<1>. QED
  BY <1>1, <1>2, <1>3, <1>4 DEF rx, StreamSound, StreamType, InPlace, NothingMissing

LEMMA RestartSound ==
  ASSUME StreamSound, Restart
  PROVE  StreamSound'
<1>1. StreamType' /\ InPlace' /\ NothingMissing'
  BY Sizes DEF StreamSound, StreamType, Restart, Cleared, SILENT, InPlace, NothingMissing
<1>. QED
  BY <1>1 DEF StreamSound, Restart, Airborne

(* The reader moves its own counter and nothing else.                        *)
LEMMA ReaderSound ==
  ASSUME StreamSound,
         \/ \E offset \in Offsets : Align(offset)
         \/ Capture
         \/ \E frames \in Skips : SkipRead(frames)
  PROVE  StreamSound'
<1>1. /\ UNCHANGED <<next, air, rx>> /\ (aligned' => aligned \/ ~first)
      /\ \E to \in Int : nrd' = to % W
  <2>1. nrd \in Int /\ nwr \in Int /\ Offsets \subseteq Int /\ Skips \subseteq Nat
    BY Sizes, StreamParams DEF StreamSound, StreamType
  <2>2. CASE \E offset \in Offsets : Align(offset)
    <3>1. PICK offset \in Offsets : Align(offset)
      BY <2>2
    <3>2. nwr - offset \in Int
      BY <2>1
    <3>. QED
      BY <3>1, <3>2 DEF Align
  <2>3. CASE Capture
    <3>1. nrd + 1 \in Int
      BY <2>1
    <3>. QED
      BY <2>3, <3>1 DEF Capture
  <2>4. CASE \E frames \in Skips : SkipRead(frames)
    <3>1. PICK frames \in Skips : SkipRead(frames)
      BY <2>4
    <3>2. nrd + frames \in Int
      BY <2>1
    <3>. QED
      BY <3>1, <3>2 DEF SkipRead
  <2>. QED
    BY <2>2, <2>3, <2>4
<1>2. nrd' \in 0..(W - 1)
  BY <1>1, Sizes, Remainder
<1>. QED
  BY <1>1, <1>2 DEF rx, StreamSound, StreamType, Airborne, InPlace, NothingMissing

LEMMA StreamKeeps ==
  ASSUME StreamSound, [Next]_vars
  PROVE  StreamSound'
<1>1. CASE \E n \in Lengths, skip \in Skips, timed \in BOOLEAN : Send(n, skip, timed)
  BY <1>1, SendSound
<1>2. CASE \E packet \in air : Receive(packet)
  BY <1>2, ReceiveSound
<1>3. CASE Restart
  BY <1>3, RestartSound
<1>4. CASE \/ \E offset \in Offsets : Align(offset)
           \/ Capture
           \/ \E frames \in Skips : SkipRead(frames)
  BY <1>4, ReaderSound
<1>5. CASE UNCHANGED vars
  BY <1>5 DEF vars, rx, StreamSound, StreamType, Airborne, InPlace, NothingMissing
<1>. QED
  BY <1>1, <1>2, <1>3, <1>4, <1>5 DEF Next

LEMMA AlwaysStreamSound == Spec => []StreamSound
<1>1. StreamSound /\ [Next]_vars => StreamSound'
  BY StreamKeeps
<1>. QED
  BY StreamStarts, <1>1, PTL DEF Spec

(* The frames in the audio queue stand where the reader expects them, through *)
(* losses, repeats, overruns, wraps and restarts (netrx.cc, lfqueue.h).       *)
THEOREM AlwaysInPlace == Spec => []InPlace
<1>1. StreamSound => InPlace
  BY DEF StreamSound
<1>. QED
  BY <1>1, AlwaysStreamSound, PTL

(* Packets that follow each other leave no hole (netrx.cc).                   *)
THEOREM NothingIsMissing == Spec => []NothingMissing
<1>1. StreamSound => NothingMissing
  BY DEF StreamSound
<1>. QED
  BY <1>1, AlwaysStreamSound, PTL

(* Fresh packets and no others are written (Netrx::thr_main).                 *)
THEOREM FreshIsTaken == Spec => FreshTaken
<1>1. ASSUME StreamSound, NEW packet \in air, ~first, Receive(packet)
      PROVE  packet.start >= top <=> top' # top
  <2>1. air' \subseteq air /\ next' = next /\ UNCHANGED <<nrd, aligned>>
    BY <1>1 DEF Receive
  <2>2. CASE ReceiveNext(packet)
    BY <1>1, <2>1, <2>2, NextSound
  <2>3. CASE ReceiveLate(packet)
    <3>1. packet.start \in Int /\ top \in Int
      BY <1>1, DistanceExact
    <3>. QED
      BY <1>1, <2>3, <3>1, LateIsOld
  <2>. QED
    BY <1>1, <2>2, <2>3 DEF Receive, ReceiveFirst
<1>2. StreamSound =>
        [\A packet \in air : ~first /\ Receive(packet)
                             => (packet.start >= top <=> top' # top)]_vars
  BY <1>1
<1>. QED
  BY <1>2, AlwaysStreamSound, PTL DEF FreshTaken

(* The reader hears each frame in its turn (Jackrx::capture).                 *)
THEOREM ReadsInTurn == Spec => ReadInTurn
<1>1. ASSUME StreamSound, Capture, Signed(nwr - nrd) <= K
      PROVE  heard' \in {top - Signed(nwr - nrd), SILENT}
  <2>. DEFINE d == Signed(nwr - nrd)
  <2>1. /\ top \in Int /\ nwr \in Int /\ nrd \in 0..(W - 1) /\ nrd \in Int
        /\ K \in Nat \ {0} /\ W \in Nat \ {0}
        /\ ~first /\ nwr = top % W
    BY <1>1, Sizes DEF StreamSound, StreamType, Capture, InPlace
  <2>2. CASE ~(d > 0)
    BY <1>1, <2>2 DEF Capture, Ahead
  <2>3. CASE d > 0
    <3>1. nwr - nrd \in Int /\ (nwr - nrd) % W \in 0..(W - 1)
      BY <2>1, Remainder
    <3>2. d = (nwr - nrd) % W /\ d \in Int
      BY <2>1, <2>3, <3>1 DEF Signed
    <3>3. (top - ((nwr - nrd) % W)) % W = (top - (nwr - nrd)) % W
      BY <2>1, <3>1, RemainderOfDifference, Zenon
    <3>4. ((top + nrd) - (top % W)) % W = ((top + nrd) - top) % W
      <4>1. top + nrd \in Int
        BY <2>1
      <4>. QED
        BY <2>1, <4>1, RemainderOfDifference, Zenon
    <3>5. nrd % W = nrd
      BY <2>1, SmallRemainder
    <3>6. (top - d) % W = nrd
      <4>1. top - (nwr - nrd) = (top + nrd) - (top % W) /\ (top + nrd) - top = nrd
        BY <2>1
      <4>. QED
        BY <3>2, <3>3, <3>4, <3>5, <4>1
    <3>7. (top - d) % K = nrd % K
      <4>1. top - d \in Int /\ W % K = 0
        BY <2>1, <3>2, Sizes
      <4>2. ((top - d) % W) % K = (top - d) % K
        BY <2>1, <4>1, RemainderOfRemainder, Zenon
      <4>. QED
        BY <3>6, <4>2
    <3>8. top - d \in (top - K)..(top - 1)
      BY <1>1, <2>1, <2>3, <3>2
    <3>9. ring[(top - d) % K] \in {top - d, SILENT}
      BY <1>1, <2>1, <3>8 DEF StreamSound, InPlace
    <3>10. heard' = ring[nrd % K]
      BY <1>1, <2>3 DEF Capture, Ahead
    <3>. QED
      BY <3>7, <3>9, <3>10
  <2>. QED
    BY <2>2, <2>3
<1>2. StreamSound =>
        [Capture /\ Signed(nwr - nrd) <= K
           => heard' \in {top - Signed(nwr - nrd), SILENT}]_vars
  BY <1>1
<1>. QED
  BY <1>2, AlwaysStreamSound, PTL DEF ReadInTurn
=============================================================================
