--------------------------------- MODULE Path ---------------------------------
(***************************************************************************)
(* Audio and time from the sender's Jack cycles to the receiver's: a session  *)
(* of one sender and one receiver, after the receive thread was told to      *)
(* start.  The sender divides a period into packets (Packetize), the samples  *)
(* become bytes (Netdata), packets are delayed or lost, the receive thread    *)
(* fills the audio queue and times the periods, and the Jack client computes  *)
(* the delay from these times, sets it once and reads the channels of its    *)
(* list (ChanList).  Both programs have set up their sockets before (Sockets). *)
(*   Time is counted in frames; both cards have the same rate, so that the    *)
(* resampler has nothing to do unless the delay is wrong.  A frame is known   *)
(* by the time at which the cycle that sends it would start.                *)
(***************************************************************************)
EXTENDS Packetize, Netdata, ChanList, Sockets, SequencesExt

CONSTANTS
  W,            \* frame counts are taken modulo W, 2^32 in the program
  Clock,        \* and times modulo Clock, 2^32 microseconds
  MinQueue,     \* the smallest audio queue, 256 frames
  Sessions,     \* who sends what to whom
  Late,         \* a cycle runs at most this much behind its start
  Jitter,       \* a packet takes at most this long
  Skips,        \* the times a cycle starts late by, after an xrun
  MaxFaults     \* bound: packets lost or repeated and cycles skipped

ASSUME PathParams ==
  /\ {W, Clock, MinQueue} \subseteq Nat \ {0} /\ W % 2 = 0 /\ Clock % 2 = 0
  /\ {Late, Jitter, MaxFaults} \subseteq Nat /\ Skips \subseteq Nat \ {0}
  /\ \A s \in Sessions :
       /\ s.list \in Texts /\ s.wish \in Wishes /\ s.nchan \in Channels
       /\ s.form \in Formats /\ Bytes(s.form) \in SampleBytes
       /\ s.tx_fsize \in Periods /\ s.psmax \in PacketSizes
       /\ s.bsize \in Nat \ {0} /\ s.buff \in Nat
       /\ {s.phase, s.count, s.clock, s.time} \subseteq Nat

VARIABLES
  session,
  now,          \* the time
  \* the sender's Jack client
  count,        \* _count
  tx_tnext,     \* _tnext, when the next cycle is due
  dtime,        \* how far the current one ran behind, for its first packet
  air,          \* packets sent
  \* the receive thread
  first,        \* _first
  t0,           \* _t0, the predicted time of the next period
  err,          \* the last error of this prediction
  nwr, ring,    \* the audio queue
  timeq,        \* time points
  \* the receiver's Jack client
  sync,         \* 0, 1, 2 for SYNC0 ... SYNC2, and TRACKING from PROC1 on
  rx_first,     \* _first
  rx_tnext,     \* _tnext
  points,       \* _k_a0, _t_a0, _k_a1, _t_a1
  nrd,
  heard,        \* the last period it wrote and when
  \* histories
  since,        \* the first frame in the queue
  gone,         \* frames skipped and lost
  shaken,       \* a part of a period was lost
  faults

txvars  == <<count, tx_tnext, dtime>>
rxvars  == <<first, t0, err, nwr, ring, since>>
jrxvars == <<sync, rx_first, rx_tnext, points, nrd, heard>>
pathvars == <<session, now, vars, listvars, sockvars, txvars, air, rxvars, timeq,
              jrxvars, gone, shaken, faults>>

TRACKING == 3
NEVER    == -1

-----------------------------------------------------------------------------
(* Numbers                                                                 *)

OnCircle(n, size) == IF n % size < size \div 2 THEN n % size ELSE (n % size) - size

(* int32_t.                                                                *)
Signed(n) == OnCircle(n, W)

(* The time of Jack's clock, cut to 32 bits.                                *)
tjack(t) == OnCircle(session.clock + t, Clock)

(* Mutant: a plain difference.                                              *)
PlainDiff(a, b) == a - b

tjack_diff(a, b) == OnCircle(a - b, Clock)

(* Rounded to the nearest frame.                                            *)
RoundedRatio(a, b) == (2 * a + b) \div (2 * b)

(* main(): the queue holds both periods and the extra buffering twice.       *)
k_buf == session.tx_fsize + session.bsize + session.buff
QueueSize ==
  Min({k \in {MinQueue * 2^n : n \in 0..20} : k >= 2 * k_buf})

(* Mutant: a period of the sender less.                                     *)
k_delShort == session.buff - session.tx_fsize

(* main(): the delay the client aims at is the extra buffering alone.         *)
k_del == session.buff

-----------------------------------------------------------------------------
(* What the sender's channels carry: frames and channels told apart, samples  *)
(* of either sign, between the steps and beyond full scale.                 *)
Step == R(IF session.form = FM_16BIT THEN FM_16BIT ELSE FM_24BIT) \div 32 + 1

Signal(chan, frame) ==
  LET size == Grain * Step * (1 + ((session.nchan * frame + chan) % 32)) + (frame % Grain)
  IN  IF (frame + chan) % 2 = 0 THEN size ELSE -size

-----------------------------------------------------------------------------
(* The sender                                                              *)

Running ==
  /\ txat = "up" /\ rxat = "up" /\ Meet
  /\ now < session.time
Skipped(skip) == skip \in Skips /\ faults < MaxFaults

(* Jacktx::jack_process of the cycle due at tx_tnext or skip frames later.    *)
TxCycle(skip) ==
  LET start == tx_tnext + skip
  IN  /\ Running
      /\ Period
      /\ skip = 0 \/ Skipped(skip)
      /\ now \in start..(start + Late)
      /\ count' = (count + start - tx_tnext) % W
      /\ tx_tnext' = start + bsize
      /\ dtime' = now - start
      /\ gone' = gone \cup tx_tnext..(start - 1)
      /\ faults' = IF skip = 0 THEN faults ELSE faults + 1
      /\ UNCHANGED <<session, now, listvars, sockvars, air, rxvars, timeq, jrxvars, shaken>>

(* The samples of every channel from a frame on, one channel behind the other. *)
Sampled(packet, start) ==
  LET Samples(chan) == [i \in 1..packet.nfram |-> Signal(chan, start + i - 1)]
      put[n \in 0..packet.nchan] ==
        IF n = 0 THEN packet ELSE put_audio(put[n - 1], n - 1, 0, Samples(n - 1))
  IN  put[packet.nchan]

(* They go into the data, and the header stays.                              *)
Filled(packet, start) == [packet EXCEPT !.data = Sampled(packet, start).data]

(* One turn of its loop: the frames from sum on.                             *)
TxPacket ==
  LET start == tx_tnext - bsize + sum
      empty == init_audio_data(IF j = 0 THEN {FL_TIMED} ELSE {}, session.form,
                               session.nchan, count, nfram', dtime)
  IN  /\ Running
      /\ Packet
      /\ air' = Append(air,
           [packet |-> Filled(empty, start), frame |-> start, due |-> now + Jitter])
      /\ count' = (count + nfram') % W
      /\ dtime' = 0
      /\ UNCHANGED <<session, now, listvars, sockvars, tx_tnext, rxvars, timeq, jrxvars,
                     gone, shaken, faults>>

-----------------------------------------------------------------------------
(* The network keeps the order.                                             *)

Lose ==
  /\ Running
  /\ air # <<>>
  /\ faults < MaxFaults
  /\ LET lost == Head(air)
     IN  /\ gone' = gone \cup lost.frame..(lost.frame + lost.packet.nfram - 1)
         /\ shaken' = (shaken \/ lost.packet.nfram # bsize)
  /\ air' = Tail(air)
  /\ faults' = faults + 1
  /\ UNCHANGED <<session, now, vars, listvars, sockvars, txvars, rxvars, timeq, jrxvars>>

Repeat ==
  /\ Running
  /\ air # <<>>
  /\ faults < MaxFaults
  /\ air' = <<Head(air)>> \o air
  /\ faults' = faults + 1
  /\ UNCHANGED <<session, now, vars, listvars, sockvars, txvars, rxvars, timeq, jrxvars,
                 gone, shaken>>

-----------------------------------------------------------------------------
(* The receive thread                                                      *)

Silence == [n \in DOMAIN chlist |-> 0]

(* k frames of a packet from offs on, in the places behind at, no further     *)
(* than the end of the ring.  Channels that are not sent are silent.         *)
Copy(frames, at, packet, offs, k) ==
  LET audio == [n \in DOMAIN chlist |->
                  IF chlist[n] < packet.nchan THEN get_audio(packet, chlist[n], offs, k)
                  ELSE [i \in 1..k |-> 0]]
      begin == at % QueueSize
  IN  [p \in DOMAIN frames |->
         IF p \in begin..(begin + k - 1)
         THEN [n \in DOMAIN chlist |-> audio[n][p - begin + 1]]
         ELSE frames[p]]

(* Mutant: the rest is copied from the start of the packet.                 *)
WriteFromStart(frames, at, packet) ==
  LET k == Min({QueueSize - (at % QueueSize), packet.nfram})
  IN  Copy(Copy(frames, at, packet, 0, k), at + k, packet, 0, packet.nfram - k)

(* Up to the end of the ring, then the rest from its start.                  *)
write_audio(frames, at, packet) ==
  LET k == Min({QueueSize - (at % QueueSize), packet.nfram})
  IN  Copy(Copy(frames, at, packet, 0, k), at + k, packet, k, packet.nfram - k)

write_zeros(frames, at, dc) ==
  [p \in DOMAIN frames |-> IF (p - at) % QueueSize < dc THEN Silence ELSE frames[p]]

(* The loop corrects a small part of the error, less than half of it, in      *)
(* whole frames; its period does not change by one.                         *)
Corrections(e) == IF e >= 0 THEN 0..(e \div 2) ELSE (-((-e) \div 2))..0

(* Mutant: the time of missing frames is not added.                         *)
NoTimeAdded(dc) == 0

TimeOf(dc) == dc

(* The packet's frames behind dc frames of silence, with the period's time.   *)
Take(packet, base, dc, time) ==
  /\ nwr' = (base + dc + packet.nfram) % W
  /\ ring' = write_audio(write_zeros(ring, base, dc), base + dc, packet)
  /\ IF FL_TIMED \in packet.flags
     THEN /\ timeq' = Append(timeq, [count |-> (base + dc) % W, tjack |-> time])
          /\ t0' = tjack_diff(time, -bsize)
     ELSE /\ timeq' = timeq
          /\ t0' = time

Receive ==
  /\ Running
  /\ air # <<>>
  /\ LET packet == Head(air).packet
         tr == tjack(now) - packet.dtime
         dc == Signed(packet.count - nwr)
         timed == FL_TIMED \in packet.flags
         e == tjack_diff(tr, t0 + TimeOf(dc))
     IN  \/ /\ first /\ ~timed
            /\ UNCHANGED <<rxvars, timeq>>
         \/ /\ first /\ timed
            /\ first' = FALSE
            /\ Take(packet, packet.count, 0, tr)
            /\ since' = Head(air).frame
            /\ UNCHANGED err
         \/ /\ ~first /\ dc < 0
            /\ UNCHANGED <<rxvars, timeq>>
         \/ /\ ~first /\ dc >= 0
            /\ err' = IF ~timed THEN err
                      ELSE IF e > bsize THEN bsize ELSE IF e < -bsize THEN -bsize ELSE e
            /\ \E c \in IF timed THEN Corrections(err') ELSE {0} :
                 Take(packet, nwr, dc, t0 + TimeOf(dc) + c)
            /\ UNCHANGED <<first, since>>
  /\ air' = Tail(air)
  /\ UNCHANGED <<session, now, vars, listvars, sockvars, txvars, jrxvars, gone, shaken, faults>>

-----------------------------------------------------------------------------
(* The receiver's Jack client                                              *)

(* The time points after the queue was read: the last one before, and the     *)
(* last one in it.                                                         *)
PointsRead ==
  IF timeq = <<>> THEN points
  ELSE [k0 |-> points.k1, t0 |-> points.t1, k1 |-> Last(timeq).count, t1 |-> Last(timeq).tjack]

(* How much longer the delay is than it should be, with the reader at at.     *)
DelayError(p, start, at) ==
  Signed(p.k0 - at) - k_del
    + RoundedRatio(Signed(p.k1 - p.k0) * tjack_diff(tjack(start), p.t0),
                   tjack_diff(p.t1, p.t0))

(* Frames used for a period: the resampler speeds up when the delay is too    *)
(* long, and slows down when it is too short.                              *)
Used(e) ==
  {session.bsize} \cup
    (IF e > 0 THEN {session.bsize + 1} ELSE IF e < 0 THEN {session.bsize - 1} ELSE {})

(* Frames not written yet are taken for silence.                            *)
capture(at, used) ==
  LET avail == Signed(nwr - at)
      Frame(i) == ((i - 1) * used) \div session.bsize
  IN  [i \in 1..session.bsize |->
         IF Frame(i) < avail THEN ring[(at + Frame(i)) % QueueSize] ELSE Silence]

RxCycle(skip) ==
  LET start == rx_tnext + skip
      nskip == IF rx_first THEN 0 ELSE start - rx_tnext
      at    == nrd + nskip
      p     == PointsRead
      state == IF timeq # <<>> /\ sync < 2 THEN sync + 1 ELSE sync
      e     == IF state >= 2 THEN DelayError(p, start, at) ELSE 0
  IN  /\ Running
      /\ skip = 0 \/ Skipped(skip)
      /\ now \in start..(start + Late)
      /\ rx_first' = FALSE
      /\ rx_tnext' = start + session.bsize
      /\ points' = p
      /\ timeq' = <<>>
      /\ \/ /\ state < 2
            /\ sync' = state
            /\ nrd' = at % W
            /\ heard' = <<>>
         \/ /\ state = 2                \* the delay is set
            /\ sync' = TRACKING
            /\ heard' = [start |-> start, error |-> 0,
                         frames |-> capture(at + e, session.bsize)]
            /\ nrd' = (at + e + session.bsize) % W
         \/ /\ state = TRACKING
            /\ sync' = TRACKING
            /\ \E used \in Used(e) :
                 /\ heard' = [start |-> start, error |-> e, frames |-> capture(at, used)]
                 /\ nrd' = (at + used) % W
      /\ faults' = IF skip = 0 THEN faults ELSE faults + 1
      /\ UNCHANGED <<session, now, vars, listvars, sockvars, txvars, air, rxvars, gone, shaken>>

-----------------------------------------------------------------------------
(* Time passes until something is due, but not while the sender is in its     *)
(* loop.                                                                   *)
SkipsLeft == IF faults < MaxFaults THEN {0} \cup Skips ELSE {0}

Tick ==
  /\ Running
  /\ j = npack
  /\ now < tx_tnext + Max(SkipsLeft) + Late
  /\ now < rx_tnext + Max(SkipsLeft) + Late
  /\ air # <<>> => now < Head(air).due
  /\ now' = now + 1
  /\ UNCHANGED <<session, vars, listvars, sockvars, txvars, air, rxvars, timeq, jrxvars,
                 gone, shaken, faults>>

-----------------------------------------------------------------------------
(* The sender has just started a cycle; the session begins when the list is    *)
(* read and both programs are set up.                                       *)
PathInit ==
  /\ session \in Sessions
  /\ given = session.list
  /\ wish = session.wish
  /\ ListInit
  /\ SocketsInit
  /\ now = 0
  /\ bsize = session.tx_fsize
  /\ room = FramesPerPacket(session.psmax, Bytes(session.form), session.nchan)
  /\ j = 0 /\ sum = 0 /\ nfram = 0 /\ bdiff = 0
  /\ count = session.count
  /\ tx_tnext = session.tx_fsize
  /\ dtime = 0
  /\ air = <<>>
  /\ first = TRUE
  /\ t0 = 0
  /\ err = 0
  /\ nwr = 0
  /\ ring = <<>>
  /\ timeq = <<>>
  /\ sync = 0
  /\ rx_first = TRUE
  /\ rx_tnext = session.phase
  /\ points = [k0 |-> 0, t0 |-> 0, k1 |-> 0, t1 |-> 0]
  /\ nrd = 0
  /\ heard = <<>>
  /\ since = NEVER
  /\ gone = {}
  /\ shaken = FALSE
  /\ faults = 0

ReadList ==
  /\ ListNext
  /\ UNCHANGED <<session, now, vars, sockvars, txvars, air, rxvars, timeq, jrxvars,
                 gone, shaken, faults>>

(* A receiver that has its sockets gets an audio queue.                      *)
SetUp ==
  /\ TxSetUp \/ (verdict = "good" /\ RxSetUp)
  /\ ring' = IF rxat' = "up" THEN [p \in 0..(QueueSize - 1) |-> Silence] ELSE ring
  /\ UNCHANGED <<session, now, vars, listvars, txvars, air, first, t0, err, nwr, since,
                 timeq, jrxvars, gone, shaken, faults>>

PathNext ==
  \/ ReadList \/ SetUp
  \/ \E skip \in {0} \cup Skips : TxCycle(skip)
  \/ TxPacket \/ Lose \/ Repeat \/ Receive
  \/ \E skip \in {0} \cup Skips : RxCycle(skip)
  \/ Tick

PathSpec == PathInit /\ [][PathNext]_pathvars

-----------------------------------------------------------------------------
(* Without correction of the period's time the delay is k_del and that of one *)
(* packet on the network.                                                  *)
Swing == IF shaken THEN 2 * bsize ELSE 0

(* What may be heard in frame i of the last period.                         *)
Due(i) == {heard.start + i - 1 - k_del - d : d \in (-Swing)..(Jitter + Swing)}

(* Clipped to full scale, and off by at most a step and a half.              *)
SoundsAs(x, y) ==
  LET full == Grain * R(session.form)
      clip == IF x > full THEN full ELSE IF x < -full THEN -full ELSE x
  IN  IF session.form = FM_FLOAT THEN y = x ELSE 2 * (y - clip) \in (-3 * Grain)..(3 * Grain)

Carries(row, frame) ==
  \A n \in DOMAIN chlist :
    IF chlist[n] < session.nchan THEN SoundsAs(Signal(chlist[n], frame), row[n]) ELSE row[n] = 0

(* Every frame heard is, on each channel of the list, what that channel of the *)
(* sender carried a fixed time ago, or silence: whatever packets it came in,   *)
(* wherever the queue and the counters wrapped, however late either cycle    *)
(* ran and whatever was skipped.                                           *)
InTime ==
  heard # <<>> =>
    \A i \in DOMAIN heard.frames :
      heard.frames[i] = Silence \/ \E f \in Due(i) : Carries(heard.frames[i], f)

(* A cycle that can only start late has skipped what was before.             *)
Missing(f) == f \in gone \/ f < since \/ (now > tx_tnext + Late /\ f >= tx_tnext)

(* Silence is heard for frames that were lost or skipped or sent before the   *)
(* session, and for no others, when the extra buffering is the receiver's      *)
(* period and what cycles and packets are late, as in the sessions followed   *)
(* (the fill of the audio queue, Jackrx::capture).                         *)
Uninterrupted ==
  heard # <<>> /\ ~shaken =>
    \A i \in DOMAIN heard.frames :
      heard.frames[i] = Silence => \E f \in Due(i) : Missing(f)

(* Once set, the delay needs no correction: the two time points, the clock and *)
(* the two counters agree in every cycle, through skips and wraps. This is for a *)
(* network whose jitter is no more than a frame, where the prediction is left    *)
(* alone; more jitter moves the points, and the loops have work to do.        *)
DelayKept == heard # <<>> /\ ~shaken => heard.error = 0

(* Neither skipped cycles nor lost periods nor late senders disturb the        *)
(* prediction of the next period's time; only a part of a period does.       *)
TimesUndisturbed == ~shaken => err \in (-Jitter)..Jitter

(* "Occasional lost packets will not impact the synchronisation or             *)
(* resampling" (zita-njbridge.1): Netrx::thr_main finds no more error in the  *)
(* time of a period than the network's jitter.                             *)
LossHarmless == err \in (-Jitter)..Jitter
=============================================================================
