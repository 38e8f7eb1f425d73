# A verification of zita-njbridge

zita-njbridge sends multichannel audio from one Jack server to others over a
network. `zita-j2n` reads Jack ports and sends UDP packets; any number of
`zita-n2j` receive them and write Jack ports on a clock of their own. There is
no handshake: a sender knows nothing of its receivers. Inside each program
three threads share lock-free queues and a few plain variables, and what keeps
them apart is mostly the order of their steps and time.

This directory holds TLA+ modules translated from `src/source/`, the TLC
configurations that check them, and proofs for the TLA+ proof system.
`PROJECT.json` maps each definition to the lines it stands for.

## The parts of the system

| Part | State it keeps | Operations | Talks to |
|---|---|---|---|
| Receiver: `main()` (zita-n2j.cc) | `stop`, the queues it allocates | wait for a descriptor, start a session, poll the info queue each 250 ms, end the session, exit | creates the other two; closes the socket, deletes the audio queue |
| Receive thread `Netrx` (netrx.cc) | `_state`, `_first`, a DLL (`_t0`, `_dt`) | one pass of its loop per packet: descriptor flags, suspend, samples, socket error | reads `commq`; writes `timeq`, `audioq` |
| Jack client `Jackrx` (jackrx.cc) | `_state` (IDLE ... FATAL), `_count`, `_freew`, two time points, a loop filter | `jack_process`, `jack_freewheel`, `jack_buffsize`, `jack_shutdown`, `start` | writes `commq`, `infoq`; reads `timeq`, `audioq`; resets three queues |
| Sender: `main()` (zita-j2n.cc) | `stop` | start, wake the transmit thread each 500 ms, poll the info queue, stop | as above |
| Transmit thread `Nettx` (nettx.cc) | a semaphore, `_stop` | one packet or one descriptor for each wake-up | reads `packq`, `timeq`; writes the network |
| Jack client `Jacktx` (jacktx.cc) | `_state` (INIT, SEND, SUSP, TERM), `_freew`, `_count`, `_tscnt` | the same callbacks | writes `packq`, `timeq`, `infoq`; posts the semaphore |
| Packets (netdata.cc) | the bytes of a packet | packets per period, headers, samples to bytes and back | used by both ends |
| Channel list (zita-n2j.cc, `readlist`) | the array of channels | parse the text of `--chan` | receive thread |
| Queues (lfqueue.h) | two free-running counters and a power-of-two ring | `wr_avail`, `wr_commit`, `rd_avail`, `rd_commit`, `reset` | one writer, one reader each |
| Semaphore (pxthread.h) | a counter; on OSX also a mutex and a condition | post, wait | Jacktx and `main()` post, Nettx waits |
| Threads (pxthread.cc) | none | create with a priority | |
| Time (timers.h) | none | differences of clocks that wrap | Netrx, Jackrx |
| Sockets (zsockets.*) | an address | look up, set the port, open for a host or a group, close | `main()` of both, who hand them to the network threads |
| External clock (syncrx.*, synctest.cc) | none that is used | its only use is commented out (jackrx.cc, `procsync`) | |

What is hard in it, and what would make it right:

* The Jack callback of the receiver *resets* queues the receive thread writes
  to (`initsync`, jackrx.cc:173). It commands the thread to wait, counts half a
  second of cycles, and trusts that the thread has seen the command, which it
  reads one at a time and only when a packet of samples arrives. *The thread
  must not be at work when the queues are reset, must not obey commands in the
  wrong order, and no record from before the reset may be taken for a new one.*
* All news of the receive thread reach the client through a queue that drops
  what it has no room for, and that is erased by the reset. *A thread that
  stopped must be noticed.*
* A session ends by a message from the Jack callback to `main()`, through
  another queue that drops. The audio queue is then deleted with the callback
  still running. *The end must be reported, and the queue not used after it.*
* Two threads wake the transmit thread, and a wake-up does not say what for.
  *No packet may be left behind, and descriptors must still get through.*
* A full transmit queue, a new period size, freewheeling or the end of the Jack
  server may come in the middle of anything. *The network must see whole
  periods, suspensions between them, and a last packet at the end.*
* *The packets of a period hold exactly that period.*
* Three clocks meet in the receiver: the sender's frame counter, the time Jack
  gives each packet, and the receiver's own frames, all of them wrapping. *What
  is heard is the right frame of the right channel, at a delay that is set once
  and stays, whatever is late, skipped or lost.*
* Sender and receiver convert samples in functions far apart. *Each format's
  bytes are put together the way they were taken apart.*
* The OSX semaphore signals only when its counter becomes one. *No post is lost
  and nobody sleeps on a count.*
* Two programs that never talk before must get sockets that meet. *The same
  address and port on both command lines are enough.*
* Packets are lost, repeated and reordered, all frame counters wrap, and the audio
  queue is written without a look at its fill state. *Each frame is heard in its
  turn or replaced by silence, and nothing of an earlier session is heard.*
* The queues have no locks. *They are FIFO queues, with their counters wrapping
  and either thread stopped in the middle of an operation.*
* Waits count cycles in integers: 0 and 1 matter.

## Modules

| Module | Models | Notes |
|---|---|---|
| `RxQueues` | the receiver's queues | bounded sequences; an element is what its reader branches on |
| `Netrx` | `Netrx::thr_main` | a packet of samples takes two steps: the command check, then the write |
| `Jackrx` | `Jackrx::jack_process` and the callbacks | one action for each way through a cycle |
| `Receiver` | `main()` of zita-n2j and the composition | specification, fairness, properties |
| `ReceiverProofs` | theorems about `Receiver` | |
| `TxQueues`, `Nettx`, `Jacktx`, `Sender` | the same for zita-j2n | a cycle that sends is cut at each commit and each post |
| `SenderProofs` | theorems about `Sender` | |
| `Stream`, `MCStream` | the frames of a session: sender's counter, network, `write_audio` and `write_zeros`, the audio queue, its reader | a frame is its number; the counters count modulo `W` |
| `StreamProofs` | theorems about `Stream` | |
| `Fifo` | what a queue promises | abstract: `Put`, `Get`, `Reset` |
| `Lfqueue`, `LfqueueProofs` | a ring of lfqueue.h with single elements | use and commit are steps of their own; shown to implement `Fifo` |
| `LfqInt32` | the same for `Lfq_int32` | count and use in the order of the compiled code |
| `Semaphore` | what `Pxsema` promises | abstract: `Post`, `Enter`, `Pass`; the POSIX one is taken to be this |
| `Pxsema` | the emulation with a mutex and a condition (pxthread.h) | each locked region in its steps, spurious wake-ups included; shown to implement `Semaphore` |
| `Handover` | Jack callback, `main()` and transmit thread around one ring and one semaphore | composes `Lfqueue` and `Pxsema` |
| `HandoverProofs` | theorems about `Handover` | |
| `Packetize`, `PacketizeProofs` | packets per period and the Bresenham loop | integers as they are |
| `Netdata` | header fields a receiver uses, `put_audio`, `get_audio` | samples are integers, bytes are digits to the base `Byte` |
| `ChanList` | `readlist()` | an item is a number and the separator before it |
| `Sockets` | address look-up, `set_port`, `opensocket` of both programs and the functions of zsockets.cc they call | a function that may fail has the set of its results |
| `Path`, `MCPath` | a session from the command lines to the ear | composes `Packetize`, `Netdata`, `ChanList` and `Sockets` with the Jack clients' and the receive thread's part in frames, times and delay |
| `PathProofs` | theorems about `ChanList`, `Netdata`, `Sockets`, `Path` | |
| `Arithmetic` | lemmas: products, remainders, least elements | used by every proof module |

State and code correspond by name: `jstate`, `count`, `freew` are `_state`,
`_count`, `_freew` of the Jack client; `npc` and `tpc` are program counters of
the network threads, `jpc` that of the sender's callback; `main`, `tick` and
`lag` are the place of `main()` and the time. In `Sender` a callback that reports
before `start()` has no queue to report to and the process is gone (`NullReport`,
`main` is "dead"). Definitions that begin with
"Mutant:" in their comment are the faulty variants each property is tried
against; no specification uses them.

History variables, which no guard of the program's reads: `nsync`
and the marks NEW and OLD of time points (for which synchronisation a record was
written), `wire` (the last packet sent), `since` (the age of a timestamp), `top`
and `gaps` of `Stream` (the frame after the last one written, and whether a packet
ever failed to follow the one before it). In `Stream` frames are numbered
without end and only the counters wrap, so that a frame in the wrong place shows.

How the modules fit together: `Receiver` and `Sender` use sequences for queues,
which `Lfqueue` justifies, and a counter for the semaphore, which `Pxsema` and
`Handover` justify. They follow states, commands and ends and leave the samples
out. `Stream` follows frames through a network that also reorders, over
sessions that overrun. `Path` follows one session whose receive thread was told
to start and has the content: samples, channels, formats, frame counts, times
and the delay; its network keeps the order but loses, repeats and delays.

Histories of `Path`: `since` (the first frame in the queue), `gone` (frames
skipped or lost), `shaken` (part of a period was lost), `heard` (the last period
written and when) and `err` (the last error of the predicted time).

### What is abstracted

* Audio: `dry` counts the cycles the client read since the thread last wrote.
  The samples and their frame counts are in `Stream`, one frame at a time; the
  resampler is a reader that takes a frame or a zero.
* In `Receiver` the delay error and the loop filter of `jack_process` decide
  whether to go on or to wait ten seconds: a choice in each cycle. In
  `Path` the error is computed as in the code, rounded to frames.
* In `Path` time is counted in frames and both cards have the same rate, so that
  the periods' length `_dt` needs no correction. The DLL's correction of a
  period's time is a choice between none and half the error, and
  the resampler uses a frame more or less than a period when the error has that
  sign. The resampler filter's own delay is 0.
* A sample is an integer; `Grain` values lie between two steps of the 24-bit
  format, and 16-bit and 24-bit steps are scaled by `Byte`. A float is the word
  of its bits.
* Sockets: what the resolver answers, which sockets other programs hold and
  which devices there are is given (`Wishes`); `bind()` and the delivery of a
  datagram are modelled from what the code asks of them and marked external.
  Hops, loop-back and routes are taken to be sufficient.
* The infos SYNC0 ... PROC2 are one value: `main()` only prints them.
* `CommqSize` guards the start of freewheeling: the code writes commands without
  looking for room and would wrap after sixteen unread ones.
* Stores become visible in the order of the program, as on x86; the counters
  of lfqueue.h are plain integers without fences.
* In `Netrx` the records of a suspension, an end or an error are written and
  committed in one step (netrx.cc:195-203), so a reset of the time queue
  (jackrx.cc:173-175) between the two is not seen; `QuietReset` is about packets of
  samples, which take two steps.
* SIGINT before `signal()` (zita-j2n.cc:257) kills the sender without a goodbye; the
  model has it from `start()` on.
* A counter that has passed the value it is compared with stays there (`CountUp`).

### Time

The programs count on sleep times, so the models say how many Jack cycles fit
in each: `PacketLag` (a packet in the receive thread's hands), `PollCycles`
(250 ms in the receiver, 500 ms in the sender), `DrainCycles` (100 ms from
closing the socket to deleting the queue; the thread is assumed to leave
`recv()` two cycles before), `QuitCycles` (the deletions at exit). They appear
in `JackMayRun`, and `MainDrained` ends the 100 ms at `DrainCycles`. `NetKeepsUp` says that the transmit thread is idle when a
cycle begins; without it the thread has any speed. The sender's `MainExit`
waits for the thread instead of counting its 100 ms: it has one send left.

## Runs

| Run | Question | Bounds and why |
|---|---|---|
| `rx_session` | sessions one after another, with any packets, errors, SIGINT and the end of Jack | queues of 2, 4 and 6 fill and drop; 16 periods per second give waits of 8, 4 and 32 cycles, longer than `PacketLag` + `PollCycles`; `DryLimit` 2 and skips of a cycle starve the queue |
| `rx_freewheel` | a sender that stays, freewheeling and period size changes in a session | as above |
| `rx_sender_ends`, `rx_freewheel_idle` | what the manual says, see below | as above |
| `tx_session` | the sender with a thread of any speed or none, and every callback, before `start()` too | two packets per period in a queue of three fill it in mid-period; at `SemMax` 2 `main()` waits for the thread, or its wake-ups are not counted when there is no thread; after `StampMax` 1 unread timestamps no more are counted; `InfoqSize` 4 holds the infos of `PollCycles` cycles |
| `tx_steady` | the sender with a thread that keeps up | a queue of two is a full period; four cycles per second, two per poll |
| `tx_stamp` | the timestamp clock | the counter starts with 0 or with two seconds' worth |
| `stream` | the frames over a bad network | counters modulo 8 and a queue of two frames: with `MaxFrames` 11 the counters wrap and the queue overruns; `MaxGap` 3 and `Late` 3 keep every distance below half the counters' range, which the program takes for granted with 2^31 |
| `lfqueue` | are the ring a FIFO queue and the emulated semaphore a semaphore, and does every packet get from the callback to the thread (module `Handover`) | a ring of four, counters modulo 8, so that they wrap and the ring fills; `SemMax` 3 lets posts of both threads pile up; the theorems remove all three |
| `path` | is the right frame of the right channel heard, at the right time; is the list right; do the sockets meet; are periods split right | see below |
| `path_loss` | does a lost packet leave the timing alone | fails, see below; no lateness and no jitter, so that nothing else moves it |
| `lfq_int32` | is `Lfq_int32`, as compiled | fails, see below |

The sessions of `path` (`MCPath`): each of 78 channel lists, right and wrong; each
of 289 pairs of command lines (no name, a host, somebody else's host, a
group, either family; ports 0, 1, the largest and one more; no device, a known one, an
unknown one; no other programs, one that holds the second port, other receivers
of the group); and three sessions that are followed for `MCTime` 19 frames, each
with another format, list, number of channels and pair of periods. `W` and
`Clock` are 64 and the counters begin at 20 or 52, shortly before they wrap or
change sign; sessions need less than half of them at once. The
ring has 32 places, and each session passes its end. `Late` and `Jitter` are one
frame, `Skips` two,
and one fault (`MaxFaults`) of any kind may happen at any time. A byte has 16
values and a step four grains, so that sign, clipping and every byte matter. The
extra buffering is the receiver's period and what can be late (`Late` +
`Jitter`): with less there are holes, which is what `Uninterrupted` is about.

`InfoqSize` is large enough in every receiver run for the infos of `PollCycles`
cycles, as 256 is in the program from 64 frames per period on; with less,
`EndReported` does not hold (a hazard in `PROJECT.json`). So it is in the sender's:
with 2 `FatalEnds` does not hold, since the end of Jack is reported once. All the
sender reports before are suspensions and resumptions, so in the program this takes
eight periods of freewheeling in half a second (16 slots).

Restrictions of the passing runs, each by a constant:

* `FreewheelAt`, `ResizeAt`, `ShutdownAt` leave out the client states in which
  a callback is known to break it: freewheeling in IDLE (`rx_freewheel_idle`)
  or after the session's end, a resize before a session, the end of Jack
  before one has begun. A resize in a
  session is in `rx_freewheel` only: together with SIGINT it leaves FATAL standing in
  a client whose queues are deleted (`QueuesAlive`).
* `FatalStops` starts from an error record the client is about to read. One that
  is written while the client waits is erased as TERM is in `rx_sender_ends`, and one
  that took the last slot is lost to the restart. In `rx_session` it is about such
  records, in `rx_freewheel` about resizes, which freewheeling may overwrite.
* `SigintAt` leaves out WAIT in `rx_session`: the queues are deleted before the
  client, and a wait that ends in between uses them. The window is a few
  deletions wide.
* `QueuesAlive` excepts a client that is `Deaf`, the consequence of
  `rx_sender_ends`: a TERM record is erased, the session hangs, and a SIGINT then
  meets a client that still synchronises.
* `ThreadRefused` (a thread that is not created; nobody looks, zita-n2j.cc:383 and
  nettx.cc:47) in `rx_session` and `tx_session`. The receiver's client waits
  in SYNC0 for ever, as in `rx_sender_ends`; no property says otherwise. The sender
  fills its queue and ends (`MissingThreadEnds`), unless Jack freewheels, but sends
  nothing: `SuspendSent` and `GoodbyeSent` ask for a thread.
* `FatalEnds` begins with `start()`: before it a new period size is forgotten and the
  end of Jack is a crash, see below.
* `SocketsMeet` is about names whose first address is an IPv4 one (`GoodWish`).
* `QuietReset` and `TimesFresh` except one packet obeyed under a command that
  was withdrawn right behind it (`nsync = "held"`).

### Properties

Receiver: `CommandsInOrder`, `JackWillNotice`, `QueuesAlive`, `TimesFresh`
(invariants), `QuietReset` (action), `EndReported`, `FatalStops`,
`SilenceNoticed`, `WaitEnds`, `SyncCompletes` (liveness). Sender: `NoLostWakeup`,
`SuspendAnnounced`, `StampsFit` (invariants), `WholePeriods` (action), `SuspendSent`,
`FatalEnds`, `MissingThreadEnds`, `GoodbyeSent`, `DescriptorsFlow` (liveness). Packets: `SplitFits`,
`SplitEven`. Frames: `InPlace`, `NothingMissing` (invariants),
`FreshTaken`, `ReadInTurn` (actions). Queues and semaphore: `ImplementsFifo`,
`ImplementsSemaphore` (refinements), `PacketsCounted`, `NeverAsleepOnCount`,
`PacketsTaken` (liveness). The path: `InTime`, `Uninterrupted`, `DelayKept`,
`TimesUndisturbed`, `ListExact`, `SocketsMeet`. `SplitExact` (which `SplitEven` implies)
and `ListFits` are proved for every value of the constants and in no run. Each
program has one type invariant. The comment at
each property says what it is about.

### Fairness

`FairSpec` of both programs: Jack calls back as long as its server runs,
`main()` wakes up from `usleep`, a thread that has a packet in its hands gets on
with it, and `recv()` returns when the socket is closed. Nothing is assumed of
the sender or the user. `LiveSpec` of the receiver adds a sender that stays:
timed packets arrive again and again in order (strong fairness, since the
client's commands come and go), and freewheeling ends. It is used for
`SyncCompletes` and `WaitEnds` only.

`HandFairness` of `Handover`: a callback that has stored a packet commits it and
posts, a post of `main()` that has begun ends, and the thread goes on when it can,
under strong fairness, since other threads may hold the mutex again and again.
Nothing makes the callback or `main()` begin, so that `PacketsTaken` cannot lean
on later posts. `Path` and `Stream` are about safety and have no fairness.

### What the code does not do

Five runs are expected to fail, each against a sentence of the manual or of a
comment, with the trace TLC prints:

* `rx_sender_ends`: a sender that ends while the receiver's client is in WAIT
  leaves a TERM record that `initsync` erases. The thread is gone, the client
  stays in SYNC0, and no later sender is received. A FAIL record of the thread is
  erased the same way, and the program then does not end.
* `rx_freewheel_idle`: `jack_freewheel` leaves IDLE for WAIT, and a quarter of a
  second later the client resets and reads queues that do not exist.
* `tx_stamp`: `_tscnt` is not initialised; "periodic" timestamps may be written in
  every cycle, into a queue of four without a look, or not for hours.
* `lfq_int32`: `wr_int32` stores with `_data [_nwr++ & _mask] = v`, and GCC with the
  Makefile's options stores the counter first. A reader in between takes
  what the slot held before, and the command that was written is lost. The other
  queues use and commit in separate calls and are right.
* `path_loss`: the time of missing frames is added to the predicted time of the
  next period wherever they are missing, but that time already counts the whole
  period once its first packet is taken. A packet lost in the middle of a
  period moves the prediction by its length. Lost periods do no harm
  (`TimesUndisturbed`).

Other disagreements met while modelling, without a run of their own:

* `src/README.md:18` and `zita-njbridge.1:38` promise IPv6. The receiver looks up
  `AF_INET` only (zita-n2j.cc:299), so an IPv6 address is refused; for a name
  with both kinds the sender may take the IPv6 one and the two never meet. The
  functions of zsockets.cc for IPv6 receivers are never reached.
* The second port is the first plus one: 0, that is any free port, for 65535.
* Periods longer than a quarter of a second: `_ppsec / 4` is 0 and the wait never
  ends (jackrx.cc:332).
* The delay aimed at is `--buff` alone, not with the two periods.
* Samples are clipped after the conversion to an integer, and negative ones
  are rounded the other way than positive ones: a sample may be off by one
  and a half steps, which is what `InTime` allows.
* `sock_open_passive` returns 0 instead of its socket; it has no caller.
* With an `--mtu` too small for a frame the sender divides by 0 (netdata.cc:58);
  `PacketSizes` and `ASSUME` leave this out.
* More than sixteen unread commands overwrite each other (jackrx.cc:164).
* Other programs' frame counts more than 2^31 ahead are taken for old ones
  (netrx.cc:153); `MaxGap` and `W` of the models stay below this.
* Both clients are active some time before `start()`. In the receiver a resize
  before a session sets a state that `start()` overwrites (jackrx.cc:157), and the end
  of Jack before the first one reports to a null queue (jackrx.cc:295). In the sender,
  active from jacktx.cc:70 on and at least 100 ms before `start()`, a resize is
  overwritten too (jacktx.cc:144) unless a cycle comes in between; that cycle, or the
  end of Jack, reports to a null queue (jacktx.cc:151) and the process is gone.
* Neither program looks whether its network thread was created (zita-n2j.cc:383,
  nettx.cc:47). The receiver then hangs in SYNC0; the sender's queue overflows,
  and it ends without a goodbye to its receivers.

## Proofs

TLAPS proves, for every value of the constants that satisfies the named
assumptions:

* `ReceiverProofs!TypeCorrect`, `SenderProofs!TypeCorrect`: the type invariants, with
  the bounds of the queues.
* `ReceiverProofs!CommandsAreInOrder`: `CommandsInOrder` is inductive with
  `TypeOK`; each step of the client either appends WAIT, resets and writes PROC,
  or leaves the queue, and each step of the thread removes the head or leaves it.
* `ReceiverProofs!StopsAreNoticed`: `NoticeInv` adds that once the client has
  synchronised the command queue holds at most the one PROC, and that a thread
  that is gone is not active. A stop then always leaves a mark or meets a full
  queue, and the client notices both.
* `ReceiverProofs!ResetsAreQuiet`, assuming `RestartSecs > 0` and `PacketLag <
  QuarterSec`: `QuietInv` relates the age of the packet in the thread's
  hands (`lag`) to the cycles the client has waited (`count`): a thread at work
  when the wait began is done before it ends.
* `ReceiverProofs!TimesAlwaysFresh`, with the same two assumptions: `FreshInv` says that
  a thread which has not read the latest command yet holds no packet and has the
  command before it, so that no record it writes is an old one, and that the
  time points read so far are new. It leans on all the invariants above: the queue is
  empty when synchronisation begins, the thread is not in the middle of a packet,
  and the only command is the one to start.
* `ReceiverProofs!QueuesOutliveTheirUse` is about the deletions without a lock. Its
  assumptions are the delays of the code, `DelaysFit` (250 ms and 100 ms and the
  deletions are together less than the half second of a wait, and the 100 ms
  have two cycles), and the restrictions of `rx_session`: no
  freewheeling, no resize, no SIGINT in WAIT, for the reasons given there; Jack may go
  away at any time. `AliveInv` follows the end of a session in its order: a thread
  that is gone has left a mark (`HasMark`), the client has two cycles to read and
  to report it (`EndsInTime`), its last word is in the queue once and makes it
  idle (`LastWord`), between sessions it is idle (`IdleBetween`), and a wait under
  way when the program ends is longer than the delays that are left (`WaitsLong`,
  with `Elapsed` for the time since the last poll that saw nothing).
* `SenderProofs!NoWakeupIsLost`: `WakeInv` counts: the packets in the queue are
  never more than the wake-ups left, the one under way and the one about
  to be posted together.
* `SenderProofs!PeriodsAreWhole`, `SuspensionsAreAnnounced`: `FlowInv` says that, until
  the goodbye, the queue is a path of `Follows` from the last packet sent to the next
  one the callback will put, and that a suspended client's packet ends that path.
* `SenderProofs!StampsAlwaysFit`: the timestamp queue is written without a look, and
  never overflows if there is a thread and it keeps up (`ThreadRefused`, `NetKeepsUp`), `main()` polls at least
  once a second, and `_tscnt` begins with less than a second's frames, which nothing
  in the code sees to (`tx_stamp`). `StampInv` says that at most one timestamp is
  unread, and that while it is, either a wake-up without a packet (`Spare`) is on
  its way to the thread or `main()` has not polled since it was written.
* `PacketizeProofs!SplitIsExact`, `SplitAlwaysFits`, `SplitIsEven`: `Sound` says
  that Bresenham's error is `npack * sum - j * bsize` and lies within the
  remainder's distance of 0; the rest is integer division.
* `LfqueueProofs!Implements`: a ring implements `Fifo`, for every size that divides
  the counters' range and is at most half of it. `Sound` says that the difference
  of the counters is at most the size, that a writer that has stored has a
  free slot, and that a reader that has loaded still finds its element there.
  The slot behind the last element is none of those in use, since fewer than
  `K` places in a row have different remainders.
* `StreamProofs!AlwaysInPlace`, `NothingIsMissing`, `FreshIsTaken`, `ReadsInTurn`:
  `StreamSound` says that every packet in the air and the last frame written are
  less than half the counters' range behind the sender, so that the sign of a
  wrapped difference is the true one (`DistanceExact`), and that a write puts each
  frame at its number modulo `K` and leaves the others alone (`Written`). Assumed:
  the distances the network may cause stay below half the range (`StreamParams`; with
  32 bits and 48 kHz, twelve hours), and `K` divides `W`.
* `HandoverProofs!HandImplementsFifo`: with semaphore and threads around it the
  ring is still a `Fifo`, by the invariant of `LfqueueProofs`.
* `HandoverProofs!PacketsAlwaysCounted`, `NeverAsleep`, `OneInside`, `HandCounts`: the
  inductive invariant is that the mutex belongs to exactly the thread that is inside
  (`SemMutex`), that a thread asleep sees a zero counter, where the callback and the
  thread are when a packet has no count (`Placed`), and that packets never
  outnumber counts plus the one owed and the one the thread is past wait() for. From
  it every step of the emulation maps to a step of `Semaphore` or a stutter.
* `PathProofs!ListAlwaysExact`, `ListAlwaysFits`: `ListSound` says what the items read
  so far have put into the list.
* `PathProofs!PathSplits`: the division of periods is right in the composed system,
  whose steps are steps of `Packetize` or stutter.
* `PathProofs!SampleRoundTrip`, `FloatRoundTrip`, `SamplesSurvive`: decoding an
  encoded sample, for every `Byte` and `Grain`; the last is the bound `InTime` uses for
  the two integer formats, and the float is exact by the second.
* `PathProofs!PutThenGet`: `get_audio` reads the place `put_audio` wrote, decoded, and
  nothing else in the packet has changed, for every number of channels and every
  offset. The places are products; that two of them do not meet is `PlacesApart`.
  It is the step of `Sampled`, the loop over the channels.
* `PathProofs!SocketsAlwaysMeet`: `SocketsSound` says what each program's set-up may have
  found so far: the same family and address (`FirstAnswer`, since both take the first
  answer of the resolver and `GoodWish` makes it an IPv4 one), two different ports that are free
  (`TwoPorts`), and a bind that succeeds for a host and for a group. Assumed:
  `SocketsParams`, that is that nobody calls the wild-card address his own.
* `PathProofs!TimesStayUndisturbed`: the time `Netrx::thr_main` predicts for a period is
  that of the sender to within the network's jitter. `TimesSound` follows the frames:
  the part of a period received last, the parts on the network and the part sent
  next form a `Chain`, in which each part is the one before it again (a repeated
  packet), goes on where that one ended, or begins a period after a whole one, and
  every frame left out between them is counted as missing. From this the gap the
  receiver computes from two wrapped counters is the true one (`GapExact`), and a
  prediction is that of the part received last plus what it was late, on the
  circle of the clock (`Received`); an error is then the difference of what
  two packets were late (`ErrorExact`), which corrections only make smaller. Assumed:
  twice the jitter is less than the clock's range (71 minutes), and no fault
  (a lost packet, a late cycle) costs more than `g` frames, where `MaxFaults + 1`
  times `g` is less than half the range of the counters. Sessions may be of any
  length: only what is missing counts, over 12 hours of it at 48 kHz. A lost part of a
  period is excepted (`shaken`), which is the finding of `path_loss`.
* `PathProofs!DelayStaysKept`: once `Jackrx::jack_process` has set the delay it finds no
  error in any cycle. `DelaySound` joins what three parties know of the same frames. The
  receive thread: all times it has predicted or queued are those of the
  sender `late` by the same amount, since with a jitter of at most a frame the loop never
  corrects (`Reading`, `ReceiveReads`). The client: its two time points, counts and times alike,
  belong to the starts of two periods of the sender, the later one being the
  last one queued and read, and its place in the queue is where the delay asks for
  (`Follower`). Time: no cycle is more than `Behind(g)` frames from the sender's
  (`Clocks`, `Reached`). The quotient of `DelayError` is then exact: both its
  differences are read off a circle but less than half of it (`CircleExact`), and the
  points lie on one line (`RoundedExact`, `DelayFound`). Assumed: a skip and both
  periods are at most `g` frames, and what can be missing, late and buffered at once is less
  than half the range of the counters and of the clock (35 minutes of 32-bit
  microseconds); and a jitter of at most a frame. With three frames the loop does correct, and
  TLC finds an error of a frame, which is the resampler's to remove.
* `PathProofs!HeardStaysInTime`: every frame written to the client's ports is, on each channel
  of the list, what the sender's channel carried the delay and at most the jitter ago,
  or silence. A packet carries what the channels did from its frame on (`Carried`), which
  is the loop over the channels (`SampledSounds`, from `PutThenGet`) and the formats
  (`SamplesSurvive`, `FloatRoundTrip`). Every frame before the end of what was received is
  at its number modulo the size of the queue, or silence is (`RingHolds`): a write of
  a packet and of the silence before it falls into one or two pieces of the ring each
  (`AudioWritten`), which together leave what `Taken` says (`RingWritten`). The reader's
  place is the one `Follower` gives it, and the number of frames it finds is read
  off two wrapped counters and is the true one when it matters (`FramesHeard`).
  Assumed beyond `DelayStaysKept`: bytes with room for the samples as 8 bits have, a queue
  that divides the counters' range, as a power of 2 does, with room for what is late.
  It holds until a part of a period is lost (`shaken`); after that `InTime` allows two
  periods of displacement, which is TLC's.
* `PathProofs!SilenceIsExplained`: while no part of a period is lost, silence is heard only
  for frames that were lost or skipped (`gone`), were before the session (`since`), or whose
  cycle of the sender can only be skipped.
  `RingHolds` allows silence in place of the first two (`Lacking`), and once lacking a frame
  stays so (`MissingStays`). A frame behind what was received is lost or in a packet on
  its way (`Covered`), so what the receive thread jumps over in a gap are frames
  that never come (`RingBehind`), as is what was before the first packet (`SilenceTakes`);
  a packet counts as repeated only when all of it is behind.
  If the client read past the end of what was received, into the silence of
  `Lfq_audio` for frames still on their way, their packet would by then be later than
  `Late` and `Jitter` allow (`SilenceMissing`, from `Clocks` and `OnTime`). And no frame
  of a channel that is sent sounds like silence (`SoundIsHeard`), so silence is told
  from sound. Assumed beyond `HeardStaysInTime`: the extra buffering (`--buff`) is
  at least the receiver's period and what cycles and packets are late; it, the sender's
  period and these are less than half the counters' range; full scale is 32 steps of an
  integer format or more; and the list names a channel that is sent (`SomeSent`).

Only model-checked: `InTime` after a part of a period is lost, and all liveness
properties, which are out of this prover's reach. Of `ImplementsSemaphore` the
steps are proved (`HandCounts`) and the fairness is TLC's. `Reset` of a queue is covered by
the proof of `LfqueueProofs!Implements` and by `Stream`; `Handover` has none.

## Not modelled, and the plan

What could follow, in this order:

1. Theorems: a bound of the delay's error by a larger jitter.
2. `Receiver` with a sender that behaves as `Sender` does in place of the free
   choice of packets, so that `SyncCompletes` assumes less about what arrives.

Left out for good: the options but for the address, the port, the device and the
channel list; the resampler (a library) and the filters of the two loops
(reals); the descriptor's numbers and NTP times, which are printed; memory
ordering of the processor; `syncrx` and synctest, which nothing starts; the
parts of zsockets.cc and pxthread.h without a caller (stream sockets, buffer sizes,
`trywait`) and for Windows; priorities of threads.
