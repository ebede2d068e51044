# BFG-I, verified: TLA+ models of the DOOM satellite and its ground station

BFG-I runs DOOM on a satellite and plays it from the ground. The satellite
program renders frames, encodes them with x264 and sends them as RTP over UDP;
the ground program decodes and shows them, reads the keyboard and sends its
state back over UDP; a monitor counts the traffic of both. This directory holds
models of the parts of these programs that carry state, the runs of the model
checker TLC over them, and proofs that the TLA+ proof system checks.

Paths such as `satellite/uplink.c` are relative to `src/`; `doom/` stands for
`satellite/doom/src/`. `PROJECT.json` maps every definition to its lines.

## 1. The system and its parts

    satellite process                                     ground process
    ┌───────────────────────────────────────────┐         ┌───────────────────────┐
    │ main thread: start, signals, join         │         │ one thread:           │
    │                                           │         │  input_poll           │
    │ DOOM thread            encoder thread     │  RTP    │  receiver_poll        │
    │  I_FinishUpdate ─ring─► read, x264 encode ├────────►│   FU-A, libavcodec    │
    │  I_GetEvent  ◄─uplink_poll  downlink_send │         │  display_present_frame│
    │  TryRunTics, NetUpdate                    │◄────────┤  keyboard, 20 Hz      │
    └───────────────────────────────────────────┘  UDP    └───────────────────────┘
                     monitor: counts the packets of both directions

| Component | Code | State | Operations | Module |
|---|---|---|---|---|
| Frame ring | `satellite/ringbuffer.c` | 3 slots with a status, pixels and a number; write and read index; frame counter; palette | `ringbuffer_init`, `_update_palette`, `_write_frame` (DOOM thread), `_read_frame` (encoder thread) | `RingBuffer`, abstract: `FrameQueue` |
| Uplink | `satellite/uplink.c`, `doom/d_event.c`, the input part of `doom/i_video.c` | previous bitfield, key queue, last enqueued event and its time, DOOM's event ring, held keys | `uplink_poll`, `uplink_pop_key`, `D_PostEvent`, `D_ProcessEvents`, `G_Responder`, `G_DoLoadLevel` | `Uplink` |
| Ground input | `ground/input.c` | keyboard snapshot, time of last transmission | `input_poll` | `InputLink` (with `Uplink` and the network) |
| Downlink | `satellite/downlink.c`, `satellite/encoder.c` as its source | RTP sequence number, place in the frame being sent | `downlink_send_nals` | `Downlink` |
| Ground receiver | `ground/receiver.c` | reassembly buffer, RGB buffer, decoder | `receiver_poll`; its start and end in `GroundMain` | `Receiver` |
| Video path | the two above and the link | packets on the wire | | `VideoLink` (`Rtp` holds what both ends share), abstract: `NalPipe` |
| Satellite process | `satellite/main.c` | three threads, `g_running`, what is open | start, `signal_handler`, encoder loop, joins | `SatelliteMain` |
| Ground process | `ground/main.c`, `ground/display.c`, start and end of `receiver.c` and `input.c` | what is open, `g_running`, place in the loop | start, loop, signals, window, shutdown | `GroundMain` |
| Tic loop | `doom/d_loop.c`, `doom/i_timer.c`, `doom/doom/d_main.c` | clocks, tics built and run, ring of commands | `NetUpdate`, `BuildNewTic`, `TryRunTics`, `D_StartGameLoop` | `TicLoop` |
| Network monitor | `monitoring/monitor.py` | counters of an interval and in total | capture, export, Ctrl+C, report | `Monitor` |
| Encoder wrapper | `satellite/encoder.c` | x264 context | `encoder_init`, `encoder_encode_frame`, `encoder_shutdown` | in `Downlink` and `SatelliteMain` |
| Rest of the DOOM engine | `satellite/doom/` | Chocolate Doom, vendored | | only where the program relies on it |
| `common/src/*`, `common/include/net_common.h`, `scripts/` | | none: TODO stubs and shell scripts | | not modelled |

### How they interact

* The DOOM thread and the encoder thread share the ring and nothing else. There
  is no lock: a slot's atomic status decides whose it is.
* The DOOM thread runs the tic loop. Each tic built (`BuildNewTic`) calls
  `I_StartTic`, which polls the uplink socket, then `D_ProcessEvents`. The mutex
  of the key queue has one user: producer and consumer are the same thread.
* The two programs are joined by two UDP ports. Nothing is acknowledged or sent
  again, except that the ground sends its whole keyboard 20 times a second.
* `SIGINT` and `SIGTERM` clear `g_running` in each process. Both programs are
  compiled with `-std=c99` and `_POSIX_C_SOURCE`, for which `signal()` has the
  System V semantics: a handler serves once, the second signal of a kind kills.
* The monitor's two threads share `TrafficStats` under a lock.

### What is hard, and what makes each part correct

* **Ring** (interleaving, order, limits): two threads are never in one slot; what
  is read is what was published, whole and in order; a drop means full; the
  reader never starves beside a frame; whatever is published is read.
* **Uplink** (limits of two queues, suppression of repeats, loss): the engine
  knows what the last packet says; no key stays down on its own; the ground's
  repetition makes up for loss and reordering.
* **Video path** (boundaries of sizes; loss, doubling, overtaking; partial
  failure): without faults it is a FIFO pipe of whole units; bytes of one unit
  never get in front of another; damage ends at the next key frame; the picture
  on the screen is the newest.
* **The two processes** (partial failure of the start, signals at any moment,
  threads that cannot be stopped): what was opened is closed; the loops stop
  within a round; the process ends.
* **Tic loop** (a clock that goes on between any two steps, an int that
  overflows, a ring of commands): every tic runs with its own command; the
  synchronisation error is never raised; time that passes makes the game move.
* **Monitor** (interleaving, a join that times out, two names for each port): every
  packet is in exactly one interval; the report is complete and names the right
  ports (it does not); Ctrl+C stops it.

`PROJECT.json` lists these as hazards, each at its line, with the properties that
cover them.

## 2. Modules

| Module | What it is |
|---|---|
| `FrameQueue` | abstract specification: a bounded FIFO of frames that may refuse a frame only when full |
| `RingBuffer` | the ring, one step per access to a shared variable |
| `Uplink` | the satellite's end of the control path, with any packets coming in |
| `InputLink` | `Uplink` with the keyboard, `input_poll`, a lossy reordering link and the socket |
| `NalPipe` | abstract specification: a FIFO pipe of whole NAL units that may fail once |
| `Rtp`, `Downlink`, `Receiver`, `VideoLink` | shared definitions, sender, receiver, and the two joined by a faulty link |
| `SatelliteMain`, `GroundMain` | start, loop, signals and end of the two processes |
| `TicLoop` | the loop that drives the DOOM thread |
| `Monitor` | capture and export threads of the monitor |
| `RingBufferProofs`, `UplinkProofs` (with `InputLink`), `VideoLinkProofs`, `SatelliteMainProofs`, `GroundMainProofs`, `TicLoopProofs`, `MonitorProofs` | their proofs |
| `VideoChainProofs` | the proofs about `VideoLink` that need to know which unit each packet belongs to: `DecoderGetsNals`, `LossEndsAtKeyFrame`, `RefinesNalPipe` |
| `MC*` | instances for TLC; each has one or two `.cfg` files |

Operators that change a definition the way a bug would are marked `Mutant:` and
stand before the definition they change. No specification uses them; each one
makes the property it is paired with in `PROJECT.json` fail.

### RingBuffer

The steps of `ringbuffer_write_frame` are `WriteAcquire` (index load and
successful CAS), `WriteDrop` (failed CAS), `WriteCopy` (part by part),
`WriteNumber`, `WriteReady` (status store), `WriteAdvance` (index store); the
reader mirrors them. Loading an index and the CAS that follows are one step,
because each index is stored only by the thread that loads it. The two status
stores and the two index stores are separate steps: between them the other
thread sees a slot that is free while the index still points at it.
C11 atomics with the default order are sequentially consistent, so an
interleaving of these steps is what the code can do; the plain accesses to
pixels, number, counter and palette are ordered by them, and `SlotExclusion`
is what makes this so. A pixel is `[src, pal]`: which rendered frame it comes
from and in which palette it was converted. A poll that finds nothing changes
nothing and is a stuttering step. `accepted`, `lost` and `delivered` are history.

`RefinesFrameQueue` maps the queue to the occupied slots from the read index on;
the queue's steps happen at the READY store, the drop and the EMPTY store.

### Uplink and InputLink

A tic goes `tic → recv ⇄ bits → pop → respond → tic`. `Recv` takes any packet:
in `Uplink` the link is as bad as it can be. `process_bit` handles one bit per
step. `Enqueue` has the three outcomes of `enqueue_key_event` (repeat
suppressed, queue full, stored); time is the flag `fresh`, which `DedupExpires`
may clear at any moment, so every relation between event times and 120 ms is
covered. `Post` is `D_PostEvent`, which does not check for room: the post that
fills the ring empties it. `Respond(eaten)` covers menus and other responders
that take a press; during a demo `G_Responder` also ignores releases.
`LoadLevel` forgets the held keys, `TitleScreen` does not. `seen` is history:
what the engine was told, before any responder; `lost` is 1 once an event was
lost to one of the two queues. The clock is assumed to work (`clock_gettime`
does not fail), and DOOM is not started with a demo to store (`storedemo`, which
turns input off).

`InputLink` adds the ground. The player touches keys, `input_poll` sends a
snapshot, the link loses and reorders, `Deliver` puts a packet into the socket
and a poll reads the socket until it is empty. Packets are delivered between
polls, which take far less than the 50 ms between two packets.

### Video path

A byte is a triple (frame, unit, position), so a buffer shows what it is made of
and "whole" is an equality. `SendSingle` and `SendFragment` are one `sendto`
each; `SendFails` ends the call as the code does. `Receive` is one turn of the
loop in `receiver_poll`. libavcodec is modelled from outside: a whole unit it can
decode exactly if it has the parameter sets and the picture before; anything
else it may refuse or conceal. `got_frame` and `rgb_buffer` are the code's;
`shown` is what `display_present_frame` showed last.

The link may lose a packet (`Lose`), deliver one before the one sent before it
(`Overtake`) and deliver one twice (`Duplicate`); with a `sendto` that fails these
are the four `Faults`. `damaged` is history: the frames a fault has touched. The
receiver never looks at `rtp.seq`, so it joins fragments in the order in which
they arrive, and all properties after a fault are about what this can do.

The start codes matter and are modelled: x264 writes `00 00 00 01` for the first
unit of a frame and for parameter sets, `00 00 01` otherwise.
The third branch of the receiver (types 1 to 23, no start code) is never
reached, because every unit x264 makes in Annex B form has a start code.

`NalPipe` is what the path promises: units go in frame by frame (`Put`) and come
out one by one (`Take`) until the link fails (`Fail`). `RefinesNalPipe` maps the
pipe to the units offered that will reach the decoder and have not yet: `Encode`
is a `Put`, the `Receive` that hands over a unit is a `Take`, the first fault is
the `Fail`, and everything else stutters.

### SatelliteMain and GroundMain

In `SatelliteMain`, `main`, `doom` and `encoder` are the places of the three
threads. `CreateEncoder` ends `main`'s part: whether the thread was created or
not it goes on to join the DOOM thread, which never returns (`D_DoomLoop` is a
`while (1)`), so the code after that join cannot be reached and has no action.
`Exit` is `I_Quit` or `I_Error`, at any moment. `late` counts the frames sent
after `g_running` was cleared.

`GroundMain` is one thread: `Try(place, gets, next, closes, failing)` is a step of
the start that opens `gets` or fails, closes what its own function opened and
jumps to where `main` closes the rest. `Malloc` is a step of its own because one
of the two buffers may be there without the other. The loop tests `g_running`,
polls the input (a closed window makes `input_poll` return before it sends),
receives until the socket is empty, and presents a picture or sleeps. `sws_ctx`
is opened by the first picture. Both modules handle signals alike: `caught`
holds those that were handled once. SDL installs handlers of its own only for
signals that have none. It would meet one only if a signal came before `SDL_Init`;
the second signal of that kind would then close the window instead of killing
the program, and the models, which let it kill, allow more than the code there.

### TicLoop

`at` is the place of the DOOM thread and `back` where it returns to after
`NetUpdate`, which is called from six places; a call is `NetUpdate` (the clocks),
one `BuildNewTic` per command, `BuiltAtLast`. `TryRunTics` is `Enter`, `Count`,
`Wait`, `Recheck` and `RunTic`. Between any two steps the clock may `Tick`. A
command is known by the tic it was built for. `I_GetTime` and `GetAdjustedTime`
keep their widths: the first computes with unsigned numbers, the second with
ints, whose overflow is undefined; the model has what the multiplication
instruction leaves. The satellite's game has one player and no server: `ticdup`
is 1, and net games, drones and `-singletics` have no actions. `looked` and `due`
are history.

### Monitor

`main` is the capturing thread (scapy's `sniff` calls `packet_callback`, then
`stop_filter`, once per packet) and `export` the daemon thread that takes an
interval, writes it or fails to. `lock` is the lock of `TrafficStats`: a method
takes it with its first step and frees it with its last, and the other thread
may do anything else in between. `packet_callback` and `AddTotal` are
`add_uplink` and `add_downlink`, which change the interval and then the total;
`Wake` and `Reset` (`Final` and `FinalReset` for the report) are
`get_and_reset_interval`, which reads and then clears. Without the lock a packet
that comes between the two is lost (`packet_callback_unlocked`). Bytes are counted
exactly as packets are and left out.

`captured` counts by port, all the rest by direction. `Direction` is the
assignment that `packet_callback` calls inverted: what goes to port 5000 is counted
as downlink, and what goes to 5001 as uplink. `PortNamed` is the port that the
report and the tags of the points name for a direction: 5000 for uplink, 5001 for
downlink. The two do not agree (see below). `captured`, `written`, `lost` and
`unsent` are history.

## 3. Runs

| Run | Specification | Instance | Result |
|---|---|---|---|
| `ring` | `FairSpec` | N = 3, 2 parts, counter modulo 4, 2 palettes, 6 frames | 29,433 states, all hold |
| `uplink` | `Spec` | 2 keys, 1 weapon, both queues of size 3 | 2,631,772 states, all hold |
| `uplink_weapon` | `Spec` | 2 keys, 2 weapons, queues of 4 | `WeaponFollowsSelection` violated |
| `input_link` | `LinkSpec` | 2 keys, 3 changes, 2 packets in flight, queue 6, ring 8 | 743,608 states, holds |
| `video` | `FairSpec` | packets of 4 bytes, numbers modulo 4, 3 frames, all four faults | 728,207 states, all hold |
| `video_small` | `Spec` | the same, 2 frames, no faults | `SmallNalsAreDecoded` violated |
| `satellite` | `FairSpec` | 4 frames | 511 states, all hold |
| `satellite_shutdown` | `FairSpec` | 1 frame | `ShutdownCompletes` violated |
| `ground` | `FairSpec` | a socket of 2 packets | 2,276 states, all hold |
| `monitor` | `FairSpec` | 4 packets | 39,791 states, all hold |
| `tics` | `FairSpec` | ring of 4, 2 clock units a tic, 7 tics, int up to 127 | 81,044 states, all hold |
| `tics_overflow` | `Spec` | the same, int up to 7 | `TicsAreBuilt` violated |

### The properties

* Ring: `SlotExclusion`, `ReadInOrder`, `DropOnlyWhenFull`, `PollFindsFrame`,
  `PublishedIsRead`, `RefinesFrameQueue`; `IInv` is the inductive invariant of
  the proofs, checked here first, as in `uplink`.
* Uplink: `EngineFollowsPackets` (between tics the engine has been told exactly
  what the last packet says, unless a queue overflowed), `NoStuckKeyUnlessLost`
  (in a game no key is held that the last packet does not hold, whatever menus,
  demos and levels did), `EventsAreChanges`.
* Control path: `EngineCatchesUp` (repetition makes up for loss and reordering).
* Video: `DecoderGetsNals`, `PacketsAreNumbered` and `RefinesNalPipe` until the
  first fault; `NothingLeftOver` (no bytes of one unit in front of another, unless
  of a damaged frame), `LossEndsAtKeyFrame`, `ScreenIsCurrent`, `NewestIsShown`
  whatever happens.
* Satellite: `ResourcesMatchThreads`, `StopsWithinAFrame`, `EncoderStops`.
* Ground: `ClosesWhatItOpens`, `StopsWithinARound` (one picture and one packet at
  most after the end was asked for; none of the held keys after the window was
  closed), `StopsWhenTold`.
* Tic loop: `RunsOwnCommand`, `NoSyncError`, `TicsAreBuilt`, `BuiltIsRun`.
* Monitor: `EveryPacketInOneInterval`, `PointsAddUp`, `FinalIsComplete` (for each
  direction the report agrees with the points, and together its numbers are all
  packets captured; it says nothing of ports), `StopsOnCtrlC`.

### What the violations show

1. **Ctrl+C does not end the satellite** (`ShutdownCompletes`). `main` waits for
   the DOOM thread, which never looks at `g_running`. The video stops, the
   process stays until the game itself quits or a second Ctrl+C kills it.
   `main.c:68` and `README.md:175` say otherwise.
2. **Small key frames are lost without any loss** (`SmallNalsAreDecoded`). The
   slice of a key frame follows SPS and PPS and so has the short start code; if
   it fits in one packet (1464 bytes) the receiver takes neither branch for it.
   Until the next key frame that is large enough the decoder lacks its reference.
3. **The lowest weapon selected wins** (`WeaponFollowsSelection`). The "single
   pulse" of `uplink.c:176` is a press that is never released.
4. **After 17 hours the game stands still** (`TicsAreBuilt`). `time_ms * TICRATE`
   leaves the int range; the time jumps back, `NetUpdate` puts the jump into
   `skiptics`, and no tic is built again. The uplink is then not read either.

Three more have no run of their own:

5. **The monitor's report names the wrong ports** (`ReportNamesTheOtherPort`).
   `monitor.py:100-103` counts what goes to port 5000 as downlink and what goes
   to 5001 as uplink. The report prints the uplink's number as "Uplink (port 5000)"
   and the downlink's as that of port 5001 (`:234`, `:237`), and the points are
   tagged likewise (`:148-149`, `:163-164`). The comment before the assignment
   (`:97-98`) and `monitoring/README.md:9-10` and `:247` give the ports this meaning
   too. So a viewer of "Downlink (video)" sees the key presses. This is not a
   matter of an unlucky interleaving, it is so for any traffic: theorem `Swapped`
   of `MonitorProofs` proves it.
6. **A full queue loses a key change for good.** The packet that caused the
   event becomes the previous one all the same, so no later packet makes up for it
   until the key changes again: the condition `lost = 0` of the uplink's properties.
7. **Nothing looks at the sequence number.** `docs/ARCHITECTURE_CHOICES.md:139`
   has it for the "detección de pérdidas y reordenamiento", but `receiver_poll`
   unpacks `rtp.seq` and never reads it. Fragments are joined in the order in which
   they arrive; the `damaged` of the video path's properties says how far this goes.

### Where the texts and the code differ

The models follow the code.

* Input is said to be sent only when it changes (`README.md:74`,
  `docs/ARCHITECTURE_CHOICES.md:99` and `:174`, `ground/input.h:42`,
  `monitoring/README.md:147`). `input.c:184-188` sends the bitfield 20 times a
  second, changed or not. `EngineCatchesUp` depends on it: were a packet sent only
  on a change, one lost packet would leave a key stuck.
* ESC is said to end the ground station (`ground/input.h:41`, `:48`). In
  `input.c` it is one of the keys sent; only a closed window (`SDL_QUIT`) or a
  signal ends the loop, so `GroundMain` has no action for ESC.
* Ctrl+C, the small key frames, the weapon pulse, the overflow of time, the ports of
  the report and the sequence number: items 1 to 5 and 7 above.

### Bounds, and why they are enough

* `ring`: three slots as in the code. Six frames fill the ring, drop one, go round
  it twice and wrap the counter (modulo 4). Two parts are enough to see a frame
  mixed of two. The proofs remove all these bounds.
* `uplink`: two keys and a weapon fill a queue of two places with the changes of
  one packet; both queues overflow within a poll or two. Packets are unbounded in
  number, since nothing in the state counts them. Bound in the module: one event
  that does not come from the uplink before and one after each poll.
* `input_link`: the queues are sized so that three changes and two packets in
  flight cannot fill them, because overflow is the subject of `uplink`.
  Two packets in flight are enough to be reordered.
* `video`: a packet of four bytes with fragments of two; units of 3, 4, 5 and 6
  bytes give a single packet, an exactly full packet, two exactly full
  fragments, and a short last fragment. Three frames are a key frame, as x264
  begins, one that may be damaged, and one to show what the damage does. A frame
  is encoded when at most `MaxInFlight` packets are on the wire, so packets of two
  frames meet. `Overtake` and `Duplicate` happen only where they damage a frame
  not yet damaged; several of them still combine across frames, and with loss.
  The proofs about `VideoLink` have no bound on sizes and packets.
* `satellite`: two late frames would already violate `StopsWithinAFrame`.
* `ground`: two packets let a poll go on after a picture, and a socket refilled
  without end.
* `tics`: the clock counts twice a tic, so that it may pass within a call or
  between calls; seven tics use each place of the ring of four again and let a
  stall of five tics (`MAX_NETGAME_STALL_TICS`) end. 127 holds every product of
  the run, 7 none after half of it.
* `monitor`: four packets spread over both directions and up to four intervals.

### Fairness

* `ring`: weak fairness of the encoder thread and of the DOOM thread once inside
  `ringbuffer_write_frame` (no step blocks). Nothing forces DOOM to render. The
  encoder thread polls as long as `g_running` is set: `PublishedIsRead` is about that
  time, and what is in the ring when the loop ends stays there.
* `input_link`: weak fairness of `input_poll` until the station is closed (the
  loop of `ground/main.c`), of the DOOM thread (it runs tics for ever) and of
  the clock; strong fairness of `Deliver`: a link that is used again and again
  lets a packet through. Nothing is assumed of a single packet.
* `video`: weak fairness of the satellite (encoding and sending) and of the
  ground loop; strong fairness of `Receives`, since polls come and go. The link
  may still lose any packet before it is received.
* `satellite`: weak fairness of `main` and of the encoder thread. Signals, `exit`
  and the game are free.
* `ground`: weak fairness of `main`, strong fairness of `PollEnd`. `receiver_poll`
  returns only once the socket is empty, so `StopsWhenTold` has the premise that
  it is empty again and again; the code does nothing to ensure it.
* `tics`: weak fairness of the DOOM thread. The clock is free, it may even stop.
* `monitor`: weak fairness of both threads and of the traffic: without another
  packet `stop_filter` is not called and the capture does not end. This is an
  assumption about the network, stated because the code needs it.

Deadlock checking is off where a bound ends the behaviour (`ring`, `video*`,
`tics*`, `input_link` after its station is closed) or the process ends
(`satellite*`, `ground`, `monitor`), and on for `uplink*`.

## 4. Proofs

`tlapm` proves the following for every value of the constants that satisfies the
named assumptions: `RingAssumption` (N, Parts and CounterMod are positive
naturals, the grayscale palette is a palette), `UplinkAssumption` (some key, some
place in each queue), `RtpAssumption` (a fragment holds a byte, access units are
non-empty sequences of units of at least two bytes, and `OnePicture`: each holds
one picture, a key picture after parameter sets, as `i_threads`,
`b_sliced_threads` and `b_repeat_headers` of `encoder.c:135-153` make x264 do),
`TicLoopAssumption` (`BACKUPTICS >= 3`, positive rates), and naturals for the
bounds of the others.

**RingBufferProofs.** `Invariance` (`Spec => []IInv`), and from it `TypeCorrect`,
`Exclusion`, `Order`, `Room`, `NoMiss` and `Refinement` (`Spec =>
RefinesFrameQueue`). None of the properties is inductive by itself: that two
threads are not in one slot depends on where every published frame lives.
`IInv` numbers the published frames from 0 and says:

* `IndexInv`: frame k lives in slot k modulo N; both indices are the numbers of
  published and of taken frames modulo N, behind by one while an index store is
  pending; at most N frames are in the ring;
* `StatusInv`: each slot's status follows from that and from the two threads' places;
* `ContentsInv`: the slots of published, untaken frames hold exactly these frames;
* `WriterInv`, `ReaderInv`: what the two copies have done so far;
* `ReadInOrder` itself.

The proof takes one step per action and, under it, one per conjunct the action
disturbs; facts about residues (`i % N` differs for distinct numbers less than N
apart) are lemmas at its start. The refinement maps the initial state and
each action to a step of `FrameQueue` or to a stutter.

**UplinkProofs.** `Invariance`, `TypeCorrect`, `Follows`, `NotStuck` and the action
property `Changes`. `EngineFollowsPackets` speaks of the moment between two tics;
the invariant says why, in every state between. `Pending` is the event ring
followed by the key queue, `Target` the keys of the packet compared so far (bits
below `bit` from the new packet, the others from the previous one). For every
key, `Leads` says that the last pending event about it, if any, makes it what it
is in `Target`, and otherwise it is so already; `Alternates` says that every
pending event about it is a change. `LastInv` is why de-duplication suppresses
nothing that matters: what it compares with is what the key is like by now.
Both are lemmas about appending and removing an event, used once per action.

`LinkImplements` (`LinkSpec => Spec`) carries all of this over to the whole control
path: on the link and in the socket are packets of the kind `Uplink` takes
(`WayInv`; a snapshot is one, because among the weapon keys held there is a
lowest), every step of the link or the player leaves the satellite alone, and every
other step is one of `Uplink`. `Settled` is what follows for the player, the safety
half of `EngineCatchesUp`: whenever the packet compared last is what the keyboard
says now, the engine has been told of exactly the keys held. That such a packet
arrives is the liveness half and stays with TLC.

**VideoLinkProofs.** `Invariance`, `TypeCorrect`, `Numbered`, `Current` from `IInv`:
until the first fault the packet sent last carries the number before
`rtp_seq_number` and the marker exactly if its frame is complete; a picture not
yet shown is one of the poll under way. `NothingLeft` has an invariant of its
own, `LeftInv`, which quantifies over the places of the wire: the fragment at
each place carries some bytes `from .. to` of a unit offered, and, unless it is
the first of its unit or its frame is damaged, the bytes `1 .. from - 1` come
`Preceded`: they are in the buffer if the place is the first, and end in the packet
one place ahead otherwise. The sender's next fragment is preceded in the same
way by the end of the wire (`SenderInv`). Losing, doubling and overtaking a packet
disturb only places whose predecessor is of the same frame, which the fault
damages; receiving a packet turns the "packet ahead" into the "buffer" of the next
place (`HeadFills`), with lemmas about joining byte ranges. Where the packet is the
last fragment of a sound frame, `HeadAssembles` says that the decoder is then given
the unit, whole.

**VideoChainProofs.** `DecoderGets`, `LossEnds` and `PipeRefinement` (`Spec =>
RefinesNalPipe`). What the decoder has been given is a statement about the
receiver, what it should have been given one about the encoder, and between the two
is a wire on which packets are lost, doubled and overtaken; the invariant `PathInv`,
inductive together with `IInv` and `LeftInv`, joins them:

* `OrderInv`: the units offered are in the order of frames, the last of them are
  those that the sender still holds;
* `PicturesInv`: each frame has one picture, a key picture after parameter sets;
* `ChainInv`: each packet on the wire is (part of) a unit offered, and each, and behind
  the last one the sender, goes on where the packet ahead of it leaves off
  (`Onward`), or, if it is the first, where the receiver stands: `At(u)`. The
  receiver stands at place u if it was given the units before u that reach the
  decoder and no others (`GivenAt`), knows the parameter sets of u's frame
  (`HeadersAt`), and holds the picture that u's needs (`RefAt`). The chain may be
  broken only where a fault has touched u's frame or the frame of the unit before;
* `LossEndsAtKeyFrame` itself.

No weaker statement is inductive: that nothing is missing when the wire is empty
follows only if each packet knows its predecessor, and that a damaged frame does
not spoil the next key frame only if the chain starts anew at an undamaged frame
boundary. The faults are lemmas about which places stay `Chained`; `Receive` moves the
receiver one place on (`At(u)` to `At(u + 1)`), with one case per way a unit can
arrive: whole, as the last fragment, or small with a short start code and ignored.

`Expected` counts instead of selecting recursively: `Rank(s, k)` is the number of
the first k units that reach the decoder, and lemmas say that it grows by one with
each of them, that `Passing(s)` lists them in order, and that a longer stream
prolongs that list. The refinement needs nothing more of `VideoLink` than `PipeInv`
(what has come out is the beginning of `Expected`): `Encode` prolongs `Expected` and is
a `Put`, `Receive` prolongs `fed` by one unit and is a `Take`, or it stutters, the first
fault is the `Fail`.

**SatelliteMainProofs** and **GroundMainProofs.** `Invariance`, `TypeCorrect`, the
resources (`Resources`, `Closing`) and the stopping within a frame or round
(`StopsSoon`). What is open follows from the places of the threads, and what was
done late leaves the loop at a place from which the next test of `g_running`
ends it.

**TicLoopProofs.** `Invariance`, `TypeCorrect`, `OwnCommand`, `NoError`, `TicsBuilt`.
At most three commands wait, each in its place of the ring, and the tics that
`TryRunTics` still means to run have been built: this holds whatever the clocks
say, overflow included. `TicsBuilt` is conditional on `TimeFits` (`MaxTime *
TICRATE <= IntMax`), exactly what `tics_overflow` breaks: then `lasttime` is the
tic of the last look at the clock and `skiptics` stays 0.

**MonitorProofs.** `Invariance`, `TypeCorrect`, `Once`, `Points` and `Complete` for
the three counting properties, and `Swapped`. While a method runs, the counters do
not add up; `LockInv` says who is within one, and `IntervalsInv` and `TotalsInv` what is
missing then: the packet that is in the interval and not yet in the total
(`Counted`), or the interval that was read and not yet cleared, which still equals
`data`. It does so only because the lock keeps the other thread out. With the lock
free nothing is missing, and this is `Once`. `Swapped` follows from the totals: each
is what was captured on the port that `Direction` takes for it, never the one that
`PortNamed` prints.

**Only model-checked:**

* the seven liveness properties `PublishedIsRead`, `EngineCatchesUp`,
  `NewestIsShown`, `EncoderStops`, `StopsWhenTold`, `BuiltIsRun` and `StopsOnCtrlC`,
  since liveness under fairness is outside the prover. Every safety invariant,
  action property and refinement of the passing runs is also a theorem;
* the violations, which are facts about instances.

## 5. What is not modelled

* x264, libavcodec, SDL, scapy, InfluxDB and the C library, beyond what the code
  relies on. `av_frame_alloc` and `av_packet_alloc`, whose results are not checked,
  succeed. What `exit`, called by the DOOM thread, does to a call of x264 on the
  encoder thread is outside as well: `Exit` of `SatelliteMain` may come with that
  thread at any place, and the process is then gone.
* The DOOM engine except its tic loop, its event ring and its held keys:
  `satellite/doom/` is vendored Chocolate Doom, 300,000 lines, of which the game
  play, rendering, sound, files, menus and net games carry no logic of this
  project, and Heretic, Hexen and Strife are not linked into the satellite. The
  mapped share of all lines in `src/` is small for this reason alone; of the
  files written for BFG-I nearly every function that changes state is mapped.
* The arithmetic of down-sampling, colour conversion and header packing, and the
  timestamp, which nothing reads; statistics of bandwidth; arguments.
* Malformed packets of foreign senders: the peers are these two programs.
* The size of the reassembly buffer (200,000 bytes): the instances stay below it,
  and `NothingLeftOver` says that sound frames find no remains in it.
* More than 32 units in a frame (`encoder.c:233`): with one thread and one slice
  x264 makes at most four.
* A key pressed and released between two transmissions: it is in no packet.
* `common/src/`, `common/include/net_common.h`, `scripts/`: stubs and shell scripts.

## 6. Plan

Done, in this order: the ring with its abstract queue and proofs; the uplink; the
control path over the link; the video path; the satellite process with proofs;
the video path with all faults and its abstract pipe; the ground process; the
monitor; the tic loop; the proofs of the uplink, of the two processes, of the
monitor, of the tic loop and of the video path; then those of the chain of packets,
of the abstract pipe and of the control path as a whole.

Left, in order of worth:

1. `Pipeline`: `FrameQueue`, the encoder loop and `Downlink` composed, to relate
   rendered frames to frames on the screen.
2. `TicLoop` and `Uplink` composed, to bound the time from a packet to the tic
   that runs with its keys.

## 7. Running it

    tlc -workers 2 -config MCRingBuffer.cfg MCRingBuffer
    tlapm RingBufferProofs.tla

and likewise for the other configurations and proof modules. `video` takes about
two minutes, `input_link` one, the others less than half of one.
