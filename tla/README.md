# AutoRoboticArms: TLA+ models and proofs

A three-joint arm is driven by an ATmega328P (`Hardware/firmware`) over a PCA9685 servo
controller. A host (`Hardware/host_app`, or the REST gateway in
`Software/edge-orchestrator`) sends it frames `@DRV,a,b,c*XX\n` over a serial line and reads
one status byte per frame. `Cloud` records telemetry in SQLite and moves it to S3. This
directory models the parts whose correctness depends on order, time and failure, checks them
with TLC on small instances and proves the main results with TLAPS for every instance.

## 1. Inventory

Paths are below `src/`. "Hard" is what a test of the code would hardly reach; the complete
list, line by line, is `hazards` in `PROJECT.json`.

| Component | State | Operations | Hard | What makes it correct |
|---|---|---|---|---|
| UART receive ring, `Hardware/firmware/src/circular_buffer.cpp` | 32 bytes, volatile `head`, `tail` | init, write (from `ISR(USART_RX_vect)`), read (from `main`), is_empty, is_full, available | the interrupt between any two accesses of a read; the bytes are not volatile | it is a bounded FIFO |
| Packet parser, `packet_parser.cpp` | state, two C buffers with indices, three angles | init, process_byte | damaged frames: resynchronisation, buffer limits, zero bytes inside a C string, 16-bit `atoi` | no overrun; nothing accepted that was not sent; damage does not spread |
| Watchdog and super-loop, `watchdog_interlock.cpp`, `main.cpp` | last heartbeat, bootstrapped and tripped flags, halt latch, frame count, target and current angles, last dispatch time | watchdog check and reset; per pass: check, drain one byte, dispatch at 50 Hz | three samples of a wrapping clock per pass; the check's result used after the drain; frames, errors and expiries in any order | the halt comes in time, holds the arm, and ends only by a burst |
| Joint actuator, `joint_actuator.cpp` over `twi_driver.cpp` | cached angles; the chip's registers | init, set_angle, write_all, write_all_cached, rearm | a transfer that fails half-way through a pulse, a re-arm or a loop over joints; brownouts nobody reports | a `true` means the chip holds the cache; no call that nothing disturbed wakes it on the wrong frequency |
| Host conductor, `Hardware/host_app/src/conductor_host.py` | last valid angles, last send time | connect and home, transmit and wait, burst, heartbeat | late answers, two answers to one frame, DTR reset | host and firmware agree on what was accepted |
| Host database, `host_app/src/database_manager.py` | a table of at most about 50000 rows | log, prune | insert and prune are two transactions | the newest rows survive |
| Edge orchestrator, `Software/edge-orchestrator/orchestrator_node.py` | waypoint deque (200), target and last angles, link flags | four handlers, hardware daemon at 50 Hz | daemon and handlers share globals; reconnect, with its burst to 90,90,90, in the middle of a slew; lost frames | a path is queued whole, in order; the daemon knows what it sent; the last pose is sent |
| Edge trajectories and kinematics, `edge-orchestrator/trajectory.py`, `kinematics.py` | none | interpolate, plan, validate, joint angles | points out of reach between reachable waypoints; rounding to 0.001 in each coordinate; seams | a path is refused, or leads from waypoint to waypoint within reach, in equal steps but for the rounding |
| Edge telemetry writer, `edge-orchestrator/database_manager.py` | queue (10000), worker thread, running flag | log, worker, recent, shutdown | poison pill against a full queue or a dead worker | what was queued before shutdown is written |
| Cloud conductor, `Cloud/src/conductor_host.py` | queue (100), two threads, shutdown event | producer, flusher, start, stop | shutdown between the two threads; storage failure | every queued snapshot is committed or reported |
| Cloud synchroniser, `Cloud/src/cloud_sync.py`, started by `Cloud/docker-compose.yml` | `sync_status` per row; in memory: failures, breaker and flush times | boot sweep, sync cycle | death between two transactions or during the upload; ambiguous uploads; breaker | at-least-once delivery, oldest first |
| Cloud control plane, `Cloud/src/control_plane.py` | list of web sockets | connect, disconnect, broadcast | the list changes during awaits; an endpoint that ends without a disconnect | a broadcast passes over no client; the pool keeps none but broken ones |
| Host kinematics, schemas, protobuf, legacy scripts | none | pure or declarative | floating point | not modelled |

**Interaction.** The line delivers bytes to the receive interrupt, which writes the ring;
`main` reads one byte per pass and feeds the parser; a finished frame resets the watchdog, or
counts toward the burst in a halt, sets the target and sends `K`, `H` or `E`; the dispatch
slews the current angles and calls `joint_actuator_write_all`, and every halted pass calls
`joint_actuator_write_all_cached`. Shared state is only the ring (interrupt and loop) and the
millisecond counter. On the edge node the
handlers plan a request, append it to `waypoint_queue` under its lock and log it to the
telemetry writer's queue; the daemon thread pops, slews, writes frames to the same kind of
line and logs each one. `last_known_angles`, the link flags and `shutdown_event` are shared
without a lock. In the cloud, the conductor's flusher and the synchroniser meet in the
table `telemetry_ingress_queue`; the synchroniser alone changes `sync_status`.

## 2. Modules

| Module | Models | Run by | Proofs |
|---|---|---|---|
| `ByteFifo` | abstract: the bounded queue of `circular_buffer.h` | (refined by `RingBuffer`) | |
| `RingBuffer` | `circular_buffer.cpp`, the receive interrupt | `MCRingBuffer` | `RingBufferProofs` |
| `PacketParser` | `packet_parser.cpp` as operators on a record | `MCPacketLink` | `PacketLinkProofs` |
| `PacketLink` | host frames, faulty line, parser (EXTENDS `PacketParser`) | `MCPacketLink` | `PacketLinkProofs` |
| `SafetyInterlock` | abstract: what the halt promises whoever stands beside the arm | (refined by `SuperLoop`) | |
| `SuperLoop` | `main.cpp`, `watchdog_interlock.cpp` | `MCSuperLoop` (two configurations) | `SuperLoopProofs` |
| `JointActuator` | `joint_actuator.cpp` over `twi_write_register` | `MCJointActuator` (two configurations) | `JointActuatorProofs` |
| `HostLink` | host `conductor_host.py` against the firmware, frame by frame | `MCHostLink` (two configurations) | `HostLinkProofs` |
| `TrajectoryPlanner` | `trajectory.py`, `kinematics.py` of the edge node as operators | `MCOrchestrator` | `OrchestratorProofs` |
| `Orchestrator` | `orchestrator_node.py`: handlers, queue, daemon (EXTENDS `TrajectoryPlanner`) | `MCOrchestrator` | `OrchestratorProofs` |
| `TelemetryWriter` | the edge node's `database_manager.py` | `Recorders` | `RecordersProofs` |
| `TelemetryConductor` | the cloud's `conductor_host.py` | `Recorders` | `RecordersProofs` |
| `ControlPlane` | `control_plane.py`: web sockets and broadcasts | `Recorders` | `RecordersProofs` |
| `TelemetryTable` | the host's `database_manager.py` | `Recorders` | `RecordersProofs` |
| `Recorders` | these four, one of them at a time | `MCRecorders.cfg` | `RecordersProofs` |
| `SyncDelivery` | abstract: at-least-once delivery | (refined by `CloudSync`) | |
| `CloudSync` | `cloud_sync.py`, its daemon's start-up and restart | `MCCloudSync` (two configurations) | `CloudSyncProofs` |

Definitions keep the names of the code. `map` in `PROJECT.json` gives the lines each one
translates. Definitions marked `BUG` are deliberately wrong variants of the definition that
follows them; no specification uses one, and putting one in its place must break the property
it is listed with (`mutants`).

**RingBuffer.** `Write`/`WriteDropped` are the interrupt, one action, as interrupts do not
nest. A read is several actions: `ReadBegin` takes the slot and chooses one of the two orders
in which a build may emit the load of the byte and the store of `tail` (`head` and `tail` are
volatile, the bytes are not), then `Load`/`Advance` or `AdvanceFirst`/`LateLoad`. The
refinement `Fifo` takes the unread slots as the queue; a read takes effect when it frees its
slot, and in the second order its byte is then the one still in that slot.

**PacketParser, PacketLink.** Bytes are ASCII codes, because the checksum, the clamping and
the C string functions are about their values. XOR is the symmetric difference of bit sets.
What the C buffers hold beyond their indices is dead except for the terminator, and is left
out. `PacketLink` sends whole frames and lets the line drop, change or insert `MaxFaults`
bytes per frame. A full ring is one reason for a drop. `sender` says which of the two programs
is at the port: the conductor's checksum covers the payload, the orchestrator's the `@` too.

**SuperLoop.** One action per task outcome, and `Tick` between any two. The clock has
`ClockMod` values and `Elapsed` is the unsigned difference. The parser is reduced to its three
outcomes (no frame, valid, damaged) with any pose of `Command`. `passed`, `silence`, `trust`
and `rested` are history variables. `joint_actuator_*` calls change nothing the loop reads
again (their results are ignored), so they are left to the next module.

**JointActuator.** One action per `twi_write_register`. A failed transfer may have reached the
chip (the last acknowledgement can be the one that is lost) or not. `Brownout` puts the chip
back to its power-on registers at any time. `Init` is the entry of `joint_actuator_init`,
whose steps are those of `joint_actuator_rearm`. The two ON registers only ever hold 0 and are
one transfer without effect. The three joints have equal calibration in the code, so one pair
`MinTicks`, `MaxTicks` stands for the matrix. After `joint_actuator_rearm` returns to
`joint_actuator_set_angle` the loop of `joint_actuator_write_all` goes on with the next joint
whatever the result.

**HostLink.** One action per blocking call of the host's only thread: a frame is written
(`Connect`, `Dispatch`, `Heartbeat`), one byte is read or the read times out (`ReadAnswer`,
`ReadTimeout`), the operator presses ENTER (`Confirm`), a frame of the burst is answered and
the next written (`BurstAnswer`), a sleep ends (`Wake`). A frame is its pose. The firmware is
`SuperLoop`'s halt and count and three of `PacketParser`'s states, as far as whole frames
tell them apart. The line is two queues; one fault damages or cuts one frame, loses or changes
one answer, or makes one frame late by a unit of time. `Garbled` is what a changed answer can
decode to: another of the firmware's letters, a character the host does not know (`?`) or, as the
host decodes with `errors='ignore'`, nothing (`""`), which it takes for a time-out at once. Time is in units of the read time-out
and passes only while the host waits. `accepted` and `clean` are history variables. The 24-byte
clamp of `_transmit_and_wait` never bites on angles up to 180 and is left out, as is a port
that disappears. A homing that needed a burst ends the program even if the burst succeeded:
`_transmit_and_wait` returns `False` after `handle_safety_halt` in any case.

**TrajectoryPlanner, Orchestrator.** Points are triples of whole numbers, multiples of a unit finer
than `Grain`, the grid of `round(px, 3)`, so that waypoints may lie beside the grid; `Rounded` puts
each coordinate on the grid by itself, halves to even, the ends of a segment included. Distances
are compared squared. Within reach the three angles are an arbitrary function `Solved` of the
point. `Connects` says what a path promises without saying how it is computed: it is within reach
and leads from waypoint to waypoint by the least number of equal parts, every point off by half a
grid unit at most in each coordinate. It does not claim that a waypoint is met exactly or that no
step exceeds the step size, which is false of the code (section 5).

In `Orchestrator` a handler is two actions, before and under the lock (it has no `await`, so no
other handler runs between them, but the daemon does), and a daemon action is a stretch of the
loop between two calls that block or can fail. `Burst` is the three frames with 90,90,90 that every
opening writes, of which some or all are written if one fails; `Write` is a frame of the loop. A
frame is its command and pose: `wire` is the last one on this port, the burst's included, `sent`
the last pose the loop has written on any port, `lost` the frames it could not write since.
`LinkFails` is any exception of a write or a read, with the frame written or not;
`has_enqueue_log` leaves open whether the logger has the method the daemon calls after each
frame. Time is kept only as the age of the last frame. What the firmware makes
of frames is in `PacketLink`, so `Answer` allows any answer.

**TelemetryWriter, TelemetryConductor, ControlPlane, TelemetryTable.** One action per blocking call,
database statement or stretch between two awaits. A failed batch of the writer may stay in its open
transaction, as `sqlite3` leaves it to the next commit. A shutdown of the writer is the flag,
the pill (which waits for room) and a join that may time out. In `ControlPlane` an endpoint ends by
`Disconnect`, the one exception it catches, or by `Break`, any other (a frame that is not text),
and then stays in the pool; a send to it may succeed or fail, as the server decides, which allows
more than any one server does. A broadcast may end by `Abort`. `TelemetryTable` has several threads, whose
prunes overlap; the repository logs from one. The four share nothing;
`Recorders` instantiates them all and its variable `service` says which one moves.

**CloudSync.** One action per transaction or request. `Crash` and `Raise` (an exception that
leaves `sync_cycle`) can happen at each; an upload they, or a reported failure, interrupt may
have been carried out. The two deadlines are kept as the time since the last flush and until
the breaker closes, so that time is finite. `SweepAtBoot` says whether the daemon calls
`boot_stale_record_sweep`: the class and its tests provide for it, the deployed daemon does not.

## 3. Runs

Every count is of distinct states. The longest run (`recorders`) takes under two minutes.

| Run | Bounds | States | Shows |
|---|---|---|---|
| `ring` | 4 slots, 2 byte values | 7,430 | `RingInv`, `NoUnreadOverwritten`: the interrupt never replaces a byte still to be read, in either access order; `Delivered`: each accepted byte is read; `ImplementsFifo`: refinement of `ByteFifo` |
| `link` | 2 senders, 2 joints, payload buffer of 11, 2 commands, 10 line bytes, 1 fault per frame | 175,030 | `BuffersInBounds`; `Resynchronises`: damage costs a frame and at most its successor, and the orchestrator's frames are all refused; `NotMisread`: no angles but the conductor's; `AnswersBounded`: at most 2 answers per frame plus one per fault |
| `superloop` | clock of 12, timeout 4, period 3, pass of at most 2, silence of at most 11, burst 3, 2 joints, 2 poses | 410,640 | all of the halt: see below |
| `superloop_wrap` | as above, silence of at most 18 | - | violation of `HaltHoldsArm` |
| `joint` | 2 joints, 2 angles | 49,857 | `DriverInv`, `SuccessMeansApplied`, `NeverWrongFrequency`, `Returns`: see below |
| `joint_torque` | as above | - | violation of `TrueMeansTorque` |
| `hostlink` | 2 poses, 2 targets, burst 3, 2 faults; in units of 0.5 s: read time-out 1, keep-alive 4, watchdog 6, sleep 2; a changed answer is any letter or nothing | 221,297 | `HostInv`, `CacheSound`, `BurstRearms`, `OperatorReleases`, `HaltNoticed`: see below |
| `hostlink_stale` | as above, a changed answer is no letter of the firmware's | - | violation of `OperatorConfirms` |
| `cloud` | 3 rows, batches of 2, both thresholds 2, breaker at 2, 3 faults | 13,228 | `SyncInv`, `OldestFirst`, `BreakerSpaces`, `CrashRecovers`, `Drains`, `ImplementsDelivery` |
| `cloud_deployed` | as above, `SweepAtBoot = FALSE` | - | violation of `CrashRecovers` |
| `edge` | grid of 4 units, reach 4 to 12, 8 paths in space, steps 3 and 6, 3 joints of 0 to 8, queue of 4, slew 2, 2 requests, 2 port faults; in units of 0.5 s: heartbeat 3, watchdog 6, reset 4, pass at most 1 | 463,185 | `DaemonInv`, `PathsWhole`, `FramesContinuous`, `Settles`: see below |
| `recorders` | writer: queue 2, batch 2, 4 rows, 2 faults; conductor: queue 2, batch 2, 4 snapshots; 3 clients, 2 broadcasts; table: 2 threads, limit 5, batch 2, 9 rows, 1 fault | 1,212,543 | `WriterInv`, `ConductorInv`, `PoolInv`, `TableInv`, `ShutsDown`: see below |

**Why the bounds suffice.** Four slots are the fewest where a ring can be partly full on both
sides of the wrap; nothing in the code depends on 32 except the mask. The payload buffer of 11
is filled to the last byte by one of the two commands, so that one inserted byte overflows it
as a long payload would the real 32; the line's bytes are all those the parser treats
specially, two digits, a zero, a letter that is also a hexadecimal digit and `p`, which is a `0`
with the one bit flipped that an `@` is. In `superloop`
the timeout is longer than two passes and a period, and the clock longer than the silence but
shorter than a behaviour, so that it wraps many times; the two poses are an odd and an even
distance apart and make one joint reverse. The angles 60 and 90 lie on both sides of tick 256,
where both bytes of the pulse change. Three rows in batches of two make one full batch and one
remainder only the time trigger flushes; three faults let the breaker open, close and open
again. In `edge` the paths cross the hole, leave the reach and turn corners; they begin and end
beside the grid, so that rounding takes an end out of reach, brings one within reach, makes an end
coincide with the point before it and a step longer than the step size; the longest that is accepted
fills the queue, two together do not fit; a slew of 2 meets even and odd distances; two faults
close the port, and fail the burst of its reopening, in one slew. In `recorders` each queue is smaller than what is put into it, a batch is
filled and left unfilled, two broadcasts overlap while a third client comes or goes, and two
threads' prunes overlap twice before the rows run out.

**The halt** (`superloop`): `SafetyInv` is the inductive invariant of section 4. `TripsInTime`:
the latch is set at most two passes after the timeout. `HaltHoldsArm`: no movement and no new
target in a halt. `ImplementsInterlock`: the loop refines `SafetyInterlock`, which has neither passes nor a
clock that wraps: no time passes beyond the timeout and two passes without the halt, a joint
moves only toward its target and outside a halt, and only three valid frames since the trip,
without a damaged one between, end it (they are counted by the history `trust`, not by the code's
counter). `NoStaleMotion`: a joint moves at most one pass after the timeout.
`SlewLimited`: at most 2 degrees per step, never past the target, and a period apart but for
the jitter of a pass. `Converges`, `Rearms`: the arm arrives, and a persistent host gets in
again.

**The driver** (`joint`): `DriverInv` is type correctness and: a failed write does not lose the
command (`CommandCached`), a `set_angle` whose re-arm succeeded left the chip with torque
(`RearmRestoresTorque`). `SuccessMeansApplied`: `true` means the chip holds the cache.
`NeverWrongFrequency`: no call that no brownout disturbed wakes it on its
power-on frequency. `Returns`: every call ends.

**The host** (`hostlink`): `HostInv` is type correctness and `InStep` and `KeepsAlive`. `InStep`:
without a fault there is never more than one frame or answer on the line and the host's cache is the firmware's target. `KeepsAlive`: without a fault a
running host never lets the watchdog trip. `CacheSound`: after one fault the host may be out of
step for good, yet takes no pose for valid that the firmware does not come to accept.
`BurstRearms`: a burst that begins on an empty line and meets no fault is accepted.
`OperatorReleases`: until a second fault only the operator's burst, or a restart, releases a
halt. `HaltNoticed`: a halt ends, or reaches the operator, although its `H` may be read late.
The bound on faults in a property is as weak as TLC allows; `hostlink_stale` shows what the
second fault does.

**The edge node** (`edge`): `DaemonInv`: no bus is reported nominal that is not open; a port that has
carried a frame of the loop is fed in time; the pose the loop sent last, on whatever port, is
`last_known_angles`, except while a step is being sent or after one was lost; and after the burst of
a new port, which has sent the arm home behind the daemon's back, a frame of the loop goes out
before the daemon sleeps. `PathsWhole`: the queue loses its head or gains a whole request at its end,
never part of one and never at the cost of a queued pose, and the path behind a request `Connects`
its waypoints. `FramesContinuous`: the poses the loop sends are at most a slew step apart and between
the one before and the target, although the target changes at any time and ports fail, with one
step more for each frame that was lost; the frames of the burst are excluded. `Settles`: when
clients and faults leave it alone the daemon empties the queue and the last pose asked for has been
sent, by a heartbeat if its own frame was lost, and, if frames can be logged, stands on a port that
stays open; or the daemon has been stopped and ends. That the arm arrives is not claimed: without the log
each frame closes the port and each reopening resets the arm.

**The recorders** (`recorders`): `WriterInv`: rows stay in order, only failed batches lose rows, and
what was queued before shutdown is in the table when the worker ends without such a failure,
wherever it met the pill. `ConductorInv`: every snapshot is committed, in hand or queued; one
snapshot at most is left behind unless the storage failed. `PoolInv`: the pool is exactly the
clients whose endpoint serves them, or broke, and whom no broadcast gave up, and a broadcast that no
exception ends passes over none of those it began with though the list changes in its awaits.
`TableInv`: the table is the latest rows without a gap, whatever prunes overlap.
`ShutsDown`: the writer's shutdown returns unless the worker died at its start or rows logged after
the call filled the queue behind it; neither of the conductor's threads outlives the other.

**Fairness.** `Reader` (the super-loop polls for ever), `Loop` and `Tick` (no task blocks, each
wait in the TWI driver is bounded by `I2C_TIMEOUT_LIMIT`, the timer never stops), `Driver`
(each transfer ends), `Host`, `Arrive`, `Trip` and `Tick` in `HostLink` (the host's thread and the
loop run, reads time out), `Daemon` and `Tick` (`while True`, `restart: unless-stopped`), the `Daemon` of `Orchestrator` (a thread whose every call
has a time-out) and `Enqueue` (a handler that holds no await), the writer's `Worker`, its
`PutPill` when there is room and `Join` (which times out), the conductor's `Producer` and
`Flusher`. Nothing is
assumed of the sender: the interrupt, the host's frames, the operator, the REST and web-socket clients, whoever stops
a service and the conductor's inserts have no fairness, and the liveness properties that need a persistent host say so as a premise. Faults
of the cloud daemon, the edge node's port and the writer's database are bounded, which stands for
a network, a cable or a disk that recovers. The parser has no
liveness of its own and `PacketLink` none either.

Deadlock is checked in every run but `recorders`, whose services end: the others have no state
without a step (`Orchestrator` stutters in `Finished` once the node has stopped).

## 4. Proofs

All theorems hold for every value of the constants under the named assumptions of the modules,
except where a hypothesis is given. The assumptions only type the constants, but for
`CommandAssumption` and `TextAssumption` (the parser's text) and `TableAssumption` (threads and
batches), which are explained below; TLC evaluates each one.

* **Ring** (`RingBufferProofs`): `RingInv` is inductive. Its heart: the reader's slot is
  `tail`, the byte it has loaded is still the oldest unread one (`LoadedByteCurrent`), and a
  slot freed before it is loaded equals `head` only when the ring is full (`FreedSlotSafe`).
  From it follow `NoUnreadOverwritten` and the refinement `ImplementsFifo`, with lemmas on
  modular indices.
* **Parser** (`PacketLinkProofs`): one byte preserves the buffer bounds from any state that
  satisfies them, hence `[]BuffersInBounds` for any line. `AnswersBounded` by a potential: the
  answers so far, plus one while a frame is open in the parser, plus one for the `@` still to come,
  are at most `2 + faults`, as only an `@` opens a frame and the host's text has one.
  `Resynchronises` by what the parser holds at each place of a whole frame: the text so far and the
  digits so far if it found the `@` (`Follows`), a checksum in the making or nothing if it
  swallowed it (`Lost`). The one answer is then computed once, at the end. What the folds compute
  there (the decimal text, `strtok` and `atoi` over it) is a property of the commands: `TextAssumption`
  says that they are read back and `CommandAssumption` that their text fits, has no byte that
  structures a frame, and has no `D` but its first. TLC evaluates both for the commands it is given.

  `NothingMisread` is `[]NotMisread` under `MaxFaults <= 1`, the property's own limit: of two faults in
  one frame the second can hide the first. Its invariant `MInv` follows the parser through damage
  (`Traces`): what it has gathered is the text so far, or the one fault has happened and the text is
  spoilt beyond repair (`Spoilt`): its checksum differs from that of the text it stands for, or its
  `D` is lost, so that it is no command. No byte that arrives afterwards can repair it, because XOR
  keeps two texts apart when both grow by the same byte (`ToggleKeepsApart`), and different bytes, or
  a byte and none, set them apart (`ToggleDiffers`, `ToggleMoves`; the latter not for a zero). A checksum field met out of place is either
  that of the predecessor, complete but for its `\n`, or has used up the fault. `Checksum` is a
  parity of bits, not a fold over Bitwise, which is what makes these lemmas provable.
* **Super-loop** (`SuperLoopProofs`): `SafetyInv` is inductive under `MaxSilence < ClockMod`.
  Type correctness alone is not enough: `ElapsedIsSilence` ties the wrapping difference to the
  true silence, `HaltMeansSilence` says a halt never outlives the burst's count,
  `CheckIsFresh` that a stale check is at most a pass old, `TripPending` how late a trip can
  be. `TripsInTime`, `HaltHoldsArm` and `NoStaleMotion` follow, and so does the
  refinement of `SafetyInterlock` (`LoopImplementsInterlock`), action by action: a tick is the
  interlock's `Elapse`, whose urgency is `TripPending` of the state after it, the tripping check its
  `Halt`, since the difference is the silence, and the gate's counter is the burst. The
  hypothesis is necessary: `superloop_wrap` drops it. `SlewLimited` needs none: by `DispatchInv`
  the wrapping difference the dispatch looks at is, up to a pass, no more than the true time since
  the last dispatch, or a period has passed anyway.
* **Cloud** (`CloudSyncProofs`): `SyncInv` is inductive as it stands and gives the refinement
  `ImplementsDelivery`. `BreakerSpaces` needs that the rest of the cooldown and the time since
  the last failure make up a cooldown (`StrikesCool`); `OldestFirst` that the table grows only
  at its end and that the batch is closed downwards among the rows that wait (`OrderInv`). All
  hold with and without the boot sweep.
* **Driver** (`JointActuatorProofs`): the state between two transfers is what makes it inductive:
  who waits for a re-arm (`CallerOK`), how far the cache has the command (`CacheFollows`), which
  joints already have their pulse as long as nothing has failed (`PulsesFollow`), and that a chip
  this call put to sleep is awake again (`TorqueFollows`); the last two only while no brownout
  has disturbed the call. `DriverInv`, `SuccessMeansApplied` and `NeverWrongFrequency` follow.
* **Host** (`HostLinkProofs`): without a fault one of four things is on the line, by what the
  host is doing (`Exchange`), and the firmware's silence is bounded by the host's clocks (`Fed`):
  by the age of the last frame while it idles, by the sleep while it sleeps. `HostInv` follows
  under `Times`: the read time-out is positive, the sleep is no longer than the keep-alive and
  the keep-alive shorter than the watchdog, as 0.5 s, 1 s, 2 s and 3 s are.
  All hold for every `Garbled`, whatever letter a changed answer becomes.
  `CacheSound` and `OperatorReleases` hold past the first fault, under `LateTimes`: a keep-alive
  and a read time-out are also shorter than the watchdog, and the burst has at least 3 frames. The
  invariant `FInv` says what may be on the line by the host's step (`Reading`, `Resting`,
  `Prompting`, `Bursting`), that the cached pose is accepted or about to be (`Known`), and that a
  running host has either not been cut off (`InTime`) or runs with one surplus answer (`Lapsed`): a
  frame damaged into errors leaves an `E` too many, the watchdog trips while the host reads one
  answer behind, and the halt has counted no more frames than there are `H` still unread. This
  is where the length of the burst matters: the second such frame reaches the `H` before it can
  be the third, while a burst of 2 would be released by the host's own keep-alive. `BurstRearms`
  needs only that reads wait at all (`BInv`: each frame of an undisturbed burst is unanswered or
  its answer is the next byte).
* **Edge node** (`OrchestratorProofs`): `DaemonInv` needs where the port is open at each step of
  the daemon (`PortByStep`), how old the last frame can be there (`AgeByStep`), that the step
  computed but not yet written is short and towards the target (`StepPending`), how far the
  daemon is ahead of what it has sent (`Lag`: a slew step for each lost frame and for the one to
  be written), and that a request between validation and the lock is a whole path (`HandlingOK`).
  `FramesContinuous` and `PathsWhole` (`TrajectoriesWhole`) follow. The latter needs the planner for
  every list of points in space and every step size: the number of parts exists and is the least
  (`PartsOK`), the nearest grid point is at most half a grid unit away (`NearestOK`, halves to even
  included); a segment leads where it should (`Segment`); the plan, a concatenation without the points met
  twice, grows by one segment per waypoint (`Flattened`, `PlanGrows`), and walks on through each of
  them (`NextSegment`, `PlanConnects`). The library's induction theorems take a predicate as a
  parameter and cannot be used; `Induction` does the same for a set of places, from the least
  element of its complement, which the well-foundedness of `<` provides.
* **Recorders** (`RecordersProofs`): one inductive invariant per service, for any number of rows,
  snapshots, clients, broadcasts and faults. `WriterInv` (`WInv`): one pill after the flag is
  down, the rows ascend over table, open transaction, batch in hand and queue, each lost row is
  one of a failed batch, and the rows promised by shutdown are ahead of the pill.
  `ConductorInv` (`CInv`): the batch in hand by the flusher's step (`BatchByStep`) and the one put
  the producer may still owe once the flusher has left (`LastPut`). `PoolInv` (`PInv`): a client is
  listed once, exactly from the time its endpoint serves it, even if that breaks, until a disconnect
  or a broadcast that gives it up, and each client a broadcast began with, unless an exception has
  ended it, has been reached, was given up or is still to come. `TableInv` (`TInv`): the rows are an interval; a
  selected batch is still whole and the oldest, or gone; whoever still has to prune leaves room for
  the batches of the others. `TableAssumption` types the constants and says two things of them. A
  batch has at least as many rows as there are threads: with batches of one row and two threads
  TLC finds the table growing past any overshoot, as both threads prune the same row. And the
  threads' batches fit into the table together, so that every batch is selected whole. The program has
  one thread, batches of 5000 and a limit of 50000.

**Only model-checked:** every liveness property (`Delivered`, `Converges`, `Rearms`, `Returns`,
`CrashRecovers`, `Drains`, `HaltNoticed`, `Settles`, `ShutsDown`), as fairness and ENABLED are out of
the prover's reach. Every safety property of a passing run is a theorem.

## 5. What was found

* **The halt ends by itself after 2^32 ms** (`superloop_wrap`). The dispatch asks
  `watchdog_check()`, not the halt latch. After 49.7 days of silence the difference wraps, the
  check reports a healthy link for one timeout, and the arm resumes the slew it was halted in.
* **A failed initialisation leaves the arm without torque, unreported** (`joint_torque`). The chip
  powers on asleep and `joint_actuator_init` returns at its first failure (a re-arm, which puts the
  chip to sleep first, would do the same); `hardware_setup` ignores the result. The
  `write_all_cached` of every halted pass, documented to restore holding torque, then succeeds and
  returns `true` on the sleeping chip.
* **The halt can be released without the operator** (`hostlink_stale`). The host never discards
  what is in the port's buffer before it sends. Two frames with a byte turned into `@` leave
  two surplus `E`; the watchdog trips, and the host reads them in place of `H` while its
  keep-alives, valid frames in a row, make up the burst.
* **Orphans of a crash are not recovered as deployed** (`cloud_deployed`). The compose file's
  daemon never calls `boot_stale_record_sweep`.

Seen while reading, with no run of their own: the root README speaks of a 300 ms watchdog, the
code uses 3000 ms (`main.cpp:50`); `joint_actuator.h:73` says `set_angle` returns false when a
re-arm was triggered, it returns the re-arm's result; `conductor_host.py:47` prints checksum
`5A` for a frame whose checksum is `65`; `query_pending_batch` says it locks rows atomically, but
selects and then updates without a condition; `main.cpp:16` lacks a semicolon in the AVR build.

Of the edge node, behaviour the models contain:

* Its checksum includes the `@`, the firmware's and the root README's ("all characters between
  `@` and `*`") do not: `Resynchronises` states that every whole frame of it is answered `E`.
  The firmware also knows no frame but `DRV`, so `HBT` would feed no watchdog. A *damaged* frame
  of it can be accepted, and with other angles than it was sent: the `@` in its checksum is one flipped
  bit, so a byte of the payload in which the line flips the same bit makes up for it (a `0` that
  becomes `p` ends the number for `atoi`). The attempt to prove `NotMisread` for both senders
  failed there, and `p` among the line's bytes shows it to TLC; the property is stated of the
  conductor's frames.
* It calls `enqueue_log` and `fetch_recent_logs`, which `DatabaseManager` does not define. The
  exception closes the port after every frame (`has_enqueue_log = FALSE`) and answers 500 to a
  request that is queued. `lifespan` looks for `stop`, but the method is `shutdown`, so it is
  never called.
* Opening the port resets the arm (DTR, `main.cpp:35-36`) and sends it 90,90,90 three times
  (`orchestrator_node.py:96`) while `last_known_angles` stays where it was. If the port is reopened with the
  arm elsewhere, the next frame asks for a jump back, in one frame, against "Max degree step per 20ms
  tick" (line 30). `SentIsKnown` states when that frame comes, `FramesContinuous` leaves it out. Only
  the firmware's own slew smooths it.
* `trajectory.py:18` speaks of the maximum distance of consecutive points, line 29 of a guarantee that
  start and end are included. The rounding of each coordinate exceeds both by a little: the segment from
  (5, 5, 0) to (8.535, 8.535, 0) at 0.5 has a step of 0.354 times the square root of 2, 0.5006; a step
  size of 0.0001 gives points that coincide; a waypoint with more than three decimals is moved. `Connects`
  says how far at most.
* A frame of the opening burst that cannot be written leaves `ser` assigned: the daemon works on a
  port that is reported degraded. At shutdown the port closes and stays reported as nominal
  (the exception of `NominalIsOpen`).
* One pose is popped per 20 ms whether or not the last one was reached, so the arm cuts the
  corners of a path, and a 2-degree slew replaces most of it.
* `shutdown_event` is never cleared: the daemon of a second `lifespan` in one process ends at once.
* The root README speaks of 20 Hz and a queue of 10000, the code has 50 Hz and 200.

And of the cloud: a web client that was pruned keeps its socket open and hears nothing more; two
overlapping broadcasts may reach one client in the wrong order (`ControlPlane` has no order of
broadcasts to violate).

## 6. Not modelled, and limits

* A frame hit by two faults, or by a zero byte (invisible to XOR, but the end of a C string),
  can be accepted with other angles. `NotMisread` excludes zeros, and two faults are beyond
  `MaxFaults`.
* UART timing: that a halted pass (about 6 ms of I2C) outlasts the ring (2.7 ms) shows in the
  model only as dropped bytes.
* The kinematics' trigonometry: `TrajectoryPlanner` has the envelope and the clamping, and
  the host's `inverse_kinematics.py` has the same algorithm; it appears only as any pose or none.
* Floating point: `TrajectoryPlanner` computes exactly. Where the length is a whole number of
  steps, a quotient one bit too large makes the code use one part more than `Parts`, and the
  comparison with the reach can err in the last bit.
* Web sockets: what a send to an endpoint that broke does depends on the server, so nothing is claimed
  of when such a connection is pruned.
* Protobuf, schemas, REST validation and the legacy scripts.
* More than one synchroniser on one table (`query_pending_batch` would let two claim a row); the
  repository starts one.
* Read-only handlers: health, latest telemetry, recent rows. The control plane's API key, override
  and simulated data keep no state.
* Brownouts in a call: the driver never reads the chip, so properties of a call's result and of the
  frequency it wakes the chip on are about calls that none disturbed; after a brownout the chip may run on its
  power-on frequency, and nothing in the code notices.

## 7. Plan

What section 2 lists is done. Next, in this order:

1. An abstract specification of a request and its answer, which `HostLink` implements while no
   fault has happened, with a proof.
2. `Firmware`: `RingBuffer`, a frame-level parser, `SuperLoop` and `JointActuator` composed, with the
   time a halted pass takes. Property: the servos, not only `g_current_angles`, hold.
