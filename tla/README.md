# TriWhirl: a verification development

TLA+ models of the TriWhirl firmware, their TLC configurations, and theorems
about them checked by TLAPS. Paths are relative to the repository's root. Every
definition was translated from the source; `PROJECT.json` maps each one to its
lines.

    tlc -workers 2 -config control_safety.cfg RuntimeControl
    tlapm RuntimeControl_proofs.tla

Contents: the system; modules and code; runs and bounds; fairness; theorems;
findings; what is not modelled; plan.

## 1. The system

TriWhirl balances a triangular body on a reaction wheel. An ESP32-S3 runs a
1 kHz control task on Core 1. Core 0 runs everything that may block: I2C
sensors, the flash logger, BLE, the supervisor's serial line, telemetry. A second
("route B") motor path moves the motor itself into a task of its own, fed by the
attitude task through latest-value mailboxes.

| Component | Source | State | Operations | Interacts with |
|---|---|---|---|---|
| Motor mailboxes | `triwhirl_core/motor_mailbox.hpp` | sequence counter, words, `published_` | `publishTarget`, `publishStop`, `publish`, `tryRead` | the two motor tasks, one at each end |
| Motor executor and task | `triwhirl_core/motor_execution.hpp`, `main/runtime_motor_task.cpp`, `triwhirl_simplefoc/simplefoc_motor_backend.cpp` | desired target, last command seen, latched fault; task life cycle | `begin`, `service`, `requestRelease` | mailboxes; backend (FOC, AS5600) |
| Control runtime | `main/runtime_main.cpp`, `main/runtime_state.cpp`, `main/runtime_sensor_state.cpp` | motor mode, fault latch, sensor validity, calibration, timing | the stages of a tick; about forty supervisor commands | all of Core 0 through queues; logger through volatile fields |
| Balance and standup runtime | `main/runtime_balance.cpp`, `main/runtime_standup.cpp` | session, vendor owner, observation ages | start, stop, update, fault | control runtime |
| Swing identification | `triwhirl_core/swing_id.cpp` | phase, pump direction, vertex counts, timers | start, stop, abort, update in four phases | control runtime, logger |
| Sensor pipeline | `main/runtime_sensor_pipeline.cpp`, `main/runtime_encoder_acquisition.cpp`, `main/runtime_imu_acquisition.cpp` | depth-one queues, sequence numbers | request, dispatch, join, publish, read | control task, two I2C workers, DATA_RDY interrupt |
| Runtime logger | `triwhirl_log/runtime_logger.cpp` | volatile state, stream buffer, flash, counters | prepare, start, record, stop, setFlashWritesAllowed; worker | control task, worker |
| Log dump | `main/runtime_state.cpp` (`logDumpTask`), `main/runtime_main.cpp` | `binary_dump_active`, read position | `log dump`, chunk loop | logger, BLE, host `tools/triwhirl_tool/twlog.py` |
| Realtime release | `main/runtime_release.cpp` | timer, waiter handle | init, wait, bind | control and motor tasks |
| Supervisor I/O | `main/runtime_supervisor_io.cpp`, `main/runtime_command_parser.cpp` | line buffers, command queue, egress queue | read, assemble, parse, queue, reply | both byte sources; control task |
| BLE transport | `triwhirl_ble/ble_transport.cpp` | connection handle, subscriptions, one buffer per channel | gap events, write, write blocking, tx tasks | supervisor I/O, dump, trace |
| Standup controller | `triwhirl_core/standup_controller.cpp` | hold, settling, stable and their clock, velocity loop | reset, update | standup runtime |
| Standup trace | `main/runtime_trace.cpp`, `tools/triwhirl_tool/standup_trace.py` | ring, start/end markers, frames | start, record, stop; worker; host decoder | control task, BLE, host |
| Motor commissioning | `main/runtime_simplefoc_motor_commissioning.cpp` | job and result queues, abort and busy flags | commission, stop, report; two legs | BLE line, motor |
| Estimators, fuzzy laws, FOC arithmetic, drivers, tools | see `PROJECT.json` | numeric | – | – |

### What is hard here

*Concurrency.* Two cores; queues of depth one that are overwritten; words read
while they are written; volatile fields with no lock (logger); a worker that
tests a flag and acts on it a millisecond later.
*Failure.* Sensors fail, stall or return late; the flash fails half way; a task
that cannot make its timer deletes itself; hardware ignores a stop.
*Ordering.* Eight stages a tick, any of which may latch a fault that later stages
of the same tick must respect; about forty commands in any order; results of an
older request arriving for a newer one.
*Time.* Wrapping microsecond clocks stamped on two cores; command timeouts; a
join deadline that races the answer; a period check that re-arms itself.

Each hazard is listed at its line in `PROJECT.json` with the properties that
would catch it.

### What makes each component correct

- **Mailbox**: a read returns a whole publication, the newest, never an older one
  than before; it always returns; the last publication arrives.
- **Executor**: the actuator is energised only on authority that is current and
  recent, or a fault is reported; a stop is binding; a fault is for good; silence
  stops the motor.
- **Control runtime**: a fault inhibits the motor whatever comes next; one owner of
  the motor; nothing but a command starts a stopped motor, never under an old
  session; PWM only on inputs that were checked in the same tick.
- **Pipeline**: a frame's members were sampled for it; a frame is always published;
  a backlog is worked off.
- **Logger**: a complete log is exactly what was recorded; the worker concludes.
- **Dump**: what the host accepts is one whole run.
- **Trace**: the frames of a session are its own records, in order, each once, with
  what was lost reported, and they are delivered to the end; what the host calls lossless is
  complete; the worker is silent while a session drives the motor (it is not: finding 2).
- **BLE**: a device that is not connected can be found; a peer never receives a piece of
  another's frame as its own; a dump heard from end to end is unbroken.
- **Supervisor**: a line is handled once, as it was sent, whatever came before it; what
  was accepted is answered or counted as dropped.
- **Swing identification, standup**: what a run or a hold reports and commands is earned in it,
  never left over from one before.
- **Commissioning**: a stop that was heard ends the job, shows in its result, and the
  result arrives.

## 2. Modules and code

| Module | Models | Composes |
|---|---|---|
| `LatestValue` | abstract: an atomic register with failing reads | |
| `MotorMailbox` | `motor_mailbox.hpp`, one action per atomic access | implements `LatestValue` |
| `MotorExecution` | executor, task loop, backend contract, the attitude task's gates and its stamping of commands | uses mailboxes as the atomic registers they were shown to be |
| `RuntimeControl` | tick, commands, sessions, swing run, and the logger worker's flag race | abstracts logger and sensors |
| `SensorPipeline` | request/dispatch/join/publish and both acquisition modes | |
| `RecordedLog` | abstract: a log that grows, is published and then frozen | |
| `RuntimeLogger` | every logger operation and its worker | implements `RecordedLog` |
| `LogDump` | dump task, host decoder | extends `RuntimeLogger` |
| `TraceHost` | host decoder of the standup trace | |
| `StandupTrace` | ring, flags, worker and frames of the standup trace | extends `TraceHost`: the session, the way and the host together |
| `BleLink` | connection events, advertising, subscriptions | |
| `BleTransport` | the two sending buffers, their tasks and their writers | extends `BleLink` |
| `SupervisorIo` | bytes to lines to commands to replies | the control task as the other end of two queues |
| `MotorCommissioning` | two tasks, a job queue, a result queue, two flags | |
| `SwingId` | `SwingIdRunner`, whole | |
| `StandupController` | the controller and the calls of the standup runtime | |
| `SessionControllers` | a behaviour follows the sessions of one of the two | extends `SwingId` and `StandupController` |
| `Motor_proofs` | theorems on `MotorMailbox`, `MotorExecution` and `MotorCommissioning`; lemmas on wrapping counters | extends the three |
| `RuntimeControl_proofs`, `SensorPipeline_proofs`, `SessionControllers_proofs`, `LogDump_proofs`, `BleTransport_proofs`, `SupervisorIo_proofs`, `StandupTrace_proofs` | theorems | extend the module they name |

In every module a definition whose comment starts with "Faulty:" is a plausible bug of the one
after it. It is used by no specification; it stands there so that each property
can be seen to fail on a program that has the bug (`PROJECT.json`, `mutants`).

**MotorMailbox.** A word holds the *number* of the publication that stored it: a
snapshot is torn exactly if its words differ. `OpenWrite`/`StoreWord`/`CloseWrite`
are the accesses of `publishImpl`, `TryRead`/`LoadBefore`/`LoadWord`/`LoadAfter`
those of `tryRead`, retries included. The counter wraps at `SeqModulus`.
`ReaderNotLapped` keeps the writer from going round a whole counter while one read
is under way: 2^31 publications within one read of at most seven words; without that
assumption the sequence lock is unsound, and the theorem says so by resting on it.

**MotorExecution.** `Service` is one call of `service()`: read, consume or time out,
backend service, and the second look that forces a stop. The record `motor` has one field per member of the
executor and the backend. `Wake` reads the clock and `Service` reads the
mailbox after it, as in the task loop: a command stamped between them is ahead of
the service's clock, looks about 2^32 us old and times out at once. That costs one service and errs
to the safe side; `TimeoutIsOldOrAhead` says that nothing else times out early
(`motor_execution.hpp:184`). `Evaluate` is the gate of the attitude task: it publishes a target only when the
motor's last observation is `Usable`, that is published, sensed, without fault or timeout and not too
old; `may` is what it decided and acts on later. `BackendBegun` has the stages of the backend's begin. `Samples` are the outcomes of a backend
service, "stuck" being hardware that stays energised.

**RuntimeControl.** `stage` is the place in `controlTask`'s loop; each stage is one
action (`Sense`, `UpdateRuntimeBalance`, `EvaluateSafety`,
`UpdateSwingIdentification`, `UpdateMotor`, `RecordLog`, `Command`, `EndTick`),
because nothing but the logger worker shares its state. Measurements and
controller outputs are chosen among the outcomes the branches tell apart.
Each command that changes state is an action with the guard of its handler; a rejected
one is `NoCommand`. `WaitForNextRelease` is the wait at the end of a tick, with or without the timer
that `InitRealtimeReleaseTimer` makes once and for good.

**SensorPipeline.** Sequence numbers are compared only with the newest dispatch,
so results carry `current`; the history bit `begun` says whether the transaction
really started after the dispatch, and the property compares the two. `GiveUp` is the
join deadline; `timely` is the hypothesis that answers come in time from now on.

**RuntimeLogger.** The control task's calls are split where they test a volatile
field and write it later (`StopBegins`/`StopEnds`, `RecordBegins`/`RecordSends`), and the worker where
it tests and acts (`Decide`/`Erase`/`Write`/`Finalize`). A CRC is the sequence of
records it covers. `Restart` is a reset at any point.

**LogDump.** A chunk is the header or one record; `HostAccepts` is the decoder's
check of header, count and CRC. `log prepare` is not refused during a dump
(`runtime_main.cpp:1038`) and erases the log under it; the dump then goes on, and what makes the
result harmless is the host (`AcceptedDumpIsOneRun`).

**StandupTrace** and **TraceHost.** The stores of `startRuntimeStandupTrace` are three actions
(head; tail and counters; flags), those of `stopRuntimeStandupTrace` two; the worker has one action
per look at the shared atomics and per store. A frame goes out whole or not at all, which is the
message buffer's contract; on the way to the host any may be lost or cut: `Arrivals` are the frames that
arrive at all, in their order. `TransportDrops` is the transport's own task, which drops what it holds when
nobody is subscribed and counts it: each frame carries the count since `baseline`, taken when the session was set
up. `Lossless` is the host's verdict on what it heard. `LosslessIsComplete` says that what it calls lossless is
complete, and that a complete trace is refused only if the transport had dropped something since the session was set
up; that may be a frame of the session before, so a trace that arrived whole can be refused. The host's
checks of the times between records, for which it refuses a trace too, are left out. The history bit `undisturbed` says that the
worker rested in its delay while the session was set up. The code does not ensure it
(finding 2), and without it the host may be misled too: a worker that sleeps on its indices through
the set-up of a session can make an incomplete trace look lossless. The second session
of the run starts at every point of the delivery of the first, so both kinds occur.

**BleLink, BleTransport.** An *epoch* is a connection or a change of subscription. A unit is
what one notification carries, named by its writer, message and place, so that what a
peer got in an epoch tells whether it is whole and in order. Text and dump share a stream
buffer; the trace has a message buffer. Stack calls may be refused wherever
the code does not look at the result.

**SupervisorIo.** Text is a sequence of pieces; the parser's verdict on a clean line is open, and
a damaged line may say anything. `lines` remembers how each line was sent and what
became of it. The control task takes one command a tick and the egress queue drops what does
not fit.

**MotorCommissioning.** The command task's loop and the motor task's two legs step by step,
because `abort_requested` and `motor_busy` belong to no job: each is tested by one task
and set by the other. `heard` is the history of a stop that came after the
motor task cleared the flag for its job; an earlier one is forgotten by the code.
The iteration that looked at the flags before a stop serves once more, hence `Committed`.
`Align` and `EndAlignment` are `initFOC()` inside the backend's `begin()`: it energises the motor, looks at no
flag and always ends with the motor disabled. A stop that is heard before or during it does not prevent it;
`StopIsFinal` names it as the one exception and says that no leg follows.

**SwingId, StandupController.** An angle is its nearest vertex and the band of its error, with a band for the
value at which one comparison of the code is strict and another is not (`edge`, exactly at `rearm_deg`); a rate is
its sign; timestamps are ages, capped where a comparison has settled. Time is what the configuration
compares: probe, confirmation and half-cycle times, the stable delay. The numeric laws
are the sets of commands they can produce: the ramp and the limit are kept, because
`CommandIsRamped` is about them. The runner forgets the vertex of a probe once it pumps again; the history
`recovered` keeps it, so that `ProbesAreSeparated` compares the start of a probe with where the body has been since
the last one. `configureRuntimeStandup` is called once, before the first
session, so `StandupInit` covers it.

## 3. Runs

| Run | Module | Question | Bounds, and why they are enough |
|---|---|---|---|
| `command_mailbox` | MotorMailbox | torn, stale or endless reads | the four words of the command mailbox and 3 attempts as in the code, 5 publications over a counter that wraps at 6: the counter wraps and a reader meets more publications than it has attempts |
| `execution` | MotorExecution | what may be energised, for how long; what times out; silence stops the motor | timeout 2, observation age 1, 5 ticks, the last command at tick 2, a clock modulo 16: ages of commands and observations below, at and above their limits; two commands, so that a stop can precede or replace a target |
| `control_safety` | RuntimeControl | all safety and step properties | all commands, `MissLimit` 2 so that one miss is not yet a fault; the state is otherwise finite |
| `flash_swing` | RuntimeControl | flash writes while a run drives the motor | finding 1; only the commands it takes |
| `pipeline` | SensorPipeline | mixing, bounded join, recovery | a requested encoder and an interrupt-driven IMU; queues are depth one, so the state is finite |
| `dump_host` | LogDump (with RuntimeLogger) | exactness and conclusion of the log, its refinement, what the host accepts | buffer 3, batch 2, partition 4: the buffer fills, the last batch is short, the partition fills; two runs, so that a stale one can follow a complete one and the log can change within one dump |
| `trace` | StandupTrace (with TraceHost) | what a session's frames hold; delivery; the host's verdict | ring 2, one record a frame, 3 records: the ring overflows and takes several frames; indices modulo 8; two sessions, the second at any point of the first's delivery; at most 4 frames a session, enough for start, two records and end; one drop by the transport, before or after the second session's baseline |
| `trace_quiet` | StandupTrace | a worker that sends during a session | finding 2 |
| `ble` | BleTransport (with BleLink) | link, frames, dumps | four epochs: connect, subscribe, replace, subscribe; a dump of two calls of two units over a buffer of two units, so that a call waits for room; one text, two frames in a message buffer of one |
| `supervisor` | SupervisorIo | lines and answers | rooms and queues of one or two pieces, one line by UART and three by BLE, of length 1 (fits) and 3 (overflows): each full buffer, a cut line before a clean one, a queue that refuses |
| `session` | SessionControllers | schedule, recovery, status, ramp | three vertices and 4 captures: more than one round at a vertex, and the target; every time constant below, at and above a step; five error bands for a swing, seven for standup; the standup state is finite without bound |
| `commissioning` | MotorCommissioning | stops and results | three jobs (one running, one queued, one to overwrite a result), two stops, any number of disconnections |

`execution` (a motor task may delete itself), `dump_host`, `trace`, `trace_quiet`, `ble`,
`supervisor`, `session` (a run that reached its target and no further start) and
`commissioning` turn deadlock checking off, because bounded counters or ended tasks may stop
the system. The other runs check for deadlock.

## 4. Fairness

Fairness is a hypothesis of the property that needs it and is kept as small as
that property allows.

- `ReaderRuns`: a read that began goes on (its task runs on its own core). Nothing is
  assumed of the writer. `BothRun` adds that the reader polls and that a
  publication that began is finished; no publication ever has to begin.
- `TaskFairness`: the clock and the motor task go on. The attitude task owes
  nothing, and the mailbox may be unreadable for ever.
- `PipelineRuns`: the pipeline task runs; workers may hang. `AllRun` adds the workers and
  the control task, for recovery only.
- `LiveSpec` (logger): the worker polls and its flash calls return. `DumpLiveSpec`
  adds the dump task; writes to BLE have a timeout in the code.
- `WorkerRuns`: the trace worker runs, and the transport, tried again and again, accepts a frame
  in the end (strong fairness of `Accepted`: a subscriber is connected often enough).
  A call of the control task that began is finished.
- Supervisor: `Drain` (its task polls every 5 ms) and `ProcessInput` (the control task's tick).
- Commissioning: both tasks run; a leg ends (strong fairness of `EndOfLeg`): it lasts at
  most `kMaxDriveDurationMs`, but each iteration may go either way in the model, which has no clock.
  A connected peer is not assumed; a result is emitted to nobody as well.

But for the two strong ones all of it is weak: FreeRTOS schedules every task that stays ready,
since no task of higher priority runs without blocking.

## 5. Theorems

All proofs are for every value of the constants that satisfies the module's
named assumption.

**Mailbox** (`Motor_proofs`; `MailboxAssumption`: at least one word and one attempt, an even
modulus). `SnapshotCoherent` is not inductive: it says nothing of a read under
way. `MailboxInv` adds that `sequence` is the number of increments modulo the modulus
(`SequenceCounts`), which words the writer has stored (`WordsHeld`), and
that an attempt whose `before` was loaded holds words of one publication unless the
writer has moved on (`AttemptHeld`). That an equal second load means that it has
not rests on uniqueness of remainders and on `ReaderNotLapped`. `MailboxImplementsRegister` shows every
access to be a step of `LatestValue` or a stutter: `CloseWrite` is the
publication, an accepting `LoadAfter` the read. `MailboxReadsAreBounded` is the part of `ReadReturns` that
needs no fairness: a read has a budget of `Attempts * (Len(Cells) + 2)` loads, each of its steps uses
one up and no step of the writer gives one back.

**Executor** (`Motor_proofs`; `ExecutionAssumption`: timeout and observation age below half the clock). The inductive invariant
relates executor and backend between services (`AtRest`: enabled exactly if
desired, a broken backend is latched, an energised actuator is desired and
sensed or the fault is latched). The middle of a service breaks it, so `Serviced` states
what the backend's service leaves of it, and the second look restores it. Modular
elapsed time is the true age for commands not from the future (`ElapsedIsAge`);
`AuthorityIsRecent` needs no more because a future command looks too old, never too new. `ExecutionFaultSilences` follows the fault to the other task: once it is reported,
an attitude task that has not asked yet is not let by again.

**Control** (`RuntimeControl_proofs`; any `MissLimit`, with or without IMU, any command set). Seven
layers, each inductive relative to the earlier: types; a session implies a release timer; a
latched fault keeps the motor stopped; ownership; the period check; the
logger's flags; what was checked by the time PWM runs. Nine theorems
follow, two of them about steps (`OnlyANewStartEnergises`, `RunSeesItsFault`).

**Pipeline** (`SensorPipeline_proofs`; any of the sensors, any of them by interrupt). A
result that answers the newest dispatch began after it, wherever it waits.

**Commissioning** (`Motor_proofs`; any bounds). The invariant says at which points of the
motor task the busy flag is up, that jobs are taken in order, and that while the task still
listens a stop it heard left the abort flag up or the job marked: hence the result says so and no leg looks past
it. What the two steps of the alignment do is in the invariant as well: the motor is energised in a leg or in the
alignment, and nowhere else.

**Sessions** (`SessionControllers_proofs`; any finite set of vertices, any times, limit and ramp). For swing
identification: the probes booked at a vertex by excitation are the thirds of its count
(`Booked`), a running probe is at the level its vertex is due (`ProbeIsDue`), and the pump runs
only after a recovery (`RecoveryKept`): while the runner rearms, the vertex it measures its distance from is the one
the history remembers, and a half cycle it has counted since the probe is a turn of the body. For standup: the status clock is the time the body was held,
and a hold that has not been upright is still on the side it began on (`HoldKept`), so
that a crossing of zero means it has been; the ramp distributes over the time of the hold.
`SessionTypeOK` needs that the captures of all vertices add up to the total: the sum over a
set is that over the set without one of its elements plus its share, by induction on subsets.

**Logger and dump** (`LogDump_proofs`; `LoggerAssumption`: sizes positive, a batch fits the buffer). What
was recorded is what is in the flash, then what a failed batch lost, then what waits in the stream,
in that order. A loss leaves the count of written records behind for good, so nothing was lost in any state
that can still be finalised; together with who may erase (`JobInv`: a worker that decided to
erase finds the state that called for it) this gives `CompleteLogExact` and, action by action, the refinement of
`RecordedLog` for buffers, partitions and batches of every size. A dump has read
a prefix of what the flash held, as long as no erasure came in between; an accepted one ends in the
CRC of what it holds (`AcceptedDumpOneRun`), and one that no erasure met is accepted.

**BLE** (`BleTransport_proofs`; `LinkAssumption`, `TransportAssumption`: sizes positive). `FramesAreWhole`
is not inductive: it says nothing of what waits. Units are counted backwards from the last frame handed
over: whole frames wait in the message buffer, the task holds the end of one. For
`DumpArrivesClean`, what the peer received, what the task holds and what is queued are one stream: a
notification moves the border, a scratch buffer that is discarded cuts a piece out of the
middle, writers append. The dumps of that stream are in order, text stays out of the
middle of a dump, and a dump whose two ends came in one epoch misses nothing between them.

**Supervisor** (`SupervisorIo_proofs`; `SupervisorAssumption`: sizes positive). `LineInv` speaks of fates, so
it is not inductive. `SourceInv` follows the pieces of each source: they are in the order of their lines, a
newline is the last of its line, what is being typed comes last, nothing is left of a handled line.
A source is `fresh` only if its buffer ends in a newline or all is empty. A clean line that was not handled
is there, piece by piece, up to where it was typed: behind a newline of the buffer (`Behind`), or begun
in the input line, whose last piece a backspace may be about to take (`Leading`). Consuming a piece moves the
place where the line begins; its newline hands over exactly it.

**Trace** (`StandupTrace_proofs`; `TraceAssumption`: sizes positive, an index modulus that is a multiple of the
ring's size and larger, and no more records in a ring than a sequence number tells apart, start and end
frame included: 2048 records and 32-bit counters in the code). `TraceIsExact` says nothing of a frame under way,
of the ring, or of when a flag may be up, so it is not inductive. What is
(`StandupTraceInv`) rests on the session having been set up while the worker slept. `RestInv`: until it has
stopped, the worker goes on sleeping, so nothing is taken out of the ring while it fills. `RingInv`: hence it is
filled from the bottom, never goes round, and drops only once it is full. `WorkInv`: hence the
worker's copy of the tail is the tail, and what it copied into a frame is what was kept. `FlagInv` says which
flags go with which frames, above all that an end frame goes out only when the tail has reached the head.
`SentInv`: the frames are numbered without a gap and their records, one after the other, are those
below the tail, or below where the tail is about to go. That appending a frame appends its
records is a fact about a fold over a sequence of any length, by well-founded induction. Sessions set up
under a worker that was awake are in the state space too: for them only types and counts are claimed. For the
host's verdict: frames that arrive in their order, begin with the start frame, end with the end frame
and have consecutive numbers are all frames (`HeardInFull`), because a session has fewer than the number wraps at.
`LostInv` is about the transport's count: it is at the baseline exactly as long as nothing was dropped since the session was set
up, no frame carries more than the last one, and the last one carries what had been dropped when it was made. Hence
the host finds a drop in some frame exactly if there was one by then.

*Model-checked only.* Liveness under fairness is beyond the prover: `ReadsGetThrough`,
`SilenceStopsMotor`, `JoinIsBounded`, `ResynchronisesAfterStall`, `FlashWorkConcludes`, `TraceIsDelivered`,
`CommandsAreAnswered`, `ResultsArrive`. Of the first, `MailboxReadsAreBounded` proves the variant; that
the reader runs at all is the fairness. Every safety property and both refinements are proved.

## 6. Findings

1. `flash_swing` – the logger worker programs a batch it decided on before the hold, and
   the first ticks of a run precede the hold.
2. `trace_quiet` – a standup session may start while the trace worker is between its test of
   `trace_active` and the end of a write that lasts up to a second. It then uses BLE
   while the motor is driven, and its next stores hit the new session: a tail beyond
   the new head makes every record count as dropped.

Hazards that no property covers, because the code promises nothing there:

- a balance session started while a recording drains to flash keeps the permission to write
  (`runtime_balance.cpp:192`), although `docs/esp32-realtime-audit.md:100` asks for quiet "hard 1 kHz balance
  windows" without saying whether firmware or operator provides it;
- a commissioning `stop` between the queueing of a job and the reset of the flag is forgotten;
- one that comes while the backend begins takes effect after the alignment only;
- a timestamp of zero means "never" (`runtime_standup.cpp:32`): one microsecond in 71 minutes;
- what follows the byte that overflowed a line is run as a command of its own
  (`runtime_supervisor_io.cpp:891`);
- the last line of a dump that failed may be written inside the next dump; the host's
  checksum notices.

## 7. Not modelled, and why

- Estimators, fuzzy inference, FOC and balance laws: floating-point arithmetic over
  continuous inputs. The models choose their outcomes where a branch tells them apart. The
  gates in front of the fuzzy attitude command are in `MotorExecution`; its surface is not.
- Device drivers: register-level I/O, the resynchronisation of the MPU-6050's FIFO included. Their
  outcomes (good, failed, late) are inputs of the pipeline and the executor.
- The timing tracker of the motor task: statistics nothing decides on.
- Platform start-up, diagnostics, profiling, telemetry formatting, the snapshot the queries
  print: they change no state another component decides on.
- Sensor commissioning and the link probe: bench firmware that prints what a sensor reads.
- Host tools but for the two decoders; SITL; linearisation scripts; tests.
- Weak memory: every shared word of the mailbox is `seq_cst`. The logger's
  volatile fields are modelled as sequentially consistent single accesses.

## 8. Plan

Done: the components others decide on, up to what section 7 leaves out; proofs of the safety of mailbox, executor,
control runtime, pipeline, commissioning, both session controllers, logger, dump, BLE transport, supervisor
and trace.

Next: `MotorLoop`, the executor over the mailbox itself instead of the register it implements.
