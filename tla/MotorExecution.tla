--------------------------- MODULE MotorExecution ---------------------------
(***************************************************************************)
(* The motor domain: MotorExecutionDomain (triwhirl_core/motor_execution)  *)
(* run by MotorExecutionTask's loop (main/runtime_motor_task.cpp) over the *)
(* SimpleFocMotorBackend contract, fed by an attitude task on the other    *)
(* core through the latest-value command mailbox.                          *)
(*                                                                         *)
(* The mailboxes are the atomic registers MotorMailbox is shown to         *)
(* implement; a read may fail while a publication is in flight.  Time is   *)
(* real time; the code sees it modulo ClockModulus (2^32 us).  Velocities  *)
(* are reduced to what the executor decides on: a target is within the     *)
(* backend's limit or over it, a sample is usable or not.                  *)
(***************************************************************************)
EXTENDS Integers

CONSTANTS
    Timeout,          \* config_.command_timeout_us, in ticks; 0 disables it
    ClockModulus,     \* 2^32 in the code
    MaxObservationAge,  \* max_motor_observation_age_us of the attitude task, in ticks
    Samples,          \* what a backend service can meet: see ServiceBackend
    MaxPublishes,     \* bound on the commands published
    MaxTime,          \* bound on time: less than one turn of the clock
    LastIssue         \* no command is issued after this time

ASSUME ExecutionAssumption ==
    /\ Timeout \in Nat /\ ClockModulus \in Nat /\ ClockModulus > 0
    /\ Timeout < ClockModulus /\ 2 * Timeout < ClockModulus
    /\ MaxObservationAge \in Nat \ {0} /\ 2 * MaxObservationAge < ClockModulus
    /\ Samples \subseteq {"good", "wire_error", "not_finite", "stuck"}
    /\ Samples # {}
    /\ MaxPublishes \in Nat
    /\ MaxTime \in Nat /\ MaxTime < ClockModulus
    /\ LastIssue \in Nat

Kinds == {"stop", "target", "over_limit"}

VARIABLES
    time,             \* real time
    issuing,          \* attitude task: the time it stamped on the command it is about to publish, or NotIssuing
    may,              \* attitude task: what it may publish: "unasked", "stop" or "target"
    command,          \* command mailbox: the newest publication
    task,             \* MotorExecutionTask: "begin", "wait", "serve" or "deleted"
    start,            \* the clock read for begin(), then for each service()
    motor,            \* executor and backend state
    observation       \* observation mailbox: the newest publication

vars == <<time, issuing, may, command, task, start, motor, observation>>

NotIssuing == -1

Init ==
    /\ time = 0
    /\ issuing = NotIssuing
    /\ may = "unasked"
    /\ command = [generation |-> 0, kind |-> "stop", issued |-> 0]
    /\ task = "begin"
    /\ start = 0
    /\ motor = [initialized |-> FALSE,  \* backend: begin() succeeded
                enabled |-> FALSE,      \* backend: command_enabled_
                actuator |-> FALSE,     \* backend: motor_enabled_
                sensor |-> FALSE,       \* backend: observation_.sensor_valid
                broken |-> FALSE,       \* backend: backend_faulted_
                latched |-> FALSE,      \* backend_fault_latched_
                desired |-> FALSE,      \* desired_enabled_
                timedOut |-> FALSE,     \* command_timed_out_
                lastSeen |-> 0,         \* last_seen_command_generation_
                consumed |-> 0,         \* consumed_command_generation_
                issued |-> 0,           \* last_enabled_command_issued_at_us32_
                age |-> 0]              \* history: true age of the command last timed out
    /\ observation = [published |-> FALSE, initialized |-> FALSE,
                      actuator |-> FALSE, sensor |-> FALSE, faulted |-> FALSE,
                      timedOut |-> FALSE, consumed |-> 0, start |-> 0]

-----------------------------------------------------------------------------
(* The attitude task *)

Tick ==
    /\ time < MaxTime
    /\ time' = time + 1
    /\ UNCHANGED <<issuing, may, command, task, start, motor, observation>>

\* The attitude task reads the clock before it decides what to command.
StampCommand ==
    /\ issuing = NotIssuing
    /\ time <= LastIssue
    /\ issuing' = time
    /\ UNCHANGED <<time, may, command, task, start, motor, observation>>

\* elapsedUs32: subtraction of two wrapped readings of the clock.
Elapsed(now, then) == (now - then) % ClockModulus

\* What evaluate() asks of an observation.  One of a service that started after
\* `now` was read is as stale as the oldest.
Usable(o, now) ==
    /\ o.published /\ o.initialized /\ o.sensor
    /\ ~o.faulted /\ ~o.timedOut
    /\ Elapsed(now, o.start) <= MaxObservationAge

\* evaluate(): the mailbox may be unreadable.
Evaluate ==
    /\ issuing # NotIssuing /\ may = "unasked"
    /\ \E readable \in BOOLEAN :
         may' = IF readable /\ Usable(observation, issuing) THEN "target" ELSE "stop"
    /\ UNCHANGED <<time, issuing, command, task, start, motor, observation>>

\* publishTarget, publishStop.  An attitude that is not valid calls for a stop,
\* whatever the motor says.
Publish(kind) ==
    /\ may # "unasked" /\ (kind # "stop" => may = "target")
    /\ command.generation < MaxPublishes
    /\ command' = [generation |-> command.generation + 1,
                   kind |-> kind, issued |-> issuing]
    /\ issuing' = NotIssuing /\ may' = "unasked"
    /\ UNCHANGED <<time, task, start, motor, observation>>

-----------------------------------------------------------------------------
(* The backend: SimpleFocMotorBackend behind MotorControl *)

\* Faulty: one half of a stop is forgotten.
ExecutorOnlyStop(m) == [m EXCEPT !.desired = FALSE]

\* stop() only caches the request; every caller in the executor also clears
\* desired_enabled_ and the accepted target.
Stop(m) == [m EXCEPT !.enabled = FALSE, !.desired = FALSE]

\* commandTargetVelocityRadS: refused over the limit and by a broken backend.
AcceptsTarget(m, kind) == kind = "target" /\ m.initialized /\ ~m.broken

\* setFaulted
SetFaulted(m) == [m EXCEPT !.broken = TRUE, !.enabled = FALSE]

\* beginImpl when the configuration, the sensor, the driver, the motor and its
\* alignment are all in order: the actuator is off.
BackendBegun(m) == [m EXCEPT !.initialized = TRUE, !.sensor = TRUE]

\* serviceBackend: enacts the cached request and samples the sensor.  A
\* non-finite velocity breaks the backend for good.  "stuck" is hardware that
\* does not honour stop (force_stuck_enabled in the host tests).
ServiceBackend(m, sample) ==
    IF ~m.initialized \/ m.broken THEN m
    ELSE CASE sample = "good" ->
                [m EXCEPT !.actuator = m.enabled, !.sensor = TRUE]
           [] sample = "wire_error" ->
                [m EXCEPT !.actuator = m.enabled, !.sensor = FALSE]
           [] sample = "not_finite" ->
                SetFaulted([m EXCEPT !.actuator = FALSE, !.sensor = FALSE])
           [] sample = "stuck" ->
                [m EXCEPT !.actuator = m.actuator \/ m.enabled, !.sensor = TRUE]

-----------------------------------------------------------------------------
(* The executor: MotorExecutionDomain *)

\* Faulty: a command exactly as old as the timeout is expired.
EagerExpired(issued, now) == Timeout # 0 /\ Elapsed(now, issued) >= Timeout

\* commandExpired
Expired(issued, now) == Timeout # 0 /\ Elapsed(now, issued) > Timeout

\* Faulty: a timeout is reported and not acted on.
SilentTimeOut(m, issued) == [m EXCEPT !.timedOut = TRUE, !.age = start - issued]

TimeOut(m, issued) == [Stop(m) EXCEPT !.timedOut = TRUE, !.age = start - issued]

\* The branches of service() on a command it has not seen before.
ConsumeNew(m, c) ==
    LET seen == [m EXCEPT !.lastSeen = c.generation, !.timedOut = FALSE]
    IN  CASE c.kind = "stop" ->
               [Stop(seen) EXCEPT !.consumed = c.generation]
          [] c.kind # "stop" /\ Expired(c.issued, start) ->
               [TimeOut(seen, c.issued) EXCEPT !.consumed = c.generation]
          [] c.kind # "stop" /\ ~Expired(c.issued, start) /\ m.latched ->
               seen
          [] c.kind # "stop" /\ ~Expired(c.issued, start) /\ ~m.latched ->
               IF AcceptsTarget(m, c.kind)
               THEN [seen EXCEPT !.enabled = TRUE, !.desired = TRUE,
                                 !.consumed = c.generation, !.issued = c.issued]
               ELSE [Stop(seen) EXCEPT !.latched = TRUE]

\* Faulty: the age of the last accepted command is checked only when the mailbox
\* could be read.
ContendedCommanded(m, readable) ==
    CASE readable /\ command.generation # m.lastSeen -> ConsumeNew(m, command)
      [] readable /\ command.generation = m.lastSeen
                  /\ m.desired /\ Expired(m.issued, start) -> TimeOut(m, m.issued)
      [] OTHER -> m

\* The command part of service(): a new command, or the age of the last
\* accepted one whether or not the mailbox could be read.
Commanded(m, readable) ==
    IF readable /\ command.generation # m.lastSeen
    THEN ConsumeNew(m, command)
    ELSE IF m.desired /\ Expired(m.issued, start)
         THEN TimeOut(m, m.issued)
         ELSE m

\* service() after the normal backend service: what the observation calls for.
Unsafe(m) == m.broken \/ (m.actuator /\ ~m.desired)
SensorBlindNeedsStop(m) == Unsafe(m)      \* faulty: sensor validity is ignored
NeedsStop(m) == Unsafe(m) \/ (m.actuator /\ ~m.sensor)

LatchIf(m, bad) == [m EXCEPT !.latched = m.latched \/ bad]

\* latchBackendFault, forceStopAndService and the second look.
FailSafe(m, sample) ==
    IF NeedsStop(m)
    THEN LET forced == ServiceBackend(Stop(LatchIf(m, Unsafe(m))), sample)
         IN  LatchIf(forced, forced.broken \/ forced.actuator)
    ELSE m

\* publishObservation
Observed(m) ==
    [published |-> TRUE, initialized |-> m.initialized, actuator |-> m.actuator,
     sensor |-> m.sensor, faulted |-> m.latched \/ m.broken,
     timedOut |-> m.timedOut, consumed |-> m.consumed, start |-> start]

\* publishSyntheticFault
SyntheticFault(m) ==
    [published |-> TRUE, initialized |-> FALSE, actuator |-> FALSE,
     sensor |-> FALSE, faulted |-> TRUE, timedOut |-> m.timedOut,
     consumed |-> m.consumed, start |-> start]

-----------------------------------------------------------------------------
(* The motor task: taskMain *)

\* begin() when a stage of the backend's fails: the task deletes itself.
BeginFails ==
    /\ task = "begin"
    /\ motor' = [SetFaulted(motor) EXCEPT !.latched = TRUE]
    /\ observation' = SyntheticFault(motor)
    /\ task' = "deleted"
    /\ UNCHANGED <<time, issuing, may, command, start>>

\* initReleaseClock: without a release timer the task deletes itself too.
ReleaseClockMade == {"wait", "deleted"}

\* begin(): a de-energised baseline, serviced once before the first release.
Begin ==
    /\ task = "begin"
    /\ \E s1, s2 \in Samples :
         LET serviced == ServiceBackend(Stop(BackendBegun(motor)), s1)
             m == IF Unsafe(serviced)
                  THEN ServiceBackend(Stop(LatchIf(serviced, TRUE)), s2)
                  ELSE serviced
         IN  /\ motor' = m
             /\ observation' = Observed(m)
             /\ task' \in IF m.latched THEN {"deleted"} ELSE ReleaseClockMade
    /\ UNCHANGED <<time, issuing, may, command, start>>

\* A release notification wakes the task, which reads the clock...
Wake ==
    /\ task = "wait"
    /\ start' = time
    /\ task' = "serve"
    /\ UNCHANGED <<time, issuing, may, command, motor, observation>>

\* ... and only then enters service(), whose first act is to read the mailbox.
Service(readable) ==
    /\ task = "serve"
    /\ readable => command.generation > 0
    /\ \E s1, s2 \in Samples :
         LET m == FailSafe(ServiceBackend(Commanded(motor, readable), s1), s2)
         IN  motor' = m /\ observation' = Observed(m)
    /\ task' = "wait"
    /\ UNCHANGED <<time, issuing, may, command, start>>

ServeRelease == \E readable \in BOOLEAN : Service(readable)

Next ==
    \/ Tick
    \/ StampCommand \/ Evaluate
    \/ \E kind \in Kinds : Publish(kind)
    \/ BeginFails
    \/ Begin
    \/ Wake
    \/ ServeRelease

Spec == Init /\ [][Next]_vars

\* The motor task and the clock keep going; the attitude task owes nothing, and
\* the mailbox may stay unreadable for ever.
TaskFairness ==
    /\ WF_vars(Tick)
    /\ WF_vars(Begin \/ BeginFails)
    /\ WF_vars(Wake)
    /\ WF_vars(ServeRelease)

-----------------------------------------------------------------------------
(* Properties *)

Commands == [generation : 0..MaxPublishes, kind : Kinds, issued : 0..LastIssue]
Motors ==
    [initialized : BOOLEAN, enabled : BOOLEAN, actuator : BOOLEAN,
     sensor : BOOLEAN, broken : BOOLEAN, latched : BOOLEAN, desired : BOOLEAN,
     timedOut : BOOLEAN, lastSeen : 0..MaxPublishes,
     consumed : 0..MaxPublishes, issued : 0..LastIssue, age : Int]
Observations ==
    [published : BOOLEAN, initialized : BOOLEAN, actuator : BOOLEAN,
     sensor : BOOLEAN, faulted : BOOLEAN, timedOut : BOOLEAN,
     consumed : 0..MaxPublishes, start : 0..MaxTime]

TypeOK ==
    /\ time \in 0..MaxTime
    /\ issuing \in {NotIssuing} \cup 0..LastIssue
    /\ may \in {"unasked", "stop", "target"}
    /\ may # "unasked" => issuing # NotIssuing
    /\ command \in Commands
    /\ task \in {"begin", "wait", "serve", "deleted"}
    /\ start \in 0..MaxTime
    /\ motor \in Motors
    /\ observation \in Observations

\* An energised actuator is one the attitude task asked for and the sensor
\* supports, or it is reported as a fault: hardware that ignores stop is never
\* hidden from the attitude task.
EnergisedOnlyOnAuthority ==
    motor.actuator =>
        \/ motor.desired /\ motor.enabled /\ motor.sensor
        \/ observation.faulted

\* A latched fault ends authority for good: neither the executor nor the backend
\* holds a target any more, whatever is published afterwards.
FaultEndsAuthority ==
    motor.latched => ~motor.desired /\ ~motor.enabled

\* Authority is never older than the timeout at the service that extends it, even
\* when that service could not read the mailbox.
AuthorityIsRecent ==
    (Timeout # 0 /\ task = "wait" /\ motor.desired)
        => start - motor.issued <= Timeout

\* A stop that was read is obeyed by the service that read it.
StopIsBinding ==
    (command.kind = "stop" /\ motor.lastSeen = command.generation)
        => ~motor.desired /\ ~motor.enabled

\* A command times out when it is too old, or when it is so new that it was
\* stamped after the service read the clock: the unsigned age of a command from
\* the future is close to 2^32, above every timeout (motor_execution.hpp:181-185).
TimeoutIsOldOrAhead ==
    motor.timedOut => motor.age > Timeout \/ motor.age < 0

\* Once a fault is reported, every command but one already decided on is a stop,
\* for good: an attitude task that has not asked yet will not be let by again.
FaultSilencesTargets ==
    [][observation.faulted /\ may # "target" =>
         /\ observation'.faulted /\ may' # "target"
         /\ command' # command => command'.kind = "stop"]_vars

\* An attitude task that falls silent cannot keep the motor running: once it
\* publishes nothing more, the motor comes to rest and stays so, or hardware that
\* does not honour the stop is reported as a fault for good.
SilenceStopsMotor == TaskFairness => <>[](~motor.actuator \/ motor.latched)
=============================================================================
