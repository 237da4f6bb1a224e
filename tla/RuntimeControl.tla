--------------------------- MODULE RuntimeControl ---------------------------
(***************************************************************************)
(* The legacy runtime's Core-1 control task: main/runtime_main.cpp's tick  *)
(* loop and command handlers over the state of main/runtime_state.cpp, the *)
(* balance and standup sessions (runtime_balance.cpp, runtime_standup.cpp) *)
(* and the swing-identification run, next to the Core-0 logger worker.     *)
(*                                                                         *)
(* A tick is a sequence of stages, and each stage is one action: only the  *)
(* logger worker runs beside the control task and shares state with it.    *)
(* Measurements, controller outputs, elapsed times and bridge results are  *)
(* chosen, as the code sees them, among the outcomes its branches tell     *)
(* apart; a rejected command changes nothing and is a tick without one.    *)
(***************************************************************************)
EXTENDS Integers

CONSTANTS
    ImuReady,      \* imu_ready: the MPU6050 answered at startup
    MissLimit,     \* kEncoderConsecutiveMissLimit
    Commands       \* the commands the supervisor passes on

ASSUME ControlAssumption ==
    /\ ImuReady \in BOOLEAN
    /\ MissLimit \in Nat \ {0}

Faults == {"encoder", "imu", "timing", "wheel", "angle", "numeric",
           "calibration", "actuator"}

VARIABLES
    stage,                \* where the control task is in its tick
    motor,                \* motor_mode, calibration.stage and the bridge
    motor_config_valid,
    faults,               \* safety_latch.mask_
    encoder,              \* encoder_sample_valid, consecutive misses, wheel_state.velocity_valid
    imu_sample_valid,
    gyro_bias_valid,
    attitude,             \* attitude_initialized and attitude_state.valid
    balance,              \* balance_active, vendor_standup_mode, standup_active, balance_config_valid
    swing,                \* swing_id_runner's state; the terminal ones are "inactive"
    log,                  \* runtime_logger, log_critical_window, swing_log_finalize_pending
    clock                 \* the release timer and what the tick knows of its period

sensors == <<encoder, imu_sample_valid, gyro_bias_valid, attitude>>
vars == <<stage, motor, motor_config_valid, faults, sensors, balance, swing, log, clock>>

Stopped == [mode |-> "stopped", calibration |-> "idle", driven |-> FALSE]

Init ==
    /\ stage = "sense"
    /\ motor = Stopped
    /\ motor_config_valid = FALSE
    /\ faults = {}
    /\ encoder \in [valid : BOOLEAN, misses : {0}, velocity : {FALSE}]
    /\ imu_sample_valid \in IF ImuReady THEN BOOLEAN ELSE {FALSE}
    /\ gyro_bias_valid = FALSE
    /\ attitude = "none"
    /\ balance = [active |-> FALSE, vendor |-> FALSE, standup |-> FALSE, configured |-> FALSE]
    /\ swing = "inactive"
    /\ log = [state |-> "idle",        \* kUnavailable, kIdle and kError: only prepare is accepted
              flash |-> TRUE,          \* flash_writes_allowed_
              hold |-> FALSE,          \* autonomous_flash_hold_
              writing |-> FALSE,       \* the worker has decided on a batch and is in writePayload
              critical |-> FALSE,      \* log_critical_window
              pending |-> FALSE]       \* swing_log_finalize_pending
    /\ clock = [release |-> "none",    \* none before the first wait, then ready or failed for good
                armed |-> FALSE,       \* timing_stats.previous_start_us # 0
                late |-> FALSE]        \* this tick began more than kHardControlPeriodUs after the last

-----------------------------------------------------------------------------
(* runtime_state.cpp: what every stage and command may call *)

StopMotor == motor' = Stopped

\* Faulty: the fault is latched and the motor left as it is.
UnstoppedTripFault(f) ==
    /\ faults' = faults \cup {f}
    /\ UNCHANGED motor

TripFault(f) ==
    /\ faults' = faults \cup {f}
    /\ StopMotor

AttitudeValid == attitude = "valid" /\ imu_sample_valid /\ gyro_bias_valid

\* motorStartFailure(); bad numerics may reject a start as well.
MotorStartable == faults = {} /\ encoder.valid

FaultClearReady ==
    /\ "encoder" \in faults => encoder.valid
    /\ "imu" \in faults => imu_sample_valid

ResetAttitudeFromAccel == attitude' = IF imu_sample_valid THEN "reset" ELSE "none"

\* Faulty: the hold latched by the first swing record is not honoured.
UnheldSetFlashWritesAllowed(l, allowed) == [l EXCEPT !.flash = allowed]

\* runtime_logger.setFlashWritesAllowed()
SetFlashWritesAllowed(l, allowed) == [l EXCEPT !.flash = allowed /\ ~l.hold]

SetSwingCriticalWindow(l, critical) ==
    IF l.critical = critical THEN l
    ELSE SetFlashWritesAllowed([l EXCEPT !.critical = critical], ~critical)

\* runtime_logger.stop(), a no-op outside Recording and Ready
LoggerStop(l) ==
    IF l.state \in {"recording", "ready"}
    THEN [l EXCEPT !.state = "stopping", !.hold = FALSE, !.flash = TRUE]
    ELSE l

\* runtime_logger.record() with the flags of swingRuntimeLogFlags()
Record(l) ==
    IF l.state = "recording" /\ swing # "inactive"
    THEN [l EXCEPT !.hold = TRUE, !.flash = FALSE]
    ELSE l

\* Faulty: the critical window closes but the logger is left recording.
UnstoppedFinalize(l) ==
    IF l.pending
    THEN [SetSwingCriticalWindow(l, FALSE) EXCEPT !.pending = FALSE]
    ELSE l

FinalizeSwingLogIfPending(l) ==
    IF l.pending
    THEN [LoggerStop(SetSwingCriticalWindow(l, FALSE)) EXCEPT !.pending = FALSE]
    ELSE l

FinishSwingRun ==
    /\ swing' = "inactive"
    /\ StopMotor
    /\ log' = [SetSwingCriticalWindow(log, FALSE) EXCEPT !.pending = TRUE]

-----------------------------------------------------------------------------
(* Stage 1: the newest sensor frame, freshness, attitude *)

\* commitEncoderResult(), noteEncoderMiss(), then applySensorFreshness()
CommitEncoder(result, fresh) ==
    \E velocity \in BOOLEAN :
        LET misses == IF encoder.misses < MissLimit THEN encoder.misses + 1 ELSE MissLimit
            seen == CASE result = "ok" ->
                           [valid |-> TRUE, misses |-> 0, velocity |-> velocity]
                      [] result = "miss" ->
                           [encoder EXCEPT !.misses = misses,
                                           !.valid = @ /\ misses < MissLimit]
                      [] result = "none" -> encoder
        IN encoder' = [seen EXCEPT !.valid = @ /\ fresh]

\* commitImuResult(), noteImuMiss(), then applySensorFreshness(); a sample may
\* complete the gyro calibration startup or "imu calibrate" began.
CommitImu(result, fresh) ==
    /\ imu_sample_valid' = (fresh /\ CASE result = "ok" -> TRUE
                                      [] result = "miss" -> FALSE
                                      [] result = "none" -> imu_sample_valid)
    /\ gyro_bias_valid' \in IF result = "ok" THEN {gyro_bias_valid, TRUE} ELSE {gyro_bias_valid}

UpdateAttitude(sampled) ==
    IF sampled /\ imu_sample_valid' /\ gyro_bias_valid'
    THEN IF attitude = "none" THEN attitude' = "reset"
         ELSE attitude' \in {attitude, "reset", "valid"}
    ELSE UNCHANGED attitude

Sense ==
    /\ stage = "sense"
    /\ \E e \in {"none", "ok", "miss"}, i \in {"none", "ok", "miss"},
          encoderFresh, imuFresh \in BOOLEAN, late \in BOOLEAN :
        /\ i = "none" <=> (e = "none" \/ ~ImuReady)
        /\ CommitEncoder(e, encoderFresh)
        /\ IF ImuReady THEN CommitImu(i, imuFresh)
           ELSE UNCHANGED <<imu_sample_valid, gyro_bias_valid>>
        /\ UpdateAttitude(i = "ok")
        /\ clock' = [clock EXCEPT !.late = late /\ clock.release # "none"]
    /\ stage' = "balance"
    /\ UNCHANGED <<motor, motor_config_valid, faults, balance, swing, log>>

-----------------------------------------------------------------------------
(* Stage 2: updateRuntimeBalance() *)

\* Faulty: the standup controller is left running.
ForgetfulEndSession ==
    balance' = [balance EXCEPT !.active = FALSE, !.vendor = FALSE]

EndSession ==
    balance' = [balance EXCEPT !.active = FALSE, !.vendor = FALSE, !.standup = FALSE]

SensorFault ==
    IF ~encoder.valid \/ ~encoder.velocity THEN "encoder"
    ELSE IF ~AttitudeValid THEN "imu" ELSE "none"

\* Faulty: the controller's output is used without a look at the sensors.
BlindDirectFault(frame, output) == IF frame # "none" THEN frame ELSE output

\* What the direct controller's checks trip, in the code's order: frame is what
\* the consumed sensor frame lacks, output what the controller's output breaks.
DirectFault(frame, output) ==
    IF SensorFault # "none" THEN SensorFault
    ELSE IF frame # "none" THEN frame ELSE output

\* The vendor standup tolerates a missing IMU sample for kStandupImuGraceUs.
StandupFault(grace, output) ==
    IF ~motor_config_valid THEN "calibration"
    ELSE IF ~encoder.valid \/ ~encoder.velocity THEN "encoder"
    ELSE IF ~(imu_sample_valid \/ grace) \/ ~gyro_bias_valid \/ attitude # "valid"
         THEN "imu" ELSE output

\* A fault ends the session and stops the motor in either mode.
Judge(f) ==
    IF f = "none" THEN UNCHANGED <<motor, faults, balance>>
    ELSE TripFault(f) /\ EndSession

UpdateDirectBalance ==
    IF clock.release # "ready" THEN Judge("timing")
    ELSE IF faults = {} /\ motor.mode = "foc"
    THEN \E frame \in {"none", "encoder", "imu"}, output \in {"none", "numeric", "angle", "wheel"} :
            Judge(DirectFault(frame, output))
    ELSE /\ EndSession
         /\ IF faults # {} THEN StopMotor ELSE UNCHANGED motor
         /\ UNCHANGED faults

UpdateStandup ==
    IF clock.release # "ready" THEN Judge("timing")
    ELSE IF faults = {} /\ motor.mode = "foc"
    THEN \E grace \in BOOLEAN, output \in {"none", "numeric", "wheel"} :
            Judge(StandupFault(grace, output))
    ELSE EndSession /\ StopMotor /\ UNCHANGED faults

UpdateRuntimeBalance ==
    /\ stage = "balance"
    /\ IF ~balance.active THEN UNCHANGED <<motor, faults, balance>>
       ELSE IF balance.vendor THEN UpdateStandup ELSE UpdateDirectBalance
    /\ stage' = "safety"
    /\ UNCHANGED <<motor_config_valid, sensors, swing, log, clock>>

-----------------------------------------------------------------------------
(* Stages 3 to 6: safety, swing identification, actuation, log *)

SafetyFaultSeen(numericsHealthy) ==
    IF ~encoder.valid THEN "encoder"
    ELSE IF ~numericsHealthy THEN "numeric"
    ELSE IF motor.mode = "foc" /\ ~motor_config_valid THEN "calibration"
    ELSE IF clock.armed /\ clock.late THEN "timing" ELSE "none"

EvaluateSafety ==
    /\ stage = "safety"
    /\ IF motor.mode = "stopped" \/ faults # {} THEN UNCHANGED <<motor, faults>>
       ELSE \E healthy \in BOOLEAN :
               IF SafetyFaultSeen(healthy) = "none" THEN UNCHANGED <<motor, faults>>
               ELSE TripFault(SafetyFaultSeen(healthy))
    /\ stage' = "swing"
    /\ UNCHANGED <<motor_config_valid, sensors, balance, swing, log, clock>>

\* SwingIdRunner::update() short of the end of the run, which it reaches from
\* every active state on a timeout and from Probe with the last capture.
SwingNext == [pump |-> {"pump", "probe"}, probe |-> {"probe", "rearm"},
              rearm |-> {"rearm", "pump"}]

\* applySwingOutput() while the run is active
ContinueSwing ==
    \E next \in SwingNext[swing] :
        /\ swing' = next
        /\ log' = SetSwingCriticalWindow(log, next = "probe")
        /\ motor' = [motor EXCEPT !.mode = "foc"]

SwingMayContinue == faults = {} /\ AttitudeValid

UpdateSwingIdentification ==
    /\ stage = "swing"
    /\ IF swing = "inactive" THEN UNCHANGED <<motor, swing, log>>
       ELSE \/ SwingMayContinue /\ ContinueSwing
            \/ FinishSwingRun
    /\ stage' = "motor"
    /\ UNCHANGED <<motor_config_valid, faults, sensors, balance, clock>>

\* applyDqWithLimit(): the bridge takes the voltages or a fault is tripped.
ApplyDq(driving) ==
    \/ motor' = [driving EXCEPT !.driven = TRUE] /\ UNCHANGED faults
    \/ \E f \in {"numeric", "actuator"} : TripFault(f)

FinishCalibration ==
    \/ TripFault("calibration") /\ motor_config_valid' \in {motor_config_valid, FALSE}
    \/ StopMotor /\ motor_config_valid' = TRUE /\ UNCHANGED faults

CalibrationNext == [align |-> {"align", "sweep"}, sweep |-> {"sweep", "settle"},
                    settle |-> {"settle"}]

UpdateCalibration ==
    IF motor.calibration = "idle"
    THEN StopMotor /\ UNCHANGED <<motor_config_valid, faults>>
    ELSE IF ~encoder.valid
    THEN TripFault("encoder") /\ UNCHANGED motor_config_valid
    ELSE \/ /\ \E next \in CalibrationNext[motor.calibration] :
                  ApplyDq([motor EXCEPT !.calibration = next])
            /\ UNCHANGED motor_config_valid
         \/ motor.calibration = "settle" /\ FinishCalibration

UpdateFoc ==
    IF ~motor_config_valid THEN TripFault("calibration")
    ELSE IF ~encoder.valid THEN TripFault("encoder")
    ELSE ApplyDq(motor)

UpdateMotor ==
    /\ stage = "motor"
    /\ \/ motor.mode = "stopped" /\ UNCHANGED <<motor, motor_config_valid, faults>>
       \/ motor.mode = "calibrating" /\ UpdateCalibration
       \/ motor.mode = "openloop" /\ ApplyDq(motor) /\ UNCHANGED motor_config_valid
       \/ motor.mode = "foc" /\ UpdateFoc /\ UNCHANGED motor_config_valid
    /\ stage' = "log"
    /\ UNCHANGED <<sensors, balance, swing, log, clock>>

RecordLog ==
    /\ stage = "log"
    /\ log' = FinalizeSwingLogIfPending(Record(log))
    /\ stage' = "command"
    /\ UNCHANGED <<motor, motor_config_valid, faults, sensors, balance, swing, clock>>

-----------------------------------------------------------------------------
(* Stage 7: processOneSupervisorInput(), at most one command *)

AllowedDuringSwing == {"SwingAbort", "SwingStart"}

\* Faulty: commands pass while a swing run owns the motor.
UngatedTaken(c) ==
    /\ stage = "command"
    /\ c \in Commands
    /\ stage' = "end"

\* Faulty: the queue is drained, one command after the other in the same tick.
DrainingTaken(c) ==
    /\ stage = "command"
    /\ c \in Commands
    /\ swing = "inactive" \/ c \in AllowedDuringSwing
    /\ stage' = "command"

\* typedCommandAllowedDuringSwing(), and what the commands leave alone
Taken(c) ==
    /\ stage = "command"
    /\ c \in Commands
    /\ swing = "inactive" \/ c \in AllowedDuringSwing
    /\ stage' = "end"

NoCommand ==
    /\ stage = "command"
    /\ stage' = "end"
    /\ UNCHANGED <<motor, motor_config_valid, faults, sensors, balance, swing, log, clock>>

BalanceConfig ==
    /\ Taken("BalanceConfig")
    /\ ~balance.active /\ ~balance.standup /\ motor.mode = "stopped"
    /\ balance' = [balance EXCEPT !.configured = TRUE, !.vendor = FALSE]
    /\ UNCHANGED <<motor, motor_config_valid, faults, sensors, swing, log, clock>>

SessionStartable ==
    /\ ~balance.active
    /\ motor.mode = "stopped"
    /\ clock.release = "ready"
    /\ motor_config_valid
    /\ SensorFault = "none"
    /\ faults = {}

\* startRuntimeBalance(): without a configured controller the vendor standup is
\* started.  The frame, capture-window and wheel-rate checks may reject as well.
BalanceStart ==
    /\ Taken("BalanceStart")
    /\ SessionStartable
    /\ ~balance.configured => ~balance.standup
    /\ balance' = [balance EXCEPT !.active = TRUE, !.vendor = ~balance.configured,
                                  !.standup = ~balance.configured \/ @]
    /\ motor' = [motor EXCEPT !.mode = "foc"]
    /\ UNCHANGED <<motor_config_valid, faults, sensors, swing, log, clock>>

StopRuntimeBalance ==
    IF balance.active \/ balance.standup THEN EndSession /\ StopMotor
    ELSE UNCHANGED <<balance, motor>>

BalanceStop ==
    /\ Taken("BalanceStop")
    /\ StopRuntimeBalance
    /\ UNCHANGED <<motor_config_valid, faults, sensors, swing, log, clock>>

\* "stop" and "motor stop"
Stop ==
    /\ Taken("Stop")
    /\ IF balance.active \/ balance.standup THEN EndSession ELSE UNCHANGED balance
    /\ StopMotor
    /\ UNCHANGED <<motor_config_valid, faults, sensors, swing, log, clock>>

FaultClear ==
    /\ Taken("FaultClear")
    /\ IF balance.active \/ balance.standup THEN EndSession ELSE UNCHANGED balance
    /\ StopMotor
    /\ faults' \in IF FaultClearReady THEN {faults, {}} ELSE {faults}
    /\ UNCHANGED <<motor_config_valid, sensors, swing, log, clock>>

SwingStart ==
    /\ Taken("SwingStart")
    /\ swing = "inactive"
    /\ motor.mode = "stopped"
    /\ motor_config_valid /\ SensorFault = "none" /\ faults = {}
    /\ log.state = "recording"
    /\ swing' = "pump"
    /\ log' = SetSwingCriticalWindow(log, FALSE)
    /\ motor' = [motor EXCEPT !.mode = "foc"]
    /\ UNCHANGED <<motor_config_valid, faults, sensors, balance, clock>>

SwingAbort ==
    /\ Taken("SwingAbort")
    /\ swing # "inactive"
    /\ FinishSwingRun
    /\ UNCHANGED <<motor_config_valid, faults, sensors, balance, clock>>

\* A request rounded to zero volts only stops the motor: no session is ended.
MotorVq ==
    /\ Taken("MotorVq")
    /\ \/ StopMotor
       \/ MotorStartable /\ motor_config_valid /\ motor' = [motor EXCEPT !.mode = "foc"]
    /\ UNCHANGED <<motor_config_valid, faults, sensors, balance, swing, log, clock>>

MotorConfig ==
    /\ Taken("MotorConfig")
    /\ StopMotor
    /\ motor_config_valid' = TRUE
    /\ UNCHANGED <<faults, sensors, balance, swing, log, clock>>

\* Faulty: the latched fault does not keep the calibration from starting.
LatchBlindMotorCalibrate ==
    /\ Taken("MotorCalibrate")
    /\ encoder.valid
    /\ motor' = [Stopped EXCEPT !.mode = "calibrating", !.calibration = "align"]
    /\ UNCHANGED <<motor_config_valid, faults, sensors, balance, swing, log, clock>>

MotorCalibrate ==
    /\ Taken("MotorCalibrate")
    /\ MotorStartable
    /\ motor' = [Stopped EXCEPT !.mode = "calibrating", !.calibration = "align"]
    /\ UNCHANGED <<motor_config_valid, faults, sensors, balance, swing, log, clock>>

Field ==
    /\ Taken("Field")
    /\ \/ StopMotor
       \/ MotorStartable /\ motor' = [Stopped EXCEPT !.mode = "openloop"]
    /\ UNCHANGED <<motor_config_valid, faults, sensors, balance, swing, log, clock>>

AttitudeReset ==
    /\ Taken("AttitudeReset")
    /\ attitude' = "reset" \/ ResetAttitudeFromAccel
    /\ UNCHANGED <<motor, motor_config_valid, faults, encoder, imu_sample_valid,
                   gyro_bias_valid, balance, swing, log, clock>>

ImuMap ==
    /\ Taken("ImuMap")
    /\ ResetAttitudeFromAccel
    /\ UNCHANGED <<motor, motor_config_valid, faults, encoder, imu_sample_valid,
                   gyro_bias_valid, balance, swing, log, clock>>

ImuCalibrate ==
    /\ Taken("ImuCalibrate")
    /\ ImuReady
    /\ gyro_bias_valid' = FALSE
    /\ attitude' = "none"
    /\ UNCHANGED <<motor, motor_config_valid, faults, encoder, imu_sample_valid,
                   balance, swing, log, clock>>

TimingReset ==
    /\ Taken("TimingReset")
    /\ clock' = [clock EXCEPT !.armed = FALSE]
    /\ UNCHANGED <<motor, motor_config_valid, faults, sensors, balance, swing, log>>

LogPrepare ==
    /\ Taken("LogPrepare")
    /\ motor.mode = "stopped"
    /\ log.state \notin {"erasing", "recording", "stopping"}
    /\ log' = [log EXCEPT !.state = "erasing", !.hold = FALSE, !.flash = TRUE, !.critical = FALSE]
    /\ UNCHANGED <<motor, motor_config_valid, faults, sensors, balance, swing, clock>>

LogStart ==
    /\ Taken("LogStart")
    /\ log.state = "ready"
    /\ log' = [log EXCEPT !.state = "recording", !.hold = FALSE, !.flash = TRUE, !.critical = FALSE]
    /\ UNCHANGED <<motor, motor_config_valid, faults, sensors, balance, swing, clock>>

LogCritical ==
    /\ Taken("LogCritical")
    /\ \E on \in BOOLEAN : log' = SetFlashWritesAllowed([log EXCEPT !.critical = on], ~on)
    /\ UNCHANGED <<motor, motor_config_valid, faults, sensors, balance, swing, clock>>

LogStop ==
    /\ Taken("LogStop")
    /\ log' = LoggerStop(SetFlashWritesAllowed([log EXCEPT !.critical = FALSE], TRUE))
    /\ UNCHANGED <<motor, motor_config_valid, faults, sensors, balance, swing, clock>>

-----------------------------------------------------------------------------
(* Stage 8: the rest of the tick, and Core 0's logger worker *)

\* initRealtimeReleaseTimer: tried once, and what came of it is for good.
InitRealtimeReleaseTimer == {r \in {"ready", "failed"} : clock.release \in {"none", r}}

\* waitForNextRealtimeRelease: the releases missed meanwhile are dropped, the
\* next one begins a tick.
WaitForNextRelease(armed) ==
    \E r \in InitRealtimeReleaseTimer : clock' = [release |-> r, armed |-> armed, late |-> FALSE]

\* Faulty: a tick that found no earlier start does not record its own.
UnarmedEndTick ==
    /\ stage = "end"
    /\ log' = FinalizeSwingLogIfPending(log)
    /\ WaitForNextRelease(clock.armed)
    /\ stage' = "sense"
    /\ UNCHANGED <<motor, motor_config_valid, faults, sensors, balance, swing>>

\* updateTimingStats() and waitForNextRealtimeRelease().
EndTick ==
    /\ stage = "end"
    /\ log' = FinalizeSwingLogIfPending(log)
    /\ WaitForNextRelease(TRUE)
    /\ stage' = "sense"
    /\ UNCHANGED <<motor, motor_config_valid, faults, sensors, balance, swing>>

\* workerLoop(): it looks at the state and the flash flag, then acts on them.
WorkerErase ==
    /\ log.state = "erasing"
    /\ \E s \in {"ready", "idle"} : log' = [log EXCEPT !.state = s]

WorkerDecideWrite ==
    /\ ~log.writing
    /\ log.state = "stopping" \/ (log.state = "recording" /\ log.flash)
    /\ log' = [log EXCEPT !.writing = TRUE]

WorkerWrite ==
    /\ log.writing
    /\ \E s \in {log.state, "idle"} : log' = [log EXCEPT !.writing = FALSE, !.state = s]

WorkerFinalize ==
    /\ ~log.writing
    /\ log.state = "stopping"
    /\ \E s \in {"complete", "idle"} : log' = [log EXCEPT !.state = s]

LoggerWorker ==
    /\ WorkerErase \/ WorkerDecideWrite \/ WorkerWrite \/ WorkerFinalize
    /\ UNCHANGED <<stage, motor, motor_config_valid, faults, sensors, balance, swing, clock>>

Command ==
    \/ NoCommand
    \/ BalanceConfig \/ BalanceStart \/ BalanceStop \/ Stop \/ FaultClear
    \/ SwingStart \/ SwingAbort
    \/ MotorVq \/ MotorConfig \/ MotorCalibrate \/ Field
    \/ AttitudeReset \/ ImuMap \/ ImuCalibrate \/ TimingReset
    \/ LogPrepare \/ LogStart \/ LogCritical \/ LogStop

ControlTask ==
    \/ Sense \/ UpdateRuntimeBalance \/ EvaluateSafety \/ UpdateSwingIdentification
    \/ UpdateMotor \/ RecordLog \/ Command \/ EndTick

Next == ControlTask \/ LoggerWorker

Spec == Init /\ [][Next]_vars

-----------------------------------------------------------------------------
TypeOK ==
    /\ stage \in {"sense", "balance", "safety", "swing", "motor", "log", "command", "end"}
    /\ motor \in [mode : {"stopped", "openloop", "foc", "calibrating"},
                  calibration : {"idle", "align", "sweep", "settle"}, driven : BOOLEAN]
    /\ motor_config_valid \in BOOLEAN
    /\ faults \in SUBSET Faults
    /\ encoder \in [valid : BOOLEAN, misses : 0 .. MissLimit, velocity : BOOLEAN]
    /\ imu_sample_valid \in BOOLEAN
    /\ gyro_bias_valid \in BOOLEAN
    /\ attitude \in {"none", "reset", "valid"}
    /\ balance \in [active : BOOLEAN, vendor : BOOLEAN, standup : BOOLEAN, configured : BOOLEAN]
    /\ swing \in {"inactive", "pump", "probe", "rearm"}
    /\ log \in [state : {"idle", "erasing", "ready", "recording", "stopping", "complete"},
                flash : BOOLEAN, hold : BOOLEAN, writing : BOOLEAN,
                critical : BOOLEAN, pending : BOOLEAN]
    /\ clock \in [release : {"none", "ready", "failed"}, armed : BOOLEAN, late : BOOLEAN]

\* A latched fault inhibits actuation, whichever stage or command latched it
\* and whatever is commanded afterwards, until it is cleared
\* (docs/telemetry.md: "motor actuation is inhibited until ... cleared").
FaultInhibitsMotor == faults # {} => motor.mode = "stopped" /\ ~motor.driven

\* The balance session and the swing run never both own the motor command, and
\* the standup controller runs exactly for a vendor session.
OneOwner ==
    /\ balance.active => swing = "inactive"
    /\ balance.standup <=> balance.active /\ balance.vendor

\* The fault mask never collects a second fault: the first one stops whatever
\* could trip another, so firstFault() names the whole cause.
FirstFaultIsTheCause == \A f, g \in faults : f = g

\* Of the stages that run before PWM, none lets the bridge be driven for a
\* session or a run on a sensor it may not use, nor in a tick that began late.
DrivenOnGoodInputs ==
    stage = "log" /\ motor.driven =>
        /\ encoder.valid
        /\ motor.mode = "foc" => motor_config_valid
        /\ clock.armed => ~clock.late
        /\ swing # "inactive" => AttitudeValid
        /\ balance.active /\ motor.mode = "foc" =>
             /\ clock.release = "ready"
             /\ encoder.velocity /\ gyro_bias_valid /\ attitude = "valid"
             /\ ~balance.vendor => imu_sample_valid

\* No late tick is ever missed: "timing reset" forgets the last start, but the
\* tick that runs it records its own before it ends.
LateTickStopsMotor ==
    stage \in {"swing", "motor", "log"} /\ clock.late => motor.mode = "stopped" /\ ~motor.driven

\* Once a swing run's first record is taken, no change of its critical window
\* allows flash writes before the run is over (runtime_logger.cpp:216-218).
FlashHeldDuringSwing ==
    swing # "inactive" /\ motor.driven /\ log.state = "recording" /\ stage # "log" => ~log.flash

\* The hold dies with the run: a recording is never left without flash writes
\* once the run that imposed the hold is over, aborted or faulted.
HoldEndsWithSwing ==
    stage = "sense" /\ swing = "inactive" =>
        /\ ~log.pending
        /\ log.state \in {"recording", "stopping"} => ~log.hold

\* Flash writes are withheld from the first record of a swing run until the run is
\* over, and no longer.
FlashFollowsSwing == FlashHeldDuringSwing /\ HoldEndsWithSwing

\* Only a new command energises a stopped motor, and never under the session it
\* was stopped in: a session or a run that saw its motor stopped is over before
\* the next command, so that nothing old takes the motor back.
OnlyANewStartEnergises ==
    [][motor.mode = "stopped" /\ motor'.mode # "stopped" =>
         stage = "command" /\ ~balance.active /\ swing = "inactive"]_vars

\* A fault that stopped a swing run is not cleared before the run has seen it and
\* its log is finalised: the run would go on and take the stopped motor back.
RunSeesItsFault ==
    [][faults # {} /\ faults' = {} => swing = "inactive" /\ ~log.pending]_vars

\* runtime_logger.cpp:216 "Autonomous motor identification is a hard no-flash
\* region."
NoFlashWriteDuringSwing == swing # "inactive" /\ motor.driven => ~log.writing
=============================================================================
