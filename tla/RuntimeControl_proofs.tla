------------------------ MODULE RuntimeControl_proofs ------------------------
(***************************************************************************)
(* Proofs about RuntimeControl, for every MissLimit, with or without an    *)
(* IMU, and for every set of commands the supervisor may pass on.          *)
(*                                                                         *)
(* The invariants are proved in layers, each inductive relative to the     *)
(* ones before: types, then what the latch does to the motor, then who     *)
(* owns the motor command, then the period check, then the logger's flash  *)
(* flags, then what has been checked when the bridge is driven.            *)
(***************************************************************************)
EXTENDS RuntimeControl, TLAPS

MotorStates ==
    [mode : {"stopped", "openloop", "foc", "calibrating"},
     calibration : {"idle", "align", "sweep", "settle"}, driven : BOOLEAN]
BalanceStates ==
    [active : BOOLEAN, vendor : BOOLEAN, standup : BOOLEAN, configured : BOOLEAN]
EncoderStates == [valid : BOOLEAN, misses : 0 .. MissLimit, velocity : BOOLEAN]
LogStates ==
    [state : {"idle", "erasing", "ready", "recording", "stopping", "complete"},
     flash : BOOLEAN, hold : BOOLEAN, writing : BOOLEAN,
     critical : BOOLEAN, pending : BOOLEAN]

-----------------------------------------------------------------------------
(* The operators on the logger's record *)

LEMMA SetFlashFacts ==
    ASSUME NEW l \in LogStates, NEW allowed \in BOOLEAN
    PROVE  /\ SetFlashWritesAllowed(l, allowed) \in LogStates
           /\ SetFlashWritesAllowed(l, allowed).flash = (allowed /\ ~l.hold)
           /\ SetFlashWritesAllowed(l, allowed).state = l.state
           /\ SetFlashWritesAllowed(l, allowed).hold = l.hold
           /\ SetFlashWritesAllowed(l, allowed).writing = l.writing
           /\ SetFlashWritesAllowed(l, allowed).critical = l.critical
           /\ SetFlashWritesAllowed(l, allowed).pending = l.pending
BY DEF SetFlashWritesAllowed, LogStates

LEMMA CriticalWindowFacts ==
    ASSUME NEW l \in LogStates, NEW critical \in BOOLEAN
    PROVE  /\ SetSwingCriticalWindow(l, critical) \in LogStates
           /\ SetSwingCriticalWindow(l, critical).state = l.state
           /\ SetSwingCriticalWindow(l, critical).hold = l.hold
           /\ SetSwingCriticalWindow(l, critical).pending = l.pending
           /\ (l.hold => ~l.flash) =>
                (l.hold => ~SetSwingCriticalWindow(l, critical).flash)
<1>1. [l EXCEPT !.critical = critical] \in LogStates
  BY DEF LogStates
<1>2. /\ [l EXCEPT !.critical = critical].state = l.state
      /\ [l EXCEPT !.critical = critical].hold = l.hold
      /\ [l EXCEPT !.critical = critical].pending = l.pending
  BY DEF LogStates
<1>. DEFINE opened == [l EXCEPT !.critical = critical]
<1>3. /\ opened \in LogStates /\ opened.state = l.state
      /\ opened.hold = l.hold /\ opened.pending = l.pending
  BY <1>1, <1>2
<1>4. (~critical) \in BOOLEAN
  OBVIOUS
<1>5. SetSwingCriticalWindow(l, critical) =
        IF l.critical = critical THEN l ELSE SetFlashWritesAllowed(opened, ~critical)
  BY DEF SetSwingCriticalWindow
<1>. HIDE DEF opened
<1>6. /\ SetFlashWritesAllowed(opened, ~critical) \in LogStates
      /\ SetFlashWritesAllowed(opened, ~critical).flash = (~critical /\ ~opened.hold)
      /\ SetFlashWritesAllowed(opened, ~critical).state = opened.state
      /\ SetFlashWritesAllowed(opened, ~critical).hold = opened.hold
      /\ SetFlashWritesAllowed(opened, ~critical).pending = opened.pending
  BY <1>3, <1>4, SetFlashFacts
<1> QED BY <1>3, <1>5, <1>6

LEMMA LoggerStopFacts ==
    ASSUME NEW l \in LogStates
    PROVE  /\ LoggerStop(l) \in LogStates
           /\ LoggerStop(l).pending = l.pending
           /\ LoggerStop(l).state \notin {"recording", "ready"}
           /\ LoggerStop(l).state = "stopping" => l.state = "stopping" \/ ~LoggerStop(l).hold
           /\ LoggerStop(l).hold => l.hold /\ LoggerStop(l).flash = l.flash
BY DEF LoggerStop, LogStates

LEMMA RecordFacts ==
    ASSUME NEW l \in LogStates
    PROVE  /\ Record(l) \in LogStates
           /\ Record(l).state = l.state
           /\ Record(l).pending = l.pending
           /\ l.state = "recording" /\ swing # "inactive" => Record(l).hold /\ ~Record(l).flash
           /\ ~(l.state = "recording" /\ swing # "inactive") => Record(l) = l
BY DEF Record, LogStates

LEMMA FinalizeFacts ==
    ASSUME NEW l \in LogStates
    PROVE  /\ FinalizeSwingLogIfPending(l) \in LogStates
           /\ ~FinalizeSwingLogIfPending(l).pending
           /\ ~l.pending => FinalizeSwingLogIfPending(l) = l
           /\ l.pending => FinalizeSwingLogIfPending(l).state \notin {"recording", "ready"}
           /\ l.pending /\ FinalizeSwingLogIfPending(l).state = "stopping" =>
                l.state = "stopping" \/ ~FinalizeSwingLogIfPending(l).hold
           /\ FinalizeSwingLogIfPending(l).hold => l.hold
           /\ (l.hold => ~l.flash) =>
                (FinalizeSwingLogIfPending(l).hold => ~FinalizeSwingLogIfPending(l).flash)
<1>. DEFINE closed == SetSwingCriticalWindow(l, FALSE)
            stopped == LoggerStop(closed)
<1>1. /\ closed \in LogStates /\ closed.state = l.state /\ closed.hold = l.hold
      /\ (l.hold => ~l.flash) => (l.hold => ~closed.flash)
  BY CriticalWindowFacts
<1>2. FinalizeSwingLogIfPending(l) =
        IF l.pending THEN [stopped EXCEPT !.pending = FALSE] ELSE l
  BY DEF FinalizeSwingLogIfPending
<1>. HIDE DEF closed
<1>3. /\ stopped \in LogStates
      /\ stopped.state \notin {"recording", "ready"}
      /\ stopped.state = "stopping" => closed.state = "stopping" \/ ~stopped.hold
      /\ stopped.hold => closed.hold /\ stopped.flash = closed.flash
  BY <1>1, LoggerStopFacts
<1>. HIDE DEF stopped
<1>4. /\ [stopped EXCEPT !.pending = FALSE] \in LogStates
      /\ [stopped EXCEPT !.pending = FALSE].state = stopped.state
      /\ [stopped EXCEPT !.pending = FALSE].hold = stopped.hold
      /\ [stopped EXCEPT !.pending = FALSE].flash = stopped.flash
      /\ ~[stopped EXCEPT !.pending = FALSE].pending
  BY <1>3 DEF LogStates
<1> QED BY <1>1, <1>2, <1>3, <1>4 DEF LogStates

\* What ending a swing run leaves in the logger's record.
LEMMA FinishFacts ==
    ASSUME NEW l \in LogStates
    PROVE  LET m == [SetSwingCriticalWindow(l, FALSE) EXCEPT !.pending = TRUE]
           IN /\ m \in LogStates
              /\ m.pending
              /\ m.state = l.state
              /\ m.hold = l.hold
              /\ (l.hold => ~l.flash) => (m.hold => ~m.flash)
<1>. DEFINE closed == SetSwingCriticalWindow(l, FALSE)
<1>1. /\ closed \in LogStates /\ closed.state = l.state /\ closed.hold = l.hold
      /\ (l.hold => ~l.flash) => (l.hold => ~closed.flash)
  BY CriticalWindowFacts
<1>. HIDE DEF closed
<1>2. /\ [closed EXCEPT !.pending = TRUE] \in LogStates
      /\ [closed EXCEPT !.pending = TRUE].state = closed.state
      /\ [closed EXCEPT !.pending = TRUE].hold = closed.hold
      /\ [closed EXCEPT !.pending = TRUE].flash = closed.flash
      /\ [closed EXCEPT !.pending = TRUE].pending
  BY <1>1 DEF LogStates
<1>3. [closed EXCEPT !.pending = TRUE] = [SetSwingCriticalWindow(l, FALSE) EXCEPT !.pending = TRUE]
  BY DEF closed
<1> QED BY <1>1, <1>2, <1>3

-----------------------------------------------------------------------------
(* Types *)

LEMMA MotorFacts ==
    ASSUME NEW m \in MotorStates
    PROVE  /\ [m EXCEPT !.mode = "foc"] \in MotorStates
           /\ [m EXCEPT !.mode = "foc"].mode = "foc"
           /\ [m EXCEPT !.mode = "foc"].driven = m.driven
           /\ [m EXCEPT !.driven = TRUE] \in MotorStates
           /\ [m EXCEPT !.driven = TRUE].mode = m.mode
           /\ \A c \in {"idle", "align", "sweep", "settle"} :
                /\ [m EXCEPT !.calibration = c] \in MotorStates
                /\ [m EXCEPT !.calibration = c].mode = m.mode
           /\ Stopped \in MotorStates /\ Stopped.mode = "stopped" /\ ~Stopped.driven
           /\ [Stopped EXCEPT !.mode = "openloop"] \in MotorStates
           /\ [Stopped EXCEPT !.mode = "openloop"].mode = "openloop"
           /\ ~[Stopped EXCEPT !.mode = "openloop"].driven
           /\ [Stopped EXCEPT !.mode = "calibrating", !.calibration = "align"] \in MotorStates
           /\ [Stopped EXCEPT !.mode = "calibrating", !.calibration = "align"].mode = "calibrating"
           /\ ~[Stopped EXCEPT !.mode = "calibrating", !.calibration = "align"].driven
BY DEF MotorStates, Stopped

LEMMA SessionFacts ==
    ASSUME NEW b \in BalanceStates
    PROVE  LET e == [b EXCEPT !.active = FALSE, !.vendor = FALSE, !.standup = FALSE]
               o == [b EXCEPT !.active = TRUE, !.vendor = ~b.configured,
                              !.standup = ~b.configured \/ @]
               c == [b EXCEPT !.configured = TRUE, !.vendor = FALSE]
           IN /\ e \in BalanceStates /\ ~e.active /\ ~e.vendor /\ ~e.standup
              /\ o \in BalanceStates /\ o.active /\ o.vendor = ~b.configured
              /\ o.standup = (~b.configured \/ b.standup)
              /\ c \in BalanceStates /\ c.active = b.active /\ ~c.vendor
              /\ c.standup = b.standup
BY DEF BalanceStates

LEMMA EndedFacts ==
    ASSUME balance \in BalanceStates, EndSession
    PROVE  ~balance'.active /\ ~balance'.vendor /\ ~balance'.standup
<1>. DEFINE ended == [balance EXCEPT !.active = FALSE, !.vendor = FALSE, !.standup = FALSE]
<1>1. ~ended.active /\ ~ended.vendor /\ ~ended.standup
  BY SessionFacts
<1>2. balance' = ended
  BY DEF EndSession
<1> QED BY <1>1, <1>2

\* The values an action may give motor and faults, without the record algebra.
MotorTyped == motor \in MotorStates /\ faults \in SUBSET Faults

LEMMA TripFaultType ==
    ASSUME faults \in SUBSET Faults, NEW f \in Faults, TripFault(f)
    PROVE  MotorTyped' /\ motor' = Stopped /\ faults' = faults \cup {f}
<1>1. Stopped \in MotorStates
  BY DEF Stopped, MotorStates
<1> QED BY <1>1 DEF TripFault, StopMotor, MotorTyped

LEMMA ApplyDqType ==
    ASSUME faults \in SUBSET Faults, NEW d \in MotorStates, ApplyDq(d)
    PROVE  /\ MotorTyped'
           /\ \/ motor'.mode = d.mode /\ faults' = faults
              \/ motor' = Stopped /\ \E f \in Faults : faults' = faults \cup {f}
<1>1. CASE motor' = [d EXCEPT !.driven = TRUE] /\ UNCHANGED faults
  <2>1. [d EXCEPT !.driven = TRUE] \in MotorStates /\ [d EXCEPT !.driven = TRUE].mode = d.mode
    BY MotorFacts
  <2> QED BY <1>1, <2>1 DEF MotorTyped
<1>2. ASSUME NEW f \in {"numeric", "actuator"}, TripFault(f)
      PROVE  /\ MotorTyped'
             /\ motor' = Stopped /\ \E g \in Faults : faults' = faults \cup {g}
  <2>1. f \in Faults
    BY <1>2 DEF Faults
  <2> QED BY <1>2, <2>1, TripFaultType
<1> QED BY <1>1, <1>2 DEF ApplyDq

LEMMA JudgeType ==
    ASSUME faults \in SUBSET Faults, motor \in MotorStates, balance \in BalanceStates,
           NEW f \in Faults \cup {"none"}, Judge(f)
    PROVE  /\ MotorTyped' /\ balance' \in BalanceStates
           /\ f = "none" => UNCHANGED <<motor, faults, balance>>
           /\ f # "none" => /\ motor' = Stopped /\ faults' = faults \cup {f}
                            /\ EndSession
<1>1. CASE f = "none"
  BY <1>1 DEF Judge, MotorTyped
<1>2. CASE f # "none"
  <2>1. f \in Faults /\ TripFault(f) /\ EndSession
    BY <1>2 DEF Judge
  <2>2. MotorTyped' /\ motor' = Stopped /\ faults' = faults \cup {f}
    BY <2>1, TripFaultType
  <2>3. balance' \in BalanceStates
    BY <2>1, SessionFacts DEF EndSession
  <2> QED BY <1>2, <2>1, <2>2, <2>3
<1> QED BY <1>1, <1>2

LEMMA FaultRanges ==
    ASSUME NEW frame \in {"none", "encoder", "imu"},
           NEW output \in {"none", "numeric", "angle", "wheel"}, NEW flag \in BOOLEAN
    PROVE  /\ SensorFault \in Faults \cup {"none"}
           /\ DirectFault(frame, output) \in Faults \cup {"none"}
           /\ StandupFault(flag, output) \in Faults \cup {"none"}
           /\ SafetyFaultSeen(flag) \in Faults \cup {"none"}
BY DEF SensorFault, DirectFault, StandupFault, SafetyFaultSeen, Faults

\* What a session has passed when its update lets it go on.
SessionChecked ==
    /\ faults = {} /\ motor.mode = "foc"
    /\ clock.release = "ready"
    /\ encoder.velocity /\ gyro_bias_valid /\ attitude = "valid"
    /\ ~balance.vendor => imu_sample_valid

\* The session goes on after its checks, or is over; then the motor is stopped,
\* with a fault or without one, or it is left as it is.
SessionEffect ==
    \/ UNCHANGED <<motor, faults, balance>> /\ (balance.active => SessionChecked)
    \/ /\ EndSession
       /\ \/ UNCHANGED <<motor, faults>>
          \/ motor' = Stopped /\ UNCHANGED faults
          \/ /\ balance.active
             /\ clock.release = "ready" => faults = {}
             /\ motor' = Stopped /\ \E f \in Faults : faults' = faults \cup {f}

LEMMA BalanceType ==
    ASSUME TypeOK, UpdateRuntimeBalance
    PROVE  MotorTyped' /\ balance' \in BalanceStates /\ SessionEffect
<1>0. /\ faults \in SUBSET Faults /\ motor \in MotorStates /\ balance \in BalanceStates
      /\ Stopped \in MotorStates
  BY DEF TypeOK, MotorStates, BalanceStates, Stopped
<1>1. CASE ~balance.active
  BY <1>0, <1>1 DEF UpdateRuntimeBalance, MotorTyped, SessionEffect
<1>2. CASE balance.active /\ balance.vendor /\ UpdateStandup
  <2>1. CASE clock.release = "ready" /\ faults = {} /\ motor.mode = "foc"
    <3>1. PICK grace \in BOOLEAN, output \in {"none", "numeric", "wheel"} :
                 Judge(StandupFault(grace, output))
      BY <1>2, <2>1 DEF UpdateStandup
    <3>2. StandupFault(grace, output) \in Faults \cup {"none"}
      BY FaultRanges
    <3>3. StandupFault(grace, output) = "none" => SessionChecked
      BY <1>2, <2>1 DEF StandupFault, SessionChecked
    <3> QED BY <1>0, <1>2, <2>1, <3>1, <3>2, <3>3, JudgeType DEF SessionEffect
  <2>2. CASE clock.release = "ready" /\ ~(faults = {} /\ motor.mode = "foc")
    <3>1. EndSession /\ StopMotor /\ UNCHANGED faults
      BY <1>2, <2>2 DEF UpdateStandup
    <3>2. balance' \in BalanceStates
      BY <1>0, <3>1, SessionFacts DEF EndSession
    <3> QED BY <1>0, <3>1, <3>2 DEF StopMotor, MotorTyped, SessionEffect
  <2>3. CASE clock.release # "ready"
    <3>1. Judge("timing") /\ "timing" \in Faults
      BY <1>2, <2>3 DEF UpdateStandup, Faults
    <3> QED BY <1>0, <1>2, <2>3, <3>1, JudgeType DEF SessionEffect
  <2> QED BY <2>1, <2>2, <2>3
<1>3. CASE balance.active /\ ~balance.vendor /\ UpdateDirectBalance
  <2>1. CASE clock.release = "ready" /\ faults = {} /\ motor.mode = "foc"
    <3>1. PICK frame \in {"none", "encoder", "imu"}, output \in {"none", "numeric", "angle", "wheel"} :
                 Judge(DirectFault(frame, output))
      BY <1>3, <2>1 DEF UpdateDirectBalance
    <3>2. DirectFault(frame, output) \in Faults \cup {"none"}
      BY FaultRanges
    <3>3. DirectFault(frame, output) = "none" => SessionChecked
      BY <1>3, <2>1 DEF DirectFault, SensorFault, AttitudeValid, SessionChecked
    <3> QED BY <1>0, <1>3, <2>1, <3>1, <3>2, <3>3, JudgeType DEF SessionEffect
  <2>2. CASE clock.release = "ready" /\ ~(faults = {} /\ motor.mode = "foc")
    <3>1. EndSession /\ (StopMotor \/ UNCHANGED motor) /\ UNCHANGED faults
      BY <1>3, <2>2 DEF UpdateDirectBalance
    <3>2. balance' \in BalanceStates
      BY <1>0, <3>1, SessionFacts DEF EndSession
    <3> QED BY <1>0, <3>1, <3>2 DEF StopMotor, MotorTyped, SessionEffect
  <2>3. CASE clock.release # "ready"
    <3>1. Judge("timing") /\ "timing" \in Faults
      BY <1>3, <2>3 DEF UpdateDirectBalance, Faults
    <3> QED BY <1>0, <1>3, <2>3, <3>1, JudgeType DEF SessionEffect
  <2> QED BY <2>1, <2>2, <2>3
<1> QED BY <1>1, <1>2, <1>3 DEF UpdateRuntimeBalance

\* Actuation keeps the mode, and the configuration it checked, or stops the motor.
ActuationEffect ==
    \/ /\ motor'.mode = motor.mode
       /\ UNCHANGED <<faults, motor_config_valid>>
       /\ motor.mode = "stopped" => UNCHANGED motor
    \/ motor' = Stopped /\ UNCHANGED faults
    \/ motor' = Stopped /\ \E f \in Faults : faults' = faults \cup {f}

LEMMA CalibrationType ==
    ASSUME TypeOK, motor.mode = "calibrating", UpdateCalibration
    PROVE  MotorTyped' /\ motor_config_valid' \in BOOLEAN /\ ActuationEffect
<1>0. faults \in SUBSET Faults /\ motor \in MotorStates /\ motor_config_valid \in BOOLEAN
      /\ Stopped \in MotorStates /\ "encoder" \in Faults /\ "calibration" \in Faults
  BY DEF TypeOK, MotorStates, Stopped, Faults
<1>1. CASE StopMotor /\ UNCHANGED <<motor_config_valid, faults>>
  BY <1>0, <1>1 DEF StopMotor, MotorTyped, ActuationEffect
<1>2. CASE TripFault("encoder") /\ UNCHANGED motor_config_valid
  BY <1>0, <1>2, TripFaultType DEF ActuationEffect
<1>3. ASSUME motor.calibration # "idle",
             NEW next \in CalibrationNext[motor.calibration],
             ApplyDq([motor EXCEPT !.calibration = next]), UNCHANGED motor_config_valid
      PROVE  MotorTyped' /\ motor_config_valid' \in BOOLEAN /\ ActuationEffect
  <2>1. motor.calibration \in {"align", "sweep", "settle"}
    BY <1>0, <1>3 DEF MotorStates
  <2>2. next \in {"idle", "align", "sweep", "settle"}
    BY <2>1, <1>3 DEF CalibrationNext
  <2>3. /\ [motor EXCEPT !.calibration = next] \in MotorStates
        /\ [motor EXCEPT !.calibration = next].mode = motor.mode
    BY <1>0, <2>2, MotorFacts
  <2> QED BY <1>0, <1>3, <2>3, ApplyDqType DEF ActuationEffect
<1>4. CASE FinishCalibration
  <2>1. CASE TripFault("calibration") /\ motor_config_valid' \in {motor_config_valid, FALSE}
    BY <1>0, <2>1, TripFaultType DEF ActuationEffect
  <2>2. CASE StopMotor /\ motor_config_valid' = TRUE /\ UNCHANGED faults
    BY <1>0, <2>2 DEF StopMotor, MotorTyped, ActuationEffect
  <2> QED BY <1>4, <2>1, <2>2 DEF FinishCalibration
<1> QED BY <1>1, <1>2, <1>3, <1>4 DEF UpdateCalibration

LEMMA UpdateMotorType ==
    ASSUME TypeOK, UpdateMotor
    PROVE  MotorTyped' /\ motor_config_valid' \in BOOLEAN /\ ActuationEffect
<1>0. faults \in SUBSET Faults /\ motor \in MotorStates /\ motor_config_valid \in BOOLEAN
      /\ "encoder" \in Faults /\ "calibration" \in Faults
  BY DEF TypeOK, MotorStates, Faults
<1>1. CASE motor.mode = "stopped" /\ UNCHANGED <<motor, motor_config_valid, faults>>
  BY <1>0, <1>1 DEF MotorTyped, ActuationEffect
<1>2. CASE motor.mode = "calibrating" /\ UpdateCalibration
  BY <1>2, CalibrationType
<1>3. CASE motor.mode = "openloop" /\ ApplyDq(motor) /\ UNCHANGED motor_config_valid
  BY <1>0, <1>3, ApplyDqType DEF ActuationEffect
<1>4. CASE motor.mode = "foc" /\ UpdateFoc /\ UNCHANGED motor_config_valid
  <2>1. CASE TripFault("calibration")
    BY <1>0, <1>4, <2>1, TripFaultType DEF ActuationEffect
  <2>2. CASE TripFault("encoder")
    BY <1>0, <1>4, <2>2, TripFaultType DEF ActuationEffect
  <2>3. CASE ApplyDq(motor)
    BY <1>0, <1>4, <2>3, ApplyDqType DEF ActuationEffect
  <2> QED BY <1>4, <2>1, <2>2, <2>3 DEF UpdateFoc
<1> QED BY <1>1, <1>2, <1>3, <1>4 DEF UpdateMotor

LEMMA EncoderFacts ==
    ASSUME encoder \in EncoderStates, NEW m \in 0 .. MissLimit, NEW velocity \in BOOLEAN
    PROVE  /\ [encoder EXCEPT !.misses = m, !.valid = @ /\ m < MissLimit] \in EncoderStates
           /\ [valid |-> TRUE, misses |-> 0, velocity |-> velocity] \in EncoderStates
<1>1. PICK below \in BOOLEAN : below = (encoder.valid /\ m < MissLimit)
  OBVIOUS
<1>2. [encoder EXCEPT !.misses = m, !.valid = below] \in EncoderStates
  BY DEF EncoderStates
<1>3. [encoder EXCEPT !.misses = m, !.valid = @ /\ m < MissLimit]
        = [encoder EXCEPT !.misses = m, !.valid = below]
  BY <1>1 DEF EncoderStates
<1>4. 0 \in 0 .. MissLimit
  BY ControlAssumption
<1>5. [valid |-> TRUE, misses |-> 0, velocity |-> velocity] \in EncoderStates
  BY <1>4 DEF EncoderStates
<1> QED BY <1>2, <1>3, <1>5

LEMMA SenseType ==
    ASSUME TypeOK, Sense
    PROVE  /\ encoder' \in EncoderStates
           /\ imu_sample_valid' \in BOOLEAN /\ gyro_bias_valid' \in BOOLEAN
           /\ attitude' \in {"none", "reset", "valid"}
           /\ clock' \in [release : {"none", "ready", "failed"}, armed : BOOLEAN, late : BOOLEAN]
           /\ clock' = [clock EXCEPT !.late = clock'.late]
           /\ clock'.late => clock.release # "none"
<1>1. PICK e \in {"none", "ok", "miss"}, i \in {"none", "ok", "miss"},
           encoderFresh, imuFresh \in BOOLEAN, late \in BOOLEAN :
             /\ CommitEncoder(e, encoderFresh)
             /\ IF ImuReady THEN CommitImu(i, imuFresh)
                ELSE UNCHANGED <<imu_sample_valid, gyro_bias_valid>>
             /\ UpdateAttitude(i = "ok")
             /\ clock' = [clock EXCEPT !.late = late /\ clock.release # "none"]
  BY DEF Sense
<1>2. PICK velocity \in BOOLEAN :
        LET misses == IF encoder.misses < MissLimit THEN encoder.misses + 1 ELSE MissLimit
            seen == CASE e = "ok" -> [valid |-> TRUE, misses |-> 0, velocity |-> velocity]
                      [] e = "miss" -> [encoder EXCEPT !.misses = misses,
                                                       !.valid = @ /\ misses < MissLimit]
                      [] e = "none" -> encoder
        IN encoder' = [seen EXCEPT !.valid = @ /\ encoderFresh]
  BY <1>1 DEF CommitEncoder
<1>. DEFINE misses == IF encoder.misses < MissLimit THEN encoder.misses + 1 ELSE MissLimit
            missed == [encoder EXCEPT !.misses = misses, !.valid = @ /\ misses < MissLimit]
            ok == [valid |-> TRUE, misses |-> 0, velocity |-> velocity]
<1>3. encoder \in EncoderStates /\ MissLimit \in Nat /\ MissLimit > 0
  BY ControlAssumption DEF TypeOK, EncoderStates
<1>4. misses \in 0 .. MissLimit
  BY <1>3 DEF EncoderStates
<1>. HIDE DEF misses
<1>5. missed \in EncoderStates /\ ok \in EncoderStates
  BY <1>3, <1>4, EncoderFacts
<1>6. \A s \in EncoderStates : [s EXCEPT !.valid = @ /\ encoderFresh] \in EncoderStates
  BY DEF EncoderStates
<1>7. \E s \in EncoderStates : encoder' = [s EXCEPT !.valid = @ /\ encoderFresh]
  <2>1. CASE e = "ok"
    BY <1>2, <1>5, <2>1
  <2>2. CASE e = "miss"
    BY <1>2, <1>5, <2>2 DEF misses
  <2>3. CASE e = "none"
    BY <1>2, <1>3, <2>3
  <2> QED BY <2>1, <2>2, <2>3
<1>8. imu_sample_valid' \in BOOLEAN
  <2>1. imu_sample_valid \in BOOLEAN
    BY DEF TypeOK
  <2>2. CASE ImuReady /\ i = "ok"
    BY <1>1, <2>2 DEF CommitImu
  <2>3. CASE ImuReady /\ i = "miss"
    BY <1>1, <2>3 DEF CommitImu
  <2>4. CASE ImuReady /\ i = "none"
    BY <1>1, <2>1, <2>4 DEF CommitImu
  <2> QED BY <1>1, <2>1, <2>2, <2>3, <2>4
<1>9. gyro_bias_valid' \in BOOLEAN
  BY <1>1 DEF TypeOK, CommitImu
<1>10. attitude' \in {"none", "reset", "valid"}
  BY <1>1 DEF TypeOK, UpdateAttitude
<1>11. /\ clock' \in [release : {"none", "ready", "failed"}, armed : BOOLEAN, late : BOOLEAN]
       /\ clock' = [clock EXCEPT !.late = clock'.late]
       /\ clock'.late => clock.release # "none"
  BY <1>1 DEF TypeOK
<1> QED BY <1>6, <1>7, <1>8, <1>9, <1>10, <1>11

LEMMA TypeInit == Init => TypeOK
<1>. SUFFICES ASSUME Init PROVE TypeOK
  OBVIOUS
<1>1. motor \in MotorStates /\ faults = {}
  BY DEF Init, MotorStates, Stopped
<1>2. \A v \in BOOLEAN :
        [valid |-> v, misses |-> 0, velocity |-> FALSE] \in EncoderStates
  BY ControlAssumption DEF EncoderStates
<1>3. encoder \in EncoderStates
  <2>1. PICK v \in BOOLEAN : encoder = [valid |-> v, misses |-> 0, velocity |-> FALSE]
    BY DEF Init
  <2> QED BY <1>2, <2>1
<1>4. balance \in BalanceStates
  BY DEF Init, BalanceStates
<1>5. log \in LogStates
  BY DEF Init, LogStates
<1>6. clock \in [release : {"none", "ready", "failed"}, armed : BOOLEAN, late : BOOLEAN]
  BY DEF Init
<1>7. imu_sample_valid \in BOOLEAN
  BY DEF Init
<1>8. /\ stage = "sense" /\ motor_config_valid = FALSE /\ gyro_bias_valid = FALSE
      /\ attitude = "none" /\ swing = "inactive"
  BY DEF Init
<1> QED BY <1>1, <1>3, <1>4, <1>5, <1>6, <1>7, <1>8
     DEF TypeOK, MotorStates, EncoderStates, BalanceStates, LogStates

LEMMA TypeInductive == TypeOK /\ [Next]_vars => TypeOK'
<1>. SUFFICES ASSUME TypeOK, [Next]_vars PROVE TypeOK'
  OBVIOUS
<1>. DEFINE ClockStates == [release : {"none", "ready", "failed"}, armed : BOOLEAN, late : BOOLEAN]
            Typed == /\ MotorTyped /\ motor_config_valid \in BOOLEAN
                     /\ encoder \in EncoderStates
                     /\ imu_sample_valid \in BOOLEAN /\ gyro_bias_valid \in BOOLEAN
                     /\ attitude \in {"none", "reset", "valid"}
                     /\ balance \in BalanceStates
                     /\ swing \in {"inactive", "pump", "probe", "rearm"}
                     /\ log \in LogStates /\ clock \in ClockStates
<1>1. Typed /\ stage \in {"sense", "balance", "safety", "swing", "motor", "log", "command", "end"}
  BY DEF TypeOK, MotorTyped, MotorStates, EncoderStates, BalanceStates, LogStates
<1>2. SUFFICES Typed' /\ stage' \in {"sense", "balance", "safety", "swing", "motor", "log", "command", "end"}
  BY DEF TypeOK, MotorTyped, MotorStates, EncoderStates, BalanceStates, LogStates
<1>3. /\ Stopped \in MotorStates /\ [motor EXCEPT !.mode = "foc"] \in MotorStates
      /\ [Stopped EXCEPT !.mode = "openloop"] \in MotorStates
      /\ [Stopped EXCEPT !.mode = "calibrating", !.calibration = "align"] \in MotorStates
  BY <1>1, MotorFacts DEF MotorTyped
<1>4. /\ EndSession => balance' \in BalanceStates
      /\ BalanceStart => balance' \in BalanceStates
      /\ BalanceConfig => balance' \in BalanceStates
  <2>1. /\ [balance EXCEPT !.active = FALSE, !.vendor = FALSE, !.standup = FALSE]
             \in BalanceStates
        /\ [balance EXCEPT !.active = TRUE, !.vendor = ~balance.configured,
                           !.standup = ~balance.configured \/ @] \in BalanceStates
        /\ [balance EXCEPT !.configured = TRUE, !.vendor = FALSE] \in BalanceStates
    BY <1>1, SessionFacts
  <2>2. EndSession => balance' \in BalanceStates
    BY <2>1 DEF EndSession
  <2>3. BalanceStart => balance' \in BalanceStates
    BY <2>1 DEF BalanceStart
  <2>4. BalanceConfig => balance' \in BalanceStates
    BY <2>1 DEF BalanceConfig
  <2> QED BY <2>2, <2>3, <2>4
<1>5. FinishSwingRun => log' \in LogStates /\ swing' = "inactive" /\ motor' = Stopped
  BY <1>1, FinishFacts DEF FinishSwingRun, StopMotor
<1>6. CASE Sense
  <2>1. stage' = "balance" /\ UNCHANGED <<motor, motor_config_valid, faults, balance, swing, log>>
    BY <1>6 DEF Sense
  <2> QED BY <1>1, <1>6, <2>1, SenseType DEF MotorTyped
<1>7. CASE UpdateRuntimeBalance
  <2>1. stage' = "safety" /\ UNCHANGED <<motor_config_valid, sensors, swing, log, clock>>
    BY <1>7 DEF UpdateRuntimeBalance
  <2> QED BY <1>1, <1>7, <2>1, BalanceType DEF sensors
<1>8. CASE EvaluateSafety
  <2>1. stage' = "swing" /\ UNCHANGED <<motor_config_valid, sensors, balance, swing, log, clock>>
    BY <1>8 DEF EvaluateSafety
  <2>2. MotorTyped'
    <3>1. CASE UNCHANGED <<motor, faults>>
      BY <1>1, <3>1 DEF MotorTyped
    <3>2. ASSUME NEW healthy \in BOOLEAN, SafetyFaultSeen(healthy) # "none",
                 TripFault(SafetyFaultSeen(healthy))
          PROVE  MotorTyped'
      <4>1. SafetyFaultSeen(healthy) \in Faults
        BY <3>2, FaultRanges
      <4> QED BY <1>1, <3>2, <4>1, TripFaultType DEF MotorTyped
    <3> QED BY <1>8, <3>1, <3>2 DEF EvaluateSafety
  <2> QED BY <1>1, <2>1, <2>2 DEF sensors
<1>9. CASE UpdateSwingIdentification
  <2>1. stage' = "motor" /\ UNCHANGED <<motor_config_valid, faults, sensors, balance, clock>>
    BY <1>9 DEF UpdateSwingIdentification
  <2>2. /\ motor' \in MotorStates /\ log' \in LogStates
        /\ swing' \in {"inactive", "pump", "probe", "rearm"}
    <3>1. CASE UNCHANGED <<motor, swing, log>>
      BY <1>1, <3>1 DEF MotorTyped
    <3>2. CASE FinishSwingRun
      BY <1>3, <1>5, <3>2
    <3>3. ASSUME swing # "inactive", NEW next \in SwingNext[swing],
                 swing' = next, log' = SetSwingCriticalWindow(log, next = "probe"),
                 motor' = [motor EXCEPT !.mode = "foc"]
          PROVE  /\ motor' \in MotorStates /\ log' \in LogStates
                 /\ swing' \in {"inactive", "pump", "probe", "rearm"}
      <4>1. next \in {"inactive", "pump", "probe", "rearm"}
        BY <1>1, <3>3 DEF SwingNext
      <4>2. (next = "probe") \in BOOLEAN
        OBVIOUS
      <4>3. SetSwingCriticalWindow(log, next = "probe") \in LogStates
        BY <1>1, <4>2, CriticalWindowFacts
      <4> QED BY <1>3, <3>3, <4>1, <4>3
    <3> QED BY <1>9, <3>1, <3>2, <3>3 DEF UpdateSwingIdentification, ContinueSwing
  <2> QED BY <1>1, <2>1, <2>2 DEF sensors, MotorTyped
<1>10. CASE UpdateMotor
  <2>1. stage' = "log" /\ UNCHANGED <<sensors, balance, swing, log, clock>>
    BY <1>10 DEF UpdateMotor
  <2> QED BY <1>1, <1>10, <2>1, UpdateMotorType DEF sensors
<1>11. CASE RecordLog
  <2>1. FinalizeSwingLogIfPending(Record(log)) \in LogStates
    BY <1>1, RecordFacts, FinalizeFacts
  <2> QED BY <1>1, <1>11, <2>1 DEF RecordLog, sensors, MotorTyped
<1>12. CASE NoCommand
  BY <1>1, <1>12 DEF NoCommand, sensors, MotorTyped
<1>13. CASE BalanceConfig
  BY <1>1, <1>3, <1>4, <1>5, <1>13 DEF BalanceConfig, sensors, MotorTyped, StopMotor, Taken
<1>14. CASE BalanceStart
  BY <1>1, <1>3, <1>4, <1>5, <1>14 DEF BalanceStart, sensors, MotorTyped, StopMotor, Taken
<1>15. CASE BalanceStop
  BY <1>1, <1>3, <1>4, <1>5, <1>15 DEF BalanceStop, sensors, MotorTyped, StopMotor, Taken, StopRuntimeBalance
<1>16. CASE Stop
  BY <1>1, <1>3, <1>4, <1>5, <1>16 DEF Stop, sensors, MotorTyped, StopMotor, Taken
<1>17. CASE FaultClear
  BY <1>1, <1>3, <1>4, <1>5, <1>17 DEF FaultClear, sensors, MotorTyped, StopMotor, Taken
<1>18. CASE SwingStart
  <2>1. SetSwingCriticalWindow(log, FALSE) \in LogStates
    BY <1>1, CriticalWindowFacts
  <2> QED BY <1>1, <1>3, <1>18, <2>1 DEF SwingStart, sensors, MotorTyped, StopMotor, Taken
<1>19. CASE SwingAbort
  BY <1>1, <1>3, <1>4, <1>5, <1>19 DEF SwingAbort, sensors, MotorTyped, StopMotor, Taken
<1>20. CASE MotorVq
  BY <1>1, <1>3, <1>4, <1>5, <1>20 DEF MotorVq, sensors, MotorTyped, StopMotor, Taken
<1>21. CASE MotorConfig
  BY <1>1, <1>3, <1>4, <1>5, <1>21 DEF MotorConfig, sensors, MotorTyped, StopMotor, Taken
<1>22. CASE MotorCalibrate
  BY <1>1, <1>3, <1>4, <1>5, <1>22 DEF MotorCalibrate, sensors, MotorTyped, StopMotor, Taken
<1>23. CASE Field
  BY <1>1, <1>3, <1>4, <1>5, <1>23 DEF Field, sensors, MotorTyped, StopMotor, Taken
<1>24. CASE AttitudeReset
  BY <1>1, <1>3, <1>4, <1>5, <1>24 DEF AttitudeReset, sensors, MotorTyped, StopMotor, Taken, ResetAttitudeFromAccel
<1>25. CASE ImuMap
  BY <1>1, <1>3, <1>4, <1>5, <1>25 DEF ImuMap, sensors, MotorTyped, StopMotor, Taken, ResetAttitudeFromAccel
<1>26. CASE ImuCalibrate
  BY <1>1, <1>3, <1>4, <1>5, <1>26 DEF ImuCalibrate, sensors, MotorTyped, StopMotor, Taken, ResetAttitudeFromAccel
<1>27. CASE TimingReset
  BY <1>1, <1>3, <1>4, <1>5, <1>27 DEF TimingReset, sensors, MotorTyped, StopMotor, Taken
<1>28. CASE LogPrepare
  BY <1>1, <1>3, <1>4, <1>5, <1>28 DEF LogPrepare, sensors, MotorTyped, StopMotor, Taken, LogStates
<1>29. CASE LogStart
  BY <1>1, <1>3, <1>4, <1>5, <1>29 DEF LogStart, sensors, MotorTyped, StopMotor, Taken, LogStates
<1>30. CASE LogCritical
  <2>1. PICK on \in BOOLEAN : log' = SetFlashWritesAllowed([log EXCEPT !.critical = on], ~on)
    BY <1>30 DEF LogCritical
  <2>2. [log EXCEPT !.critical = on] \in LogStates /\ (~on) \in BOOLEAN
    BY <1>1 DEF LogStates
  <2>3. log' \in LogStates
    BY <2>1, <2>2, SetFlashFacts
  <2> QED BY <1>1, <1>30, <2>3 DEF LogCritical, sensors, MotorTyped, StopMotor, Taken
<1>31. CASE LogStop
  <2>1. [log EXCEPT !.critical = FALSE] \in LogStates
    BY <1>1 DEF LogStates
  <2>2. SetFlashWritesAllowed([log EXCEPT !.critical = FALSE], TRUE) \in LogStates
    BY <2>1, SetFlashFacts
  <2>3. log' \in LogStates
    BY <1>31, <2>2, LoggerStopFacts DEF LogStop
  <2> QED BY <1>1, <1>31, <2>3 DEF LogStop, sensors, MotorTyped, StopMotor, Taken
<1>32. CASE EndTick
  <2>1. FinalizeSwingLogIfPending(log) \in LogStates
    BY <1>1, FinalizeFacts
  <2>2. clock' \in ClockStates
    BY <1>1, <1>32 DEF EndTick, WaitForNextRelease, InitRealtimeReleaseTimer
  <2> QED BY <1>1, <1>32, <2>1, <2>2 DEF EndTick, WaitForNextRelease, InitRealtimeReleaseTimer, sensors, MotorTyped
<1>33. CASE LoggerWorker
  <2>1. log' \in LogStates
    BY <1>1, <1>33 DEF LoggerWorker, WorkerErase, WorkerDecideWrite, WorkerWrite,
       WorkerFinalize, LogStates
  <2> QED BY <1>1, <1>33, <2>1 DEF LoggerWorker, sensors, MotorTyped
<1>34. CASE UNCHANGED vars
  BY <1>1, <1>34 DEF vars, sensors, MotorTyped
<1> QED BY <1>6, <1>7, <1>8, <1>9, <1>10, <1>11, <1>12, <1>13, <1>14, <1>15, <1>16, <1>17, <1>18, <1>19, <1>20, <1>21, <1>22, <1>23, <1>24, <1>25, <1>26, <1>27, <1>28, <1>29, <1>30, <1>31, <1>32, <1>33, <1>34
     DEF Next, ControlTask, Command

-----------------------------------------------------------------------------
(* What a command does to the motor, the sessions and the runs *)

\* A command leaves the motor and the latch alone, stops the motor, perhaps
\* clearing the latch, or starts the motor with no fault latched.
MotorEffect ==
    \/ UNCHANGED <<motor, faults>>
    \/ motor' = Stopped /\ faults' \in {faults, {}}
    \/ faults = {} /\ UNCHANGED faults /\ motor'.mode # "stopped"

\* A command leaves session and run alone, ends or configures the session,
\* starts one on a stopped motor, or starts or ends a run.
OwnerEffect ==
    \/ UNCHANGED <<swing, balance>> /\ (swing = "inactive" \/ UNCHANGED <<motor, faults>>)
    \/ swing = "inactive" /\ UNCHANGED swing /\ ~balance'.active /\ ~balance'.standup
    \/ /\ swing = "inactive" /\ UNCHANGED swing
       /\ ~balance.active /\ balance'.active
       /\ balance'.vendor = ~balance.configured
       /\ balance'.standup = (~balance.configured \/ balance.standup)
    \/ /\ swing = "inactive" /\ swing' = "pump" /\ UNCHANGED <<balance, faults>>
       /\ motor.mode = "stopped" /\ faults = {}
       /\ motor'.mode = "foc" /\ motor'.driven = motor.driven
    \/ swing' = "inactive" /\ motor' = Stopped /\ UNCHANGED <<balance, faults>>

LEMMA CommandEffects ==
    ASSUME TypeOK, Command
    PROVE  /\ stage = "command" /\ stage' = "end"
           /\ MotorEffect /\ OwnerEffect
<1>. DEFINE Effects == stage = "command" /\ stage' = "end" /\ MotorEffect /\ OwnerEffect
<1>0. motor \in MotorStates /\ balance \in BalanceStates
  BY DEF TypeOK, MotorStates, BalanceStates
<1>1. /\ [motor EXCEPT !.mode = "foc"].mode = "foc"
      /\ [motor EXCEPT !.mode = "foc"].driven = motor.driven
      /\ [Stopped EXCEPT !.mode = "openloop"].mode = "openloop"
      /\ [Stopped EXCEPT !.mode = "calibrating", !.calibration = "align"].mode = "calibrating"
  BY <1>0, MotorFacts
<1>2. EndSession => ~balance'.active /\ ~balance'.standup
  BY <1>0, EndedFacts
<1>3. CASE NoCommand
  BY <1>3 DEF NoCommand, MotorEffect, OwnerEffect
<1>4. CASE BalanceConfig
  <2>1. balance'.active = balance.active /\ balance'.standup = balance.standup
    BY <1>0, <1>4, SessionFacts DEF BalanceConfig
  <2>2. swing = "inactive"
    BY <1>4 DEF BalanceConfig, Taken, AllowedDuringSwing
  <2> QED BY <1>4, <2>1, <2>2 DEF BalanceConfig, Taken, MotorEffect, OwnerEffect
<1>5. CASE BalanceStart
  <2>1. /\ balance'.active /\ balance'.vendor = ~balance.configured
        /\ balance'.standup = (~balance.configured \/ balance.standup)
    <3>. DEFINE o == [balance EXCEPT !.active = TRUE, !.vendor = ~balance.configured,
                                     !.standup = ~balance.configured \/ @]
    <3>1. /\ o.active /\ o.vendor = ~balance.configured
          /\ o.standup = (~balance.configured \/ balance.standup)
      BY <1>0, SessionFacts
    <3>2. balance' = o
      BY <1>5 DEF BalanceStart
    <3> QED BY <3>1, <3>2
  <2>2. swing = "inactive" /\ ~balance.active /\ faults = {}
    BY <1>5 DEF BalanceStart, SessionStartable, Taken, AllowedDuringSwing
  <2>3. motor'.mode = "foc"
    BY <1>1, <1>5 DEF BalanceStart
  <2> QED BY <1>5, <2>1, <2>2, <2>3 DEF BalanceStart, Taken, MotorEffect, OwnerEffect
<1>6. CASE BalanceStop
  BY <1>2, <1>6 DEF BalanceStop, StopRuntimeBalance, StopMotor, Taken, AllowedDuringSwing,
     MotorEffect, OwnerEffect
<1>7. CASE Stop
  BY <1>2, <1>7 DEF Stop, StopMotor, Taken, AllowedDuringSwing, MotorEffect, OwnerEffect
<1>8. CASE FaultClear
  BY <1>2, <1>8 DEF FaultClear, StopMotor, Taken, AllowedDuringSwing, MotorEffect, OwnerEffect
<1>9. CASE SwingStart
  BY <1>1, <1>9 DEF SwingStart, Taken, MotorEffect, OwnerEffect
<1>10. CASE SwingAbort
  BY <1>10 DEF SwingAbort, FinishSwingRun, StopMotor, Taken, MotorEffect, OwnerEffect
<1>11. CASE MotorVq
  BY <1>1, <1>11 DEF MotorVq, MotorStartable, StopMotor, Taken, AllowedDuringSwing,
     MotorEffect, OwnerEffect
<1>12. CASE MotorConfig
  BY <1>12 DEF MotorConfig, StopMotor, Taken, AllowedDuringSwing, MotorEffect, OwnerEffect
<1>13. CASE MotorCalibrate
  BY <1>1, <1>13 DEF MotorCalibrate, MotorStartable, Taken, AllowedDuringSwing,
     MotorEffect, OwnerEffect
<1>14. CASE Field
  BY <1>1, <1>14 DEF Field, MotorStartable, StopMotor, Taken, AllowedDuringSwing,
     MotorEffect, OwnerEffect
<1>15. CASE AttitudeReset
  BY <1>15 DEF AttitudeReset, Taken, MotorEffect, OwnerEffect
<1>16. CASE ImuMap
  BY <1>16 DEF ImuMap, Taken, MotorEffect, OwnerEffect
<1>17. CASE ImuCalibrate
  BY <1>17 DEF ImuCalibrate, Taken, MotorEffect, OwnerEffect
<1>18. CASE TimingReset
  BY <1>18 DEF TimingReset, Taken, MotorEffect, OwnerEffect
<1>19. CASE LogPrepare
  BY <1>19 DEF LogPrepare, Taken, MotorEffect, OwnerEffect
<1>20. CASE LogStart
  BY <1>20 DEF LogStart, Taken, MotorEffect, OwnerEffect
<1>21. CASE LogCritical
  BY <1>21 DEF LogCritical, Taken, MotorEffect, OwnerEffect
<1>22. CASE LogStop
  BY <1>22 DEF LogStop, Taken, MotorEffect, OwnerEffect
<1> QED BY <1>3, <1>4, <1>5, <1>6, <1>7, <1>8, <1>9, <1>10, <1>11, <1>12, <1>13, <1>14, <1>15,
           <1>16, <1>17, <1>18, <1>19, <1>20, <1>21, <1>22 DEF Command
-----------------------------------------------------------------------------
(* The latch and the motor *)

\* A session starts on a release timer that is there, and never loses it.
SessionClocked == balance.active => clock.release = "ready"

LEMMA ClockedInit == Init => SessionClocked
BY DEF Init, SessionClocked

LEMMA ClockedInductive == TypeOK /\ SessionClocked /\ [Next]_vars => SessionClocked'
<1>. SUFFICES ASSUME TypeOK, SessionClocked, [Next]_vars PROVE SessionClocked'
  OBVIOUS
<1>0. clock \in [release : {"none", "ready", "failed"}, armed : BOOLEAN, late : BOOLEAN]
  BY DEF TypeOK
<1>1. EndSession => ~balance'.active
  BY EndedFacts DEF TypeOK, BalanceStates
<1>2. CASE Sense
  <2>1. clock'.release = clock.release
    BY <1>0, <1>2 DEF Sense
  <2> QED BY <1>2, <2>1 DEF Sense, SessionClocked
<1>3. CASE UpdateRuntimeBalance
  <2>1. UNCHANGED clock /\ (UNCHANGED balance \/ ~balance'.active)
    BY <1>1, <1>3, BalanceType DEF UpdateRuntimeBalance, SessionEffect
  <2> QED BY <2>1 DEF SessionClocked
<1>4. CASE EvaluateSafety \/ UpdateSwingIdentification \/ UpdateMotor \/ RecordLog
  BY <1>4 DEF EvaluateSafety, UpdateSwingIdentification, UpdateMotor, RecordLog, SessionClocked
<1>5. CASE BalanceStart
  BY <1>5 DEF BalanceStart, SessionStartable, SessionClocked
<1>6. CASE BalanceConfig
  <2>1. balance'.active = balance.active
    BY <1>6, SessionFacts DEF BalanceConfig, TypeOK, BalanceStates
  <2> QED BY <1>6, <2>1 DEF BalanceConfig, SessionClocked
<1>7. CASE BalanceStop \/ Stop \/ FaultClear
  BY <1>1, <1>7 DEF BalanceStop, StopRuntimeBalance, Stop, FaultClear, SessionClocked
<1>8. CASE TimingReset
  <2>1. clock'.release = clock.release
    BY <1>0, <1>8 DEF TimingReset
  <2> QED BY <1>8, <2>1 DEF TimingReset, SessionClocked
<1>9. CASE UNCHANGED <<balance, clock>>
  BY <1>9 DEF SessionClocked
<1>10. CASE EndTick
  BY <1>10 DEF EndTick, WaitForNextRelease, InitRealtimeReleaseTimer, SessionClocked
<1>11. Command =>
         \/ BalanceConfig \/ BalanceStart \/ BalanceStop \/ Stop \/ FaultClear \/ TimingReset
         \/ UNCHANGED <<balance, clock>>
  BY DEF Command, NoCommand, SwingStart, SwingAbort, MotorVq, MotorConfig, MotorCalibrate,
     Field, AttitudeReset, ImuMap, ImuCalibrate, LogPrepare, LogStart, LogCritical, LogStop
<1>12. LoggerWorker \/ UNCHANGED vars => UNCHANGED <<balance, clock>>
  BY DEF LoggerWorker, vars
<1> QED BY <1>2, <1>3, <1>4, <1>5, <1>6, <1>7, <1>8, <1>9, <1>10, <1>11, <1>12
     DEF Next, ControlTask

MotorInv ==
    /\ FaultInhibitsMotor
    /\ FirstFaultIsTheCause
    /\ motor.mode = "stopped" => ~motor.driven

\* A fault is only ever tripped on an empty latch, and stops the motor.
LEMMA MotorChange ==
    ASSUME TypeOK, MotorInv,
           \/ UNCHANGED <<motor, faults>>
           \/ motor' = Stopped /\ faults' \in {faults, {}}
           \/ motor' = Stopped /\ faults = {} /\ \E f \in Faults : faults' = faults \cup {f}
           \/ faults = {} /\ UNCHANGED faults /\ motor'.mode # "stopped"
    PROVE  MotorInv'
<1>1. CASE UNCHANGED <<motor, faults>>
  BY <1>1 DEF MotorInv, FaultInhibitsMotor, FirstFaultIsTheCause
<1>2. Stopped.mode = "stopped" /\ ~Stopped.driven
  BY DEF Stopped
<1>3. CASE motor' = Stopped /\ faults' \in {faults, {}}
  BY <1>2, <1>3 DEF MotorInv, FaultInhibitsMotor, FirstFaultIsTheCause
<1>4. CASE motor' = Stopped /\ faults = {} /\ \E f \in Faults : faults' = faults \cup {f}
  BY <1>2, <1>4 DEF MotorInv, FaultInhibitsMotor, FirstFaultIsTheCause
<1>5. CASE faults = {} /\ UNCHANGED faults /\ motor'.mode # "stopped"
  BY <1>5 DEF MotorInv, FaultInhibitsMotor, FirstFaultIsTheCause
<1> QED BY <1>1, <1>3, <1>4, <1>5

LEMMA MotorInit == Init => MotorInv
BY DEF Init, MotorInv, FaultInhibitsMotor, FirstFaultIsTheCause, Stopped

LEMMA MotorInductive == TypeOK /\ SessionClocked /\ MotorInv /\ [Next]_vars => MotorInv'
<1>. SUFFICES ASSUME TypeOK, SessionClocked, MotorInv, [Next]_vars PROVE MotorInv'
  OBVIOUS
<1>1. CASE Sense
  BY <1>1, MotorChange DEF Sense
<1>2. CASE UpdateRuntimeBalance
  BY <1>2, BalanceType, MotorChange DEF SessionEffect, SessionClocked
<1>3. CASE EvaluateSafety
  <2>1. CASE UNCHANGED <<motor, faults>>
    BY <2>1, MotorChange
  <2>2. ASSUME faults = {}, NEW healthy \in BOOLEAN, SafetyFaultSeen(healthy) # "none",
               TripFault(SafetyFaultSeen(healthy))
        PROVE  MotorInv'
    <3>1. SafetyFaultSeen(healthy) \in Faults
      BY <2>2, FaultRanges
    <3> QED BY <2>2, <3>1, MotorChange DEF TripFault, StopMotor
  <2> QED BY <1>3, <2>1, <2>2 DEF EvaluateSafety
<1>4. CASE UpdateSwingIdentification
  <2>1. CASE UNCHANGED motor
    BY <1>4, <2>1, MotorChange DEF UpdateSwingIdentification
  <2>2. CASE FinishSwingRun
    BY <1>4, <2>2, MotorChange DEF UpdateSwingIdentification, FinishSwingRun, StopMotor
  <2>3. CASE SwingMayContinue /\ ContinueSwing
    <3>1. motor'.mode = "foc"
      BY <2>3, MotorFacts DEF ContinueSwing, TypeOK, MotorStates
    <3> QED BY <1>4, <2>3, <3>1, MotorChange DEF UpdateSwingIdentification, SwingMayContinue
  <2> QED BY <1>4, <2>1, <2>2, <2>3 DEF UpdateSwingIdentification
<1>5. CASE UpdateMotor
  <2>1. ActuationEffect
    BY <1>5, UpdateMotorType
  <2>2. CASE motor.mode = "stopped"
    BY <1>5, <2>2, MotorChange DEF UpdateMotor
  <2>3. CASE motor.mode # "stopped"
    <3>1. faults = {}
      BY <2>3 DEF MotorInv, FaultInhibitsMotor
    <3> QED BY <2>1, <2>3, <3>1, MotorChange DEF ActuationEffect
  <2> QED BY <2>2, <2>3
<1>6. CASE RecordLog
  BY <1>6, MotorChange DEF RecordLog
<1>7. CASE Command
  BY <1>7, CommandEffects, MotorChange DEF MotorEffect
<1>8. CASE EndTick
  BY <1>8, MotorChange DEF EndTick, WaitForNextRelease, InitRealtimeReleaseTimer
<1>9. CASE LoggerWorker
  BY <1>9, MotorChange DEF LoggerWorker
<1>10. CASE UNCHANGED vars
  BY <1>10, MotorChange DEF vars
<1> QED BY <1>1, <1>2, <1>3, <1>4, <1>5, <1>6, <1>7, <1>8, <1>9, <1>10 DEF Next, ControlTask

-----------------------------------------------------------------------------
(* Who owns the motor command *)

\* A run drives in FOC or a fault is about to end it; so does a session, from
\* its own update to the command of the tick.
OwnerInv ==
    /\ OneOwner
    /\ swing # "inactive" => motor.mode = "foc" \/ faults # {}
    /\ stage \in {"safety", "swing", "motor", "log", "command"} /\ balance.active =>
         motor.mode = "foc" \/ faults # {}

LEMMA OwnerInit == Init => OwnerInv
BY SMT DEF Init, OwnerInv, OneOwner

LEMMA OwnerInductive == TypeOK /\ MotorInv /\ OwnerInv /\ [Next]_vars => OwnerInv'
<1>. SUFFICES ASSUME TypeOK, MotorInv, OwnerInv, [Next]_vars PROVE OwnerInv'
  OBVIOUS
<1>0. motor \in MotorStates /\ balance \in BalanceStates
  BY DEF TypeOK, MotorStates, BalanceStates
<1>a. EndSession => ~balance'.active /\ ~balance'.vendor /\ ~balance'.standup
  BY <1>0, EndedFacts
<1>1. CASE Sense
  BY <1>1 DEF Sense, OwnerInv, OneOwner
<1>2. CASE UpdateRuntimeBalance
  <2>1. stage' = "safety" /\ UNCHANGED swing
    BY <1>2 DEF UpdateRuntimeBalance
  <2>2. CASE UNCHANGED <<motor, faults, balance>> /\ (balance.active => SessionChecked)
    BY <2>1, <2>2 DEF OwnerInv, OneOwner, SessionChecked
  <2>3. CASE EndSession /\ ~UNCHANGED balance
    <3>1. ~balance'.active /\ ~balance'.vendor /\ ~balance'.standup
      BY <1>a, <2>3
    <3>2. balance.active
      BY <1>2, <2>3 DEF UpdateRuntimeBalance
    <3>3. swing = "inactive"
      BY <3>2 DEF OwnerInv, OneOwner
    <3> QED BY <2>1, <3>1, <3>3 DEF OwnerInv, OneOwner
  <2>4. CASE UNCHANGED balance /\ ~balance.active
    BY <1>2, <2>1, <2>4 DEF UpdateRuntimeBalance, OwnerInv, OneOwner
  <2>5. CASE EndSession /\ UNCHANGED balance
    <3>1. ~balance'.active
      BY <1>a, <2>5
    <3> QED BY <2>4, <2>5, <3>1
  <2> QED BY <1>2, <2>2, <2>3, <2>5, BalanceType DEF SessionEffect
<1>3. CASE EvaluateSafety
  <2>1. UNCHANGED <<swing, balance>> /\ stage = "safety" /\ stage' = "swing"
    BY <1>3 DEF EvaluateSafety
  <2>2. UNCHANGED <<motor, faults>> \/ faults' # {}
    BY <1>3 DEF EvaluateSafety, TripFault
  <2> QED BY <2>1, <2>2 DEF OwnerInv, OneOwner
<1>4. CASE UpdateSwingIdentification
  <2>1. UNCHANGED <<faults, balance>> /\ stage = "swing" /\ stage' = "motor"
    BY <1>4 DEF UpdateSwingIdentification
  <2>2. CASE swing = "inactive"
    BY <1>4, <2>1, <2>2 DEF UpdateSwingIdentification, OwnerInv, OneOwner
  <2>3. CASE swing # "inactive"
    <3>1. ~balance.active
      BY <2>3 DEF OwnerInv, OneOwner
    <3>2. CASE FinishSwingRun
      BY <2>1, <3>1, <3>2 DEF FinishSwingRun, OwnerInv, OneOwner
    <3>3. CASE ContinueSwing
      <4>1. motor'.mode = "foc"
        BY <1>0, <3>3, MotorFacts DEF ContinueSwing
      <4> QED BY <2>1, <3>1, <4>1 DEF OwnerInv, OneOwner
    <3> QED BY <1>4, <2>3, <3>2, <3>3 DEF UpdateSwingIdentification
  <2> QED BY <2>2, <2>3
<1>5. CASE UpdateMotor
  <2>1. UNCHANGED <<swing, balance>> /\ stage = "motor" /\ stage' = "log"
    BY <1>5 DEF UpdateMotor
  <2>2. CASE motor' = Stopped /\ UNCHANGED faults
    \* only a calibration ends so, and no session or run calibrates
    <3>1. motor.mode # "foc" \/ UNCHANGED motor \/ faults' # {}
      BY <1>5, <2>2 DEF UpdateMotor, UpdateFoc, ApplyDq, TripFault, Stopped
    <3> QED BY <2>1, <2>2, <3>1 DEF OwnerInv, OneOwner
  <2>3. CASE motor'.mode = motor.mode /\ UNCHANGED faults
    BY <2>1, <2>3 DEF OwnerInv, OneOwner
  <2>4. CASE \E f \in Faults : faults' = faults \cup {f}
    BY <2>1, <2>4 DEF OwnerInv, OneOwner
  <2> QED BY <1>5, <2>2, <2>3, <2>4, UpdateMotorType DEF ActuationEffect
<1>6. CASE RecordLog
  BY <1>6 DEF RecordLog, OwnerInv, OneOwner
<1>7. CASE Command
  <2>1. stage = "command" /\ stage' = "end" /\ MotorEffect /\ OwnerEffect
    BY <1>7, CommandEffects
  <2>2. balance'.standup <=> balance'.active /\ balance'.vendor
    BY <1>0, <2>1 DEF OwnerEffect, OwnerInv, OneOwner, BalanceStates
  <2>4. balance'.active => swing' = "inactive"
    BY <2>1 DEF OwnerEffect, OwnerInv, OneOwner
  <2>5. swing' # "inactive" => motor'.mode = "foc" \/ faults' # {}
    BY <2>1 DEF OwnerEffect, OwnerInv
  <2> QED BY <2>1, <2>2, <2>4, <2>5 DEF OwnerInv, OneOwner
<1>8. CASE EndTick
  BY <1>8 DEF EndTick, WaitForNextRelease, InitRealtimeReleaseTimer, OwnerInv, OneOwner
<1>9. CASE LoggerWorker
  BY <1>9 DEF LoggerWorker, OwnerInv, OneOwner
<1>10. CASE UNCHANGED vars
  BY <1>10 DEF vars, OwnerInv, OneOwner
<1> QED BY <1>1, <1>2, <1>3, <1>4, <1>5, <1>6, <1>7, <1>8, <1>9, <1>10 DEF Next, ControlTask
-----------------------------------------------------------------------------
(* The period check *)

\* Past the first wait, every tick knows when the one before it began.
ClockInv ==
    /\ stage # "end" /\ clock.release # "none" => clock.armed
    /\ clock.late => clock.release # "none"
    /\ LateTickStopsMotor

LEMMA ClockInit == Init => ClockInv
BY DEF Init, ClockInv, LateTickStopsMotor

LEMMA ClockInductive == TypeOK /\ MotorInv /\ OwnerInv /\ ClockInv /\ [Next]_vars => ClockInv'
<1>. SUFFICES ASSUME TypeOK, MotorInv, OwnerInv, ClockInv, [Next]_vars PROVE ClockInv'
  OBVIOUS
<1>0. Stopped.mode = "stopped" /\ ~Stopped.driven
  BY DEF Stopped
<1>1. CASE Sense
  <2>1. /\ clock' = [clock EXCEPT !.late = clock'.late]
        /\ clock'.late => clock.release # "none"
    BY <1>1, SenseType
  <2>2. clock'.release = clock.release /\ clock'.armed = clock.armed
    BY <2>1 DEF TypeOK
  <2> QED BY <1>1, <2>1, <2>2 DEF Sense, ClockInv, LateTickStopsMotor
<1>2. CASE UpdateRuntimeBalance
  BY <1>2 DEF UpdateRuntimeBalance, ClockInv, LateTickStopsMotor
<1>3. CASE EvaluateSafety
  <2>1. stage = "safety" /\ stage' = "swing" /\ UNCHANGED clock
    BY <1>3 DEF EvaluateSafety
  <2>2. CASE motor.mode = "stopped" \/ faults # {}
    <3>1. motor' = motor /\ motor.mode = "stopped" /\ ~motor.driven
      BY <1>3, <2>2 DEF EvaluateSafety, MotorInv, FaultInhibitsMotor
    <3> QED BY <2>1, <3>1 DEF ClockInv, LateTickStopsMotor
  <2>3. CASE ~clock.late
    BY <2>1, <2>3 DEF ClockInv, LateTickStopsMotor
  <2>4. CASE ~(motor.mode = "stopped" \/ faults # {}) /\ clock.late
    <3>1. clock.armed
      BY <2>1, <2>4 DEF ClockInv
    <3>2. \A healthy \in BOOLEAN : SafetyFaultSeen(healthy) # "none"
      BY <2>4, <3>1 DEF SafetyFaultSeen
    <3>3. motor' = Stopped
      BY <1>3, <2>4, <3>2 DEF EvaluateSafety, TripFault, StopMotor
    <3> QED BY <1>0, <2>1, <3>3 DEF ClockInv, LateTickStopsMotor
  <2> QED BY <2>2, <2>3, <2>4
<1>4. CASE UpdateSwingIdentification
  <2>1. stage = "swing" /\ stage' = "motor" /\ UNCHANGED clock
    BY <1>4 DEF UpdateSwingIdentification
  <2>2. CASE clock.late
    <3>1. motor.mode = "stopped" /\ ~motor.driven
      BY <2>1, <2>2 DEF ClockInv, LateTickStopsMotor
    <3>2. motor' = motor \/ motor' = Stopped
      BY <1>4, <3>1 DEF UpdateSwingIdentification, SwingMayContinue, FinishSwingRun,
         StopMotor, OwnerInv
    <3> QED BY <1>0, <2>1, <3>1, <3>2 DEF ClockInv, LateTickStopsMotor
  <2> QED BY <2>1, <2>2 DEF ClockInv, LateTickStopsMotor
<1>5. CASE UpdateMotor
  <2>1. stage = "motor" /\ stage' = "log" /\ UNCHANGED clock
    BY <1>5 DEF UpdateMotor
  <2>2. motor' = motor \/ motor.mode # "stopped"
    BY <1>5 DEF UpdateMotor
  <2> QED BY <2>1, <2>2 DEF ClockInv, LateTickStopsMotor
<1>6. CASE RecordLog
  BY <1>6 DEF RecordLog, ClockInv, LateTickStopsMotor
<1>7. CASE Command
  <2>1. stage' = "end"
    BY <1>7, CommandEffects
  <2>2. clock'.late = clock.late /\ clock'.release = clock.release
    BY <1>7 DEF Command, TypeOK, NoCommand, BalanceConfig, BalanceStart, BalanceStop, Stop,
       FaultClear, SwingStart, SwingAbort, MotorVq, MotorConfig, MotorCalibrate, Field,
       AttitudeReset, ImuMap, ImuCalibrate, TimingReset, LogPrepare, LogStart,
       LogCritical, LogStop
  <2> QED BY <2>1, <2>2 DEF ClockInv, LateTickStopsMotor
<1>8. CASE EndTick
  BY <1>8 DEF EndTick, WaitForNextRelease, InitRealtimeReleaseTimer, ClockInv, LateTickStopsMotor
<1>9. CASE LoggerWorker
  BY <1>9 DEF LoggerWorker, ClockInv, LateTickStopsMotor
<1>10. CASE UNCHANGED vars
  BY <1>10 DEF vars, ClockInv, LateTickStopsMotor
<1> QED BY <1>1, <1>2, <1>3, <1>4, <1>5, <1>6, <1>7, <1>8, <1>9, <1>10 DEF Next, ControlTask
-----------------------------------------------------------------------------
(* The logger's flash flags *)

\* The hold belongs to a run that is active or about to be finalized, and a run
\* that drives the motor has imposed it.
LogInv ==
    /\ log.hold => ~log.flash
    /\ log.state = "stopping" => ~log.hold
    /\ log.state = "recording" /\ log.hold => swing # "inactive" \/ log.pending
    /\ log.pending => swing = "inactive" /\ stage \in {"motor", "log", "end"}
    /\ swing # "inactive" /\ motor.driven /\ log.state = "recording" /\ stage # "log" => log.hold

\* What LogInv asks of the logger's record when no run is active.
IdleLog(l) ==
    /\ l \in LogStates
    /\ l.hold => ~l.flash
    /\ l.state = "stopping" => ~l.hold
    /\ l.state = "recording" => ~l.hold
    /\ ~l.pending

LEMMA LogInit == Init => LogInv
BY DEF Init, LogInv

\* The pending finalization of an ended run leaves an idle logger.
LEMMA FinalizeIdle ==
    ASSUME NEW l \in LogStates, l.hold => ~l.flash, l.state = "stopping" => ~l.hold,
           l.state = "recording" /\ l.hold => l.pending
    PROVE  IdleLog(FinalizeSwingLogIfPending(l))
<1>. DEFINE m == FinalizeSwingLogIfPending(l)
<1>1. /\ m \in LogStates /\ ~m.pending
      /\ ~l.pending => m = l
      /\ l.pending => m.state \notin {"recording", "ready"}
      /\ l.pending /\ m.state = "stopping" => l.state = "stopping" \/ ~m.hold
      /\ m.hold => l.hold
      /\ m.hold => ~m.flash
  BY FinalizeFacts
<1>. HIDE DEF m
<1>2. IdleLog(m)
  BY <1>1 DEF IdleLog
<1> QED BY <1>2 DEF m

LEMMA IdleCommands ==
    ASSUME TypeOK, IdleLog(log), swing = "inactive", Command, ~SwingStart
    PROVE  swing' = "inactive" /\ IdleLog(log')
<1>0. log \in LogStates
  BY DEF IdleLog
<1>1. CASE UNCHANGED <<swing, log>>
  BY <1>1
<1>2. CASE LogPrepare \/ LogStart
  BY <1>0, <1>2 DEF LogPrepare, LogStart, IdleLog, LogStates
<1>3. CASE LogCritical
  <2>1. PICK on \in BOOLEAN : log' = SetFlashWritesAllowed([log EXCEPT !.critical = on], ~on)
    BY <1>3 DEF LogCritical
  <2>. DEFINE opened == [log EXCEPT !.critical = on]
  <2>2. /\ opened \in LogStates /\ opened.state = log.state
        /\ opened.hold = log.hold /\ opened.pending = log.pending
    BY <1>0 DEF LogStates
  <2>3. (~on) \in BOOLEAN /\ log' = SetFlashWritesAllowed(opened, ~on)
    BY <2>1
  <2>. HIDE DEF opened
  <2>4. /\ log' \in LogStates /\ log'.state = log.state
        /\ log'.hold = log.hold /\ log'.pending = log.pending
        /\ log'.flash = (~on /\ ~opened.hold)
    BY <2>2, <2>3, SetFlashFacts
  <2> QED BY <1>3, <2>2, <2>4 DEF LogCritical, IdleLog
<1>4. CASE LogStop
  <2>. DEFINE closed == [log EXCEPT !.critical = FALSE]
              opened == SetFlashWritesAllowed(closed, TRUE)
  <2>1. /\ closed \in LogStates /\ closed.state = log.state
        /\ closed.hold = log.hold /\ closed.pending = log.pending
    BY <1>0 DEF LogStates
  <2>2. log' = LoggerStop(opened)
    BY <1>4 DEF LogStop
  <2>. HIDE DEF closed
  <2>3. /\ opened \in LogStates /\ opened.state = log.state
        /\ opened.hold = log.hold /\ opened.pending = log.pending
        /\ opened.flash = (TRUE /\ ~closed.hold)
    BY <2>1, SetFlashFacts
  <2>. HIDE DEF opened
  <2>4. /\ log' \in LogStates /\ log'.pending = opened.pending
        /\ log'.state \notin {"recording", "ready"}
        /\ log'.state = "stopping" => opened.state = "stopping" \/ ~log'.hold
        /\ log'.hold => opened.hold /\ log'.flash = opened.flash
    BY <2>2, <2>3, LoggerStopFacts
  <2> QED BY <1>4, <2>1, <2>3, <2>4 DEF LogStop, IdleLog
<1>5. CASE SwingAbort
  BY <1>5 DEF SwingAbort
<1> QED BY <1>1, <1>2, <1>3, <1>4, <1>5 DEF Command, NoCommand, BalanceConfig, BalanceStart,
     BalanceStop, Stop, FaultClear, MotorVq, MotorConfig, MotorCalibrate, Field,
     AttitudeReset, ImuMap, ImuCalibrate, TimingReset

LEMMA LogInductive == TypeOK /\ MotorInv /\ LogInv /\ [Next]_vars => LogInv'
<1>. SUFFICES ASSUME TypeOK, MotorInv, LogInv, [Next]_vars PROVE LogInv'
  OBVIOUS
<1>0. log \in LogStates /\ motor \in MotorStates
  BY DEF TypeOK, LogStates, MotorStates
<1>a. IdleLog(log') /\ swing' = "inactive" => LogInv'
  BY DEF IdleLog, LogInv
\* what ending a run leaves: the finalization is pending
<1>b. FinishSwingRun /\ stage' \in {"motor", "log", "end"} => LogInv'
  <2>. SUFFICES ASSUME FinishSwingRun, stage' \in {"motor", "log", "end"} PROVE LogInv'
    OBVIOUS
  <2>1. /\ log' \in LogStates /\ log'.pending /\ log'.state = log.state
        /\ log'.hold = log.hold
        /\ (log.hold => ~log.flash) => (log'.hold => ~log'.flash)
    BY <1>0, FinishFacts DEF FinishSwingRun
  <2> QED BY <2>1 DEF FinishSwingRun, LogInv
<1>1. CASE Sense
  BY <1>1 DEF Sense, LogInv
<1>2. CASE UpdateRuntimeBalance
  <2>1. motor'.driven => motor.driven
    BY <1>2, BalanceType DEF SessionEffect, Stopped
  <2> QED BY <1>2, <2>1 DEF UpdateRuntimeBalance, LogInv
<1>3. CASE EvaluateSafety
  <2>1. motor'.driven => motor.driven
    BY <1>3 DEF EvaluateSafety, TripFault, StopMotor, Stopped
  <2> QED BY <1>3, <2>1 DEF EvaluateSafety, LogInv
<1>4. CASE UpdateSwingIdentification
  <2>1. stage = "swing" /\ stage' = "motor"
    BY <1>4 DEF UpdateSwingIdentification
  <2>2. CASE UNCHANGED <<motor, swing, log>>
    BY <2>1, <2>2 DEF LogInv
  <2>3. CASE FinishSwingRun
    BY <1>b, <2>1, <2>3
  <2>4. CASE swing # "inactive" /\ ContinueSwing
    <3>1. PICK next \in SwingNext[swing] :
            /\ swing' = next
            /\ log' = SetSwingCriticalWindow(log, next = "probe")
            /\ motor' = [motor EXCEPT !.mode = "foc"]
      BY <2>4 DEF ContinueSwing
    <3>2. swing' # "inactive"
      BY <2>4, <3>1 DEF TypeOK, SwingNext
    <3>3. (next = "probe") \in BOOLEAN
      OBVIOUS
    <3>4. /\ log'.state = log.state /\ log'.hold = log.hold /\ log'.pending = log.pending
          /\ (log.hold => ~log.flash) => (log.hold => ~log'.flash)
      BY <1>0, <3>1, <3>3, CriticalWindowFacts
    <3>5. motor'.driven = motor.driven
      BY <1>0, <3>1, MotorFacts
    <3> QED BY <2>1, <2>4, <3>2, <3>4, <3>5 DEF LogInv
  <2> QED BY <1>4, <2>2, <2>3, <2>4 DEF UpdateSwingIdentification
<1>5. CASE UpdateMotor
  BY <1>5 DEF UpdateMotor, LogInv
<1>6. CASE RecordLog
  <2>1. stage = "log" /\ stage' = "command" /\ UNCHANGED <<swing, motor>>
        /\ log' = FinalizeSwingLogIfPending(Record(log))
    BY <1>6 DEF RecordLog
  <2>2. CASE swing = "inactive"
    <3>1. Record(log) = log
      BY <1>0, <2>2, RecordFacts
    <3>2. IdleLog(log')
      BY <1>0, <2>1, <2>2, <3>1, FinalizeIdle DEF LogInv
    <3> QED BY <1>a, <2>1, <2>2, <3>2
  <2>3. CASE swing # "inactive"
    <3>1. /\ Record(log) \in LogStates /\ Record(log).state = log.state
          /\ ~Record(log).pending
          /\ log.state = "recording" => Record(log).hold /\ ~Record(log).flash
          /\ log.state # "recording" => Record(log) = log
      BY <1>0, <2>3, RecordFacts DEF LogInv
    <3>2. log' = Record(log)
      BY <2>1, <3>1, FinalizeFacts
    <3> QED BY <2>1, <2>3, <3>1, <3>2 DEF LogInv
  <2> QED BY <2>2, <2>3
<1>7. CASE Command
  <2>1. stage = "command" /\ stage' = "end"
    BY <1>7, CommandEffects
  <2>2. CASE SwingStart
    <3>1. FALSE \in BOOLEAN
      OBVIOUS
    <3>2. /\ log'.state = log.state /\ log'.hold = log.hold /\ log'.pending = log.pending
          /\ (log.hold => ~log.flash) => (log.hold => ~log'.flash)
      BY <1>0, <2>2, <3>1, CriticalWindowFacts DEF SwingStart
    <3>3. ~motor'.driven
      BY <1>0, <2>2, MotorFacts DEF SwingStart, MotorInv
    <3>4. swing = "inactive" /\ swing' = "pump"
      BY <2>2 DEF SwingStart
    <3> QED BY <2>1, <3>2, <3>3, <3>4 DEF LogInv
  <2>3. CASE swing = "inactive" /\ ~SwingStart
    <3>1. IdleLog(log)
      BY <1>0, <2>1, <2>3 DEF LogInv, IdleLog
    <3> QED BY <1>7, <1>a, <2>3, <3>1, IdleCommands
  <2>4. CASE swing # "inactive" /\ ~SwingStart
    <3>1. SwingAbort \/ NoCommand
      BY <1>7, <2>4 DEF Command, Taken, AllowedDuringSwing, BalanceConfig, BalanceStart,
         BalanceStop, Stop, FaultClear, MotorVq, MotorConfig, MotorCalibrate, Field,
         AttitudeReset, ImuMap, ImuCalibrate, TimingReset, LogPrepare, LogStart,
         LogCritical, LogStop
    <3>2. CASE SwingAbort
      BY <1>b, <2>1, <3>2 DEF SwingAbort
    <3>3. CASE NoCommand
      BY <3>3 DEF NoCommand, LogInv
    <3> QED BY <3>1, <3>2, <3>3
  <2> QED BY <2>2, <2>3, <2>4
<1>8. CASE EndTick
  <2>1. stage = "end" /\ stage' = "sense" /\ UNCHANGED <<swing, motor>>
        /\ log' = FinalizeSwingLogIfPending(log)
    BY <1>8 DEF EndTick, WaitForNextRelease, InitRealtimeReleaseTimer
  <2>2. CASE swing = "inactive"
    <3>1. IdleLog(log')
      BY <1>0, <2>1, <2>2, FinalizeIdle DEF LogInv
    <3> QED BY <1>a, <2>1, <2>2, <3>1
  <2>3. CASE swing # "inactive"
    <3>1. log' = log
      BY <1>0, <2>1, <2>3, FinalizeFacts DEF LogInv
    <3> QED BY <2>1, <2>3, <3>1 DEF LogInv
  <2> QED BY <2>2, <2>3
<1>9. CASE LoggerWorker
  <2>1. UNCHANGED <<stage, motor, swing>>
    BY <1>9 DEF LoggerWorker
  <2>2. /\ log'.hold = log.hold /\ log'.flash = log.flash /\ log'.pending = log.pending
        /\ log'.state = log.state \/ log'.state \in {"ready", "idle", "complete"}
    BY <1>0, <1>9 DEF LoggerWorker, WorkerErase, WorkerDecideWrite, WorkerWrite,
       WorkerFinalize, LogStates
  <2> QED BY <2>1, <2>2 DEF LogInv
<1>10. CASE UNCHANGED vars
  BY <1>10 DEF vars, LogInv
<1> QED BY <1>1, <1>2, <1>3, <1>4, <1>5, <1>6, <1>7, <1>8, <1>9, <1>10 DEF Next, ControlTask
-----------------------------------------------------------------------------
(* What has been checked when the bridge is driven *)

DriveInv ==
    /\ stage \in {"swing", "motor", "log"} /\ motor.mode # "stopped" =>
         encoder.valid /\ (motor.mode = "foc" => motor_config_valid)
    /\ stage \in {"motor", "log"} /\ swing # "inactive" => AttitudeValid
    /\ stage \in {"safety", "swing", "motor", "log"} /\ balance.active =>
         /\ clock.release = "ready"
         /\ encoder.velocity /\ gyro_bias_valid /\ attitude = "valid"
         /\ ~balance.vendor => imu_sample_valid

LEMMA DriveInit == Init => DriveInv
BY DEF Init, DriveInv

LEMMA DriveInductive == TypeOK /\ MotorInv /\ OwnerInv /\ DriveInv /\ [Next]_vars => DriveInv'
<1>. SUFFICES ASSUME TypeOK, MotorInv, OwnerInv, DriveInv, [Next]_vars PROVE DriveInv'
  OBVIOUS
<1>0. Stopped.mode = "stopped"
  BY DEF Stopped
<1>1. CASE Sense
  BY <1>1 DEF Sense, DriveInv
<1>2. CASE UpdateRuntimeBalance
  <2>1. stage' = "safety" /\ UNCHANGED <<sensors, clock>>
    BY <1>2 DEF UpdateRuntimeBalance
  <2>2. balance'.active => SessionChecked /\ UNCHANGED balance
    BY <1>2, BalanceType, EndedFacts DEF SessionEffect, TypeOK, BalanceStates
  <2> QED BY <2>1, <2>2 DEF DriveInv, SessionChecked, sensors
<1>3. CASE EvaluateSafety
  <2>1. /\ stage = "safety" /\ stage' = "swing"
        /\ UNCHANGED <<sensors, clock, balance, motor_config_valid>>
    BY <1>3 DEF EvaluateSafety
  <2>2. CASE motor.mode = "stopped" \/ faults # {}
    <3>1. motor' = motor /\ motor.mode = "stopped"
      BY <1>3, <2>2 DEF EvaluateSafety, MotorInv, FaultInhibitsMotor
    <3> QED BY <2>1, <3>1 DEF DriveInv, sensors
  <2>3. CASE ~(motor.mode = "stopped" \/ faults # {})
    <3>1. PICK healthy \in BOOLEAN :
            IF SafetyFaultSeen(healthy) = "none" THEN UNCHANGED <<motor, faults>>
            ELSE TripFault(SafetyFaultSeen(healthy))
      BY <1>3, <2>3 DEF EvaluateSafety
    <3>2. CASE SafetyFaultSeen(healthy) = "none"
      <4>1. encoder.valid /\ (motor.mode = "foc" => motor_config_valid) /\ UNCHANGED motor
        BY <3>1, <3>2 DEF SafetyFaultSeen
      <4> QED BY <2>1, <4>1 DEF DriveInv, sensors
    <3>3. CASE SafetyFaultSeen(healthy) # "none"
      <4>1. motor'.mode = "stopped"
        BY <1>0, <3>1, <3>3 DEF TripFault, StopMotor
      <4> QED BY <2>1, <4>1 DEF DriveInv, sensors
    <3> QED BY <3>2, <3>3
  <2> QED BY <2>2, <2>3
<1>4. CASE UpdateSwingIdentification
  <2>1. /\ stage = "swing" /\ stage' = "motor"
        /\ UNCHANGED <<sensors, clock, balance, motor_config_valid, faults>>
    BY <1>4 DEF UpdateSwingIdentification
  <2>2. CASE swing = "inactive"
    <3>1. UNCHANGED <<motor, swing>>
      BY <1>4, <2>2 DEF UpdateSwingIdentification
    <3> QED BY <2>1, <2>2, <3>1 DEF DriveInv, sensors
  <2>3. CASE FinishSwingRun
    <3>1. motor'.mode = "stopped" /\ swing' = "inactive"
      BY <1>0, <2>3 DEF FinishSwingRun, StopMotor
    <3> QED BY <2>1, <3>1 DEF DriveInv, sensors
  <2>4. CASE swing # "inactive" /\ SwingMayContinue /\ ContinueSwing
    <3>1. motor.mode = "foc" /\ AttitudeValid
      BY <2>4 DEF SwingMayContinue, OwnerInv
    <3> QED BY <2>1, <3>1 DEF DriveInv, sensors, AttitudeValid
  <2> QED BY <1>4, <2>2, <2>3, <2>4 DEF UpdateSwingIdentification
<1>5. CASE UpdateMotor
  <2>1. stage = "motor" /\ stage' = "log" /\ UNCHANGED <<sensors, clock, balance, swing>>
    BY <1>5 DEF UpdateMotor
  <2>2. \/ motor'.mode = motor.mode /\ UNCHANGED motor_config_valid
        \/ motor'.mode = "stopped"
    BY <1>0, <1>5, UpdateMotorType DEF ActuationEffect
  <2> QED BY <2>1, <2>2 DEF DriveInv, sensors, AttitudeValid
<1>6. CASE RecordLog
  BY <1>6 DEF RecordLog, DriveInv
<1>7. CASE Command
  BY <1>7, CommandEffects DEF DriveInv
<1>8. CASE EndTick
  BY <1>8 DEF EndTick, WaitForNextRelease, InitRealtimeReleaseTimer, DriveInv
<1>9. CASE LoggerWorker
  BY <1>9 DEF LoggerWorker, DriveInv, sensors, AttitudeValid
<1>10. CASE UNCHANGED vars
  BY <1>10 DEF vars, DriveInv, sensors, AttitudeValid
<1> QED BY <1>1, <1>2, <1>3, <1>4, <1>5, <1>6, <1>7, <1>8, <1>9, <1>10 DEF Next, ControlTask

-----------------------------------------------------------------------------
ControlInv == TypeOK /\ SessionClocked /\ MotorInv /\ OwnerInv /\ ClockInv /\ LogInv /\ DriveInv

\* The layers hold together throughout every behaviour of the control task and
\* the logger worker.
THEOREM ControlInvariant == Spec => []ControlInv
<1>1. Init => ControlInv
  BY TypeInit, ClockedInit, MotorInit, OwnerInit, ClockInit, LogInit, DriveInit DEF ControlInv
<1>2. ControlInv /\ [Next]_vars => ControlInv'
  BY TypeInductive, ClockedInductive, MotorInductive, OwnerInductive, ClockInductive, LogInductive,
     DriveInductive DEF ControlInv
<1> QED BY <1>1, <1>2, PTL DEF Spec

\* The state of the control task stays within the ranges its types promise.
THEOREM ControlTypeOK == Spec => []TypeOK
<1>1. ControlInv => TypeOK
  BY DEF ControlInv
<1> QED BY <1>1, ControlInvariant, PTL

\* No command or stage drives a motor while a fault is latched.
THEOREM ControlFaultInhibits == Spec => []FaultInhibitsMotor
<1>1. ControlInv => FaultInhibitsMotor
  BY DEF ControlInv, MotorInv
<1> QED BY <1>1, ControlInvariant, PTL

\* The latch holds at most one fault: the one that stopped the motor.
THEOREM ControlFirstFault == Spec => []FirstFaultIsTheCause
<1>1. ControlInv => FirstFaultIsTheCause
  BY DEF ControlInv, MotorInv
<1> QED BY <1>1, ControlInvariant, PTL

\* A balance session and a swing run never share the motor.
THEOREM ControlOneOwner == Spec => []OneOwner
<1>1. ControlInv => OneOwner
  BY DEF ControlInv, OwnerInv
<1> QED BY <1>1, ControlInvariant, PTL

\* A tick that began late has stopped the motor before it actuates.
THEOREM ControlLateTick == Spec => []LateTickStopsMotor
<1>1. ControlInv => LateTickStopsMotor
  BY DEF ControlInv, ClockInv
<1> QED BY <1>1, ControlInvariant, PTL

\* The hold a swing run imposes on the logger lasts as long as the run, and is
\* lifted by the tick that ends it.
THEOREM ControlFlashFollowsSwing == Spec => []FlashFollowsSwing
<1>1. ControlInv => FlashHeldDuringSwing
  BY DEF ControlInv, LogInv, FlashHeldDuringSwing
<1>2. ControlInv => HoldEndsWithSwing
  BY DEF ControlInv, LogInv, HoldEndsWithSwing
<1>3. ControlInv => FlashFollowsSwing
  BY <1>1, <1>2 DEF FlashFollowsSwing
<1> QED BY <1>3, ControlInvariant, PTL

\* The bridge is driven only in a tick whose checks passed what it is driven on.
THEOREM ControlDrivenOnGoodInputs == Spec => []DrivenOnGoodInputs
<1>1. ControlInv => DrivenOnGoodInputs
  <2>. SUFFICES ASSUME ControlInv, stage = "log", motor.driven
                PROVE  DrivenOnGoodInputs
    BY DEF DrivenOnGoodInputs
  <2>1. motor.mode # "stopped" /\ ~clock.late
    BY DEF ControlInv, MotorInv, ClockInv, LateTickStopsMotor
  <2> QED BY <2>1 DEF ControlInv, DriveInv, DrivenOnGoodInputs
<1> QED BY <1>1, ControlInvariant, PTL

LEMMA EnergiseStep ==
    ASSUME ControlInv, [Next]_vars, motor.mode = "stopped", motor'.mode # "stopped"
    PROVE  stage = "command" /\ ~balance.active /\ swing = "inactive"
<1>0. Stopped.mode = "stopped"
  BY DEF Stopped
<1>1. motor' # motor /\ motor' # Stopped
  BY <1>0
<1>2. ~(\/ Sense \/ RecordLog \/ EndTick \/ LoggerWorker \/ UNCHANGED vars)
  BY <1>1 DEF Sense, RecordLog, EndTick, WaitForNextRelease, LoggerWorker, vars
<1>3. ~UpdateRuntimeBalance
  BY <1>1, BalanceType DEF ControlInv, SessionEffect
<1>4. ~EvaluateSafety
  BY <1>1 DEF EvaluateSafety, TripFault, StopMotor
<1>5. ~UpdateSwingIdentification
  BY <1>1 DEF UpdateSwingIdentification, SwingMayContinue, FinishSwingRun, StopMotor,
     ControlInv, OwnerInv
<1>6. ~UpdateMotor
  BY <1>1 DEF UpdateMotor
<1>7. Command
  BY <1>2, <1>3, <1>4, <1>5, <1>6 DEF Next, ControlTask
<1>8. stage = "command" /\ faults = {}
  BY <1>1, <1>7, CommandEffects DEF ControlInv, MotorEffect
<1> QED BY <1>8 DEF ControlInv, OwnerInv

\* A stopped motor is started only by a command, and never under the session or
\* run it was stopped in.
THEOREM ControlOnlyANewStartEnergises == Spec => OnlyANewStartEnergises
<1>1. ControlInv /\ [Next]_vars =>
        [motor.mode = "stopped" /\ motor'.mode # "stopped" =>
           stage = "command" /\ ~balance.active /\ swing = "inactive"]_vars
  BY EnergiseStep
<1> QED BY <1>1, ControlInvariant, PTL DEF Spec, OnlyANewStartEnergises

LEMMA ClearStep ==
    ASSUME ControlInv, [Next]_vars, faults # {}, faults' = {}
    PROVE  swing = "inactive" /\ ~log.pending
<1>1. motor.mode = "stopped"
  BY DEF ControlInv, MotorInv, FaultInhibitsMotor
<1>2. ~(\/ Sense \/ UpdateSwingIdentification \/ RecordLog \/ EndTick
        \/ LoggerWorker \/ UNCHANGED vars)
  BY DEF Sense, UpdateSwingIdentification, RecordLog, EndTick, WaitForNextRelease,
         LoggerWorker, vars
<1>3. ~UpdateRuntimeBalance
  BY BalanceType DEF ControlInv, SessionEffect
<1>4. ~EvaluateSafety
  BY DEF EvaluateSafety
<1>5. ~UpdateMotor
  BY <1>1 DEF UpdateMotor
<1>6. Command
  BY <1>2, <1>3, <1>4, <1>5 DEF Next, ControlTask
<1>7. stage = "command" /\ OwnerEffect
  BY <1>6, CommandEffects DEF ControlInv
<1>8. ~log.pending
  BY <1>7 DEF ControlInv, LogInv
<1> QED BY <1>7, <1>8 DEF OwnerEffect

\* No fault is cleared under the swing run it stopped.
THEOREM ControlRunSeesItsFault == Spec => RunSeesItsFault
<1>1. ControlInv /\ [Next]_vars =>
        [faults # {} /\ faults' = {} => swing = "inactive" /\ ~log.pending]_vars
  BY ClearStep
<1> QED BY <1>1, ControlInvariant, PTL DEF Spec, RunSeesItsFault
=============================================================================
