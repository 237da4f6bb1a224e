--------------------------- MODULE SensorPipeline ---------------------------
(***************************************************************************)
(* The Core-0 sensor pipeline (main/runtime_sensor_pipeline.cpp) between   *)
(* the control task, which requests a frame every tick and peeks the       *)
(* newest one, and the two I2C workers (runtime_encoder_acquisition.cpp,   *)
(* runtime_imu_acquisition.cpp), each behind a request and a result queue  *)
(* of depth one.                                                           *)
(*                                                                         *)
(* A sequence number is only ever compared with that of the newest         *)
(* dispatch, so a request or result carries `current`: it answers the      *)
(* newest one.  Time is not counted: a join gives up whenever its deadline *)
(* may have passed.                                                        *)
(***************************************************************************)
EXTENDS Naturals, Sequences

CONSTANTS
    Sensors,          \* {"encoder"}, or with the IMU when pipeline_imu_enabled
    IrqSensors        \* the sensors whose worker is driven by DATA_RDY

ASSUME PipelineAssumption ==
    /\ Sensors \in {{"encoder"}, {"encoder", "imu"}}
    /\ IrqSensors \subseteq Sensors

VARIABLES
    control,          \* what the control task does next in its tick
    requested,        \* request_queue: holds a frame request
    step,             \* where the pipeline task stands in Steps; 0: waiting for a request
    dispatched,       \* the sensors whose dispatch succeeded for this frame
    got,              \* what the frame being assembled has received
    frame,            \* frame_queue: the newest published frame
    taken,            \* last_consumed_frame
    inbox,            \* a worker's request_queue
    reading,          \* the transaction a worker is in
    outbox,           \* a worker's result_queue
    edge,             \* a DATA_RDY notification is pending
    timely            \* environment: from now on the sensors answer, within the budget

vars == <<control, requested, step, dispatched, got, frame, taken,
          inbox, reading, outbox, edge, timely>>

\* Nothing there.
None == [ok |-> FALSE, current |-> FALSE, begun |-> FALSE, there |-> FALSE]
\* `begun` is history: the bus transaction started after the newest dispatch.
Begun(current) == [ok |-> FALSE, current |-> current, begun |-> TRUE, there |-> TRUE]

\* sensorFramePipelineTask's body, one sensor at a time
Steps ==
    LET S(does, of) == [does |-> does, of |-> of]
    IN  IF "imu" \in Sensors
        THEN <<S("dispatch", "encoder"), S("dispatch", "imu"), S("try", "encoder"), S("try", "imu"),
               S("wait", "imu"), S("wait", "encoder"), S("try", "encoder"), S("try", "imu")>>
        ELSE <<S("dispatch", "encoder"), S("try", "encoder"), S("wait", "encoder"), S("try", "encoder")>>

Publishing == Len(Steps) + 1

At(does, s) == step \in DOMAIN Steps /\ Steps[step] = [does |-> does, of |-> s]

Nothing == [s \in Sensors |-> None]

\* What a published frame keeps of its members; their readings come with them.
Members(received) ==
    [s \in Sensors |-> [there |-> received[s].there, begun |-> received[s].begun]]

\* initEncoderAcquisition, initImuAcquisition: the queues are created empty, once.
WorkersIdle ==
    /\ inbox = [s \in Sensors |-> "empty"]
    /\ reading = Nothing
    /\ outbox = Nothing
    /\ edge = [s \in Sensors |-> FALSE]

Init ==
    /\ control = "request"
    /\ requested = FALSE
    /\ step = 0
    /\ dispatched = {}
    /\ got = Nothing
    /\ frame = [got |-> Members(Nothing), complete |-> FALSE]
    /\ taken = frame
    /\ WorkersIdle
    /\ timely = FALSE

-----------------------------------------------------------------------------
(* The control task *)

\* dispatchSensorFrameAcquisition: a request not yet taken is overwritten.
RequestFrame ==
    /\ control = "request"
    /\ requested' = TRUE
    /\ control' = "read"
    /\ UNCHANGED <<step, dispatched, got, frame, taken, inbox, reading, outbox, edge, timely>>

\* readLatestSensorFrame: the mailbox keeps what is peeked.
ReadLatest ==
    /\ control = "read"
    /\ taken' = frame
    /\ control' = "request"
    /\ UNCHANGED <<requested, step, dispatched, got, frame, inbox, reading, outbox, edge, timely>>

-----------------------------------------------------------------------------
(* The pipeline task *)

ReceiveRequest ==
    /\ step = 0 /\ requested
    /\ requested' = FALSE
    /\ step' = 1
    /\ dispatched' = {}
    /\ got' = Nothing
    /\ UNCHANGED <<control, frame, taken, inbox, reading, outbox, edge, timely>>

Aged(r) == [r EXCEPT !.current = FALSE, !.begun = FALSE]

\* Faulty: nothing is requested while an earlier result is still in the queue.
DrainedAccepts(s) == s \in IrqSensors \/ (inbox[s] = "empty" /\ ~outbox[s].there)

\* dispatchEncoderAcquisition, dispatchImuAcquisition: the number is used up
\* even when the worker has not taken its last request and the send fails.  An
\* interrupt-driven worker is sent nothing: its next sample is the answer.
Accepts(s) == s \in IrqSensors \/ inbox[s] = "empty"

Dispatch(s) ==
    /\ At("dispatch", s)
    /\ inbox' = [inbox EXCEPT ![s] = IF s \in IrqSensors THEN "empty"
                                     ELSE IF Accepts(s) THEN "current" ELSE "stale"]
    /\ reading' = [reading EXCEPT ![s] = Aged(@)]
    /\ outbox' = [outbox EXCEPT ![s] = Aged(@)]
    /\ dispatched' = IF Accepts(s) THEN dispatched \cup {s} ELSE dispatched
    /\ step' = step + 1
    /\ UNCHANGED <<control, requested, got, frame, taken, edge, timely>>

Joins(s) == s \in dispatched /\ ~got[s].there

\* Faulty: whatever is in the result queue is taken for this frame's result.
UnmatchedCollect(s) ==
    /\ At("try", s) \/ At("wait", s)
    /\ Joins(s) /\ outbox[s].there
    /\ got' = [got EXCEPT ![s] = outbox[s]]
    /\ outbox' = IF s \in IrqSensors THEN outbox ELSE [outbox EXCEPT ![s] = None]
    /\ step' = step + 1
    /\ UNCHANGED <<control, requested, dispatched, frame, taken, inbox, reading, edge, timely>>

\* tryCollectEncoderAcquisition, and the wait of collectEncoderAcquisition: a
\* result that answers this frame's dispatch ends the step.  The interrupt-
\* driven worker's queue is a mailbox that is only peeked.
Collect(s) ==
    /\ At("try", s) \/ At("wait", s)
    /\ Joins(s) /\ outbox[s].current
    /\ got' = [got EXCEPT ![s] = outbox[s]]
    /\ outbox' = IF s \in IrqSensors THEN outbox ELSE [outbox EXCEPT ![s] = None]
    /\ step' = step + 1
    /\ UNCHANGED <<control, requested, dispatched, frame, taken, inbox, reading, edge, timely>>

\* An older result is taken out of the queue and dropped.
DropStale(s) ==
    /\ At("try", s) \/ At("wait", s)
    /\ Joins(s) /\ s \notin IrqSensors
    /\ outbox[s].there /\ ~outbox[s].current
    /\ outbox' = [outbox EXCEPT ![s] = None]
    /\ UNCHANGED <<control, requested, step, dispatched, got, frame, taken, inbox, reading, edge, timely>>

\* The queue is empty, or the mailbox holds an older sample, and nobody waits.
FindNothing(s) ==
    /\ At("try", s)
    /\ ~Joins(s) \/ (IF s \in IrqSensors THEN ~outbox[s].current ELSE ~outbox[s].there)
    /\ step' = step + 1
    /\ UNCHANGED <<control, requested, dispatched, got, frame, taken, inbox, reading, outbox, edge, timely>>

\* Faulty: the workers are waited for without a deadline.
PatientGiveUp(s) ==
    /\ At("wait", s)
    /\ ~Joins(s)
    /\ step' = step + 1
    /\ UNCHANGED <<control, requested, dispatched, got, frame, taken, inbox, reading, outbox, edge, timely>>

\* collectEncoderAcquisition, collectImuAcquisition: the join deadline passes.
GiveUp(s) ==
    /\ At("wait", s)
    /\ Joins(s) => ~timely
    /\ step' = step + 1
    /\ UNCHANGED <<control, requested, dispatched, got, frame, taken, inbox, reading, outbox, edge, timely>>

PublishFrame ==
    /\ step = Publishing
    /\ frame' = [got |-> Members(got), complete |-> \A s \in Sensors : got[s].there /\ got[s].ok]
    /\ step' = 0
    /\ UNCHANGED <<control, requested, dispatched, got, taken, inbox, reading, outbox, edge, timely>>

-----------------------------------------------------------------------------
(* The workers *)

DataReady(s) ==
    /\ s \in IrqSensors /\ ~edge[s]
    /\ edge' = [edge EXCEPT ![s] = TRUE]
    /\ UNCHANGED <<control, requested, step, dispatched, got, frame, taken, inbox, reading, outbox, timely>>

\* encoderAcquisitionTask, runRequestDrivenFallback
BeginRequested(s) ==
    /\ s \notin IrqSensors
    /\ ~reading[s].there /\ inbox[s] # "empty"
    /\ reading' = [reading EXCEPT ![s] = Begun(inbox[s] = "current")]
    /\ inbox' = [inbox EXCEPT ![s] = "empty"]
    /\ UNCHANGED <<control, requested, step, dispatched, got, frame, taken, outbox, edge, timely>>

\* runIrqDrivenAcquisition: the notifications are collapsed, and the sample's
\* number is taken before it is read.
BeginInterrupted(s) ==
    /\ s \in IrqSensors
    /\ ~reading[s].there /\ edge[s]
    /\ edge' = [edge EXCEPT ![s] = FALSE]
    /\ reading' = [reading EXCEPT ![s] = Begun(TRUE)]
    /\ UNCHANGED <<control, requested, step, dispatched, got, frame, taken, inbox, outbox, timely>>

\* Faulty: the sample's number is taken once it has been read.
NumberedLate(s) == [reading[s] EXCEPT !.current = @ \/ s \in IrqSensors]

\* The result, good or failed, replaces one nobody took.
Finished(s) == reading[s]

FinishRead(s) ==
    /\ reading[s].there
    /\ \E ok \in BOOLEAN :
          /\ timely => ok
          /\ outbox' = [outbox EXCEPT ![s] = [Finished(s) EXCEPT !.ok = ok]]
    /\ reading' = [reading EXCEPT ![s] = None]
    /\ UNCHANGED <<control, requested, step, dispatched, got, frame, taken, inbox, edge, timely>>

BusRecovers ==
    /\ ~timely
    /\ timely' = TRUE
    /\ UNCHANGED <<control, requested, step, dispatched, got, frame, taken, inbox, reading, outbox, edge>>

-----------------------------------------------------------------------------
ControlTask == RequestFrame \/ ReadLatest

PipelineTask ==
    \/ ReceiveRequest \/ PublishFrame
    \/ \E s \in Sensors :
          Dispatch(s) \/ Collect(s) \/ DropStale(s) \/ FindNothing(s) \/ GiveUp(s)

Worker(s) == DataReady(s) \/ BeginRequested(s) \/ BeginInterrupted(s) \/ FinishRead(s)

Next == ControlTask \/ PipelineTask \/ BusRecovers \/ \E s \in Sensors : Worker(s)

Spec == Init /\ [][Next]_vars

\* The pipeline task runs; a worker may hang in a transaction for ever.
PipelineRuns == WF_vars(PipelineTask)

\* Every task runs, and the DATA_RDY edges keep coming.
AllRun ==
    /\ PipelineRuns
    /\ WF_vars(ControlTask)
    /\ \A s \in Sensors :
         /\ WF_vars(DataReady(s))
         /\ WF_vars(BeginRequested(s) \/ BeginInterrupted(s) \/ FinishRead(s))

-----------------------------------------------------------------------------
Results == [ok : BOOLEAN, current : BOOLEAN, begun : BOOLEAN, there : BOOLEAN]
Frames == {f \in [got : [Sensors -> [there : BOOLEAN, begun : BOOLEAN]], complete : BOOLEAN] :
              f.complete => \A s \in Sensors : f.got[s].there}

TypeOK ==
    /\ control \in {"request", "read"}
    /\ requested \in BOOLEAN
    /\ step \in 0 .. Publishing
    /\ dispatched \in SUBSET Sensors
    /\ got \in [Sensors -> Results]
    /\ frame \in Frames
    /\ taken \in Frames
    /\ inbox \in [Sensors -> {"empty", "current", "stale"}]
    /\ reading \in [Sensors -> Results]
    /\ outbox \in [Sensors -> Results]
    /\ edge \in [Sensors -> BOOLEAN]
    /\ timely \in BOOLEAN

\* Whatever results were late, dropped or overwritten, the members of a frame the
\* control task uses were sampled for that frame: their transactions began after
\* its dispatch (runtime_sensor_frame.hpp:10-13 "never mixes independently fresh
\* members from different generations").
GenerationsNeverMix == \A s \in Sensors : taken.got[s].there => taken.got[s].begun

\* A frame is joined and published, complete or not, even when a worker never
\* answers again: nothing is assumed of the workers.
JoinIsBounded == PipelineRuns /\ []~timely => ((step # 0) ~> (step = 0))

\* A sensor that failed or fell behind does not leave the pipeline one result
\* behind: once the bus answers in time, every frame is complete again.
ResynchronisesAfterStall == AllRun => (timely ~> [](frame.complete))
=============================================================================
