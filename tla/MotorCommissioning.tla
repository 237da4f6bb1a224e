------------------------- MODULE MotorCommissioning -------------------------
(***************************************************************************)
(* The motor commissioning firmware                                        *)
(* (main/runtime_simplefoc_motor_commissioning.cpp): a command task on     *)
(* core 1 that reads lines from BLE, and a motor task on core 0 that runs  *)
(* one job at a time, a leg in each direction with a pause between.  They  *)
(* share a queue of one job, a mailbox of one result, and two atomic       *)
(* flags, abort_requested and motor_busy, that nothing ties to a job.      *)
(***************************************************************************)
EXTENDS Naturals

CONSTANTS MaxJobs, MaxStops   \* bounds: jobs accepted, stops sent

ASSUME BoundsAssumption == MaxJobs \in Nat /\ MaxStops \in Nat

VARIABLES
    connected,        \* ble::connected(), and subscribed
    queue,            \* command_queue: the job that waits, 0 is none
    result,           \* result_queue: [job, init, aborted, heard], job 0 is none
    abort, busy,      \* abort_requested, motor_busy
    pc,               \* where the motor task is
    job,              \* the motor task's job: [n, init, positive, negative, aborted]
    looked,           \* this iteration of the leg has looked at the flags
    driven,           \* the backend aligns, or has a target and is serviced
    at,               \* where the command task is
    admitted,         \* history: jobs accepted
    emitted,          \* history: the last job whose result was emitted
    stops,            \* history: stops handled
    heard             \* history: the job has been asked to stop

motorVars == <<pc, job, looked, driven>>
commandVars == <<at, admitted, emitted, stops>>
jobVars == <<connected, queue, result, abort, busy, motorVars, commandVars, heard>>

NoJob == [n |-> 0, init |-> FALSE, positive |-> FALSE, negative |-> FALSE, aborted |-> FALSE]
NoResult == [job |-> 0, init |-> FALSE, aborted |-> FALSE, heard |-> FALSE]

\* Between the reset of the abort flag and the last look at it.
Listening == pc \in {"begin", "align", "positive", "pause", "decide", "negative", "finish"}

CommissioningInit ==
    /\ connected = FALSE
    /\ queue = 0 /\ result = NoResult
    /\ abort = FALSE /\ busy = FALSE
    /\ pc = "wait" /\ job = NoJob /\ looked = FALSE /\ driven = FALSE
    /\ at = "result" /\ admitted = 0 /\ emitted = 0 /\ stops = 0
    /\ heard = FALSE

Link ==
    /\ connected' = ~connected
    /\ UNCHANGED <<queue, result, abort, busy, motorVars, commandVars, heard>>

-----------------------------------------------------------------------------
(* commandTask *)

RequestAbort ==
    /\ abort' = TRUE
    /\ heard' = (heard \/ Listening)

EmitResult ==
    /\ at = "result"
    /\ at' = "link"
    /\ emitted' = IF result.job = 0 THEN emitted ELSE result.job
    /\ result' = NoResult
    /\ UNCHANGED <<connected, queue, abort, busy, motorVars, admitted, stops, heard>>

WatchLink ==
    /\ at = "link"
    /\ at' = "line"
    /\ IF busy /\ ~connected THEN RequestAbort ELSE UNCHANGED <<abort, heard>>
    /\ UNCHANGED <<connected, queue, result, busy, motorVars, admitted, emitted, stops>>

\* No line, or one that changes nothing.
NoLine ==
    /\ at = "line"
    /\ at' = "result"
    /\ UNCHANGED <<connected, queue, result, abort, busy, motorVars, admitted, emitted, stops,
                   heard>>

\* processLine: a stop, which may have been sent over a connection that is gone.
StopLine ==
    /\ at = "line" /\ stops < MaxStops
    /\ stops' = stops + 1
    /\ RequestAbort
    /\ UNCHANGED <<connected, queue, result, busy, motorVars, at, admitted, emitted>>

\* processLine: a valid commission; the busy flag is tested ...
CommissionLine ==
    /\ at = "line" /\ admitted < MaxJobs
    /\ at' = IF connected /\ ~busy THEN "send" ELSE "result"
    /\ UNCHANGED <<connected, queue, result, abort, busy, motorVars, admitted, emitted, stops,
                   heard>>

\* ... and then the job is queued, or refused when one waits.
SendJob ==
    /\ at = "send"
    /\ at' = "line"
    /\ IF queue = 0
       THEN admitted' = admitted + 1 /\ queue' = admitted + 1
       ELSE UNCHANGED <<admitted, queue>>
    /\ UNCHANGED <<connected, result, abort, busy, motorVars, emitted, stops, heard>>

CommandTask == EmitResult \/ WatchLink \/ NoLine \/ StopLine \/ CommissionLine \/ SendJob

-----------------------------------------------------------------------------
(* motorTask *)

TakeJob ==
    /\ pc = "wait" /\ queue # 0
    /\ job' = [NoJob EXCEPT !.n = queue]
    /\ queue' = 0
    /\ pc' = "taken"
    /\ heard' = FALSE
    /\ UNCHANGED <<connected, result, abort, busy, looked, driven, commandVars>>

SetBusy ==
    /\ pc = "taken"
    /\ busy' = TRUE
    /\ pc' = "clear"
    /\ UNCHANGED <<connected, queue, result, abort, job, looked, driven, commandVars, heard>>

\* A stop from before this is forgotten with it.
ClearAbort ==
    /\ pc = "clear"
    /\ abort' = FALSE
    /\ pc' = "begin"
    /\ UNCHANGED <<connected, queue, result, busy, job, looked, driven, commandVars, heard>>

\* The backend is built and begun: its configuration, sensor or driver fails, ...
BackendRefuses ==
    /\ pc = "begin"
    /\ pc' = "finish"
    /\ UNCHANGED <<connected, queue, result, abort, busy, job, looked, driven, commandVars, heard>>

\* ... or initFOC() energises the motor to align it, and looks at no flag ...
Align ==
    /\ pc = "begin"
    /\ pc' = "align"
    /\ driven' = TRUE
    /\ UNCHANGED <<connected, queue, result, abort, busy, job, looked, commandVars, heard>>

\* ... until the alignment succeeds or fails; the motor is disabled either way.
EndAlignment ==
    /\ pc = "align"
    /\ driven' = FALSE
    /\ \E ok \in BOOLEAN :
          /\ job' = [job EXCEPT !.init = ok]
          /\ pc' = IF ok THEN "positive" ELSE "finish"
    /\ UNCHANGED <<connected, queue, result, abort, busy, looked, commandVars, heard>>

Legs == {"positive", "negative"}
AfterLeg(leg) == IF leg = "positive" THEN "pause" ELSE "finish"

EndLeg(leg, ok) ==
    /\ driven' = FALSE
    /\ job' = [job EXCEPT ![leg] = ok]
    /\ pc' = AfterLeg(leg)
    /\ UNCHANGED <<connected, queue, result, abort, busy, looked, commandVars, heard>>

\* Faulty: a leg looks at the connection only.
DeafLook(leg) ==
    /\ pc = leg /\ ~looked
    /\ connected
    /\ looked' = TRUE
    /\ UNCHANGED <<connected, queue, result, abort, busy, pc, job, driven, commandVars, heard>>

\* serviceForDuration: an iteration looks for a reason to end, ...
Look(leg) ==
    /\ pc = leg /\ ~looked
    /\ ~abort /\ connected
    /\ looked' = TRUE
    /\ UNCHANGED <<connected, queue, result, abort, busy, pc, job, driven, commandVars, heard>>

\* ... and services the backend, ...
Serve(leg) ==
    /\ pc = leg /\ looked
    /\ looked' = FALSE /\ driven' = TRUE
    /\ UNCHANGED <<connected, queue, result, abort, busy, pc, job, commandVars, heard>>

\* ... the end of the duration, ...
LegDone(leg) == pc = leg /\ ~looked /\ EndLeg(leg, TRUE)

\* ... a stop, a lost connection, or a backend or sensor that fails.
LegFails(leg) == pc = leg /\ ~looked /\ EndLeg(leg, FALSE)

\* serviceStopped, for its duration or until there is a reason to end it.
Pause ==
    /\ pc = "pause"
    /\ pc' = "decide"
    /\ UNCHANGED <<connected, queue, result, abort, busy, job, looked, driven, commandVars, heard>>

Decide ==
    /\ pc = "decide"
    /\ pc' = IF job.positive /\ ~abort /\ connected THEN "negative" ELSE "finish"
    /\ UNCHANGED <<connected, queue, result, abort, busy, job, looked, driven, commandVars, heard>>

\* Faulty: a job is aborted when one of its legs was.
ShortFinish ==
    /\ pc = "finish"
    /\ pc' = "free"
    /\ job' = [job EXCEPT !.aborted = job.init /\ ~(job.positive /\ job.negative)]
    /\ UNCHANGED <<connected, queue, result, abort, busy, looked, driven, commandVars, heard>>

\* What the result says of it.
Finish ==
    /\ pc = "finish"
    /\ pc' = "free"
    /\ job' = [job EXCEPT !.aborted = job.init /\ (abort \/ ~(job.positive /\ job.negative))]
    /\ UNCHANGED <<connected, queue, result, abort, busy, looked, driven, commandVars, heard>>

ClearBusy ==
    /\ pc = "free"
    /\ busy' = FALSE
    /\ pc' = "report"
    /\ UNCHANGED <<connected, queue, result, abort, job, looked, driven, commandVars, heard>>

Result == [job |-> job.n, init |-> job.init, aborted |-> job.aborted, heard |-> heard]

\* Faulty: a result that finds another in the mailbox is lost.
TimidReport ==
    /\ pc = "report"
    /\ result' = IF result.job = 0 THEN Result ELSE result
    /\ pc' = "wait"
    /\ UNCHANGED <<connected, queue, abort, busy, job, looked, driven, commandVars, heard>>

\* xQueueOverwrite
Report ==
    /\ pc = "report"
    /\ result' = Result
    /\ pc' = "wait"
    /\ UNCHANGED <<connected, queue, abort, busy, job, looked, driven, commandVars, heard>>

MotorTask ==
    \/ TakeJob \/ SetBusy \/ ClearAbort \/ BackendRefuses \/ Align \/ EndAlignment
    \/ \E leg \in Legs : Look(leg) \/ Serve(leg) \/ LegDone(leg) \/ LegFails(leg)
    \/ Pause \/ Decide \/ Finish \/ ClearBusy \/ Report

-----------------------------------------------------------------------------
CommissioningNext == Link \/ CommandTask \/ MotorTask

EndOfLeg == \E leg \in Legs : LegDone(leg)

\* The motor task runs every millisecond, an alignment ends and a leg lasts at
\* most kMaxDriveDurationMs; the command task polls every 20 ms.
CommissioningSpec ==
    CommissioningInit /\ [][CommissioningNext]_jobVars
    /\ WF_jobVars(CommandTask) /\ WF_jobVars(MotorTask) /\ SF_jobVars(EndOfLeg)

-----------------------------------------------------------------------------
CommissioningTypeOK ==
    /\ queue \in 0 .. MaxJobs /\ result.job \in 0 .. admitted
    /\ {abort, busy, looked, driven, heard, connected} \subseteq BOOLEAN
    /\ looked => pc \in Legs
    /\ driven => pc \in Legs \cup {"align"}
    /\ pc \in Legs \cup {"align"} => busy
    /\ queue # 0 => queue = admitted
    /\ job.n = (IF queue = 0 THEN admitted ELSE admitted - 1)

\* A job asked to stop after it reset the flag is reported as aborted, wherever
\* the stop met it, if its backend had begun or still did.
StopIsReported == result.job # 0 /\ result.heard /\ result.init => result.aborted

\* The motor is energised, or will be after the look that has been taken.
Committed == driven \/ looked

\* Once the job has been asked to stop, no leg sets the motor going again until
\* another job is taken: what had looked before the stop serves once more.  The
\* one thing a stop does not prevent is the alignment of a backend that was still
\* to begin, for begin() does not look at abort_requested; no leg follows it.
StopIsFinal == [][heard /\ ~Committed /\ Committed' => Align]_jobVars

\* The outcome of the last job reaches the command task, however the results of
\* the jobs before it were overwritten.
ResultsArrive == \A n \in 1 .. MaxJobs : admitted >= n ~> emitted >= n
=============================================================================
