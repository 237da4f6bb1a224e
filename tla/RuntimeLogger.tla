--------------------------- MODULE RuntimeLogger ---------------------------
(***************************************************************************)
(* The TWLG logger (components/triwhirl_log/runtime_logger.cpp): the       *)
(* control task records into a RAM stream buffer, and a worker erases the  *)
(* partition, drains the buffer into it in batches and finalises the log.  *)
(* Nothing locks them against each other: they share volatile fields.      *)
(*                                                                         *)
(* Sizes are counted in records.  A record is named by its run and its     *)
(* place among the accepted ones, and a CRC by the sequence it covers.     *)
(***************************************************************************)
EXTENDS Naturals, Sequences, FiniteSets, FiniteSetsExt

CONSTANTS
    RamRecords,       \* kRamBufferBytes
    Batch,            \* kFlashBatchBytes
    PumpEvery,        \* kPumpRecordDecimation
    ProbeEvery,       \* kProbeRecordDecimation
    Kinds,            \* the flags records come with, of "plain", "pump", "probe"
    PartitionRecords, \* bound: what the partition holds
    MaxRuns,          \* bound: how often the flash is prepared
    MaxDropped        \* bound: how many records are dropped in a run

ASSUME LoggerAssumption ==
    /\ {RamRecords, Batch, PumpEvery, ProbeEvery, PartitionRecords} \subseteq Nat \ {0}
    /\ Batch <= RamRecords
    /\ MaxRuns \in Nat /\ MaxDropped \in Nat
    /\ Kinds \subseteq {"plain", "pump", "probe"}

VARIABLES
    state,            \* state_
    max,              \* max_records_
    accepted,         \* history: the accepted records (accepted_records_ of them)
    written,          \* records_written_
    dropped,          \* dropped_records_
    crc,              \* payload_crc32_
    flashAllowed,     \* flash_writes_allowed_
    hold,             \* autonomous_flash_hold_
    counts,           \* pump_record_counter_, probe_record_counter_
    stream,           \* the stream buffer
    payload, header,  \* the partition
    call,             \* the call the control task is inside
    job,              \* what the worker has decided to do
    run               \* history: how often the flash was prepared

control == <<max, accepted, dropped, hold, counts, call, run>>
flash == <<payload, header>>
vars == <<state, max, accepted, written, dropped, crc, flashAllowed, hold, counts,
          stream, payload, header, call, job, run>>

Cells == 1 .. PartitionRecords
Erased == <<0, 0>>
Torn == <<0, 1>>      \* in no known state: programmed twice, or by a failed operation
Blank == [count |-> 0, dropped |-> 0, crc |-> <<>>, complete |-> FALSE]

NoCall == [in |-> "none", kind |-> "plain"]
NoJob == [do |-> "look", n |-> 0]

\* Everything but the partition starts afresh.
Booted ==
    /\ state = "idle" /\ max = 0
    /\ accepted = <<>> /\ written = 0 /\ dropped = 0 /\ crc = <<>>
    /\ flashAllowed = TRUE /\ hold = FALSE
    /\ counts = [pump |-> 0, probe |-> 0]
    /\ stream = <<>>
    /\ call = NoCall /\ job = NoJob /\ run = 0

\* The partition holds whatever an earlier firmware or run left.
Init ==
    /\ Booted
    /\ payload = [i \in Cells |-> Torn]
    /\ header = Blank

-----------------------------------------------------------------------------
(* The control task.  prepare() and start() only go ahead in states the      *)
(* worker itself has just set and in which it does nothing, so they are one  *)
(* step; record() and stop() test the state and act on it later.             *)

EmptyRun ==
    /\ stream' = <<>>
    /\ accepted' = <<>> /\ written' = 0 /\ dropped' = 0 /\ crc' = <<>>
    /\ counts' = [pump |-> 0, probe |-> 0]
    /\ hold' = FALSE
    /\ flashAllowed' = TRUE

Prepare ==
    /\ call = NoCall /\ run < MaxRuns
    /\ state \notin {"erasing", "recording", "stopping"}
    /\ \E n \in Cells : max' = n
    /\ EmptyRun
    /\ state' = "erasing"
    /\ run' = run + 1
    /\ UNCHANGED <<flash, call, job>>

Start ==
    /\ call = NoCall
    /\ state = "ready"
    /\ EmptyRun
    /\ state' = "recording"
    /\ UNCHANGED <<max, flash, call, job, run>>

\* record: the hold, and which records are thinned out
Kept(kind) == CASE kind = "plain" -> TRUE
                [] kind = "pump"  -> counts.pump = 0
                [] kind = "probe" -> counts.probe = 0

Counted(kind) ==
    [pump  |-> IF kind = "pump" THEN (counts.pump + 1) % PumpEvery ELSE 0,
     probe |-> IF kind = "probe" THEN (counts.probe + 1) % ProbeEvery ELSE 0]

\* Faulty: the record is let in whatever the state.
StatelessRecordBegins ==
    /\ call = NoCall /\ dropped < MaxDropped
    /\ \E kind \in Kinds :
          /\ hold' = (hold \/ kind # "plain")
          /\ flashAllowed' = (flashAllowed /\ kind = "plain")
          /\ counts' = Counted(kind)
          /\ call' = IF Kept(kind) THEN [in |-> "record", kind |-> kind] ELSE NoCall
    /\ UNCHANGED <<state, max, accepted, written, dropped, crc, stream, flash, job, run>>

RecordBegins ==
    /\ call = NoCall /\ dropped < MaxDropped
    /\ state = "recording"
    /\ \E kind \in Kinds :
          /\ hold' = (hold \/ kind # "plain")
          /\ flashAllowed' = (flashAllowed /\ kind = "plain")
          /\ counts' = Counted(kind)
          /\ call' = IF Kept(kind) THEN [in |-> "record", kind |-> kind] ELSE NoCall
    /\ UNCHANGED <<state, max, accepted, written, dropped, crc, stream, flash, job, run>>

\* Faulty: the RAM buffer is the only limit.
UnboundedHasRoom == Len(stream) < RamRecords

HasRoom == Len(accepted) < max /\ Len(stream) < RamRecords

\* record: xStreamBufferSend, and the counter of what was accepted
RecordSends ==
    /\ call.in = "record"
    /\ IF HasRoom
       THEN LET r == <<run, Len(accepted) + 1>>
            IN /\ stream' = Append(stream, r)
               /\ accepted' = Append(accepted, r)
               /\ UNCHANGED dropped
       ELSE /\ dropped' = dropped + 1
            /\ UNCHANGED <<stream, accepted>>
    /\ call' = NoCall
    /\ UNCHANGED <<state, max, written, crc, flashAllowed, hold, counts, flash, job, run>>

SetFlashWritesAllowed ==
    /\ call = NoCall
    /\ \E allowed \in BOOLEAN : flashAllowed' = (allowed /\ ~hold)
    /\ UNCHANGED <<state, max, accepted, written, dropped, crc, hold, counts, stream, flash, call, job, run>>

StopBegins ==
    /\ call = NoCall
    /\ state \in {"recording", "ready"}
    /\ call' = [NoCall EXCEPT !.in = "stop"]
    /\ UNCHANGED <<state, max, accepted, written, dropped, crc, flashAllowed, hold, counts, stream, flash, job, run>>

\* Whatever the worker has made of the state in between is overwritten.
StopEnds ==
    /\ call.in = "stop"
    /\ hold' = FALSE
    /\ flashAllowed' = TRUE
    /\ state' = "stopping"
    /\ call' = NoCall
    /\ UNCHANGED <<max, accepted, written, dropped, crc, counts, stream, flash, job, run>>

-----------------------------------------------------------------------------
(* The worker *)

\* Faulty: draining after a stop waits for full batches and for permission.
UnforcedShouldWrite == flashAllowed /\ Len(stream) >= Batch

ShouldWrite ==
    \/ state = "stopping"
    \/ flashAllowed /\ Len(stream) >= Batch

Decide(j) ==
    /\ job' = j
    /\ UNCHANGED <<state, control, written, crc, flashAllowed, stream, flash>>

LookErase ==
    /\ job = NoJob
    /\ state = "erasing"
    /\ Decide([NoJob EXCEPT !.do = "erase"])

LookWrite ==
    /\ job = NoJob
    /\ state \in {"recording", "stopping"}
    /\ ShouldWrite /\ stream # <<>>
    /\ Decide([do |-> "write", n |-> Min({Len(stream), Batch})])

LookFinalize ==
    /\ job = NoJob
    /\ state = "stopping" /\ stream = <<>>
    /\ Decide([NoJob EXCEPT !.do = "finalize"])

Erase ==
    /\ job.do = "erase"
    /\ \E ok \in BOOLEAN :
          /\ state' = IF ok THEN "ready" ELSE "error"
          /\ payload' = [i \in Cells |-> CASE i > max -> payload[i]
                                           [] i <= max /\ ok -> Erased
                                           [] OTHER -> Torn]
    /\ header' = Blank
    /\ job' = NoJob
    /\ UNCHANGED <<control, written, crc, flashAllowed, stream>>

Programmed(batch, ok) ==
    [i \in Cells |-> IF i - written \notin DOMAIN batch THEN payload[i]
                     ELSE IF ok /\ payload[i] = Erased THEN batch[i - written] ELSE Torn]

\* writePayload: what was received is lost when it cannot be written
Write ==
    /\ job.do = "write"
    /\ LET batch == SubSeq(stream, 1, job.n)
       IN /\ stream' = SubSeq(stream, job.n + 1, Len(stream))
          /\ \/ /\ job.n <= max - written
                /\ payload' = Programmed(batch, TRUE)
                /\ crc' = crc \o batch
                /\ written' = written + job.n
                /\ UNCHANGED state
             \/ /\ \/ payload' = payload
                   \/ job.n <= max - written /\ payload' = Programmed(batch, FALSE)
                /\ state' = "error"
                /\ UNCHANGED <<crc, written>>
    /\ job' = NoJob
    /\ UNCHANGED <<control, flashAllowed, header>>

\* Faulty: lost batches are not noticed.
UncheckedAllWritten == TRUE

AllWritten == written = Len(accepted)

Finalize ==
    /\ job.do = "finalize"
    /\ \/ /\ AllWritten
          /\ header' = [count |-> written, dropped |-> dropped, crc |-> crc, complete |-> TRUE]
          /\ state' = "complete"
       \/ /\ state' = "error"
          /\ UNCHANGED header
    /\ job' = NoJob
    /\ UNCHANGED <<control, written, crc, flashAllowed, stream, payload>>

Worker == LookErase \/ LookWrite \/ LookFinalize \/ Erase \/ Write \/ Finalize

-----------------------------------------------------------------------------
\* The ESP32 resets: RAM is lost, and init() leaves the partition alone.
Restart ==
    /\ state' = "idle" /\ max' = 0
    /\ EmptyRun
    /\ call' = NoCall /\ job' = NoJob
    /\ UNCHANGED <<flash, run>>

Control ==
    \/ Prepare \/ Start \/ RecordBegins \/ RecordSends
    \/ SetFlashWritesAllowed \/ StopBegins \/ StopEnds

Next == Control \/ Worker \/ Restart

Spec == Init /\ [][Next]_vars

\* The worker polls every 2 ms and its flash operations return; a call the
\* control task is inside returns.
LiveSpec == Spec /\ WF_vars(Worker) /\ WF_vars(RecordSends \/ StopEnds)

-----------------------------------------------------------------------------
Records == (1 .. MaxRuns) \X (1 .. PartitionRecords)
Logs == UNION {[1 .. n -> Records] : n \in 0 .. PartitionRecords}

TypeOK ==
    /\ state \in {"idle", "erasing", "ready", "recording", "stopping", "complete", "error"}
    /\ max \in 0 .. PartitionRecords
    /\ accepted \in Logs /\ Len(accepted) <= max
    /\ written \in 0 .. max
    /\ dropped \in 0 .. MaxDropped
    /\ crc \in Logs
    /\ flashAllowed \in BOOLEAN /\ hold \in BOOLEAN
    /\ counts \in [pump : 0 .. PumpEvery - 1, probe : 0 .. ProbeEvery - 1]
    /\ stream \in Logs /\ Len(stream) <= RamRecords
    /\ payload \in [Cells -> Records \cup {Erased, Torn}]
    /\ call \in [in : {"none", "record", "stop"}, kind : {"plain", "pump", "probe"}]
    /\ job \in [do : {"look", "erase", "write", "finalize"}, n : 0 .. Batch]
    /\ run \in 0 .. MaxRuns

\* The records that can be read back.
Stored == [i \in 1 .. written |-> payload[i]]

\* A log that says it is complete is: it holds exactly the records that were
\* accepted, in their order, under a header that agrees with it, even when a
\* flash error raced the stop that asked for it (finalize, runtime_logger.cpp).
CompleteLogIsExact ==
    state = "complete" =>
       /\ Stored = accepted
       /\ header = [count |-> Len(accepted), dropped |-> dropped, crc |-> accepted, complete |-> TRUE]

Unpublished == <<Erased>>

Recorded == INSTANCE RecordedLog WITH
    log <- accepted,
    published <- IF state = "complete" THEN Stored ELSE Unpublished

\* The logger implements a log that is published as it was recorded and then
\* frozen until the next run begins (twlog-v1.md:6-8).
ImplementsRecordedLog == Recorded!Spec

\* Every erase and every stop comes to an end, whatever critical window opens
\* while the buffer drains.
WorkerConcludes == state \in {"erasing", "stopping"} ~> state \in {"ready", "complete", "error", "idle"}
=============================================================================
