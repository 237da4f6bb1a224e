---------------------------- MODULE StandupTrace ----------------------------
(***************************************************************************)
(* The standup trace (main/runtime_trace.cpp): while a standup session     *)
(* drives the motor, the control task appends records to a RAM ring; when  *)
(* it stops, a Core-0 worker sends them over BLE between a start and an    *)
(* end frame.  Both sides share atomic indices and flags, and no lock.     *)
(*                                                                         *)
(* Only the ticks that are recorded (one in kStandupTraceDecimation) are   *)
(* considered.  A frame is accepted by the transport whole or not at all,  *)
(* and may still be lost or cut short on its way to the host: the          *)
(* transport counts what it drops itself, of whatever session, and every   *)
(* frame carries the count since its session was set up.                   *)
(***************************************************************************)
EXTENDS TraceHost

CONSTANTS
    RingRecords,      \* kStandupTraceRingRecords
    FrameRecords,     \* kStandupTraceRecordsPerFrame
    IndexModulus,     \* 2^32 in the code: trace_head and trace_tail wrap
    MaxSessions,      \* bound on the sessions started
    MaxSamples,       \* bound on the records of a session
    MaxFrames,        \* bound on the frames accepted in a session
    MaxDrops          \* bound on the times the transport drops a frame or its rest

ASSUME TraceAssumption ==
    /\ {RingRecords, FrameRecords, IndexModulus} \subseteq Nat \ {0}
    /\ IndexModulus % RingRecords = 0 /\ RingRecords < IndexModulus
    /\ SequenceModulus \in Nat /\ RingRecords + 2 <= SequenceModulus
    /\ {MaxSessions, MaxSamples, MaxFrames, MaxDrops} \subseteq Nat

VARIABLES
    control,          \* what the control task does to the trace next
    active,           \* trace_active
    start_pending,    \* trace_start_pending
    end_pending,      \* trace_end_pending
    head, tail,       \* trace_head, trace_tail
    ring,             \* trace_ring
    sample_seq,       \* trace_sample_seq
    frame_seq,        \* trace_frame_seq
    dropped,          \* trace_dropped_records
    worker,           \* traceWorker: where it is, its copy of the tail and its frame
    waiting,          \* the transport may hold a frame: it has accepted one
    tx_dropped,       \* traceTxDroppedBytes(), counted in drops
    baseline,         \* trace_transport_drop_baseline
    session,          \* history: the number of the session
    kept,             \* history: the records the session put into the ring
    sent,             \* history: the frames accepted since the session began; they
                      \* are told apart in an undisturbed session only
    undisturbed,      \* history: the worker rested while the session was set up
    spoiled,          \* history: the transport has dropped something since then
    reported          \* history: `spoiled` when the last frame was made

indices == <<head, tail, ring, sample_seq, frame_seq, dropped>>
transport == <<waiting, tx_dropped, baseline>>
history == <<session, kept, sent, undisturbed, spoiled, reported>>
vars == <<control, active, start_pending, end_pending, indices, worker, transport, history>>

\* A record is known by its session and its sample_seq.
NoRecord == [session |-> 0, seq |-> 0]
NoFrame == [kind |-> "none", seq |-> 0, dropped |-> 0, lost |-> 0, records |-> <<>>]

Init ==
    /\ control = "rest"
    /\ active = FALSE /\ start_pending = FALSE /\ end_pending = FALSE
    /\ head = 0 /\ tail = 0
    /\ ring = [i \in 0 .. RingRecords - 1 |-> NoRecord]
    /\ sample_seq = 0 /\ frame_seq = 0 /\ dropped = 0
    /\ worker = [at |-> "idle", tail |-> 0, frame |-> NoFrame]
    /\ waiting = FALSE /\ tx_dropped = 0 /\ baseline = 0
    /\ session = 0 /\ kept = <<>> /\ sent = <<>> /\ undisturbed = TRUE
    /\ spoiled = FALSE /\ reported = FALSE

\* trace_head - trace_tail in uint32_t
Ahead(h, t) == (h + IndexModulus - t) % IndexModulus

-----------------------------------------------------------------------------
(* The control task *)

\* startRuntimeStandupTrace: a standup session may begin whatever became of the
\* trace of the last one.  The head is reset first...
StartResetsHead ==
    /\ control = "rest" /\ ~active
    /\ session < MaxSessions
    /\ head' = 0
    /\ control' = "reset tail"
    /\ session' = session + 1 /\ kept' = <<>> /\ sent' = <<>>
    /\ undisturbed' = (worker.at = "idle")
    /\ UNCHANGED <<active, start_pending, end_pending, tail, ring, sample_seq, frame_seq,
                   dropped, worker, transport, spoiled, reported>>

\* Faulty: what the transport dropped before is held against the new session.
CarryingStartResetsTail ==
    /\ control = "reset tail"
    /\ tail' = 0 /\ sample_seq' = 0 /\ frame_seq' = 0 /\ dropped' = 0
    /\ spoiled' = FALSE
    /\ control' = "arm"
    /\ UNCHANGED <<active, start_pending, end_pending, head, ring, worker, transport, session,
                   kept, sent, undisturbed, reported>>

\* ... then the tail, the counters and the baseline of the transport's...
StartResetsTail ==
    /\ control = "reset tail"
    /\ tail' = 0 /\ sample_seq' = 0 /\ frame_seq' = 0 /\ dropped' = 0
    /\ baseline' = tx_dropped /\ spoiled' = FALSE
    /\ control' = "arm"
    /\ UNCHANGED <<active, start_pending, end_pending, head, ring, worker, waiting, tx_dropped,
                   session, kept, sent, undisturbed, reported>>

\* ... and the flags last.
StartArms ==
    /\ control = "arm"
    /\ end_pending' = FALSE /\ start_pending' = TRUE /\ active' = TRUE
    /\ control' = "rest"
    /\ UNCHANGED <<indices, worker, transport, history>>

Full == Ahead(head, tail) >= RingRecords

\* recordRuntimeStandupTrace
Record ==
    /\ control = "rest" /\ active
    /\ sample_seq < MaxSamples
    /\ sample_seq' = sample_seq + 1
    /\ LET record == [session |-> session, seq |-> sample_seq]
       IN  IF Full
           THEN /\ dropped' = dropped + 1
                /\ UNCHANGED <<head, ring, kept>>
           ELSE /\ ring' = [ring EXCEPT ![head % RingRecords] = record]
                /\ head' = (head + 1) % IndexModulus
                /\ kept' = Append(kept, record)
                /\ UNCHANGED dropped
    /\ UNCHANGED <<control, active, start_pending, end_pending, tail, frame_seq, worker,
                   transport, session, sent, undisturbed, spoiled, reported>>

\* stopRuntimeStandupTrace: only a running session is stopped.  The worker may
\* wake between the two stores.
StopsRecording ==
    /\ control = "rest" /\ active
    /\ active' = FALSE
    /\ control' = "mark end"
    /\ UNCHANGED <<start_pending, end_pending, indices, worker, transport, history>>

MarksEnd ==
    /\ control = "mark end"
    /\ end_pending' = TRUE
    /\ control' = "rest"
    /\ UNCHANGED <<active, start_pending, indices, worker, transport, history>>

SettingUp == control \in {"reset tail", "arm"}

-----------------------------------------------------------------------------
(* traceWorker: one action per look at what it shares with the control task *)

\* Looking disturbs a session that is being set up.
Worker(next) ==
    /\ worker' = next
    /\ undisturbed' = (undisturbed /\ ~SettingUp)
    /\ UNCHANGED <<control, active, tx_dropped, baseline, session, kept, spoiled>>

GoesTo(at) == Worker([worker EXCEPT !.at = at]) /\ UNCHANGED reported

Looks == UNCHANGED <<start_pending, end_pending, indices, waiting, sent>>

\* sendFrame, up to the call of the transport.  The difference of the two counts
\* is exact unless the transport drops 2^32 bytes within one session.
Sends(kind, records) ==
    /\ Worker([worker EXCEPT !.at = "send",
               !.frame = [kind |-> kind, seq |-> frame_seq, records |-> records,
                          dropped |-> dropped, lost |-> tx_dropped - baseline]])
    /\ reported' = spoiled

\* While a session is active the worker only sleeps.
Wake ==
    /\ worker.at = "idle" /\ ~active
    /\ GoesTo("start") /\ Looks

LookForStart ==
    /\ worker.at = "start"
    /\ IF start_pending THEN Sends("start", <<>>) ELSE GoesTo("tail")
    /\ Looks

LoadTail ==
    /\ worker.at = "tail"
    /\ IF start_pending THEN GoesTo("end")
       ELSE Worker([worker EXCEPT !.at = "head", !.tail = tail]) /\ UNCHANGED reported
    /\ Looks

Batch(from, count) == [i \in 1 .. count |-> ring[(from + i - 1) % RingRecords]]

LoadHead ==
    /\ worker.at = "head"
    /\ LET available == Ahead(head, worker.tail)
       IN  IF available = 0 THEN GoesTo("end")
           ELSE Sends("data", Batch(worker.tail, Min({available, FrameRecords})))
    /\ Looks

\* Faulty: the end frame is due as soon as the session has stopped.
HastyLoadEnds ==
    /\ worker.at = "end"
    /\ GoesTo("flags") /\ Looks

LoadEnds ==
    /\ worker.at = "end"
    /\ GoesTo(IF tail = head THEN "flags" ELSE "idle") /\ Looks

LookForEnd ==
    /\ worker.at = "flags"
    /\ IF end_pending /\ ~start_pending THEN Sends("end", <<>>) ELSE GoesTo("idle")
    /\ Looks

AfterFrame == [start |-> "tail", data |-> "end", end |-> "idle"]

\* traceWriteBlocking: no subscriber, no connection, or the queue stays full.
Refused ==
    /\ worker.at = "send"
    /\ GoesTo(AfterFrame[worker.frame.kind]) /\ Looks

Accepted ==
    /\ worker.at = "send"
    /\ Len(sent) < MaxFrames
    /\ GoesTo("count")
    /\ sent' = Append(sent, IF undisturbed THEN worker.frame ELSE NoFrame)
    /\ waiting' = TRUE
    /\ UNCHANGED <<start_pending, end_pending, indices>>

Count ==
    /\ worker.at = "count"
    /\ GoesTo("mark")
    /\ frame_seq' = frame_seq + 1
    /\ UNCHANGED <<start_pending, end_pending, head, tail, ring, sample_seq, dropped,
                   waiting, sent>>

\* Faulty: what has been sent stays in the ring.
UnsettledMark ==
    /\ worker.at = "mark"
    /\ GoesTo(AfterFrame[worker.frame.kind])
    /\ start_pending' = (start_pending /\ worker.frame.kind # "start")
    /\ end_pending' = (end_pending /\ worker.frame.kind # "end")
    /\ UNCHANGED <<indices, waiting, sent>>

\* What an accepted frame settles, from the worker's own copy of the tail.
Mark ==
    /\ worker.at = "mark"
    /\ GoesTo(AfterFrame[worker.frame.kind])
    /\ start_pending' = (start_pending /\ worker.frame.kind # "start")
    /\ end_pending' = (end_pending /\ worker.frame.kind # "end")
    /\ tail' = IF worker.frame.kind = "data"
               THEN (worker.tail + Len(worker.frame.records)) % IndexModulus ELSE tail
    /\ UNCHANGED <<head, ring, sample_seq, frame_seq, dropped, waiting, sent>>

TraceWorker ==
    \/ Wake \/ LookForStart \/ LoadTail \/ LoadHead \/ LoadEnds \/ LookForEnd
    \/ Refused \/ Accepted \/ Count \/ Mark

-----------------------------------------------------------------------------
(* traceTxTask (triwhirl_ble/ble_transport.cpp), as far as the trace sees it *)

\* Nobody is connected and subscribed any more: a frame, or what is left of it,
\* is dropped.  It may be a frame of an earlier session.  That a frame has gone
\* out is nothing the trace sees, so it may be there for as long as it likes.
TransportDrops ==
    /\ waiting /\ tx_dropped < MaxDrops
    /\ tx_dropped' = tx_dropped + 1
    /\ spoiled' = TRUE
    /\ UNCHANGED <<control, active, start_pending, end_pending, indices, worker, waiting,
                   baseline, session, kept, sent, undisturbed, reported>>

-----------------------------------------------------------------------------
Next ==
    \/ StartResetsHead \/ StartResetsTail \/ StartArms
    \/ Record \/ StopsRecording \/ MarksEnd
    \/ TraceWorker
    \/ TransportDrops

Spec == Init /\ [][Next]_vars

\* The worker runs, and a transport that is tried again and again accepts in the
\* end; the control task owes nothing but to end the calls it began.
WorkerRuns ==
    /\ WF_vars(TraceWorker) /\ SF_vars(Accepted)
    /\ WF_vars(StartResetsTail \/ StartArms \/ MarksEnd)

-----------------------------------------------------------------------------
TraceRecords == [session : 0 .. MaxSessions, seq : 0 .. MaxSamples]

TypeOK ==
    /\ control \in {"rest", "reset tail", "arm", "mark end"}
    /\ {active, start_pending, end_pending} \subseteq BOOLEAN
    /\ {head, tail} \subseteq 0 .. IndexModulus - 1
    /\ \A i \in DOMAIN ring : ring[i] \in TraceRecords
    /\ sample_seq \in 0 .. MaxSamples /\ dropped \in 0 .. sample_seq
    /\ frame_seq \in 0 .. 2 * MaxFrames + 1
    /\ tx_dropped \in 0 .. MaxDrops /\ baseline \in 0 .. tx_dropped
    /\ worker.at \in {"idle", "start", "tail", "head", "end", "flags", "send", "count", "mark"}

Sent == FrameRecordsOf(sent)
Ended == sent # <<>> /\ Last(sent).kind = "end"

\* The frames of a session that was set up while the worker rested: numbered from
\* zero without a gap, begun by the start frame, ended by the end frame only,
\* holding the session's own records in order, none twice and none left out; the
\* end frame says whether the ring overflowed.
TraceIsExact ==
    undisturbed /\ ~SettingUp =>
        /\ \A i \in DOMAIN sent :
              /\ sent[i].seq = i - 1
              /\ sent[i].kind = "start" <=> i = 1
              /\ sent[i].kind = "end" => i = Len(sent)
        /\ IsPrefix(Sent, kept)
        /\ Ended => Sent = kept /\ (Last(sent).dropped > 0 <=> Len(kept) < sample_seq)

\* What the host hears: some frames arrive, some of them cut short, and the
\* others are lost on the way.
Arrivals == UNION {Ascending(n, DOMAIN sent) : n \in 0 .. Len(sent)}
Heard(arrived, cut) ==
    [i \in DOMAIN arrived |-> [frame |-> sent[arrived[i]], whole |-> arrived[i] \notin cut]]

\* Whatever became of the frames of such a session on their way, a trace that the
\* host calls lossless holds every record of it and nothing else.  It is called so
\* exactly if nothing was lost in the ring or on the way, and if the transport had
\* dropped nothing since the session was set up when the end frame was made: a
\* frame of an earlier session that it drops late has a whole trace refused.
LosslessIsComplete ==
    undisturbed /\ ~SettingUp =>
        \A arrived \in Arrivals, cut \in SUBSET DOMAIN sent :
           LET heard == Heard(arrived, cut)
               whole == /\ Ended /\ Len(kept) = sample_seq
                        /\ Len(arrived) = Len(sent) /\ cut = {}
                        /\ ~reported
           IN  /\ Lossless(heard) <=> whole
               /\ Lossless(heard) => EndSeen(heard) /\ FrameRecordsOf(Frames(heard)) = kept

\* TraceIsExact and LosslessIsComplete, in well-formed states.
TraceInv == TypeOK /\ TraceIsExact /\ LosslessIsComplete

\* Such a session's trace is delivered to its end once the session has stopped,
\* unless the next one begins before.
TraceIsDelivered ==
    WorkerRuns =>
        \A n \in 1 .. MaxSessions :
            (session = n /\ undisturbed /\ end_pending) ~> (session # n \/ ~end_pending)

\* runtime_trace.cpp:131-132 "Critical invariant: while the motor/controller is
\* active this worker does not touch BLE at all."
QuietWhileActive == active => worker.at # "send"
=============================================================================
