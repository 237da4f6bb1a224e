------------------------------ MODULE LogDump ------------------------------
(***************************************************************************)
(* The download of a TWLG log: `log dump` (main/runtime_main.cpp) starts a *)
(* task (logDumpTask, main/runtime_state.cpp) that reads the completed log *)
(* back and streams it over BLE, while the control task goes on taking log *)
(* commands.  A chunk is the header or one record.                         *)
(***************************************************************************)
EXTENDS RuntimeLogger

VARIABLE
    dump              \* the dump task, and what its host has received

dumpVars == <<vars, dump>>

NoDump == [at |-> "none", size |-> 0, sent |-> <<>>, ended |-> FALSE,
           since |-> 0]

DumpInit == Init /\ dump = NoDump

\* `log dump`; `since` is history: the run it was asked to send.
DumpCommand ==
    /\ dump.at = "none"
    /\ call = NoCall
    /\ state = "complete"
    /\ dump' = [NoDump EXCEPT !.at = "open", !.since = run]
    /\ UNCHANGED vars

\* logicalSize, in chunks
LogicalSize == IF state = "complete" THEN 1 + written ELSE 0

Open ==
    /\ dump.at = "open"
    /\ dump' = [dump EXCEPT !.at = "check", !.size = LogicalSize]
    /\ UNCHANGED vars

Remaining == Len(dump.sent) < dump.size

\* Faulty: a log that cannot be read now is waited for.
PatientCheckChunk ==
    /\ dump.at = "check" /\ Remaining
    /\ Len(dump.sent) < LogicalSize
    /\ dump' = [dump EXCEPT !.at = "read"]
    /\ UNCHANGED vars

\* readLogical's test ...
CheckChunk ==
    /\ dump.at = "check" /\ Remaining
    /\ dump' = [dump EXCEPT !.at = IF Len(dump.sent) < LogicalSize THEN "read" ELSE "none"]
    /\ UNCHANGED vars

\* Faulty: the payload is addressed as if it followed the header in flash.
UnalignedChunk(i) == IF i = 0 THEN header
                     ELSE IF i \in Cells /\ i > 1 THEN payload[i - 1] ELSE Torn

Chunk(i) == IF i = 0 THEN header ELSE payload[i]

\* ... and its read.  The chunk is sent, or BLE times out.
ReadChunk ==
    /\ dump.at = "read"
    /\ dump' \in {[dump EXCEPT !.at = "check", !.sent = Append(@, Chunk(Len(@)))],
                  [dump EXCEPT !.at = "none"]}
    /\ UNCHANGED vars

\* The end marker is written, or that times out; the dump is over either way.
EndDump ==
    /\ dump.at = "check" /\ ~Remaining
    /\ \E ended \in BOOLEAN : dump' = [dump EXCEPT !.at = "none", !.ended = ended]
    /\ UNCHANGED vars

DumpTask == Open \/ CheckChunk \/ ReadChunk \/ EndDump

DumpNext ==
    \/ (Control \/ Worker) /\ UNCHANGED dump
    \/ DumpCommand
    \/ DumpTask
    \/ Restart /\ dump' = NoDump

DumpSpec == DumpInit /\ [][DumpNext]_dumpVars

\* writeBlocking has a timeout, so the task comes to the end of every step.
\* The logger's fairness is LiveSpec's.
DumpLiveSpec ==
    /\ DumpSpec
    /\ WF_dumpVars(DumpTask)
    /\ WF_dumpVars(Worker /\ UNCHANGED dump)
    /\ WF_dumpVars((RecordSends \/ StopEnds) /\ UNCHANGED dump)

-----------------------------------------------------------------------------
\* The dump the host has seen the end of, as it decodes it (twlog.py
\* decode_bytes): of the announced length, and matching the header's CRC.
HostAccepts ==
    /\ dump.ended
    /\ dump.sent # <<>>
    /\ dump.sent[1].complete
    /\ Len(dump.sent) = 1 + dump.sent[1].count
    /\ dump.sent[1].crc = Tail(dump.sent)

\* Whatever was erased or recorded while it was being sent, a dump the host
\* accepts holds the records of one run, from its first on, with no gap.
AcceptedDumpIsOneRun ==
    HostAccepts =>
       \E r \in 1 .. MaxRuns : Tail(dump.sent) = [i \in 1 .. dump.size - 1 |-> <<r, i>>]

\* A dump that reaches its end while the log is left alone is accepted.
UndisturbedDumpIsAccepted == dump.ended /\ run = dump.since => HostAccepts

\* Every erase and stop of the logger and every dump comes to an end, whatever
\* critical window opens or log is started meanwhile.
FlashWorkConcludes == WorkerConcludes /\ (dump.at # "none" ~> dump.at = "none")
=============================================================================
