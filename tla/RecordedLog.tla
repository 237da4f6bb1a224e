---------------------------- MODULE RecordedLog ----------------------------
(***************************************************************************)
(* What the runtime logger promises (docs/logging/twlog-v1.md): a run is   *)
(* the sequence of the records it accepted, and what is published when it  *)
(* is complete is that sequence, frozen until the next run begins.         *)
(***************************************************************************)
EXTENDS Sequences

CONSTANTS
    Records,      \* what can be recorded
    Unpublished   \* stands for: there is no complete log

VARIABLES
    log,          \* the records of the current run
    published     \* the log that can be downloaded

RecordedLogVars == <<log, published>>

Init ==
    /\ log = <<>>
    /\ published = Unpublished

BeginRun ==
    /\ log' = <<>>
    /\ published' = Unpublished

AcceptRecord ==
    /\ published = Unpublished
    /\ \E r \in Records : log' = Append(log, r)
    /\ UNCHANGED published

Publish ==
    /\ published = Unpublished
    /\ published' = log
    /\ UNCHANGED log

Next == BeginRun \/ AcceptRecord \/ Publish

Spec == Init /\ [][Next]_RecordedLogVars
=============================================================================
