------------------------------ MODULE TraceHost ------------------------------
(***************************************************************************)
(* The host's side of the standup trace                                    *)
(* (tools/triwhirl_tool/standup_trace.py): what it reads out of the bytes  *)
(* it heard, and when it calls a trace lossless.  A piece of what it heard *)
(* is a frame and whether all of its bytes arrived; what a cut frame       *)
(* leaves fails its length or its checksum and is skipped.  Times and the  *)
(* firmware's identity are left out, and with them the checks of the gaps  *)
(* between two records' times (dt_clamped, zero_dt), for which save_trace  *)
(* refuses a trace too.                                                    *)
(***************************************************************************)
EXTENDS Naturals, Sequences, SequencesExt, FiniteSetsExt

CONSTANT SequenceModulus   \* 2^32: frame_seq and sample_seq

\* The ascending sequences of n members of S.
Ascending(n, S) == {a \in [1 .. n -> S] : \A i \in 2 .. n : a[i - 1] < a[i]}

\* The frames parse_trace finds, and the records in them.
Frames(heard) ==
    LET whole == {i \in DOMAIN heard : heard[i].whole}
        place == CHOOSE a \in Ascending(Cardinality(whole), whole) : TRUE
    IN  [i \in DOMAIN place |-> heard[place[i]].frame]

FrameRecordsOf(frames) == FlattenSeq([i \in DOMAIN frames |-> frames[i].records])

\* expected_frame_seq, expected_sample_seq: each number is the one after the last.
Follow(numbered) ==
    \A i \in 2 .. Len(numbered) :
       numbered[i].seq = (numbered[i - 1].seq + 1) % SequenceModulus

\* trace_end_seen: how long the host listens.
EndSeen(heard) == \E i \in DOMAIN heard : heard[i].whole /\ heard[i].frame.kind = "end"

\* What parse_trace counts.  Bytes that were skipped or are left over, and frames
\* with a wrong checksum, are the traces of a frame that was cut.
Parse(heard) ==
    LET frames == Frames(heard)
        Seen(kind) == \E i \in DOMAIN frames : frames[i].kind = kind
    IN  [start_seen |-> Seen("start"),
         end_seen |-> Seen("end"),
         damaged |-> \E i \in DOMAIN heard : ~heard[i].whole,
         frame_sequence_errors |-> ~Follow(frames),
         sample_sequence_errors |-> ~Follow(FrameRecordsOf(frames)),
         dropped_records |-> \E i \in DOMAIN frames : frames[i].dropped > 0,
         transport_dropped |-> \E i \in DOMAIN frames : frames[i].lost > 0]

\* save_trace
Lossless(heard) ==
    LET parsed == Parse(heard)
    IN  /\ parsed.start_seen /\ parsed.end_seen
        /\ ~parsed.damaged
        /\ ~parsed.frame_sequence_errors /\ ~parsed.sample_sequence_errors
        /\ ~parsed.dropped_records /\ ~parsed.transport_dropped
=============================================================================
