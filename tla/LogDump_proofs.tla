--------------------------- MODULE LogDump_proofs ---------------------------
(***************************************************************************)
(* A log that says it is complete holds what was recorded, the logger      *)
(* implements RecordedLog, and a dump the host accepts is one run's, for   *)
(* buffers, partitions and batches of every size.                          *)
(*                                                                         *)
(* What was accepted is what was written, then what a failed batch lost,   *)
(* then what waits in the stream.  Nothing was lost in any state that can  *)
(* still be finalised as complete, because a loss leaves the count of      *)
(* written records behind for good.                                        *)
(***************************************************************************)
EXTENDS LogDump, SequenceTheorems, TLAPS

Words == Records \cup {Erased, Torn}

\* The sequences, and how their lengths stand to each other.
SizeInv ==
    /\ max \in 0 .. PartitionRecords
    /\ written \in Nat
    /\ accepted \in Seq(Records) /\ stream \in Seq(Records) /\ crc \in Seq(Records)
    /\ written + Len(stream) <= Len(accepted)
    /\ Len(accepted) <= max
    /\ Len(stream) <= RamRecords
    /\ Len(crc) = written

\* The rest of the state: the counters and the flags.
FieldInv ==
    /\ dropped \in 0 .. MaxDropped
    /\ flashAllowed \in BOOLEAN /\ hold \in BOOLEAN
    /\ counts \in [pump : 0 .. PumpEvery - 1, probe : 0 .. ProbeEvery - 1]
    /\ payload \in [Cells -> Words]
    /\ run \in 0 .. MaxRuns

\* Where the control task can be in each state of the log.
CallInv ==
    /\ state \in {"idle", "erasing", "ready", "recording", "stopping", "complete", "error"}
    /\ call \in [in : {"none", "record", "stop"}, kind : {"plain", "pump", "probe"}]
    /\ call.in = "none" => call = NoCall
    /\ call.in = "record" => state \in {"recording", "error"} /\ dropped < MaxDropped
    /\ call.in = "stop" => state \in {"ready", "recording", "error"}
    /\ state \in {"idle", "erasing", "ready"} => accepted = <<>>
    /\ state # "idle" => run \in 1 .. MaxRuns

\* What the worker decided to do is still to be done.
JobInv ==
    /\ job \in [do : {"look", "erase", "write", "finalize"}, n : 0 .. Batch]
    /\ job.do = "look" => job = NoJob
    /\ job.do = "erase" => state = "erasing"
    /\ job.do = "write" => state \in {"recording", "stopping"} /\ job.n \in 1 .. Len(stream)
    /\ job.do = "finalize" => state = "stopping" /\ stream = <<>>

NothingLost == written + Len(stream) = Len(accepted)

\* The records are those of this run, in their order, and the stream is the end
\* of them.
RecordInv ==
    /\ \A i \in 1 .. Len(accepted) : accepted[i] = <<run, i>>
    /\ \A i \in 1 .. Len(stream) : stream[i] = <<run, Len(accepted) - Len(stream) + i>>

\* As long as nothing was lost the flash follows the stream, in a partition that
\* is erased beyond.  An error the control task can still make a stop of has
\* cost a batch.
FlashInv ==
    /\ state = "error" /\ call # NoCall => ~NothingLost
    /\ state \in {"ready", "recording", "stopping", "complete"} /\ NothingLost =>
          /\ \A i \in 1 .. written : payload[i] = <<run, i>> /\ crc[i] = <<run, i>>
          /\ \A i \in written + 1 .. max : payload[i] = Erased

\* The headers the partition can hold: a complete one covers a run from its start.
Headers == [count : 0 .. PartitionRecords, dropped : 0 .. MaxDropped,
            crc : Seq(Records), complete : BOOLEAN]

RunRecords(r, n) == [i \in 1 .. n |-> <<r, i>>]

GoodHeader(h) ==
    /\ h \in Headers
    /\ h.complete => \E r \in 1 .. MaxRuns : h.crc = RunRecords(r, h.count)

HeaderInv ==
    /\ GoodHeader(header)
    /\ state = "complete" =>
          /\ written = Len(accepted)
          /\ header = [count |-> written, dropped |-> dropped, crc |-> crc, complete |-> TRUE]

LoggerInv ==
    SizeInv /\ FieldInv /\ CallInv /\ JobInv /\ RecordInv /\ FlashInv /\ HeaderInv

\* What was sent is a prefix of what was announced, behind a header that was read
\* whole; and while the run it was started for is the current one, it is a
\* prefix of that log.
Chunks == Headers \cup Words

Dumps == [at : {"none", "open", "check", "read"}, size : 0 .. PartitionRecords + 1,
          sent : Seq(Chunks), ended : BOOLEAN, since : 0 .. MaxRuns]

DumpInv ==
    /\ dump \in Dumps
    /\ Len(dump.sent) <= dump.size
    /\ dump.at = "open" => dump.sent = <<>>
    /\ dump.at = "read" => Len(dump.sent) < dump.size
    /\ dump.ended => dump.at = "none" /\ Len(dump.sent) = dump.size
    /\ dump.sent # <<>> => GoodHeader(dump.sent[1])
    /\ dump.at # "none" \/ dump.ended => dump.since <= run

FreshInv ==
    (dump.at # "none" \/ dump.ended) /\ dump.since = run =>
        /\ state = "complete"
        /\ dump.at # "open" => dump.size = written + 1
        /\ \A i \in 1 .. Len(dump.sent) : dump.sent[i] = Chunk(i - 1)

Inv == LoggerInv /\ DumpInv /\ FreshInv

-----------------------------------------------------------------------------
(* Sequences and batches *)

LEMMA NoRecords == <<>> \in Seq(Records) /\ Len(<<>>) = 0
BY EmptySeq

\* A log of the bounded set is a sequence of records that is no longer than the
\* partition.
LEMMA LogsAreSequences ==
    ASSUME NEW s \in Seq(Records), Len(s) <= PartitionRecords
    PROVE  s \in Logs
<1>1. PartitionRecords \in Nat BY LoggerAssumption
<1>2. Len(s) \in Nat /\ s \in [1 .. Len(s) -> Records] BY LenProperties
<1>3. Len(s) \in 0 .. PartitionRecords BY <1>1, <1>2
<1> QED BY <1>2, <1>3 DEF Logs

\* A batch is what the worker takes off the front of the stream.
LEMMA BatchFacts ==
    ASSUME NEW s \in Seq(Records), NEW n \in 1 .. Len(s)
    PROVE  /\ SubSeq(s, 1, n) \in Seq(Records)
           /\ Len(SubSeq(s, 1, n)) = n
           /\ \A i \in 1 .. n : SubSeq(s, 1, n)[i] = s[i]
           /\ SubSeq(s, n + 1, Len(s)) \in Seq(Records)
           /\ Len(SubSeq(s, n + 1, Len(s))) = Len(s) - n
           /\ \A i \in 1 .. Len(s) - n : SubSeq(s, n + 1, Len(s))[i] = s[n + i]
<1>1. Len(s) \in Nat BY LenProperties
<1>2. \A i \in 1 .. Len(s) : s[i] \in Records BY ElementOfSeq
<1>3. \A i \in 1 .. n : s[i] \in Records BY <1>1, <1>2
<1>4. \A i \in n + 1 .. Len(s) : s[i] \in Records BY <1>1, <1>2
<1>5. /\ SubSeq(s, 1, n) \in Seq(Records)
      /\ Len(SubSeq(s, 1, n)) = IF 1 <= n THEN n - 1 + 1 ELSE 0
      /\ \A i \in 1 .. n - 1 + 1 : SubSeq(s, 1, n)[i] = s[1 + i - 1]
  BY <1>1, <1>3, SubSeqProperties
<1>6. /\ SubSeq(s, n + 1, Len(s)) \in Seq(Records)
      /\ Len(SubSeq(s, n + 1, Len(s))) = IF n + 1 <= Len(s) THEN Len(s) - (n + 1) + 1 ELSE 0
      /\ \A i \in 1 .. Len(s) - (n + 1) + 1 : SubSeq(s, n + 1, Len(s))[i] = s[(n + 1) + i - 1]
  BY <1>1, <1>4, SubSeqProperties
<1>7. n \in Nat /\ n - 1 + 1 = n /\ Len(s) - (n + 1) + 1 = Len(s) - n BY <1>1
<1>8. \A i \in 1 .. n : 1 + i - 1 = i BY <1>7
<1>9. \A i \in 1 .. Len(s) - n : (n + 1) + i - 1 = n + i BY <1>1, <1>7
<1>10. Len(SubSeq(s, 1, n)) = n BY <1>5, <1>7
<1>11. \A i \in 1 .. n : SubSeq(s, 1, n)[i] = s[i] BY <1>5, <1>7, <1>8
<1>12. Len(SubSeq(s, n + 1, Len(s))) = Len(s) - n
  <2>1. CASE n + 1 <= Len(s) BY <2>1, <1>6, <1>7
  <2>2. CASE ~(n + 1 <= Len(s))
    <3>1. Len(s) - n = 0 BY <2>2, <1>1
    <3> QED BY <2>2, <3>1, <1>6
  <2> QED BY <2>1, <2>2
<1>13. \A i \in 1 .. Len(s) - n : SubSeq(s, n + 1, Len(s))[i] = s[n + i] BY <1>6, <1>7, <1>9
<1> QED BY <1>5, <1>6, <1>10, <1>11, <1>12, <1>13

\* The size of the batch the worker decides on.
LEMMA BatchSize ==
    ASSUME NEW n \in Nat, n # 0
    PROVE  Min({n, Batch}) \in 1 .. n /\ Min({n, Batch}) \in 0 .. Batch
<1>1. Batch \in Nat /\ Batch # 0 BY LoggerAssumption
<1>2. \E m \in {n, Batch} : \A k \in {n, Batch} : m =< k BY <1>1
<1>3. Min({n, Batch}) \in {n, Batch} /\ \A k \in {n, Batch} : Min({n, Batch}) =< k
  BY <1>2 DEF Min
<1> QED BY <1>1, <1>3

-----------------------------------------------------------------------------
(* The logger's invariant *)

LEMMA LoggerInit == Init => LoggerInv
<1> SUFFICES ASSUME Init PROVE LoggerInv OBVIOUS
<1> USE LoggerAssumption DEF Init, Booted
<1>1. SizeInv BY NoRecords DEF SizeInv
<1>2. FieldInv
  <2>1. payload \in [Cells -> Words] BY DEF Words
  <2>2. counts \in [pump : 0 .. PumpEvery - 1, probe : 0 .. ProbeEvery - 1] OBVIOUS
  <2>3. dropped \in 0 .. MaxDropped /\ run \in 0 .. MaxRuns OBVIOUS
  <2>4. flashAllowed \in BOOLEAN /\ hold \in BOOLEAN OBVIOUS
  <2> QED BY <2>1, <2>2, <2>3, <2>4, Zenon DEF FieldInv
<1>3. CallInv BY DEF CallInv, NoCall
<1>4. JobInv BY DEF JobInv, NoJob
<1>5. RecordInv BY NoRecords DEF RecordInv
<1>6. FlashInv BY DEF FlashInv
<1>7. HeaderInv
  <2>1. Blank \in Headers BY NoRecords DEF Blank, Headers
  <2> QED BY <2>1 DEF HeaderInv, GoodHeader, Blank
<1> QED BY <1>1, <1>2, <1>3, <1>4, <1>5, <1>6, <1>7 DEF LoggerInv

LEMMA SizeStep == LoggerInv /\ [Next]_vars => SizeInv'
<1> SUFFICES ASSUME LoggerInv, [Next]_vars PROVE SizeInv' OBVIOUS
<1>a. SizeInv /\ CallInv /\ JobInv /\ FieldInv BY DEF LoggerInv
<1>b. /\ Len(accepted) \in Nat /\ Len(stream) \in Nat /\ Len(crc) \in Nat
      /\ PartitionRecords \in Nat /\ RamRecords \in Nat /\ max \in Nat
  BY <1>a, LenProperties, LoggerAssumption DEF SizeInv
<1>1. CASE Prepare
  BY <1>1, <1>a, <1>b, NoRecords DEF SizeInv, Prepare, EmptyRun, Cells
<1>2. CASE Start
  BY <1>2, <1>a, <1>b, NoRecords DEF SizeInv, Start, EmptyRun
<1>3. CASE Restart
  BY <1>3, <1>a, <1>b, NoRecords DEF SizeInv, Restart, EmptyRun
<1>4. CASE RecordSends
  <2>1. CASE HasRoom
    <3> DEFINE r == <<run, Len(accepted) + 1>>
    <3>1. Len(accepted) < max /\ Len(stream) < RamRecords BY <2>1 DEF HasRoom
    <3>2. run \in 1 .. MaxRuns BY <1>4, <1>a DEF RecordSends, CallInv
    <3>3. Len(accepted) + 1 \in 1 .. PartitionRecords BY <3>1, <1>a, <1>b DEF SizeInv
    <3>4. r \in Records BY <3>2, <3>3 DEF Records
    <3>5. stream' = Append(stream, r) /\ accepted' = Append(accepted, r)
      BY <1>4, <2>1 DEF RecordSends
    <3>6. UNCHANGED <<max, written, crc>> BY <1>4 DEF RecordSends
    <3>7. accepted' \in Seq(Records) /\ Len(accepted') = Len(accepted) + 1
      BY <3>4, <3>5, <1>a, AppendProperties DEF SizeInv
    <3>8. stream' \in Seq(Records) /\ Len(stream') = Len(stream) + 1
      BY <3>4, <3>5, <1>a, AppendProperties DEF SizeInv
    <3> HIDE DEF r
    <3> QED BY <3>1, <3>6, <3>7, <3>8, <1>a, <1>b DEF SizeInv
  <2>2. CASE ~HasRoom BY <1>4, <2>2, <1>a DEF RecordSends, SizeInv
  <2> QED BY <2>1, <2>2
<1>5. CASE Write
  <2>1. job.n \in 1 .. Len(stream) BY <1>5, <1>a DEF Write, JobInv
  <2> DEFINE batch == SubSeq(stream, 1, job.n)
             rest == SubSeq(stream, job.n + 1, Len(stream))
  <2>2. /\ batch \in Seq(Records) /\ Len(batch) = job.n
        /\ rest \in Seq(Records) /\ Len(rest) = Len(stream) - job.n
    BY <2>1, <1>a, BatchFacts DEF SizeInv
  <2>3. stream' = rest /\ UNCHANGED <<max, accepted>> BY <1>5 DEF Write, control
  <2>4. \/ crc' = crc \o batch /\ written' = written + job.n
        \/ UNCHANGED <<crc, written>>
    BY <1>5 DEF Write
  <2>5. crc \o batch \in Seq(Records) /\ Len(crc \o batch) = Len(crc) + Len(batch)
    BY <2>2, <1>a, ConcatProperties DEF SizeInv
  <2> HIDE DEF batch, rest
  <2>6. CASE crc' = crc \o batch /\ written' = written + job.n
    BY <2>6, <2>1, <2>2, <2>3, <2>5, <1>a, <1>b DEF SizeInv
  <2>7. CASE UNCHANGED <<crc, written>>
    BY <2>7, <2>1, <2>2, <2>3, <1>a, <1>b DEF SizeInv
  <2> QED BY <2>4, <2>6, <2>7
<1>6. ASSUME \/ RecordBegins \/ SetFlashWritesAllowed \/ StopBegins \/ StopEnds
             \/ LookErase \/ LookWrite \/ LookFinalize \/ Erase \/ Finalize
             \/ UNCHANGED vars
      PROVE  UNCHANGED <<max, written, accepted, stream, crc>>
  BY <1>6 DEF RecordBegins, SetFlashWritesAllowed, StopBegins, StopEnds, LookErase, LookWrite,
              LookFinalize, Decide, Erase, Finalize, control, vars
<1>7. ASSUME UNCHANGED <<max, written, accepted, stream, crc>> PROVE SizeInv'
  BY <1>7, <1>a DEF SizeInv
<1> QED BY <1>1, <1>2, <1>3, <1>4, <1>5, <1>6, <1>7 DEF Next, Control, Worker

LEMMA CountedFacts ==
    ASSUME NEW kind \in Kinds,
           counts \in [pump : 0 .. PumpEvery - 1, probe : 0 .. ProbeEvery - 1]
    PROVE  Counted(kind) \in [pump : 0 .. PumpEvery - 1, probe : 0 .. ProbeEvery - 1]
<1>1. PumpEvery \in Nat \ {0} /\ ProbeEvery \in Nat \ {0} BY LoggerAssumption
<1>2. counts.pump \in Nat /\ counts.probe \in Nat BY <1>1
<1>3. (counts.pump + 1) % PumpEvery \in 0 .. PumpEvery - 1 BY <1>1, <1>2
<1>4. (counts.probe + 1) % ProbeEvery \in 0 .. ProbeEvery - 1 BY <1>1, <1>2
<1>5. 0 \in 0 .. PumpEvery - 1 /\ 0 \in 0 .. ProbeEvery - 1 BY <1>1
<1> QED BY <1>3, <1>4, <1>5 DEF Counted

\* What programming leaves in a cell.
LEMMA ProgrammedFacts ==
    ASSUME NEW batch \in Seq(Records), NEW ok \in BOOLEAN, written \in Nat,
           payload \in [Cells -> Words]
    PROVE  Programmed(batch, ok) \in [Cells -> Words]
<1> SUFFICES ASSUME NEW i \in Cells
             PROVE  (IF i - written \notin DOMAIN batch THEN payload[i]
                     ELSE IF ok /\ payload[i] = Erased THEN batch[i - written] ELSE Torn)
                    \in Words
  BY DEF Programmed
<1>1. payload[i] \in Words OBVIOUS
<1>2. Torn \in Words BY DEF Words
<1>3. ASSUME i - written \in DOMAIN batch PROVE batch[i - written] \in Words
  BY <1>3, LenProperties, ElementOfSeq DEF Words
<1> QED BY <1>1, <1>2, <1>3

LEMMA FieldStep == LoggerInv /\ [Next]_vars => FieldInv'
<1> SUFFICES ASSUME LoggerInv, [Next]_vars PROVE FieldInv' OBVIOUS
<1>a. SizeInv /\ CallInv /\ JobInv /\ FieldInv BY DEF LoggerInv
<1>b. MaxDropped \in Nat /\ MaxRuns \in Nat /\ dropped \in Nat /\ run \in Nat
  BY <1>a, LoggerAssumption DEF FieldInv
<1>d. dropped' \in 0 .. MaxDropped
  <2>1. CASE RecordSends
    <3>1. dropped < MaxDropped BY <2>1, <1>a DEF RecordSends, CallInv
    <3>2. dropped' = dropped \/ dropped' = dropped + 1 BY <2>1 DEF RecordSends
    <3> QED BY <3>1, <3>2, <1>b
  <2>2. CASE Prepare \/ Start \/ Restart
    BY <2>2, <1>b DEF Prepare, Start, Restart, EmptyRun
  <2>3. ASSUME \/ RecordBegins \/ SetFlashWritesAllowed \/ StopBegins \/ StopEnds \/ Worker
               \/ UNCHANGED vars
        PROVE  dropped' = dropped
    BY <2>3 DEF RecordBegins, SetFlashWritesAllowed, StopBegins, StopEnds, Worker, LookErase,
                LookWrite, LookFinalize, Decide, Erase, Write, Finalize, control, vars
  <2> QED BY <2>1, <2>2, <2>3, <1>a DEF Next, Control, FieldInv
<1>f. flashAllowed' \in BOOLEAN /\ hold' \in BOOLEAN
  <2>1. ASSUME \/ Prepare \/ Start \/ Restart \/ StopEnds
        PROVE  (flashAllowed' = TRUE) /\ (hold' = FALSE)
    BY <2>1 DEF Prepare, Start, Restart, EmptyRun, StopEnds
  <2>2. CASE RecordBegins BY <2>2, Zenon DEF RecordBegins
  <2>3. CASE SetFlashWritesAllowed
    <3>1. flashAllowed' \in BOOLEAN BY <2>3, Zenon DEF SetFlashWritesAllowed
    <3>2. hold' = hold BY <2>3 DEF SetFlashWritesAllowed
    <3> QED BY <3>1, <3>2, <1>a, Zenon DEF FieldInv
  <2>4. ASSUME RecordSends \/ StopBegins \/ Worker \/ UNCHANGED vars
        PROVE  flashAllowed' = flashAllowed /\ hold' = hold
    BY <2>4 DEF RecordSends, StopBegins, Worker, LookErase,
                LookWrite, LookFinalize, Decide, Erase, Write, Finalize, control, vars
  <2>5. flashAllowed \in BOOLEAN /\ hold \in BOOLEAN BY <1>a DEF FieldInv
  <2> QED BY <2>1, <2>2, <2>3, <2>4, <2>5, Zenon DEF Next, Control
<1>c. counts' \in [pump : 0 .. PumpEvery - 1, probe : 0 .. ProbeEvery - 1]
  <2>0. counts \in [pump : 0 .. PumpEvery - 1, probe : 0 .. ProbeEvery - 1]
    BY <1>a DEF FieldInv
  <2>1. CASE Prepare \/ Start \/ Restart
    <3>1. counts' = [pump |-> 0, probe |-> 0]
      BY <2>1 DEF Prepare, Start, Restart, EmptyRun
    <3>2. 0 \in 0 .. PumpEvery - 1 /\ 0 \in 0 .. ProbeEvery - 1 BY LoggerAssumption
    <3> QED BY <3>1, <3>2
  <2>2. CASE RecordBegins
    <3>1. PICK kind \in Kinds : counts' = Counted(kind) BY <2>2 DEF RecordBegins
    <3> QED BY <3>1, <2>0, CountedFacts
  <2>3. ASSUME \/ SetFlashWritesAllowed \/ RecordSends \/ StopBegins \/ StopEnds \/ Worker
               \/ UNCHANGED vars
        PROVE  counts' = counts
    BY <2>3 DEF SetFlashWritesAllowed, RecordSends, StopBegins, StopEnds, Worker, LookErase,
                LookWrite, LookFinalize, Decide, Erase, Write, Finalize, control, vars
  <2> QED BY <2>0, <2>1, <2>2, <2>3 DEF Next, Control
<1>p. payload' \in [Cells -> Words]
  <2>0. payload \in [Cells -> Words] /\ Erased \in Words /\ Torn \in Words
    BY <1>a DEF FieldInv, Words
  <2>1. CASE Erase
    <3>1. PICK ok \in BOOLEAN :
             payload' = [i \in Cells |-> CASE i > max -> payload[i]
                                           [] i <= max /\ ok -> Erased
                                           [] OTHER -> Torn]
      BY <2>1 DEF Erase
    <3>2. ASSUME NEW i \in Cells
          PROVE  (CASE i > max -> payload[i] [] i <= max /\ ok -> Erased [] OTHER -> Torn)
                 \in Words
      <4>1. i \in Nat /\ max \in Nat BY <1>a, LoggerAssumption DEF Cells, SizeInv
      <4>2. CASE i > max
        <5>1. ~(i <= max) BY <4>1, <4>2
        <5> QED BY <4>2, <5>1, <2>0
      <4>3. CASE ~(i > max) BY <4>3, <2>0
      <4> QED BY <4>2, <4>3
    <3> QED BY <3>1, <3>2
  <2>2. CASE Write
    <3>1. job.n \in 1 .. Len(stream) BY <2>2, <1>a DEF Write, JobInv
    <3>2. SubSeq(stream, 1, job.n) \in Seq(Records) BY <3>1, <1>a, BatchFacts DEF SizeInv
    <3>3. \/ payload' = payload
          \/ \E ok \in BOOLEAN : payload' = Programmed(SubSeq(stream, 1, job.n), ok)
      BY <2>2 DEF Write
    <3>4. written \in Nat BY <1>a DEF SizeInv
    <3> QED BY <3>2, <3>3, <3>4, <2>0, ProgrammedFacts
  <2>3. ASSUME \/ Control \/ Restart \/ LookErase \/ LookWrite \/ LookFinalize \/ Finalize
               \/ UNCHANGED vars
        PROVE  payload' = payload
    BY <2>3 DEF Control, Prepare, Start, RecordBegins, RecordSends, SetFlashWritesAllowed,
                StopBegins, StopEnds, Restart, LookErase, LookWrite, LookFinalize, Decide,
                Finalize, flash, vars
  <2> QED BY <2>0, <2>1, <2>2, <2>3 DEF Next, Worker
<1>r. run' \in 0 .. MaxRuns
  <2>1. CASE Prepare BY <2>1, <1>b DEF Prepare
  <2>2. ASSUME \/ Start \/ RecordBegins \/ SetFlashWritesAllowed \/ RecordSends \/ StopBegins
               \/ StopEnds \/ Worker \/ Restart \/ UNCHANGED vars
        PROVE  run' = run
    BY <2>2 DEF Start, RecordBegins, SetFlashWritesAllowed, RecordSends, StopBegins, StopEnds,
                Worker, LookErase, LookWrite, LookFinalize, Decide, Erase, Write, Finalize,
                Restart, control, vars
  <2> QED BY <2>1, <2>2, <1>a DEF Next, Control, FieldInv
<1> QED BY <1>d, <1>f, <1>c, <1>p, <1>r, Zenon DEF FieldInv

LEMMA CallStep == LoggerInv /\ [Next]_vars => CallInv'
<1> SUFFICES ASSUME LoggerInv, [Next]_vars PROVE CallInv' OBVIOUS
<1>a. SizeInv /\ CallInv /\ JobInv /\ FieldInv BY DEF LoggerInv
<1>b. run \in Nat /\ MaxRuns \in Nat BY <1>a, LoggerAssumption DEF FieldInv
<1>1. CASE Prepare BY <1>1, <1>a, <1>b DEF CallInv, Prepare, EmptyRun, NoCall
<1>2. CASE Start BY <1>2, <1>a DEF CallInv, Start, EmptyRun, NoCall
<1>3. CASE Restart BY <1>3, <1>a DEF CallInv, Restart, EmptyRun, NoCall
<1>4. CASE RecordBegins
  <2>1. PICK kind \in Kinds :
           call' = IF Kept(kind) THEN [in |-> "record", kind |-> kind] ELSE NoCall
    BY <1>4 DEF RecordBegins
  <2>2. kind \in {"plain", "pump", "probe"} BY LoggerAssumption
  <2>3. /\ state = "recording" /\ dropped < MaxDropped
        /\ UNCHANGED <<state, dropped, accepted, run>>
    BY <1>4 DEF RecordBegins
  <2> QED BY <2>1, <2>2, <2>3, <1>a DEF CallInv, NoCall
<1>5. CASE RecordSends
  <2>1. call' = NoCall /\ UNCHANGED <<state, run>> /\ state \in {"recording", "error"}
    BY <1>5, <1>a DEF RecordSends, CallInv
  <2> QED BY <2>1, <1>a DEF CallInv, NoCall
<1>6. CASE SetFlashWritesAllowed BY <1>6, <1>a DEF CallInv, SetFlashWritesAllowed
<1>7. CASE StopBegins BY <1>7, <1>a DEF CallInv, StopBegins, NoCall
<1>8. CASE StopEnds BY <1>8, <1>a DEF CallInv, StopEnds, NoCall
<1>9. CASE LookErase \/ LookWrite \/ LookFinalize
  BY <1>9, <1>a DEF CallInv, LookErase, LookWrite, LookFinalize, Decide, control
<1>10. CASE Erase
  <2>1. state = "erasing" /\ call.in \notin {"record", "stop"} BY <1>10, <1>a DEF Erase, JobInv, CallInv
  <2>2. state' \in {"ready", "error"} /\ UNCHANGED control BY <1>10 DEF Erase
  <2> QED BY <2>1, <2>2, <1>a DEF CallInv, control
<1>11. CASE Write
  <2>1. state \in {"recording", "stopping"} BY <1>11, <1>a DEF Write, JobInv
  <2>2. (state' = state \/ state' = "error") /\ UNCHANGED control BY <1>11 DEF Write
  <2> QED BY <2>1, <2>2, <1>a DEF CallInv, control
<1>12. CASE Finalize
  <2>1. state = "stopping" BY <1>12, <1>a DEF Finalize, JobInv
  <2>2. (state' = "complete" \/ state' = "error") /\ UNCHANGED control BY <1>12 DEF Finalize
  <2> QED BY <2>1, <2>2, <1>a DEF CallInv, control
<1>13. CASE UNCHANGED vars BY <1>13, <1>a DEF CallInv, vars
<1> QED BY <1>1, <1>2, <1>3, <1>4, <1>5, <1>6, <1>7, <1>8, <1>9, <1>10, <1>11, <1>12, <1>13
       DEF Next, Control, Worker

LEMMA JobStep == LoggerInv /\ [Next]_vars => JobInv'
<1> SUFFICES ASSUME LoggerInv, [Next]_vars PROVE JobInv' OBVIOUS
<1>a. SizeInv /\ CallInv /\ JobInv BY DEF LoggerInv
<1>b. Len(stream) \in Nat /\ Batch \in Nat
  BY <1>a, LenProperties, LoggerAssumption DEF SizeInv
<1>n. NoJob \in [do : {"look", "erase", "write", "finalize"}, n : 0 .. Batch] /\ NoJob.do = "look"
  BY <1>b DEF NoJob
<1>1. ASSUME job' = NoJob PROVE JobInv' BY <1>1, <1>n DEF JobInv
<1>2. CASE Prepare
  <2>1. job.do = "look" /\ job' = job BY <1>2, <1>a DEF Prepare, JobInv
  <2> QED BY <2>1, <1>1, <1>a DEF JobInv
<1>3. CASE Start
  <2>1. job.do = "look" /\ job' = job BY <1>3, <1>a DEF Start, JobInv
  <2> QED BY <2>1, <1>1, <1>a DEF JobInv
<1>4. CASE RecordSends
  <2>1. job' = job /\ state' = state BY <1>4 DEF RecordSends
  <2>2. CASE HasRoom
    <3>1. stream' = Append(stream, <<run, Len(accepted) + 1>>) BY <1>4, <2>2 DEF RecordSends
    <3>2. stream \in Seq(Records \cup {<<run, Len(accepted) + 1>>})
      BY <1>a, SeqMonotonic DEF SizeInv
    <3>3. Len(stream') = Len(stream) + 1 BY <3>1, <3>2, AppendProperties
    <3>4. state \in {"recording", "error"} BY <1>4, <1>a DEF RecordSends, CallInv
    <3> QED BY <2>1, <3>3, <3>4, <1>a, <1>b DEF JobInv
  <2>3. CASE ~HasRoom BY <1>4, <2>1, <2>3, <1>a DEF RecordSends, JobInv
  <2> QED BY <2>2, <2>3
<1>5. CASE StopEnds
  <2>1. state \in {"ready", "recording", "error"} /\ state' = "stopping" /\ UNCHANGED <<job, stream>>
    BY <1>5, <1>a DEF StopEnds, CallInv
  <2> QED BY <2>1, <1>a DEF JobInv
<1>6. CASE RecordBegins \/ SetFlashWritesAllowed \/ StopBegins
  BY <1>6, <1>a DEF RecordBegins, SetFlashWritesAllowed, StopBegins, JobInv
<1>7. CASE LookErase
  <2>1. job' = [do |-> "erase", n |-> 0] /\ state = "erasing" /\ state' = state
    BY <1>7 DEF LookErase, Decide, NoJob
  <2> QED BY <2>1, <1>b DEF JobInv
<1>8. CASE LookFinalize
  <2>1. /\ job' = [do |-> "finalize", n |-> 0] /\ state = "stopping" /\ state' = state
        /\ stream = <<>> /\ stream' = stream
    BY <1>8 DEF LookFinalize, Decide, NoJob
  <2> QED BY <2>1, <1>b DEF JobInv
<1>9. CASE LookWrite
  <2> DEFINE n == Min({Len(stream), Batch})
  <2>1. /\ job' = [do |-> "write", n |-> n] /\ state \in {"recording", "stopping"}
        /\ stream # <<>> /\ UNCHANGED <<state, stream>>
    BY <1>9 DEF LookWrite, Decide
  <2>2. Len(stream) # 0 BY <2>1, <1>a, EmptySeq DEF SizeInv
  <2>3. n \in 1 .. Len(stream) /\ n \in 0 .. Batch BY <2>2, <1>b, BatchSize
  <2> HIDE DEF n
  <2>4. job'.do = "write" /\ job'.n = n BY <2>1
  <2>5. job' \in [do : {"look", "erase", "write", "finalize"}, n : 0 .. Batch] BY <2>1, <2>3
  <2> QED BY <2>1, <2>3, <2>4, <2>5 DEF JobInv
<1>10. CASE Erase \/ Write \/ Finalize \/ Restart
  BY <1>10, <1>1 DEF Erase, Write, Finalize, Restart
<1>11. CASE UNCHANGED vars BY <1>11, <1>a DEF JobInv, vars
<1> QED BY <1>2, <1>3, <1>4, <1>5, <1>6, <1>7, <1>8, <1>9, <1>10, <1>11 DEF Next, Control, Worker

\* What a batch that is written, or lost, takes from the stream.
LEMMA WriteFacts ==
    ASSUME LoggerInv, Write
    PROVE  LET batch == SubSeq(stream, 1, job.n)
           IN  /\ job.n \in 1 .. Len(stream)
               /\ batch \in Seq(Records) /\ Len(batch) = job.n
               /\ \A i \in 1 .. job.n : batch[i] = stream[i]
               /\ Len(stream') = Len(stream) - job.n
               /\ \A i \in 1 .. Len(stream') : stream'[i] = stream[job.n + i]
               /\ UNCHANGED <<max, accepted, call, run, dropped, header>>
               /\ state \in {"recording", "stopping"}
               /\ \/ /\ payload' = Programmed(batch, TRUE) /\ crc' = crc \o batch
                     /\ written' = written + job.n
                     /\ UNCHANGED state
                  \/ UNCHANGED <<crc, written>> /\ state' = "error"
<1>1. SizeInv /\ JobInv BY DEF LoggerInv
<1>2. job.n \in 1 .. Len(stream) /\ state \in {"recording", "stopping"}
  BY <1>1 DEF Write, JobInv
<1>3. stream' = SubSeq(stream, job.n + 1, Len(stream)) BY DEF Write
<1>4. stream \in Seq(Records) BY <1>1 DEF SizeInv
<1>5. /\ SubSeq(stream, 1, job.n) \in Seq(Records) /\ Len(SubSeq(stream, 1, job.n)) = job.n
      /\ \A i \in 1 .. job.n : SubSeq(stream, 1, job.n)[i] = stream[i]
      /\ Len(stream') = Len(stream) - job.n
      /\ \A i \in 1 .. Len(stream') : stream'[i] = stream[job.n + i]
  BY <1>2, <1>3, <1>4, BatchFacts
<1>6. UNCHANGED <<max, accepted, call, run, dropped, header>> BY DEF Write, control
<1>7. \/ /\ payload' = Programmed(SubSeq(stream, 1, job.n), TRUE)
         /\ crc' = crc \o SubSeq(stream, 1, job.n) /\ written' = written + job.n
         /\ UNCHANGED state
      \/ UNCHANGED <<crc, written>> /\ state' = "error"
  BY DEF Write
<1> QED BY <1>2, <1>5, <1>6, <1>7

\* What an accepted record adds.
LEMMA SendFacts ==
    ASSUME LoggerInv, RecordSends, HasRoom
    PROVE  /\ Len(accepted') = Len(accepted) + 1
           /\ \A i \in 1 .. Len(accepted) : accepted'[i] = accepted[i]
           /\ accepted'[Len(accepted) + 1] = <<run, Len(accepted) + 1>>
           /\ Len(stream') = Len(stream) + 1
           /\ \A i \in 1 .. Len(stream) : stream'[i] = stream[i]
           /\ stream'[Len(stream) + 1] = <<run, Len(accepted) + 1>>
           /\ UNCHANGED <<state, max, written, crc, payload, run>>
<1> DEFINE r == <<run, Len(accepted) + 1>>
<1>1. stream' = Append(stream, r) /\ accepted' = Append(accepted, r) BY DEF RecordSends
<1>2. SizeInv BY DEF LoggerInv
<1>3. stream \in Seq(Records \cup {r}) /\ accepted \in Seq(Records \cup {r})
  BY <1>2, SeqMonotonic DEF SizeInv
<1>4. r \in Records \cup {r} OBVIOUS
<1>5. UNCHANGED <<state, max, written, crc, payload, run>> BY DEF RecordSends, flash
<1> HIDE DEF r
<1>6. /\ Len(accepted') = Len(accepted) + 1
      /\ \A i \in 1 .. Len(accepted) : accepted'[i] = accepted[i]
      /\ accepted'[Len(accepted) + 1] = r
  BY <1>1, <1>3, <1>4, AppendProperties
<1>7. /\ Len(stream') = Len(stream) + 1
      /\ \A i \in 1 .. Len(stream) : stream'[i] = stream[i]
      /\ stream'[Len(stream) + 1] = r
  BY <1>1, <1>3, <1>4, AppendProperties
<1> QED BY <1>5, <1>6, <1>7 DEF r

LEMMA RecordStep == LoggerInv /\ [Next]_vars => RecordInv'
<1> SUFFICES ASSUME LoggerInv, [Next]_vars PROVE RecordInv' OBVIOUS
<1>a. SizeInv /\ CallInv /\ JobInv /\ RecordInv BY DEF LoggerInv
<1>b. Len(accepted) \in Nat /\ Len(stream) \in Nat /\ written \in Nat
      /\ written + Len(stream) <= Len(accepted)
  BY <1>a, LenProperties DEF SizeInv
<1>1. ASSUME EmptyRun PROVE RecordInv' BY <1>1, NoRecords DEF EmptyRun, RecordInv
<1>2. CASE RecordSends
  <2>1. CASE HasRoom
    <3>1. ASSUME NEW i \in 1 .. Len(accepted') PROVE accepted'[i] = <<run', i>>
      <4>1. i \in 1 .. Len(accepted) \/ i = Len(accepted) + 1
        BY <1>2, <2>1, <1>b, SendFacts
      <4> QED BY <4>1, <1>2, <2>1, <1>a, SendFacts DEF RecordInv
    <3>2. ASSUME NEW i \in 1 .. Len(stream')
          PROVE  stream'[i] = <<run', Len(accepted') - Len(stream') + i>>
      <4>1. i \in 1 .. Len(stream) \/ i = Len(stream) + 1 BY <1>2, <2>1, <1>b, SendFacts
      <4>2. Len(accepted') - Len(stream') = Len(accepted) - Len(stream)
        BY <1>2, <2>1, <1>b, SendFacts
      <4>3. CASE i \in 1 .. Len(stream)
        BY <4>2, <4>3, <1>2, <2>1, <1>a, SendFacts DEF RecordInv
      <4>4. CASE i = Len(stream) + 1
        <5>1. Len(accepted) - Len(stream) + i = Len(accepted) + 1 BY <4>4, <1>b
        <5>2. stream'[i] = <<run, Len(accepted) + 1>> /\ run' = run
          BY <4>4, <1>2, <2>1, SendFacts
        <5> QED BY <5>1, <5>2, <4>2
      <4> QED BY <4>1, <4>3, <4>4
    <3> QED BY <3>1, <3>2 DEF RecordInv
  <2>2. CASE ~HasRoom BY <1>2, <2>2, <1>a DEF RecordSends, RecordInv
  <2> QED BY <2>1, <2>2
<1>3. CASE Write
  <2>1. /\ job.n \in 1 .. Len(stream)
        /\ Len(stream') = Len(stream) - job.n
        /\ \A i \in 1 .. Len(stream') : stream'[i] = stream[job.n + i]
        /\ UNCHANGED <<accepted, run>>
    BY <1>3, WriteFacts
  <2>2. ASSUME NEW i \in 1 .. Len(stream')
        PROVE  stream'[i] = <<run', Len(accepted') - Len(stream') + i>>
    <3>1. job.n + i \in 1 .. Len(stream) BY <2>1, <1>b
    <3>2. stream[job.n + i] = <<run, Len(accepted) - Len(stream) + (job.n + i)>>
      BY <3>1, <1>a DEF RecordInv
    <3>3. Len(accepted) - Len(stream') + i = Len(accepted) - Len(stream) + (job.n + i)
      BY <2>1, <1>b
    <3> QED BY <2>1, <3>2, <3>3
  <2>3. \A i \in 1 .. Len(accepted') : accepted'[i] = <<run', i>> BY <2>1, <1>a DEF RecordInv
  <2> QED BY <2>2, <2>3 DEF RecordInv
<1>4. ASSUME \/ RecordBegins \/ SetFlashWritesAllowed \/ StopBegins \/ StopEnds
             \/ LookErase \/ LookWrite \/ LookFinalize \/ Erase \/ Finalize
             \/ UNCHANGED vars
      PROVE  UNCHANGED <<accepted, stream, run>>
  BY <1>4 DEF RecordBegins, SetFlashWritesAllowed, StopBegins, StopEnds, LookErase, LookWrite,
              LookFinalize, Decide, Erase, Finalize, control, vars
<1>5. ASSUME UNCHANGED <<accepted, stream, run>> PROVE RecordInv' BY <1>5, <1>a DEF RecordInv
<1>6. ASSUME Prepare \/ Start \/ Restart PROVE EmptyRun BY <1>6 DEF Prepare, Start, Restart
<1> QED BY <1>1, <1>2, <1>3, <1>4, <1>5, <1>6 DEF Next, Control, Worker

\* A batch that was programmed behind what was written, with nothing lost before.
LEMMA WrittenBatch ==
    ASSUME LoggerInv, NothingLost,
           NEW n \in 1 .. Len(stream), NEW batch \in Seq(Records), Len(batch) = n,
           \A i \in 1 .. n : batch[i] = stream[i],
           state \in {"recording", "stopping"}
    PROVE  /\ \A i \in 1 .. written + n :
                 Programmed(batch, TRUE)[i] = <<run, i>> /\ (crc \o batch)[i] = <<run, i>>
           /\ \A i \in written + n + 1 .. max : Programmed(batch, TRUE)[i] = Erased
<1>a. SizeInv /\ RecordInv /\ FlashInv BY DEF LoggerInv
<1>b. /\ Len(accepted) \in Nat /\ Len(stream) \in Nat /\ written \in Nat /\ max \in Nat
      /\ PartitionRecords \in Nat /\ n \in Nat /\ max <= PartitionRecords
      /\ written + n <= max
  BY <1>a, LenProperties, LoggerAssumption DEF SizeInv, NothingLost
<1>c. DOMAIN batch = 1 .. n BY LenProperties
<1>d. \A i \in 1 .. max : i \in Cells BY <1>b DEF Cells
<1>e. /\ \A i \in 1 .. written : payload[i] = <<run, i>> /\ crc[i] = <<run, i>>
      /\ \A i \in written + 1 .. max : payload[i] = Erased
  BY <1>a DEF FlashInv
<1>f. \A i \in 1 .. n : batch[i] = <<run, written + i>>
  <2> SUFFICES ASSUME NEW i \in 1 .. n PROVE batch[i] = <<run, written + i>> OBVIOUS
  <2>1. i \in 1 .. Len(stream) BY <1>b
  <2>2. stream[i] = <<run, Len(accepted) - Len(stream) + i>> BY <2>1, <1>a DEF RecordInv
  <2>3. Len(accepted) - Len(stream) + i = written + i BY <1>b DEF NothingLost
  <2> QED BY <2>2, <2>3
<1>g. /\ Len(crc) = written
      /\ \A i \in 1 .. Len(crc) + Len(batch) :
            (crc \o batch)[i] = IF i <= Len(crc) THEN crc[i] ELSE batch[i - Len(crc)]
  BY <1>a, ConcatProperties DEF SizeInv
<1>1. ASSUME NEW i \in 1 .. written + n
      PROVE  Programmed(batch, TRUE)[i] = <<run, i>> /\ (crc \o batch)[i] = <<run, i>>
  <2>0. i \in Cells /\ i \in Nat BY <1>b, <1>d
  <2>1. CASE i <= written
    <3>1. i \in 1 .. written /\ i - written \notin 1 .. n BY <2>1, <1>b
    <3>2. Programmed(batch, TRUE)[i] = payload[i] BY <3>1, <2>0, <1>c DEF Programmed
    <3>3. (crc \o batch)[i] = crc[i] BY <2>1, <1>g
    <3> QED BY <3>1, <3>2, <3>3, <1>e
  <2>2. CASE ~(i <= written)
    <3>1. /\ i - written \in 1 .. n /\ i \in written + 1 .. max
          /\ written + (i - written) = i
      BY <2>2, <1>b
    <3>2. payload[i] = Erased BY <3>1, <1>e
    <3>3. Programmed(batch, TRUE)[i] = batch[i - written]
      BY <3>1, <3>2, <2>0, <1>c DEF Programmed
    <3>4. (crc \o batch)[i] = batch[i - written] BY <2>2, <1>g
    <3>5. batch[i - written] = <<run, written + (i - written)>> BY <3>1, <1>f
    <3> QED BY <3>1, <3>3, <3>4, <3>5
  <2> QED BY <2>1, <2>2
<1>2. ASSUME NEW i \in written + n + 1 .. max PROVE Programmed(batch, TRUE)[i] = Erased
  <2>1. i \in 1 .. max /\ i \in written + 1 .. max /\ i - written \notin 1 .. n BY <1>b
  <2> QED BY <2>1, <1>c, <1>d, <1>e DEF Programmed
<1> QED BY <1>1, <1>2

LEMMA FlashStep == LoggerInv /\ [Next]_vars => FlashInv'
<1> SUFFICES ASSUME LoggerInv, [Next]_vars PROVE FlashInv' OBVIOUS
<1>a. SizeInv /\ CallInv /\ JobInv /\ RecordInv /\ FlashInv BY DEF LoggerInv
<1>b. /\ Len(accepted) \in Nat /\ Len(stream) \in Nat /\ written \in Nat /\ max \in Nat
      /\ written + Len(stream) <= Len(accepted) /\ max <= PartitionRecords
      /\ PartitionRecords \in Nat
  BY <1>a, LenProperties, LoggerAssumption DEF SizeInv
<1>e. accepted = <<>> => written = 0 /\ Len(stream) = 0 BY <1>b, NoRecords
<1>1. CASE Prepare \/ Restart
  <2>1. state' \in {"erasing", "idle"} BY <1>1 DEF Prepare, Restart
  <2> QED BY <2>1 DEF FlashInv
<1>2. CASE Start
  <2>1. /\ state = "ready" /\ state' = "recording" /\ UNCHANGED <<max, payload>> /\ written' = 0
    BY <1>2 DEF Start, EmptyRun, flash
  <2>2. written = 0 /\ NothingLost BY <2>1, <1>a, <1>e, NoRecords DEF CallInv, NothingLost
  <2>3. \A i \in 1 .. max : payload[i] = Erased BY <2>1, <2>2, <1>a DEF FlashInv
  <2>4. 0 + 1 = 1 /\ \A i \in 1 .. 0 : FALSE OBVIOUS
  <2> QED BY <2>1, <2>3, <2>4 DEF FlashInv
<1>3. CASE RecordSends
  <2>1. call' = NoCall /\ UNCHANGED <<state, max, written, crc, payload, run>>
    BY <1>3 DEF RecordSends, flash
  <2>2. NothingLost' => NothingLost
    <3>1. CASE HasRoom
      <4>1. Len(accepted') = Len(accepted) + 1 /\ Len(stream') = Len(stream) + 1 /\ written' = written
        BY <1>3, <3>1, SendFacts
      <4> QED BY <4>1, <1>b DEF NothingLost
    <3>2. CASE ~HasRoom
      <4>1. UNCHANGED <<written, stream, accepted>> BY <1>3, <3>2 DEF RecordSends
      <4> QED BY <4>1 DEF NothingLost
    <3> QED BY <3>1, <3>2
  <2> QED BY <2>1, <2>2, <1>a DEF FlashInv
<1>4. CASE StopEnds
  <2>1. /\ state' = "stopping" /\ state \in {"ready", "recording", "error"} /\ call # NoCall
        /\ UNCHANGED <<max, written, stream, accepted, crc, payload, run>>
    BY <1>4, <1>a DEF StopEnds, CallInv, flash, NoCall
  <2>2. NothingLost' <=> NothingLost BY <2>1 DEF NothingLost
  <2> QED BY <2>1, <2>2, <1>a DEF FlashInv
<1>5. CASE StopBegins \/ RecordBegins
  <2>1. /\ state' = state /\ state # "error"
        /\ UNCHANGED <<max, written, stream, accepted, crc, payload, run>>
    BY <1>5 DEF StopBegins, RecordBegins, flash
  <2>2. NothingLost' <=> NothingLost BY <2>1 DEF NothingLost
  <2> QED BY <2>1, <2>2, <1>a DEF FlashInv
<1>6. CASE SetFlashWritesAllowed \/ LookErase \/ LookWrite \/ LookFinalize \/ UNCHANGED vars
  <2>1. UNCHANGED <<state, call, max, written, stream, accepted, crc, payload, run>>
    BY <1>6 DEF SetFlashWritesAllowed, LookErase, LookWrite, LookFinalize, Decide, control, flash, vars
  <2>2. NothingLost' <=> NothingLost BY <2>1 DEF NothingLost
  <2> QED BY <2>1, <2>2, <1>a DEF FlashInv
<1>7. CASE Erase
  <2>1. state = "erasing" /\ call = NoCall BY <1>7, <1>a DEF Erase, JobInv, CallInv
  <2>2. PICK ok \in BOOLEAN :
           /\ state' = IF ok THEN "ready" ELSE "error"
           /\ payload' = [i \in Cells |-> CASE i > max -> payload[i]
                                            [] i <= max /\ ok -> Erased
                                            [] OTHER -> Torn]
    BY <1>7 DEF Erase
  <2>3. UNCHANGED <<call, max, written>> BY <1>7 DEF Erase, control
  <2>4. written = 0 BY <2>1, <1>a, <1>e DEF CallInv
  <2>5. CASE ok
    <3>1. ASSUME NEW i \in 1 .. max PROVE payload'[i] = Erased
      <4>1. i \in Cells /\ ~(i > max) /\ i <= max BY <1>b DEF Cells
      <4> QED BY <4>1, <2>2, <2>5
    <3>2. 0 + 1 = 1 /\ \A i \in 1 .. 0 : FALSE OBVIOUS
    <3> QED BY <3>1, <3>2, <2>2, <2>3, <2>4, <2>5 DEF FlashInv
  <2>6. CASE ~ok BY <2>6, <2>1, <2>2, <2>3 DEF FlashInv
  <2> QED BY <2>5, <2>6
<1>8. CASE Write
  <2> DEFINE batch == SubSeq(stream, 1, job.n)
  <2>1. /\ job.n \in 1 .. Len(stream)
        /\ batch \in Seq(Records) /\ Len(batch) = job.n
        /\ \A i \in 1 .. job.n : batch[i] = stream[i]
        /\ Len(stream') = Len(stream) - job.n
        /\ UNCHANGED <<max, accepted, call, run>>
        /\ state \in {"recording", "stopping"}
        /\ \/ /\ payload' = Programmed(batch, TRUE) /\ crc' = crc \o batch
              /\ written' = written + job.n
              /\ UNCHANGED state
           \/ UNCHANGED <<crc, written>> /\ state' = "error"
    BY <1>8, WriteFacts
  <2> HIDE DEF batch
  <2>2. CASE /\ payload' = Programmed(batch, TRUE) /\ crc' = crc \o batch
             /\ written' = written + job.n
             /\ UNCHANGED state
    <3>1. NothingLost' => NothingLost BY <2>1, <2>2, <1>b DEF NothingLost
    <3>2. ASSUME NothingLost
          PROVE  /\ \A i \in 1 .. written' : payload'[i] = <<run, i>> /\ crc'[i] = <<run, i>>
                 /\ \A i \in written' + 1 .. max : payload'[i] = Erased
      BY <2>1, <2>2, <3>2, WrittenBatch
    <3> QED BY <2>1, <2>2, <3>1, <3>2 DEF FlashInv
  <2>3. CASE UNCHANGED <<crc, written>> /\ state' = "error"
    <3>1. ~NothingLost' BY <2>1, <2>3, <1>b DEF NothingLost
    <3> QED BY <2>3, <3>1 DEF FlashInv
  <2> QED BY <2>1, <2>2, <2>3
<1>9. CASE Finalize
  <2>1. state = "stopping" /\ call = NoCall BY <1>9, <1>a DEF Finalize, JobInv, CallInv
  <2>2. /\ UNCHANGED <<call, max, written, stream, accepted, crc, payload, run>>
        /\ state' = "complete" \/ state' = "error"
    BY <1>9 DEF Finalize, control
  <2>3. NothingLost' <=> NothingLost BY <2>2 DEF NothingLost
  <2> QED BY <2>1, <2>2, <2>3, <1>a DEF FlashInv
<1> QED BY <1>1, <1>2, <1>3, <1>4, <1>5, <1>6, <1>7, <1>8, <1>9 DEF Next, Control, Worker

\* A log that is finalised covers what was accepted.
LEMMA FinalizedFacts ==
    ASSUME LoggerInv, written = Len(accepted), state \in {"stopping", "complete"}
    PROVE  /\ crc = RunRecords(run, written)
           /\ accepted = RunRecords(run, written)
           /\ Stored = RunRecords(run, written)
           /\ run \in 1 .. MaxRuns
<1>a. SizeInv /\ CallInv /\ RecordInv /\ FlashInv BY DEF LoggerInv
<1>b. /\ Len(stream) = 0
      /\ accepted \in [1 .. written -> Records] /\ crc \in [1 .. written -> Records]
  <2>1. Len(stream) \in Nat /\ Len(accepted) \in Nat BY <1>a, LenProperties DEF SizeInv
  <2>2. Len(stream) = 0 BY <2>1, <1>a DEF SizeInv
  <2> QED BY <2>2, <1>a, LenProperties DEF SizeInv
<1>c. NothingLost BY <1>a, <1>b DEF SizeInv, NothingLost
<1>d. \A i \in 1 .. written : payload[i] = <<run, i>> /\ crc[i] = <<run, i>>
  BY <1>a, <1>c DEF FlashInv
<1>1. accepted = RunRecords(run, written) BY <1>a, <1>b DEF RecordInv, RunRecords
<1>2. crc = RunRecords(run, written) BY <1>b, <1>d DEF RunRecords
<1>3. Stored = RunRecords(run, written) BY <1>d DEF Stored, RunRecords
<1>4. run \in 1 .. MaxRuns BY <1>a DEF CallInv
<1> QED BY <1>1, <1>2, <1>3, <1>4

LEMMA HeaderStep == LoggerInv /\ [Next]_vars => HeaderInv'
<1> SUFFICES ASSUME LoggerInv, [Next]_vars PROVE HeaderInv' OBVIOUS
<1>a. SizeInv /\ FieldInv /\ CallInv /\ JobInv /\ HeaderInv BY DEF LoggerInv
<1>1. CASE Finalize
  <2>1. /\ state = "stopping" /\ UNCHANGED <<written, accepted, dropped, crc>>
    BY <1>1, <1>a DEF Finalize, JobInv, control
  <2> DEFINE h == [count |-> written, dropped |-> dropped, crc |-> crc, complete |-> TRUE]
  <2>2. CASE AllWritten /\ header' = h /\ state' = "complete"
    <3>1. written = Len(accepted) BY <2>2 DEF AllWritten
    <3>2. crc = RunRecords(run, written) /\ run \in 1 .. MaxRuns
      BY <2>1, <3>1, FinalizedFacts
    <3>3. written \in 0 .. PartitionRecords
      <4>1. PartitionRecords \in Nat BY LoggerAssumption
      <4> QED BY <4>1, <3>1, <1>a DEF SizeInv
    <3>4. h \in Headers BY <3>3, <1>a DEF SizeInv, FieldInv, Headers
    <3>5. GoodHeader(h) BY <3>2, <3>4 DEF GoodHeader
    <3> HIDE DEF h
    <3>6. GoodHeader(header') BY <3>5, <2>2
    <3>7. GoodHeader(header)' BY <3>6 DEF GoodHeader, Headers, RunRecords
    <3>8. header' = [count |-> written', dropped |-> dropped', crc |-> crc', complete |-> TRUE]
      BY <2>1, <2>2 DEF h
    <3> QED BY <2>1, <3>1, <3>7, <3>8 DEF HeaderInv
  <2>3. CASE state' = "error" /\ header' = header
    BY <2>3, <1>a DEF HeaderInv, GoodHeader
  <2> QED BY <1>1, <2>2, <2>3 DEF Finalize
<1>2. CASE Erase
  <2>1. header' = Blank /\ state' # "complete" BY <1>2 DEF Erase
  <2>2. MaxDropped \in Nat /\ PartitionRecords \in Nat BY LoggerAssumption
  <2>3. Blank \in Headers BY <2>2, NoRecords DEF Blank, Headers
  <2> QED BY <2>1, <2>3 DEF HeaderInv, GoodHeader, Blank
<1>3. CASE Write
  <2>1. header' = header /\ (state' = state \/ state' = "error") /\ state # "complete"
    BY <1>3, WriteFacts
  <2> QED BY <2>1, <1>a DEF HeaderInv, GoodHeader
<1>4. CASE Prepare \/ Start \/ Restart \/ RecordBegins \/ RecordSends \/ StopEnds
  <2>1. header' = header
    BY <1>4 DEF Prepare, Start, Restart, RecordBegins, RecordSends, StopEnds, flash
  <2>2. state' # "complete"
    BY <1>4, <1>a DEF Prepare, Start, Restart, RecordBegins, RecordSends, StopEnds, CallInv
  <2> QED BY <2>1, <2>2, <1>a DEF HeaderInv, GoodHeader
<1>5. CASE SetFlashWritesAllowed \/ StopBegins \/ LookErase \/ LookWrite \/ LookFinalize \/ UNCHANGED vars
  <2>1. UNCHANGED <<state, header, written, accepted, dropped, crc>>
    BY <1>5 DEF SetFlashWritesAllowed, StopBegins, LookErase, LookWrite, LookFinalize, Decide,
                control, flash, vars
  <2> QED BY <2>1, <1>a DEF HeaderInv, GoodHeader
<1> QED BY <1>1, <1>2, <1>3, <1>4, <1>5 DEF Next, Control, Worker

LEMMA LoggerStep == LoggerInv /\ [Next]_vars => LoggerInv'
BY SizeStep, FieldStep, CallStep, JobStep, RecordStep, FlashStep, HeaderStep DEF LoggerInv

-----------------------------------------------------------------------------
(* What the logger promises *)

\* The invariant holds whatever the control task, the worker and a reset do to
\* the fields they share without a lock (runtime_logger.cpp).
THEOREM LoggerInvariant == Spec => []LoggerInv
BY LoggerInit, LoggerStep, PTL DEF Spec

LEMMA InvImpliesTypeOK == LoggerInv => TypeOK
<1> SUFFICES ASSUME LoggerInv PROVE TypeOK OBVIOUS
<1>a. SizeInv /\ FieldInv /\ CallInv /\ JobInv BY DEF LoggerInv
<1>b. /\ Len(accepted) \in Nat /\ Len(stream) \in Nat /\ Len(crc) \in Nat
      /\ PartitionRecords \in Nat /\ max <= PartitionRecords /\ max \in Nat
  BY <1>a, LenProperties, LoggerAssumption DEF SizeInv
<1>1. /\ Len(accepted) <= PartitionRecords /\ Len(stream) <= PartitionRecords
      /\ Len(crc) <= PartitionRecords /\ written \in 0 .. max
  BY <1>a, <1>b DEF SizeInv
<1>2. accepted \in Logs /\ stream \in Logs /\ crc \in Logs
  BY <1>1, <1>a, LogsAreSequences DEF SizeInv
<1>3. max \in 0 .. PartitionRecords /\ Len(accepted) <= max /\ Len(stream) <= RamRecords
  BY <1>a DEF SizeInv
<1>4. /\ dropped \in 0 .. MaxDropped
      /\ flashAllowed \in BOOLEAN /\ hold \in BOOLEAN
      /\ counts \in [pump : 0 .. PumpEvery - 1, probe : 0 .. ProbeEvery - 1]
      /\ payload \in [Cells -> Records \cup {Erased, Torn}]
      /\ run \in 0 .. MaxRuns
  BY <1>a, Zenon DEF FieldInv, Words
<1>5. /\ state \in {"idle", "erasing", "ready", "recording", "stopping", "complete", "error"}
      /\ call \in [in : {"none", "record", "stop"}, kind : {"plain", "pump", "probe"}]
  BY <1>a DEF CallInv
<1>6. job \in [do : {"look", "erase", "write", "finalize"}, n : 0 .. Batch]
  BY <1>a DEF JobInv
<1> QED BY <1>1, <1>2, <1>3, <1>4, <1>5, <1>6, Zenon DEF TypeOK

LEMMA InvImpliesExact == LoggerInv => CompleteLogIsExact
<1> SUFFICES ASSUME LoggerInv, state = "complete"
             PROVE  /\ Stored = accepted
                    /\ header = [count |-> Len(accepted), dropped |-> dropped, crc |-> accepted,
                                 complete |-> TRUE]
  BY DEF CompleteLogIsExact
<1>1. /\ written = Len(accepted)
      /\ header = [count |-> written, dropped |-> dropped, crc |-> crc, complete |-> TRUE]
  BY DEF LoggerInv, HeaderInv
<1>2. crc = accepted /\ Stored = accepted BY <1>1, FinalizedFacts
<1> QED BY <1>1, <1>2

\* What can be downloaded is never the one sequence that stands for nothing.
LEMMA StoredIsPublished == LoggerInv /\ state = "complete" => Stored # Unpublished
<1> SUFFICES ASSUME LoggerInv, state = "complete", Stored = Unpublished PROVE FALSE OBVIOUS
<1>1. written = Len(accepted) BY DEF LoggerInv, HeaderInv
<1>2. Stored = RunRecords(run, written) /\ run \in 1 .. MaxRuns BY <1>1, FinalizedFacts
<1>3. DOMAIN Unpublished = 1 .. 1 /\ Unpublished[1] = Erased BY DEF Unpublished
<1>4. written \in Nat /\ DOMAIN RunRecords(run, written) = 1 .. written
  BY DEF LoggerInv, SizeInv, RunRecords
<1>5. 1 \in 1 .. written BY <1>2, <1>3, <1>4
<1>6. Stored[1] = <<run, 1>> BY <1>2, <1>5 DEF RunRecords
<1> QED BY <1>2, <1>3, <1>6 DEF Erased

\* Every step of the logger is one of the abstract log's, or none.
LEMMA StepRefines == LoggerInv /\ LoggerInv' /\ [Next]_vars => [Recorded!Next]_(Recorded!RecordedLogVars)
<1> SUFFICES ASSUME LoggerInv, LoggerInv', [Next]_vars
             PROVE  [Recorded!Next]_(Recorded!RecordedLogVars)
  OBVIOUS
<1> DEFINE published == IF state = "complete" THEN Stored ELSE Unpublished
<1>a. SizeInv /\ CallInv /\ JobInv BY DEF LoggerInv
<1>s. ASSUME UNCHANGED <<accepted, published>>
      PROVE  UNCHANGED Recorded!RecordedLogVars
  BY <1>s DEF Recorded!RecordedLogVars
<1>1. CASE Prepare \/ Start \/ Restart
  <2>1. accepted' = <<>> /\ state' # "complete"
    BY <1>1 DEF Prepare, Start, Restart, EmptyRun
  <2>2. published' = Unpublished BY <2>1 DEF Unpublished, Erased
  <2>3. Recorded!BeginRun BY <2>1, <2>2 DEF Recorded!BeginRun
  <2> QED BY <2>3 DEF Recorded!Next
<1>2. CASE RecordSends
  <2>1. state # "complete" /\ state' = state BY <1>2, <1>a DEF RecordSends, CallInv
  <2>2. published = Unpublished /\ published' = published BY <2>1 DEF Unpublished, Erased
  <2>3. CASE HasRoom
    <3>1. accepted' = Append(accepted, <<run, Len(accepted) + 1>>)
      BY <1>2, <2>3 DEF RecordSends
    <3>2. run \in 1 .. MaxRuns BY <1>2, <1>a DEF RecordSends, CallInv
    <3>3. Len(accepted) + 1 \in 1 .. PartitionRecords
      <4>1. Len(accepted) \in Nat /\ max \in Nat /\ max <= PartitionRecords /\ PartitionRecords \in Nat
        BY <1>a, LenProperties, LoggerAssumption DEF SizeInv
      <4> QED BY <4>1, <2>3 DEF HasRoom
    <3>4. <<run, Len(accepted) + 1>> \in Records BY <3>2, <3>3 DEF Records
    <3>5. Recorded!AcceptRecord BY <2>2, <3>1, <3>4 DEF Recorded!AcceptRecord
    <3> QED BY <3>5 DEF Recorded!Next
  <2>4. CASE ~HasRoom
    <3>1. accepted' = accepted BY <1>2, <2>4 DEF RecordSends
    <3> QED BY <3>1, <2>2, <1>s
  <2> QED BY <2>3, <2>4
<1>3. CASE Finalize
  <2>1. state = "stopping" /\ accepted' = accepted BY <1>3, <1>a DEF Finalize, JobInv, control
  <2>2. published = Unpublished BY <2>1
  <2>3. CASE state' = "complete"
    <3>1. Stored' = accepted'
      <4>1. LoggerInv' => CompleteLogIsExact' BY InvImpliesExact, PTL
      <4> QED BY <4>1, <2>3 DEF CompleteLogIsExact
    <3>2. published' = accepted BY <2>1, <2>3, <3>1
    <3>3. Recorded!Publish BY <2>1, <2>2, <3>2 DEF Recorded!Publish
    <3> QED BY <3>3 DEF Recorded!Next
  <2>4. CASE state' # "complete"
    <3>1. published' = published BY <2>2, <2>4 DEF Unpublished, Erased
    <3> QED BY <3>1, <2>1, <1>s
  <2> QED BY <2>3, <2>4
<1>4. CASE Erase \/ Write
  <2>1. accepted' = accepted /\ state # "complete" /\ state' # "complete"
    BY <1>4, <1>a DEF Erase, Write, JobInv, control
  <2>2. published' = published BY <2>1 DEF Unpublished, Erased
  <2> QED BY <2>1, <2>2, <1>s
<1>5. CASE StopEnds
  <2>1. accepted' = accepted /\ state # "complete" /\ state' # "complete"
    BY <1>5, <1>a DEF StopEnds, CallInv
  <2>2. published' = published BY <2>1 DEF Unpublished, Erased
  <2> QED BY <2>1, <2>2, <1>s
<1>6. CASE \/ RecordBegins \/ SetFlashWritesAllowed \/ StopBegins \/ LookErase \/ LookWrite
           \/ LookFinalize \/ UNCHANGED vars
  <2>1. UNCHANGED <<state, accepted, written, payload>>
    BY <1>6 DEF RecordBegins, SetFlashWritesAllowed, StopBegins, LookErase, LookWrite,
                LookFinalize, Decide, control, flash, vars
  <2>2. published' = published BY <2>1 DEF Stored, Unpublished, Erased
  <2> QED BY <2>1, <2>2, <1>s
<1> QED BY <1>1, <1>2, <1>3, <1>4, <1>5, <1>6 DEF Next, Control, Worker

LEMMA InitRefines == Init => Recorded!Init
BY DEF Init, Booted, Recorded!Init

\* The logger implements a log that is published as it was recorded, then frozen
\* until the next run begins, with a partition and buffers of any size.
THEOREM LoggerImplementsRecordedLog == Spec => ImplementsRecordedLog
<1> QED BY InitRefines, StepRefines, LoggerInvariant, PTL DEF Spec, ImplementsRecordedLog, Recorded!Spec

-----------------------------------------------------------------------------
(* The dump *)

\* A step of the dump leaves the log alone, any other is one of the logger's.
LEMMA DumpStepsAreLogger == [DumpNext]_dumpVars => [Next]_vars
BY DEF DumpNext, dumpVars, Next, DumpCommand, DumpTask, Open, CheckChunk, ReadChunk, EndDump

LEMMA DumpSpecRefinesLogger == DumpSpec => Spec
BY DumpStepsAreLogger, PTL DEF DumpSpec, DumpInit, Spec

LEMMA ChunkFacts ==
    ASSUME LoggerInv, NEW i \in 0 .. PartitionRecords
    PROVE  Chunk(i) \in Chunks /\ (i = 0 => GoodHeader(Chunk(i)))
<1>1. FieldInv /\ GoodHeader(header) BY DEF LoggerInv, HeaderInv
<1>2. CASE i = 0 BY <1>1, <1>2 DEF Chunk, Chunks, GoodHeader
<1>3. CASE i # 0
  <2>1. i \in Cells BY <1>3, LoggerAssumption DEF Cells
  <2> QED BY <1>1, <1>3, <2>1 DEF FieldInv, Chunk, Chunks
<1> QED BY <1>2, <1>3

\* The chunk that is read is sent behind the others.
LEMMA SentFacts ==
    ASSUME LoggerInv, DumpInv, dump.at = "read",
           NEW sent, sent = Append(dump.sent, Chunk(Len(dump.sent)))
    PROVE  /\ sent \in Seq(Chunks) /\ Len(sent) = Len(dump.sent) + 1
           /\ Len(sent) <= dump.size
           /\ GoodHeader(sent[1])
           /\ \A i \in 1 .. Len(dump.sent) : sent[i] = dump.sent[i]
           /\ sent[Len(dump.sent) + 1] = Chunk(Len(dump.sent))
<1>1. /\ Len(dump.sent) \in Nat /\ dump.size \in Nat /\ PartitionRecords \in Nat
      /\ Len(dump.sent) < dump.size /\ dump.size <= PartitionRecords + 1
  BY LenProperties, LoggerAssumption DEF DumpInv, Dumps
<1>2. Len(dump.sent) \in 0 .. PartitionRecords BY <1>1
<1>3. Chunk(Len(dump.sent)) \in Chunks /\ (Len(dump.sent) = 0 => GoodHeader(Chunk(Len(dump.sent))))
  BY <1>2, ChunkFacts
<1>4. /\ sent \in Seq(Chunks) /\ Len(sent) = Len(dump.sent) + 1
      /\ \A i \in 1 .. Len(dump.sent) : sent[i] = dump.sent[i]
      /\ sent[Len(dump.sent) + 1] = Chunk(Len(dump.sent))
  BY <1>3, AppendProperties DEF DumpInv, Dumps
<1>5. GoodHeader(sent[1])
  <2>1. CASE Len(dump.sent) = 0 BY <2>1, <1>3, <1>4
  <2>2. CASE Len(dump.sent) # 0
    <3>1. 1 \in 1 .. Len(dump.sent) BY <2>2, <1>1
    <3>2. dump.sent # <<>> BY <2>2, NoRecords
    <3> QED BY <3>1, <3>2, <1>4 DEF DumpInv
  <2> QED BY <2>1, <2>2
<1> QED BY <1>1, <1>4, <1>5

\* While the dump is asked for, the log it names is complete.
LEMMA RunMovesOn ==
    ASSUME LoggerInv, Control \/ Worker
    PROVE  /\ run' \in Nat /\ run \in Nat /\ run' >= run
           /\ \/ run' > run
              \/ state # "complete"
              \/ UNCHANGED <<state, run, written, payload, header>>
<1>a. FieldInv /\ CallInv /\ JobInv BY DEF LoggerInv
<1>b. run \in Nat BY <1>a DEF FieldInv
<1>1. CASE Prepare
  <2>1. run' = run + 1 BY <1>1 DEF Prepare
  <2> QED BY <2>1, <1>b
<1>2. CASE Start \/ RecordSends \/ RecordBegins \/ StopBegins \/ StopEnds
  <2>1. state # "complete" /\ run' = run
    BY <1>2, <1>a DEF Start, RecordSends, RecordBegins, StopBegins, StopEnds, CallInv
  <2> QED BY <2>1, <1>b
<1>3. CASE SetFlashWritesAllowed
  <2>1. UNCHANGED <<state, run, written, payload, header>>
    BY <1>3 DEF SetFlashWritesAllowed, flash
  <2> QED BY <2>1, <1>b
<1>4. CASE Erase \/ Write \/ Finalize
  <2>1. state # "complete" /\ run' = run
    BY <1>4, <1>a DEF Erase, Write, Finalize, control, JobInv
  <2> QED BY <2>1, <1>b
<1>5. CASE LookErase \/ LookWrite \/ LookFinalize
  <2>1. UNCHANGED <<state, run, written, payload, header>>
    BY <1>5 DEF LookErase, LookWrite, LookFinalize, Decide, control, flash
  <2> QED BY <2>1, <1>b
<1> QED BY <1>1, <1>2, <1>3, <1>4, <1>5 DEF Control, Worker

LEMMA NoDumpFacts == NoDump = [at |-> "none", size |-> 0, sent |-> <<>>, ended |-> FALSE, since |-> 0]
                     /\ <<>> \in Seq(Chunks) /\ Len(<<>>) = 0
BY EmptySeq DEF NoDump

\* What a dump is, one field after the other.
LEMMA DumpFields ==
    ASSUME DumpInv
    PROVE  /\ dump.at \in {"none", "open", "check", "read"}
           /\ dump.size \in 0 .. PartitionRecords + 1
           /\ dump.sent \in Seq(Chunks) /\ Len(dump.sent) \in Nat
           /\ dump.ended \in BOOLEAN
           /\ dump.since \in 0 .. MaxRuns
BY LenProperties DEF DumpInv, Dumps

LEMMA LogicalSizeFacts ==
    ASSUME LoggerInv
    PROVE  /\ LogicalSize \in 0 .. PartitionRecords + 1
           /\ state = "complete" => LogicalSize = written + 1
<1>1. /\ written \in Nat /\ max \in Nat /\ PartitionRecords \in Nat /\ max <= PartitionRecords
      /\ Len(accepted) \in Nat /\ Len(stream) \in Nat
      /\ written + Len(stream) <= Len(accepted) /\ Len(accepted) <= max
  BY LenProperties, LoggerAssumption DEF LoggerInv, SizeInv
<1> QED BY <1>1 DEF LogicalSize

LEMMA DumpTaskStep ==
    ASSUME LoggerInv, DumpInv, FreshInv, DumpTask
    PROVE  DumpInv' /\ FreshInv'
<1>a. UNCHANGED <<state, run, written, payload, header>>
  BY DEF DumpTask, Open, CheckChunk, ReadChunk, EndDump, vars, flash
<1>b. /\ dump.size \in 0 .. PartitionRecords + 1
      /\ dump.sent \in Seq(Chunks) /\ Len(dump.sent) \in Nat
      /\ dump.since \in 0 .. MaxRuns
  BY DumpFields
<1>c. \A i \in Nat : Chunk(i)' = Chunk(i) BY <1>a DEF Chunk
<1>1. CASE Open
  <2>1. LogicalSize \in 0 .. PartitionRecords + 1 /\ (state = "complete" => LogicalSize = written + 1)
    BY LogicalSizeFacts
  <2>2. dump' = [dump EXCEPT !.at = "check", !.size = LogicalSize] /\ dump.at = "open"
    BY <1>1 DEF Open
  <2>3. PICK size \in 0 .. PartitionRecords + 1 :
           size = LogicalSize /\ (state = "complete" => size = written + 1)
    BY <2>1
  <2>4. dump' = [dump EXCEPT !.at = "check", !.size = size] BY <2>2, <2>3
  <2>5. /\ dump' \in Dumps /\ dump'.at = "check" /\ dump'.size = size /\ dump'.sent = dump.sent
        /\ dump'.ended = dump.ended /\ dump'.since = dump.since
    BY <2>4 DEF DumpInv, Dumps
  <2>6. dump.sent = <<>> /\ Len(dump.sent) = 0 /\ ~dump.ended /\ dump.since <= run
    BY <2>2, NoRecords DEF DumpInv
  <2>7. DumpInv'
    <3>1. Len(dump'.sent) <= dump'.size BY <2>3, <2>5, <2>6
    <3> QED BY <1>a, <2>5, <2>6, <3>1 DEF DumpInv
  <2>8. FreshInv'
    <3>1. dump.since = run => state = "complete" BY <2>2 DEF FreshInv
    <3>2. \A i \in 1 .. Len(dump'.sent) : FALSE BY <2>5, <2>6
    <3> QED BY <1>a, <2>3, <2>5, <3>1, <3>2 DEF FreshInv
  <2> QED BY <2>7, <2>8
<1>2. CASE CheckChunk
  <2>1. PICK at \in {"read", "none"} : dump' = [dump EXCEPT !.at = at]
    BY <1>2 DEF CheckChunk
  <2>2. dump.at = "check" /\ Len(dump.sent) < dump.size BY <1>2 DEF CheckChunk, Remaining
  <2>3. /\ dump' \in Dumps /\ dump'.at = at /\ dump'.size = dump.size /\ dump'.sent = dump.sent
        /\ dump'.ended = dump.ended /\ dump'.since = dump.since
    BY <2>1 DEF DumpInv, Dumps
  <2>4. DumpInv' BY <1>a, <2>2, <2>3 DEF DumpInv
  <2>5. FreshInv' BY <1>a, <1>b, <1>c, <2>2, <2>3 DEF FreshInv
  <2> QED BY <2>4, <2>5
<1>3. CASE ReadChunk
  <2>1. dump.at = "read" BY <1>3 DEF ReadChunk
  <2>2. ~dump.ended /\ dump.since <= run BY <2>1 DEF DumpInv
  <2>3. CASE dump' = [dump EXCEPT !.at = "none"]
    <3>1. /\ dump' \in Dumps /\ dump'.at = "none" /\ dump'.size = dump.size
          /\ dump'.sent = dump.sent /\ dump'.ended = dump.ended /\ dump'.since = dump.since
      BY <2>3 DEF DumpInv, Dumps
    <3>2. DumpInv' BY <1>a, <2>2, <3>1 DEF DumpInv
    <3>3. FreshInv' BY <2>2, <3>1 DEF FreshInv
    <3> QED BY <3>2, <3>3
  <2>4. CASE dump' = [dump EXCEPT !.at = "check", !.sent = Append(@, Chunk(Len(@)))]
    <3>1. PICK sent : sent = Append(dump.sent, Chunk(Len(dump.sent))) OBVIOUS
    <3>2. /\ sent \in Seq(Chunks) /\ Len(sent) = Len(dump.sent) + 1
          /\ Len(sent) <= dump.size
          /\ GoodHeader(sent[1])
          /\ \A i \in 1 .. Len(dump.sent) : sent[i] = dump.sent[i]
          /\ sent[Len(dump.sent) + 1] = Chunk(Len(dump.sent))
      BY <2>1, <3>1, SentFacts
    <3>3. dump' = [dump EXCEPT !.at = "check", !.sent = sent] BY <2>4, <3>1
    <3>4. /\ dump' \in Dumps /\ dump'.at = "check" /\ dump'.size = dump.size
          /\ dump'.sent = sent /\ dump'.ended = dump.ended /\ dump'.since = dump.since
      BY <3>2, <3>3 DEF DumpInv, Dumps
    <3>5. DumpInv' BY <1>a, <2>2, <3>2, <3>4 DEF DumpInv
    <3>6. ASSUME dump.since = run
          PROVE  /\ state = "complete" /\ dump.size = written + 1
                 /\ \A i \in 1 .. Len(sent) : sent[i] = Chunk(i - 1)
      <4>1. /\ state = "complete" /\ dump.size = written + 1
            /\ \A i \in 1 .. Len(dump.sent) : dump.sent[i] = Chunk(i - 1)
        BY <2>1, <3>6 DEF FreshInv
      <4>2. ASSUME NEW i \in 1 .. Len(sent) PROVE sent[i] = Chunk(i - 1)
        <5>1. i \in 1 .. Len(dump.sent) \/ (i = Len(dump.sent) + 1 /\ i - 1 = Len(dump.sent))
          BY <1>b, <3>2
        <5> QED BY <3>2, <4>1, <5>1
      <4> QED BY <4>1, <4>2
    <3>7. \A i \in 1 .. Len(sent) : i - 1 \in Nat BY <1>b, <3>2
    <3>8. FreshInv'
      <4>1. ASSUME dump'.since = run'
            PROVE  /\ state' = "complete" /\ dump'.size = written' + 1
                   /\ \A i \in 1 .. Len(dump'.sent) : dump'.sent[i] = Chunk(i - 1)'
        BY <1>a, <1>c, <3>4, <3>6, <3>7, <4>1
      <4> QED BY <4>1 DEF FreshInv
    <3> QED BY <3>5, <3>8
  <2> QED BY <1>3, <2>3, <2>4 DEF ReadChunk
<1>4. CASE EndDump
  <2>1. PICK ended \in BOOLEAN : dump' = [dump EXCEPT !.at = "none", !.ended = ended]
    BY <1>4 DEF EndDump
  <2>2. dump.at = "check" /\ ~(Len(dump.sent) < dump.size) BY <1>4 DEF EndDump, Remaining
  <2>3. Len(dump.sent) = dump.size /\ dump.since <= run BY <1>b, <2>2 DEF DumpInv
  <2>4. /\ dump' \in Dumps /\ dump'.at = "none" /\ dump'.size = dump.size
        /\ dump'.sent = dump.sent /\ dump'.since = dump.since
    BY <2>1 DEF DumpInv, Dumps
  <2>5. DumpInv' BY <1>a, <2>3, <2>4 DEF DumpInv
  <2>6. FreshInv'
    <3>1. \A i \in 1 .. Len(dump.sent) : i - 1 \in Nat BY <1>b
    <3>2. ASSUME dump'.since = run'
          PROVE  /\ state' = "complete" /\ dump'.size = written' + 1
                 /\ \A i \in 1 .. Len(dump'.sent) : dump'.sent[i] = Chunk(i - 1)'
      BY <1>a, <1>c, <2>2, <2>4, <3>1, <3>2 DEF FreshInv
    <3> QED BY <3>2 DEF FreshInv
  <2> QED BY <2>5, <2>6
<1> QED BY <1>1, <1>2, <1>3, <1>4 DEF DumpTask

\* A step of the logger ends the freshness of a dump only by beginning a new run.
LEMMA LoggerStepKeepsDump ==
    ASSUME LoggerInv, DumpInv, FreshInv, Control \/ Worker, UNCHANGED dump
    PROVE  DumpInv' /\ FreshInv'
<1>1. /\ run' \in Nat /\ run \in Nat /\ run' >= run
      /\ \/ run' > run
         \/ state # "complete"
         \/ UNCHANGED <<state, run, written, payload, header>>
  BY RunMovesOn
<1>2. dump.since \in Nat /\ Len(dump.sent) \in Nat BY DumpFields
<1>3. DumpInv'
  <2>1. dump.since <= run => dump.since <= run' BY <1>1, <1>2
  <2> QED BY <2>1 DEF DumpInv
<1>4. FreshInv'
  <2> SUFFICES ASSUME dump.at # "none" \/ dump.ended, dump.since = run'
               PROVE  FreshInv'
    BY DEF FreshInv
  <2>1. dump.since <= run BY DEF DumpInv
  <2>2. run' = run BY <1>1, <1>2, <2>1
  <2>3. state = "complete" BY <2>2 DEF FreshInv
  <2>4. UNCHANGED <<state, run, written, payload, header>>
    <3>1. ~(run' > run) BY <1>1, <2>2
    <3> QED BY <1>1, <2>3, <3>1
  <2> QED BY <2>4 DEF FreshInv, Chunk
<1> QED BY <1>3, <1>4

LEMMA NewDump ==
    ASSUME NEW since \in 0 .. MaxRuns, NEW at \in {"none", "open"}
    PROVE  \A d : d = [at |-> at, size |-> 0, sent |-> <<>>, ended |-> FALSE, since |-> since] =>
              /\ d \in Dumps /\ d.at = at /\ d.since = since /\ d.sent = <<>>
              /\ Len(d.sent) = 0 /\ d.size = 0 /\ ~d.ended
<1>1. 0 \in 0 .. PartitionRecords + 1 BY LoggerAssumption
<1> QED BY <1>1, NoDumpFacts DEF Dumps

LEMMA DumpStep == Inv /\ [DumpNext]_dumpVars => Inv'
<1> SUFFICES ASSUME Inv, [DumpNext]_dumpVars PROVE Inv' OBVIOUS
<1>a. LoggerInv /\ DumpInv /\ FreshInv BY DEF Inv
<1>b. LoggerInv' BY <1>a, DumpStepsAreLogger, LoggerStep
<1>1. CASE (Control \/ Worker) /\ UNCHANGED dump
  BY <1>1, <1>a, <1>b, LoggerStepKeepsDump DEF Inv
<1>2. CASE DumpTask BY <1>2, <1>a, <1>b, DumpTaskStep DEF Inv
<1>3. CASE DumpCommand
  <2>1. run \in 0 .. MaxRuns BY <1>a DEF LoggerInv, FieldInv
  <2>2. /\ state = "complete" /\ UNCHANGED vars
        /\ dump' = [at |-> "open", size |-> 0, sent |-> <<>>, ended |-> FALSE, since |-> run]
    BY <1>3 DEF DumpCommand, NoDump
  <2>3. /\ dump' \in Dumps /\ dump'.at = "open" /\ dump'.since = run /\ dump'.sent = <<>>
        /\ Len(dump'.sent) = 0 /\ dump'.size = 0 /\ ~dump'.ended
    BY <2>1, <2>2, NewDump
  <2>4. state' = "complete" /\ run' = run BY <2>2 DEF vars
  <2>5. run <= run BY <2>1
  <2>6. DumpInv' BY <2>3, <2>4, <2>5 DEF DumpInv
  <2>7. FreshInv' BY <2>3, <2>4 DEF FreshInv
  <2> QED BY <1>b, <2>6, <2>7 DEF Inv
<1>4. CASE Restart /\ dump' = NoDump
  <2>1. dump' = [at |-> "none", size |-> 0, sent |-> <<>>, ended |-> FALSE, since |-> 0]
    BY <1>4 DEF NoDump
  <2>2. 0 \in 0 .. MaxRuns BY LoggerAssumption
  <2>3. /\ dump' \in Dumps /\ dump'.at = "none" /\ dump'.sent = <<>>
        /\ Len(dump'.sent) = 0 /\ dump'.size = 0 /\ ~dump'.ended
    BY <2>1, <2>2, NewDump
  <2>4. DumpInv' BY <2>3 DEF DumpInv
  <2>5. FreshInv' BY <2>3 DEF FreshInv
  <2> QED BY <1>b, <2>4, <2>5 DEF Inv
<1>5. CASE UNCHANGED dumpVars
  <2>1. UNCHANGED <<state, run, written, payload, header, dump>> BY <1>5 DEF dumpVars, vars
  <2>2. DumpInv' BY <2>1, <1>a DEF DumpInv
  <2>3. FreshInv' BY <2>1, <1>a DEF FreshInv, Chunk
  <2> QED BY <1>b, <2>2, <2>3 DEF Inv
<1> QED BY <1>1, <1>2, <1>3, <1>4, <1>5 DEF DumpNext

LEMMA DumpStart == DumpInit => Inv
<1> SUFFICES ASSUME DumpInit PROVE Inv OBVIOUS
<1>1. LoggerInv BY LoggerInit DEF DumpInit
<1>2. dump = [at |-> "none", size |-> 0, sent |-> <<>>, ended |-> FALSE, since |-> 0]
  BY DEF DumpInit, NoDump
<1>3. 0 \in 0 .. MaxRuns BY LoggerAssumption
<1>4. /\ dump \in Dumps /\ dump.at = "none" /\ dump.sent = <<>>
      /\ Len(dump.sent) = 0 /\ dump.size = 0 /\ ~dump.ended
  BY <1>2, <1>3, NewDump
<1>5. DumpInv BY <1>4 DEF DumpInv
<1>6. FreshInv BY <1>4 DEF FreshInv
<1> QED BY <1>1, <1>5, <1>6 DEF Inv

\* The inductive invariant of the logger and the dump task together.
THEOREM DumpInvariant == DumpSpec => []Inv
BY DumpStart, DumpStep, PTL DEF DumpSpec

-----------------------------------------------------------------------------
(* What the dump promises *)

\* Type correctness, for every size of the buffers and the partition.
THEOREM DumpTypeCorrect == DumpSpec => []TypeOK
<1>1. Inv => TypeOK BY InvImpliesTypeOK DEF Inv
<1> QED BY <1>1, DumpInvariant, PTL

\* A log in state complete holds exactly what was accepted, under a header that
\* agrees with it, even when a flash error raced the stop (finalize).
THEOREM CompleteLogExact == DumpSpec => []CompleteLogIsExact
<1>1. Inv => CompleteLogIsExact BY InvImpliesExact DEF Inv
<1> QED BY <1>1, DumpInvariant, PTL

\* The logger implements the log that is published as it was recorded and then
\* frozen, also while it is read back.
THEOREM DumpImplementsRecordedLog == DumpSpec => ImplementsRecordedLog
BY DumpSpecRefinesLogger, LoggerImplementsRecordedLog, PTL

\* Whatever is erased or recorded while the dump is sent, a dump the host accepts
\* is one run's, from its first record on (logDumpTask, twlog.py decode_bytes).
THEOREM AcceptedDumpOneRun == DumpSpec => []AcceptedDumpIsOneRun
<1>1. Inv => AcceptedDumpIsOneRun
  <2> SUFFICES ASSUME Inv, HostAccepts
               PROVE  \E r \in 1 .. MaxRuns : Tail(dump.sent) = [i \in 1 .. dump.size - 1 |-> <<r, i>>]
    BY DEF AcceptedDumpIsOneRun
  <2>1. /\ dump.ended /\ dump.sent # <<>> /\ dump.sent[1].complete
        /\ Len(dump.sent) = 1 + dump.sent[1].count /\ dump.sent[1].crc = Tail(dump.sent)
    BY DEF HostAccepts
  <2>2. GoodHeader(dump.sent[1]) /\ Len(dump.sent) = dump.size BY <2>1 DEF Inv, DumpInv
  <2>3. dump.sent[1].count \in Nat
    <3>1. dump.sent[1] \in Headers BY <2>2 DEF GoodHeader
    <3> QED BY <3>1, LoggerAssumption DEF Headers
  <2>4. dump.size - 1 = dump.sent[1].count BY <2>1, <2>2, <2>3
  <2>5. PICK r \in 1 .. MaxRuns : dump.sent[1].crc = RunRecords(r, dump.sent[1].count)
    BY <2>1, <2>2 DEF GoodHeader
  <2> QED BY <2>1, <2>4, <2>5 DEF RunRecords
<1> QED BY <1>1, DumpInvariant, PTL

\* A dump that reaches its end while its run is still the last one prepared is
\* whole: the host accepts it.
THEOREM UndisturbedDumpAccepted == DumpSpec => []UndisturbedDumpIsAccepted
<1>1. Inv => UndisturbedDumpIsAccepted
  <2> SUFFICES ASSUME Inv, dump.ended, run = dump.since PROVE HostAccepts
    BY DEF UndisturbedDumpIsAccepted
  <2>1. LoggerInv /\ DumpInv /\ FreshInv BY DEF Inv
  <2>2. /\ state = "complete" /\ dump.size = written + 1 /\ Len(dump.sent) = dump.size
        /\ \A i \in 1 .. Len(dump.sent) : dump.sent[i] = Chunk(i - 1)
    BY <2>1 DEF FreshInv, DumpInv
  <2>3. /\ written = Len(accepted) /\ written \in Nat
        /\ header = [count |-> written, dropped |-> dropped, crc |-> crc, complete |-> TRUE]
    BY <2>1, <2>2 DEF LoggerInv, HeaderInv, SizeInv
  <2>4. dump.sent \in Seq(Chunks) BY <2>1, DumpFields
  <2>5. dump.sent # <<>> /\ 1 \in 1 .. Len(dump.sent) BY <2>2, <2>3, NoRecords
  <2>6. dump.sent[1] = header BY <2>2, <2>5 DEF Chunk
  <2>7. /\ Tail(dump.sent) \in Seq(Chunks) /\ Len(Tail(dump.sent)) = written
        /\ \A i \in 1 .. Len(Tail(dump.sent)) : Tail(dump.sent)[i] = dump.sent[i + 1]
    <3>1. /\ Tail(dump.sent) \in Seq(Chunks) /\ Len(Tail(dump.sent)) = Len(dump.sent) - 1
          /\ \A i \in 1 .. Len(Tail(dump.sent)) : Tail(dump.sent)[i] = dump.sent[i + 1]
      BY <2>4, <2>5, HeadTailProperties
    <3>2. Len(dump.sent) - 1 = written BY <2>2, <2>3
    <3> QED BY <3>1, <3>2
  <2>8. ASSUME NEW i \in 1 .. written PROVE Tail(dump.sent)[i] = payload[i]
    <3>1. i + 1 \in 1 .. Len(dump.sent) /\ i + 1 - 1 = i /\ i # 0 BY <2>2, <2>3
    <3>2. dump.sent[i + 1] = Chunk(i) BY <2>2, <3>1
    <3> QED BY <2>7, <3>1, <3>2 DEF Chunk
  <2>9. Tail(dump.sent) = Stored
    <3>1. Tail(dump.sent) \in [1 .. written -> Chunks] BY <2>7, LenProperties
    <3> QED BY <3>1, <2>8 DEF Stored
  <2>10. crc = Stored BY <2>1, <2>2, <2>3, FinalizedFacts
  <2>11. Len(dump.sent) = 1 + written BY <2>2, <2>3
  <2> QED BY <2>3, <2>5, <2>6, <2>9, <2>10, <2>11 DEF HostAccepts
<1> QED BY <1>1, DumpInvariant, PTL
=============================================================================
