---------------------------- MODULE MotorMailbox ----------------------------
(***************************************************************************)
(* The sequence-counter transport of MotorCommandMailbox and               *)
(* MotorObservationMailbox (triwhirl_core/motor_mailbox.hpp): one writer   *)
(* task, one reader task on the other core, every shared word a separate   *)
(* 32-bit atomic.  One action is one atomic access; seq_cst makes any      *)
(* interleaving of the accesses a behaviour and nothing else.              *)
(*                                                                         *)
(* A word holds the number of the publication that stored it (0: never     *)
(* stored), which is all that tells a whole snapshot from a torn one.      *)
(***************************************************************************)
EXTENDS Integers, Sequences

CONSTANTS
    Cells,            \* the payload words, in the order they are stored and loaded
    Attempts,         \* kSnapshotReadAttempts
    SeqModulus,       \* 2^32 in the code: sequence_ wraps
    MaxPublications      \* bound on the publications of a behaviour

ASSUME MailboxAssumption ==
    /\ Len(Cells) \in Nat \ {0}
    /\ Attempts \in Nat \ {0}
    /\ SeqModulus \in Nat /\ SeqModulus > 0 /\ SeqModulus % 2 = 0
    /\ MaxPublications \in Nat

\* The words of the two mailboxes, in store order.
CommandCells == <<"target", "generation", "issued_at", "flags">>
ObservationCells ==
    <<"shaft_velocity", "accepted_target", "observation_generation",
      "consumed_generation", "accept_latency", "service_start", "flags">>

VARIABLES
    sequence,         \* sequence_: odd while a write is in flight
    published,        \* published_: set once the first publication is whole
    words,            \* the payload cells
    writer,           \* where the writer stands in publishImpl
    stored,           \* how many words of the publication in flight are stored
    reader,           \* where the reader stands in tryRead
    attempt,          \* the reader's attempt number
    before,           \* the reader's local: sequence_ at the attempt's start
    loaded,           \* how many words the attempt has loaded
    candidate,        \* the reader's local snapshot
    accepted,         \* the snapshot the last successful tryRead returned
    closed,           \* history: publications completed so far
    opened            \* history: `closed` when the attempt loaded `before`

writerVars == <<writer, stored>>
readerVars == <<reader, attempt, before, loaded, candidate, accepted, opened>>
mailboxVars == <<sequence, published, words, closed, writerVars, readerVars>>

Index == 1..Len(Cells)
Whole(p) == [i \in Index |-> p]       \* the snapshot of publication p
Odd(n) == n % 2 = 1

MailboxInit ==
    /\ sequence = 0
    /\ published = FALSE
    /\ words = Whole(0)
    /\ writer = "idle" /\ stored = 0
    /\ reader = "idle" /\ attempt = 0 /\ before = 0 /\ loaded = 0
    /\ candidate = Whole(0) /\ accepted = Whole(0)
    /\ closed = 0 /\ opened = 0

-----------------------------------------------------------------------------
(* The writer: publishImpl, publish *)

\* sequence_ is compared modulo 2^32, so a reader suspended inside one attempt
\* for 2^31 publications (74 days at 333 Hz) could take a torn snapshot for a
\* whole one.  That is excluded here, and nothing else about relative speeds.
ReaderNotLapped ==
    reader = "load" => 2 * (closed + 1 - opened) < SeqModulus

BumpSequence == sequence' = (sequence + 1) % SeqModulus

\* Faulty: the cells are overwritten before the sequence is made odd.
UnmarkedOpenWrite ==
    /\ writer = "idle"
    /\ closed < MaxPublications
    /\ ReaderNotLapped
    /\ writer' = "store" /\ stored' = 0
    /\ UNCHANGED <<sequence, published, words, closed, readerVars>>

OpenWrite ==
    /\ writer = "idle"
    /\ closed < MaxPublications
    /\ ReaderNotLapped
    /\ BumpSequence
    /\ writer' = "store" /\ stored' = 0
    /\ UNCHANGED <<published, words, closed, readerVars>>

StoreWord ==
    /\ writer = "store" /\ stored < Len(Cells)
    /\ words' = [words EXCEPT ![stored + 1] = closed + 1]
    /\ stored' = stored + 1
    /\ UNCHANGED <<sequence, published, closed, writer, readerVars>>

\* Faulty: the second increment of sequence_ is forgotten.
UnmarkedCloseWrite ==
    /\ writer = "store" /\ stored = Len(Cells)
    /\ closed' = closed + 1
    /\ writer' = "flag"
    /\ UNCHANGED <<sequence, published, words, stored, readerVars>>

CloseWrite ==
    /\ writer = "store" /\ stored = Len(Cells)
    /\ BumpSequence
    /\ closed' = closed + 1
    /\ writer' = "flag"
    /\ UNCHANGED <<published, words, stored, readerVars>>

SetPublished ==
    /\ writer = "flag"
    /\ published' = TRUE
    /\ writer' = "idle"
    /\ UNCHANGED <<sequence, words, closed, stored, readerVars>>

FinishWrite == StoreWord \/ CloseWrite \/ SetPublished

-----------------------------------------------------------------------------
(* The reader: tryRead *)

\* tryRead's first check.  An unpublished mailbox returns false at once, which
\* changes nothing and is a stuttering step.
TryRead ==
    /\ reader = "idle" /\ published
    /\ reader' = "before" /\ attempt' = 1
    /\ UNCHANGED <<sequence, published, words, closed, writerVars,
                   before, loaded, candidate, accepted, opened>>

\* Faulty: spin until a snapshot is whole.
SpinNextAttempt == reader' = "before" /\ UNCHANGED attempt

\* `continue` of the retry loop, or the `return false` after it.
NextAttempt ==
    IF attempt < Attempts
    THEN reader' = "before" /\ attempt' = attempt + 1
    ELSE reader' = "idle" /\ attempt' = 0

LoadBefore ==
    /\ reader = "before"
    /\ before' = sequence
    /\ opened' = closed
    /\ loaded' = 0
    /\ candidate' = Whole(0)
    /\ IF Odd(sequence)
       THEN NextAttempt
       ELSE reader' = "load" /\ UNCHANGED attempt
    /\ UNCHANGED <<sequence, published, words, closed, writerVars, accepted>>

LoadWord ==
    /\ reader = "load" /\ loaded < Len(Cells)
    /\ candidate' = [candidate EXCEPT ![loaded + 1] = words[loaded + 1]]
    /\ loaded' = loaded + 1
    /\ UNCHANGED <<sequence, published, words, closed, writerVars,
                   reader, attempt, before, accepted, opened>>

\* Faulty: the second load of sequence_ is left out.
UncheckedLoadAfter ==
    /\ reader = "load" /\ loaded = Len(Cells)
    /\ accepted' = candidate
    /\ reader' = "idle" /\ attempt' = 0
    /\ UNCHANGED <<sequence, published, words, closed, writerVars,
                   before, loaded, candidate, opened>>

\* The second load of sequence_ decides the attempt.
LoadAfter ==
    /\ reader = "load" /\ loaded = Len(Cells)
    /\ IF sequence = before /\ ~Odd(sequence)
       THEN /\ accepted' = candidate
            /\ reader' = "idle" /\ attempt' = 0
       ELSE NextAttempt /\ UNCHANGED accepted
    /\ UNCHANGED <<sequence, published, words, closed, writerVars,
                   before, loaded, candidate, opened>>

ReadStep == LoadBefore \/ LoadWord \/ LoadAfter

MailboxNext == OpenWrite \/ FinishWrite \/ TryRead \/ ReadStep

MailboxSpec == MailboxInit /\ [][MailboxNext]_mailboxVars

\* The reader's task keeps running on its own core: a read that has begun goes on.
ReaderRuns == WF_mailboxVars(ReadStep)

\* Both tasks keep running: the reader polls at every release and a publication
\* that has begun is finished.  No publication ever has to begin.
BothRun == ReaderRuns /\ WF_mailboxVars(TryRead) /\ WF_mailboxVars(FinishWrite)

-----------------------------------------------------------------------------
(* Properties *)

Snapshots == [Index -> 0..MaxPublications]

MailboxTypeOK ==
    /\ sequence \in 0..(SeqModulus - 1)
    /\ published \in BOOLEAN
    /\ words \in Snapshots
    /\ writer \in {"idle", "store", "flag"}
    /\ stored \in 0..Len(Cells)
    /\ reader \in {"idle", "before", "load"}
    /\ attempt \in 0..Attempts
    /\ before \in 0..(SeqModulus - 1)
    /\ loaded \in 0..Len(Cells)
    /\ candidate \in Snapshots
    /\ accepted \in Snapshots
    /\ closed \in 0..MaxPublications
    /\ opened \in 0..MaxPublications

\* A snapshot tryRead returned is never torn: all its words were stored by the
\* same publication, whatever the interleaving of the two cores' accesses.
SnapshotCoherent == \E p \in 0..MaxPublications : accepted = Whole(p)

\* The publication the reader holds, and -1, which no register returns, for a
\* torn snapshot.
AcceptedPublication ==
    IF accepted = Whole(accepted[1]) THEN accepted[1] ELSE -1

Register == INSTANCE LatestValue WITH MaxPublishes <- MaxPublications, latest <- closed,
                                      accepted <- AcceptedPublication

\* The transport is an atomic latest-value register: a read that succeeds returns
\* the publication that is newest at its last load, so snapshots never go back
\* in time and one that was current when the read began is never missed.
ImplementsLatestValue == Register!Spec

\* tryRead is bounded: nothing is assumed of the writer, which may stop half way
\* through a publication for ever, and a read returns all the same.
ReadReturns == ReaderRuns => ((reader # "idle") ~> (reader = "idle"))

\* Once the writer rests, a polling reader ends up with the newest publication,
\* so the retry budget delays a command but never loses the last one.
LastPublicationArrives ==
    BothRun =>
        \A p \in 1..MaxPublications :
            (closed = p) ~> (closed > p \/ accepted = Whole(p))

\* No read hangs on a writer, and no writer's last word is lost on a reader.
ReadsGetThrough == ReadReturns /\ LastPublicationArrives
=============================================================================
