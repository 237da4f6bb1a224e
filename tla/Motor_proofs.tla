---------------------------- MODULE Motor_proofs ----------------------------
(***************************************************************************)
(* Proofs about the motor: the mailboxes between the control task and the  *)
(* motor task, the motor task itself, and the commissioning of a motor.    *)
(*                                                                         *)
(* MotorMailbox, for every payload size, retry budget, even sequence       *)
(* modulus and number of publications: a snapshot is never torn, a read    *)
(* takes a bounded number of loads, and the transport implements the       *)
(* atomic register of LatestValue.                                         *)
(*                                                                         *)
(* MotorExecution, for every timeout, clock, number of commands and set of *)
(* backend outcomes: what a service leaves energised was asked for and is  *)
(* supported, a fault ends authority for good, a stop is binding and       *)
(* authority is recent.                                                    *)
(*                                                                         *)
(* MotorCommissioning, for any number of jobs and stops: a job that was    *)
(* asked to stop starts no leg, though a backend it has yet to begin is    *)
(* still aligned, and its result says so.  The two flags are not tied to a *)
(* job; what ties them is where the task stands when they change.          *)
(***************************************************************************)
EXTENDS MotorMailbox, MotorExecution, MotorCommissioning, TLAPS

-----------------------------------------------------------------------------
(* Euclidean division, which the wrap of the sequence number rests on *)

\* Quotient and remainder, as the wrapping counters use them.
LEMMA DivisionFact ==
    ASSUME NEW m \in Nat, m > 0, NEW a \in Int
    PROVE  /\ a = m * (a \div m) + (a % m)
           /\ a % m \in 0..(m - 1)
           /\ a \div m \in Int
    OBVIOUS

\* A positive multiple of a modulus is no smaller than it.
LEMMA MultipleFact ==
    ASSUME NEW m \in Nat, NEW d \in Int, d >= 1
    PROVE  m * d >= m
    OBVIOUS

\* Quotient and remainder are unique: a wrapped value is known by its remainder.
LEMMA RemainderUnique ==
    ASSUME NEW m \in Nat, m > 0, NEW q \in Int, NEW r \in 0..(m - 1)
    PROVE  (m * q + r) % m = r
<1> DEFINE x == m * q + r
           d == (x \div m) - q
<1>1. /\ x \in Int /\ d \in Int
      /\ x % m \in 0..(m - 1)
      /\ m * d = r - (x % m)
  <2>1. x \in Int OBVIOUS
  <2>2. x = m * (x \div m) + (x % m) /\ x % m \in 0..(m - 1) /\ x \div m \in Int
    BY <2>1, DivisionFact
  <2>3. m * d = m * (x \div m) - m * q BY <2>2
  <2> QED BY <2>1, <2>2, <2>3
<1> HIDE DEF x, d
<1>2. ~(d >= 1)
  BY <1>1, MultipleFact
<1>3. ~(-d >= 1)
  <2>1. m * (-d) = (x % m) - r BY <1>1
  <2> QED BY <1>1, <2>1, MultipleFact
<1>4. d = 0 BY <1>1, <1>2, <1>3
<1>5. x % m = r BY <1>1, <1>4
<1> QED BY <1>5 DEF x

\* Two counts less than a whole turn apart that wrap to the same value are equal.
LEMMA SameRemainder ==
    ASSUME NEW m \in Nat, m > 0, NEW a \in Int, NEW b \in Int,
           a <= b, b - a < m, a % m = b % m
    PROVE  a = b
<1> DEFINE d == (b \div m) - (a \div m)
<1>1. d \in Int /\ b - a = m * d
  BY DivisionFact
<1> HIDE DEF d
<1>2. ~(d >= 1) BY <1>1, MultipleFact
<1>3. ~(-d >= 1)
  <2>1. m * (-d) = a - b BY <1>1
  <2> QED BY <1>1, <2>1, MultipleFact
<1>4. d = 0 BY <1>1, <1>2, <1>3
<1> QED BY <1>1, <1>4

\* Incrementing the wrapped value is wrapping the incremented value.
LEMMA WrapStep ==
    ASSUME NEW m \in Nat, m > 0, NEW a \in Int
    PROVE  ((a % m) + 1) % m = (a + 1) % m
<1> DEFINE q == a \div m
           r == a % m
<1>1. a = m * q + r /\ r \in 0..(m - 1) /\ q \in Int
  BY DivisionFact
<1> HIDE DEF q, r
<1>2. CASE r + 1 = m
  <2>1. a + 1 = m * (q + 1) + 0 /\ r + 1 = m * 1 + 0 BY <1>1, <1>2
  <2>2. (m * (q + 1) + 0) % m = 0 BY <1>1, RemainderUnique
  <2>3. (m * 1 + 0) % m = 0 BY RemainderUnique
  <2>4. (r + 1) % m = (a + 1) % m BY <2>1, <2>2, <2>3
  <2> QED BY <2>4 DEF r
<1>3. CASE r + 1 < m
  <2>1. a + 1 = m * q + (r + 1) /\ r + 1 \in 0..(m - 1) /\ r + 1 = m * 0 + (r + 1)
    BY <1>1, <1>3
  <2>2. (m * q + (r + 1)) % m = r + 1 BY <1>1, <2>1, RemainderUnique
  <2>3. (m * 0 + (r + 1)) % m = r + 1 BY <2>1, RemainderUnique
  <2>4. (r + 1) % m = (a + 1) % m BY <2>1, <2>2, <2>3
  <2> QED BY <2>4 DEF r
<1> QED BY <1>1, <1>2, <1>3

-----------------------------------------------------------------------------
(* The inductive invariant *)

\* How often sequence_ has been incremented.
Bumps == 2 * closed + (IF writer = "store" THEN 1 ELSE 0)

SequenceCounts == sequence = Bumps % SeqModulus

WordsHeld ==
    words = [i \in Index |->
               IF writer = "store" /\ i <= stored THEN closed + 1 ELSE closed]

WriterBounded == writer = "store" => closed < MaxPublications

PublishedOnce ==
    /\ (published \/ writer = "flag") => closed > 0
    /\ reader # "idle" => published

\* What an attempt under way knows: unless a write has begun since `before` was
\* loaded, every word loaded so far belongs to publication `closed`.
AttemptHeld ==
    reader = "load" =>
        /\ before = (2 * opened) % SeqModulus
        /\ opened <= closed
        /\ Bumps - 2 * opened < SeqModulus
        /\ writer = "store" => 2 * (closed + 1 - opened) < SeqModulus
        /\ (opened = closed /\ writer # "store") =>
               \A i \in 1..loaded : candidate[i] = closed

MailboxInv == /\ MailboxTypeOK
        /\ SequenceCounts
        /\ WordsHeld
        /\ WriterBounded
        /\ PublishedOnce
        /\ AttemptHeld
        /\ SnapshotCoherent

LEMMA MailboxConstantFacts ==
    /\ Len(Cells) \in Nat /\ Len(Cells) >= 1
    /\ Attempts \in Nat /\ Attempts >= 1
    /\ SeqModulus \in Nat /\ SeqModulus > 0
    /\ MaxPublications \in Nat
    /\ 1 \in Index
  BY MailboxAssumption DEF Index

\* The parity of sequence_ survives its wrap, because the modulus is even.
LEMMA EvenModulusParity ==
    ASSUME NEW a \in Nat
    PROVE  (a % SeqModulus) % 2 = a % 2
<1> DEFINE m == SeqModulus
           k == m \div 2
           q == a \div m
           r == a % m
<1>1. m \in Nat /\ m > 0 /\ k \in Int /\ m = 2 * k
  <2>1. m \in Nat /\ m > 0 /\ m % 2 = 0 BY MailboxAssumption
  <2> QED BY <2>1, DivisionFact
<1>2. a = m * q + r /\ q \in Int /\ r \in Int
  BY <1>1, DivisionFact
<1>3. r = 2 * (r \div 2) + (r % 2) /\ r \div 2 \in Int /\ (r % 2) \in 0..1
  BY <1>2, DivisionFact
<1> HIDE DEF m, k, q, r
<1>4. m * q = 2 * (k * q) BY <1>1, <1>2
<1>5. a = 2 * (k * q + (r \div 2)) + (r % 2) BY <1>1, <1>2, <1>3, <1>4
<1>6. k * q + (r \div 2) \in Int BY <1>1, <1>2, <1>3
<1>7. a % 2 = r % 2
  <2> DEFINE h == k * q + (r \div 2)
             b == r % 2
  <2>1. h \in Int /\ b \in 0..(2 - 1) /\ a = 2 * h + b
    BY <1>3, <1>5, <1>6
  <2> HIDE DEF h, b
  <2>2. (2 * h + b) % 2 = b BY <2>1, RemainderUnique
  <2> QED BY <2>1, <2>2 DEF b
<1> QED BY <1>7 DEF r, m

LEMMA BumpsType == MailboxTypeOK => Bumps \in Nat
  BY MailboxConstantFacts DEF MailboxTypeOK, Bumps

\* Incrementing sequence_ is counting one more increment.
LEMMA BumpCounts ==
    ASSUME MailboxTypeOK, SequenceCounts, BumpSequence, Bumps' = Bumps + 1
    PROVE  SequenceCounts' /\ sequence' \in 0..(SeqModulus - 1)
<1>1. Bumps \in Nat BY BumpsType
<1>2. sequence' = (Bumps + 1) % SeqModulus
  <2>1. Bumps \in Int /\ SeqModulus \in Nat /\ SeqModulus > 0
    BY <1>1, MailboxConstantFacts
  <2>2. ((Bumps % SeqModulus) + 1) % SeqModulus = (Bumps + 1) % SeqModulus
    BY <2>1, WrapStep, Zenon
  <2> QED BY <2>2 DEF SequenceCounts, BumpSequence
<1>3. (Bumps + 1) % SeqModulus \in 0..(SeqModulus - 1)
  BY <1>1, DivisionFact, MailboxConstantFacts
<1> QED BY <1>2, <1>3 DEF SequenceCounts

LEMMA InitMailboxInv == MailboxInit => MailboxInv
<1> SUFFICES ASSUME MailboxInit PROVE MailboxInv OBVIOUS
<1>1. MailboxTypeOK
  <2>1. Whole(0) \in Snapshots BY MailboxConstantFacts DEF Whole, Snapshots
  <2>2. 0 \in 0..(SeqModulus - 1) /\ 0 \in 0..Len(Cells)
        /\ 0 \in 0..Attempts /\ 0 \in 0..MaxPublications
    BY MailboxConstantFacts
  <2> QED BY <2>1, <2>2 DEF MailboxInit, MailboxTypeOK
<1>2. SequenceCounts
  <2>1. Bumps = 0 BY DEF MailboxInit, Bumps
  <2>2. (SeqModulus * 0 + 0) % SeqModulus = 0 BY MailboxConstantFacts, RemainderUnique
  <2>3. 0 % SeqModulus = 0 BY <2>2, MailboxConstantFacts
  <2> QED BY <2>1, <2>3 DEF MailboxInit, SequenceCounts
<1>3. WordsHeld BY DEF MailboxInit, WordsHeld, Whole
<1>4. WriterBounded /\ PublishedOnce /\ AttemptHeld
  BY DEF MailboxInit, WriterBounded, PublishedOnce, AttemptHeld
<1>5. SnapshotCoherent BY MailboxConstantFacts DEF MailboxInit, SnapshotCoherent
<1> QED BY <1>1, <1>2, <1>3, <1>4, <1>5 DEF MailboxInv

-----------------------------------------------------------------------------
(* Each action preserves the invariant *)

LEMMA OpenWriteIInv == MailboxInv /\ OpenWrite => MailboxInv'
<1> SUFFICES ASSUME MailboxInv, OpenWrite PROVE MailboxInv' OBVIOUS
<1> USE DEF MailboxInv, OpenWrite, readerVars
<1>1. Bumps' = Bumps + 1 BY DEF MailboxTypeOK, Bumps
<1>2. SequenceCounts' /\ sequence' \in 0..(SeqModulus - 1) BY <1>1, BumpCounts
<1>3. MailboxTypeOK' BY <1>2, MailboxConstantFacts DEF MailboxTypeOK
<1>4. WordsHeld'
  BY DEF WordsHeld, MailboxTypeOK, Index
<1>5. WriterBounded' /\ PublishedOnce' /\ SnapshotCoherent'
  BY DEF WriterBounded, PublishedOnce, SnapshotCoherent
<1>6. AttemptHeld'
  BY MailboxConstantFacts DEF AttemptHeld, ReaderNotLapped, Bumps, MailboxTypeOK
<1> QED BY <1>2, <1>3, <1>4, <1>5, <1>6

LEMMA StoreWordIInv == MailboxInv /\ StoreWord => MailboxInv'
<1> SUFFICES ASSUME MailboxInv, StoreWord PROVE MailboxInv' OBVIOUS
<1> USE DEF MailboxInv, StoreWord, readerVars
<1>1. stored + 1 \in Index /\ closed + 1 \in 0..MaxPublications
  BY MailboxConstantFacts DEF Index, MailboxTypeOK, WriterBounded
<1>2. MailboxTypeOK' BY <1>1, MailboxConstantFacts DEF MailboxTypeOK, Snapshots
<1>3. WordsHeld'
  <2>1. stored \in Nat /\ Index \subseteq Int
    BY MailboxConstantFacts DEF MailboxTypeOK, Index
  <2>2. words' = [i \in Index |-> IF i = stored + 1 THEN closed + 1 ELSE words[i]]
    BY DEF MailboxTypeOK, Snapshots
  <2>3. \A i \in Index : i <= stored + 1 <=> (i <= stored \/ i = stored + 1)
    BY <2>1
  <2> QED BY <2>2, <2>3 DEF WordsHeld
<1>4. SequenceCounts' /\ AttemptHeld'
  BY DEF SequenceCounts, AttemptHeld, Bumps
<1>5. WriterBounded' /\ PublishedOnce' /\ SnapshotCoherent'
  BY DEF WriterBounded, PublishedOnce, SnapshotCoherent
<1> QED BY <1>2, <1>3, <1>4, <1>5

LEMMA CloseWriteIInv == MailboxInv /\ CloseWrite => MailboxInv'
<1> SUFFICES ASSUME MailboxInv, CloseWrite PROVE MailboxInv' OBVIOUS
<1> USE DEF MailboxInv, CloseWrite, readerVars
<1>1. Bumps' = Bumps + 1 BY DEF MailboxTypeOK, Bumps
<1>2. SequenceCounts' /\ sequence' \in 0..(SeqModulus - 1) BY <1>1, BumpCounts
<1>3. MailboxTypeOK' BY <1>2, MailboxConstantFacts DEF MailboxTypeOK, WriterBounded
<1>4. WordsHeld' BY DEF WordsHeld, MailboxTypeOK, Index
<1>5. WriterBounded' /\ PublishedOnce' /\ SnapshotCoherent'
  BY DEF WriterBounded, PublishedOnce, SnapshotCoherent, MailboxTypeOK
\* The reader's window stays short: ReaderNotLapped held when the write began.
<1>6. AttemptHeld'
  BY DEF AttemptHeld, Bumps, MailboxTypeOK
<1> QED BY <1>2, <1>3, <1>4, <1>5, <1>6

LEMMA SetPublishedIInv == MailboxInv /\ SetPublished => MailboxInv'
<1> SUFFICES ASSUME MailboxInv, SetPublished PROVE MailboxInv' OBVIOUS
<1> USE DEF MailboxInv, SetPublished, readerVars
<1>1. MailboxTypeOK' BY DEF MailboxTypeOK
<1>2. Bumps' = Bumps BY DEF Bumps
<1>3. SequenceCounts' /\ AttemptHeld'
  BY <1>2 DEF SequenceCounts, AttemptHeld
<1>4. WordsHeld' /\ WriterBounded' /\ PublishedOnce' /\ SnapshotCoherent'
  BY DEF WordsHeld, WriterBounded, PublishedOnce, SnapshotCoherent
<1> QED BY <1>1, <1>3, <1>4

\* The reader's steps leave the writer's part of the invariant alone.
LEMMA ReaderFrame ==
    ASSUME MailboxInv, UNCHANGED <<sequence, published, words, closed, writerVars>>
    PROVE  /\ SequenceCounts' /\ WordsHeld' /\ WriterBounded'
           /\ Bumps' = Bumps
  BY DEF MailboxInv, writerVars, SequenceCounts, WordsHeld, WriterBounded, Bumps

LEMMA NextAttemptType ==
    ASSUME MailboxInv, NextAttempt
    PROVE  /\ attempt' \in 0..Attempts
           /\ reader' \in {"idle", "before"}
  BY MailboxConstantFacts DEF MailboxInv, MailboxTypeOK, NextAttempt

LEMMA TryReadIInv == MailboxInv /\ TryRead => MailboxInv'
<1> SUFFICES ASSUME MailboxInv, TryRead PROVE MailboxInv' OBVIOUS
<1>1. SequenceCounts' /\ WordsHeld' /\ WriterBounded'
  BY ReaderFrame DEF TryRead
<1> USE DEF MailboxInv, TryRead, writerVars
<1>2. MailboxTypeOK' BY MailboxConstantFacts DEF MailboxTypeOK
<1>3. PublishedOnce' /\ AttemptHeld' /\ SnapshotCoherent'
  BY DEF PublishedOnce, AttemptHeld, SnapshotCoherent
<1> QED BY <1>1, <1>2, <1>3

\* An attempt only gets past its first load while no write is in flight.
LEMMA LoadBeforeIInv == MailboxInv /\ LoadBefore => MailboxInv'
<1> SUFFICES ASSUME MailboxInv, LoadBefore PROVE MailboxInv' OBVIOUS
<1>1. SequenceCounts' /\ WordsHeld' /\ WriterBounded' /\ Bumps' = Bumps
  BY ReaderFrame DEF LoadBefore
<1> USE DEF MailboxInv, LoadBefore, writerVars
<1>2. Whole(0) \in Snapshots BY MailboxConstantFacts DEF Whole, Snapshots
<1>3. CASE Odd(sequence)
  <2>1. NextAttempt BY <1>3
  <2>2. MailboxTypeOK' BY <1>2, <2>1, NextAttemptType, MailboxConstantFacts DEF MailboxTypeOK
  <2>3. PublishedOnce' /\ AttemptHeld' /\ SnapshotCoherent'
    BY <2>1, NextAttemptType DEF PublishedOnce, AttemptHeld, SnapshotCoherent
  <2> QED BY <1>1, <2>2, <2>3
<1>4. CASE ~Odd(sequence)
  <2>1. reader' = "load" /\ attempt' = attempt BY <1>4
  <2>2. MailboxTypeOK' BY <1>2, <2>1, MailboxConstantFacts DEF MailboxTypeOK
  <2>3. writer # "store"
    <3>1. SUFFICES ASSUME writer = "store" PROVE Odd(sequence) BY <1>4
    <3>2. Bumps = 2 * closed + 1 /\ closed \in Nat BY <3>1 DEF Bumps, MailboxTypeOK
    <3>3. sequence % 2 = (2 * closed + 1) % 2
      BY <3>2, EvenModulusParity DEF SequenceCounts
    <3> QED BY <3>2, <3>3 DEF Odd
  <2>4. Bumps = 2 * closed /\ closed \in Nat BY <2>3 DEF Bumps, MailboxTypeOK
  <2>5. AttemptHeld'
    BY <1>1, <2>1, <2>3, <2>4, MailboxConstantFacts DEF AttemptHeld, SequenceCounts
  <2>6. PublishedOnce' /\ SnapshotCoherent'
    BY <2>1 DEF PublishedOnce, SnapshotCoherent
  <2> QED BY <1>1, <2>2, <2>5, <2>6
<1> QED BY <1>3, <1>4

LEMMA LoadWordIInv == MailboxInv /\ LoadWord => MailboxInv'
<1> SUFFICES ASSUME MailboxInv, LoadWord PROVE MailboxInv' OBVIOUS
<1>1. SequenceCounts' /\ WordsHeld' /\ WriterBounded' /\ Bumps' = Bumps
  BY ReaderFrame DEF LoadWord
<1> USE DEF MailboxInv, LoadWord, writerVars
<1>2. loaded + 1 \in Index /\ loaded \in Nat /\ words[loaded + 1] \in 0..MaxPublications
  <2>1. loaded + 1 \in Index /\ loaded \in Nat
    BY MailboxConstantFacts DEF Index, MailboxTypeOK
  <2> QED BY <2>1 DEF MailboxTypeOK, Snapshots
<1>3. MailboxTypeOK' BY <1>2, MailboxConstantFacts DEF MailboxTypeOK, Snapshots, Index
<1>4. AttemptHeld'
  <2>1. SUFFICES ASSUME opened = closed, writer # "store",
                        NEW i \in 1..(loaded + 1)
                 PROVE  candidate'[i] = closed
    BY <1>1, <1>2 DEF AttemptHeld
  <2>2. words[loaded + 1] = closed BY <1>2, <2>1 DEF WordsHeld
  <2>3. CASE i = loaded + 1
    BY <1>2, <2>2, <2>3 DEF MailboxTypeOK, Snapshots
  <2>4. CASE i # loaded + 1
    <3>1. i \in 1..loaded /\ i \in Index
      BY <1>2, <2>4 DEF Index, MailboxTypeOK
    <3>2. candidate[i] = closed BY <2>1, <3>1 DEF AttemptHeld
    <3> QED BY <2>4, <3>1, <3>2 DEF MailboxTypeOK, Snapshots
  <2> QED BY <2>3, <2>4
<1>5. PublishedOnce' /\ SnapshotCoherent'
  BY DEF PublishedOnce, SnapshotCoherent
<1> QED BY <1>1, <1>3, <1>4, <1>5

\* The step everything rests on: equal loads of sequence_ mean no write began
\* in between, so the words loaded are those of the newest publication.
LEMMA AcceptIsNewest ==
    ASSUME MailboxInv, LoadAfter, sequence = before
    PROVE  candidate = Whole(closed) /\ closed \in 1..MaxPublications
<1> USE DEF MailboxInv, LoadAfter
<1>1. /\ 2 * opened \in Int /\ Bumps \in Int
      /\ 2 * opened <= Bumps /\ Bumps - 2 * opened < SeqModulus
      /\ (2 * opened) % SeqModulus = Bumps % SeqModulus
  BY DEF AttemptHeld, SequenceCounts, Bumps, MailboxTypeOK
<1>2. Bumps = 2 * opened
  <2> DEFINE a == 2 * opened
  <2>1. /\ a \in Int /\ Bumps \in Int /\ a <= Bumps /\ Bumps - a < SeqModulus
        /\ a % SeqModulus = Bumps % SeqModulus
        /\ SeqModulus \in Nat /\ SeqModulus > 0
    BY <1>1, MailboxConstantFacts
  <2> HIDE DEF a
  <2>2. a = Bumps BY <2>1, SameRemainder, Zenon
  <2> QED BY <2>2 DEF a
<1>3. writer # "store" /\ opened = closed
  BY <1>2 DEF Bumps, MailboxTypeOK
<1>4. \A i \in Index : candidate[i] = closed
  BY <1>3 DEF AttemptHeld, Index
<1>5. candidate = Whole(closed) BY <1>4 DEF MailboxTypeOK, Snapshots, Whole
<1>6. closed \in 1..MaxPublications
  BY MailboxConstantFacts DEF PublishedOnce, MailboxTypeOK
<1> QED BY <1>5, <1>6

LEMMA LoadAfterIInv == MailboxInv /\ LoadAfter => MailboxInv'
<1> SUFFICES ASSUME MailboxInv, LoadAfter PROVE MailboxInv' OBVIOUS
<1>1. SequenceCounts' /\ WordsHeld' /\ WriterBounded'
  BY ReaderFrame DEF LoadAfter
<1>2. CASE sequence = before /\ ~Odd(sequence)
  <2>1. candidate = Whole(closed) /\ closed \in 1..MaxPublications
    BY <1>2, AcceptIsNewest
  <2>2. accepted' = candidate /\ reader' = "idle" /\ attempt' = 0
    BY <1>2 DEF LoadAfter
  <2>3. SnapshotCoherent'
    BY <2>1, <2>2, MailboxConstantFacts DEF SnapshotCoherent, Whole
  <2>4. MailboxTypeOK'
    BY <2>2, MailboxConstantFacts DEF MailboxInv, LoadAfter, writerVars, MailboxTypeOK
  <2>5. PublishedOnce' /\ AttemptHeld'
    BY <2>2 DEF MailboxInv, LoadAfter, writerVars, PublishedOnce, AttemptHeld
  <2> QED BY <1>1, <2>3, <2>4, <2>5 DEF MailboxInv
<1>3. CASE ~(sequence = before /\ ~Odd(sequence))
  <2>1. NextAttempt /\ accepted' = accepted BY <1>3 DEF LoadAfter
  <2>2. MailboxTypeOK'
    BY <2>1, NextAttemptType DEF MailboxInv, LoadAfter, writerVars, MailboxTypeOK
  <2>3. PublishedOnce' /\ AttemptHeld' /\ SnapshotCoherent'
    BY <2>1, NextAttemptType
    DEF MailboxInv, LoadAfter, writerVars, PublishedOnce, AttemptHeld, SnapshotCoherent
  <2> QED BY <1>1, <2>2, <2>3 DEF MailboxInv
<1> QED BY <1>2, <1>3

-----------------------------------------------------------------------------
(* The theorems *)

LEMMA NextMailboxInv == MailboxInv /\ [MailboxNext]_mailboxVars => MailboxInv'
<1> SUFFICES ASSUME MailboxInv, [MailboxNext]_mailboxVars PROVE MailboxInv' OBVIOUS
<1>1. CASE OpenWrite BY <1>1, OpenWriteIInv
<1>2. CASE FinishWrite
  BY <1>2, StoreWordIInv, CloseWriteIInv, SetPublishedIInv DEF FinishWrite
<1>3. CASE TryRead BY <1>3, TryReadIInv
<1>4. CASE ReadStep
  BY <1>4, LoadBeforeIInv, LoadWordIInv, LoadAfterIInv DEF ReadStep
<1>5. CASE UNCHANGED mailboxVars
  BY <1>5 DEF mailboxVars, writerVars, readerVars, MailboxInv, MailboxTypeOK, SequenceCounts,
              WordsHeld, WriterBounded, PublishedOnce, AttemptHeld,
              SnapshotCoherent, Bumps
<1> QED BY <1>1, <1>2, <1>3, <1>4, <1>5 DEF MailboxNext

THEOREM MailboxInvariant == MailboxSpec => []MailboxInv
<1>1. MailboxInit => MailboxInv BY InitMailboxInv
<1>2. MailboxInv /\ [MailboxNext]_mailboxVars => MailboxInv' BY NextMailboxInv
<1> QED BY <1>1, <1>2, PTL DEF MailboxSpec

\* Type correctness of the transport.
THEOREM MailboxTypeCorrect == MailboxSpec => []MailboxTypeOK
<1>1. MailboxInv => MailboxTypeOK BY DEF MailboxInv
<1> QED BY <1>1, MailboxInvariant, PTL

\* A snapshot that tryRead returned is whole, for every payload size and every
\* interleaving of a writer and a reader.
THEOREM MailboxCoherent == MailboxSpec => []SnapshotCoherent
<1>1. MailboxInv => SnapshotCoherent BY DEF MailboxInv
<1> QED BY <1>1, MailboxInvariant, PTL

\* The publication of a whole snapshot is its number.
LEMMA PublicationOfWhole ==
    ASSUME NEW p \in Int, accepted = Whole(p)
    PROVE  AcceptedPublication = p
<1>1. accepted[1] = p BY MailboxConstantFacts DEF Whole
<1> QED BY <1>1 DEF AcceptedPublication

\* The sequence-counter transport implements the atomic latest-value register.
THEOREM MailboxImplementsRegister == MailboxSpec => ImplementsLatestValue
<1>1. MailboxInit => Register!Init
  <2> SUFFICES ASSUME MailboxInit PROVE Register!Init OBVIOUS
  <2>1. AcceptedPublication = 0 BY PublicationOfWhole DEF MailboxInit
  <2> QED BY <2>1 DEF MailboxInit, Register!Init
<1>2. MailboxInv /\ [MailboxNext]_mailboxVars => [Register!Next]_(Register!vars)
  <2> SUFFICES ASSUME MailboxInv, [MailboxNext]_mailboxVars PROVE [Register!Next]_(Register!vars)
    OBVIOUS
  <2>1. CASE CloseWrite
    <3>1. AcceptedPublication' = AcceptedPublication
      BY <2>1 DEF CloseWrite, readerVars, AcceptedPublication, Whole
    <3>2. closed < MaxPublications BY <2>1 DEF CloseWrite, MailboxInv, WriterBounded
    <3> QED BY <2>1, <3>1, <3>2 DEF CloseWrite, Register!Next, Register!Publish
  <2>2. CASE LoadAfter /\ sequence = before /\ ~Odd(sequence)
    <3>1. candidate = Whole(closed) /\ closed \in 1..MaxPublications
      BY <2>2, AcceptIsNewest
    <3>2. accepted' = Whole(closed) /\ closed' = closed
      BY <2>2, <3>1 DEF LoadAfter
    <3>3. AcceptedPublication' = closed
      BY <3>1, <3>2, MailboxConstantFacts DEF AcceptedPublication, Whole
    <3> QED BY <3>1, <3>2, <3>3 DEF Register!Next, Register!Read
  <2>3. CASE closed' = closed /\ accepted' = accepted
    BY <2>3 DEF Register!vars, AcceptedPublication, Whole
  <2>4. CASE \/ OpenWrite \/ StoreWord \/ SetPublished
             \/ TryRead \/ LoadBefore \/ LoadWord
    BY <2>3, <2>4 DEF OpenWrite, StoreWord, SetPublished, TryRead, LoadBefore,
                      LoadWord, readerVars
  <2>5. CASE LoadAfter /\ ~(sequence = before /\ ~Odd(sequence))
    BY <2>3, <2>5 DEF LoadAfter
  <2>6. CASE UNCHANGED mailboxVars
    BY <2>3, <2>6 DEF mailboxVars, readerVars
  <2> QED BY <2>1, <2>2, <2>4, <2>5, <2>6 DEF MailboxNext, FinishWrite, ReadStep
<1> QED BY <1>1, <1>2, MailboxInvariant, PTL DEF MailboxSpec, ImplementsLatestValue, Register!Spec

\* How many loads a read under way may still make: the attempts it has not begun,
\* each with every word and both loads of sequence_, and the rest of this one.
Loads == Len(Cells) + 2

LoadsLeft ==
    CASE reader = "before" -> (Attempts - attempt) * Loads + Loads
      [] reader = "load"   -> (Attempts - attempt) * Loads + Len(Cells) - loaded + 1
      [] OTHER             -> 0

\* A read begins with the loads of all its attempts, each of its steps uses up at
\* least one, and nothing the writer does gives it one back.
ReadBudget ==
    /\ TryRead => LoadsLeft' = Attempts * Loads
    /\ ReadStep => LoadsLeft' < LoadsLeft
    /\ reader # "idle" => LoadsLeft > 0 /\ LoadsLeft' <= LoadsLeft

\* The attempts not begun, and what one attempt fewer leaves.
LEMMA AttemptsLeft ==
    ASSUME MailboxTypeOK
    PROVE  /\ Loads \in Nat /\ Loads = Len(Cells) + 2
           /\ (Attempts - attempt) * Loads \in Nat
           /\ (Attempts - (attempt + 1)) * Loads = (Attempts - attempt) * Loads - Loads
           /\ attempt < Attempts => (Attempts - (attempt + 1)) * Loads \in Nat
<1> DEFINE a == Attempts - attempt
           l == Loads
<1>1. a \in Nat /\ l \in Nat /\ l = Len(Cells) + 2
  BY MailboxConstantFacts DEF MailboxTypeOK, Loads
<1>2. Attempts - (attempt + 1) = a - 1
  BY MailboxConstantFacts DEF MailboxTypeOK
<1>3. attempt < Attempts => a - 1 \in Nat
  BY MailboxConstantFacts DEF MailboxTypeOK
<1> HIDE DEF a, l
<1>4. a * l \in Nat /\ (a - 1) * l = a * l - l BY <1>1
<1>5. a - 1 \in Nat => (a - 1) * l \in Nat BY <1>1
<1> QED BY <1>1, <1>2, <1>3, <1>4, <1>5 DEF a, l

\* Giving up an attempt leaves the loads of the attempts after it, if any.
LEMMA NextAttemptLoads ==
    ASSUME MailboxTypeOK, NextAttempt
    PROVE  /\ LoadsLeft' <= (Attempts - attempt) * Loads
           /\ LoadsLeft' \in Nat
<1>1. CASE attempt < Attempts
  <2>1. reader' = "before" /\ attempt' = attempt + 1 BY <1>1 DEF NextAttempt
  <2>2. LoadsLeft' = (Attempts - (attempt + 1)) * Loads + Loads
    BY <2>1 DEF LoadsLeft, Loads
  <2> QED BY <1>1, <2>2, AttemptsLeft
<1>2. CASE ~(attempt < Attempts)
  <2>1. reader' = "idle" BY <1>2 DEF NextAttempt
  <2>2. LoadsLeft' = 0 BY <2>1 DEF LoadsLeft
  <2> QED BY <2>2, AttemptsLeft
<1> QED BY <1>1, <1>2

\* Every step of a read uses up a load.
LEMMA ReadStepShortens ==
    ASSUME MailboxTypeOK, ReadStep
    PROVE  LoadsLeft' < LoadsLeft
<1>0. loaded \in Nat /\ loaded <= Len(Cells) /\ Len(Cells) \in Nat
  BY MailboxConstantFacts DEF MailboxTypeOK
<1>1. CASE LoadBefore
  <2>1. LoadsLeft = (Attempts - attempt) * Loads + Loads
    BY <1>1 DEF LoadBefore, LoadsLeft
  <2>2. CASE Odd(sequence)
    <3>1. NextAttempt BY <1>1, <2>2 DEF LoadBefore
    <3> QED BY <1>0, <2>1, <3>1, AttemptsLeft, NextAttemptLoads
  <2>3. CASE ~Odd(sequence)
    <3>1. reader' = "load" /\ attempt' = attempt /\ loaded' = 0
      BY <1>1, <2>3 DEF LoadBefore
    <3>2. LoadsLeft' = (Attempts - attempt) * Loads + Len(Cells) - 0 + 1
      BY <3>1 DEF LoadsLeft, Loads
    <3> QED BY <1>0, <2>1, <3>2, AttemptsLeft
  <2> QED BY <2>2, <2>3
<1>2. CASE LoadWord
  <2>1. /\ LoadsLeft = (Attempts - attempt) * Loads + Len(Cells) - loaded + 1
        /\ LoadsLeft' = (Attempts - attempt) * Loads + Len(Cells) - (loaded + 1) + 1
    BY <1>2 DEF LoadWord, LoadsLeft, Loads
  <2> QED BY <1>0, <2>1, AttemptsLeft
<1>3. CASE LoadAfter
  <2>1. LoadsLeft = (Attempts - attempt) * Loads + Len(Cells) - Len(Cells) + 1
    BY <1>3 DEF LoadAfter, LoadsLeft
  <2>2. CASE sequence = before /\ ~Odd(sequence)
    <3>1. reader' = "idle" BY <1>3, <2>2 DEF LoadAfter
    <3>2. LoadsLeft' = 0 BY <3>1 DEF LoadsLeft
    <3> QED BY <1>0, <2>1, <3>2, AttemptsLeft
  <2>3. CASE ~(sequence = before /\ ~Odd(sequence))
    <3>1. NextAttempt BY <1>3, <2>3 DEF LoadAfter
    <3> QED BY <1>0, <2>1, <3>1, AttemptsLeft, NextAttemptLoads
  <2> QED BY <2>2, <2>3
<1> QED BY <1>1, <1>2, <1>3 DEF ReadStep

\* tryRead is bounded: a read makes at most Attempts * (Len(Cells) + 2) loads and
\* then returns, whatever the writer publishes meanwhile or leaves half done.
THEOREM MailboxReadsAreBounded == MailboxSpec => [][ReadBudget]_mailboxVars
<1>1. MailboxTypeOK /\ [MailboxNext]_mailboxVars => [ReadBudget]_mailboxVars
  <2> SUFFICES ASSUME MailboxTypeOK, MailboxNext PROVE ReadBudget OBVIOUS
  <2>1. TryRead => LoadsLeft' = Attempts * Loads
    <3> SUFFICES ASSUME TryRead PROVE LoadsLeft' = Attempts * Loads OBVIOUS
    <3>1. LoadsLeft' = (Attempts - 1) * Loads + Loads
      BY DEF TryRead, LoadsLeft, Loads
    <3>2. Attempts \in Nat /\ Loads \in Nat
      BY MailboxConstantFacts, AttemptsLeft
    <3> QED BY <3>1, <3>2
  <2>2. ReadStep => LoadsLeft' < LoadsLeft BY ReadStepShortens
  <2>3. ASSUME reader # "idle" PROVE LoadsLeft > 0 /\ LoadsLeft' <= LoadsLeft
    <3>1. LoadsLeft \in Nat /\ LoadsLeft > 0
      <4>1. CASE reader = "before" BY <4>1, MailboxConstantFacts, AttemptsLeft DEF LoadsLeft
      <4>2. CASE reader = "load"
        <5>1. loaded \in Nat /\ loaded <= Len(Cells)
          BY MailboxConstantFacts DEF MailboxTypeOK
        <5> QED BY <4>2, <5>1, MailboxConstantFacts, AttemptsLeft DEF LoadsLeft
      <4> QED BY <2>3, <4>1, <4>2 DEF MailboxTypeOK
    <3>2. CASE OpenWrite \/ FinishWrite
      <4>1. LoadsLeft' = LoadsLeft
        BY <3>2 DEF OpenWrite, FinishWrite, StoreWord, CloseWrite, SetPublished,
                    readerVars, LoadsLeft, Loads
      <4> QED BY <3>1, <4>1
    <3>3. CASE ReadStep
      <4>1. LoadsLeft' \in Int
        <5>1. CASE NextAttempt BY <5>1, NextAttemptLoads
        <5>2. CASE reader' = "idle" BY <5>2 DEF LoadsLeft
        <5>3. CASE reader' = "load" /\ attempt' = attempt /\ loaded' \in Int
          BY <5>3, MailboxConstantFacts, AttemptsLeft DEF LoadsLeft, Loads
        <5> QED BY <3>3, <5>1, <5>2, <5>3 DEF ReadStep, LoadBefore, LoadWord, LoadAfter,
                                              MailboxTypeOK
      <4> QED BY <3>1, <3>3, <4>1, ReadStepShortens
    <3>4. ~TryRead BY <2>3 DEF TryRead
    <3> QED BY <3>1, <3>2, <3>3, <3>4 DEF MailboxNext
  <2> QED BY <2>1, <2>2, <2>3 DEF ReadBudget
<1> QED BY <1>1, MailboxTypeCorrect, PTL DEF MailboxSpec

-----------------------------------------------------------------------------
(* The executor, the task and the backend. *)

\* The executor and the backend between two services.
AtRest(m) ==
    /\ m.enabled <=> m.desired
    /\ m.broken => m.latched
    /\ m.latched => ~m.desired
    /\ m.actuator => (m.desired /\ m.sensor) \/ m.latched

\* What survives a backend service: only a broken backend drops its target
\* behind the executor's back.
Serviced(m) ==
    /\ m.enabled => m.desired
    /\ m.desired => m.enabled \/ m.broken
    /\ m.latched => ~m.desired

TimeoutHistory(m) == m.timedOut => m.age > Timeout \/ m.age < 0

SeenInOrder == motor.lastSeen <= command.generation

ObservationCurrent == observation.faulted <=> motor.latched \/ motor.broken

\* The executor starts de-energised, and nothing is asked of it before it begins.
RestBeforeBegin == task = "begin" => ~motor.desired /\ ~motor.enabled

IInv == /\ TypeOK
        /\ RestBeforeBegin
        /\ AtRest(motor)
        /\ SeenInOrder
        /\ ObservationCurrent
        /\ StopIsBinding
        /\ AuthorityIsRecent
        /\ TimeoutHistory(motor)

LEMMA ConstantFacts ==
    /\ Timeout \in Nat /\ ClockModulus \in Nat /\ ClockModulus > 0
    /\ MaxPublishes \in Nat
    /\ MaxTime \in Nat /\ MaxTime < ClockModulus
    /\ LastIssue \in Nat
  BY ExecutionAssumption

\* A value already below the modulus is its own remainder.
LEMMA SmallRemainder ==
    ASSUME NEW m \in Nat, m > 0, NEW a \in 0..(m - 1)
    PROVE  a % m = a
<1> DEFINE d == a \div m
<1>1. d \in Int /\ a = m * d + (a % m) /\ a % m \in 0..(m - 1)
  OBVIOUS
<1>2. ~(d >= 1) /\ ~(-d >= 1)
  BY <1>1
<1> QED BY <1>1, <1>2

\* Modular elapsed time is the true age of a command that is not from the future.
LEMMA ElapsedIsAge ==
    ASSUME NEW now \in 0..MaxTime, NEW then \in Nat, now - then >= 0
    PROVE  Elapsed(now, then) = now - then
<1> DEFINE a == now - then
<1>1. a \in 0..(ClockModulus - 1) BY ConstantFacts
<1> HIDE DEF a
<1>2. a % ClockModulus = a BY <1>1, ConstantFacts, SmallRemainder
<1> QED BY <1>2 DEF a, Elapsed

\* A command that is not expired is recent...
LEMMA UnexpiredIsRecent ==
    ASSUME NEW now \in 0..MaxTime, NEW then \in Nat, Timeout # 0,
           ~Expired(then, now)
    PROVE  now - then <= Timeout
<1>1. CASE now - then >= 0
  BY <1>1, ElapsedIsAge, ConstantFacts DEF Expired
<1>2. CASE now - then < 0 BY <1>2, ConstantFacts
<1> QED BY <1>1, <1>2, ConstantFacts

\* ... and one that is expired is too old, or from the future.
LEMMA ExpiredIsOldOrAhead ==
    ASSUME NEW now \in 0..MaxTime, NEW then \in Nat, Expired(then, now)
    PROVE  now - then > Timeout \/ now - then < 0
<1>1. CASE now - then >= 0
  BY <1>1, ElapsedIsAge, ConstantFacts DEF Expired
<1> QED BY <1>1, ConstantFacts

-----------------------------------------------------------------------------
(* The stages of service() *)

LEMMA StopFacts ==
    ASSUME NEW m \in Motors
    PROVE  /\ Stop(m) \in Motors
           /\ ~Stop(m).enabled /\ ~Stop(m).desired
           /\ Stop(m).broken = m.broken /\ Stop(m).latched = m.latched
           /\ Stop(m).actuator = m.actuator /\ Stop(m).sensor = m.sensor
           /\ Stop(m).timedOut = m.timedOut /\ Stop(m).age = m.age
           /\ Stop(m).lastSeen = m.lastSeen /\ Stop(m).issued = m.issued
  BY DEF Stop, Motors

LEMMA LatchFacts ==
    ASSUME NEW m \in Motors, NEW bad \in BOOLEAN
    PROVE  /\ LatchIf(m, bad) \in Motors
           /\ LatchIf(m, bad).latched = (m.latched \/ bad)
           /\ LatchIf(m, bad).enabled = m.enabled /\ LatchIf(m, bad).desired = m.desired
           /\ LatchIf(m, bad).broken = m.broken
           /\ LatchIf(m, bad).actuator = m.actuator /\ LatchIf(m, bad).sensor = m.sensor
           /\ LatchIf(m, bad).timedOut = m.timedOut /\ LatchIf(m, bad).age = m.age
           /\ LatchIf(m, bad).lastSeen = m.lastSeen /\ LatchIf(m, bad).issued = m.issued
  BY DEF LatchIf, Motors

\* A backend service touches the backend alone.
LEMMA ServiceFacts ==
    ASSUME NEW m \in Motors, NEW s \in Samples
    PROVE  LET n == ServiceBackend(m, s)
           IN  /\ n \in Motors
               /\ n.latched = m.latched /\ n.desired = m.desired
               /\ n.timedOut = m.timedOut /\ n.age = m.age
               /\ n.lastSeen = m.lastSeen /\ n.issued = m.issued
               /\ n.enabled => m.enabled
               /\ m.enabled => n.enabled \/ n.broken
               /\ m.broken => n.broken
<1>1. s \in {"good", "wire_error", "not_finite", "stuck"}
  BY ExecutionAssumption
<1>2. CASE ~m.initialized \/ m.broken BY <1>2 DEF ServiceBackend, SetFaulted, Motors
<1>3. CASE m.initialized /\ ~m.broken
  <2>1. CASE s = "good" BY <1>3, <2>1 DEF ServiceBackend, SetFaulted, Motors
  <2>2. CASE s = "wire_error" BY <1>3, <2>2 DEF ServiceBackend, SetFaulted, Motors
  <2>3. CASE s = "not_finite" BY <1>3, <2>3 DEF ServiceBackend, SetFaulted, Motors
  <2>4. CASE s = "stuck" BY <1>3, <2>4 DEF ServiceBackend, SetFaulted, Motors
  <2> QED BY <1>1, <2>1, <2>2, <2>3, <2>4
<1> QED BY <1>2, <1>3 DEF Motors

LEMMA TimeOutFacts ==
    ASSUME NEW m \in Motors, NEW issued \in Nat, start \in 0..MaxTime,
           Expired(issued, start)
    PROVE  /\ TimeOut(m, issued) \in Motors
           /\ ~TimeOut(m, issued).enabled /\ ~TimeOut(m, issued).desired
           /\ TimeOut(m, issued).broken = m.broken
           /\ TimeOut(m, issued).latched = m.latched
           /\ TimeOut(m, issued).lastSeen = m.lastSeen
           /\ TimeoutHistory(TimeOut(m, issued))
<1>1. start - issued \in Int /\ (start - issued > Timeout \/ start - issued < 0)
  BY ExpiredIsOldOrAhead, ConstantFacts
<1> QED BY <1>1 DEF TimeOut, Stop, Motors, TimeoutHistory

\* The command stage either grants authority to a command that is recent, or
\* leaves or withdraws what there was.
LEMMA ConsumeFacts ==
    ASSUME IInv, command.generation # motor.lastSeen
    PROVE  LET n == ConsumeNew(motor, command)
           IN  /\ n \in Motors
               /\ (n.enabled <=> n.desired) /\ (n.latched => ~n.desired)
               /\ motor.latched => n.latched
               /\ n.broken => n.latched
               /\ n.lastSeen = command.generation
               /\ command.kind = "stop" => ~n.desired
               /\ (Timeout # 0 /\ n.desired) => start - n.issued <= Timeout
               /\ TimeoutHistory(n)
<1> DEFINE c == command
           seen == [motor EXCEPT !.lastSeen = c.generation, !.timedOut = FALSE]
<1>1. /\ c.generation \in 0..MaxPublishes /\ c.kind \in Kinds
      /\ c.issued \in 0..LastIssue /\ c.issued \in Nat
      /\ motor \in Motors /\ start \in 0..MaxTime
  BY ConstantFacts DEF IInv, TypeOK, Commands
<1>2. /\ seen \in Motors
      /\ seen.enabled = motor.enabled /\ seen.desired = motor.desired
      /\ seen.broken = motor.broken /\ seen.latched = motor.latched
      /\ seen.issued = motor.issued
      /\ seen.lastSeen = c.generation /\ ~seen.timedOut
  BY <1>1 DEF Motors
<1>3. AtRest(motor) BY DEF IInv
<1> HIDE DEF c, seen
<1>4. CASE c.kind = "stop"
  <2>1. ConsumeNew(motor, c) = [Stop(seen) EXCEPT !.consumed = c.generation]
    BY <1>4 DEF ConsumeNew, seen
  <2> QED BY <1>1, <1>2, <1>3, <1>4, <2>1, StopFacts
          DEF Motors, AtRest, TimeoutHistory, c
<1>5. CASE c.kind # "stop" /\ Expired(c.issued, start)
  <2>1. ConsumeNew(motor, c)
          = [TimeOut(seen, c.issued) EXCEPT !.consumed = c.generation]
    BY <1>5 DEF ConsumeNew, seen
  <2> QED BY <1>1, <1>2, <1>3, <1>5, <2>1, TimeOutFacts
          DEF Motors, AtRest, TimeoutHistory, c
<1>6. CASE c.kind # "stop" /\ ~Expired(c.issued, start) /\ motor.latched
  <2>1. ConsumeNew(motor, c) = seen BY <1>6 DEF ConsumeNew, seen
  <2> QED BY <1>1, <1>2, <1>3, <1>6, <2>1 DEF Motors, AtRest, TimeoutHistory, c
<1>7. CASE c.kind # "stop" /\ ~Expired(c.issued, start) /\ ~motor.latched
  <2>1. CASE AcceptsTarget(motor, c.kind)
    <3>1. ConsumeNew(motor, c)
            = [seen EXCEPT !.enabled = TRUE, !.desired = TRUE,
                           !.consumed = c.generation, !.issued = c.issued]
      BY <1>7, <2>1 DEF ConsumeNew, seen
    <3>2. Timeout # 0 => start - c.issued <= Timeout
      BY <1>1, <1>7, UnexpiredIsRecent
    <3> QED BY <1>1, <1>2, <1>3, <1>7, <3>1, <3>2
            DEF Motors, AtRest, TimeoutHistory, c
  <2>2. CASE ~AcceptsTarget(motor, c.kind)
    <3>1. ConsumeNew(motor, c) = [Stop(seen) EXCEPT !.latched = TRUE]
      BY <1>7, <2>2 DEF ConsumeNew, seen
    <3> DEFINE st == Stop(seen)
    <3>2. /\ st \in Motors /\ ~st.enabled /\ ~st.desired
          /\ st.lastSeen = c.generation /\ ~st.timedOut
      BY <1>2, StopFacts
    <3> HIDE DEF st
    <3>3. LET n == [st EXCEPT !.latched = TRUE]
          IN  /\ n \in Motors /\ ~n.enabled /\ ~n.desired /\ n.latched
              /\ n.lastSeen = c.generation /\ ~n.timedOut
      BY <3>2 DEF Motors
    <3>4. ConsumeNew(motor, c) = [st EXCEPT !.latched = TRUE]
      BY <3>1 DEF st
    <3> QED BY <3>3, <3>4 DEF TimeoutHistory, c
  <2> QED BY <2>1, <2>2
<1> QED BY <1>4, <1>5, <1>6, <1>7

LEMMA CommandedFacts ==
    ASSUME IInv, NEW readable \in BOOLEAN
    PROVE  LET n == Commanded(motor, readable)
           IN  /\ n \in Motors
               /\ (n.enabled <=> n.desired) /\ (n.latched => ~n.desired)
               /\ motor.latched => n.latched
               /\ n.broken => n.latched
               /\ n.lastSeen <= command.generation
               /\ (command.kind = "stop" /\ n.lastSeen = command.generation)
                      => ~n.desired
               /\ (Timeout # 0 /\ n.desired) => start - n.issued <= Timeout
               /\ TimeoutHistory(n)
<1>1. /\ motor \in Motors /\ motor.issued \in Nat /\ start \in 0..MaxTime
      /\ command.generation \in Nat
  BY ConstantFacts DEF IInv, TypeOK, Commands, Motors
<1>2. CASE readable /\ command.generation # motor.lastSeen
  BY <1>1, <1>2, ConsumeFacts DEF Commanded
<1>3. CASE /\ ~(readable /\ command.generation # motor.lastSeen)
           /\ motor.desired /\ Expired(motor.issued, start)
  <2>1. Commanded(motor, readable) = TimeOut(motor, motor.issued)
    BY <1>3 DEF Commanded
  <2> QED BY <1>1, <1>3, <2>1, TimeOutFacts DEF IInv, AtRest, SeenInOrder
<1>4. CASE /\ ~(readable /\ command.generation # motor.lastSeen)
           /\ ~(motor.desired /\ Expired(motor.issued, start))
  <2>1. Commanded(motor, readable) = motor BY <1>4 DEF Commanded
  <2>2. (Timeout # 0 /\ motor.desired) => start - motor.issued <= Timeout
    BY <1>1, <1>4, UnexpiredIsRecent
  <2> QED BY <1>1, <2>1, <2>2 DEF IInv, AtRest, SeenInOrder, StopIsBinding
<1> QED BY <1>2, <1>3, <1>4

\* The fail-safe stage brings whatever the backend did to rest.
LEMMA FailSafeFacts ==
    ASSUME NEW n \in Motors, NEW s \in Samples,
           n.enabled => n.desired, n.desired => n.enabled \/ n.broken,
           n.latched => ~n.desired
    PROVE  LET f == FailSafe(n, s)
           IN  /\ f \in Motors
               /\ AtRest(f)
               /\ f.desired => n.desired
               /\ n.latched => f.latched
               /\ f.timedOut = n.timedOut /\ f.age = n.age
               /\ f.lastSeen = n.lastSeen /\ f.issued = n.issued
<1>1. CASE ~NeedsStop(n)
  <2>1. FailSafe(n, s) = n BY <1>1 DEF FailSafe
  <2> QED BY <1>1, <2>1 DEF NeedsStop, Unsafe, AtRest, Motors
<1>2. CASE NeedsStop(n)
  <2> DEFINE latched == LatchIf(n, Unsafe(n))
             forced == ServiceBackend(Stop(latched), s)
             bad == forced.broken \/ forced.actuator
  <2>1. FailSafe(n, s) = LatchIf(forced, bad) BY <1>2 DEF FailSafe
  <2>2. Unsafe(n) \in BOOLEAN BY DEF Unsafe, Motors
  <2>3. /\ latched \in Motors /\ (n.latched => latched.latched)
        /\ latched.timedOut = n.timedOut /\ latched.age = n.age
        /\ latched.lastSeen = n.lastSeen /\ latched.issued = n.issued
    <3>1. /\ latched \in Motors /\ latched.latched = (n.latched \/ Unsafe(n))
          /\ latched.timedOut = n.timedOut /\ latched.age = n.age
          /\ latched.lastSeen = n.lastSeen /\ latched.issued = n.issued
      BY <2>2, LatchFacts
    <3> HIDE DEF latched
    <3> QED BY <3>1
  <2> HIDE DEF latched
  <2>4. /\ Stop(latched) \in Motors /\ Stop(latched).latched = latched.latched
        /\ ~Stop(latched).enabled /\ ~Stop(latched).desired
        /\ Stop(latched).timedOut = n.timedOut /\ Stop(latched).age = n.age
        /\ Stop(latched).lastSeen = n.lastSeen /\ Stop(latched).issued = n.issued
    BY <2>3, StopFacts
  <2>5. /\ forced.latched = latched.latched
        /\ forced \in Motors /\ ~forced.enabled /\ ~forced.desired
        /\ forced.timedOut = n.timedOut /\ forced.age = n.age
        /\ forced.lastSeen = n.lastSeen /\ forced.issued = n.issued
    BY <2>4, ServiceFacts
  <2>6. bad \in BOOLEAN BY <2>5 DEF Motors
  <2> HIDE DEF forced
  <2>7. /\ LatchIf(forced, bad) \in Motors
        /\ LatchIf(forced, bad).latched = (forced.latched \/ bad)
        /\ ~LatchIf(forced, bad).enabled /\ ~LatchIf(forced, bad).desired
        /\ LatchIf(forced, bad).broken = forced.broken
        /\ LatchIf(forced, bad).actuator = forced.actuator
        /\ LatchIf(forced, bad).timedOut = n.timedOut
        /\ LatchIf(forced, bad).age = n.age
        /\ LatchIf(forced, bad).lastSeen = n.lastSeen
        /\ LatchIf(forced, bad).issued = n.issued
    BY <2>5, <2>6, LatchFacts
  <2>8. AtRest(LatchIf(forced, bad)) BY <2>7 DEF AtRest
  <2> QED BY <2>1, <2>3, <2>5, <2>7, <2>8
<1> QED BY <1>1, <1>2

LEMMA ObservedFacts ==
    ASSUME NEW m \in Motors, start \in 0..MaxTime
    PROVE  /\ Observed(m) \in Observations
           /\ Observed(m).faulted <=> m.latched \/ m.broken
  BY DEF Observed, Motors, Observations

-----------------------------------------------------------------------------
(* Each action preserves the invariant *)

LEMMA InitIInv == Init => IInv
<1> SUFFICES ASSUME Init PROVE IInv OBVIOUS
<1>1. TypeOK
  BY ConstantFacts
  DEF Init, TypeOK, Commands, Kinds, Motors, Observations
<1>2. AtRest(motor) /\ SeenInOrder /\ ObservationCurrent /\ StopIsBinding
      /\ AuthorityIsRecent /\ TimeoutHistory(motor) /\ RestBeforeBegin
  BY DEF Init, AtRest, SeenInOrder, ObservationCurrent, StopIsBinding,
         AuthorityIsRecent, TimeoutHistory, RestBeforeBegin
<1> QED BY <1>1, <1>2 DEF IInv

\* The attitude task and the clock leave the motor domain as it is.
LEMMA AttitudeIInv ==
    ASSUME IInv, Tick \/ StampCommand \/ Evaluate \/ \E kind \in Kinds : Publish(kind)
    PROVE  IInv'
<1> USE DEF IInv
<1>1. CASE Tick
  BY <1>1, ConstantFacts
  DEF Tick, TypeOK, AtRest, SeenInOrder, ObservationCurrent, StopIsBinding,
      AuthorityIsRecent, TimeoutHistory, RestBeforeBegin
<1>2. CASE StampCommand
  BY <1>2, ConstantFacts
  DEF StampCommand, TypeOK, AtRest, SeenInOrder, ObservationCurrent,
      StopIsBinding, AuthorityIsRecent, TimeoutHistory, RestBeforeBegin
<1>4. CASE Evaluate
  BY <1>4
  DEF Evaluate, TypeOK, AtRest, SeenInOrder, ObservationCurrent, StopIsBinding,
      AuthorityIsRecent, TimeoutHistory, RestBeforeBegin
<1>3. ASSUME NEW kind \in Kinds, Publish(kind) PROVE IInv'
  <2>1. command.generation \in Nat /\ motor.lastSeen \in Nat
    BY ConstantFacts DEF TypeOK, Commands, Motors
  <2>2. command' \in Commands
    <3>1. issuing \in 0..LastIssue BY <1>3 DEF Publish, TypeOK, NotIssuing
    <3>2. command.generation + 1 \in 0..MaxPublishes
      BY <1>3, <2>1, ConstantFacts DEF Publish
    <3> QED BY <1>3, <3>1, <3>2 DEF Publish, Commands
  <2>3. TypeOK' BY <1>3, <2>2 DEF Publish, TypeOK
  <2>4. command'.generation = command.generation + 1
    BY <1>3 DEF Publish
  <2>5. SeenInOrder' /\ StopIsBinding'
    BY <1>3, <2>1, <2>4 DEF Publish, SeenInOrder, StopIsBinding
  <2>6. AtRest(motor)' /\ ObservationCurrent' /\ AuthorityIsRecent'
        /\ TimeoutHistory(motor)' /\ RestBeforeBegin'
    BY <1>3
    DEF Publish, AtRest, ObservationCurrent, AuthorityIsRecent, TimeoutHistory, RestBeforeBegin
  <2> QED BY <2>3, <2>5, <2>6
<1> QED BY <1>1, <1>2, <1>3, <1>4

LEMMA BeginFailsIInv == IInv /\ BeginFails => IInv'
<1> SUFFICES ASSUME IInv, BeginFails PROVE IInv' OBVIOUS
<1> USE DEF IInv, BeginFails, SetFaulted
<1>1. motor' \in Motors /\ observation' \in Observations
  BY ConstantFacts DEF TypeOK, Motors, SyntheticFault, Observations
<1>2. TypeOK' BY <1>1 DEF TypeOK
<1>3. /\ motor'.latched /\ motor'.broken
      /\ ~motor'.enabled /\ motor'.desired = motor.desired
      /\ motor'.actuator = motor.actuator /\ motor'.lastSeen = motor.lastSeen
      /\ motor'.timedOut = motor.timedOut /\ motor'.age = motor.age
      /\ observation'.faulted
  BY DEF TypeOK, Motors, SyntheticFault
<1>4. AtRest(motor)' /\ ObservationCurrent' /\ TimeoutHistory(motor)'
  BY <1>3 DEF AtRest, ObservationCurrent, TimeoutHistory, RestBeforeBegin
<1>5. SeenInOrder' /\ StopIsBinding' /\ AuthorityIsRecent' /\ RestBeforeBegin'
  BY <1>3 DEF SeenInOrder, StopIsBinding, AuthorityIsRecent, RestBeforeBegin
<1> QED BY <1>2, <1>4, <1>5

LEMMA BeginIInv == IInv /\ Begin => IInv'
<1> SUFFICES ASSUME IInv, Begin PROVE IInv' OBVIOUS
<1> DEFINE begun == Stop(BackendBegun(motor))
           serviced(s) == ServiceBackend(begun, s)
           forced(s, t) == ServiceBackend(Stop(LatchIf(serviced(s), TRUE)), t)
<1>1. PICK s1, s2 \in Samples :
        /\ motor' = IF Unsafe(serviced(s1)) THEN forced(s1, s2) ELSE serviced(s1)
        /\ observation' = Observed(motor')
        /\ task' \in IF motor'.latched THEN {"deleted"} ELSE {"wait", "deleted"}
  BY DEF Begin, ReleaseClockMade
<1>2. /\ begun \in Motors /\ ~begun.enabled /\ ~begun.desired
      /\ begun.lastSeen = motor.lastSeen
      /\ begun.timedOut = motor.timedOut /\ begun.age = motor.age
      /\ begun.latched = motor.latched
  <2> DEFINE b == BackendBegun(motor)
  <2>1. /\ b \in Motors /\ b.lastSeen = motor.lastSeen
        /\ b.timedOut = motor.timedOut /\ b.age = motor.age
        /\ b.latched = motor.latched
    BY DEF IInv, TypeOK, Motors, BackendBegun
  <2> HIDE DEF b
  <2>2. /\ Stop(b) \in Motors /\ ~Stop(b).enabled /\ ~Stop(b).desired
        /\ Stop(b).lastSeen = b.lastSeen /\ Stop(b).latched = b.latched
        /\ Stop(b).timedOut = b.timedOut /\ Stop(b).age = b.age
    BY <2>1, StopFacts
  <2> QED BY <2>1, <2>2 DEF b
<1> HIDE DEF begun
<1> DEFINE n == serviced(s1)
<1>3. /\ n \in Motors /\ ~n.enabled /\ ~n.desired
      /\ n.lastSeen = motor.lastSeen
      /\ n.timedOut = motor.timedOut /\ n.age = motor.age
      /\ n.latched = motor.latched
  BY <1>2, ServiceFacts
<1> DEFINE f == forced(s1, s2)
<1>4. /\ f \in Motors /\ ~f.enabled /\ ~f.desired /\ f.latched
      /\ f.lastSeen = motor.lastSeen
      /\ f.timedOut = motor.timedOut /\ f.age = motor.age
  <2> HIDE DEF serviced
  <2> DEFINE l == LatchIf(n, TRUE)
  <2>1. /\ l \in Motors /\ l.latched /\ l.lastSeen = motor.lastSeen
        /\ l.timedOut = motor.timedOut /\ l.age = motor.age
    BY <1>3, LatchFacts
  <2> HIDE DEF l
  <2>2. /\ Stop(l) \in Motors /\ Stop(l).latched
        /\ ~Stop(l).enabled /\ ~Stop(l).desired
        /\ Stop(l).lastSeen = motor.lastSeen
        /\ Stop(l).timedOut = motor.timedOut /\ Stop(l).age = motor.age
    BY <2>1, StopFacts
  <2> QED BY <2>2, ServiceFacts DEF l
<1>5. /\ motor' \in Motors /\ ~motor'.desired /\ AtRest(motor')
      /\ motor'.lastSeen = motor.lastSeen
      /\ motor'.timedOut = motor.timedOut /\ motor'.age = motor.age
  <2> HIDE DEF serviced, forced
  <2>1. CASE Unsafe(n) BY <1>1, <1>4, <2>1 DEF AtRest
  <2>2. CASE ~Unsafe(n)
    <3>1. ~n.broken /\ ~n.actuator BY <1>3, <2>2 DEF Unsafe
    <3> QED BY <1>1, <1>3, <2>2, <3>1 DEF AtRest
  <2> QED BY <2>1, <2>2
<1>a. start \in 0..MaxTime BY DEF IInv, TypeOK
<1>6. observation' \in Observations /\ ObservationCurrent'
  BY <1>1, <1>5, <1>a, ObservedFacts DEF ObservationCurrent
<1>7. TypeOK' BY <1>1, <1>5, <1>6 DEF Begin, IInv, TypeOK
<1>8. SeenInOrder' /\ StopIsBinding' /\ AuthorityIsRecent' /\ RestBeforeBegin'
      /\ TimeoutHistory(motor)'
  BY <1>1, <1>5
  DEF Begin, IInv, SeenInOrder, StopIsBinding, AuthorityIsRecent,
      RestBeforeBegin, TimeoutHistory, AtRest
<1> QED BY <1>5, <1>6, <1>7, <1>8 DEF IInv

LEMMA WakeIInv == IInv /\ Wake => IInv'
  BY DEF IInv, Wake, TypeOK, AtRest, SeenInOrder, ObservationCurrent,
         StopIsBinding, AuthorityIsRecent, TimeoutHistory, RestBeforeBegin

LEMMA ServiceIInv ==
    ASSUME IInv, NEW readable \in BOOLEAN, Service(readable)
    PROVE  IInv'
<1> DEFINE c == Commanded(motor, readable)
<1>1. PICK s1, s2 \in Samples :
        /\ motor' = FailSafe(ServiceBackend(c, s1), s2)
        /\ observation' = Observed(motor')
  BY DEF Service
<1>2. /\ c \in Motors
      /\ (c.enabled <=> c.desired) /\ (c.latched => ~c.desired)
      /\ c.broken => c.latched
      /\ c.lastSeen <= command.generation
      /\ (command.kind = "stop" /\ c.lastSeen = command.generation) => ~c.desired
      /\ (Timeout # 0 /\ c.desired) => start - c.issued <= Timeout
      /\ TimeoutHistory(c)
  BY CommandedFacts
<1> HIDE DEF c
<1> DEFINE n == ServiceBackend(c, s1)
<1>3. /\ n \in Motors
      /\ n.enabled => n.desired
      /\ n.desired => n.enabled \/ n.broken
      /\ n.latched => ~n.desired
      /\ n.desired = c.desired
      /\ n.timedOut = c.timedOut /\ n.age = c.age
      /\ n.lastSeen = c.lastSeen /\ n.issued = c.issued
  <2>1. /\ n \in Motors
        /\ n.latched = c.latched /\ n.desired = c.desired
        /\ n.timedOut = c.timedOut /\ n.age = c.age
        /\ n.lastSeen = c.lastSeen /\ n.issued = c.issued
        /\ n.enabled => c.enabled
        /\ c.enabled => n.enabled \/ n.broken
    BY <1>2, ServiceFacts
  <2> QED BY <1>2, <2>1
<1> HIDE DEF n
<1>4. /\ motor' \in Motors /\ AtRest(motor')
      /\ motor'.desired => c.desired
      /\ motor'.timedOut = c.timedOut /\ motor'.age = c.age
      /\ motor'.lastSeen = c.lastSeen /\ motor'.issued = c.issued
  <2>1. LET f == FailSafe(n, s2)
        IN  /\ f \in Motors /\ AtRest(f) /\ (f.desired => n.desired)
            /\ f.timedOut = n.timedOut /\ f.age = n.age
            /\ f.lastSeen = n.lastSeen /\ f.issued = n.issued
    BY <1>3, FailSafeFacts
  <2>2. motor' = FailSafe(n, s2) BY <1>1 DEF n
  <2> QED BY <1>3, <2>1, <2>2
<1>a. start \in 0..MaxTime BY DEF IInv, TypeOK
<1>5. observation' \in Observations /\ ObservationCurrent'
  BY <1>1, <1>4, <1>a, ObservedFacts DEF ObservationCurrent
<1>6. TypeOK' BY <1>4, <1>5 DEF Service, IInv, TypeOK
<1>7. SeenInOrder' /\ StopIsBinding'
  BY <1>2, <1>4 DEF Service, SeenInOrder, StopIsBinding, AtRest
<1>8. AuthorityIsRecent' /\ RestBeforeBegin' /\ TimeoutHistory(motor)'
  BY <1>2, <1>4
  DEF Service, AuthorityIsRecent, RestBeforeBegin, TimeoutHistory
<1> QED BY <1>4, <1>5, <1>6, <1>7, <1>8 DEF IInv

-----------------------------------------------------------------------------
(* The theorems *)

LEMMA NextIInv == IInv /\ [Next]_vars => IInv'
<1> SUFFICES ASSUME IInv, [Next]_vars PROVE IInv' OBVIOUS
<1>1. CASE Tick \/ StampCommand \/ Evaluate \/ \E kind \in Kinds : Publish(kind)
  BY <1>1, AttitudeIInv
<1>2. CASE BeginFails BY <1>2, BeginFailsIInv
<1>3. CASE Begin BY <1>3, BeginIInv
<1>4. CASE Wake BY <1>4, WakeIInv
<1>5. CASE ServeRelease BY <1>5, ServiceIInv DEF ServeRelease
<1>6. CASE UNCHANGED vars
  BY <1>6
  DEF vars, IInv, TypeOK, AtRest, SeenInOrder, ObservationCurrent,
      StopIsBinding, AuthorityIsRecent, TimeoutHistory, RestBeforeBegin
<1> QED BY <1>1, <1>2, <1>3, <1>4, <1>5, <1>6 DEF Next

THEOREM ExecutionInvariant == Spec => []IInv
<1>1. Init => IInv BY InitIInv
<1>2. IInv /\ [Next]_vars => IInv' BY NextIInv
<1> QED BY <1>1, <1>2, PTL DEF Spec

\* Type correctness of the motor domain.
THEOREM ExecutionTypeOK == Spec => []TypeOK
<1>1. IInv => TypeOK BY DEF IInv
<1> QED BY <1>1, ExecutionInvariant, PTL

\* An energised actuator was asked for and is supported, or is reported.
THEOREM ExecutionAuthority == Spec => []EnergisedOnlyOnAuthority
<1>1. IInv => EnergisedOnlyOnAuthority
  BY DEF IInv, AtRest, ObservationCurrent, EnergisedOnlyOnAuthority
<1> QED BY <1>1, ExecutionInvariant, PTL

\* A latched fault ends authority, whatever is published afterwards.
THEOREM ExecutionFaultEndsAuthority == Spec => []FaultEndsAuthority
<1>1. IInv => FaultEndsAuthority BY DEF IInv, AtRest, FaultEndsAuthority
<1> QED BY <1>1, ExecutionInvariant, PTL

\* A stop is obeyed by the service that reads it.
THEOREM ExecutionStopIsBinding == Spec => []StopIsBinding
<1>1. IInv => StopIsBinding BY DEF IInv
<1> QED BY <1>1, ExecutionInvariant, PTL

\* No service extends authority beyond the timeout, readable mailbox or not.
THEOREM ExecutionAuthorityIsRecent == Spec => []AuthorityIsRecent
<1>1. IInv => AuthorityIsRecent BY DEF IInv
<1> QED BY <1>1, ExecutionInvariant, PTL

\* A command times out because it is too old or from the service's future.
THEOREM ExecutionTimeouts == Spec => []TimeoutIsOldOrAhead
<1>1. IInv => TimeoutIsOldOrAhead
  BY DEF IInv, TimeoutHistory, TimeoutIsOldOrAhead
<1> QED BY <1>1, ExecutionInvariant, PTL

-----------------------------------------------------------------------------
(* A fault is for good *)

\* No service takes a latched fault back.
LEMMA ServiceLatches ==
    ASSUME IInv, NEW readable \in BOOLEAN, Service(readable), motor.latched
    PROVE  motor'.latched
<1> DEFINE c == Commanded(motor, readable)
<1>1. PICK s1, s2 \in Samples : motor' = FailSafe(ServiceBackend(c, s1), s2)
  BY DEF Service
<1>2. /\ c \in Motors /\ c.latched
      /\ (c.enabled <=> c.desired) /\ (c.latched => ~c.desired)
  BY CommandedFacts
<1> HIDE DEF c
<1> DEFINE n == ServiceBackend(c, s1)
<1>3. /\ n \in Motors /\ n.latched /\ ~n.desired
      /\ n.enabled => n.desired
      /\ n.desired => n.enabled \/ n.broken
      /\ n.latched => ~n.desired
  <2>1. n \in Motors /\ n.latched = c.latched /\ n.desired = c.desired /\ (n.enabled => c.enabled)
    BY <1>2, ServiceFacts
  <2> QED BY <1>2, <2>1
<1> HIDE DEF n
<1>4. n.latched => FailSafe(n, s2).latched BY <1>3, FailSafeFacts
<1> QED BY <1>1, <1>3, <1>4 DEF n

\* Nor does a begin: it starts from the latch as it is.
LEMMA BeginLatches ==
    ASSUME IInv, Begin, motor.latched
    PROVE  motor'.latched
<1> DEFINE begun == Stop(BackendBegun(motor))
<1>1. PICK s1, s2 \in Samples :
        motor' = IF Unsafe(ServiceBackend(begun, s1))
                 THEN ServiceBackend(Stop(LatchIf(ServiceBackend(begun, s1), TRUE)), s2)
                 ELSE ServiceBackend(begun, s1)
  BY DEF Begin
<1>2. begun \in Motors /\ begun.latched
  <2> DEFINE b == BackendBegun(motor)
  <2>1. b \in Motors /\ b.latched BY DEF IInv, TypeOK, Motors, BackendBegun
  <2> HIDE DEF b
  <2>2. Stop(b) \in Motors /\ Stop(b).latched BY <2>1, StopFacts
  <2> QED BY <2>2 DEF b
<1> HIDE DEF begun
<1> DEFINE n == ServiceBackend(begun, s1)
<1>3. n \in Motors /\ n.latched BY <1>2, ServiceFacts
<1> HIDE DEF n
<1> DEFINE l == LatchIf(n, TRUE)
<1>4. l \in Motors /\ l.latched BY <1>3, LatchFacts
<1> HIDE DEF l
<1>5. Stop(l) \in Motors /\ Stop(l).latched BY <1>4, StopFacts
<1>6. ServiceBackend(Stop(l), s2).latched BY <1>5, ServiceFacts
<1> QED BY <1>1, <1>3, <1>6 DEF n, l

LEMMA NextLatches == IInv /\ [Next]_vars /\ motor.latched => motor'.latched
<1> SUFFICES ASSUME IInv, [Next]_vars, motor.latched PROVE motor'.latched OBVIOUS
<1>1. CASE Tick \/ StampCommand \/ Evaluate \/ \E kind \in Kinds : Publish(kind)
  BY <1>1 DEF Tick, StampCommand, Evaluate, Publish
<1>2. CASE BeginFails BY <1>2 DEF BeginFails, SetFaulted, IInv, TypeOK, Motors
<1>3. CASE Begin BY <1>3, BeginLatches
<1>4. CASE Wake BY <1>4 DEF Wake
<1>5. CASE ServeRelease BY <1>5, ServiceLatches DEF ServeRelease
<1>6. CASE UNCHANGED vars BY <1>6 DEF vars
<1> QED BY <1>1, <1>2, <1>3, <1>4, <1>5, <1>6 DEF Next

\* A reported fault stays reported, and the attitude task, once it has not been
\* let by, publishes nothing but stops from then on.
THEOREM ExecutionFaultSilences == Spec => FaultSilencesTargets
<1>1. IInv /\ IInv' /\ [Next]_vars =>
        [observation.faulted /\ may # "target" =>
           /\ observation'.faulted /\ may' # "target"
           /\ command' # command => command'.kind = "stop"]_vars
  <2> SUFFICES ASSUME IInv, IInv', [Next]_vars, observation.faulted, may # "target"
               PROVE  /\ observation'.faulted /\ may' # "target"
                      /\ command' # command => command'.kind = "stop"
    OBVIOUS
  <2>1. observation'.faulted
    <3>1. motor.latched BY DEF IInv, ObservationCurrent, AtRest
    <3>2. motor'.latched BY <3>1, NextLatches
    <3> QED BY <3>2 DEF IInv, ObservationCurrent
  <2>2. CASE Evaluate
    <3>1. ~Usable(observation, issuing) BY DEF Usable
    <3>2. may' = "stop" /\ command' = command BY <2>2, <3>1 DEF Evaluate
    <3> QED BY <2>1, <3>2
  <2>3. ASSUME NEW kind \in Kinds, Publish(kind)
        PROVE  may' # "target" /\ (command' # command => command'.kind = "stop")
    BY <2>3 DEF Publish
  <2>4. CASE Tick \/ StampCommand \/ BeginFails \/ Begin \/ Wake \/ UNCHANGED vars
    BY <2>1, <2>4 DEF Tick, StampCommand, BeginFails, Begin, Wake, vars
  <2>5. CASE ServeRelease BY <2>1, <2>5 DEF ServeRelease, Service
  <2> QED BY <2>1, <2>2, <2>3, <2>4, <2>5 DEF Next
<1> QED BY <1>1, ExecutionInvariant, PTL DEF Spec, FaultSilencesTargets

-----------------------------------------------------------------------------
(* The commissioning tasks *)

Jobs == [n : 0 .. MaxJobs, init : BOOLEAN, positive : BOOLEAN, negative : BOOLEAN,
         aborted : BOOLEAN]
CommResults == [job : Nat, init : BOOLEAN, aborted : BOOLEAN, heard : BOOLEAN]

Places == {"wait", "taken", "clear", "begin", "align", "positive", "pause", "decide", "negative",
           "finish", "free", "report"}

\* The counters of the jobs: one is accepted only while the bound allows it, and
\* all but the one that waits have been taken.
CountInv ==
    /\ queue \in 0 .. MaxJobs
    /\ admitted \in 0 .. MaxJobs
    /\ at = "send" => admitted < MaxJobs
    /\ queue # 0 => queue = admitted
    /\ job.n = (IF queue = 0 THEN admitted ELSE admitted - 1)
    /\ result.job \in 0 .. admitted

TaskInv ==
    /\ job \in Jobs /\ result \in CommResults
    /\ pc \in Places
    /\ at \in {"result", "link", "line", "send"}
    /\ abort \in BOOLEAN /\ busy \in BOOLEAN /\ driven \in BOOLEAN /\ looked \in BOOLEAN
    /\ heard \in BOOLEAN /\ connected \in BOOLEAN
    /\ looked => pc \in Legs
    /\ driven => pc \in Legs \cup {"align"}
    /\ pc \in Places \ {"wait", "taken", "report"} => busy

\* A stop the job has heard stays in the flag while the job still looks at it,
\* and in the job's outcome from then on.
StopInv ==
    /\ heard /\ Listening => abort
    /\ pc \in {"taken", "clear"} => ~heard
    /\ heard /\ pc \in {"free", "report"} /\ job.init => job.aborted
    /\ StopIsReported

CommissioningInv == CountInv /\ TaskInv /\ StopInv

-----------------------------------------------------------------------------
LEMMA CommissioningStarts == CommissioningInit => CommissioningInv
<1> SUFFICES ASSUME CommissioningInit PROVE CommissioningInv OBVIOUS
<1> USE BoundsAssumption DEF CommissioningInit
<1>1. NoJob \in Jobs /\ NoResult \in CommResults /\ NoJob.n = 0 /\ NoResult.job = 0
  BY DEF NoJob, NoResult, Jobs, CommResults
<1>2. CountInv BY <1>1 DEF CountInv
<1>3. TaskInv BY <1>1 DEF TaskInv, Legs, Places
<1>4. StopInv BY <1>1 DEF StopInv, StopIsReported
<1> QED BY <1>2, <1>3, <1>4 DEF CommissioningInv

LEMMA CountStep == CountInv /\ TaskInv /\ [CommissioningNext]_jobVars => CountInv'
<1> SUFFICES ASSUME CountInv, TaskInv, [CommissioningNext]_jobVars PROVE CountInv' OBVIOUS
<1> USE BoundsAssumption DEF CountInv
<1>t. job \in Jobs /\ result \in CommResults BY DEF TaskInv
<1>1. CASE Link BY <1>1 DEF Link, motorVars, commandVars
<1>2. CASE EmitResult BY <1>2 DEF EmitResult, NoResult, motorVars
<1>3. CASE WatchLink BY <1>3 DEF WatchLink, motorVars
<1>4. CASE NoLine BY <1>4 DEF NoLine, motorVars
<1>5. CASE StopLine BY <1>5 DEF StopLine, motorVars
<1>6. CASE CommissionLine BY <1>6 DEF CommissionLine, motorVars
<1>7. CASE SendJob
  <2>1. admitted < MaxJobs /\ at' = "line" /\ job' = job /\ result' = result
    BY <1>7 DEF SendJob, motorVars
  <2>2. CASE queue = 0 BY <1>7, <2>1, <2>2 DEF SendJob
  <2>3. CASE queue # 0 BY <1>7, <2>1, <2>3 DEF SendJob
  <2> QED BY <2>2, <2>3
<1>8. CASE TakeJob
  <2>1. job'.n = queue /\ queue' = 0 /\ queue # 0 BY <1>8 DEF TakeJob, NoJob
  <2> QED BY <1>8, <2>1 DEF TakeJob, commandVars
<1>9. CASE SetBusy \/ ClearAbort \/ Pause \/ Decide \/ ClearBusy
  BY <1>9 DEF SetBusy, ClearAbort, Pause, Decide, ClearBusy, motorVars, commandVars
<1>10. CASE BackendRefuses \/ Align \/ EndAlignment
  <2>1. job'.n = job.n BY <1>10, <1>t DEF BackendRefuses, Align, EndAlignment, Jobs
  <2> QED BY <1>10, <2>1 DEF BackendRefuses, Align, EndAlignment, commandVars
<1>11. ASSUME NEW leg \in Legs, Look(leg) \/ Serve(leg) PROVE CountInv'
  BY <1>11 DEF Look, Serve, commandVars
<1>12. ASSUME NEW leg \in Legs, LegDone(leg) \/ LegFails(leg) PROVE CountInv'
  <2>1. PICK ok \in BOOLEAN : EndLeg(leg, ok) BY <1>12 DEF LegDone, LegFails
  <2>2. job'.n = job.n BY <1>t, <2>1 DEF EndLeg, Jobs, Legs
  <2> QED BY <2>1, <2>2 DEF EndLeg, commandVars
<1>13. CASE Finish
  <2>1. job'.n = job.n BY <1>13, <1>t DEF Finish, Jobs
  <2> QED BY <1>13, <2>1 DEF Finish, commandVars
<1>14. CASE Report
  <2>1. result'.job = job.n BY <1>14 DEF Report, Result
  <2>2. job.n \in 0 .. admitted BY <1>t DEF Jobs
  <2> QED BY <1>14, <2>1, <2>2 DEF Report, motorVars, commandVars
<1>15. CASE UNCHANGED jobVars BY <1>15 DEF jobVars, motorVars, commandVars
<1> QED
  BY <1>1, <1>2, <1>3, <1>4, <1>5, <1>6, <1>7, <1>8, <1>9, <1>10, <1>11, <1>12, <1>13,
     <1>14, <1>15 DEF CommissioningNext, CommandTask, MotorTask

LEMMA TaskStep == CountInv /\ TaskInv /\ [CommissioningNext]_jobVars => TaskInv'
<1> SUFFICES ASSUME CountInv, TaskInv, [CommissioningNext]_jobVars PROVE TaskInv' OBVIOUS
<1> USE BoundsAssumption DEF TaskInv
<1>c. queue \in 0 .. MaxJobs BY DEF CountInv
<1>1. CASE Link BY <1>1 DEF Link, motorVars, commandVars
<1>2. CASE EmitResult BY <1>2 DEF EmitResult, NoResult, CommResults, motorVars
<1>3. CASE WatchLink BY <1>3 DEF WatchLink, RequestAbort, motorVars
<1>4. CASE NoLine \/ CommissionLine BY <1>4 DEF NoLine, CommissionLine, motorVars
<1>5. CASE StopLine BY <1>5 DEF StopLine, RequestAbort, motorVars
<1>6. CASE SendJob BY <1>6 DEF SendJob, motorVars
<1>7. CASE TakeJob
  <2>1. job' \in Jobs BY <1>7, <1>c DEF TakeJob, NoJob, Jobs
  <2> QED BY <1>7, <2>1 DEF TakeJob, Legs, Places, commandVars
<1>8. CASE SetBusy \/ ClearAbort \/ Pause \/ Decide \/ ClearBusy
  <2>1. CASE SetBusy BY <2>1 DEF SetBusy, Legs, Places, commandVars
  <2>2. CASE ClearAbort BY <2>2 DEF ClearAbort, Legs, Places, commandVars
  <2>3. CASE Pause BY <2>3 DEF Pause, Legs, Places, commandVars
  <2>4. CASE Decide BY <2>4 DEF Decide, Legs, Places, commandVars
  <2>5. CASE ClearBusy BY <2>5 DEF ClearBusy, Legs, Places, commandVars
  <2> QED BY <1>8, <2>1, <2>2, <2>3, <2>4, <2>5
<1>9. CASE BackendRefuses \/ Align \/ EndAlignment
  <2>1. CASE BackendRefuses BY <2>1 DEF BackendRefuses, Legs, Places, commandVars
  <2>2. CASE Align BY <2>2 DEF Align, Legs, Places, commandVars
  <2>3. CASE EndAlignment
    <3>1. job' \in Jobs BY <2>3 DEF EndAlignment, Jobs
    <3> QED BY <2>3, <3>1 DEF EndAlignment, Legs, Places, commandVars
  <2> QED BY <1>9, <2>1, <2>2, <2>3
<1>10. ASSUME NEW leg \in Legs, Look(leg) \/ Serve(leg) PROVE TaskInv'
  BY <1>10 DEF Look, Serve, Legs, Places, commandVars
<1>11. ASSUME NEW leg \in Legs, LegDone(leg) \/ LegFails(leg) PROVE TaskInv'
  <2>1. PICK ok \in BOOLEAN : EndLeg(leg, ok) BY <1>11 DEF LegDone, LegFails
  <2>2. job' \in Jobs BY <2>1 DEF EndLeg, Jobs, Legs
  <2>3. pc = leg /\ ~looked BY <1>11 DEF LegDone, LegFails
  <2> QED BY <2>1, <2>2, <2>3 DEF EndLeg, AfterLeg, Legs, Places, commandVars
<1>12. CASE Finish
  <2>1. job' \in Jobs BY <1>12 DEF Finish, Jobs
  <2> QED BY <1>12, <2>1 DEF Finish, Legs, Places, commandVars
<1>13. CASE Report
  <2>1. result' \in CommResults BY <1>13 DEF Report, Result, Jobs, CommResults
  <2> QED BY <1>13, <2>1 DEF Report, Legs, Places, commandVars
<1>14. CASE UNCHANGED jobVars BY <1>14 DEF jobVars, motorVars, commandVars
<1> QED
  BY <1>1, <1>2, <1>3, <1>4, <1>5, <1>6, <1>7, <1>8, <1>9, <1>10, <1>11, <1>12, <1>13,
     <1>14 DEF CommissioningNext, CommandTask, MotorTask

\* The flag is reset only before the job listens, and read for the last time
\* where the outcome is written down.
LEMMA StopStep == TaskInv /\ StopInv /\ [CommissioningNext]_jobVars => StopInv'
<1> SUFFICES ASSUME TaskInv, StopInv, [CommissioningNext]_jobVars PROVE StopInv' OBVIOUS
<1> USE DEF StopInv, StopIsReported, Listening
<1>t. job \in Jobs /\ pc \in Places BY DEF TaskInv
<1>1. CASE Link BY <1>1 DEF Link, motorVars, commandVars
<1>2. CASE EmitResult BY <1>2 DEF EmitResult, NoResult, motorVars
<1>3. CASE WatchLink BY <1>3 DEF WatchLink, RequestAbort, motorVars
<1>4. CASE NoLine \/ CommissionLine BY <1>4 DEF NoLine, CommissionLine, motorVars
<1>5. CASE StopLine BY <1>5 DEF StopLine, RequestAbort, motorVars
<1>6. CASE SendJob BY <1>6 DEF SendJob, motorVars
<1>7. CASE TakeJob BY <1>7 DEF TakeJob, commandVars
<1>8. CASE SetBusy \/ ClearAbort \/ Pause \/ Decide \/ ClearBusy
  BY <1>8 DEF SetBusy, ClearAbort, Pause, Decide, ClearBusy, motorVars, commandVars
<1>9. CASE BackendRefuses \/ Align \/ EndAlignment
  BY <1>9 DEF BackendRefuses, Align, EndAlignment, commandVars
<1>10. ASSUME NEW leg \in Legs, Look(leg) \/ Serve(leg) PROVE StopInv'
  BY <1>10 DEF Look, Serve, commandVars
<1>11. ASSUME NEW leg \in Legs, LegDone(leg) \/ LegFails(leg) PROVE StopInv'
  <2>1. PICK ok \in BOOLEAN : EndLeg(leg, ok) BY <1>11 DEF LegDone, LegFails
  <2>2. pc = leg BY <1>11 DEF LegDone, LegFails
  <2> QED BY <2>1, <2>2 DEF EndLeg, AfterLeg, Legs, commandVars
<1>12. CASE Finish
  <2>1. heard => abort BY <1>12 DEF Finish
  <2>2. /\ job'.init = job.init
        /\ job'.aborted <=> (job.init /\ (abort \/ ~(job.positive /\ job.negative)))
    BY <1>12, <1>t DEF Finish, Jobs
  <2> QED BY <1>12, <2>1, <2>2 DEF Finish, commandVars
<1>13. CASE Report BY <1>13 DEF Report, Result, commandVars
<1>14. CASE UNCHANGED jobVars BY <1>14 DEF jobVars, motorVars, commandVars
<1> QED
  BY <1>1, <1>2, <1>3, <1>4, <1>5, <1>6, <1>7, <1>8, <1>9, <1>10, <1>11, <1>12, <1>13,
     <1>14 DEF CommissioningNext, CommandTask, MotorTask

-----------------------------------------------------------------------------
\* The inductive invariant of the two commissioning tasks.
THEOREM CommissioningInvariant == CommissioningSpec => []CommissioningInv
<1>1. CommissioningInv /\ [CommissioningNext]_jobVars => CommissioningInv'
  BY CountStep, TaskStep, StopStep DEF CommissioningInv
<1> QED BY <1>1, CommissioningStarts, PTL DEF CommissioningSpec

\* Every job is accounted for, and the motor is driven by a leg of a job that
\* holds the busy flag.
THEOREM CommissioningTypeCorrect == CommissioningSpec => []CommissioningTypeOK
<1>1. CommissioningInv => CommissioningTypeOK
  BY DEF CommissioningInv, CountInv, TaskInv, CommissioningTypeOK, Legs, Places
<1> QED BY <1>1, CommissioningInvariant, PTL

\* A stop the job has heard is in its result.
THEOREM CommissioningStopIsReported == CommissioningSpec => []StopIsReported
<1>1. CommissioningInv => StopIsReported BY DEF CommissioningInv, StopInv
<1> QED BY <1>1, CommissioningInvariant, PTL

\* A job that has been asked to stop starts no leg, unless it had looked for the
\* stop before; only a backend that was still to begin energises the motor.
THEOREM CommissioningStopIsFinal == CommissioningSpec => StopIsFinal
<1>1. ASSUME CommissioningInv, [CommissioningNext]_jobVars, heard, ~Committed
      PROVE  ~Committed' \/ Align \/ UNCHANGED jobVars
  <2> USE DEF Committed
  <2>1. heard /\ Listening => abort BY <1>1 DEF CommissioningInv, StopInv
  <2>2. ASSUME NEW leg \in Legs, Look(leg) \/ Serve(leg) PROVE FALSE
    BY <1>1, <2>1, <2>2 DEF Look, Serve, Legs, Listening
  <2>3. ASSUME NEW leg \in Legs, LegDone(leg) \/ LegFails(leg) PROVE ~Committed'
    BY <1>1, <2>3 DEF LegDone, LegFails, EndLeg
  <2>4. CASE Link \/ CommandTask
    BY <1>1, <2>4 DEF Link, CommandTask, EmitResult, WatchLink, NoLine, StopLine,
       CommissionLine, SendJob, motorVars
  <2>5. CASE TakeJob \/ SetBusy \/ ClearAbort \/ BackendRefuses \/ EndAlignment \/ Pause \/ Decide
             \/ Finish \/ ClearBusy \/ Report
    BY <1>1, <2>5 DEF TakeJob, SetBusy, ClearAbort, BackendRefuses, EndAlignment, Pause, Decide,
       Finish, ClearBusy, Report, motorVars
  <2> QED BY <1>1, <2>2, <2>3, <2>4, <2>5 DEF CommissioningNext, MotorTask
<1>2. CommissioningInv /\ [CommissioningNext]_jobVars
        => [heard /\ ~Committed /\ Committed' => Align]_jobVars
  BY <1>1
<1> QED BY <1>2, CommissioningInvariant, PTL DEF CommissioningSpec, StopIsFinal

=============================================================================
