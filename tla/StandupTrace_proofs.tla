------------------------ MODULE StandupTrace_proofs ------------------------
(***************************************************************************)
(* A session's trace is exact, and what the host calls lossless is         *)
(* complete, for rings, frames, counters and sessions of every size.       *)
(*                                                                         *)
(* While a session runs, its ring is filled from the bottom and never      *)
(* goes round, because nothing is taken out of it; once it has stopped,    *)
(* the ring does not change.  So the worker's copy of the tail stays true, *)
(* and the frames sent so far hold the records below the tail.             *)
(***************************************************************************)
EXTENDS StandupTrace, FiniteSetTheorems, SequenceTheorems, WellFoundedInduction, TLAPS

-----------------------------------------------------------------------------
(* The inductive invariant *)

TraceFrames == [kind : {"none", "start", "data", "end"}, seq : Nat, dropped : Nat, lost : Nat,
                records : Seq(TraceRecords)]
Stations == {"idle", "start", "tail", "head", "end", "flags", "send", "count", "mark"}

\* A frame the transport has accepted is counted, and then settled.
Uncounted == IF worker.at = "count" THEN 1 ELSE 0
Settling(kind) == worker.at \in {"count", "mark"} /\ worker.frame.kind = kind

TraceTypes ==
    /\ control \in {"rest", "reset tail", "arm", "mark end"}
    /\ active \in BOOLEAN /\ start_pending \in BOOLEAN /\ end_pending \in BOOLEAN
    /\ undisturbed \in BOOLEAN
    /\ head \in 0 .. IndexModulus - 1 /\ tail \in 0 .. IndexModulus - 1
    /\ ring \in [0 .. RingRecords - 1 -> TraceRecords]
    /\ sample_seq \in 0 .. MaxSamples /\ dropped \in 0 .. sample_seq
    /\ worker \in [at : Stations, tail : 0 .. IndexModulus - 1, frame : TraceFrames]
    /\ worker.at \in {"send", "count", "mark"} => worker.frame.kind # "none"
    /\ session \in 0 .. MaxSessions
    /\ kept \in Seq(TraceRecords) /\ sent \in Seq(TraceFrames)
    /\ tx_dropped \in 0 .. MaxDrops /\ baseline \in 0 .. tx_dropped

\* A session inherits at most the frame its predecessor had accepted and not yet
\* counted, and until the counter is reset all frames of the predecessor.
CountInv ==
    /\ frame_seq \in Nat /\ Len(sent) <= MaxFrames
    /\ control # "reset tail" => frame_seq + Uncounted <= Len(sent) + 1
    /\ control = "reset tail" => frame_seq + Uncounted <= MaxFrames + Len(sent) + 1

\* A session that is set up or runs while the worker rests.
RestInv ==
    /\ active => control = "rest"
    /\ undisturbed /\ (SettingUp \/ active) => worker.at = "idle"
    /\ undisturbed /\ SettingUp => head = 0 /\ kept = <<>> /\ sent = <<>>
    /\ undisturbed /\ control = "arm" =>
         tail = 0 /\ sample_seq = 0 /\ frame_seq = 0 /\ dropped = 0

\* The sessions the properties are about, once they are set up.
Clean == undisturbed /\ ~SettingUp

Numbered(s, n) == [i \in 1 .. n |-> [session |-> s, seq |-> i - 1]]

\* The ring holds what was kept, from the bottom, and what was dropped came last.
RingInv ==
    Clean =>
        /\ head \in 0 .. RingRecords /\ tail \in 0 .. head
        /\ kept = Numbered(session, head)
        /\ \A i \in 0 .. head - 1 : ring[i] = [session |-> session, seq |-> i]
        /\ sample_seq = dropped + head
        /\ dropped > 0 => head = RingRecords
        /\ active => tail = 0

\* What the flags say of the frames sent.
FlagInv ==
    Clean =>
        /\ active => start_pending /\ ~end_pending /\ sent = <<>>
        /\ control = "mark end" => ~end_pending /\ (start_pending \/ sent # <<>>)
        /\ ~start_pending /\ sent = <<>> => head = 0 /\ ~end_pending
        /\ start_pending => sent = <<>> \/ Settling("start")
        /\ Ended => /\ tail = head /\ ~active /\ control = "rest"
                    /\ Settling("end") \/ ~end_pending

\* How far the records in the accepted frames go.
Reached == IF Settling("data") THEN tail + Len(worker.frame.records) ELSE tail

FrameOk(f, i, n, d) ==
    /\ f.seq = i - 1 /\ f.dropped = d
    /\ f.kind \in {"start", "data", "end"}
    /\ f.kind = "start" <=> i = 1
    /\ f.kind = "end" => i = n
FramesOk(S, m, d) == \A i \in 1 .. m : FrameOk(S[i], i, m, d)

SentInv ==
    Clean =>
        /\ FramesOk(sent, Len(sent), dropped)
        /\ Sent = Numbered(session, Reached)
        /\ frame_seq + Uncounted = Len(sent)
        /\ Len(sent) <= Reached + (IF Ended THEN 2 ELSE 1)

\* The frame the worker made says what is there while it is sent and settled.
Batched(f) ==
    /\ worker.tail = tail /\ Len(f.records) \in 1 .. head - tail
    /\ f.records = [i \in 1 .. Len(f.records) |-> [session |-> session, seq |-> tail + i - 1]]
Due(f) ==
    /\ f.kind = "start" => start_pending /\ f.records = <<>>
    /\ f.kind = "data" => ~start_pending /\ Batched(f)
    /\ f.kind = "end" => ~start_pending /\ end_pending /\ tail = head /\ f.records = <<>>

WorkInv ==
    Clean =>
        /\ worker.at = "head" => ~start_pending /\ worker.tail = tail
        /\ worker.at = "flags" => tail = head
        /\ worker.at = "send" =>
             /\ Due(worker.frame) /\ ~Ended
             /\ worker.frame.seq = Len(sent) /\ worker.frame.dropped = dropped
        /\ worker.at \in {"count", "mark"} =>
             Due(worker.frame) /\ sent # <<>> /\ sent[Len(sent)] = worker.frame

\* What the frames say of the transport's drops only grows, and the last one sent
\* says it in the end.
LostInv ==
    /\ spoiled <=> baseline < tx_dropped
    /\ reported <=> worker.frame.lost > 0
    /\ Clean =>
        /\ \A i \in DOMAIN sent : sent[i].lost <= worker.frame.lost
        /\ sent # <<>> \/ worker.at = "send" => worker.frame.lost <= tx_dropped - baseline
        /\ Ended => Last(sent).lost = worker.frame.lost

StandupTraceInv ==
    /\ TraceTypes /\ CountInv /\ RestInv
    /\ RingInv /\ FlagInv /\ SentInv /\ WorkInv /\ LostInv

-----------------------------------------------------------------------------
(* Numbers *)

LEMMA TraceConstants ==
    /\ RingRecords \in Nat \ {0} /\ FrameRecords \in Nat \ {0} /\ IndexModulus \in Nat \ {0}
    /\ RingRecords < IndexModulus /\ IndexModulus % RingRecords = 0
    /\ SequenceModulus \in Nat /\ RingRecords + 2 <= SequenceModulus
    /\ MaxSessions \in Nat /\ MaxSamples \in Nat /\ MaxFrames \in Nat /\ MaxDrops \in Nat
<1>1. /\ {RingRecords, FrameRecords, IndexModulus} \subseteq Nat \ {0}
      /\ {MaxSessions, MaxSamples, MaxFrames, MaxDrops} \subseteq Nat
  BY TraceAssumption
<1>2. /\ RingRecords \in Nat \ {0} /\ FrameRecords \in Nat \ {0} /\ IndexModulus \in Nat \ {0}
      /\ MaxSessions \in Nat /\ MaxSamples \in Nat /\ MaxFrames \in Nat /\ MaxDrops \in Nat
  BY <1>1
<1> QED BY <1>2, TraceAssumption

LEMMA NaturalState ==
    TraceTypes =>
        /\ head \in Nat /\ tail \in Nat /\ session \in Nat
        /\ sample_seq \in Nat /\ dropped \in Nat /\ dropped <= sample_seq
        /\ worker.tail \in Nat /\ worker.frame \in TraceFrames /\ worker.at \in Stations
        /\ tx_dropped \in Nat /\ baseline \in Nat /\ tx_dropped - baseline \in Nat
<1> SUFFICES ASSUME TraceTypes PROVE
        /\ head \in Nat /\ tail \in Nat /\ session \in Nat
        /\ sample_seq \in Nat /\ dropped \in Nat /\ dropped <= sample_seq
        /\ worker.tail \in Nat /\ worker.frame \in TraceFrames /\ worker.at \in Stations
        /\ tx_dropped \in Nat /\ baseline \in Nat /\ tx_dropped - baseline \in Nat
  OBVIOUS
<1>a. /\ sample_seq \in 0 .. MaxSamples /\ dropped \in 0 .. sample_seq
      /\ head \in 0 .. IndexModulus - 1 /\ tail \in 0 .. IndexModulus - 1
      /\ session \in 0 .. MaxSessions
      /\ tx_dropped \in 0 .. MaxDrops /\ baseline \in 0 .. tx_dropped
  BY DEF TraceTypes
<1>b. worker \in [at : Stations, tail : 0 .. IndexModulus - 1, frame : TraceFrames]
  BY DEF TraceTypes
<1>c. /\ MaxSamples \in Nat /\ MaxSessions \in Nat /\ IndexModulus \in Nat
      /\ MaxDrops \in Nat
  BY TraceConstants
<1>1. sample_seq \in Nat BY <1>a, <1>c
<1>2. dropped \in Nat /\ dropped <= sample_seq BY <1>a, <1>1
<1>3. head \in Nat /\ tail \in Nat /\ session \in Nat BY <1>a, <1>c
<1>d. /\ worker.tail \in 0 .. IndexModulus - 1 /\ worker.frame \in TraceFrames
      /\ worker.at \in Stations
  BY <1>b
<1>4. worker.tail \in Nat /\ worker.frame \in TraceFrames /\ worker.at \in Stations
  BY <1>c, <1>d
<1>5. tx_dropped \in Nat /\ baseline \in Nat /\ tx_dropped - baseline \in Nat BY <1>a, <1>c
<1> QED BY <1>1, <1>2, <1>3, <1>4, <1>5

LEMMA Remainder ==
    ASSUME NEW m \in Nat \ {0}, NEW x \in Nat
    PROVE  x % m \in 0 .. m - 1 /\ (x < m => x % m = x)
OBVIOUS

LEMMA SmallerOfTwo ==
    ASSUME NEW x \in Nat, NEW y \in Nat
    PROVE  Min({x, y}) \in {x, y} /\ Min({x, y}) <= x /\ Min({x, y}) <= y
<1>1. \E z \in {x, y} : \A w \in {x, y} : z <= w OBVIOUS
<1>2. /\ Min({x, y}) \in {x, y} /\ \A w \in {x, y} : Min({x, y}) <= w BY <1>1 DEF Min
<1> QED BY <1>2

\* Indices that have not come round.
LEMMA AheadIs ==
    ASSUME NEW h \in Nat, NEW t \in 0 .. h, h < IndexModulus
    PROVE  Ahead(h, t) = h - t
<1>1. IndexModulus \in Nat \ {0} BY TraceConstants
<1>2. PICK d \in Nat : d = h - t /\ d < IndexModulus BY <1>1
<1>3. (h + IndexModulus - t) = 1 * IndexModulus + d BY <1>1, <1>2
<1>4. (1 * IndexModulus + d) % IndexModulus = d BY <1>1, <1>2
<1> QED BY <1>2, <1>3, <1>4 DEF Ahead

LEMMA AheadRange ==
    ASSUME NEW h \in 0 .. IndexModulus - 1, NEW t \in 0 .. IndexModulus - 1
    PROVE  Ahead(h, t) \in 0 .. IndexModulus - 1
<1>1. IndexModulus \in Nat \ {0} BY TraceConstants
<1>2. h + IndexModulus - t \in Nat BY <1>1
<1> QED BY <1>1, <1>2, Remainder DEF Ahead
-----------------------------------------------------------------------------
(* The concatenation of the frames' records is a recursion over their      *)
(* number, so it needs an induction: a set of numbers that has 0 and, with *)
(* each of its members, the next one, has them all, because what it lacks  *)
(* would have a least element.                                             *)

LEMMA LeastNumber ==
    ASSUME NEW T \in SUBSET Nat, T # {} PROVE \E m \in T : \A k \in T : m <= k
<1> DEFINE R == {ss \in Nat \X Nat : ss[1] < ss[2]}
<1> HIDE DEF R
<1>1. IsWellFoundedOn(R, Nat) BY NatLessThanWellFounded DEF OpToRel, R
<1>2. PICK m \in T : \A y \in T : ~(<<y, m>> \in R) BY <1>1, WFMin, Zenon
<1>3. ASSUME NEW k \in T PROVE m <= k
  <2>1. m \in Nat /\ k \in Nat OBVIOUS
  <2>2. ~(k < m) BY <1>2, <2>1 DEF R
  <2> QED BY <2>1, <2>2
<1> QED BY <1>3

LEMMA NumberInduction ==
    ASSUME NEW P \in SUBSET Nat, 0 \in P, \A n \in P : n + 1 \in P PROVE P = Nat
<1>1. SUFFICES ASSUME Nat \ P # {} PROVE FALSE OBVIOUS
<1>2. PICK m \in Nat \ P : \A k \in Nat \ P : m <= k BY <1>1, LeastNumber
<1>3. m # 0 /\ m - 1 \in Nat BY <1>2
<1>4. m - 1 \in P BY <1>2, <1>3
<1> QED BY <1>2, <1>3, <1>4

\* F[i] is the concatenation of the first i members of s, up to n.
Flattens(F, s, n) ==
    \A i \in 1 .. n : F[i] = IF i = 1 THEN s[i] ELSE F[i - 1] \o s[i]

LEMMA FlattenStep ==
    ASSUME NEW H, NEW q, NEW k \in Nat, Flattens(H, q, k)
    PROVE  \A i \in 2 .. k : H[i] = H[i - 1] \o q[i]
<1>1. \A i \in 2 .. k : i \in 1 .. k /\ i # 1 OBVIOUS
<1> QED BY <1>1 DEF Flattens

LEMMA AppendFacts ==
    ASSUME NEW T, NEW s \in Seq(T), NEW x \in T
    PROVE  /\ Append(s, x) \in Seq(T) /\ Len(Append(s, x)) = Len(s) + 1
           /\ Append(s, x)[Len(s) + 1] = x
           /\ \A i \in 1 .. Len(s) : Append(s, x)[i] = s[i]
OBVIOUS

LEMMA FlattenExists ==
    ASSUME NEW S, NEW s \in Seq(Seq(S)), NEW n \in Nat
    PROVE  \E F \in [1 .. Len(s) -> Seq(S)] : n <= Len(s) => Flattens(F, s, n)
<1>0. PICK N \in Nat : N = Len(s) /\ s \in [1 .. N -> Seq(S)] OBVIOUS
<1> DEFINE P == {m \in Nat : \E F \in [1 .. N -> Seq(S)] : m <= N => Flattens(F, s, m)}
<1>1. 0 \in P
  <2>1. [i \in 1 .. N |-> s[i]] \in [1 .. N -> Seq(S)] BY <1>0
  <2>2. \A F : Flattens(F, s, 0) BY DEF Flattens
  <2> QED BY <2>1, <2>2
<1>2. ASSUME NEW m \in P PROVE m + 1 \in P
  <2>1. PICK F \in [1 .. N -> Seq(S)] : m <= N => Flattens(F, s, m) OBVIOUS
  <2>2. CASE ~(m + 1 <= N) BY <2>1, <2>2
  <2>3. CASE m + 1 <= N
    <3> DEFINE new == IF m + 1 = 1 THEN s[m + 1] ELSE F[m] \o s[m + 1]
               G == [F EXCEPT ![m + 1] = new]
    <3>1. new \in Seq(S)
      <4>1. s[m + 1] \in Seq(S) BY <1>0, <2>3
      <4>2. CASE m = 0 BY <4>1, <4>2
      <4>3. CASE m # 0
        <5>1. F[m] \in Seq(S) BY <2>1, <2>3, <4>3
        <5>2. F[m] \o s[m + 1] \in Seq(S) BY <4>1, <5>1
        <5> QED BY <4>3, <5>2
      <4> QED BY <4>2, <4>3
    <3> HIDE DEF new
    <3>2. G \in [1 .. N -> Seq(S)] BY <3>1
    <3>3. G[m + 1] = new /\ \A i \in 1 .. m : G[i] = F[i] BY <2>3
    <3> HIDE DEF G
    <3>4. ASSUME NEW i \in 1 .. m + 1
          PROVE  G[i] = IF i = 1 THEN s[i] ELSE G[i - 1] \o s[i]
      <4>1. CASE i = m + 1
        <5>1. CASE m = 0 BY <3>3, <4>1, <5>1 DEF new
        <5>2. CASE m # 0
          <6>1. G[m] = F[m] BY <3>3, <5>2
          <6> QED BY <3>3, <4>1, <5>2, <6>1 DEF new
        <5> QED BY <5>1, <5>2
      <4>2. CASE i # m + 1
        <5>1. i \in 1 .. m /\ m <= N BY <2>3, <4>2
        <5>2. F[i] = IF i = 1 THEN s[i] ELSE F[i - 1] \o s[i] BY <2>1, <5>1 DEF Flattens
        <5>3. G[i] = F[i] BY <3>3, <5>1
        <5>4. CASE i = 1 BY <5>2, <5>3, <5>4
        <5>5. CASE i # 1
          <6>1. G[i - 1] = F[i - 1] BY <3>3, <5>1, <5>5
          <6> QED BY <5>2, <5>3, <5>5, <6>1
        <5> QED BY <5>4, <5>5
      <4> QED BY <4>1, <4>2
    <3>5. Flattens(G, s, m + 1) BY <3>4 DEF Flattens
    <3> QED BY <3>2, <3>5
  <2> QED BY <2>2, <2>3
<1>3. P = Nat
  <2> HIDE DEF P
  <2>1. P \subseteq Nat BY DEF P
  <2> QED BY <1>1, <1>2, <2>1, NumberInduction
<1>4. n \in P BY <1>3
<1> QED BY <1>0, <1>4

LEMMA FlattenIs ==
    ASSUME NEW S, NEW s \in Seq(Seq(S)), Len(s) # 0
    PROVE  \E F \in [1 .. Len(s) -> Seq(S)] :
              FlattenSeq(s) = F[Len(s)] /\ Flattens(F, s, Len(s))
<1>0. PICK N \in Nat : N = Len(s) /\ s \in [1 .. N -> Seq(S)] OBVIOUS
<1> DEFINE Body(F) == [i \in 1 .. Len(s) |-> IF i = 1 THEN s[i] ELSE F[i - 1] \o s[i]]
<1>1. \E F : F = Body(F)
  <2>1. PICK F \in [1 .. N -> Seq(S)] : Flattens(F, s, N) BY <1>0, FlattenExists
  <2>2. \A i \in 1 .. N : F[i] = Body(F)[i] BY <1>0, <2>1 DEF Flattens
  <2>3. F = Body(F) BY <1>0, <2>1, <2>2
  <2> QED BY <2>3
<1>2. PICK F : F = Body(F) /\ FlattenSeq(s) = F[Len(s)] BY <1>1 DEF FlattenSeq
<1>3. Flattens(F, s, N)
  <2>1. \A i \in 1 .. N : F[i] = Body(F)[i] BY <1>2
  <2> QED BY <1>0, <2>1 DEF Flattens
<1>4. \A i \in 1 .. N : F[i] \in Seq(S)
  <2> DEFINE P == {m \in Nat : m + 1 \in 1 .. N => F[m + 1] \in Seq(S)}
  <2>1. 0 \in P
    <3>1. CASE N = 0 BY <3>1
    <3>2. CASE N # 0
      <4>1. F[1] = s[1] BY <1>3, <3>2 DEF Flattens
      <4> QED BY <1>0, <3>2, <4>1
    <3> QED BY <3>1, <3>2
  <2>2. ASSUME NEW m \in P PROVE m + 1 \in P
    <3>1. SUFFICES ASSUME m + 2 \in 1 .. N PROVE F[m + 2] \in Seq(S) OBVIOUS
    <3>2. F[m + 1] \in Seq(S) BY <3>1
    <3>3. F[m + 2] = F[m + 1] \o s[m + 2]
      <4>1. PICK i \in 2 .. N : i = m + 2 /\ i - 1 = m + 1 BY <3>1
      <4>2. F[i] = F[i - 1] \o s[i] BY <1>0, <1>3, <4>1, FlattenStep
      <4> QED BY <4>1, <4>2
    <3>4. s[m + 2] \in Seq(S) BY <1>0, <3>1
    <3> QED BY <3>2, <3>3, <3>4
  <2>3. P = Nat
    <3> HIDE DEF P
    <3>1. P \subseteq Nat BY DEF P
    <3> QED BY <2>1, <2>2, <3>1, NumberInduction
  <2>4. ASSUME NEW i \in 1 .. N PROVE F[i] \in Seq(S)
    <3>1. i - 1 \in Nat /\ (i - 1) + 1 = i OBVIOUS
    <3>2. i - 1 \in P BY <2>3, <3>1
    <3> QED BY <3>1, <3>2
  <2> QED BY <2>4
<1>5. F \in [1 .. N -> Seq(S)]
  <2>1. F = [i \in 1 .. N |-> F[i]]
    <3>1. F = Body(F) BY <1>2
    <3> QED BY <1>0, <3>1
  <2> HIDE DEF Body
  <2> QED BY <1>4, <2>1
<1> QED BY <1>0, <1>2, <1>3, <1>5

Agree(p, q, n) == \A i \in 1 .. n : p[i] = q[i]

LEMMA FlattenSame ==
    ASSUME NEW p, NEW q, NEW H, NEW K, NEW n \in Nat,
           Flattens(H, p, n), Flattens(K, q, n), Agree(p, q, n)
    PROVE  Agree(H, K, n)
<1>a. \A i \in 2 .. n : H[i] = H[i - 1] \o p[i] BY FlattenStep
<1>b. \A i \in 2 .. n : K[i] = K[i - 1] \o q[i] BY FlattenStep
<1> DEFINE P == {m \in Nat : m + 1 \in 1 .. n => H[m + 1] = K[m + 1]}
<1>1. 0 \in P
  <2>1. CASE 1 \in 1 .. n BY <2>1 DEF Flattens, Agree
  <2> QED BY <2>1
<1>2. ASSUME NEW m \in P PROVE m + 1 \in P
  <2>1. SUFFICES ASSUME m + 2 \in 1 .. n PROVE H[m + 2] = K[m + 2] OBVIOUS
  <2>2. H[m + 1] = K[m + 1] BY <2>1
  <2>3. PICK i \in 2 .. n : i = m + 2 /\ i - 1 = m + 1 BY <2>1
  <2>4. H[i] = H[i - 1] \o p[i] BY <1>a, <2>3
  <2>5. K[i] = K[i - 1] \o q[i] BY <1>b, <2>3
  <2>6. p[i] = q[i] BY DEF Agree
  <2> QED BY <2>2, <2>3, <2>4, <2>5, <2>6
<1>3. P = Nat
  <2> HIDE DEF P
  <2>1. P \subseteq Nat BY DEF P
  <2> QED BY <1>1, <1>2, <2>1, NumberInduction
<1>4. ASSUME NEW i \in 1 .. n PROVE H[i] = K[i]
  <2>1. i - 1 \in Nat /\ (i - 1) + 1 = i OBVIOUS
  <2>2. i - 1 \in P BY <1>3, <2>1
  <2> QED BY <2>1, <2>2
<1> QED BY <1>4 DEF Agree

\* A sequence that is added goes to the end.
LEMMA FlattenAppend ==
    ASSUME NEW S, NEW s \in Seq(Seq(S)), NEW x \in Seq(S)
    PROVE  /\ FlattenSeq(s) \in Seq(S)
           /\ FlattenSeq(Append(s, x)) = FlattenSeq(s) \o x
<1>0. PICK N \in Nat : N = Len(s) /\ s \in [1 .. N -> Seq(S)] OBVIOUS
<1>a. PICK T : T = Seq(S) OBVIOUS
<1>b. s \in Seq(T) /\ x \in T BY <1>a
<1>1. PICK t : t = Append(s, x) OBVIOUS
<1>c. /\ t \in Seq(T) /\ Len(t) = N + 1 /\ t[N + 1] = x
      /\ \A i \in 1 .. N : t[i] = s[i]
  BY <1>0, <1>b, <1>1, AppendFacts
<1>2. t \in Seq(Seq(S)) /\ Len(t) = N + 1 /\ t[N + 1] = x /\ \A i \in 1 .. N : s[i] = t[i]
  BY <1>a, <1>c
<1>3. PICK G \in [1 .. N + 1 -> Seq(S)] : FlattenSeq(t) = G[N + 1] /\ Flattens(G, t, N + 1)
  <2>1. Len(t) # 0 BY <1>2
  <2> QED BY <1>2, <2>1, FlattenIs
<1>4. CASE N = 0
  <2>1. s = <<>> BY <1>0, <1>4
  <2>2. FlattenSeq(s) = <<>> BY <1>0, <1>4, <2>1 DEF FlattenSeq
  <2>3. G[1] = x BY <1>2, <1>3, <1>4 DEF Flattens
  <2>4. <<>> \o x = x OBVIOUS
  <2> QED BY <1>1, <1>3, <1>4, <2>2, <2>3, <2>4
<1>5. CASE N # 0
  <2>1. PICK F \in [1 .. N -> Seq(S)] : FlattenSeq(s) = F[N] /\ Flattens(F, s, N)
    BY <1>0, <1>5, FlattenIs
  <2>2. Flattens(G, t, N)
    <3>1. 1 .. N \subseteq 1 .. N + 1 OBVIOUS
    <3> QED BY <1>3, <3>1 DEF Flattens
  <2>3. F[N] = G[N]
    <3>1. Flattens(F, s, N) /\ N \in Nat /\ Agree(s, t, N) BY <1>0, <1>2, <2>1 DEF Agree
    <3>2. Agree(F, G, N) BY <2>2, <3>1, FlattenSame
    <3> QED BY <1>0, <1>5, <3>2 DEF Agree
  <2>4. G[N + 1] = G[N] \o x
    <3>1. PICK i \in 2 .. N + 1 : i = N + 1 /\ i - 1 = N BY <1>5
    <3>2. N + 1 \in Nat BY <1>0
    <3>3. G[i] = G[i - 1] \o t[i] BY <1>3, <3>1, <3>2, FlattenStep
    <3> QED BY <1>2, <3>1, <3>3
  <2>5. F[N] \in Seq(S) BY <1>5, <2>1
  <2> QED BY <1>1, <1>3, <2>1, <2>3, <2>4, <2>5
<1> QED BY <1>4, <1>5

LEMMA RecordsAppend ==
    ASSUME NEW frames \in Seq(TraceFrames), NEW f \in TraceFrames
    PROVE  /\ FrameRecordsOf(frames) \in Seq(TraceRecords)
           /\ FrameRecordsOf(Append(frames, f)) = FrameRecordsOf(frames) \o f.records
<1> DEFINE S == TraceRecords
<1>t. \A g \in TraceFrames : g.records \in Seq(S) BY DEF TraceFrames
<1> HIDE DEF S
<1>0. PICK N \in Nat : N = Len(frames) /\ DOMAIN frames = 1 .. N OBVIOUS
<1>1. PICK more : more = Append(frames, f) OBVIOUS
<1>2. /\ DOMAIN more = 1 .. N + 1 /\ more[N + 1] = f
      /\ \A i \in 1 .. N : more[i] = frames[i]
  BY <1>0, <1>1
<1> DEFINE s == [i \in DOMAIN frames |-> frames[i].records]
           t == [i \in DOMAIN more |-> more[i].records]
<1>3. s \in Seq(Seq(S)) /\ Len(s) = N /\ \A i \in 1 .. N : s[i] = frames[i].records
  <2>1. \A i \in 1 .. N : frames[i].records \in Seq(S) BY <1>0, <1>t
  <2>2. s \in [1 .. N -> Seq(S)] BY <1>0, <2>1
  <2>3. s \in Seq(Seq(S)) /\ Len(s) = N BY <2>2
  <2> QED BY <1>0, <2>3
<1>4. f.records \in Seq(S) BY <1>t
<1>5. t = Append(s, f.records)
  <2>0. PICK u, T : u = Append(s, f.records) /\ T = Seq(S) OBVIOUS
  <2>1. /\ u \in Seq(T) /\ Len(u) = N + 1 /\ u[N + 1] = f.records
        /\ \A i \in 1 .. N : u[i] = s[i]
    <3>1. s \in Seq(T) /\ f.records \in T BY <1>3, <1>4, <2>0
    <3> HIDE DEF s
    <3> QED BY <1>3, <2>0, <3>1, AppendFacts
  <2>2. DOMAIN t = 1 .. N + 1 /\ t[N + 1] = f.records /\ \A i \in 1 .. N : t[i] = frames[i].records
    BY <1>2
  <2>3. ASSUME NEW i \in 1 .. N + 1 PROVE t[i] = u[i]
    <3> HIDE DEF t, s
    <3>1. CASE i = N + 1 BY <2>1, <2>2, <3>1
    <3>2. CASE i \in 1 .. N BY <1>3, <2>1, <2>2, <3>2
    <3> QED BY <3>1, <3>2
  <2>5. t = [i \in 1 .. N + 1 |-> t[i]] BY <1>2
  <2>6. u = [i \in 1 .. N + 1 |-> u[i]]
    <3>1. DOMAIN u = 1 .. N + 1 BY <2>1
    <3>2. u \in [1 .. N + 1 -> T] BY <2>1
    <3> QED BY <3>2
  <2> HIDE DEF t, s
  <2>7. t = u BY <2>3, <2>5, <2>6
  <2> QED BY <2>0, <2>7
<1> HIDE DEF s, t
<1>6. FlattenSeq(s) \in Seq(S) /\ FlattenSeq(t) = FlattenSeq(s) \o f.records
  BY <1>3, <1>4, <1>5, FlattenAppend
<1> QED BY <1>1, <1>6 DEF FrameRecordsOf, s, t, S

LEMMA RecordsOfNone == FrameRecordsOf(<<>>) = <<>>
<1> DEFINE s == [i \in DOMAIN <<>> |-> <<>>[i].records]
<1>1. s = <<>> OBVIOUS
<1>2. FlattenSeq(<<>>) = <<>> BY DEF FlattenSeq
<1> QED BY <1>1, <1>2 DEF FrameRecordsOf

-----------------------------------------------------------------------------
(* The host's verdict *)

LEMMA AscendingIsIdentity ==
    ASSUME NEW n \in Nat, NEW a \in Ascending(n, 1 .. n)
    PROVE  \A i \in 1 .. n : a[i] = i
<1>1. a \in [1 .. n -> 1 .. n] /\ \A i \in 2 .. n : a[i - 1] < a[i] BY DEF Ascending
<1>2. ASSUME NEW i \in 1 .. n PROVE a[i] \in 1 .. n BY <1>1
<1> DEFINE P == {m \in Nat : m + 1 \in 1 .. n => a[m + 1] >= m + 1}
           Q == {m \in Nat : n - m \in 1 .. n => a[n - m] <= n - m}
<1>3. 0 \in P
  <2>1. CASE 1 \in 1 .. n
    <3>1. a[1] \in 1 .. n BY <1>2, <2>1
    <3> QED BY <3>1
  <2> QED BY <2>1
<1>4. ASSUME NEW m \in P PROVE m + 1 \in P
  <2>1. SUFFICES ASSUME m + 2 \in 1 .. n PROVE a[m + 2] >= m + 2 OBVIOUS
  <2>2. a[m + 1] >= m + 1 BY <2>1
  <2>3. PICK i \in 2 .. n : i = m + 2 /\ i - 1 = m + 1 BY <2>1
  <2>4. a[i - 1] < a[i] BY <1>1
  <2>5. a[m + 1] \in 1 .. n /\ a[m + 2] \in 1 .. n BY <1>2, <2>1
  <2> QED BY <2>2, <2>3, <2>4, <2>5
<1>5. 0 \in Q
  <2>1. CASE n \in 1 .. n
    <3>1. a[n] \in 1 .. n BY <1>2, <2>1
    <3> QED BY <3>1
  <2> QED BY <2>1
<1>6. ASSUME NEW m \in Q PROVE m + 1 \in Q
  <2>1. SUFFICES ASSUME n - (m + 1) \in 1 .. n PROVE a[n - (m + 1)] <= n - (m + 1) OBVIOUS
  <2>2. a[n - m] <= n - m BY <2>1
  <2>3. PICK i \in 2 .. n : i = n - m /\ i - 1 = n - (m + 1) BY <2>1
  <2>4. a[i - 1] < a[i] BY <1>1
  <2>5. a[i - 1] \in 1 .. n /\ a[i] \in 1 .. n BY <1>2, <2>3
  <2>6. a[i - 1] < i BY <2>2, <2>3, <2>4, <2>5
  <2>7. a[i - 1] <= i - 1 BY <2>5, <2>6
  <2> QED BY <2>3, <2>7
<1>7. P = Nat
  <2> HIDE DEF P
  <2>1. P \subseteq Nat BY DEF P
  <2> QED BY <1>3, <1>4, <2>1, NumberInduction
<1>8. Q = Nat
  <2> HIDE DEF Q
  <2>1. Q \subseteq Nat BY DEF Q
  <2> QED BY <1>5, <1>6, <2>1, NumberInduction
<1>9. ASSUME NEW i \in 1 .. n PROVE a[i] = i
  <2>1. PICK j \in Nat, k \in Nat : j + 1 = i /\ n - k = i
    <3>1. i - 1 \in Nat /\ n - i \in Nat /\ (i - 1) + 1 = i /\ n - (n - i) = i OBVIOUS
    <3> QED BY <3>1
  <2>2. j \in P /\ k \in Q BY <1>7, <1>8
  <2>3. a[i] >= i /\ a[i] <= i BY <2>1, <2>2
  <2>4. a[i] \in 1 .. n BY <1>2
  <2> QED BY <2>3, <2>4
<1> QED BY <1>9

\* Of what arrived whole the host reads every frame.
LEMMA FramesOfWhole ==
    ASSUME NEW n \in Nat, NEW heard, DOMAIN heard = 1 .. n, \A i \in 1 .. n : heard[i].whole
    PROVE  Frames(heard) = [i \in 1 .. n |-> heard[i].frame]
<1> DEFINE whole == {i \in DOMAIN heard : heard[i].whole}
           place == CHOOSE a \in Ascending(Cardinality(whole), whole) : TRUE
<1>1. whole = 1 .. n OBVIOUS
<1>2. Cardinality(1 .. n) = n
  <2>1. Cardinality(1 .. n) = IF 1 > n THEN 0 ELSE n - 1 + 1 BY FS_Interval
  <2> QED BY <2>1
<1>3. [i \in 1 .. n |-> i] \in Ascending(n, 1 .. n) BY DEF Ascending
<1>4. place \in Ascending(n, 1 .. n)
  <2>1. place = CHOOSE a \in Ascending(n, 1 .. n) : TRUE BY <1>1, <1>2
  <2> HIDE DEF place
  <2> QED BY <1>3, <2>1
<1>5. Frames(heard) = [i \in DOMAIN place |-> heard[place[i]].frame] BY DEF Frames
<1> HIDE DEF place
<1>6. \A i \in 1 .. n : place[i] = i BY <1>4, AscendingIsIdentity
<1>7. DOMAIN place = 1 .. n BY <1>4 DEF Ascending
<1> QED BY <1>5, <1>6, <1>7

Missing(frames) ==
    \/ ~\E i \in DOMAIN frames : frames[i].kind = "start"
    \/ ~\E i \in DOMAIN frames : frames[i].kind = "end"
    \/ ~Follow(frames) \/ ~Follow(FrameRecordsOf(frames))
    \/ \E i \in DOMAIN frames : frames[i].dropped > 0
    \/ \E i \in DOMAIN frames : frames[i].lost > 0

LEMMA LosslessIs ==
    ASSUME NEW heard
    PROVE  Lossless(heard) <=>
              (\A i \in DOMAIN heard : heard[i].whole) /\ ~Missing(Frames(heard))
BY DEF Lossless, Parse, Missing

\* Of a session's frames, numbered from zero, those that follow each other from
\* the first to the last are all.
LEMMA HeardInFull ==
    ASSUME NEW m \in Nat, m <= SequenceModulus, NEW n \in Nat,
           NEW d \in Nat, NEW S \in Seq(TraceFrames), Len(S) = m,
           FramesOk(S, m, d),
           NEW a \in Ascending(n, 1 .. m),
           NEW frames, frames = [i \in 1 .. n |-> S[a[i]]], ~Missing(frames)
    PROVE  n = m /\ frames = S /\ d = 0 /\ m # 0 /\ S[m].kind = "end"
<1>0. SequenceModulus \in Nat BY TraceConstants
<1>1. a \in [1 .. n -> 1 .. m] /\ \A i \in 2 .. n : a[i - 1] < a[i] BY DEF Ascending
<1>2. ASSUME NEW i \in 1 .. n PROVE a[i] \in 1 .. m BY <1>1
<1>3. /\ DOMAIN frames = 1 .. n /\ Len(frames) = n
      /\ \A i \in 1 .. n : frames[i] = S[a[i]] /\ FrameOk(frames[i], a[i], m, d)
  <2>1. frames \in [1 .. n -> TraceFrames] BY <1>2
  <2> QED BY <1>2, <2>1 DEF FramesOk
<1>4. PICK f \in 1 .. n : frames[f].kind = "start" BY <1>3 DEF Missing
<1>5. PICK l \in 1 .. n : frames[l].kind = "end" BY <1>3 DEF Missing
<1>6. a[f] = 1 /\ a[l] = m BY <1>3, <1>4, <1>5 DEF FrameOk
<1>7. f = 1
  <2>1. SUFFICES ASSUME f # 1 PROVE FALSE OBVIOUS
  <2>2. a[f - 1] < a[f] BY <1>1, <2>1
  <2>3. a[f - 1] \in 1 .. m BY <1>2, <2>1
  <2> QED BY <1>6, <2>2, <2>3
<1>8. ASSUME NEW i \in 2 .. n PROVE a[i] = a[i - 1] + 1
  <2>1. frames[i].seq = (frames[i - 1].seq + 1) % SequenceModulus
    BY <1>3 DEF Missing, Follow
  <2>3. i \in 1 .. n /\ i - 1 \in 1 .. n OBVIOUS
  <2>7. a[i - 1] \in 1 .. m /\ a[i] \in 1 .. m BY <1>2, <2>3
  <2>2. PICK x \in 1 .. m, y \in 1 .. m : x = a[i - 1] /\ y = a[i] /\ x < y BY <1>1, <2>7
  <2>4. frames[i].seq = y - 1 /\ frames[i - 1].seq = x - 1 BY <1>3, <2>2, <2>3 DEF FrameOk
  <2>5. y - 1 = x % SequenceModulus BY <2>1, <2>2, <2>4
  <2>6. x % SequenceModulus = x
    <3>1. x \in Nat /\ x < SequenceModulus BY <1>0, <2>2
    <3> QED BY <1>0, <3>1
  <2> QED BY <2>2, <2>5, <2>6
<1>9. \A i \in 1 .. n : a[i] = i
  <2> DEFINE P == {k \in Nat : k + 1 \in 1 .. n => a[k + 1] = k + 1}
  <2>1. 0 \in P BY <1>6, <1>7
  <2>2. ASSUME NEW k \in P PROVE k + 1 \in P
    <3>1. SUFFICES ASSUME k + 2 \in 1 .. n PROVE a[k + 2] = k + 2 OBVIOUS
    <3>2. PICK i \in 2 .. n : i = k + 2 /\ i - 1 = k + 1 BY <3>1
    <3>3. a[k + 1] = k + 1 BY <3>1
    <3> QED BY <1>8, <3>2, <3>3
  <2>3. P = Nat
    <3> HIDE DEF P
    <3>1. P \subseteq Nat BY DEF P
    <3> QED BY <2>1, <2>2, <3>1, NumberInduction
  <2>4. ASSUME NEW i \in 1 .. n PROVE a[i] = i
    <3>1. i - 1 \in Nat /\ (i - 1) + 1 = i OBVIOUS
    <3>2. i - 1 \in P BY <2>3, <3>1
    <3> QED BY <3>1, <3>2
  <2> QED BY <2>4
<1>10. l = m BY <1>6, <1>9
<1>11. n = m
  <2>1. a[n] \in 1 .. m /\ a[n] = n BY <1>2, <1>5, <1>9
  <2> QED BY <1>5, <1>10, <2>1
<1>12. frames = S
  <2>1. \A i \in 1 .. m : frames[i] = S[i] BY <1>3, <1>9, <1>11
  <2> QED BY <1>3, <1>9, <1>11, <2>1
<1>13. d = 0
  <2>1. frames[1].dropped = d BY <1>3, <1>4, <1>7 DEF FrameOk
  <2>2. ~(frames[1].dropped > 0) BY <1>3, <1>4, <1>7 DEF Missing
  <2> QED BY <2>1, <2>2
<1> QED BY <1>5, <1>10, <1>11, <1>12, <1>13

LEMMA NumberedFollow ==
    ASSUME NEW s, NEW r \in Nat, r <= SequenceModulus PROVE Follow(Numbered(s, r))
<1>0. SequenceModulus \in Nat BY TraceConstants
<1>1. Len(Numbered(s, r)) = r
  <2>1. Numbered(s, r) \in Seq([session : {s}, seq : Nat]) BY DEF Numbered
  <2> QED BY <2>1 DEF Numbered
<1>2. ASSUME NEW i \in 2 .. r
      PROVE  Numbered(s, r)[i].seq = (Numbered(s, r)[i - 1].seq + 1) % SequenceModulus
  <2>1. Numbered(s, r)[i].seq = i - 1 /\ Numbered(s, r)[i - 1].seq = i - 2 BY DEF Numbered
  <2>2. (i - 2) + 1 = i - 1 OBVIOUS
  <2>3. i - 1 \in Nat /\ i - 1 < SequenceModulus BY <1>0
  <2>4. (i - 1) % SequenceModulus = i - 1 BY <1>0, <2>3
  <2> QED BY <2>1, <2>2, <2>4
<1> QED BY <1>1, <1>2 DEF Follow

\* The session's trace as the host may hear it.
LEMMA LosslessComplete == StandupTraceInv => LosslessIsComplete
<1> DEFINE Whole(a, c) == /\ Ended /\ Len(kept) = sample_seq
                          /\ Len(a) = Len(sent) /\ c = {}
                          /\ ~reported
           Verdict(a, c) ==
              /\ Lossless(Heard(a, c)) <=> Whole(a, c)
              /\ Lossless(Heard(a, c)) =>
                    EndSeen(Heard(a, c)) /\ FrameRecordsOf(Frames(Heard(a, c))) = kept
<1> SUFFICES ASSUME StandupTraceInv, undisturbed, ~SettingUp,
                    NEW a \in Arrivals, NEW c \in SUBSET DOMAIN sent
             PROVE  Verdict(a, c)
  BY DEF LosslessIsComplete
<1>0. SequenceModulus \in Nat /\ RingRecords \in Nat /\ RingRecords + 2 <= SequenceModulus
  BY TraceConstants
<1>1. PICK m \in Nat : m = Len(sent) /\ DOMAIN sent = 1 .. m /\ sent \in Seq(TraceFrames)
  <2>1. sent \in Seq(TraceFrames) BY DEF StandupTraceInv, TraceTypes
  <2> QED BY <2>1
<1>2. PICK n \in Nat : a \in Ascending(n, 1 .. m) BY <1>1 DEF Arrivals
<1>3. /\ a \in [1 .. n -> 1 .. m] /\ DOMAIN a = 1 .. n /\ Len(a) = n
      /\ \A i \in 1 .. n : a[i] \in 1 .. m
  <2>1. a \in [1 .. n -> 1 .. m] BY <1>2 DEF Ascending
  <2> QED BY <2>1
<1>4. Clean BY DEF Clean
<1>5. /\ head \in 0 .. RingRecords /\ tail \in 0 .. head
      /\ kept = Numbered(session, head)
      /\ sample_seq = dropped + head
  BY <1>4 DEF StandupTraceInv, RingInv
<1>6. dropped \in Nat BY NaturalState DEF StandupTraceInv
<1>7. Len(kept) = head
  <2>1. kept = [i \in 1 .. head |-> kept[i]] /\ head \in Nat BY <1>5 DEF Numbered
  <2>2. kept \in Seq(TraceRecords) BY DEF StandupTraceInv, TraceTypes
  <2> QED BY <2>1, <2>2
<1>8. /\ FramesOk(sent, m, dropped)
      /\ Sent = Numbered(session, Reached)
      /\ m <= Reached + (IF Ended THEN 2 ELSE 1)
  BY <1>1, <1>4 DEF StandupTraceInv, SentInv
<1>9. Ended => Reached = head
  <2>1. SUFFICES ASSUME Ended PROVE Reached = head OBVIOUS
  <2>2. tail = head BY <1>4, <2>1 DEF StandupTraceInv, FlagInv
  <2>3. ~Settling("data")
    <3>1. SUFFICES ASSUME Settling("data") PROVE FALSE OBVIOUS
    <3>2. sent[Len(sent)] = worker.frame /\ worker.frame.kind = "data"
      BY <1>4, <3>1 DEF StandupTraceInv, WorkInv, Settling
    <3> QED BY <2>1, <3>2 DEF Ended, Last
  <2> QED BY <2>2, <2>3 DEF Reached
<1>10. Ended <=> m # 0 /\ sent[m].kind = "end" BY <1>1 DEF Ended, Last
<1>11. Reached \in 0 .. head
  <2>1. CASE Settling("data")
    <3>1. Batched(worker.frame)
      BY <1>4, <2>1 DEF StandupTraceInv, WorkInv, Settling, Due
    <3>2. Len(worker.frame.records) \in 1 .. head - tail BY <3>1 DEF Batched
    <3> QED BY <1>5, <2>1, <3>2 DEF Reached
  <2>2. CASE ~Settling("data") BY <1>5, <2>2 DEF Reached
  <2> QED BY <2>1, <2>2
<1>12. m <= SequenceModulus BY <1>0, <1>1, <1>5, <1>8, <1>11
\* The drops the frames tell of are the end frame's.
<1>16. /\ \A i \in 1 .. m : reported \/ ~(sent[i].lost > 0)
       /\ Ended => (reported <=> sent[m].lost > 0)
  <2>1. worker.frame.lost \in Nat BY NaturalState DEF StandupTraceInv, TraceFrames
  <2>2. \A i \in 1 .. m : sent[i] \in TraceFrames BY <1>1
  <2>3. \A i \in 1 .. m : sent[i].lost \in Nat BY <2>2 DEF TraceFrames
  <2>4. /\ reported <=> worker.frame.lost > 0
        /\ \A i \in 1 .. m : sent[i].lost <= worker.frame.lost
        /\ Ended => sent[m].lost = worker.frame.lost
    BY <1>1, <1>4 DEF StandupTraceInv, LostInv, Last
  <2> QED BY <2>1, <2>3, <2>4
<1> DEFINE heard == Heard(a, c)
           frames == [i \in 1 .. n |-> sent[a[i]]]
<1>13. /\ DOMAIN heard = 1 .. n
       /\ \A i \in 1 .. n : heard[i].frame = sent[a[i]] /\ (heard[i].whole <=> a[i] \notin c)
  BY <1>3 DEF Heard
<1> HIDE DEF heard
<1>14. CASE \E i \in 1 .. n : ~heard[i].whole
  <2>1. ~Lossless(heard) BY <1>13, <1>14, LosslessIs
  <2>2. c # {} BY <1>13, <1>14
  <2> QED BY <2>1, <2>2 DEF heard
<1>15. CASE \A i \in 1 .. n : heard[i].whole
  <2>1. Frames(heard) = frames
    <3>1. Frames(heard) = [i \in 1 .. n |-> heard[i].frame] BY <1>13, <1>15, FramesOfWhole
    <3> QED BY <1>13, <3>1
  <2>2. Lossless(heard) <=> ~Missing(frames) BY <1>13, <1>15, <2>1, LosslessIs
  <2>3. ASSUME ~Missing(frames)
        PROVE  Whole(a, c) /\ EndSeen(heard) /\ FrameRecordsOf(frames) = kept
    <3>1. n = m /\ frames = sent /\ dropped = 0 /\ m # 0 /\ sent[m].kind = "end"
      <4> HIDE DEF frames
      <4>1. frames = [i \in 1 .. n |-> sent[a[i]]] BY DEF frames
      <4> QED BY <1>1, <1>2, <1>6, <1>8, <1>12, <2>3, <4>1, HeardInFull
    <3>2. \A i \in 1 .. m : a[i] = i BY <1>2, <3>1, AscendingIsIdentity
    <3>3. c = {} BY <1>1, <1>13, <1>15, <3>1, <3>2
    <3>4. Ended BY <1>10, <3>1
    <3>5. FrameRecordsOf(frames) = kept BY <1>5, <1>8, <1>9, <3>1, <3>4 DEF Sent
    <3>6. Len(kept) = sample_seq BY <1>5, <1>7, <3>1
    <3>7. EndSeen(heard)
      <4>1. m \in 1 .. m BY <3>1
      <4>2. heard[m].frame = sent[m] BY <1>13, <3>1, <3>2, <4>1
      <4> QED BY <1>13, <1>15, <3>1, <4>1, <4>2 DEF EndSeen
    <3>8. ~reported
      <4>1. m \in 1 .. m /\ DOMAIN frames = 1 .. m BY <3>1
      <4>2. ~(sent[m].lost > 0) BY <2>3, <3>1, <4>1 DEF Missing
      <4> QED BY <1>1, <1>16, <3>4, <4>2
    <3> HIDE DEF frames
    <3> QED BY <1>1, <1>3, <3>1, <3>3, <3>4, <3>5, <3>6, <3>7, <3>8
  <2>4. ASSUME Whole(a, c) PROVE ~Missing(frames)
    <3>1. n = m BY <1>1, <1>3, <2>4
    <3>2. \A i \in 1 .. m : a[i] = i BY <1>2, <3>1, AscendingIsIdentity
    <3>3. frames = sent
      <4>1. \A i \in 1 .. m : frames[i] = sent[i] BY <3>1, <3>2
      <4>2. sent = [i \in 1 .. m |-> sent[i]] BY <1>1
      <4> QED BY <3>1, <4>1, <4>2
    <3>4. m # 0 /\ sent[m].kind = "end" /\ dropped = 0 BY <1>5, <1>6, <1>7, <1>10, <2>4
    <3>5. \A i \in 1 .. m : sent[i].seq = i - 1 /\ sent[i].dropped = 0
      BY <1>8, <3>4 DEF FramesOk, FrameOk
    <3>6. sent[1].kind = "start" /\ 1 \in 1 .. m /\ m \in 1 .. m BY <1>8, <3>4 DEF FramesOk, FrameOk
    <3>7. Follow(sent)
      <4>1. ASSUME NEW i \in 2 .. m PROVE sent[i].seq = (sent[i - 1].seq + 1) % SequenceModulus
        <5>1. i \in 1 .. m /\ i - 1 \in 1 .. m OBVIOUS
        <5>2. sent[i].seq = i - 1 /\ sent[i - 1].seq = (i - 1) - 1 BY <3>5, <5>1
        <5>3. ((i - 1) - 1) + 1 = i - 1 OBVIOUS
        <5>4. i - 1 \in Nat /\ i - 1 < SequenceModulus BY <1>0, <1>12
        <5>5. (i - 1) % SequenceModulus = i - 1 BY <1>0, <5>4
        <5> QED BY <5>2, <5>3, <5>5
      <4> QED BY <1>1, <4>1 DEF Follow
    <3>8. Follow(FrameRecordsOf(sent))
      <4>1. FrameRecordsOf(sent) = Numbered(session, head) BY <1>8, <1>9, <2>4 DEF Sent
      <4>2. head \in Nat /\ head <= SequenceModulus BY <1>0, <1>5
      <4> QED BY <4>1, <4>2, NumberedFollow
    <3>9. \A i \in 1 .. m : ~(sent[i].lost > 0) BY <1>1, <1>16, <2>4
    <3> HIDE DEF frames
    <3> QED BY <1>1, <3>3, <3>4, <3>5, <3>6, <3>7, <3>8, <3>9 DEF Missing
  <2> HIDE DEF frames, Whole
  <2> QED BY <2>1, <2>2, <2>3, <2>4 DEF heard
<1> QED BY <1>14, <1>15

-----------------------------------------------------------------------------
(* What the worker's steps have in common *)

WorkerTypes == [at : Stations, tail : 0 .. IndexModulus - 1, frame : TraceFrames]

\* The worker moves and keeps its frame.
Moves(at, t) ==
    /\ worker' \in WorkerTypes
    /\ worker'.at = at /\ worker'.tail = t /\ worker'.frame = worker.frame

LEMMA MovesIf ==
    ASSUME worker \in WorkerTypes, NEW at \in Stations, NEW t \in 0 .. IndexModulus - 1
    PROVE  /\ worker' = [worker EXCEPT !.at = at] => Moves(at, worker.tail)
           /\ worker' = [worker EXCEPT !.at = at, !.tail = t] => Moves(at, t)
<1>1. worker.frame \in TraceFrames /\ worker.tail \in 0 .. IndexModulus - 1 BY DEF WorkerTypes
<1>2. ASSUME worker' = [worker EXCEPT !.at = at] PROVE Moves(at, worker.tail)
  <2>1. worker' = [at |-> at, tail |-> worker.tail, frame |-> worker.frame] BY <1>2 DEF WorkerTypes
  <2> QED BY <1>1, <2>1 DEF Moves, WorkerTypes
<1>3. ASSUME worker' = [worker EXCEPT !.at = at, !.tail = t] PROVE Moves(at, t)
  <2>1. worker' = [at |-> at, tail |-> t, frame |-> worker.frame] BY <1>3 DEF WorkerTypes
  <2> QED BY <1>1, <2>1 DEF Moves, WorkerTypes
<1> QED BY <1>2, <1>3

\* The worker makes a frame.
Makes(kind, records) ==
    /\ worker' \in WorkerTypes
    /\ worker'.at = "send" /\ worker'.tail = worker.tail
    /\ worker'.frame.kind = kind /\ worker'.frame.seq = frame_seq
    /\ worker'.frame.dropped = dropped /\ worker'.frame.records = records
    /\ worker'.frame.lost = tx_dropped - baseline

LEMMA MakesIf ==
    ASSUME worker \in WorkerTypes, frame_seq \in Nat, dropped \in Nat,
           tx_dropped - baseline \in Nat,
           NEW kind \in {"start", "data", "end"}, NEW records \in Seq(TraceRecords),
           Sends(kind, records)
    PROVE  Makes(kind, records)
<1> DEFINE f == [kind |-> kind, seq |-> frame_seq, records |-> records, dropped |-> dropped,
                 lost |-> tx_dropped - baseline]
<1>1. worker.tail \in 0 .. IndexModulus - 1 BY DEF WorkerTypes
<1>2. f \in TraceFrames BY DEF TraceFrames
<1>3. worker' = [worker EXCEPT !.at = "send", !.frame = f] BY DEF Sends, Worker
<1>4. /\ f.kind = kind /\ f.seq = frame_seq /\ f.dropped = dropped /\ f.records = records
      /\ f.lost = tx_dropped - baseline
  OBVIOUS
<1> HIDE DEF f
<1>5. worker' = [at |-> "send", tail |-> worker.tail, frame |-> f] BY <1>3 DEF WorkerTypes
<1>6. /\ worker' \in WorkerTypes /\ worker'.at = "send" /\ worker'.tail = worker.tail
      /\ worker'.frame = f
  BY <1>1, <1>2, <1>5 DEF WorkerTypes, Stations
<1> QED BY <1>4, <1>6 DEF Makes

\* What no step of the worker changes.
Shared == <<control, active, session, kept, head, ring, sample_seq, dropped,
            tx_dropped, baseline, spoiled>>
Beside == UNCHANGED Shared /\ undisturbed' = (undisturbed /\ ~SettingUp)

\* A step that sends nothing and settles nothing.
Passes(at) ==
    /\ Looks /\ Moves(at, worker'.tail) /\ UNCHANGED reported
    /\ worker.at \in {"idle", "start", "tail", "head", "end", "flags", "send"}
    /\ at \in {"idle", "start", "tail", "head", "end", "flags"}
    /\ at = "head" => ~start_pending /\ worker'.tail = tail
    /\ at = "flags" => tail = head
    /\ worker.at = "idle" => ~active

\* A step that makes a frame of a kind.
Prepares(kind, records) ==
    /\ Looks /\ Makes(kind, records) /\ reported' = spoiled
    /\ worker.at \in {"start", "head", "flags"}
    /\ kind = "start" => worker.at = "start" /\ start_pending /\ records = <<>>
    /\ kind = "data" =>
         /\ worker.at = "head" /\ head # worker.tail
         /\ records \in Seq(TraceRecords)
         /\ Len(records) \in 1 .. Ahead(head, worker.tail)
         /\ \A i \in 1 .. Len(records) : records[i] = ring[(worker.tail + i - 1) % RingRecords]
    /\ kind = "end" => worker.at = "flags" /\ end_pending /\ ~start_pending /\ records = <<>>

Accepts ==
    /\ worker.at = "send" /\ Len(sent) < MaxFrames
    /\ Moves("count", worker.tail)
    /\ sent' = Append(sent, IF undisturbed THEN worker.frame ELSE NoFrame)
    /\ UNCHANGED <<start_pending, end_pending, indices, reported>>

Counts ==
    /\ worker.at = "count" /\ Moves("mark", worker.tail)
    /\ frame_seq' = frame_seq + 1
    /\ UNCHANGED <<start_pending, end_pending, tail, sent, reported>>

Marks ==
    /\ worker.at = "mark" /\ Moves(AfterFrame[worker.frame.kind], worker.tail)
    /\ start_pending' = (start_pending /\ worker.frame.kind # "start")
    /\ end_pending' = (end_pending /\ worker.frame.kind # "end")
    /\ tail' = IF worker.frame.kind = "data"
               THEN (worker.tail + Len(worker.frame.records)) % IndexModulus ELSE tail
    /\ UNCHANGED <<frame_seq, sent, reported>>

LEMMA BatchFacts ==
    ASSUME ring \in [0 .. RingRecords - 1 -> TraceRecords], NEW from \in Nat, NEW count \in Nat
    PROVE  /\ Batch(from, count) \in Seq(TraceRecords)
           /\ Len(Batch(from, count)) = count
           /\ \A i \in 1 .. count :
                 Batch(from, count)[i] = ring[(from + i - 1) % RingRecords]
<1>1. ASSUME NEW i \in 1 .. count PROVE ring[(from + i - 1) % RingRecords] \in TraceRecords
  <2>1. from + i - 1 \in Nat /\ RingRecords \in Nat \ {0} BY TraceConstants
  <2>2. (from + i - 1) % RingRecords \in 0 .. RingRecords - 1 BY <2>1, Remainder
  <2> QED BY <2>2
<1>2. Batch(from, count) = [i \in 1 .. count |-> ring[(from + i - 1) % RingRecords]] BY DEF Batch
<1>3. Batch(from, count) \in [1 .. count -> TraceRecords]
  <2> DEFINE r(i) == ring[(from + i - 1) % RingRecords]
  <2>1. \A i \in 1 .. count : r(i) \in TraceRecords BY <1>1
  <2>2. Batch(from, count) = [i \in 1 .. count |-> r(i)] BY <1>2
  <2> HIDE DEF r
  <2> QED BY <2>1, <2>2
<1>4. Batch(from, count) \in Seq(TraceRecords) /\ Len(Batch(from, count)) = count BY <1>3
<1> QED BY <1>2, <1>4

LEMMA WorkerStepIs ==
    ASSUME TraceTypes, frame_seq \in Nat, TraceWorker
    PROVE  /\ Beside
           /\ \/ \E at : Passes(at)
              \/ \E kind \in {"start", "data", "end"}, records \in Seq(TraceRecords) :
                    Prepares(kind, records)
              \/ Accepts \/ Counts \/ Marks
<1> USE DEF Looks, Beside, Shared, indices
<1>t. worker \in WorkerTypes BY DEF TraceTypes, WorkerTypes
<1>n. /\ worker.tail \in 0 .. IndexModulus - 1 /\ worker.tail \in Nat /\ worker.at \in Stations
      /\ dropped \in Nat /\ tail \in 0 .. IndexModulus - 1 /\ tx_dropped - baseline \in Nat
  BY <1>t, NaturalState DEF WorkerTypes, TraceTypes
<1>s. /\ "idle" \in Stations /\ "start" \in Stations /\ "tail" \in Stations /\ "head" \in Stations
      /\ "end" \in Stations /\ "flags" \in Stations /\ "send" \in Stations
      /\ "count" \in Stations /\ "mark" \in Stations
  BY DEF Stations
<1>k. worker.at \in {"send", "count", "mark"} =>
        /\ worker.frame.kind \in {"start", "data", "end"}
        /\ AfterFrame[worker.frame.kind] \in {"tail", "end", "idle"}
        /\ AfterFrame[worker.frame.kind] \in Stations
  <2>1. worker.frame.kind \in {"none", "start", "data", "end"} BY NaturalState DEF TraceFrames
  <2>2. SUFFICES ASSUME worker.at \in {"send", "count", "mark"}
                 PROVE  worker.frame.kind \in {"start", "data", "end"}
    BY DEF AfterFrame, Stations
  <2> QED BY <2>1, <2>2 DEF TraceTypes
<1>e. <<>> \in Seq(TraceRecords) OBVIOUS
<1>g. ASSUME NEW at \in Stations, GoesTo(at)
      PROVE  Moves(at, worker.tail) /\ worker'.tail = worker.tail /\ UNCHANGED reported
  <2>1. worker' = [worker EXCEPT !.at = at] BY <1>g DEF GoesTo, Worker
  <2>2. Moves(at, worker.tail) BY <1>n, <1>t, <2>1, MovesIf
  <2> QED BY <1>g, <2>2 DEF Moves, GoesTo
<1>1. CASE Wake
  <2>1. GoesTo("start") /\ worker.at = "idle" /\ ~active BY <1>1 DEF Wake
  <2>2. Passes("start") BY <1>1, <1>g, <1>s, <2>1 DEF Wake, Passes
  <2>3. Beside BY <1>1 DEF Wake, GoesTo, Worker
  <2> QED BY <2>2, <2>3
<1>2. CASE LookForStart
  <2>1. CASE start_pending
    <3>1. Sends("start", <<>>) BY <1>2, <2>1 DEF LookForStart
    <3>2. Makes("start", <<>>) BY <1>e, <1>n, <1>t, <3>1, MakesIf
    <3>3. Prepares("start", <<>>) BY <1>2, <2>1, <3>1, <3>2 DEF LookForStart, Prepares, Sends
    <3>4. Beside BY <1>2, <3>1 DEF LookForStart, Sends, Worker
    <3> QED BY <1>e, <3>3, <3>4
  <2>2. CASE ~start_pending
    <3>1. GoesTo("tail") BY <1>2, <2>2 DEF LookForStart
    <3>2. Passes("tail") BY <1>2, <1>g, <1>s, <3>1 DEF LookForStart, Passes
    <3>3. Beside BY <1>2, <3>1 DEF LookForStart, GoesTo, Worker
    <3> QED BY <3>2, <3>3
  <2> QED BY <2>1, <2>2
<1>3. CASE LoadTail
  <2>1. CASE start_pending
    <3>1. GoesTo("end") BY <1>3, <2>1 DEF LoadTail
    <3>2. Passes("end") BY <1>3, <1>g, <1>s, <3>1 DEF LoadTail, Passes
    <3>3. Beside BY <1>3, <3>1 DEF LoadTail, GoesTo, Worker
    <3> QED BY <3>2, <3>3
  <2>2. CASE ~start_pending
    <3>1. Worker([worker EXCEPT !.at = "head", !.tail = tail]) BY <1>3, <2>2 DEF LoadTail
    <3>2. worker' = [worker EXCEPT !.at = "head", !.tail = tail] BY <3>1 DEF Worker
    <3>3. Moves("head", tail) BY <1>n, <1>s, <1>t, <3>2, MovesIf
    <3>4. Moves("head", worker'.tail) /\ worker'.tail = tail BY <3>3 DEF Moves
    <3>5. Passes("head") BY <1>3, <2>2, <3>4 DEF LoadTail, Passes
    <3>6. Beside BY <1>3, <3>1 DEF LoadTail, Worker
    <3> QED BY <3>5, <3>6
  <2> QED BY <2>1, <2>2
<1>4. CASE LoadHead
  <2> DEFINE available == Ahead(head, worker.tail)
  <2>0. available \in Nat
    <3>1. head \in 0 .. IndexModulus - 1 BY DEF TraceTypes
    <3>2. available \in 0 .. IndexModulus - 1 BY <1>n, <3>1, AheadRange
    <3>3. IndexModulus \in Nat BY TraceConstants
    <3> HIDE DEF available
    <3> QED BY <3>2, <3>3
  <2>1. CASE available = 0
    <3>1. GoesTo("end") BY <1>4, <2>1 DEF LoadHead
    <3>2. Passes("end") BY <1>4, <1>g, <1>s, <3>1 DEF LoadHead, Passes
    <3>3. Beside BY <1>4, <3>1 DEF LoadHead, GoesTo, Worker
    <3> QED BY <3>2, <3>3
  <2>2. CASE available # 0
    <3> DEFINE count == Min({available, FrameRecords})
    <3>1. Sends("data", Batch(worker.tail, count)) BY <1>4, <2>2 DEF LoadHead
    <3> HIDE DEF available
    <3>2. count \in 1 .. available
      <4>1. FrameRecords \in Nat \ {0} BY TraceConstants
      <4>2. count \in {available, FrameRecords} /\ count <= available
        BY <2>0, <4>1, SmallerOfTwo
      <4> QED BY <2>0, <2>2, <4>1, <4>2
    <3> HIDE DEF count
    <3>3. count \in Nat BY <3>2, <2>0
    <3>4. PICK b : b = Batch(worker.tail, count) OBVIOUS
    <3>5. ring \in [0 .. RingRecords - 1 -> TraceRecords] BY DEF TraceTypes
    <3>6. /\ b \in Seq(TraceRecords) /\ Len(b) = count
          /\ \A i \in 1 .. count : b[i] = ring[(worker.tail + i - 1) % RingRecords]
      BY <1>n, <3>3, <3>4, <3>5, BatchFacts
    <3>7. Makes("data", b) BY <1>n, <1>t, <3>1, <3>4, <3>6, MakesIf
    <3>8. head # worker.tail
      <4>1. SUFFICES ASSUME head = worker.tail PROVE FALSE OBVIOUS
      <4>2. IndexModulus \in Nat \ {0} BY TraceConstants
      <4>3. (worker.tail + IndexModulus - worker.tail) = IndexModulus BY <1>n, <4>2
      <4>4. IndexModulus % IndexModulus = 0 BY <4>2
      <4> QED BY <2>2, <4>1, <4>3, <4>4 DEF Ahead, available
    <3>9. Len(b) \in 1 .. Ahead(head, worker.tail) BY <3>2, <3>6 DEF available
    <3>10. worker.at = "head" /\ Looks BY <1>4 DEF LoadHead
    <3>11. Prepares("data", b)
      BY <3>1, <3>6, <3>7, <3>8, <3>9, <3>10 DEF Prepares, Sends
    <3>12. Beside BY <3>1, <3>10 DEF Sends, Worker
    <3> QED BY <3>6, <3>11, <3>12
  <2> QED BY <2>1, <2>2
<1>5. CASE LoadEnds
  <2>1. PICK at \in {"flags", "idle"} : GoesTo(at) /\ (at = "flags" => tail = head)
    BY <1>5 DEF LoadEnds
  <2>2. Passes(at) BY <1>5, <1>g, <1>s, <2>1 DEF LoadEnds, Passes
  <2>3. Beside BY <1>5, <2>1 DEF LoadEnds, GoesTo, Worker
  <2> QED BY <2>2, <2>3
<1>6. CASE LookForEnd
  <2>1. CASE end_pending /\ ~start_pending
    <3>1. Sends("end", <<>>) BY <1>6, <2>1 DEF LookForEnd
    <3>2. Makes("end", <<>>) BY <1>e, <1>n, <1>t, <3>1, MakesIf
    <3>3. Prepares("end", <<>>) BY <1>6, <2>1, <3>1, <3>2 DEF LookForEnd, Prepares, Sends
    <3>4. Beside BY <1>6, <3>1 DEF LookForEnd, Sends, Worker
    <3> QED BY <1>e, <3>3, <3>4
  <2>2. CASE ~(end_pending /\ ~start_pending)
    <3>1. GoesTo("idle") BY <1>6, <2>2 DEF LookForEnd
    <3>2. Passes("idle") BY <1>6, <1>g, <1>s, <3>1 DEF LookForEnd, Passes
    <3>3. Beside BY <1>6, <3>1 DEF LookForEnd, GoesTo, Worker
    <3> QED BY <3>2, <3>3
  <2> QED BY <2>1, <2>2
<1>7. CASE Refused
  <2>1. PICK at : at = AfterFrame[worker.frame.kind] OBVIOUS
  <2>2. worker.at = "send" /\ GoesTo(at) /\ Looks BY <1>7, <2>1 DEF Refused
  <2>3. at \in {"tail", "end", "idle"} /\ at \in Stations BY <1>k, <2>1, <2>2
  <2>4. Passes(at) BY <1>g, <2>2, <2>3 DEF Passes
  <2>5. Beside BY <2>2 DEF GoesTo, Worker
  <2> QED BY <2>4, <2>5
<1>8. CASE Accepted
  <2>1. GoesTo("count") BY <1>8 DEF Accepted
  <2>2. Accepts BY <1>8, <1>g, <1>s, <2>1 DEF Accepted, Accepts
  <2>3. Beside BY <1>8, <2>1 DEF Accepted, GoesTo, Worker
  <2> QED BY <2>2, <2>3
<1>9. CASE Count
  <2>1. GoesTo("mark") BY <1>9 DEF Count
  <2>2. Counts BY <1>9, <1>g, <1>s, <2>1 DEF Count, Counts
  <2>3. Beside BY <1>9, <2>1 DEF Count, GoesTo, Worker
  <2> QED BY <2>2, <2>3
<1>10. CASE Mark
  <2>1. GoesTo(AfterFrame[worker.frame.kind]) /\ worker.at = "mark" BY <1>10 DEF Mark
  <2>2. Moves(AfterFrame[worker.frame.kind], worker.tail) /\ UNCHANGED reported
    BY <1>g, <1>k, <2>1
  <2>3. Marks BY <1>10, <2>2 DEF Mark, Marks
  <2>4. Beside BY <1>10, <2>1 DEF Mark, GoesTo, Worker
  <2> QED BY <2>3, <2>4
<1> QED BY <1>1, <1>2, <1>3, <1>4, <1>5, <1>6, <1>7, <1>8, <1>9, <1>10 DEF TraceWorker

-----------------------------------------------------------------------------
(* Types and counts *)

LEMMA AppendTypes ==
    ASSUME NEW S, NEW s \in Seq(S), NEW x \in S
    PROVE  Append(s, x) \in Seq(S) /\ Len(Append(s, x)) = Len(s) + 1
OBVIOUS

LEMMA LengthIsNatural == ASSUME NEW S, NEW s \in Seq(S) PROVE Len(s) \in Nat
OBVIOUS

LEMMA TraceStarts == Init => StandupTraceInv
<1> SUFFICES ASSUME Init PROVE StandupTraceInv OBVIOUS
<1> USE DEF Init
<1>c. /\ RingRecords \in Nat \ {0} /\ IndexModulus \in Nat \ {0}
      /\ MaxSessions \in Nat /\ MaxSamples \in Nat /\ MaxFrames \in Nat /\ MaxDrops \in Nat
  BY TraceConstants
<1>1. TraceTypes
  <2>1. NoRecord \in TraceRecords BY <1>c DEF NoRecord, TraceRecords
  <2>2. ring \in [0 .. RingRecords - 1 -> TraceRecords] BY <2>1
  <2>3. NoFrame \in TraceFrames BY DEF NoFrame, TraceFrames
  <2>4. 0 \in 0 .. IndexModulus - 1 BY <1>c
  <2>5. worker \in [at : Stations, tail : 0 .. IndexModulus - 1, frame : TraceFrames]
    BY <2>3, <2>4 DEF Stations
  <2>6. 0 \in 0 .. MaxSamples /\ 0 \in 0 .. MaxSessions /\ 0 \in 0 .. MaxDrops /\ 0 \in 0 .. 0
    BY <1>c
  <2>7. <<>> \in Seq(TraceRecords) /\ <<>> \in Seq(TraceFrames) OBVIOUS
  <2> QED BY <2>2, <2>4, <2>5, <2>6, <2>7 DEF TraceTypes
<1>2. CountInv BY <1>c DEF CountInv, Uncounted
<1>3. RestInv BY DEF RestInv, SettingUp
<1>n. <<>> = Numbered(session, 0) BY DEF Numbered
<1>4. RingInv BY <1>c, <1>n DEF RingInv
<1>5. FlagInv BY DEF FlagInv, Ended
<1>6. SentInv BY <1>n, RecordsOfNone DEF SentInv, FramesOk, Sent, Reached, Settling, Uncounted, Ended
<1>7. WorkInv BY DEF WorkInv
<1>8. LostInv BY DEF LostInv, Ended, NoFrame
<1> QED BY <1>1, <1>2, <1>3, <1>4, <1>5, <1>6, <1>7, <1>8 DEF StandupTraceInv

LEMMA RecordTypes == TraceTypes /\ Record => TraceTypes'
<1> SUFFICES ASSUME TraceTypes, Record PROVE TraceTypes' OBVIOUS
<1>c. /\ RingRecords \in Nat \ {0} /\ IndexModulus \in Nat \ {0}
      /\ MaxSessions \in Nat /\ MaxSamples \in Nat
  BY TraceConstants
<1>n. /\ session \in 0 .. MaxSessions /\ sample_seq \in 0 .. MaxSamples
      /\ dropped \in 0 .. sample_seq /\ head \in 0 .. IndexModulus - 1
      /\ ring \in [0 .. RingRecords - 1 -> TraceRecords] /\ kept \in Seq(TraceRecords)
  BY DEF TraceTypes
<1>1. PICK r : r = [session |-> session, seq |-> sample_seq] OBVIOUS
<1>2. r \in TraceRecords BY <1>1, <1>n DEF TraceRecords
<1>3. sample_seq < MaxSamples /\ sample_seq' = sample_seq + 1 BY DEF Record
<1>4. sample_seq' \in 0 .. MaxSamples BY <1>c, <1>n, <1>3
<1>5. /\ head' \in 0 .. IndexModulus - 1 /\ dropped' \in 0 .. sample_seq'
      /\ ring' \in [0 .. RingRecords - 1 -> TraceRecords] /\ kept' \in Seq(TraceRecords)
  <2>1. CASE Full
    <3>1. dropped' = dropped + 1 /\ UNCHANGED <<head, ring, kept>> BY <2>1 DEF Record
    <3>2. dropped' \in 0 .. sample_seq' BY <1>c, <1>n, <1>3, <3>1
    <3> QED BY <1>n, <3>1, <3>2
  <2>2. CASE ~Full
    <3>1. /\ ring' = [ring EXCEPT ![head % RingRecords] = r]
          /\ head' = (head + 1) % IndexModulus
          /\ kept' = Append(kept, r) /\ dropped' = dropped
      BY <1>1, <2>2 DEF Record
    <3>2. head + 1 \in Nat BY <1>c, <1>n
    <3>3. head' \in 0 .. IndexModulus - 1 BY <1>c, <3>1, <3>2, Remainder
    <3>4. dropped' \in 0 .. sample_seq' BY <1>c, <1>n, <1>3, <3>1
    <3>5. ring' \in [0 .. RingRecords - 1 -> TraceRecords] BY <1>n, <1>2, <3>1
    <3>6. kept' \in Seq(TraceRecords) BY <1>n, <1>2, <3>1
    <3> QED BY <3>3, <3>4, <3>5, <3>6
  <2> QED BY <2>1, <2>2
<1> QED BY <1>4, <1>5 DEF TraceTypes, Record, transport

LEMMA TraceTypesStep == TraceTypes /\ CountInv /\ [Next]_vars => TraceTypes'
<1> SUFFICES ASSUME TraceTypes, CountInv, [Next]_vars PROVE TraceTypes' OBVIOUS
<1> USE DEF indices, transport, history
<1>c. /\ IndexModulus \in Nat \ {0} /\ MaxSessions \in Nat /\ MaxSamples \in Nat
      /\ MaxDrops \in Nat
  BY TraceConstants
<1>0. 0 \in 0 .. IndexModulus - 1 BY <1>c
<1>1. CASE StartResetsHead
  <2>1. session \in 0 .. MaxSessions /\ session < MaxSessions /\ session' = session + 1
    BY <1>1 DEF TraceTypes, StartResetsHead
  <2>2. session' \in 0 .. MaxSessions BY <1>c, <2>1
  <2>3. undisturbed' \in BOOLEAN BY <1>1 DEF StartResetsHead
  <2>4. <<>> \in Seq(TraceRecords) /\ <<>> \in Seq(TraceFrames) OBVIOUS
  <2> QED BY <1>0, <1>1, <2>2, <2>3, <2>4 DEF TraceTypes, StartResetsHead
<1>2. CASE StartResetsTail
  <2>1. 0 \in 0 .. MaxSamples /\ 0 \in 0 .. 0 BY <1>c
  <2>2. tx_dropped \in 0 .. tx_dropped BY NaturalState
  <2>3. baseline' \in 0 .. tx_dropped' /\ tx_dropped' \in 0 .. MaxDrops
    BY <1>2, <2>2 DEF TraceTypes, StartResetsTail
  <2> QED BY <1>0, <1>2, <2>1, <2>3 DEF TraceTypes, StartResetsTail
<1>3. CASE StartArms BY <1>3 DEF TraceTypes, StartArms
<1>4. CASE Record BY <1>4, RecordTypes
<1>5. CASE StopsRecording BY <1>5 DEF TraceTypes, StopsRecording
<1>6. CASE MarksEnd BY <1>6 DEF TraceTypes, MarksEnd
<1>7. CASE TraceWorker
  <2>f. frame_seq \in Nat BY DEF CountInv
  <2>s. Beside BY <1>7, <2>f, WorkerStepIs
  <2>w. worker.frame \in TraceFrames /\ worker.tail \in Nat BY NaturalState
  <2>t. \A at : Moves(at, worker'.tail) \/ Moves(at, worker.tail) =>
          /\ worker' \in [at : Stations, tail : 0 .. IndexModulus - 1, frame : TraceFrames]
          /\ worker'.at = at /\ worker'.frame = worker.frame
    BY DEF Moves, WorkerTypes
  <2>u. undisturbed' \in BOOLEAN BY <2>s DEF Beside
  <2>1. ASSUME NEW at, Passes(at) PROVE TraceTypes'
    <3>1. worker'.at \notin {"send", "count", "mark"} BY <2>1, <2>t DEF Passes
    <3>2. worker' \in [at : Stations, tail : 0 .. IndexModulus - 1, frame : TraceFrames]
      BY <2>1, <2>t DEF Passes
    <3> QED BY <2>1, <2>s, <2>u, <3>1, <3>2 DEF TraceTypes, Passes, Looks, Beside, Shared
  <2>2. ASSUME NEW kind \in {"start", "data", "end"}, NEW records, Prepares(kind, records)
        PROVE  TraceTypes'
    <3>1. worker' \in [at : Stations, tail : 0 .. IndexModulus - 1, frame : TraceFrames]
          /\ worker'.frame.kind # "none"
      BY <2>2 DEF Prepares, Makes, WorkerTypes
    <3> QED BY <2>2, <2>s, <2>u, <3>1 DEF TraceTypes, Prepares, Looks, Beside, Shared
  <2>3. CASE Accepts
    <3>1. sent' \in Seq(TraceFrames)
      <4>1. sent \in Seq(TraceFrames) BY DEF TraceTypes
      <4>2. NoFrame \in TraceFrames BY DEF NoFrame, TraceFrames
      <4>3. (IF undisturbed THEN worker.frame ELSE NoFrame) \in TraceFrames BY <2>w, <4>2
      <4> QED BY <2>3, <4>1, <4>3, AppendTypes DEF Accepts
    <3>2. worker' \in [at : Stations, tail : 0 .. IndexModulus - 1, frame : TraceFrames]
          /\ worker'.frame.kind # "none"
      BY <2>3, <2>t DEF Accepts, TraceTypes
    <3> QED BY <2>3, <2>s, <2>u, <3>1, <3>2 DEF TraceTypes, Accepts, Beside, Shared
  <2>4. CASE Counts
    <3>2. worker' \in [at : Stations, tail : 0 .. IndexModulus - 1, frame : TraceFrames]
          /\ worker'.frame.kind # "none"
      BY <2>4, <2>t DEF Counts, TraceTypes
    <3> QED BY <2>4, <2>s, <2>u, <3>2 DEF TraceTypes, Counts, Beside, Shared
  <2>5. CASE Marks
    <3>1. tail' \in 0 .. IndexModulus - 1
      <4>1. Len(worker.frame.records) \in Nat
        BY <2>w DEF TraceFrames
      <4>2. worker.tail + Len(worker.frame.records) \in Nat BY <2>w, <4>1
      <4>3. tail \in 0 .. IndexModulus - 1 BY DEF TraceTypes
      <4> QED BY <1>c, <2>5, <4>2, <4>3, Remainder DEF Marks
    <3>2. /\ worker' \in [at : Stations, tail : 0 .. IndexModulus - 1, frame : TraceFrames]
          /\ worker'.at \notin {"send", "count", "mark"}
      <4>1. worker.frame.kind \in {"start", "data", "end"}
        BY <2>5, <2>w DEF TraceTypes, TraceFrames, Marks
      <4>2. AfterFrame[worker.frame.kind] \in {"tail", "end", "idle"} BY <4>1 DEF AfterFrame
      <4> QED BY <2>5, <2>t, <4>2 DEF Marks
    <3>3. start_pending' \in BOOLEAN /\ end_pending' \in BOOLEAN BY <2>5 DEF Marks, TraceTypes
    <3> QED BY <2>5, <2>s, <2>u, <3>1, <3>2, <3>3 DEF TraceTypes, Marks, Beside, Shared
  <2> QED BY <1>7, <2>f, <2>1, <2>2, <2>3, <2>4, <2>5, WorkerStepIs
<1>8. CASE TransportDrops
  <2>1. /\ tx_dropped \in 0 .. MaxDrops /\ baseline \in 0 .. tx_dropped
        /\ tx_dropped < MaxDrops /\ tx_dropped' = tx_dropped + 1 /\ baseline' = baseline
    BY <1>8 DEF TraceTypes, TransportDrops
  <2>2. tx_dropped' \in 0 .. MaxDrops /\ baseline' \in 0 .. tx_dropped' BY <1>c, <2>1
  <2> QED BY <1>8, <2>2 DEF TraceTypes, TransportDrops
<1>9. CASE UNCHANGED vars BY <1>9 DEF TraceTypes, vars
<1> QED BY <1>1, <1>2, <1>3, <1>4, <1>5, <1>6, <1>7, <1>8, <1>9 DEF Next

LEMMA CountStep == TraceTypes /\ CountInv /\ [Next]_vars => CountInv'
<1> SUFFICES ASSUME TraceTypes, CountInv, [Next]_vars PROVE CountInv' OBVIOUS
<1> USE DEF indices, transport, history
<1>c. MaxFrames \in Nat BY TraceConstants
<1>l. PICK l \in Nat : l = Len(sent)
  <2>1. sent \in Seq(TraceFrames) BY DEF TraceTypes
  <2> QED BY <2>1, LengthIsNatural
<1>f. PICK n \in Nat : n = frame_seq BY DEF CountInv
<1>u. PICK u \in {0, 1} : u = Uncounted BY DEF Uncounted
<1>i. /\ l <= MaxFrames
      /\ control # "reset tail" => n + u <= l + 1
      /\ control = "reset tail" => n + u <= MaxFrames + l + 1
  BY <1>f, <1>l, <1>u DEF CountInv
\* The counts after the step.
<1>q. ASSUME NEW k \in Nat, NEW v \in Nat, NEW m \in Nat,
             Len(sent') = k, Uncounted' = v, frame_seq' = m, k <= MaxFrames,
             control' # "reset tail" => m + v <= k + 1,
             control' = "reset tail" => m + v <= MaxFrames + k + 1
      PROVE  CountInv'
  BY <1>q DEF CountInv
<1>1. CASE StartResetsHead
  <2>1. /\ frame_seq' = frame_seq /\ sent' = <<>> /\ Uncounted' = Uncounted
        /\ control # "reset tail"
    BY <1>1 DEF StartResetsHead, Uncounted
  <2>2. Len(sent') = 0 /\ control' = "reset tail" BY <1>1, <2>1 DEF StartResetsHead
  <2>3. n + u <= l + 1 BY <1>i, <2>1
  <2>4. u \in Nat BY <1>u
  <2>6. l <= MaxFrames BY <1>i
  <2>7. n + u <= MaxFrames + 0 + 1 /\ 0 <= MaxFrames BY <1>c, <1>f, <1>l, <2>3, <2>4, <2>6
  <2>5. 0 \in Nat OBVIOUS
  <2> QED BY <1>f, <1>q, <1>u, <2>1, <2>2, <2>4, <2>5, <2>7
<1>2. CASE StartResetsTail
  <2>1. /\ frame_seq' = 0 /\ sent' = sent /\ Uncounted' = Uncounted /\ control' = "arm"
    BY <1>2 DEF StartResetsTail, Uncounted
  <2>2. u \in Nat /\ 0 + u <= l + 1 BY <1>l, <1>u
  <2> QED BY <1>i, <1>l, <1>q, <1>u, <2>1, <2>2
<1>3. CASE StartArms \/ Record \/ StopsRecording \/ MarksEnd
  <2>1. /\ frame_seq' = frame_seq /\ sent' = sent /\ worker' = worker
        /\ control # "reset tail" /\ control' # "reset tail"
    BY <1>3 DEF StartArms, Record, StopsRecording, MarksEnd
  <2> QED BY <2>1 DEF CountInv, Uncounted
<1>4. CASE TraceWorker
  <2>s. control' = control BY <1>4, <1>f, WorkerStepIs DEF Beside, Shared
  <2>1. ASSUME NEW at, Passes(at) PROVE CountInv'
    <3>1. worker.at # "count" /\ worker'.at # "count" BY <2>1 DEF Passes, Moves
    <3>2. frame_seq' = frame_seq /\ sent' = sent BY <2>1 DEF Passes, Looks
    <3> QED BY <2>s, <3>1, <3>2 DEF CountInv, Uncounted
  <2>2. ASSUME NEW kind, NEW records, Prepares(kind, records) PROVE CountInv'
    <3>1. worker.at # "count" /\ worker'.at # "count" BY <2>2 DEF Prepares, Makes
    <3>2. frame_seq' = frame_seq /\ sent' = sent BY <2>2 DEF Prepares, Looks
    <3> QED BY <2>s, <3>1, <3>2 DEF CountInv, Uncounted
  <2>3. CASE Accepts
    <3>1. Uncounted = 0 /\ Uncounted' = 1 /\ frame_seq' = frame_seq /\ Len(sent) < MaxFrames
      BY <2>3 DEF Accepts, Moves, Uncounted
    <3>2. Len(sent') = l + 1
      <4>1. sent \in Seq(TraceFrames) /\ worker.frame \in TraceFrames
        BY NaturalState DEF TraceTypes
      <4>2. NoFrame \in TraceFrames BY DEF NoFrame, TraceFrames
      <4>3. (IF undisturbed THEN worker.frame ELSE NoFrame) \in TraceFrames BY <4>1, <4>2
      <4> QED BY <1>l, <2>3, <4>1, <4>3, AppendTypes DEF Accepts
    <3>3. u = 0 /\ l < MaxFrames BY <1>l, <1>u, <3>1
    <3>4. l + 1 \in Nat /\ l + 1 <= MaxFrames BY <1>c, <1>l, <3>3
    <3>5. n + u <= l + 1 => n + 1 <= (l + 1) + 1 BY <1>f, <1>l, <1>u, <3>3
    <3>6. n + u <= MaxFrames + l + 1 => n + 1 <= MaxFrames + (l + 1) + 1
      BY <1>c, <1>f, <1>l, <1>u, <3>3
    <3>7. /\ control # "reset tail" => n + 1 <= (l + 1) + 1
          /\ control = "reset tail" => n + 1 <= MaxFrames + (l + 1) + 1
      BY <1>i, <3>5, <3>6
    <3> QED BY <1>f, <1>q, <2>s, <3>1, <3>2, <3>4, <3>7
  <2>4. CASE Counts
    <3>1. Uncounted = 1 /\ Uncounted' = 0 /\ frame_seq' = frame_seq + 1 /\ sent' = sent
      BY <2>4 DEF Counts, Moves, Uncounted
    <3>2. u = 1 /\ Len(sent') = l /\ frame_seq' = n + 1 BY <1>f, <1>l, <1>u, <3>1
    <3>3. n + 1 \in Nat /\ n + u = (n + 1) + 0 BY <1>f, <3>2
    <3>4. /\ control # "reset tail" => (n + 1) + 0 <= l + 1
          /\ control = "reset tail" => (n + 1) + 0 <= MaxFrames + l + 1
      BY <1>i, <3>3
    <3> QED BY <1>i, <1>l, <1>q, <2>s, <3>1, <3>2, <3>3, <3>4
  <2>5. CASE Marks
    <3>1. worker.at # "count" /\ frame_seq' = frame_seq /\ sent' = sent BY <2>5 DEF Marks
    <3>2. worker'.at # "count"
      <4>1. worker.frame.kind \in {"start", "data", "end"}
        BY <2>5, NaturalState DEF TraceTypes, TraceFrames, Marks
      <4> QED BY <2>5, <4>1 DEF AfterFrame, Marks, Moves
    <3> QED BY <2>s, <3>1, <3>2 DEF CountInv, Uncounted
  <2> QED BY <1>4, <1>f, <2>1, <2>2, <2>3, <2>4, <2>5, WorkerStepIs
<1>5. CASE TransportDrops \/ UNCHANGED vars
  BY <1>5 DEF CountInv, Uncounted, vars, TransportDrops
<1> QED BY <1>1, <1>2, <1>3, <1>4, <1>5 DEF Next

-----------------------------------------------------------------------------
(* The worker rests while a session is set up or runs *)

\* A worker that steps is not one that rests beside a session.
LEMMA WorkerIsAwake ==
    ASSUME TraceTypes, CountInv, RestInv, TraceWorker
    PROVE  /\ Beside /\ (undisturbed => ~active) /\ (Clean' => Clean)
<1>f. frame_seq \in Nat BY DEF CountInv
<1>1. Beside BY <1>f, WorkerStepIs
<1>2. worker.at # "idle" \/ ~active
  <2>1. ASSUME NEW at, Passes(at) PROVE worker.at # "idle" \/ ~active BY <2>1 DEF Passes
  <2>2. ASSUME NEW kind, NEW records, Prepares(kind, records) PROVE worker.at # "idle"
    BY <2>2 DEF Prepares
  <2>3. Accepts \/ Counts \/ Marks => worker.at # "idle" BY DEF Accepts, Counts, Marks
  <2> QED BY <1>f, <2>1, <2>2, <2>3, WorkerStepIs
<1>3. undisturbed => ~active BY <1>2 DEF RestInv
<1>4. Clean' => Clean BY <1>1 DEF Beside, Shared, Clean, SettingUp
<1> QED BY <1>1, <1>3, <1>4

LEMMA RestStep == TraceTypes /\ CountInv /\ RestInv /\ [Next]_vars => RestInv'
<1> SUFFICES ASSUME TraceTypes, CountInv, RestInv, [Next]_vars PROVE RestInv' OBVIOUS
<1> USE DEF indices, transport, history, SettingUp
<1>1. CASE StartResetsHead BY <1>1 DEF RestInv, StartResetsHead
<1>2. CASE StartResetsTail BY <1>2 DEF RestInv, StartResetsTail
<1>3. CASE StartArms BY <1>3 DEF RestInv, StartArms
<1>4. CASE Record BY <1>4 DEF RestInv, Record
<1>5. CASE StopsRecording BY <1>5 DEF RestInv, StopsRecording
<1>6. CASE MarksEnd BY <1>6 DEF RestInv, MarksEnd
<1>7. CASE TraceWorker
  <2>1. Beside /\ (undisturbed => ~active) BY <1>7, WorkerIsAwake
  <2> QED BY <2>1 DEF RestInv, Beside, Shared
<1>8. CASE TransportDrops BY <1>8 DEF RestInv, TransportDrops
<1>9. CASE UNCHANGED vars BY <1>9 DEF RestInv, vars
<1> QED BY <1>1, <1>2, <1>3, <1>4, <1>5, <1>6, <1>7, <1>8, <1>9 DEF Next

-----------------------------------------------------------------------------
(* The control task: arming, recording and stopping a session *)

\* What a session is about, besides what all sessions share.
TraceBody == RingInv /\ FlagInv /\ SentInv /\ WorkInv

LEMMA Unclean == ~Clean' => TraceBody'
BY DEF TraceBody, RingInv, FlagInv, SentInv, WorkInv

LEMMA SetupStep ==
    ASSUME StandupTraceInv, StartResetsHead \/ StartResetsTail PROVE TraceBody'
<1>1. ~Clean' BY DEF StartResetsHead, StartResetsTail, Clean, SettingUp
<1> QED BY <1>1, Unclean

LEMMA ArmsStep == ASSUME StandupTraceInv, StartArms PROVE TraceBody'
<1> USE DEF indices, transport, history
<1> SUFFICES ASSUME Clean' PROVE TraceBody' BY Unclean
<1>1. undisturbed /\ control = "arm" BY DEF Clean, StartArms
<1>2. /\ head = 0 /\ kept = <<>> /\ sent = <<>> /\ tail = 0 /\ sample_seq = 0
      /\ frame_seq = 0 /\ dropped = 0 /\ worker.at = "idle"
  BY <1>1 DEF StandupTraceInv, RestInv, SettingUp
<1>3. /\ head' = 0 /\ kept' = <<>> /\ sent' = <<>> /\ tail' = 0 /\ sample_seq' = 0
      /\ frame_seq' = 0 /\ dropped' = 0 /\ worker'.at = "idle"
      /\ active' /\ start_pending' /\ ~end_pending' /\ control' = "rest"
  BY <1>2 DEF StartArms
<1>n. <<>> = Numbered(session', 0) BY DEF Numbered
<1>c. RingRecords \in Nat \ {0} BY TraceConstants
<1>4. RingInv' BY <1>3, <1>c, <1>n DEF RingInv
<1>5. FlagInv' BY <1>3 DEF FlagInv, Ended
<1>6. SentInv'
  <2>1. Sent' = <<>> BY <1>3, RecordsOfNone DEF Sent
  <2>2. Reached' = 0 /\ Uncounted' = 0 /\ ~Ended' BY <1>3 DEF Reached, Settling, Uncounted, Ended
  <2> QED BY <1>3, <1>n, <2>1, <2>2 DEF SentInv, FramesOk
<1>7. WorkInv' BY <1>3 DEF WorkInv
<1> QED BY <1>4, <1>5, <1>6, <1>7 DEF TraceBody

LEMMA NumberedAppend ==
    ASSUME NEW s, NEW n \in Nat
    PROVE  Append(Numbered(s, n), [session |-> s, seq |-> n]) = Numbered(s, n + 1)
<1> DEFINE r(i) == [session |-> s, seq |-> i - 1]
<1>1. PICK S : S = [session : {s}, seq : Nat] OBVIOUS
<1>2. \A i \in 1 .. n + 1 : r(i) \in S BY <1>1
<1>3. r(n + 1) = [session |-> s, seq |-> n] OBVIOUS
<1>4. Numbered(s, n) = [i \in 1 .. n |-> r(i)] /\ Numbered(s, n + 1) = [i \in 1 .. n + 1 |-> r(i)]
  BY DEF Numbered
<1> HIDE DEF r
<1>5. PICK p, q : p = [i \in 1 .. n |-> r(i)] /\ q = [i \in 1 .. n + 1 |-> r(i)] OBVIOUS
<1>6. p \in [1 .. n -> S] /\ q \in [1 .. n + 1 -> S] BY <1>2, <1>5
<1>7. p \in Seq(S) /\ q \in Seq(S) /\ Len(p) = n /\ Len(q) = n + 1 BY <1>6
<1>8. Append(p, r(n + 1)) = q
  <2>1. PICK a : a = Append(p, r(n + 1)) OBVIOUS
  <2>2. r(n + 1) \in S BY <1>2
  <2>3. a \in Seq(S) /\ Len(a) = n + 1 /\ a[n + 1] = r(n + 1) /\ \A i \in 1 .. n : a[i] = p[i]
    BY <1>7, <2>1, <2>2, AppendFacts
  <2>4. ASSUME NEW i \in 1 .. n + 1 PROVE a[i] = q[i]
    <3>1. CASE i = n + 1 BY <1>5, <2>3, <3>1
    <3>2. CASE i \in 1 .. n BY <1>5, <2>3, <3>2
    <3> QED BY <3>1, <3>2
  <2>5. a \in [1 .. n + 1 -> S] BY <2>3
  <2> QED BY <1>6, <2>1, <2>4, <2>5
<1> QED BY <1>3, <1>4, <1>5, <1>8

LEMMA RecordStep == ASSUME StandupTraceInv, Record PROVE TraceBody'
<1> SUFFICES ASSUME Clean' PROVE TraceBody' BY Unclean
<1>c. /\ RingRecords \in Nat \ {0} /\ IndexModulus \in Nat \ {0} /\ RingRecords < IndexModulus
  BY TraceConstants
<1>t. TraceTypes BY DEF StandupTraceInv
<1>0. Clean /\ active /\ worker.at = "idle"
  BY DEF Record, Clean, SettingUp, StandupTraceInv, RestInv
<1>1. /\ head \in 0 .. RingRecords /\ tail = 0 /\ kept = Numbered(session, head)
      /\ \A i \in 0 .. head - 1 : ring[i] = [session |-> session, seq |-> i]
      /\ sample_seq = dropped + head /\ (dropped > 0 => head = RingRecords)
  BY <1>0 DEF StandupTraceInv, RingInv
<1>2. start_pending /\ ~end_pending /\ sent = <<>> BY <1>0 DEF StandupTraceInv, FlagInv
<1>3. /\ active' /\ start_pending' = start_pending /\ end_pending' = end_pending
      /\ tail' = tail /\ frame_seq' = frame_seq /\ worker' = worker /\ session' = session
      /\ sent' = sent /\ control' = control /\ control = "rest" /\ sample_seq' = sample_seq + 1
  BY DEF Record
<1>4. head \in Nat /\ dropped \in Nat /\ sample_seq \in Nat BY <1>t, NaturalState
<1>5. Full <=> head = RingRecords
  <2>1. Ahead(head, 0) = head
    <3>1. 0 \in 0 .. head /\ head < IndexModulus BY <1>1, <1>4, <1>c
    <3>2. Ahead(head, 0) = head - 0 BY <1>4, <3>1, AheadIs
    <3> QED BY <1>4, <3>2
  <2> QED BY <1>1, <1>c, <2>1 DEF Full
<1>6. RingInv'
  <2>1. CASE Full
    <3>1. dropped' = dropped + 1 /\ UNCHANGED <<head, ring, kept>> BY <2>1 DEF Record
    <3>2. sample_seq' = dropped' + head' BY <1>1, <1>3, <1>4, <3>1
    <3>3. head' = RingRecords BY <1>5, <2>1, <3>1
    <3>4. head' \in 0 .. RingRecords /\ tail' \in 0 .. head' BY <1>1, <1>3, <1>c, <3>3
    <3>5. tail' = 0 /\ kept' = Numbered(session', head')
          /\ \A i \in 0 .. head' - 1 : ring'[i] = [session |-> session', seq |-> i]
      BY <1>1, <1>3, <3>1
    <3> QED BY <3>2, <3>3, <3>4, <3>5 DEF RingInv
  <2>2. CASE ~Full
    <3>0. PICK r : r = [session |-> session, seq |-> sample_seq] OBVIOUS
    <3>1. /\ ring' = [ring EXCEPT ![head % RingRecords] = r]
          /\ head' = (head + 1) % IndexModulus
          /\ kept' = Append(kept, r) /\ dropped' = dropped
      BY <2>2, <3>0 DEF Record
    <3>2. head < RingRecords /\ head % RingRecords = head /\ head' = head + 1
      <4>1. head < RingRecords BY <1>1, <1>5, <1>c, <2>2
      <4>2. head + 1 \in Nat /\ head + 1 < IndexModulus BY <1>4, <1>c, <4>1
      <4>3. head % RingRecords = head BY <1>4, <1>c, <4>1, Remainder
      <4>4. (head + 1) % IndexModulus = head + 1 BY <1>c, <4>2, Remainder
      <4> QED BY <3>1, <4>1, <4>3, <4>4
    <3>3. dropped = 0 /\ sample_seq = head BY <1>1, <1>4, <1>c, <3>2
    <3>4. kept' = Numbered(session', head')
      <4>1. r = [session |-> session, seq |-> head] BY <3>0, <3>3
      <4> QED BY <1>1, <1>3, <1>4, <3>1, <3>2, <4>1, NumberedAppend
    <3>5. ASSUME NEW i \in 0 .. head' - 1 PROVE ring'[i] = [session |-> session', seq |-> i]
      <4>1. ring \in [0 .. RingRecords - 1 -> TraceRecords] BY <1>t DEF TraceTypes
      <4>2. ring' = [ring EXCEPT ![head] = r] BY <3>1, <3>2
      <4>3. i \in 0 .. RingRecords - 1 BY <1>4, <1>c, <3>2
      <4>4. CASE i = head BY <1>3, <3>0, <3>3, <4>1, <4>2, <4>3, <4>4
      <4>5. CASE i # head
        <5>1. i \in 0 .. head - 1 BY <1>4, <3>2, <4>5
        <5> QED BY <1>1, <1>3, <4>1, <4>2, <4>3, <4>5, <5>1
      <4> QED BY <4>4, <4>5
    <3>6. head' \in 0 .. RingRecords /\ tail' \in 0 .. head' /\ tail' = 0
      BY <1>1, <1>3, <1>4, <1>c, <3>2
    <3>7. sample_seq' = dropped' + head' /\ ~(dropped' > 0) BY <1>3, <1>4, <3>1, <3>2, <3>3
    <3> QED BY <3>4, <3>5, <3>6, <3>7 DEF RingInv
  <2> QED BY <2>1, <2>2
<1>7. FlagInv' BY <1>2, <1>3 DEF FlagInv, Ended
<1>8. SentInv'
  <2>1. /\ Sent = Numbered(session, 0) /\ frame_seq + Uncounted = Len(sent)
        /\ Reached = 0 /\ Reached' = 0
    BY <1>0, <1>1, <1>3 DEF StandupTraceInv, SentInv, Reached, Settling
  <2>2. Sent' = Numbered(session', Reached') BY <1>3, <2>1 DEF Sent
  <2>3. frame_seq' + Uncounted' = Len(sent') BY <1>3, <2>1 DEF Uncounted
  <2>4. ~Ended' /\ Len(sent') = 0 /\ FramesOk(sent', Len(sent'), dropped')
    BY <1>2, <1>3 DEF Ended, FramesOk
  <2> QED BY <2>1, <2>2, <2>3, <2>4 DEF SentInv
<1>9. WorkInv' BY <1>0, <1>3 DEF WorkInv
<1> QED BY <1>6, <1>7, <1>8, <1>9 DEF TraceBody

\* Stopping changes the flags alone.
LEMMA StopStep == ASSUME StandupTraceInv, StopsRecording \/ MarksEnd PROVE TraceBody'
<1> USE DEF indices, transport, history
<1> SUFFICES ASSUME Clean' PROVE TraceBody' BY Unclean
<1>0. Clean BY DEF Clean, SettingUp, StopsRecording, MarksEnd
<1>1. /\ UNCHANGED <<start_pending, indices, worker, history>> /\ ~active'
  <2>1. CASE StopsRecording BY <2>1 DEF StopsRecording
  <2>2. CASE MarksEnd BY <2>2 DEF MarksEnd, StandupTraceInv, RestInv
  <2> QED BY <2>1, <2>2
<1>2. RingInv' BY <1>0, <1>1 DEF RingInv, StandupTraceInv
<1>3. FlagInv'
  <2>1. CASE StopsRecording
    <3>1. start_pending /\ ~end_pending /\ sent = <<>> BY <1>0, <2>1 DEF FlagInv, StandupTraceInv, StopsRecording
    <3> QED BY <2>1, <3>1 DEF FlagInv, StopsRecording, Ended
  <2>2. CASE MarksEnd
    <3>1. ~end_pending /\ ~active /\ control = "mark end" /\ (start_pending \/ sent # <<>>)
      BY <1>0, <2>2 DEF FlagInv, StandupTraceInv, MarksEnd, RestInv
    <3>2. ~Ended BY <1>0, <3>1 DEF FlagInv, StandupTraceInv
    <3>3. /\ ~active' /\ control' = "rest" /\ ~Ended'
          /\ start_pending' = start_pending /\ sent' = sent /\ worker' = worker
      BY <2>2, <3>1, <3>2 DEF MarksEnd, Ended
    <3>4. start_pending' => sent' = <<>> \/ Settling("start")'
      BY <1>0, <3>3 DEF FlagInv, StandupTraceInv, Settling
    <3> QED BY <3>1, <3>3, <3>4 DEF FlagInv
  <2> QED BY <2>1, <2>2
<1>4. SentInv'
  BY <1>0, <1>1 DEF SentInv, StandupTraceInv, Sent, Reached, Settling, Uncounted, Ended, FramesOk, FrameOk
<1>5. WorkInv'
  <2>1. CASE worker.at = "idle" BY <1>1, <2>1 DEF WorkInv
  <2>2. CASE worker.at # "idle"
    <3>1. MarksEnd /\ ~end_pending
      BY <1>0, <2>2 DEF StandupTraceInv, RestInv, Clean, StopsRecording, FlagInv, MarksEnd
    <3>2. Due(worker.frame) => Due(worker.frame)'
      <4>1. /\ worker' = worker /\ tail' = tail /\ head' = head /\ session' = session
            /\ start_pending' = start_pending /\ end_pending'
        BY <1>1, <3>1 DEF MarksEnd
      <4>2. Batched(worker.frame) => Batched(worker.frame)' BY <4>1 DEF Batched
      <4> QED BY <4>1, <4>2 DEF Due
    <3> QED BY <1>0, <1>1, <3>2 DEF WorkInv, StandupTraceInv, Ended
  <2> QED BY <2>1, <2>2
<1> QED BY <1>2, <1>3, <1>4, <1>5 DEF TraceBody

-----------------------------------------------------------------------------
(* The worker: looking, sending, counting and settling *)

\* A step that settles nothing and keeps the flags and the frames sent.
LEMMA LooksStep ==
    ASSUME StandupTraceInv, TraceWorker, Clean, Looks,
           worker.at \notin {"count", "mark"}, worker'.at \notin {"count", "mark"}
    PROVE  RingInv' /\ FlagInv' /\ SentInv'
<1>1. Beside BY WorkerIsAwake DEF StandupTraceInv
<1>2. /\ UNCHANGED Shared
      /\ UNCHANGED <<start_pending, end_pending, tail, frame_seq, sent>>
  BY <1>1 DEF Beside, Looks, indices
<1>3. /\ ~Settling("start") /\ ~Settling("data") /\ ~Settling("end")
      /\ ~Settling("start")' /\ ~Settling("data")' /\ ~Settling("end")'
  BY DEF Settling
<1>4. Uncounted' = Uncounted /\ Reached' = Reached /\ (Ended' <=> Ended) /\ Sent' = Sent
  BY <1>2, <1>3 DEF Uncounted, Reached, Ended, Sent
<1>5. RingInv' BY <1>2 DEF RingInv, Shared, StandupTraceInv
<1>6. FlagInv'
  <2>1. FlagInv BY DEF StandupTraceInv
  <2>2. /\ control' = control /\ active' = active /\ start_pending' = start_pending
        /\ end_pending' = end_pending /\ head' = head /\ tail' = tail /\ sent' = sent
    BY <1>2 DEF Shared
  <2>3. /\ active => start_pending /\ ~end_pending /\ sent = <<>>
        /\ control = "mark end" => ~end_pending /\ (start_pending \/ sent # <<>>)
        /\ ~start_pending /\ sent = <<>> => head = 0 /\ ~end_pending
        /\ start_pending => sent = <<>>
        /\ Ended => tail = head /\ ~active /\ control = "rest" /\ ~end_pending
    BY <1>3, <2>1 DEF FlagInv
  <2>4. /\ active' => start_pending' /\ ~end_pending' /\ sent' = <<>>
        /\ control' = "mark end" => ~end_pending' /\ (start_pending' \/ sent' # <<>>)
        /\ ~start_pending' /\ sent' = <<>> => head' = 0 /\ ~end_pending'
        /\ start_pending' => sent' = <<>>
    BY <2>2, <2>3
  <2>5. Ended' => tail' = head' /\ ~active' /\ control' = "rest" /\ ~end_pending'
    BY <1>4, <2>2, <2>3
  <2> QED BY <2>4, <2>5 DEF FlagInv
<1>7. SentInv' BY <1>2, <1>4 DEF SentInv, Shared, StandupTraceInv
<1> QED BY <1>5, <1>6, <1>7

LEMMA PassesStep ==
    ASSUME StandupTraceInv, TraceWorker, NEW at, Passes(at) PROVE TraceBody'
<1> SUFFICES ASSUME Clean' PROVE TraceBody' BY Unclean
<1>0. Beside /\ Clean BY WorkerIsAwake DEF StandupTraceInv
<1>1. RingInv' /\ FlagInv' /\ SentInv'
  <2>1. worker.at \notin {"count", "mark"} /\ worker'.at \notin {"count", "mark"} /\ Looks
    BY DEF Passes, Moves
  <2> QED BY <1>0, <2>1, LooksStep
<1>2. WorkInv'
  <2>1. worker'.at = at /\ at \notin {"send", "count", "mark"} BY DEF Passes, Moves
  <2> QED BY <1>0, <2>1 DEF WorkInv, Passes, Looks, indices
<1> QED BY <1>1, <1>2 DEF TraceBody

LEMMA PreparesStep ==
    ASSUME StandupTraceInv, TraceWorker,
           NEW kind \in {"start", "data", "end"}, NEW records \in Seq(TraceRecords),
           Prepares(kind, records)
    PROVE  TraceBody'
<1> USE DEF Looks, indices
<1> SUFFICES ASSUME Clean' PROVE TraceBody' BY Unclean
<1>t. TraceTypes BY DEF StandupTraceInv
<1>c. RingRecords \in Nat \ {0} /\ RingRecords < IndexModulus BY TraceConstants
<1>0. Beside /\ Clean BY WorkerIsAwake DEF StandupTraceInv
<1>1. worker.at \in {"start", "head", "flags"} /\ Looks /\ Makes(kind, records) BY DEF Prepares
<1>2. RingInv' /\ FlagInv' /\ SentInv'
  <2>1. worker.at \notin {"count", "mark"} /\ worker'.at \notin {"count", "mark"}
    BY <1>1 DEF Makes
  <2> QED BY <1>0, <1>1, <2>1, LooksStep
<1>3. /\ worker'.at = "send" /\ worker'.tail = worker.tail
      /\ worker'.frame.kind = kind /\ worker'.frame.seq = frame_seq
      /\ worker'.frame.dropped = dropped /\ worker'.frame.records = records
  BY <1>1 DEF Makes
<1>4. /\ start_pending' = start_pending /\ end_pending' = end_pending
      /\ sent' = sent /\ tail' = tail /\ head' = head /\ session' = session /\ dropped' = dropped
  BY <1>0, <1>1 DEF Beside, Shared
<1>5. \A k : ~Settling(k) BY <1>1 DEF Settling
<1>6. /\ worker.at = "head" => ~start_pending /\ worker.tail = tail
      /\ worker.at = "flags" => tail = head
  BY <1>0 DEF StandupTraceInv, WorkInv
<1>7. frame_seq = Len(sent)
  <2>1. Uncounted = 0 /\ frame_seq + Uncounted = Len(sent) /\ frame_seq \in Nat
    BY <1>0, <1>1 DEF StandupTraceInv, SentInv, CountInv, Uncounted
  <2> QED BY <2>1
\* A frame that is due and comes before the end frame.
<1>8. ASSUME Due(worker.frame)', ~Ended PROVE WorkInv'
  <2>1. ~Ended' BY <1>4, <1>8 DEF Ended
  <2> QED BY <1>3, <1>4, <1>7, <1>8, <2>1 DEF WorkInv
<1>9. CASE kind = "start"
  <2>1. start_pending /\ records = <<>> BY <1>9 DEF Prepares
  <2>2. sent = <<>> BY <1>0, <1>5, <2>1 DEF StandupTraceInv, FlagInv
  <2>3. ~Ended BY <2>2 DEF Ended
  <2>4. Due(worker.frame)' BY <1>3, <1>4, <1>9, <2>1 DEF Due
  <2> QED BY <1>2, <1>8, <2>3, <2>4 DEF TraceBody
<1>10. CASE kind = "data"
  <2>1. /\ worker.at = "head" /\ head # worker.tail
        /\ Len(records) \in 1 .. Ahead(head, worker.tail)
        /\ \A i \in 1 .. Len(records) : records[i] = ring[(worker.tail + i - 1) % RingRecords]
    BY <1>10 DEF Prepares
  <2>2. ~start_pending /\ worker.tail = tail BY <1>6, <2>1
  <2>3. /\ head \in 0 .. RingRecords /\ tail \in 0 .. head
        /\ \A i \in 0 .. head - 1 : ring[i] = [session |-> session, seq |-> i]
    BY <1>0 DEF StandupTraceInv, RingInv
  <2>4. head \in Nat /\ tail \in Nat /\ head <= RingRecords /\ tail <= head
    BY <1>c, <2>3
  <2>5. Ahead(head, tail) = head - tail
    <3>1. head < IndexModulus BY <1>c, <2>4, TraceConstants
    <3> QED BY <2>3, <2>4, <3>1, AheadIs
  <2>6. PICK k \in Nat : k = Len(records) /\ k \in 1 .. head - tail
    BY <2>1, <2>2, <2>4, <2>5
  <2>7. ASSUME NEW i \in 1 .. k PROVE records[i] = [session |-> session, seq |-> tail + i - 1]
    <3>1. PICK j \in Nat : j = tail + i - 1 BY <2>4
    <3>2. j < head BY <2>4, <2>6, <3>1
    <3>3. j < RingRecords /\ j \in 0 .. head - 1 BY <1>c, <2>4, <3>2
    <3>4. j % RingRecords = j BY <1>c, <3>3, Remainder
    <3>5. ring[j] = [session |-> session, seq |-> j] BY <2>3, <3>3
    <3> QED BY <2>1, <2>2, <2>6, <3>1, <3>4, <3>5
  <2>8. records = [i \in 1 .. k |-> [session |-> session, seq |-> tail + i - 1]]
    <3> DEFINE r(i) == [session |-> session, seq |-> tail + i - 1]
    <3>1. \A i \in 1 .. k : records[i] = r(i) BY <2>7
    <3> HIDE DEF r
    <3>2. records = [i \in 1 .. k |-> records[i]] BY <2>6
    <3>3. records = [i \in 1 .. k |-> r(i)] BY <3>1, <3>2
    <3> QED BY <3>3 DEF r
  <2>9. Batched(worker.frame)'
    <3>1. worker'.frame.records
            = [i \in 1 .. k |-> [session |-> session', seq |-> tail' + i - 1]]
      BY <1>3, <1>4, <2>8
    <3>2. Len(worker'.frame.records) = k /\ worker'.tail = tail' /\ head' - tail' = head - tail
      BY <1>3, <1>4, <2>2, <2>6
    <3> QED BY <2>6, <3>1, <3>2 DEF Batched
  <2>10. Due(worker.frame)' BY <1>10, <1>3, <1>4, <2>2, <2>9 DEF Due
  <2>11. ~Ended BY <1>0, <2>1, <2>2 DEF StandupTraceInv, FlagInv
  <2> QED BY <1>2, <1>8, <2>10, <2>11 DEF TraceBody
<1>11. CASE kind = "end"
  <2>1. worker.at = "flags" /\ end_pending /\ ~start_pending /\ records = <<>>
    BY <1>11 DEF Prepares
  <2>2. Due(worker.frame)' BY <1>3, <1>4, <1>6, <1>11, <2>1 DEF Due
  <2>3. ~Ended BY <1>0, <1>5, <2>1 DEF StandupTraceInv, FlagInv
  <2> QED BY <1>2, <1>8, <2>2, <2>3 DEF TraceBody
<1> QED BY <1>9, <1>10, <1>11

\* The records of a batch continue those sent before.
LEMMA NumberedConcat ==
    ASSUME NEW s, NEW n \in Nat, NEW k \in Nat
    PROVE  Numbered(s, n) \o [i \in 1 .. k |-> [session |-> s, seq |-> n + i - 1]] = Numbered(s, n + k)
<1> DEFINE r(i) == [session |-> s, seq |-> i - 1]
<1>1. PICK S : S = [session : {s}, seq : Nat] OBVIOUS
<1>2. \A i \in 1 .. n + k : r(i) \in S BY <1>1
<1>3. /\ Numbered(s, n) = [i \in 1 .. n |-> r(i)]
      /\ Numbered(s, n + k) = [i \in 1 .. n + k |-> r(i)]
      /\ [i \in 1 .. k |-> [session |-> s, seq |-> n + i - 1]] = [i \in 1 .. k |-> r(n + i)]
  BY DEF Numbered
<1> HIDE DEF r
<1>4. PICK p, b, q : /\ p = [i \in 1 .. n |-> r(i)] /\ b = [i \in 1 .. k |-> r(n + i)]
                     /\ q = [i \in 1 .. n + k |-> r(i)]
  OBVIOUS
<1>5. p \in [1 .. n -> S] /\ b \in [1 .. k -> S] /\ q \in [1 .. n + k -> S]
  <2>1. \A i \in 1 .. n : i \in 1 .. n + k OBVIOUS
  <2>2. \A i \in 1 .. k : n + i \in 1 .. n + k OBVIOUS
  <2> QED BY <1>2, <1>4, <2>1, <2>2
<1>6. p \in Seq(S) /\ b \in Seq(S) /\ Len(p) = n /\ Len(b) = k BY <1>5
<1>7. PICK c : c = p \o b OBVIOUS
<1>8. /\ c \in Seq(S) /\ Len(c) = n + k
      /\ \A i \in 1 .. n : c[i] = p[i]
      /\ \A i \in n + 1 .. n + k : c[i] = b[i - n]
  <2>1. /\ c \in Seq(S) /\ Len(c) = Len(p) + Len(b)
        /\ \A i \in 1 .. Len(p) + Len(b) : c[i] = IF i <= Len(p) THEN p[i] ELSE b[i - Len(p)]
    BY <1>6, <1>7, ConcatProperties
  <2> QED BY <1>6, <2>1
<1>9. ASSUME NEW i \in 1 .. n + k PROVE c[i] = q[i]
  <2>1. CASE i \in 1 .. n BY <1>4, <1>8, <2>1
  <2>2. CASE i \notin 1 .. n
    <3>1. PICK j \in 1 .. k : i = n + j /\ i - n = j BY <2>2
    <3>2. i \in n + 1 .. n + k BY <3>1
    <3>3. c[i] = b[j] BY <1>8, <3>1, <3>2
    <3> QED BY <1>4, <3>1, <3>3
  <2> QED BY <2>1, <2>2
<1>10. c \in [1 .. n + k -> S] BY <1>8
<1>11. c = q BY <1>5, <1>9, <1>10
<1> QED BY <1>3, <1>4, <1>7, <1>11

LEMMA ConcatNone == ASSUME NEW S, NEW s \in Seq(S) PROVE s \o <<>> = s
BY ConcatEmptySeq

LEMMA LastIsAt == ASSUME NEW S, NEW s \in Seq(S) PROVE Last(s) = s[Len(s)]
BY DEF Last

\* The frame in the worker's hands is the next one of the session.
LEMMA NextFrame ==
    ASSUME StandupTraceInv, Clean, worker.at = "send"
    PROVE  /\ \A i \in 1 .. Len(sent) : sent[i].kind # "end"
           /\ worker.frame.kind = "start" <=> Len(sent) = 0
           /\ worker.frame.kind \in {"start", "data", "end"}
           /\ worker.frame.kind = "end" => control = "rest" /\ ~active
<1>t. TraceTypes BY DEF StandupTraceInv
<1>1. sent \in Seq(TraceFrames) /\ worker.frame \in TraceFrames BY <1>t, NaturalState DEF TraceTypes
<1>2. PICK n \in Nat : n = Len(sent) /\ (n = 0 <=> sent = <<>>)
  <2>1. Len(sent) \in Nat /\ (Len(sent) = 0 <=> sent = <<>>) BY <1>1
  <2> QED BY <2>1
<1>3. Due(worker.frame) /\ ~Ended /\ FramesOk(sent, n, dropped)
  BY <1>2 DEF StandupTraceInv, WorkInv, SentInv
<1>4. ~Settling("start") /\ ~Settling("end") BY DEF Settling
<1>5. ASSUME NEW i \in 1 .. n PROVE sent[i].kind # "end"
  <2>1. sent[i].kind = "end" => i = n BY <1>3 DEF FramesOk, FrameOk
  <2>2. sent # <<>> BY <1>2
  <2>3. sent[n].kind # "end" BY <1>1, <1>2, <1>3, <2>2, LastIsAt DEF Ended
  <2> QED BY <2>1, <2>3
<1>6. worker.frame.kind \in {"start", "data", "end"}
  BY <1>1, <1>t DEF TraceTypes, TraceFrames
<1>7. FlagInv BY DEF StandupTraceInv
<1>8. worker.frame.kind = "start" => n = 0
  BY <1>2, <1>3, <1>4, <1>7 DEF FlagInv, Due
<1>9. ASSUME n = 0 PROVE worker.frame.kind = "start"
  <2>1. sent = <<>> BY <1>2, <1>9
  <2>2. ~start_pending => head = 0 /\ ~end_pending BY <1>7, <2>1 DEF FlagInv
  <2>3. CASE worker.frame.kind = "data"
    <3>1. ~start_pending /\ Len(worker.frame.records) \in 1 .. head - tail
      BY <1>3, <2>3 DEF Due, Batched
    <3>2. head = 0 /\ tail \in Nat BY <1>t, <2>2, <3>1, NaturalState
    <3> QED BY <3>1, <3>2
  <2>4. CASE worker.frame.kind = "end" BY <1>3, <2>2, <2>4 DEF Due
  <2> QED BY <1>6, <2>3, <2>4
<1>10. worker.frame.kind = "end" => control = "rest" /\ ~active
  <2>1. SUFFICES ASSUME worker.frame.kind = "end" PROVE control = "rest" /\ ~active OBVIOUS
  <2>2. end_pending BY <1>3, <2>1 DEF Due
  <2>3. control # "mark end" /\ ~active BY <1>7, <2>2 DEF FlagInv
  <2> QED BY <1>t, <2>3 DEF Clean, SettingUp, TraceTypes
<1> QED BY <1>2, <1>5, <1>6, <1>8, <1>9, <1>10

\* What the accepted frame adds to the records sent.
LEMMA RecordsSent ==
    ASSUME StandupTraceInv, Clean, worker.at = "send", sent' = Append(sent, worker.frame),
           session' = session, tail' = tail, worker'.at = "count", worker'.frame = worker.frame
    PROVE  /\ Sent' = Numbered(session, Reached')
           /\ Reached' = tail + (IF worker.frame.kind = "data" THEN Len(worker.frame.records) ELSE 0)
           /\ worker.frame.kind = "data" => Reached' > tail
<1>t. TraceTypes BY DEF StandupTraceInv
<1>1. /\ sent \in Seq(TraceFrames) /\ worker.frame \in TraceFrames
      /\ tail \in Nat /\ head \in Nat
  BY <1>t, NaturalState DEF TraceTypes
<1>2. Due(worker.frame) BY DEF StandupTraceInv, WorkInv
<1>3. Sent' = Sent \o worker.frame.records BY <1>1, RecordsAppend DEF Sent
<1>4. Sent = Numbered(session, tail)
  <2>1. Reached = tail BY DEF Reached, Settling
  <2> QED BY <2>1 DEF StandupTraceInv, SentInv
<1>5. Sent \in Seq(TraceRecords) BY <1>1, RecordsAppend DEF Sent
<1>6. CASE worker.frame.kind = "data"
  <2>1. Reached' = tail + Len(worker.frame.records) BY <1>6 DEF Reached, Settling
  <2>2. PICK k \in Nat : k = Len(worker.frame.records) /\ k > 0
    BY <1>1, <1>2, <1>6 DEF Due, Batched
  <2>3. worker.frame.records = [i \in 1 .. k |-> [session |-> session, seq |-> tail + i - 1]]
    BY <1>2, <1>6, <2>2 DEF Due, Batched
  <2>4. Numbered(session, tail) \o [i \in 1 .. k |-> [session |-> session, seq |-> tail + i - 1]]
          = Numbered(session, tail + k)
    BY <1>1, <2>2, NumberedConcat
  <2>5. Sent' = Numbered(session, tail + k) BY <1>3, <1>4, <2>3, <2>4
  <2>6. tail + k > tail BY <1>1, <2>2
  <2> QED BY <1>6, <2>1, <2>2, <2>5, <2>6
<1>7. CASE worker.frame.kind # "data"
  <2>1. Reached' = tail BY <1>7 DEF Reached, Settling
  <2>2. worker.frame.records = <<>>
    BY <1>1, <1>2, <1>7, <1>t DEF Due, TraceTypes, TraceFrames
  <2>3. Sent' = Sent BY <1>3, <1>5, <2>2, ConcatNone
  <2> QED BY <1>1, <1>4, <1>7, <2>1, <2>3
<1> QED BY <1>6, <1>7

LEMMA AcceptsStep == ASSUME StandupTraceInv, TraceWorker, Accepts PROVE TraceBody'
<1> SUFFICES ASSUME Clean' PROVE TraceBody' BY Unclean
<1>t. TraceTypes BY DEF StandupTraceInv
<1>0. Beside /\ Clean BY WorkerIsAwake DEF StandupTraceInv
<1>1. /\ UNCHANGED <<control, active, session, kept, head, ring, sample_seq, dropped>>
      /\ UNCHANGED <<start_pending, end_pending, tail, frame_seq>>
      /\ worker.at = "send" /\ worker'.at = "count" /\ worker'.tail = worker.tail
      /\ worker'.frame = worker.frame /\ sent' = Append(sent, worker.frame)
  BY <1>0 DEF Accepts, Moves, Beside, Shared, indices, Clean
<1>2. sent \in Seq(TraceFrames) /\ worker.frame \in TraceFrames /\ dropped \in Nat
  BY <1>t, NaturalState DEF TraceTypes
<1>3. PICK n \in Nat : n = Len(sent) BY <1>2, LengthIsNatural
<1>4. /\ sent' \in Seq(TraceFrames) /\ Len(sent') = n + 1 /\ sent'[n + 1] = worker.frame
      /\ \A i \in 1 .. n : sent'[i] = sent[i]
  BY <1>1, <1>2, <1>3, AppendFacts
<1>5. sent' # <<>> /\ Last(sent') = worker.frame
  <2>1. Last(sent') = sent'[Len(sent')] BY <1>4, LastIsAt
  <2> QED BY <1>3, <1>4, <2>1
<1>6. Ended' <=> worker.frame.kind = "end" BY <1>5 DEF Ended
<1>7. /\ Due(worker.frame) /\ worker.frame.seq = n /\ worker.frame.dropped = dropped
  BY <1>0, <1>1, <1>3 DEF StandupTraceInv, WorkInv
<1>8. /\ \A i \in 1 .. n : sent[i].kind # "end"
      /\ worker.frame.kind = "start" <=> n = 0
      /\ worker.frame.kind \in {"start", "data", "end"}
      /\ worker.frame.kind = "end" => control = "rest" /\ ~active
  BY <1>0, <1>1, <1>3, NextFrame
<1>9. RingInv' BY <1>0, <1>1 DEF RingInv, StandupTraceInv
<1>10. FlagInv'
  <2>1. FlagInv BY DEF StandupTraceInv
  <2>2. ~active BY <1>0, WorkerIsAwake DEF StandupTraceInv, Clean
  <2>3. control = "mark end" => ~end_pending BY <1>0, <2>1 DEF FlagInv
  <2>4. start_pending => Settling("start")'
    <3>1. start_pending => worker.frame.kind = "start" BY <1>7, <1>8 DEF Due
    <3> QED BY <1>1, <3>1 DEF Settling
  <2>5. worker.frame.kind = "end" => tail = head /\ Settling("end")' BY <1>1, <1>7 DEF Due, Settling
  <2> QED BY <1>1, <1>5, <1>6, <1>8, <2>2, <2>3, <2>4, <2>5 DEF FlagInv
<1>11. SentInv'
  <2>1. ASSUME NEW i \in 1 .. n + 1 PROVE FrameOk(sent'[i], i, n + 1, dropped)
    <3>1. CASE i = n + 1
      <4>1. worker.frame.kind = "start" <=> i = 1 BY <1>3, <1>8, <3>1
      <4>2. worker.frame.seq = i - 1 BY <1>3, <1>7, <3>1
      <4> QED BY <1>4, <1>7, <1>8, <3>1, <4>1, <4>2 DEF FrameOk
    <3>2. CASE i \in 1 .. n
      <4>1. FrameOk(sent[i], i, n, dropped)
        BY <1>0, <1>3, <3>2 DEF StandupTraceInv, SentInv, FramesOk
      <4>2. sent'[i] = sent[i] /\ sent[i].kind # "end" BY <1>4, <1>8, <3>2
      <4> QED BY <4>1, <4>2 DEF FrameOk
    <3> QED BY <3>1, <3>2
  <2>2. FramesOk(sent', Len(sent'), dropped') BY <1>1, <1>4, <2>1 DEF FramesOk
  <2>3. PICK r : r = Reached' OBVIOUS
  <2>4. /\ Sent' = Numbered(session, r)
        /\ r = tail + (IF worker.frame.kind = "data" THEN Len(worker.frame.records) ELSE 0)
        /\ worker.frame.kind = "data" => r > tail
    BY <1>0, <1>1, <2>3, RecordsSent
  <2>5. frame_seq' + Uncounted' = Len(sent')
    <3>1. Uncounted = 0 /\ Uncounted' = 1 BY <1>1 DEF Uncounted
    <3>2. frame_seq + 0 = n /\ frame_seq \in Nat
      BY <1>0, <1>3, <3>1 DEF StandupTraceInv, SentInv, CountInv
    <3>3. frame_seq' + 1 = n + 1 BY <1>1, <3>2
    <3> QED BY <1>4, <3>1, <3>3
  <2>6. Len(sent') <= r + (IF Ended' THEN 2 ELSE 1)
    <3>1. n <= tail + 1 /\ tail \in Nat
      <4>1. Reached = tail BY <1>1 DEF Reached, Settling
      <4>2. ~Ended BY <1>0, <1>1 DEF StandupTraceInv, WorkInv
      <4> QED BY <1>0, <1>3, <1>t, <4>1, <4>2, NaturalState DEF StandupTraceInv, SentInv
    <3>2. CASE worker.frame.kind = "start"
      <4>1. n = 0 /\ r = tail /\ ~Ended' BY <1>6, <1>8, <2>4, <3>1, <3>2
      <4> QED BY <1>4, <3>1, <4>1
    <3>3. CASE worker.frame.kind = "data"
      <4>1. r > tail /\ r = tail + Len(worker.frame.records) /\ ~Ended' BY <1>6, <2>4, <3>3
      <4>2. Len(worker.frame.records) \in Nat BY <1>2 DEF TraceFrames
      <4> QED BY <1>3, <1>4, <3>1, <4>1, <4>2
    <3>4. CASE worker.frame.kind = "end"
      <4>1. r = tail /\ Ended' BY <1>6, <2>4, <3>1, <3>4
      <4> QED BY <1>3, <1>4, <3>1, <4>1
    <3> QED BY <1>8, <3>2, <3>3, <3>4
  <2> QED BY <1>1, <2>2, <2>3, <2>4, <2>5, <2>6 DEF SentInv
<1>12. WorkInv'
  <2>1. Due(worker.frame)'
    <3>1. Batched(worker.frame) => Batched(worker.frame)' BY <1>1 DEF Batched
    <3> QED BY <1>1, <1>7, <3>1 DEF Due
  <2>2. sent'[Len(sent')] = worker'.frame BY <1>1, <1>4
  <2> QED BY <1>1, <1>5, <2>1, <2>2 DEF WorkInv
<1> QED BY <1>9, <1>10, <1>11, <1>12 DEF TraceBody

LEMMA CountsStep == ASSUME StandupTraceInv, TraceWorker, Counts PROVE TraceBody'
<1> SUFFICES ASSUME Clean' PROVE TraceBody' BY Unclean
<1>0. Beside /\ Clean BY WorkerIsAwake DEF StandupTraceInv
<1>1. /\ UNCHANGED <<control, active, session, kept, head, ring, sample_seq, dropped>>
      /\ UNCHANGED <<start_pending, end_pending, tail, sent>> /\ frame_seq' = frame_seq + 1
      /\ worker.at = "count" /\ worker'.at = "mark" /\ worker'.tail = worker.tail
      /\ worker'.frame = worker.frame
  BY <1>0 DEF Counts, Moves, Beside, Shared
<1>2. /\ Settling("start")' <=> Settling("start")
      /\ Settling("data")' <=> Settling("data")
      /\ Settling("end")' <=> Settling("end")
  BY <1>1 DEF Settling
<1>3. Reached' = Reached /\ (Ended' <=> Ended) /\ Sent' = Sent
  BY <1>1, <1>2 DEF Reached, Ended, Sent
<1>4. RingInv' BY <1>0, <1>1 DEF RingInv, StandupTraceInv
<1>5. FlagInv'
  <2>1. FlagInv BY DEF StandupTraceInv
  <2> QED BY <1>0, <1>1, <1>2, <1>3, <2>1 DEF FlagInv
<1>6. SentInv'
  <2>1. Uncounted = 1 /\ Uncounted' = 0 BY <1>1 DEF Uncounted
  <2>2. frame_seq + 1 = Len(sent) /\ frame_seq \in Nat
    BY <1>0, <2>1 DEF StandupTraceInv, SentInv, CountInv
  <2>3. frame_seq' + Uncounted' = Len(sent') BY <1>1, <2>1, <2>2
  <2>4. FramesOk(sent', Len(sent'), dropped') /\ Sent' = Numbered(session', Reached')
    BY <1>0, <1>1, <1>3 DEF StandupTraceInv, SentInv
  <2>5. Len(sent') <= Reached' + (IF Ended' THEN 2 ELSE 1)
    BY <1>0, <1>1, <1>3 DEF StandupTraceInv, SentInv
  <2> QED BY <2>3, <2>4, <2>5 DEF SentInv
<1>7. WorkInv'
  <2>0. Due(worker.frame) /\ sent # <<>> /\ sent[Len(sent)] = worker.frame
    BY <1>0, <1>1 DEF StandupTraceInv, WorkInv
  <2>1. Due(worker.frame)'
    <3>1. Batched(worker.frame) => Batched(worker.frame)' BY <1>1 DEF Batched
    <3> QED BY <1>1, <2>0, <3>1 DEF Due
  <2> QED BY <1>1, <2>0, <2>1 DEF WorkInv
<1> QED BY <1>4, <1>5, <1>6, <1>7 DEF TraceBody

LEMMA MarksStep == ASSUME StandupTraceInv, TraceWorker, Marks PROVE TraceBody'
<1> SUFFICES ASSUME Clean' PROVE TraceBody' BY Unclean
<1>t. TraceTypes BY DEF StandupTraceInv
<1>0. Beside /\ Clean /\ ~active
  BY WorkerIsAwake DEF StandupTraceInv, Clean
<1>1. /\ UNCHANGED <<control, active, session, kept, head, ring, sample_seq, dropped>>
      /\ UNCHANGED <<frame_seq, sent>> /\ worker.at = "mark"
      /\ start_pending' = (start_pending /\ worker.frame.kind # "start")
      /\ end_pending' = (end_pending /\ worker.frame.kind # "end")
  BY <1>0 DEF Marks, Beside, Shared
<1>2. Due(worker.frame) /\ sent # <<>> /\ sent[Len(sent)] = worker.frame
  BY <1>0, <1>1 DEF StandupTraceInv, WorkInv
<1>3. worker.frame.kind \in {"start", "data", "end"} /\ worker.frame \in TraceFrames
  BY <1>1, <1>t, NaturalState DEF TraceTypes, TraceFrames
<1>4. worker'.at \in {"tail", "end", "idle"}
  BY <1>1, <1>3 DEF AfterFrame, Marks, Moves
<1>5. /\ ~Settling("start")' /\ ~Settling("data")' /\ ~Settling("end")'
  BY <1>4 DEF Settling
<1>6. (Ended' <=> Ended) /\ Sent' = Sent /\ (Ended <=> worker.frame.kind = "end")
  <2>1. sent \in Seq(TraceFrames) BY <1>t DEF TraceTypes
  <2> QED BY <1>1, <1>2, <2>1, LastIsAt DEF Ended, Sent
<1>7. /\ head \in 0 .. RingRecords /\ tail \in 0 .. head /\ head \in Nat /\ tail \in Nat
  BY <1>0, <1>t, NaturalState DEF StandupTraceInv, RingInv
\* The tail moves past what was sent.
<1>8. tail' = Reached /\ tail' \in 0 .. head
  <2>1. CASE worker.frame.kind = "data"
    <3>1. PICK k \in Nat : k = Len(worker.frame.records) /\ k <= head - tail
      BY <1>2, <1>7, <2>1 DEF Due, Batched
    <3>2. tail' = (tail + k) % IndexModulus /\ Reached = tail + k
      BY <1>1, <1>2, <2>1, <3>1 DEF Due, Batched, Marks, Reached, Settling
    <3>3. tail + k \in Nat /\ tail + k <= head BY <1>7, <3>1
    <3>4. RingRecords < IndexModulus /\ IndexModulus \in Nat \ {0} /\ RingRecords \in Nat
      BY TraceConstants
    <3>5. tail + k < IndexModulus BY <1>7, <3>3, <3>4
    <3>6. (tail + k) % IndexModulus = tail + k BY <3>3, <3>4, <3>5, Remainder
    <3> QED BY <1>7, <3>2, <3>3, <3>6
  <2>2. CASE worker.frame.kind # "data"
    <3>1. tail' = tail /\ Reached = tail BY <2>2 DEF Marks, Reached, Settling
    <3> QED BY <1>7, <3>1
  <2> QED BY <2>1, <2>2
<1>9. Reached' = tail' BY <1>5 DEF Reached
<1>10. RingInv' BY <1>0, <1>1, <1>8 DEF RingInv, StandupTraceInv
<1>11. FlagInv'
  <2>1. FlagInv BY DEF StandupTraceInv
  <2>2. control = "mark end" => ~end_pending BY <1>0, <2>1 DEF FlagInv
  <2>3. ~start_pending' BY <1>1, <1>2, <1>3 DEF Due
  <2>4. Ended => tail' = head /\ control = "rest" /\ ~end_pending'
    <3>1. SUFFICES ASSUME Ended PROVE tail' = head /\ control = "rest" /\ ~end_pending' OBVIOUS
    <3>2. tail = head /\ control = "rest" BY <1>0, <2>1, <3>1 DEF FlagInv
    <3>3. worker.frame.kind = "end" BY <1>6, <3>1
    <3>4. tail' = tail BY <3>3 DEF Marks
    <3> QED BY <1>1, <3>2, <3>3, <3>4
  <2> QED BY <1>0, <1>1, <1>2, <1>6, <2>2, <2>3, <2>4 DEF FlagInv
<1>12. SentInv'
  <2>1. Uncounted = 0 /\ Uncounted' = 0 BY <1>1, <1>4 DEF Uncounted
  <2>2. SentInv BY DEF StandupTraceInv
  <2>3. Reached' = Reached BY <1>8, <1>9
  <2> QED BY <1>0, <1>1, <1>6, <2>1, <2>2, <2>3 DEF SentInv
<1>13. WorkInv' BY <1>4 DEF WorkInv
<1> QED BY <1>10, <1>11, <1>12, <1>13 DEF TraceBody

-----------------------------------------------------------------------------
(* What the frames say of the transport's drops *)

LEMMA LostTypes ==
    TraceTypes => /\ tx_dropped \in Nat /\ baseline \in Nat /\ baseline <= tx_dropped
                  /\ worker.frame.lost \in Nat
                  /\ \A i \in DOMAIN sent : sent[i].lost \in Nat
<1> SUFFICES ASSUME TraceTypes
             PROVE  /\ tx_dropped \in Nat /\ baseline \in Nat /\ baseline <= tx_dropped
                    /\ worker.frame.lost \in Nat
                    /\ \A i \in DOMAIN sent : sent[i].lost \in Nat
  OBVIOUS
<1>1. tx_dropped \in Nat /\ worker.frame \in TraceFrames BY NaturalState
<1>2. baseline \in 0 .. tx_dropped /\ sent \in Seq(TraceFrames) BY DEF TraceTypes
<1>3. \A i \in DOMAIN sent : sent[i] \in TraceFrames BY <1>2
<1> QED BY <1>1, <1>2, <1>3 DEF TraceFrames

\* Only a frame that is made changes what the worker's frame says.
LEMMA LostMade ==
    ASSUME StandupTraceInv, TraceBody', TraceWorker,
           NEW kind \in {"start", "data", "end"}, NEW records, Prepares(kind, records)
    PROVE  LostInv'
<1>t. TraceTypes BY DEF StandupTraceInv
<1>0. Beside /\ (Clean' => Clean) BY WorkerIsAwake DEF StandupTraceInv
<1>1. /\ UNCHANGED <<tx_dropped, baseline, spoiled, sent>> /\ reported' = spoiled
      /\ worker'.at = "send" /\ worker'.frame.lost = tx_dropped - baseline
  BY <1>0 DEF Beside, Shared, Prepares, Looks, Makes
<1>2. /\ tx_dropped \in Nat /\ baseline \in Nat /\ baseline <= tx_dropped
      /\ worker.frame.lost \in Nat /\ \A i \in DOMAIN sent : sent[i].lost \in Nat
  BY <1>t, LostTypes
<1>3. spoiled <=> baseline < tx_dropped BY DEF StandupTraceInv, LostInv
<1>4. (spoiled <=> baseline < tx_dropped)' /\ (reported <=> worker.frame.lost > 0)'
  BY <1>1, <1>2, <1>3
<1>5. ASSUME Clean' PROVE \A i \in DOMAIN sent : sent[i].lost <= tx_dropped - baseline
  <2>1. /\ \A i \in DOMAIN sent : sent[i].lost <= worker.frame.lost
        /\ sent # <<>> => worker.frame.lost <= tx_dropped - baseline
    BY <1>0, <1>5 DEF StandupTraceInv, LostInv
  <2>2. \A i \in DOMAIN sent : sent # <<>> OBVIOUS
  <2> QED BY <1>2, <2>1, <2>2
<1>6. Clean' => ~Ended' BY <1>1 DEF TraceBody, WorkInv
<1> QED BY <1>1, <1>2, <1>4, <1>5, <1>6 DEF LostInv

\* The frame that is accepted says at least what those before it say.
LEMMA LostSent == ASSUME StandupTraceInv, TraceWorker, Accepts PROVE LostInv'
<1>t. TraceTypes BY DEF StandupTraceInv
<1>0. Beside /\ (Clean' => Clean) BY WorkerIsAwake DEF StandupTraceInv
<1>1. /\ UNCHANGED <<tx_dropped, baseline, spoiled, reported>>
      /\ worker.at = "send" /\ worker'.frame = worker.frame
      /\ sent' = Append(sent, IF undisturbed THEN worker.frame ELSE NoFrame)
  BY <1>0 DEF Beside, Shared, Accepts, Moves
<1>2. sent \in Seq(TraceFrames) /\ worker.frame \in TraceFrames /\ worker.frame.lost \in Nat
  BY <1>t, NaturalState, LostTypes DEF TraceTypes
<1>3. ASSUME Clean'
      PROVE  /\ \A i \in DOMAIN sent' : sent'[i].lost <= worker.frame.lost
             /\ worker.frame.lost <= tx_dropped - baseline
             /\ Last(sent').lost = worker.frame.lost
  <2>1. sent' = Append(sent, worker.frame) BY <1>0, <1>1, <1>3 DEF Clean
  <2>2. /\ sent' \in Seq(TraceFrames) /\ Len(sent') = Len(sent) + 1
        /\ sent'[Len(sent) + 1] = worker.frame
        /\ \A i \in 1 .. Len(sent) : sent'[i] = sent[i]
    BY <1>2, <2>1, AppendFacts
  <2>3. /\ \A i \in DOMAIN sent : sent[i].lost <= worker.frame.lost
        /\ worker.frame.lost <= tx_dropped - baseline
    BY <1>0, <1>1, <1>3 DEF StandupTraceInv, LostInv
  <2>4. DOMAIN sent = 1 .. Len(sent) /\ DOMAIN sent' = 1 .. Len(sent) + 1 /\ Len(sent) \in Nat
    BY <1>2, <2>2
  <2>5. ASSUME NEW i \in DOMAIN sent' PROVE sent'[i].lost <= worker.frame.lost
    <3>1. CASE i = Len(sent) + 1 BY <1>2, <2>2, <3>1
    <3>2. CASE i # Len(sent) + 1
      <4>1. i \in 1 .. Len(sent) BY <2>4, <3>2
      <4> QED BY <2>2, <2>3, <2>4, <4>1
    <3> QED BY <3>1, <3>2
  <2>6. Last(sent') = worker.frame BY <2>2, LastIsAt
  <2> QED BY <2>3, <2>5, <2>6
<1>4. (spoiled <=> baseline < tx_dropped)' /\ (reported <=> worker.frame.lost > 0)'
  BY <1>1 DEF StandupTraceInv, LostInv
<1> QED BY <1>1, <1>3, <1>4 DEF LostInv

LEMMA LostStep ==
    ASSUME StandupTraceInv, TraceBody', [Next]_vars PROVE LostInv'
<1> USE DEF indices, transport, history
<1>t. TraceTypes BY DEF StandupTraceInv
<1>2. /\ tx_dropped \in Nat /\ baseline \in Nat /\ baseline <= tx_dropped
      /\ worker.frame.lost \in Nat
  BY <1>t, LostTypes
<1>3. LostInv BY DEF StandupTraceInv
\* A step that keeps the frames sent and, unless it rests, the worker's.
<1>q. ASSUME UNCHANGED <<sent, reported>>, worker'.frame = worker.frame,
             Clean' => Clean, worker'.at = "send" => worker.at = "send",
             (spoiled <=> baseline < tx_dropped)',
             Clean' => tx_dropped - baseline <= tx_dropped' - baseline',
             tx_dropped' \in Nat, baseline' \in Nat
      PROVE  LostInv'
  <2>1. Ended' <=> Ended BY <1>q DEF Ended
  <2>2. ASSUME Clean', sent # <<>> \/ worker'.at = "send"
        PROVE  worker.frame.lost <= tx_dropped' - baseline'
    <3>1. worker.frame.lost <= tx_dropped - baseline BY <1>3, <1>q, <2>2 DEF LostInv
    <3> QED BY <1>2, <1>q, <2>2, <3>1
  <2> QED BY <1>3, <1>q, <2>1, <2>2 DEF LostInv
<1>4. CASE StartResetsHead
  <2>1. ~Clean' BY <1>4 DEF StartResetsHead, Clean, SettingUp
  <2> QED BY <1>3, <1>4, <2>1 DEF LostInv, StartResetsHead
<1>5. CASE StartResetsTail
  <2>1. ~Clean' BY <1>5 DEF StartResetsTail, Clean, SettingUp
  <2>2. /\ spoiled' = FALSE /\ baseline' = tx_dropped /\ tx_dropped' = tx_dropped
        /\ UNCHANGED <<worker, reported>>
    BY <1>5 DEF StartResetsTail
  <2>3. ~(baseline' < tx_dropped') BY <1>2, <2>2
  <2> QED BY <1>3, <2>1, <2>2, <2>3 DEF LostInv
<1>6. CASE StartArms
  <2>1. /\ UNCHANGED <<tx_dropped, baseline, spoiled, reported, worker, sent>>
        /\ Clean' => undisturbed /\ control = "arm"
    BY <1>6 DEF StartArms, Clean
  <2>2. Clean' => sent = <<>> /\ worker.at = "idle"
    BY <2>1 DEF StandupTraceInv, RestInv, SettingUp
  <2>3. Clean' => sent' = <<>> /\ worker'.at = "idle" BY <2>1, <2>2
  <2>4. (spoiled <=> baseline < tx_dropped)' /\ (reported <=> worker.frame.lost > 0)'
    BY <1>3, <2>1 DEF LostInv
  <2>5. sent' = <<>> => ~Ended' /\ DOMAIN sent' = {} BY DEF Ended
  <2> QED BY <2>3, <2>4, <2>5 DEF LostInv
<1>7. CASE Record \/ StopsRecording \/ MarksEnd
  <2>1. UNCHANGED <<tx_dropped, baseline, spoiled, reported, worker, sent>>
    <3>1. CASE Record BY <3>1 DEF Record
    <3>2. CASE StopsRecording BY <3>2 DEF StopsRecording
    <3>3. CASE MarksEnd BY <3>3 DEF MarksEnd
    <3> QED BY <1>7, <3>1, <3>2, <3>3
  <2>2. ~SettingUp /\ undisturbed' = undisturbed
    <3>1. CASE Record BY <3>1 DEF Record, SettingUp
    <3>2. CASE StopsRecording BY <3>2 DEF StopsRecording, SettingUp
    <3>3. CASE MarksEnd BY <3>3 DEF MarksEnd, SettingUp
    <3> QED BY <1>7, <3>1, <3>2, <3>3
  <2>3. Clean' => Clean BY <2>2 DEF Clean
  <2> QED BY <1>2, <1>3, <1>q, <2>1, <2>3 DEF LostInv
<1>8. CASE TraceWorker
  <2>f. frame_seq \in Nat BY DEF StandupTraceInv, CountInv
  <2>0. Beside /\ (Clean' => Clean) BY <1>8, WorkerIsAwake DEF StandupTraceInv
  <2>1. UNCHANGED <<tx_dropped, baseline, spoiled>> BY <2>0 DEF Beside, Shared
  <2>2. ASSUME NEW at, Passes(at) PROVE LostInv'
    <3>1. /\ UNCHANGED <<sent, reported>> /\ worker'.frame = worker.frame
          /\ worker'.at # "send"
      BY <2>2 DEF Passes, Looks, Moves
    <3> QED BY <1>2, <1>3, <1>q, <2>0, <2>1, <3>1 DEF LostInv
  <2>3. CASE Counts
    <3>1. UNCHANGED <<sent, reported>> /\ worker'.frame = worker.frame /\ worker'.at # "send"
      BY <2>3 DEF Counts, Moves
    <3> QED BY <1>2, <1>3, <1>q, <2>0, <2>1, <3>1 DEF LostInv
  <2>4. CASE Marks
    <3>1. worker.frame.kind \in {"start", "data", "end"}
      BY <1>t, <2>4, NaturalState DEF TraceTypes, TraceFrames, Marks
    <3>2. UNCHANGED <<sent, reported>> /\ worker'.frame = worker.frame /\ worker'.at # "send"
      BY <2>4, <3>1 DEF Marks, Moves, AfterFrame
    <3> QED BY <1>2, <1>3, <1>q, <2>0, <2>1, <3>2 DEF LostInv
  <2>5. \/ \E at : Passes(at)
        \/ \E kind \in {"start", "data", "end"}, records \in Seq(TraceRecords) :
              Prepares(kind, records)
        \/ Accepts \/ Counts \/ Marks
    BY <1>8, <1>t, <2>f, WorkerStepIs
  <2> QED BY <1>8, <2>2, <2>3, <2>4, <2>5, LostMade, LostSent
<1>9. CASE TransportDrops
  <2>1. /\ UNCHANGED <<baseline, reported, worker, sent>> /\ Clean' = Clean
        /\ tx_dropped' = tx_dropped + 1 /\ spoiled'
    BY <1>9 DEF TransportDrops, Clean, SettingUp
  <2>2. /\ (spoiled <=> baseline < tx_dropped)' /\ tx_dropped' \in Nat /\ baseline' \in Nat
        /\ tx_dropped - baseline <= tx_dropped' - baseline'
    BY <1>2, <2>1
  <2> QED BY <1>q, <2>1, <2>2
<1>10. CASE UNCHANGED vars
  BY <1>3, <1>10 DEF LostInv, vars, Clean, SettingUp, Ended
<1> QED BY <1>4, <1>5, <1>6, <1>7, <1>8, <1>9, <1>10 DEF Next

-----------------------------------------------------------------------------
(* The theorems *)

LEMMA TraceStep == StandupTraceInv /\ [Next]_vars => StandupTraceInv'
<1> SUFFICES ASSUME StandupTraceInv, [Next]_vars PROVE StandupTraceInv' OBVIOUS
<1>0. TraceTypes /\ CountInv /\ RestInv BY DEF StandupTraceInv
<1>1. TraceTypes' /\ CountInv' /\ RestInv' BY <1>0, TraceTypesStep, CountStep, RestStep
<1>2. TraceBody'
  <2>1. CASE StartResetsHead \/ StartResetsTail BY <2>1, SetupStep
  <2>2. CASE StartArms BY <2>2, ArmsStep
  <2>3. CASE Record BY <2>3, RecordStep
  <2>4. CASE StopsRecording \/ MarksEnd BY <2>4, StopStep
  <2>5. CASE TraceWorker
    <3>1. frame_seq \in Nat BY <1>0 DEF CountInv
    <3>2. \/ \E at : Passes(at)
          \/ \E kind \in {"start", "data", "end"}, records \in Seq(TraceRecords) :
                Prepares(kind, records)
          \/ Accepts \/ Counts \/ Marks
      BY <1>0, <2>5, <3>1, WorkerStepIs
    <3> QED BY <2>5, <3>2, PassesStep, PreparesStep, AcceptsStep, CountsStep, MarksStep
  <2>6. CASE TransportDrops \/ UNCHANGED vars
    <3> USE DEF indices, history
    <3>0. /\ UNCHANGED <<control, active, start_pending, end_pending, indices, worker>>
          /\ UNCHANGED <<session, kept, sent, undisturbed>>
      BY <2>6 DEF vars, TransportDrops
    <3> USE <3>0
    <3>1. RingInv' BY DEF RingInv, Clean, SettingUp, StandupTraceInv
    <3>2. FlagInv' BY DEF FlagInv, Clean, SettingUp, Ended, Settling, StandupTraceInv
    <3>3. SentInv'
      BY DEF SentInv, Clean, SettingUp, Sent, Reached, Settling, Uncounted, Ended, StandupTraceInv
    <3>4. WorkInv'
      BY DEF WorkInv, Clean, SettingUp, Due, Batched, Ended, StandupTraceInv
    <3> QED BY <3>1, <3>2, <3>3, <3>4 DEF TraceBody
  <2> QED BY <2>1, <2>2, <2>3, <2>4, <2>5, <2>6 DEF Next
<1>3. LostInv' BY <1>1, <1>2, LostStep
<1> QED BY <1>1, <1>2, <1>3 DEF StandupTraceInv, TraceBody

LEMMA TraceTypesOK == StandupTraceInv => TypeOK
<1> SUFFICES ASSUME StandupTraceInv PROVE TypeOK OBVIOUS
<1>t. TraceTypes BY DEF StandupTraceInv
<1>1. frame_seq \in 0 .. 2 * MaxFrames + 1
  <2>1. MaxFrames \in Nat BY TraceConstants
  <2>2. PICK n \in Nat : n = frame_seq BY DEF StandupTraceInv, CountInv
  <2>3. PICK l \in Nat : l = Len(sent) BY <1>t, LengthIsNatural DEF TraceTypes
  <2>4. PICK u \in {0, 1} : u = Uncounted BY DEF Uncounted
  <2>5. l <= MaxFrames /\ (n + u <= l + 1 \/ n + u <= MaxFrames + l + 1)
    BY <2>2, <2>3, <2>4 DEF StandupTraceInv, CountInv
  <2>6. n <= 2 * MaxFrames + 1 BY <2>1, <2>2, <2>3, <2>4, <2>5
  <2> QED BY <2>1, <2>2, <2>6
<1>2. \A i \in DOMAIN ring : ring[i] \in TraceRecords BY <1>t DEF TraceTypes
<1>3. worker.at \in Stations BY <1>t, NaturalState
<1> QED BY <1>t, <1>1, <1>2, <1>3 DEF TraceTypes, TypeOK, Stations

LEMMA NumberedPrefix ==
    ASSUME NEW s, NEW n \in Nat, NEW k \in 0 .. n PROVE IsPrefix(Numbered(s, k), Numbered(s, n))
<1>1. PICK S : S = [session : {s}, seq : Nat] OBVIOUS
<1>2. ASSUME NEW m \in Nat
      PROVE  /\ Numbered(s, m) \in [1 .. m -> S] /\ Numbered(s, m) \in Seq(S) /\ Len(Numbered(s, m)) = m
             /\ \A i \in 1 .. m : Numbered(s, m)[i] = [session |-> s, seq |-> i - 1]
  <2>1. \A i \in 1 .. m : [session |-> s, seq |-> i - 1] \in S BY <1>1
  <2>2. Numbered(s, m) \in [1 .. m -> S] BY <2>1 DEF Numbered
  <2>3. \A i \in 1 .. m : Numbered(s, m)[i] = [session |-> s, seq |-> i - 1] BY DEF Numbered
  <2> QED BY <2>2, <2>3
<1>3. PICK p, q : p = Numbered(s, k) /\ q = Numbered(s, n) OBVIOUS
<1>4. k \in Nat /\ k <= n OBVIOUS
<1>5. /\ p \in Seq(S) /\ q \in Seq(S) /\ Len(p) = k /\ Len(q) = n
      /\ p \in [1 .. k -> S]
      /\ \A i \in 1 .. k : p[i] = q[i]
  <2>1. /\ p \in Seq(S) /\ Len(p) = k /\ p \in [1 .. k -> S]
        /\ \A i \in 1 .. k : p[i] = [session |-> s, seq |-> i - 1]
    BY <1>2, <1>3, <1>4
  <2>2. /\ q \in Seq(S) /\ Len(q) = n
        /\ \A i \in 1 .. n : q[i] = [session |-> s, seq |-> i - 1]
    BY <1>2, <1>3
  <2>3. \A i \in 1 .. k : i \in 1 .. n BY <1>4
  <2> QED BY <2>1, <2>2, <2>3
<1>6. SubSeq(q, 1, k) = p
  <2>1. SubSeq(q, 1, k) = [i \in 1 .. k |-> q[i]] BY <1>4, <1>5
  <2>2. p = [i \in 1 .. k |-> p[i]] BY <1>5
  <2> QED BY <1>5, <2>1, <2>2
<1> QED BY <1>3, <1>4, <1>5, <1>6 DEF IsPrefix

LEMMA TraceExact == StandupTraceInv => TraceIsExact
<1> SUFFICES ASSUME StandupTraceInv, undisturbed, ~SettingUp
             PROVE  /\ \A i \in DOMAIN sent :
                          /\ sent[i].seq = i - 1
                          /\ sent[i].kind = "start" <=> i = 1
                          /\ sent[i].kind = "end" => i = Len(sent)
                    /\ IsPrefix(Sent, kept)
                    /\ Ended => Sent = kept /\ (Last(sent).dropped > 0 <=> Len(kept) < sample_seq)
  BY DEF TraceIsExact
<1>0. Clean BY DEF Clean
<1>t. TraceTypes BY DEF StandupTraceInv
<1>1. PICK n \in Nat : n = Len(sent) /\ DOMAIN sent = 1 .. n /\ sent \in Seq(TraceFrames)
  <2>1. sent \in Seq(TraceFrames) BY <1>t DEF TraceTypes
  <2> QED BY <2>1
<1>2. /\ FramesOk(sent, n, dropped) /\ Sent = Numbered(session, Reached)
  BY <1>0, <1>1 DEF StandupTraceInv, SentInv
<1>3. /\ head \in Nat /\ tail \in 0 .. head /\ kept = Numbered(session, head)
      /\ sample_seq = dropped + head /\ dropped \in Nat
  BY <1>0, <1>t, NaturalState DEF StandupTraceInv, RingInv
<1>4. Len(kept) = head
  <2>1. kept \in Seq(TraceRecords) /\ DOMAIN kept = 1 .. head
    BY <1>3, <1>t DEF TraceTypes, Numbered
  <2> QED BY <1>3, <2>1
<1>5. ASSUME NEW i \in DOMAIN sent
      PROVE  /\ sent[i].seq = i - 1
             /\ sent[i].kind = "start" <=> i = 1
             /\ sent[i].kind = "end" => i = Len(sent)
  BY <1>1, <1>2 DEF FramesOk, FrameOk
<1>6. Reached \in 0 .. head
  <2>1. CASE Settling("data")
    <3>1. Batched(worker.frame) BY <1>0, <2>1 DEF Settling, StandupTraceInv, WorkInv, Due
    <3>2. PICK k \in Nat : k = Len(worker.frame.records) /\ k <= head - tail
      BY <1>3, <3>1 DEF Batched
    <3> QED BY <1>3, <2>1, <3>2 DEF Reached
  <2>2. CASE ~Settling("data") BY <1>3, <2>2 DEF Reached
  <2> QED BY <2>1, <2>2
<1>7. IsPrefix(Sent, kept) BY <1>2, <1>3, <1>6, NumberedPrefix
<1>8. ASSUME Ended PROVE Sent = kept /\ (Last(sent).dropped > 0 <=> Len(kept) < sample_seq)
  <2>1. tail = head BY <1>0, <1>8 DEF StandupTraceInv, FlagInv
  <2>2. Reached = head
    <3>1. Settling("data") => sent[n] = worker.frame /\ sent[n].kind = "data"
      BY <1>0, <1>1 DEF Settling, StandupTraceInv, WorkInv
    <3>2. sent[n].kind = "end" BY <1>1, <1>8, LastIsAt DEF Ended
    <3>3. ~Settling("data") BY <3>1, <3>2
    <3> QED BY <2>1, <3>3 DEF Reached
  <2>3. Last(sent).dropped = dropped
    <3>1. n \in 1 .. n BY <1>1, <1>8 DEF Ended
    <3>2. sent[n].dropped = dropped BY <1>2, <3>1 DEF FramesOk, FrameOk
    <3> QED BY <1>1, <3>2, LastIsAt
  <2> QED BY <1>2, <1>3, <1>4, <2>2, <2>3
<1> QED BY <1>5, <1>7, <1>8

\* Whatever the control task and the worker do, and in whatever order: the ring
\* of an undisturbed session is filled from the bottom and never goes round, and
\* the frames the worker sent hold the records below the tail.
THEOREM TraceInvariant == Spec => []StandupTraceInv
<1>1. Init => StandupTraceInv BY TraceStarts
<1>2. StandupTraceInv /\ [Next]_vars => StandupTraceInv' BY TraceStep
<1> QED BY <1>1, <1>2, PTL DEF Spec

\* The frames of an undisturbed session are exactly its trace, and the host calls
\* lossless what is complete and nothing else, however frames were lost or cut.
THEOREM TraceCorrect == Spec => []TraceInv
<1>1. StandupTraceInv => TraceInv BY TraceTypesOK, TraceExact, LosslessComplete DEF TraceInv
<1> QED BY <1>1, TraceInvariant, PTL

=============================================================================
