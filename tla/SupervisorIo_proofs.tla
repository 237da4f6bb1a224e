------------------------ MODULE SupervisorIo_proofs ------------------------
(***************************************************************************)
(* Proofs about SupervisorIo for every size of the buffers, the input line *)
(* and the queues, every length and number of lines: a clean line is       *)
(* handled at most once and never lost on the way.  The invariant follows  *)
(* the pieces of a line from the peer through the receive buffer into the  *)
(* input line, source by source.                                           *)
(***************************************************************************)
EXTENDS SupervisorIo, TLAPS

-----------------------------------------------------------------------------
(* The supervisor: what of a line is where, source by source.              *)

LineRecords == [from : Sources, len : Nat \ {0}, clean : BOOLEAN,
                fate : {"sent", "handled", "twice"}]
TextPieces == Nat \X (Nat \cup {Erase})

SupervisorTypes ==
    /\ lines \in Seq(LineRecords)
    /\ typing \in [Sources -> [line : Nat, next : Nat]]
    /\ fresh \in [Sources -> BOOLEAN]
    /\ rx \in [Sources -> Seq(TextPieces)] /\ line \in [Sources -> Seq(TextPieces)]
    /\ \A s \in Sources : Len(rx[s]) <= RxRoom /\ Len(line[s]) <= LineRoom
    /\ queued \in 0 .. QueueDepth /\ waiting \in 0 .. EgressDepth

\* Of a source s: all lines L, its buffer r, its input line l, what it types t
\* and whether it is at a fresh line, f.
Begun(L, s, n) == n \in DOMAIN L /\ L[n].from = s

\* Pieces follow each other in the order of their lines, a newline is the last of
\* its line, and only the first piece of a buffer can be a backspace.
PiecesInOrder(L, s, r, l) ==
    /\ \A i \in DOMAIN r : Begun(L, s, r[i][1]) /\ (r[i][2] = Erase => i = 1)
    /\ \A i \in DOMAIN l : Begun(L, s, l[i][1]) /\ l[i][2] > 0
    /\ \A i \in DOMAIN l, j \in DOMAIN r : l[i][1] <= r[j][1]
    /\ \A i, j \in DOMAIN r : i < j => r[i][1] <= r[j][1] /\ (r[i][2] = 0 => r[i][1] < r[j][1])

\* What is being typed comes after all there is.
TypedLast(L, s, r, l, t) ==
    t.line # 0 =>
        /\ Begun(L, s, t.line) /\ t.next \in 1 .. L[t.line].len + 1
        /\ \A i \in DOMAIN l : l[i][1] <= t.line
        /\ \A i \in DOMAIN r : r[i][1] <= t.line /\ (r[i][2] = 0 => r[i][1] < t.line)

\* Of a line that was handled nothing is left.
HandledGone(L, s, r, l, t) ==
    \A n \in DOMAIN L : L[n].from = s /\ L[n].fate # "sent" =>
        /\ L[n].fate = "handled"
        /\ t.line # 0 => n < t.line
        /\ \A i \in DOMAIN l : n < l[i][1]
        /\ \A i \in DOMAIN r : n < r[i][1]

FreshIsFresh(r, l, f) == f => IF r = <<>> THEN l = <<>> ELSE r[Len(r)][2] = 0

\* The first k pieces of line n end at place j of the buffer: they begin behind a
\* newline, or in the input line, whose last piece a backspace may take away.
Behind(r, n, j, k) ==
    \E b \in 1 .. j : r[b][2] = 0 /\ j = b + k /\ \A q \in 1 .. k : r[b + q] = <<n, q>>
Erasing(r) == IF r # <<>> /\ r[1][2] = Erase THEN 1 ELSE 0
Leading(r, l, n, j, k) ==
    /\ Erasing(r) <= j /\ Erasing(r) <= Len(l)
    /\ Len(l) + j = k + 2 * Erasing(r)
    /\ \A q \in 1 .. Len(l) : l[q] = <<n, q>>
    /\ \A q \in Erasing(r) + 1 .. j : r[q] = <<n, Len(l) + q - 2 * Erasing(r)>>
HeldTo(r, l, n, j, k) == Behind(r, n, j, k) \/ Leading(r, l, n, j, k)

\* A clean line is there as far as it was typed.
CleanIsThere(L, s, r, l, t) ==
    \A n \in DOMAIN L : L[n].from = s /\ L[n].clean /\ L[n].fate = "sent" =>
        /\ L[n].len <= LineRoom
        /\ \/ t.line = n /\ HeldTo(r, l, n, Len(r), t.next - 1)
           \/ \E j \in 1 .. Len(r) : r[j] = <<n, 0>> /\ HeldTo(r, l, n, j - 1, L[n].len)

SourceInv(L, s, r, l, t, f) ==
    /\ PiecesInOrder(L, s, r, l) /\ TypedLast(L, s, r, l, t) /\ HandledGone(L, s, r, l, t)
    /\ FreshIsFresh(r, l, f) /\ CleanIsThere(L, s, r, l, t)

SupervisorInv ==
    /\ SupervisorTypes
    /\ \A s \in Sources : SourceInv(lines, s, rx[s], line[s], typing[s], fresh[s])

LEMMA LineFacts ==
    ASSUME NEW L \in Seq(LineRecords), NEW n \in DOMAIN L
    PROVE  L[n] \in LineRecords /\ L[n].len \in Nat /\ L[n].len # 0 /\ n \in Nat /\ n # 0
<1>1. L[n] \in LineRecords /\ n \in Nat /\ n # 0 OBVIOUS
<1> QED BY <1>1 DEF LineRecords

\* From L to M nothing happens to the lines of s.
Untouched(L, M, s) ==
    /\ DOMAIN L \subseteq DOMAIN M
    /\ \A n \in DOMAIN L : M[n].from = L[n].from /\ (L[n].from = s => M[n] = L[n])
    /\ \A n \in DOMAIN M \ DOMAIN L : M[n].from # s

\* The lines of the other source are its own affair.
LEMMA OtherLines ==
    ASSUME NEW L, NEW M, NEW s, NEW r, NEW l, NEW t, NEW f,
           SourceInv(L, s, r, l, t, f), Untouched(L, M, s)
    PROVE  SourceInv(M, s, r, l, t, f)
<1>1. \A n : Begun(L, s, n) => Begun(M, s, n) /\ M[n] = L[n] BY DEF Begun, Untouched
<1>2. \A n : Begun(M, s, n) => Begun(L, s, n) BY DEF Begun, Untouched
<1>3. PiecesInOrder(M, s, r, l) BY <1>1 DEF SourceInv, PiecesInOrder
<1>4. TypedLast(M, s, r, l, t) BY <1>1 DEF SourceInv, TypedLast
<1>5. HandledGone(M, s, r, l, t) BY <1>1, <1>2 DEF SourceInv, HandledGone, Begun
<1>6. CleanIsThere(M, s, r, l, t) BY <1>1, <1>2 DEF SourceInv, CleanIsThere, Begun
<1> QED BY <1>3, <1>4, <1>5, <1>6 DEF SourceInv

Spoiled(L, n) == [L EXCEPT ![n].clean = FALSE]

\* A source whose line is spoiled, which may end its typing.
LEMMA SpoiledLine ==
    ASSUME NEW L \in Seq(LineRecords), NEW s \in Sources, NEW r \in Seq(TextPieces),
           NEW l \in Seq(TextPieces), NEW t \in [line : Nat, next : Nat], NEW f \in BOOLEAN,
           NEW u \in [line : Nat, next : Nat],
           SourceInv(L, s, r, l, t, f), t.line # 0,
           u.line = 0 \/ (u.line = t.line /\ u.next \in 1 .. L[t.line].len + 1)
    PROVE  SourceInv(Spoiled(L, t.line), s, r, l, u, f)
<1> DEFINE M == Spoiled(L, t.line)
<1>1. t.line \in DOMAIN L BY DEF SourceInv, TypedLast, Begun
<1>2. /\ DOMAIN M = DOMAIN L
      /\ \A n \in DOMAIN L : M[n].from = L[n].from /\ M[n].len = L[n].len /\ M[n].fate = L[n].fate
      /\ M[t.line].clean = FALSE
      /\ \A n \in DOMAIN L \ {t.line} : M[n] = L[n]
  <2>1. DOMAIN M = DOMAIN L /\ \A n \in DOMAIN L \ {t.line} : M[n] = L[n] BY DEF Spoiled
  <2>2. L[t.line] \in LineRecords BY <1>1
  <2>3. M[t.line] = [L[t.line] EXCEPT !.clean = FALSE] BY <1>1 DEF Spoiled
  <2>4. /\ M[t.line].from = L[t.line].from /\ M[t.line].len = L[t.line].len
        /\ M[t.line].fate = L[t.line].fate /\ M[t.line].clean = FALSE
    BY <2>2, <2>3 DEF LineRecords
  <2> HIDE DEF M
  <2> QED BY <2>1, <2>4
<1> HIDE DEF M
<1>3. PiecesInOrder(M, s, r, l) BY <1>2 DEF SourceInv, PiecesInOrder, Begun
<1>4. TypedLast(M, s, r, l, u) BY <1>2 DEF SourceInv, TypedLast, Begun
<1>5. HandledGone(M, s, r, l, u) BY <1>2 DEF SourceInv, HandledGone
<1>6. CleanIsThere(M, s, r, l, u)
  <2> SUFFICES ASSUME NEW n \in DOMAIN L, L[n].from = s, M[n].clean, L[n].fate = "sent"
               PROVE  /\ M[n].len <= LineRoom
                      /\ \/ u.line = n /\ HeldTo(r, l, n, Len(r), u.next - 1)
                         \/ \E j \in 1 .. Len(r) : r[j] = <<n, 0>> /\ HeldTo(r, l, n, j - 1, M[n].len)
    BY <1>2 DEF CleanIsThere
  <2>1. n # t.line BY <1>2
  <2>2. M[n] = L[n] BY <1>2, <2>1
  <2> QED BY <2>1, <2>2 DEF SourceInv, CleanIsThere
<1> QED BY <1>3, <1>4, <1>5, <1>6 DEF SourceInv, M

\* A source begins a line.
LEMMA StartedLine ==
    ASSUME NEW L \in Seq(LineRecords), NEW s \in Sources, NEW r \in Seq(TextPieces),
           NEW l \in Seq(TextPieces), NEW t \in [line : Nat, next : Nat], NEW f \in BOOLEAN,
           SourceInv(L, s, r, l, t, f), t.line = 0, NEW len \in Nat \ {0}
    PROVE  SourceInv(Append(L, [from |-> s, len |-> len, clean |-> f /\ len <= LineRoom,
                                fate |-> "sent"]),
                     s, r, l, [line |-> Len(L) + 1, next |-> 1], f)
<1> DEFINE N == Len(L) + 1
           M == Append(L, [from |-> s, len |-> len, clean |-> f /\ len <= LineRoom, fate |-> "sent"])
           u == [line |-> N, next |-> 1]
<1>0. PICK rec : rec = [from |-> s, len |-> len, clean |-> f /\ len <= LineRoom, fate |-> "sent"]
  OBVIOUS
<1>1. /\ N \in Nat /\ N # 0 /\ DOMAIN L = 1 .. N - 1 /\ DOMAIN M = 1 .. N
      /\ \A n \in DOMAIN L : M[n] = L[n]
      /\ M[N].from = s /\ M[N].len = len /\ M[N].fate = "sent"
      /\ M[N].clean <=> f /\ len <= LineRoom
      /\ u.line = N /\ u.next = 1
  <2>1. M = Append(L, rec) BY <1>0
  <2>2. /\ N \in Nat /\ N # 0 /\ DOMAIN L = 1 .. N - 1 OBVIOUS
  <2>3. /\ DOMAIN M = 1 .. N /\ M[N] = rec
        /\ \A n \in DOMAIN L : M[n] = L[n]
    <3> HIDE DEF M
    <3> QED BY <2>1
  <2>4. rec.from = s /\ rec.len = len /\ rec.fate = "sent" /\ rec.clean = (f /\ len <= LineRoom)
    BY <1>0
  <2> HIDE DEF M, N
  <2> QED BY <2>2, <2>3, <2>4
<1> HIDE DEF N, M, u
<1>2. \A n : Begun(L, s, n) => Begun(M, s, n) /\ M[n] = L[n] /\ n < N /\ n \in Nat
  BY <1>1 DEF Begun
<1>3. PiecesInOrder(M, s, r, l) BY <1>2 DEF SourceInv, PiecesInOrder
<1>4. TypedLast(M, s, r, l, u)
  <2>1. Begun(M, s, N) /\ 1 \in 1 .. M[N].len + 1 BY <1>1 DEF Begun
  <2>2. \A i \in DOMAIN l : l[i][1] <= N BY <1>1, <1>2 DEF SourceInv, PiecesInOrder
  <2>3. \A i \in DOMAIN r : r[i][1] <= N /\ r[i][1] < N BY <1>1, <1>2 DEF SourceInv, PiecesInOrder
  <2> QED BY <1>1, <2>1, <2>2, <2>3 DEF TypedLast
<1>5. HandledGone(M, s, r, l, u)
  <2> SUFFICES ASSUME NEW n \in DOMAIN M, M[n].from = s, M[n].fate # "sent"
               PROVE  /\ M[n].fate = "handled" /\ n < N
                      /\ \A i \in DOMAIN l : n < l[i][1]
                      /\ \A i \in DOMAIN r : n < r[i][1]
    BY <1>1 DEF HandledGone
  <2>1. n \in DOMAIN L /\ M[n] = L[n] /\ n < N BY <1>1
  <2> QED BY <2>1 DEF SourceInv, HandledGone
<1>6. CleanIsThere(M, s, r, l, u)
  <2> SUFFICES ASSUME NEW n \in DOMAIN M, M[n].from = s, M[n].clean, M[n].fate = "sent"
               PROVE  /\ M[n].len <= LineRoom
                      /\ \/ u.line = n /\ HeldTo(r, l, n, Len(r), u.next - 1)
                         \/ \E j \in 1 .. Len(r) : r[j] = <<n, 0>> /\ HeldTo(r, l, n, j - 1, M[n].len)
    BY DEF CleanIsThere
  <2>1. CASE n = N
    <3>1. f /\ len <= LineRoom BY <1>1, <2>1
    <3>2. CASE r = <<>>
      <4>1. l = <<>> BY <3>1, <3>2 DEF SourceInv, FreshIsFresh
      <4>2. Leading(r, l, n, Len(r), 0) BY <3>2, <4>1 DEF Leading, Erasing
      <4> QED BY <1>1, <2>1, <3>1, <4>2 DEF HeldTo
    <3>3. CASE r # <<>>
      <4>1. r[Len(r)][2] = 0 /\ Len(r) \in 1 .. Len(r) /\ Len(r) = Len(r) + 0
        BY <3>1, <3>3 DEF SourceInv, FreshIsFresh
      <4>2. \A q \in 1 .. 0 : r[Len(r) + q] = <<n, q>> OBVIOUS
      <4>3. Behind(r, n, Len(r), 0) BY <4>1, <4>2, Zenon DEF Behind
      <4> QED BY <1>1, <2>1, <3>1, <4>3 DEF HeldTo
    <3> QED BY <3>2, <3>3
  <2>2. CASE n # N
    <3>1. n \in DOMAIN L /\ M[n] = L[n] /\ n # 0 BY <1>1, <2>2
    <3> QED BY <3>1 DEF SourceInv, CleanIsThere
  <2> QED BY <2>1, <2>2
<1> QED BY <1>3, <1>4, <1>5, <1>6 DEF SourceInv, M, N, u

LEMMA AppendFacts ==
    ASSUME NEW r \in Seq(TextPieces), NEW x \in TextPieces
    PROVE  /\ Append(r, x) \in Seq(TextPieces) /\ Append(r, x) # <<>>
           /\ Len(r) \in Nat /\ Len(Append(r, x)) = Len(r) + 1
           /\ DOMAIN r = 1 .. Len(r) /\ DOMAIN Append(r, x) = 1 .. Len(r) + 1
           /\ \A i \in 1 .. Len(r) : Append(r, x)[i] = r[i]
           /\ Append(r, x)[Len(r) + 1] = x
           /\ r # <<>> => Append(r, x)[1] = r[1]
           /\ r = <<>> => Append(r, x)[1] = x /\ Len(r) = 0
           /\ r # <<>> => Len(r) > 0
  OBVIOUS

\* What is held stays held when something follows.
LEMMA HeldGrows ==
    ASSUME NEW r \in Seq(TextPieces), NEW x \in TextPieces, NEW l, NEW n, NEW k \in Nat,
           NEW j \in 0 .. Len(r), HeldTo(r, l, n, j, k), r # <<>> \/ x[2] # Erase
    PROVE  HeldTo(Append(r, x), l, n, j, k)
<1> DEFINE y == Append(r, x)
<1>1. \A i \in 1 .. j : y[i] = r[i] BY AppendFacts
<1>2. Erasing(y) = Erasing(r) BY AppendFacts DEF Erasing
<1>3. j \in Nat BY AppendFacts
<1> HIDE DEF y
<1>4. CASE Behind(r, n, j, k)
  <2>1. PICK b \in 1 .. j : r[b][2] = 0 /\ j = b + k /\ \A q \in 1 .. k : r[b + q] = <<n, q>>
    BY <1>4 DEF Behind
  <2>2. y[b][2] = 0 BY <1>1, <2>1
  <2>3. ASSUME NEW q \in 1 .. k PROVE y[b + q] = <<n, q>>
    <3>1. b + q \in 1 .. j BY <1>3, <2>1
    <3> QED BY <1>1, <2>1, <3>1
  <2>4. Behind(y, n, j, k) BY <2>1, <2>2, <2>3 DEF Behind
  <2> QED BY <2>4 DEF HeldTo, y
<1>5. CASE Leading(r, l, n, j, k)
  <2>1. \A q \in Erasing(r) + 1 .. j : q \in 1 .. j BY <1>3 DEF Erasing
  <2>2. Leading(y, l, n, j, k) BY <1>1, <1>2, <1>5, <2>1 DEF Leading
  <2> QED BY <2>2 DEF HeldTo, y
<1> QED BY <1>4, <1>5 DEF HeldTo

\* The next piece of a line that is held to the end extends it.
LEMMA HeldExtends ==
    ASSUME NEW r \in Seq(TextPieces), NEW n \in Nat, NEW k \in Nat, NEW l \in Seq(TextPieces),
           HeldTo(r, l, n, Len(r), k)
    PROVE  HeldTo(Append(r, <<n, k + 1>>), l, n, Len(r) + 1, k + 1)
<1> DEFINE x == <<n, k + 1>>
           y == Append(r, x)
<1>0. x \in TextPieces /\ x[2] # Erase BY DEF TextPieces, Erase
<1>1. /\ \A i \in 1 .. Len(r) : y[i] = r[i]
      /\ y[Len(r) + 1] = x /\ Len(r) \in Nat
  BY <1>0, AppendFacts
<1>2. Erasing(y) = Erasing(r) BY <1>0, AppendFacts DEF Erasing
<1> HIDE DEF y
<1>3. CASE Behind(r, n, Len(r), k)
  <2>1. PICK b \in 1 .. Len(r) :
          r[b][2] = 0 /\ Len(r) = b + k /\ \A q \in 1 .. k : r[b + q] = <<n, q>>
    BY <1>3 DEF Behind
  <2>2. y[b][2] = 0 /\ b \in 1 .. Len(r) + 1 /\ Len(r) + 1 = b + (k + 1) BY <1>1, <2>1
  <2>3. ASSUME NEW q \in 1 .. k + 1 PROVE y[b + q] = <<n, q>>
    <3>1. CASE q = k + 1 BY <1>1, <2>1, <3>1
    <3>2. CASE q \in 1 .. k
      <4>1. b + q \in 1 .. Len(r) BY <1>1, <2>1, <3>2
      <4> QED BY <1>1, <2>1, <3>2, <4>1
    <3> QED BY <3>1, <3>2
  <2>4. Behind(y, n, Len(r) + 1, k + 1) BY <2>2, <2>3 DEF Behind
  <2> QED BY <2>4 DEF HeldTo, y
<1>4. CASE Leading(r, l, n, Len(r), k)
  <2>1. Erasing(r) \in {0, 1} BY DEF Erasing
  <2>2. Len(l) \in Nat /\ Len(l) + Len(r) = k + 2 * Erasing(r) /\ Erasing(r) <= Len(r)
        /\ Erasing(r) <= Len(l)
    BY <1>4 DEF Leading
  <2>3. ASSUME NEW q \in Erasing(r) + 1 .. Len(r) + 1
        PROVE  y[q] = <<n, Len(l) + q - 2 * Erasing(r)>>
    <3>1. CASE q = Len(r) + 1
      <4>1. Len(l) + q - 2 * Erasing(r) = k + 1 BY <1>1, <2>1, <2>2, <3>1
      <4> QED BY <1>1, <3>1, <4>1
    <3>2. CASE q # Len(r) + 1
      <4>1. q \in Erasing(r) + 1 .. Len(r) /\ q \in 1 .. Len(r) BY <1>1, <2>1, <3>2
      <4> QED BY <1>1, <1>4, <4>1 DEF Leading
    <3> QED BY <3>1, <3>2
  <2>4. Len(l) + (Len(r) + 1) = (k + 1) + 2 * Erasing(r) /\ Erasing(r) <= Len(r) + 1
    <3>1. PICK e \in {0, 1} : e = Erasing(r) BY <2>1
    <3>2. Len(r) \in Nat BY <1>1
    <3>3. Len(l) + Len(r) = k + 2 * e /\ Len(l) \in Nat BY <2>2, <3>1
    <3>4. Len(l) + (Len(r) + 1) = (k + 1) + 2 * e /\ e <= Len(r) + 1 BY <3>2, <3>3
    <3> QED BY <3>1, <3>4
  <2>5. Leading(y, l, n, Len(r) + 1, k + 1)
    BY <1>2, <1>4, <2>2, <2>3, <2>4 DEF Leading
  <2> QED BY <2>5 DEF HeldTo, y
<1> QED BY <1>3, <1>4 DEF HeldTo

\* A piece that is taken keeps the order.
LEMMA TakenInOrder ==
    ASSUME NEW L \in Seq(LineRecords), NEW s \in Sources, NEW r \in Seq(TextPieces),
           NEW l \in Seq(TextPieces), NEW t \in [line : Nat, next : Nat], NEW f \in BOOLEAN,
           NEW u \in [line : Nat, next : Nat], NEW p \in Nat \cup {Erase},
           SourceInv(L, s, r, l, t, f), t.line # 0,
           p = Erase => r = <<>>,
           u.line = 0 \/ (u.line = t.line /\ u.next \in 1 .. L[t.line].len + 1 /\ p # 0)
    PROVE  LET y == Append(r, <<t.line, p>>) IN
           /\ PiecesInOrder(L, s, y, l) /\ TypedLast(L, s, y, l, u) /\ HandledGone(L, s, y, l, u)
           /\ FreshIsFresh(y, l, p = 0)
<1> DEFINE x == <<t.line, p>>
           y == Append(r, x)
<1>0. x \in TextPieces /\ x[1] = t.line /\ x[2] = p BY DEF TextPieces
<1>1. /\ DOMAIN r = 1 .. Len(r) /\ DOMAIN y = 1 .. Len(r) + 1
      /\ \A i \in 1 .. Len(r) : y[i] = r[i]
      /\ y[Len(r) + 1] = x /\ Len(r) \in Nat /\ Len(y) = Len(r) + 1 /\ y # <<>>
      /\ r = <<>> => Len(r) = 0
  BY <1>0, AppendFacts, Zenon
<1> HIDE DEF x, y
<1>2. \A i \in DOMAIN y : (i \in DOMAIN r /\ i < Len(r) + 1 /\ y[i] = r[i]) \/ (i = Len(r) + 1 /\ y[i] = x)
  BY <1>1
<1>3. /\ Begun(L, s, t.line) /\ \A i \in DOMAIN l : l[i][1] <= t.line
      /\ \A i \in DOMAIN r : r[i][1] <= t.line /\ (r[i][2] = 0 => r[i][1] < t.line)
  BY DEF SourceInv, TypedLast
<1>4. PiecesInOrder(L, s, r, l) /\ HandledGone(L, s, r, l, t) BY DEF SourceInv
<1>5. PiecesInOrder(L, s, y, l)
  <2>1. \A i \in DOMAIN y : Begun(L, s, y[i][1]) /\ (y[i][2] = Erase => i = 1)
    BY <1>0, <1>1, <1>2, <1>3, <1>4 DEF PiecesInOrder
  <2>2. \A i \in DOMAIN l, j \in DOMAIN y : l[i][1] <= y[j][1]
    BY <1>0, <1>2, <1>3, <1>4 DEF PiecesInOrder
  <2>3. ASSUME NEW i \in DOMAIN y, NEW j \in DOMAIN y, i < j
        PROVE  y[i][1] <= y[j][1] /\ (y[i][2] = 0 => y[i][1] < y[j][1])
    <3>1. i \in DOMAIN r /\ y[i] = r[i] BY <1>1, <2>3
    <3>2. CASE j \in DOMAIN r /\ y[j] = r[j] BY <1>4, <2>3, <3>1, <3>2 DEF PiecesInOrder
    <3>3. CASE y[j] = x BY <1>0, <1>3, <3>1, <3>3
    <3> QED BY <1>2, <3>2, <3>3
  <2> QED BY <1>4, <2>1, <2>2, <2>3 DEF PiecesInOrder
<1>6. TypedLast(L, s, y, l, u)
  <2> SUFFICES ASSUME u.line = t.line, u.next \in 1 .. L[t.line].len + 1, p # 0
               PROVE  TypedLast(L, s, y, l, u)
    BY DEF TypedLast
  <2>1. \A i \in DOMAIN y : y[i][1] <= t.line /\ (y[i][2] = 0 => y[i][1] < t.line)
    BY <1>0, <1>2, <1>3
  <2> QED BY <1>3, <2>1 DEF TypedLast
<1>7. HandledGone(L, s, y, l, u)
  <2> SUFFICES ASSUME NEW n \in DOMAIN L, L[n].from = s, L[n].fate # "sent"
               PROVE  /\ L[n].fate = "handled"
                      /\ u.line # 0 => n < u.line
                      /\ \A i \in DOMAIN l : n < l[i][1]
                      /\ \A i \in DOMAIN y : n < y[i][1]
    BY DEF HandledGone
  <2>1. /\ L[n].fate = "handled" /\ n < t.line
        /\ \A i \in DOMAIN l : n < l[i][1]
        /\ \A i \in DOMAIN r : n < r[i][1]
    BY <1>4 DEF HandledGone
  <2> QED BY <1>0, <1>2, <2>1
<1>8. FreshIsFresh(y, l, p = 0) BY <1>0, <1>1 DEF FreshIsFresh
<1> QED BY <1>5, <1>6, <1>7, <1>8 DEF x, y

\* Every other clean line is where it was.
LEMMA TakenOthers ==
    ASSUME NEW L \in Seq(LineRecords), NEW s \in Sources, NEW r \in Seq(TextPieces),
           NEW l \in Seq(TextPieces), NEW t \in [line : Nat, next : Nat],
           NEW p \in Nat \cup {Erase}, CleanIsThere(L, s, r, l, t), r = <<>> \/ p # Erase,
           NEW n \in DOMAIN L, n # t.line, L[n].from = s, L[n].clean, L[n].fate = "sent"
    PROVE  /\ L[n].len <= LineRoom
           /\ \E j \in 1 .. Len(Append(r, <<t.line, p>>)) :
                 /\ Append(r, <<t.line, p>>)[j] = <<n, 0>>
                 /\ HeldTo(Append(r, <<t.line, p>>), l, n, j - 1, L[n].len)
<1>1. /\ L[n].len <= LineRoom
      /\ \E j \in 1 .. Len(r) : r[j] = <<n, 0>> /\ HeldTo(r, l, n, j - 1, L[n].len)
  BY DEF CleanIsThere
<1>2. PICK j \in 1 .. Len(r) : r[j] = <<n, 0>> /\ HeldTo(r, l, n, j - 1, L[n].len) BY <1>1
<1>3. r # <<>> /\ j - 1 \in 0 .. Len(r) BY <1>2
<1>4. L[n].len \in Nat BY LineFacts
<1>5. PICK x \in TextPieces : x = <<t.line, p>> /\ x[2] # Erase
  <2>1. <<t.line, p>> \in TextPieces BY DEF TextPieces
  <2>2. <<t.line, p>>[2] # Erase BY <1>3
  <2> QED BY <2>1, <2>2
<1>6. HeldTo(Append(r, x), l, n, j - 1, L[n].len) BY <1>2, <1>3, <1>4, <1>5, HeldGrows
<1>7. Append(r, x)[j] = <<n, 0>> /\ j \in 1 .. Len(Append(r, x)) BY <1>2, AppendFacts
<1> QED BY <1>1, <1>5, <1>6, <1>7

\* The next piece of the line that is typed is taken.
LEMMA PieceTaken ==
    ASSUME NEW L \in Seq(LineRecords), NEW s \in Sources, NEW r \in Seq(TextPieces),
           NEW l \in Seq(TextPieces), NEW t \in [line : Nat, next : Nat], NEW f \in BOOLEAN,
           SourceInv(L, s, r, l, t, f), t.line # 0, t.next <= L[t.line].len
    PROVE  SourceInv(L, s, Append(r, <<t.line, t.next>>), l, [t EXCEPT !.next = @ + 1], FALSE)
<1> DEFINE x == <<t.line, t.next>>
           y == Append(r, x)
           u == [t EXCEPT !.next = @ + 1]
<1>a. CleanIsThere(L, s, r, l, t) BY DEF SourceInv
<1>1. /\ x \in TextPieces /\ t.next \in Nat \cup {Erase} /\ t.next # Erase /\ t.next # 0
      /\ t.line \in DOMAIN L /\ t.next \in Nat /\ t.next - 1 \in Nat /\ x[2] # Erase
  BY DEF SourceInv, TypedLast, Begun, TextPieces, Erase
<1>2. u \in [line : Nat, next : Nat] /\ u.line = t.line /\ u.next = t.next + 1
  <2>1. t.next + 1 \in Nat BY <1>1
  <2> QED BY <2>1
<1>3. L[t.line].len \in Nat BY <1>1, LineFacts
<1>4. u.next \in 1 .. L[t.line].len + 1 BY <1>1, <1>2, <1>3
<1> HIDE DEF u
<1>5. /\ PiecesInOrder(L, s, y, l) /\ TypedLast(L, s, y, l, u) /\ HandledGone(L, s, y, l, u)
  BY <1>1, <1>2, <1>4, TakenInOrder
<1>6. FreshIsFresh(y, l, FALSE) BY DEF FreshIsFresh
<1>7. CleanIsThere(L, s, y, l, u)
  <2> SUFFICES ASSUME NEW n \in DOMAIN L, L[n].from = s, L[n].clean, L[n].fate = "sent"
               PROVE  /\ L[n].len <= LineRoom
                      /\ \/ u.line = n /\ HeldTo(y, l, n, Len(y), u.next - 1)
                         \/ \E j \in 1 .. Len(y) : y[j] = <<n, 0>> /\ HeldTo(y, l, n, j - 1, L[n].len)
    BY DEF CleanIsThere
  <2>0. Len(y) = Len(r) + 1 BY <1>1, AppendFacts
  <2>1. CASE n # t.line
    <3>1. /\ L[n].len <= LineRoom
          /\ \E j \in 1 .. Len(y) : y[j] = <<n, 0>> /\ HeldTo(y, l, n, j - 1, L[n].len)
      BY <1>1, <1>a, <2>1, TakenOthers
    <3> HIDE DEF y
    <3> QED BY <3>1
  <2>2. CASE n = t.line
    <3>1. L[n].len <= LineRoom /\ HeldTo(r, l, n, Len(r), t.next - 1)
      <4>1. ~ \E j \in 1 .. Len(r) : r[j] = <<n, 0>>
        BY <1>1, <2>2 DEF SourceInv, TypedLast
      <4> QED BY <4>1 DEF SourceInv, CleanIsThere
    <3>2. x = <<n, (t.next - 1) + 1>> BY <1>1, <2>2
    <3>3. n \in Nat BY <2>2
    <3>4. HeldTo(y, l, n, Len(r) + 1, (t.next - 1) + 1)
      BY <1>1, <3>1, <3>2, <3>3, HeldExtends
    <3>5. (t.next - 1) + 1 = u.next - 1 BY <1>1, <1>2
    <3> QED BY <1>2, <2>0, <2>2, <3>1, <3>4, <3>5
  <2> QED BY <2>1, <2>2
<1> QED BY <1>5, <1>6, <1>7 DEF SourceInv, u

\* The newline of the line that is typed is taken.
LEMMA NewlineTaken ==
    ASSUME NEW L \in Seq(LineRecords), NEW s \in Sources, NEW r \in Seq(TextPieces),
           NEW l \in Seq(TextPieces), NEW t \in [line : Nat, next : Nat], NEW f \in BOOLEAN,
           SourceInv(L, s, r, l, t, f), t.line # 0, t.next > L[t.line].len
    PROVE  SourceInv(L, s, Append(r, <<t.line, 0>>), l, Nothing, TRUE)
<1> DEFINE x == <<t.line, 0>>
           y == Append(r, x)
<1>a. CleanIsThere(L, s, r, l, t) BY DEF SourceInv
<1>1. x \in TextPieces /\ x[2] # Erase /\ 0 \in Nat \cup {Erase} /\ 0 # Erase /\ t.line \in DOMAIN L /\ t.next \in 1 .. L[t.line].len + 1
  BY DEF SourceInv, TypedLast, Begun, TextPieces, Erase
<1>2. Nothing \in [line : Nat, next : Nat] /\ Nothing.line = 0 /\ 0 \in Nat \cup {Erase} BY DEF Nothing
<1>3. L[t.line].len \in Nat BY <1>1, LineFacts
<1>4. t.next - 1 = L[t.line].len BY <1>1, <1>3
<1>5. /\ PiecesInOrder(L, s, y, l) /\ TypedLast(L, s, y, l, Nothing)
      /\ HandledGone(L, s, y, l, Nothing) /\ FreshIsFresh(y, l, 0 = 0)
  BY <1>2, TakenInOrder DEF Erase
<1>6. FreshIsFresh(y, l, TRUE) BY <1>5
<1>7. CleanIsThere(L, s, y, l, Nothing)
  <2> SUFFICES ASSUME NEW n \in DOMAIN L, L[n].from = s, L[n].clean, L[n].fate = "sent"
               PROVE  /\ L[n].len <= LineRoom
                      /\ \E j \in 1 .. Len(y) : y[j] = <<n, 0>> /\ HeldTo(y, l, n, j - 1, L[n].len)
    BY DEF CleanIsThere
  <2>0. Len(y) = Len(r) + 1 /\ Len(r) \in Nat /\ y[Len(r) + 1] = x BY <1>1, AppendFacts
  <2>1. CASE n # t.line
    BY <1>1, <1>a, <2>1, TakenOthers
  <2>2. CASE n = t.line
    <3>1. L[n].len <= LineRoom /\ HeldTo(r, l, n, Len(r), t.next - 1)
      <4>1. ~ \E j \in 1 .. Len(r) : r[j] = <<n, 0>>
        BY <1>1, <2>2 DEF SourceInv, TypedLast
      <4> QED BY <4>1 DEF SourceInv, CleanIsThere
    <3>2. HeldTo(r, l, n, Len(r), L[n].len) BY <1>4, <2>2, <3>1
    <3>3. Len(r) \in 0 .. Len(r) /\ L[n].len \in Nat BY <1>3, <2>0, <2>2
    <3>4. HeldTo(y, l, n, Len(r), L[n].len) BY <1>1, <3>2, <3>3, HeldGrows
    <3>5. (Len(r) + 1) - 1 = Len(r) /\ Len(r) + 1 \in 1 .. Len(y) BY <2>0
    <3> HIDE DEF y
    <3> QED BY <2>0, <2>2, <3>1, <3>4, <3>5
  <2> QED BY <2>1, <2>2
<1> QED BY <1>5, <1>6, <1>7 DEF SourceInv

\* A backspace is taken into an empty buffer.
LEMMA BackspaceTaken ==
    ASSUME NEW L \in Seq(LineRecords), NEW s \in Sources,
           NEW l \in Seq(TextPieces), NEW t \in [line : Nat, next : Nat], NEW f \in BOOLEAN,
           SourceInv(L, s, <<>>, l, t, f), t.line # 0, t.next > L[t.line].len
    PROVE  SourceInv(L, s, Append(<<>>, <<t.line, Erase>>), l, [t EXCEPT !.next = @ - 1], FALSE)
<1> DEFINE r == <<>>
           x == <<t.line, Erase>>
           y == Append(r, x)
           u == [t EXCEPT !.next = @ - 1]
<1>0. r \in Seq(TextPieces) /\ Len(r) = 0 /\ r = <<>> OBVIOUS
<1>1. x \in TextPieces /\ x[2] = Erase /\ t.line \in DOMAIN L /\ t.next \in 1 .. L[t.line].len + 1
      /\ Erase \in Nat \cup {Erase} /\ Erase # 0
  BY DEF SourceInv, TypedLast, Begun, TextPieces, Erase
<1>2. L[t.line].len \in Nat \ {0} BY <1>1, LineFacts
<1>3. t.next - 1 = L[t.line].len /\ t.next \in Nat BY <1>1, <1>2
<1>4. u \in [line : Nat, next : Nat] /\ u.line = t.line /\ u.next = t.next - 1
  BY <1>2, <1>3
<1>5. u.next \in 1 .. L[t.line].len + 1 BY <1>2, <1>3, <1>4
<1>6. Len(y) = 1 /\ y[1] = x /\ y # <<>> BY <1>1
<1> HIDE DEF r, u
<1>7. /\ PiecesInOrder(L, s, y, l) /\ TypedLast(L, s, y, l, u) /\ HandledGone(L, s, y, l, u)
  BY <1>0, <1>1, <1>4, <1>5, TakenInOrder
<1>8. FreshIsFresh(y, l, FALSE) BY DEF FreshIsFresh
<1> HIDE DEF y
<1>9. CleanIsThere(L, s, y, l, u)
  <2> SUFFICES ASSUME NEW n \in DOMAIN L, L[n].from = s, L[n].clean, L[n].fate = "sent"
               PROVE  /\ L[n].len <= LineRoom
                      /\ u.line = n /\ HeldTo(y, l, n, Len(y), u.next - 1)
    BY DEF CleanIsThere
  <2>1. L[n].len <= LineRoom /\ t.line = n /\ HeldTo(r, l, n, 0, t.next - 1)
    <3>1. ~ \E j \in 1 .. Len(r) : r[j] = <<n, 0>> BY <1>0
    <3> QED BY <1>0, <3>1 DEF SourceInv, CleanIsThere
  <2>2. ~Behind(r, n, 0, t.next - 1) BY DEF Behind
  <2>3. Leading(r, l, n, 0, t.next - 1) BY <2>1, <2>2 DEF HeldTo
  <2>4. Erasing(r) = 0 /\ Erasing(y) = 1 BY <1>0, <1>1, <1>6 DEF Erasing
  <2>5. Len(l) = t.next - 1 /\ \A q \in 1 .. Len(l) : l[q] = <<n, q>>
    BY <1>3, <2>3, <2>4 DEF Leading
  <2>6. 1 <= Len(l) /\ Len(l) + 1 = (u.next - 1) + 2 * 1 BY <1>2, <1>3, <1>4, <2>5
  <2>7. Leading(y, l, n, 1, u.next - 1) BY <2>4, <2>5, <2>6 DEF Leading
  <2> QED BY <1>4, <1>6, <2>1, <2>7 DEF HeldTo
<1> QED BY <1>7, <1>8, <1>9 DEF SourceInv, r, u, y

LEMMA TailFacts ==
    ASSUME NEW r \in Seq(TextPieces), r # <<>>
    PROVE  /\ Tail(r) \in Seq(TextPieces)
           /\ Len(r) \in Nat /\ Len(r) >= 1 /\ Len(Tail(r)) = Len(r) - 1
           /\ DOMAIN r = 1 .. Len(r) /\ DOMAIN Tail(r) = 1 .. Len(r) - 1
           /\ \A i \in 1 .. Len(r) - 1 : Tail(r)[i] = r[i + 1]
           /\ Tail(r) # <<>> => Len(r) >= 2 /\ Tail(r)[1] = r[2]
           /\ Tail(r) = <<>> => Len(r) = 1
           /\ Head(r) = r[1] /\ 1 \in DOMAIN r
<1> DEFINE y == Tail(r)
<1>1. y \in Seq(TextPieces) /\ Len(r) \in Nat /\ Len(r) >= 1 /\ Len(y) = Len(r) - 1
  OBVIOUS
<1>2. DOMAIN r = 1 .. Len(r) /\ DOMAIN y = 1 .. Len(r) - 1 BY <1>1
<1>3. \A i \in 1 .. Len(r) - 1 : y[i] = r[i + 1] BY <1>1
<1>4. Head(r) = r[1] /\ 1 \in DOMAIN r BY <1>1, <1>2
<1> HIDE DEF y
<1>5. y = <<>> => Len(r) = 1 BY <1>1
<1>6. y # <<>> => Len(r) >= 2 BY <1>1
<1>7. y # <<>> => y[1] = r[2]
  <2>1. ASSUME y # <<>> PROVE 1 \in 1 .. Len(r) - 1 BY <1>1, <1>6, <2>1
  <2> QED BY <1>3, <2>1
<1> QED BY <1>1, <1>2, <1>3, <1>4, <1>5, <1>6, <1>7 DEF y

\* The input line m holds pieces of l, or the first printable one of r.
Fed(m, l, r) ==
    /\ \A i \in DOMAIN m : (\E k \in DOMAIN l : m[i] = l[k]) \/ (m[i] = r[1] /\ r[1][2] > 0)
    /\ r[1][2] = 0 => m = <<>>

\* Consuming the first piece of the buffer keeps the order.
LEMMA ConsumedInOrder ==
    ASSUME NEW L \in Seq(LineRecords), NEW s \in Sources, NEW r \in Seq(TextPieces),
           NEW l \in Seq(TextPieces), NEW t \in [line : Nat, next : Nat], NEW f \in BOOLEAN,
           SourceInv(L, s, r, l, t, f), r # <<>>, NEW m \in Seq(TextPieces), Fed(m, l, r)
    PROVE  /\ PiecesInOrder(L, s, Tail(r), m) /\ TypedLast(L, s, Tail(r), m, t)
           /\ HandledGone(L, s, Tail(r), m, t) /\ FreshIsFresh(Tail(r), m, f)
           /\ Erasing(Tail(r)) = 0
<1> DEFINE y == Tail(r)
<1>1. /\ Len(r) \in Nat /\ Len(y) = Len(r) - 1
      /\ DOMAIN r = 1 .. Len(r) /\ DOMAIN y = 1 .. Len(r) - 1
      /\ \A i \in 1 .. Len(r) - 1 : y[i] = r[i + 1]
      /\ y = <<>> => Len(r) = 1
      /\ y # <<>> => Len(r) >= 2 /\ y[1] = r[2]
      /\ 1 \in DOMAIN r
  BY TailFacts, Zenon
<1> HIDE DEF y
<1>a. /\ \A i \in DOMAIN m : (\E k \in DOMAIN l : m[i] = l[k]) \/ (m[i] = r[1] /\ r[1][2] > 0)
      /\ r[1][2] = 0 => m = <<>>
  BY DEF Fed
<1>2. \A i \in DOMAIN y : i + 1 \in DOMAIN r /\ y[i] = r[i + 1] /\ 1 < i + 1 /\ i \in Nat BY <1>1
<1>3. /\ PiecesInOrder(L, s, r, l) /\ TypedLast(L, s, r, l, t) /\ HandledGone(L, s, r, l, t)
      /\ FreshIsFresh(r, l, f)
  BY DEF SourceInv
<1>4. PiecesInOrder(L, s, y, m)
  <2>1. \A i \in DOMAIN y : Begun(L, s, y[i][1]) /\ (y[i][2] = Erase => i = 1)
    BY <1>2, <1>3 DEF PiecesInOrder
  <2>2. \A i \in DOMAIN m : Begun(L, s, m[i][1]) /\ m[i][2] > 0
    BY <1>1, <1>3, <1>a DEF PiecesInOrder
  <2>3. ASSUME NEW i \in DOMAIN m, NEW j \in DOMAIN y PROVE m[i][1] <= y[j][1]
    <3>1. j + 1 \in DOMAIN r /\ y[j] = r[j + 1] /\ 1 < j + 1 BY <1>2
    <3>2. CASE \E k \in DOMAIN l : m[i] = l[k] BY <1>3, <3>1, <3>2 DEF PiecesInOrder
    <3>3. CASE m[i] = r[1] BY <1>1, <1>3, <3>1, <3>3 DEF PiecesInOrder
    <3> QED BY <1>a, <3>2, <3>3
  <2>4. ASSUME NEW i \in DOMAIN y, NEW j \in DOMAIN y, i < j
        PROVE  y[i][1] <= y[j][1] /\ (y[i][2] = 0 => y[i][1] < y[j][1])
    <3>1. i + 1 < j + 1 BY <1>2, <2>4
    <3> QED BY <1>2, <1>3, <3>1 DEF PiecesInOrder
  <2> QED BY <2>1, <2>2, <2>3, <2>4 DEF PiecesInOrder
<1>5. TypedLast(L, s, y, m, t)
  <2> SUFFICES ASSUME t.line # 0 PROVE TypedLast(L, s, y, m, t) BY DEF TypedLast
  <2>1. \A i \in DOMAIN m : m[i][1] <= t.line BY <1>1, <1>3, <1>a DEF TypedLast
  <2>2. \A i \in DOMAIN y : y[i][1] <= t.line /\ (y[i][2] = 0 => y[i][1] < t.line)
    BY <1>2, <1>3 DEF TypedLast
  <2> QED BY <1>3, <2>1, <2>2 DEF TypedLast
<1>6. HandledGone(L, s, y, m, t)
  <2> SUFFICES ASSUME NEW n \in DOMAIN L, L[n].from = s, L[n].fate # "sent"
               PROVE  /\ L[n].fate = "handled"
                      /\ t.line # 0 => n < t.line
                      /\ \A i \in DOMAIN m : n < m[i][1]
                      /\ \A i \in DOMAIN y : n < y[i][1]
    BY DEF HandledGone
  <2>1. /\ L[n].fate = "handled" /\ (t.line # 0 => n < t.line)
        /\ \A i \in DOMAIN l : n < l[i][1]
        /\ \A i \in DOMAIN r : n < r[i][1]
    BY <1>3 DEF HandledGone
  <2> QED BY <1>1, <1>2, <1>a, <2>1
<1>7. FreshIsFresh(y, m, f)
  <2> SUFFICES ASSUME f PROVE IF y = <<>> THEN m = <<>> ELSE y[Len(y)][2] = 0
    BY DEF FreshIsFresh
  <2>1. r[Len(r)][2] = 0 BY <1>1, <1>3 DEF FreshIsFresh
  <2>2. CASE y = <<>> BY <1>1, <1>a, <2>1, <2>2
  <2>3. CASE y # <<>> BY <1>1, <2>1, <2>3
  <2> QED BY <2>2, <2>3
<1>8. Erasing(y) = 0
  <2>1. ASSUME y # <<>> PROVE y[1][2] # Erase
    <3>1. 2 \in DOMAIN r /\ y[1] = r[2] BY <1>1, <2>1
    <3> QED BY <1>3, <3>1 DEF PiecesInOrder
  <2> QED BY <2>1 DEF Erasing
<1> QED BY <1>4, <1>5, <1>6, <1>7, <1>8 DEF y

\* What is behind a newline further on stays behind it.
LEMMA BehindShifts ==
    ASSUME NEW r \in Seq(TextPieces), r # <<>>, NEW n, NEW k \in Nat, NEW j \in 1 .. Len(r),
           Behind(r, n, j, k)
    PROVE  \/ Behind(Tail(r), n, j - 1, k)
           \/ r[1][2] = 0 /\ j = 1 + k /\ \A q \in 1 .. k : r[1 + q] = <<n, q>>
<1>1. PICK b \in 1 .. j : r[b][2] = 0 /\ j = b + k /\ \A q \in 1 .. k : r[b + q] = <<n, q>>
  BY DEF Behind
<1> SUFFICES ASSUME b # 1 PROVE Behind(Tail(r), n, j - 1, k) BY <1>1
<1>2. b # 1 /\ Len(r) \in Nat BY TailFacts
<1> DEFINE y == Tail(r)
<1>3. \A i \in 1 .. Len(r) - 1 : y[i] = r[i + 1] BY TailFacts
<1> HIDE DEF y
<1>4. b - 1 \in 1 .. j - 1 /\ j - 1 = (b - 1) + k /\ j \in Nat BY <1>1, <1>2
<1>5. y[b - 1][2] = 0
  <2>1. b - 1 \in 1 .. Len(r) - 1 /\ (b - 1) + 1 = b BY <1>1, <1>2, <1>4
  <2> QED BY <1>1, <1>3, <2>1
<1>6. ASSUME NEW q \in 1 .. k PROVE y[(b - 1) + q] = <<n, q>>
  <2>1. (b - 1) + q \in 1 .. Len(r) - 1 /\ ((b - 1) + q) + 1 = b + q BY <1>1, <1>2, <1>4
  <2> QED BY <1>1, <1>3, <2>1
<1>7. Behind(y, n, j - 1, k) BY <1>4, <1>5, <1>6 DEF Behind
<1> QED BY <1>7 DEF y

\* A line that is held on moves on, and the line whose newline comes next is handled.
Shifts(L, r, l, m) ==
    \A n \in DOMAIN L, k \in Nat, j \in 1 .. Len(r) :
       k <= LineRoom /\ HeldTo(r, l, n, j, k) => HeldTo(Tail(r), m, n, j - 1, k)
Progress(L, M, s, r, l) ==
    /\ \A n \in DOMAIN L : /\ M[n].from = L[n].from /\ M[n].len = L[n].len
                           /\ M[n].clean = L[n].clean
                           /\ M[n].fate = "sent" => L[n].fate = "sent"
    /\ \A n \in DOMAIN L : r[1] = <<n, 0>> /\ L[n].from = s /\ HeldTo(r, l, n, 0, L[n].len)
                             => M[n].fate # "sent"

\* A clean line moves with what is consumed.
LEMMA ShiftedIsThere ==
    ASSUME NEW L \in Seq(LineRecords), NEW s \in Sources, NEW r \in Seq(TextPieces),
           NEW l \in Seq(TextPieces), NEW t \in [line : Nat, next : Nat],
           PiecesInOrder(L, s, r, l), TypedLast(L, s, r, l, t), CleanIsThere(L, s, r, l, t),
           r # <<>>, NEW m \in Seq(TextPieces), Shifts(L, r, l, m),
           NEW M \in Seq(LineRecords), DOMAIN M = DOMAIN L, Progress(L, M, s, r, l)
    PROVE  CleanIsThere(M, s, Tail(r), m, t)
<1> DEFINE y == Tail(r)
<1>1. /\ Len(r) \in Nat /\ Len(r) >= 1 /\ Len(y) = Len(r) - 1
      /\ \A i \in 1 .. Len(r) - 1 : y[i] = r[i + 1]
  BY TailFacts, Zenon
<1>2. \A n \in DOMAIN L, k \in Nat, j \in 1 .. Len(r) :
         k <= LineRoom /\ HeldTo(r, l, n, j, k) => HeldTo(y, m, n, j - 1, k)
  BY DEF Shifts
<1> HIDE DEF y
<1> SUFFICES ASSUME NEW n \in DOMAIN L, M[n].from = s, M[n].clean, M[n].fate = "sent"
             PROVE  /\ M[n].len <= LineRoom
                    /\ \/ t.line = n /\ HeldTo(y, m, n, Len(y), t.next - 1)
                       \/ \E j \in 1 .. Len(y) : y[j] = <<n, 0>> /\ HeldTo(y, m, n, j - 1, M[n].len)
  BY DEF CleanIsThere, y
<1>3. L[n].from = s /\ L[n].clean /\ L[n].fate = "sent" /\ M[n].len = L[n].len
  BY DEF Progress
<1>4. L[n].len \in Nat /\ LineRoom \in Nat BY LineFacts, SupervisorAssumption
<1>5. L[n].len <= LineRoom BY <1>3 DEF CleanIsThere
<1>6. CASE t.line = n /\ HeldTo(r, l, n, Len(r), t.next - 1)
  <2>1. n # 0 BY LineFacts
  <2>2. t.next \in 1 .. L[n].len + 1 BY <1>6, <2>1 DEF TypedLast
  <2>3. t.next - 1 \in Nat /\ t.next - 1 <= LineRoom BY <1>4, <1>5, <2>2
  <2>4. Len(r) \in 1 .. Len(r) BY <1>1
  <2>5. HeldTo(y, m, n, Len(r) - 1, t.next - 1) BY <1>2, <1>6, <2>3, <2>4
  <2> QED BY <1>1, <1>3, <1>5, <1>6, <2>5
<1>7. CASE \E j \in 1 .. Len(r) : r[j] = <<n, 0>> /\ HeldTo(r, l, n, j - 1, L[n].len)
  <2>1. PICK j \in 1 .. Len(r) : r[j] = <<n, 0>> /\ HeldTo(r, l, n, j - 1, L[n].len) BY <1>7
  <2>2. j # 1
    <3>1. ASSUME j = 1 PROVE FALSE
      <4>1. r[1] = <<n, 0>> /\ HeldTo(r, l, n, 0, L[n].len) BY <2>1, <3>1
      <4> QED BY <1>3, <4>1 DEF Progress
    <3> QED BY <3>1
  <2>3. j - 1 \in 1 .. Len(r) /\ j - 1 \in 1 .. Len(y) /\ (j - 1) + 1 = j BY <1>1, <2>2
  <2>4. HeldTo(y, m, n, (j - 1) - 1, L[n].len) BY <1>2, <1>4, <1>5, <2>1, <2>3
  <2>5. y[j - 1] = <<n, 0>> BY <1>1, <2>1, <2>3
  <2> QED BY <1>3, <1>5, <2>3, <2>4, <2>5
<1> QED BY <1>3, <1>6, <1>7 DEF CleanIsThere

\* Line g is handled, or none if g is 0; a line that is all there is.
Delivers(L, l, g, M) ==
    /\ DOMAIN M = DOMAIN L /\ \A n \in DOMAIN L \ {g} : M[n] = L[n]
    /\ g # 0 => /\ g = l[1][1] /\ 1 \in DOMAIN l /\ g \in DOMAIN L /\ g \in Nat
                /\ L[g].fate = "sent" /\ M[g].from = L[g].from /\ M[g].len = L[g].len
                /\ M[g].clean = L[g].clean /\ M[g].fate = "handled"
    /\ \A n \in DOMAIN L : l # <<>> /\ l[1][1] = n
         /\ l = [i \in 1 .. L[n].len |-> <<n, i>>] => g = n

LEMMA NewlineMoves ==
    ASSUME NEW L \in Seq(LineRecords), NEW s \in Sources, NEW r \in Seq(TextPieces),
           NEW l \in Seq(TextPieces), NEW t \in [line : Nat, next : Nat], NEW f \in BOOLEAN,
           SourceInv(L, s, r, l, t, f), r # <<>>, r[1][2] = 0,
           NEW M \in Seq(LineRecords), NEW g, Delivers(L, l, g, M), g # 0 => L[g].from = s
    PROVE  SourceInv(M, s, Tail(r), <<>>, t, f)
<1> DEFINE y == Tail(r)
<1>0. /\ PiecesInOrder(L, s, r, l) /\ TypedLast(L, s, r, l, t)
      /\ HandledGone(L, s, r, l, t) /\ CleanIsThere(L, s, r, l, t)
  BY DEF SourceInv
<1>2. g # 0 => /\ g = l[1][1] /\ 1 \in DOMAIN l /\ g \in DOMAIN L /\ g \in Nat
               /\ L[g].from = s /\ L[g].fate = "sent"
  BY DEF Delivers
<1>3. \A n \in DOMAIN L : l # <<>> /\ l[1][1] = n
        /\ l = [i \in 1 .. L[n].len |-> <<n, i>>] => g = n
  BY DEF Delivers
<1>4. /\ M \in Seq(LineRecords) /\ DOMAIN M = DOMAIN L
      /\ \A n \in DOMAIN L \ {g} : M[n] = L[n]
      /\ g # 0 => /\ M[g].from = s /\ M[g].len = L[g].len
                  /\ M[g].clean = L[g].clean /\ M[g].fate = "handled"
  BY DEF Delivers
<1>5. /\ \A n \in DOMAIN L : /\ M[n].from = L[n].from /\ M[n].len = L[n].len
                             /\ M[n].clean = L[n].clean
                             /\ M[n].fate = "sent" => L[n].fate = "sent"
      /\ \A n \in DOMAIN L : /\ M[n].from = L[n].from
                             /\ L[n].from # s => M[n] = L[n]
  <2> SUFFICES ASSUME NEW n \in DOMAIN L
               PROVE  /\ M[n].from = L[n].from /\ M[n].len = L[n].len
                      /\ M[n].clean = L[n].clean
                      /\ M[n].fate = "sent" => L[n].fate = "sent"
                      /\ L[n].from # s => M[n] = L[n]
    OBVIOUS
  <2>1. CASE n # g BY <1>4, <2>1
  <2>2. CASE n = g
    <3>1. g # 0 BY <2>2
    <3> QED BY <1>2, <1>4, <2>2, <3>1
  <2> QED BY <2>1, <2>2
<1>6. /\ PiecesInOrder(L, s, y, <<>>) /\ TypedLast(L, s, y, <<>>, t)
      /\ HandledGone(L, s, y, <<>>, t) /\ FreshIsFresh(y, <<>>, f) /\ Erasing(y) = 0
  <2>0. <<>> \in Seq(TextPieces) OBVIOUS
  <2>1. PICK z \in Seq(TextPieces) : z = <<>> BY <2>0
  <2>2. Fed(z, l, r)
    <3>1. DOMAIN z = 1 .. Len(z) /\ Len(z) = 0 BY <2>1
    <3> QED BY <2>1, <3>1 DEF Fed
  <2>3. z \in Seq(TextPieces) BY <2>1
  <2>4. /\ PiecesInOrder(L, s, y, z) /\ TypedLast(L, s, y, z, t)
        /\ HandledGone(L, s, y, z, t) /\ FreshIsFresh(y, z, f) /\ Erasing(y) = 0
    BY <2>2, <2>3, ConsumedInOrder
  <2> QED BY <2>1, <2>4
<1>7. /\ Len(r) \in Nat /\ Len(y) = Len(r) - 1 /\ DOMAIN r = 1 .. Len(r)
      /\ DOMAIN y = 1 .. Len(r) - 1 /\ 1 \in DOMAIN r
      /\ \A i \in 1 .. Len(r) - 1 : y[i] = r[i + 1]
  BY TailFacts, Zenon
<1> HIDE DEF y
<1>8. PiecesInOrder(M, s, y, <<>>)
  <2>1. \A n : Begun(L, s, n) => Begun(M, s, n) BY <1>4, <1>5 DEF Begun
  <2> QED BY <1>6, <2>1 DEF PiecesInOrder
<1>9. TypedLast(M, s, y, <<>>, t) BY <1>4, <1>5, <1>6 DEF TypedLast, Begun
<1>10. HandledGone(M, s, y, <<>>, t)
  <2> SUFFICES ASSUME NEW n \in DOMAIN L, M[n].from = s, M[n].fate # "sent"
               PROVE  /\ M[n].fate = "handled"
                      /\ t.line # 0 => n < t.line
                      /\ \A i \in DOMAIN y : n < y[i][1]
    BY <1>4 DEF HandledGone
  <2>1. CASE n # g BY <1>4, <1>6, <2>1 DEF HandledGone
  <2>2. CASE n = g
    <3>1. g # 0 BY <2>2
    <3>2. g \in Nat /\ g = l[1][1] /\ 1 \in DOMAIN l BY <1>2, <3>1
    <3>3. g <= r[1][1] BY <1>0, <1>7, <3>2 DEF PiecesInOrder
    <3>4. r[1][1] \in Nat
      <4>1. r[1] \in TextPieces BY <1>7
      <4> QED BY <4>1 DEF TextPieces
    <3>5. t.line # 0 => r[1][1] < t.line BY <1>0, <1>7 DEF TypedLast
    <3>6. ASSUME NEW i \in DOMAIN y PROVE r[1][1] < y[i][1] /\ y[i][1] \in Nat
      <4>1. i + 1 \in DOMAIN r /\ 1 < i + 1 /\ y[i] = r[i + 1] BY <1>7
      <4>2. r[1][1] < r[i + 1][1] BY <1>0, <1>7, <4>1 DEF PiecesInOrder
      <4>3. r[i + 1][1] \in Nat BY <1>0, <4>1 DEF PiecesInOrder, Begun
      <4> QED BY <4>1, <4>2, <4>3
    <3>7. \A i \in DOMAIN y : n < y[i][1] BY <2>2, <3>2, <3>3, <3>4, <3>6
    <3>8. t.line # 0 => n < t.line BY <2>2, <3>2, <3>3, <3>4, <3>5
    <3> QED BY <1>4, <2>2, <3>1, <3>7, <3>8
  <2> QED BY <2>1, <2>2
<1>11. Erasing(r) = 0 BY DEF Erasing, Erase
<1>12. ASSUME NEW n \in DOMAIN L, NEW k \in Nat, NEW j \in 1 .. Len(r),
              k <= LineRoom /\ HeldTo(r, l, n, j, k)
       PROVE  HeldTo(y, <<>>, n, j - 1, k)
  <2>1. ~Leading(r, l, n, j, k)
    <3>1. ASSUME Leading(r, l, n, j, k) PROVE FALSE
      <4>1. 1 \in Erasing(r) + 1 .. j BY <1>11
      <4>2. r[1] = <<n, Len(l) + 1 - 2 * Erasing(r)>> BY <3>1, <4>1 DEF Leading
      <4>3. r[1][2] = Len(l) + 1 - 2 * Erasing(r) BY <4>2
      <4>4. Len(l) \in Nat OBVIOUS
      <4> QED BY <1>11, <4>3, <4>4
    <3> QED BY <3>1
  <2>2. Behind(r, n, j, k) BY <1>12, <2>1 DEF HeldTo
  <2>3. \/ Behind(y, n, j - 1, k)
        \/ j = 1 + k /\ \A q \in 1 .. k : r[1 + q] = <<n, q>>
    BY <2>2, BehindShifts DEF y
  <2>4. CASE Behind(y, n, j - 1, k) BY <2>4 DEF HeldTo
  <2>5. CASE j = 1 + k /\ \A q \in 1 .. k : r[1 + q] = <<n, q>>
    <3>1. ASSUME NEW q \in 1 .. j - 1 PROVE y[q] = <<n, q>>
      <4>1. q \in 1 .. k /\ q \in 1 .. Len(r) - 1 /\ q + 1 = 1 + q BY <1>7, <2>5
      <4> QED BY <1>7, <2>5, <4>1
    <3>2. PICK z : z = <<>> /\ Len(z) = 0 OBVIOUS
    <3>3. \A q \in 0 + 1 .. j - 1 : y[q] = <<n, 0 + q - 2 * 0>>
      BY <3>1
    <3>4. Leading(y, z, n, j - 1, k) BY <1>6, <2>5, <3>2, <3>3 DEF Leading
    <3> QED BY <3>2, <3>4 DEF HeldTo
  <2> QED BY <2>3, <2>4, <2>5
<1>13. ASSUME NEW n \in DOMAIN L,
              r[1] = <<n, 0>> /\ L[n].from = s /\ HeldTo(r, l, n, 0, L[n].len)
       PROVE  M[n].fate # "sent"
  <2>1. ~Behind(r, n, 0, L[n].len) BY DEF Behind
  <2>2. Leading(r, l, n, 0, L[n].len) BY <1>13, <2>1 DEF HeldTo
  <2>3. L[n].len \in Nat /\ L[n].len # 0 /\ n # 0 BY LineFacts
  <2>4. Len(l) = L[n].len /\ \A q \in 1 .. Len(l) : l[q] = <<n, q>>
    BY <1>11, <2>2, <2>3 DEF Leading
  <2>5. l # <<>> /\ 1 \in 1 .. Len(l) BY <2>3, <2>4
  <2>6. l[1][1] = n BY <2>4, <2>5
  <2>7. l = [i \in 1 .. L[n].len |-> <<n, i>>]
    <3>1. l = [i \in 1 .. Len(l) |-> l[i]] OBVIOUS
    <3> QED BY <2>4, <3>1
  <2>8. g = n BY <1>3, <2>5, <2>6, <2>7
  <2> QED BY <1>4, <2>3, <2>8
<1>14. CleanIsThere(M, s, y, <<>>, t)
  <2>1. <<>> \in Seq(TextPieces) OBVIOUS
  <2>2. Shifts(L, r, l, <<>>) BY <1>12 DEF y, Shifts
  <2>3. Progress(L, M, s, r, l)
    <3>1. \A n \in DOMAIN L :
             r[1] = <<n, 0>> /\ L[n].from = s /\ HeldTo(r, l, n, 0, L[n].len)
                => M[n].fate # "sent"
      BY <1>13
    <3>2. \A n \in DOMAIN L : /\ M[n].from = L[n].from /\ M[n].len = L[n].len
                              /\ M[n].clean = L[n].clean
                              /\ M[n].fate = "sent" => L[n].fate = "sent"
      BY <1>5
    <3> QED BY <3>1, <3>2 DEF Progress
  <2>5. M \in Seq(LineRecords) /\ DOMAIN M = DOMAIN L BY <1>4
  <2>6. CleanIsThere(M, s, Tail(r), <<>>, t)
    BY <1>0, <2>1, <2>2, <2>3, <2>5, ShiftedIsThere
  <2> QED BY <2>6 DEF y
<1>15. FreshIsFresh(y, <<>>, f) BY <1>6
<1>16. SourceInv(M, s, Tail(r), <<>>, t, f)
  BY <1>8, <1>9, <1>10, <1>14, <1>15 DEF SourceInv, y
<1> QED BY <1>16

\* The lines once what is in the input line is handed over.
HandedOver(l) == IF l # <<>> THEN Fate(SentLine(l)) ELSE lines

\* A newline hands over what is in the input line.
LEMMA NewlineConsumed ==
    ASSUME lines \in Seq(LineRecords), NEW s \in Sources, NEW r \in Seq(TextPieces),
           NEW l \in Seq(TextPieces), NEW t \in [line : Nat, next : Nat], NEW f \in BOOLEAN,
           SourceInv(lines, s, r, l, t, f), r # <<>>, r[1][2] = 0
    PROVE  /\ HandedOver(l) \in Seq(LineRecords) /\ DOMAIN HandedOver(l) = DOMAIN lines
           /\ \A n \in DOMAIN lines : /\ HandedOver(l)[n].from = lines[n].from
                                      /\ lines[n].from # s => HandedOver(l)[n] = lines[n]
           /\ SourceInv(HandedOver(l), s, Tail(r), <<>>, t, f)
<1> DEFINE g == IF l # <<>> THEN SentLine(l) ELSE 0
           M == HandedOver(l)
<1>0. PiecesInOrder(lines, s, r, l) /\ HandledGone(lines, s, r, l, t)
  BY DEF SourceInv
<1>1. M = Fate(g) BY DEF Fate, HandedOver
<1>2. g # 0 => /\ g = l[1][1] /\ 1 \in DOMAIN l /\ g \in DOMAIN lines /\ g \in Nat
               /\ lines[g].from = s /\ lines[g].fate = "sent"
  <2> SUFFICES ASSUME g # 0 PROVE /\ g = l[1][1] /\ 1 \in DOMAIN l /\ g \in DOMAIN lines
                                  /\ lines[g].from = s /\ lines[g].fate = "sent"
    OBVIOUS
  <2>1. l # <<>> /\ g = l[1][1] BY DEF SentLine
  <2>2. 1 \in DOMAIN l BY <2>1
  <2> HIDE DEF g
  <2>3. g \in DOMAIN lines /\ lines[g].from = s BY <1>0, <2>1, <2>2 DEF PiecesInOrder, Begun
  <2>4. g \in Nat BY <2>3
  <2>5. ASSUME lines[g].fate # "sent" PROVE FALSE
    <3>1. g < l[1][1] BY <1>0, <2>2, <2>3, <2>5 DEF HandledGone
    <3> QED BY <2>1, <2>4, <3>1
  <2> QED BY <2>1, <2>2, <2>3, <2>5
<1>3. \A n \in DOMAIN lines : l # <<>> /\ l[1][1] = n
        /\ l = [i \in 1 .. lines[n].len |-> <<n, i>>] => g = n
  BY DEF SentLine
<1> HIDE DEF g, M
<1>4. /\ M \in Seq(LineRecords) /\ DOMAIN M = DOMAIN lines
      /\ \A n \in DOMAIN lines \ {g} : M[n] = lines[n]
      /\ g # 0 => /\ M[g].from = s /\ M[g].len = lines[g].len
                  /\ M[g].clean = lines[g].clean /\ M[g].fate = "handled"
  <2>1. CASE g = 0 BY <1>1, <2>1 DEF Fate
  <2>2. CASE g # 0
    <3>1. g \in DOMAIN lines /\ lines[g] \in LineRecords BY <1>2, <2>2
    <3>2. PICK rec \in LineRecords :
            /\ rec = [lines[g] EXCEPT !.fate = "handled"]
            /\ rec.from = lines[g].from /\ rec.len = lines[g].len
            /\ rec.clean = lines[g].clean /\ rec.fate = "handled"
      <4>1. PICK v \in LineRecords : v = lines[g] BY <3>1
      <4>2. [v EXCEPT !.fate = "handled"] \in LineRecords BY DEF LineRecords
      <4>3. /\ [v EXCEPT !.fate = "handled"].from = v.from
            /\ [v EXCEPT !.fate = "handled"].len = v.len
            /\ [v EXCEPT !.fate = "handled"].clean = v.clean
            /\ [v EXCEPT !.fate = "handled"].fate = "handled"
        BY DEF LineRecords
      <4> QED BY <4>1, <4>2, <4>3
    <3>3. M = [lines EXCEPT ![g] = rec] BY <1>1, <1>2, <2>2, <3>1, <3>2 DEF Fate
    <3>4. /\ [lines EXCEPT ![g] = rec] \in Seq(LineRecords)
          /\ DOMAIN [lines EXCEPT ![g] = rec] = DOMAIN lines
          /\ [lines EXCEPT ![g] = rec][g] = rec
          /\ \A n \in DOMAIN lines \ {g} : [lines EXCEPT ![g] = rec][n] = lines[n]
      BY <3>1
    <3> QED BY <1>2, <2>2, <3>2, <3>3, <3>4
  <2> QED BY <2>1, <2>2
<1>5. ASSUME NEW n \in DOMAIN lines
      PROVE  M[n].from = lines[n].from /\ (lines[n].from # s => M[n] = lines[n])
  <2>1. CASE n # g BY <1>4, <2>1
  <2>2. CASE n = g
    <3>1. g # 0 BY <2>2
    <3> QED BY <1>2, <1>4, <2>2, <3>1
  <2> QED BY <2>1, <2>2
<1>6. Delivers(lines, l, g, M) /\ (g # 0 => lines[g].from = s)
  BY <1>2, <1>3, <1>4 DEF Delivers
<1>7. SourceInv(M, s, Tail(r), <<>>, t, f) BY <1>4, <1>6, NewlineMoves
<1> QED BY <1>4, <1>5, <1>7 DEF M

LEMMA FrontFacts ==
    ASSUME NEW l \in Seq(TextPieces), l # <<>>
    PROVE  /\ Front(l) \in Seq(TextPieces) /\ Len(l) \in Nat /\ Len(l) >= 1
           /\ Len(Front(l)) = Len(l) - 1 /\ DOMAIN Front(l) = 1 .. Len(l) - 1
           /\ \A i \in 1 .. Len(l) - 1 : Front(l)[i] = l[i]
<1>1. Len(l) \in Nat /\ Len(l) >= 1 OBVIOUS
<1>2. PICK k \in Nat : k = Len(l) - 1 BY <1>1
<1>3. Front(l) = SubSeq(l, 1, k) BY <1>2 DEF Front
<1>4. /\ SubSeq(l, 1, k) \in Seq(TextPieces) /\ Len(SubSeq(l, 1, k)) = k
      /\ DOMAIN SubSeq(l, 1, k) = 1 .. k
      /\ \A i \in 1 .. k : SubSeq(l, 1, k)[i] = l[i]
  BY <1>1, <1>2
<1> QED BY <1>1, <1>2, <1>3, <1>4

\* The input line without its last piece.
Shortened(l) == IF l = <<>> THEN l ELSE Front(l)

\* A backspace takes the last piece of the input line away.
LEMMA BackspaceConsumed ==
    ASSUME NEW L \in Seq(LineRecords), NEW s \in Sources, NEW r \in Seq(TextPieces),
           NEW l \in Seq(TextPieces), NEW t \in [line : Nat, next : Nat], NEW f \in BOOLEAN,
           SourceInv(L, s, r, l, t, f), r # <<>>, r[1][2] = Erase
    PROVE  /\ Shortened(l) \in Seq(TextPieces) /\ Len(Shortened(l)) <= Len(l)
           /\ SourceInv(L, s, Tail(r), Shortened(l), t, f)
<1> DEFINE y == Tail(r)
           m == Shortened(l)
<1>0. /\ PiecesInOrder(L, s, r, l) /\ TypedLast(L, s, r, l, t) /\ CleanIsThere(L, s, r, l, t)
  BY DEF SourceInv
<1>1. /\ m \in Seq(TextPieces) /\ Len(m) \in Nat /\ Len(l) \in Nat /\ Len(m) <= Len(l)
      /\ \A i \in 1 .. Len(m) : m[i] = l[i]
      /\ Len(l) >= 1 => Len(m) = Len(l) - 1
      /\ DOMAIN m = 1 .. Len(m) /\ DOMAIN l = 1 .. Len(l)
  <2>1. Len(l) \in Nat /\ DOMAIN l = 1 .. Len(l) /\ (l = <<>> => Len(l) = 0) OBVIOUS
  <2>2. CASE l = <<>>
    <3>1. m = l BY <2>2 DEF Shortened
    <3> HIDE DEF m
    <3> QED BY <2>1, <2>2, <3>1
  <2>3. CASE l # <<>>
    <3>1. m = Front(l) BY <2>3 DEF Shortened
    <3> HIDE DEF m
    <3>2. /\ m \in Seq(TextPieces) /\ Len(l) \in Nat /\ Len(l) >= 1
          /\ Len(m) = Len(l) - 1 /\ DOMAIN m = 1 .. Len(l) - 1
          /\ \A i \in 1 .. Len(l) - 1 : m[i] = l[i]
      BY <2>3, <3>1, FrontFacts
    <3> QED BY <2>1, <3>2
  <2> QED BY <2>2, <2>3
<1> HIDE DEF m
<1>2. Erasing(r) = 1 /\ r[1][2] # 0 /\ ~(r[1][2] > 0) BY DEF Erasing, Erase
<1>3. ASSUME NEW i \in DOMAIN m PROVE (\E k \in DOMAIN l : m[i] = l[k]) \/ (m[i] = r[1] /\ r[1][2] > 0)
  <2>1. i \in 1 .. Len(m) BY <1>1
  <2>2. i \in 1 .. Len(l)
    <3>1. PICK p, q \in Nat : p = Len(m) /\ q = Len(l) /\ p <= q BY <1>1
    <3>2. i \in 1 .. p BY <2>1, <3>1
    <3>3. i \in 1 .. q BY <3>1, <3>2
    <3> QED BY <3>1, <3>3
  <2>3. m[i] = l[i] BY <1>1, <2>1
  <2>4. i \in DOMAIN l BY <1>1, <2>2
  <2> QED BY <2>3, <2>4
<1>4. /\ PiecesInOrder(L, s, y, m) /\ TypedLast(L, s, y, m, t) /\ HandledGone(L, s, y, m, t)
      /\ FreshIsFresh(y, m, f) /\ Erasing(y) = 0
  <2>1. Fed(m, l, r) BY <1>2, <1>3 DEF Fed
  <2>2. m \in Seq(TextPieces) BY <1>1
  <2> QED BY <2>1, <2>2, ConsumedInOrder
<1>5. Len(r) \in Nat /\ \A i \in 1 .. Len(r) - 1 : y[i] = r[i + 1] BY TailFacts, Zenon
<1> HIDE DEF y
<1>6. ASSUME NEW n \in DOMAIN L, NEW k \in Nat, NEW j \in 1 .. Len(r),
             k <= LineRoom /\ HeldTo(r, l, n, j, k)
      PROVE  HeldTo(y, m, n, j - 1, k)
  <2>1. CASE Behind(r, n, j, k)
    <3>1. Behind(y, n, j - 1, k) BY <1>2, <2>1, BehindShifts DEF y
    <3> QED BY <3>1 DEF HeldTo
  <2>2. CASE Leading(r, l, n, j, k)
    <3>1. /\ 1 <= Len(l) /\ Len(l) + j = k + 2 * 1
          /\ \A q \in 1 .. Len(l) : l[q] = <<n, q>>
          /\ \A q \in 1 + 1 .. j : r[q] = <<n, Len(l) + q - 2 * 1>>
      BY <1>2, <2>2 DEF Leading
    <3>2. Len(m) = Len(l) - 1 /\ Len(m) + (j - 1) = k + 2 * 0 BY <1>1, <1>5, <3>1
    <3>3. \A q \in 1 .. Len(m) : m[q] = <<n, q>> BY <1>1, <3>1
    <3>4. ASSUME NEW q \in 0 + 1 .. j - 1 PROVE y[q] = <<n, Len(m) + q - 2 * 0>>
      <4>1. q + 1 \in 1 + 1 .. j /\ q \in 1 .. Len(r) - 1 BY <1>5
      <4>2. Len(l) + (q + 1) - 2 * 1 = Len(m) + q - 2 * 0 BY <1>1, <3>2
      <4> QED BY <1>5, <3>1, <4>1, <4>2
    <3>5. Leading(y, m, n, j - 1, k) BY <1>1, <1>4, <3>2, <3>3, <3>4 DEF Leading
    <3> QED BY <3>5 DEF HeldTo
  <2> QED BY <1>6, <2>1, <2>2 DEF HeldTo
<1>7. \A n \in DOMAIN L : r[1] # <<n, 0>> BY <1>2
<1>8. CleanIsThere(L, s, y, m, t)
  <2>1. Shifts(L, r, l, m) BY <1>6 DEF y, Shifts
  <2>2. Progress(L, L, s, r, l) BY <1>7 DEF Progress
  <2>3. CleanIsThere(L, s, Tail(r), m, t)
    BY <1>0, <1>1, <2>1, <2>2, ShiftedIsThere
  <2> QED BY <2>3 DEF y
<1> QED BY <1>1, <1>4, <1>8, Zenon DEF SourceInv, y, m

\* The input line with one more piece.
Extended(l, x) == IF Len(l) < LineRoom THEN Append(l, x) ELSE <<>>

\* A printable piece joins the input line as long as there is room.
LEMMA PrintableConsumed ==
    ASSUME NEW L \in Seq(LineRecords), NEW s \in Sources, NEW r \in Seq(TextPieces),
           NEW l \in Seq(TextPieces), NEW t \in [line : Nat, next : Nat], NEW f \in BOOLEAN,
           SourceInv(L, s, r, l, t, f), r # <<>>, r[1][2] > 0, r[1][2] # Erase, r[1][2] # 0,
           Len(l) <= LineRoom
    PROVE  /\ Extended(l, r[1]) \in Seq(TextPieces) /\ Len(Extended(l, r[1])) <= LineRoom
           /\ SourceInv(L, s, Tail(r), Extended(l, r[1]), t, f)
<1> DEFINE y == Tail(r)
           m == Extended(l, r[1])
<1>0. /\ PiecesInOrder(L, s, r, l) /\ TypedLast(L, s, r, l, t) /\ CleanIsThere(L, s, r, l, t)
  BY DEF SourceInv
<1>1. /\ Len(r) \in Nat /\ 1 \in DOMAIN r /\ \A i \in 1 .. Len(r) - 1 : y[i] = r[i + 1]
      /\ r[1] \in TextPieces /\ LineRoom \in Nat /\ LineRoom # 0
  <2>1. Len(r) \in Nat /\ 1 \in DOMAIN r /\ \A i \in 1 .. Len(r) - 1 : y[i] = r[i + 1]
    BY TailFacts, Zenon
  <2>2. r[1] \in TextPieces BY <2>1
  <2> QED BY <2>1, <2>2, SupervisorAssumption
<1>2. /\ m \in Seq(TextPieces) /\ Len(m) \in Nat /\ Len(l) \in Nat /\ Len(m) <= LineRoom
      /\ DOMAIN m = 1 .. Len(m) /\ DOMAIN l = 1 .. Len(l)
      /\ \A i \in DOMAIN m : (\E k \in DOMAIN l : m[i] = l[k]) \/ m[i] = r[1]
      /\ Len(l) < LineRoom => /\ Len(m) = Len(l) + 1 /\ m[Len(l) + 1] = r[1]
                              /\ \A i \in 1 .. Len(l) : m[i] = l[i]
  <2>1. CASE Len(l) < LineRoom
    <3>1. m = Append(l, r[1]) BY <2>1 DEF Extended
    <3> HIDE DEF m
    <3>2. /\ m \in Seq(TextPieces) /\ Len(m) = Len(l) + 1 /\ Len(l) \in Nat
          /\ DOMAIN m = 1 .. Len(l) + 1 /\ DOMAIN l = 1 .. Len(l)
          /\ m[Len(l) + 1] = r[1] /\ \A i \in 1 .. Len(l) : m[i] = l[i]
      BY <1>1, <3>1, AppendFacts
    <3>3. ASSUME NEW i \in DOMAIN m PROVE (\E k \in DOMAIN l : m[i] = l[k]) \/ m[i] = r[1]
      <4>1. CASE i = Len(l) + 1 BY <3>2, <4>1
      <4>2. CASE i # Len(l) + 1
        <5>1. i \in DOMAIN l BY <3>2, <4>2
        <5> QED BY <3>2, <5>1
      <4> QED BY <4>1, <4>2
    <3> QED BY <1>1, <2>1, <3>2, <3>3
  <2>2. CASE ~(Len(l) < LineRoom)
    <3>1. m = <<>> BY <2>2 DEF Extended
    <3> HIDE DEF m
    <3>2. m \in Seq(TextPieces) /\ Len(m) = 0 /\ DOMAIN m = {} BY <3>1
    <3>3. Len(l) \in Nat /\ DOMAIN l = 1 .. Len(l) OBVIOUS
    <3> QED BY <1>1, <2>2, <3>2, <3>3
  <2> QED BY <2>1, <2>2
<1> HIDE DEF m
<1>3. Erasing(r) = 0 BY DEF Erasing
<1>4. /\ PiecesInOrder(L, s, y, m) /\ TypedLast(L, s, y, m, t) /\ HandledGone(L, s, y, m, t)
      /\ FreshIsFresh(y, m, f) /\ Erasing(y) = 0
  <2>1. Fed(m, l, r) BY <1>2 DEF Fed
  <2>2. m \in Seq(TextPieces) BY <1>2
  <2> QED BY <2>1, <2>2, ConsumedInOrder
<1> HIDE DEF y
<1>6. ASSUME NEW n \in DOMAIN L, NEW k \in Nat, NEW j \in 1 .. Len(r),
             k <= LineRoom /\ HeldTo(r, l, n, j, k)
      PROVE  HeldTo(y, m, n, j - 1, k)
  <2>1. CASE Behind(r, n, j, k)
    <3>1. Behind(y, n, j - 1, k) BY <2>1, BehindShifts DEF y
    <3> QED BY <3>1 DEF HeldTo
  <2>2. CASE Leading(r, l, n, j, k)
    <3>1. /\ Len(l) + j = k + 2 * 0
          /\ \A q \in 1 .. Len(l) : l[q] = <<n, q>>
          /\ \A q \in 0 + 1 .. j : r[q] = <<n, Len(l) + q - 2 * 0>>
      BY <1>3, <2>2 DEF Leading
    <3>2. Len(l) < LineRoom
      <4>1. PICK p, room \in Nat : p = Len(l) /\ room = LineRoom BY <1>1, <1>2
      <4>2. p + j = k + 2 * 0 /\ k <= room /\ j >= 1 /\ j \in Nat BY <1>1, <1>6, <3>1, <4>1
      <4>3. p < room BY <4>2
      <4> QED BY <4>1, <4>3
    <3>3. Len(m) = Len(l) + 1 /\ Len(m) + (j - 1) = k + 2 * 0 BY <1>1, <1>2, <3>1, <3>2
    <3>4. ASSUME NEW q \in 1 .. Len(m) PROVE m[q] = <<n, q>>
      <4>1. CASE q = Len(l) + 1
        <5>1. 1 \in 0 + 1 .. j BY <1>1
        <5>2. PICK p \in Nat : p = Len(l) /\ q = p + 1 BY <1>2, <4>1
        <5>3. p + 1 - 2 * 0 = q BY <5>2
        <5> QED BY <1>2, <3>1, <3>2, <4>1, <5>1, <5>2, <5>3
      <4>2. CASE q # Len(l) + 1
        <5>1. q \in 1 .. Len(l) BY <1>2, <3>3, <4>2
        <5> QED BY <1>2, <3>1, <3>2, <5>1
      <4> QED BY <4>1, <4>2
    <3>5. ASSUME NEW q \in 0 + 1 .. j - 1 PROVE y[q] = <<n, Len(m) + q - 2 * 0>>
      <4>1. q + 1 \in 0 + 1 .. j /\ q \in 1 .. Len(r) - 1 BY <1>1
      <4>2. Len(l) + (q + 1) - 2 * 0 = Len(m) + q - 2 * 0 BY <1>2, <3>3
      <4> QED BY <1>1, <3>1, <4>1, <4>2
    <3>6. Leading(y, m, n, j - 1, k) BY <1>2, <1>4, <3>3, <3>4, <3>5 DEF Leading
    <3> QED BY <3>6 DEF HeldTo
  <2> QED BY <1>6, <2>1, <2>2 DEF HeldTo
<1>7. \A n \in DOMAIN L : r[1] # <<n, 0>> OBVIOUS
<1>8. CleanIsThere(L, s, y, m, t)
  <2>1. Shifts(L, r, l, m) BY <1>6 DEF y, Shifts
  <2>2. Progress(L, L, s, r, l) BY <1>7 DEF Progress
  <2>3. CleanIsThere(L, s, Tail(r), m, t)
    BY <1>0, <1>2, <2>1, <2>2, ShiftedIsThere
  <2> QED BY <2>3 DEF y
<1> QED BY <1>2, <1>4, <1>8, Zenon DEF SourceInv, y, m

-----------------------------------------------------------------------------
(* The steps.                                                              *)

SourceOf(s) == SourceInv(lines, s, rx[s], line[s], typing[s], fresh[s])

\* What one source does leaves the other alone.
LEMMA OneSourceSteps ==
    ASSUME SupervisorInv, SupervisorTypes', NEW s \in Sources, SourceOf(s)',
           \A o \in Sources \ {s} : /\ rx'[o] = rx[o] /\ line'[o] = line[o]
                                    /\ typing'[o] = typing[o] /\ fresh'[o] = fresh[o],
           DOMAIN lines \subseteq DOMAIN lines',
           \A n \in DOMAIN lines : /\ lines'[n].from = lines[n].from
                                   /\ lines[n].from # s => lines'[n] = lines[n],
           \A n \in DOMAIN lines' \ DOMAIN lines : lines'[n].from = s
    PROVE  SupervisorInv'
<1>1. ASSUME NEW o \in Sources PROVE SourceOf(o)'
  <2>1. CASE o = s BY <2>1
  <2>2. CASE o # s
    <3>1. SourceInv(lines, o, rx[o], line[o], typing[o], fresh[o]) BY DEF SupervisorInv
    <3>2. Untouched(lines, lines', o) BY <2>2 DEF Untouched
    <3>4. SourceInv(lines', o, rx[o], line[o], typing[o], fresh[o])
      BY <3>1, <3>2, OtherLines
    <3>5. /\ rx'[o] = rx[o] /\ line'[o] = line[o]
          /\ typing'[o] = typing[o] /\ fresh'[o] = fresh[o]
      BY <2>2
    <3> QED BY <3>4, <3>5 DEF SourceOf
  <2> QED BY <2>1, <2>2
<1> QED BY <1>1 DEF SupervisorInv, SourceOf

\* A line that is spoiled is still a line.
LEMMA SpoiledTypes ==
    ASSUME NEW L \in Seq(LineRecords), NEW n \in DOMAIN L
    PROVE  LET M == [L EXCEPT ![n].clean = FALSE] IN
           /\ M \in Seq(LineRecords) /\ DOMAIN M = DOMAIN L
           /\ \A i \in DOMAIN L : M[i].from = L[i].from /\ (i # n => M[i] = L[i])
<1>1. PICK v \in LineRecords : v = L[n] OBVIOUS
<1>2. PICK w \in LineRecords : w = [v EXCEPT !.clean = FALSE] /\ w.from = v.from
  <2>1. [v EXCEPT !.clean = FALSE] \in LineRecords /\ [v EXCEPT !.clean = FALSE].from = v.from
    BY DEF LineRecords
  <2> QED BY <2>1
<1>3. [L EXCEPT ![n].clean = FALSE] = [L EXCEPT ![n] = w] BY <1>1, <1>2
<1>4. /\ [L EXCEPT ![n] = w] \in Seq(LineRecords) /\ DOMAIN [L EXCEPT ![n] = w] = DOMAIN L
      /\ [L EXCEPT ![n] = w][n] = w
      /\ \A i \in DOMAIN L : i # n => [L EXCEPT ![n] = w][i] = L[i]
  OBVIOUS
<1>5. ASSUME NEW i \in DOMAIN L PROVE [L EXCEPT ![n] = w][i].from = L[i].from
  BY <1>1, <1>2, <1>4
<1> QED BY <1>3, <1>4, <1>5

LEMMA StartLineKeeps ==
    ASSUME SupervisorInv, NEW s \in Sources, StartLine(s)
    PROVE  SupervisorInv'
<1>1. /\ lines \in Seq(LineRecords) /\ rx[s] \in Seq(TextPieces) /\ line[s] \in Seq(TextPieces)
      /\ typing \in [Sources -> [line : Nat, next : Nat]] /\ typing[s] \in [line : Nat, next : Nat]
      /\ fresh[s] \in BOOLEAN
  BY DEF SupervisorInv, SupervisorTypes
<1>2. PICK len \in Lengths(s) :
        lines' = Append(lines, [from |-> s, len |-> len, clean |-> fresh[s] /\ len <= LineRoom,
                                fate |-> "sent"])
  BY DEF StartLine
<1>3. len \in Nat \ {0} BY SupervisorAssumption DEF Lengths
<1>4. PICK rec \in LineRecords :
        /\ rec = [from |-> s, len |-> len, clean |-> fresh[s] /\ len <= LineRoom, fate |-> "sent"]
        /\ rec.from = s
  <2> DEFINE rec == [from |-> s, len |-> len, clean |-> fresh[s] /\ len <= LineRoom, fate |-> "sent"]
  <2>1. (fresh[s] /\ len <= LineRoom) \in BOOLEAN OBVIOUS
  <2>2. rec \in LineRecords BY <1>3, <2>1 DEF LineRecords
  <2>3. rec.from = s OBVIOUS
  <2> HIDE DEF rec
  <2>4. \E v \in LineRecords : v = rec /\ v.from = s BY <2>2, <2>3
  <2> QED BY <2>4 DEF rec
<1>5. lines' = Append(lines, rec) BY <1>2, <1>4
<1>6. /\ lines' \in Seq(LineRecords) /\ DOMAIN lines = 1 .. Len(lines)
      /\ DOMAIN lines' = 1 .. Len(lines) + 1 /\ Len(lines) \in Nat
      /\ lines'[Len(lines) + 1] = rec /\ \A n \in 1 .. Len(lines) : lines'[n] = lines[n]
  BY <1>1, <1>5
<1>7. /\ typing' = [typing EXCEPT ![s] = [line |-> Len(lines) + 1, next |-> 1]]
      /\ UNCHANGED <<fresh, rx, line, queued, waiting>> /\ typing[s].line = 0
  BY DEF StartLine, replies
<1>8. [line |-> Len(lines) + 1, next |-> 1] \in [line : Nat, next : Nat] BY <1>6
<1>9. /\ typing' \in [Sources -> [line : Nat, next : Nat]]
      /\ typing'[s] = [line |-> Len(lines) + 1, next |-> 1]
      /\ \A o \in Sources \ {s} : typing'[o] = typing[o]
  BY <1>1, <1>7, <1>8
<1>10. SupervisorTypes' BY <1>6, <1>7, <1>9 DEF SupervisorInv, SupervisorTypes
<1>11. SourceInv(lines, s, rx[s], line[s], typing[s], fresh[s]) BY DEF SupervisorInv
<1>12. SourceInv(lines', s, rx[s], line[s], [line |-> Len(lines) + 1, next |-> 1], fresh[s])
  <2>1. SourceInv(Append(lines, [from |-> s, len |-> len, clean |-> fresh[s] /\ len <= LineRoom,
                                 fate |-> "sent"]),
                  s, rx[s], line[s], [line |-> Len(lines) + 1, next |-> 1], fresh[s])
    <3>1. PICK L \in Seq(LineRecords), r \in Seq(TextPieces), l \in Seq(TextPieces),
             t \in [line : Nat, next : Nat], f \in BOOLEAN :
        L = lines /\ r = rx[s] /\ l = line[s] /\ t = typing[s] /\ f = fresh[s]
      BY <1>1
    <3>2. SourceInv(L, s, r, l, t, f) /\ t.line = 0 BY <1>7, <1>11, <3>1
    <3>3. SourceInv(Append(L, [from |-> s, len |-> len, clean |-> f /\ len <= LineRoom,
                               fate |-> "sent"]),
                    s, r, l, [line |-> Len(L) + 1, next |-> 1], f)
      BY <1>3, <3>2, StartedLine
    <3> QED BY <3>1, <3>3, Zenon
  <2> QED BY <1>2, <2>1, Zenon
<1>13. SourceOf(s)' BY <1>7, <1>9, <1>12 DEF SourceOf
<1>14. \A n \in DOMAIN lines' \ DOMAIN lines : lines'[n].from = s
  <2>1. ASSUME NEW n \in DOMAIN lines', n \notin DOMAIN lines PROVE n = Len(lines) + 1
    BY <1>6, <2>1
  <2> QED BY <1>4, <1>6, <2>1
<1>15. /\ DOMAIN lines \subseteq DOMAIN lines'
       /\ \A n \in DOMAIN lines : lines'[n] = lines[n]
  BY <1>6
<1> QED BY <1>7, <1>9, <1>10, <1>13, <1>14, <1>15, OneSourceSteps

\* What the peer does next is taken, or spoils its line.
LEMMA SendKeeps ==
    ASSUME SupervisorInv, NEW s \in Sources, NEW place \in Nat \cup {Erase}, Send(s, place),
           NEW u \in [line : Nat, next : Nat], typing' = [typing EXCEPT ![s] = u],
           typing[s].line # 0,
           u.line = 0 \/ (u.line = typing[s].line /\ u.next \in 1 .. lines[typing[s].line].len + 1),
           Len(rx[s]) < RxRoom =>
             SourceInv(lines, s, Append(rx[s], <<typing[s].line, place>>), line[s], u, place = 0),
           UNCHANGED <<line, queued, replies>>
    PROVE  SupervisorInv'
<1>1. /\ lines \in Seq(LineRecords) /\ rx \in [Sources -> Seq(TextPieces)]
      /\ rx[s] \in Seq(TextPieces) /\ line[s] \in Seq(TextPieces)
      /\ typing \in [Sources -> [line : Nat, next : Nat]] /\ typing[s] \in [line : Nat, next : Nat]
      /\ fresh \in [Sources -> BOOLEAN] /\ fresh[s] \in BOOLEAN
  BY DEF SupervisorInv, SupervisorTypes
<1>2. /\ typing' \in [Sources -> [line : Nat, next : Nat]] /\ typing'[s] = u
      /\ \A o \in Sources \ {s} : typing'[o] = typing[o]
  BY <1>1
<1>3. SourceInv(lines, s, rx[s], line[s], typing[s], fresh[s]) BY DEF SupervisorInv
<1>4. UNCHANGED <<line, queued, waiting>> BY DEF replies
<1>5. CASE Len(rx[s]) < RxRoom
  <2>1. /\ rx' = [rx EXCEPT ![s] = Append(rx[s], <<typing[s].line, place>>)]
        /\ fresh' = [fresh EXCEPT ![s] = (place = 0)] /\ lines' = lines
    BY <1>5 DEF Send
  <2>2. PICK y \in Seq(TextPieces) :
          y = Append(rx[s], <<typing[s].line, place>>) /\ Len(y) = Len(rx[s]) + 1
    <3>1. PICK x \in TextPieces : x = <<typing[s].line, place>> BY <1>1 DEF TextPieces
    <3>2. Append(rx[s], x) \in Seq(TextPieces) /\ Len(Append(rx[s], x)) = Len(rx[s]) + 1
      BY <1>1, AppendFacts
    <3> QED BY <3>1, <3>2
  <2>3. /\ rx' \in [Sources -> Seq(TextPieces)] /\ rx'[s] = y
        /\ \A o \in Sources \ {s} : rx'[o] = rx[o]
    BY <1>1, <2>1, <2>2
  <2>4. /\ fresh' \in [Sources -> BOOLEAN] /\ fresh'[s] = (place = 0)
        /\ \A o \in Sources \ {s} : fresh'[o] = fresh[o]
    BY <1>1, <2>1
  <2>5. Len(y) <= RxRoom
    <3>1. Len(rx[s]) \in Nat /\ RxRoom \in Nat BY <1>1, SupervisorAssumption
    <3> QED BY <1>5, <2>2, <3>1
  <2>6. \A o \in Sources : Len(rx'[o]) <= RxRoom
    <3>1. \A o \in Sources : Len(rx[o]) <= RxRoom BY DEF SupervisorInv, SupervisorTypes
    <3> QED BY <2>3, <2>5, <3>1
  <2>7. SupervisorTypes'
    BY <1>2, <1>4, <2>1, <2>3, <2>4, <2>6 DEF SupervisorInv, SupervisorTypes
  <2>8. SourceOf(s)' BY <1>2, <1>4, <1>5, <2>1, <2>2, <2>3, <2>4 DEF SourceOf
  <2> QED BY <1>2, <1>4, <2>1, <2>3, <2>4, <2>7, <2>8, OneSourceSteps
<1>6. CASE ~(Len(rx[s]) < RxRoom)
  <2>1. /\ lines' = [lines EXCEPT ![typing[s].line].clean = FALSE]
        /\ rx' = rx /\ fresh' = fresh
    BY <1>6 DEF Send
  <2>2. typing[s].line \in DOMAIN lines BY <1>3 DEF SourceInv, TypedLast, Begun
  <2>3. /\ lines' \in Seq(LineRecords) /\ DOMAIN lines' = DOMAIN lines
        /\ \A i \in DOMAIN lines : /\ lines'[i].from = lines[i].from
                                   /\ i # typing[s].line => lines'[i] = lines[i]
    BY <1>1, <2>1, <2>2, SpoiledTypes
  <2>4. lines[typing[s].line].from = s BY <1>3 DEF SourceInv, TypedLast, Begun
  <2>5. SupervisorTypes' BY <1>2, <1>4, <2>1, <2>3 DEF SupervisorInv, SupervisorTypes
  <2>6. SourceInv(lines', s, rx[s], line[s], u, fresh[s])
    <3>1. SourceInv(Spoiled(lines, typing[s].line), s, rx[s], line[s], u, fresh[s])
      <4>1. PICK L \in Seq(LineRecords), r \in Seq(TextPieces), l \in Seq(TextPieces),
             t \in [line : Nat, next : Nat], f \in BOOLEAN :
        L = lines /\ r = rx[s] /\ l = line[s] /\ t = typing[s] /\ f = fresh[s]
        BY <1>1
      <4>2. /\ SourceInv(L, s, r, l, t, f) /\ t.line # 0
            /\ u.line = 0 \/ (u.line = t.line /\ u.next \in 1 .. L[t.line].len + 1)
        BY <1>3, <4>1, Zenon
      <4>3. SourceInv(Spoiled(L, t.line), s, r, l, u, f)
        BY <4>2, SpoiledLine
      <4> QED BY <4>1, <4>3, Zenon
    <3> QED BY <2>1, <3>1, Zenon DEF Spoiled
  <2>7. SourceOf(s)' BY <1>2, <1>4, <2>1, <2>6 DEF SourceOf
  <2>8. \A i \in DOMAIN lines : lines[i].from # s => lines'[i] = lines[i] BY <2>3, <2>4
  <2> QED BY <1>2, <1>4, <2>1, <2>3, <2>5, <2>7, <2>8, OneSourceSteps
<1> QED BY <1>5, <1>6

\* Of what a source is typing, as a step of it sees it.
LEMMA SourceFacts ==
    ASSUME SupervisorInv, NEW s \in Sources
    PROVE  /\ lines \in Seq(LineRecords) /\ rx[s] \in Seq(TextPieces) /\ line[s] \in Seq(TextPieces)
           /\ typing[s] \in [line : Nat, next : Nat] /\ fresh[s] \in BOOLEAN
           /\ SourceInv(lines, s, rx[s], line[s], typing[s], fresh[s])
  BY DEF SupervisorInv, SupervisorTypes

LEMMA SendNextKeeps ==
    ASSUME SupervisorInv, NEW s \in Sources, SendNext(s)
    PROVE  SupervisorInv'
<1>1. PICK L \in Seq(LineRecords), r \in Seq(TextPieces), l \in Seq(TextPieces),
           t \in [line : Nat, next : Nat], f \in BOOLEAN :
        /\ L = lines /\ r = rx[s] /\ l = line[s] /\ t = typing[s] /\ f = fresh[s]
        /\ SourceInv(L, s, r, l, t, f)
  BY SourceFacts
<1>2. t.line # 0 /\ UNCHANGED <<line, queued, replies>> BY <1>1 DEF SendNext
<1>3. t.line \in DOMAIN L /\ t.next \in 1 .. L[t.line].len + 1 BY <1>1, <1>2 DEF SourceInv, TypedLast, Begun
<1>4. L[t.line].len \in Nat BY <1>3, LineFacts
<1>5. CASE t.next > L[t.line].len
  <2>1. Send(s, 0) /\ typing' = [typing EXCEPT ![s] = Nothing] BY <1>1, <1>5 DEF SendNext
  <2>2. Nothing \in [line : Nat, next : Nat] /\ Nothing.line = 0 BY DEF Nothing
  <2>3. SourceInv(L, s, Append(r, <<t.line, 0>>), l, Nothing, TRUE)
    BY <1>1, <1>2, <1>5, NewlineTaken
  <2>4. SourceInv(lines, s, Append(rx[s], <<typing[s].line, 0>>), line[s], Nothing, 0 = 0)
    BY <1>1, <2>3
  <2>5. typing[s].line # 0 /\ 0 \in Nat \cup {Erase} BY <1>1, <1>2
  <2> QED BY <1>2, <2>1, <2>2, <2>4, <2>5, SendKeeps
<1>6. CASE ~(t.next > L[t.line].len)
  <2>1. Send(s, t.next) /\ typing' = [typing EXCEPT ![s].next = @ + 1] BY <1>1, <1>6 DEF SendNext
  <2>2. PICK u \in [line : Nat, next : Nat] :
          u = [t EXCEPT !.next = @ + 1] /\ u.line = t.line /\ u.next = t.next + 1
    <3>1. t.next + 1 \in Nat BY <1>3
    <3>2. /\ [t EXCEPT !.next = @ + 1] \in [line : Nat, next : Nat]
          /\ [t EXCEPT !.next = @ + 1].line = t.line /\ [t EXCEPT !.next = @ + 1].next = t.next + 1
      BY <3>1
    <3> QED BY <3>2
  <2>3. typing' = [typing EXCEPT ![s] = u]
    <3>1. typing \in [Sources -> [line : Nat, next : Nat]] BY DEF SupervisorInv, SupervisorTypes
    <3> QED BY <1>1, <2>1, <2>2, <3>1
  <2>4. u.next \in 1 .. L[t.line].len + 1 /\ t.next <= L[t.line].len BY <1>3, <1>4, <1>6, <2>2
  <2>5. SourceInv(L, s, Append(r, <<t.line, t.next>>), l, u, FALSE)
    BY <1>1, <1>2, <2>2, <2>4, PieceTaken
  <2>6. (t.next = 0) = FALSE /\ t.next \in Nat \cup {Erase} BY <1>3
  <2>7. SourceInv(lines, s, Append(rx[s], <<typing[s].line, t.next>>), line[s], u, t.next = 0)
    BY <1>1, <2>5, <2>6
  <2>8. /\ typing[s].line # 0 /\ u.line = typing[s].line
        /\ u.next \in 1 .. lines[typing[s].line].len + 1
    BY <1>1, <1>2, <2>2, <2>4
  <2> QED BY <1>2, <2>1, <2>3, <2>6, <2>7, <2>8, SendKeeps
<1> QED BY <1>5, <1>6

LEMMA SendEraseKeeps ==
    ASSUME SupervisorInv, NEW s \in Sources, SendErase(s)
    PROVE  SupervisorInv'
<1>1. PICK L \in Seq(LineRecords), r \in Seq(TextPieces), l \in Seq(TextPieces),
           t \in [line : Nat, next : Nat], f \in BOOLEAN :
        /\ L = lines /\ r = rx[s] /\ l = line[s] /\ t = typing[s] /\ f = fresh[s]
        /\ SourceInv(L, s, r, l, t, f)
  BY SourceFacts
<1>2. /\ t.line # 0 /\ UNCHANGED <<line, queued, replies>> /\ t.next > L[t.line].len /\ r = <<>>
      /\ Send(s, Erase) /\ typing' = [typing EXCEPT ![s].next = @ - 1]
  BY <1>1 DEF SendErase
<1>3. t.line \in DOMAIN L /\ t.next \in 1 .. L[t.line].len + 1 BY <1>1, <1>2 DEF SourceInv, TypedLast, Begun
<1>4. L[t.line].len \in Nat /\ L[t.line].len # 0 BY <1>3, LineFacts
<1>5. PICK u \in [line : Nat, next : Nat] :
        u = [t EXCEPT !.next = @ - 1] /\ u.line = t.line /\ u.next = t.next - 1
  <2>1. t.next - 1 \in Nat BY <1>3
  <2>2. /\ [t EXCEPT !.next = @ - 1] \in [line : Nat, next : Nat]
        /\ [t EXCEPT !.next = @ - 1].line = t.line /\ [t EXCEPT !.next = @ - 1].next = t.next - 1
    BY <2>1
  <2> QED BY <2>2
<1>6. typing' = [typing EXCEPT ![s] = u]
  <2>1. typing \in [Sources -> [line : Nat, next : Nat]] BY DEF SupervisorInv, SupervisorTypes
  <2> QED BY <1>1, <1>2, <1>5, <2>1
<1>7. u.next \in 1 .. L[t.line].len + 1 BY <1>2, <1>3, <1>4, <1>5
<1>8. SourceInv(L, s, <<>>, l, t, f) BY <1>1, <1>2
<1>9. SourceInv(L, s, Append(<<>>, <<t.line, Erase>>), l, u, FALSE)
  BY <1>2, <1>5, <1>8, BackspaceTaken
<1>10. (Erase = 0) = FALSE /\ Erase \in Nat \cup {Erase} BY DEF Erase
<1>11. SourceInv(lines, s, Append(rx[s], <<typing[s].line, Erase>>), line[s], u, Erase = 0)
  BY <1>1, <1>2, <1>9, <1>10
<1>12. /\ typing[s].line # 0 /\ u.line = typing[s].line
       /\ u.next \in 1 .. lines[typing[s].line].len + 1
  BY <1>1, <1>2, <1>5, <1>7
<1> QED BY <1>2, <1>6, <1>10, <1>11, <1>12, SendKeeps

LEMMA DisconnectKeeps ==
    ASSUME SupervisorInv, Disconnect
    PROVE  SupervisorInv'
<1> DEFINE s == "ble"
<1>0. s \in Sources BY DEF Sources
<1>1. PICK L \in Seq(LineRecords), r \in Seq(TextPieces), l \in Seq(TextPieces),
           t \in [line : Nat, next : Nat], f \in BOOLEAN :
        /\ L = lines /\ r = rx[s] /\ l = line[s] /\ t = typing[s] /\ f = fresh[s]
        /\ SourceInv(L, s, r, l, t, f)
  BY <1>0, SourceFacts
<1>2. Nothing \in [line : Nat, next : Nat] /\ Nothing.line = 0 BY DEF Nothing
<1>3. /\ typing' = [typing EXCEPT ![s] = Nothing]
      /\ lines' = IF t.line = 0 THEN L ELSE Spoiled(L, t.line)
      /\ UNCHANGED <<fresh, rx, line, queued, waiting>>
  BY <1>1 DEF Disconnect, Spoiled, replies
<1>4. /\ typing' \in [Sources -> [line : Nat, next : Nat]] /\ typing'[s] = Nothing
      /\ \A o \in Sources \ {s} : typing'[o] = typing[o]
  <2>1. typing \in [Sources -> [line : Nat, next : Nat]] BY DEF SupervisorInv, SupervisorTypes
  <2> QED BY <1>0, <1>2, <1>3, <2>1
<1> HIDE DEF s
<1>5. /\ lines' \in Seq(LineRecords) /\ DOMAIN lines' = DOMAIN L
      /\ \A i \in DOMAIN L : /\ lines'[i].from = L[i].from
                             /\ L[i].from # s => lines'[i] = L[i]
      /\ SourceInv(lines', s, r, l, Nothing, f)
  <2>1. CASE t.line = 0
    <3>1. lines' = L BY <1>3, <2>1
    <3>2. \A n \in DOMAIN L : t.line # n BY <2>1
    <3>3. CleanIsThere(L, s, r, l, Nothing) BY <1>1, <3>2 DEF SourceInv, CleanIsThere
    <3>4. TypedLast(L, s, r, l, Nothing) /\ HandledGone(L, s, r, l, Nothing)
      BY <1>1, <1>2, <2>1 DEF SourceInv, TypedLast, HandledGone
    <3>5. SourceInv(L, s, r, l, Nothing, f) BY <1>1, <3>3, <3>4 DEF SourceInv
    <3> QED BY <3>1, <3>5
  <2>2. CASE t.line # 0
    <3>1. lines' = Spoiled(L, t.line) BY <1>3, <2>2
    <3>2. SourceInv(Spoiled(L, t.line), s, r, l, Nothing, f) BY <1>0, <1>1, <1>2, <2>2, SpoiledLine
    <3>3. t.line \in DOMAIN L /\ L[t.line].from = s BY <1>1, <2>2 DEF SourceInv, TypedLast, Begun
    <3>4. /\ lines' \in Seq(LineRecords) /\ DOMAIN lines' = DOMAIN L
          /\ \A i \in DOMAIN L : lines'[i].from = L[i].from /\ (i # t.line => lines'[i] = L[i])
      BY <3>1, <3>3, SpoiledTypes DEF Spoiled
    <3>5. \A i \in DOMAIN L : L[i].from # s => lines'[i] = L[i] BY <3>3, <3>4
    <3> QED BY <3>1, <3>2, <3>4, <3>5
  <2> QED BY <2>1, <2>2
<1>6. SupervisorTypes' BY <1>3, <1>4, <1>5 DEF SupervisorInv, SupervisorTypes
<1>7. SourceOf(s)' BY <1>1, <1>3, <1>4, <1>5 DEF SourceOf
<1> QED BY <1>0, <1>1, <1>3, <1>4, <1>5, <1>6, <1>7, OneSourceSteps

LEMMA ConsumeKeeps ==
    ASSUME SupervisorInv, NEW s \in Sources, Consume(s)
    PROVE  SupervisorInv'
<1>1. PICK L \in Seq(LineRecords), r \in Seq(TextPieces), l \in Seq(TextPieces),
           t \in [line : Nat, next : Nat], f \in BOOLEAN :
        /\ L = lines /\ r = rx[s] /\ l = line[s] /\ t = typing[s] /\ f = fresh[s]
        /\ SourceInv(L, s, r, l, t, f)
  BY SourceFacts
<1>2. /\ rx \in [Sources -> Seq(TextPieces)] /\ line \in [Sources -> Seq(TextPieces)]
      /\ \A o \in Sources : Len(rx[o]) <= RxRoom /\ Len(line[o]) <= LineRoom
      /\ Len(l) <= LineRoom /\ queued \in 0 .. QueueDepth
  BY <1>1 DEF SupervisorInv, SupervisorTypes
<1>3. /\ r # <<>> /\ rx' = [rx EXCEPT ![s] = Tail(r)] /\ UNCHANGED <<typing, fresh, waiting>>
  BY <1>1 DEF Consume, peers, replies
<1>4. Head(r) = r[1] /\ 1 \in DOMAIN r /\ Tail(r) \in Seq(TextPieces)
      /\ Len(r) \in Nat /\ Len(Tail(r)) = Len(r) - 1
  BY <1>3, TailFacts
<1>5. r[1] \in TextPieces BY <1>4
<1>6. /\ rx' \in [Sources -> Seq(TextPieces)] /\ rx'[s] = Tail(r)
      /\ \A o \in Sources \ {s} : rx'[o] = rx[o]
  BY <1>2, <1>3, <1>4
<1>7. \A o \in Sources : Len(rx'[o]) <= RxRoom
  <2>1. Len(r) <= RxRoom /\ RxRoom \in Nat BY <1>1, <1>2, SupervisorAssumption
  <2>2. Len(Tail(r)) <= RxRoom BY <1>4, <2>1
  <2> QED BY <1>2, <1>6, <2>2
<1> DEFINE Fits(m, M) ==
      /\ m \in Seq(TextPieces) /\ Len(m) <= LineRoom /\ line' = [line EXCEPT ![s] = m]
      /\ M \in Seq(LineRecords) /\ DOMAIN M = DOMAIN L /\ lines' = M /\ queued' \in 0 .. QueueDepth
      /\ \A n \in DOMAIN L : M[n].from = L[n].from /\ (L[n].from # s => M[n] = L[n])
      /\ SourceInv(M, s, Tail(r), m, t, f)
<1>8. \E m, M : Fits(m, M)
  <2>1. CASE r[1][2] = 0
    <3>1. Newline(s)
      <4>1. Head(rx[s])[2] = 0 BY <1>1, <1>4, <2>1
      <4>2. 0 # Erase BY DEF Erase
      <4> QED BY <4>1, <4>2 DEF Consume
    <3>2. line' = [line EXCEPT ![s] = <<>>] BY <3>1 DEF Newline
    <3>3. lines' = HandedOver(l)
      BY <1>1, <3>1 DEF Newline, Handle, HandedOver
    <3>4. queued' \in 0 .. QueueDepth
      <4>1. queued' = queued \/ PublishCommand BY <3>1 DEF Newline, Handle, Answer
      <4>2. CASE queued' = queued BY <1>2, <4>2
      <4>3. CASE PublishCommand
        <5>1. QueueDepth \in Nat BY SupervisorAssumption
        <5> QED BY <1>2, <4>3, <5>1 DEF PublishCommand
      <4> QED BY <4>1, <4>2, <4>3
    <3>5. SourceInv(lines, s, r, l, t, f) /\ lines \in Seq(LineRecords) BY <1>1
    <3>6. /\ HandedOver(l) \in Seq(LineRecords) /\ DOMAIN HandedOver(l) = DOMAIN L
          /\ \A n \in DOMAIN L : /\ HandedOver(l)[n].from = L[n].from
                                 /\ L[n].from # s => HandedOver(l)[n] = L[n]
          /\ SourceInv(HandedOver(l), s, Tail(r), <<>>, t, f)
      BY <1>1, <1>3, <2>1, <3>5, NewlineConsumed
    <3>7. <<>> \in Seq(TextPieces) /\ Len(<<>>) <= LineRoom BY SupervisorAssumption
    <3>8. Fits(<<>>, HandedOver(l)) BY <3>2, <3>3, <3>4, <3>6, <3>7
    <3> HIDE DEF Fits
    <3> QED BY <3>8
  <2>2. CASE r[1][2] = Erase
    <3>1. Erase # 0 BY DEF Erase
    <3>2. Backspace(s) BY <1>1, <1>3, <1>4, <2>2, <3>1 DEF Consume
    <3>3. line' = [line EXCEPT ![s] = Shortened(l)] /\ lines' = L /\ queued' = queued
      BY <1>1, <3>2 DEF Backspace, Shortened
    <3>4. /\ Shortened(l) \in Seq(TextPieces) /\ Len(Shortened(l)) <= Len(l)
          /\ SourceInv(L, s, Tail(r), Shortened(l), t, f)
      BY <1>1, <1>3, <2>2, BackspaceConsumed
    <3>5. Len(Shortened(l)) <= LineRoom
      <4>1. PICK a, b, c \in Nat : a = Len(Shortened(l)) /\ b = Len(l) /\ c = LineRoom
        BY <3>4, SupervisorAssumption
      <4> QED BY <1>2, <3>4, <4>1
    <3>6. Fits(Shortened(l), L) BY <1>2, <3>3, <3>4, <3>5
    <3> HIDE DEF Fits
    <3> QED BY <3>6
  <2>3. CASE r[1][2] # 0 /\ r[1][2] # Erase
    <3>1. Printable(s, r[1]) BY <1>1, <1>3, <1>4, <2>3 DEF Consume
    <3>2. line' = [line EXCEPT ![s] = Extended(l, r[1])] /\ lines' = L /\ queued' = queued
      BY <1>1, <3>1 DEF Printable, Extended
    <3>3. r[1][2] > 0 BY <1>5, <2>3 DEF TextPieces
    <3>4. /\ Extended(l, r[1]) \in Seq(TextPieces) /\ Len(Extended(l, r[1])) <= LineRoom
          /\ SourceInv(L, s, Tail(r), Extended(l, r[1]), t, f)
      BY <1>1, <1>2, <1>3, <2>3, <3>3, PrintableConsumed
    <3>5. Fits(Extended(l, r[1]), L) BY <1>2, <3>2, <3>4
    <3> HIDE DEF Fits
    <3> QED BY <3>5
  <2> QED BY <2>1, <2>2, <2>3
<1>9. PICK m, M : Fits(m, M) BY <1>8
<1>10. /\ line' \in [Sources -> Seq(TextPieces)] /\ line'[s] = m
       /\ \A o \in Sources \ {s} : line'[o] = line[o]
  BY <1>2, <1>9
<1>11. \A o \in Sources : Len(line'[o]) <= LineRoom BY <1>2, <1>9, <1>10
<1>12. SupervisorTypes'
  BY <1>3, <1>6, <1>7, <1>9, <1>10, <1>11 DEF SupervisorInv, SupervisorTypes
<1>13. SourceOf(s)' BY <1>1, <1>3, <1>6, <1>9, <1>10 DEF SourceOf
<1> QED BY <1>1, <1>3, <1>6, <1>9, <1>10, <1>12, <1>13, OneSourceSteps

LEMMA InitSupervisorInv == SupervisorInit => SupervisorInv
<1> SUFFICES ASSUME SupervisorInit PROVE SupervisorInv OBVIOUS
<1>1. <<>> \in Seq(TextPieces) /\ <<>> \in Seq(LineRecords) /\ Len(<<>>) = 0 OBVIOUS
<1>2. Nothing \in [line : Nat, next : Nat] BY DEF Nothing
<1>3. SupervisorTypes BY <1>1, <1>2, SupervisorAssumption DEF SupervisorInit, SupervisorTypes
<1>4. ASSUME NEW s \in Sources PROVE SourceInv(<<>>, s, <<>>, <<>>, Nothing, TRUE)
  BY DEF SourceInv, PiecesInOrder, TypedLast, HandledGone, FreshIsFresh, CleanIsThere, Nothing
<1>5. ASSUME NEW s \in Sources PROVE SourceInv(lines, s, rx[s], line[s], typing[s], fresh[s])
  BY <1>4 DEF SupervisorInit
<1> QED BY <1>3, <1>5 DEF SupervisorInv

LEMMA NextSupervisorInv == SupervisorInv /\ [SupervisorNext]_supervisorVars => SupervisorInv'
<1> SUFFICES ASSUME SupervisorInv, [SupervisorNext]_supervisorVars PROVE SupervisorInv' OBVIOUS
<1>0. SupervisorTypes /\ \A s \in Sources : SourceInv(lines, s, rx[s], line[s], typing[s], fresh[s])
  BY DEF SupervisorInv
<1>1. CASE UNCHANGED <<lines, typing, fresh, rx, line>> /\ queued' \in 0 .. QueueDepth
           /\ waiting' \in 0 .. EgressDepth
  BY <1>0, <1>1 DEF SupervisorInv, SupervisorTypes
<1>2. CASE Connect \/ UNCHANGED supervisorVars
  <2>1. UNCHANGED <<lines, typing, fresh, rx, line, queued, waiting>>
    BY <1>2 DEF Connect, supervisorVars, peers, replies
  <2> QED BY <1>0, <1>1, <2>1 DEF SupervisorTypes
<1>3. CASE Drain
  <2>1. UNCHANGED <<lines, typing, fresh, rx, line, queued>> /\ waiting > 0 /\ waiting' = waiting - 1
    BY <1>3 DEF Drain, peers
  <2> QED BY <1>0, <1>1, <2>1, SupervisorAssumption DEF SupervisorTypes
<1>4. CASE ProcessInput
  <2>1. /\ UNCHANGED <<lines, typing, fresh, rx, line>> /\ queued > 0 /\ queued' = queued - 1
        /\ (waiting < EgressDepth /\ waiting' = waiting + 1) \/ waiting' = waiting
    BY <1>4 DEF ProcessInput, PublishReply, peers
  <2>2. QueueDepth \in Nat /\ EgressDepth \in Nat BY SupervisorAssumption
  <2>3. queued \in 0 .. QueueDepth /\ waiting \in 0 .. EgressDepth BY <1>0 DEF SupervisorTypes
  <2>4. queued' \in 0 .. QueueDepth /\ waiting' \in 0 .. EgressDepth BY <2>1, <2>2, <2>3
  <2> QED BY <1>1, <2>1, <2>4
<1>5. CASE Disconnect BY <1>5, DisconnectKeeps
<1>6. ASSUME NEW s \in Sources, StartLine(s) \/ SendNext(s) \/ SendErase(s) \/ Consume(s)
      PROVE  SupervisorInv'
  BY <1>6, StartLineKeeps, SendNextKeeps, SendEraseKeeps, ConsumeKeeps
<1> QED BY <1>2, <1>3, <1>4, <1>5, <1>6 DEF SupervisorNext, SupervisorTask

LEMMA SupervisorInvImplies == SupervisorInv => LineInv
<1> SUFFICES ASSUME SupervisorInv PROVE LineInv OBVIOUS
<1>1. SupervisorTypeOK
  <2>1. \A n \in DOMAIN lines : lines[n].fate \in {"sent", "handled", "twice"}
    <3>1. lines \in Seq(LineRecords) BY DEF SupervisorInv, SupervisorTypes
    <3>2. \A n \in DOMAIN lines : lines[n] \in LineRecords BY <3>1
    <3> QED BY <3>2 DEF LineRecords
  <2> QED BY <2>1 DEF SupervisorInv, SupervisorTypes, SupervisorTypeOK
<1>2. ASSUME NEW n \in DOMAIN lines
      PROVE  /\ lines[n].fate # "twice"
             /\ lines[n].clean /\ lines[n].fate = "sent" =>
                   \/ typing[lines[n].from].line = n
                   \/ <<n, 0>> \in Range(rx[lines[n].from])
  <2>1. PICK s \in Sources : s = lines[n].from
    <3>1. lines \in Seq(LineRecords) BY DEF SupervisorInv, SupervisorTypes
    <3> QED BY <3>1, LineFacts DEF LineRecords
  <2>2. PICK L \in Seq(LineRecords), r \in Seq(TextPieces), l \in Seq(TextPieces),
             t \in [line : Nat, next : Nat], f \in BOOLEAN :
          /\ L = lines /\ r = rx[s] /\ l = line[s] /\ t = typing[s] /\ f = fresh[s]
          /\ SourceInv(L, s, r, l, t, f)
    BY SourceFacts
  <2>3. L[n].fate # "twice" BY <2>1, <2>2 DEF SourceInv, HandledGone
  <2>4. ASSUME L[n].clean, L[n].fate = "sent" PROVE t.line = n \/ <<n, 0>> \in Range(r)
    <3>1. t.line = n \/ \E j \in 1 .. Len(r) : r[j] = <<n, 0>>
      BY <2>1, <2>2, <2>4 DEF SourceInv, CleanIsThere
    <3>2. DOMAIN r = 1 .. Len(r) OBVIOUS
    <3> QED BY <3>1, <3>2 DEF Range
  <2> QED BY <2>1, <2>2, <2>3, <2>4
<1> QED BY <1>1, <1>2 DEF LineInv, LinesArriveWhole

\* LineInv holds of every size of the buffers, the line and the queues: whatever
\* is refused, cut off or erased on the way, a clean line is handled at most once,
\* and it is being typed or its newline is in the buffer until then (consumeBytes,
\* characteristicAccess).
THEOREM SupervisorLines == SupervisorSpec => []LineInv
<1>1. SupervisorInit => SupervisorInv BY InitSupervisorInv
<1>2. SupervisorInv /\ [SupervisorNext]_supervisorVars => SupervisorInv' BY NextSupervisorInv
<1>3. SupervisorInv => LineInv BY SupervisorInvImplies
<1> QED BY <1>1, <1>2, <1>3, PTL DEF SupervisorSpec
=============================================================================
