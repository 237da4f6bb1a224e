------------------------ MODULE BleTransport_proofs ------------------------
(***************************************************************************)
(* Proofs about BleTransport for every size of its buffers, calls, frames  *)
(* and notifications: the device can be found, frames are whole, and a     *)
(* dump that is seen to begin and end arrives clean.                       *)
(*                                                                         *)
(* What was received, what the task holds and what waits in its buffer are *)
(* one stream: notifications move the border between them, a discarded     *)
(* scratch buffer cuts a piece out of the middle, writers append.          *)
(***************************************************************************)
EXTENDS BleTransport, SequenceTheorems, TLAPS

-----------------------------------------------------------------------------
(* The inductive invariant *)

Writers == {"text", "dump", "tail", "frame"}
UnitTypes == Writers \X Nat \X Nat

Types ==
    /\ buf \in [Channels -> Seq(UnitTypes)]
    /\ hand \in [Channels -> Seq(UnitTypes)]
    /\ at \in [Channels -> {"wait", "check", "send"}]
    /\ got \in [Channels -> Seq([u : UnitTypes, e : Nat])]
    /\ dumpActive \in BOOLEAN
    /\ text \in [n : Nat, at : {"idle", "write"}]
    /\ dump \in [n : Nat, at : {"none", "send", "failed"}, sent : 0 .. DumpUnits]
    /\ frames \in Nat

Up(ch) == link # 0 /\ ch \in subs

\* The peers of the past came before the present one.
EpochsPass ==
    \A ch \in Channels : \A i \in 1 .. Len(got[ch]) :
        /\ got[ch][i].e <= epoch
        /\ \A j \in i .. Len(got[ch]) : got[ch][i].e <= got[ch][j].e

\* How many units of frames handed over so far come after this one.
AfterOf(f, u) == FrameUnits * (f - u[2]) + (FrameUnits - u[3])
After(u) == AfterOf(frames, u)

HandRest == Len(hand["trace"]) + Len(buf["trace"])

\* A unit of a frame, and `n` units of the frames after it.
FrameUnit(u, n) ==
    u[1] = "frame" /\ u[3] \in 1 .. FrameUnits /\ After(u) = n

\* The newest frames wait, in whole; the task holds the end of one frame.
FramesWait ==
    /\ \A i \in 1 .. Len(buf["trace"]) : FrameUnit(buf["trace"][i], Len(buf["trace"]) - i)
    /\ \A i \in 1 .. Len(hand["trace"]) : FrameUnit(hand["trace"][i], HandRest - i)
    /\ at["trace"] = "check" => Len(hand["trace"]) = FrameUnits

\* What the peer received last ends a frame, or the rest of it is about to come,
\* or nothing comes to that peer any more.
FramesGoOn ==
    LET g == got["trace"] IN
    g # <<>> =>
        LET l == g[Len(g)] IN
        /\ l.u[1] = "frame" /\ l.u[3] \in 1 .. FrameUnits /\ After(l.u) >= HandRest
        /\ l.e = epoch =>
              IF at["trace"] = "send"
              THEN After(l.u) = HandRest
                   \/ (l.u[3] = FrameUnits /\ Len(hand["trace"]) = FrameUnits)
              ELSE l.u[3] = FrameUnits \/ ~Up("trace")

\* The stream of the text channel.
Received == Len(got["tx"])
Held == Len(hand["tx"])
Total == Received + Held + Len(buf["tx"])
Stream ==
    [i \in 1 .. Total |->
        IF i <= Received THEN got["tx"][i].u
        ELSE IF i <= Received + Held THEN hand["tx"][i - Received]
        ELSE buf["tx"][i - Received - Held]]

IsDump(u) == u[1] = "dump"
DumpUnit(m) == <<"dump", dump.n, m>>

\* Dumps are written one after the other, each from its first unit on.
Precedes(u, v) == u[2] < v[2] \/ (u[2] = v[2] /\ u[3] < v[3])

DumpsInOrder ==
    /\ \A i \in 1 .. Total : IsDump(Stream[i]) =>
          /\ Stream[i][3] \in 1 .. DumpUnits
          /\ Stream[i][2] <= dump.n
          /\ Stream[i][2] = dump.n => Stream[i][3] <= dump.sent
    /\ \A i, j \in 1 .. Total :
          i < j /\ IsDump(Stream[i]) /\ IsDump(Stream[j]) => Precedes(Stream[i], Stream[j])

\* The supervisor writes what it checked before the dump task can send.
TextKeepsOut ==
    /\ text.at = "write" => dump.at = "none" \/ dump.sent = 0
    /\ \A i, j \in 1 .. Total :
          i < j /\ IsDump(Stream[i]) /\ Stream[j][1] = "text"
          => Stream[i][2] < dump.n \/ dump.at = "none"
    /\ \A i, j, k \in 1 .. Total :
          i < j /\ j < k /\ IsDump(Stream[i]) /\ IsDump(Stream[k]) /\ Stream[i][2] = Stream[k][2]
          => Stream[j][1] # "text"

\* From one unit to a later one none of the later one's dump is missing.
Whole(i, j) ==
    /\ Stream[i][2] = Stream[j][2] =>
          \A m \in Stream[i][3] .. Stream[j][3] :
              \E r \in i .. j : Stream[r] = <<"dump", Stream[j][2], m>>
    /\ Stream[i][2] < Stream[j][2] =>
          \A m \in 1 .. Stream[j][3] :
              \E r \in i .. j : Stream[r] = <<"dump", Stream[j][2], m>>

\* The same up to what the dump task has written.
WholeSoFar(i) ==
    /\ Stream[i][2] = dump.n =>
          \A m \in Stream[i][3] .. dump.sent : \E r \in i .. Total : Stream[r] = DumpUnit(m)
    /\ Stream[i][2] < dump.n =>
          \A m \in 1 .. dump.sent : \E r \in i .. Total : Stream[r] = DumpUnit(m)

\* A unit the present peer has received, whose successors it will receive too if it
\* receives anything, or one that is still to be sent.
Linked(i) ==
    \/ i > Received
    \/ got["tx"][i].e = epoch /\ (Up("tx") \/ at["tx"] = "send")

SamePeer(i, j) ==
    \/ j > Received /\ Linked(i)
    \/ j <= Received /\ got["tx"][i].e = got["tx"][j].e

NothingMissing ==
    /\ \A i, j \in 1 .. Total :
          i <= j /\ IsDump(Stream[i]) /\ IsDump(Stream[j]) /\ SamePeer(i, j) => Whole(i, j)
    /\ \A i \in 1 .. Total : IsDump(Stream[i]) /\ Linked(i) => WholeSoFar(i)

FrameInv == EpochsPass /\ FramesWait /\ FramesGoOn /\ FramesAreWhole
OrderInv == DumpsInOrder /\ TextKeepsOut

IInv == Types /\ LinkIsSound /\ FrameInv /\ OrderInv /\ NothingMissing

-----------------------------------------------------------------------------
(* Constants and sequences *)

LEMMA ConstantFacts ==
    /\ TxRoom \in Nat /\ TxRoom > 0 /\ Scratch \in Nat /\ Scratch > 0
    /\ TextUnits \in Nat /\ Call \in Nat /\ Call > 0 /\ Calls \in Nat /\ Calls > 0
    /\ FrameUnits \in Nat /\ FrameUnits > 0 /\ FrameRoom \in Nat
    /\ DumpUnits \in Nat /\ DumpUnits = Call * Calls
    /\ MaxEpochs \in Nat
BY TransportAssumption, LinkAssumption DEF DumpUnits

LEMMA ChannelFacts ==
    /\ "tx" \in Channels /\ "trace" \in Channels /\ "tx" # "trace"
    /\ \A ch \in Channels : ch = "tx" \/ ch = "trace"
BY DEF Channels

\* A unit is known by its writer, number and place.
LEMMA UnitFacts ==
    /\ \A u \in UnitTypes : /\ u = <<u[1], u[2], u[3]>> /\ u[2] \in Nat /\ u[3] \in Nat
                            /\ u[1] \in Writers
    /\ \A by \in Writers, n \in Nat, m \in Nat :
          /\ <<by, n, m>> \in UnitTypes
          /\ <<by, n, m>>[1] = by /\ <<by, n, m>>[2] = n /\ <<by, n, m>>[3] = m
BY DEF UnitTypes

\* The sequence of `c` units of one writer, from a place on.
IsUnits(w, by, n, from, c) ==
    /\ w \in Seq(UnitTypes) /\ Len(w) = c
    /\ \A i \in 1 .. c : w[i] = <<by, n, from + i - 1>>

LEMMA UnitsFacts ==
    ASSUME NEW by \in Writers, NEW n \in Nat,
           NEW from \in Nat, NEW to \in Nat, NEW c \in Nat, to + 1 = from + c
    PROVE  IsUnits(Units(by, n, from, to), by, n, from, c)
<1> DEFINE w == [i \in 1 .. c |-> <<by, n, from + i - 1>>]
<1>1. to - from + 1 = c OBVIOUS
<1>2. \A i \in 1 .. c : from + i - 1 \in Nat OBVIOUS
<1>3. \A i \in 1 .. c : <<by, n, from + i - 1>> \in UnitTypes BY <1>2, UnitFacts
<1>4. w = Units(by, n, from, to) BY <1>1 DEF Units
<1>5. w \in Seq(UnitTypes) /\ Len(w) = c BY <1>3
<1>6. \A i \in 1 .. c : w[i] = <<by, n, from + i - 1>> OBVIOUS
<1> QED BY <1>4, <1>5, <1>6 DEF IsUnits

\* The first n units are taken out of a sequence.
LEMMA CutFacts ==
    ASSUME NEW S, NEW s \in Seq(S), NEW n \in 0 .. Len(s)
    PROVE  /\ SubSeq(s, 1, n) \in Seq(S) /\ Len(SubSeq(s, 1, n)) = n
           /\ \A i \in 1 .. n : SubSeq(s, 1, n)[i] = s[i]
           /\ SubSeq(s, n + 1, Len(s)) \in Seq(S)
           /\ Len(SubSeq(s, n + 1, Len(s))) = Len(s) - n
           /\ \A i \in 1 .. Len(s) - n : SubSeq(s, n + 1, Len(s))[i] = s[n + i]
<1>1. Len(s) \in Nat OBVIOUS
<1>2. /\ SubSeq(s, 1, n) \in Seq(S) /\ Len(SubSeq(s, 1, n)) = n
      /\ \A i \in 1 .. n : SubSeq(s, 1, n)[i] = s[i]
  OBVIOUS
<1>3. /\ SubSeq(s, n + 1, Len(s)) \in Seq(S)
      /\ Len(SubSeq(s, n + 1, Len(s))) = Len(s) - n
      /\ \A i \in 1 .. Len(s) - n : SubSeq(s, n + 1, Len(s))[i] = s[n + i]
  <2>1. CASE n = Len(s) BY <1>1, <2>1, EmptySeq
  <2>2. CASE n < Len(s) BY <1>1, <2>2
  <2> QED BY <1>1, <2>1, <2>2
<1> QED BY <1>2, <1>3

LEMMA JoinFacts ==
    ASSUME NEW S, NEW s \in Seq(S), NEW t \in Seq(S)
    PROVE  /\ s \o t \in Seq(S) /\ Len(s \o t) = Len(s) + Len(t)
           /\ \A i \in 1 .. Len(s) : (s \o t)[i] = s[i]
           /\ \A i \in 1 .. Len(t) : (s \o t)[Len(s) + i] = t[i]
OBVIOUS

LEMMA TailFacts ==
    ASSUME NEW S, NEW s \in Seq(S), s # <<>>
    PROVE  /\ Len(s) \in Nat \ {0}
           /\ Head(s) = s[1] /\ Head(s) \in S
           /\ Tail(s) \in Seq(S) /\ Len(Tail(s)) = Len(s) - 1
           /\ \A i \in 1 .. Len(s) - 1 : Tail(s)[i] = s[i + 1]
OBVIOUS

-----------------------------------------------------------------------------
(* What a dump writes *)

LEMMA DivisionFact ==
    ASSUME NEW m \in Nat, m > 0, NEW a \in Nat
    PROVE  a = m * (a \div m) + (a % m) /\ a % m \in 0 .. (m - 1) /\ a \div m \in Int
OBVIOUS

\* A blocking call sends what is left of it, at most.
LEMMA FitFacts ==
    ASSUME Types, LinkIsSound
    PROVE  /\ Room \in Nat
           /\ \A n \in Nat : Fit(n) \in 0 .. n /\ Fit(n) <= Room
           /\ dump.sent < DumpUnits => CallRest \in Nat /\ CallRest > 0 /\ dump.sent + CallRest <= DumpUnits
<1>1. Room \in Nat
  BY ConstantFacts, ChannelFacts DEF Types, LinkIsSound, TypeOK, Room
<1>2. \A n \in Nat : Fit(n) \in 0 .. n /\ Fit(n) <= Room BY <1>1 DEF Fit
<1>3. ASSUME dump.sent < DumpUnits
      PROVE  CallRest \in Nat /\ CallRest > 0 /\ dump.sent + CallRest <= DumpUnits
  <2> DEFINE x == dump.sent
             q == x \div Call
             r == x % Call
  <2>1. x \in Nat BY ConstantFacts DEF Types
  <2>2. x = Call * q + r /\ r \in 0 .. (Call - 1) /\ q \in Int BY <2>1, ConstantFacts, DivisionFact
  <2> HIDE DEF q, r, x
  <2>3. x < Call * Calls BY <1>3, ConstantFacts DEF x
  <2>4. q < Calls
    <3> SUFFICES ASSUME q >= Calls PROVE FALSE BY <2>2, ConstantFacts
    <3>1. Call * q >= Call * Calls BY <2>2, ConstantFacts
    <3>2. Call * q \in Int /\ Call * Calls \in Int BY <2>2, ConstantFacts
    <3> QED BY <2>1, <2>2, <2>3, <3>1, <3>2, ConstantFacts
  <2>5. Call * (q + 1) <= Call * Calls BY <2>2, <2>4, ConstantFacts
  <2>6. Call * (q + 1) = Call * q + Call /\ Call * q \in Int BY <2>2, ConstantFacts
  <2>7. x + (Call - r) <= Call * Calls BY <2>1, <2>2, <2>5, <2>6, ConstantFacts
  <2>8. CallRest = Call - r BY DEF CallRest, r, x
  <2> QED BY <2>2, <2>7, <2>8, ConstantFacts DEF x
<1> QED BY <1>1, <1>2, <1>3

-----------------------------------------------------------------------------
(* The link *)

\* Advertising begins, or the controller is known to have refused.
LEMMA AdvertisingFacts == StartAdvertising => deaf' \/ advertising'
<1> SUFFICES ASSUME StartAdvertising PROVE deaf' \/ advertising' OBVIOUS
<1>1. PICK accepted \in BOOLEAN : advertising' = accepted /\ deaf' = ~accepted
  BY DEF StartAdvertising
<1>2. CASE accepted BY <1>1, <1>2
<1>3. CASE ~accepted BY <1>1, <1>3
<1> QED BY <1>2, <1>3

\* Every event of the link leaves it well-formed and the device to be found.
LEMMA LinkStep ==
    ASSUME LinkTypeOK, CanBeFound, LinkEvent
    PROVE  LinkTypeOK' /\ CanBeFound'
<1> DEFINE Numbers == link \in 0 .. MaxEpochs /\ epoch \in link .. MaxEpochs
           Flags == advertising \in BOOLEAN /\ synced \in BOOLEAN /\ deaf \in BOOLEAN
<1>1. Numbers /\ Flags /\ subs \subseteq Channels /\ MaxEpochs \in Nat
  BY LinkAssumption DEF LinkTypeOK
<1>2. /\ link' \in 0 .. MaxEpochs /\ epoch' \in link' .. MaxEpochs
      /\ epoch' > epoch => link' # 0 \/ UNCHANGED <<link, advertising, synced, deaf>>
  BY <1>1 DEF LinkEvent, Connect, ConnectFails, Disconnect, Subscribe, AdvComplete, OnReset, OnSync, Turn
<1>3. advertising' \in BOOLEAN /\ synced' \in BOOLEAN /\ deaf' \in BOOLEAN
  BY <1>1 DEF LinkEvent, Connect, ConnectFails, Disconnect, Subscribe, AdvComplete, OnReset, OnSync,
              StartAdvertising
<1>4. subs' \subseteq Channels
  BY <1>1 DEF LinkEvent, Connect, ConnectFails, Disconnect, Subscribe, AdvComplete, OnReset, OnSync
<1>5. LinkTypeOK' BY <1>2, <1>3, <1>4 DEF LinkTypeOK
<1>6. CanBeFound'
  <2>1. CASE Connect
    <3>1. link' = epoch + 1 BY <2>1 DEF Connect, Turn
    <3>2. link' # 0 BY <1>1, <3>1
    <3> QED BY <3>2 DEF CanBeFound
  <2>2. CASE ConnectFails \/ Disconnect \/ OnSync
    <3>1. deaf' \/ advertising'
      BY <2>2, AdvertisingFacts DEF ConnectFails, Disconnect, OnSync
    <3> QED BY <3>1 DEF CanBeFound
  <2>3. CASE Subscribe BY <2>3 DEF Subscribe, CanBeFound
  <2>4. CASE AdvComplete
    <3>1. CASE link = 0
      <4>1. deaf' \/ advertising' BY <2>4, <3>1, AdvertisingFacts DEF AdvComplete
      <4> QED BY <4>1 DEF CanBeFound
    <3>2. CASE link # 0
      <4>1. link' # 0 BY <2>4, <3>2 DEF AdvComplete
      <4> QED BY <4>1 DEF CanBeFound
    <3> QED BY <3>1, <3>2
  <2>5. CASE OnReset
    <3>1. ~synced' BY <2>5 DEF OnReset
    <3> QED BY <3>1 DEF CanBeFound
  <2> QED BY <2>1, <2>2, <2>3, <2>4, <2>5 DEF LinkEvent
<1> QED BY <1>5, <1>6

\* A connection or a subscription counts an epoch; nothing else brings one about.
LEMMA LinkTurns ==
    ASSUME LinkTypeOK, LinkEvent
    PROVE  /\ epoch' = epoch \/ epoch' = epoch + 1
           /\ epoch' = epoch => \A ch \in Channels : Up(ch)' => Up(ch)
<1>1. CASE Connect BY <1>1 DEF Connect, Turn
<1>2. CASE ConnectFails BY <1>2 DEF ConnectFails, Up
<1>3. CASE Disconnect BY <1>3 DEF Disconnect, Up
<1>4. CASE Subscribe BY <1>4 DEF Subscribe, Turn
<1>5. CASE AdvComplete BY <1>5 DEF AdvComplete, Up
<1>6. CASE OnReset BY <1>6 DEF OnReset, Up
<1>7. CASE OnSync BY <1>7 DEF OnSync, Up
<1>8. epoch \in Nat /\ MaxEpochs \in Nat BY LinkAssumption DEF LinkTypeOK
<1>9. epoch' = epoch + 1 => epoch' # epoch BY <1>8
<1> QED BY <1>1, <1>2, <1>3, <1>4, <1>5, <1>6, <1>7, <1>9 DEF LinkEvent, Connect, Subscribe, Turn

-----------------------------------------------------------------------------
(* What the sending tasks and the writers do to a channel *)

\* There is something to take, and it fits the scratch buffer.
LEMMA TakeFacts ==
    ASSUME Types, LinkIsSound, NEW ch \in Channels, buf[ch] # <<>>
    PROVE  /\ TakeSize(ch) \in 1 .. Len(buf[ch])
           /\ TakeSize(ch) <= (IF ch = "tx" THEN Scratch ELSE FrameUnits)
           /\ ch = "trace" => TakeSize(ch) = FrameUnits
<1>1. Len(buf[ch]) \in Nat /\ Len(buf[ch]) > 0
  <2>1. buf[ch] \in Seq(UnitTypes) BY DEF Types
  <2> QED BY <2>1, EmptySeq
<1>2. CASE ch = "trace"
  <2>1. PICK n \in 0 .. FrameRoom : Len(buf[ch]) = FrameUnits * n
    BY <1>2 DEF LinkIsSound, TypeOK
  <2>2. n # 0 BY <1>1, <2>1, ConstantFacts
  <2>3. FrameUnits * n >= FrameUnits BY <2>2, ConstantFacts
  <2> QED BY <1>1, <1>2, <2>1, <2>3, ConstantFacts DEF TakeSize
<1>3. CASE ch = "tx" BY <1>1, <1>3, ConstantFacts DEF TakeSize
<1> QED BY <1>2, <1>3, ChannelFacts

LEMMA ReceiveFacts ==
    ASSUME Types, LinkIsSound, NEW ch \in Channels, Receive(ch)
    PROVE  /\ Len(hand[ch]) = 0 /\ at[ch] = "wait"
           /\ \E n \in 1 .. Len(buf[ch]) :
                /\ n <= (IF ch = "tx" THEN Scratch ELSE FrameUnits)
                /\ ch = "trace" => n = FrameUnits
                /\ hand'[ch] \in Seq(UnitTypes) /\ Len(hand'[ch]) = n
                /\ \A i \in 1 .. n : hand'[ch][i] = buf[ch][i]
                /\ buf'[ch] \in Seq(UnitTypes) /\ Len(buf'[ch]) = Len(buf[ch]) - n
                /\ \A i \in 1 .. Len(buf[ch]) - n : buf'[ch][i] = buf[ch][n + i]
           /\ at' = [at EXCEPT ![ch] = "check"]
           /\ \A c \in Channels \ {ch} : hand'[c] = hand[c] /\ buf'[c] = buf[c]
           /\ hand' \in [Channels -> Seq(UnitTypes)] /\ buf' \in [Channels -> Seq(UnitTypes)]
           /\ UNCHANGED <<linkVars, got, writers>>
<1> DEFINE n == TakeSize(ch)
<1>1. /\ buf \in [Channels -> Seq(UnitTypes)] /\ hand \in [Channels -> Seq(UnitTypes)]
      /\ at[ch] = "wait" /\ buf[ch] # <<>>
      /\ hand' = [hand EXCEPT ![ch] = SubSeq(buf[ch], 1, n)]
      /\ buf' = [buf EXCEPT ![ch] = SubSeq(buf[ch], n + 1, Len(buf[ch]))]
  BY DEF Receive, Types
<1>2. hand[ch] = <<>> /\ Len(hand[ch]) = 0 /\ at' = [at EXCEPT ![ch] = "check"]
  BY <1>1, EmptySeq DEF LinkIsSound, TypeOK, Receive
<1>3. /\ n \in 1 .. Len(buf[ch]) /\ (ch = "trace" => n = FrameUnits)
      /\ n <= (IF ch = "tx" THEN Scratch ELSE FrameUnits)
  BY <1>1, TakeFacts
<1> HIDE DEF n
<1>4. buf[ch] \in Seq(UnitTypes) /\ n \in 0 .. Len(buf[ch]) BY <1>1, <1>3
<1>5. /\ SubSeq(buf[ch], 1, n) \in Seq(UnitTypes) /\ Len(SubSeq(buf[ch], 1, n)) = n
      /\ \A i \in 1 .. n : SubSeq(buf[ch], 1, n)[i] = buf[ch][i]
      /\ SubSeq(buf[ch], n + 1, Len(buf[ch])) \in Seq(UnitTypes)
      /\ Len(SubSeq(buf[ch], n + 1, Len(buf[ch]))) = Len(buf[ch]) - n
      /\ \A i \in 1 .. Len(buf[ch]) - n : SubSeq(buf[ch], n + 1, Len(buf[ch]))[i] = buf[ch][n + i]
  BY <1>4, CutFacts
<1>6. hand'[ch] = SubSeq(buf[ch], 1, n) /\ buf'[ch] = SubSeq(buf[ch], n + 1, Len(buf[ch]))
  BY <1>1
<1>7. \A c \in Channels \ {ch} : hand'[c] = hand[c] /\ buf'[c] = buf[c]
  BY <1>1
<1>8. hand' \in [Channels -> Seq(UnitTypes)] /\ buf' \in [Channels -> Seq(UnitTypes)]
  BY <1>1, <1>5
<1>9. UNCHANGED <<linkVars, got, writers>> BY DEF Receive
<1>10. \E k \in 1 .. Len(buf[ch]) :
         /\ k <= (IF ch = "tx" THEN Scratch ELSE FrameUnits)
         /\ ch = "trace" => k = FrameUnits
         /\ hand'[ch] \in Seq(UnitTypes) /\ Len(hand'[ch]) = k
         /\ \A i \in 1 .. k : hand'[ch][i] = buf[ch][i]
         /\ buf'[ch] \in Seq(UnitTypes) /\ Len(buf'[ch]) = Len(buf[ch]) - k
         /\ \A i \in 1 .. Len(buf[ch]) - k : buf'[ch][i] = buf[ch][k + i]
  BY <1>3, <1>5, <1>6
<1> QED BY <1>1, <1>2, <1>7, <1>8, <1>9, <1>10

\* A discarded scratch buffer: the peer is gone, or does not listen.
LEMMA DiscardFacts ==
    ASSUME Types, NEW ch \in Channels, Discard(ch)
    PROVE  /\ Len(hand'[ch]) = 0 /\ hand'[ch] = <<>> /\ at'[ch] = "wait"
           /\ \A c \in Channels \ {ch} : hand'[c] = hand[c] /\ at'[c] = at[c]
           /\ hand' \in [Channels -> Seq(UnitTypes)]
           /\ at' \in [Channels -> {"wait", "check", "send"}]
<1>1. <<>> \in Seq(UnitTypes) /\ Len(<<>>) = 0 BY EmptySeq
<1> QED BY <1>1 DEF Discard, Types

LEMMA NotifyFacts ==
    ASSUME Types, LinkIsSound, NEW ch \in Channels, Notify(ch)
    PROVE  LET entry == [u |-> hand[ch][1], e |-> epoch] IN
           /\ at[ch] = "send" /\ link # 0 /\ Len(hand[ch]) \in Nat \ {0} /\ hand[ch] # <<>>
           /\ got'[ch] \in Seq([u : UnitTypes, e : Nat]) /\ Len(got'[ch]) = Len(got[ch]) + 1
           /\ \A i \in 1 .. Len(got[ch]) : got'[ch][i] = got[ch][i]
           /\ got'[ch][Len(got[ch]) + 1] = entry
           /\ hand'[ch] \in Seq(UnitTypes) /\ Len(hand'[ch]) = Len(hand[ch]) - 1
           /\ \A i \in 1 .. Len(hand[ch]) - 1 : hand'[ch][i] = hand[ch][i + 1]
           /\ at'[ch] = (IF Len(hand[ch]) = 1 THEN "wait" ELSE "send")
           /\ \A c \in Channels \ {ch} : hand'[c] = hand[c] /\ got'[c] = got[c] /\ at'[c] = at[c]
           /\ hand' \in [Channels -> Seq(UnitTypes)]
           /\ got' \in [Channels -> Seq([u : UnitTypes, e : Nat])]
           /\ at' \in [Channels -> {"wait", "check", "send"}]
           /\ UNCHANGED <<linkVars, buf, writers>>
<1> DEFINE entry == [u |-> Head(hand[ch]), e |-> epoch]
           Entries == [u : UnitTypes, e : Nat]
<1>1. /\ hand \in [Channels -> Seq(UnitTypes)] /\ got \in [Channels -> Seq(Entries)]
      /\ at \in [Channels -> {"wait", "check", "send"}]
      /\ at[ch] = "send" /\ link # 0
      /\ got' = [got EXCEPT ![ch] = Append(got[ch], entry)]
      /\ hand' = [hand EXCEPT ![ch] = Tail(hand[ch])]
      /\ at' = [at EXCEPT ![ch] = IF Len(hand[ch]) = 1 THEN "wait" ELSE "send"]
  BY DEF Notify, Consume, Types
<1>2. hand[ch] # <<>> BY <1>1 DEF LinkIsSound, TypeOK
<1>3. hand[ch] \in Seq(UnitTypes) /\ got[ch] \in Seq(Entries) BY <1>1
<1>4. /\ Len(hand[ch]) \in Nat \ {0}
      /\ Head(hand[ch]) = hand[ch][1] /\ Head(hand[ch]) \in UnitTypes
      /\ Tail(hand[ch]) \in Seq(UnitTypes) /\ Len(Tail(hand[ch])) = Len(hand[ch]) - 1
      /\ \A i \in 1 .. Len(hand[ch]) - 1 : Tail(hand[ch])[i] = hand[ch][i + 1]
  BY <1>2, <1>3, TailFacts
<1>5. epoch \in Nat BY LinkAssumption DEF LinkIsSound, TypeOK, LinkTypeOK
<1>6. entry \in Entries BY <1>4, <1>5
<1>7. entry = [u |-> hand[ch][1], e |-> epoch] BY <1>4
<1> HIDE DEF entry, Entries
<1>8. /\ Append(got[ch], entry) \in Seq(Entries) /\ Len(Append(got[ch], entry)) = Len(got[ch]) + 1
      /\ \A i \in 1 .. Len(got[ch]) : Append(got[ch], entry)[i] = got[ch][i]
      /\ Append(got[ch], entry)[Len(got[ch]) + 1] = entry
  BY <1>3, <1>6, AppendProperties
<1>9. got'[ch] = Append(got[ch], entry) /\ hand'[ch] = Tail(hand[ch])
  BY <1>1
<1>10. hand' \in [Channels -> Seq(UnitTypes)] /\ got' \in [Channels -> Seq(Entries)]
  BY <1>1, <1>4, <1>8
<1>11. \A c \in Channels \ {ch} : hand'[c] = hand[c] /\ got'[c] = got[c] /\ at'[c] = at[c]
  BY <1>1
<1>12. /\ at' \in [Channels -> {"wait", "check", "send"}]
       /\ at'[ch] = (IF Len(hand[ch]) = 1 THEN "wait" ELSE "send")
  BY <1>1
<1> QED BY <1>1, <1>2, <1>4, <1>7, <1>8, <1>9, <1>10, <1>11, <1>12 DEF Notify, Entries

\* A writer appends `c` units to a buffer.
Appends(ch, by, n, from, c) ==
    /\ buf' \in [Channels -> Seq(UnitTypes)]
    /\ Len(buf'[ch]) = Len(buf[ch]) + c
    /\ \A i \in 1 .. Len(buf[ch]) : buf'[ch][i] = buf[ch][i]
    /\ \A i \in 1 .. c : buf'[ch][Len(buf[ch]) + i] = <<by, n, from + i - 1>>
    /\ \A d \in Channels \ {ch} : buf'[d] = buf[d]

LEMMA AppendsFacts ==
    ASSUME Types, NEW ch \in Channels, NEW by \in Writers, NEW n \in Nat,
           NEW from \in Nat, NEW to \in Nat, NEW c \in Nat, to + 1 = from + c,
           buf' = [buf EXCEPT ![ch] = buf[ch] \o Units(by, n, from, to)]
    PROVE  Appends(ch, by, n, from, c)
<1> DEFINE w == Units(by, n, from, to)
<1>1. IsUnits(w, by, n, from, c) BY UnitsFacts
<1>2. /\ w \in Seq(UnitTypes) /\ Len(w) = c
      /\ \A i \in 1 .. c : w[i] = <<by, n, from + i - 1>>
  BY <1>1 DEF IsUnits
<1>3. buf' = [buf EXCEPT ![ch] = buf[ch] \o w] OBVIOUS
<1> HIDE DEF w
<1>4. buf \in [Channels -> Seq(UnitTypes)] BY DEF Types
<1>5. buf[ch] \in Seq(UnitTypes) BY <1>4
<1>6. /\ buf[ch] \o w \in Seq(UnitTypes) /\ Len(buf[ch] \o w) = Len(buf[ch]) + Len(w)
      /\ \A i \in 1 .. Len(buf[ch]) : (buf[ch] \o w)[i] = buf[ch][i]
      /\ \A i \in 1 .. Len(w) : (buf[ch] \o w)[Len(buf[ch]) + i] = w[i]
  <2>1. w \in Seq(UnitTypes) BY <1>2
  <2> QED BY <2>1, <1>5
<1>7. buf'[ch] = buf[ch] \o w BY <1>3, <1>4
<1>8. \A d \in Channels \ {ch} : buf'[d] = buf[d] BY <1>3, <1>4
<1>9. buf' \in [Channels -> Seq(UnitTypes)] BY <1>3, <1>4, <1>6
<1> QED BY <1>2, <1>6, <1>7, <1>8, <1>9 DEF Appends

\* Nothing at all is appended when the channel is not listened to.
LEMMA WriteFacts ==
    ASSUME Types, LinkIsSound, NEW by \in {"text", "tail"}, NEW n \in Nat, Write(by, n)
    PROVE  \E c \in Nat : c <= Room /\ Appends("tx", by, n, 1, c)
<1>1. CASE TxUp
  <2> DEFINE c == Fit(TextUnits)
  <2>1. c \in Nat /\ c <= Room BY FitFacts, ConstantFacts
  <2>2. buf' = [buf EXCEPT !["tx"] = buf["tx"] \o Units(by, n, 1, c)] BY <1>1 DEF Write
  <2> HIDE DEF c
  <2>3. c + 1 = 1 + c /\ 1 \in Nat /\ by \in Writers BY <2>1 DEF Writers
  <2>4. Appends("tx", by, n, 1, c) BY <2>1, <2>2, <2>3, AppendsFacts, ChannelFacts
  <2> QED BY <2>1, <2>4
<1>2. CASE ~TxUp
  <2>1. buf' = buf BY <1>2 DEF Write
  <2>2. Appends("tx", by, n, 1, 0)
    <3>1. Len(buf["tx"]) \in Nat BY ChannelFacts DEF Types
    <3>2. \A i \in 1 .. 0 : buf'["tx"][Len(buf["tx"]) + i] = <<by, n, 1 + i - 1>> OBVIOUS
    <3> QED BY <2>1, <3>1, <3>2 DEF Appends, Types
  <2>3. 0 \in Nat /\ 0 <= Room BY FitFacts
  <2> QED BY <2>2, <2>3
<1> QED BY <1>1, <1>2

LEMMA DumpSendFacts ==
    ASSUME Types, LinkIsSound, DumpSend
    PROVE  \E c \in Nat :
              /\ c <= Room /\ Appends("tx", "dump", dump.n, dump.sent + 1, c)
              /\ dump' = [dump EXCEPT !.sent = dump.sent + c]
              /\ dump.sent + c \in 0 .. DumpUnits
              /\ dump.at = "send" /\ text.at = "idle"
<1> DEFINE c == Fit(CallRest)
<1>0. dump \in [n : Nat, at : {"none", "send", "failed"}, sent : 0 .. DumpUnits] /\ DumpUnits \in Nat
  BY ConstantFacts DEF Types
<1>1. dump.sent \in Nat /\ dump.n \in Nat BY <1>0
<1>2. CallRest \in Nat /\ dump.sent + CallRest <= DumpUnits
  BY FitFacts DEF DumpSend
<1>3. c \in 0 .. CallRest /\ c <= Room BY <1>2, FitFacts
<1>4. /\ buf' = [buf EXCEPT !["tx"] = buf["tx"] \o Units("dump", dump.n, dump.sent + 1, dump.sent + c)]
      /\ dump' = [dump EXCEPT !.sent = dump.sent + c]
      /\ dump.at = "send" /\ text.at = "idle"
  BY DEF DumpSend, DumpMayRun
<1> HIDE DEF c
<1>5. "dump" \in Writers BY DEF Writers
<1>6. c \in Nat /\ dump.sent + c \in 0 .. DumpUnits /\ dump.sent + 1 \in Nat /\ dump.sent + c \in Nat
      /\ dump.sent + c + 1 = dump.sent + 1 + c
  BY <1>0, <1>1, <1>2, <1>3
<1>7. Appends("tx", "dump", dump.n, dump.sent + 1, c)
  BY <1>1, <1>4, <1>5, <1>6, AppendsFacts, ChannelFacts
<1> QED BY <1>3, <1>4, <1>6, <1>7

LEMMA TraceWriteFacts ==
    ASSUME Types, LinkIsSound, TraceWrite
    PROVE  /\ Appends("trace", "frame", frames + 1, 1, FrameUnits)
           /\ frames' = frames + 1
<1>1. frames + 1 \in Nat /\ FrameUnits + 1 = 1 + FrameUnits /\ 1 \in Nat BY ConstantFacts DEF Types
<1>2. buf' = [buf EXCEPT !["trace"] = buf["trace"] \o Units("frame", frames + 1, 1, FrameUnits)]
  BY DEF TraceWrite
<1>4. "frame" \in Writers BY DEF Writers
<1>3. Appends("trace", "frame", frames + 1, 1, FrameUnits)
  BY <1>1, <1>2, <1>4, AppendsFacts, ChannelFacts, ConstantFacts
<1> QED BY <1>3 DEF TraceWrite

-----------------------------------------------------------------------------
(* Type correctness, and that the device can be found *)

BuffersFit ==
    Len(buf["tx"]) <= TxRoom /\ Len(buf["trace"]) \in {FrameUnits * n : n \in 0 .. FrameRoom}

HandsFit ==
    \A ch \in Channels :
        /\ Len(hand[ch]) <= (IF ch = "tx" THEN Scratch ELSE FrameUnits)
        /\ at[ch] = "wait" <=> hand[ch] = <<>>

FlagFits == dumpActive <=> dump.at # "none"

LinkSound == LinkTypeOK /\ CanBeFound

\* LinkIsSound taken apart.
LEMMA SoundParts ==
    ASSUME Types
    PROVE  LinkIsSound <=> LinkSound /\ BuffersFit /\ HandsFit /\ FlagFits
<1>1. dumpActive \in BOOLEAN /\ dump.sent \in 0 .. DumpUnits BY DEF Types
<1>2. \A ch \in Channels : at[ch] \in {"wait", "check", "send"} BY DEF Types
<1> QED BY <1>1, <1>2, Zenon DEF LinkIsSound, TypeOK, LinkSound, BuffersFit, HandsFit, FlagFits

LEMMA SoundPartsNext ==
    Types' => (LinkIsSound' <=> LinkSound' /\ BuffersFit' /\ HandsFit' /\ FlagFits')
<1>1. Types => (LinkIsSound <=> LinkSound /\ BuffersFit /\ HandsFit /\ FlagFits) BY SoundParts
<1> QED BY <1>1, PTL

LEMMA LinkSame ==
    ASSUME LinkSound, UNCHANGED linkVars
    PROVE  LinkSound'
BY DEF LinkSound, LinkTypeOK, CanBeFound, linkVars

LEMMA SoundInit == Init => Types /\ LinkIsSound
<1> SUFFICES ASSUME Init PROVE Types /\ LinkIsSound OBVIOUS
<1>1. <<>> \in Seq(UnitTypes) /\ <<>> \in Seq([u : UnitTypes, e : Nat]) /\ Len(<<>>) = 0 BY EmptySeq
<1>2. 0 \in 0 .. DumpUnits /\ 0 \in 0 .. FrameRoom BY ConstantFacts
<1>3. Types BY <1>1, <1>2 DEF Init, Types
<1>4. LinkSound
  <2>1. /\ link = 0 /\ epoch = 0 /\ subs = {} /\ MaxEpochs \in Nat
        /\ advertising = FALSE /\ synced = FALSE /\ deaf = FALSE
    BY LinkAssumption DEF Init, LinkInit
  <2>2. link \in 0 .. MaxEpochs /\ epoch \in link .. MaxEpochs /\ subs \subseteq Channels BY <2>1
  <2>3. {advertising, synced, deaf} \subseteq BOOLEAN BY <2>1
  <2>4. ~synced BY <2>1
  <2> QED BY <2>2, <2>3, <2>4 DEF LinkSound, LinkTypeOK, CanBeFound
<1>5. BuffersFit
  <2>1. FrameUnits * 0 = 0 BY ConstantFacts
  <2> QED BY <1>1, <1>2, <2>1, ConstantFacts, ChannelFacts DEF Init, BuffersFit
<1>6. HandsFit BY <1>1, ConstantFacts, ChannelFacts DEF Init, HandsFit
<1>7. FlagFits BY DEF Init, FlagFits
<1> QED BY <1>3, <1>4, <1>5, <1>6, <1>7, SoundParts

\* A writer that keeps to the room there is.
LEMMA AppendSound ==
    ASSUME Types, LinkIsSound, NEW by \in Writers, NEW n \in Nat, NEW from \in Nat, NEW c \in Nat,
           c <= Room, Appends("tx", by, n, from, c)
    PROVE  BuffersFit'
<1>1. Len(buf["tx"]) \in Nat /\ TxRoom \in Nat BY ChannelFacts, ConstantFacts DEF Types
<1>2. Len(buf'["tx"]) <= TxRoom BY <1>1 DEF Appends, Room
<1>3. BuffersFit BY SoundParts
<1> QED BY <1>2, <1>3, ChannelFacts DEF Appends, BuffersFit

\* Nothing but the buffers and the writers' own state moves.
LEMMA WriterSound ==
    ASSUME Types, LinkIsSound, UNCHANGED <<linkVars, hand, at, got>>, BuffersFit', FlagFits',
           buf' \in [Channels -> Seq(UnitTypes)], dumpActive' \in BOOLEAN,
           text' \in [n : Nat, at : {"idle", "write"}],
           dump' \in [n : Nat, at : {"none", "send", "failed"}, sent : 0 .. DumpUnits],
           frames' \in Nat
    PROVE  Types' /\ LinkIsSound'
<1>1. Types' BY DEF Types
<1>2. LinkSound' BY SoundParts, LinkSame
<1>3. HandsFit' BY SoundParts DEF HandsFit
<1> QED BY <1>1, <1>2, <1>3, SoundPartsNext

\* A sending task: the connection and the writers stay as they are.
LEMMA TaskSound ==
    ASSUME Types, LinkIsSound, UNCHANGED <<linkVars, writers>>, BuffersFit', HandsFit',
           buf' \in [Channels -> Seq(UnitTypes)], hand' \in [Channels -> Seq(UnitTypes)],
           at' \in [Channels -> {"wait", "check", "send"}],
           got' \in [Channels -> Seq([u : UnitTypes, e : Nat])]
    PROVE  Types' /\ LinkIsSound'
<1>1. Types' BY DEF Types, writers
<1>2. LinkSound' BY SoundParts, LinkSame
<1>3. FlagFits' BY SoundParts DEF FlagFits, writers
<1> QED BY <1>1, <1>2, <1>3, SoundPartsNext

LEMMA DumpFacts ==
    ASSUME Types
    PROVE  /\ dump = [n |-> dump.n, at |-> dump.at, sent |-> dump.sent]
           /\ dump.n \in Nat /\ dump.sent \in Nat /\ dump.sent <= DumpUnits
           /\ dump.at \in {"none", "send", "failed"}
           /\ text = [n |-> text.n, at |-> text.at]
           /\ text.n \in Nat /\ text.at \in {"idle", "write"}
           /\ DumpUnits \in Nat /\ frames \in Nat
<1>1. dump \in [n : Nat, at : {"none", "send", "failed"}, sent : 0 .. DumpUnits]
      /\ text \in [n : Nat, at : {"idle", "write"}] /\ DumpUnits \in Nat /\ frames \in Nat
  BY ConstantFacts DEF Types
<1> QED BY <1>1

LEMMA SoundStep == Types /\ LinkIsSound /\ [Next]_vars => Types' /\ LinkIsSound'
<1> SUFFICES ASSUME Types, LinkIsSound, [Next]_vars PROVE Types' /\ LinkIsSound'
  OBVIOUS
<1>a. LinkSound /\ BuffersFit /\ HandsFit /\ FlagFits BY SoundParts
<1>b. /\ buf \in [Channels -> Seq(UnitTypes)] /\ hand \in [Channels -> Seq(UnitTypes)]
      /\ at \in [Channels -> {"wait", "check", "send"}] /\ got \in [Channels -> Seq([u : UnitTypes, e : Nat])]
      /\ dumpActive \in BOOLEAN
      /\ text \in [n : Nat, at : {"idle", "write"}]
      /\ dump \in [n : Nat, at : {"none", "send", "failed"}, sent : 0 .. DumpUnits]
      /\ frames \in Nat
  BY DEF Types
<1>1. CASE LinkEvent /\ UNCHANGED <<buf, hand, at, got, writers>>
  <2>1. Types' BY <1>1, <1>b DEF Types, writers
  <2>2. LinkSound' BY <1>1, <1>a, LinkStep DEF LinkSound
  <2>3. BuffersFit' /\ HandsFit' /\ FlagFits'
    BY <1>1, <1>a DEF BuffersFit, HandsFit, FlagFits, writers
  <2> QED BY <2>1, <2>2, <2>3, SoundPartsNext
<1>2. CASE TextCheck
  <2>1. text' \in [n : Nat, at : {"idle", "write"}]
    BY <1>2, <1>b DEF TextCheck
  <2>2. BuffersFit' /\ FlagFits' BY <1>2, <1>a DEF TextCheck, BuffersFit, FlagFits
  <2> QED BY <1>2, <1>b, <2>1, <2>2, WriterSound DEF TextCheck
<1>3. CASE TextWrite
  <2>1. Write("text", text.n) /\ text' = [text EXCEPT !.at = "idle"] BY <1>3 DEF TextWrite
  <2>2. PICK c \in Nat : c <= Room /\ Appends("tx", "text", text.n, 1, c)
    BY <2>1, WriteFacts, DumpFacts
  <2>3. "text" \in Writers /\ text.n \in Nat BY DumpFacts DEF Writers
  <2>4. BuffersFit' BY <2>2, <2>3, AppendSound
  <2>5. FlagFits' BY <1>3, <1>a DEF TextWrite, FlagFits
  <2>6. text' \in [n : Nat, at : {"idle", "write"}] BY <1>b, <2>1
  <2>7. buf' \in [Channels -> Seq(UnitTypes)] BY <2>2 DEF Appends
  <2> QED BY <1>3, <1>b, <2>4, <2>5, <2>6, <2>7, WriterSound DEF TextWrite
<1>4. CASE StartDump
  <2>1. dump' = [n |-> dump.n + 1, at |-> "send", sent |-> 0] /\ dumpActive' = TRUE
    BY <1>4 DEF StartDump
  <2>2. dump' \in [n : Nat, at : {"none", "send", "failed"}, sent : 0 .. DumpUnits]
    BY <2>1, DumpFacts
  <2>3. BuffersFit' BY <1>4, <1>a DEF StartDump, BuffersFit
  <2>4. FlagFits' BY <2>1 DEF FlagFits
  <2> QED BY <1>4, <1>b, <2>1, <2>2, <2>3, <2>4, WriterSound DEF StartDump
<1>5. CASE DumpSend
  <2>1. PICK c \in Nat :
          /\ c <= Room /\ Appends("tx", "dump", dump.n, dump.sent + 1, c)
          /\ dump' = [dump EXCEPT !.sent = dump.sent + c]
          /\ dump.sent + c \in 0 .. DumpUnits
    BY <1>5, DumpSendFacts
  <2>2. "dump" \in Writers /\ dump.n \in Nat /\ dump.sent + 1 \in Nat BY DumpFacts DEF Writers
  <2>3. BuffersFit' BY <2>1, <2>2, AppendSound
  <2>4. dump' \in [n : Nat, at : {"none", "send", "failed"}, sent : 0 .. DumpUnits]
    BY <1>b, <2>1
  <2>5. dump'.at = dump.at BY <1>b, <2>1
  <2>6. FlagFits' BY <1>5, <1>a, <2>5 DEF DumpSend, FlagFits
  <2>7. buf' \in [Channels -> Seq(UnitTypes)] BY <2>1 DEF Appends
  <2> QED BY <1>5, <1>b, <2>3, <2>4, <2>6, <2>7, WriterSound DEF DumpSend
<1>6. CASE DumpFails
  <2>1. dump.at = "send" /\ dump' = [dump EXCEPT !.at = "failed"] /\ dumpActive' = dumpActive
    BY <1>6 DEF DumpFails
  <2>2. dump' \in [n : Nat, at : {"none", "send", "failed"}, sent : 0 .. DumpUnits] /\ dump'.at = "failed"
    BY <2>1, <1>b
  <2>3. BuffersFit' BY <1>6, <1>a DEF DumpFails, BuffersFit
  <2>4. FlagFits' BY <2>1, <2>2, <1>a DEF FlagFits
  <2> QED BY <1>6, <1>b, <2>2, <2>3, <2>4, WriterSound DEF DumpFails
<1>7. CASE DumpOver
  <2>1. dump' = [dump EXCEPT !.at = "none"] /\ dumpActive' = FALSE
    BY <1>7 DEF DumpOver
  <2>2. dump' \in [n : Nat, at : {"none", "send", "failed"}, sent : 0 .. DumpUnits] /\ dump'.at = "none"
    BY <2>1, <1>b
  <2>3. BuffersFit' BY <1>7, <1>a DEF DumpOver, BuffersFit
  <2>4. FlagFits' BY <2>1, <2>2 DEF FlagFits
  <2> QED BY <1>7, <1>b, <2>1, <2>2, <2>3, <2>4, WriterSound DEF DumpOver
<1>8. CASE TailCheck
  <2>1. BuffersFit' /\ FlagFits' BY <1>8, <1>a DEF TailCheck, BuffersFit, FlagFits
  <2> QED BY <1>8, <1>b, <2>1, WriterSound DEF TailCheck
<1>9. CASE TailWrite
  <2>1. Write("tail", dump.n) BY <1>9 DEF TailWrite
  <2>2. PICK c \in Nat : c <= Room /\ Appends("tx", "tail", dump.n, 1, c)
    BY <2>1, WriteFacts, DumpFacts
  <2>3. "tail" \in Writers /\ dump.n \in Nat BY DumpFacts DEF Writers
  <2>4. BuffersFit' BY <2>2, <2>3, AppendSound
  <2>5. FlagFits' BY <1>9, <1>a DEF TailWrite, FlagFits
  <2>6. buf' \in [Channels -> Seq(UnitTypes)] BY <2>2 DEF Appends
  <2> QED BY <1>9, <1>b, <2>4, <2>5, <2>6, WriterSound DEF TailWrite
<1>10. CASE TraceWrite
  <2>1. Appends("trace", "frame", frames + 1, 1, FrameUnits) /\ frames' = frames + 1
    BY <1>10, TraceWriteFacts
  <2>2. Len(buf'["trace"]) = Len(buf["trace"]) + FrameUnits /\ buf'["tx"] = buf["tx"]
    BY <2>1, ChannelFacts DEF Appends
  <2>3. PICK n \in 0 .. FrameRoom : Len(buf["trace"]) = FrameUnits * n BY <1>a DEF BuffersFit
  <2>4. FrameUnits * n < FrameRoom * FrameUnits BY <1>10, <2>3 DEF TraceWrite
  <2>5. n < FrameRoom BY <2>4, ConstantFacts
  <2>6. n + 1 \in 0 .. FrameRoom /\ FrameUnits * n + FrameUnits = FrameUnits * (n + 1)
    BY <2>5, ConstantFacts
  <2>7. BuffersFit' BY <1>a, <2>2, <2>3, <2>6 DEF BuffersFit
  <2>8. FlagFits' BY <1>10, <1>a DEF TraceWrite, FlagFits
  <2>9. buf' \in [Channels -> Seq(UnitTypes)] /\ frames' \in Nat BY <2>1, <1>b DEF Appends
  <2> QED BY <1>10, <1>b, <2>7, <2>8, <2>9, WriterSound DEF TraceWrite
<1>11. ASSUME NEW ch \in Channels, Receive(ch) PROVE Types' /\ LinkIsSound'
  <2>1. /\ at' = [at EXCEPT ![ch] = "check"] /\ UNCHANGED <<linkVars, got, writers>>
        /\ \A c \in Channels \ {ch} : hand'[c] = hand[c] /\ buf'[c] = buf[c]
        /\ hand' \in [Channels -> Seq(UnitTypes)] /\ buf' \in [Channels -> Seq(UnitTypes)]
    BY <1>11, ReceiveFacts
  <2>2. PICK n \in 1 .. Len(buf[ch]) :
          /\ n <= (IF ch = "tx" THEN Scratch ELSE FrameUnits)
          /\ ch = "trace" => n = FrameUnits
          /\ Len(hand'[ch]) = n /\ Len(buf'[ch]) = Len(buf[ch]) - n
    BY <1>11, ReceiveFacts
  <2>3. BuffersFit'
    <3>1. CASE ch = "tx"
      <4>1. Len(buf["tx"]) \in Nat /\ TxRoom \in Nat BY <1>b, ChannelFacts, ConstantFacts
      <4>2. Len(buf'["tx"]) <= TxRoom BY <1>a, <2>2, <3>1, <4>1 DEF BuffersFit
      <4> QED BY <1>a, <2>1, <3>1, <4>2, ChannelFacts DEF BuffersFit
    <3>2. CASE ch = "trace"
      <4>1. PICK k \in 0 .. FrameRoom : Len(buf["trace"]) = FrameUnits * k BY <1>a DEF BuffersFit
      <4>2. FrameUnits * k >= FrameUnits /\ Len(buf'["trace"]) = FrameUnits * k - FrameUnits
        BY <2>2, <3>2, <4>1
      <4>3. k # 0 BY <4>2, ConstantFacts
      <4>4. k - 1 \in 0 .. FrameRoom /\ FrameUnits * k - FrameUnits = FrameUnits * (k - 1)
        BY <4>3, ConstantFacts
      <4> QED BY <1>a, <2>1, <3>2, <4>2, <4>4, ChannelFacts DEF BuffersFit
    <3> QED BY <3>1, <3>2, ChannelFacts
  <2>4. HandsFit'
    <3>1. SUFFICES ASSUME NEW c \in Channels
                   PROVE  /\ Len(hand'[c]) <= (IF c = "tx" THEN Scratch ELSE FrameUnits)
                          /\ at'[c] = "wait" <=> hand'[c] = <<>>
      BY DEF HandsFit
    <3>2. CASE c = ch
      <4>1. at'[c] = "check" /\ hand'[c] # <<>>
        <5>1. Len(hand'[c]) # 0 BY <2>2, <3>2
        <5> QED BY <1>b, <2>1, <3>2, <5>1, EmptySeq
      <4> QED BY <2>2, <3>2, <4>1
    <3>3. CASE c # ch
      BY <1>a, <1>b, <2>1, <3>3 DEF HandsFit
    <3> QED BY <3>2, <3>3
  <2>5. at' \in [Channels -> {"wait", "check", "send"}] BY <1>b, <2>1
  <2> QED BY <1>b, <2>1, <2>3, <2>4, <2>5, TaskSound
<1>12. ASSUME NEW ch \in Channels, Discard(ch), UNCHANGED <<linkVars, buf, got, writers>>
       PROVE  Types' /\ LinkIsSound'
  <2>1. /\ Len(hand'[ch]) = 0 /\ hand'[ch] = <<>> /\ at'[ch] = "wait"
        /\ \A c \in Channels \ {ch} : hand'[c] = hand[c] /\ at'[c] = at[c]
        /\ hand' \in [Channels -> Seq(UnitTypes)]
        /\ at' \in [Channels -> {"wait", "check", "send"}]
    BY <1>12, DiscardFacts
  <2>2. HandsFit' BY <1>a, <2>1, ConstantFacts DEF HandsFit
  <2>3. BuffersFit' BY <1>a, <1>12 DEF BuffersFit
  <2> QED BY <1>b, <1>12, <2>1, <2>2, <2>3, TaskSound
<1>13. ASSUME NEW ch \in Channels, CheckLink(ch) PROVE Types' /\ LinkIsSound'
  <2>1. CASE Up(ch)
    <3>1. /\ at[ch] = "check" /\ at' = [at EXCEPT ![ch] = "send"]
          /\ UNCHANGED <<linkVars, buf, hand, got, writers>>
      BY <1>13, <2>1 DEF CheckLink, Up
    <3>2. at' \in [Channels -> {"wait", "check", "send"}] BY <1>b, <3>1
    <3>3. \A c \in Channels : at'[c] = "wait" <=> at[c] = "wait" BY <1>b, <3>1
    <3>4. HandsFit' BY <1>a, <3>1, <3>3 DEF HandsFit
    <3>5. BuffersFit' BY <1>a, <3>1 DEF BuffersFit
    <3> QED BY <1>b, <3>1, <3>2, <3>4, <3>5, TaskSound
  <2>2. CASE ~Up(ch) BY <1>12, <1>13, <2>2 DEF CheckLink, Up
  <2> QED BY <2>1, <2>2
<1>14. ASSUME NEW ch \in Channels, Notify(ch) PROVE Types' /\ LinkIsSound'
  <2>1. /\ Len(hand[ch]) \in Nat \ {0}
        /\ hand'[ch] \in Seq(UnitTypes) /\ Len(hand'[ch]) = Len(hand[ch]) - 1
        /\ at'[ch] = (IF Len(hand[ch]) = 1 THEN "wait" ELSE "send")
        /\ \A c \in Channels \ {ch} : hand'[c] = hand[c] /\ at'[c] = at[c]
        /\ hand' \in [Channels -> Seq(UnitTypes)]
        /\ got' \in [Channels -> Seq([u : UnitTypes, e : Nat])]
        /\ at' \in [Channels -> {"wait", "check", "send"}]
        /\ UNCHANGED <<linkVars, buf, writers>>
    BY <1>14, NotifyFacts
  <2>2. at'[ch] = "wait" <=> hand'[ch] = <<>>
    <3>1. hand'[ch] = <<>> <=> Len(hand'[ch]) = 0 BY <2>1, EmptySeq
    <3> QED BY <2>1, <3>1
  <2>3. HandsFit'
    <3>1. SUFFICES ASSUME NEW c \in Channels
                   PROVE  /\ Len(hand'[c]) <= (IF c = "tx" THEN Scratch ELSE FrameUnits)
                          /\ at'[c] = "wait" <=> hand'[c] = <<>>
      BY DEF HandsFit
    <3>2. CASE c = ch
      <4>1. Len(hand[c]) <= (IF c = "tx" THEN Scratch ELSE FrameUnits) BY <1>a DEF HandsFit
      <4>2. Len(hand'[c]) <= (IF c = "tx" THEN Scratch ELSE FrameUnits)
        BY <2>1, <3>2, <4>1, ConstantFacts
      <4> QED BY <2>2, <3>2, <4>2
    <3>3. CASE c # ch BY <1>a, <2>1, <3>3 DEF HandsFit
    <3> QED BY <3>2, <3>3
  <2>4. BuffersFit' BY <1>a, <2>1 DEF BuffersFit
  <2> QED BY <1>b, <2>1, <2>3, <2>4, TaskSound
<1>15. ASSUME NEW ch \in Channels, NotifyFails(ch) PROVE Types' /\ LinkIsSound'
  BY <1>12, <1>15 DEF NotifyFails
<1>16. CASE UNCHANGED vars
  <2>1. BuffersFit' /\ HandsFit' BY <1>16, <1>a DEF vars, BuffersFit, HandsFit
  <2> QED BY <1>16, <1>b, <2>1, TaskSound DEF vars
<1> QED BY <1>1, <1>2, <1>3, <1>4, <1>5, <1>6, <1>7, <1>8, <1>9, <1>10, <1>11, <1>13, <1>14, <1>15, <1>16
        DEF Next, TxTask, DumpTask

\* The BLE transport keeps its buffers and its scratch within their bounds and the
\* dump's flag with its task, and a device nobody is connected to advertises
\* unless its controller refused: whatever connections, subscriptions, resets and
\* writers do, in any order.
THEOREM TransportLinkIsSound == Spec => []LinkIsSound
<1>1. Init => Types /\ LinkIsSound BY SoundInit
<1>2. Types /\ LinkIsSound /\ [Next]_vars => (Types /\ LinkIsSound)' BY SoundStep
<1> QED BY <1>1, <1>2, PTL DEF Spec

-----------------------------------------------------------------------------
(* Frames: where a unit stands, counted from the last one handed over *)

IsFrame(u) == u \in UnitTypes /\ u[1] = "frame" /\ u[3] \in 1 .. FrameUnits

\* The unit `v` goes on where `u` stopped, or begins a later frame.
Follows(u, v) ==
    IF u[3] = FrameUnits
    THEN v[3] = 1 /\ v[2] > u[2]
    ELSE v = <<"frame", u[2], u[3] + 1>>

LEMMA MultipleFacts ==
    ASSUME NEW m \in Nat, m > 0, NEW x \in Int
    PROVE  /\ m * x \in Int
           /\ x = 0 => m * x = 0
           /\ x = 1 => m * x = m
           /\ x >= 1 => m * x >= m
           /\ x >= 2 => m * x >= 2 * m
           /\ x <= -1 => m * x <= -m
<1>1. m * x \in Int /\ (x = 0 => m * x = 0) /\ (x = 1 => m * x = m) OBVIOUS
<1>2. x >= 1 => m * x >= m OBVIOUS
<1>3. x >= 2 => m * x >= 2 * m
  <2>1. CASE x >= 2
    <3>1. m * (x - 2) >= 0 /\ m * (x - 2) = m * x - 2 * m BY <2>1
    <3> QED BY <1>1, <3>1
  <2> QED BY <2>1
<1>4. x <= -1 => m * x <= -m
  <2>1. CASE x <= -1
    <3>1. m * (-1 - x) >= 0 BY <2>1
    <3>2. m * (-1 - x) = -m - m * x OBVIOUS
    <3> QED BY <1>1, <3>1, <3>2
  <2> QED BY <2>1
<1> QED BY <1>1, <1>2, <1>3, <1>4

LEMMA AfterFacts ==
    ASSUME NEW f \in Nat, NEW u \in UnitTypes
    PROVE  AfterOf(f, u) \in Int /\ AfterOf(f + 1, u) = AfterOf(f, u) + FrameUnits
<1> DEFINE x == f - u[2]
           y == (f + 1) - u[2]
<1>1. u[2] \in Nat /\ u[3] \in Nat /\ x \in Int /\ y = x + 1 BY UnitFacts
<1>2. AfterOf(f, u) = FrameUnits * x + (FrameUnits - u[3]) BY DEF AfterOf
<1>4. AfterOf(f + 1, u) = FrameUnits * y + (FrameUnits - u[3]) BY DEF AfterOf
<1> HIDE DEF x, y
<1>3. FrameUnits * y = FrameUnits * x + FrameUnits /\ FrameUnits * x \in Int
  BY <1>1, ConstantFacts
<1> QED BY <1>1, <1>2, <1>3, <1>4, ConstantFacts

\* A unit with one more unit after it than another is the one before it.
LEMMA NextUnit ==
    ASSUME NEW f \in Nat, NEW u, NEW v, IsFrame(u), IsFrame(v)
    PROVE  /\ AfterOf(f, u) = AfterOf(f, v) + 1 => Follows(u, v)
           /\ AfterOf(f, u) > AfterOf(f, v) /\ u[3] = FrameUnits /\ v[3] = 1 => Follows(u, v)
<1> DEFINE a == u[2]  k == u[3]  b == v[2]  l == v[3]
           x == f - a  y == f - b
<1>1. a \in Nat /\ b \in Nat /\ k \in 1 .. FrameUnits /\ l \in 1 .. FrameUnits
      /\ x \in Int /\ y \in Int /\ x - y = b - a
  BY UnitFacts DEF IsFrame
<1>2. AfterOf(f, u) = FrameUnits * x + (FrameUnits - k) /\ AfterOf(f, v) = FrameUnits * y + (FrameUnits - l)
  BY DEF AfterOf
<1>3. v = <<"frame", b, l>> BY UnitFacts DEF IsFrame
<1>4. Follows(u, v) <=> IF k = FrameUnits THEN l = 1 /\ b > a ELSE v = <<"frame", a, k + 1>>
  BY DEF Follows
<1> HIDE DEF a, b, k, l, x, y
<1>5. FrameUnits * x \in Int /\ FrameUnits * y \in Int
      /\ FrameUnits * (x - y) = FrameUnits * x - FrameUnits * y
  BY <1>1, ConstantFacts
<1> DEFINE z == x - y
<1>6. /\ z \in Int /\ FrameUnits * z \in Int
      /\ z = 0 => FrameUnits * z = 0
      /\ z = 1 => FrameUnits * z = FrameUnits
      /\ z >= 2 => FrameUnits * z >= 2 * FrameUnits
      /\ z <= -1 => FrameUnits * z <= -FrameUnits
  BY <1>1, MultipleFacts, ConstantFacts
<1>7. AfterOf(f, u) - AfterOf(f, v) = FrameUnits * z - k + l
  BY <1>1, <1>2, <1>5, ConstantFacts
<1>8. z = b - a BY <1>1
<1> HIDE DEF z
<1>9. AfterOf(f, u) \in Int /\ AfterOf(f, v) \in Int BY <1>1, <1>2, <1>5, ConstantFacts
<1>10. ASSUME AfterOf(f, u) = AfterOf(f, v) + 1 PROVE Follows(u, v)
  <2>1. FrameUnits * z = k - l + 1 BY <1>1, <1>6, <1>7, <1>9, <1>10, ConstantFacts
  <2>2. z = 0 \/ z = 1 BY <1>1, <1>6, <2>1, ConstantFacts
  <2>3. CASE z = 0
    <3>1. l = k + 1 /\ b = a /\ k # FrameUnits BY <1>1, <1>6, <1>8, <2>1, <2>3, ConstantFacts
    <3> QED BY <1>3, <1>4, <3>1
  <2>4. CASE z = 1
    <3>1. k = FrameUnits /\ l = 1 /\ b > a BY <1>1, <1>6, <1>8, <2>1, <2>4, ConstantFacts
    <3> QED BY <1>4, <3>1
  <2> QED BY <2>2, <2>3, <2>4
<1>11. ASSUME AfterOf(f, u) > AfterOf(f, v), k = FrameUnits, l = 1 PROVE Follows(u, v)
  <2>1. FrameUnits * z > FrameUnits - 1 BY <1>1, <1>6, <1>7, <1>9, <1>11, ConstantFacts
  <2>2. z >= 1 BY <1>6, <2>1, ConstantFacts
  <2>3. b > a BY <1>1, <1>8, <2>2
  <2> QED BY <1>4, <1>11, <2>3
<1> QED BY <1>10, <1>11 DEF k, l

\* The border of whole frames.
LEMMA WholeFrames ==
    ASSUME NEW f \in Nat, NEW v, IsFrame(v), NEW q \in Nat
    PROVE  /\ AfterOf(f, v) = FrameUnits * q => v[3] = FrameUnits
           /\ AfterOf(f, v) = FrameUnits * q + (FrameUnits - 1) => v[3] = 1
<1> DEFINE b == v[2]  l == v[3]  y == f - b
<1>1. b \in Nat /\ l \in 1 .. FrameUnits /\ y \in Int BY UnitFacts DEF IsFrame
<1>2. AfterOf(f, v) = FrameUnits * y + (FrameUnits - l) BY DEF AfterOf
<1> HIDE DEF b, l, y
<1> DEFINE z == q - y
<1>3. FrameUnits * y \in Int /\ FrameUnits * q \in Int
      /\ FrameUnits * z = FrameUnits * q - FrameUnits * y
  BY <1>1, ConstantFacts
<1>4. /\ z \in Int /\ FrameUnits * z \in Int
      /\ z = 0 => FrameUnits * z = 0
      /\ z >= 1 => FrameUnits * z >= FrameUnits
      /\ z <= -1 => FrameUnits * z <= -FrameUnits
  BY <1>1, MultipleFacts, ConstantFacts
<1> HIDE DEF z
<1>5. AfterOf(f, v) = FrameUnits * q => l = FrameUnits
  <2>1. ASSUME AfterOf(f, v) = FrameUnits * q PROVE l = FrameUnits
    <3>1. FrameUnits * z = FrameUnits - l BY <1>1, <1>2, <1>3, <2>1, ConstantFacts
    <3>2. z = 0 BY <1>1, <1>4, <3>1, ConstantFacts
    <3> QED BY <1>1, <1>4, <3>1, <3>2, ConstantFacts
  <2> QED BY <2>1
<1>6. AfterOf(f, v) = FrameUnits * q + (FrameUnits - 1) => l = 1
  <2>1. ASSUME AfterOf(f, v) = FrameUnits * q + (FrameUnits - 1) PROVE l = 1
    <3>1. FrameUnits * z = 1 - l BY <1>1, <1>2, <1>3, <2>1, ConstantFacts
    <3>2. z = 0 BY <1>1, <1>4, <3>1, ConstantFacts
    <3> QED BY <1>1, <1>4, <3>1, <3>2, ConstantFacts
  <2> QED BY <2>1
<1> QED BY <1>5, <1>6 DEF l

-----------------------------------------------------------------------------
(* Frames are whole *)

Entries == [u : UnitTypes, e : Nat]

LEMMA TraceTypes ==
    ASSUME Types, LinkIsSound
    PROVE  /\ buf["trace"] \in Seq(UnitTypes) /\ hand["trace"] \in Seq(UnitTypes)
           /\ got["trace"] \in Seq(Entries)
           /\ Len(buf["trace"]) \in Nat /\ Len(hand["trace"]) \in Nat /\ Len(got["trace"]) \in Nat
           /\ HandRest = Len(hand["trace"]) + Len(buf["trace"]) /\ HandRest \in Nat
           /\ frames \in Nat /\ epoch \in Nat
           /\ \A i \in 1 .. Len(got["trace"]) :
                 got["trace"][i] \in Entries /\ got["trace"][i].u \in UnitTypes /\ got["trace"][i].e \in Nat
           /\ got["trace"] # <<>> <=> Len(got["trace"]) > 0
           /\ hand["trace"] # <<>> <=> Len(hand["trace"]) > 0
<1>1. /\ buf["trace"] \in Seq(UnitTypes) /\ hand["trace"] \in Seq(UnitTypes)
      /\ got["trace"] \in Seq(Entries) /\ frames \in Nat
  BY ChannelFacts DEF Types, Entries
<1>2. epoch \in Nat BY LinkAssumption DEF LinkIsSound, TypeOK, LinkTypeOK
<1>3. Len(buf["trace"]) \in Nat /\ Len(hand["trace"]) \in Nat /\ Len(got["trace"]) \in Nat BY <1>1
<1>4. \A e \in Entries : e.u \in UnitTypes /\ e.e \in Nat BY DEF Entries
<1>5. \A i \in 1 .. Len(got["trace"]) : got["trace"][i] \in Entries BY <1>1
<1>6. got["trace"] # <<>> <=> Len(got["trace"]) > 0 BY <1>1, <1>3, EmptySeq
<1>7. hand["trace"] # <<>> <=> Len(hand["trace"]) > 0 BY <1>1, <1>3, EmptySeq
<1>8. HandRest = Len(hand["trace"]) + Len(buf["trace"]) BY Zenon DEF HandRest
<1>10. HandRest \in Nat
  <2> DEFINE a == Len(hand["trace"])  b == Len(buf["trace"])
  <2>1. a \in Nat /\ b \in Nat BY <1>3
  <2> HIDE DEF a, b
  <2>2. a + b \in Nat BY <2>1
  <2> QED BY <1>8, <2>2 DEF a, b
<1>9. \A i \in 1 .. Len(got["trace"]) :
         got["trace"][i] \in Entries /\ got["trace"][i].u \in UnitTypes /\ got["trace"][i].e \in Nat
  BY <1>4, <1>5
<1> QED BY <1>1, <1>2, <1>3, <1>6, <1>7, <1>8, <1>9, <1>10

\* Nothing received is lost or changed, and the peers come one after the other.
LEMMA EpochsStep == Types /\ LinkIsSound /\ EpochsPass /\ [Next]_vars => EpochsPass'
<1> SUFFICES ASSUME Types, LinkIsSound, EpochsPass, [Next]_vars PROVE EpochsPass'
  OBVIOUS
<1>a. epoch \in Nat BY TraceTypes
<1>b. \A c \in Channels : /\ Len(got[c]) \in Nat
                          /\ \A i \in 1 .. Len(got[c]) : got[c][i].e \in Nat
  <2>1. SUFFICES ASSUME NEW c \in Channels
                 PROVE  Len(got[c]) \in Nat /\ \A i \in 1 .. Len(got[c]) : got[c][i].e \in Nat
    OBVIOUS
  <2>2. got[c] \in Seq(Entries) BY DEF Types, Entries
  <2>3. \A i \in 1 .. Len(got[c]) : got[c][i] \in Entries BY <2>2
  <2>4. \A i \in 1 .. Len(got[c]) : got[c][i].e \in Nat BY <2>3 DEF Entries
  <2> QED BY <2>2, <2>4
<1>1. ASSUME got' = got, epoch' = epoch \/ epoch' = epoch + 1 PROVE EpochsPass'
  BY <1>1, <1>a, <1>b DEF EpochsPass
<1>2. ASSUME NEW ch \in Channels, Notify(ch) PROVE EpochsPass'
  <2>1. /\ epoch' = epoch
        /\ Len(got'[ch]) = Len(got[ch]) + 1
        /\ \A i \in 1 .. Len(got[ch]) : got'[ch][i] = got[ch][i]
        /\ got'[ch][Len(got[ch]) + 1] = [u |-> hand[ch][1], e |-> epoch]
        /\ \A c \in Channels \ {ch} : got'[c] = got[c]
    BY <1>2, NotifyFacts DEF linkVars
  <2>2. got'[ch][Len(got[ch]) + 1].e = epoch BY <2>1
  <2>3. SUFFICES ASSUME NEW c \in Channels, NEW i \in 1 .. Len(got'[c])
                 PROVE  /\ got'[c][i].e <= epoch
                        /\ \A j \in i .. Len(got'[c]) : got'[c][i].e <= got'[c][j].e
    BY <2>1 DEF EpochsPass
  <2>4. CASE c # ch BY <2>1, <2>4 DEF EpochsPass
  <2>5. CASE c = ch
    <3>1. \A k \in 1 .. Len(got'[c]) : k \in 1 .. Len(got[ch]) \/ k = Len(got[ch]) + 1
      BY <1>b, <2>1, <2>5
    <3>2. \A k \in 1 .. Len(got'[c]) : got'[c][k].e <= epoch
      BY <1>a, <2>1, <2>2, <2>5, <3>1 DEF EpochsPass
    <3>3. SUFFICES ASSUME NEW j \in i .. Len(got'[c]) PROVE got'[c][i].e <= got'[c][j].e
      BY <3>2
    <3>4. j \in 1 .. Len(got'[c]) OBVIOUS
    <3>5. CASE j = Len(got[ch]) + 1 BY <2>2, <2>5, <3>2, <3>5
    <3>6. CASE j \in 1 .. Len(got[ch])
      <4>1. i \in 1 .. Len(got[ch]) /\ j \in i .. Len(got[ch]) BY <1>b, <3>6
      <4> QED BY <2>1, <2>5, <4>1 DEF EpochsPass
    <3> QED BY <3>1, <3>4, <3>5, <3>6
  <2> QED BY <2>4, <2>5
<1>3. CASE LinkEvent /\ UNCHANGED <<buf, hand, at, got, writers>>
  <2>1. LinkTypeOK BY DEF LinkIsSound, TypeOK
  <2> QED BY <1>1, <1>3, <2>1, LinkTurns
<1>4. CASE \/ TextCheck \/ TextWrite \/ StartDump \/ DumpTask \/ TailCheck \/ TailWrite \/ TraceWrite
           \/ \E ch \in Channels : Receive(ch) \/ CheckLink(ch) \/ NotifyFails(ch)
           \/ UNCHANGED vars
  <2>1. got' = got /\ epoch' = epoch
    BY <1>4 DEF TextCheck, TextWrite, StartDump, DumpTask, DumpSend, DumpFails, DumpOver, TailCheck, TailWrite,
                TraceWrite, Receive, CheckLink, NotifyFails, vars, linkVars
  <2> QED BY <1>1, <2>1
<1> QED BY <1>2, <1>3, <1>4 DEF Next, TxTask

\* The trace channel is left alone, or the peer it goes to is gone.
LEMMA FramesQuiet ==
    ASSUME Types, LinkIsSound, FrameInv, frames' = frames,
           buf'["trace"] = buf["trace"], hand'["trace"] = hand["trace"],
           at'["trace"] = at["trace"], got'["trace"] = got["trace"],
           epoch' = epoch \/ epoch' = epoch + 1,
           epoch' = epoch => (Up("trace")' => Up("trace"))
    PROVE  FramesWait' /\ FramesGoOn' /\ FramesAreWhole'
<1>1. FramesWait'
  <2>1. FramesWait BY DEF FrameInv
  <2>2. HandRest' = HandRest BY DEF HandRest
  <2>3. \A u, n : FrameUnit(u, n)' <=> FrameUnit(u, n) BY DEF FrameUnit, After
  <2> QED BY <2>1, <2>2, <2>3 DEF FramesWait, FrameUnit, After
<1>2. FramesAreWhole' BY DEF FrameInv, FramesAreWhole
<1>3. ASSUME got["trace"] # <<>> PROVE got["trace"][Len(got["trace"])].e <= epoch
  <2>1. Len(got["trace"]) \in 1 .. Len(got["trace"]) BY <1>3, TraceTypes
  <2> QED BY <2>1, ChannelFacts DEF FrameInv, EpochsPass
<1>4. HandRest' = HandRest BY DEF HandRest
<1>5. ASSUME got["trace"] # <<>>, got["trace"][Len(got["trace"])].e = epoch' PROVE epoch' = epoch
  <2>1. epoch \in Nat BY TraceTypes
  <2> QED BY <1>3, <1>5, <2>1
<1>6. FramesGoOn'
  <2>1. SUFFICES ASSUME got["trace"] # <<>>
        PROVE  LET l == got["trace"][Len(got["trace"])] IN
               /\ l.u[1] = "frame" /\ l.u[3] \in 1 .. FrameUnits /\ AfterOf(frames, l.u) >= HandRest
               /\ l.e = epoch' =>
                     IF at["trace"] = "send"
                     THEN AfterOf(frames, l.u) = HandRest
                          \/ (l.u[3] = FrameUnits /\ Len(hand["trace"]) = FrameUnits)
                     ELSE l.u[3] = FrameUnits \/ ~Up("trace")'
    BY <1>4 DEF FramesGoOn, After
  <2> QED BY <1>5, <2>1 DEF FrameInv, FramesGoOn, After
<1> QED BY <1>1, <1>2, <1>6

\* What waits is a frame at a time.
LEMMA FramesTaken ==
    ASSUME Types, LinkIsSound, FrameInv, Receive("trace")
    PROVE  FramesWait' /\ FramesGoOn' /\ FramesAreWhole'
<1>1. /\ Len(hand["trace"]) = 0 /\ at["trace"] = "wait" /\ at'["trace"] = "check"
      /\ got' = got /\ frames' = frames /\ epoch' = epoch /\ link' = link /\ subs' = subs
  <2>1. /\ Len(hand["trace"]) = 0 /\ at["trace"] = "wait" /\ at' = [at EXCEPT !["trace"] = "check"]
        /\ UNCHANGED <<linkVars, got, writers>>
    BY ReceiveFacts, ChannelFacts
  <2>2. at'["trace"] = "check" BY <2>1, ChannelFacts DEF Types
  <2> QED BY <2>1, <2>2 DEF linkVars, writers
<1>2. /\ Len(buf["trace"]) >= FrameUnits
      /\ Len(hand'["trace"]) = FrameUnits
      /\ \A i \in 1 .. FrameUnits : hand'["trace"][i] = buf["trace"][i]
      /\ Len(buf'["trace"]) = Len(buf["trace"]) - FrameUnits
      /\ \A i \in 1 .. Len(buf["trace"]) - FrameUnits : buf'["trace"][i] = buf["trace"][FrameUnits + i]
  <2>1. PICK n \in 1 .. Len(buf["trace"]) :
          /\ n = FrameUnits /\ Len(hand'["trace"]) = n
          /\ \A i \in 1 .. n : hand'["trace"][i] = buf["trace"][i]
          /\ Len(buf'["trace"]) = Len(buf["trace"]) - n
          /\ \A i \in 1 .. Len(buf["trace"]) - n : buf'["trace"][i] = buf["trace"][n + i]
    BY ReceiveFacts, ChannelFacts
  <2> QED BY <2>1, TraceTypes
<1>3. HandRest' = HandRest BY <1>1, <1>2, TraceTypes, ConstantFacts DEF HandRest
<1>4. HandRest = Len(buf["trace"]) BY <1>1, TraceTypes
<1>5. FramesWait'
  <2>1. \A i \in 1 .. Len(buf["trace"]) :
           LET u == buf["trace"][i] IN
           u[1] = "frame" /\ u[3] \in 1 .. FrameUnits /\ AfterOf(frames, u) = Len(buf["trace"]) - i
    BY DEF FrameInv, FramesWait, FrameUnit, After
  <2>2. \A i \in 1 .. Len(buf'["trace"]) :
           LET u == buf'["trace"][i] IN
           u[1] = "frame" /\ u[3] \in 1 .. FrameUnits /\ AfterOf(frames, u) = Len(buf'["trace"]) - i
    <3>1. SUFFICES ASSUME NEW i \in 1 .. Len(buf'["trace"])
          PROVE  LET u == buf'["trace"][i] IN
                 u[1] = "frame" /\ u[3] \in 1 .. FrameUnits /\ AfterOf(frames, u) = Len(buf'["trace"]) - i
      OBVIOUS
    <3>2. FrameUnits + i \in 1 .. Len(buf["trace"])
          /\ Len(buf'["trace"]) - i = Len(buf["trace"]) - (FrameUnits + i)
          /\ i \in 1 .. Len(buf["trace"]) - FrameUnits
      BY <1>2, TraceTypes, ConstantFacts
    <3> QED BY <1>2, <2>1, <3>2
  <2>3. \A i \in 1 .. FrameUnits :
           LET u == hand'["trace"][i] IN
           u[1] = "frame" /\ u[3] \in 1 .. FrameUnits /\ AfterOf(frames, u) = HandRest - i
    <3>1. \A i \in 1 .. FrameUnits : i \in 1 .. Len(buf["trace"]) BY <1>2, TraceTypes, ConstantFacts
    <3> QED BY <1>2, <1>4, <2>1, <3>1
  <2> QED BY <1>1, <1>2, <1>3, <2>2, <2>3 DEF FramesWait, FrameUnit, After
<1>6. FramesGoOn'
  <2>1. at'["trace"] # "send" /\ at["trace"] # "send" /\ (Up("trace")' <=> Up("trace"))
    BY <1>1 DEF Up
  <2> QED BY <1>1, <1>3, <2>1 DEF FrameInv, FramesGoOn, After
<1>7. FramesAreWhole' BY <1>1 DEF FrameInv, FramesAreWhole
<1> QED BY <1>5, <1>6, <1>7

\* The rest of a frame is given up when its peer is gone.
LEMMA FramesDropped ==
    ASSUME Types, LinkIsSound, FrameInv, Discard("trace"), ~Up("trace"),
           UNCHANGED <<linkVars, buf, got, writers>>
    PROVE  FramesWait' /\ FramesGoOn' /\ FramesAreWhole'
<1>1. /\ Len(hand'["trace"]) = 0 /\ at'["trace"] = "wait"
      /\ buf' = buf /\ got' = got /\ frames' = frames /\ epoch' = epoch /\ link' = link /\ subs' = subs
  BY DiscardFacts, ChannelFacts DEF linkVars, writers
<1>2. HandRest' = Len(buf["trace"]) /\ HandRest' <= HandRest /\ HandRest \in Nat
  <2>1. Len(buf["trace"]) \in Nat /\ Len(hand["trace"]) \in Nat /\ HandRest \in Nat
        /\ HandRest = Len(hand["trace"]) + Len(buf["trace"])
    BY TraceTypes
  <2>2. HandRest' = Len(hand'["trace"]) + Len(buf'["trace"]) BY Zenon DEF HandRest
  <2>3. HandRest' = Len(buf["trace"]) BY <1>1, <2>1, <2>2
  <2> DEFINE a == Len(hand["trace"])  b == Len(buf["trace"])
  <2>4. a \in Nat /\ b \in Nat /\ HandRest = a + b BY <2>1
  <2> HIDE DEF a, b
  <2>5. b <= a + b BY <2>4
  <2> QED BY <2>1, <2>3, <2>4, <2>5 DEF b
<1>3. FramesWait' BY <1>1 DEF FrameInv, FramesWait, FrameUnit, After
<1>4. FramesGoOn'
  <2>1. at'["trace"] # "send" /\ ~Up("trace")' BY <1>1 DEF Up
  <2>2. SUFFICES ASSUME got["trace"] # <<>>
        PROVE  LET l == got["trace"][Len(got["trace"])] IN
               l.u[1] = "frame" /\ l.u[3] \in 1 .. FrameUnits /\ AfterOf(frames, l.u) >= HandRest'
    BY <1>1, <2>1 DEF FramesGoOn, After
  <2> DEFINE l == got["trace"][Len(got["trace"])]
  <2>3. l.u[1] = "frame" /\ l.u[3] \in 1 .. FrameUnits /\ AfterOf(frames, l.u) >= HandRest
    BY <2>2 DEF FrameInv, FramesGoOn, After
  <2>4. l.u \in UnitTypes BY <2>2, TraceTypes
  <2>5. AfterOf(frames, l.u) \in Int BY <2>4, AfterFacts, TraceTypes
  <2>6. HandRest' \in Nat BY <1>2, TraceTypes
  <2> HIDE DEF l
  <2>7. AfterOf(frames, l.u) >= HandRest' BY <1>2, <2>3, <2>5, <2>6
  <2> QED BY <2>3, <2>7 DEF l
<1>5. FramesAreWhole' BY <1>1 DEF FrameInv, FramesAreWhole
<1> QED BY <1>3, <1>4, <1>5

\* A whole frame is about to be sent.
LEMMA FramesSent ==
    ASSUME Types, LinkIsSound, FrameInv, CheckLink("trace"), Up("trace")
    PROVE  FramesWait' /\ FramesGoOn' /\ FramesAreWhole'
<1>1. /\ at["trace"] = "check" /\ at'["trace"] = "send"
      /\ UNCHANGED <<linkVars, buf, hand, got, writers>>
  BY ChannelFacts DEF CheckLink, Up, Types
<1>2. /\ buf' = buf /\ got' = got /\ hand' = hand /\ frames' = frames /\ epoch' = epoch
      /\ HandRest' = HandRest
  BY <1>1 DEF linkVars, writers, HandRest
<1>3. Len(hand["trace"]) = FrameUnits BY <1>1 DEF FrameInv, FramesWait
<1>4. FramesWait' BY <1>1, <1>2 DEF FrameInv, FramesWait, FrameUnit, After
<1>5. FramesGoOn'
  BY <1>1, <1>2, <1>3 DEF FrameInv, FramesGoOn, After
<1>6. FramesAreWhole' BY <1>2 DEF FrameInv, FramesAreWhole
<1> QED BY <1>4, <1>5, <1>6

\* The next unit of the frame goes out.
LEMMA FramesNotified ==
    ASSUME Types, LinkIsSound, FrameInv, Notify("trace")
    PROVE  FramesWait' /\ FramesGoOn' /\ FramesAreWhole'
<1> DEFINE h == hand["trace"]  b == buf["trace"]  g == got["trace"]
           u == h[1]
<1>1. /\ at["trace"] = "send" /\ Len(h) \in Nat \ {0}
      /\ Len(got'["trace"]) = Len(g) + 1
      /\ \A i \in 1 .. Len(g) : got'["trace"][i] = g[i]
      /\ got'["trace"][Len(g) + 1] = [u |-> u, e |-> epoch]
      /\ got'["trace"] \in Seq(Entries)
      /\ Len(hand'["trace"]) = Len(h) - 1
      /\ \A i \in 1 .. Len(h) - 1 : hand'["trace"][i] = h[i + 1]
      /\ at'["trace"] = (IF Len(h) = 1 THEN "wait" ELSE "send")
  BY NotifyFacts, ChannelFacts DEF Entries
<1>2. buf' = buf /\ frames' = frames /\ epoch' = epoch /\ link' = link /\ subs' = subs
  BY NotifyFacts, ChannelFacts DEF linkVars, writers
<1>3. Len(b) \in Nat /\ Len(g) \in Nat /\ frames \in Nat /\ epoch \in Nat /\ h \in Seq(UnitTypes) BY TraceTypes
<1>4. HandRest = Len(h) + Len(b) /\ HandRest' = (Len(h) - 1) + Len(b)
  BY <1>1, <1>2, Zenon DEF HandRest
<1>5. HandRest' = HandRest - 1 /\ HandRest \in Nat /\ HandRest' \in Nat
  <2> DEFINE x == Len(h)  y == Len(b)
  <2>1. x \in Nat \ {0} /\ y \in Nat BY <1>1, <1>3
  <2>2. HandRest = x + y /\ HandRest' = (x - 1) + y BY <1>4
  <2> HIDE DEF x, y
  <2> QED BY <2>1, <2>2
<1>6. \A i \in 1 .. Len(h) : h[i] \in UnitTypes BY <1>3
<1>7. \A i \in 1 .. Len(h) : /\ h[i][1] = "frame" /\ h[i][3] \in 1 .. FrameUnits
                             /\ AfterOf(frames, h[i]) = HandRest - i
  BY DEF FrameInv, FramesWait, FrameUnit, After
<1>8. IsFrame(u) /\ AfterOf(frames, u) = HandRest - 1
  <2>1. 1 \in 1 .. Len(h) BY <1>1
  <2> QED BY <1>6, <1>7, <2>1 DEF IsFrame
<1>9. PICK q \in Nat : Len(b) = FrameUnits * q
  BY DEF LinkIsSound, TypeOK
<1>10. FramesWait'
  <2>1. \A i \in 1 .. Len(h) - 1 :
           LET v == hand'["trace"][i] IN
           v[1] = "frame" /\ v[3] \in 1 .. FrameUnits /\ AfterOf(frames, v) = HandRest' - i
    <3>1. SUFFICES ASSUME NEW i \in 1 .. Len(h) - 1
          PROVE  LET v == hand'["trace"][i] IN
                 v[1] = "frame" /\ v[3] \in 1 .. FrameUnits /\ AfterOf(frames, v) = HandRest' - i
      OBVIOUS
    <3>2. i + 1 \in 1 .. Len(h) /\ HandRest - (i + 1) = HandRest' - i
      <4>1. i + 1 \in 1 .. Len(h) BY <1>1
      <4>2. i \in Int BY <1>1
      <4> QED BY <4>1, <4>2, <1>5
    <3> QED BY <1>1, <1>7, <3>2
  <2>2. at'["trace"] # "check" BY <1>1
  <2>3. \A i \in 1 .. Len(b) :
           b[i][1] = "frame" /\ b[i][3] \in 1 .. FrameUnits /\ AfterOf(frames, b[i]) = Len(b) - i
    BY DEF FrameInv, FramesWait, FrameUnit, After
  <2> QED BY <1>1, <1>2, <2>1, <2>2, <2>3 DEF FramesWait, FrameUnit, After
<1>11. Len(h) = 1 => u[3] = FrameUnits
  <2>1. ASSUME Len(h) = 1 PROVE u[3] = FrameUnits
    <3>1. AfterOf(frames, u) = FrameUnits * q BY <1>4, <1>5, <1>8, <1>9, <2>1
    <3> QED BY <1>3, <1>8, <3>1, WholeFrames
  <2> QED BY <2>1
<1>12. Len(h) = FrameUnits => u[3] = 1
  <2>1. ASSUME Len(h) = FrameUnits PROVE u[3] = 1
    <3>1. HandRest = FrameUnits + FrameUnits * q BY <1>4, <1>9, <2>1
    <3>2. FrameUnits * q \in Int BY ConstantFacts
    <3>3. AfterOf(frames, u) = FrameUnits * q + (FrameUnits - 1)
      BY <1>8, <3>1, <3>2, ConstantFacts
    <3> QED BY <1>3, <1>8, <3>3, WholeFrames
  <2> QED BY <2>1
<1>13. FramesGoOn'
  <2>1. Len(got'["trace"]) = Len(g) + 1 /\ got'["trace"][Len(got'["trace"])] = [u |-> u, e |-> epoch]
    BY <1>1
  <2> DEFINE l == got'["trace"][Len(got'["trace"])]
  <2>2. l.u = u /\ l.e = epoch BY <2>1
  <2>3. AfterOf(frames, u) = HandRest' BY <1>5, <1>8
  <2>4. l.u[1] = "frame" /\ l.u[3] \in 1 .. FrameUnits /\ AfterOf(frames, l.u) >= HandRest'
    BY <1>5, <1>8, <2>2, <2>3 DEF IsFrame
  <2>5. IF at'["trace"] = "send"
        THEN AfterOf(frames, l.u) = HandRest'
        ELSE l.u[3] = FrameUnits
    BY <1>1, <1>11, <2>2, <2>3
  <2> HIDE DEF l
  <2> QED BY <1>2, <2>4, <2>5 DEF FramesGoOn, After, l
<1>14. FramesAreWhole'
  <2>1. SUFFICES ASSUME NEW i \in 2 .. Len(g) + 1,
                        got'["trace"][i].e = got'["trace"][i - 1].e
                 PROVE  Follows(got'["trace"][i - 1].u, got'["trace"][i].u)
    BY <1>1 DEF FramesAreWhole, Follows
  <2>2. CASE i \in 2 .. Len(g)
    <3>1. i \in 1 .. Len(g) /\ i - 1 \in 1 .. Len(g) BY <1>3, <2>2
    <3>2. got'["trace"][i] = g[i] /\ got'["trace"][i - 1] = g[i - 1] BY <1>1, <3>1
    <3> QED BY <2>1, <2>2, <3>2 DEF FrameInv, FramesAreWhole, Follows
  <2>3. CASE i = Len(g) + 1
    <3>1. i - 1 = Len(g) /\ Len(g) \in 1 .. Len(g) BY <1>3, <2>3
    <3> DEFINE l == g[Len(g)]
    <3>2. got'["trace"][i] = [u |-> u, e |-> epoch] /\ got'["trace"][i - 1] = l
      BY <1>1, <2>3, <3>1
    <3>3. l.e = epoch BY <2>1, <3>2
    <3>4. g # <<>> BY <3>1, TraceTypes
    <3>5. l.u \in UnitTypes BY <3>1, TraceTypes
    <3>6. /\ l.u[1] = "frame" /\ l.u[3] \in 1 .. FrameUnits /\ AfterOf(frames, l.u) >= HandRest
          /\ AfterOf(frames, l.u) = HandRest
             \/ (l.u[3] = FrameUnits /\ Len(h) = FrameUnits)
      BY <1>1, <3>3, <3>4 DEF FrameInv, FramesGoOn, After
    <3>7. IsFrame(l.u) /\ AfterOf(frames, l.u) \in Int BY <1>3, <3>5, <3>6, AfterFacts DEF IsFrame
    <3> HIDE DEF l, u
    <3>8. AfterOf(frames, l.u) > AfterOf(frames, u) BY <1>5, <1>8, <3>6, <3>7
    <3>9. AfterOf(frames, l.u) = HandRest => AfterOf(frames, l.u) = AfterOf(frames, u) + 1
      BY <1>5, <1>8
    <3>10. Follows(l.u, u) BY <1>3, <1>8, <1>12, <3>6, <3>7, <3>8, <3>9, NextUnit
    <3> QED BY <3>2, <3>10
  <2> QED BY <1>3, <2>2, <2>3
<1> QED BY <1>10, <1>13, <1>14

\* A new frame goes to the end of the queue.
LEMMA FramesWritten ==
    ASSUME Types, LinkIsSound, FrameInv, TraceWrite
    PROVE  FramesWait' /\ FramesGoOn' /\ FramesAreWhole'
<1> DEFINE h == hand["trace"]  b == buf["trace"]  g == got["trace"]
<1>1. /\ Len(buf'["trace"]) = Len(b) + FrameUnits
      /\ \A i \in 1 .. Len(b) : buf'["trace"][i] = b[i]
      /\ \A i \in 1 .. FrameUnits : buf'["trace"][Len(b) + i] = <<"frame", frames + 1, 1 + i - 1>>
      /\ frames' = frames + 1
  BY TraceWriteFacts DEF Appends
<1>2. hand' = hand /\ at' = at /\ got' = got /\ epoch' = epoch /\ link' = link /\ subs' = subs
  BY DEF TraceWrite, linkVars
<1>3. /\ Len(b) \in Nat /\ Len(h) \in Nat /\ frames \in Nat
      /\ b \in Seq(UnitTypes) /\ h \in Seq(UnitTypes) BY TraceTypes
<1>4. HandRest' = HandRest + FrameUnits /\ HandRest \in Nat /\ HandRest' \in Nat
  <2> DEFINE x == Len(h)  y == Len(b)
  <2>1. HandRest = x + y /\ HandRest' = x + (y + FrameUnits) BY <1>1, <1>2, Zenon DEF HandRest
  <2>2. x \in Nat /\ y \in Nat BY <1>3
  <2> HIDE DEF x, y
  <2> QED BY <2>1, <2>2, ConstantFacts
<1>5. \A v \in UnitTypes : AfterOf(frames, v) \in Int
                           /\ AfterOf(frames', v) = AfterOf(frames, v) + FrameUnits
  BY <1>1, <1>3, AfterFacts
<1>6. FramesWait'
  <2>1. \A i \in 1 .. Len(b) :
           LET v == buf'["trace"][i] IN
           v[1] = "frame" /\ v[3] \in 1 .. FrameUnits /\ AfterOf(frames', v) = (Len(b) + FrameUnits) - i
    <3>1. SUFFICES ASSUME NEW i \in 1 .. Len(b)
          PROVE  b[i][1] = "frame" /\ b[i][3] \in 1 .. FrameUnits
                 /\ AfterOf(frames', b[i]) = (Len(b) + FrameUnits) - i
      BY <1>1
    <3>2. b[i][1] = "frame" /\ b[i][3] \in 1 .. FrameUnits /\ AfterOf(frames, b[i]) = Len(b) - i
      BY DEF FrameInv, FramesWait, FrameUnit, After
    <3>3. b[i] \in UnitTypes BY <1>3
    <3>4. AfterOf(frames', b[i]) = AfterOf(frames, b[i]) + FrameUnits BY <1>5, <3>3
    <3>5. (Len(b) - i) + FrameUnits = (Len(b) + FrameUnits) - i BY <1>3, ConstantFacts
    <3> QED BY <3>2, <3>4, <3>5
  <2>2. \A i \in 1 .. FrameUnits :
           LET v == buf'["trace"][Len(b) + i] IN
           v[1] = "frame" /\ v[3] \in 1 .. FrameUnits
           /\ AfterOf(frames', v) = (Len(b) + FrameUnits) - (Len(b) + i)
    <3>1. SUFFICES ASSUME NEW i \in 1 .. FrameUnits
          PROVE  LET v == buf'["trace"][Len(b) + i] IN
                 v[1] = "frame" /\ v[3] \in 1 .. FrameUnits
                 /\ AfterOf(frames', v) = (Len(b) + FrameUnits) - (Len(b) + i)
      OBVIOUS
    <3> DEFINE v == buf'["trace"][Len(b) + i]
    <3>2. 1 + i - 1 = i BY ConstantFacts
    <3>3. v = <<"frame", frames + 1, i>> BY <1>1, <3>2
    <3>4. v[1] = "frame" /\ v[2] = frames + 1 /\ v[3] = i BY <3>3
    <3>5. AfterOf(frames', v) = FrameUnits * ((frames + 1) - (frames + 1)) + (FrameUnits - i)
      BY <1>1, <3>4 DEF AfterOf
    <3>6. FrameUnits * ((frames + 1) - (frames + 1)) + (FrameUnits - i) = FrameUnits - i
      <4>1. (frames + 1) - (frames + 1) = 0 BY <1>3
      <4>2. FrameUnits * 0 = 0 BY ConstantFacts
      <4> QED BY <4>1, <4>2, ConstantFacts
    <3>7. (Len(b) + FrameUnits) - (Len(b) + i) = FrameUnits - i BY <1>3, ConstantFacts
    <3> HIDE DEF v
    <3>8. AfterOf(frames', v) = (Len(b) + FrameUnits) - (Len(b) + i) BY <3>5, <3>6, <3>7
    <3> QED BY <3>4, <3>8 DEF v
  <2>3. \A i \in 1 .. Len(buf'["trace"]) :
           LET v == buf'["trace"][i] IN
           v[1] = "frame" /\ v[3] \in 1 .. FrameUnits /\ AfterOf(frames', v) = Len(buf'["trace"]) - i
    <3>1. SUFFICES ASSUME NEW i \in 1 .. Len(b) + FrameUnits
          PROVE  LET v == buf'["trace"][i] IN
                 v[1] = "frame" /\ v[3] \in 1 .. FrameUnits /\ AfterOf(frames', v) = (Len(b) + FrameUnits) - i
      BY <1>1
    <3>2. CASE i \in 1 .. Len(b) BY <2>1, <3>2
    <3>3. CASE i > Len(b)
      <4>1. i - Len(b) \in 1 .. FrameUnits /\ Len(b) + (i - Len(b)) = i BY <1>3, <3>3, ConstantFacts
      <4> QED BY <2>2, <4>1
    <3> QED BY <1>3, <3>2, <3>3
  <2>4. \A i \in 1 .. Len(h) :
           h[i][1] = "frame" /\ h[i][3] \in 1 .. FrameUnits /\ AfterOf(frames', h[i]) = HandRest' - i
    <3>1. SUFFICES ASSUME NEW i \in 1 .. Len(h)
          PROVE  h[i][1] = "frame" /\ h[i][3] \in 1 .. FrameUnits /\ AfterOf(frames', h[i]) = HandRest' - i
      OBVIOUS
    <3>2. h[i][1] = "frame" /\ h[i][3] \in 1 .. FrameUnits /\ AfterOf(frames, h[i]) = HandRest - i
      BY DEF FrameInv, FramesWait, FrameUnit, After
    <3>3. h[i] \in UnitTypes BY <1>3
    <3>4. AfterOf(frames', h[i]) = AfterOf(frames, h[i]) + FrameUnits BY <1>5, <3>3
    <3>5. (HandRest - i) + FrameUnits = HandRest' - i BY <1>4, ConstantFacts
    <3> QED BY <3>2, <3>4, <3>5
  <2>5. at["trace"] = "check" => Len(h) = FrameUnits BY DEF FrameInv, FramesWait
  <2> QED BY <1>2, <2>3, <2>4, <2>5 DEF FramesWait, FrameUnit, After
<1>7. FramesGoOn'
  <2>1. Up("trace")' <=> Up("trace") BY <1>2 DEF Up
  <2> DEFINE l == g[Len(g)]
  <2>2. SUFFICES ASSUME g # <<>>
        PROVE  /\ l.u[1] = "frame" /\ l.u[3] \in 1 .. FrameUnits /\ AfterOf(frames', l.u) >= HandRest'
               /\ l.e = epoch =>
                     IF at["trace"] = "send"
                     THEN AfterOf(frames', l.u) = HandRest'
                          \/ (l.u[3] = FrameUnits /\ Len(h) = FrameUnits)
                     ELSE l.u[3] = FrameUnits \/ ~Up("trace")
    BY <1>2, <2>1 DEF FramesGoOn, After
  <2>3. /\ l.u[1] = "frame" /\ l.u[3] \in 1 .. FrameUnits /\ AfterOf(frames, l.u) >= HandRest
        /\ l.e = epoch =>
              IF at["trace"] = "send"
              THEN AfterOf(frames, l.u) = HandRest
                   \/ (l.u[3] = FrameUnits /\ Len(h) = FrameUnits)
              ELSE l.u[3] = FrameUnits \/ ~Up("trace")
    BY <2>2 DEF FrameInv, FramesGoOn, After
  <2>4. Len(g) \in 1 .. Len(g) BY <2>2, TraceTypes
  <2>5. l.u \in UnitTypes BY <2>4, TraceTypes
  <2>6. AfterOf(frames, l.u) \in Int /\ AfterOf(frames', l.u) = AfterOf(frames, l.u) + FrameUnits
    BY <1>5, <2>5
  <2> HIDE DEF l
  <2>7. AfterOf(frames', l.u) >= HandRest' BY <1>4, <2>3, <2>6, ConstantFacts
  <2>8. AfterOf(frames, l.u) = HandRest => AfterOf(frames', l.u) = HandRest' BY <1>4, <2>6
  <2> QED BY <2>3, <2>7, <2>8
<1>8. FramesAreWhole' BY <1>2 DEF FrameInv, FramesAreWhole
<1> QED BY <1>6, <1>7, <1>8

LEMMA FrameStep ==
    Types /\ LinkIsSound /\ FrameInv /\ [Next]_vars => FrameInv'
<1> SUFFICES ASSUME Types, LinkIsSound, FrameInv, [Next]_vars PROVE FrameInv'
  OBVIOUS
<1>1. EpochsPass' BY EpochsStep DEF FrameInv
<1>2. SUFFICES FramesWait' /\ FramesGoOn' /\ FramesAreWhole' BY <1>1 DEF FrameInv
<1>3. ASSUME UNCHANGED <<linkVars, got, frames>>,
             buf'["trace"] = buf["trace"], hand'["trace"] = hand["trace"], at'["trace"] = at["trace"]
      PROVE  FramesWait' /\ FramesGoOn' /\ FramesAreWhole'
  <2>1. epoch' = epoch /\ (Up("trace")' <=> Up("trace")) BY <1>3 DEF linkVars, Up
  <2> QED BY <1>3, <2>1, FramesQuiet
<1>4. CASE LinkEvent /\ UNCHANGED <<buf, hand, at, got, writers>>
  <2>1. LinkTypeOK BY DEF LinkIsSound, TypeOK
  <2>2. /\ epoch' = epoch \/ epoch' = epoch + 1
        /\ epoch' = epoch => (Up("trace")' => Up("trace"))
    BY <1>4, <2>1, LinkTurns, ChannelFacts
  <2> QED BY <1>4, <2>2, FramesQuiet DEF writers
<1>5. CASE TextCheck \/ StartDump \/ DumpFails \/ DumpOver \/ TailCheck \/ UNCHANGED vars
  BY <1>3, <1>5 DEF TextCheck, StartDump, DumpFails, DumpOver, TailCheck, vars, writers
<1>6. CASE TextWrite \/ TailWrite \/ DumpSend
  <2>1. buf'["trace"] = buf["trace"]
    <3>1. CASE TextWrite
      <4>1. Write("text", text.n) BY <3>1 DEF TextWrite
      <4> QED BY <4>1, ChannelFacts DEF Write, Types
    <3>2. CASE TailWrite
      <4>1. Write("tail", dump.n) BY <3>2 DEF TailWrite
      <4> QED BY <4>1, ChannelFacts DEF Write, Types
    <3>3. CASE DumpSend BY <3>3, ChannelFacts DEF DumpSend, Types
    <3> QED BY <1>6, <3>1, <3>2, <3>3
  <2> QED BY <1>3, <1>6, <2>1 DEF TextWrite, TailWrite, DumpSend
<1>7. CASE TraceWrite BY <1>7, FramesWritten
<1>8. ASSUME NEW ch \in Channels, ch # "trace", TxTask(ch)
      PROVE  FramesWait' /\ FramesGoOn' /\ FramesAreWhole'
  <2>1. UNCHANGED <<linkVars, frames>> BY <1>8 DEF TxTask, Receive, CheckLink, Notify, NotifyFails, writers
  <2>2. /\ buf'["trace"] = buf["trace"] /\ hand'["trace"] = hand["trace"]
        /\ at'["trace"] = at["trace"] /\ got'["trace"] = got["trace"]
    BY <1>8, ChannelFacts DEF TxTask, Receive, CheckLink, Notify, NotifyFails, Discard, Consume, Types
  <2>3. epoch' = epoch /\ (Up("trace")' <=> Up("trace")) BY <2>1 DEF linkVars, Up
  <2> QED BY <2>1, <2>2, <2>3, FramesQuiet
<1>9. CASE TxTask("trace")
  <2>1. CASE Receive("trace") BY <2>1, FramesTaken
  <2>2. CASE CheckLink("trace")
    <3>1. CASE Up("trace") BY <2>2, <3>1, FramesSent
    <3>2. CASE ~Up("trace")
      <4>1. Discard("trace") /\ UNCHANGED <<linkVars, buf, got, writers>>
        BY <2>2, <3>2 DEF CheckLink, Up
      <4> QED BY <3>2, <4>1, FramesDropped
    <3> QED BY <3>1, <3>2
  <2>3. CASE Notify("trace") BY <2>3, FramesNotified
  <2>4. CASE NotifyFails("trace")
    <3>1. Discard("trace") /\ ~Up("trace") /\ UNCHANGED <<linkVars, buf, got, writers>>
      BY <2>4 DEF NotifyFails, Up
    <3> QED BY <3>1, FramesDropped
  <2> QED BY <1>9, <2>1, <2>2, <2>3, <2>4 DEF TxTask
<1> QED BY <1>4, <1>5, <1>6, <1>7, <1>8, <1>9 DEF Next, DumpTask

-----------------------------------------------------------------------------
(* The stream of the text channel *)

Queued == Len(buf["tx"])

\* The stream, part by part.
StreamShape ==
    /\ Received \in Nat /\ Held \in Nat /\ Queued \in Nat /\ Total \in Nat
    /\ Total = Received + Held + Queued
    /\ \A i \in 1 .. Received : i \in 1 .. Total /\ Stream[i] = got["tx"][i].u
    /\ \A i \in 1 .. Held : Received + i \in 1 .. Total /\ Stream[Received + i] = hand["tx"][i]
    /\ \A i \in 1 .. Queued :
          Received + Held + i \in 1 .. Total /\ Stream[Received + Held + i] = buf["tx"][i]
    /\ \A i \in 1 .. Total : Stream[i] \in UnitTypes
    /\ Stream = [i \in 1 .. Total |-> Stream[i]]

LEMMA StreamFacts ==
    ASSUME Types
    PROVE  /\ Received \in Nat /\ Held \in Nat /\ Queued \in Nat /\ Total \in Nat
           /\ Total = Received + Held + Queued
           /\ \A i \in 1 .. Received : i \in 1 .. Total /\ Stream[i] = got["tx"][i].u
           /\ \A i \in 1 .. Held : Received + i \in 1 .. Total /\ Stream[Received + i] = hand["tx"][i]
           /\ \A i \in 1 .. Queued :
                 Received + Held + i \in 1 .. Total /\ Stream[Received + Held + i] = buf["tx"][i]
           /\ \A i \in 1 .. Total : Stream[i] \in UnitTypes
           /\ Stream = [i \in 1 .. Total |-> Stream[i]]
<1>1. got["tx"] \in Seq(Entries) /\ hand["tx"] \in Seq(UnitTypes) /\ buf["tx"] \in Seq(UnitTypes)
  BY ChannelFacts DEF Types, Entries
<1>2. Received \in Nat /\ Held \in Nat /\ Queued \in Nat BY <1>1 DEF Received, Held, Queued
<1>3. Total = Received + Held + Queued BY DEF Total, Queued
<1>4. Total \in Nat BY <1>2, <1>3
<1>5. Stream = [i \in 1 .. Total |->
         IF i <= Received THEN got["tx"][i].u
         ELSE IF i <= Received + Held THEN hand["tx"][i - Received]
         ELSE buf["tx"][i - Received - Held]]
  BY DEF Stream
<1>6. \A i \in 1 .. Total : Stream[i] =
         IF i <= Received THEN got["tx"][i].u
         ELSE IF i <= Received + Held THEN hand["tx"][i - Received]
         ELSE buf["tx"][i - Received - Held]
  BY <1>5
<1>7. /\ \A i \in 1 .. Received : got["tx"][i].u \in UnitTypes
      /\ \A i \in 1 .. Held : hand["tx"][i] \in UnitTypes
      /\ \A i \in 1 .. Queued : buf["tx"][i] \in UnitTypes
  <2>1. \A e \in Entries : e.u \in UnitTypes BY DEF Entries
  <2>2. \A i \in 1 .. Received : got["tx"][i] \in Entries BY <1>1 DEF Received
  <2>3. \A i \in 1 .. Held : hand["tx"][i] \in UnitTypes BY <1>1 DEF Held
  <2>4. \A i \in 1 .. Queued : buf["tx"][i] \in UnitTypes BY <1>1 DEF Queued
  <2> QED BY <2>1, <2>2, <2>3, <2>4
<1>8. \A i \in 1 .. Received : i \in 1 .. Total /\ Stream[i] = got["tx"][i].u
  BY <1>2, <1>3, <1>6
<1>9. \A i \in 1 .. Held : Received + i \in 1 .. Total /\ Stream[Received + i] = hand["tx"][i]
  <2>1. SUFFICES ASSUME NEW i \in 1 .. Held
                 PROVE  Received + i \in 1 .. Total /\ Stream[Received + i] = hand["tx"][i]
    OBVIOUS
  <2>2. /\ Received + i \in 1 .. Total /\ ~(Received + i <= Received) /\ Received + i <= Received + Held
        /\ (Received + i) - Received = i
    BY <1>2, <1>3
  <2> QED BY <1>6, <2>2
<1>10. \A i \in 1 .. Queued :
          Received + Held + i \in 1 .. Total /\ Stream[Received + Held + i] = buf["tx"][i]
  <2>1. SUFFICES ASSUME NEW i \in 1 .. Queued
                 PROVE  /\ Received + Held + i \in 1 .. Total
                        /\ Stream[Received + Held + i] = buf["tx"][i]
    OBVIOUS
  <2>2. /\ Received + Held + i \in 1 .. Total
        /\ ~(Received + Held + i <= Received) /\ ~(Received + Held + i <= Received + Held)
        /\ (Received + Held + i) - Received - Held = i
    BY <1>2, <1>3
  <2> QED BY <1>6, <2>2
<1>11. \A i \in 1 .. Total : Stream[i] \in UnitTypes
  <2>1. SUFFICES ASSUME NEW i \in 1 .. Total PROVE Stream[i] \in UnitTypes OBVIOUS
  <2>2. CASE i <= Received BY <1>2, <1>6, <1>7, <2>2
  <2>3. CASE i > Received /\ i <= Received + Held
    <3>1. i - Received \in 1 .. Held /\ ~(i <= Received) BY <1>2, <2>3
    <3> QED BY <1>6, <1>7, <2>3, <3>1
  <2>4. CASE i > Received + Held
    <3>1. i - Received - Held \in 1 .. Queued /\ ~(i <= Received) /\ ~(i <= Received + Held)
      BY <1>2, <1>3, <2>4
    <3> QED BY <1>6, <1>7, <3>1
  <2> QED BY <1>2, <2>2, <2>3, <2>4
<1>12. Stream = [i \in 1 .. Total |-> Stream[i]] BY <1>5
<1> QED BY <1>2, <1>3, <1>4, <1>8, <1>9, <1>10, <1>11, <1>12

\* Every place of the stream is in one of its three parts.
LEMMA StreamParts ==
    ASSUME Types, NEW i \in 1 .. Total
    PROVE  \/ i \in 1 .. Received
           \/ \E k \in 1 .. Held : i = Received + k
           \/ \E k \in 1 .. Queued : i = Received + Held + k
<1>1. Received \in Nat /\ Held \in Nat /\ Queued \in Nat /\ Total = Received + Held + Queued
  BY StreamFacts
<1>2. CASE i <= Received BY <1>1, <1>2
<1>3. CASE i > Received /\ i <= Received + Held
  <2>1. i - Received \in 1 .. Held /\ i = Received + (i - Received) BY <1>1, <1>3
  <2> QED BY <2>1
<1>4. CASE i > Received + Held
  <2>1. i - Received - Held \in 1 .. Queued /\ i = Received + Held + (i - Received - Held)
    BY <1>1, <1>4
  <2> QED BY <2>1
<1> QED BY <1>1, <1>2, <1>3, <1>4

LEMMA StreamShapeNext == Types' => StreamShape'
<1>1. Types => StreamShape
  <2> SUFFICES ASSUME Types PROVE StreamShape OBVIOUS
  <2> QED BY StreamFacts DEF StreamShape
<1> QED BY <1>1, PTL

\* The same after a step.
LEMMA StreamFactsNext ==
    ASSUME Types'
    PROVE  /\ Received' \in Nat /\ Held' \in Nat /\ Queued' \in Nat /\ Total' \in Nat
           /\ Total' = Received' + Held' + Queued'
           /\ \A i \in 1 .. Received' : i \in 1 .. Total' /\ Stream'[i] = got'["tx"][i].u
           /\ \A i \in 1 .. Held' : Received' + i \in 1 .. Total' /\ Stream'[Received' + i] = hand'["tx"][i]
           /\ \A i \in 1 .. Queued' :
                 Received' + Held' + i \in 1 .. Total' /\ Stream'[Received' + Held' + i] = buf'["tx"][i]
           /\ \A i \in 1 .. Total' : Stream'[i] \in UnitTypes
           /\ Stream' = [i \in 1 .. Total' |-> Stream'[i]]
BY StreamShapeNext DEF StreamShape

SameStream == Total' = Total /\ Stream' = Stream

LEMMA SameStreamFacts ==
    ASSUME Types, Types', Total' = Total, \A i \in 1 .. Total : Stream'[i] = Stream[i]
    PROVE  SameStream
<1>1. Stream = [i \in 1 .. Total |-> Stream[i]] BY StreamFacts
<1>2. Stream' = [i \in 1 .. Total' |-> Stream'[i]] BY StreamFactsNext
<1>3. Stream' = [i \in 1 .. Total |-> Stream[i]] BY <1>2
<1> QED BY <1>1, <1>3 DEF SameStream

\* What the task takes out of the buffer stays where it is in the stream.
LEMMA ReceiveStream ==
    ASSUME Types, LinkIsSound, Types', Receive("tx")
    PROVE  SameStream /\ Received' = Received
<1>1. PICK n \in 1 .. Len(buf["tx"]) :
        /\ Len(hand["tx"]) = 0 /\ got' = got
        /\ Len(hand'["tx"]) = n /\ Len(buf'["tx"]) = Len(buf["tx"]) - n
        /\ \A i \in 1 .. n : hand'["tx"][i] = buf["tx"][i]
        /\ \A i \in 1 .. Len(buf["tx"]) - n : buf'["tx"][i] = buf["tx"][n + i]
  BY ReceiveFacts, ChannelFacts
<1>2. /\ n \in 1 .. Queued /\ Held = 0 /\ Held' = n /\ Received' = Received
      /\ Queued' = Queued - n
  BY <1>1 DEF Held, Queued, Received
<1>3. /\ Received \in Nat /\ Queued \in Nat /\ Total = Received + Held + Queued
      /\ Total' = Received' + Held' + Queued'
      /\ Total \in Nat
  BY StreamFacts, StreamFactsNext
<1>4. Total' = Total BY <1>2, <1>3
<1>5. \A i \in 1 .. Received : Stream'[i] = got'["tx"][i].u /\ Stream[i] = got["tx"][i].u
  BY <1>2, StreamFacts, StreamFactsNext
<1>6. \A k \in 1 .. Queued : Stream[Received + k] = buf["tx"][k]
  <2>1. \A k \in 1 .. Queued : Stream[Received + Held + k] = buf["tx"][k] BY StreamFacts
  <2>2. \A k \in 1 .. Queued : Received + Held + k = Received + k BY <1>2, <1>3
  <2> QED BY <2>1, <2>2
<1>7. \A k \in 1 .. n : Stream'[Received + k] = buf["tx"][k]
  <2>1. \A k \in 1 .. Held' : Stream'[Received' + k] = hand'["tx"][k] BY StreamFactsNext
  <2> QED BY <1>1, <1>2, <2>1
<1>8. \A k \in 1 .. Queued - n : Stream'[Received + n + k] = buf["tx"][n + k]
  <2>1. \A k \in 1 .. Queued' : Stream'[Received' + Held' + k] = buf'["tx"][k] BY StreamFactsNext
  <2>2. \A k \in 1 .. Queued - n : buf'["tx"][k] = buf["tx"][n + k] BY <1>1 DEF Queued
  <2> QED BY <1>2, <2>1, <2>2
<1>9. \A i \in 1 .. Total : Stream'[i] = Stream[i]
  <2>1. SUFFICES ASSUME NEW i \in 1 .. Total PROVE Stream'[i] = Stream[i] OBVIOUS
  <2>2. CASE i <= Received
    <3>1. i \in 1 .. Received BY <1>3, <2>2
    <3> QED BY <1>1, <1>5, <3>1
  <2>3. CASE i > Received /\ i <= Received + n
    <3>1. i - Received \in 1 .. n /\ i - Received \in 1 .. Queued /\ i = Received + (i - Received)
      BY <1>2, <1>3, <2>3
    <3> QED BY <1>6, <1>7, <3>1
  <2>4. CASE i > Received + n
    <3> DEFINE k == i - (Received + n)
    <3>1. k \in 1 .. Queued - n /\ i = Received + n + k /\ n + k \in 1 .. Queued /\ i = Received + (n + k)
      BY <1>2, <1>3, <2>4
    <3> HIDE DEF k
    <3> QED BY <1>6, <1>8, <3>1
  <2> QED BY <1>2, <1>3, <2>2, <2>3, <2>4
<1> QED BY <1>2, <1>4, <1>9, SameStreamFacts

\* A notification moves the border between what is received and what is held.
LEMMA NotifyStream ==
    ASSUME Types, LinkIsSound, Types', Notify("tx")
    PROVE  /\ SameStream /\ Received' = Received + 1 /\ Held' = Held - 1 /\ Held > 0
           /\ \A i \in 1 .. Received : got'["tx"][i] = got["tx"][i]
           /\ got'["tx"][Received + 1].e = epoch
<1>1. /\ Len(hand["tx"]) \in Nat \ {0}
      /\ Len(got'["tx"]) = Len(got["tx"]) + 1
      /\ \A i \in 1 .. Len(got["tx"]) : got'["tx"][i] = got["tx"][i]
      /\ got'["tx"][Len(got["tx"]) + 1] = [u |-> hand["tx"][1], e |-> epoch]
      /\ Len(hand'["tx"]) = Len(hand["tx"]) - 1
      /\ \A i \in 1 .. Len(hand["tx"]) - 1 : hand'["tx"][i] = hand["tx"][i + 1]
      /\ buf' = buf
  BY NotifyFacts, ChannelFacts
<1>2. /\ Received' = Received + 1 /\ Held' = Held - 1 /\ Held > 0 /\ Queued' = Queued
  BY <1>1 DEF Held, Queued, Received
<1>3. /\ Received \in Nat /\ Held \in Nat /\ Queued \in Nat /\ Total = Received + Held + Queued
      /\ Total' = Received' + Held' + Queued' /\ Total \in Nat
  BY StreamFacts, StreamFactsNext
<1>4. Total' = Total BY <1>2, <1>3
<1>5. /\ \A i \in 1 .. Received : got'["tx"][i] = got["tx"][i]
      /\ got'["tx"][Received + 1].e = epoch /\ got'["tx"][Received + 1].u = hand["tx"][1]
  BY <1>1 DEF Received
<1>6. \A i \in 1 .. Total : Stream'[i] = Stream[i]
  <2>1. SUFFICES ASSUME NEW i \in 1 .. Total PROVE Stream'[i] = Stream[i] OBVIOUS
  <2>2. CASE i <= Received
    <3>1. i \in 1 .. Received /\ i \in 1 .. Received' BY <1>2, <1>3, <2>2
    <3>2. Stream[i] = got["tx"][i].u BY <3>1, StreamFacts
    <3>3. Stream'[i] = got'["tx"][i].u BY <3>1, StreamFactsNext
    <3> QED BY <1>5, <3>1, <3>2, <3>3
  <2>3. CASE i = Received + 1
    <3>1. i \in 1 .. Received' /\ 1 \in 1 .. Held BY <1>2, <1>3, <2>3
    <3>2. Stream[Received + 1] = hand["tx"][1] BY <3>1, StreamFacts
    <3>3. Stream'[i] = got'["tx"][i].u BY <3>1, StreamFactsNext
    <3> QED BY <1>5, <2>3, <3>2, <3>3
  <2>4. CASE i > Received + 1 /\ i <= Received + Held
    <3> DEFINE k == i - (Received + 1)
    <3>1. k \in 1 .. Held' /\ i = Received' + k /\ k + 1 \in 1 .. Held /\ i = Received + (k + 1)
      BY <1>2, <1>3, <2>4
    <3> HIDE DEF k
    <3>2. Stream[Received + (k + 1)] = hand["tx"][k + 1] BY <3>1, StreamFacts
    <3>3. Stream'[Received' + k] = hand'["tx"][k] BY <3>1, StreamFactsNext
    <3>4. hand'["tx"][k] = hand["tx"][k + 1]
      <4>1. k \in 1 .. Len(hand["tx"]) - 1 BY <1>2, <3>1 DEF Held
      <4> QED BY <1>1, <4>1
    <3> QED BY <3>1, <3>2, <3>3, <3>4
  <2>5. CASE i > Received + Held
    <3> DEFINE k == i - (Received + Held)
    <3>1. k \in 1 .. Queued /\ k \in 1 .. Queued' /\ i = Received + Held + k /\ i = Received' + Held' + k
      BY <1>2, <1>3, <2>5
    <3> HIDE DEF k
    <3>2. Stream[Received + Held + k] = buf["tx"][k] BY <3>1, StreamFacts
    <3>3. Stream'[Received' + Held' + k] = buf'["tx"][k] BY <3>1, StreamFactsNext
    <3> QED BY <1>1, <3>1, <3>2, <3>3
  <2> QED BY <1>2, <1>3, <2>2, <2>3, <2>4, <2>5
<1> QED BY <1>2, <1>4, <1>5, <1>6, SameStreamFacts

\* A discarded scratch buffer leaves a gap, with what waits coming closer.
LEMMA DropStream ==
    ASSUME Types, Types', Discard("tx"), UNCHANGED <<linkVars, buf, got, writers>>
    PROVE  /\ Received' = Received /\ Total' = Total - Held
           /\ \A i \in 1 .. Received : i \in 1 .. Total' /\ Stream'[i] = Stream[i]
           /\ \A i \in Received + 1 .. Total' :
                 i + Held \in Received + Held + 1 .. Total /\ Stream'[i] = Stream[i + Held]
<1>1. Len(hand'["tx"]) = 0 /\ buf' = buf /\ got' = got
  BY DiscardFacts, ChannelFacts
<1>2. Held' = 0 /\ Received' = Received /\ Queued' = Queued
  BY <1>1 DEF Held, Queued, Received
<1>3. /\ Received \in Nat /\ Held \in Nat /\ Queued \in Nat /\ Total = Received + Held + Queued
      /\ Total' = Received' + Held' + Queued' /\ Total \in Nat /\ Total' \in Nat
  BY StreamFacts, StreamFactsNext
<1>4. Total' = Total - Held BY <1>2, <1>3
<1>5. \A i \in 1 .. Received : i \in 1 .. Total' /\ Stream'[i] = Stream[i]
  <2>1. SUFFICES ASSUME NEW i \in 1 .. Received PROVE i \in 1 .. Total' /\ Stream'[i] = Stream[i]
    OBVIOUS
  <2>2. Stream[i] = got["tx"][i].u BY StreamFacts
  <2>3. i \in 1 .. Total' /\ Stream'[i] = got'["tx"][i].u BY <1>2, StreamFactsNext
  <2> QED BY <1>1, <2>2, <2>3
<1>6. \A i \in Received + 1 .. Total' :
         i + Held \in Received + Held + 1 .. Total /\ Stream'[i] = Stream[i + Held]
  <2>1. SUFFICES ASSUME NEW i \in Received + 1 .. Total'
                 PROVE  i + Held \in Received + Held + 1 .. Total /\ Stream'[i] = Stream[i + Held]
    OBVIOUS
  <2> DEFINE k == i - Received
  <2>2. /\ k \in 1 .. Queued /\ k \in 1 .. Queued' /\ i = Received' + Held' + k
        /\ i + Held = Received + Held + k
    BY <1>2, <1>3
  <2> HIDE DEF k
  <2>3. Stream[Received + Held + k] = buf["tx"][k] BY <2>2, StreamFacts
  <2>4. Stream'[Received' + Held' + k] = buf'["tx"][k] BY <2>2, StreamFactsNext
  <2>5. i + Held \in Received + Held + 1 .. Total BY <1>3, <2>2
  <2> QED BY <1>1, <2>2, <2>3, <2>4, <2>5
<1> QED BY <1>2, <1>4, <1>5, <1>6

\* What is written comes after all that was there.
LEMMA GrowStream ==
    ASSUME Types, Types', UNCHANGED <<hand, got>>,
           NEW by \in Writers, NEW n \in Nat, NEW from \in Nat, NEW c \in Nat,
           Appends("tx", by, n, from, c)
    PROVE  /\ Received' = Received /\ Total' = Total + c
           /\ \A i \in 1 .. Total : i \in 1 .. Total' /\ Stream'[i] = Stream[i]
           /\ \A k \in 1 .. c : Total + k \in 1 .. Total' /\ Stream'[Total + k] = <<by, n, from + k - 1>>
<1>1. /\ Len(buf'["tx"]) = Len(buf["tx"]) + c
      /\ \A i \in 1 .. Len(buf["tx"]) : buf'["tx"][i] = buf["tx"][i]
      /\ \A i \in 1 .. c : buf'["tx"][Len(buf["tx"]) + i] = <<by, n, from + i - 1>>
  BY DEF Appends
<1>2. Held' = Held /\ Received' = Received /\ Queued' = Queued + c
  BY <1>1 DEF Held, Queued, Received
<1>3. /\ Received \in Nat /\ Held \in Nat /\ Queued \in Nat /\ Total = Received + Held + Queued
      /\ Total' = Received' + Held' + Queued' /\ Total \in Nat /\ Total' \in Nat
  BY StreamFacts, StreamFactsNext
<1>4. Total' = Total + c BY <1>2, <1>3
<1>5. \A i \in 1 .. Total : i \in 1 .. Total' /\ Stream'[i] = Stream[i]
  <2>1. SUFFICES ASSUME NEW i \in 1 .. Total PROVE i \in 1 .. Total' /\ Stream'[i] = Stream[i]
    OBVIOUS
  <2>2. i \in 1 .. Total' BY <1>3, <1>4
  <2>3. CASE i \in 1 .. Received
    <3>1. Stream[i] = got["tx"][i].u BY <2>3, StreamFacts
    <3>2. Stream'[i] = got'["tx"][i].u BY <1>2, <2>3, StreamFactsNext
    <3> QED BY <2>2, <3>1, <3>2
  <2>4. ASSUME NEW k \in 1 .. Held, i = Received + k PROVE Stream'[i] = Stream[i]
    <3>1. Stream[Received + k] = hand["tx"][k] BY StreamFacts
    <3>2. Stream'[Received' + k] = hand'["tx"][k] BY <1>2, StreamFactsNext
    <3> QED BY <1>2, <2>4, <3>1, <3>2
  <2>5. ASSUME NEW k \in 1 .. Queued, i = Received + Held + k PROVE Stream'[i] = Stream[i]
    <3>0. k \in 1 .. Queued' BY <1>2, <1>3
    <3>1. Stream[Received + Held + k] = buf["tx"][k] BY StreamFacts
    <3>2. Stream'[Received' + Held' + k] = buf'["tx"][k] BY <3>0, StreamFactsNext
    <3>3. buf'["tx"][k] = buf["tx"][k] BY <1>1 DEF Queued
    <3> QED BY <1>2, <2>5, <3>1, <3>2, <3>3
  <2> QED BY <2>2, <2>3, <2>4, <2>5, StreamParts
<1>6. \A k \in 1 .. c : Total + k \in 1 .. Total' /\ Stream'[Total + k] = <<by, n, from + k - 1>>
  <2>1. SUFFICES ASSUME NEW k \in 1 .. c
                 PROVE  Total + k \in 1 .. Total' /\ Stream'[Total + k] = <<by, n, from + k - 1>>
    OBVIOUS
  <2>2. /\ Total + k \in 1 .. Total' /\ Queued + k \in 1 .. Queued'
        /\ Total + k = Received' + Held' + (Queued + k)
    BY <1>2, <1>3, <1>4
  <2>3. Stream'[Received' + Held' + (Queued + k)] = buf'["tx"][Queued + k] BY <2>2, StreamFactsNext
  <2>4. buf'["tx"][Queued + k] = <<by, n, from + k - 1>> BY <1>1 DEF Queued
  <2> QED BY <2>2, <2>3, <2>4
<1> QED BY <1>2, <1>4, <1>5, <1>6

-----------------------------------------------------------------------------
(* What is written arrives in order *)

\* Leaving units out, or none, does not disturb an order.
LEMMA OrderKept ==
    ASSUME OrderInv, dump' = dump, text'.at = "write" => text.at = "write",
           Total \in Nat, Total' \in Nat,
           NEW f, \A i \in 1 .. Total' : f[i] \in 1 .. Total /\ Stream'[i] = Stream[f[i]],
           \A i, j \in 1 .. Total' : i < j => f[i] < f[j]
    PROVE  OrderInv'
<1>1. DumpsInOrder' BY DEF OrderInv, DumpsInOrder
<1>2. \A i, j \in 1 .. Total' :
         i < j /\ IsDump(Stream'[i]) /\ Stream'[j][1] = "text"
         => Stream'[i][2] < dump.n \/ dump.at = "none"
  BY DEF OrderInv, TextKeepsOut
<1>3. \A i, j, k \in 1 .. Total' :
         i < j /\ j < k /\ IsDump(Stream'[i]) /\ IsDump(Stream'[k]) /\ Stream'[i][2] = Stream'[k][2]
         => Stream'[j][1] # "text"
  BY DEF OrderInv, TextKeepsOut
<1>4. text'.at = "write" => dump.at = "none" \/ dump.sent = 0 BY DEF OrderInv, TextKeepsOut
<1>5. TextKeepsOut' BY <1>2, <1>3, <1>4 DEF TextKeepsOut
<1> QED BY <1>1, <1>5 DEF OrderInv

LEMMA OrderSame ==
    ASSUME Types, OrderInv, SameStream, dump' = dump, text'.at = "write" => text.at = "write"
    PROVE  OrderInv'
BY DEF OrderInv, DumpsInOrder, TextKeepsOut, SameStream

LEMMA OrderDropped ==
    ASSUME Types, Types', OrderInv, Discard("tx"), UNCHANGED <<linkVars, buf, got, writers>>
    PROVE  OrderInv'
<1> DEFINE f == [i \in 1 .. Total' |-> IF i <= Received THEN i ELSE i + Held]
<1>1. /\ Received \in Nat /\ Held \in Nat /\ Total \in Nat /\ Total' \in Nat
      /\ Received <= Total
  BY StreamFacts, StreamFactsNext
<1>2. /\ Total' = Total - Held
      /\ \A i \in 1 .. Received : i \in 1 .. Total' /\ Stream'[i] = Stream[i]
      /\ \A i \in Received + 1 .. Total' :
            i + Held \in Received + Held + 1 .. Total /\ Stream'[i] = Stream[i + Held]
  BY DropStream
<1>3. \A i \in 1 .. Total' : f[i] = IF i <= Received THEN i ELSE i + Held OBVIOUS
<1> HIDE DEF f
<1>4. \A i \in 1 .. Total' : f[i] \in 1 .. Total /\ Stream'[i] = Stream[f[i]]
  <2>1. SUFFICES ASSUME NEW i \in 1 .. Total' PROVE f[i] \in 1 .. Total /\ Stream'[i] = Stream[f[i]]
    OBVIOUS
  <2>2. CASE i <= Received
    <3>1. i \in 1 .. Received /\ i \in 1 .. Total /\ f[i] = i BY <1>1, <1>3, <2>2
    <3> QED BY <1>2, <3>1
  <2>3. CASE i > Received
    <3>1. i \in Received + 1 .. Total' /\ i + Held \in 1 .. Total /\ f[i] = i + Held
      BY <1>1, <1>2, <1>3, <2>3
    <3> QED BY <1>2, <3>1
  <2> QED BY <1>1, <2>2, <2>3
<1>5. \A i, j \in 1 .. Total' : i < j => f[i] < f[j] BY <1>1, <1>3
<1>6. dump' = dump /\ text' = text BY DEF writers
<1> QED BY <1>1, <1>4, <1>5, <1>6, OrderKept

\* Text is written before the dump task can send, the last line of a failed dump anywhere.
LEMMA OrderWritten ==
    ASSUME Types, Types', OrderInv, UNCHANGED <<hand, got, dump>>,
           NEW by \in {"text", "tail"}, NEW n \in Nat, NEW c \in Nat,
           Appends("tx", by, n, 1, c), by = "text" => text.at = "write",
           text'.at = "write" => text.at = "write"
    PROVE  OrderInv'
<1>1. by \in Writers BY DEF Writers
<1>2. /\ Total' = Total + c
      /\ \A i \in 1 .. Total : i \in 1 .. Total' /\ Stream'[i] = Stream[i]
      /\ \A k \in 1 .. c : Total + k \in 1 .. Total' /\ Stream'[Total + k] = <<by, n, 1 + k - 1>>
  BY <1>1, GrowStream
<1>3. Total \in Nat BY StreamFacts
<1>4. \A i \in 1 .. Total' : i \in 1 .. Total \/ Stream'[i][1] = by
  <2>1. SUFFICES ASSUME NEW i \in 1 .. Total', i > Total PROVE Stream'[i][1] = by BY <1>3
  <2>2. i - Total \in 1 .. c /\ i = Total + (i - Total) BY <1>2, <1>3, <2>1
  <2>3. Stream'[i] = <<by, n, 1 + (i - Total) - 1>> BY <1>2, <2>2
  <2> QED BY <2>3
<1>5. \A i \in 1 .. Total' : IsDump(Stream'[i]) => i \in 1 .. Total
  BY <1>4 DEF IsDump
<1>6. DumpsInOrder' BY <1>2, <1>5 DEF OrderInv, DumpsInOrder
<1>7. ASSUME NEW i \in 1 .. Total', NEW j \in 1 .. Total',
             i < j, IsDump(Stream'[i]), Stream'[j][1] = "text"
      PROVE  Stream'[i][2] < dump.n \/ dump.at = "none"
  <2>1. i \in 1 .. Total /\ Stream'[i] = Stream[i] BY <1>2, <1>5, <1>7
  <2>2. CASE j \in 1 .. Total
    <3>1. Stream'[j] = Stream[j] BY <1>2, <2>2
    <3> QED BY <1>7, <2>1, <2>2, <3>1 DEF OrderInv, TextKeepsOut
  <2>3. CASE j \notin 1 .. Total
    <3>1. dump.at = "none" \/ dump.sent = 0 BY <1>4, <1>7, <2>3 DEF OrderInv, TextKeepsOut
    <3>2. /\ Stream[i][3] \in 1 .. DumpUnits /\ Stream[i][2] <= dump.n
          /\ Stream[i][2] = dump.n => Stream[i][3] <= dump.sent
      BY <1>7, <2>1 DEF OrderInv, DumpsInOrder
    <3>3. Stream[i][2] \in Nat /\ dump.n \in Nat BY <2>1, StreamFacts, UnitFacts, DumpFacts
    <3> QED BY <2>1, <3>1, <3>2, <3>3, ConstantFacts
  <2> QED BY <2>2, <2>3
<1>8. ASSUME NEW i \in 1 .. Total', NEW j \in 1 .. Total', NEW k \in 1 .. Total',
             i < j, j < k, IsDump(Stream'[i]), IsDump(Stream'[k]), Stream'[i][2] = Stream'[k][2]
      PROVE  Stream'[j][1] # "text"
  <2>1. i \in 1 .. Total /\ k \in 1 .. Total BY <1>5, <1>8
  <2>2. j \in 1 .. Total BY <1>3, <1>8, <2>1
  <2>3. Stream'[i] = Stream[i] /\ Stream'[j] = Stream[j] /\ Stream'[k] = Stream[k] BY <1>2, <2>1, <2>2
  <2> QED BY <1>8, <2>1, <2>2, <2>3 DEF OrderInv, TextKeepsOut
<1>9. text'.at = "write" => dump.at = "none" \/ dump.sent = 0 BY DEF OrderInv, TextKeepsOut
<1>10. TextKeepsOut' BY <1>7, <1>8, <1>9 DEF TextKeepsOut
<1> QED BY <1>6, <1>10 DEF OrderInv

\* The dump task writes its units one after the other.
LEMMA OrderSent ==
    ASSUME Types, Types', OrderInv, UNCHANGED <<hand, got, text>>, NEW c \in Nat,
           Appends("tx", "dump", dump.n, dump.sent + 1, c),
           dump' = [dump EXCEPT !.sent = dump.sent + c], dump.sent + c \in 0 .. DumpUnits,
           dump.at = "send", text.at = "idle"
    PROVE  OrderInv'
<1>1. "dump" \in Writers /\ dump.n \in Nat /\ dump.sent \in Nat /\ dump.sent + 1 \in Nat
  BY DumpFacts DEF Writers
<1>2. /\ Total' = Total + c
      /\ \A i \in 1 .. Total : i \in 1 .. Total' /\ Stream'[i] = Stream[i]
      /\ \A k \in 1 .. c :
            Total + k \in 1 .. Total' /\ Stream'[Total + k] = <<"dump", dump.n, dump.sent + 1 + k - 1>>
  BY <1>1, GrowStream
<1>3. Total \in Nat BY StreamFacts
<1>4. dump'.n = dump.n /\ dump'.at = dump.at /\ dump'.sent = dump.sent + c
  BY DumpFacts
<1>5. \A i \in 1 .. Total' : i > Total =>
         /\ i - Total \in 1 .. c
         /\ Stream'[i] = <<"dump", dump.n, dump.sent + (i - Total)>>
         /\ Stream'[i][1] = "dump" /\ Stream'[i][2] = dump.n /\ Stream'[i][3] = dump.sent + (i - Total)
  <2>1. SUFFICES ASSUME NEW i \in 1 .. Total', i > Total
                 PROVE  /\ i - Total \in 1 .. c
                        /\ Stream'[i] = <<"dump", dump.n, dump.sent + (i - Total)>>
    BY DEF IsDump
  <2>2. i - Total \in 1 .. c /\ i = Total + (i - Total) BY <1>2, <1>3, <2>1
  <2>3. dump.sent + 1 + (i - Total) - 1 = dump.sent + (i - Total) BY <1>1, <2>2
  <2> QED BY <1>2, <2>2, <2>3
<1>6. \A i \in 1 .. Total : /\ i \in 1 .. Total' /\ Stream'[i] = Stream[i]
                            /\ Stream[i][2] \in Nat /\ Stream[i][3] \in Nat
  BY <1>2, StreamFacts, UnitFacts
<1>7. \A i \in 1 .. Total' : i \in 1 .. Total \/ i > Total BY <1>3
<1>8. \A i \in 1 .. Total : IsDump(Stream[i]) =>
         /\ Stream[i][3] \in 1 .. DumpUnits /\ Stream[i][2] <= dump.n
         /\ Stream[i][2] = dump.n => Stream[i][3] <= dump.sent
  BY DEF OrderInv, DumpsInOrder
<1>9. DumpsInOrder'
  <2>1. ASSUME NEW i \in 1 .. Total', IsDump(Stream'[i])
        PROVE  /\ Stream'[i][3] \in 1 .. DumpUnits /\ Stream'[i][2] <= dump.n
               /\ Stream'[i][2] = dump.n => Stream'[i][3] <= dump.sent + c
    <3>1. CASE i \in 1 .. Total BY <1>1, <1>6, <1>8, <2>1, <3>1
    <3>2. CASE i > Total
      <4>1. i - Total \in 1 .. c /\ Stream'[i][2] = dump.n /\ Stream'[i][3] = dump.sent + (i - Total)
        BY <1>5, <3>2
      <4>2. dump.sent + (i - Total) \in 1 .. DumpUnits /\ dump.sent + (i - Total) <= dump.sent + c
        BY <1>1, <4>1, ConstantFacts
      <4> QED BY <1>1, <4>1, <4>2
    <3> QED BY <1>7, <3>1, <3>2
  <2>2. ASSUME NEW i \in 1 .. Total', NEW j \in 1 .. Total', i < j,
               IsDump(Stream'[i]), IsDump(Stream'[j])
        PROVE  Precedes(Stream'[i], Stream'[j])
    <3>1. CASE j \in 1 .. Total
      <4>1. i \in 1 .. Total BY <1>3, <2>2, <3>1
      <4> QED BY <1>6, <2>2, <3>1, <4>1 DEF OrderInv, DumpsInOrder
    <3>2. CASE j > Total /\ i \in 1 .. Total
      <4>1. j - Total \in 1 .. c /\ Stream'[j][2] = dump.n /\ Stream'[j][3] = dump.sent + (j - Total)
        BY <1>5, <3>2
      <4>2. dump.sent < dump.sent + (j - Total) BY <1>1, <4>1
      <4>3. Stream'[i][2] \in Nat /\ Stream'[i][3] \in Nat /\ Stream'[i][2] <= dump.n
            /\ (Stream'[i][2] = dump.n => Stream'[i][3] <= dump.sent)
        BY <1>6, <1>8, <2>2, <3>2
      <4> DEFINE d == j - Total
      <4>4. d \in Int BY <1>3
      <4> HIDE DEF d
      <4> QED BY <1>1, <4>1, <4>2, <4>3, <4>4 DEF Precedes, d
    <3>3. CASE j > Total /\ i > Total
      <4>1. /\ i - Total \in 1 .. c /\ Stream'[i][2] = dump.n /\ Stream'[i][3] = dump.sent + (i - Total)
            /\ j - Total \in 1 .. c /\ Stream'[j][2] = dump.n /\ Stream'[j][3] = dump.sent + (j - Total)
        BY <1>5, <3>3
      <4>2. dump.sent + (i - Total) < dump.sent + (j - Total) BY <1>1, <1>3, <2>2
      <4> QED BY <4>1, <4>2 DEF Precedes
    <3> QED BY <1>7, <3>1, <3>2, <3>3
  <2> QED BY <1>4, <2>1, <2>2 DEF DumpsInOrder
<1>10. \A j \in 1 .. Total' : Stream'[j][1] = "text" => j \in 1 .. Total
  BY <1>5, <1>7
<1>11. ASSUME NEW i \in 1 .. Total', NEW j \in 1 .. Total',
              i < j, IsDump(Stream'[i]), Stream'[j][1] = "text"
       PROVE  Stream'[i][2] < dump.n
  <2>1. j \in 1 .. Total /\ i \in 1 .. Total BY <1>3, <1>10, <1>11
  <2> QED BY <1>6, <1>11, <2>1 DEF OrderInv, TextKeepsOut
<1>12. ASSUME NEW i \in 1 .. Total', NEW j \in 1 .. Total', NEW k \in 1 .. Total',
              i < j, j < k, IsDump(Stream'[i]), IsDump(Stream'[k]), Stream'[i][2] = Stream'[k][2],
              Stream'[j][1] = "text"
       PROVE  FALSE
  <2>1. j \in 1 .. Total /\ i \in 1 .. Total BY <1>3, <1>10, <1>12
  <2>2. CASE k \in 1 .. Total BY <1>6, <1>12, <2>1, <2>2 DEF OrderInv, TextKeepsOut
  <2>3. CASE k > Total
    <3>1. Stream'[k][2] = dump.n BY <1>5, <2>3
    <3>2. Stream'[i][2] < dump.n BY <1>11, <1>12
    <3> QED BY <1>1, <1>12, <3>1, <3>2
  <2> QED BY <1>7, <2>2, <2>3
<1>13. TextKeepsOut' BY <1>4, <1>11, <1>12 DEF TextKeepsOut
<1> QED BY <1>9, <1>13 DEF OrderInv

-----------------------------------------------------------------------------
(* Nothing is missing from a dump *)

\* The definitions, unfolded once.
LEMMA WholeFacts ==
    ASSUME NEW i, NEW j
    PROVE  Whole(i, j) <=>
              \A m \in Int :
                 \/ Stream[i][2] = Stream[j][2] /\ m \in Stream[i][3] .. Stream[j][3]
                 \/ Stream[i][2] < Stream[j][2] /\ m \in 1 .. Stream[j][3]
                 => \E r \in i .. j : Stream[r] = <<"dump", Stream[j][2], m>>
<1>1. \A a, b : \A m \in a .. b : m \in Int OBVIOUS
<1> QED BY <1>1 DEF Whole

LEMMA WholeFactsNext ==
    ASSUME NEW i, NEW j
    PROVE  Whole(i, j)' <=>
              \A m \in Int :
                 \/ Stream'[i][2] = Stream'[j][2] /\ m \in Stream'[i][3] .. Stream'[j][3]
                 \/ Stream'[i][2] < Stream'[j][2] /\ m \in 1 .. Stream'[j][3]
                 => \E r \in i .. j : Stream'[r] = <<"dump", Stream'[j][2], m>>
<1>1. \A a, b : \A m \in a .. b : m \in Int OBVIOUS
<1> QED BY <1>1 DEF Whole

LEMMA SoFarFacts ==
    ASSUME NEW i
    PROVE  WholeSoFar(i) <=>
              \A m \in Int :
                 \/ Stream[i][2] = dump.n /\ m \in Stream[i][3] .. dump.sent
                 \/ Stream[i][2] < dump.n /\ m \in 1 .. dump.sent
                 => \E r \in i .. Total : Stream[r] = <<"dump", dump.n, m>>
<1>1. \A a, b : \A m \in a .. b : m \in Int OBVIOUS
<1> QED BY <1>1 DEF WholeSoFar, DumpUnit

LEMMA SoFarFactsNext ==
    ASSUME NEW i
    PROVE  WholeSoFar(i)' <=>
              \A m \in Int :
                 \/ Stream'[i][2] = dump'.n /\ m \in Stream'[i][3] .. dump'.sent
                 \/ Stream'[i][2] < dump'.n /\ m \in 1 .. dump'.sent
                 => \E r \in i .. Total' : Stream'[r] = <<"dump", dump'.n, m>>
<1>1. \A a, b : \A m \in a .. b : m \in Int OBVIOUS
<1> QED BY <1>1 DEF WholeSoFar, DumpUnit

\* A piece of the stream that moves as a whole stays whole.
LEMMA WholeMoved ==
    ASSUME NEW i \in Nat, NEW j \in Nat, NEW d \in Nat, i <= j,
           \A r \in i .. j : Stream'[r] = Stream[r + d],
           Whole(i + d, j + d)
    PROVE  Whole(i, j)'
<1>1. Stream'[i] = Stream[i + d] /\ Stream'[j] = Stream[j + d] OBVIOUS
<1>2. SUFFICES ASSUME NEW m \in Int,
                      \/ Stream'[i][2] = Stream'[j][2] /\ m \in Stream'[i][3] .. Stream'[j][3]
                      \/ Stream'[i][2] < Stream'[j][2] /\ m \in 1 .. Stream'[j][3]
               PROVE  \E r \in i .. j : Stream'[r] = <<"dump", Stream'[j][2], m>>
  BY WholeFactsNext
<1>3. PICK r \in i + d .. j + d : Stream[r] = <<"dump", Stream[j + d][2], m>>
  BY <1>1, <1>2, WholeFacts
<1>4. r - d \in i .. j /\ (r - d) + d = r BY <1>3
<1>5. Stream'[r - d] = Stream[r] BY <1>4
<1> QED BY <1>1, <1>3, <1>4, <1>5

LEMMA SoFarMoved ==
    ASSUME NEW i \in Nat, NEW d \in Nat, Total \in Nat, Total' \in Nat, i <= Total', Total' + d = Total,
           \A r \in i .. Total' : Stream'[r] = Stream[r + d],
           dump'.n = dump.n, dump'.sent = dump.sent,
           WholeSoFar(i + d)
    PROVE  WholeSoFar(i)'
<1>1. Stream'[i] = Stream[i + d] OBVIOUS
<1>2. SUFFICES ASSUME NEW m \in Int,
                      \/ Stream'[i][2] = dump'.n /\ m \in Stream'[i][3] .. dump'.sent
                      \/ Stream'[i][2] < dump'.n /\ m \in 1 .. dump'.sent
               PROVE  \E r \in i .. Total' : Stream'[r] = <<"dump", dump'.n, m>>
  BY SoFarFactsNext
<1>3. PICK r \in i + d .. Total : Stream[r] = <<"dump", dump.n, m>>
  BY <1>1, <1>2, SoFarFacts
<1>4. r - d \in i .. Total' /\ (r - d) + d = r
  <2>0. r \in Int /\ r >= i + d /\ r <= Total BY <1>3
  <2>5. Total = Total' + d OBVIOUS
  <2>1. r \in Int /\ r >= i + d /\ r <= Total' + d BY <2>0, <2>5, Zenon
  <2>2. \A t \in Nat : r <= t + d => r - d <= t BY <2>1
  <2>3. r - d <= Total' BY <2>1, <2>2
  <2>4. r - d \in Int /\ r - d >= i /\ (r - d) + d = r BY <2>1
  <2> QED BY <2>3, <2>4
<1>5. Stream'[r - d] = Stream[r] BY <1>4
<1> QED BY <1>3, <1>4, <1>5

LEMMA MissingSame ==
    ASSUME Types, Types', NothingMissing, SameStream, dump'.n = dump.n, dump'.sent = dump.sent,
           \A i \in 1 .. Total : Linked(i)' => Linked(i),
           \A i, j \in 1 .. Total : i <= j /\ SamePeer(i, j)' => SamePeer(i, j)
    PROVE  NothingMissing'
<1>1. Total' = Total /\ Stream' = Stream /\ Total \in Nat BY StreamFacts DEF SameStream
<1>2. ASSUME NEW i \in 1 .. Total, NEW j \in 1 .. Total,
             i <= j, IsDump(Stream'[i]), IsDump(Stream'[j]), SamePeer(i, j)'
      PROVE  Whole(i, j)'
  <2>1. Whole(i, j) BY <1>1, <1>2 DEF NothingMissing
  <2>2. i \in Nat /\ j \in Nat /\ i + 0 = i /\ j + 0 = j OBVIOUS
  <2>3. \A r \in i .. j : Stream'[r] = Stream[r + 0] BY <1>1
  <2> QED BY <1>2, <2>1, <2>2, <2>3, WholeMoved
<1>3. ASSUME NEW i \in 1 .. Total, IsDump(Stream'[i]), Linked(i)'
      PROVE  WholeSoFar(i)'
  <2>1. WholeSoFar(i) BY <1>1, <1>3 DEF NothingMissing
  <2>2. i \in Nat /\ i + 0 = i /\ i <= Total' /\ Total' + 0 = Total BY <1>1
  <2>3. \A r \in i .. Total' : Stream'[r] = Stream[r + 0] BY <1>1
  <2> QED BY <1>1, <2>1, <2>2, <2>3, SoFarMoved
<1> QED BY <1>1, <1>2, <1>3 DEF NothingMissing

\* A unit received by an earlier peer, or by one who is about to miss some, counts no more.
LEMMA LinkedQuiet ==
    ASSUME Types, LinkIsSound, EpochsPass, Received' = Received, got'["tx"] = got["tx"],
           epoch' = epoch \/ epoch' = epoch + 1,
           epoch' = epoch => (Up("tx")' \/ at'["tx"] = "send" => Up("tx") \/ at["tx"] = "send")
    PROVE  /\ \A i \in 1 .. Total : Linked(i)' => Linked(i)
           /\ \A i, j \in 1 .. Total : i <= j /\ SamePeer(i, j)' => SamePeer(i, j)
<1>1. epoch \in Nat BY TraceTypes
<1>2. Received \in Nat BY StreamFacts
<1>3. \A i \in 1 .. Received : got["tx"][i].e <= epoch /\ got["tx"][i].e \in Nat
  <2>1. got["tx"] \in Seq(Entries) BY ChannelFacts DEF Types, Entries
  <2>2. \A i \in 1 .. Received : got["tx"][i] \in Entries BY <2>1 DEF Received
  <2>3. \A i \in 1 .. Received : got["tx"][i].e \in Nat BY <2>2 DEF Entries
  <2> QED BY <2>3, ChannelFacts DEF EpochsPass, Received
<1>4. ASSUME NEW i \in 1 .. Total, Linked(i)' PROVE Linked(i)
  <2>1. CASE i > Received BY <2>1 DEF Linked
  <2>2. CASE i \in 1 .. Received
    <3>1. ~(i > Received') BY <1>2, <2>2
    <3>2. got["tx"][i].e = epoch' /\ (Up("tx")' \/ at'["tx"] = "send") BY <1>4, <3>1 DEF Linked
    <3>3. epoch' = epoch BY <1>1, <1>3, <2>2, <3>2
    <3> QED BY <3>2, <3>3 DEF Linked
  <2> QED BY <1>2, <2>1, <2>2
<1>5. \A i, j \in 1 .. Total : i <= j /\ SamePeer(i, j)' => SamePeer(i, j)
  BY <1>4 DEF SamePeer
<1> QED BY <1>4, <1>5

LEMMA LinkedNotify ==
    ASSUME Types, LinkIsSound, Types', Notify("tx")
    PROVE  /\ \A i \in 1 .. Total : Linked(i)' => Linked(i)
           /\ \A i, j \in 1 .. Total : i <= j /\ SamePeer(i, j)' => SamePeer(i, j)
<1>1. /\ Received' = Received + 1
      /\ \A i \in 1 .. Received : got'["tx"][i] = got["tx"][i]
      /\ got'["tx"][Received + 1].e = epoch
  BY NotifyStream
<1>2. at["tx"] = "send" /\ epoch' = epoch BY NotifyFacts, ChannelFacts DEF linkVars
<1>3. Received \in Nat BY StreamFacts
<1>4. \A i \in 1 .. Total : i \in 1 .. Received \/ i > Received BY <1>3
<1>5. ASSUME NEW i \in 1 .. Total, Linked(i)' PROVE Linked(i)
  <2>1. CASE i > Received BY <2>1 DEF Linked
  <2>2. CASE i \in 1 .. Received
    <3>1. ~(i > Received') BY <1>1, <1>3, <2>2
    <3>2. got["tx"][i].e = epoch BY <1>1, <1>2, <1>5, <2>2, <3>1 DEF Linked
    <3> QED BY <1>2, <3>2 DEF Linked
  <2> QED BY <1>4, <2>1, <2>2
<1>6. ASSUME NEW i \in 1 .. Total, NEW j \in 1 .. Total, i <= j, SamePeer(i, j)' PROVE SamePeer(i, j)
  <2>1. CASE j > Received + 1
    <3>1. j > Received' /\ j > Received /\ ~(j <= Received') BY <1>1, <1>3, <2>1
    <3>2. Linked(i)' BY <1>6, <3>1 DEF SamePeer
    <3> QED BY <1>5, <3>1, <3>2 DEF SamePeer
  <2>2. CASE j = Received + 1
    <3>1. j > Received /\ ~(j > Received') BY <1>1, <1>3, <2>2
    <3>2. got'["tx"][i].e = epoch BY <1>1, <1>6, <2>2, <3>1 DEF SamePeer
    <3>3. Linked(i)
      <4>1. CASE i \in 1 .. Received BY <1>1, <1>2, <3>2, <4>1 DEF Linked
      <4>2. CASE i > Received BY <4>2 DEF Linked
      <4> QED BY <1>4, <4>1, <4>2
    <3> QED BY <3>1, <3>3 DEF SamePeer
  <2>3. CASE j <= Received
    <3>1. i \in 1 .. Received /\ j \in 1 .. Received /\ ~(j > Received') BY <1>1, <1>3, <1>6, <2>3
    <3>2. got["tx"][i].e = got["tx"][j].e BY <1>1, <1>6, <3>1 DEF SamePeer
    <3> QED BY <2>3, <3>2 DEF SamePeer
  <2> QED BY <1>3, <2>1, <2>2, <2>3
<1> QED BY <1>5, <1>6

\* Who missed a scratch buffer has nothing to come.
LEMMA MissingDropped ==
    ASSUME Types, Types', NothingMissing, Discard("tx"), ~Up("tx"),
           UNCHANGED <<linkVars, buf, got, writers>>
    PROVE  NothingMissing'
<1>1. /\ Received \in Nat /\ Held \in Nat /\ Total \in Nat /\ Total' \in Nat
      /\ Received <= Total
  BY StreamFacts, StreamFactsNext
<1>2. /\ Received' = Received /\ Total' = Total - Held
      /\ \A i \in 1 .. Received : i \in 1 .. Total' /\ Stream'[i] = Stream[i]
      /\ \A i \in Received + 1 .. Total' :
            i + Held \in Received + Held + 1 .. Total /\ Stream'[i] = Stream[i + Held]
  BY DropStream
<1>3. got' = got /\ dump' = dump /\ ~Up("tx")' /\ at'["tx"] # "send"
  BY DiscardFacts, ChannelFacts DEF linkVars, writers, Up
<1>4. \A i : Linked(i)' => i > Received BY <1>2, <1>3 DEF Linked
<1>5. ASSUME NEW i \in 1 .. Total', i > Received
      PROVE  /\ i \in Nat /\ i + Held \in 1 .. Total /\ i + Held > Received
             /\ Linked(i + Held) /\ Stream'[i] = Stream[i + Held]
  <2>1. i \in Received + 1 .. Total' /\ i + Held > Received BY <1>1, <1>5
  <2>2. i + Held \in 1 .. Total BY <1>1, <1>2, <2>1
  <2> QED BY <1>2, <2>1, <2>2 DEF Linked
<1>6. ASSUME NEW i \in 1 .. Total', NEW j \in 1 .. Total',
             i <= j, IsDump(Stream'[i]), IsDump(Stream'[j]), SamePeer(i, j)'
      PROVE  Whole(i, j)'
  <2>1. CASE j > Received
    <3>1. i > Received
      <4>1. ~(j <= Received') BY <1>1, <1>2, <2>1
      <4>2. Linked(i)' BY <1>6, <4>1 DEF SamePeer
      <4> QED BY <1>4, <4>2
    <3>2. /\ i + Held \in 1 .. Total /\ j + Held \in 1 .. Total /\ i + Held <= j + Held
          /\ IsDump(Stream[i + Held]) /\ IsDump(Stream[j + Held]) /\ SamePeer(i + Held, j + Held)
      <4>1. i + Held <= j + Held BY <1>1, <1>6
      <4> QED BY <1>5, <1>6, <2>1, <3>1, <4>1 DEF SamePeer
    <3>3. Whole(i + Held, j + Held) BY <3>2 DEF NothingMissing
    <3>4. \A r \in i .. j : Stream'[r] = Stream[r + Held]
      <4>1. \A r \in i .. j : r \in 1 .. Total' /\ r > Received BY <1>1, <3>1
      <4> QED BY <1>5, <4>1
    <3> QED BY <1>1, <1>5, <1>6, <2>1, <3>1, <3>3, <3>4, WholeMoved
  <2>2. CASE j <= Received
    <3>1. /\ i \in 1 .. Received /\ j \in 1 .. Received /\ ~(j > Received')
          /\ i \in 1 .. Total /\ j \in 1 .. Total /\ i \in Nat /\ j \in Nat
      BY <1>1, <1>2, <1>6, <2>2
    <3>2. got["tx"][i].e = got["tx"][j].e BY <1>3, <1>6, <3>1 DEF SamePeer
    <3>3. SamePeer(i, j) BY <2>2, <3>2 DEF SamePeer
    <3>4. IsDump(Stream[i]) /\ IsDump(Stream[j]) BY <1>2, <1>6, <3>1
    <3>5. Whole(i, j) BY <1>6, <3>1, <3>3, <3>4 DEF NothingMissing
    <3>6. \A r \in i .. j : Stream'[r] = Stream[r + 0]
      <4>1. \A r \in i .. j : r \in 1 .. Received /\ r + 0 = r BY <1>1, <3>1
      <4> QED BY <1>2, <4>1
    <3>7. i + 0 = i /\ j + 0 = j BY <3>1
    <3> QED BY <1>6, <3>1, <3>5, <3>6, <3>7, WholeMoved
  <2> QED BY <1>1, <2>1, <2>2
<1>7. ASSUME NEW i \in 1 .. Total', IsDump(Stream'[i]), Linked(i)'
      PROVE  WholeSoFar(i)'
  <2>1. i > Received BY <1>4, <1>7
  <2>2. /\ i \in Nat /\ i + Held \in 1 .. Total /\ Linked(i + Held) /\ IsDump(Stream[i + Held])
    BY <1>5, <1>7, <2>1
  <2>3. WholeSoFar(i + Held) BY <2>2 DEF NothingMissing
  <2>4. \A r \in i .. Total' : Stream'[r] = Stream[r + Held]
    <3>1. \A r \in i .. Total' : r \in 1 .. Total' /\ r > Received BY <1>1, <2>1
    <3> QED BY <1>5, <3>1
  <2>5. i <= Total' /\ Total' + Held = Total BY <1>1, <1>2
  <2> QED BY <1>1, <1>3, <2>2, <2>3, <2>4, <2>5, SoFarMoved
<1> QED BY <1>6, <1>7 DEF NothingMissing

\* Something that is not a dump is written.
LEMMA MissingWritten ==
    ASSUME Types, Types', LinkIsSound, EpochsPass, NothingMissing,
           UNCHANGED <<linkVars, hand, at, got, dump>>,
           NEW by \in {"text", "tail"}, NEW n \in Nat, NEW c \in Nat, Appends("tx", by, n, 1, c)
    PROVE  NothingMissing'
<1>1. by \in Writers /\ 1 \in Nat /\ UNCHANGED <<hand, got>> BY DEF Writers
<1>2. /\ Received' = Received /\ Total' = Total + c
      /\ \A i \in 1 .. Total : i \in 1 .. Total' /\ Stream'[i] = Stream[i]
      /\ \A k \in 1 .. c : Total + k \in 1 .. Total' /\ Stream'[Total + k] = <<by, n, 1 + k - 1>>
  BY <1>1, GrowStream
<1>3. Total \in Nat /\ Total' \in Nat BY StreamFacts, StreamFactsNext
<1>4. \A i \in 1 .. Total' : IsDump(Stream'[i]) => i \in 1 .. Total
  <2>1. SUFFICES ASSUME NEW i \in 1 .. Total', i > Total PROVE ~IsDump(Stream'[i]) BY <1>3
  <2>2. i - Total \in 1 .. c /\ i = Total + (i - Total) BY <1>2, <1>3, <2>1
  <2>3. Stream'[i] = <<by, n, 1 + (i - Total) - 1>> BY <1>2, <2>2
  <2>4. Stream'[i][1] = by BY <2>3
  <2> QED BY <2>4 DEF IsDump
<1>5. /\ \A i \in 1 .. Total : Linked(i)' => Linked(i)
      /\ \A i, j \in 1 .. Total : i <= j /\ SamePeer(i, j)' => SamePeer(i, j)
  <2>1. epoch' = epoch /\ (Up("tx")' <=> Up("tx")) BY DEF linkVars, Up
  <2> QED BY <1>2, <2>1, LinkedQuiet
<1>6. ASSUME NEW i \in 1 .. Total', NEW j \in 1 .. Total',
             i <= j, IsDump(Stream'[i]), IsDump(Stream'[j]), SamePeer(i, j)'
      PROVE  Whole(i, j)'
  <2>1. i \in 1 .. Total /\ j \in 1 .. Total /\ i \in Nat /\ j \in Nat /\ i + 0 = i /\ j + 0 = j
    BY <1>4, <1>6
  <2>2. Whole(i, j) BY <1>2, <1>5, <1>6, <2>1 DEF NothingMissing
  <2>3. \A r \in i .. j : Stream'[r] = Stream[r + 0]
    <3>1. \A r \in i .. j : r \in 1 .. Total /\ r + 0 = r BY <1>3, <2>1
    <3> QED BY <1>2, <3>1
  <2> QED BY <1>6, <2>1, <2>2, <2>3, WholeMoved
<1>7. ASSUME NEW i \in 1 .. Total', IsDump(Stream'[i]), Linked(i)'
      PROVE  WholeSoFar(i)'
  <2>1. i \in 1 .. Total BY <1>4, <1>7
  <2>2. WholeSoFar(i) BY <1>2, <1>5, <1>7, <2>1 DEF NothingMissing
  <2>3. SUFFICES ASSUME NEW m \in Int,
                        \/ Stream'[i][2] = dump.n /\ m \in Stream'[i][3] .. dump.sent
                        \/ Stream'[i][2] < dump.n /\ m \in 1 .. dump.sent
                 PROVE  \E r \in i .. Total' : Stream'[r] = <<"dump", dump.n, m>>
    BY SoFarFactsNext
  <2>4. PICK r \in i .. Total : Stream[r] = <<"dump", dump.n, m>>
    BY <1>2, <2>1, <2>2, <2>3, SoFarFacts
  <2>5. r \in 1 .. Total /\ r \in i .. Total' BY <1>2, <1>3, <2>1
  <2> QED BY <1>2, <2>4, <2>5
<1> QED BY <1>6, <1>7 DEF NothingMissing

\* The dump task goes on where it stopped.
LEMMA MissingSent ==
    ASSUME Types, Types', LinkIsSound, EpochsPass, NothingMissing,
           UNCHANGED <<linkVars, hand, at, got>>, NEW c \in Nat,
           Appends("tx", "dump", dump.n, dump.sent + 1, c),
           dump' = [dump EXCEPT !.sent = dump.sent + c]
    PROVE  NothingMissing'
<1> DEFINE n == dump.n  sent == dump.sent
<1>1. "dump" \in Writers /\ n \in Nat /\ sent \in Nat /\ sent + 1 \in Nat
  BY DumpFacts DEF Writers
<1>2. /\ Received' = Received /\ Total' = Total + c
      /\ \A i \in 1 .. Total : i \in 1 .. Total' /\ Stream'[i] = Stream[i]
      /\ \A k \in 1 .. c : Total + k \in 1 .. Total' /\ Stream'[Total + k] = <<"dump", n, sent + 1 + k - 1>>
  BY <1>1, GrowStream
<1>3. Total \in Nat /\ Total' \in Nat /\ Received \in Nat /\ Received <= Total
  BY StreamFacts, StreamFactsNext
<1>4. dump'.n = n /\ dump'.sent = sent + c BY DumpFacts
<1> HIDE DEF n, sent
<1>5. \A m \in sent + 1 .. sent + c :
         Total + (m - sent) \in 1 .. Total' /\ Stream'[Total + (m - sent)] = <<"dump", n, m>>
  <2>1. SUFFICES ASSUME NEW m \in sent + 1 .. sent + c
        PROVE  Total + (m - sent) \in 1 .. Total' /\ Stream'[Total + (m - sent)] = <<"dump", n, m>>
    OBVIOUS
  <2>2. m - sent \in 1 .. c /\ sent + 1 + (m - sent) - 1 = m BY <1>1
  <2> QED BY <1>2, <2>2
<1>6. \A i \in 1 .. Total' : i > Total =>
         Stream'[i][2] = n /\ Stream'[i][3] = sent + (i - Total) /\ i - Total \in 1 .. c
  <2>1. SUFFICES ASSUME NEW i \in 1 .. Total', i > Total
                 PROVE  Stream'[i] = <<"dump", n, sent + (i - Total)>> /\ i - Total \in 1 .. c
    OBVIOUS
  <2>2. i - Total \in 1 .. c /\ i = Total + (i - Total) BY <1>2, <1>3, <2>1
  <2>3. sent + 1 + (i - Total) - 1 = sent + (i - Total) BY <1>1, <2>2
  <2> QED BY <1>2, <2>2, <2>3
<1>7. /\ \A i \in 1 .. Total : Linked(i)' => Linked(i)
      /\ \A i, j \in 1 .. Total : i <= j /\ SamePeer(i, j)' => SamePeer(i, j)
  <2>1. epoch' = epoch /\ (Up("tx")' <=> Up("tx")) BY DEF linkVars, Up
  <2> QED BY <1>2, <2>1, LinkedQuiet
<1>8. \A i \in 1 .. Total' : i \in 1 .. Total \/ i > Total BY <1>3
<1>9. ASSUME NEW i \in 1 .. Total', IsDump(Stream'[i]), Linked(i)', NEW e \in Int, e <= sent + c,
             NEW m \in Int, m <= e,
             \/ Stream'[i][2] = n /\ m >= Stream'[i][3]
             \/ Stream'[i][2] < n /\ m >= 1
      PROVE  \E r \in i .. Total' : Stream'[r] = <<"dump", n, m>> /\ (m > sent => r = Total + (m - sent))
  <2>1. CASE m > sent
    <3> DEFINE r == Total + (m - sent)
    <3>1. m \in sent + 1 .. sent + c BY <1>1, <1>9, <2>1
    <3>2. r \in 1 .. Total' /\ Stream'[r] = <<"dump", n, m>> BY <1>5, <3>1
    <3>3. r >= i
      <4>1. CASE i \in 1 .. Total BY <1>1, <1>3, <2>1, <4>1
      <4>2. CASE i > Total
        <5>1. /\ Stream'[i][2] = n /\ Stream'[i][3] = sent + (i - Total) /\ n \in Nat
          BY <1>1, <1>6, <4>2
        <5>2. m >= sent + (i - Total) BY <1>9, <5>1
        <5> QED BY <1>1, <1>3, <5>2
      <4> QED BY <1>8, <4>1, <4>2
    <3>4. r \in i .. Total' BY <1>3, <3>2, <3>3
    <3> QED BY <3>2, <3>4
  <2>2. CASE m <= sent
    <3>1. i \in 1 .. Total
      <4>1. ASSUME i > Total PROVE FALSE
        <5>1. /\ Stream'[i][2] = n /\ Stream'[i][3] = sent + (i - Total) /\ i - Total \in 1 .. c
          BY <1>6, <4>1
        <5>2. m >= sent + (i - Total) BY <1>1, <1>9, <5>1
        <5> QED BY <1>1, <1>3, <2>2, <5>1, <5>2
      <4> QED BY <1>8, <4>1
    <3>2. Stream'[i] = Stream[i] /\ Linked(i) BY <1>2, <1>7, <1>9, <3>1
    <3>3. WholeSoFar(i) BY <1>9, <3>1, <3>2 DEF NothingMissing
    <3>4. Stream[i][3] \in Nat BY <3>1, StreamFacts, UnitFacts
    <3>5. \/ Stream[i][2] = dump.n /\ m \in Stream[i][3] .. dump.sent
          \/ Stream[i][2] < dump.n /\ m \in 1 .. dump.sent
      BY <1>1, <1>9, <2>2, <3>2, <3>4 DEF n, sent
    <3>6. PICK r \in i .. Total : Stream[r] = <<"dump", dump.n, m>> BY <3>3, <3>5, SoFarFacts
    <3>7. r \in 1 .. Total /\ r \in i .. Total' BY <1>2, <1>3, <3>1
    <3>8. ~(m > sent) BY <1>1, <2>2
    <3> QED BY <1>2, <3>6, <3>7, <3>8 DEF n
  <2> QED BY <1>1, <2>1, <2>2
<1>10. ASSUME NEW i \in 1 .. Total', NEW j \in 1 .. Total',
              i <= j, IsDump(Stream'[i]), IsDump(Stream'[j]), SamePeer(i, j)'
       PROVE  Whole(i, j)'
  <2>1. CASE j \in 1 .. Total
    <3>1. i \in 1 .. Total /\ i \in Nat /\ j \in Nat /\ i + 0 = i /\ j + 0 = j BY <1>3, <1>10, <2>1
    <3>2. Whole(i, j) BY <1>2, <1>7, <1>10, <2>1, <3>1 DEF NothingMissing
    <3>3. \A r \in i .. j : Stream'[r] = Stream[r + 0]
      <4>1. \A r \in i .. j : r \in 1 .. Total /\ r + 0 = r BY <1>3, <2>1, <3>1
      <4> QED BY <1>2, <4>1
    <3> QED BY <1>10, <3>1, <3>2, <3>3, WholeMoved
  <2>2. CASE j > Total
    <3>1. Stream'[j][2] = n /\ Stream'[j][3] = sent + (j - Total) /\ j - Total \in 1 .. c
      BY <1>6, <2>2
    <3>2. Linked(i)'
      <4>1. ~(j <= Received') BY <1>2, <1>3, <2>2
      <4> QED BY <1>10, <4>1 DEF SamePeer
    <3>3. SUFFICES ASSUME NEW m \in Int,
                          \/ Stream'[i][2] = Stream'[j][2] /\ m \in Stream'[i][3] .. Stream'[j][3]
                          \/ Stream'[i][2] < Stream'[j][2] /\ m \in 1 .. Stream'[j][3]
                   PROVE  \E r \in i .. j : Stream'[r] = <<"dump", Stream'[j][2], m>>
      BY WholeFactsNext
    <3> DEFINE e == sent + (j - Total)
    <3>4. e \in Int /\ e <= sent + c BY <1>1, <3>1
    <3>5. /\ m <= e
          /\ \/ Stream'[i][2] = n /\ m >= Stream'[i][3]
             \/ Stream'[i][2] < n /\ m >= 1
      BY <3>1, <3>3
    <3>6. PICK r \in i .. Total' : Stream'[r] = <<"dump", n, m>> /\ (m > sent => r = Total + (m - sent))
      BY <1>9, <1>10, <3>2, <3>4, <3>5
    <3>7. m <= sent \/ r <= j BY <1>1, <1>3, <3>5, <3>6
    <3>8. r <= j \/ \E q \in i .. j : Stream'[q] = <<"dump", n, m>>
      <4>1. CASE m <= sent
        <5>1. PICK q \in i .. Total' : Stream'[q] = <<"dump", n, m>>
          BY <3>6
        <5>2. q <= Total
          <6>1. ASSUME q > Total PROVE FALSE
            <7>1. q \in 1 .. Total' BY <1>3, <5>1
            <7>2. Stream'[q][3] = sent + (q - Total) /\ q - Total \in 1 .. c BY <1>6, <6>1, <7>1
            <7>3. Stream'[q][3] = m BY <5>1
            <7> QED BY <1>1, <4>1, <7>2, <7>3
          <6> QED BY <1>3, <6>1
        <5>3. q \in i .. j BY <1>3, <2>2, <5>1, <5>2
        <5> QED BY <5>1, <5>3
      <4>2. CASE r <= j BY <4>2
      <4> QED BY <3>7, <4>1, <4>2
    <3>9. CASE r <= j
      <4>1. r \in i .. j BY <1>3, <3>9
      <4> QED BY <3>1, <3>6, <4>1
    <3> QED BY <3>1, <3>8, <3>9
  <2> QED BY <1>8, <2>1, <2>2
<1>11. ASSUME NEW i \in 1 .. Total', IsDump(Stream'[i]), Linked(i)'
       PROVE  WholeSoFar(i)'
  <2>1. SUFFICES ASSUME NEW m \in Int,
                        \/ Stream'[i][2] = dump'.n /\ m \in Stream'[i][3] .. dump'.sent
                        \/ Stream'[i][2] < dump'.n /\ m \in 1 .. dump'.sent
                 PROVE  \E r \in i .. Total' : Stream'[r] = <<"dump", dump'.n, m>>
    BY SoFarFactsNext
  <2>2. sent + c \in Int /\ sent + c <= sent + c BY <1>1
  <2>3. /\ m <= sent + c
        /\ \/ Stream'[i][2] = n /\ m >= Stream'[i][3]
           \/ Stream'[i][2] < n /\ m >= 1
    BY <1>4, <2>1
  <2>4. PICK r \in i .. Total' : Stream'[r] = <<"dump", n, m>>
    BY <1>9, <1>11, <2>2, <2>3
  <2> QED BY <1>4, <2>4
<1> QED BY <1>10, <1>11 DEF NothingMissing

\* Of a dump that has just begun nothing is written yet.
LEMMA MissingStarted ==
    ASSUME Types, Types', LinkIsSound, EpochsPass, NothingMissing, DumpsInOrder, StartDump
    PROVE  NothingMissing'
<1>1. /\ dump' = [n |-> dump.n + 1, at |-> "send", sent |-> 0]
      /\ UNCHANGED <<linkVars, buf, hand, at, got>>
  BY DEF StartDump
<1>2. Total' = Total /\ Stream' = Stream /\ Received' = Received
  BY <1>1 DEF Total, Stream, Received, Held
<1>3. dump'.n = dump.n + 1 /\ dump'.sent = 0 /\ dump.n \in Nat BY <1>1, DumpFacts
<1>4. /\ \A i \in 1 .. Total : Linked(i)' => Linked(i)
      /\ \A i, j \in 1 .. Total : i <= j /\ SamePeer(i, j)' => SamePeer(i, j)
  <2>1. epoch' = epoch /\ (Up("tx")' <=> Up("tx")) BY <1>1 DEF linkVars, Up
  <2> QED BY <1>1, <1>2, <2>1, LinkedQuiet
<1>5. ASSUME NEW i \in 1 .. Total, NEW j \in 1 .. Total,
             i <= j, IsDump(Stream'[i]), IsDump(Stream'[j]), SamePeer(i, j)'
      PROVE  Whole(i, j)'
  <2>1. Whole(i, j) BY <1>2, <1>4, <1>5 DEF NothingMissing
  <2> QED BY <1>2, <2>1 DEF Whole
<1>6. ASSUME NEW i \in 1 .. Total, IsDump(Stream'[i]) PROVE WholeSoFar(i)'
  <2>1. Stream[i][2] <= dump.n /\ Stream[i][2] \in Nat
    BY <1>2, <1>6, StreamFacts, UnitFacts DEF DumpsInOrder
  <2>2. Stream'[i][2] # dump'.n BY <1>2, <1>3, <2>1
  <2>3. \A m \in 1 .. dump'.sent : FALSE BY <1>3
  <2> QED BY <2>2, <2>3 DEF WholeSoFar
<1> QED BY <1>2, <1>5, <1>6 DEF NothingMissing

\* A dump begins only when the one before it has ended, and text is written
\* only by who found no dump.
LEMMA OrderTurns ==
    ASSUME Types, LinkIsSound, OrderInv, TextCheck \/ StartDump \/ DumpFails \/ DumpOver
    PROVE  OrderInv'
<1>1. UNCHANGED <<buf, hand, got>>
  BY DEF TextCheck, StartDump, DumpFails, DumpOver
<1>2. Total' = Total /\ Stream' = Stream /\ Received' = Received
  BY <1>1 DEF Total, Stream, Received, Held
<1>3. /\ dump = [n |-> dump.n, at |-> dump.at, sent |-> dump.sent]
      /\ dump.n \in Nat /\ dump.sent \in Nat
      /\ text = [n |-> text.n, at |-> text.at] /\ text.at \in {"idle", "write"}
  BY DumpFacts
<1>4. \A i \in 1 .. Total : Stream[i][2] \in Nat /\ Stream[i][3] \in Nat BY StreamFacts, UnitFacts
<1>5. /\ \A i \in 1 .. Total : IsDump(Stream[i]) =>
            /\ Stream[i][3] \in 1 .. DumpUnits
            /\ Stream[i][2] <= dump.n
            /\ Stream[i][2] = dump.n => Stream[i][3] <= dump.sent
      /\ \A i, j \in 1 .. Total :
            i < j /\ IsDump(Stream[i]) /\ IsDump(Stream[j]) => Precedes(Stream[i], Stream[j])
  BY DEF OrderInv, DumpsInOrder
<1>6. /\ text.at = "write" => dump.at = "none" \/ dump.sent = 0
      /\ \A i, j \in 1 .. Total :
            i < j /\ IsDump(Stream[i]) /\ Stream[j][1] = "text"
            => Stream[i][2] < dump.n \/ dump.at = "none"
      /\ \A i, j, k \in 1 .. Total :
            i < j /\ j < k /\ IsDump(Stream[i]) /\ IsDump(Stream[k]) /\ Stream[i][2] = Stream[k][2]
            => Stream[j][1] # "text"
  BY DEF OrderInv, TextKeepsOut
<1>7. CASE TextCheck
  <2>1. dump' = dump /\ (text'.at = "write" => dumpActive # TRUE)
    <3>1. text' = [n |-> text.n + 1, at |-> IF dumpActive THEN "idle" ELSE "write"] /\ dump' = dump
      BY <1>7 DEF TextCheck
    <3>2. dumpActive = TRUE => text'.at = "idle" BY <3>1
    <3> QED BY <3>1, <3>2
  <2>2. text'.at = "write" => dump.at = "none"
    <3>1. dumpActive \in BOOLEAN BY DEF Types
    <3>2. FlagFits BY SoundParts
    <3> QED BY <2>1, <3>1, <3>2 DEF FlagFits
  <2>3. DumpsInOrder' BY <1>2, <1>5, <2>1 DEF DumpsInOrder
  <2>4. TextKeepsOut' BY <1>2, <1>6, <2>1, <2>2 DEF TextKeepsOut
  <2> QED BY <2>3, <2>4 DEF OrderInv
<1>8. CASE StartDump
  <2>1. dump' = [n |-> dump.n + 1, at |-> "send", sent |-> 0] BY <1>8 DEF StartDump
  <2>2. dump'.n = dump.n + 1 /\ dump'.sent = 0 BY <2>1
  <2>3. DumpsInOrder'
    <3>1. \A i \in 1 .. Total : IsDump(Stream[i]) =>
             Stream[i][2] <= dump.n + 1 /\ Stream[i][2] # dump.n + 1
      BY <1>3, <1>4, <1>5
    <3> QED BY <1>2, <1>5, <2>2, <3>1 DEF DumpsInOrder
  <2>4. TextKeepsOut'
    <3>1. \A i \in 1 .. Total : IsDump(Stream[i]) => Stream[i][2] < dump.n + 1
      BY <1>3, <1>4, <1>5
    <3> QED BY <1>2, <1>6, <2>2, <3>1 DEF TextKeepsOut
  <2> QED BY <2>3, <2>4 DEF OrderInv
<1>9. CASE DumpFails \/ DumpOver
  <2>1. /\ dump.at # "none" /\ text' = text
        /\ dump'.n = dump.n /\ dump'.sent = dump.sent
    <3>1. CASE DumpFails
      <4>1. dump.at = "send" /\ dump' = [dump EXCEPT !.at = "failed"] /\ text' = text BY <3>1 DEF DumpFails
      <4> QED BY <1>3, <4>1
    <3>2. CASE DumpOver
      <4>1. /\ dump.at = "failed" \/ dump.at = "send"
            /\ dump' = [dump EXCEPT !.at = "none"] /\ text' = text
        BY <3>2 DEF DumpOver
      <4> QED BY <1>3, <4>1
    <3> QED BY <1>9, <3>1, <3>2
  <2>2. DumpsInOrder' BY <1>2, <1>5, <2>1 DEF DumpsInOrder
  <2>3. text'.at = "write" => dump'.at = "none" \/ dump'.sent = 0 BY <1>6, <2>1
  <2>4. TextKeepsOut' BY <1>2, <1>6, <2>1, <2>3 DEF TextKeepsOut
  <2> QED BY <2>2, <2>4 DEF OrderInv
<1> QED BY <1>7, <1>8, <1>9

\* Nothing of the text channel, or of what is listened to, moves.
LEMMA MissingQuiet ==
    ASSUME Types, Types', LinkIsSound, EpochsPass, NothingMissing,
           buf'["tx"] = buf["tx"], hand'["tx"] = hand["tx"], at'["tx"] = at["tx"], got'["tx"] = got["tx"],
           dump'.n = dump.n, dump'.sent = dump.sent,
           epoch' = epoch \/ epoch' = epoch + 1,
           epoch' = epoch => (Up("tx")' => Up("tx"))
    PROVE  NothingMissing'
<1>1. SameStream /\ Received' = Received BY DEF SameStream, Total, Stream, Received, Held
<1>2. epoch' = epoch => (Up("tx")' \/ at'["tx"] = "send" => Up("tx") \/ at["tx"] = "send") OBVIOUS
<1>3. /\ \A i \in 1 .. Total : Linked(i)' => Linked(i)
      /\ \A i, j \in 1 .. Total : i <= j /\ SamePeer(i, j)' => SamePeer(i, j)
  BY <1>1, <1>2, LinkedQuiet
<1> QED BY <1>1, <1>3, MissingSame

LEMMA StreamStep ==
    Types /\ LinkIsSound /\ EpochsPass /\ OrderInv /\ NothingMissing /\ [Next]_vars
    => OrderInv' /\ NothingMissing'
<1> SUFFICES ASSUME Types, LinkIsSound, EpochsPass, OrderInv, NothingMissing, [Next]_vars
             PROVE  OrderInv' /\ NothingMissing'
  OBVIOUS
<1>a. OrderInv /\ NothingMissing /\ DumpsInOrder BY DEF OrderInv
<1>b. Types' BY SoundStep
<1>1. ASSUME buf'["tx"] = buf["tx"], hand'["tx"] = hand["tx"], at'["tx"] = at["tx"], got'["tx"] = got["tx"],
             dump' = dump, text'.at = "write" => text.at = "write",
             epoch' = epoch \/ epoch' = epoch + 1,
             epoch' = epoch => (Up("tx")' => Up("tx"))
      PROVE  OrderInv' /\ NothingMissing'
  <2>1. SameStream BY <1>1 DEF SameStream, Total, Stream, Received, Held
  <2>2. OrderInv' BY <1>1, <1>a, <2>1, OrderSame
  <2>3. NothingMissing' BY <1>1, <1>a, <1>b, MissingQuiet
  <2> QED BY <2>2, <2>3
<1>2. CASE LinkEvent /\ UNCHANGED <<buf, hand, at, got, writers>>
  <2>1. LinkTypeOK BY DEF LinkIsSound, TypeOK
  <2>2. /\ epoch' = epoch \/ epoch' = epoch + 1
        /\ epoch' = epoch => (Up("tx")' => Up("tx"))
    BY <1>2, <2>1, LinkTurns, ChannelFacts
  <2> QED BY <1>1, <1>2, <2>2 DEF writers
<1>3. CASE TailCheck \/ TraceWrite \/ UNCHANGED vars
  <2>1. UNCHANGED <<linkVars, hand, at, got, dump, text>>
    BY <1>3 DEF TailCheck, TraceWrite, vars, writers
  <2>2. buf'["tx"] = buf["tx"]
    <3>1. CASE TraceWrite
      <4>1. buf' = [buf EXCEPT !["trace"] = buf["trace"] \o Units("frame", frames + 1, 1, FrameUnits)]
        BY <3>1 DEF TraceWrite
      <4> QED BY <4>1, ChannelFacts DEF Types
    <3>2. CASE TailCheck \/ UNCHANGED vars BY <3>2 DEF TailCheck, vars
    <3> QED BY <1>3, <3>1, <3>2
  <2>3. epoch' = epoch /\ (Up("tx")' <=> Up("tx")) BY <2>1 DEF linkVars, Up
  <2> QED BY <1>1, <2>1, <2>2, <2>3
<1>4. CASE TextCheck \/ DumpFails \/ DumpOver
  <2>1. OrderInv' BY <1>4, <1>a, OrderTurns
  <2>2. UNCHANGED <<linkVars, buf, hand, at, got>> BY <1>4 DEF TextCheck, DumpFails, DumpOver
  <2>3. dump'.n = dump.n /\ dump'.sent = dump.sent
    <3>1. CASE TextCheck BY <3>1 DEF TextCheck
    <3>2. CASE DumpFails
      <4>1. dump' = [dump EXCEPT !.at = "failed"] BY <3>2 DEF DumpFails
      <4> QED BY <4>1, DumpFacts
    <3>3. CASE DumpOver
      <4>1. dump' = [dump EXCEPT !.at = "none"] BY <3>3 DEF DumpOver
      <4> QED BY <4>1, DumpFacts
    <3> QED BY <1>4, <3>1, <3>2, <3>3
  <2>4. epoch' = epoch /\ (Up("tx")' <=> Up("tx")) BY <2>2 DEF linkVars, Up
  <2>5. NothingMissing' BY <1>a, <1>b, <2>2, <2>3, <2>4, MissingQuiet
  <2> QED BY <2>1, <2>5
<1>5. CASE StartDump
  <2>1. OrderInv' BY <1>5, <1>a, OrderTurns
  <2>2. NothingMissing' BY <1>5, <1>a, <1>b, MissingStarted
  <2> QED BY <2>1, <2>2
<1>6. CASE TextWrite
  <2>1. /\ Write("text", text.n) /\ text' = [text EXCEPT !.at = "idle"] /\ text.at = "write"
        /\ UNCHANGED <<linkVars, hand, at, got, dump>>
    BY <1>6 DEF TextWrite
  <2>2. text.n \in Nat /\ text'.at = "idle" BY <2>1, DumpFacts
  <2>3. PICK c \in Nat : Appends("tx", "text", text.n, 1, c) BY <2>1, <2>2, WriteFacts
  <2>4. OrderInv' BY <1>a, <1>b, <2>1, <2>2, <2>3, OrderWritten
  <2>5. NothingMissing' BY <1>a, <1>b, <2>1, <2>2, <2>3, MissingWritten
  <2> QED BY <2>4, <2>5
<1>7. CASE TailWrite
  <2>1. Write("tail", dump.n) /\ UNCHANGED <<linkVars, hand, at, got, dump>> /\ text' = text
    BY <1>7 DEF TailWrite
  <2>2. dump.n \in Nat BY DumpFacts
  <2>3. PICK c \in Nat : Appends("tx", "tail", dump.n, 1, c) BY <2>1, <2>2, WriteFacts
  <2>4. OrderInv' BY <1>a, <1>b, <2>1, <2>2, <2>3, OrderWritten
  <2>5. NothingMissing' BY <1>a, <1>b, <2>1, <2>2, <2>3, MissingWritten
  <2> QED BY <2>4, <2>5
<1>8. CASE DumpSend
  <2>1. PICK c \in Nat :
          /\ Appends("tx", "dump", dump.n, dump.sent + 1, c)
          /\ dump' = [dump EXCEPT !.sent = dump.sent + c]
          /\ dump.sent + c \in 0 .. DumpUnits
          /\ dump.at = "send" /\ text.at = "idle"
    BY <1>8, DumpSendFacts
  <2>2. UNCHANGED <<linkVars, hand, at, got, text>> BY <1>8 DEF DumpSend
  <2>3. OrderInv' BY <1>a, <1>b, <2>1, <2>2, OrderSent
  <2>4. NothingMissing' BY <1>a, <1>b, <2>1, <2>2, MissingSent
  <2> QED BY <2>3, <2>4
<1>9. ASSUME NEW ch \in Channels, ch # "tx", TxTask(ch) PROVE OrderInv' /\ NothingMissing'
  <2>1. UNCHANGED <<linkVars, dump, text>>
    BY <1>9 DEF TxTask, Receive, CheckLink, Notify, NotifyFails, writers
  <2>2. /\ buf'["tx"] = buf["tx"] /\ hand'["tx"] = hand["tx"]
        /\ at'["tx"] = at["tx"] /\ got'["tx"] = got["tx"]
    BY <1>9, ChannelFacts DEF TxTask, Receive, CheckLink, Notify, NotifyFails, Discard, Consume, Types
  <2>3. epoch' = epoch /\ (Up("tx")' <=> Up("tx")) BY <2>1 DEF linkVars, Up
  <2> QED BY <1>1, <2>1, <2>2, <2>3
<1>10. CASE Receive("tx")
  <2>1. SameStream /\ Received' = Received BY <1>10, <1>b, ReceiveStream
  <2>2. at' = [at EXCEPT !["tx"] = "check"] /\ UNCHANGED <<linkVars, got, writers>>
    BY <1>10, ReceiveFacts, ChannelFacts
  <2>3. at'["tx"] # "send" BY <2>2, ChannelFacts DEF Types
  <2>4. epoch' = epoch /\ (Up("tx")' <=> Up("tx")) /\ dump' = dump /\ text' = text /\ got' = got
    BY <2>2 DEF linkVars, Up, writers
  <2>5. /\ \A i \in 1 .. Total : Linked(i)' => Linked(i)
        /\ \A i, j \in 1 .. Total : i <= j /\ SamePeer(i, j)' => SamePeer(i, j)
    BY <2>1, <2>3, <2>4, LinkedQuiet
  <2>6. NothingMissing' BY <1>a, <1>b, <2>1, <2>4, <2>5, MissingSame
  <2>7. OrderInv' BY <1>a, <2>1, <2>4, OrderSame
  <2> QED BY <2>6, <2>7
<1>11. ASSUME Discard("tx"), ~Up("tx"), UNCHANGED <<linkVars, buf, got, writers>>
       PROVE  OrderInv' /\ NothingMissing'
  <2>1. OrderInv' BY <1>11, <1>a, <1>b, OrderDropped
  <2>2. NothingMissing' BY <1>11, <1>a, <1>b, MissingDropped
  <2> QED BY <2>1, <2>2
<1>12. CASE CheckLink("tx")
  <2>1. CASE Up("tx")
    <3>1. UNCHANGED <<linkVars, buf, hand, got, writers>> BY <1>12, <2>1 DEF CheckLink, Up
    <3>2. SameStream /\ Received' = Received
      BY <3>1 DEF SameStream, Total, Stream, Received, Held
    <3>3. epoch' = epoch /\ dump' = dump /\ text' = text /\ got' = got
      BY <3>1 DEF linkVars, writers
    <3>4. /\ \A i \in 1 .. Total : Linked(i)' => Linked(i)
          /\ \A i, j \in 1 .. Total : i <= j /\ SamePeer(i, j)' => SamePeer(i, j)
      BY <2>1, <3>2, <3>3, LinkedQuiet
    <3>5. NothingMissing' BY <1>a, <1>b, <3>2, <3>3, <3>4, MissingSame
    <3>6. OrderInv' BY <1>a, <3>2, <3>3, OrderSame
    <3> QED BY <3>5, <3>6
  <2>2. CASE ~Up("tx")
    <3>1. Discard("tx") /\ UNCHANGED <<linkVars, buf, got, writers>>
      BY <1>12, <2>2 DEF CheckLink, Up
    <3> QED BY <1>11, <2>2, <3>1
  <2> QED BY <2>1, <2>2
<1>13. CASE Notify("tx")
  <2>1. SameStream BY <1>13, <1>b, NotifyStream
  <2>2. dump' = dump /\ text' = text BY <1>13 DEF Notify, writers
  <2>3. /\ \A i \in 1 .. Total : Linked(i)' => Linked(i)
        /\ \A i, j \in 1 .. Total : i <= j /\ SamePeer(i, j)' => SamePeer(i, j)
    BY <1>13, <1>b, LinkedNotify
  <2>4. NothingMissing' BY <1>a, <1>b, <2>1, <2>2, <2>3, MissingSame
  <2>5. OrderInv' BY <1>a, <2>1, <2>2, OrderSame
  <2> QED BY <2>4, <2>5
<1>14. CASE NotifyFails("tx")
  <2>1. Discard("tx") /\ ~Up("tx") /\ UNCHANGED <<linkVars, buf, got, writers>>
    BY <1>14 DEF NotifyFails, Up
  <2> QED BY <1>11, <2>1
<1>15. ASSUME NEW ch \in Channels, TxTask(ch) PROVE OrderInv' /\ NothingMissing'
  <2>1. CASE ch = "tx" BY <1>10, <1>12, <1>13, <1>14, <1>15, <2>1 DEF TxTask
  <2> QED BY <1>9, <1>15, <2>1
<1> QED BY <1>2, <1>3, <1>4, <1>5, <1>6, <1>7, <1>8, <1>15 DEF Next, DumpTask

\* What is true of the stream is true of what was received of it.
LEMMA StreamArrivesClean ==
    ASSUME Types, OrderInv, NothingMissing
    PROVE  DumpArrivesClean
<1> DEFINE g == got["tx"]
<1>1. /\ Received = Len(g) /\ Received \in Nat /\ Total \in Nat
      /\ \A i \in 1 .. Len(g) : i \in 1 .. Total /\ Stream[i] = g[i].u
      /\ \A i \in 1 .. Len(g) : g[i].u[2] \in Nat /\ g[i].u[3] \in Nat
  BY StreamFacts, UnitFacts DEF Received
<1>2. SeenDumpIsWhole
  <2>1. SUFFICES ASSUME NEW i \in 1 .. Len(g), NEW j \in 1 .. Len(g),
                        i <= j, IsDump(g[i].u), IsDump(g[j].u),
                        g[i].u[3] = 1, g[j].u = <<"dump", g[i].u[2], DumpUnits>>, g[i].e = g[j].e
                 PROVE  /\ \A m \in 1 .. DumpUnits : \E k \in i .. j : g[k].u = <<"dump", g[i].u[2], m>>
                        /\ \A k, l \in i .. j :
                              k < l /\ IsDump(g[k].u) /\ IsDump(g[l].u)
                              => g[k].u[2] = g[l].u[2] /\ g[k].u[3] < g[l].u[3]
    BY DEF SeenDumpIsWhole, IsDump
  <2>2. g[j].u[2] = g[i].u[2] /\ g[j].u[3] = DumpUnits BY <2>1
  <2>3. \A k \in i .. j : k \in 1 .. Len(g) BY <1>1
  <2>4. SamePeer(i, j) BY <1>1, <2>1 DEF SamePeer
  <2>5. Whole(i, j)
    <3>1. /\ i \in 1 .. Total /\ j \in 1 .. Total /\ IsDump(Stream[i]) /\ IsDump(Stream[j])
      BY <1>1, <2>1
    <3> QED BY <2>1, <2>4, <3>1 DEF NothingMissing
  <2>6. ASSUME NEW m \in 1 .. DumpUnits PROVE \E k \in i .. j : g[k].u = <<"dump", g[i].u[2], m>>
    <3>1. /\ Stream[i][2] = Stream[j][2] /\ m \in Stream[i][3] .. Stream[j][3] /\ m \in Int
          /\ Stream[j][2] = g[i].u[2]
      BY <1>1, <2>1, <2>2
    <3>2. PICK k \in i .. j : Stream[k] = <<"dump", Stream[j][2], m>> BY <2>5, <3>1, WholeFacts
    <3> QED BY <1>1, <2>3, <3>1, <3>2
  <2>7. \A k, l \in 1 .. Len(g) :
           k < l /\ IsDump(g[k].u) /\ IsDump(g[l].u) => Precedes(g[k].u, g[l].u)
    BY <1>1 DEF OrderInv, DumpsInOrder
  <2>8. ASSUME NEW k \in i .. j, NEW l \in i .. j, k < l, IsDump(g[k].u), IsDump(g[l].u)
        PROVE  g[k].u[2] = g[l].u[2] /\ g[k].u[3] < g[l].u[3]
    <3>1. k \in 1 .. Len(g) /\ l \in 1 .. Len(g) BY <2>3
    <3>2. g[i].u[2] <= g[k].u[2]
      <4>1. CASE k = i BY <1>1, <4>1
      <4>2. CASE i < k
        <5>1. Precedes(g[i].u, g[k].u) BY <2>1, <2>7, <2>8, <3>1, <4>2
        <5> QED BY <1>1, <3>1, <5>1 DEF Precedes
      <4> QED BY <4>1, <4>2
    <3>3. g[l].u[2] <= g[j].u[2]
      <4>1. CASE l = j BY <1>1, <4>1
      <4>2. CASE l < j
        <5>1. Precedes(g[l].u, g[j].u) BY <2>1, <2>7, <2>8, <3>1, <4>2
        <5> QED BY <1>1, <3>1, <5>1 DEF Precedes
      <4> QED BY <4>1, <4>2
    <3>4. Precedes(g[k].u, g[l].u) BY <2>7, <2>8, <3>1
    <3> QED BY <1>1, <2>2, <3>1, <3>2, <3>3, <3>4 DEF Precedes
  <2> QED BY <2>6, <2>8
<1>3. NoTextInsideDump
  <2>1. SUFFICES ASSUME NEW i \in 1 .. Len(g), NEW j \in 1 .. Len(g), i < j,
                        g[i].u[1] = "dump", g[j].u[1] = "dump", g[i].u[2] = g[j].u[2],
                        NEW k \in i .. j
                 PROVE  g[k].u[1] # "text"
    BY DEF NoTextInsideDump
  <2>2. k \in 1 .. Len(g) BY <1>1
  <2>3. CASE k = i \/ k = j BY <2>1, <2>3
  <2>4. CASE i < k /\ k < j BY <1>1, <2>1, <2>2, <2>4 DEF OrderInv, TextKeepsOut, IsDump
  <2> QED BY <2>3, <2>4
<1> QED BY <1>2, <1>3 DEF DumpArrivesClean

-----------------------------------------------------------------------------
(* The theorems *)

LEMMA IInvInit == Init => IInv
<1> SUFFICES ASSUME Init PROVE IInv
  OBVIOUS
<1>1. Len(<<>>) = 0 BY EmptySeq
<1>2. \A c \in Channels : buf[c] = <<>> /\ hand[c] = <<>> /\ got[c] = <<>> /\ at[c] = "wait" BY DEF Init
<1>3. EpochsPass BY <1>1, <1>2 DEF EpochsPass
<1>4. FramesWait BY <1>1, <1>2, ChannelFacts DEF FramesWait
<1>5. FramesGoOn /\ FramesAreWhole BY <1>1, <1>2, ChannelFacts DEF FramesGoOn, FramesAreWhole
<1>6. Received = 0 /\ Held = 0 /\ Queued = 0 BY <1>1, <1>2, ChannelFacts DEF Received, Held, Queued
<1>7. Total = 0 BY <1>6, SoundInit, StreamFacts
<1>8. \A i \in 1 .. Total : FALSE BY <1>7
<1>9. text.at # "write" BY DEF Init
<1>10. OrderInv /\ NothingMissing BY <1>8, <1>9 DEF OrderInv, DumpsInOrder, TextKeepsOut, NothingMissing
<1> QED BY <1>3, <1>4, <1>5, <1>10, SoundInit DEF IInv, FrameInv

LEMMA IInvStep == IInv /\ [Next]_vars => IInv'
BY SoundStep, FrameStep, StreamStep DEF IInv, FrameInv

\* For every size of frame, buffer and notification, and for every order of
\* connections, subscriptions, writes and refusals: what a peer receives of the
\* trace before it reconnects or changes its subscription is a sequence of
\* whole frames, each later than the one before.
THEOREM TransportFramesAreWhole == Spec => []FramesAreWhole
<1>1. IInv => FramesAreWhole BY DEF IInv, FrameInv
<1> QED BY <1>1, IInvInit, IInvStep, PTL DEF Spec

\* For every size of call, dump, buffer and scratch, with notifications refused and
\* the connection or the subscription lost and regained at any time: a peer that
\* sees a dump begin and end has all of it, in order and from one dump only, and
\* no text of the supervisor stands between two units of a dump.
THEOREM TransportDumpArrivesClean == Spec => []DumpArrivesClean
<1>1. IInv => DumpArrivesClean BY StreamArrivesClean DEF IInv
<1> QED BY <1>1, IInvInit, IInvStep, PTL DEF Spec
=============================================================================
