---------------------------- MODULE BleTransport ----------------------------
(***************************************************************************)
(* The sending side of the BLE transport and those who write to it         *)
(* (components/triwhirl_ble/ble_transport.cpp, main/runtime_state.cpp).    *)
(* The supervisor's text and the binary log dump share one stream buffer;  *)
(* the trace has a message buffer of its own.  One task per buffer cuts    *)
(* what it takes out into notifications, which may be refused, while the   *)
(* connection comes and goes.                                              *)
(*                                                                         *)
(* A unit is what one notification carries: <<writer, number, place>>.     *)
(***************************************************************************)
EXTENDS BleLink, Sequences, SequencesExt

CONSTANTS
    TxRoom,           \* kTxBufferBytes, in units
    Scratch,          \* kTxScratchBytes
    TextUnits,        \* units of a piece of text
    Call, Calls,      \* units of a writeBlocking call, calls of a dump
    FrameUnits,       \* units of a trace frame
    FrameRoom,        \* kTraceTxBufferBytes, in frames
    MaxTexts, MaxDumps, MaxFrames   \* bounds on what is written

ASSUME TransportAssumption ==
    /\ {TxRoom, Scratch, TextUnits, Call, Calls, FrameUnits, FrameRoom} \subseteq Nat \ {0}
    /\ {MaxTexts, MaxDumps, MaxFrames} \subseteq Nat

VARIABLES
    buf,              \* tx_stream and trace_tx_messages
    hand, at,         \* per channel: the task's scratch buffer and where it is
    got,              \* history, per channel: what the peers received, and in which epoch
    dumpActive,       \* binary_dump_active
    text,             \* the supervisor's text: [n, at]
    dump,             \* the dump task: [n, at, sent]
    tail,             \* a dump that failed and has its last line still to write
    frames            \* trace frames handed over

writers == <<dumpActive, text, dump, tail, frames>>
vars == <<linkVars, buf, hand, at, got, writers>>

DumpUnits == Call * Calls
Units(by, n, from, to) == [i \in 1 .. to - from + 1 |-> <<by, n, from + i - 1>>]

Init ==
    /\ LinkInit
    /\ buf = [ch \in Channels |-> <<>>]
    /\ hand = [ch \in Channels |-> <<>>]
    /\ at = [ch \in Channels |-> "wait"]
    /\ got = [ch \in Channels |-> <<>>]
    /\ dumpActive = FALSE
    /\ text = [n |-> 0, at |-> "idle"]
    /\ dump = [n |-> 0, at |-> "none", sent |-> 0]
    /\ tail = "none"
    /\ frames = 0

-----------------------------------------------------------------------------
(* The writers. *)

Room == TxRoom - Len(buf["tx"])
Fit(n) == IF n < Room THEN n ELSE Room
TxUp == link # 0 /\ "tx" \in subs

\* write(): what does not fit is lost.
Write(by, n) ==
    buf' = IF TxUp THEN [buf EXCEPT !["tx"] = @ \o Units(by, n, 1, Fit(TextUnits))] ELSE buf

\* Faulty: text goes to BLE during a dump too.
LoudTextCheck ==
    /\ text.at = "idle" /\ text.n < MaxTexts
    /\ text' = [n |-> text.n + 1, at |-> "write"]
    /\ UNCHANGED <<linkVars, buf, hand, at, got, dumpActive, dump, tail, frames>>

\* consoleWriteBytes by the supervisor task: look at the flag ...
TextCheck ==
    /\ text.at = "idle" /\ text.n < MaxTexts
    /\ text' = [n |-> text.n + 1, at |-> IF dumpActive THEN "idle" ELSE "write"]
    /\ UNCHANGED <<linkVars, buf, hand, at, got, dumpActive, dump, tail, frames>>

\* ... and then write.
TextWrite ==
    /\ text.at = "write"
    /\ text' = [text EXCEPT !.at = "idle"]
    /\ Write("text", text.n)
    /\ UNCHANGED <<linkVars, hand, at, got, dumpActive, dump, tail, frames>>

\* `log dump`, by the control task on the other core.
StartDump ==
    /\ ~dumpActive /\ dump.at = "none" /\ dump.n < MaxDumps
    /\ TxUp
    /\ dumpActive' = TRUE
    /\ dump' = [n |-> dump.n + 1, at |-> "send", sent |-> 0]
    /\ UNCHANGED <<linkVars, buf, hand, at, got, text, tail, frames>>

\* The dump task has a lower priority than the supervisor on the same core,
\* and the supervisor does not wait between its check and its write.
DumpMayRun == text.at = "idle"

CallRest == Call - (dump.sent % Call)

\* Faulty: a blocking write that runs out of time is taken for written.
HopefulDumpSend ==
    /\ DumpMayRun
    /\ dump.at = "send" /\ dump.sent < DumpUnits
    /\ TxUp
    /\ buf' = [buf EXCEPT !["tx"] = @ \o Units("dump", dump.n, dump.sent + 1, dump.sent + Fit(CallRest))]
    /\ dump' = [dump EXCEPT !.sent = @ + CallRest]
    /\ UNCHANGED <<linkVars, hand, at, got, dumpActive, text, tail, frames>>

\* writeBlockingTo queues what fits, and goes on when there is room again.  Only
\* the start of a call looks at the subscription.
DumpSend ==
    /\ DumpMayRun
    /\ dump.at = "send" /\ dump.sent < DumpUnits
    /\ link # 0 /\ (dump.sent % Call = 0 => "tx" \in subs)
    /\ Room > 0
    /\ buf' = [buf EXCEPT !["tx"] = @ \o Units("dump", dump.n, dump.sent + 1, dump.sent + Fit(CallRest))]
    /\ dump' = [dump EXCEPT !.sent = @ + Fit(CallRest)]
    /\ UNCHANGED <<linkVars, hand, at, got, dumpActive, text, tail, frames>>

\* The call times out, or finds the connection or the subscription gone.
DumpFails ==
    /\ DumpMayRun
    /\ dump.at = "send" /\ dump.sent < DumpUnits
    /\ dump' = [dump EXCEPT !.at = "failed"]
    /\ UNCHANGED <<linkVars, buf, hand, at, got, dumpActive, text, tail, frames>>

\* Faulty: the flag is cleared before the last call of the dump.
EarlyDumpOver ==
    /\ DumpMayRun
    /\ dump.at = "failed" \/ (dump.at = "send" /\ dump.sent >= DumpUnits - Call)
    /\ dumpActive
    /\ dumpActive' = FALSE
    /\ dump' = [dump EXCEPT !.at = IF @ = "failed" \/ dump.sent = DumpUnits THEN "none" ELSE @]
    /\ UNCHANGED <<linkVars, buf, hand, at, got, text, tail, frames>>

\* binary_dump_active = false; log_dump_task = nullptr
DumpOver ==
    /\ DumpMayRun
    /\ dump.at = "failed" \/ (dump.at = "send" /\ dump.sent = DumpUnits)
    /\ dumpActive' = FALSE
    /\ dump' = [dump EXCEPT !.at = "none"]
    /\ tail' = IF dump.at = "failed" THEN "check" ELSE tail
    /\ UNCHANGED <<linkVars, buf, hand, at, got, text, frames>>

\* The failed dump's last line, by a task the next `log dump` knows nothing of.
TailCheck ==
    /\ DumpMayRun
    /\ tail = "check"
    /\ tail' = IF dumpActive THEN "none" ELSE "write"
    /\ UNCHANGED <<linkVars, buf, hand, at, got, dumpActive, text, dump, frames>>

TailWrite ==
    /\ DumpMayRun
    /\ tail = "write"
    /\ tail' = "none"
    /\ Write("tail", dump.n)
    /\ UNCHANGED <<linkVars, hand, at, got, dumpActive, text, dump, frames>>

\* traceWriteBlocking: all of a frame or nothing; refused, the caller keeps it.
TraceWrite ==
    /\ frames < MaxFrames
    /\ link # 0 /\ "trace" \in subs
    /\ Len(buf["trace"]) < FrameRoom * FrameUnits
    /\ frames' = frames + 1
    /\ buf' = [buf EXCEPT !["trace"] = @ \o Units("frame", frames + 1, 1, FrameUnits)]
    /\ UNCHANGED <<linkVars, hand, at, got, dumpActive, text, dump, tail>>

-----------------------------------------------------------------------------
(* txTask and traceTxTask. *)

\* A stream gives what there is, a message buffer one message.
TakeSize(ch) ==
    IF ch = "trace" THEN FrameUnits
    ELSE IF Len(buf[ch]) < Scratch THEN Len(buf[ch]) ELSE Scratch

Receive(ch) ==
    /\ at[ch] = "wait" /\ buf[ch] # <<>>
    /\ hand' = [hand EXCEPT ![ch] = SubSeq(buf[ch], 1, TakeSize(ch))]
    /\ buf' = [buf EXCEPT ![ch] = SubSeq(@, TakeSize(ch) + 1, Len(@))]
    /\ at' = [at EXCEPT ![ch] = "check"]
    /\ UNCHANGED <<linkVars, got, writers>>

Discard(ch) ==
    /\ hand' = [hand EXCEPT ![ch] = <<>>]
    /\ at' = [at EXCEPT ![ch] = "wait"]

CheckLink(ch) ==
    /\ at[ch] = "check"
    /\ IF link # 0 /\ ch \in subs
       THEN at' = [at EXCEPT ![ch] = "send"] /\ UNCHANGED hand
       ELSE Discard(ch)
    /\ UNCHANGED <<linkVars, buf, got, writers>>

Consume(ch) ==
    /\ hand' = [hand EXCEPT ![ch] = Tail(@)]
    /\ at' = [at EXCEPT ![ch] = IF Len(hand[ch]) = 1 THEN "wait" ELSE "send"]

\* notifyChunk succeeds: whoever is connected now receives it, subscribed or not.
Notify(ch) ==
    /\ at[ch] = "send"
    /\ link # 0
    /\ got' = [got EXCEPT ![ch] = Append(@, [u |-> Head(hand[ch]), e |-> epoch])]
    /\ Consume(ch)
    /\ UNCHANGED <<linkVars, buf, writers>>

\* Faulty: a refused notification is not tried again.
HastyNotifyFails(ch) ==
    /\ at[ch] = "send"
    /\ IF link # 0 /\ ch \in subs THEN Consume(ch) ELSE Discard(ch)
    /\ UNCHANGED <<linkVars, buf, got, writers>>

\* It is refused: tried again, unless there is nobody to send to any more.
NotifyFails(ch) ==
    /\ at[ch] = "send"
    /\ ~(link # 0 /\ ch \in subs)
    /\ Discard(ch)
    /\ UNCHANGED <<linkVars, buf, got, writers>>

TxTask(ch) == Receive(ch) \/ CheckLink(ch) \/ Notify(ch) \/ NotifyFails(ch)

DumpTask == DumpSend \/ DumpFails \/ DumpOver

Next ==
    \/ LinkEvent /\ UNCHANGED <<buf, hand, at, got, writers>>
    \/ TextCheck \/ TextWrite
    \/ StartDump \/ DumpTask \/ TailCheck \/ TailWrite
    \/ TraceWrite
    \/ \E ch \in Channels : TxTask(ch)

Spec == Init /\ [][Next]_vars

-----------------------------------------------------------------------------
TypeOK ==
    /\ LinkTypeOK
    /\ Len(buf["tx"]) <= TxRoom
    /\ Len(buf["trace"]) \in {FrameUnits * n : n \in 0 .. FrameRoom}
    /\ \A ch \in Channels :
          /\ Len(hand[ch]) <= (IF ch = "tx" THEN Scratch ELSE FrameUnits)
          /\ at[ch] \in {"wait", "check", "send"}
          /\ at[ch] = "wait" <=> hand[ch] = <<>>
    /\ dumpActive \in BOOLEAN
    /\ dumpActive <=> dump.at # "none"
    /\ dump.sent \in 0 .. DumpUnits

\* CanBeFound, with every buffer within its bounds and the dump's flag its task's.
LinkIsSound == TypeOK /\ CanBeFound

\* The trace is a sequence of whole frames as long as the peer neither
\* reconnects nor touches its subscription: a refused notification or a full
\* buffer never leaves a partial frame.
FramesAreWhole ==
    LET g == got["trace"] IN
    \A i \in 2 .. Len(g) :
       g[i].e = g[i - 1].e =>
          IF g[i - 1].u[3] = FrameUnits
          THEN g[i].u[3] = 1 /\ g[i].u[2] > g[i - 1].u[2]
          ELSE g[i].u = <<"frame", g[i - 1].u[2], g[i - 1].u[3] + 1>>

\* A peer that sees a dump begin and end, without touching its subscription
\* in between, has received all of it, in order and nothing of another.
SeenDumpIsWhole ==
    LET g == got["tx"]
        IsDump(i) == g[i].u[1] = "dump"
    IN  \A i, j \in 1 .. Len(g) :
           i <= j /\ IsDump(i) /\ IsDump(j)
           /\ g[i].u[3] = 1 /\ g[j].u = <<"dump", g[i].u[2], DumpUnits>> /\ g[i].e = g[j].e
           => /\ \A m \in 1 .. DumpUnits : \E k \in i .. j : g[k].u = <<"dump", g[i].u[2], m>>
              /\ \A k, l \in i .. j :
                    k < l /\ IsDump(k) /\ IsDump(l)
                    => g[k].u[2] = g[l].u[2] /\ g[k].u[3] < g[l].u[3]

\* No text of the supervisor gets between two units of a dump, whoever
\* receives them.
NoTextInsideDump ==
    LET g == got["tx"] IN
    \A i, j \in 1 .. Len(g) :
       /\ i < j
       /\ g[i].u[1] = "dump" /\ g[j].u[1] = "dump" /\ g[i].u[2] = g[j].u[2]
       => \A k \in i .. j : g[k].u[1] # "text"

\* What a peer receives of a dump is fit to be read by its announced length.
DumpArrivesClean == SeenDumpIsWhole /\ NoTextInsideDump
=============================================================================
