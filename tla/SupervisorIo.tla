---------------------------- MODULE SupervisorIo ----------------------------
(***************************************************************************)
(* The supervisor task on core 0 (main/runtime_supervisor_io.cpp), what it *)
(* reads and what it exchanges with the control task on core 1             *)
(* (main/runtime_main.cpp).  Two sources, UART and BLE, send bytes; the    *)
(* task assembles lines, answers a query itself, and puts any other line   *)
(* the parser accepts in a bounded queue of which the control task takes   *)
(* at most one command per tick.  Replies and events come back through one *)
(* bounded queue.                                                          *)
(*                                                                         *)
(* The text of a line is a number of pieces <<line, place>> and a newline  *)
(* <<line, 0>>; <<line, Erase>> is a backspace.  A piece is as much as one *)
(* GATT write carries.  What a damaged line says is anything.              *)
(***************************************************************************)
EXTENDS Integers, Sequences, FiniteSets, SequencesExt

CONSTANTS
    RxRoom,           \* kRxBufferBytes and the UART driver's buffer, in pieces
    LineRoom,         \* kSupervisorCommandBytes - 1
    QueueDepth,       \* kSupervisorQueueDepth
    EgressDepth,      \* kRuntimeEgressQueueDepth
    UartLengths, BleLengths,   \* bounds: lengths of the lines that are sent
    MaxUart, MaxBle   \* bounds: lines of each source

ASSUME SupervisorAssumption ==
    /\ {RxRoom, LineRoom, QueueDepth, EgressDepth} \subseteq Nat \ {0}
    /\ UartLengths \cup BleLengths \subseteq Nat \ {0}
    /\ {MaxUart, MaxBle} \subseteq Nat

VARIABLES
    connected,        \* connection_handle is one
    lines,            \* history: the lines sent so far: [from, len, clean, fate]
    typing,           \* per source: [line, next] that is being sent, line 0 is none
    fresh,            \* history, per source: what was taken last is a newline
    rx,               \* per source: rx_stream, the UART driver's buffer, and what
                      \* of it the task has in its input buffer
    line,             \* per source: CommandInputState, its pieces
    queued,           \* input_queue: how many commands
    waiting,          \* egress_queue: how many replies; the rest is open
    answered          \* replies written out or counted in egress_dropped

Sources == {"uart", "ble"}
Lengths(s) == IF s = "uart" THEN UartLengths ELSE BleLengths
MaxLines(s) == IF s = "uart" THEN MaxUart ELSE MaxBle
SentBy(s) == {n \in DOMAIN lines : lines[n].from = s}
Erase == -1

peers == <<connected, typing, fresh>>
replies == <<waiting, answered>>
supervisorVars == <<lines, peers, rx, line, queued, replies>>

Nothing == [line |-> 0, next |-> 0]

SupervisorInit ==
    /\ connected = FALSE
    /\ lines = <<>>
    /\ typing = [s \in Sources |-> Nothing]
    /\ fresh = [s \in Sources |-> TRUE]
    /\ rx = [s \in Sources |-> <<>>]
    /\ line = [s \in Sources |-> <<>>]
    /\ queued = 0
    /\ waiting = 0 /\ answered = 0

-----------------------------------------------------------------------------
(* The sources. *)

\* A host begins a line.  It is clean as long as all of it is taken and what it
\* follows is a newline.
StartLine(s) ==
    /\ typing[s].line = 0 /\ Cardinality(SentBy(s)) < MaxLines(s)
    /\ s = "ble" => connected
    /\ \E len \in Lengths(s) :
          lines' = Append(lines, [from |-> s, len |-> len,
                                  clean |-> fresh[s] /\ len <= LineRoom, fate |-> "sent"])
    /\ typing' = [typing EXCEPT ![s] = [line |-> Len(lines) + 1, next |-> 1]]
    /\ UNCHANGED <<connected, fresh, rx, line, queued, replies>>

\* characteristicAccess takes a write whole or, without room, not at all; the
\* host goes on with the next one.
Send(s, place) ==
    LET n == typing[s].line IN
    IF Len(rx[s]) < RxRoom
    THEN /\ rx' = [rx EXCEPT ![s] = Append(@, <<n, place>>)]
         /\ fresh' = [fresh EXCEPT ![s] = place = 0]
         /\ UNCHANGED lines
    ELSE /\ lines' = [lines EXCEPT ![n].clean = FALSE]
         /\ UNCHANGED <<rx, fresh>>

SendNext(s) ==
    LET t == typing[s] IN
    /\ t.line # 0
    /\ IF t.next > lines[t.line].len
       THEN Send(s, 0) /\ typing' = [typing EXCEPT ![s] = Nothing]
       ELSE Send(s, t.next) /\ typing' = [typing EXCEPT ![s].next = @ + 1]
    /\ UNCHANGED <<connected, line, queued, replies>>

\* Somebody at the wired console corrects the last piece of a line, which has
\* been echoed.
SendErase(s) ==
    LET t == typing[s] IN
    /\ s = "uart" /\ t.line # 0 /\ t.next > lines[t.line].len /\ rx[s] = <<>>
    /\ Send(s, Erase)
    /\ typing' = [typing EXCEPT ![s].next = @ - 1]
    /\ UNCHANGED <<connected, line, queued, replies>>

Connect ==
    /\ ~connected
    /\ connected' = TRUE
    /\ UNCHANGED <<lines, typing, fresh, rx, line, queued, replies>>

\* What a peer sent before it went stays in the stream and in the line.
Disconnect ==
    /\ connected
    /\ connected' = FALSE
    /\ typing' = [typing EXCEPT !["ble"] = Nothing]
    /\ lines' = IF typing["ble"].line = 0 THEN lines
                ELSE [lines EXCEPT ![typing["ble"].line].clean = FALSE]
    /\ UNCHANGED <<fresh, rx, line, queued, replies>>

-----------------------------------------------------------------------------
(* supervisorIoTask *)

\* formatRuntimeReply: every reply is written out, if only as a prompt.
Format == answered' = answered + 1

\* drainRuntimeEgress
Drain ==
    /\ waiting > 0
    /\ waiting' = waiting - 1
    /\ Format
    /\ UNCHANGED <<lines, peers, rx, line, queued>>

\* The line as sent: 0 when what was assembled is not one.
SentLine(text) ==
    IF text # <<>> /\ text = [i \in 1 .. lines[text[1][1]].len |-> <<text[1][1], i>>]
    THEN text[1][1] ELSE 0

\* Its fate, once.
Fate(n) ==
    IF n = 0 THEN lines
    ELSE [lines EXCEPT ![n].fate = IF @ = "sent" THEN "handled" ELSE "twice"]

\* handleSupervisorReadOnlyCommand: a query is answered there and then, from the
\* latest snapshot and past whatever is queued.
Answer == UNCHANGED queued

\* parseRuntimeCommand: a command, or an error that is answered at once.
Parse == {"not matched", "usage error", "command"}

\* publishCommand: refused when the control task has not kept up.
PublishCommand == queued' = IF queued < QueueDepth THEN queued + 1 ELSE queued

Handle(text) ==
    /\ \/ Answer
       \/ \E parsed \in Parse : IF parsed = "command" THEN PublishCommand ELSE UNCHANGED queued
    /\ lines' = Fate(SentLine(text))

\* Faulty: a line that is complete is kept in front of the next one.
StickyNewline(s) ==
    /\ IF line[s] # <<>> THEN Handle(line[s]) ELSE UNCHANGED <<lines, queued>>
    /\ UNCHANGED line

Newline(s) ==
    /\ IF line[s] # <<>> THEN Handle(line[s]) ELSE UNCHANGED <<lines, queued>>
    /\ line' = [line EXCEPT ![s] = <<>>]

Backspace(s) ==
    /\ line' = [line EXCEPT ![s] = IF @ = <<>> THEN @ ELSE Front(@)]
    /\ UNCHANGED <<lines, queued>>

\* Faulty: the byte that ends the string has no room.
OverlongPrintable(s, piece) ==
    /\ line' = [line EXCEPT ![s] = IF Len(@) <= LineRoom THEN Append(@, piece) ELSE <<>>]
    /\ UNCHANGED <<lines, queued>>

\* Too long: what there is of the line is dropped, and this piece with it.  What
\* follows of it is a line of its own.
Printable(s, piece) ==
    /\ line' = [line EXCEPT ![s] = IF Len(@) < LineRoom THEN Append(@, piece) ELSE <<>>]
    /\ UNCHANGED <<lines, queued>>

\* consumeBytes, one piece
Consume(s) ==
    /\ rx[s] # <<>>
    /\ rx' = [rx EXCEPT ![s] = Tail(@)]
    /\ CASE Head(rx[s])[2] = 0     -> Newline(s)
         [] Head(rx[s])[2] = Erase -> Backspace(s)
         [] OTHER                  -> Printable(s, Head(rx[s]))
    /\ UNCHANGED <<peers, replies>>

\* The task drains, reads each source and drains again in every pass.
SupervisorTask == Drain \/ \E s \in Sources : Consume(s)

-----------------------------------------------------------------------------
(* The control task: the end of a tick. *)

\* Faulty: a reply that finds no room is not counted.
SilentPublishReply ==
    \/ waiting < EgressDepth /\ waiting' = waiting + 1 /\ UNCHANGED answered
    \/ UNCHANGED <<waiting, answered>>

\* publishEgress: events, telemetry and profile records may have taken the room.
PublishReply ==
    \/ waiting < EgressDepth /\ waiting' = waiting + 1 /\ UNCHANGED answered
    \/ answered' = answered + 1 /\ UNCHANGED waiting

\* processOneSupervisorInput, once per tick.  A dump that starts answers itself.
ProcessInput ==
    /\ queued > 0
    /\ queued' = queued - 1
    /\ PublishReply
    /\ UNCHANGED <<lines, peers, rx, line>>

-----------------------------------------------------------------------------
SupervisorNext ==
    \/ Connect \/ Disconnect
    \/ \E s \in Sources : StartLine(s) \/ SendNext(s) \/ SendErase(s)
    \/ SupervisorTask
    \/ ProcessInput

\* The supervisor's period is 5 ms, the control task is released every tick.
SupervisorSpec == SupervisorInit /\ [][SupervisorNext]_supervisorVars /\ WF_supervisorVars(Drain) /\ WF_supervisorVars(ProcessInput)

-----------------------------------------------------------------------------
SupervisorTypeOK ==
    /\ \A s \in Sources : Len(rx[s]) <= RxRoom /\ Len(line[s]) <= LineRoom
    /\ queued \in 0 .. QueueDepth /\ waiting \in 0 .. EgressDepth
    /\ \A n \in DOMAIN lines : lines[n].fate \in {"sent", "handled", "twice"}

\* Whatever was lost, cut off by a disconnection or too long before it, a line
\* that follows a newline and is taken whole is handled once, as it was sent;
\* and it is on its way until then.
LinesArriveWhole ==
    \A n \in DOMAIN lines :
       /\ lines[n].fate # "twice"
       /\ lines[n].clean /\ lines[n].fate = "sent" =>
             \/ typing[lines[n].from].line = n
             \/ <<n, 0>> \in Range(rx[lines[n].from])

\* LinesArriveWhole, with every queue and line within its bounds.
LineInv == SupervisorTypeOK /\ LinesArriveWhole

\* A command that was accepted is executed and answered, or its answer is in
\* the count of what was dropped, however many records the egress queue loses.
CommandsAreAnswered ==
    \A n \in 1 .. MaxUart + MaxBle :
       queued + waiting + answered >= n ~> answered >= n
=============================================================================
