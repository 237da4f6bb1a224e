------------------------------ MODULE SwingId ------------------------------
(***************************************************************************)
(* SwingIdRunner: pump the body until it swings through an upright vertex, *)
(* excite the motor there for a moment (the probe), recover, repeat.       *)
(* An angle is its nearest vertex and the band its error lies in; a rate   *)
(* is its sign, 0 below rate_switch_rad_s.  The runner keeps timestamps    *)
(* and the model their ages, capped where a comparison has settled.        *)
(***************************************************************************)
EXTENDS Integers, FiniteSets

CONSTANTS
    Vertices,           \* the vertices the body visits
    Targets,            \* config.target_captures
    ProbeTime,          \* config.probe_duration_us
    MaxTime,            \* config.max_duration_us
    TurnConfirm,        \* kPumpTurnConfirmUs
    MinHalfCycle,       \* kPumpMinHalfCycleUs
    SwingSteps          \* time between two updates

NoVertex == "none"

ASSUME SwingAssumption ==
    /\ NoVertex \notin Vertices /\ IsFiniteSet(Vertices)
    /\ Targets \in Nat \ {0} /\ ProbeTime \in Nat \ {0} /\ MaxTime \in Nat \ {0}
    /\ TurnConfirm \in Nat \ {0} /\ MinHalfCycle \in Nat \ {0}
    /\ SwingSteps \subseteq Nat \ {0}

VARIABLES
    mode,               \* output_.state
    pump,               \* pump_rate_sign_
    pending,            \* pending_pump_rate_sign_ and the age of its timestamp
    sinceTurn,          \* age of last_pump_turn_us_
    halfCycles,         \* output_.half_cycle_index
    rearmStart,         \* rearm_start_half_cycle_
    probe,              \* probe_vertex_, and the ages of probe_start_us_ and start_us_
    counts,             \* vertex_capture_counts_
    command,            \* output_.desired_vq_v
    probed,             \* history: probes completed at a vertex, by excitation
    recovered           \* history: the vertex of the last probe, and whether the body has
                        \* turned since and been away from that vertex

swingVars == <<mode, pump, pending, sinceTurn, halfCycles, rearmStart, probe, counts,
               command, probed, recovered>>

Signs == {-1, 0, 1}
\* Up to capture_deg, probe_exit_deg and rearm_deg, exactly at rearm_deg, and beyond.
Bands == {"capture", "inside", "outside", "edge", "far"}
Away == {"edge", "far"}
Inputs == [vertex : Vertices, band : Bands, rate : Signs, moved : BOOLEAN]
Active == mode \in {"pump", "probe", "rearm"}
AtMost(bound, n) == IF n < bound THEN n ELSE bound
Sum(f) == LET S[D \in SUBSET DOMAIN f] ==
                  IF D = {} THEN 0
                  ELSE LET d == CHOOSE d \in D : TRUE IN f[d] + S[D \ {d}]
          IN  S[DOMAIN f]
Captures == Sum(counts)                             \* output_.capture_count

\* The band of the error to a vertex: every other vertex is further away than
\* rearm_deg, which is less than 60 degrees.
BandTo(vertex, in) == IF in.vertex = vertex THEN in.band ELSE "far"
ProbeBand(in) == BandTo(probe.vertex, in)

\* scheduledProbeCommand()
ScheduledProbe(n) == CASE n % 3 = 0 -> -1 [] n % 3 = 1 -> 1 [] OTHER -> 0

Zero == [drive |-> "none", level |-> 0]
Probing(excitation) == [drive |-> "probe", level |-> excitation]
\* pumpCommand() at current_pump_v_: low up to rearm_deg from a vertex
Pumping(sign, band) == [drive |-> "pump", level |-> IF band = "far" THEN 2 * sign ELSE sign]

NothingProbed == [v \in Vertices |-> [e \in Signs |-> 0]]
NotPending == [sign |-> 0, age |-> 0]

SwingInit ==
    /\ mode = "idle" /\ pump = 1 /\ pending = NotPending /\ sinceTurn = 0
    /\ halfCycles = 0 /\ rearmStart = 0
    /\ probe = [vertex |-> NoVertex, age |-> 0, run |-> 0]
    /\ counts = [v \in Vertices |-> 0]
    /\ command = Zero
    /\ probed = NothingProbed
    /\ recovered = [vertex |-> NoVertex, turned |-> TRUE, left |-> TRUE]

\* start() with a valid attitude and no fault; otherwise it returns false
StartSwing(in) ==
    /\ ~Active
    /\ mode' = "pump"
    /\ pump' = IF in.rate = 0 THEN 1 ELSE in.rate
    /\ pending' = NotPending /\ sinceTurn' = 0
    /\ halfCycles' = 0 /\ rearmStart' = 0
    /\ probe' = [vertex |-> NoVertex, age |-> 0, run |-> 0]
    /\ counts' = [v \in Vertices |-> 0]
    /\ command' = Pumping(pump', in.band)
    /\ probed' = NothingProbed
    /\ recovered' = [vertex |-> NoVertex, turned |-> TRUE, left |-> TRUE]

\* stop()
StopSwing(final) ==
    /\ mode' = final
    /\ command' = Zero
    /\ probe' = [probe EXCEPT !.vertex = NoVertex]

\* abort() by the supervisor, and update() on a fault, an invalid input or
\* at the end of max_duration_us
AbortSwing ==
    /\ Active
    /\ StopSwing("aborted")
    /\ UNCHANGED <<pump, pending, sinceTurn, halfCycles, rearmStart, counts, probed, recovered>>

InTime(dt) == probe.run + dt < MaxTime
Timeout(dt) == ~InTime(dt) /\ AbortSwing

\* updatePumpHalfCycle(): the age the rate's opposite sign has been pending for
Opposes(in) == in.rate # 0 /\ in.rate # pump
KeptPending(dt) == [pending EXCEPT !.age = AtMost(TurnConfirm, @ + dt)]
Confirmed(dt, in) ==
    /\ Opposes(in) /\ pending.sign = in.rate
    /\ pending.age + dt >= TurnConfirm
    /\ sinceTurn + dt >= MinHalfCycle
    /\ in.moved
UpdatePumpHalfCycle(dt, in) ==
    /\ pending' = IF ~Opposes(in) \/ Confirmed(dt, in) THEN NotPending
                  ELSE IF pending.sign # in.rate THEN [sign |-> in.rate, age |-> 0]
                  ELSE KeptPending(dt)
    /\ pump' = IF Confirmed(dt, in) THEN in.rate ELSE pump
    /\ sinceTurn' = IF Confirmed(dt, in) THEN 0 ELSE AtMost(MinHalfCycle, sinceTurn + dt)
    /\ halfCycles' = IF Confirmed(dt, in) THEN halfCycles + 1 ELSE halfCycles

\* Outside a probe the history sees every turn, and whether the body is away from
\* the vertex probed last, whatever the runner remembers of it.
Recover(in) ==
    recovered' = [recovered EXCEPT
                    !.turned = @ \/ halfCycles' # halfCycles,
                    !.left = @ \/ BandTo(recovered.vertex, in) \in Away]

Older(dt) == [probe EXCEPT !.run = @ + dt, !.age = AtMost(ProbeTime, @ + dt)]

\* update() in kPump: a vertex within capture_deg starts a probe
PumpOn(dt, in) ==
    /\ mode = "pump" /\ InTime(dt)
    /\ UpdatePumpHalfCycle(dt, in) /\ Recover(in)
    /\ IF in.band = "capture"
       THEN /\ mode' = "probe"
            /\ probe' = [vertex |-> in.vertex, age |-> 0, run |-> probe.run + dt]
            /\ command' = Probing(ScheduledProbe(counts[in.vertex]))
       ELSE /\ command' = Pumping(pump', in.band)
            /\ probe' = Older(dt)
            /\ UNCHANGED mode
    /\ UNCHANGED <<rearmStart, counts, probed>>

\* update() in kProbe: hold the excitation until the time or the window is over
ProbeOver(dt, in) == probe.age + dt >= ProbeTime \/ ProbeBand(in) \notin {"capture", "inside"}
HoldProbe(dt, in) ==
    /\ mode = "probe" /\ InTime(dt) /\ ~ProbeOver(dt, in)
    /\ probe' = Older(dt)
    /\ pending' = KeptPending(dt) /\ sinceTurn' = AtMost(MinHalfCycle, sinceTurn + dt)
    /\ UNCHANGED <<mode, pump, halfCycles, rearmStart, counts, command, probed, recovered>>

\* Faulty: the probe is booked on the vertex the body has reached.
NearestVertex(in) == in.vertex
CountedVertex(in) == probe.vertex

\* Faulty: rearm_start_half_cycle_ stays what start() made it.
RearmStartForgotten == rearmStart
RearmStartAtProbeEnd == halfCycles

\* Faulty: the target is compared before the probe is counted.
TargetPassed == Captures >= Targets
TargetReached == Captures + 1 >= Targets

FinishProbe(dt, in) ==
    /\ mode = "probe" /\ InTime(dt) /\ ProbeOver(dt, in)
    /\ counts' = [counts EXCEPT ![CountedVertex(in)] = @ + 1]
    /\ probed' = [probed EXCEPT ![probe.vertex][command.level] = @ + 1]
    /\ IF TargetReached
       THEN /\ StopSwing("complete")
            /\ UNCHANGED <<rearmStart, pending, sinceTurn, recovered>>
       ELSE /\ mode' = "rearm"
            /\ rearmStart' = RearmStartAtProbeEnd
            /\ command' = Pumping(pump, "far")
            /\ probe' = Older(dt)
            /\ pending' = KeptPending(dt) /\ sinceTurn' = AtMost(MinHalfCycle, sinceTurn + dt)
            /\ recovered' = [vertex |-> probe.vertex, turned |-> FALSE, left |-> FALSE]
    /\ UNCHANGED <<pump, halfCycles>>

\* Faulty: a turn is enough, wherever the body turned.
NoDistance(in) == TRUE
FarFromProbe(in) == ProbeBand(in) \in Away

\* update() in kRearm: full pump until the body has turned and is away
Rearm(dt, in) ==
    /\ mode = "rearm" /\ InTime(dt)
    /\ UpdatePumpHalfCycle(dt, in) /\ Recover(in)
    /\ IF FarFromProbe(in) /\ halfCycles' - rearmStart >= 1
       THEN /\ mode' = "pump"
            /\ command' = Pumping(pump', in.band)
            /\ probe' = [Older(dt) EXCEPT !.vertex = NoVertex]
       ELSE /\ command' = Pumping(pump', "far")
            /\ probe' = Older(dt)
            /\ UNCHANGED mode
    /\ UNCHANGED <<rearmStart, counts, probed>>

SwingUpdate ==
    \E dt \in SwingSteps :
        \/ Timeout(dt)
        \/ \E in \in Inputs :
               PumpOn(dt, in) \/ HoldProbe(dt, in) \/ FinishProbe(dt, in) \/ Rearm(dt, in)

SwingSession == SwingUpdate \/ AbortSwing \/ \E in \in Inputs : StartSwing(in)

-----------------------------------------------------------------------------
SwingTypeOK ==
    /\ mode \in {"idle", "pump", "probe", "rearm", "complete", "aborted"}
    /\ pump \in {-1, 1}
    /\ pending \in [sign : Signs, age : 0..TurnConfirm]
    /\ sinceTurn \in 0..MinHalfCycle
    /\ halfCycles \in 0..MaxTime /\ rearmStart \in 0..halfCycles
    /\ probe \in [vertex : Vertices \cup {NoVertex}, age : 0..ProbeTime, run : 0..MaxTime - 1]
    /\ counts \in [Vertices -> 0..Targets] /\ Captures <= Targets
    /\ command \in [drive : {"none", "pump", "probe"}, level : -2..2]
    /\ probed \in [Vertices -> [Signs -> 0..Targets]]
    /\ recovered \in [vertex : Vertices \cup {NoVertex}, turned : BOOLEAN, left : BOOLEAN]

(* The schedule of excitations stays balanced at every vertex: negative,    *)
(* positive and zero probes were completed equally often, to within the one *)
(* the current round is at, whatever the order the body visits the vertices *)
(* in and however each probe ended (swing_id.cpp:178-192 and 313-318).      *)
ScheduleIsBalanced ==
    \A v \in Vertices :
        /\ probed[v][-1] >= probed[v][1]
        /\ probed[v][1] >= probed[v][0]
        /\ probed[v][0] + 1 >= probed[v][-1]

(* Between two probes of a run the body turns, and an update finds it at    *)
(* least rearm_deg away from the vertex of the first one, though the runner *)
(* has forgotten that vertex when the second one starts                     *)
(* (swing_id.cpp:334, 359-376).                                             *)
ProbesAreSeparated ==
    [][mode # "probe" /\ mode' = "probe" => recovered'.turned /\ recovered'.left]_swingVars
=============================================================================
