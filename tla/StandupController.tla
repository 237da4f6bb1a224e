------------------------- MODULE StandupController -------------------------
(***************************************************************************)
(* StandupController as updateRuntimeStandup() drives it: swing the body   *)
(* up, catch it near upright, settle, report stability.  An error is its   *)
(* sign and the band its size lies in, a rate its sign and whether it      *)
(* reaches rate_switch_rad_s.  Gains and filter coefficients are           *)
(* abstracted to the values the commands may take.                         *)
(***************************************************************************)
EXTENDS Integers

CONSTANTS
    StableDelay,        \* config.stable_delay_us
    VqLimit,            \* config.vq_limit_v
    Ramp,               \* config.velocity_output_ramp_v_s
    LongGap,            \* the 0.1 s above which the loop neither integrates nor ramps
    StandupSteps        \* time between two updates

ASSUME StandupAssumption ==
    /\ StableDelay \in Nat \ {0} /\ VqLimit \in Nat \ {0}
    /\ Ramp \in Nat \ {0} /\ LongGap \in Nat \ {0}
    /\ StandupSteps \subseteq Nat \ {0}

VARIABLES
    standing,           \* standup_active
    balancing,          \* was_balancing_
    settling,           \* capture_crossed_upright_
    stable,             \* stable_
    lastSign,           \* sign of previous_balance_error_rad_
    filtered,           \* sign of filtered_rate_rad_s_
    unstableAge,        \* age of last_unstable_us_
    swingSign,          \* swing_rate_sign_
    vq,                 \* previous_vq_v_
    phase,              \* output_.phase, "idle" when the output is not valid
    steady,             \* history: time since the body was last seen not held within stable_angle
    hold                \* history: the hold's first error sign, whether it came upright, its age

standupVars == <<standing, balancing, settling, stable, lastSign, filtered, unstableAge,
                 swingSign, vq, phase, steady, hold>>

Sign == {-1, 0, 1}
\* The bands' upper ends are 1e-4 degrees, stable_angle, balance_capture,
\* balance_release, swing_near and settling_fall; beyond is a true fall.
Zones == 0..6
StableZones == 0..1
ValidInputs == {in \in [zone : Zones, sign : Sign, rate : -2..2] : in.sign = 0 => in.zone = 0}
SignOf(x) == IF x < 0 THEN -1 ELSE IF x > 0 THEN 1 ELSE 0
Capped(bound, n) == IF n < bound THEN n ELSE bound
NoHold == [entry |-> 0, upright |-> FALSE, age |-> 0]

CrossedZero(before, now) == (before > 0 /\ now <= 0) \/ (before < 0 /\ now >= 0)

\* 0.6 * filtered + 0.4 * rate: opposite contributions may leave any sign
FilteredRates(rate) ==
    IF filtered * SignOf(rate) < 0 THEN Sign ELSE {SignOf(filtered + SignOf(rate))}

\* The command after the anti-windup integrator and the output ramp
RampedFrom(last, dt) ==
    {v \in -VqLimit..VqLimit : dt > 0 /\ dt < LongGap =>
                                   v >= last - Ramp * dt /\ v <= last + Ramp * dt}

\* hold_balance: released at balance_release, once settling only by a true fall
Holds(zone) == balancing /\ zone <= (IF settling THEN 5 ELSE 3)

StandupInit ==
    /\ standing = FALSE /\ balancing = FALSE /\ settling = FALSE /\ stable = FALSE
    /\ lastSign = 0 /\ filtered = 0 /\ unstableAge = 0 /\ swingSign = 1
    /\ vq = 0 /\ phase = "idle"
    /\ steady = 0 /\ hold = NoHold

\* The swing branch of update(): anything beyond balance_capture that is not held
SwingUp(in, sign) ==
    /\ swingSign' = IF in.rate \in {-2, 2} THEN SignOf(in.rate) ELSE sign
    /\ phase' = IF in.zone <= 4 THEN "swing_low" ELSE "swing_high"
    /\ filtered' = 0 /\ lastSign' = 0
    /\ settling' = FALSE /\ balancing' = FALSE /\ stable' = FALSE
    /\ unstableAge' = 0
    /\ steady' = 0 /\ hold' = NoHold
    /\ UNCHANGED vq

\* Faulty: leaving stable_angle drops the status but not its clock.
StickyUnstableAge(entering, zone, dt) ==
    IF entering THEN 0 ELSE Capped(StableDelay, unstableAge + dt)
\* last_unstable_us_: restarted by entering balance and outside stable_angle
UnstableAge(entering, zone, dt) ==
    IF entering \/ zone \notin StableZones THEN 0 ELSE Capped(StableDelay, unstableAge + dt)

\* Faulty: reversal_near_upright is not asked for.
FarReversal(in, rate) == in.sign * rate > 0 \/ (in.zone = 0 /\ rate # 0)
\* A reversal of the error latches settling when it happens near upright.
Reversal(in, rate) ==
    /\ in.zone \in StableZones
    /\ in.sign * rate > 0 \/ (in.zone = 0 /\ rate # 0)

\* Faulty: a new hold goes on from the last hold's command.
StaleLoopStart(entering) == vq
\* resetVelocityLoop() on entry
LoopStart(entering) == IF entering THEN 0 ELSE vq

NextHold(entering, in, dt) ==
    LET last == IF entering THEN [NoHold EXCEPT !.entry = in.sign] ELSE hold
    IN  [last EXCEPT !.upright = @ \/ in.zone \in StableZones \/ in.sign # last.entry,
                     !.age = IF dt > 0 /\ dt < LongGap THEN Capped(VqLimit, @ + dt) ELSE VqLimit]

\* The balance branch of update()
Balance(in, dt) ==
    LET entering == ~balancing
        latched == ~entering /\ settling
        crossed == ~entering /\ ~settling /\ CrossedZero(lastSign, in.sign)
        wasStable == ~entering /\ stable
    IN  \E rate \in FilteredRates(in.rate) :
        /\ filtered' = rate
        /\ lastSign' = in.sign
        /\ balancing' = TRUE
        /\ unstableAge' = UnstableAge(entering, in.zone, dt)
        /\ stable' = (in.zone \in StableZones /\ (wasStable \/ unstableAge' >= StableDelay))
        /\ settling' = (latched \/ crossed \/ Reversal(in, rate) \/ (stable' /\ ~wasStable))
        /\ vq' \in RampedFrom(LoopStart(entering), dt)
        /\ phase' = "balance"
        /\ hold' = NextHold(entering, in, dt)
        /\ steady' = IF entering \/ in.zone \notin StableZones THEN 0
                     ELSE Capped(StableDelay, steady + dt)
        /\ UNCHANGED swingSign

\* update() with a valid input
Update(in, dt) ==
    IF ~Holds(in.zone) /\ in.zone >= 3 THEN SwingUp(in, swingSign) ELSE Balance(in, dt)

\* startRuntimeStandup(): reset() and the first update() at the same instant,
\* so that nothing limits how far the first command goes
StartStandup(in) ==
    /\ ~standing
    /\ standing' = TRUE
    /\ unstableAge' = 0 /\ stable' = FALSE /\ steady' = 0 /\ balancing' = (in.zone < 3)
    /\ IF in.zone >= 3
       THEN /\ swingSign' = IF in.rate < 0 THEN -1 ELSE 1
            /\ phase' = IF in.zone <= 4 THEN "swing_low" ELSE "swing_high"
            /\ filtered' = 0 /\ lastSign' = 0 /\ settling' = FALSE /\ vq' = 0
            /\ hold' = NoHold
       ELSE /\ swingSign' = IF in.rate < 0 THEN -1 ELSE 1
            /\ phase' = "balance"
            /\ filtered' = SignOf(in.rate) /\ lastSign' = in.sign
            /\ settling' = Reversal(in, SignOf(in.rate))
            /\ vq' \in RampedFrom(0, 0)
            /\ hold' = NextHold(TRUE, in, 0)

StandupUpdate ==
    /\ standing
    /\ \E in \in ValidInputs, dt \in StandupSteps : Update(in, dt)
    /\ UNCHANGED standing

\* stopRuntimeStandup(), and a session ended by a fault before update()
StopStandup ==
    /\ standing
    /\ standing' = FALSE
    /\ UNCHANGED <<balancing, settling, stable, lastSign, filtered, unstableAge, swingSign,
                   vq, phase, steady, hold>>

\* update() with an input that is not finite: the output is void and the
\* session ends, while everything the controller remembers stays
VoidUpdate ==
    /\ standing
    /\ standing' = FALSE
    /\ phase' = "idle"
    /\ UNCHANGED <<balancing, settling, stable, lastSign, filtered, unstableAge, swingSign,
                   vq, steady, hold>>

StandupSession ==
    StandupUpdate \/ StopStandup \/ VoidUpdate \/ \E in \in ValidInputs : StartStandup(in)

-----------------------------------------------------------------------------
StandupTypeOK ==
    /\ {standing, balancing, settling, stable} \subseteq BOOLEAN
    /\ {lastSign, filtered} \subseteq Sign /\ swingSign \in {-1, 1}
    /\ unstableAge \in 0..StableDelay /\ steady \in 0..StableDelay
    /\ vq \in -VqLimit..VqLimit
    /\ phase \in {"idle", "swing_low", "swing_high", "balance"}
    /\ hold \in [entry : Sign, upright : BOOLEAN, age : 0..VqLimit]

(* What the controller reports is earned in the hold it reports it for:     *)
(* stable only after stable_delay without one update outside stable_angle,  *)
(* and settling, which raises the fall limit from 12 to 55 degrees, only    *)
(* once the body has been upright or changed sides, or is stable.  A        *)
(* session that starts, falls out of balance or starts over owes nothing to *)
(* the one before (standup_controller.cpp:170-227).                         *)
StableIsEarned == standing /\ stable => steady >= StableDelay /\ phase = "balance"
SettlingIsEarned == standing /\ settling => hold.upright /\ phase = "balance"
StatusIsEarned == StableIsEarned /\ SettlingIsEarned

(* The command of a hold is ramped from zero, not from where an earlier     *)
(* hold left the velocity loop: it never exceeds what the ramp allows in    *)
(* the time since the hold began (standup_controller.cpp:181-183, 285-291). *)
(* A hold that begins with its session, or that has seen a gap too long or  *)
(* too short for the ramp to apply, is exempt: its command is not limited.  *)
CommandIsRamped ==
    standing /\ phase = "balance" => vq <= Ramp * hold.age /\ -vq <= Ramp * hold.age
=============================================================================
