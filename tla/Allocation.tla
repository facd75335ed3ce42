------------------------------ MODULE Allocation ------------------------------
(***************************************************************************)
(* The control loop in Modbus mode.  A cycle (step_modbus) reads the plugs *)
(* and the grid and commands every battery; the batteries ramp towards     *)
(* what they are told; each poll of a plug corrects the estimate of what   *)
(* the plug reads beyond the setpoint.  The load of the house, the charge  *)
(* of the batteries, their relays and the grid meter change.               *)
(***************************************************************************)
EXTENDS ComputeTargets

CONSTANTS
    Load,     \* what the house may take, or give back
    Loss,     \* by how much a running battery's plug reads below its setpoint
    MayRun,   \* the batteries whose charge changes
    MayBeCut  \* the batteries whose relay is opened

ASSUME LoopConstantsOK ==
    /\ Battery # {}   \* without one, compute_targets returns at once
    /\ Load \subseteq Int
    /\ Loss \in [Battery -> Nat]
    /\ MayRun \cup MayBeCut \subseteq Battery

VARIABLES
    load,       \* what the house takes
    soc,        \* of each battery
    cut,        \* the batteries whose relay is open
    grid_fresh, \* is the grid reading fresh?
    power,      \* last_plug_w of each battery, discharge is positive
    overhead,   \* plug_overhead_w_smoothed
    setpoint    \* last_modbus_setpoint_w

vars == <<load, soc, cut, grid_fresh, power, overhead, setpoint>>
conditions == <<load, soc, cut, grid_fresh>>

MaxReading == CHOOSE m \in {MaxPower[b] + Loss[b] : b \in Battery} :
                  \A b \in Battery : MaxPower[b] + Loss[b] <= m
Reading    == -MaxReading..MaxReading
GridRange  == {l - n : l \in Load,
                   n \in -(Cardinality(Battery) * MaxReading)..(Cardinality(Battery) * MaxReading)}
Grid       == load - Total(power, Battery)

\* The types; a battery is told what it can do, or nothing.
TypeOK ==
    /\ load \in Load
    /\ soc \in [Battery -> 0..Full]
    /\ cut \subseteq MayBeCut
    /\ grid_fresh \in BOOLEAN
    /\ power \in [Battery -> Reading]
    /\ overhead \in [Battery -> -MaxOverhead..MaxOverhead]
    /\ setpoint \in [Battery -> Reading]
    /\ \A b \in Battery : setpoint[b] = 0 \/ Abs(setpoint[b]) \in MinPower..MaxPower[b]

Init ==
    /\ load \in Load
    /\ soc = [b \in Battery |-> 1]
    /\ cut = {} /\ grid_fresh = TRUE
    /\ power = [b \in Battery |-> 0]
    /\ overhead = [b \in Battery |-> 0]
    /\ setpoint = [b \in Battery |-> 0]

\* What compute_targets returns in every view, so that TLC computes it once.
Targets ==
    LET Socs  == {s \in [Battery -> 0..Full] : \A b \in Battery \ MayRun : s[b] = 1}
        table == [g \in GridRange |-> [s \in Socs |-> [p \in [Battery -> Reading] |->
                     compute_targets([plug |-> p, grid |-> g, soc |-> s])]]]
    IN  CHOOSE f \in {table} : f = table

(***************************************************************************)
(* A cycle.  A stale grid reading puts every battery into standby.  The    *)
(* plugs are fresh; a stale one would mute its circuit until now, plus a   *)
(* silence of zero, which is after no instant that it is compared with.    *)
(***************************************************************************)
StepModbus ==
    LET target == Targets[Grid][soc][power] IN
    /\ setpoint' = [b \in Battery |->
           IF ~grid_fresh THEN 0
           ELSE IF b \in cut THEN setpoint[b]
           ELSE from_signed_watts(b, apply_overhead_compensation(target[b], overhead[b]))]
    /\ UNCHANGED <<conditions, power, overhead>>

\* Where the power of a battery goes.
Goal(b) == IF b \in cut \/ setpoint[b] = 0 THEN 0 ELSE setpoint[b] - Loss[b]

Between(x, y) == IF x < y THEN x..y ELSE y..x

\* The plug reports what it takes, and a zero becomes a negative zero.
SameDirection(b, w) == IF setpoint[b] < 0 THEN w <= 0 ELSE w > 0

\* The average comes closer to the difference seen, unless there is none to see; it
\* is kept within what apply_overhead_compensation makes use of.
Smoothed(b, w) ==
    LET instant == Clamp(w - setpoint[b], -MaxOverhead, MaxOverhead) IN
    IF Abs(setpoint[b]) < MinPower \/ ~SameDirection(b, w) \/ instant = overhead[b]
    THEN {overhead[b]}
    ELSE Between(overhead[b], instant) \ {overhead[b]}

\* A battery ramps, and its plug and the grid meter are read.
Poll(b) ==
    /\ \E w \in Between(power[b], Goal(b)) :
         /\ power[b] # Goal(b) => w # power[b]
         /\ power' = [power EXCEPT ![b] = w]
         /\ \E o \in Smoothed(b, w) : overhead' = [overhead EXCEPT ![b] = o]
    /\ UNCHANGED <<conditions, setpoint>>

LoadChanges ==
    /\ load' \in Load \ {load}
    /\ UNCHANGED <<soc, cut, grid_fresh, power, overhead, setpoint>>

SocChanges(b) ==
    /\ b \in MayRun
    /\ \E s \in {soc[b] - 1, soc[b] + 1} \cap (0..Full) : soc' = [soc EXCEPT ![b] = s]
    /\ UNCHANGED <<load, cut, grid_fresh, power, overhead, setpoint>>

RelaySwitches(b) ==
    /\ b \in MayBeCut
    /\ cut' = IF b \in cut THEN cut \ {b} ELSE cut \cup {b}
    /\ UNCHANGED <<load, soc, grid_fresh, power, overhead, setpoint>>

GridReadingChanges ==
    /\ grid_fresh' = ~grid_fresh
    /\ UNCHANGED <<load, soc, cut, power, overhead, setpoint>>

Environment ==
    \/ LoadChanges
    \/ GridReadingChanges
    \/ \E b \in Battery : SocChanges(b) \/ RelaySwitches(b)

Next == StepModbus \/ (\E b \in Battery : Poll(b)) \/ Environment

Spec == Init /\ [][Next]_vars

(***************************************************************************)
(* Fairness: the dispatcher ticks on and the plugs are polled.             *)
(***************************************************************************)
FairSpec == Spec /\ WF_vars(StepModbus) /\ \A b \in Battery : WF_vars(Poll(b))

-----------------------------------------------------------------------------
(***************************************************************************)
(* What the targets of a cycle never do, whatever it sees.                 *)
(***************************************************************************)

\* The types, and the charge that does not change.
LoopInv == TypeOK /\ \A b \in Battery \ MayRun : soc[b] = 1

View == [plug |-> power, grid |-> Grid, soc |-> soc]
Told == Targets[Grid][soc][power]

\* The way that leads to the wanted total: x against it is negative.
Along(wanted, x) == Sign(wanted) * x

\* The SoC gates and the hardware limits (dispatcher.rs:1381-1384): a cycle wants
\* nothing beyond them, and nothing against the way all batteries are to go, but
\* for what the rate limit leaves of the power a battery has already.
WithinBounds(v, t, b) ==
    /\ t[b] <= Greater(v.plug[b], high_bound(v, b))
    /\ -t[b] <= Greater(-v.plug[b], -low_bound(v, b))
    /\ Along(DesiredTotal(v), v.plug[b]) >= 0 => Along(DesiredTotal(v), t[b]) >= 0

\* Rounding may leave a watt per battery where some run against the others.
Rounding(v, c) ==
    IF \A b \in Member(c) : Along(DesiredTotal(v), v.plug[b]) >= 0 THEN 0
    ELSE Cardinality(Member(c))

\* After shares, clamping, consolidation and ramp "the circuit cap below remains
\* a hard upper bound" (dispatcher.rs:1455) on the targets of a circuit, and no
\* battery is sent beyond its bounds by the consolidation or by what the six
\* rounds could not place.
TargetsFit ==
    /\ \A b \in Battery : WithinBounds(View, Told, b)
    /\ \A c \in Circuit :
           Abs(Total(Told, Member(c))) <= Cap[c] + Rounding(View, c)

(***************************************************************************)
(* What becomes of the loop once the conditions have come to an end of     *)
(* their changes.                                                          *)
(***************************************************************************)
Calm == <>[][UNCHANGED conditions]_vars

\* Could the batteries take what the house gives, or give what it takes?
Reachable ==
    /\ cut = {} /\ grid_fresh
    /\ \A b \in Battery : soc[b] \in 1..(Full - 1)
    /\ \A c \in Circuit : Abs(load) <= Cap[c]
    /\ Abs(load) <= Total(MaxPower, Battery)

\* Then the batteries come to rest: rounding, the rate limit, the dead zone below
\* MinPower and the estimate of the overhead do not chase each other (the loop of
\* compute_targets, step_modbus and plug.rs).
ComesToRest == Calm => <>[][Reachable => UNCHANGED setpoint]_vars

Running == {b \in Battery : setpoint[b] # 0}

\* What has to be left to the grid: the margin, what is too little for a battery,
\* and what is lost in those that run.
Remainder == SafetyMargin + MinPower - 1 + Total(Loss, Running)

\* "Meeting the grid setpoint is always pursued within physical limits"
\* (README.md:522): in the end the grid carries no more than the remainder.
GridIsMet == Calm => <>[](Reachable => Abs(Grid) <= Remainder)

\* What the code keeps of it: a battery in standby may be held there by the estimate
\* of its overhead, which was learned in a ramp and is not revised in standby.
GridIsNearlyMet ==
    LET Estimate == [b \in Battery |-> Abs(overhead[b])]
    IN  Calm => <>[](Reachable =>
            Abs(Grid) <= Remainder + Total(Estimate, Battery \ Running))

\* "Batteries on the same circuit can never end up in opposite directions"
\* (README.md:523): the rate limit may make them cross, but not for good.
OpposingEnds ==
    Calm => <>[](\A a, b \in Battery :
                    CircuitOf[a] = CircuitOf[b] /\ power[a] >= MinPower => power[b] > -MinPower)

\* A circuit never stays over its cap, although batteries take more than they
\* are told (the plug feedback and the compensation, dispatcher.rs:1465-1486).
OverCapEnds == \A c \in Circuit : Calm => []<>(Abs(Total(power, Member(c))) <= Cap[c])
=============================================================================
