---------------------------- MODULE ComputeTargets ----------------------------
(***************************************************************************)
(* How the power that keeps the grid at its setpoint is shared among the   *)
(* batteries over Modbus (compute_targets of dispatcher.rs): the           *)
(* correction, the weighted shares within the bounds, the consolidation of *)
(* small targets, the rate limit and the cap of the circuit; and what      *)
(* step_modbus makes of a target: the compensation and the setpoint.       *)
(*                                                                         *)
(* A view v is what a cycle computes from: v.plug, what the plug of each   *)
(* battery reads (discharge is positive), v.grid, what the grid delivers,  *)
(* and v.soc, the charge of each battery, from 0, empty, to Full.          *)
(*                                                                         *)
(* Powers are integers.  Shares that do not divide evenly leave their rest *)
(* to the last battery; a scaled power is rounded towards zero.            *)
(***************************************************************************)
EXTENDS Integers, FiniteSets, Functions

CONSTANTS
    Battery,      \* numbered in the order of the file
    Circuit, CircuitOf,
    Cap,          \* the cap of each circuit
    MaxPower,     \* max_charge_w and max_discharge_w of each battery
    Priority,     \* priority_weight
    Capacity,     \* capacity_wh
    MaxOverhead,  \* what the compensation is clipped to
    Full,         \* what a full battery's charge is
    MinPower,     \* MARSTEK_MIN_W
    SafetyMargin, \* SAFETY_MARGIN_W
    RateLimit     \* rate_limit_w_per_cycle

ASSUME TargetConstantsOK ==
    /\ Battery \subseteq Nat /\ IsFiniteSet(Battery)
    /\ CircuitOf \in [Battery -> Circuit]
    /\ Cap \in [Circuit -> Nat \ {0}]
    /\ {Full, MinPower, RateLimit} \subseteq Nat \ {0}
    /\ {SafetyMargin, MaxOverhead} \subseteq Nat
    /\ MaxPower \in [Battery -> Nat] /\ \A b \in Battery : MaxPower[b] >= MinPower
    /\ Priority \in [Battery -> Nat] /\ Capacity \in [Battery -> Nat]

Abs(x)           == IF x < 0 THEN -x ELSE x
Sign(x)          == IF x < 0 THEN -1 ELSE 1
Greater(x, y)    == IF x < y THEN y ELSE x
Clamp(x, lo, hi) == IF x < lo THEN lo ELSE IF x > hi THEN hi ELSE x
\* x * n / d, rounded towards zero.
Scaled(x, n, d)  == Sign(x) * ((Abs(x) * n) \div d)

Total(f, S) == SumFunctionOnSet(f, S)
Member(c)   == {b \in Battery : CircuitOf[b] = c}

\* Op(x), in a form in which TLC evaluates x once.
Through(Op(_), x) == CHOOSE y \in {Op(z) : z \in {x}} : TRUE

-----------------------------------------------------------------------------
(***************************************************************************)
(* What is wanted of all batteries together (compute_grid_correction).     *)
(***************************************************************************)
CurrentTotal(v) == Total(v.plug, Battery)

IdleThreshold == Greater((MinPower * Cardinality(Battery)) \div 2, SafetyMargin)

GridCorrection(v) ==
    IF CurrentTotal(v) < -IdleThreshold THEN v.grid + SafetyMargin
    ELSE IF CurrentTotal(v) > IdleThreshold THEN v.grid - SafetyMargin
    ELSE IF Abs(v.grid) > SafetyMargin THEN v.grid - Sign(v.grid) * SafetyMargin
    ELSE 0

\* Mutant: only what is missing is wanted, not what is delivered already.
DesiredTotal_Missing(v) == GridCorrection(v)

DesiredTotal(v) == CurrentTotal(v) + GridCorrection(v)

(***************************************************************************)
(* The weighted shares.  What a bound takes off a share is shared again    *)
(* among the batteries that are still within theirs, six times at most.    *)
(***************************************************************************)
low_bound(v, b)  == IF v.soc[b] = Full THEN 0 ELSE -MaxPower[b]
high_bound(v, b) == IF v.soc[b] = 0 THEN 0 ELSE MaxPower[b]
Bounded(v, b, x) == Clamp(x, low_bound(v, b), high_bound(v, b))

Weight(v) ==
    [b \in Battery |->
        Priority[b] * Capacity[b]
            * (IF DesiredTotal(v) < 0 THEN Full - v.soc[b] ELSE v.soc[b])]

Shares(remaining, active, weight) ==
    LET even == [b \in active |-> Scaled(remaining, weight[b], Total(weight, active))]
        last == CHOOSE b \in active :
                    weight[b] > 0 /\ \A a \in active : a > b => weight[a] = 0
    IN  [even EXCEPT ![last] = remaining - Total(even, active \ {last})]

\* Where the rounds begin.
Unshared(v) ==
    [target |-> [b \in Battery |-> 0], remaining |-> DesiredTotal(v), active |-> Battery]

Round(v, r) ==
    LET weight == Weight(v) IN
    IF r.active = {} \/ r.remaining = 0 \/ Total(weight, r.active) = 0 THEN r
    ELSE LET share    == Shares(r.remaining, r.active, weight)
             proposed == [b \in r.active |-> r.target[b] + share[b]]
             target   == [b \in Battery |->
                             IF b \in r.active THEN Bounded(v, b, proposed[b])
                             ELSE r.target[b]]
             clamped  == {b \in r.active : target[b] # proposed[b]}
         IN  [target    |-> target,
              remaining |-> DesiredTotal(v) - Total(target, Battery),
              active    |-> IF clamped = {} THEN {} ELSE r.active \ clamped]

Distributed(v) ==
    LET Again(r) == Round(v, r)
        round[i \in 0..6] == IF i = 0 THEN Unshared(v) ELSE Through(Again, round[i - 1])
    IN  round[6].target

-----------------------------------------------------------------------------
(***************************************************************************)
(* The passes over the shares t.                                           *)
(***************************************************************************)

\* A circuit whose power is split so small that no battery would act.
TooSmall(t, c) ==
    /\ Abs(Total(t, Member(c))) >= MinPower
    /\ \A b \in Member(c) : Abs(t[b]) < MinPower

HasHeadroom(v, t, b) ==
    IF Total(t, Member(CircuitOf[b])) < 0 THEN low_bound(v, b) < 0 ELSE high_bound(v, b) > 0

\* The largest target, then the highest priority, then the last in the file.
Before(t, a, b) ==
    \/ Abs(t[a]) < Abs(t[b])
    \/ Abs(t[a]) = Abs(t[b]) /\ Priority[a] < Priority[b]
    \/ Abs(t[a]) = Abs(t[b]) /\ Priority[a] = Priority[b] /\ a < b

\* Mutant: small targets are left as they are.
Consolidated_Never(v, t) == t

Consolidated(v, t) ==
    [b \in Battery |->
        LET c       == CircuitOf[b]
            willing == {a \in Member(c) : HasHeadroom(v, t, a)}
        IN  IF ~TooSmall(t, c) \/ willing = {} THEN t[b]
            ELSE IF b \in willing /\ \A a \in willing \ {b} : Before(t, a, b)
            THEN Bounded(v, b, Total(t, Member(c)))
            ELSE 0]

\* Mutant: a battery that runs the other way is left to its ramp.
RateLimited_Forward(v, t) ==
    [b \in Battery |->
        IF v.plug[b] * t[b] < 0 THEN v.plug[b]
        ELSE v.plug[b] + Clamp(t[b] - v.plug[b], -RateLimit, RateLimit)]

RateLimited(v, t) ==
    [b \in Battery |-> v.plug[b] + Clamp(t[b] - v.plug[b], -RateLimit, RateLimit)]

\* Mutant: the cap looks at what the plugs measure, not at what is to come.
WorstCase_Measured(v, t, c) == Abs(Total(v.plug, Member(c)))

WorstCase(v, t, c) == Greater(Abs(Total(t, Member(c))), Abs(Total(v.plug, Member(c))))

Capped(v, t) ==
    [b \in Battery |->
        LET c == CircuitOf[b] IN
        IF WorstCase(v, t, c) > Cap[c] THEN Scaled(t[b], Cap[c], WorstCase(v, t, c))
        ELSE t[b]]

compute_targets(v) ==
    LET Small(t) == Consolidated(v, t)
        Slow(t)  == RateLimited(v, t)
        Safe(t)  == Capped(v, t)
    IN  Through(Safe, Through(Slow, Through(Small, Distributed(v))))

\* Mutant: the losses are not compensated.
apply_overhead_compensation_None(target, overhead_raw) == target

apply_overhead_compensation(target, overhead_raw) ==
    LET overhead == Clamp(overhead_raw, -MaxOverhead, MaxOverhead)
    IN  IF Sign(overhead) = Sign(target) THEN target - overhead ELSE target

\* Mutant: a battery is told even what is too little for it.
from_signed_watts_Any(b, w) == Sign(w) * Clamp(Abs(w), 0, MaxPower[b])

\* Setpoint::from_signed_watts
from_signed_watts(b, w) ==
    IF Abs(w) < MinPower THEN 0
    ELSE Sign(w) * Clamp(Abs(w), MinPower, MaxPower[b])
=============================================================================
