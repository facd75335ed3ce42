----------------------------- MODULE PlugCutoff -----------------------------
(***************************************************************************)
(* The plug relays of the batteries and everything that switches them:     *)
(* the two-phase emergency cutoff and its recovery sweep                   *)
(* (dispatcher.rs, enforce_circuit_safety), the night cutoff               *)
(* (enforce_night_cutoff), the manual reset of the admin API               *)
(* (manual_reset_cutoff), the HTTP tasks they spawn (plug.rs, set_relay)   *)
(* and the plug poller (poll_plug_loop).                                   *)
(*                                                                         *)
(* Time is relative, as in "Real Time is Really Simple": every timestamp   *)
(* of the code is the time since, or until, that moment, and a dispatcher  *)
(* cycle ages them all.  One unit is the shortest distance of two cycles.  *)
(***************************************************************************)
EXTENDS Integers, Functions

CONSTANTS
    Battery,       \* the configured batteries, numbered in the order of the file
    Circuit,       \* the fused circuits
    CircuitOf,     \* the circuit each battery hangs on
    Cap,           \* the cap of each circuit, in W
    Margin,        \* emergency_cutoff_margin_w
    PlugPower,     \* what a closed plug may measure (discharge is positive)
    Grace,         \* EMERGENCY_CUTOFF_GRACE_S
    SoftGrace,     \* EMERGENCY_SOFT_REMEDIATION_GRACE_S
    Recovery,      \* EMERGENCY_CUTOFF_RECOVERY_S
    MaxFor,        \* bound: longer overloads are not told apart
    CallTimeout,   \* the 3 s timeout of set_relay
    PollTimeout,   \* the timeout of a Switch.GetStatus poll
    MaxLate,       \* bound: the longest distance of two cycles
    NightCutoff,   \* night_cutoff_enabled
    NightLength,   \* from sunset to sunrise; 0 where the sun never sets
    Outcomes,      \* what a Switch.Set of each kind may come to
    PollsMayFail,  \* whether a poll may stay away or go unanswered
    ResetByHand,   \* the batteries whose cut the operator may reset
    MayRestart,    \* whether the process may be restarted
    Due, None

CallKind == {"trip", "reenable", "night cut", "night restore", "manual reset"}

ASSUME ConstantsOK ==
    /\ Battery \subseteq Nat
    /\ CircuitOf \in [Battery -> Circuit]
    /\ Cap \in [Circuit -> Nat]
    /\ Margin \in Int
    /\ PlugPower \subseteq Int
    /\ {Grace, SoftGrace, Recovery, MaxLate} \subseteq Nat \ {0}
    /\ {CallTimeout, PollTimeout, NightLength} \subseteq Nat
    /\ MaxFor \in Nat /\ MaxFor >= Grace + SoftGrace
    \* 600 s against the 3 s of a call and the 0.8 s of a poll.
    /\ Recovery > CallTimeout + PollTimeout + MaxLate
    /\ ResetByHand \subseteq Battery
    /\ Outcomes \in [CallKind -> SUBSET {"ok", "refused", "lost"}]
    /\ {NightCutoff, PollsMayFail, MayRestart} \subseteq BOOLEAN
    /\ None \notin Int
    /\ Due # None
    /\ None \notin [on: BOOLEAN, w: Int, age: Nat]

VARIABLES
    plug_cut_until,    \* time left until the cut expires, or None
    plug_cut_reason,   \* why the plug is cut, or why a cut failed
    plug_relay_state,  \* does the multiplexer take the relay to be closed?
    last_plug_w,       \* the last power reading of each plug
    overload_started_at,           \* time since then, or None, per circuit
    soft_remediation_started_at,   \* time since then, or None, per circuit
    calls,    \* the set_relay tasks in flight
    poll,     \* of each plug: Due, the answer on its way, or None until the next
    relay,    \* is the relay of the plug closed?
    soc,      \* is the battery empty (empty threshold + hysteresis)?
    night,    \* time left until sunrise, 0 by day
    over_for  \* history: time since a cycle last saw the circuit within its cap

cutVars   == <<plug_cut_until, plug_cut_reason>>
timerVars == <<overload_started_at, soft_remediation_started_at, over_for>>
vars == <<cutVars, plug_relay_state, last_plug_w, timerVars, calls, poll, relay,
          soc, night>>

Reason == {"none", "circuit", "night", "trip failed", "night cut failed"}
Call   == [battery: Battery, kind: CallKind, age: 0..CallTimeout, applied: BOOLEAN]
Answer == [on: BOOLEAN, w: PlugPower \cup {0}, age: 0..PollTimeout]
For    == 0..MaxFor \cup {None}

TypeOK ==
    /\ plug_cut_until \in [Battery -> Nat \cup {None}]
    /\ plug_cut_reason \in [Battery -> Reason]
    /\ plug_relay_state \in [Battery -> BOOLEAN]
    /\ last_plug_w \in [Battery -> PlugPower \cup {0}]
    /\ overload_started_at \in [Circuit -> For]
    /\ soft_remediation_started_at \in [Circuit -> For]
    /\ over_for \in [Circuit -> 0..MaxFor]
    /\ calls \subseteq Call
    /\ poll \in [Battery -> Answer \cup {Due, None}]
    /\ relay \in [Battery -> BOOLEAN]
    /\ soc \in [Battery -> {"unknown", "empty", "charged"}]
    /\ night \in 0..NightLength

(***************************************************************************)
(* A process that has just started takes a plug to be on, and to measure   *)
(* nothing, until it has been polled.                                      *)
(***************************************************************************)
Init ==
    /\ plug_cut_until = [b \in Battery |-> None]
    /\ plug_cut_reason = [b \in Battery |-> "none"]
    /\ plug_relay_state = [b \in Battery |-> TRUE]
    /\ last_plug_w = [b \in Battery |-> 0]
    /\ overload_started_at = [c \in Circuit |-> None]
    /\ soft_remediation_started_at = [c \in Circuit |-> None]
    /\ over_for = [c \in Circuit |-> 0]
    /\ calls = {}
    /\ poll = [b \in Battery |-> Due]
    /\ relay = [b \in Battery |-> TRUE]
    /\ soc = [b \in Battery |-> "unknown"]
    /\ night = 0

-----------------------------------------------------------------------------
(***************************************************************************)
(* One dispatcher cycle, d units after the one before.                     *)
(***************************************************************************)
AtMost(x, bound)  == IF x > bound THEN bound ELSE x
Since(t, d)       == IF t = None THEN None ELSE AtMost(t + d, MaxFor)
Left(t, d)        == IF t = None THEN None ELSE IF t < d THEN 0 ELSE t - d
AtLeast(t, bound) == t # None /\ t >= bound
Abs(x)            == IF x < 0 THEN -x ELSE x

Members(c)   == {b \in Battery : CircuitOf[b] = c /\ plug_relay_state[b]}
SignedSum(c) == SumFunctionOnSet(last_plug_w, Members(c))
Overload(c)  == Abs(SignedSum(c)) > Cap[c] + Margin

\* Mutant: the overload timer survives a cycle within the cap.
OverloadAge_NotReset(c, d) ==
    IF overload_started_at[c] # None THEN Since(overload_started_at[c], d)
    ELSE IF Overload(c) THEN 0 ELSE None

OverloadAge(c, d) ==
    IF ~Overload(c) THEN None
    ELSE IF overload_started_at[c] = None THEN 0
    ELSE Since(overload_started_at[c], d)

\* Mutant: the soft-remediation timer survives a cycle within the cap.
SoftAge_NotReset(c, d) ==
    IF soft_remediation_started_at[c] # None THEN Since(soft_remediation_started_at[c], d)
    ELSE IF AtLeast(OverloadAge(c, d), Grace) THEN 0 ELSE None

\* Mutant: every cycle of the soft remediation restarts its timer.
SoftAge_Restarted(c, d) == IF AtLeast(OverloadAge(c, d), Grace) THEN 0 ELSE None

SoftAge(c, d) ==
    IF ~Overload(c) THEN None
    ELSE IF ~AtLeast(OverloadAge(c, d), Grace) \/ soft_remediation_started_at[c] # None
         THEN Since(soft_remediation_started_at[c], d)
    ELSE 0

\* plug_cut_until is unset or has passed.
Commandable(b, d) == Left(plug_cut_until[b], d) \in {None, 0}

\* Mutant: a battery may be tripped while its cut is running.
Offenders_EvenIfCut(c, d) == {b \in Members(c) : last_plug_w[b] * SignedSum(c) > 0}

Offenders(c, d) ==
    {b \in Members(c) : Commandable(b, d) /\ last_plug_w[b] * SignedSum(c) > 0}

\* The largest reading of them; of two equal ones the later in the file.
IsWorst(b, S) ==
    /\ b \in S
    /\ \A a \in S : \/ Abs(last_plug_w[a]) < Abs(last_plug_w[b])
                    \/ Abs(last_plug_w[a]) = Abs(last_plug_w[b]) /\ a <= b

ToTrip(d) ==
    {b \in Battery : LET c == CircuitOf[b] IN
        /\ Margin > 0
        /\ AtLeast(OverloadAge(c, d), Grace)
        /\ AtLeast(SoftAge(c, d), SoftGrace)
        /\ IsWorst(b, Offenders(c, d))}

\* Mutant: only the cycle in which the cut expires calls the plug.
ToReenable_Once(d) ==
    {b \in Battery : /\ Margin > 0 /\ plug_cut_until[b] # 0
                     /\ Left(plug_cut_until[b], d) = 0}

ToReenable(d) == {b \in Battery : Margin > 0 /\ Left(plug_cut_until[b], d) = 0}

\* What the night cutoff reads: the state the emergency cutoff has stamped.
StampedCut(b, d)    == IF b \in ToTrip(d) THEN Recovery ELSE Left(plug_cut_until[b], d)
StampedReason(b, d) == IF b \in ToTrip(d) THEN "circuit" ELSE plug_cut_reason[b]

NightLeft(d) == IF night < d THEN 0 ELSE night - d

ToCut(d) ==
    {b \in Battery : /\ NightCutoff /\ NightLeft(d) > 0
                     /\ soc[b] = "empty"
                     /\ StampedCut(b, d) = None}

\* Mutant: a battery that is still empty at sunrise is not restored.
ToRestore_IfCharged(d) ==
    {b \in Battery : /\ NightCutoff /\ StampedReason(b, d) = "night"
                     /\ NightLeft(d) = 0 /\ soc[b] = "charged"}

ToRestore(d) ==
    {b \in Battery : /\ NightCutoff /\ b \notin ToCut(d)
                     /\ StampedReason(b, d) = "night"
                     /\ NightLeft(d) = 0 \/ soc[b] = "charged"}

Spawn(kind, S) ==
    {[battery |-> b, kind |-> kind, age |-> 0, applied |-> FALSE] : b \in S}

Aged(S, d) == {[k EXCEPT !.age = @ + d] : k \in S}

InFlight(p) == p \notin {Due, None}

Cycle(d) ==
    \* No HTTP call outlives its timeout.
    /\ \A k \in calls : k.age + d <= CallTimeout
    /\ \A b \in Battery : InFlight(poll[b]) => poll[b].age + d <= PollTimeout
    \* A plug is polled once per cycle, unless polls fail.
    /\ PollsMayFail \/ \A b \in Battery : poll[b] # Due
    /\ plug_cut_until' = [b \in Battery |->
           IF b \in ToCut(d) THEN NightLeft(d)
           ELSE IF b \in ToRestore(d) THEN None
           ELSE StampedCut(b, d)]
    /\ plug_cut_reason' = [b \in Battery |->
           IF b \in ToCut(d) THEN "night"
           ELSE IF b \in ToRestore(d) THEN "none"
           ELSE StampedReason(b, d)]
    /\ plug_relay_state' = [b \in Battery |->
           plug_relay_state[b] /\ b \notin ToTrip(d) \cup ToCut(d)]
    /\ IF Margin > 0
       THEN /\ overload_started_at' = [c \in Circuit |-> OverloadAge(c, d)]
            /\ soft_remediation_started_at' = [c \in Circuit |-> SoftAge(c, d)]
       ELSE UNCHANGED <<overload_started_at, soft_remediation_started_at>>
    /\ over_for' = [c \in Circuit |->
           IF Overload(c) THEN AtMost(over_for[c] + d, MaxFor) ELSE 0]
    /\ calls' = Aged(calls, d) \cup Spawn("trip", ToTrip(d))
                    \cup Spawn("reenable", ToReenable(d))
                    \cup Spawn("night cut", ToCut(d))
                    \cup Spawn("night restore", ToRestore(d))
    /\ poll' = [b \in Battery |->
           IF InFlight(poll[b]) THEN [poll[b] EXCEPT !.age = @ + d] ELSE Due]
    /\ night' = NightLeft(d)
    /\ UNCHANGED <<last_plug_w, relay, soc>>

-----------------------------------------------------------------------------
(***************************************************************************)
(* The set_relay tasks.  A call reaches the plug, and its answer reaches   *)
(* the task that awaits it; a call may be refused, or its answer lost.     *)
(***************************************************************************)
ClosesRelay(k) == k.kind \in {"reenable", "night restore", "manual reset"}

CallReachesPlug(k) ==
    /\ ~k.applied
    /\ Outcomes[k.kind] \cap {"ok", "lost"} # {}
    /\ relay' = [relay EXCEPT ![k.battery] = ClosesRelay(k)]
    /\ calls' = (calls \ {k}) \cup {[k EXCEPT !.applied = TRUE]}
    /\ UNCHANGED <<cutVars, plug_relay_state, last_plug_w, timerVars, poll, soc, night>>

\* Mutant: every call that succeeds ends the cut.
CallSucceeds_EndsCut(k) ==
    /\ k.applied /\ "ok" \in Outcomes[k.kind]
    /\ calls' = calls \ {k}
    /\ plug_cut_until' = [plug_cut_until EXCEPT ![k.battery] = None]
    /\ plug_cut_reason' = [plug_cut_reason EXCEPT ![k.battery] = "none"]
    /\ plug_relay_state' = [plug_relay_state EXCEPT ![k.battery] = @ \/ ClosesRelay(k)]
    /\ UNCHANGED <<last_plug_w, timerVars, poll, relay, soc, night>>

CallSucceeds(k) ==
    /\ k.applied
    /\ "ok" \in Outcomes[k.kind]
    /\ calls' = calls \ {k}
    /\ IF k.kind \in {"reenable", "manual reset"}
       THEN /\ plug_cut_until' = [plug_cut_until EXCEPT ![k.battery] = None]
            /\ plug_cut_reason' = [plug_cut_reason EXCEPT ![k.battery] = "none"]
       ELSE UNCHANGED cutVars
    /\ plug_relay_state' = [plug_relay_state EXCEPT ![k.battery] = @ \/ ClosesRelay(k)]
    /\ UNCHANGED <<last_plug_w, timerVars, poll, relay, soc, night>>

\* Mutant: a call that fails ends the cut and leaves the reason.
CallFails_KeepsReason(k) ==
    /\ (IF k.applied THEN "lost" ELSE "refused") \in Outcomes[k.kind]
    /\ calls' = calls \ {k}
    /\ plug_cut_until' = [plug_cut_until EXCEPT ![k.battery] = None]
    /\ UNCHANGED <<plug_cut_reason, plug_relay_state, last_plug_w, timerVars, poll,
                   relay, soc, night>>

CallFails(k) ==
    /\ (IF k.applied THEN "lost" ELSE "refused") \in Outcomes[k.kind]
    /\ calls' = calls \ {k}
    /\ IF ClosesRelay(k)
       THEN UNCHANGED cutVars
       ELSE /\ plug_cut_until' = [plug_cut_until EXCEPT ![k.battery] = None]
            /\ plug_cut_reason' = [plug_cut_reason EXCEPT ![k.battery] =
                   IF k.kind = "trip" THEN "trip failed" ELSE "night cut failed"]
    /\ UNCHANGED <<plug_relay_state, last_plug_w, timerVars, poll, relay, soc, night>>

\* The operator awaits the answer before the next try.
ManualReset(b) ==
    /\ b \in ResetByHand
    /\ plug_cut_until[b] # None
    /\ \A k \in calls : k.kind = "manual reset" => k.battery # b
    /\ calls' = calls \cup Spawn("manual reset", {b})
    /\ UNCHANGED <<cutVars, plug_relay_state, last_plug_w, timerVars, poll, relay,
                   soc, night>>

-----------------------------------------------------------------------------
(***************************************************************************)
(* The plug poller: the plug samples its relay and power, and the answer   *)
(* is stored later, or lost.                                               *)
(***************************************************************************)
PlugAnswersPoll(b) ==
    /\ poll[b] = Due
    /\ \E w \in PlugPower :
         poll' = [poll EXCEPT ![b] =
                    [on |-> relay[b], w |-> IF relay[b] THEN w ELSE 0, age |-> 0]]
    /\ UNCHANGED <<cutVars, plug_relay_state, last_plug_w, timerVars, calls, relay,
                   soc, night>>

\* The interval skips missed ticks: a late answer is followed by the next poll.
NextPoll(p) == IF p.age > 0 THEN Due ELSE None

StorePoll(b) ==
    /\ InFlight(poll[b])
    /\ plug_relay_state' = [plug_relay_state EXCEPT ![b] = poll[b].on]
    /\ last_plug_w' = [last_plug_w EXCEPT ![b] = poll[b].w]
    /\ poll' = [poll EXCEPT ![b] = NextPoll(@)]
    /\ UNCHANGED <<cutVars, timerVars, calls, relay, soc, night>>

PollFails(b) ==
    /\ InFlight(poll[b])
    /\ PollsMayFail
    /\ poll' = [poll EXCEPT ![b] = NextPoll(@)]
    /\ UNCHANGED <<cutVars, plug_relay_state, last_plug_w, timerVars, calls, relay,
                   soc, night>>

-----------------------------------------------------------------------------
\* The battery's state of charge is read anew.
SocChanges(b) ==
    /\ NightCutoff
    /\ \E s \in {"empty", "charged"} \ {soc[b]} : soc' = [soc EXCEPT ![b] = s]
    /\ UNCHANGED <<cutVars, plug_relay_state, last_plug_w, timerVars, calls, poll,
                   relay, night>>

Sunset ==
    /\ NightCutoff /\ night = 0 /\ NightLength > 0
    /\ night' = NightLength
    /\ UNCHANGED <<cutVars, plug_relay_state, last_plug_w, timerVars, calls, poll,
                   relay, soc>>

\* The process dies and starts over; the plugs keep their relays.
Restart ==
    /\ MayRestart
    /\ plug_cut_until' = [b \in Battery |-> None]
    /\ plug_cut_reason' = [b \in Battery |-> "none"]
    /\ plug_relay_state' = [b \in Battery |-> TRUE]
    /\ last_plug_w' = [b \in Battery |-> 0]
    /\ overload_started_at' = [c \in Circuit |-> None]
    /\ soft_remediation_started_at' = [c \in Circuit |-> None]
    /\ over_for' = [c \in Circuit |-> 0]
    /\ calls' = {}
    /\ poll' = [b \in Battery |-> Due]
    /\ soc' = [b \in Battery |-> "unknown"]
    /\ UNCHANGED <<relay, night>>

Next ==
    \/ \E d \in 1..MaxLate : Cycle(d)
    \/ \E k \in calls : CallReachesPlug(k) \/ CallSucceeds(k) \/ CallFails(k)
    \/ \E b \in Battery : ManualReset(b)
    \/ \E b \in Battery : PlugAnswersPoll(b) \/ StorePoll(b) \/ PollFails(b)
    \/ \E b \in Battery : SocChanges(b)
    \/ Sunset
    \/ Restart

Spec == Init /\ [][Next]_vars

(***************************************************************************)
(* Fairness: the dispatcher's interval keeps ticking, the pollers keep     *)
(* polling, and a task that awaits an answer is woken by it or by its      *)
(* timeout.  A plug that is called again and again is reached some time.   *)
(***************************************************************************)
CallStep == \E k \in calls : CallReachesPlug(k) \/ CallSucceeds(k) \/ CallFails(k)

ReachPlug(b, closing) ==
    \E k \in calls : k.battery = b /\ ClosesRelay(k) = closing /\ CallReachesPlug(k)

Fairness ==
    /\ WF_vars(Cycle(1)) /\ WF_vars(CallStep)
    /\ \A b \in Battery : WF_vars(PlugAnswersPoll(b)) /\ WF_vars(StorePoll(b))
    /\ \A b \in Battery, closing \in BOOLEAN : SF_vars(ReachPlug(b, closing))

FairSpec == Spec /\ Fairness

-----------------------------------------------------------------------------
(***************************************************************************)
(* Properties.                                                             *)
(***************************************************************************)

\* The flag and the reason of a cut are written by six tasks in any order,
\* and the night cutoff recognises its own cuts by the reason alone: a plug
\* has a running cut exactly when its reason is that of a cut, so that a cut
\* that failed or ended never leaves half of the pair behind.
CutFlagsAgree ==
    \A b \in Battery :
        plug_cut_until[b] # None <=> plug_cut_reason[b] \in {"circuit", "night"}

JustTripped(b) ==
    /\ plug_cut_reason'[b] = "circuit"
    /\ plug_cut_until'[b] = Recovery /\ plug_cut_until[b] # Recovery

\* The plug relay must not wear out without need: a relay is opened for an overload only when every cycle of the
\* whole grace and of the whole soft remediation saw the circuit over its cap
\* plus margin; one cycle within it starts the escalation over.
TripOnlyAfterSustainedOverload ==
    [][\A b \in Battery :
          JustTripped(b) => over_for'[CircuitOf[b]] >= Grace + SoftGrace]_vars

\* A cut that is still running is never extended, however often the circuit
\* is over its cap meanwhile and whatever late poll says the plug is on:
\* the recovery window counts from the trip that opened the relay.
RunningCutNotExtended ==
    [][\A b \in Battery :
          plug_cut_until[b] # None /\ plug_cut_until[b] > MaxLate =>
              plug_cut_until'[b] = None \/ plug_cut_until'[b] <= plug_cut_until[b]]_vars

\* An open relay is never forgotten: the battery is marked as cut, which the
\* recovery sweep and the manual reset need to find it, or a call that will
\* close the relay is on its way.
OpenPlugIsRemembered ==
    \A b \in Battery : ~relay[b] =>
        \/ plug_cut_until[b] # None
        \/ \E k \in calls : k.battery = b /\ ClosesRelay(k) /\ ~k.applied

\* "After EMERGENCY_CUTOFF_RECOVERY_S an already-tripped plug auto-reenables",
\* and a night cut is "restored automatically at sunrise".
OpenPlugCloses == \A b \in Battery : ~relay[b] ~> relay[b]

\* A poll found the plug closed and less than the most it can measure.
Relents(b) == InFlight(poll[b]) /\ poll[b].on /\ \E w \in PlugPower : w > poll[b].w

\* The last line of defence: where every closed plug of the circuit measures an
\* overload for good, some relay is opened, again after each recovery, even
\* though calls are refused in between.
RogueIsCut ==
    \A c \in Circuit : []<>(\E b \in Battery : CircuitOf[b] = c /\ (~relay[b] \/ Relents(b)))

-----------------------------------------------------------------------------
(***************************************************************************)
(* The inductive invariant.                                                *)
(***************************************************************************)

\* An escalation is no older than the overload it answers.
OverloadIsReal ==
    \A c \in Circuit : Margin > 0 /\ overload_started_at[c] # None =>
        over_for[c] > overload_started_at[c] \/ over_for[c] = MaxFor

\* Soft remediation starts only after the whole grace.
SoftAfterGrace ==
    \A c \in Circuit : soft_remediation_started_at[c] # None =>
        /\ overload_started_at[c] # None
        /\ \/ overload_started_at[c] >= soft_remediation_started_at[c] + Grace
           \/ overload_started_at[c] = MaxFor

\* The window of a trip is never longer than the recovery time.
WindowBounded ==
    \A b \in Battery : plug_cut_reason[b] = "circuit" => plug_cut_until[b] <= Recovery

IInv == TypeOK /\ CutFlagsAgree /\ OverloadIsReal /\ SoftAfterGrace /\ WindowBounded

=============================================================================
