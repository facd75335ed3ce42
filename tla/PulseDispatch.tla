---------------------------- MODULE PulseDispatch ----------------------------
(***************************************************************************)
(* The pulse mode: the dispatcher's cycle (dispatcher.rs, step_pulse) with *)
(* the muting of stale circuits, the detection of refused pulses and the   *)
(* settle gate (state.rs, pulse_settled), the virtual Shelly that hands    *)
(* out the pulses (virtual_shelly.rs, handle_request) and the plug poller  *)
(* that watches what becomes of them (plug.rs).                            *)
(*                                                                         *)
(* The batteries are modelled from what the code takes them to do: a       *)
(* Marstek adds a pulse to its internal target once it has heard it often  *)
(* enough, and its power follows.  Powers are told in steps that are       *)
(* larger than the deadband and than PLUG_STABLE_W.  Every timestamp is    *)
(* the time since, or until, that moment, in cycles.                       *)
(***************************************************************************)
EXTENDS Integers

CONSTANTS
    Battery, Circuit, CircuitOf,
    MaxPower,      \* max_charge_w and max_discharge_w, in steps
    PulseCount,    \* PULSE_COUNT
    Commit,        \* the equal answers after which a Marstek acts
    Stable,        \* PLUG_STABLE_DURATION_S
    Settle,        \* settle_timeout_s
    Silence,       \* GROUP_SILENT_AFTER_STALE_S
    Lockout,       \* SOC_UNKNOWN_LOCKOUT_S
    PlugStale,     \* plug_stale_s
    WatchdogBy,    \* the silence left by which a Marstek has dropped its target
    Full, Empty,   \* the batteries that will not charge, or not discharge
    Dark,          \* the batteries whose Marstek does not poll
    None

ASSUME PulseConstantsOK ==
    /\ CircuitOf \in [Battery -> Circuit]
    /\ {MaxPower, PulseCount, Commit, Stable, Settle, Silence, Lockout, PlugStale}
           \subseteq Nat \ {0}
    /\ Commit <= PulseCount
    /\ WatchdogBy \in Nat
    /\ Full \subseteq Battery /\ Empty \subseteq Battery /\ Dark \subseteq Battery
    /\ None \notin Int

VARIABLES
    pending_pulse_w,          \* the pulse to hand out
    pulse_remaining,          \* how often
    plug_w_at_pulse_send,     \* the plug's reading when it was queued, or None
    last_pulse_completed_at,  \* time since the last of it went out, or None
    last_pulse_delta_w,       \* the pulse whose outcome is not known, or None
    charge_locked_until,      \* time left
    discharge_locked_until,   \* time left
    last_plug_w,              \* the plug's reading, or None before the first
    last_plug_at,             \* time since then
    last_plug_movement_at,    \* time since it last moved
    moved_since,              \* was that after the last pulse went out?
    silent_until,             \* of each circuit, time left
    grid,                     \* is the reading of the real Shelly stale?
    phase,                    \* has the gate opened for this cycle?
    polled,                   \* the Marsteks that have polled since the last cycle
    sampled,                  \* the plugs that were polled since then
    heard,                    \* the answers with this pulse a Marstek has got
    goal,                     \* its internal target
    calm                      \* history: time since a cycle saw the circuit stale

pulseVars == <<pending_pulse_w, pulse_remaining, plug_w_at_pulse_send,
               last_pulse_completed_at, last_pulse_delta_w>>
lockVars  == <<charge_locked_until, discharge_locked_until>>
plugVars  == <<last_plug_w, last_plug_at, last_plug_movement_at, moved_since>>
muteVars  == <<silent_until, calm>>
vars == <<pulseVars, lockVars, plugVars, muteVars, grid, phase, polled, sampled,
          heard, goal>>

Power == -MaxPower..MaxPower
Delta == -2 * MaxPower..2 * MaxPower

TypeOK ==
    /\ pending_pulse_w \in [Battery -> Delta]
    /\ pulse_remaining \in [Battery -> 0..PulseCount]
    /\ plug_w_at_pulse_send \in [Battery -> Power \cup {None}]
    /\ last_pulse_completed_at \in [Battery -> 0..Settle \cup {None}]
    /\ last_pulse_delta_w \in [Battery -> Delta \cup {None}]
    /\ charge_locked_until \in [Battery -> 0..Lockout]
    /\ discharge_locked_until \in [Battery -> 0..Lockout]
    /\ last_plug_w \in [Battery -> Power \cup {None}]
    /\ last_plug_at \in [Battery -> 0..PlugStale + 1]
    /\ last_plug_movement_at \in [Battery -> 0..Stable]
    /\ moved_since \in [Battery -> BOOLEAN]
    /\ silent_until \in [Circuit -> 0..Silence]
    /\ grid \in {"fresh", "stale", "seen stale"}
    /\ phase \in {"wait", "queue"}
    /\ polled \subseteq Battery /\ sampled \subseteq Battery
    /\ heard \in [Battery -> 0..Commit]
    /\ goal \in [Battery -> Int]
    /\ calm \in [Circuit -> 0..Silence]

Init ==
    /\ pending_pulse_w = [b \in Battery |-> 0]
    /\ pulse_remaining = [b \in Battery |-> 0]
    /\ plug_w_at_pulse_send = [b \in Battery |-> None]
    /\ last_pulse_completed_at = [b \in Battery |-> None]
    /\ last_pulse_delta_w = [b \in Battery |-> None]
    /\ charge_locked_until = [b \in Battery |-> 0]
    /\ discharge_locked_until = [b \in Battery |-> 0]
    /\ last_plug_w = [b \in Battery |-> None]
    /\ last_plug_at = [b \in Battery |-> 0]
    /\ last_plug_movement_at = [b \in Battery |-> Stable]
    /\ moved_since = [b \in Battery |-> FALSE]
    /\ silent_until = [c \in Circuit |-> 0]
    /\ grid = "stale"
    /\ phase = "wait"
    /\ polled = {} /\ sampled = {}
    /\ heard = [b \in Battery |-> 0]
    /\ goal = [b \in Battery |-> 0]
    /\ calm = [c \in Circuit |-> Silence]

-----------------------------------------------------------------------------
Older(t, bound) == IF t = None THEN None ELSE IF t < bound THEN t + 1 ELSE bound

\* Mutant: counting down does not stop at zero.
Left_Unguarded(t) == t - 1

Left(t) == IF t = 0 THEN 0 ELSE t - 1

Moved(w, v)     == w # v

(***************************************************************************)
(* The first half of step_pulse, a cycle after the one before.             *)
(***************************************************************************)

is_plug_fresh(b) == last_plug_w[b] # None /\ Older(last_plug_at[b], PlugStale + 1) <= PlugStale

NeedsSilence(c) ==
    grid # "fresh" \/ \E b \in Battery : CircuitOf[b] = c /\ ~is_plug_fresh(b)

\* Mutant: a circuit is muted only while it is stale.
Muted_NoCooldown(c) == IF NeedsSilence(c) THEN 1 ELSE Left(silent_until[c])

\* update_circuit_mute
Muted(c) == IF NeedsSilence(c) THEN Silence ELSE Left(silent_until[c])

\* Mutant: a pulse is taken to be refused before the settle timeout is over.
Outcome_Hasty(b) ==
    IF \/ pulse_remaining[b] > 0
       \/ None \in {last_pulse_delta_w[b], last_pulse_completed_at[b],
                    plug_w_at_pulse_send[b], last_plug_w[b]}
    THEN "unknown"
    ELSE IF Moved(last_plug_w[b], plug_w_at_pulse_send[b]) THEN "accepted"
    ELSE "refused"

\* detect_pulse_outcomes: what is known of the last pulse.
Outcome(b) ==
    IF \/ pulse_remaining[b] > 0
       \/ None \in {last_pulse_delta_w[b], last_pulse_completed_at[b],
                    plug_w_at_pulse_send[b], last_plug_w[b]}
    THEN "unknown"
    ELSE IF Moved(last_plug_w[b], plug_w_at_pulse_send[b]) THEN "accepted"
    ELSE IF last_pulse_completed_at[b] + 1 < Settle THEN "unknown"
    ELSE "refused"

LockLeft(left, pulsed, b) ==
    CASE pulsed /\ Outcome(b) = "accepted" -> 0
      [] pulsed /\ Outcome(b) = "refused"  -> Lockout
      [] OTHER                             -> Left(left)

\* Mutant: the plug need not have stopped moving.
pulse_settled_Moving(b) ==
    /\ pulse_remaining[b] = 0
    /\ \/ last_pulse_completed_at[b] = None
       \/ last_pulse_completed_at[b] + 1 >= Settle
       \/ moved_since[b]

\* Mutant: there is no escape hatch.
pulse_settled_NoEscape(b) ==
    /\ pulse_remaining[b] = 0
    /\ \/ last_pulse_completed_at[b] = None
       \/ moved_since[b] /\ last_plug_movement_at[b] + 1 >= Stable

pulse_settled(b) ==
    /\ pulse_remaining[b] = 0
    /\ \/ last_pulse_completed_at[b] = None
       \/ last_pulse_completed_at[b] + 1 >= Settle
       \/ moved_since[b] /\ last_plug_movement_at[b] + 1 >= Stable

any_pulse_in_flight == \E b \in Battery : Muted(CircuitOf[b]) = 0 /\ ~pulse_settled(b)

Assess ==
    /\ phase = "wait"
    /\ sampled = Battery /\ polled = Battery \ Dark
    /\ silent_until' = [c \in Circuit |-> Muted(c)]
    /\ calm' = [c \in Circuit |-> IF NeedsSilence(c) THEN 0 ELSE Older(calm[c], Silence)]
    /\ IF grid = "fresh"
       THEN /\ charge_locked_until' = [b \in Battery |->
                   LockLeft(charge_locked_until[b],
                            last_pulse_delta_w[b] # None /\ last_pulse_delta_w[b] < 0, b)]
            /\ discharge_locked_until' = [b \in Battery |->
                   LockLeft(discharge_locked_until[b],
                            last_pulse_delta_w[b] # None /\ last_pulse_delta_w[b] > 0, b)]
            /\ last_pulse_delta_w' = [b \in Battery |->
                   IF Outcome(b) = "unknown" THEN last_pulse_delta_w[b] ELSE None]
            /\ phase' = IF any_pulse_in_flight THEN "wait" ELSE "queue"
       ELSE /\ charge_locked_until' = [b \in Battery |-> Left(charge_locked_until[b])]
            /\ discharge_locked_until' = [b \in Battery |-> Left(discharge_locked_until[b])]
            /\ UNCHANGED <<last_pulse_delta_w, phase>>
    /\ last_pulse_completed_at' = [b \in Battery |-> Older(last_pulse_completed_at[b], Settle)]
    /\ last_plug_at' = [b \in Battery |-> Older(last_plug_at[b], PlugStale + 1)]
    /\ last_plug_movement_at' = [b \in Battery |-> Older(last_plug_movement_at[b], Stable)]
    /\ grid' = IF grid = "stale" THEN "seen stale" ELSE grid
    /\ polled' = {} /\ sampled' = {}
    /\ UNCHANGED <<pending_pulse_w, pulse_remaining, plug_w_at_pulse_send, last_plug_w,
                   moved_since, heard, goal>>

(***************************************************************************)
(* The second half: compute_deltas, whose shares are not told apart, and   *)
(* queue_pulses.                                                           *)
(***************************************************************************)
low_bound(b)  == IF charge_locked_until[b] > 0 THEN 0 ELSE -MaxPower
high_bound(b) == IF discharge_locked_until[b] > 0 THEN 0 ELSE MaxPower

Between(x, y, z) == (x <= y /\ y <= z) \/ (z <= y /\ y <= x)

\* The deltas to a target within the bounds, which the circuit's cap may scale.
Deltas(b) ==
    {d \in Delta : \E target \in low_bound(b)..high_bound(b) :
        Between(0, d, target - last_plug_w[b])}

\* Mutant: the pulse of a muted circuit is kept.
Queue_KeepMuted ==
    /\ phase = "queue"
    /\ \E delta \in [Battery -> Delta] :
         /\ \A b \in Battery :
              delta[b] \in IF silent_until[CircuitOf[b]] > 0 THEN {0} ELSE Deltas(b)
         /\ LET Armed(b) == delta[b] # 0 IN
            /\ pending_pulse_w' = [b \in Battery |->
                   IF Armed(b) THEN delta[b] ELSE pending_pulse_w[b]]
            /\ pulse_remaining' = [b \in Battery |->
                   IF Armed(b) THEN PulseCount ELSE pulse_remaining[b]]
            /\ plug_w_at_pulse_send' = [b \in Battery |->
                   IF Armed(b) THEN last_plug_w[b] ELSE plug_w_at_pulse_send[b]]
            /\ last_pulse_completed_at' = [b \in Battery |->
                   IF Armed(b) THEN None ELSE last_pulse_completed_at[b]]
            /\ last_pulse_delta_w' = [b \in Battery |->
                   IF Armed(b) THEN delta[b] ELSE last_pulse_delta_w[b]]
    /\ phase' = "wait"
    /\ UNCHANGED <<lockVars, plugVars, muteVars, grid, polled, sampled, heard, goal>>

Queue ==
    /\ phase = "queue"
    /\ \E delta \in [Battery -> Delta] :
         LET Silent(b) == silent_until[CircuitOf[b]] > 0
             Armed(b)  == delta[b] # 0
         IN
         /\ \A b \in Battery : delta[b] \in IF Silent(b) THEN {0} ELSE Deltas(b)
         /\ pending_pulse_w' = [b \in Battery |->
                IF Silent(b) THEN 0 ELSE IF Armed(b) THEN delta[b] ELSE pending_pulse_w[b]]
         /\ pulse_remaining' = [b \in Battery |->
                IF Silent(b) THEN 0 ELSE IF Armed(b) THEN PulseCount ELSE pulse_remaining[b]]
         /\ plug_w_at_pulse_send' = [b \in Battery |->
                IF Silent(b) THEN None
                ELSE IF Armed(b) THEN last_plug_w[b] ELSE plug_w_at_pulse_send[b]]
         /\ last_pulse_completed_at' = [b \in Battery |->
                IF Silent(b) \/ Armed(b) THEN None ELSE last_pulse_completed_at[b]]
         /\ last_pulse_delta_w' = [b \in Battery |->
                IF Silent(b) THEN None
                ELSE IF Armed(b) THEN delta[b] ELSE last_pulse_delta_w[b]]
    /\ phase' = "wait"
    /\ UNCHANGED <<lockVars, plugVars, muteVars, grid, polled, sampled, heard, goal>>

-----------------------------------------------------------------------------
(***************************************************************************)
(* The virtual Shelly.  A muted circuit gets no answer; else a pending     *)
(* pulse is handed out once more.  Where the grid is stale the answer is   *)
(* an error, and an answer may be lost, as long as the others suffice.     *)
(***************************************************************************)
Accepts(b, pulse) == IF pulse < 0 THEN b \notin Full ELSE b \notin Empty

MarstekPolls(b, lost) ==
    /\ b \notin Dark
    /\ lost => heard[b] + pulse_remaining[b] > Commit
    /\ polled' = polled \cup {b}
    /\ IF silent_until[CircuitOf[b]] > 0
       THEN /\ heard' = [heard EXCEPT ![b] = 0]
            /\ UNCHANGED <<pulseVars, moved_since, goal>>
       ELSE LET pulse == IF pulse_remaining[b] > 0 THEN pending_pulse_w[b] ELSE 0
                last  == pulse_remaining[b] = 1
                told  == ~lost /\ grid = "fresh"
                acts  == told /\ pulse # 0 /\ heard[b] = Commit - 1
            IN
            /\ pulse_remaining' = [pulse_remaining EXCEPT ![b] = Left(@)]
            /\ pending_pulse_w' = [pending_pulse_w EXCEPT ![b] = IF last THEN 0 ELSE @]
            /\ last_pulse_completed_at' =
                   [last_pulse_completed_at EXCEPT ![b] = IF last THEN 0 ELSE @]
            /\ moved_since' = [moved_since EXCEPT ![b] = @ /\ ~last]
            /\ heard' = [heard EXCEPT ![b] =
                   IF ~told THEN @ ELSE IF pulse = 0 THEN 0 ELSE Older(@, Commit)]
            /\ goal' = [goal EXCEPT ![b] = IF acts /\ Accepts(b, pulse) THEN @ + pulse ELSE @]
            /\ UNCHANGED <<plug_w_at_pulse_send, last_pulse_delta_w>>
    /\ UNCHANGED <<lockVars, last_plug_w, last_plug_at, last_plug_movement_at, muteVars,
                   grid, phase, sampled>>

\* A Marstek that gets no answers drops its target.
Watchdog(b) ==
    /\ silent_until[CircuitOf[b]] > WatchdogBy
    /\ goal[b] # 0
    /\ goal' = [goal EXCEPT ![b] = 0]
    /\ UNCHANGED <<pulseVars, lockVars, plugVars, muteVars, grid, phase, polled, sampled,
                   heard>>

(***************************************************************************)
(* The plug poller.  Between two polls the power has got closer to the     *)
(* target; a plug whose battery is not moving may fail to answer.          *)
(***************************************************************************)
PlugPolled(b) ==
    /\ b \notin sampled
    /\ \E w \in Power :
         /\ \/ w = goal[b]
            \/ /\ last_plug_w[b] # None /\ w # last_plug_w[b]
               /\ Between(last_plug_w[b], w, goal[b])
         /\ last_plug_w' = [last_plug_w EXCEPT ![b] = w]
         /\ IF Moved(w, last_plug_w[b])
            THEN /\ last_plug_movement_at' = [last_plug_movement_at EXCEPT ![b] = 0]
                 /\ moved_since' = [moved_since EXCEPT ![b] = TRUE]
            ELSE UNCHANGED <<last_plug_movement_at, moved_since>>
    /\ last_plug_at' = [last_plug_at EXCEPT ![b] = 0]
    /\ sampled' = sampled \cup {b}
    /\ UNCHANGED <<pulseVars, lockVars, muteVars, grid, phase, polled, heard, goal>>

PlugSilent(b) ==
    /\ b \notin sampled
    /\ last_plug_w[b] = goal[b]
    /\ sampled' = sampled \cup {b}
    /\ UNCHANGED <<pulseVars, lockVars, plugVars, muteVars, grid, phase, polled, heard, goal>>

\* The reading of the real Shelly goes stale for a cycle at least.
GridChanges ==
    /\ grid' \in (IF grid = "seen stale" THEN {"fresh"}
                  ELSE IF grid = "fresh" THEN {"stale"} ELSE {})
    /\ UNCHANGED <<pulseVars, lockVars, plugVars, muteVars, phase, polled, sampled, heard,
                   goal>>

Next ==
    \/ Assess
    \/ Queue
    \/ \E b \in Battery, lost \in BOOLEAN : MarstekPolls(b, lost)
    \/ \E b \in Battery : Watchdog(b)
    \/ \E b \in Battery : PlugPolled(b) \/ PlugSilent(b)
    \/ GridChanges

Spec == Init /\ [][Next]_vars

(***************************************************************************)
(* Fairness: the dispatcher ticks on, the plugs are polled and the         *)
(* Marsteks that poll at all go on polling.                                *)
(***************************************************************************)
FairSpec ==
    /\ Spec
    /\ WF_vars(Assess) /\ WF_vars(Queue)
    /\ \A b \in Battery : WF_vars(PlugPolled(b))
                          /\ WF_vars(b \notin polled /\ MarstekPolls(b, FALSE))

-----------------------------------------------------------------------------
(***************************************************************************)
(* The parts of the inductive invariant behind the properties below.       *)
(***************************************************************************)
SilenceLeft(b) == silent_until[CircuitOf[b]]
One(b, S)      == IF b \in S THEN 1 ELSE 0

\* How far a plug still has to move.
Away(b) ==
    IF last_plug_w[b] = None THEN 0
    ELSE IF last_plug_w[b] < goal[b] THEN goal[b] - last_plug_w[b]
    ELSE last_plug_w[b] - goal[b]

\* The cycles a battery can still hold the gate.
Holds(x) ==
    IF pulse_remaining[x] > 0 THEN pulse_remaining[x] + Settle + One(x, polled)
    ELSE IF last_pulse_completed_at[x] = None THEN 0
    ELSE Settle - last_pulse_completed_at[x]

\* Silence left and time since the circuit was stale are a whole silence, and it
\* begins anew when a cycle has seen the real Shelly stale.
WholeSilence ==
    /\ \A c \in Circuit : silent_until[c] + calm[c] = Silence
    /\ grid = "seen stale" => \A c \in Circuit : silent_until[c] = Silence

\* Nothing is asked of a battery before its plug was read.
NotYetSeen(b) ==
    last_plug_w[b] = None =>
        goal[b] = 0 /\ pulse_remaining[b] = 0 /\ b \notin sampled /\ phase = "wait"

\* While a muted circuit has a pulse to clear, whatever holds the gate lets go of
\* it before the silence is over.
ClearedInTime(b) ==
    SilenceLeft(b) > 0 /\ pulse_remaining[b] > 0 /\ phase = "wait" =>
        /\ SilenceLeft(b) >= 2
        /\ \A x \in Battery :
              CircuitOf[x] # CircuitOf[b] /\ (SilenceLeft(x) = 0 \/ pulse_remaining[x] = 0)
                  => Holds(x) < SilenceLeft(b)

\* The pulse being handed out keeps the target within the bounds, once.
PulseFits(b) ==
    pulse_remaining[b] > 0 /\ SilenceLeft(b) = 0 /\ heard[b] < Commit =>
        goal[b] + pending_pulse_w[b] \in Power

\* Where the gate is open the plug is where the battery wants it, and the Marstek
\* has forgotten the last pulse.
AtRest(b) ==
    phase = "queue" /\ SilenceLeft(b) = 0 =>
        pulse_remaining[b] = 0 /\ last_plug_w[b] = goal[b] /\ heard[b] = 0

\* After its last answer a pulse has settled within the settle timeout.
Ramps(b) ==
    pulse_remaining[b] = 0 /\ SilenceLeft(b) = 0 =>
        /\ last_pulse_completed_at[b] = None => Away(b) = 0
        /\ last_pulse_completed_at[b] \notin {None, 0} =>
              \/ Away(b) = 0
              \/ Away(b) + last_pulse_completed_at[b] - 1 + One(b, sampled) <= 2 * MaxPower

\* A plug that has moved but is not there yet is seen to be moving.
SeenMoving(b) ==
    pulse_remaining[b] = 0 /\ moved_since[b] =>
        /\ SilenceLeft(b) = 0 /\ b \in sampled /\ Away(b) > 0 => last_plug_movement_at[b] = 0
        /\ last_pulse_completed_at[b] = 0 => last_plug_movement_at[b] = 0

\* In a silence the plug comes to rest, on what was asked or at zero.
ComesToRest(b) ==
    LET left == SilenceLeft(b) IN
    left > 0 =>
        \/ Away(b) = 0
        \/ Away(b) + (Silence - left) + One(b, sampled) <= 2 * MaxPower
        \/ left > WatchdogBy /\ Away(b) <= MaxPower
        \/ left <= WatchdogBy /\ Away(b) + (WatchdogBy - left) + One(b, sampled) <= MaxPower

\* An answer without a pulse makes a Marstek forget the pulse before it.
Forgotten(b) ==
    /\ SilenceLeft(b) > 0 /\ (b \in polled \/ SilenceLeft(b) < Silence) => heard[b] = 0
    /\ SilenceLeft(b) = 0 /\ pulse_remaining[b] = 0 =>
         /\ last_pulse_completed_at[b] = None => heard[b] = 0
         /\ last_pulse_completed_at[b] \notin {None, 0} /\ b \in polled /\ grid = "fresh"
                => heard[b] = 0

\* What a battery that took the pulse wants by now.
Wanted(b) ==
    plug_w_at_pulse_send[b] +
        (IF Accepts(b, last_pulse_delta_w[b]) THEN last_pulse_delta_w[b] ELSE 0)

\* As long as its outcome is not known, the last pulse is told often enough, and
\* the target is the one before it or the one with it.
Followed(b) ==
    /\ last_pulse_delta_w[b] # None =>
         /\ last_pulse_delta_w[b] # 0 /\ plug_w_at_pulse_send[b] # None
         /\ pulse_remaining[b] = 0 => last_pulse_completed_at[b] # None
    /\ last_pulse_delta_w[b] # None /\ SilenceLeft(b) = 0 /\ grid = "fresh" =>
         /\ pulse_remaining[b] > 0 => pending_pulse_w[b] = last_pulse_delta_w[b]
         /\ \/ goal[b] = Wanted(b) /\ (pulse_remaining[b] > 0 => heard[b] = Commit)
            \/ /\ pulse_remaining[b] > 0 /\ goal[b] = plug_w_at_pulse_send[b]
               /\ heard[b] < Commit /\ heard[b] + pulse_remaining[b] >= Commit

\* No pulse of before a silence is still judged after it.
JudgedInTime(b) ==
    SilenceLeft(b) \in 1..Silence - 1 /\ last_pulse_delta_w[b] # None
        /\ pulse_remaining[b] = 0 =>
            last_pulse_completed_at[b] \in Silence - SilenceLeft(b)..Settle - 1

LocksEarned(b) ==
    SilenceLeft(b) = 0 =>
        /\ charge_locked_until[b] = Lockout => b \in Full
        /\ discharge_locked_until[b] = Lockout => b \in Empty

\* What holds of every battery.
BatteryInv(b) ==
    /\ NotYetSeen(b) /\ PulseFits(b) /\ AtRest(b) /\ Ramps(b) /\ SeenMoving(b)
    /\ ComesToRest(b) /\ Forgotten(b) /\ Followed(b) /\ JudgedInTime(b)
    /\ LocksEarned(b) /\ goal[b] \in Power

-----------------------------------------------------------------------------
(***************************************************************************)
(* Properties.                                                             *)
(***************************************************************************)

\* The inductive invariant: no counter or timer leaves its range, no pulse of
\* before a silence is left, told again or judged after it, and where the gate is
\* open every plug is where its battery wants it.
PulseInv ==
    TypeOK /\ WholeSilence /\ \A b \in Battery : ClearedInTime(b) /\ BatteryInv(b)

\* "This prevents stacking deltas on top of a still-in-flight reaction": no
\* battery is ever driven beyond the bounds its pulses were computed for,
\* whatever pulses are under way, lost, or dropped by a silence.
NothingStacked == \A b \in Battery : goal[b] \in Power

\* A direction is locked only for a battery that will not go there: where its
\* circuit has long not been stale, an answer that is lost within the margin of
\* PULSE_COUNT or a slow plug never looks like a refusal.
LockMeansRefusal ==
    [][\A b \in Battery : calm'[CircuitOf[b]] >= Silence =>
          /\ charge_locked_until'[b] = Lockout => b \in Full
          /\ discharge_locked_until'[b] = Lockout => b \in Empty]_vars

\* "There's an extra 60 s 'silent after stale'" in pulse mode: a pulse is only
\* handed out when no cycle of the whole silence has seen the circuit stale.
SilenceKept ==
    [][\A b \in Battery :
          pulse_remaining'[b] < pulse_remaining[b] /\ last_pulse_delta_w'[b] # None =>
              calm[CircuitOf[b]] >= Silence]_vars

\* "Muted-circuit batteries are excluded - their pending state will be cleared by
\* queue_pulses anyway": no pulse is left to hand out when a silence ends.
MutedIsCleared ==
    [][\A b \in Battery :
          silent_until[CircuitOf[b]] > 0 /\ silent_until'[CircuitOf[b]] = 0 =>
              pulse_remaining'[b] = 0]_vars

\* "Hard escape hatch: accept the cycle as done after this long, even if the
\* battery refused to react": where nothing is stale for good, the gate opens
\* again and again.
GateReopens ==
    <>[](grid = "fresh" /\ \A c \in Circuit : silent_until[c] = 0) => []<>(phase = "queue")

\* The pulse a Marstek may still take: it is handed out, and was not heard often
\* enough so far.
Offered(b) ==
    IF SilenceLeft(b) = 0 /\ pulse_remaining[b] > 0 /\ heard[b] < Commit
    THEN pending_pulse_w[b] ELSE 0

Offers == [b \in Battery |-> Offered(b)]
Shown  == [b \in Battery |-> IF last_plug_w[b] = None THEN 0 ELSE last_plug_w[b]]
Mute   == {b \in Battery : SilenceLeft(b) > 0}

\* "Re-dispatching now would double-commit any battery whose own pulse already
\* landed": pulses are queued only where every battery that is not muted is at rest
\* on its target, and each is taken once at most, though it is told PULSE_COUNT
\* times (SettledPulses).
Promise == INSTANCE SettledPulses WITH power <- Shown, offer <- Offers, muted <- Mute

ImplementsPulses == Promise!Spec
=============================================================================
