-------------------------------- MODULE Inputs --------------------------------
(***************************************************************************)
(* Where the dispatcher's readings come from, and what becomes of old      *)
(* ones: the poll of the grid meter over UDP, the freshness of plugs and   *)
(* grid, what a cycle sends to the mailboxes of the writers, and the three *)
(* tasks that may read the SoC.  A task takes the configuration as it is   *)
(* when it starts; the dispatcher takes it anew in every cycle.            *)
(*                                                                         *)
(* Time passes in ticks, which no work that is due may miss.  Measurements *)
(* are abstracted to their age.                                            *)
(***************************************************************************)
EXTENDS Integers, FiniteSets

CONSTANTS
    Battery,      \* each on a circuit of its own, with modbus_host
    Configs,      \* the configurations, at the start and of a PUT
    Interval,     \* poll_interval_ms of the meter
    Timeout,      \* request_timeout_ms
    GridStale,    \* grid_stale_s
    CycleTime,    \* cycle_ms
    Silence,      \* GROUP_SILENT_AFTER_STALE_S
    MaxDelay,     \* a datagram is lost after that time
    None

ASSUME InputConstantsOK ==
    /\ IsFiniteSet(Battery)
    /\ Configs \subseteq [mode : {"modbus", "pulse"}, ha_enabled : BOOLEAN,
                          token : BOOLEAN, entity : BOOLEAN]
    /\ {Interval, CycleTime, Silence} \subseteq Nat \ {0}
    /\ {Timeout, GridStale, MaxDelay} \subseteq Nat
    /\ None \notin Nat

VARIABLES
    cfg,          \* what is configured now
    writers,      \* are there writers? main spawns them, or not, at the start
    task,         \* the two other readers of the SoC
    hasty, remoded, \* was cfg swapped while these started? was its mode changed?
    soc,          \* soc_source: the reader of the last SoC
    poll,         \* the poller of the meter: asleep or waiting, and for how long
    replies,      \* of the meter, on their way
    snapshot,     \* the last grid reading: ages of its stamp and of the measurement
    cycle_in,     \* time to the next cycle
    stale_plug, cut, \* batteries whose plug is silent, whose relay is cut
    silent,       \* silent_until of their circuits, as time to go
    command       \* the mailboxes: None (Standby), or the age of what it is based on

config   == <<cfg, writers, task, hasty, remoded>>
meter    == <<poll, replies, snapshot>>
plugs    == <<stale_plug, cut>>
dispatch == <<cycle_in, silent, command>>
vars     == <<config, soc, meter, plugs, dispatch>>

Reader == {"ha", "modbus"}

\* Ages are counted up to this one.
Oldest == GridStale + Timeout + 1
Older(age) == IF age \in {None, Oldest} THEN age ELSE age + 1

Init ==
    /\ cfg \in Configs /\ writers = (cfg.mode = "modbus")
    /\ task = [r \in Reader |-> "starting"] /\ hasty = FALSE /\ remoded = FALSE
    /\ soc = None
    /\ poll = [pc |-> "asleep", for |-> 0] /\ replies = {}
    /\ snapshot = [stamp |-> None, taken |-> None]
    /\ cycle_in = 0 /\ stale_plug = Battery /\ cut = {}
    /\ silent = [b \in Battery |-> 0] /\ command = [b \in Battery |-> None]

-----------------------------------------------------------------------------
(***************************************************************************)
(* The readers of the SoC.                                                 *)
(***************************************************************************)
\* Mutant: the poller does not ask who else reads the SoC.
Polls_Always(reader) ==
    IF reader = "ha" THEN cfg.ha_enabled /\ cfg.token /\ cfg.entity ELSE TRUE

\* Does the task poll, or idle for good?
Polls(reader) ==
    /\ cfg.mode = "pulse"
    /\ IF reader = "ha" THEN cfg.ha_enabled /\ cfg.token /\ cfg.entity ELSE ~cfg.ha_enabled

Start(reader) ==
    /\ task[reader] = "starting"
    /\ task' = [task EXCEPT ![reader] = IF Polls(reader) THEN "polling" ELSE "idle"]
    /\ UNCHANGED <<cfg, writers, hasty, remoded, soc, meter, plugs, dispatch>>

\* An error leaves the last SoC as it is, and has no time limit.
ReadSoc(reader) ==
    /\ IF reader = "writers" THEN writers ELSE task[reader] = "polling"
    /\ soc' = reader
    /\ UNCHANGED <<config, meter, plugs, dispatch>>

\* A PUT, with refresh_activity: a battery without a source has no SoC.
Active(c) == c.ha_enabled => c.entity

Swap(new) ==
    /\ new # cfg /\ cfg' = new
    /\ remoded' = (remoded \/ new.mode # cfg.mode)
    /\ hasty' = (hasty \/ \E r \in Reader : task[r] = "starting")
    /\ soc' = IF Active(new) THEN soc ELSE None
    /\ UNCHANGED <<writers, task, meter, plugs, dispatch>>

-----------------------------------------------------------------------------
(***************************************************************************)
(* The poller of the meter.                                                *)
(***************************************************************************)
\* The replies to earlier requests have another id from now on.
Request ==
    /\ poll = [pc |-> "asleep", for |-> Interval]
    /\ poll' = [pc |-> "waiting", for |-> 0]
    /\ replies' = {[rep EXCEPT !.matches = FALSE] : rep \in replies}
    /\ UNCHANGED <<config, soc, snapshot, plugs, dispatch>>

\* The meter measures and answers.
Answer ==
    /\ poll.pc = "waiting"
    /\ replies' = replies \cup {[matches |-> TRUE, taken |-> 0]}
    /\ UNCHANGED <<config, soc, poll, snapshot, plugs, dispatch>>

\* Mutant: any reply is taken for that to the last request.
Matches_Any(rep) == TRUE

Matches(rep) == rep.matches

\* poll_once passes over what is not for it; an error ends it without a reading.
Receive(rep) ==
    /\ poll.pc = "waiting" /\ rep \in replies
    /\ replies' = replies \ {rep}
    /\ IF Matches(rep)
       THEN /\ poll' = [pc |-> "asleep", for |-> 0]
            /\ snapshot' \in {snapshot, [stamp |-> 0, taken |-> rep.taken]}
       ELSE UNCHANGED <<poll, snapshot>>
    /\ UNCHANGED <<config, soc, plugs, dispatch>>

TimedOut ==
    /\ poll = [pc |-> "waiting", for |-> Timeout]
    /\ poll' = [pc |-> "asleep", for |-> 0]
    /\ UNCHANGED <<config, soc, replies, snapshot, plugs, dispatch>>

Lose(rep) ==
    /\ rep \in replies /\ replies' = replies \ {rep}
    /\ UNCHANGED <<config, soc, poll, snapshot, plugs, dispatch>>

-----------------------------------------------------------------------------
(***************************************************************************)
(* A cycle of the dispatcher.                                              *)
(***************************************************************************)
GridFresh == snapshot.stamp # None /\ snapshot.stamp <= GridStale

\* update_circuit_mute: the silence of the Modbus mode has no length.
Cooldown == IF cfg.mode = "pulse" THEN Silence ELSE 0

\* Mutant: every cycle that needs it makes the silence longer.
Muted_Adds(b) ==
    IF b \in stale_plug \/ ~GridFresh THEN silent[b] + Cooldown ELSE silent[b]

Muted(b) ==
    IF (b \in stale_plug \/ ~GridFresh) /\ silent[b] < Cooldown THEN Cooldown ELSE silent[b]

\* step_modbus; what the targets are is in Allocation.
StepModbus ==
    IF GridFresh
    THEN \E forced \in SUBSET Battery :
             command' = [b \in Battery |->
                            IF b \in cut \/ Muted(b) > 0 THEN command[b]
                            ELSE IF b \in forced THEN snapshot.taken ELSE None]
    ELSE command' = [b \in Battery |-> None]

Cycle ==
    /\ cycle_in = 0 /\ cycle_in' = CycleTime
    /\ silent' = [b \in Battery |-> Muted(b)]
    /\ IF cfg.mode = "modbus" /\ writers THEN StepModbus ELSE UNCHANGED command
    /\ UNCHANGED <<config, soc, meter, plugs>>

-----------------------------------------------------------------------------
(***************************************************************************)
(* Around it.                                                              *)
(***************************************************************************)
\* The plug poller and the plug cutoffs (PlugCutoff).
PlugSpeaks(b) ==
    /\ stale_plug' \in {stale_plug \cup {b}, stale_plug \ {b}}
    /\ UNCHANGED <<config, soc, meter, cut, dispatch>>

Relay(b) ==
    /\ cut' \in {cut \cup {b}, cut \ {b}}
    /\ UNCHANGED <<config, soc, meter, stale_plug, dispatch>>

Tick ==
    /\ cycle_in > 0
    /\ poll.for < IF poll.pc = "asleep" THEN Interval ELSE Timeout
    /\ cycle_in' = cycle_in - 1
    /\ poll' = [poll EXCEPT !.for = @ + 1]
    /\ replies' = {[rep EXCEPT !.taken = @ + 1] : rep \in {q \in replies : q.taken < MaxDelay}}
    /\ snapshot' = [stamp |-> Older(snapshot.stamp), taken |-> Older(snapshot.taken)]
    /\ silent' = [b \in Battery |-> IF silent[b] = 0 THEN 0 ELSE silent[b] - 1]
    /\ command' = [b \in Battery |-> Older(command[b])]
    /\ UNCHANGED <<config, soc, plugs>>

Next ==
    \/ \E r \in Reader : Start(r)
    \/ \E r \in Reader \cup {"writers"} : ReadSoc(r)
    \/ \E new \in Configs : Swap(new)
    \/ Request \/ Answer \/ TimedOut
    \/ \E rep \in replies : Receive(rep) \/ Lose(rep)
    \/ Cycle \/ Tick
    \/ \E b \in Battery : PlugSpeaks(b) \/ Relay(b)

Spec == Init /\ [][Next]_vars

-----------------------------------------------------------------------------
(***************************************************************************)
(* Properties.                                                             *)
(***************************************************************************)
Age == 0..Oldest \cup {None}

TypeOK ==
    /\ cfg \in Configs /\ {writers, hasty, remoded} \subseteq BOOLEAN
    /\ task \in [Reader -> {"starting", "idle", "polling"}]
    /\ soc \in Reader \cup {"writers", None}
    /\ poll \in [pc: {"asleep"}, for: 0..Interval] \cup [pc: {"waiting"}, for: 0..Timeout]
    /\ replies \subseteq [matches : BOOLEAN, taken : 0..MaxDelay]
    /\ snapshot \in [stamp: Age, taken: Age]
    /\ cycle_in \in 0..CycleTime /\ stale_plug \cup cut \subseteq Battery
    /\ silent \in [Battery -> 0..Silence] /\ command \in [Battery -> Age]
    /\ ~writers => command = [b \in Battery |-> None]

\* "Grid stale -> command every battery to standby so they don't keep churning on
\* a stale assumption": where the mode is not changed while the process runs, no
\* cycle leaves a writer with a setpoint that rests on an older measurement than
\* the staleness and the timeout of a poll allow, however the replies of the meter
\* are delayed, lost or reordered.  A battery whose relay is cut is passed over.
ActsOnRecent ==
    [][Cycle /\ ~remoded =>
           \A b \in Battery \ cut : command'[b] # None => command'[b] <= GridStale + Timeout]_vars

\* "two SoC sources writing to the same field race each other", and a battery has
\* one Modbus slot: at most one task reads the SoC, unless the configuration was
\* swapped before both had started.
Reading == {r \in Reader : task[r] = "polling"} \cup {w \in {"writers"} : writers}

OneSource == ~hasty => \A r1, r2 \in Reading : r1 = r2
=============================================================================
