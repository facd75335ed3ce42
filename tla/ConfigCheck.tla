----------------------------- MODULE ConfigCheck -----------------------------
(***************************************************************************)
(* What a configuration has to satisfy before it runs (Config::validate of *)
(* config.rs), and what the dispatcher may then ask of a battery: the      *)
(* cutoffs, the tapers and the bounds (state.rs, dispatcher.rs).           *)
(*                                                                         *)
(* A configuration is a record with one field per section of the file.     *)
(* Circuits and batteries are sequences, in the order of the file.  An     *)
(* optional field is a set with at most one element.  Numbers are          *)
(* integers.                                                               *)
(***************************************************************************)
EXTENDS Integers, Sequences, FiniteSets

Blank == ""  \* a string of nothing but blanks

unwrap_or(option, d) == IF option = {} THEN d ELSE CHOOSE x \in option : TRUE
Items(seq)           == {seq[i] : i \in DOMAIN seq}
Distinct(seq, Op(_)) == \A i, j \in DOMAIN seq : i # j => Op(seq[i]) # Op(seq[j])
Percent              == 0..100

-----------------------------------------------------------------------------
(***************************************************************************)
(* The sections, and what the parser makes of each field.                  *)
(***************************************************************************)
CircuitConfig == [id: STRING, fuse_amps: Int, voltage: Int, phases: Nat]

BatteryConfig ==
    [id: STRING, address: STRING, circuit: STRING, plug_url: STRING,
     max_charge_w: Int, max_discharge_w: Int, priority_weight: Int,
     modbus_host: SUBSET STRING, modbus_port: Nat, modbus_unit_id: Nat,
     virtual_unit_id: SUBSET (0..255), soc_interval_ms: Nat,
     soc_entity_id: SUBSET STRING,
     soc_full_pct: SUBSET Int, soc_empty_pct: SUBSET Int,
     charge_taper_soc_pct: SUBSET Int, charge_taper_w: SUBSET Int,
     discharge_taper_soc_pct: SUBSET Int, discharge_taper_w: SUBSET Int]

DispatcherConfig ==
    [mode: {"modbus", "pulse"}, cycle_ms: Nat, rate_limit_w_per_cycle: Int,
     soc_full_pct: Int, soc_empty_pct: Int, plug_stale_s: Int, grid_stale_s: Int,
     settle_timeout_s: Int, emergency_cutoff_margin_w: Int,
     night_cutoff_enabled: BOOLEAN]

VirtualModbusConfig ==
    [enabled: BOOLEAN, bind_address: STRING, bulk_refresh_ms: Nat, slow_refresh_ms: Nat]

Config ==
    [real_shelly: [host: STRING, poll_interval_ms: Nat],
     virtual_modbus: VirtualModbusConfig,
     dispatcher: DispatcherConfig,
     home_assistant: [enabled: BOOLEAN, token: STRING],
     location: [latitude: SUBSET Int, longitude: SUBSET Int],
     circuits: Seq(CircuitConfig),
     batteries: Seq(BatteryConfig)]

-----------------------------------------------------------------------------
(***************************************************************************)
(* The checks.                                                             *)
(***************************************************************************)
cap_w(c) == c.fuse_amps * c.voltage * c.phases

IdOf(item)      == item.id
AddressOf(item) == item.address

CircuitsOK(cfg) ==
    /\ Distinct(cfg.circuits, IdOf)
    /\ \A c \in Items(cfg.circuits) : c.phases \in {1, 3} /\ c.fuse_amps > 0

\* Mutant: the power of a battery may be of either sign.
PowerOK_Signed(cfg, b) ==
    \E c \in Items(cfg.circuits) :
        c.id = b.circuit /\ b.max_charge_w <= cap_w(c) /\ b.max_discharge_w <= cap_w(c)

PowerOK(cfg, b) ==
    /\ b.circuit # Blank
    /\ \E c \in Items(cfg.circuits) :
           c.id = b.circuit /\ b.max_charge_w <= cap_w(c) /\ b.max_discharge_w <= cap_w(c)
    /\ b.max_charge_w >= 0 /\ b.max_discharge_w >= 0
    /\ b.priority_weight > 0

OverridesOK(b) ==
    /\ b.soc_full_pct \subseteq Percent /\ b.soc_empty_pct \subseteq Percent
    /\ \A full \in b.soc_full_pct, empty \in b.soc_empty_pct : empty < full

\* A taper in either direction: its charge, its power, and the power it reduces.
\* Mutant: the taper may begin at a cutoff.
TaperOK_AtCutoff(cfg, b, socs, watts, max) ==
    LET full  == unwrap_or(b.soc_full_pct, cfg.dispatcher.soc_full_pct)
        empty == unwrap_or(b.soc_empty_pct, cfg.dispatcher.soc_empty_pct)
    IN  /\ socs = {} <=> watts = {}
        /\ socs \subseteq Percent
        /\ \A w \in watts : 0 < w /\ w < max
        /\ \A soc \in socs : empty <= soc /\ soc <= full

TaperOK(cfg, b, socs, watts, max) ==
    LET full  == unwrap_or(b.soc_full_pct, cfg.dispatcher.soc_full_pct)
        empty == unwrap_or(b.soc_empty_pct, cfg.dispatcher.soc_empty_pct)
    IN  /\ socs = {} <=> watts = {}
        /\ socs \subseteq Percent
        /\ \A w \in watts : 0 < w /\ w < max
        /\ \A soc \in socs : empty < soc /\ soc < full

ConnectionOK(b) ==
    /\ b.plug_url # Blank
    /\ b.modbus_port > 0 /\ b.modbus_unit_id > 0 /\ b.soc_interval_ms > 0

BatteryOK(cfg, b) ==
    /\ PowerOK(cfg, b)
    /\ OverridesOK(b)
    /\ TaperOK(cfg, b, b.charge_taper_soc_pct, b.charge_taper_w, b.max_charge_w)
    /\ TaperOK(cfg, b, b.discharge_taper_soc_pct, b.discharge_taper_w, b.max_discharge_w)
    /\ ConnectionOK(b)

BatteriesOK(cfg) ==
    /\ Distinct(cfg.batteries, IdOf) /\ Distinct(cfg.batteries, AddressOf)
    /\ \A b \in Items(cfg.batteries) : BatteryOK(cfg, b)

DispatcherOK(cfg) ==
    LET d == cfg.dispatcher
    IN  /\ d.cycle_ms > 0 /\ d.rate_limit_w_per_cycle > 0
        /\ d.plug_stale_s >= 0 /\ d.grid_stale_s >= 0 /\ d.settle_timeout_s >= 0
        /\ d.emergency_cutoff_margin_w >= 0
        /\ d.night_cutoff_enabled =>
               \E lat \in cfg.location.latitude, lon \in cfg.location.longitude :
                   lat \in -90..90 /\ lon \in -180..180
        /\ d.soc_full_pct \in Percent /\ d.soc_empty_pct \in Percent
        /\ d.soc_empty_pct < d.soc_full_pct

\* Which unit of the virtual Modbus server the i-th battery is.
effective_virtual_unit_id(cfg, i) ==
    unwrap_or(cfg.batteries[i].virtual_unit_id, IF i < 247 THEN i ELSE 247)

\* Mutant: the explicit units and those by position are two namespaces.
VirtualModbusOK_ExplicitOnly(cfg) ==
    cfg.virtual_modbus.enabled =>
        /\ cfg.virtual_modbus.bulk_refresh_ms > 0 /\ cfg.virtual_modbus.slow_refresh_ms > 0
        /\ cfg.virtual_modbus.bind_address # Blank
        /\ \A i, j \in DOMAIN cfg.batteries : i # j =>
               cfg.batteries[i].virtual_unit_id \cap cfg.batteries[j].virtual_unit_id = {}

VirtualModbusOK(cfg) ==
    cfg.virtual_modbus.enabled =>
        /\ cfg.virtual_modbus.bulk_refresh_ms > 0 /\ cfg.virtual_modbus.slow_refresh_ms > 0
        /\ cfg.virtual_modbus.bind_address # Blank
        /\ \A i \in DOMAIN cfg.batteries : effective_virtual_unit_id(cfg, i) # 0
        /\ \A i, j \in DOMAIN cfg.batteries :
               i # j => effective_virtual_unit_id(cfg, i) # effective_virtual_unit_id(cfg, j)

validate(cfg) ==
    /\ CircuitsOK(cfg) /\ BatteriesOK(cfg) /\ DispatcherOK(cfg)
    /\ cfg.real_shelly.poll_interval_ms > 0
    /\ VirtualModbusOK(cfg)

-----------------------------------------------------------------------------
(***************************************************************************)
(* A battery while the process runs.  What AppState took from the          *)
(* configuration it was built from is frozen; soc and the cutoffs of the   *)
(* battery's own management, bms, are read from the battery.               *)
(***************************************************************************)
has_soc_source(b, ha_enabled) ==
    IF ha_enabled THEN b.soc_entity_id \ {Blank} # {} ELSE b.modbus_host # {}

\* The user's cutoff comes before the battery's own, that before the default.
effective_soc_full_pct(b, bms, d) ==
    unwrap_or(b.soc_full_pct, unwrap_or(bms.full, d.soc_full_pct))

effective_soc_empty_pct(b, bms, d) ==
    unwrap_or(b.soc_empty_pct, unwrap_or(bms.empty, d.soc_empty_pct))

effective_max_charge_w(b, soc) ==
    IF \E s \in soc, t \in b.charge_taper_soc_pct : s >= t
    THEN unwrap_or(b.charge_taper_w, b.max_charge_w) ELSE b.max_charge_w

effective_max_discharge_w(b, soc) ==
    IF \E s \in soc, t \in b.discharge_taper_soc_pct : s <= t
    THEN unwrap_or(b.discharge_taper_w, b.max_discharge_w) ELSE b.max_discharge_w

\* The bounds; a direction is locked for a while after a pulse was refused.
high_bound(b, soc, bms, d, locked) ==
    IF locked \/ \E s \in soc : s <= effective_soc_empty_pct(b, bms, d)
    THEN 0 ELSE effective_max_discharge_w(b, soc)

low_bound(b, soc, bms, d, locked) ==
    IF locked \/ \E s \in soc : s >= effective_soc_full_pct(b, bms, d)
    THEN 0 ELSE -effective_max_charge_w(b, soc)

Option(S) == {{}} \cup {{x} : x \in S}

=============================================================================
