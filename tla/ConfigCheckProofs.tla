--------------------------- MODULE ConfigCheckProofs ---------------------------
(***************************************************************************)
(* What validate guarantees of every configuration that passes it, for any *)
(* circuits, batteries and numbers: the bounds of a battery are in order,  *)
(* and a taper acts.                                                       *)
(***************************************************************************)
EXTENDS ConfigCheck, TLAPS

\* The checks read neither the host of the meter nor the access to Home Assistant.
LEMMA ValidateReads ==
    ASSUME NEW a, NEW b,
           a.circuits = b.circuits, a.batteries = b.batteries,
           a.dispatcher = b.dispatcher, a.location = b.location,
           a.virtual_modbus = b.virtual_modbus,
           a.real_shelly.poll_interval_ms = b.real_shelly.poll_interval_ms
    PROVE  validate(a) <=> validate(b)
<1>1. CircuitsOK(a) <=> CircuitsOK(b)
  BY DEF CircuitsOK, Distinct, Items
<1>2. BatteriesOK(a) <=> BatteriesOK(b)
  <2>1. \A x : PowerOK(a, x) <=> PowerOK(b, x)
    BY DEF PowerOK
  <2>2. \A x, socs, watts, max :
            TaperOK(a, x, socs, watts, max) <=> TaperOK(b, x, socs, watts, max)
    BY DEF TaperOK
  <2>3. \A x : BatteryOK(a, x) <=> BatteryOK(b, x)
    BY <2>1, <2>2 DEF BatteryOK
  <2>4. QED
    BY <2>3 DEF BatteriesOK, Distinct, Items
<1>3. DispatcherOK(a) <=> DispatcherOK(b)
  BY DEF DispatcherOK
<1>4. VirtualModbusOK(a) <=> VirtualModbusOK(b)
  BY DEF VirtualModbusOK, effective_virtual_unit_id
<1>5. QED
  BY <1>1, <1>2, <1>3, <1>4 DEF validate

-----------------------------------------------------------------------------
LEMMA Unwrapped ==
    ASSUME NEW option, NEW d
    PROVE  /\ option # {} => unwrap_or(option, d) \in option
           /\ option = {} => unwrap_or(option, d) = d
BY DEF unwrap_or

\* What a configuration that passed says of one of its batteries.
LEMMA CheckedBattery ==
    ASSUME NEW cfg \in Config, validate(cfg), NEW b \in Items(cfg.batteries)
    PROVE  b \in BatteryConfig /\ BatteryOK(cfg, b)
BY DEF validate, BatteriesOK, Config, Items

\* The power of a battery, tapered or not, is between zero and its maximum.
LEMMA TaperedPower ==
    ASSUME NEW cfg \in Config, validate(cfg), NEW b \in Items(cfg.batteries), NEW soc
    PROVE  /\ effective_max_charge_w(b, soc) \in 0..b.max_charge_w
           /\ effective_max_discharge_w(b, soc) \in 0..b.max_discharge_w
<1>1. b \in BatteryConfig /\ BatteryOK(cfg, b)
  BY CheckedBattery
<1>2. /\ b.max_charge_w \in Int /\ b.max_charge_w >= 0
      /\ b.max_discharge_w \in Int /\ b.max_discharge_w >= 0
      /\ b.charge_taper_w \subseteq Int /\ b.discharge_taper_w \subseteq Int
  BY <1>1 DEF BatteryConfig, BatteryOK, PowerOK
<1>3. /\ b.charge_taper_soc_pct = {} <=> b.charge_taper_w = {}
      /\ \A w \in b.charge_taper_w : 0 < w /\ w < b.max_charge_w
      /\ b.discharge_taper_soc_pct = {} <=> b.discharge_taper_w = {}
      /\ \A w \in b.discharge_taper_w : 0 < w /\ w < b.max_discharge_w
  BY <1>1 DEF BatteryOK, TaperOK
<1>4. b.charge_taper_soc_pct # {} =>
          unwrap_or(b.charge_taper_w, b.max_charge_w) \in 0..b.max_charge_w
  BY <1>2, <1>3, Unwrapped
<1>5. b.discharge_taper_soc_pct # {} =>
          unwrap_or(b.discharge_taper_w, b.max_discharge_w) \in 0..b.max_discharge_w
  BY <1>2, <1>3, Unwrapped
<1>6. QED
  BY <1>2, <1>4, <1>5 DEF effective_max_charge_w, effective_max_discharge_w

\* compute_targets_with_grid clamps to the bounds of a battery, and f64::clamp
\* panics where they are out of order: they never are for a battery that was
\* checked, whatever its charge, its own cutoffs and the thresholds of the
\* dispatcher are by then, and one battery alone stays within its circuit.
THEOREM BoundsInOrder ==
    ASSUME NEW cfg \in Config, validate(cfg), NEW b \in Items(cfg.batteries),
           NEW soc, NEW bms, NEW d, NEW locked
    PROVE  /\ low_bound(b, soc, bms, d, locked) <= 0
           /\ 0 <= high_bound(b, soc, bms, d, locked)
           /\ \E c \in Items(cfg.circuits) :
                  /\ c.id = b.circuit
                  /\ -low_bound(b, soc, bms, d, locked) <= cap_w(c)
                  /\ high_bound(b, soc, bms, d, locked) <= cap_w(c)
<1>1. b \in BatteryConfig /\ BatteryOK(cfg, b)
  BY CheckedBattery
<1>2. PICK c \in Items(cfg.circuits) :
          c.id = b.circuit /\ b.max_charge_w <= cap_w(c) /\ b.max_discharge_w <= cap_w(c)
  BY <1>1 DEF BatteryOK, PowerOK
<1>3. c \in CircuitConfig
  BY DEF Items, Config
<1>4. cap_w(c) \in Int
  BY <1>3 DEF cap_w, CircuitConfig
<1>5. /\ effective_max_charge_w(b, soc) \in 0..b.max_charge_w
      /\ effective_max_discharge_w(b, soc) \in 0..b.max_discharge_w
  BY TaperedPower
<1>6. b.max_charge_w \in Int /\ b.max_discharge_w \in Int
  BY <1>1 DEF BatteryConfig
<1>7. /\ low_bound(b, soc, bms, d, locked) \in {0, -effective_max_charge_w(b, soc)}
      /\ high_bound(b, soc, bms, d, locked) \in {0, effective_max_discharge_w(b, soc)}
  BY DEF low_bound, high_bound
<1>8. /\ low_bound(b, soc, bms, d, locked) <= 0
      /\ -low_bound(b, soc, bms, d, locked) <= b.max_charge_w
      /\ 0 <= high_bound(b, soc, bms, d, locked)
      /\ high_bound(b, soc, bms, d, locked) <= b.max_discharge_w
      /\ {low_bound(b, soc, bms, d, locked), high_bound(b, soc, bms, d, locked)} \subseteq Int
  BY <1>5, <1>6, <1>7
<1>9. QED
  BY <1>2, <1>4, <1>6, <1>8

\* "otherwise the taper either shadows the hard gate or never triggers"
\* (validate): where it begins, it reduces the power of its direction, and does
\* not stop it.
THEOREM TaperReduces ==
    ASSUME NEW cfg \in Config, validate(cfg), NEW b \in Items(cfg.batteries)
    PROVE  LET none == [full |-> {}, empty |-> {}]
               d    == cfg.dispatcher
           IN  /\ \A t \in b.charge_taper_soc_pct :
                      LET low == low_bound(b, {t}, none, d, FALSE)
                      IN  -b.max_charge_w < low /\ low < 0
               /\ \A t \in b.discharge_taper_soc_pct :
                      LET high == high_bound(b, {t}, none, d, FALSE)
                      IN  0 < high /\ high < b.max_discharge_w
<1> DEFINE none == [full |-> {}, empty |-> {}]
           d    == cfg.dispatcher
<1>1. b \in BatteryConfig /\ BatteryOK(cfg, b)
  BY CheckedBattery
<1>2. /\ b.max_charge_w \in Int /\ b.max_discharge_w \in Int
      /\ b.charge_taper_w \subseteq Int /\ b.discharge_taper_w \subseteq Int
      /\ b.charge_taper_soc_pct \subseteq Int /\ b.discharge_taper_soc_pct \subseteq Int
  BY <1>1 DEF BatteryConfig
<1>3. /\ effective_soc_full_pct(b, none, d) = unwrap_or(b.soc_full_pct, d.soc_full_pct)
      /\ effective_soc_empty_pct(b, none, d) = unwrap_or(b.soc_empty_pct, d.soc_empty_pct)
  BY DEF effective_soc_full_pct, effective_soc_empty_pct, unwrap_or
<1>4. /\ effective_soc_full_pct(b, none, d) \in Int
      /\ effective_soc_empty_pct(b, none, d) \in Int
  <2>1. d.soc_full_pct \in Int /\ d.soc_empty_pct \in Int
    BY DEF Config, DispatcherConfig
  <2>2. b.soc_full_pct \subseteq Int /\ b.soc_empty_pct \subseteq Int
    BY <1>1 DEF BatteryConfig
  <2>3. QED
    BY <1>3, <2>1, <2>2, Unwrapped
<1>5. ASSUME NEW t \in b.charge_taper_soc_pct
      PROVE  -b.max_charge_w < low_bound(b, {t}, none, d, FALSE)
               /\ low_bound(b, {t}, none, d, FALSE) < 0
  <2>1. t < effective_soc_full_pct(b, none, d)
    BY <1>1, <1>3 DEF BatteryOK, TaperOK
  <2>2. ~(t >= effective_soc_full_pct(b, none, d)) /\ t >= t
    BY <1>2, <1>4, <2>1
  <2>3. low_bound(b, {t}, none, d, FALSE) = -unwrap_or(b.charge_taper_w, b.max_charge_w)
    BY <2>2 DEF low_bound, effective_max_charge_w
  <2>4. b.charge_taper_w # {} /\ \A w \in b.charge_taper_w : 0 < w /\ w < b.max_charge_w
    BY <1>1 DEF BatteryOK, TaperOK
  <2>5. PICK w \in b.charge_taper_w : w = unwrap_or(b.charge_taper_w, b.max_charge_w)
    BY <2>4, Unwrapped
  <2>6. low_bound(b, {t}, none, d, FALSE) = -w /\ w \in Int /\ 0 < w /\ w < b.max_charge_w
    BY <1>2, <2>3, <2>4, <2>5
  <2>7. -b.max_charge_w < -w /\ -w < 0
    BY <1>2, <2>6
  <2>8. QED
    BY <2>6, <2>7
<1>6. ASSUME NEW t \in b.discharge_taper_soc_pct
      PROVE  0 < high_bound(b, {t}, none, d, FALSE)
               /\ high_bound(b, {t}, none, d, FALSE) < b.max_discharge_w
  <2>1. effective_soc_empty_pct(b, none, d) < t
    BY <1>1, <1>3 DEF BatteryOK, TaperOK
  <2>2. ~(t <= effective_soc_empty_pct(b, none, d)) /\ t <= t
    BY <1>2, <1>4, <2>1
  <2>3. high_bound(b, {t}, none, d, FALSE) = unwrap_or(b.discharge_taper_w, b.max_discharge_w)
    BY <2>2 DEF high_bound, effective_max_discharge_w
  <2>4. b.discharge_taper_w # {} /\ \A w \in b.discharge_taper_w : 0 < w /\ w < b.max_discharge_w
    BY <1>1 DEF BatteryOK, TaperOK
  <2>5. unwrap_or(b.discharge_taper_w, b.max_discharge_w) \in b.discharge_taper_w
    BY <2>4, Unwrapped
  <2>6. QED
    BY <1>2, <2>3, <2>4, <2>5
<1>7. QED
  BY <1>5, <1>6

=============================================================================
