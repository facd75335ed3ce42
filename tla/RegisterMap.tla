----------------------------- MODULE RegisterMap -----------------------------
(***************************************************************************)
(* The holding registers of the Marstek models: which are read in which    *)
(* tier, where the SoC and the battery power are, and the probe address    *)
(* that the virtual server answers for a model that lacks it.              *)
(***************************************************************************)
EXTENDS Integers

MarstekModel == {"venus_a", "venus_d", "venus_e_v1_v2", "venus_e_v3"}

soc_register(model) == IF model = "venus_e_v3" THEN 34002 ELSE 32104

battery_power_is_int32(model) == model = "venus_e_v1_v2"

battery_power_register(model) ==
    IF battery_power_is_int32(model) THEN 32102 ELSE 30001

\* The registers that the battery power is put together from.
PowerRegisters(model) ==
    LET first == battery_power_register(model)
    IN  IF battery_power_is_int32(model) THEN first..(first + 1) ELSE {first}

-----------------------------------------------------------------------------
\* What the tables of several models have in common.
Temperatures == 35000..35002
Control      == {35100, 42000, 42010, 42011, 42020, 42021}
Names        == 31000..31009
EnergyTotals == 33000..33011
CellExtremes == {35010, 35011, 37007, 37008}
Schedules    == {43000} \cup 43100..43129
Metadata     == {30200, 30202, 30204} \cup Names \cup 30350..30355 \cup 30304..30309
                    \cup 30300..30303
Limits       == {41100, 41200, 44002, 44003}
Mppt         == 30020..30027 \cup 30037..30040
CellsOf(unit, cells) == LET first == 34018 + 100 * unit IN first..(first + cells - 1)

VENUS_E_V1V2_FAST ==
    32100..32104 \cup 32200..32204 \cup 32300..32303 \cup Temperatures \cup Control
        \cup {36000, 36001} \cup 36100..36103

VENUS_E_V1V2_SLOW ==
    31100..31102 \cup Names \cup 31200..31209 \cup 30800..30805 \cup 30402..30407
        \cup 30300..30303 \cup {32105} \cup EnergyTotals \cup CellExtremes
        \cup {41010, 41100, 41200} \cup Schedules \cup 44000..44003 \cup {44100}

VENUS_E_V3_FAST ==
    {30001, 30006, 30100, 30101, 34002, 32200, 37004, 32204}
        \cup 32300..32302 \cup Temperatures \cup Control

VENUS_E_V3_SLOW ==
    Metadata \cup {32105, 34003} \cup EnergyTotals \cup CellExtremes
        \cup CellsOf(0, 16) \cup Limits \cup Schedules

VENUS_D_FAST ==
    {30001, 30006, 30100, 30101, 32104, 32200, 32204, 37004}
        \cup 32300..32302 \cup Mppt \cup Temperatures \cup Control

VENUS_D_SLOW ==
    Metadata \cup {32105, 34003} \cup EnergyTotals \cup CellExtremes
        \cup CellsOf(0, 13) \cup Limits \cup Schedules

VENUS_A_FAST == VENUS_D_FAST \cup {34002 + 100 * unit : unit \in 0..5}

VENUS_A_SLOW == VENUS_D_SLOW \cup UNION {CellsOf(unit, 13) : unit \in 1..5}

fast_registers(model) ==
    CASE model = "venus_e_v1_v2" -> VENUS_E_V1V2_FAST
      [] model = "venus_e_v3"    -> VENUS_E_V3_FAST
      [] model = "venus_d"       -> VENUS_D_FAST
      [] model = "venus_a"       -> VENUS_A_FAST

slow_registers(model) ==
    CASE model = "venus_e_v1_v2" -> VENUS_E_V1V2_SLOW
      [] model = "venus_e_v3"    -> VENUS_E_V3_SLOW
      [] model = "venus_d"       -> VENUS_D_SLOW
      [] model = "venus_a"       -> VENUS_A_SLOW

-----------------------------------------------------------------------------
\* Mutant: the probe address is looked up as it is.
alias_probe_register_None(model, addr) == addr

\* The connection test of the Home Assistant integration reads 32104 whatever
\* the model.
alias_probe_register(model, addr) ==
    IF model = "venus_e_v3" /\ addr = 32104 THEN 34002 ELSE addr
=============================================================================
