---------------------------- MODULE MCConfigStore ----------------------------
(***************************************************************************)
(* A small instance of ConfigStore for TLC: two batteries on a circuit,    *)
(* and for each section a few values, some of which are accepted only next *)
(* to some values of the others.                                           *)
(***************************************************************************)
EXTENDS ConfigStore, TLC

Kitchen(amps) == [id |-> "kitchen", fuse_amps |-> amps, voltage |-> 10, phases |-> 1]

Venus(id) ==
    [id |-> id, address |-> id, circuit |-> "kitchen", plug_url |-> "plug",
     max_charge_w |-> 20, max_discharge_w |-> 10, priority_weight |-> 1,
     modbus_host |-> {"bridge"}, modbus_port |-> 502, modbus_unit_id |-> 1,
     virtual_unit_id |-> {}, soc_interval_ms |-> 1000, soc_entity_id |-> {},
     soc_full_pct |-> {}, soc_empty_pct |-> {},
     charge_taper_soc_pct |-> {}, charge_taper_w |-> {},
     discharge_taper_soc_pct |-> {}, discharge_taper_w |-> {}]

Tapered  == [Venus("b1") EXCEPT !.charge_taper_soc_pct = {60}, !.charge_taper_w = {5},
                                !.discharge_taper_soc_pct = {60}, !.discharge_taper_w = {5}]
Reserved == [Tapered EXCEPT !.soc_full_pct = {60}, !.soc_empty_pct = {10},
                            !.charge_taper_soc_pct = {30}, !.discharge_taper_soc_pct = {30}]
Second   == [Venus("b2") EXCEPT !.virtual_unit_id = {1}]
Backward == [Venus("b1") EXCEPT !.max_discharge_w = -5]

Dispatcher(full, empty) ==
    [mode |-> "modbus", cycle_ms |-> 200, rate_limit_w_per_cycle |-> 500,
     soc_full_pct |-> full, soc_empty_pct |-> empty, plug_stale_s |-> 5,
     grid_stale_s |-> 5, settle_timeout_s |-> 10, emergency_cutoff_margin_w |-> 500,
     night_cutoff_enabled |-> FALSE]

Server(on) == [enabled |-> on, bind_address |-> "0.0.0.0:1502",
               bulk_refresh_ms |-> 5000, slow_refresh_ms |-> 60000]

Standard ==
    [real_shelly    |-> [host |-> "meter", poll_interval_ms |-> 1000],
     virtual_modbus |-> Server(TRUE),
     dispatcher     |-> Dispatcher(90, 10),
     home_assistant |-> [enabled |-> FALSE, token |-> ""],
     location       |-> [latitude |-> {}, longitude |-> {}],
     circuits       |-> <<Kitchen(2)>>,
     batteries      |-> <<Venus("b1"), Venus("b2")>>]

Bodies ==
    [virtual_modbus |-> {Server(TRUE)},
     dispatcher     |-> {Dispatcher(90, 60), Dispatcher(60, 10)},
     home_assistant |-> {[enabled |-> TRUE, token |-> ""]},
     circuits       |-> {<<Kitchen(1)>>},
     batteries      |-> {<<Tapered, Venus("b2")>>, <<Reserved>>, <<Backward>>}]

Files == {Standard,
          [Standard EXCEPT !.home_assistant.token = "own", !.real_shelly.host = "other"],
          [Standard EXCEPT !.virtual_modbus.enabled = FALSE, !.batteries = <<Tapered, Second>>]}

Replacement == {[Standard EXCEPT !.real_shelly.host = "third", !.batteries = <<Second>>]}

Host    == {"meter"}
Charges == {30, 60}

\* The requests are alike.
Alike == Permutations(Request)
=============================================================================
