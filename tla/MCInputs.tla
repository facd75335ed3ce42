------------------------------ MODULE MCInputs ------------------------------
(***************************************************************************)
(* A small instance of Inputs for TLC.                                     *)
(***************************************************************************)
EXTENDS Inputs

Configured(mode, ha, token, entity) ==
    [mode |-> mode, ha_enabled |-> ha, token |-> token, entity |-> entity]

FourConfigs == {
    Configured("modbus", FALSE, FALSE, FALSE), Configured("pulse", FALSE, FALSE, TRUE),
    Configured("pulse", TRUE, TRUE, TRUE),     Configured("pulse", TRUE, FALSE, FALSE)}
=============================================================================
