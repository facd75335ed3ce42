-------------------------- MODULE MCBatteryWriter --------------------------
(* BatteryWriter with powers in steps of 12.5 W, so that the deadband of   *)
(* 25 W is two of them.                                                    *)
EXTENDS BatteryWriter
=============================================================================
