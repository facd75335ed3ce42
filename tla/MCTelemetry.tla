----------------------------- MODULE MCTelemetry -----------------------------
(***************************************************************************)
(* A small instance of Telemetry for TLC: of each table a few registers,   *)
(* among them those of the SoC and of the power; the firmware of a V3      *)
(* lacks one of its table.                                                 *)
(***************************************************************************)
EXTENDS Telemetry

TwoModels == {"venus_e_v1_v2", "venus_e_v3"}
Registers == {30001, 32102, 32103, 32104, 34002, 30006, 31000}
Lacking   == {{30006}}
Sent      == [cache \in BOOLEAN |-> {"differs"} \cup (IF cache THEN {} ELSE {"same"})]
Requests  == {<<32102, 3>>, <<32104, 1>>, <<31000, 1>>}
=============================================================================
