--------------------------- MODULE MCPulseDispatch ---------------------------
(***************************************************************************)
(* Small instances of PulseDispatch for TLC.                               *)
(***************************************************************************)
EXTENDS PulseDispatch

OwnCircuit == [b \in Battery |-> b]
=============================================================================
