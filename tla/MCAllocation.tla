----------------------------- MODULE MCAllocation -----------------------------
(***************************************************************************)
(* A small instance of Allocation for TLC.                                 *)
(***************************************************************************)
EXTENDS Allocation

OneCircuit == [b \in Battery |-> "kitchen"]
SomeCap    == [c \in Circuit |-> 6]
Most       == [b \in Battery |-> 4]
Same       == [b \in Battery |-> 1]
Loads      == {-9, 3, 6}
NoLoss     == [b \in Battery |-> 0]
SomeLoss   == [b \in Battery |-> b - 1]
=============================================================================
