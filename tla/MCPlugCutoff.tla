---------------------------- MODULE MCPlugCutoff ----------------------------
(***************************************************************************)
(* Small instances of PlugCutoff for TLC.                                  *)
(***************************************************************************)
EXTENDS PlugCutoff

OneCircuit == [b \in Battery |-> "kitchen"]
SmallCap   == [c \in Circuit |-> 1]

AnyOutcome == [kind \in CallKind |-> {"ok", "refused", "lost"}]
AlwaysOk   == [kind \in CallKind |-> {"ok"}]
MayRefuse  == [kind \in CallKind |-> {"ok", "refused"}]

\* Calls are refused, but for the one that the code does not retry.
RestoreOk  == [MayRefuse EXCEPT !["night restore"] = {"ok"}]
=============================================================================
