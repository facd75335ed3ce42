SPECIFICATION Spec
CONSTANTS
  Battery = {1}
  Circuit = {"kitchen"}
  CircuitOf <- OneCircuit
  Cap <- SmallCap
  Margin = 1
  PlugPower = {0, 3}
  Grace = 1
  SoftGrace = 2
  Recovery = 6
  MaxFor = 3
  CallTimeout = 1
  PollTimeout = 1
  MaxLate = 1
  NightCutoff = TRUE
  NightLength = 2
  Outcomes <- AnyOutcome
  PollsMayFail = TRUE
  ResetByHand = {1}
  MayRestart = TRUE
  None = None
  Due = Due
INVARIANTS
  IInv
  CutFlagsAgree
PROPERTIES
  TripOnlyAfterSustainedOverload
  RunningCutNotExtended
