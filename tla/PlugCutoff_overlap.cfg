SPECIFICATION FairSpec
CONSTANTS
  Battery = {1, 2}
  Circuit = {"kitchen"}
  CircuitOf <- OneCircuit
  Cap <- SmallCap
  Margin = 1
  PlugPower = {0, 3}
  Grace = 1
  SoftGrace = 1
  Recovery = 4
  MaxFor = 2
  CallTimeout = 1
  PollTimeout = 0
  MaxLate = 1
  NightCutoff = FALSE
  NightLength = 0
  Outcomes <- AlwaysOk
  PollsMayFail = FALSE
  ResetByHand = {}
  MayRestart = FALSE
  None = None
  Due = Due
PROPERTY
  OpenPlugCloses
