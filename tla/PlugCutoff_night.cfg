SPECIFICATION FairSpec
CONSTANTS
  Battery = {1, 2}
  Circuit = {"kitchen"}
  CircuitOf <- OneCircuit
  Cap <- SmallCap
  Margin = 0
  PlugPower = {0, 3}
  Grace = 1
  SoftGrace = 1
  Recovery = 4
  MaxFor = 2
  CallTimeout = 0
  PollTimeout = 0
  MaxLate = 1
  NightCutoff = TRUE
  NightLength = 2
  Outcomes <- RestoreOk
  PollsMayFail = FALSE
  ResetByHand = {}
  MayRestart = FALSE
  None = None
  Due = Due
INVARIANT
  OpenPlugIsRemembered
PROPERTY
  OpenPlugCloses
