SPECIFICATION FairSpec
CONSTANTS
    Battery = {1}
    Circuit = {"kitchen"}
    CircuitOf <- OneCircuit
    Cap <- SomeCap
    MaxPower <- Most
    Priority <- Same
    Capacity <- Same
    Loss <- NoLoss
    MaxOverhead = 3
    Full = 2
    MinPower = 1
    SafetyMargin = 1
    RateLimit = 3
    Load <- Loads
    MayRun = {1}
    MayBeCut = {}
PROPERTIES
    GridIsMet
