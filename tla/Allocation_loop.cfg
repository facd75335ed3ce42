SPECIFICATION FairSpec
CONSTANTS
    Battery = {1, 2}
    Circuit = {"kitchen"}
    CircuitOf <- OneCircuit
    Cap <- SomeCap
    MaxPower <- Most
    Priority <- Same
    Capacity <- Same
    Loss <- SomeLoss
    MaxOverhead = 1
    Full = 2
    MinPower = 2
    SafetyMargin = 1
    RateLimit = 3
    Load <- Loads
    MayRun = {1}
    MayBeCut = {2}
INVARIANTS
    LoopInv
    TargetsFit
PROPERTIES
    
    
    OpposingEnds
    OverCapEnds
