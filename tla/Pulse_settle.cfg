SPECIFICATION FairSpec
CONSTANTS
    Battery = {1}
    Circuit = {1}
    CircuitOf <- OwnCircuit
    MaxPower = 2
    PulseCount = 3
    Commit = 2
    Stable = 2
    Settle = 5
    Silence = 6
    Lockout = 2
    PlugStale = 1
    WatchdogBy = 3
    Full = {}
    Empty = {}
    Dark = {}
    None = None
INVARIANTS
    PulseInv
PROPERTIES
    ImplementsPulses
    LockMeansRefusal
    GateReopens
