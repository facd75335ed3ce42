SPECIFICATION Spec
CONSTANTS
    Battery = {1, 2}
    Circuit = {1, 2}
    CircuitOf <- OwnCircuit
    MaxPower = 1
    PulseCount = 2
    Commit = 2
    Stable = 2
    Settle = 3
    Silence = 6
    Lockout = 1
    PlugStale = 1
    WatchdogBy = 4
    Full = {1}
    Empty = {2}
    Dark = {}
    None = None
PROPERTIES
    SilenceKept
    MutedIsCleared
