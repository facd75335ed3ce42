SPECIFICATION Spec
CONSTANTS
    Battery = {1}
    Configs <- FourConfigs
    Interval = 1
    Timeout = 1
    GridStale = 2
    CycleTime = 1
    Silence = 3
    MaxDelay = 3
    None = None
INVARIANTS TypeOK OneSource
PROPERTIES ActsOnRecent
