SPECIFICATION Spec
CONSTANTS
    Request = {r1, r2}
    Body <- Bodies
    Whole <- Replacement
    FirstFile <- Files
    Hosts <- Host
    SupervisorToken = "secret"
    SoC <- Charges
    MaxPuts = 3
    MaxFaults = 1
    None = None
    Empty = Empty
    Mixed = Mixed
    r1 = r1
    r2 = r2
SYMMETRY Alike
INVARIANTS
    StoreInv
    SecretNotStored
    RestartLoads
    QuietAgrees
    BoundsFit
    TaperActs
    UnitsServed
PROPERTIES
    ImplementsStore
CHECK_DEADLOCK FALSE
