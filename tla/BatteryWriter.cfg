SPECIFICATION FairSpec
CONSTANTS
    Watts = {4, 5, 6}
    Deadband = 2
    Attempts = 3
    MaxFailures = 3
    ShutdownGrace = 3
    Signals = {"SIGINT"}
    MayOverload = TRUE
    MayRestart = TRUE
    None = None
INVARIANTS WriterInv NeverBothWays 
PROPERTIES FollowsLatest
