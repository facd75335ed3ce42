SPECIFICATION FairSpec
CONSTANTS
    Models <- TwoModels
    Sample <- Registers
    Missing <- Lacking
    Asked <- Requests
    Attempts = 2
    Sends <- Sent
    Tiered = {TRUE, FALSE}
    None = None
INVARIANTS TypeOK
PROPERTIES RangeStaysServed CatchesUp Reconnects
