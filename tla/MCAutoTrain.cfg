SPECIFICATION Spec
CONSTANTS
    IndexBucket <- MCIndexBucket
    ContextBucket <- MCContextBucket
    Strides = {17}
    Hashes = {0, 40}
    Hardware <- MCHardware
    Installed = {"native", "numpy", "torch"}
    Sources <- MCSources
    Requests <- MCRequests
    DirectConfigs <- MCDirectConfigs
    UserPacks = {"mine"}
    Overrides <- MCOverrides
    MaxEdits = 2
    MaxCommands = 2
INVARIANTS BatchFits ChunksCover PlanIsKept NothingLeaks
PROPERTY TrainReturns
CHECK_DEADLOCK FALSE
