SPECIFICATION Spec
CONSTANTS
    IndexBucket <- MCIndexBucket
    ContextBucket <- MCContextBucket
    Strides = {17}
    Hashes = {0, 40}
    Hardware <- MCHardware
    Installed = {"native", "numpy", "torch"}
    Sources <- MCSources
    Requests <- MCRequests
    DirectConfigs <- MCDirectConfigs
    UserPacks = {"mine"}
    Overrides <- MCOverrides
    MaxEdits = 2
    MaxCommands = 2
INVARIANT HeldOutIsUnseen
CHECK_DEADLOCK FALSE
