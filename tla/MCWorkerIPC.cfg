CONSTANTS
    MaxRequests = 4
    MaxSteps = 3
    StepCap = 2
SPECIFICATION FairSpec
CHECK_DEADLOCK FALSE
INVARIANTS
    NothingLeftOver
    StepsAreAccounted
    NoProcessLeft
PROPERTIES
    CallsReturn
    OrphanEnds
