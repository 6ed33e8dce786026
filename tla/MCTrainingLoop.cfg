CONSTANTS
    NoFile = NoFile
    Scores <- Accuracies
    Incoming = 2
    MaxSteps = 9
    Interval = 2
    ChunkCap = 3
    RowBudget = 2
    BatchMin = 1
    BatchStart = 2
    BatchMax = 3
    TrainRecords = 16
    MinImprovement = 0
    Margin = 0
    Patience = 2
    StopPatience = 2
    TargetScore = 3
    TargetPatience = 2
    MaxSessions = 2
SPECIFICATION Spec
CHECK_DEADLOCK FALSE
INVARIANTS
    BestIsKept
    GuardsAgree
    PauseContinues
PROPERTY StepsAreBounded
