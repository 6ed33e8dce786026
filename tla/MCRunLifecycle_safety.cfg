CONSTANTS
    r1 = r1
    r2 = r2
    Runs <- TwoRuns
    Rank <- TwoRank
    Need <- FittingNeed
SPECIFICATION Spec
INVARIANTS
    TypeOK
    RecordMatchesThread
PROPERTIES
    ReleasedBeforeFinal
    DrainIsHonoured
    ImplementsProtocol
