CONSTANTS
    r1 = r1
    r2 = r2
    Runs <- TwoRuns
    Rank <- TwoRank
    Need <- CollidingNeed
SPECIFICATION FairSpec
INVARIANT
    CapacityBound
PROPERTIES
    DrainEnds
    FirstInLineIsServed
