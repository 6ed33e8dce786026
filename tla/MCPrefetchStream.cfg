CONSTANTS
    TrainRows = 5
    Batches = {1, 4}
    Prefetches = {0, 1, 2}
    ChunkLimit = 3
    MaxRows = 9
    Broken = Broken
SPECIFICATION FairStreamSpec
CHECK_DEADLOCK FALSE
INVARIANTS
    RowsInOrder
PROPERTIES
    BatchArrives
    ReaderStops
