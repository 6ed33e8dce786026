SPECIFICATION Spec
CONSTANTS
    Features = 100
    TrainRecords = 200
    Batches = {2, 4, 8, 16}
    BatchStart = 4
    BatchMin = 2
    BatchMax = 16
    BulkCap = 2
    MinArena = 1024
    ArenaCaps <- MCArenaCaps
    ModelCursor = 7
    MaxRows = 32
    MaxEvals = 5
INVARIANTS CheckpointIsFaithful LearnsInOrder ArenaSuffices
