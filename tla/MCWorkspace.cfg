SPECIFICATION Spec
CONSTANTS
    p1 = p1
    p2 = p2
    p3 = p3
    Procs <- ThreeProcs
    MaxStarts = 5
SYMMETRY Interchangeable
INVARIANTS OneRuntime DaemonIsRegistered SecretIsShared
CHECK_DEADLOCK FALSE
