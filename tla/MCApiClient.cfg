CONSTANTS
    t1 = t1
    t2 = t2
    k1 = k1
    k2 = k2
    Threads = {t1, t2}
    DaemonClients = {k1, k2}
    Retries = 1
    Ttl = 2
    Margin = 1
    Window = 2
    Maximum = 2
    MaxCalls = 1
    MaxTime = 2
    MaxSessions = 4
    MaxFaults = 1
SPECIFICATION Spec
INVARIANTS AnswerIsTrue SessionIsRenewed
SYMMETRY Symmetry
CHECK_DEADLOCK FALSE
