CONSTANTS
    Runs = {r1}
    Calls = {c1, c2}
    Sessions = {s1}
    Tokens = {t1, t2}
    Actions = {"run.start", "run.resume", "run.export", "run.pause", "run.stop"}
    Policies <- MCPolicies
SYMMETRY Symmetry
SPECIFICATION ASpec
CHECK_DEADLOCK FALSE
INVARIANTS
    PaysOnce
    RevokedIsVoid
    SpentIsLogged
    ActsAsApproved
