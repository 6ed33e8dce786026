CONSTANTS
    Calls = {c1, c2}
    Served = {c1}
    Datasets = {d1}
    Names = {n1, n2}
    Lookalikes = {n2}
    Aliased = {d1}
    Legacy <- MCLegacy
SPECIFICATION Spec
INVARIANTS
    RecordsAreBacked
    DiskMatchesRecords
    RepairIsThorough
