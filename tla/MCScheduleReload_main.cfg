CONSTANTS
    r1 = r1
    r2 = r2
    Schedules = {1, 2}
    Types = {"daily", "hourly"}
    Exprs = {"at night", "at noon", "garbled"}
    ValidExprs = {"at night", "at noon"}
    InitialRows <- MCInitialRows
    Reloaders = {r1, r2}
    Faults = {"db_read", "restart"}
    MaxEdits = 2
SYMMETRY MCSymmetry
SPECIFICATION Spec
INVARIANTS TypeOK NoScheduleLost NoDanglingID EntriesAreTheConfiguration ConfigurationFollowsRows DeletedStaysDeleted
CHECK_DEADLOCK FALSE
