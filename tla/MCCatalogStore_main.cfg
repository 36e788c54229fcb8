CONSTANTS
    orders = orders
    Targets <- MCTargets
    NameOf <- MCNameOf
    PurgeAge = 1
    Sizes = {1}
    LocalEnabled = TRUE
    LegacyFiles <- MCLegacyFiles
    Faults = {"crash", "connect_error", "statement_error"}
    MaxAttempts = 2
    MaxClock = 3
SPECIFICATION Spec
INVARIANTS TypeOK TotalsLagByDeletions ChildrenFollowRows
PROPERTIES ImplementsCatalog MigrationKeepsHistory
CHECK_DEADLOCK FALSE
