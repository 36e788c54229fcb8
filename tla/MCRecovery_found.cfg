CONSTANTS
    orders = orders
    users = users
    Targets <- MCTargets
    NameOf <- MCNameOf
    PurgeAge = 1
    Sizes = {1}
    LocalEnabled = TRUE
    Faults = {}
    MaxClock = 3
    MaxRecords = 4
    Files <- MCFiles
    InitialFiles <- MCInitialFiles
    Flags <- MCFlags
    ScanFails = FALSE
SPECIFICATION RecoverySpec
INVARIANT ListedIsRecovered
CHECK_DEADLOCK FALSE
