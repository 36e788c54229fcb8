CONSTANTS
    orders = orders
    users = users
    Targets <- MCTargets
    NameOf <- MCNameOf
    PurgeAge = 1
    Sizes = {1}
    LocalEnabled = TRUE
    Faults = {"crash", "crash_in_save", "open_error", "write_error", "read_error"}
    MaxClock = 3
    MaxRecords = 4
    Files <- MCFiles
    InitialFiles <- MCInitialFiles
    Flags <- MCFlags
    ScanFails = TRUE
SPECIFICATION RecoverySpec
INVARIANTS ExistingRecordsKept SuccessStandsForAFile
CHECK_DEADLOCK FALSE
