CONSTANTS
    orders = orders
    Targets <- MCTargets
    NameOf <- MCNameOf
    PurgeAge = 1
    Sizes = {1}
    LocalEnabled = TRUE
    Faults = {"crash", "crash_in_save", "open_error", "write_error", "read_error"}
    MaxClock = 2
    MaxRecords = 2
SPECIFICATION Spec
INVARIANTS TypeOK FileIsCurrent TotalsAgree CompletionIsStamped
PROPERTIES OnlyDeletedVanish RestartRestoresOrWarns
