CONSTANTS
    orders = orders
    copy = copy
    cron = cron
    hand = hand
    Targets = {orders, copy}
    NameOf <- MCNameOf
    Types = {"daily", "weekly"}
    TypeOf <- MCTypeOf
    DbOf <- MCDbOf
    Keep <- MCKeep
    Skipped <- MCSkipped
    PurgeAge = 2
    Before <- MCBefore
    Legacy = {orders}
    KeysAlike = {orders, copy}
    Enforcers = {cron, hand}
    Faults = {"list", "remove", "crash"}
    MaxClock = 3
    MaxRecords = 3
SPECIFICATION Spec
SYMMETRY Symmetry
INVARIANTS TypeOK ActiveMeansStored MarkedWasRemoved FlatLayoutIsEnforced
CHECK_DEADLOCK FALSE
