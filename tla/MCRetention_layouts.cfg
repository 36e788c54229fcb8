CONSTANTS
    orders = orders
    copy = copy
    cron = cron
    hand = hand
    Targets = {orders, copy}
    NameOf <- MCNameOf
    Types = {"daily", "weekly"}
    TypeOf <- MCTypeOf
    DbOf <- MCDbOf
    Keep <- MCKeep
    Skipped <- MCSkipped
    PurgeAge = 1
    Before <- MCNone
    Legacy = {}
    KeysAlike = {orders, copy}
    Enforcers = {cron}
    Faults = {}
    MaxClock = 4
    MaxRecords = 1
SPECIFICATION Spec
INVARIANTS ExpiredBackupsAreRemoved
CHECK_DEADLOCK FALSE
