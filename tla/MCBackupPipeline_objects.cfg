CONSTANTS
    orders = orders
    users = users
    events = events
    cron1 = cron1
    hand1 = hand1
    hand2 = hand2
    b1 = b1
    b2 = b2
    Targets <- MCTargets
    NameOf <- MCNameOf
    ServerOf <- MCServerOf
    Kind <- MCKind
    PurgeAge = 1
    Runs = {hand1}
    Manual = {}
    Work <- MCOneEach
    CfgLocal = TRUE
    TypeLocal = TRUE
    CfgS3 = TRUE
    CfgBucket = b1
    Buckets = {b1}
    TypeS3 = TRUE
    Debug = FALSE
    Faults = {}
    Cleanup = FALSE
    MaxChanges = 0
    MaxClock = 1
SPECIFICATION Spec
INVARIANTS ObjectIsTheBackup
CHECK_DEADLOCK FALSE
