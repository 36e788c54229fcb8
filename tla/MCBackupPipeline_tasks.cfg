CONSTANTS
    orders = orders
    users = users
    events = events
    cron1 = cron1
    hand1 = hand1
    hand2 = hand2
    b1 = b1
    b2 = b2
    Targets <- MCTargets
    NameOf <- MCNameOf
    ServerOf <- MCServerOf
    Kind <- MCKind
    PurgeAge = 1
    Runs = {hand1, hand2}
    Manual = {hand1, hand2}
    Work <- MCOneEach
    CfgLocal = TRUE
    TypeLocal = FALSE
    CfgS3 = TRUE
    CfgBucket = b1
    Buckets = {b1}
    TypeS3 = TRUE
    Debug = FALSE
    Faults = {"prepare", "create", "dump", "store", "crash"}
    Cleanup = TRUE
    MaxChanges = 0
    MaxClock = 2
SPECIFICATION FairSpec
INVARIANTS PendingMeansInProgress OneManualTask
PROPERTIES OnlyItsRunRevives EveryRecordSettles FlagIsCleared
CHECK_DEADLOCK FALSE
