CONSTANTS
    orders = orders
    users = users
    events = events
    cron1 = cron1
    hand1 = hand1
    hand2 = hand2
    b1 = b1
    b2 = b2
    Targets <- MCTargets
    NameOf <- MCNameOf
    ServerOf <- MCServerOf
    Kind <- MCKind
    PurgeAge = 1
    Runs = {cron1, hand1}
    Manual = {hand1}
    Work <- MCTwoServers
    CfgLocal = TRUE
    TypeLocal = TRUE
    CfgS3 = TRUE
    CfgBucket = b1
    Buckets = {b1, b2}
    TypeS3 = TRUE
    Debug = TRUE
    Faults = {"list", "dump", "copy", "upload", "close", "crash"}
    Cleanup = FALSE
    MaxChanges = 1
    MaxClock = 1
SPECIFICATION Spec
INVARIANTS TypeOK SuccessIsRestorable S3SuccessMeansUploaded
CHECK_DEADLOCK FALSE
