CONSTANTS
    Environment <- MCEnvironment
    GoDurations = {"24h", "168h", "5m"}
    ServerIds = {1, 2, 3}
    ScheduleIds = {1, 2}
    InitialServers <- MCInitialServers
    InitialSchedules <- MCInitialSchedules
    ServerRequests <- MCServerRequests
    ScheduleRequests <- MCScheduleRequests
    S3Requests <- MCS3Requests
    OptionRequests = {"custom"}
    DatabasesOn <- MCDatabasesOn
    Clients = {"c1", "c2"}
    Faults = {"db_read", "list_error", "client_error", "restart"}
    MaxRequests = 2
SPECIFICATION Spec
INVARIANTS TypeOK ServersFollowRows RestartAgrees OptionsWereAskedFor
PROPERTIES DumpsFollowTheLists
CHECK_DEADLOCK FALSE
