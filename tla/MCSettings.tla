------------------------------- MODULE MCSettings -------------------------------
(* Values for model checking Settings.                                      *)
EXTENDS Settings, TLC

(* The database is used, S3 is on, nothing else is set.                     *)
MCEnvironment ==
    [METADATA_DB_ENABLED |-> "yes", S3_BACKUP_ENABLED |-> "1", S3_BUCKET |-> "bucket",
     S3_ACCESS_KEY |-> "key", S3_SECRET_KEY |-> "secret"]

Row(name, kind, host, include, exclude) ==
    [name |-> name, kind |-> kind, host |-> host, include |-> include, exclude |-> exclude]

Orders == Row("orders", "mysql", "alpha", {}, {"scratch"})
Users == Row("users", "mysql", "beta", {"users"}, {})

MCDatabasesOn ==
    [alpha |-> {"orders", "scratch", "sys"}, beta |-> {"users", "scratch"}, gamma |-> {"pg"}]

(* Orders moves to another host, a server is created before or after it, by *)
(* a name that is taken or not.                                             *)
MCServerRequests ==
    {Row("orders", "mysql", "beta", {}, {}), Row("users", "mysql", "alpha", {"users"}, {}),
     Row("ledger", "postgresql", "gamma", {"pg"}, {})}

MCInitialServers == {2 :> Orders, 1 :> Users @@ 2 :> Orders}

Schedule(type, local, forever, enabled) ==
    [type |-> type, cron |-> "0 * * * *", enabled |-> enabled,
     policies |-> [local |-> [duration |-> local, forever |-> forever]]]

(* "7d" is accepted by the API, which does not look at it.                  *)
MCInitialSchedules == {1 :> Schedule("hourly", "24h", FALSE, TRUE)}
MCScheduleRequests ==
    {Schedule("hourly", "7d", FALSE, TRUE), Schedule("hourly", "7d", TRUE, TRUE),
     Schedule("daily", "24h", FALSE, FALSE)}

MCS3Requests ==
    {[enabled |-> TRUE, bucket |-> "other", accessKey |-> "key", secretKey |-> ""],
     [enabled |-> FALSE, bucket |-> "bucket", accessKey |-> "key", secretKey |-> "new"]}
===============================================================================
