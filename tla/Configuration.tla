----------------------------- MODULE Configuration -----------------------------
(***************************************************************************)
(* What config.CFG holds, what the environment and the tables make of it,  *)
(* and what a start accepts (pkg/config/config.go, main.go, and the        *)
(* conversions of pkg/api).  The module has no state.                      *)
(*                                                                         *)
(* Texts are compared and never taken apart.  Of the settings only those a *)
(* guard reads are kept: ports, regions, passwords of servers and the like *)
(* are carried along by the code and looked at by nobody here.             *)
(***************************************************************************)
EXTENDS Integers, Sequences, FiniteSets, FiniteSetsExt

CONSTANTS
    Environment,   (* the environment: a function from variables to texts    *)
    GoDurations    (* the texts time.ParseDuration accepts                   *)

(* "90d" and "" are not durations in Go.                                    *)
ASSUME ConfigurationAssumption == GoDurations \cap {"", "7d", "30d", "90d", "365d"} = {}

-------------------------------------------------------------------------------
(* A setting is what its variable says, were it the empty text.             *)
getEnvOrDefault(key, default) ==
    IF key \in DOMAIN Environment THEN Environment[key] ELSE default

(* Letter case apart; anything else counts as not set.                      *)
parseEnvBool(key, default) ==
    LET value == getEnvOrDefault(key, "")
    IN  \/ value \in {"1", "t", "true", "yes", "on", "enabled"}
        \/ default /\ value \notin {"0", "f", "false", "no", "off", "disabled"}

S3Settings ==
    [enabled   |-> parseEnvBool("S3_BACKUP_ENABLED", FALSE),
     bucket    |-> getEnvOrDefault("S3_BUCKET", ""),
     accessKey |-> getEnvOrDefault("S3_ACCESS_KEY", ""),
     secretKey |-> getEnvOrDefault("S3_SECRET_KEY", "")]

MetadataDBEnabled == parseEnvBool("METADATA_DB_ENABLED", FALSE)

(* setDefaults: an empty value is replaced where the database is used.      *)
OrDefault(value, default) ==
    IF MetadataDBEnabled /\ value = "" THEN default ELSE value

MetadataDBSettings ==
    [enabled  |-> MetadataDBEnabled,
     host     |-> OrDefault(getEnvOrDefault("METADATA_DB_HOST", "localhost"), "localhost"),
     username |-> getEnvOrDefault("METADATA_DB_USERNAME", "gosqlguard"),
     database |-> OrDefault(getEnvOrDefault("METADATA_DB_DATABASE", "gosqlguard_metadata"),
                            "gosqlguard_metadata"),
     lifetime |-> OrDefault(getEnvOrDefault("METADATA_DB_CONN_MAX_LIFETIME", "5m"), "5m")]

(* One storage destination of a backup type.                                *)
Destination(enabled, duration, forever) ==
    [enabled |-> enabled, duration |-> duration, forever |-> forever]

(* The backup types without any schedule in the database.                   *)
DefaultTypes ==
    [manual |-> [schedule |-> "", local |-> Destination(TRUE, "90d", FALSE),
                 s3 |-> Destination(TRUE, "365d", FALSE)],
     hourly |-> [schedule |-> "0 * * * *", local |-> Destination(FALSE, "24h", FALSE),
                 s3 |-> Destination(FALSE, "", FALSE)],
     daily  |-> [schedule |-> "0 0 * * *", local |-> Destination(TRUE, "7d", FALSE),
                 s3 |-> Destination(TRUE, "30d", FALSE)]]

(* Dump options, which the dumps do not use: those asked for, by kind.      *)
NoOptions == [mysql |-> "none", postgresql |-> "none"]

NoServer == [name |-> "", kind |-> "", host |-> "", include |-> {}, exclude |-> {},
             options |-> NoOptions]

(* LoadConfiguration: no variable names a server.                           *)
FromEnvironment ==
    [local      |-> [enabled   |-> parseEnvBool("LOCAL_BACKUP_ENABLED", TRUE),
                     directory |-> getEnvOrDefault("LOCAL_BACKUP_DIRECTORY", "/backups")],
     s3         |-> S3Settings,
     metadataDB |-> MetadataDBSettings,
     servers    |-> << >>,
     legacy     |-> NoServer,
     types      |-> DefaultTypes,
     options    |-> NoOptions]

-------------------------------------------------------------------------------
(* The tables: functions from identifiers, in the order they are read, to   *)
(* rows.  A server's row has its filters, a schedule's its policies.        *)
NthOf(table, n) ==
    CHOOSE i \in DOMAIN table : Cardinality({j \in DOMAIN table : j <= i}) = n

ServerOf(row) ==
    [name |-> row.name, kind |-> row.kind, host |-> row.host,
     include |-> row.include, exclude |-> row.exclude, options |-> NoOptions]

ServersOf(table) ==
    [n \in 1..Cardinality(DOMAIN table) |-> ServerOf(table[NthOf(table, n)])]

(* A policy replaces a destination that is off and kept for "24h".          *)
DestinationOf(policies, store) ==
    IF store \in DOMAIN policies
    THEN Destination(TRUE, policies[store].duration, policies[store].forever)
    ELSE Destination(FALSE, "24h", FALSE)

TypeOf(row) ==
    [schedule |-> row.cron,
     local    |-> DestinationOf(row.policies, "local"),
     s3       |-> DestinationOf(row.policies, "s3")]

(* Disabled schedules are skipped; of several for one type the last counts. *)
EnabledRows(table, type) == {i \in DOMAIN table : table[i].type = type /\ table[i].enabled}

TypesOf(table) ==
    [t \in {table[i].type : i \in {j \in DOMAIN table : table[j].enabled}} |->
        TypeOf(table[Max(EnabledRows(table, t))])]

-------------------------------------------------------------------------------
(* main: what the tables have replaces what the environment gave; an empty  *)
(* table, like one that cannot be read, replaces nothing.                   *)
MySQLServers(servers) == {n \in DOMAIN servers : servers[n].kind = "mysql"}

LegacyOf(config, servers) ==
    IF MySQLServers(servers) = {} THEN config.legacy ELSE servers[Min(MySQLServers(servers))]

loadConfigurationFromDatabase(config, table) ==
    IF DOMAIN table = {} THEN config
    ELSE [config EXCEPT !.servers = ServersOf(table),
                        !.legacy = LegacyOf(config, ServersOf(table))]

(* Mutant: main forgets that disabled schedules are skipped.                *)
loadDisabledSchedulesToo(config, table) ==
    IF DOMAIN table = {} THEN config
    ELSE [config EXCEPT !.types = TypesOf([i \in DOMAIN table |->
                                              [table[i] EXCEPT !.enabled = TRUE]])]

loadSchedulesFromDatabase(config, table) ==
    IF DOMAIN TypesOf(table) = {} THEN config
    ELSE [config EXCEPT !.types = TypesOf(table)]

AtStart(servers, schedules) ==
    loadSchedulesFromDatabase(
        loadConfigurationFromDatabase(FromEnvironment, servers), schedules)

-------------------------------------------------------------------------------
(* ValidateConfig, in the order of its returns.                             *)
SomeServer(config) == config.servers # << >> \/ config.legacy.host # ""

StorageIsUsable(config) ==
    /\ config.local.enabled \/ config.s3.enabled
    /\ config.local.enabled => config.local.directory # ""
    /\ config.s3.enabled =>
          config.s3.bucket # "" /\ config.s3.accessKey # "" /\ config.s3.secretKey # ""

MetadataDBIsUsable(config) ==
    config.metadataDB.enabled =>
        /\ config.metadataDB.host # ""
        /\ config.metadataDB.username # ""
        /\ config.metadataDB.database # ""
        /\ config.metadataDB.lifetime \in GoDurations

Parses(destination) == destination.forever \/ destination.duration \in GoDurations

TypeIsUsable(config, name) ==
    LET type == config.types[name]
    IN  /\ type.schedule # "" \/ name = "manual"
        /\ type.local.enabled => config.local.enabled
        /\ type.s3.enabled => config.s3.enabled
        /\ Parses(type.local) /\ Parses(type.s3)

ValidateConfig(config) ==
    /\ SomeServer(config)
    /\ StorageIsUsable(config)
    /\ MetadataDBIsUsable(config)
    /\ DOMAIN config.types # {}
    /\ \A name \in DOMAIN config.types : TypeIsUsable(config, name)
===============================================================================
