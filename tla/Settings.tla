-------------------------------- MODULE Settings --------------------------------
(***************************************************************************)
(* The settings of the running program: the tables of servers and          *)
(* schedules, config.CFG, the handlers of pkg/api that write both, and a   *)
(* backup that reads config.CFG while they do (pkg/api/server.go,          *)
(* schedule.go, s3.go, mysql_options.go, postgresql_options.go; main.go;   *)
(* pkg/backup/backup.go).                                                  *)
(*                                                                         *)
(* config.CFG has no lock.  A list of servers is replaced as a whole, and  *)
(* loops over it index the list in force with a place found in another.    *)
(***************************************************************************)
EXTENDS Configuration

CONSTANTS
    ServerIds,         (* identifiers of servers' rows, in primary-key order *)
    ScheduleIds,       (* identifiers of schedules' rows, likewise           *)
    InitialServers,    (* what the tables may hold when main first runs: the *)
    InitialSchedules,  (* program cannot come up to fill them itself         *)
    ServerRequests,    (* rows the server API may be asked to write          *)
    ScheduleRequests,  (* rows the schedule API may be asked to write        *)
    S3Requests,        (* S3 settings its API may be asked to set            *)
    OptionRequests,    (* dump options their API may be asked to set         *)
    DatabasesOn,       (* the databases a host answers SHOW DATABASES with   *)
    Clients,           (* requests, and the goroutines they start            *)
    Faults,            (* what may go wrong                                  *)
    MaxRequests        (* bound: no request begins after so many             *)

ServerRow == [name : STRING, kind : STRING, host : STRING,
              include : SUBSET STRING, exclude : SUBSET STRING]

ASSUME SettingsAssumption ==
    /\ ServerIds \subseteq Nat /\ IsFiniteSet(ServerIds)
    /\ ScheduleIds \subseteq Nat /\ IsFiniteSet(ScheduleIds)
    /\ \A table \in InitialServers :
          /\ DOMAIN table \subseteq ServerIds /\ table \in [DOMAIN table -> ServerRow]
          /\ \A i, j \in DOMAIN table : table[i].name = table[j].name => i = j
    /\ ServerRequests \subseteq ServerRow
    /\ \A table \in InitialSchedules : DOMAIN table \subseteq ScheduleIds
    /\ "none" \notin OptionRequests
    /\ Faults \subseteq {"db_read", "list_error", "client_error", "restart"}
    /\ MaxRequests \in Nat

VARIABLES
    servers,     (* table server_configs, with the filters of each row       *)
    schedules,   (* table backup_schedules, with the policies of each row    *)
    used,        (* identifiers of servers handed out so far                 *)
    up,          (* the process runs                                         *)
    config,      (* config.CFG                                               *)
    stores,      (* the storage clients NewManager could make                *)
    pc,          (* where each client is                                     *)
    request,     (* what it is about                                         *)
    read,        (* what its goroutine read from a table                     *)
    run          (* a backup                                                 *)

(* Observed, not used: requests so far; which tables a goroutine failed to  *)
(* read and which two goroutines loaded at once; whether the newest servers *)
(* were published; the servers options were asked for since, and whether a  *)
(* request for some was then under way; the lists of servers in force since *)
(* the backup began.                                                        *)
VARIABLES requests, unread, overlapped, published, named, shifted, lists

process == <<up, stores>>
ghosts == <<unread, overlapped, published, named, shifted>>
vars == <<servers, schedules, used, up, config, stores, pc, request, read, run,
          requests, unread, overlapped, published, named, shifted, lists>>

NoRun == [at |-> "idle", list |-> << >>, n |-> 0, todo |-> {}, db |-> "", place |-> 0]
NoRequest == [about |-> "nothing"]

Init ==
    /\ servers \in InitialServers
    /\ schedules \in InitialSchedules
    /\ used = DOMAIN servers
    /\ up = FALSE
    /\ config = FromEnvironment
    /\ stores = {}
    /\ pc = [c \in Clients |-> "idle"]
    /\ request = [c \in Clients |-> NoRequest]
    /\ read = [c \in Clients |-> << >>]
    /\ run = NoRun
    /\ requests = 0
    /\ unread = {} /\ overlapped = {} /\ published = TRUE
    /\ named = {} /\ shifted = FALSE /\ lists = {}

-------------------------------------------------------------------------------
(* main: the environment, the storage clients, then the tables, then the    *)
(* validation; where it fails, or a table cannot be read, main ends.  A     *)
(* client of S3 that cannot be made is only logged, and S3 not used.        *)
LocalClient(settings) == {s \in {"local"} : settings.local.enabled}

NewS3Clients(settings) ==
    IF ~settings.s3.enabled THEN {{}}
    ELSE {{"s3"}} \cup {none \in {{}} : "client_error" \in Faults}

NewManagers(settings) == {LocalClient(settings) \cup s3 : s3 \in NewS3Clients(settings)}

Boot ==
    /\ ~up
    /\ ValidateConfig(AtStart(servers, schedules))
    /\ up' = TRUE
    /\ config' = AtStart(servers, schedules)
    /\ stores' \in NewManagers(FromEnvironment)
    /\ unread' = {} /\ overlapped' = {} /\ published' = TRUE /\ named' = {} /\ shifted' = FALSE
    /\ UNCHANGED <<servers, schedules, used, pc, request, read, run, requests, lists>>

(* The process ends, by itself or because a backup indexed a list beyond    *)
(* its end: the cron library recovers no panic.                             *)
Die ==
    /\ up' = FALSE
    /\ config' = FromEnvironment
    /\ stores' = {}
    /\ pc' = [c \in Clients |-> "idle"]
    /\ request' = [c \in Clients |-> NoRequest]
    /\ read' = [c \in Clients |-> << >>]
    /\ run' = NoRun
    /\ lists' = {}
    /\ UNCHANGED <<servers, schedules, used, requests, ghosts>>

Restart == up /\ "restart" \in Faults /\ Die

-------------------------------------------------------------------------------
(* A step of a client, from one place to another.                           *)
Step(c, from, to) ==
    /\ up /\ pc[c] = from
    /\ pc' = [pc EXCEPT ![c] = to]
    /\ UNCHANGED <<process, run>>

Asks(c, to, what) ==
    /\ Step(c, "idle", to)
    /\ requests < MaxRequests /\ requests' = requests + 1
    /\ request' = [request EXCEPT ![c] = what]

Loading(table) == {c \in Clients : pc[c] \in {"read", "publish"} /\ request[c].about = table}

(* A write of a table, after which a goroutine is started.                  *)
ThenReload(c, table) ==
    /\ request' = [request EXCEPT ![c] = [about |-> table]]
    /\ overlapped' = overlapped \cup {t \in {table} : Loading(t) # {}}

ServersWritten(c) ==
    /\ ThenReload(c, "servers")
    /\ published' = FALSE
    /\ UNCHANGED <<schedules, config, read, unread, named, shifted, lists>>

(* createOrUpdateServer: the row is looked for by its identifier, or by its *)
(* name where the request has no identifier; where none is found by name it *)
(* is a new server.  UpdateServer makes sure of the row once more before    *)
(* its transaction, and does nothing more if it is gone.                    *)
Named(name) == {i \in DOMAIN servers : servers[i].name = name}

LookForServer(c, row, byId) ==
    /\ \/ \E i \in (IF byId = {} THEN Named(row.name) ELSE byId \cap DOMAIN servers) :
             /\ Asks(c, "saving", [about |-> "row", id |-> i, row |-> row])
             /\ UNCHANGED used
       \/ /\ byId = {} /\ Named(row.name) = {}
          /\ \E i \in ServerIds \ used :
                /\ Asks(c, "creating", [about |-> "row", id |-> i, row |-> row])
                /\ used' = used \cup {i}
    /\ UNCHANGED <<servers, schedules, config, read, ghosts, lists>>

(* The unique index on the name refuses a second row of that name.          *)
Refused(c) ==
    /\ request' = [request EXCEPT ![c] = NoRequest]
    /\ UNCHANGED <<servers, schedules, used, config, read, requests, ghosts, lists>>

WriteServer(c, i, row) ==
    /\ servers' = [j \in DOMAIN servers \cup {i} |-> IF j = i THEN row ELSE servers[j]]
    /\ ServersWritten(c)
    /\ UNCHANGED <<used, requests>>

(* Mutant: a name that is taken by now is not noticed.                      *)
CreateUnchecked(c) ==
    /\ Step(c, "creating", "read")
    /\ WriteServer(c, request[c].id, request[c].row)

CreateServer(c) ==
    LET i == request[c].id
        row == request[c].row
    IN  \/ Step(c, "creating", "read") /\ Named(row.name) = {}
           /\ WriteServer(c, i, row)
        \/ Step(c, "creating", "idle") /\ Named(row.name) # {} /\ Refused(c)

(* Save updates the row.  A row that is gone by now is inserted again, ON   *)
(* DUPLICATE KEY UPDATE: another row of that name is written over instead,  *)
(* unless filters of the missing row break the foreign key.                 *)
Target(i, row) ==
    IF Named(row.name) \subseteq {i} THEN {i}
    ELSE {j \in Named(row.name) : i \notin DOMAIN servers /\ row.include \cup row.exclude = {}}

SaveServer(c) ==
    /\ pc[c] = "saving"
    /\ LET i == request[c].id
           row == request[c].row
       IN  \/ \E j \in Target(i, row) : Step(c, "saving", "read") /\ WriteServer(c, j, row)
           \/ Step(c, "saving", "idle") /\ Target(i, row) = {} /\ Refused(c)

DeleteServer(c, i) ==
    /\ i \in DOMAIN servers
    /\ servers' = [j \in DOMAIN servers \ {i} |-> servers[j]]
    /\ Step(c, "idle", "read")
    /\ requests < MaxRequests /\ requests' = requests + 1
    /\ ServersWritten(c)
    /\ UNCHANGED used

(* Schedules likewise; ScheduleReload has their rows in detail.             *)
SchedulesWritten(c) ==
    /\ Step(c, "idle", "read")
    /\ requests < MaxRequests /\ requests' = requests + 1
    /\ ThenReload(c, "schedules")
    /\ UNCHANGED <<servers, used, config, read, unread, published, named, shifted, lists>>

SaveSchedule(c, i, row) ==
    /\ schedules' = [j \in DOMAIN schedules \cup {i} |->
                        IF j # i THEN schedules[j]
                        ELSE [row EXCEPT !.enabled = @ \/ i \notin DOMAIN schedules]]
    /\ SchedulesWritten(c)

DeleteSchedule(c, i) ==
    /\ i \in DOMAIN schedules
    /\ schedules' = [j \in DOMAIN schedules \ {i} |-> schedules[j]]
    /\ SchedulesWritten(c)

-------------------------------------------------------------------------------
(* The goroutines: reloadConfigurationFromDatabase, and the first part of   *)
(* reloadSchedulesFromDatabase.                                             *)
Answer(table) == IF table = "servers" THEN ServersOf(servers) ELSE TypesOf(schedules)

ReadFails(c) ==
    /\ "db_read" \in Faults
    /\ Step(c, "read", "idle")
    /\ unread' = unread \cup {request[c].about}
    /\ request' = [request EXCEPT ![c] = NoRequest]
    /\ UNCHANGED <<servers, schedules, used, config, read, requests, overlapped, published, named, shifted, lists>>

ReadTable(c) ==
    /\ Step(c, "read", "publish")
    /\ read' = [read EXCEPT ![c] = Answer(request[c].about)]
    /\ unread' = unread \ {request[c].about}
    /\ UNCHANGED <<servers, schedules, used, config, request, requests, overlapped, published, named, shifted, lists>>

(* Mutants: an empty list of servers is not published, as in main; dump     *)
(* options are carried over to the server in the same place.                *)
Replace(c, list) ==
    /\ Step(c, "publish", "idle")
    /\ request[c].about = "servers"
    /\ config' = [config EXCEPT !.servers = list]
    /\ published' = (published \/ list = ServersOf(servers))
    /\ lists' = IF run.at = "idle" THEN {} ELSE lists \cup {list}
    /\ read' = [read EXCEPT ![c] = << >>]
    /\ request' = [request EXCEPT ![c] = NoRequest]
    /\ named' = {}
    /\ shifted' = \E d \in Clients : pc[d] = "options"
    /\ UNCHANGED <<servers, schedules, used, requests, unread, overlapped>>

PublishSomeServers(c) == Replace(c, IF read[c] = << >> THEN config.servers ELSE read[c])
PublishWithOptions(c) ==
    Replace(c, [n \in DOMAIN read[c] |->
                   IF n \in DOMAIN config.servers
                   THEN [read[c][n] EXCEPT !.options = config.servers[n].options]
                   ELSE read[c][n]])

PublishServers(c) == Replace(c, read[c])

PublishSchedules(c) ==
    /\ request[c].about = "schedules"
    /\ Step(c, "publish", "idle")
    /\ config' = [config EXCEPT !.types = read[c]]
    /\ read' = [read EXCEPT ![c] = << >>]
    /\ request' = [request EXCEPT ![c] = NoRequest]
    /\ UNCHANGED <<servers, schedules, used, requests, ghosts, lists>>

-------------------------------------------------------------------------------
(* Settings that are changed in memory only: dump options are saved to      *)
(* tables no migration creates, which changes none of those modelled.       *)
InMemory(c, from, to) ==
    /\ Step(c, from, to)
    /\ UNCHANGED <<servers, schedules, used, read, unread, overlapped, published, shifted, lists>>

(* updateS3Config; an empty secret keeps the old one.  It is saved to a     *)
(* database of settings only where CONFIG_SOURCE says so, and never loaded. *)
updateS3Config(c, s3) ==
    /\ requests < MaxRequests /\ requests' = requests + 1
    /\ config' = [config EXCEPT !.s3 =
                     [s3 EXCEPT !.secretKey = IF @ = "" THEN config.s3.secretKey ELSE @]]
    /\ InMemory(c, "idle", "idle")
    /\ UNCHANGED <<request, named>>

(* Dump options of all servers, or of one, of either kind.  They are put    *)
(* into config.CFG, and then into a table that no migration creates: the    *)
(* request is answered with an error, and the options stay.  A server is    *)
(* found in the list in force.                                              *)
PlacesOf(kind, names) ==
    {n \in DOMAIN config.servers : config.servers[n].kind = kind /\ config.servers[n].name \in names}

FindServer(c, kind, n, options) ==
    /\ request' = [request EXCEPT ![c] = [about |-> "options", kind |-> kind,
                                         place |-> n, options |-> options]]
    /\ requests < MaxRequests /\ requests' = requests + 1
    /\ named' = IF options = "none" THEN named ELSE named \cup {config.servers[n].name}
    /\ InMemory(c, "idle", "options")

(* One request may set both; a name that is not found is passed over.       *)
SetOptions(c, kind, options, names) ==
    /\ config' = [config EXCEPT !.options[kind] = options]
    /\ \/ \E n \in PlacesOf(kind, names) : FindServer(c, kind, n, options)
       \/ /\ PlacesOf(kind, names) = {}
          /\ requests < MaxRequests /\ requests' = requests + 1
          /\ InMemory(c, "idle", "idle")
          /\ UNCHANGED <<request, named>>

(* A server of the other kind is refused.                                   *)
SetOrClear(c, kind, name, options) ==
    /\ \E n \in PlacesOf(kind, {name}) : FindServer(c, kind, n, options)
    /\ UNCHANGED config

(* The place is used in the list in force by now.  The HTTP server recovers *)
(* a panic of its handlers.                                                 *)
SetServerOptions(c) ==
    /\ pc[c] = "options"
    /\ LET n == request[c].place
           kind == request[c].kind
       IN  \/ /\ n \in DOMAIN config.servers
              /\ config' = [config EXCEPT !.servers[n].options[kind] = request[c].options]
           \/ n \notin DOMAIN config.servers /\ UNCHANGED config
    /\ request' = [request EXCEPT ![c] = NoRequest]
    /\ InMemory(c, "options", "idle")
    /\ UNCHANGED <<requests, named>>

updateMySQLOptions(c, options, names) == SetOptions(c, "mysql", options, names)
updateServerMySQLOptions(c, name, options) == SetOrClear(c, "mysql", name, options)
deleteServerMySQLOptions(c, name) == SetOrClear(c, "mysql", name, "none")

updatePostgreSQLOptions(c, options, names) == SetOptions(c, "postgresql", options, names)
updateServerPostgreSQLOptions(c, name, options) == SetOrClear(c, "postgresql", name, options)
deleteServerPostgreSQLOptions(c, name) == SetOrClear(c, "postgresql", name, "none")

-------------------------------------------------------------------------------
(* A backup, as far as it reads config.CFG.  The list it ranges over is the *)
(* one in force when it begins; without servers the legacy settings, which  *)
(* main took from the table of servers, count as one named "default"; and   *)
(* without those there is nothing to do.                                    *)
Backup(r) ==
    /\ up
    /\ run' = r
    /\ UNCHANGED <<servers, schedules, used, process, config, pc, request, read, requests, ghosts>>

Stored(type) ==
    \/ config.local.enabled /\ type.local.enabled /\ "local" \in stores
    \/ config.s3.enabled /\ type.s3.enabled /\ "s3" \in stores

LegacyServer == [config.legacy EXCEPT !.name = "default"]

ListToBackUp ==
    IF config.servers # << >> THEN config.servers
    ELSE IF config.legacy.host # "" THEN <<LegacyServer>>
    ELSE << >>

Begin ==
    /\ run.at = "idle"
    /\ ListToBackUp # << >>
    /\ \E type \in DOMAIN config.types : Stored(config.types[type])
    /\ Backup([NoRun EXCEPT !.at = "server", !.list = ListToBackUp, !.n = 1])
    /\ lists' = {config.servers}

NextServer ==
    \/ /\ run.n < Len(run.list)
       /\ Backup([run EXCEPT !.at = "server", !.n = @ + 1])
       /\ UNCHANGED lists
    \/ /\ run.n = Len(run.list)
       /\ Backup(NoRun)
       /\ lists' = {}

(* A list of included databases is taken as it is; otherwise the server is  *)
(* asked, and the system's and the excluded databases are left out.         *)
SystemDatabases == {"information_schema", "mysql", "performance_schema", "sys"}
ListDatabases(host) == DatabasesOn[host] \ SystemDatabases
queryAllDatabases == DatabasesOn[config.legacy.host] \ SystemDatabases

Chosen(server) ==
    IF server.include # {} THEN server.include
    ELSE (IF server = LegacyServer THEN queryAllDatabases ELSE ListDatabases(server.host))
            \ server.exclude

(* The legacy server must be there even where it need not be asked.         *)
Unreachable(server) ==
    "list_error" \in Faults /\ (server.include = {} \/ server = LegacyServer)

ChooseDatabases ==
    /\ run.at = "server"
    /\ LET server == run.list[run.n]
       IN  \/ /\ server.include # {} \/ server.kind = "mysql"
              /\ Chosen(server) # {}
              /\ Backup([run EXCEPT !.at = "database", !.todo = Chosen(server)])
              /\ UNCHANGED lists
           \/ /\ server.include = {}
              /\ server.kind # "mysql" \/ Chosen(server) = {}
              /\ NextServer
           \/ Unreachable(server) /\ NextServer

(* backupDatabase looks for the server in the list in force, by its name;   *)
(* place 0 stands for none.  A PostgreSQL database ends in an error.        *)
(* Mutant: it looks for the first server of the kind.                       *)
PlaceOfKind(list, name) ==
    IF \E n \in DOMAIN list : list[n].kind = "mysql"
    THEN CHOOSE n \in DOMAIN list : list[n].kind = "mysql" ELSE 0

Place(list, name) ==
    IF \E n \in DOMAIN list : list[n].name = name
    THEN CHOOSE n \in DOMAIN list : list[n].name = name ELSE 0

FindHost(db) ==
    /\ run.at = "database" /\ db \in run.todo
    /\ LET server == run.list[run.n]
       IN  Backup(IF server.kind # "mysql" THEN [run EXCEPT !.todo = @ \ {db}]
                  ELSE [run EXCEPT !.at = "found", !.todo = @ \ {db}, !.db = db,
                                   !.place = Place(config.servers, server.name)])
    /\ UNCHANGED lists

(* The host is that of the place, by now, or the legacy one.                *)
Host == IF run.place = 0 THEN config.legacy.host ELSE config.servers[run.place].host

Dump ==
    /\ run.at = "found"
    /\ run.place \in DOMAIN config.servers \cup {0}
    /\ Backup([run EXCEPT !.at = "database", !.db = "", !.place = 0])
    /\ UNCHANGED lists

Panic == up /\ run.at = "found" /\ run.place \notin DOMAIN config.servers \cup {0} /\ Die

EndOfServer == run.at = "database" /\ run.todo = {} /\ NextServer

-------------------------------------------------------------------------------
ServerAPI(c) ==
    \/ \E row \in ServerRequests, byId \in {{}} \cup {{i} : i \in ServerIds} :
          LookForServer(c, row, byId)
    \/ CreateServer(c) \/ SaveServer(c)
    \/ \E i \in ServerIds : DeleteServer(c, i)

ScheduleAPI(c) ==
    \E i \in ScheduleIds :
        DeleteSchedule(c, i) \/ \E row \in ScheduleRequests : SaveSchedule(c, i, row)

OptionsAPI(c) ==
    LET names == {row.name : row \in ServerRequests}
    IN  \/ \E o \in OptionRequests, some \in {{}} \cup {{name} : name \in names} :
              updateMySQLOptions(c, o, some) \/ updatePostgreSQLOptions(c, o, some)
        \/ \E o \in OptionRequests, name \in names :
              \/ updateServerMySQLOptions(c, name, o)
              \/ updateServerPostgreSQLOptions(c, name, o)
        \/ \E name \in names :
              deleteServerMySQLOptions(c, name) \/ deleteServerPostgreSQLOptions(c, name)
        \/ SetServerOptions(c)

Reload(c) == ReadTable(c) \/ ReadFails(c) \/ PublishServers(c) \/ PublishSchedules(c)

RunBackup ==
    Begin \/ ChooseDatabases \/ (\E db \in run.todo : FindHost(db)) \/ Dump \/ Panic \/ EndOfServer

Next ==
    \/ Boot \/ Restart \/ RunBackup
    \/ \E c \in Clients :
          \/ ServerAPI(c) \/ ScheduleAPI(c) \/ OptionsAPI(c) \/ Reload(c)
          \/ \E s3 \in S3Requests : updateS3Config(c, s3)

Spec == Init /\ [][Next]_vars

-------------------------------------------------------------------------------
(* The values of the state; names of servers are unique, as the index of    *)
(* their table has it, whichever way a row was written.                     *)
TypeOK ==
    /\ DOMAIN servers \subseteq used /\ used \subseteq ServerIds
    /\ DOMAIN schedules \subseteq ScheduleIds
    /\ \A i, j \in DOMAIN servers : servers[i].name = servers[j].name => i = j
    /\ stores \in NewManagers(FromEnvironment) \cup {{}}
    /\ pc \in [Clients -> {"idle", "creating", "saving", "read", "publish", "options"}]
    /\ run.at \in {"idle", "server", "database", "found"}
    /\ run.at # "idle" => up /\ run.n \in DOMAIN run.list

Quiet(table) == up /\ Loading(table) = {}
WithoutOptions(list) == [n \in DOMAIN list |-> [list[n] EXCEPT !.options = NoOptions]]

(* When no goroutine is loading servers, and the last one that read the     *)
(* table could, the newest servers have been published since the program    *)
(* came up; and where no two goroutines met they are still in force         *)
(* ("Critical section: update the global configuration").                   *)
ServersFollowRows ==
    (Quiet("servers") /\ "servers" \notin unread) =>
        /\ published
        /\ "servers" \notin overlapped => WithoutOptions(config.servers) = ServersOf(servers)

AllLoaded ==
    /\ Quiet("servers") /\ Quiet("schedules")
    /\ unread = {} /\ overlapped = {}

(* Settings that are in force, and valid, come up again: when everything    *)
(* was loaded and S3 is as the environment says, a start would accept the   *)
(* tables and arrive at the same servers and backup types.                  *)
RestartAgrees ==
    (/\ AllLoaded
     /\ config.s3 = S3Settings /\ config.servers # << >> /\ ValidateConfig(config)) =>
        LET next == AtStart(servers, schedules)
        IN  /\ ValidateConfig(next)
            /\ next.servers = WithoutOptions(config.servers)
            /\ next.types = config.types

(* The places of a server in a list, and what a list says of a dump.        *)
Standing(list, name) == {n \in DOMAIN list : list[n].name = name}

ChosenBy(list, name) == \E n \in Standing(list, name) : run.db \in Chosen(list[n])
HostIn(list, name) == \E n \in Standing(list, name) : list[n].host = Host
Moved(name) == \E l, m \in lists : Standing(l, name) # Standing(m, name)

FollowsTheLists(name) ==
    LET default == name = "default" /\ << >> \in lists
    IN  /\ default \/ \E list \in lists : ChosenBy(list, name)
        /\ \/ default /\ Host = config.legacy.host
           \/ \E list \in lists : HostIn(list, name)
           \/ Moved(name)

(* A dump is filed under the name of a server of the list the backup began  *)
(* with.  Its database was chosen by one list in force meanwhile; its host  *)
(* is that server's in one of them, or the legacy host under "default",     *)
(* unless the server stood in different places of these lists, or in none   *)
(* ("If we can't find the server config, use legacy config (for default     *)
(* server)").                                                               *)
DumpsFollowTheLists == [][Dump => FollowsTheLists(run.list[run.n].name)]_vars

(* A server has dump options only if they were asked for it since its list  *)
(* was published, unless a request for another was under way then.          *)
OptionsWereAskedFor ==
    ~shifted => \A n \in DOMAIN config.servers :
                   LET server == config.servers[n]
                   IN  server.options # NoOptions =>
                          /\ server.name \in named
                          /\ server.options[server.kind] # "none"
===============================================================================
