---------------------------- MODULE Settings_proofs ----------------------------
(***************************************************************************)
(* Proofs about Settings, for every environment, every finite set of       *)
(* identifiers of rows, every set of requests and any number of clients.   *)
(***************************************************************************)
EXTENDS Settings, FiniteSetTheorems, TLAPS

(* A set of numbers that is not empty has a smallest one.                   *)
LEMMA SmallestNumber ==
    ASSUME NEW S, S \subseteq Nat, S # {}
    PROVE  Min(S) \in S
  <1> DEFINE Below(x) == 0..x
             family == {Below(x) : x \in S}
  <1>1. family \subseteq FiniteSubsetsOf(Nat) /\ family # {}
    <2>1. \A x \in S : IsFiniteSet(Below(x)) /\ Below(x) \subseteq Nat
      BY FS_Interval
    <2> QED BY <2>1 DEF FiniteSubsetsOf
  <1>2. PICK least \in family : \A set \in family : <<set, least>> \notin StrictSubsetOrdering(Nat)
    <2> HIDE DEF family
    <2> QED BY <1>1, FS_StrictSubsetOrderingWellFounded, WFMin
  <1>3. PICK x \in S : least = Below(x)
    BY <1>2
  <1>4. ASSUME NEW y \in S, y < x PROVE FALSE
    <2>1. Below(y) \subseteq Below(x) /\ x \in Below(x) /\ x \notin Below(y)
      BY <1>4
    <2>2. Below(y) \in family /\ Below(x) \subseteq Nat
      OBVIOUS
    <2>3. <<Below(y), Below(x)>> \in StrictSubsetOrdering(Nat)
      BY <2>1, <2>2 DEF StrictSubsetOrdering
    <2> QED BY <1>2, <1>3, <2>2, <2>3
  <1>5. \A y \in S : x <= y
    BY <1>4
  <1> QED BY <1>5 DEF Min

-------------------------------------------------------------------------------
(* What the lists of servers look like, and what a client holds at the      *)
(* steps that use it.                                                       *)
Kinds == {"mysql", "postgresql"}

IsServer(s) ==
    /\ s = [name |-> s.name, kind |-> s.kind, host |-> s.host,
            include |-> s.include, exclude |-> s.exclude, options |-> s.options]
    /\ s.options = [mysql |-> s.options.mysql, postgresql |-> s.options.postgresql]

IsList(l) ==
    /\ l \in Seq({l[n] : n \in DOMAIN l})
    /\ \A n \in DOMAIN l : IsServer(l[n])

ConfigInv ==
    /\ DOMAIN config = DOMAIN FromEnvironment
    /\ DOMAIN config.options = Kinds
    /\ config.local = FromEnvironment.local /\ config.metadataDB = FromEnvironment.metadataDB
    /\ IsList(config.servers) /\ IsServer(config.legacy)

ClientInv ==
    /\ read = [c \in Clients |-> read[c]] /\ request = [c \in Clients |-> request[c]]
    /\ \A c \in Clients :
          /\ pc[c] \in {"creating", "saving"} => request[c].id \in used
          /\ pc[c] \in {"read", "publish"} => request[c].about \in {"servers", "schedules"}
          /\ pc[c] = "publish" /\ request[c].about = "servers" => IsList(read[c])
          /\ pc[c] = "options" => request[c].kind \in Kinds
          /\ ~up => pc[c] = "idle"

RunShape ==
    /\ DOMAIN run = DOMAIN NoRun
    /\ run.at # "idle" => IsList(run.list)

TypeInv == TypeOK /\ ConfigInv /\ ClientInv /\ RunShape

(* What is in force agrees with a table; without enabled schedules, those   *)
(* of the environment may.                                                  *)
InForce(table) ==
    IF table = "servers" THEN WithoutOptions(config.servers) = ServersOf(servers)
    ELSE \/ config.types = TypesOf(schedules)
         \/ config.types = DefaultTypes /\ DOMAIN TypesOf(schedules) = {}

(* Where no two goroutines met, there is one at most; it read what the      *)
(* table says now, and when it is gone that is in force.                    *)
LoadInv ==
    \A table \in {"servers", "schedules"} :
        up /\ table \notin overlapped =>
            /\ \A c, d \in Loading(table) : c = d
            /\ \A c \in Loading(table) : pc[c] = "publish" => read[c] = Answer(table)
            /\ Loading(table) = {} /\ table \notin unread => InForce(table)

(* Until the newest servers are published some goroutine is still to read   *)
(* them or has, or the last one failed.                                     *)
Newest(c) == pc[c] = "publish" => read[c] = ServersOf(servers)
PublishInv ==
    up /\ ~published => \/ "servers" \in unread
                        \/ \E c \in Loading("servers") : Newest(c)

(* What goroutines read of servers has no options.                          *)
FreshInv ==
    \A c \in Clients : pc[c] = "publish" /\ request[c].about = "servers" =>
                           \A n \in DOMAIN read[c] : read[c][n].options = NoOptions

(* Unless the list was replaced under a request, only the options of a      *)
(* server's own kind are set, of servers that were asked for; and a request *)
(* under way is about the server in its place.                              *)
OptionsInv == ~shifted =>
    /\ \A n \in DOMAIN config.servers, kind \in Kinds :
          config.servers[n].options[kind] # "none" =>
              kind = config.servers[n].kind /\ config.servers[n].name \in named
    /\ \A c \in Clients : pc[c] = "options" =>
          /\ request[c].place \in DOMAIN config.servers
          /\ config.servers[request[c].place].kind = request[c].kind
          /\ request[c].options # "none" => config.servers[request[c].place].name \in named

(* A backup began with one of the lists in force since, or with none; the   *)
(* list in force is one of them, but for dump options; and the place of the *)
(* server was found in one of them.                                         *)
Alike(l, m) ==
    /\ DOMAIN l = DOMAIN m
    /\ \A n \in DOMAIN l : l[n].name = m[n].name /\ l[n].host = m[n].host

FoundIn(l, name, place) ==
    IF place = 0 THEN Standing(l, name) = {} ELSE place \in Standing(l, name)

RunInv == run.at # "idle" =>
    /\ \E l \in lists : Alike(l, config.servers)
    /\ run.list \in lists \/ (<< >> \in lists /\ run.list = <<LegacyServer>>)
    /\ run.at \in {"database", "found"} => run.todo \subseteq Chosen(run.list[run.n])
    /\ run.at = "found" =>
          /\ run.db \in Chosen(run.list[run.n])
          /\ \E l \in lists : FoundIn(l, run.list[run.n].name, run.place)

-------------------------------------------------------------------------------
(* The list made of a table.                                                *)
LEMMA TablesMakeLists ==
    ASSUME NEW table, IsFiniteSet(DOMAIN table)
    PROVE  /\ IsList(ServersOf(table))
           /\ WithoutOptions(ServersOf(table)) = ServersOf(table)
           /\ ServersOf(table) = << >> <=> DOMAIN table = {}
           /\ \A n \in DOMAIN ServersOf(table) : ServersOf(table)[n].options = NoOptions
  <1> DEFINE k == Cardinality(DOMAIN table)
             list == ServersOf(table)
  <1>1. k \in Nat /\ (k = 0 <=> DOMAIN table = {})
    BY FS_CardinalityType, FS_EmptySet
  <1>2. list = [n \in 1..k |-> ServerOf(table[NthOf(table, n)])]
    BY DEF ServersOf
  <1> HIDE DEF k, list
  <1>3. \A n \in DOMAIN list : IsServer(list[n]) /\ [list[n] EXCEPT !.options = NoOptions] = list[n]
    <2> TAKE n \in DOMAIN list
    <2>1. list[n] = ServerOf(table[NthOf(table, n)])
      BY <1>2
    <2> QED BY <2>1 DEF ServerOf, IsServer, NoOptions
  <1>4. list \in Seq({list[n] : n \in DOMAIN list})
    BY <1>1, <1>2
  <1>5. WithoutOptions(list) = list
    BY <1>2, <1>3 DEF WithoutOptions
  <1>6. list = << >> <=> DOMAIN table = {}
    BY <1>1, <1>2, <1>4
  <1>7. \A n \in DOMAIN list : list[n].options = NoOptions
    BY <1>2 DEF ServerOf
  <1> QED BY <1>3, <1>4, <1>5, <1>6, <1>7 DEF IsList, list

(* The tables stay finite.                                                  *)
LEMMA TablesAreFinite ==
    ASSUME TypeOK
    PROVE  IsFiniteSet(DOMAIN servers) /\ IsFiniteSet(DOMAIN schedules)
  BY SettingsAssumption, FS_Subset DEF TypeOK

(* What a start makes of the tables.                                        *)
LEMMA Starts ==
    ASSUME TypeOK
    PROVE  LET start == AtStart(servers, schedules)
           IN  /\ DOMAIN start = DOMAIN FromEnvironment
               /\ start.options = NoOptions
               /\ start.local = FromEnvironment.local
               /\ start.metadataDB = FromEnvironment.metadataDB
               /\ start.s3 = S3Settings
               /\ start.servers = ServersOf(servers)
               /\ IsList(start.servers) /\ IsServer(start.legacy)
               /\ start.types = IF DOMAIN TypesOf(schedules) = {} THEN DefaultTypes
                                ELSE TypesOf(schedules)
  <1> DEFINE env == FromEnvironment
             some == loadConfigurationFromDatabase(env, servers)
             list == ServersOf(servers)
  <1>1. IsList(list) /\ (list = << >> <=> DOMAIN servers = {})
    BY TablesAreFinite, TablesMakeLists
  <1>2. /\ DOMAIN env = {"local", "s3", "metadataDB", "servers", "legacy", "types", "options"}
        /\ env.options = NoOptions /\ env.s3 = S3Settings /\ env.servers = << >>
        /\ env.types = DefaultTypes /\ IsServer(env.legacy)
    BY DEF FromEnvironment, NoServer, NoOptions, IsServer
  <1>3. IsServer(LegacyOf(env, list))
    <2>1. CASE MySQLServers(list) = {}
      BY <2>1, <1>2 DEF LegacyOf
    <2>2. CASE MySQLServers(list) # {}
      <3>1. MySQLServers(list) \subseteq DOMAIN list /\ DOMAIN list \subseteq Nat
        BY <1>1 DEF MySQLServers, IsList
      <3>2. Min(MySQLServers(list)) \in DOMAIN list
        BY <2>2, <3>1, SmallestNumber
      <3> QED BY <2>2, <3>2, <1>1 DEF LegacyOf, IsList
    <2> QED BY <2>1, <2>2
  <1>4. /\ DOMAIN some = DOMAIN env
        /\ some.options = NoOptions /\ some.s3 = S3Settings /\ some.types = DefaultTypes
        /\ some.local = env.local /\ some.metadataDB = env.metadataDB
        /\ some.servers = list /\ IsServer(some.legacy)
    <2> HIDE DEF env, list
    <2>1. CASE DOMAIN servers = {}
      BY <2>1, <1>1, <1>2 DEF loadConfigurationFromDatabase
    <2>2. CASE DOMAIN servers # {}
      BY <2>2, <1>2, <1>3 DEF loadConfigurationFromDatabase, list
    <2> QED BY <2>1, <2>2
  <1> HIDE DEF env, some, list
  <1>5. AtStart(servers, schedules) = loadSchedulesFromDatabase(some, schedules)
    BY DEF AtStart, some, env
  <1> DEFINE start == AtStart(servers, schedules)
  <1>6. /\ DOMAIN start = DOMAIN env
        /\ start.options = NoOptions /\ start.s3 = S3Settings
        /\ start.local = env.local /\ start.metadataDB = env.metadataDB
        /\ start.servers = list /\ IsServer(start.legacy)
        /\ start.types = IF DOMAIN TypesOf(schedules) = {} THEN DefaultTypes
                         ELSE TypesOf(schedules)
    BY <1>2, <1>4, <1>5 DEF loadSchedulesFromDatabase
  <1> QED BY <1>1, <1>6 DEF env, list

-------------------------------------------------------------------------------
(* Initially everything is idle and the tables are as the run finds them.   *)
LEMMA TypeStart ==
    ASSUME Init
    PROVE  TypeInv
  <1>1. TypeOK
    BY SettingsAssumption DEF Init, TypeOK, NoRun
  <1>2. ConfigInv
    <2>1. IsList(<< >>)
      BY DEF IsList
    <2>2. IsServer(NoServer)
      BY DEF NoServer, NoOptions, IsServer
    <2>3. DOMAIN NoOptions = Kinds
      BY DEF NoOptions, Kinds
    <2>4. config = FromEnvironment
      BY DEF Init
    <2>5. /\ FromEnvironment.options = NoOptions
          /\ FromEnvironment.servers = << >> /\ FromEnvironment.legacy = NoServer
      BY DEF FromEnvironment
    <2> QED BY <2>1, <2>2, <2>3, <2>4, <2>5 DEF ConfigInv
  <1>3. ClientInv /\ RunShape
    BY DEF Init, ClientInv, RunShape, NoRun
  <1> QED BY <1>1, <1>2, <1>3 DEF TypeInv

(* A step of the tables of clients alone keeps what is said of a backup.    *)
LEMMA BackupUntouched ==
    ASSUME TypeInv, UNCHANGED <<process, run>>
    PROVE  /\ stores' \in NewManagers(FromEnvironment) \cup {{}}
           /\ run'.at \in {"idle", "server", "database", "found"}
           /\ run'.at # "idle" => up' /\ run'.n \in DOMAIN run'.list
           /\ RunShape'
  BY DEF TypeInv, TypeOK, RunShape, process, IsList, IsServer

(* A write of a row keeps the names unique, whichever row it finds.         *)
LEMMA WritesKeepNames ==
    ASSUME TypeInv, NEW c \in Clients, CreateServer(c) \/ SaveServer(c)
    PROVE  /\ DOMAIN servers' \subseteq used
           /\ \A i, j \in DOMAIN servers' : servers'[i].name = servers'[j].name => i = j
  <1> DEFINE i == request[c].id
             row == request[c].row
  <1>1. CASE servers' = servers
    BY <1>1 DEF TypeInv, TypeOK
  <1>2. ASSUME NEW j \in used, WriteServer(c, j, row), Named(row.name) \subseteq {j}
        PROVE  /\ DOMAIN servers' \subseteq used
               /\ \A k, l \in DOMAIN servers' : servers'[k].name = servers'[l].name => k = l
    <2> HIDE DEF row
    <2>1. /\ DOMAIN servers' = DOMAIN servers \cup {j}
          /\ servers'[j] = row
          /\ \A k \in DOMAIN servers \ {j} : servers'[k] = servers[k] /\ servers[k].name # row.name
      BY <1>2 DEF WriteServer, Named
    <2> QED BY <2>1 DEF TypeInv, TypeOK
  <1>3. CASE CreateServer(c)
    <2>1. pc[c] = "creating" => i \in used
      BY DEF TypeInv, ClientInv
    <2>2. CASE Step(c, "creating", "read") /\ Named(row.name) = {} /\ WriteServer(c, i, row)
      BY <1>2, <2>1, <2>2 DEF Step
    <2>3. CASE Refused(c)
      BY <1>1, <2>3 DEF Refused
    <2> QED BY <1>3, <2>2, <2>3 DEF CreateServer
  <1>4. CASE SaveServer(c)
    <2>1. i \in used
      BY <1>4 DEF SaveServer, TypeInv, ClientInv
    <2>2. ASSUME NEW j \in Target(i, row), WriteServer(c, j, row)
          PROVE  j \in used /\ Named(row.name) \subseteq {j}
      <3>1. CASE Named(row.name) \subseteq {i}
        BY <2>1, <2>2, <3>1 DEF Target
      <3>2. CASE ~(Named(row.name) \subseteq {i})
        <4>1. j \in Named(row.name)
          BY <2>2, <3>2 DEF Target
        <4> QED BY <4>1 DEF Named, TypeInv, TypeOK
      <3> QED BY <3>1, <3>2
    <2>3. CASE \E j \in Target(i, row) : Step(c, "saving", "read") /\ WriteServer(c, j, row)
      BY <1>2, <2>2, <2>3
    <2>4. CASE Refused(c)
      BY <1>1, <2>4 DEF Refused
    <2> QED BY <1>4, <2>3, <2>4 DEF SaveServer
  <1> QED BY <1>3, <1>4

Places == {"idle", "creating", "saving", "read", "publish", "options"}

(* A client moves: what it holds then must fit the place it moves to.       *)
LEMMA ClientMoves ==
    ASSUME TypeInv, NEW c \in Clients, NEW from, NEW to \in Places, NEW what, NEW got,
           Step(c, from, to), used \subseteq used',
           request' = [request EXCEPT ![c] = what], read' = [read EXCEPT ![c] = got],
           to \in {"creating", "saving"} => what.id \in used',
           to \in {"read", "publish"} => what.about \in {"servers", "schedules"},
           to = "publish" /\ what.about = "servers" => IsList(got),
           to = "options" => what.kind \in Kinds
    PROVE  pc' \in [Clients -> Places] /\ ClientInv'
  <1>1. up /\ up' = up /\ pc' = [pc EXCEPT ![c] = to]
    BY DEF Step, process
  <1>2. pc \in [Clients -> Places] /\ ClientInv
    BY DEF TypeInv, TypeOK, Places
  <1>3. pc' \in [Clients -> Places]
    BY <1>1, <1>2
  <1>4. /\ pc'[c] = to /\ request'[c] = what /\ read'[c] = got
        /\ \A d \in Clients \ {c} : pc'[d] = pc[d] /\ request'[d] = request[d] /\ read'[d] = read[d]
    BY <1>1, <1>2 DEF ClientInv
  <1>5. ASSUME NEW d \in Clients
        PROVE  /\ pc'[d] \in {"creating", "saving"} => request'[d].id \in used'
               /\ pc'[d] \in {"read", "publish"} => request'[d].about \in {"servers", "schedules"}
               /\ pc'[d] = "publish" /\ request'[d].about = "servers" => IsList(read'[d])
               /\ pc'[d] = "options" => request'[d].kind \in Kinds
    BY <1>2, <1>4 DEF ClientInv
  <1> QED BY <1>1, <1>2, <1>3, <1>5 DEF ClientInv

(* Requests to the server API.                                              *)
LEMMA TypeServerAPI ==
    ASSUME TypeInv, NEW c \in Clients, ServerAPI(c)
    PROVE  TypeInv'
  <1>1. ASSUME NEW row \in ServerRequests, NEW byId \in {{}} \cup {{i} : i \in ServerIds},
               LookForServer(c, row, byId)
        PROVE  TypeInv'
    <2>1. PICK i \in ServerIds, to \in {"saving", "creating"} :
              /\ Asks(c, to, [about |-> "row", id |-> i, row |-> row])
              /\ i \in used' /\ used \subseteq used' /\ used' \subseteq ServerIds
      BY <1>1 DEF LookForServer, Named, TypeInv, TypeOK
    <2>2. UNCHANGED <<servers, schedules, config, read>>
      BY <1>1 DEF LookForServer
    <2>3. read' = [read EXCEPT ![c] = read[c]]
      BY <2>2 DEF TypeInv, ClientInv
    <2>4. pc' \in [Clients -> Places] /\ ClientInv'
      BY <2>1, <2>3, ClientMoves DEF Asks, Places
    <2>5. UNCHANGED <<process, run>>
      BY <2>1 DEF Asks, Step
    <2>6. TypeOK'
      BY <2>1, <2>2, <2>4, <2>5, BackupUntouched DEF TypeInv, TypeOK, Places
    <2> QED BY <2>2, <2>4, <2>5, <2>6, BackupUntouched DEF TypeInv, ConfigInv
  <1>2. ASSUME CreateServer(c) \/ SaveServer(c) PROVE TypeInv'
    <2>1. PICK from \in Places, to \in {"read", "idle"}, what \in {[about |-> "servers"], NoRequest} :
              /\ Step(c, from, to) /\ request' = [request EXCEPT ![c] = what]
              /\ to = "read" => what = [about |-> "servers"]
              /\ UNCHANGED <<schedules, used, config, read>>
      <3>1. PICK from \in {"creating", "saving"} :
                \/ Step(c, from, "read") /\ \E j, row : WriteServer(c, j, row)
                \/ Step(c, from, "idle") /\ Refused(c)
        BY <1>2 DEF CreateServer, SaveServer
      <3>2. CASE Step(c, from, "read") /\ \E j, row : WriteServer(c, j, row)
        BY <3>2 DEF WriteServer, ServersWritten, ThenReload, Places
      <3>3. CASE Step(c, from, "idle") /\ Refused(c)
        BY <3>3 DEF Refused, Places
      <3> QED BY <3>1, <3>2, <3>3
    <2>2. read' = [read EXCEPT ![c] = read[c]]
      BY <2>1 DEF TypeInv, ClientInv
    <2>3. pc' \in [Clients -> Places] /\ ClientInv'
      <3>1. /\ to \in Places /\ to \notin {"creating", "saving", "publish", "options"}
            /\ to = "read" => what.about \in {"servers", "schedules"}
            /\ used \subseteq used'
        BY <2>1 DEF Places
      <3> QED BY <2>1, <2>2, <3>1, ClientMoves
    <2>4. UNCHANGED <<process, run>>
      BY <2>1 DEF Step
    <2>5. TypeOK'
      BY <1>2, <2>1, <2>3, <2>4, BackupUntouched, WritesKeepNames DEF TypeInv, TypeOK, Places
    <2> QED BY <2>1, <2>3, <2>4, <2>5, BackupUntouched DEF TypeInv, ConfigInv
  <1>3. ASSUME NEW i \in ServerIds, DeleteServer(c, i) PROVE TypeInv'
    <2>1. /\ Step(c, "idle", "read")
          /\ request' = [request EXCEPT ![c] = [about |-> "servers"]]
          /\ UNCHANGED <<schedules, used, config, read>>
      BY <1>3 DEF DeleteServer, ServersWritten, ThenReload
    <2>2. read' = [read EXCEPT ![c] = read[c]]
      BY <2>1 DEF TypeInv, ClientInv
    <2>3. pc' \in [Clients -> Places] /\ ClientInv'
      BY <2>1, <2>2, ClientMoves DEF Places
    <2>4. UNCHANGED <<process, run>>
      BY <2>1 DEF Step
    <2>5. servers' = [j \in DOMAIN servers \ {i} |-> servers[j]]
      BY <1>3 DEF DeleteServer
    <2>6. TypeOK'
      BY <2>1, <2>3, <2>4, <2>5, BackupUntouched DEF TypeInv, TypeOK, Places
    <2> QED BY <2>1, <2>3, <2>4, <2>6, BackupUntouched DEF TypeInv, ConfigInv
  <1> QED BY <1>1, <1>2, <1>3 DEF ServerAPI

(* Requests to the schedule API.                                            *)
LEMMA TypeScheduleAPI ==
    ASSUME TypeInv, NEW c \in Clients, ScheduleAPI(c)
    PROVE  TypeInv'
  <1>1. DOMAIN schedules' \subseteq ScheduleIds /\ SchedulesWritten(c)
    BY DEF ScheduleAPI, SaveSchedule, DeleteSchedule, TypeInv, TypeOK
  <1>2. /\ Step(c, "idle", "read")
        /\ request' = [request EXCEPT ![c] = [about |-> "schedules"]]
        /\ UNCHANGED <<servers, used, config, read>>
    BY <1>1 DEF SchedulesWritten, ThenReload
  <1>3. read' = [read EXCEPT ![c] = read[c]]
    BY <1>2 DEF TypeInv, ClientInv
  <1>4. pc' \in [Clients -> Places] /\ ClientInv'
    BY <1>2, <1>3, ClientMoves DEF Places
  <1>5. UNCHANGED <<process, run>>
    BY <1>2 DEF Step
  <1>6. TypeOK'
    BY <1>1, <1>2, <1>4, <1>5, BackupUntouched DEF TypeInv, TypeOK, Places
  <1> QED BY <1>2, <1>4, <1>5, <1>6, BackupUntouched DEF TypeInv, ConfigInv

(* Options that are set for one server change nothing else of the settings. *)
LEMMA OneServersOptions ==
    ASSUME ConfigInv, NEW n \in DOMAIN config.servers, NEW kind \in Kinds, NEW o,
           config' = [config EXCEPT !.servers[n].options[kind] = o]
    PROVE  /\ ConfigInv'
           /\ config'.types = config.types /\ config'.s3 = config.s3
           /\ config'.legacy = config.legacy
           /\ DOMAIN config'.servers = DOMAIN config.servers
           /\ \A m \in DOMAIN config.servers :
                 /\ config'.servers[m].name = config.servers[m].name
                 /\ config'.servers[m].kind = config.servers[m].kind
                 /\ config'.servers[m].host = config.servers[m].host
                 /\ config'.servers[m].options = IF m = n
                                                 THEN [config.servers[m].options EXCEPT ![kind] = o]
                                                 ELSE config.servers[m].options
           /\ WithoutOptions(config'.servers) = WithoutOptions(config.servers)
  <1> DEFINE old == config.servers
             new == [old EXCEPT ![n].options[kind] = o]
  <1>1. DOMAIN config = {"local", "s3", "metadataDB", "servers", "legacy", "types", "options"}
    BY DEF ConfigInv, FromEnvironment
  <1>2. config' = [config EXCEPT !.servers = new]
    BY <1>1
  <1>3. /\ old \in Seq({old[m] : m \in DOMAIN old})
        /\ \A m \in DOMAIN old : IsServer(old[m])
    BY DEF ConfigInv, IsList
  <1> HIDE DEF old
  <1>4. /\ DOMAIN new = DOMAIN old
        /\ \A m \in DOMAIN old \ {n} : new[m] = old[m]
        /\ new[n] = [old[n] EXCEPT !.options[kind] = o]
    BY DEF old
  <1> DEFINE s == old[n]
             t == [name |-> s.name, kind |-> s.kind, host |-> s.host, include |-> s.include,
                   exclude |-> s.exclude, options |-> [s.options EXCEPT ![kind] = o]]
  <1>5. new[n] = t /\ IsServer(t) /\ [t EXCEPT !.options = NoOptions] = [s EXCEPT !.options = NoOptions]
    <2>1. IsServer(s)
      BY <1>3 DEF old
    <2> HIDE DEF s
    <2>2. [s EXCEPT !.options[kind] = o] = t
      BY <2>1 DEF IsServer
    <2>3. t.options = [mysql |-> t.options.mysql, postgresql |-> t.options.postgresql]
      BY <2>1 DEF IsServer, Kinds
    <2>4. IsServer(t)
      BY <2>3 DEF IsServer
    <2>5. [t EXCEPT !.options = NoOptions] = [s EXCEPT !.options = NoOptions]
      BY <2>1 DEF IsServer
    <2>6. new[n] = [s EXCEPT !.options[kind] = o]
      BY <1>4 DEF s
    <2> QED BY <2>2, <2>4, <2>5, <2>6
  <1> HIDE DEF new, t
  <1>6. IsList(new)
    <2>1. DOMAIN new = 1..Len(old) /\ Len(old) \in Nat
      BY <1>3, <1>4
    <2> DEFINE k == Len(old)
               range == {new[m] : m \in DOMAIN new}
    <2>2. new \in Seq(range)
      <3>1. new = [m \in 1..k |-> new[m]]
        BY <2>1 DEF new
      <3>2. \A m \in 1..k : new[m] \in range
        BY <2>1
      <3> HIDE DEF k, range
      <3>3. [m \in 1..k |-> new[m]] \in Seq(range)
        BY <2>1, <3>2 DEF k
      <3> QED BY <3>1, <3>3
    <2> QED BY <2>2, <1>3, <1>4, <1>5 DEF IsList
  <1>7. WithoutOptions(new) = WithoutOptions(old)
    BY <1>4, <1>5 DEF WithoutOptions
  <1>8. /\ DOMAIN config' = DOMAIN config /\ config'.servers = new
        /\ config'.types = config.types /\ config'.s3 = config.s3
        /\ config'.legacy = config.legacy /\ config'.local = config.local
        /\ config'.metadataDB = config.metadataDB /\ config'.options = config.options
    BY <1>1, <1>2
  <1>9. ConfigInv'
    BY <1>6, <1>8 DEF ConfigInv
  <1>10. \A m \in DOMAIN old :
            /\ new[m].name = old[m].name /\ new[m].kind = old[m].kind /\ new[m].host = old[m].host
            /\ new[m].options = IF m = n THEN [old[m].options EXCEPT ![kind] = o] ELSE old[m].options
    BY <1>4, <1>5 DEF t
  <1> QED BY <1>4, <1>7, <1>8, <1>9, <1>10 DEF old

(* A client that takes options to a server of the list in force, or ends.   *)
LEMMA TypeInMemory ==
    ASSUME TypeInv, NEW c \in Clients, NEW from, NEW to \in {"idle", "options"}, NEW what,
           InMemory(c, from, to), request' = [request EXCEPT ![c] = what],
           to = "options" => what.kind \in Kinds,
           ConfigInv'
    PROVE  TypeInv'
  <1>1. Step(c, from, to) /\ UNCHANGED <<servers, schedules, used, read>>
    BY DEF InMemory
  <1>2. read' = [read EXCEPT ![c] = read[c]]
    BY <1>1 DEF TypeInv, ClientInv
  <1>3. pc' \in [Clients -> Places] /\ ClientInv'
    <2>1. /\ to \in Places /\ to \notin {"creating", "saving", "read", "publish"}
          /\ used \subseteq used'
      BY <1>1 DEF Places
    <2> QED BY <1>1, <1>2, <2>1, ClientMoves
  <1>4. UNCHANGED <<process, run>>
    BY <1>1 DEF Step
  <1>5. TypeOK'
    BY <1>1, <1>3, <1>4, BackupUntouched DEF TypeInv, TypeOK, Places
  <1> QED BY <1>3, <1>4, <1>5, BackupUntouched DEF TypeInv

(* Settings that do not concern servers are put into config.CFG.            *)
LEMMA OtherSettings ==
    ASSUME ConfigInv,
           \/ UNCHANGED config
           \/ \E s3 : config' = [config EXCEPT !.s3 = s3]
           \/ \E kind \in Kinds : \E o : config' = [config EXCEPT !.options[kind] = o]
           \/ \E types : config' = [config EXCEPT !.types = types]
    PROVE  /\ ConfigInv'
           /\ config'.servers = config.servers /\ config'.legacy = config.legacy
  <1>1. DOMAIN config = {"local", "s3", "metadataDB", "servers", "legacy", "types", "options"}
    BY DEF ConfigInv, FromEnvironment
  <1>2. /\ DOMAIN config' = DOMAIN config /\ DOMAIN config'.options = DOMAIN config.options
        /\ config'.local = config.local /\ config'.metadataDB = config.metadataDB
        /\ config'.servers = config.servers /\ config'.legacy = config.legacy
    BY <1>1
  <1> QED BY <1>2 DEF ConfigInv

(* What a request about dump options does.                                  *)
Asked(c) ==
    \E n \in DOMAIN config.servers, o \in OptionRequests \cup {"none"} :
        config.servers[n].kind \in Kinds /\ FindServer(c, config.servers[n].kind, n, o)

OptionsSet == \E kind \in Kinds, o \in OptionRequests : config' = [config EXCEPT !.options[kind] = o]

(* The steps of a request for dump options, as far as the options go.       *)
LEMMA OptionRequestSteps ==
    ASSUME TypeInv, NEW c \in Clients, OptionsAPI(c)
    PROVE  \/ Asked(c) /\ (OptionsSet \/ UNCHANGED config)
           \/ InMemory(c, "idle", "idle") /\ UNCHANGED <<request, named>> /\ OptionsSet
           \/ SetServerOptions(c)
  <1>1. ASSUME NEW kind \in Kinds, NEW o \in OptionRequests, NEW names, SetOptions(c, kind, o, names)
        PROVE  /\ OptionsSet
               /\ Asked(c) \/ (InMemory(c, "idle", "idle") /\ UNCHANGED <<request, named>>)
    BY <1>1 DEF SetOptions, PlacesOf, Asked, OptionsSet
  <1>2. ASSUME NEW kind \in Kinds, NEW o \in OptionRequests \cup {"none"}, NEW name,
               SetOrClear(c, kind, name, o)
        PROVE  Asked(c) /\ UNCHANGED config
    BY <1>2 DEF SetOrClear, PlacesOf, Asked
  <1>3. "mysql" \in Kinds /\ "postgresql" \in Kinds
    BY DEF Kinds
  <1> QED BY <1>1, <1>2, <1>3 DEF OptionsAPI, updateMySQLOptions, updatePostgreSQLOptions,
                                  updateServerMySQLOptions, updateServerPostgreSQLOptions,
                                  deleteServerMySQLOptions, deleteServerPostgreSQLOptions

(* Requests about dump options and S3 settings.                             *)
LEMMA TypeOptionsAPI ==
    ASSUME TypeInv, NEW c \in Clients,
           OptionsAPI(c) \/ \E s3 \in S3Requests : updateS3Config(c, s3)
    PROVE  TypeInv'
  <1>1. ConfigInv
    BY DEF TypeInv
  <1>2. OptionsSet \/ UNCHANGED config => ConfigInv'
    BY <1>1, OtherSettings DEF OptionsSet
  <1>3. request = [request EXCEPT ![c] = request[c]]
    BY DEF TypeInv, ClientInv
  <1>4. CASE Asked(c) /\ (OptionsSet \/ UNCHANGED config)
    <2>1. PICK n \in DOMAIN config.servers, o \in OptionRequests \cup {"none"} :
              config.servers[n].kind \in Kinds /\ FindServer(c, config.servers[n].kind, n, o)
      BY <1>4 DEF Asked
    <2> DEFINE what == [about |-> "options", kind |-> config.servers[n].kind,
                        place |-> n, options |-> o]
    <2>2. request' = [request EXCEPT ![c] = what] /\ InMemory(c, "idle", "options")
      BY <2>1 DEF FindServer
    <2>3. what.kind \in Kinds
      BY <2>1
    <2> HIDE DEF what
    <2> QED BY <1>2, <1>4, <2>2, <2>3, TypeInMemory
  <1>5. CASE InMemory(c, "idle", "idle") /\ UNCHANGED <<request, named>> /\ OptionsSet
    BY <1>2, <1>3, <1>5, TypeInMemory
  <1>6. CASE SetServerOptions(c)
    <2>1. request[c].kind \in Kinds
      BY <1>6 DEF SetServerOptions, TypeInv, ClientInv
    <2>2. ConfigInv'
      BY <1>1, <1>2, <1>6, <2>1, OneServersOptions DEF SetServerOptions
    <2>3. request' = [request EXCEPT ![c] = NoRequest] /\ InMemory(c, "options", "idle")
      BY <1>6 DEF SetServerOptions
    <2> QED BY <2>2, <2>3, TypeInMemory
  <1>7. ASSUME NEW s3 \in S3Requests, updateS3Config(c, s3) PROVE TypeInv'
    <2>1. ConfigInv'
      BY <1>1, <1>7, OtherSettings DEF updateS3Config
    <2>2. UNCHANGED request /\ InMemory(c, "idle", "idle")
      BY <1>7 DEF updateS3Config
    <2> QED BY <1>3, <2>1, <2>2, TypeInMemory
  <1> QED BY <1>4, <1>5, <1>6, <1>7, OptionRequestSteps

(* The goroutines that load a table.                                        *)
LEMMA TypeReload ==
    ASSUME TypeInv, NEW c \in Clients, Reload(c)
    PROVE  TypeInv'
  <1>1. ConfigInv /\ TypeOK /\ ClientInv
    BY DEF TypeInv
  <1>2. /\ read = [read EXCEPT ![c] = read[c]] /\ request = [request EXCEPT ![c] = request[c]]
    BY <1>1 DEF ClientInv
  <1>3. ASSUME NEW from, NEW to \in Places, NEW what, NEW got, Step(c, from, to),
               pc' \in [Clients -> Places] /\ ClientInv', UNCHANGED <<servers, schedules, used>>,
               ConfigInv'
        PROVE  TypeInv'
    <2>1. UNCHANGED <<process, run>>
      BY <1>3 DEF Step
    <2>2. TypeOK'
      BY <1>1, <1>3, <2>1, BackupUntouched DEF TypeOK, Places
    <2> QED BY <1>3, <2>1, <2>2, BackupUntouched DEF TypeInv
  <1>4. ASSUME ReadFails(c) PROVE TypeInv'
    <2>1. /\ Step(c, "read", "idle") /\ request' = [request EXCEPT ![c] = NoRequest]
          /\ UNCHANGED <<servers, schedules, used, config, read>>
      BY <1>4 DEF ReadFails
    <2>2. pc' \in [Clients -> Places] /\ ClientInv'
      BY <1>2, <2>1, ClientMoves DEF Places
    <2> QED BY <1>1, <1>3, <2>1, <2>2 DEF Places, ConfigInv
  <1>5. ASSUME ReadTable(c) PROVE TypeInv'
    <2>1. /\ Step(c, "read", "publish") /\ read' = [read EXCEPT ![c] = Answer(request[c].about)]
          /\ UNCHANGED <<servers, schedules, used, config, request>>
      BY <1>5 DEF ReadTable
    <2>2. request[c].about = "servers" => IsList(Answer(request[c].about))
      BY <1>1, TablesAreFinite, TablesMakeLists DEF Answer
    <2>3. request[c].about \in {"servers", "schedules"}
      BY <1>1, <2>1 DEF ClientInv, Step
    <2>4. pc' \in [Clients -> Places] /\ ClientInv'
      BY <1>2, <2>1, <2>2, <2>3, ClientMoves DEF Places
    <2> QED BY <1>1, <1>3, <2>1, <2>4 DEF Places, ConfigInv
  <1>6. ASSUME PublishServers(c) PROVE TypeInv'
    <2>1. /\ Step(c, "publish", "idle") /\ request[c].about = "servers"
          /\ config' = [config EXCEPT !.servers = read[c]]
          /\ request' = [request EXCEPT ![c] = NoRequest] /\ read' = [read EXCEPT ![c] = << >>]
          /\ UNCHANGED <<servers, schedules, used>>
      BY <1>6 DEF PublishServers, Replace
    <2>2. IsList(read[c])
      BY <1>1, <2>1 DEF ClientInv, Step
    <2>3. /\ DOMAIN config' = DOMAIN config /\ config'.servers = read[c]
          /\ config'.options = config.options /\ config'.local = config.local
          /\ config'.metadataDB = config.metadataDB /\ config'.legacy = config.legacy
      BY <1>1, <2>1 DEF ConfigInv, FromEnvironment
    <2>4. ConfigInv'
      BY <1>1, <2>2, <2>3 DEF ConfigInv
    <2>5. pc' \in [Clients -> Places] /\ ClientInv'
      BY <2>1, ClientMoves DEF Places
    <2> QED BY <1>3, <2>1, <2>4, <2>5 DEF Places
  <1>7. ASSUME PublishSchedules(c) PROVE TypeInv'
    <2>1. /\ Step(c, "publish", "idle")
          /\ config' = [config EXCEPT !.types = read[c]]
          /\ request' = [request EXCEPT ![c] = NoRequest] /\ read' = [read EXCEPT ![c] = << >>]
          /\ UNCHANGED <<servers, schedules, used>>
      BY <1>7 DEF PublishSchedules
    <2>2. ConfigInv'
      BY <1>1, <2>1, OtherSettings
    <2>3. pc' \in [Clients -> Places] /\ ClientInv'
      BY <2>1, ClientMoves DEF Places
    <2> QED BY <1>3, <2>1, <2>2, <2>3 DEF Places
  <1> QED BY <1>4, <1>5, <1>6, <1>7 DEF Reload

(* The process comes up and ends.                                           *)
LEMMA TypeProcess ==
    ASSUME TypeInv, Boot \/ Die
    PROVE  TypeInv'
  <1>1. TypeOK /\ ConfigInv /\ ClientInv /\ RunShape
    BY DEF TypeInv
  <1>2. CASE Boot
    <2>1. /\ ~up /\ up' /\ config' = AtStart(servers, schedules)
          /\ stores' \in NewManagers(FromEnvironment)
          /\ UNCHANGED <<servers, schedules, used, pc, request, read, run>>
      BY <1>2 DEF Boot
    <2>2. DOMAIN NoOptions = Kinds
      BY DEF NoOptions, Kinds
    <2>3. ConfigInv'
      BY <1>1, <2>1, <2>2, Starts DEF ConfigInv
    <2>4. TypeOK' /\ ClientInv' /\ RunShape'
      BY <1>1, <2>1 DEF TypeOK, ClientInv, RunShape
    <2> QED BY <2>3, <2>4 DEF TypeInv
  <1>3. CASE Die
    <2>1. ConfigInv'
      <3>1. config' = FromEnvironment
        BY <1>3 DEF Die
      <3>2. IsList(<< >>)
        BY DEF IsList
      <3>3. IsServer(NoServer)
        BY DEF NoServer, NoOptions, IsServer
      <3>4. DOMAIN NoOptions = Kinds
        BY DEF NoOptions, Kinds
      <3>5. /\ FromEnvironment.options = NoOptions
            /\ FromEnvironment.servers = << >> /\ FromEnvironment.legacy = NoServer
        BY DEF FromEnvironment
      <3> QED BY <3>1, <3>2, <3>3, <3>4, <3>5 DEF ConfigInv
    <2>2. ClientInv' /\ RunShape'
      BY <1>3 DEF Die, ClientInv, RunShape, NoRun
    <2>3. TypeOK'
      BY <1>1, <1>3 DEF Die, TypeOK, NoRun
    <2> QED BY <2>1, <2>2, <2>3 DEF TypeInv
  <1> QED BY <1>2, <1>3

(* The servers a backup takes, of a list or from the legacy settings.       *)
LEMMA ListsToBackUp ==
    ASSUME ConfigInv
    PROVE  /\ IsList(ListToBackUp)
           /\ ListToBackUp # << >> => 1 \in DOMAIN ListToBackUp
           /\ \/ ListToBackUp = config.servers
              \/ config.servers = << >> /\ ListToBackUp = <<LegacyServer>>
           /\ LegacyServer.name = "default" /\ LegacyServer.host = config.legacy.host
  <1>1. IsServer(config.legacy) /\ IsList(config.servers)
    BY DEF ConfigInv
  <1>2. /\ IsServer(LegacyServer)
        /\ LegacyServer.name = "default" /\ LegacyServer.host = config.legacy.host
    BY <1>1 DEF LegacyServer, IsServer
  <1> HIDE DEF LegacyServer
  <1>3. IsList(<<LegacyServer>>)
    <2>1. /\ DOMAIN <<LegacyServer>> = {1} /\ <<LegacyServer>>[1] = LegacyServer
          /\ <<LegacyServer>> \in Seq({LegacyServer})
      OBVIOUS
    <2>2. {<<LegacyServer>>[n] : n \in DOMAIN <<LegacyServer>>} = {LegacyServer}
      BY <2>1
    <2> QED BY <1>2, <2>1, <2>2 DEF IsList
  <1>4. IsList(<< >>)
    BY DEF IsList
  <1>5. IsList(ListToBackUp)
    BY <1>1, <1>3, <1>4 DEF ListToBackUp
  <1>6. ListToBackUp # << >> => 1 \in DOMAIN ListToBackUp
    BY <1>5 DEF IsList
  <1> QED BY <1>1, <1>2, <1>5, <1>6 DEF ListToBackUp

(* What a step of a backup that does not end the process does to it.        *)
BackupMoves(r) == Backup(r) /\ r.at \in {"idle", "server", "database", "found"} /\ DOMAIN r = DOMAIN NoRun

(* The steps of a backup, as moves from one place of its loops to another.  *)
LEMMA BackupSteps ==
    ASSUME TypeInv, RunBackup
    PROVE  \/ Panic
           \/ Begin /\ run.at = "idle" /\ \E r : BackupMoves(r) /\ r = [NoRun EXCEPT !.at = "server", !.list = ListToBackUp, !.n = 1]
           \/ NextServer /\ run.at \in {"server", "database"}
              /\ \E r : /\ BackupMoves(r)
                        /\ \/ r = NoRun
                           \/ /\ r.at = "server" /\ r.list = run.list /\ r.n \in DOMAIN r.list
                              /\ lists' = lists
           \/ /\ run.at = "server" /\ lists' = lists
              /\ BackupMoves([run EXCEPT !.at = "database", !.todo = Chosen(run.list[run.n])])
           \/ \E db \in run.todo : FindHost(db)
           \/ Dump
  <1>1. DOMAIN run = DOMAIN NoRun /\ (run.at # "idle" => IsList(run.list))
    BY DEF TypeInv, RunShape
  <1>2. DOMAIN NoRun = {"at", "list", "n", "todo", "db", "place"} /\ NoRun.at = "idle"
    BY DEF NoRun
  <1>3. ASSUME NextServer, run.at \in {"server", "database"}
        PROVE  \E r : /\ BackupMoves(r)
                      /\ \/ r = NoRun
                         \/ /\ r.at = "server" /\ r.list = run.list /\ r.n \in DOMAIN r.list
                            /\ lists' = lists
    <2>1. CASE run.n < Len(run.list) /\ Backup([run EXCEPT !.at = "server", !.n = @ + 1]) /\ lists' = lists
      <3> DEFINE r == [run EXCEPT !.at = "server", !.n = @ + 1]
      <3>1. DOMAIN r = DOMAIN NoRun /\ r.at = "server" /\ r.list = run.list /\ r.n = run.n + 1
        BY <1>1, <1>2
      <3>2. run.n \in DOMAIN run.list /\ IsList(run.list)
        BY <1>1, <1>3 DEF TypeInv, TypeOK
      <3>3. run.n + 1 \in DOMAIN run.list
        BY <2>1, <3>2 DEF IsList
      <3> HIDE DEF r
      <3>4. Backup(r) /\ lists' = lists
        BY <2>1 DEF r
      <3> QED BY <3>1, <3>3, <3>4 DEF BackupMoves
    <2>2. CASE Backup(NoRun)
      BY <1>2, <2>2 DEF BackupMoves
    <2> QED BY <1>3, <2>1, <2>2 DEF NextServer
  <1>4. CASE Begin
    <2> DEFINE r == [NoRun EXCEPT !.at = "server", !.list = ListToBackUp, !.n = 1]
    <2>1. Backup(r) /\ run.at = "idle"
      BY <1>4 DEF Begin
    <2>2. DOMAIN r = DOMAIN NoRun /\ r.at = "server"
      BY DEF NoRun
    <2>3. BackupMoves(r)
      BY <2>1, <2>2 DEF BackupMoves
    <2> QED BY <1>4, <2>1, <2>3
  <1>5. CASE ChooseDatabases
    <2>1. run.at = "server"
      BY <1>5 DEF ChooseDatabases
    <2>2. CASE NextServer
      BY <1>3, <2>1, <2>2
    <2>3. CASE lists' = lists /\ Backup([run EXCEPT !.at = "database", !.todo = Chosen(run.list[run.n])])
      <3> DEFINE r == [run EXCEPT !.at = "database", !.todo = Chosen(run.list[run.n])]
      <3>1. DOMAIN r = DOMAIN NoRun /\ r.at = "database"
        BY <1>1, <1>2
      <3>2. BackupMoves(r) /\ lists' = lists
        BY <2>3, <3>1 DEF BackupMoves
      <3> QED BY <2>1, <3>2
    <2> QED BY <1>5, <2>2, <2>3 DEF ChooseDatabases
  <1>6. CASE EndOfServer
    BY <1>3, <1>6 DEF EndOfServer
  <1> QED BY <1>4, <1>5, <1>6 DEF RunBackup

(* The steps of a backup.                                                   *)
LEMMA TypeBackup ==
    ASSUME TypeInv, RunBackup
    PROVE  TypeInv'
  <1>1. TypeOK /\ ConfigInv /\ ClientInv /\ RunShape
    BY DEF TypeInv
  <1>2. ASSUME NEW r, BackupMoves(r), r.at # "idle" => IsList(r.list) /\ r.n \in DOMAIN r.list
        PROVE  TypeInv'
    <2>1. /\ run' = r /\ up
          /\ UNCHANGED <<servers, schedules, used, up, stores, config, pc, request, read>>
      BY <1>2 DEF BackupMoves, Backup, process
    <2>2. TypeOK' /\ RunShape'
      BY <1>1, <1>2, <2>1 DEF BackupMoves, TypeOK, RunShape
    <2>3. ConfigInv' /\ ClientInv'
      BY <1>1, <2>1 DEF ConfigInv, ClientInv
    <2> QED BY <2>2, <2>3 DEF TypeInv
  <1>3. /\ DOMAIN run = DOMAIN NoRun
        /\ run.at # "idle" => IsList(run.list) /\ run.n \in DOMAIN run.list
    BY <1>1 DEF RunShape, TypeOK
  <1>4. DOMAIN NoRun = {"at", "list", "n", "todo", "db", "place"} /\ NoRun.at = "idle"
    BY DEF NoRun
  <1>5. ASSUME NEW r, BackupMoves(r), r.list = run.list, r.n = run.n, run.at # "idle"
        PROVE  TypeInv'
    BY <1>2, <1>3, <1>5
  <1>6. CASE Panic
    BY <1>6, TypeProcess DEF Panic
  <1>7. ASSUME NEW r, BackupMoves(r), r = [NoRun EXCEPT !.at = "server", !.list = ListToBackUp, !.n = 1],
               Begin
        PROVE  TypeInv'
    <2>1. r.list = ListToBackUp /\ r.n = 1
      BY <1>7, <1>4
    <2>2. ListToBackUp # << >>
      BY <1>7 DEF Begin
    <2> QED BY <1>1, <1>2, <1>7, <2>1, <2>2, ListsToBackUp
  <1>8. ASSUME NEW r, BackupMoves(r), run.at \in {"server", "database"},
               r = NoRun \/ (r.list = run.list /\ r.n \in DOMAIN r.list)
        PROVE  TypeInv'
    BY <1>2, <1>3, <1>4, <1>8
  <1>9. CASE run.at = "server" /\ BackupMoves([run EXCEPT !.at = "database", !.todo = Chosen(run.list[run.n])])
    <2> DEFINE r == [run EXCEPT !.at = "database", !.todo = Chosen(run.list[run.n])]
    <2>1. r.list = run.list /\ r.n = run.n
      BY <1>3, <1>4
    <2> HIDE DEF r
    <2>2. BackupMoves(r)
      BY <1>9 DEF r
    <2> QED BY <1>5, <1>9, <2>1, <2>2
  <1>10. ASSUME NEW db \in run.todo, FindHost(db) PROVE TypeInv'
    <2>1. run.at = "database"
      BY <1>10 DEF FindHost
    <2>2. PICK r : /\ Backup(r) /\ DOMAIN r = DOMAIN NoRun
                   /\ r.at \in {"database", "found"} /\ r.list = run.list /\ r.n = run.n
      <3>1. CASE Backup([run EXCEPT !.todo = @ \ {db}])
        BY <1>3, <1>4, <2>1, <3>1
      <3>2. ASSUME NEW p, Backup([run EXCEPT !.at = "found", !.todo = @ \ {db}, !.db = db, !.place = p])
            PROVE  \E r : /\ Backup(r) /\ DOMAIN r = DOMAIN NoRun
                          /\ r.at \in {"database", "found"} /\ r.list = run.list /\ r.n = run.n
        <4> DEFINE r == [run EXCEPT !.at = "found", !.todo = @ \ {db}, !.db = db, !.place = p]
        <4>1. DOMAIN r = DOMAIN NoRun /\ r.at = "found" /\ r.list = run.list /\ r.n = run.n
          BY <1>3, <1>4
        <4> HIDE DEF r
        <4>2. Backup(r)
          BY <3>2 DEF r
        <4> QED BY <4>1, <4>2
      <3> QED BY <1>10, <3>1, <3>2 DEF FindHost
    <2> QED BY <1>5, <2>1, <2>2 DEF BackupMoves
  <1>11. CASE Dump
    <2> DEFINE r == [run EXCEPT !.at = "database", !.db = "", !.place = 0]
    <2>1. DOMAIN r = DOMAIN NoRun /\ r.at = "database" /\ r.list = run.list /\ r.n = run.n
      BY <1>3, <1>4
    <2> HIDE DEF r
    <2>2. Backup(r) /\ run.at = "found"
      BY <1>11 DEF Dump, r
    <2> QED BY <1>5, <2>1, <2>2 DEF BackupMoves
  <1> QED BY <1>6, <1>7, <1>8, <1>9, <1>10, <1>11, BackupSteps

(* Every step keeps the types.                                              *)
LEMMA TypeStep ==
    ASSUME TypeInv, [Next]_vars
    PROVE  TypeInv'
  <1>1. CASE UNCHANGED vars
    <2>1. /\ UNCHANGED <<servers, schedules, used, up, config, stores, pc, request, read, run>>
      BY <1>1 DEF vars
    <2> QED BY <2>1 DEF TypeInv, TypeOK, ConfigInv, ClientInv, RunShape
  <1>2. CASE Next
    BY <1>2, TypeProcess, TypeBackup, TypeServerAPI, TypeScheduleAPI, TypeOptionsAPI, TypeReload
       DEF Next, Restart
  <1> QED BY <1>1, <1>2

(* The types hold throughout.                                               *)
LEMMA TypeInvariant == Spec => []TypeInv
  <1>1. Init => TypeInv
    BY TypeStart
  <1>2. TypeInv /\ [Next]_vars => TypeInv'
    BY TypeStep
  <1> QED BY <1>1, <1>2, PTL DEF Spec

(* The state keeps its shape, and no two rows of servers have one name,     *)
(* whichever way createOrUpdateServer finds the row it writes.              *)
THEOREM SettingsTypeCorrect == Spec => []TypeOK
  <1>1. TypeInv => TypeOK
    BY DEF TypeInv
  <1> QED BY <1>1, TypeInvariant, PTL

-------------------------------------------------------------------------------
(* A write of a table, and the steps that leave tables, goroutines and what *)
(* they published alone.                                                    *)
IsWrite(c, table) ==
    /\ pc[c] \notin {"read", "publish"} /\ pc' = [pc EXCEPT ![c] = "read"]
    /\ request' = [request EXCEPT ![c] = [about |-> table]]
    /\ overlapped' = overlapped \cup {t \in {table} : Loading(t) # {}}
    /\ UNCHANGED <<up, config, read, unread>>
    /\ table = "servers" => ~published' /\ UNCHANGED schedules
    /\ table = "schedules" => UNCHANGED <<published, servers>>

Aside ==
    /\ UNCHANGED <<servers, schedules, up, read, unread, overlapped, published>>
    /\ \A c \in Clients : pc[c] \in {"read", "publish"} \/ pc'[c] \in {"read", "publish"} =>
                             pc'[c] = pc[c] /\ request'[c] = request[c]
    /\ config'.types = config.types
    /\ WithoutOptions(config'.servers) = WithoutOptions(config.servers)

(* A client that moves between places where it loads nothing.               *)
LEMMA MovesAside ==
    ASSUME TypeInv, NEW c \in Clients,
           NEW from \in {"idle", "creating", "saving", "options"},
           NEW to \in {"idle", "creating", "saving", "options"}, NEW what,
           Step(c, from, to), request' = [request EXCEPT ![c] = what],
           UNCHANGED <<servers, schedules, read, unread, overlapped, published>>,
           config'.types = config.types,
           WithoutOptions(config'.servers) = WithoutOptions(config.servers)
    PROVE  Aside
  <1>1. pc[c] = from /\ pc' = [pc EXCEPT ![c] = to] /\ up' = up
    BY DEF Step, process
  <1>2. pc \in [Clients -> Places] /\ request = [d \in Clients |-> request[d]]
    BY DEF TypeInv, TypeOK, ClientInv, Places
  <1> QED BY <1>1, <1>2 DEF Aside

(* Every step is one of these, or of a goroutine, or of the process.        *)
LEMMA StepKinds ==
    ASSUME TypeInv, Next
    PROVE  \/ Boot \/ Die \/ Aside
           \/ \E c \in Clients : IsWrite(c, "servers") \/ IsWrite(c, "schedules") \/ Reload(c)
  <1>1. request = [d \in Clients |-> request[d]] /\ ConfigInv
    BY DEF TypeInv, ClientInv
  <1>2. CASE Boot \/ Restart
    BY <1>2 DEF Restart
  <1>3. CASE RunBackup
    <2>1. CASE Panic
      BY <2>1 DEF Panic
    <2>2. ASSUME NEW r, Backup(r) PROVE Aside
      BY <2>2 DEF Backup, Aside, process, ghosts
    <2> QED BY <1>3, <2>1, <2>2, BackupSteps DEF BackupMoves, FindHost, Dump
  <1>4. ASSUME NEW c \in Clients, ServerAPI(c) PROVE Aside \/ IsWrite(c, "servers")
    <2>1. ASSUME NEW row \in ServerRequests, NEW byId \in {{}} \cup {{i} : i \in ServerIds},
                 LookForServer(c, row, byId)
          PROVE  Aside
      <3>1. PICK i \in ServerIds, to \in {"saving", "creating"} :
                Asks(c, to, [about |-> "row", id |-> i, row |-> row])
        BY <2>1 DEF LookForServer, Named, TypeInv, TypeOK
      <3>2. UNCHANGED <<servers, schedules, config, read, unread, overlapped, published>>
        BY <2>1 DEF LookForServer, ghosts
      <3> DEFINE what == [about |-> "row", id |-> i, row |-> row]
      <3>3. Step(c, "idle", to) /\ request' = [request EXCEPT ![c] = what]
        BY <3>1 DEF Asks
      <3> HIDE DEF what
      <3> QED BY <3>2, <3>3, MovesAside
    <2>2. ASSUME NEW from \in {"idle", "creating", "saving"}, Step(c, from, "read"), ServersWritten(c)
          PROVE  IsWrite(c, "servers")
      BY <2>2 DEF Step, ServersWritten, ThenReload, IsWrite, process
    <2>3. ASSUME NEW from \in {"creating", "saving"}, Step(c, from, "idle"), Refused(c)
          PROVE  Aside
      BY <2>3, MovesAside DEF Refused, ghosts
    <2> QED BY <1>4, <2>1, <2>2, <2>3
            DEF ServerAPI, CreateServer, SaveServer, DeleteServer, WriteServer
  <1>5. ASSUME NEW c \in Clients, ScheduleAPI(c) PROVE IsWrite(c, "schedules")
    <2>1. SchedulesWritten(c)
      BY <1>5 DEF ScheduleAPI, SaveSchedule, DeleteSchedule
    <2> QED BY <2>1 DEF SchedulesWritten, ThenReload, Step, IsWrite, process
  <1>6. ASSUME NEW c \in Clients, OptionsAPI(c) \/ \E s3 \in S3Requests : updateS3Config(c, s3)
        PROVE  Aside
    <2>1. ASSUME NEW from \in {"idle", "options"}, NEW to \in {"idle", "options"}, NEW what,
                 InMemory(c, from, to), request' = [request EXCEPT ![c] = what],
                 config'.types = config.types,
                 WithoutOptions(config'.servers) = WithoutOptions(config.servers)
          PROVE  Aside
      BY <2>1, MovesAside DEF InMemory
    <2>2. request = [request EXCEPT ![c] = request[c]]
      BY <1>1
    <2>3. ASSUME OptionsSet \/ UNCHANGED config
          PROVE  config'.types = config.types /\ config'.servers = config.servers
      BY <1>1, <2>3 DEF OptionsSet, ConfigInv, FromEnvironment
    <2>4. CASE Asked(c) /\ (OptionsSet \/ UNCHANGED config)
      BY <2>1, <2>3, <2>4 DEF Asked, FindServer
    <2>5. CASE InMemory(c, "idle", "idle") /\ UNCHANGED <<request, named>> /\ OptionsSet
      BY <2>1, <2>2, <2>3, <2>5
    <2>6. CASE SetServerOptions(c)
      <3>1. request[c].kind \in Kinds
        BY <2>6 DEF SetServerOptions, TypeInv, ClientInv
      <3>2. config'.types = config.types /\ WithoutOptions(config'.servers) = WithoutOptions(config.servers)
        <4> DEFINE n == request[c].place
                   kind == request[c].kind
                   options == request[c].options
        <4>1. \/ /\ n \in DOMAIN config.servers /\ kind \in Kinds
                 /\ config' = [config EXCEPT !.servers[n].options[kind] = options]
              \/ UNCHANGED config
          BY <2>6, <3>1 DEF SetServerOptions
        <4> HIDE DEF n, kind, options
        <4> QED BY <1>1, <4>1, OneServersOptions
      <3>3. InMemory(c, "options", "idle") /\ request' = [request EXCEPT ![c] = NoRequest]
        BY <2>6 DEF SetServerOptions
      <3> QED BY <2>1, <3>2, <3>3
    <2>7. ASSUME NEW s3 \in S3Requests, updateS3Config(c, s3) PROVE Aside
      <3>1. config'.types = config.types /\ config'.servers = config.servers
        BY <1>1, <2>7 DEF updateS3Config, ConfigInv, FromEnvironment
      <3>2. InMemory(c, "idle", "idle") /\ UNCHANGED request
        BY <2>7 DEF updateS3Config
      <3> QED BY <2>1, <2>2, <3>1, <3>2
    <2> QED BY <1>6, <2>4, <2>5, <2>6, <2>7, OptionRequestSteps
  <1> QED BY <1>2, <1>3, <1>4, <1>5, <1>6 DEF Next

(* A start puts both tables in force.                                       *)
LEMMA StartsInForce ==
    ASSUME TypeInv, Boot
    PROVE  \A table \in {"servers", "schedules"} : InForce(table)' /\ Loading(table)' = {}
  <1>1. /\ config' = AtStart(servers, schedules) /\ UNCHANGED <<servers, schedules, pc, request>>
        /\ ~up
    BY DEF Boot
  <1>2. config'.servers = ServersOf(servers) /\ WithoutOptions(ServersOf(servers)) = ServersOf(servers)
    BY <1>1, Starts, TablesAreFinite, TablesMakeLists DEF TypeInv
  <1>3. config'.types = IF DOMAIN TypesOf(schedules) = {} THEN DefaultTypes ELSE TypesOf(schedules)
    BY <1>1, Starts DEF TypeInv
  <1>4. \A c \in Clients : pc'[c] = "idle"
    BY <1>1 DEF TypeInv, ClientInv
  <1> QED BY <1>1, <1>2, <1>3, <1>4 DEF InForce, Loading

(* What a goroutine's step does to what is said of a table.                 *)
LEMMA ReloadMoves ==
    ASSUME TypeInv, NEW c \in Clients, Reload(c)
    PROVE  LET about == request[c].about
           IN  /\ up /\ UNCHANGED <<servers, schedules, up, overlapped>>
               /\ \A d \in Clients \ {c} : pc'[d] = pc[d] /\ request'[d] = request[d] /\ read'[d] = read[d]
               /\ about \in {"servers", "schedules"}
               /\ \/ /\ pc[c] = "read" /\ pc'[c] = "idle"
                     /\ unread' = unread \cup {about} /\ UNCHANGED <<config, published>>
                  \/ /\ pc[c] = "read" /\ pc'[c] = "publish" /\ request'[c] = request[c]
                     /\ read'[c] = Answer(about) /\ unread' = unread \ {about}
                     /\ UNCHANGED <<config, published>>
                  \/ /\ pc[c] = "publish" /\ pc'[c] = "idle" /\ about = "servers"
                     /\ config'.servers = read[c] /\ config'.types = config.types
                     /\ published' = (published \/ read[c] = ServersOf(servers))
                     /\ UNCHANGED unread
                  \/ /\ pc[c] = "publish" /\ pc'[c] = "idle" /\ about = "schedules"
                     /\ config'.types = read[c] /\ config'.servers = config.servers
                     /\ UNCHANGED <<unread, published>>
  <1>1. /\ pc \in [Clients -> Places] /\ ClientInv
        /\ request = [d \in Clients |-> request[d]] /\ read = [d \in Clients |-> read[d]]
        /\ DOMAIN config = {"local", "s3", "metadataDB", "servers", "legacy", "types", "options"}
    BY DEF TypeInv, TypeOK, Places, ClientInv, ConfigInv, FromEnvironment
  <1>2. pc[c] \in {"read", "publish"} => request[c].about \in {"servers", "schedules"}
    BY <1>1 DEF ClientInv
  <1>3. CASE ReadFails(c)
    BY <1>1, <1>2, <1>3 DEF ReadFails, Step, process
  <1>4. CASE ReadTable(c)
    BY <1>1, <1>2, <1>4 DEF ReadTable, Step, process
  <1>5. CASE PublishServers(c)
    BY <1>1, <1>2, <1>5 DEF PublishServers, Replace, Step, process
  <1>6. CASE PublishSchedules(c)
    BY <1>1, <1>2, <1>6 DEF PublishSchedules, Step, process, ghosts
  <1> QED BY <1>3, <1>4, <1>5, <1>6 DEF Reload

(* ... and what a write of a table does.                                    *)
LEMMA WriteMoves ==
    ASSUME TypeInv, NEW c \in Clients, NEW table \in {"servers", "schedules"}, IsWrite(c, table)
    PROVE  /\ Loading(table)' = Loading(table) \cup {c} /\ c \notin Loading(table)
           /\ \A t \in {"servers", "schedules"} \ {table} : Loading(t)' = Loading(t)
           /\ pc'[c] = "read"
           /\ \A d \in Clients \ {c} : pc'[d] = pc[d] /\ request'[d] = request[d]
           /\ table \in overlapped' <=> table \in overlapped \/ Loading(table) # {}
           /\ \A t \in {"servers", "schedules"} \ {table} : t \in overlapped' <=> t \in overlapped
  <1>1. /\ pc \in [Clients -> Places] /\ request = [d \in Clients |-> request[d]]
    BY DEF TypeInv, TypeOK, Places, ClientInv
  <1>2. /\ pc'[c] = "read" /\ request'[c] = [about |-> table] /\ pc[c] \notin {"read", "publish"}
        /\ \A d \in Clients \ {c} : pc'[d] = pc[d] /\ request'[d] = request[d]
        /\ overlapped' = overlapped \cup {t \in {table} : Loading(t) # {}}
    BY <1>1 DEF IsWrite
  <1>3. request'[c].about = table
    BY <1>2
  <1> QED BY <1>2, <1>3 DEF Loading

(* What the goroutines of a table leave in force is what it says.           *)
LEMMA LoadStep ==
    ASSUME TypeInv, LoadInv, [Next]_vars
    PROVE  LoadInv'
  <1> SUFFICES ASSUME NEW table \in {"servers", "schedules"}, up', table \notin overlapped'
               PROVE  /\ \A c, d \in Loading(table)' : c = d
                      /\ \A c \in Loading(table)' : pc'[c] = "publish" => read'[c] = Answer(table)'
                      /\ Loading(table)' = {} /\ table \notin unread' => InForce(table)'
    BY DEF LoadInv
  <1>1. up /\ table \notin overlapped =>
            /\ \A c, d \in Loading(table) : c = d
            /\ \A c \in Loading(table) : pc[c] = "publish" => read[c] = Answer(table)
            /\ Loading(table) = {} /\ table \notin unread => InForce(table)
    BY DEF LoadInv
  <1>2. CASE UNCHANGED vars
    <2>1. UNCHANGED <<servers, schedules, up, config, pc, request, read, unread, overlapped>>
      BY <1>2 DEF vars, process, ghosts
    <2> QED BY <1>1, <2>1 DEF Loading, Answer, InForce
  <1>3. CASE Boot
    BY <1>3, StartsInForce
  <1>4. CASE Die
    BY <1>4 DEF Die
  <1>5. CASE Aside
    <2>1. /\ UNCHANGED <<servers, schedules, up, read, unread, overlapped>>
          /\ config'.types = config.types
          /\ WithoutOptions(config'.servers) = WithoutOptions(config.servers)
      BY <1>5 DEF Aside
    <2>2. /\ Loading(table)' = Loading(table)
          /\ \A c \in Loading(table) : pc'[c] = pc[c]
      BY <1>5 DEF Aside, Loading
    <2>3. Answer(table)' = Answer(table) /\ (InForce(table)' <=> InForce(table))
      BY <2>1 DEF Answer, InForce
    <2> QED BY <1>1, <2>1, <2>2, <2>3
  <1>6. ASSUME NEW c \in Clients, NEW w \in {"servers", "schedules"}, IsWrite(c, w)
        PROVE  /\ \A d, e \in Loading(table)' : d = e
               /\ \A d \in Loading(table)' : pc'[d] = "publish" => read'[d] = Answer(table)'
               /\ Loading(table)' = {} /\ table \notin unread' => InForce(table)'
    <2>1. UNCHANGED <<up, config, read, unread>>
      BY <1>6 DEF IsWrite
    <2>2. CASE w = table
      <3>1. Loading(table)' = {c} /\ pc'[c] = "read"
        BY <1>6, <2>2, WriteMoves
      <3> QED BY <3>1
    <2>3. CASE w # table
      <3>1. /\ Loading(table)' = Loading(table) /\ c \notin Loading(table)
            /\ \A d \in Loading(table) : pc'[d] = pc[d]
            /\ table \notin overlapped
        <4>1. c \notin Loading(table)
          BY <1>6 DEF IsWrite, Loading
        <4> QED BY <1>6, <2>3, <4>1, WriteMoves DEF Loading
      <3>2. Answer(table)' = Answer(table) /\ (InForce(table)' <=> InForce(table))
        <4>1. w = "servers" /\ table = "schedules" => UNCHANGED schedules
          BY <1>6 DEF IsWrite
        <4>2. w = "schedules" /\ table = "servers" => UNCHANGED servers
          BY <1>6 DEF IsWrite
        <4> QED BY <2>1, <2>3, <4>1, <4>2 DEF Answer, InForce
      <3> QED BY <1>1, <2>1, <3>1, <3>2
    <2> QED BY <2>2, <2>3
  <1>7. ASSUME NEW c \in Clients, Reload(c)
        PROVE  /\ \A d, e \in Loading(table)' : d = e
               /\ \A d \in Loading(table)' : pc'[d] = "publish" => read'[d] = Answer(table)'
               /\ Loading(table)' = {} /\ table \notin unread' => InForce(table)'
    <2> DEFINE about == request[c].about
    <2>1. /\ up /\ UNCHANGED <<servers, schedules, up, overlapped>>
          /\ \A d \in Clients \ {c} : pc'[d] = pc[d] /\ request'[d] = request[d] /\ read'[d] = read[d]
          /\ about \in {"servers", "schedules"}
      BY <1>7, ReloadMoves
    <2>2. Answer(table)' = Answer(table)
      BY <2>1 DEF Answer
    <2>3. \A d \in Clients \ {c} : d \in Loading(table)' <=> d \in Loading(table)
      BY <2>1 DEF Loading
    <2>4. CASE pc[c] = "read" /\ pc'[c] = "idle" /\ unread' = unread \cup {about} /\ UNCHANGED config
      <3>1. c \notin Loading(table)' /\ (c \in Loading(table) <=> about = table)
        BY <2>4 DEF Loading
      <3>2. InForce(table)' <=> InForce(table)
        BY <2>1, <2>4 DEF InForce
      <3> QED BY <1>1, <2>1, <2>2, <2>3, <2>4, <3>1, <3>2 DEF Loading
    <2>5. CASE /\ pc[c] = "read" /\ pc'[c] = "publish" /\ request'[c] = request[c]
               /\ read'[c] = Answer(about) /\ unread' = unread \ {about} /\ UNCHANGED config
      <3>1. c \in Loading(table)' <=> c \in Loading(table)
        BY <2>5 DEF Loading
      <3>2. InForce(table)' <=> InForce(table)
        BY <2>1, <2>5 DEF InForce
      <3>3. c \in Loading(table) <=> about = table
        BY <2>5 DEF Loading
      <3> QED BY <1>1, <2>1, <2>2, <2>3, <2>5, <3>1, <3>2, <3>3 DEF Loading
    <2>6. CASE /\ pc[c] = "publish" /\ pc'[c] = "idle" /\ about = "servers"
               /\ config'.servers = read[c] /\ config'.types = config.types /\ UNCHANGED unread
      <3>1. c \notin Loading(table)' /\ (c \in Loading(table) <=> about = table)
        BY <2>6 DEF Loading
      <3>2. CASE table = "servers"
        <4>1. read[c] = ServersOf(servers)
          BY <1>1, <2>1, <2>6, <3>1, <3>2 DEF Answer
        <4>2. WithoutOptions(config'.servers) = ServersOf(servers)
          BY <2>6, <4>1, TablesAreFinite, TablesMakeLists DEF TypeInv
        <4>3. InForce(table)'
          BY <2>1, <3>2, <4>2 DEF InForce
        <4> QED BY <1>1, <2>1, <2>2, <2>3, <3>1, <3>2, <4>3 DEF Loading
      <3>3. CASE table = "schedules"
        <4>1. InForce(table)' <=> InForce(table)
          BY <2>1, <2>6, <3>3 DEF InForce
        <4> QED BY <1>1, <2>1, <2>2, <2>3, <2>6, <3>1, <3>3, <4>1 DEF Loading
      <3> QED BY <3>2, <3>3
    <2>7. CASE /\ pc[c] = "publish" /\ pc'[c] = "idle" /\ about = "schedules"
               /\ config'.types = read[c] /\ config'.servers = config.servers /\ UNCHANGED unread
      <3>1. c \notin Loading(table)' /\ (c \in Loading(table) <=> about = table)
        BY <2>7 DEF Loading
      <3>2. CASE table = "schedules"
        <4>1. read[c] = TypesOf(schedules)
          BY <1>1, <2>1, <2>7, <3>1, <3>2 DEF Answer
        <4>2. InForce(table)'
          BY <2>1, <2>7, <3>2, <4>1 DEF InForce
        <4> QED BY <1>1, <2>1, <2>2, <2>3, <3>1, <3>2, <4>2 DEF Loading
      <3>3. CASE table = "servers"
        <4>1. InForce(table)' <=> InForce(table)
          BY <2>1, <2>7, <3>3 DEF InForce
        <4> QED BY <1>1, <2>1, <2>2, <2>3, <2>7, <3>1, <3>3, <4>1 DEF Loading
      <3> QED BY <3>2, <3>3
    <2> QED BY <1>7, <2>4, <2>5, <2>6, <2>7, ReloadMoves
  <1> QED BY <1>2, <1>3, <1>4, <1>5, <1>6, <1>7, StepKinds

(* While the newest servers are not published, a goroutine that will        *)
(* publish them is on its way, or the last to try failed.                   *)
LEMMA PublishStep ==
    ASSUME TypeInv, PublishInv, [Next]_vars
    PROVE  PublishInv'
  <1> SUFFICES ASSUME up', ~published', "servers" \notin unread'
               PROVE  \E c \in Loading("servers")' : Newest(c)'
    BY DEF PublishInv
  <1>1. up /\ ~published /\ "servers" \notin unread => \E c \in Loading("servers") : Newest(c)
    BY DEF PublishInv
  <1>2. CASE UNCHANGED vars
    <2>1. UNCHANGED <<servers, up, pc, request, read, unread, published>>
      BY <1>2 DEF vars, process, ghosts
    <2> QED BY <1>1, <2>1 DEF Loading, Newest
  <1>3. CASE Boot \/ Die
    BY <1>3 DEF Boot, Die
  <1>4. CASE Aside
    <2>1. UNCHANGED <<servers, up, read, unread, published>>
      BY <1>4 DEF Aside
    <2>2. PICK c \in Loading("servers") : Newest(c)
      BY <1>1, <2>1
    <2>3. c \in Loading("servers")' /\ pc'[c] = pc[c]
      BY <1>4 DEF Aside, Loading
    <2> QED BY <2>1, <2>2, <2>3 DEF Newest
  <1>5. ASSUME NEW c \in Clients, IsWrite(c, "servers")
        PROVE  \E d \in Loading("servers")' : Newest(d)'
    <2>1. c \in Loading("servers")' /\ pc'[c] = "read"
      BY <1>5, WriteMoves
    <2> QED BY <2>1 DEF Newest
  <1>6. ASSUME NEW c \in Clients, IsWrite(c, "schedules")
        PROVE  \E d \in Loading("servers")' : Newest(d)'
    <2>1. UNCHANGED <<servers, up, read, unread, published>>
      BY <1>6 DEF IsWrite
    <2>2. PICK d \in Loading("servers") : Newest(d)
      BY <1>1, <2>1
    <2>3. Loading("servers")' = Loading("servers") /\ c \notin Loading("servers")
          /\ \A e \in Clients \ {c} : pc'[e] = pc[e]
      <3>1. c \notin Loading("servers")
        BY <1>6 DEF IsWrite, Loading
      <3> QED BY <1>6, <3>1, WriteMoves
    <2>4. d \in Loading("servers")' /\ pc'[d] = pc[d]
      BY <2>2, <2>3 DEF Loading
    <2> QED BY <2>1, <2>2, <2>4 DEF Newest
  <1>7. ASSUME NEW c \in Clients, Reload(c)
        PROVE  \E d \in Loading("servers")' : Newest(d)'
    <2> DEFINE about == request[c].about
    <2>1. /\ up /\ UNCHANGED servers
          /\ \A d \in Clients \ {c} : pc'[d] = pc[d] /\ request'[d] = request[d] /\ read'[d] = read[d]
          /\ about \in {"servers", "schedules"}
      BY <1>7, ReloadMoves
    <2>2. \A d \in Loading("servers") \ {c} :
              d \in Loading("servers")' /\ (Newest(d)' <=> Newest(d))
      BY <2>1 DEF Loading, Newest
    <2>3. CASE pc[c] = "read" /\ unread' = unread \cup {about} /\ UNCHANGED published
      <3>1. about # "servers" => c \notin Loading("servers")
        BY DEF Loading
      <3>2. about # "servers" /\ "servers" \notin unread
        BY <2>3
      <3> QED BY <1>1, <2>1, <2>2, <2>3, <3>1, <3>2
    <2>4. CASE /\ pc[c] = "read" /\ pc'[c] = "publish" /\ request'[c] = request[c]
               /\ read'[c] = Answer(about) /\ unread' = unread \ {about} /\ UNCHANGED published
      <3>1. CASE about = "servers"
        <4>1. c \in Loading("servers")' /\ read'[c] = ServersOf(servers)
          BY <2>4, <3>1 DEF Loading, Answer
        <4> QED BY <2>1, <4>1 DEF Newest
      <3>2. CASE about = "schedules"
        <4>1. c \notin Loading("servers") /\ "servers" \notin unread
          BY <2>4, <3>2 DEF Loading
        <4> QED BY <1>1, <2>1, <2>2, <2>4, <4>1
      <3> QED BY <2>1, <3>1, <3>2
    <2>5. CASE /\ pc[c] = "publish" /\ published' = (published \/ read[c] = ServersOf(servers))
               /\ UNCHANGED unread
      <3>1. ~published /\ ~Newest(c)
        BY <2>5 DEF Newest
      <3> QED BY <1>1, <2>1, <2>2, <2>5, <3>1
    <2>6. CASE about = "schedules" /\ UNCHANGED <<unread, published>>
      <3>1. c \notin Loading("servers")
        BY <2>6 DEF Loading
      <3> QED BY <1>1, <2>1, <2>2, <2>6, <3>1
    <2> QED BY <1>7, <2>3, <2>4, <2>5, <2>6, ReloadMoves
  <1> QED BY <1>2, <1>3, <1>4, <1>5, <1>6, <1>7, StepKinds

(* Both hold throughout.                                                    *)
LEMMA LoadInvariant == Spec => [](LoadInv /\ PublishInv)
  <1>1. Init => LoadInv /\ PublishInv
    BY DEF Init, LoadInv, PublishInv
  <1>2. TypeInv /\ (LoadInv /\ PublishInv) /\ [Next]_vars => (LoadInv /\ PublishInv)'
    BY LoadStep, PublishStep
  <1> QED BY <1>1, <1>2, TypeInvariant, PTL DEF Spec

(* When nobody is loading servers, and the last one could read them, the    *)
(* newest ones were published; they are in force if no two goroutines met.  *)
THEOREM ServersAreLoaded == Spec => []ServersFollowRows
  <1>1. LoadInv /\ PublishInv => ServersFollowRows
    BY DEF LoadInv, PublishInv, ServersFollowRows, Quiet, InForce
  <1> QED BY <1>1, LoadInvariant, PTL

(* Where no goroutines met and none failed, settings that are in force and  *)
(* valid come up again: a start accepts the tables, and arrives at them.    *)
THEOREM SettingsComeUpAgain == Spec => []RestartAgrees
  <1>1. ASSUME TypeInv, LoadInv PROVE RestartAgrees
    <2> SUFFICES ASSUME AllLoaded, config.s3 = S3Settings, config.servers # << >>,
                        ValidateConfig(config)
                 PROVE  /\ ValidateConfig(AtStart(servers, schedules))
                        /\ AtStart(servers, schedules).servers = WithoutOptions(config.servers)
                        /\ AtStart(servers, schedules).types = config.types
      BY DEF RestartAgrees
    <2> DEFINE next == AtStart(servers, schedules)
    <2>1. InForce("servers") /\ InForce("schedules")
      BY <1>1 DEF AllLoaded, Quiet, LoadInv
    <2>2. /\ next.local = FromEnvironment.local /\ next.metadataDB = FromEnvironment.metadataDB
          /\ next.s3 = S3Settings /\ next.servers = ServersOf(servers)
          /\ next.types = IF DOMAIN TypesOf(schedules) = {} THEN DefaultTypes ELSE TypesOf(schedules)
      BY <1>1, Starts DEF TypeInv
    <2>3. /\ config.local = FromEnvironment.local /\ config.metadataDB = FromEnvironment.metadataDB
          /\ DOMAIN config.types # {}
      BY <1>1 DEF TypeInv, ConfigInv, ValidateConfig
    <2> HIDE DEF next
    <2>4. next.types = config.types
      BY <2>1, <2>2, <2>3 DEF InForce
    <2>5. next.servers = WithoutOptions(config.servers)
      BY <2>1, <2>2 DEF InForce
    <2>6. next.servers # << >>
      <3>1. IsList(config.servers) /\ DOMAIN config.servers # {}
        BY <1>1 DEF TypeInv, ConfigInv, IsList
      <3>2. DOMAIN WithoutOptions(config.servers) = DOMAIN config.servers
        BY DEF WithoutOptions
      <3> QED BY <2>5, <3>1, <3>2
    <2>7. ValidateConfig(next)
      <3>1. StorageIsUsable(next)
        BY <2>2, <2>3 DEF ValidateConfig, StorageIsUsable
      <3>2. MetadataDBIsUsable(next)
        BY <2>2, <2>3 DEF ValidateConfig, MetadataDBIsUsable
      <3>3. \A name \in DOMAIN next.types : TypeIsUsable(next, name)
        <4>1. \A name \in DOMAIN config.types : TypeIsUsable(config, name)
          BY DEF ValidateConfig
        <4>2. next.local = config.local /\ next.s3 = config.s3
          BY <2>2, <2>3
        <4> QED BY <2>4, <4>1, <4>2 DEF TypeIsUsable
      <3> QED BY <2>3, <2>4, <2>6, <3>1, <3>2, <3>3 DEF ValidateConfig, SomeServer
    <2> QED BY <2>4, <2>5, <2>7 DEF next
  <1> QED BY <1>1, TypeInvariant, LoadInvariant, PTL

-------------------------------------------------------------------------------
(* What a goroutine has read has no options.                                *)
LEMMA FreshStep ==
    ASSUME TypeInv, FreshInv, [Next]_vars
    PROVE  FreshInv'
  <1> SUFFICES ASSUME NEW c \in Clients, pc'[c] = "publish", request'[c].about = "servers"
               PROVE  \A n \in DOMAIN read'[c] : read'[c][n].options = NoOptions
    BY DEF FreshInv
  <1>1. pc[c] = "publish" /\ request'[c] = request[c] /\ read'[c] = read[c] =>
            \A n \in DOMAIN read'[c] : read'[c][n].options = NoOptions
    BY DEF FreshInv
  <1>2. CASE UNCHANGED vars
    BY <1>1, <1>2 DEF vars
  <1>3. CASE Boot
    BY <1>3 DEF Boot, TypeInv, ClientInv
  <1>4. CASE Die
    BY <1>4 DEF Die
  <1>5. CASE Aside
    BY <1>1, <1>5 DEF Aside
  <1>6. ASSUME NEW d \in Clients, NEW w \in {"servers", "schedules"}, IsWrite(d, w)
        PROVE  pc[c] = "publish" /\ request'[c] = request[c] /\ read'[c] = read[c]
    BY <1>6, WriteMoves DEF IsWrite
  <1>7. ASSUME NEW d \in Clients, Reload(d), c # d
        PROVE  pc[c] = "publish" /\ request'[c] = request[c] /\ read'[c] = read[c]
    BY <1>7, ReloadMoves
  <1>8. ASSUME Reload(c)
        PROVE  \A n \in DOMAIN read'[c] : read'[c][n].options = NoOptions
    <2>1. read'[c] = ServersOf(servers)
      BY <1>8, ReloadMoves DEF Answer
    <2> QED BY <2>1, TablesAreFinite, TablesMakeLists DEF TypeInv
  <1> QED BY <1>1, <1>2, <1>3, <1>4, <1>5, <1>6, <1>7, <1>8, StepKinds

(* The steps that leave options, and requests for them, alone.              *)
Elsewhere ==
    /\ config'.servers = config.servers /\ UNCHANGED <<named, shifted>>
    /\ \A c \in Clients : pc'[c] = "options" => pc[c] = "options" /\ request'[c] = request[c]

(* All steps, as far as the options and the list of servers go.             *)
LEMMA OptionKinds ==
    ASSUME TypeInv, Next
    PROVE  \/ Boot \/ Die \/ Elsewhere
           \/ \E c \in Clients :
                 \/ PublishServers(c) \/ SetServerOptions(c)
                 \/ Asked(c) /\ config'.servers = config.servers
  <1>1. /\ pc \in [Clients -> Places] /\ request = [d \in Clients |-> request[d]]
        /\ DOMAIN config = {"local", "s3", "metadataDB", "servers", "legacy", "types", "options"}
    BY DEF TypeInv, TypeOK, Places, ClientInv, ConfigInv, FromEnvironment
  <1>2. ASSUME NEW c \in Clients, NEW from, NEW to \in Places \ {"options"}, Step(c, from, to),
               NEW what, request' = [request EXCEPT ![c] = what],
               config'.servers = config.servers, UNCHANGED <<named, shifted>>
        PROVE  Elsewhere
    BY <1>1, <1>2 DEF Elsewhere, Step
  <1>3. CASE Boot \/ Restart
    BY <1>3 DEF Restart
  <1>4. CASE RunBackup
    <2>1. CASE Panic
      BY <2>1 DEF Panic
    <2>2. ASSUME NEW r, Backup(r) PROVE Elsewhere
      BY <2>2 DEF Backup, Elsewhere, ghosts
    <2> QED BY <1>4, <2>1, <2>2, BackupSteps DEF BackupMoves, FindHost, Dump
  <1>5. ASSUME NEW c \in Clients, ServerAPI(c) PROVE Elsewhere
    <2>1. ASSUME NEW row \in ServerRequests, NEW byId \in {{}} \cup {{i} : i \in ServerIds},
                 LookForServer(c, row, byId)
          PROVE  Elsewhere
      <3>1. PICK i \in ServerIds, to \in {"saving", "creating"} :
                Asks(c, to, [about |-> "row", id |-> i, row |-> row])
        BY <2>1 DEF LookForServer, Named, TypeInv, TypeOK
      <3>2. UNCHANGED <<config, named, shifted>>
        BY <2>1 DEF LookForServer, ghosts
      <3> QED BY <1>2, <3>1, <3>2 DEF Asks, Places
    <2>2. ASSUME NEW from, Step(c, from, "read"), ServersWritten(c) PROVE Elsewhere
      BY <1>2, <2>2 DEF ServersWritten, ThenReload, Places
    <2>3. ASSUME NEW from, Step(c, from, "idle"), Refused(c) PROVE Elsewhere
      BY <1>2, <2>3 DEF Refused, ghosts, Places
    <2> QED BY <1>5, <2>1, <2>2, <2>3
            DEF ServerAPI, CreateServer, SaveServer, DeleteServer, WriteServer
  <1>6. ASSUME NEW c \in Clients, ScheduleAPI(c) PROVE Elsewhere
    <2>1. SchedulesWritten(c)
      BY <1>6 DEF ScheduleAPI, SaveSchedule, DeleteSchedule
    <2> QED BY <1>2, <2>1 DEF SchedulesWritten, ThenReload, Places
  <1>7. request = [d \in Clients |-> request[d]]
    BY <1>1
  <1>8. ASSUME OptionsSet \/ UNCHANGED config PROVE config'.servers = config.servers
    BY <1>1, <1>8 DEF OptionsSet
  <1>9. ASSUME NEW c \in Clients, OptionsAPI(c)
        PROVE  Elsewhere \/ SetServerOptions(c) \/ (Asked(c) /\ config'.servers = config.servers)
    <2>1. ASSUME InMemory(c, "idle", "idle"), UNCHANGED <<request, named>>, OptionsSet
          PROVE  Elsewhere
      <3>1. request' = [request EXCEPT ![c] = request[c]]
        BY <1>7, <2>1
      <3> QED BY <1>2, <1>8, <2>1, <3>1 DEF InMemory, Places
    <2> QED BY <1>8, <1>9, <2>1, OptionRequestSteps
  <1>10. ASSUME NEW c \in Clients, NEW s3 \in S3Requests, updateS3Config(c, s3) PROVE Elsewhere
    <2>1. config'.servers = config.servers
      BY <1>1, <1>10 DEF updateS3Config
    <2>2. request' = [request EXCEPT ![c] = request[c]]
      BY <1>7, <1>10 DEF updateS3Config
    <2> QED BY <1>2, <1>10, <2>1, <2>2 DEF updateS3Config, InMemory, Places
  <1>11. ASSUME NEW c \in Clients, Reload(c) PROVE Elsewhere \/ PublishServers(c)
    <2>1. CASE ReadFails(c)
      BY <1>2, <2>1 DEF ReadFails, Places
    <2>2. CASE ReadTable(c)
      <3>1. request' = [request EXCEPT ![c] = request[c]]
        BY <1>7, <2>2 DEF ReadTable
      <3> QED BY <1>2, <2>2, <3>1 DEF ReadTable, Places
    <2>3. CASE PublishSchedules(c)
      <3>1. config'.servers = config.servers
        BY <1>1, <2>3 DEF PublishSchedules
      <3> QED BY <1>2, <2>3, <3>1 DEF PublishSchedules, ghosts, Places
    <2> QED BY <1>11, <2>1, <2>2, <2>3 DEF Reload
  <1> QED BY <1>3, <1>4, <1>5, <1>6, <1>9, <1>10, <1>11 DEF Next

(* Options are set in the list in force by requests only, in the place that *)
(* was found unless the list was replaced since.                            *)
LEMMA OptionsStep ==
    ASSUME TypeInv, FreshInv, OptionsInv, [Next]_vars
    PROVE  OptionsInv'
  <1>1. \A kind \in Kinds : NoOptions[kind] = "none"
    BY DEF Kinds, NoOptions
  <1> SUFFICES ASSUME ~shifted'
               PROVE  /\ \A n \in DOMAIN config'.servers, kind \in Kinds :
                            config'.servers[n].options[kind] # "none" =>
                                /\ kind = config'.servers[n].kind
                                /\ config'.servers[n].name \in named'
                      /\ \A c \in Clients : pc'[c] = "options" =>
                            /\ request'[c].place \in DOMAIN config'.servers
                            /\ config'.servers[request'[c].place].kind = request'[c].kind
                            /\ request'[c].options # "none" =>
                                   config'.servers[request'[c].place].name \in named'
    BY DEF OptionsInv
  <1>2. ~shifted =>
            /\ \A n \in DOMAIN config.servers, kind \in Kinds :
                  config.servers[n].options[kind] # "none" =>
                      kind = config.servers[n].kind /\ config.servers[n].name \in named
            /\ \A c \in Clients : pc[c] = "options" =>
                  /\ request[c].place \in DOMAIN config.servers
                  /\ config.servers[request[c].place].kind = request[c].kind
                  /\ request[c].options # "none" => config.servers[request[c].place].name \in named
    BY DEF OptionsInv
  <1>3. CASE UNCHANGED vars
    <2>1. UNCHANGED <<config, pc, request, named, shifted>>
      BY <1>3 DEF vars, ghosts
    <2> QED BY <1>2, <2>1
  <1>4. CASE Boot
    <2>1. config'.servers = ServersOf(servers) /\ \A c \in Clients : pc'[c] = "idle"
      BY <1>4, Starts DEF Boot, TypeInv, ClientInv
    <2> QED BY <1>1, <2>1, TablesAreFinite, TablesMakeLists DEF TypeInv
  <1>5. CASE Die
    <2>1. config'.servers = << >> /\ \A c \in Clients : pc'[c] = "idle"
      BY <1>5 DEF Die, FromEnvironment
    <2> QED BY <2>1
  <1>6. CASE Elsewhere
    BY <1>2, <1>6 DEF Elsewhere
  <1>7. /\ pc \in [Clients -> Places] /\ request = [d \in Clients |-> request[d]]
        /\ DOMAIN config = {"local", "s3", "metadataDB", "servers", "legacy", "types", "options"}
    BY DEF TypeInv, TypeOK, Places, ClientInv, ConfigInv, FromEnvironment
  <1>8. ASSUME NEW c \in Clients, PublishServers(c)
        PROVE  /\ \A n \in DOMAIN config'.servers, kind \in Kinds :
                     config'.servers[n].options[kind] = "none"
               /\ \A d \in Clients : pc'[d] # "options"
    <2>1. config'.servers = read[c] /\ \A n \in DOMAIN read[c] : read[c][n].options = NoOptions
      BY <1>7, <1>8 DEF PublishServers, Replace, Step, FreshInv
    <2>2. \A d \in Clients : pc[d] # "options"
      BY <1>8 DEF PublishServers, Replace
    <2>3. \A d \in Clients : pc'[d] # "options"
      BY <1>7, <1>8, <2>2 DEF PublishServers, Replace, Step
    <2> QED BY <1>1, <2>1, <2>3
  <1>9. ASSUME NEW c \in Clients, Asked(c), config'.servers = config.servers
        PROVE  /\ ~shifted /\ named \subseteq named'
               /\ \A d \in Clients \ {c} : pc'[d] = pc[d] /\ request'[d] = request[d]
               /\ request'[c].place \in DOMAIN config.servers
               /\ config.servers[request'[c].place].kind = request'[c].kind
               /\ request'[c].options # "none" => config.servers[request'[c].place].name \in named'
    <2>1. PICK n \in DOMAIN config.servers, o \in OptionRequests \cup {"none"} :
              FindServer(c, config.servers[n].kind, n, o)
      BY <1>9 DEF Asked
    <2>2. /\ request' = [request EXCEPT ![c] = [about |-> "options", kind |-> config.servers[n].kind,
                                               place |-> n, options |-> o]]
          /\ pc' = [pc EXCEPT ![c] = "options"] /\ UNCHANGED shifted
      BY <2>1 DEF FindServer, InMemory, Step
    <2>3. /\ \A d \in Clients \ {c} : pc'[d] = pc[d] /\ request'[d] = request[d]
          /\ request'[c].place = n /\ request'[c].kind = config.servers[n].kind
          /\ request'[c].options = o
      BY <1>7, <2>2
    <2>4. named \subseteq named' /\ (o # "none" => config.servers[n].name \in named')
      BY <2>1 DEF FindServer
    <2> QED BY <2>2, <2>3, <2>4
  <1>10. ASSUME NEW c \in Clients, SetServerOptions(c)
         PROVE  /\ \A n \in DOMAIN config'.servers, kind \in Kinds :
                      config'.servers[n].options[kind] # "none" =>
                          /\ kind = config'.servers[n].kind
                          /\ config'.servers[n].name \in named'
                /\ \A d \in Clients : pc'[d] = "options" =>
                      /\ request'[d].place \in DOMAIN config'.servers
                      /\ config'.servers[request'[d].place].kind = request'[d].kind
                      /\ request'[d].options # "none" =>
                             config'.servers[request'[d].place].name \in named'
    <2> DEFINE n == request[c].place
               k == request[c].kind
               o == request[c].options
    <2>1. /\ pc[c] = "options" /\ UNCHANGED <<named, shifted>>
          /\ pc'[c] = "idle" /\ \A d \in Clients \ {c} : pc'[d] = pc[d] /\ request'[d] = request[d]
      BY <1>7, <1>10 DEF SetServerOptions, InMemory, Step
    <2>2. /\ n \in DOMAIN config.servers /\ config.servers[n].kind = k
          /\ o # "none" => config.servers[n].name \in named
      BY <1>2, <2>1
    <2>3. k \in Kinds /\ ConfigInv
      BY <2>1 DEF TypeInv, ClientInv
    <2>4. config' = [config EXCEPT !.servers[n].options[k] = o]
      BY <1>10, <2>2 DEF SetServerOptions
    <2> HIDE DEF n, k, o
    <2>5. /\ DOMAIN config'.servers = DOMAIN config.servers
          /\ \A m \in DOMAIN config.servers :
                /\ config'.servers[m].name = config.servers[m].name
                /\ config'.servers[m].kind = config.servers[m].kind
                /\ config'.servers[m].options = IF m = n
                                                THEN [config.servers[m].options EXCEPT ![k] = o]
                                                ELSE config.servers[m].options
      BY <2>2, <2>3, <2>4, OneServersOptions
    <2>6. ASSUME NEW m \in DOMAIN config'.servers, NEW kind \in Kinds,
                 config'.servers[m].options[kind] # "none"
          PROVE  kind = config'.servers[m].kind /\ config'.servers[m].name \in named'
      <3>1. DOMAIN config.servers[m].options = Kinds
        <4>1. m \in DOMAIN config.servers
          BY <2>5, <2>6
        <4>2. IsServer(config.servers[m])
          BY <2>3, <4>1 DEF ConfigInv, IsList
        <4> QED BY <4>2 DEF IsServer, Kinds
      <3>2. CASE m = n /\ kind = k
        BY <2>1, <2>2, <2>5, <2>6, <3>1, <3>2
      <3>3. CASE ~(m = n /\ kind = k)
        <4>1. config'.servers[m].options[kind] = config.servers[m].options[kind]
          BY <2>5, <3>1, <3>3
        <4> QED BY <1>2, <2>1, <2>5, <2>6, <4>1
      <3> QED BY <3>2, <3>3
    <2>7. ASSUME NEW d \in Clients, pc'[d] = "options"
          PROVE  /\ request'[d].place \in DOMAIN config'.servers
                 /\ config'.servers[request'[d].place].kind = request'[d].kind
                 /\ request'[d].options # "none" =>
                        config'.servers[request'[d].place].name \in named'
      <3>1. pc[d] = "options" /\ request'[d] = request[d] /\ ~shifted /\ named' = named
        BY <2>1, <2>7
      <3> DEFINE p == request[d].place
      <3>2. /\ p \in DOMAIN config.servers /\ config.servers[p].kind = request[d].kind
            /\ request[d].options # "none" => config.servers[p].name \in named
        BY <1>2, <3>1
      <3>3. /\ p \in DOMAIN config'.servers
            /\ config'.servers[p].kind = config.servers[p].kind
            /\ config'.servers[p].name = config.servers[p].name
        BY <2>5, <3>2
      <3> QED BY <3>1, <3>2, <3>3
    <2> QED BY <2>6, <2>7
  <1>11. CASE \E c \in Clients : Asked(c) /\ config'.servers = config.servers
    BY <1>2, <1>9, <1>11
  <1> QED BY <1>3, <1>4, <1>5, <1>6, <1>8, <1>10, <1>11, OptionKinds

(* Dump options come from requests for that server since its list was       *)
(* published, unless the list was replaced under a request.                 *)
THEOREM OptionsAreFromRequests == Spec => []OptionsWereAskedFor
  <1>1. Init => FreshInv /\ OptionsInv
    <2>1. ASSUME Init PROVE config.servers = << >> /\ \A c \in Clients : pc[c] = "idle"
      BY <2>1 DEF Init, FromEnvironment
    <2> QED BY <2>1 DEF FreshInv, OptionsInv
  <1>2. TypeInv /\ (FreshInv /\ OptionsInv) /\ [Next]_vars => (FreshInv /\ OptionsInv)'
    BY FreshStep, OptionsStep
  <1>3. ASSUME TypeInv, OptionsInv PROVE OptionsWereAskedFor
    <2> SUFFICES ASSUME ~shifted, NEW n \in DOMAIN config.servers,
                        config.servers[n].options # NoOptions
                 PROVE  /\ config.servers[n].name \in named
                        /\ config.servers[n].options[config.servers[n].kind] # "none"
      BY DEF OptionsWereAskedFor
    <2>1. PICK kind \in Kinds : config.servers[n].options[kind] # "none"
      <3>1. IsServer(config.servers[n])
        BY <1>3 DEF TypeInv, ConfigInv, IsList
      <3>2. config.servers[n].options["mysql"] # "none" \/ config.servers[n].options["postgresql"] # "none"
        BY <3>1 DEF IsServer, NoOptions
      <3> QED BY <3>2 DEF Kinds
    <2> QED BY <1>3, <2>1 DEF OptionsInv
  <1> QED BY <1>1, <1>2, <1>3, TypeInvariant, PTL DEF Spec

-------------------------------------------------------------------------------
(* The steps of clients leave a backup alone, and change the list in force  *)
(* by replacing it, which is noted, or in its dump options.                 *)
Kept ==
    /\ UNCHANGED run /\ config'.legacy = config.legacy
    /\ run.at # "idle" => \/ lists' = lists /\ Alike(config.servers, config'.servers)
                          \/ lists' = lists \cup {config'.servers}

(* All steps, as far as a backup goes: most leave it what it has read.      *)
LEMMA BackupKinds ==
    ASSUME TypeInv, Next
    PROVE  Boot \/ Die \/ Kept \/ RunBackup
  <1>1. /\ ConfigInv /\ ClientInv /\ IsList(config.servers)
        /\ DOMAIN config = {"local", "s3", "metadataDB", "servers", "legacy", "types", "options"}
    BY DEF TypeInv, ConfigInv, FromEnvironment
  <1>2. ASSUME config'.servers = config.servers, config'.legacy = config.legacy,
               UNCHANGED <<run, lists>>
        PROVE  Kept
    BY <1>1, <1>2 DEF Kept, Alike
  <1>3. ASSUME NEW c \in Clients, ServerAPI(c) \/ ScheduleAPI(c) PROVE Kept
    <2>1. UNCHANGED <<config, run, lists>>
      <3>1. CASE ServerAPI(c)
        BY <3>1 DEF ServerAPI, LookForServer, Asks, Step, CreateServer, SaveServer, DeleteServer,
                    WriteServer, ServersWritten, Refused
      <3>2. CASE ScheduleAPI(c)
        BY <3>2 DEF ScheduleAPI, SaveSchedule, DeleteSchedule, SchedulesWritten, Step
      <3> QED BY <1>3, <3>1, <3>2
    <2> QED BY <1>2, <2>1
  <1>4. ASSUME NEW c \in Clients, OptionsAPI(c) PROVE Kept
    <2>1. ASSUME OptionsSet \/ UNCHANGED config
          PROVE  config'.servers = config.servers /\ config'.legacy = config.legacy
      BY <1>1, <2>1 DEF OptionsSet
    <2>2. CASE Asked(c) /\ (OptionsSet \/ UNCHANGED config)
      <3>1. UNCHANGED <<run, lists>>
        BY <2>2 DEF Asked, FindServer, InMemory, Step
      <3> QED BY <1>2, <2>1, <2>2, <3>1
    <2>3. CASE InMemory(c, "idle", "idle") /\ OptionsSet
      BY <1>2, <2>1, <2>3 DEF InMemory, Step
    <2>4. CASE SetServerOptions(c)
      <3>1. UNCHANGED <<run, lists>> /\ request[c].kind \in Kinds
        BY <1>1, <2>4 DEF SetServerOptions, InMemory, Step, ClientInv
      <3>2. CASE UNCHANGED config
        BY <1>2, <3>1, <3>2
      <3>3. CASE /\ request[c].place \in DOMAIN config.servers
                 /\ config' = [config EXCEPT !.servers[request[c].place].options[request[c].kind]
                                                 = request[c].options]
        <4>1. config'.legacy = config.legacy /\ Alike(config.servers, config'.servers)
          BY <1>1, <3>1, <3>3, OneServersOptions DEF Alike
        <4> QED BY <3>1, <4>1 DEF Kept
      <3> QED BY <2>4, <3>2, <3>3 DEF SetServerOptions
    <2> QED BY <1>4, <2>2, <2>3, <2>4, OptionRequestSteps
  <1>5. ASSUME NEW c \in Clients, NEW s3 \in S3Requests, updateS3Config(c, s3) PROVE Kept
    <2>1. config'.servers = config.servers /\ config'.legacy = config.legacy
      BY <1>1, <1>5 DEF updateS3Config
    <2> QED BY <1>2, <1>5, <2>1 DEF updateS3Config, InMemory, Step
  <1>6. ASSUME NEW c \in Clients, Reload(c) PROVE Kept
    <2>1. CASE ReadFails(c) \/ ReadTable(c)
      BY <1>2, <2>1 DEF ReadFails, ReadTable, Step
    <2>2. CASE PublishSchedules(c)
      <3>1. config'.servers = config.servers /\ config'.legacy = config.legacy
        BY <1>1, <2>2 DEF PublishSchedules
      <3> QED BY <1>2, <2>2, <3>1 DEF PublishSchedules, Step
    <2>3. CASE PublishServers(c)
      <3>1. config'.servers = read[c] /\ config'.legacy = config.legacy
        BY <1>1, <2>3 DEF PublishServers, Replace
      <3>2. UNCHANGED run /\ (run.at # "idle" => lists' = lists \cup {read[c]})
        BY <2>3 DEF PublishServers, Replace, Step
      <3> QED BY <3>1, <3>2 DEF Kept
    <2> QED BY <1>6, <2>1, <2>2, <2>3 DEF Reload
  <1> QED BY <1>3, <1>4, <1>5, <1>6 DEF Next, Restart

(* The databases of a server are chosen by settings that do not change      *)
(* while the process runs.                                                  *)
LEMMA ChosenAlways ==
    ASSUME config'.legacy = config.legacy
    PROVE  LegacyServer' = LegacyServer /\ \A server : Chosen(server)' = Chosen(server)
  BY DEF LegacyServer, Chosen, queryAllDatabases, ListDatabases

(* What is known of a backup under way.                                     *)
LEMMA RunStep ==
    ASSUME TypeInv, RunInv, [Next]_vars
    PROVE  RunInv'
  <1>1. /\ TypeOK /\ ConfigInv /\ IsList(config.servers)
        /\ DOMAIN run = {"at", "list", "n", "todo", "db", "place"}
        /\ run.at # "idle" => up /\ IsList(run.list) /\ run.n \in DOMAIN run.list
    BY DEF TypeInv, TypeOK, ConfigInv, RunShape, NoRun
  <1>2. Alike(config.servers, config.servers)
    BY DEF Alike
  <1>3. CASE UNCHANGED vars
    <2>1. UNCHANGED <<config, run, lists>>
      BY <1>3 DEF vars
    <2>2. LegacyServer' = LegacyServer /\ \A server : Chosen(server)' = Chosen(server)
      BY <2>1, ChosenAlways
    <2> QED BY <2>1, <2>2 DEF RunInv, Alike, FoundIn, Standing
  <1>4. CASE Boot \/ Die
    <2>1. CASE Boot
      BY <1>1, <2>1 DEF Boot, RunInv
    <2>2. CASE Die
      <3>1. run'.at = "idle"
        BY <2>2 DEF Die, NoRun
      <3> QED BY <3>1 DEF RunInv
    <2> QED BY <1>4, <2>1, <2>2
  <1>5. CASE Kept
    <2> SUFFICES ASSUME run'.at # "idle" PROVE RunInv'
      BY DEF RunInv
    <2>1. run.at # "idle" /\ run' = run /\ config'.legacy = config.legacy
      BY <1>5 DEF Kept
    <2>2. LegacyServer' = LegacyServer /\ \A server : Chosen(server)' = Chosen(server)
      BY <2>1, ChosenAlways
    <2>3. lists \subseteq lists' /\ \E l \in lists' : Alike(l, config'.servers)
      <3>1. CASE lists' = lists /\ Alike(config.servers, config'.servers)
        <4>1. PICK l \in lists : Alike(l, config.servers)
          BY <2>1 DEF RunInv
        <4>2. Alike(l, config'.servers)
          BY <3>1, <4>1 DEF Alike
        <4> QED BY <3>1, <4>2
      <3>2. CASE lists' = lists \cup {config'.servers}
        <4>1. Alike(config'.servers, config'.servers)
          BY DEF Alike
        <4> QED BY <3>2, <4>1
      <3> QED BY <1>5, <2>1, <3>1, <3>2 DEF Kept
    <2> QED BY <2>1, <2>2, <2>3 DEF RunInv
  <1>6. CASE RunBackup /\ ~Panic
    <2>1. ASSUME NEW r, Backup(r), r.at # "idle", lists' = lists, run.at # "idle",
                 r.list = run.list,
                 r.at \in {"database", "found"} => r.todo \subseteq Chosen(r.list[r.n]),
                 r.at = "found" => /\ r.db \in Chosen(r.list[r.n])
                                   /\ \E l \in lists : FoundIn(l, r.list[r.n].name, r.place)
          PROVE  RunInv'
      <3>1. run' = r /\ config' = config
        BY <2>1 DEF Backup
      <3>2. LegacyServer' = LegacyServer /\ \A server : Chosen(server)' = Chosen(server)
        BY <3>1, ChosenAlways
      <3>3. /\ \E l \in lists : Alike(l, config.servers)
            /\ run.list \in lists \/ (<< >> \in lists /\ run.list = <<LegacyServer>>)
        BY <2>1 DEF RunInv
      <3> QED BY <2>1, <3>1, <3>2, <3>3 DEF RunInv
    <2>2. ASSUME NEW r, BackupMoves(r), Begin,
                 r = [NoRun EXCEPT !.at = "server", !.list = ListToBackUp, !.n = 1]
          PROVE  RunInv'
      <3>1. run' = r /\ config' = config /\ lists' = {config.servers}
        BY <2>2 DEF BackupMoves, Backup, Begin
      <3>2. r.at = "server" /\ r.list = ListToBackUp
        BY <2>2 DEF NoRun
      <3>3. LegacyServer' = LegacyServer
        BY <3>1, ChosenAlways
      <3> QED BY <1>1, <1>2, <3>1, <3>2, <3>3, ListsToBackUp DEF RunInv
    <2>3. ASSUME NEW r, BackupMoves(r), run.at \in {"server", "database"},
                 \/ r = NoRun
                 \/ r.at = "server" /\ r.list = run.list /\ r.n \in DOMAIN r.list /\ lists' = lists
          PROVE  RunInv'
      <3>1. CASE r = NoRun
        BY <2>3, <3>1 DEF BackupMoves, Backup, RunInv, NoRun
      <3>2. CASE r.at = "server" /\ r.list = run.list /\ lists' = lists
        BY <2>1, <2>3, <3>2 DEF BackupMoves
      <3> QED BY <2>3, <3>1, <3>2
    <2>4. CASE /\ run.at = "server" /\ lists' = lists
               /\ BackupMoves([run EXCEPT !.at = "database", !.todo = Chosen(run.list[run.n])])
      <3> DEFINE r == [run EXCEPT !.at = "database", !.todo = Chosen(run.list[run.n])]
      <3>1. /\ r.at = "database" /\ r.list = run.list /\ r.n = run.n
            /\ r.todo = Chosen(run.list[run.n])
        BY <1>1
      <3> HIDE DEF r
      <3>2. Backup(r)
        BY <2>4 DEF BackupMoves, r
      <3> QED BY <2>1, <2>4, <3>1, <3>2
    <2>5. ASSUME NEW db \in run.todo, FindHost(db) PROVE RunInv'
      <3> DEFINE server == run.list[run.n]
                 next == [run EXCEPT !.todo = @ \ {db}]
                 found == [run EXCEPT !.at = "found", !.todo = @ \ {db}, !.db = db,
                                      !.place = Place(config.servers, server.name)]
      <3>1. /\ run.at = "database" /\ lists' = lists
            /\ Backup(next) \/ Backup(found)
        BY <2>5 DEF FindHost
      <3>2. run.todo \subseteq Chosen(server) /\ \E l \in lists : Alike(l, config.servers)
        BY <3>1 DEF RunInv
      <3>3. /\ next.at = "database" /\ next.list = run.list /\ next.n = run.n
            /\ next.todo = run.todo \ {db}
        BY <1>1, <3>1
      <3>4. /\ found.at = "found" /\ found.list = run.list /\ found.n = run.n
            /\ found.todo = run.todo \ {db} /\ found.db = db
            /\ found.place = Place(config.servers, server.name)
        BY <1>1
      <3> HIDE DEF next, found
      <3>5. CASE Backup(next)
        BY <2>1, <3>1, <3>2, <3>3, <3>5
      <3>6. CASE Backup(found)
        <4>1. run' = found
          BY <3>6 DEF Backup
        <4>2. PICK l \in lists : Alike(l, config.servers)
          BY <3>2
        <4>3. FoundIn(l, server.name, found.place)
          <5>1. DOMAIN config.servers \subseteq 1..Len(config.servers) /\ Len(config.servers) \in Nat
            BY <1>1 DEF IsList
          <5>2. 0 \notin DOMAIN config.servers
            BY <5>1
          <5>3. Standing(l, server.name) = Standing(config.servers, server.name)
            BY <4>2 DEF Alike, Standing
          <5>4. CASE \E n \in DOMAIN config.servers : config.servers[n].name = server.name
            <6>1. Place(config.servers, server.name) \in Standing(config.servers, server.name)
              BY <5>4 DEF Place, Standing
            <6>2. Place(config.servers, server.name) # 0
              BY <5>2, <6>1 DEF Standing
            <6> QED BY <3>4, <5>3, <6>1, <6>2 DEF FoundIn
          <5>5. CASE ~\E n \in DOMAIN config.servers : config.servers[n].name = server.name
            <6>1. Place(config.servers, server.name) = 0 /\ Standing(config.servers, server.name) = {}
              BY <5>5 DEF Place, Standing
            <6> QED BY <3>4, <5>3, <6>1 DEF FoundIn
          <5> QED BY <5>4, <5>5
        <4>4. found.list[found.n] = server /\ found.db \in Chosen(server)
          BY <3>2, <3>4
        <4> QED BY <2>1, <3>1, <3>2, <3>4, <3>6, <4>3, <4>4
      <3> QED BY <3>1, <3>5, <3>6
    <2>6. CASE Dump
      <3> DEFINE r == [run EXCEPT !.at = "database", !.db = "", !.place = 0]
      <3>1. /\ r.at = "database" /\ r.list = run.list /\ r.n = run.n /\ r.todo = run.todo
        BY <1>1
      <3> HIDE DEF r
      <3>2. Backup(r) /\ run.at = "found" /\ lists' = lists
        BY <2>6 DEF Dump, r
      <3>3. run.todo \subseteq Chosen(run.list[run.n])
        BY <3>2 DEF RunInv
      <3> QED BY <2>1, <3>1, <3>2, <3>3
    <2> QED BY <1>6, <2>2, <2>3, <2>4, <2>5, <2>6, BackupSteps
  <1>7. CASE Panic
    BY <1>4, <1>7 DEF Panic
  <1> QED BY <1>3, <1>4, <1>5, <1>6, <1>7, BackupKinds

(* A dump takes its database from a list that was in force during the       *)
(* backup, and its host from one too, unless the server stood in different  *)
(* places of them.                                                          *)
THEOREM DumpsComeFromTheLists == Spec => DumpsFollowTheLists
  <1>1. Init => RunInv
    <2>1. NoRun.at = "idle"
      BY DEF NoRun
    <2> SUFFICES ASSUME Init PROVE RunInv
      OBVIOUS
    <2>2. run = NoRun
      BY DEF Init
    <2> QED BY <2>1, <2>2 DEF RunInv
  <1>2. TypeInv /\ RunInv /\ [Next]_vars => RunInv'
    BY RunStep
  <1>3. ASSUME TypeInv, RunInv, Dump PROVE FollowsTheLists(run.list[run.n].name)
    <2> DEFINE name == run.list[run.n].name
               default == name = "default" /\ << >> \in lists
    <2>1. /\ run.at = "found" /\ run.place \in DOMAIN config.servers \cup {0}
      BY <1>3 DEF Dump
    <2>2. run.n \in DOMAIN run.list /\ ConfigInv
      BY <1>3, <2>1 DEF TypeInv, TypeOK
    <2>3. PICK l \in lists : FoundIn(l, name, run.place)
      BY <1>3, <2>1 DEF RunInv
    <2>4. PICK m \in lists : Alike(m, config.servers)
      BY <1>3, <2>1 DEF RunInv
    <2>5. default \/ (run.list \in lists /\ run.n \in Standing(run.list, name))
      <3>1. LegacyServer.name = "default"
        BY <2>2, ListsToBackUp
      <3>2. CASE run.list \in lists
        BY <2>2, <3>2 DEF Standing
      <3>3. CASE << >> \in lists /\ run.list = <<LegacyServer>>
        <4>1. run.list[run.n] = LegacyServer
          BY <2>2, <3>3
        <4> QED BY <3>1, <3>3, <4>1
      <3> QED BY <1>3, <2>1, <3>2, <3>3 DEF RunInv
    <2>6. default \/ \E list \in lists : ChosenBy(list, name)
      <3>1. run.db \in Chosen(run.list[run.n])
        BY <1>3, <2>1 DEF RunInv
      <3> QED BY <2>5, <3>1 DEF ChosenBy
    <2>7. \/ default /\ Host = config.legacy.host
          \/ \E list \in lists : HostIn(list, name)
          \/ Moved(name)
      <3>1. CASE run.place = 0
        <4>1. Host = config.legacy.host /\ Standing(l, name) = {}
          BY <2>3, <3>1 DEF Host, FoundIn
        <4>2. default \/ Moved(name)
          BY <2>3, <2>5, <4>1 DEF Moved
        <4> QED BY <4>1, <4>2
      <3>2. CASE run.place # 0
        <4>1. run.place \in Standing(l, name) /\ run.place \in DOMAIN config.servers
          BY <2>1, <2>3, <3>2 DEF FoundIn
        <4>2. Host = config.servers[run.place].host
          BY <3>2 DEF Host
        <4>3. CASE run.place \in Standing(m, name)
          <5>1. m[run.place].host = Host
            BY <2>4, <4>1, <4>2 DEF Alike
          <5> QED BY <2>4, <4>3, <5>1 DEF HostIn
        <4>4. CASE run.place \notin Standing(m, name)
          <5>1. Standing(l, name) # Standing(m, name)
            BY <4>1, <4>4
          <5> QED BY <2>3, <2>4, <5>1 DEF Moved
        <4> QED BY <4>3, <4>4
      <3> QED BY <3>1, <3>2
    <2> QED BY <2>6, <2>7 DEF FollowsTheLists
  <1>4. TypeInv /\ RunInv /\ [Next]_vars =>
            [Dump => FollowsTheLists(run.list[run.n].name)]_vars
    BY <1>3
  <1> QED BY <1>1, <1>2, <1>4, TypeInvariant, PTL DEF Spec, DumpsFollowTheLists

===============================================================================
