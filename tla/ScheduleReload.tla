----------------------------- MODULE ScheduleReload -----------------------------
(***************************************************************************)
(* Schedules: the rows of the metadata database, the backup types of       *)
(* config.CFG, and the entries of the cron scheduler (pkg/api/schedule.go, *)
(* pkg/scheduler/scheduler.go, main.go).                                   *)
(*                                                                         *)
(* Every edit of a schedule starts a goroutine that reads all rows, puts   *)
(* them into config.CFG and rebuilds the cron entries.  Nothing keeps two  *)
(* of these goroutines apart: neither CFG nor Scheduler.jobIDs has a lock. *)
(***************************************************************************)
EXTENDS Integers, FiniteSets, FiniteSetsExt

CONSTANTS
    Schedules,   (* the identifiers of rows, in the order they are read      *)
    Types,       (* backup types                                             *)
    Exprs,       (* cron expressions                                         *)
    ValidExprs,  (* those the cron library parses                            *)
    InitialRows, (* what the database may hold when main first runs          *)
    Reloaders,   (* goroutines running reloadSchedulesFromDatabase           *)
    Faults,      (* what may go wrong                                        *)
    MaxEdits     (* bound: the number of edits                               *)

NoRow == [type |-> "none"]
Row == [type : Types, expr : Exprs, enabled : BOOLEAN]
Rows == [Schedules -> Row \cup {NoRow}]

(* A configuration: an expression for each of some types.                   *)
IsConfig(c) == DOMAIN c \subseteq Types /\ \A t \in DOMAIN c : c[t] \in Exprs

ASSUME ScheduleAssumption ==
    /\ Schedules \subseteq Nat /\ IsFiniteSet(Schedules)
    /\ "none" \notin Types
    /\ ValidExprs \subseteq Exprs
    /\ InitialRows \subseteq Rows
    /\ Faults \subseteq {"db_read", "restart"}
    /\ MaxEdits \in Nat

VARIABLES
    rows,           (* the schedules in the database                         *)
    backupTypes,    (* config.CFG.BackupTypes, its Schedule fields           *)
    entries,        (* the backup entries of the cron scheduler              *)
    nextID,         (* its counter of entry ids                              *)
    retentionJobs,  (* how many entries enforce retention                    *)
    jobIDs,         (* Scheduler.jobIDs                                      *)
    pc,             (* where each goroutine is                               *)
    read,           (* the configuration it built, later the one it installs *)
    todo,           (* the types its loop has left                           *)
    job,            (* the type, and the entry id, it is working on          *)
    request,        (* the update its handler is about to save               *)
    deleted         (* the identifiers of deleted rows: no uuid comes twice  *)

(* Observed, not used: how many edits there were; whether, since main ran,  *)
(* two reloads were under way at once or one could not read the rows; the   *)
(* deletions that met an update.                                            *)
VARIABLES edits, overlapped, unread, raced

scheduler == <<entries, nextID, retentionJobs, jobIDs>>
vars == <<rows, backupTypes, entries, nextID, retentionJobs, jobIDs,
          pc, read, todo, job, request, deleted, edits, overlapped, unread, raced>>
ghosts == <<request, deleted, edits, overlapped, unread, raced>>

NoConfig == [t \in {} |-> ""]
NoJob == [type |-> "none", id |-> 0]
NoRequest == [id |-> 0, row |-> NoRow]

(* The rows as a configuration: disabled ones are skipped, and of several   *)
(* for one type the last one read is kept.                                  *)
EnabledFor(rs, t) == {s \in Schedules : rs[s] # NoRow /\ rs[s].type = t /\ rs[s].enabled}

FromRows(rs) ==
    [t \in {u \in Types : EnabledFor(rs, u) # {}} |-> rs[Max(EnabledFor(rs, t))].expr]

(* SetupJobs as main calls it, alone, numbering the entries in any order.   *)
Accepted(config) == {t \in DOMAIN config : config[t] \in ValidExprs}

Numberings(config) ==
    {id \in [Accepted(config) -> 1..Cardinality(Accepted(config))] :
        \A t, u \in Accepted(config) : id[t] = id[u] => t = u}

EntriesOf(config, id) ==
    {[id |-> id[t], type |-> t, expr |-> config[t]] : t \in Accepted(config)}

Init ==
    /\ rows \in InitialRows
    /\ FromRows(rows) # NoConfig      (* or main ends: the defaults are invalid *)
    /\ backupTypes = FromRows(rows)
    /\ jobIDs \in Numberings(backupTypes)
    /\ entries = EntriesOf(backupTypes, jobIDs)
    /\ nextID = Cardinality(entries) + 1
    /\ retentionJobs = 1
    /\ pc = [r \in Reloaders |-> "idle"]
    /\ read = [r \in Reloaders |-> NoConfig]
    /\ todo = [r \in Reloaders |-> {}]
    /\ job = [r \in Reloaders |-> NoJob]
    /\ request = [r \in Reloaders |-> NoRequest]
    /\ deleted = {}
    /\ edits = 0
    /\ overlapped = FALSE
    /\ unread = FALSE
    /\ raced = {}

-------------------------------------------------------------------------------
At(r, label) == pc[r] = label
Goto(r, label) == pc' = [pc EXCEPT ![r] = label]
Quiet == \A r \in Reloaders : pc[r] \in {"idle", "saving"}

Saving(s) == {r \in Reloaders : At(r, "saving") /\ request[r].id = s}

(* What an insert stores: gorm replaces a zero field by the default of its  *)
(* tag, and the tag of Enabled says default:true.                           *)
Inserted(row) == [row EXCEPT !.enabled = TRUE]

(* Each request ends in a write of a row, then a goroutine is started.      *)
Commit(r, s, row) ==
    /\ rows' = [rows EXCEPT ![s] = row]
    /\ edits' = edits + 1
    /\ overlapped' = (overlapped \/ \E q \in Reloaders : pc[q] \notin {"idle", "saving"})
    /\ Goto(r, "read")
    /\ UNCHANGED <<backupTypes, scheduler, read, todo, job, unread>>

Create(r, s, row) ==
    /\ At(r, "idle")
    /\ edits < MaxEdits
    /\ rows[s] = NoRow /\ s \notin deleted
    /\ Commit(r, s, Inserted(row))
    /\ UNCHANGED <<request, deleted, raced>>

(* An update looks for its row (GetScheduleByID, ScheduleExists), and saves *)
(* it in a transaction of its own.  Mutant: it does not look.               *)
CheckNothing(r, s, row) ==
    /\ At(r, "idle")
    /\ edits < MaxEdits
    /\ request' = [request EXCEPT ![r] = [id |-> s, row |-> row]]
    /\ Goto(r, "saving")
    /\ UNCHANGED <<rows, backupTypes, scheduler, read, todo, job, deleted, edits,
                   overlapped, unread, raced>>

Check(r, s, row) ==
    /\ At(r, "idle")
    /\ edits < MaxEdits
    /\ rows[s] # NoRow
    /\ request' = [request EXCEPT ![r] = [id |-> s, row |-> row]]
    /\ Goto(r, "saving")
    /\ UNCHANGED <<rows, backupTypes, scheduler, read, todo, job, deleted, edits,
                   overlapped, unread, raced>>

(* Save updates the row, or inserts it again when it is gone by then.       *)
Save(r) ==
    /\ At(r, "saving")
    /\ edits < MaxEdits
    /\ LET s == request[r].id
           row == request[r].row
       IN  Commit(r, s, IF rows[s] = NoRow THEN Inserted(row) ELSE row)
    /\ request' = [request EXCEPT ![r] = NoRequest]
    /\ UNCHANGED <<deleted, raced>>

Delete(r, s) ==
    /\ At(r, "idle")
    /\ edits < MaxEdits
    /\ rows[s] # NoRow
    /\ deleted' = deleted \cup {s}
    /\ raced' = raced \cup {u \in {s} : Saving(s) # {}}
    /\ Commit(r, s, NoRow)
    /\ UNCHANGED request

(* GetAllSchedules, and the new configuration built from its answer.        *)
Read(r) ==
    /\ At(r, "read")
    /\ \/ /\ read' = [read EXCEPT ![r] = FromRows(rows)]
          /\ unread' = FALSE
          /\ Goto(r, "publish")
       \/ /\ "db_read" \in Faults
          /\ unread' = TRUE
          /\ Goto(r, "idle")
          /\ UNCHANGED read
    /\ UNCHANGED <<rows, backupTypes, scheduler, todo, job, request, deleted, edits,
                   overlapped, raced>>

(* The comment calls this a critical section.  The mutant keeps the old     *)
(* configuration when there is no enabled row, as main's loader does.       *)
PublishUnlessEmpty(r) ==
    /\ At(r, "publish")
    /\ backupTypes' = IF read[r] = NoConfig THEN backupTypes ELSE read[r]
    /\ Goto(r, "reload")
    /\ UNCHANGED <<rows, scheduler, read, todo, job, ghosts>>

Publish(r) ==
    /\ At(r, "publish")
    /\ backupTypes' = read[r]
    /\ Goto(r, "reload")
    /\ UNCHANGED <<rows, scheduler, read, todo, job, ghosts>>

(* ReloadSchedules ranges over jobIDs.  A key another goroutine deletes is  *)
(* not visited any more, one it adds may be or not.                         *)
StartRemoval(r) ==
    /\ At(r, "reload")
    /\ todo' = [todo EXCEPT ![r] = DOMAIN jobIDs]
    /\ Goto(r, "removing")
    /\ UNCHANGED <<rows, backupTypes, scheduler, read, job, ghosts>>

(* Mutant: the entry stays in the cron scheduler.                           *)
RemoveEntryNot(r, t) ==
    /\ At(r, "removing")
    /\ t \in DOMAIN jobIDs
    /\ job' = [job EXCEPT ![r] = [type |-> t, id |-> jobIDs[t]]]
    /\ Goto(r, "deleting")
    /\ UNCHANGED <<rows, backupTypes, scheduler, read, todo, ghosts>>

RemoveEntry(r, t) ==
    /\ At(r, "removing")
    /\ t \in DOMAIN jobIDs
    /\ entries' = {e \in entries : e.id # jobIDs[t]}
    /\ job' = [job EXCEPT ![r] = [type |-> t, id |-> jobIDs[t]]]
    /\ Goto(r, "deleting")
    /\ UNCHANGED <<rows, backupTypes, nextID, retentionJobs, jobIDs, read, todo, ghosts>>

(* Mutant: the key is left behind.                                          *)
DeleteKeyNot(r) ==
    /\ At(r, "deleting")
    /\ todo' = [todo EXCEPT ![r] = @ \ {job[r].type}]
    /\ job' = [job EXCEPT ![r] = NoJob]
    /\ Goto(r, "removing")
    /\ UNCHANGED <<rows, backupTypes, entries, nextID, retentionJobs, jobIDs, read, ghosts>>

DeleteKey(r) ==
    /\ At(r, "deleting")
    /\ jobIDs' = [t \in DOMAIN jobIDs \ {job[r].type} |-> jobIDs[t]]
    /\ todo' = [todo EXCEPT ![r] = @ \ {job[r].type}]
    /\ job' = [job EXCEPT ![r] = NoJob]
    /\ Goto(r, "removing")
    /\ UNCHANGED <<rows, backupTypes, entries, nextID, retentionJobs, read, ghosts>>

(* SetupJobs ranges over the map CFG.BackupTypes is at that moment.         *)
(* Mutant: over the map this goroutine had read from the database.          *)
StartSetupAsRead(r) ==
    /\ At(r, "removing")
    /\ todo[r] \cap DOMAIN jobIDs = {}
    /\ todo' = [todo EXCEPT ![r] = DOMAIN read[r]]
    /\ Goto(r, "adding")
    /\ UNCHANGED <<rows, backupTypes, scheduler, read, job, ghosts>>

StartSetup(r) ==
    /\ At(r, "removing")
    /\ todo[r] \cap DOMAIN jobIDs = {}
    /\ read' = [read EXCEPT ![r] = backupTypes]
    /\ todo' = [todo EXCEPT ![r] = DOMAIN backupTypes]
    /\ Goto(r, "adding")
    /\ UNCHANGED <<rows, backupTypes, scheduler, job, ghosts>>

(* AddFunc; an expression that does not parse is logged and passed over.    *)
(* The mutant does not look.                                                *)
AddEntryUnparsed(r, t) ==
    /\ At(r, "adding")
    /\ t \in todo[r]
    /\ todo' = [todo EXCEPT ![r] = @ \ {t}]
    /\ entries' = entries \cup {[id |-> nextID, type |-> t, expr |-> read[r][t]]}
    /\ nextID' = nextID + 1
    /\ job' = [job EXCEPT ![r] = [type |-> t, id |-> nextID]]
    /\ Goto(r, "storing")
    /\ UNCHANGED <<rows, backupTypes, retentionJobs, jobIDs, read, ghosts>>

AddEntry(r, t) ==
    /\ At(r, "adding")
    /\ t \in todo[r]
    /\ todo' = [todo EXCEPT ![r] = @ \ {t}]
    /\ \/ /\ read[r][t] \in ValidExprs
          /\ entries' = entries \cup {[id |-> nextID, type |-> t, expr |-> read[r][t]]}
          /\ nextID' = nextID + 1
          /\ job' = [job EXCEPT ![r] = [type |-> t, id |-> nextID]]
          /\ Goto(r, "storing")
       \/ /\ read[r][t] \notin ValidExprs
          /\ UNCHANGED <<entries, nextID, job, pc>>
    /\ UNCHANGED <<rows, backupTypes, retentionJobs, jobIDs, read, ghosts>>

StoreID(r) ==
    /\ At(r, "storing")
    /\ jobIDs' = [t \in DOMAIN jobIDs \cup {job[r].type} |->
                     IF t = job[r].type THEN job[r].id ELSE jobIDs[t]]
    /\ job' = [job EXCEPT ![r] = NoJob]
    /\ Goto(r, "adding")
    /\ UNCHANGED <<rows, backupTypes, entries, nextID, retentionJobs, read, todo, ghosts>>

(* The last thing SetupJobs does, whoever called it.                        *)
AddRetention(r) ==
    /\ At(r, "adding")
    /\ todo[r] = {}
    /\ retentionJobs' = retentionJobs + 1
    /\ read' = [read EXCEPT ![r] = NoConfig]
    /\ Goto(r, "idle")
    /\ UNCHANGED <<rows, backupTypes, entries, nextID, jobIDs, todo, job, ghosts>>

(* The process ends and main runs again: at any time, or because the Go     *)
(* runtime found two goroutines in the map jobIDs at once.                  *)
InMap(r) == pc[r] \in {"removing", "deleting", "storing"}

Restart ==
    /\ \/ "restart" \in Faults
       \/ \E r, q \in Reloaders : r # q /\ InMap(r) /\ InMap(q)
    /\ FromRows(rows) # NoConfig
    /\ backupTypes' = FromRows(rows)
    /\ jobIDs' \in Numberings(backupTypes')
    /\ entries' = EntriesOf(backupTypes', jobIDs')
    /\ nextID' = Cardinality(entries') + 1
    /\ retentionJobs' = 1
    /\ pc' = [r \in Reloaders |-> "idle"]
    /\ read' = [r \in Reloaders |-> NoConfig]
    /\ todo' = [r \in Reloaders |-> {}]
    /\ job' = [r \in Reloaders |-> NoJob]
    /\ request' = [r \in Reloaders |-> NoRequest]
    /\ overlapped' = FALSE
    /\ unread' = FALSE
    /\ UNCHANGED <<rows, deleted, edits, raced>>

Reload(r) ==
    \/ Read(r) \/ Publish(r) \/ StartRemoval(r) \/ DeleteKey(r) \/ StartSetup(r)
    \/ StoreID(r) \/ AddRetention(r) \/ Save(r)
    \/ \E t \in Types : RemoveEntry(r, t) \/ AddEntry(r, t)

Next ==
    \/ \E r \in Reloaders :
          \/ Reload(r)
          \/ \E s \in Schedules :
                Delete(r, s) \/ \E row \in Row : Create(r, s, row) \/ Check(r, s, row)
    \/ Restart

Spec == Init /\ [][Next]_vars

-------------------------------------------------------------------------------
Entry == [id : Nat \ {0}, type : Types, expr : ValidExprs]

TypeOK ==
    /\ rows \in Rows
    /\ IsConfig(backupTypes)
    /\ entries \subseteq Entry
    /\ nextID \in Nat \ {0}
    /\ retentionJobs \in Nat \ {0}
    /\ DOMAIN jobIDs \subseteq Types /\ \A t \in DOMAIN jobIDs : jobIDs[t] \in 1..(nextID - 1)
    /\ pc \in [Reloaders -> {"idle", "saving", "read", "publish", "reload", "removing", "deleting",
                             "adding", "storing"}]
    /\ \A r \in Reloaders : IsConfig(read[r]) /\ todo[r] \subseteq Types
    /\ \A r \in Reloaders : request[r] # NoRequest => request[r] \in [id : Schedules, row : Row]
    /\ raced \subseteq deleted /\ deleted \subseteq Schedules
    /\ edits \in Nat

(* However reloads overlap, once they are over every backup type whose      *)
(* expression parses has an entry that fires at that expression: one        *)
(* goroutine removes what another added only before it adds it again.       *)
NoScheduleLost ==
    Quiet => \A t \in Accepted(backupTypes) :
                 \E e \in entries : e.type = t /\ e.expr = backupTypes[t]

(* An id in jobIDs is that of an entry of its type, but for the moment      *)
(* between the two statements that remove the entry and the key.            *)
NoDanglingID ==
    \A t \in DOMAIN jobIDs :
        \/ \E e \in entries : e.id = jobIDs[t] /\ e.type = t
        \/ \E r \in Reloaders : At(r, "deleting") /\ job[r].type = t

(* Reloads that do not overlap leave exactly one entry per accepted type    *)
(* and none besides ("removes all existing jobs and re-creates them based   *)
(* on current configuration").                                              *)
EntriesAreTheConfiguration ==
    (Quiet /\ ~overlapped) =>
        /\ \A e \in entries : /\ e.type \in Accepted(backupTypes)
                              /\ jobIDs[e.type] = e.id
                              /\ e.expr = backupTypes[e.type]
        /\ DOMAIN jobIDs = Accepted(backupTypes)

(* Once reloads that did not overlap are over, the last of which could read *)
(* the rows, the configuration is that of the rows ("Changes to schedules   *)
(* and servers are picked up automatically without restart").               *)
ConfigurationFollowsRows ==
    (Quiet /\ ~overlapped /\ ~unread) => backupTypes = FromRows(rows)

(* A deleted schedule stays deleted, unless an update of it had looked for  *)
(* its row before the deletion ("UpdateSchedule updates an existing backup  *)
(* schedule"): only the gap between the look and the save brings one back.  *)
DeletedStaysDeleted == \A s \in deleted \ raced : rows[s] = NoRow

===============================================================================
