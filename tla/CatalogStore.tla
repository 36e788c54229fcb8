----------------------------- MODULE CatalogStore ------------------------------
(***************************************************************************)
(* The database-backed metadata store (pkg/metadata/mysql_store.go): the   *)
(* backups, their local paths and their S3 keys in three tables and the    *)
(* totals in a fourth, edited under a mutex by transactions of several     *)
(* statements.  A statement may fail and the process may die between any   *)
(* two: the database then forgets the transaction.                         *)
(*                                                                         *)
(* At start the process connects, imports metadata.json, and only then     *)
(* publishes the store.  The database itself is external: it commits a     *)
(* transaction whole or not at all, refuses a child row without its parent *)
(* and a second row with one identifier, and deletes children with their   *)
(* parent.                                                                 *)
(***************************************************************************)
EXTENDS BackupRecords

CONSTANTS
    Sizes,         (* sizes of backup files                                  *)
    LocalEnabled,  (* config.CFG.Local.Enabled                               *)
    LegacyFiles,   (* what metadata.json may hold when the database is first *)
                   (* enabled; it is never written again                     *)
    Faults,        (* the faults that may happen                             *)
    MaxAttempts,   (* bound: the nested attempts the stack has room for      *)
    MaxClock       (* bound: the last second                                 *)

FaultKinds == {"crash", "connect_error", "statement_error"}

ASSUME CatalogAssumption ==
    /\ Sizes \subseteq Nat
    /\ LocalEnabled \in BOOLEAN
    /\ \A f \in LegacyFiles :
          f.state \in {"absent", "torn", "whole"} /\ IsLog(f.log)
    /\ Faults \subseteq FaultKinds
    /\ MaxAttempts \in Nat \ {0}
    /\ MaxClock \in Nat

VARIABLES
    phase,     (* of the process: "down", "opening", "importing" or "up"     *)
    attempts,  (* InitializeMetadataDatabase frames on the stack             *)
    db,        (* the committed tables                                       *)
    tx,        (* the transaction of the operation that holds the mutex      *)
    handles,   (* identifiers CreateBackupMeta returned to this process      *)
    file,      (* metadata.json                                              *)
    clock      (* the second time.Now() returns                              *)

vars == <<phase, attempts, db, tx, handles, file, clock>>

-------------------------------------------------------------------------------
(* The tables.  A row of "backups" is a record without its identifier, the  *)
(* primary key, and without its paths, which are rows of "local_paths".     *)
NoTables ==
    [rows |-> EmptyLog, paths |-> {}, keys |-> {}, stats |-> Totals(EmptyLog)]

RowOf(r) == [target |-> r.target, status |-> r.status, s3 |-> r.s3,
             size |-> r.size, doneAt |-> r.doneAt]

Children(table, id) == {o \in Organisations : <<id, o>> \in table}
WithoutChildren(table, ids) == {c \in table : c[1] \notin ids}

(* convertToBackupMetas: a row with its children, as the callers see it.    *)
Converted(d, id) ==
    LET row == d.rows[id]
    IN  [id |-> id, target |-> row.target, status |-> row.status, s3 |-> row.s3,
         paths |-> Children(d.paths, id), size |-> row.size, doneAt |-> row.doneAt]

GetBackups(d) == [id \in DOMAIN d.rows |-> Converted(d, id)]

(* The totals of the two statistics: one is stored, the other is counted.   *)
GetStats(d) == d.stats
GetStatsOptimized(d) == Totals(d.rows)

(* What a caller passes: paths of a backup that succeeded, keys of an       *)
(* upload that did.                                                         *)
LocalPaths(status) ==
    IF status = "success" /\ LocalEnabled THEN Organisations ELSE {}
KeysFor(status) == IF status = "success" THEN Organisations ELSE {}

(* A new row with children taken over from a record.                        *)
Inserted(d, r) ==
    [d EXCEPT !.rows = [id \in DOMAIN @ \cup {r.id} |->
                           IF id = r.id THEN RowOf(r) ELSE @[id]],
              !.paths = @ \cup {<<r.id, o>> : o \in r.paths},
              !.keys = @ \cup {<<r.id, o>> : o \in KeysFor(r.s3)}]

NoTx == [stage |-> "none"]

Init ==
    /\ phase = "down"
    /\ attempts = 0
    /\ db = NoTables
    /\ tx = NoTx
    /\ handles = {}
    /\ file \in LegacyFiles
    /\ clock = 2

-------------------------------------------------------------------------------
(* The statements of a transaction.                                         *)
Running(stage) == tx.stage = stage

Advance(stage, work) ==
    /\ tx' = [tx EXCEPT !.stage = stage, !.work = work]
    /\ UNCHANGED <<phase, attempts, db, handles, file, clock>>

(* The mutex is released; an import is followed by the publication of the   *)
(* store whether or not it worked.                                          *)
Finish ==
    /\ tx' = NoTx
    /\ phase' = "up"
    /\ attempts' = 0
    /\ UNCHANGED <<handles, file, clock>>

Rollback == Finish /\ UNCHANGED db

StatementFails == "statement_error" \in Faults /\ ~Running("none") /\ Rollback

(* UPDATE backups SET ... WHERE id = ?  touches nothing for an unknown id.  *)
Edited(row, op) ==
    IF op.kind = "status"
    THEN [row EXCEPT !.status = op.status, !.size = op.size, !.doneAt = op.at]
    ELSE [row EXCEPT !.s3 = op.status]

Updated(d, op) ==
    [d EXCEPT !.rows = [id \in DOMAIN @ |->
                           IF id = op.id THEN Edited(@[id], op) ELSE @[id]]]

UpdateRow == Running("update") /\ Advance("clear", Updated(tx.work, tx.op))

(* Mutant: the old children stay.                                           *)
KeepChildren == Running("clear") /\ Advance("insert", tx.work)

ClearChildren ==
    /\ Running("clear")
    /\ LET ids == {tx.op.id}
       IN  Advance("insert", IF tx.op.kind = "status"
                             THEN [tx.work EXCEPT !.paths = WithoutChildren(@, ids)]
                             ELSE [tx.work EXCEPT !.keys = WithoutChildren(@, ids)])

InsertChildren ==
    /\ Running("insert")
    /\ LET new == {<<tx.op.id, o>> : o \in tx.op.children}
       IN  \/ /\ new = {} \/ tx.op.id \in DOMAIN tx.work.rows
              /\ Advance("stats", IF tx.op.kind = "status"
                                  THEN [tx.work EXCEPT !.paths = @ \cup new]
                                  ELSE [tx.work EXCEPT !.keys = @ \cup new])
           \/ /\ new # {} /\ tx.op.id \notin DOMAIN tx.work.rows
              /\ Rollback

(* Mutant: the totals are counted from the rows before the transaction.     *)
updateStatsTooEarly ==
    /\ Running("stats")
    /\ Advance("commit", [tx.work EXCEPT !.stats = Totals(db.rows)])

updateStats ==
    /\ Running("stats")
    /\ Advance("commit", [tx.work EXCEPT !.stats = Totals(tx.work.rows)])

Commit == Running("commit") /\ db' = tx.work /\ Finish

Begin(stage, op) ==
    /\ phase = "up" /\ Running("none")
    /\ tx' = [op |-> op, stage |-> stage, work |-> db]
    /\ UNCHANGED <<phase, attempts, db, handles, file, clock>>

-------------------------------------------------------------------------------
(* The operations of the store.                                             *)
UpdateBackupStatus(id, status, size) ==
    Begin("update", [kind |-> "status", id |-> id, status |-> status,
                     size |-> size, at |-> clock, children |-> LocalPaths(status)])

UpdateS3UploadStatus(id, status) ==
    Begin("update", [kind |-> "upload", id |-> id, status |-> status,
                     children |-> KeysFor(status)])

(* One statement and no transaction.  An insert that fails, because the     *)
(* database does or because the identifier is taken, is only logged: the    *)
(* caller gets its identifier all the same.                                 *)
Free ==
    /\ phase = "up" /\ Running("none")
    /\ UNCHANGED <<phase, attempts, tx, file, clock>>

CreateBackupMeta(t) ==
    LET id == IdAt(t, clock)
    IN  /\ Free
        /\ handles' = handles \cup {id}
        /\ \/ /\ id \notin DOMAIN db.rows
              /\ db' = Inserted(db, NewRecord(t, clock))
           \/ /\ id \in DOMAIN db.rows \/ "statement_error" \in Faults
              /\ UNCHANGED db

(* Marking a backup deleted leaves the totals alone.                        *)
MarkBackupDeleted(id) ==
    /\ Free
    /\ db' = [db EXCEPT !.rows =
                 [i \in DOMAIN @ |-> IF i = id THEN Deleted(@[i]) ELSE @[i]]]
    /\ UNCHANGED handles

PurgeDeletedBackups == Begin("count", [kind |-> "purge", at |-> clock])

(* Mutant: the query forgets the status.                                    *)
ExpiredByAge(row, at) == row.doneAt # NoTime /\ row.doneAt + PurgeAge < at

(* completed_at < threshold: strict, and never true of a NULL, so that a    *)
(* backup deleted before it finished stays for ever.                        *)
Expired(row, at) ==
    row.status = "deleted" /\ row.doneAt # NoTime /\ row.doneAt + PurgeAge < at

ExpiredIds(d, at) == {id \in DOMAIN d.rows : Expired(d.rows[id], at)}

CountExpired ==
    /\ Running("count")
    /\ \/ ExpiredIds(tx.work, tx.op.at) # {} /\ Advance("delete", tx.work)
       \/ ExpiredIds(tx.work, tx.op.at) = {} /\ Rollback

(* The rows go, and ON DELETE CASCADE takes their children.                 *)
Removed(d, ids) ==
    [d EXCEPT !.rows = [id \in DOMAIN @ \ ids |-> @[id]],
              !.paths = WithoutChildren(@, ids),
              !.keys = WithoutChildren(@, ids)]

DeleteExpired ==
    /\ Running("delete")
    /\ Advance("stats", Removed(tx.work, ExpiredIds(tx.work, tx.op.at)))

-------------------------------------------------------------------------------
(* InitializeMetadataDatabase.                                              *)
Start ==
    /\ phase = "down"
    /\ phase' = "opening"
    /\ attempts' = 1
    /\ UNCHANGED <<db, tx, handles, file, clock>>

(* Connecting or creating the tables fails.  "Falling back" calls           *)
(* Initialize, which calls InitializeMetadataDatabase again as long as the  *)
(* database is enabled, until the stack is used up and the process dies.    *)
ConnectFails ==
    /\ phase = "opening" /\ "connect_error" \in Faults
    /\ \/ attempts < MaxAttempts /\ attempts' = attempts + 1 /\ UNCHANGED phase
       \/ attempts = MaxAttempts /\ attempts' = 0 /\ phase' = "down"
    /\ UNCHANGED <<db, tx, handles, file, clock>>

(* A file that is missing or does not parse is left alone; the records of a *)
(* good one are imported in their order, at every start.                    *)
Connect ==
    /\ phase = "opening"
    /\ \/ /\ ~LocalEnabled \/ file.state # "whole"
          /\ phase' = "up"
          /\ attempts' = 0
          /\ UNCHANGED tx
       \/ /\ LocalEnabled /\ file.state = "whole"
          /\ phase' = "importing"
          /\ tx' = [op |-> [kind |-> "import", todo |-> DOMAIN file.log],
                    stage |-> "import", work |-> db]
          /\ UNCHANGED attempts
    /\ UNCHANGED <<db, handles, file, clock>>

(* Mutant: a record is imported over the row that has its identifier.       *)
ImportOver(d, r) == Inserted(d, r)

(* A record whose identifier is taken is skipped.                           *)
Imported(d, r) == IF r.id \in DOMAIN d.rows THEN d ELSE Inserted(d, r)

ImportRecord ==
    /\ Running("import")
    /\ \/ /\ tx.op.todo = {}
          /\ Advance("stats", tx.work)
       \/ \E n \in tx.op.todo :
             /\ \A m \in tx.op.todo : n <= m
             /\ tx' = [tx EXCEPT !.op.todo = @ \ {n}, !.work = Imported(@, file.log[n])]
             /\ UNCHANGED <<phase, attempts, db, handles, file, clock>>

Crash ==
    /\ "crash" \in Faults /\ phase # "down"
    /\ phase' = "down"
    /\ attempts' = 0
    /\ tx' = NoTx
    /\ handles' = {}
    /\ UNCHANGED <<db, file, clock>>

Tick ==
    /\ clock < MaxClock
    /\ clock' = clock + 1
    /\ UNCHANGED <<phase, attempts, db, tx, handles, file>>

Next ==
    \/ Start \/ Connect \/ ConnectFails \/ ImportRecord \/ Crash \/ Tick
    \/ UpdateRow \/ ClearChildren \/ InsertChildren \/ CountExpired \/ DeleteExpired
    \/ updateStats \/ Commit \/ StatementFails \/ PurgeDeletedBackups
    \/ \E t \in Targets : CreateBackupMeta(t)
    \/ \E id \in handles :
          \/ \E size \in Sizes : UpdateBackupStatus(id, "success", size)
          \/ UpdateBackupStatus(id, "error", 0)
          \/ \E status \in {"success", "error"} : UpdateS3UploadStatus(id, status)
    \/ \E id \in handles \cup DOMAIN db.rows : MarkBackupDeleted(id)

Spec == Init /\ [][Next]_vars

-------------------------------------------------------------------------------
IsTables(d) ==
    /\ \A id \in DOMAIN d.rows : id \in Ids /\ Converted(d, id) \in Record
    /\ d.paths \subseteq Ids \X Organisations
    /\ d.keys \subseteq Ids \X Organisations

TypeOK ==
    /\ phase \in {"down", "opening", "importing", "up"}
    /\ attempts \in 0..MaxAttempts
    /\ IsTables(db)
    /\ tx.stage \in {"none", "update", "clear", "insert", "count", "delete",
                     "import", "stats", "commit"}
    /\ tx.stage # "none" => IsTables(tx.work)
    /\ handles \subseteq Ids
    /\ clock \in Nat

(* Three tables, transactions of four or five statements, failures in the   *)
(* middle and crashes look to the callers like a catalogue that is edited   *)
(* one entry and one step at a time.                                        *)
Contract == INSTANCE Catalog WITH entries <- GetBackups(db), shown <- GetStats(db)
ImplementsCatalog == Contract!CatalogSpec

(* The stored totals lag behind the rows by deletions only: the S3 total is *)
(* always exact, and the local total, which GetStats shows, exceeds what    *)
(* GetStatsOptimized counts by no more than the deleted backups' sizes.     *)
DeletedSize(rows) ==
    SumFunctionOnSet([id \in DOMAIN rows |-> rows[id].size],
                     {id \in DOMAIN rows : rows[id].status = "deleted"})

TotalsLagByDeletions ==
    LET stored == GetStats(db)
        exact  == GetStatsOptimized(db)
    IN  /\ stored.s3 = exact.s3
        /\ stored.local \in exact.local .. exact.local + DeletedSize(db.rows)

(* The child tables follow the rows: no path or key outlives its backup,    *)
(* and a backup has keys exactly when its upload succeeded and paths only   *)
(* if it did, however its two outcomes and repeated outcomes interleave.    *)
ChildrenFollowRows ==
    /\ \A c \in db.paths \cup db.keys : c[1] \in DOMAIN db.rows
    /\ \A id \in DOMAIN db.rows :
          /\ Children(db.keys, id) = KeysFor(db.rows[id].s3)
          /\ db.rows[id].status # "deleted" =>
                Children(db.paths, id) = LocalPaths(db.rows[id].status)

(* A migration that commits leaves no identifier of metadata.json behind,   *)
(* and what it adds is the first record of the file with that identifier.   *)
MigrationKeepsHistory ==
    [][(phase = "importing" /\ Running("commit") /\ db' = tx.work) =>
          \A n \in DOMAIN file.log :
             LET id == file.log[n].id
             IN  /\ id \in DOMAIN db'.rows
                 /\ (id \notin DOMAIN db.rows /\ IsFirst(file.log, id, n)) =>
                       GetBackups(db')[id] = file.log[n]]_vars
===============================================================================
